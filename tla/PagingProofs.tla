----------------------------- MODULE PagingProofs -----------------------------
(***************************************************************************)
(* A client that pages through a map misses nothing, whatever the keys,    *)
(* the limits and the messages between two pages are.                      *)
(***************************************************************************)
EXTENDS Paging, FiniteSetTheorems, WellFoundedInduction, TLAPS

\* No client asks for a page without entries, and calc_limit makes it none.
LEMMA LimitIsPositive ==
  ASSUME NEW request \in Requests
  PROVE  Limit(request) \in Nat /\ Limit(request) > 0
BY PagingAssumption DEF Limit

\* Of the keys in a set one is the first, as their order has no descent.
LEMMA FirstKey ==
  ASSUME NEW S, S \subseteq Keys, S # {}
  PROVE  \E m \in S : \A k \in S : m <= k
<1>1. S \subseteq Nat
  BY PagingAssumption
<1>2. PICK m \in S : \A k \in S : ~ (<<k, m>> \in OpToRel(<, Nat))
  BY <1>1, NatLessThanWellFounded, WFMin, Zenon
<1>3. \A k \in S : ~ (k < m)
  BY <1>1, <1>2 DEF OpToRel
<1>4. \A k \in S : m <= k
  BY <1>1, <1>3
<1> QED
  BY <1>4

\* As long as an entry is listed after the cursor, the page has one.
LEMMA PageIsEmptyAtTheEnd ==
  ASSUME TypeOK, NEW limit \in Nat, limit > 0, Page(limit) = {}
  PROVE  \A k \in Listed : ~ Beyond(k)
<1> DEFINE Rest == {k \in Listed : Beyond(k)}
<1>1. SUFFICES ASSUME Rest # {} PROVE FALSE
  OBVIOUS
<1>2. Rest \subseteq Keys
  BY DEF Listed, Stored
<1>3. PICK m \in Rest : \A k \in Rest : m <= k
  BY <1>1, <1>2, FirstKey
<1>4. {j \in Listed : Beyond(j) /\ j < m} = {}
  <2> SUFFICES ASSUME NEW j \in Listed, Beyond(j), j < m PROVE FALSE
    OBVIOUS
  <2>1. m <= j
    BY <1>3
  <2>2. m \in Nat /\ j \in Nat
    BY <1>2, <1>3, PagingAssumption
  <2> QED
    BY <2>1, <2>2
<1>5. Cardinality({j \in Listed : Beyond(j) /\ j < m}) = 0
  BY <1>4, FS_EmptySet
<1>6. m \in Page(limit)
  BY <1>3, <1>5 DEF Page
<1> QED
  BY <1>6

\* A page leaves out no listed key between the cursor and its own last key.
LEMMA PageHasNoGap ==
  ASSUME TypeOK, NEW limit \in Nat, NEW last \in Page(limit),
         NEW k \in Listed, Beyond(k), k <= last
  PROVE  k \in Page(limit)
<1> DEFINE Before(x) == {j \in Listed : Beyond(j) /\ j < x}
<1>1. /\ Listed \subseteq Keys /\ last \in Listed
      /\ k \in Nat /\ last \in Nat /\ Listed \subseteq Nat
  BY PagingAssumption DEF Listed, Stored, Page
<1>2. IsFiniteSet(Before(last))
  BY <1>1, PagingAssumption, FS_Subset
<1>3. Before(k) \subseteq Before(last)
  <2> SUFFICES ASSUME NEW j \in Listed, j < k PROVE j < last
    OBVIOUS
  <2>1. j \in Nat
    BY <1>1
  <2> QED
    BY <1>1, <2>1
<1>4. Cardinality(Before(k)) <= Cardinality(Before(last))
  BY <1>2, <1>3, FS_Subset
<1>5. Cardinality(Before(last)) < limit
  BY DEF Page
<1>6. /\ Cardinality(Before(k)) \in Nat /\ Cardinality(Before(last)) \in Nat
  BY <1>2, <1>3, FS_Subset, FS_CardinalityType
<1>7. Cardinality(Before(k)) < limit
  BY <1>4, <1>5, <1>6
<1> QED
  BY <1>7 DEF Page

-----------------------------------------------------------------------------
THEOREM PagingTypeOK == Spec => []TypeOK
<1>1. Init => TypeOK
  <2> SUFFICES ASSUME Init PROVE TypeOK
    OBVIOUS
  <2>1. height \in 0 .. MaxHeight
    BY PagingAssumption DEF Init
  <2>2. Listed \subseteq Listed
    OBVIOUS
  <2> QED
    BY <2>1, <2>2 DEF Init, TypeOK
<1>2. TypeOK /\ [Next]_vars => TypeOK'
  <2> SUFFICES ASSUME TypeOK, [Next]_vars PROVE TypeOK'
    OBVIOUS
  <2>1. CASE Read
    BY <2>1 DEF Read, TypeOK, Page, Listed, Stored, HidesExpired, IsExpired, Deadlines
  <2>2. CASE Put
    BY <2>2 DEF Put, StillListed, TypeOK, Deadlines, HidesExpired
  <2>3. CASE Remove
    BY <2>3 DEF Remove, StillListed, TypeOK, Deadlines, HidesExpired
  <2>4. CASE NextBlock
    BY <2>4, PagingAssumption DEF NextBlock, StillListed, TypeOK, Deadlines, HidesExpired
  <2>5. CASE UNCHANGED vars
    BY <2>5 DEF vars, TypeOK, Listed, Stored, HidesExpired, IsExpired, Deadlines
  <2> QED
    BY <2>1, <2>2, <2>3, <2>4, <2>5 DEF Next
<1> QED
  BY <1>1, <1>2, PTL DEF Spec

\* What was listed all along is behind the client only if it was given it.
BehindIsSeen == \A k \in steady : ~ Beyond(k) \/ done => k \in seen

\* The client of a listing query that has read to the end was given every
\* entry that was listed all the time it read.
THEOREM PagingMissesNothing == Spec => []NothingMissed
<1>1. Init => BehindIsSeen
  BY DEF Init, BehindIsSeen, Beyond
<1>2. TypeOK /\ BehindIsSeen /\ [Next]_vars => BehindIsSeen'
  <2> SUFFICES ASSUME TypeOK, BehindIsSeen, [Next]_vars PROVE BehindIsSeen'
    OBVIOUS
  <2>1. CASE Read
    <3>1. PICK request \in Requests :
            LET page == Page(Limit(request))
            IN  /\ seen' = seen \cup page
                /\ \/ page = {} /\ done' = TRUE /\ UNCHANGED cursor
                   \/ \E last \in page :
                        /\ \A k \in page : k <= last
                        /\ cursor' = last
                        /\ UNCHANGED done
      BY <2>1 DEF Read
    <3> DEFINE page == Page(Limit(request))
    <3>2. Limit(request) \in Nat /\ Limit(request) > 0
      BY LimitIsPositive
    <3>3. steady' = steady /\ steady \subseteq Listed
      BY <2>1 DEF Read, TypeOK
    <3>4. CASE page = {} /\ done' = TRUE /\ UNCHANGED cursor
      <4>1. \A k \in Listed : ~ Beyond(k)
        BY <3>2, <3>4, PageIsEmptyAtTheEnd
      <4> QED
        BY <3>1, <3>3, <4>1 DEF BehindIsSeen
    <3>5. CASE \E last \in page :
                 /\ \A k \in page : k <= last
                 /\ cursor' = last
                 /\ UNCHANGED done
      <4>1. PICK last \in page : cursor' = last /\ UNCHANGED done
        BY <3>5
      <4>2. ASSUME NEW k \in steady, ~ Beyond(k)' PROVE k \in seen'
        <5>1. k \in Nat /\ last \in Nat /\ last # None
          BY <3>3, <4>1, PagingAssumption DEF Page, Listed, Stored
        <5>2. k <= last
          BY <4>1, <4>2, <5>1 DEF Beyond
        <5>3. CASE Beyond(k)
          BY <3>1, <3>2, <3>3, <4>1, <5>2, <5>3, PageHasNoGap
        <5>4. CASE ~ Beyond(k)
          BY <3>1, <5>4 DEF BehindIsSeen
        <5> QED
          BY <5>3, <5>4
      <4>3. ~ done'
        BY <2>1, <4>1 DEF Read
      <4> QED
        BY <3>3, <4>2, <4>3 DEF BehindIsSeen
    <3> QED
      BY <3>1, <3>4, <3>5
  <2>2. CASE Put \/ Remove \/ NextBlock
    BY <2>2 DEF Put, Remove, NextBlock, StillListed, BehindIsSeen, Beyond
  <2>3. CASE UNCHANGED vars
    BY <2>3 DEF vars, BehindIsSeen, Beyond
  <2> QED
    BY <2>1, <2>2, <2>3 DEF Next
<1>3. BehindIsSeen => NothingMissed
  BY DEF BehindIsSeen, NothingMissed
<1> QED
  BY <1>1, <1>2, <1>3, PagingTypeOK, PTL DEF Spec
=============================================================================

------------------------- MODULE NoIntersectionProofs -------------------------
(***************************************************************************)
(* Proofs about NoIntersection, for any number of sorted arrays of any     *)
(* length: it accepts exactly what it should.                              *)
(***************************************************************************)
EXTENDS NoIntersection, TLAPS

\* The elements of array a that the loop has advanced past.
Passed(a) == {j \in DOMAIN msgs[a] : states[a].tag = "Finished" \/ j < states[a].at}

\* A finished array has been passed to its end.
FinishedAtEnd ==
  \A a \in Arrays : states[a].tag = "Finished" => states[a].at = Len(msgs[a])

\* The elements passed occur in no other array.
PassedAreUnique ==
  \A a, b \in Arrays : a # b =>
    \A j \in Passed(a), k \in DOMAIN msgs[b] : msgs[a][j] # msgs[b][k]

\* Array b is ongoing, and at no larger a message than the ongoing arrays
\* before c.
LeastBefore(b, c) ==
  IsOngoing(b) /\ \A a \in Arrays : a < c /\ IsOngoing(a) => Current(b) <= Current(a)

\* While the scan runs, index is the best of the arrays it has seen, if one of
\* them was ongoing; one is.
ScanInv ==
  pc = "scan" =>
    /\ ~ShouldEnd
    /\ (\E a \in Arrays : a < i /\ IsOngoing(a)) => LeastBefore(index, i)

\* While the messages are compared, index is the best of all arrays, and
\* those before i, or all of them in the end, are at another message.
VerifyInv ==
  /\ pc \in {"verify", "advance"} => LeastBefore(index, N + 1)
  /\ pc = "verify" => \A a \in Arrays : a < i => ~Collides(a)
  /\ pc = "advance" => \A a \in Arrays : ~Collides(a)

IInv ==
  /\ TypeOK
  /\ FinishedAtEnd
  /\ PassedAreUnique
  /\ ScanInv
  /\ VerifyInv
  /\ pc = "done" => ShouldEnd
  /\ RejectsOnlyOverlap
  /\ ScanFindsOngoing

-----------------------------------------------------------------------------
\* The message an array is at is one of its messages.
LEMMA CurrentType ==
  ASSUME TypeOK, NEW a \in Arrays, IsOngoing(a)
  PROVE  /\ states[a].at \in 1 .. Len(msgs[a])
         /\ states[a].at \in DOMAIN msgs[a]
         /\ Current(a) \in Int
         /\ states[a] # Empty
<1>1. msgs[a] \in Seq(Int)
  BY NoIntersectionAssumption DEF TypeOK
<1>2. states[a] # Empty
  BY DEF IsOngoing, Empty
<1>3. states[a].at \in 1 .. Len(msgs[a])
  BY <1>2 DEF TypeOK
<1>. QED  BY <1>1, <1>2, <1>3 DEF Current

\* Once index is the least of all ongoing arrays and collides with none, the
\* message it is at occurs in no other array.
LEMMA LeastIsUnique ==
  ASSUME IInv, pc = "advance", NEW b \in Arrays, b # index, NEW k \in DOMAIN msgs[b]
  PROVE  Current(index) # msgs[b][k]
<1>1. index \in Arrays /\ IsOngoing(index)
  BY DEF IInv, TypeOK, VerifyInv, LeastBefore
<1>2. /\ Current(index) \in Int
      /\ states[index].at \in DOMAIN msgs[index]
  BY <1>1, CurrentType DEF IInv
<1>3. msgs[b] \in Seq(Int) /\ Sorted(msgs[b]) /\ msgs[b] # <<>>
  BY NoIntersectionAssumption DEF IInv, TypeOK
<1>4. /\ states[b].tag \in {"Ongoing", "Finished"}
      /\ states[b].at \in DOMAIN msgs[b]
      /\ states[b] # Empty
  BY <1>3 DEF IInv, TypeOK, Empty
<1>5. Current(b) # Current(index)
  BY <1>1, <1>4 DEF IInv, VerifyInv, Collides
<1>6. CASE k \in Passed(b)
  <2>1. msgs[b][k] # msgs[index][states[index].at]
    BY <1>1, <1>2, <1>6 DEF IInv, PassedAreUnique
  <2>. QED  BY <2>1 DEF Current
<1>7. CASE k \notin Passed(b)
  <2>1. states[b].at <= k
    BY <1>3, <1>4, <1>7 DEF Passed, IInv, FinishedAtEnd
  <2>2. IsOngoing(b)
    BY <1>3, <1>4, <1>7 DEF Passed, IInv, FinishedAtEnd, IsOngoing
  <2>3. Current(index) <= Current(b)
    BY <2>2, NoIntersectionAssumption DEF IInv, VerifyInv, LeastBefore, Arrays
  <2>4. Current(b) <= msgs[b][k]
    BY <1>3, <1>4, <2>1 DEF Sorted, Current
  <2>. QED  BY <1>2, <1>3, <1>4, <1>5, <2>3, <2>4 DEF Current
<1>. QED  BY <1>6, <1>7

LEMMA InitInv == Init => IInv
<1>. SUFFICES ASSUME Init PROVE IInv
  OBVIOUS
<1>. USE DEF Init, Empty, Ongoing
<1>1. TypeOK
  BY NoIntersectionAssumption DEF TypeOK, Arrays
<1>2. ASSUME NEW a \in Arrays PROVE Passed(a) = {}
  <2>1. msgs[a] \in Seq(Int)
    BY NoIntersectionAssumption
  <2>. QED  BY <2>1 DEF Passed
<1>. QED
  BY <1>1, <1>2 DEF IInv, FinishedAtEnd, PassedAreUnique, ScanInv, VerifyInv,
     RejectsOnlyOverlap, ScanFindsOngoing

LEMMA NextInv == IInv /\ [Next]_vars => IInv'
<1>. SUFFICES ASSUME IInv, [Next]_vars PROVE IInv'
  OBVIOUS
<1>. USE DEF Arrays
<1>1. CASE Loop
  <2>. USE <1>1 DEF Loop, IInv
  <2>1. TypeOK'
    <3>1. ~ShouldEnd => 1 \in Arrays
      BY NoIntersectionAssumption DEF ShouldEnd
    <3>2. 1 \in 1 .. N + 1
      BY NoIntersectionAssumption
    <3>. QED  BY <3>1, <3>2 DEF TypeOK
  <2>2. (FinishedAtEnd /\ PassedAreUnique)'
    BY DEF FinishedAtEnd, PassedAreUnique, Passed
  <2>3. (ScanInv /\ VerifyInv)'
    BY NoIntersectionAssumption DEF ScanInv, VerifyInv, ShouldEnd, IsOngoing
  <2>. QED
    BY <2>1, <2>2, <2>3 DEF ShouldEnd, IsOngoing, RejectsOnlyOverlap, ScanFindsOngoing
<1>2. CASE Scan
  <2>. USE <1>2 DEF Scan, IInv
  <2>1. TypeOK'
    <3>1. /\ N \in Nat /\ i \in 1 .. N + 1 /\ index \in Arrays
          /\ i <= N => i \in Arrays
      BY NoIntersectionAssumption DEF TypeOK
    <3>2. i' \in 1 .. N + 1 /\ index' \in Arrays /\ index' \in Nat
      BY <3>1
    <3>3. pc' \in {"scan", "verify"}
      OBVIOUS
    <3>. QED  BY <3>2, <3>3 DEF TypeOK
  <2>2. (FinishedAtEnd /\ PassedAreUnique)'
    BY DEF FinishedAtEnd, PassedAreUnique, Passed
  <2>3. CASE i > N
    <3>1. LeastBefore(index, N + 1)
      BY <2>3, NoIntersectionAssumption
         DEF TypeOK, ScanInv, LeastBefore, ShouldEnd
    <3>2. VerifyInv'
      BY <2>3, <3>1 DEF VerifyInv, LeastBefore, IsOngoing, Current
    <3>. QED
      BY <2>1, <2>2, <2>3, <3>2 DEF ScanInv, RejectsOnlyOverlap, ScanFindsOngoing
  <2>4. CASE i <= N
    <3>1. i \in Arrays /\ index \in Arrays
      BY <2>4 DEF TypeOK
    <3>2. ASSUME (\E a \in Arrays : a < i + 1 /\ IsOngoing(a)), IsOngoing(i)
          PROVE  LeastBefore(index', i + 1)
      <4>. USE NoIntersectionAssumption
      <4>1. index' = IF Precedes(i, index) THEN i ELSE index
        BY <2>4, <3>2 DEF TypeOK
      <4>2. ASSUME NEW a \in Arrays, a < i, IsOngoing(a)
            PROVE  LeastBefore(index, i)
        BY <4>2 DEF ScanInv
      <4>3. \A a \in Arrays : IsOngoing(a) => Current(a) \in Int
        BY CurrentType
      <4>4. ASSUME NEW a \in Arrays, a < i + 1, IsOngoing(a)
            PROVE  IsOngoing(index') /\ Current(index') <= Current(a)
        <5>1. CASE a = i
          BY <3>1, <3>2, <4>1, <4>3, <5>1 DEF Precedes
        <5>2. CASE a < i
          BY <3>1, <3>2, <4>1, <4>2, <4>3, <4>4, <5>2 DEF Precedes, LeastBefore
        <5>. QED  BY <3>1, <4>4, <5>1, <5>2
      <4>. QED  BY <3>2, <4>4 DEF LeastBefore
    <3>3. ASSUME (\E a \in Arrays : a < i + 1 /\ IsOngoing(a)), ~IsOngoing(i)
          PROVE  LeastBefore(index', i + 1)
      BY <2>4, <3>1, <3>3, NoIntersectionAssumption DEF ScanInv, LeastBefore, TypeOK
    <3>4. ScanInv'
      BY <2>4, <3>2, <3>3 DEF ScanInv, LeastBefore, ShouldEnd, IsOngoing, Current
    <3>5. pc' = "scan"
      BY <3>1, NoIntersectionAssumption
    <3>. QED
      BY <2>1, <2>2, <3>4, <3>5 DEF VerifyInv, RejectsOnlyOverlap, ScanFindsOngoing
  <2>. QED  BY <2>3, <2>4, NoIntersectionAssumption DEF TypeOK
<1>3. CASE Verify
  <2>. USE <1>3 DEF Verify, IInv
  <2>1. TypeOK'
    BY NoIntersectionAssumption DEF TypeOK
  <2>2. (FinishedAtEnd /\ PassedAreUnique)'
    BY DEF FinishedAtEnd, PassedAreUnique, Passed
  <2>3. (ScanInv /\ VerifyInv)'
    <3>1. /\ N \in Nat /\ i \in 1 .. N + 1
          /\ pc' \in {"advance", "panicked", "verify"}
      BY NoIntersectionAssumption DEF TypeOK
    <3>2. LeastBefore(index, N + 1)' /\ \A a \in Arrays : Collides(a)' = Collides(a)
      BY DEF VerifyInv, LeastBefore, Collides, IsOngoing, Current
    <3>3. pc' = "verify" => \A a \in Arrays : a < i' => ~Collides(a)
      BY <3>1 DEF VerifyInv
    <3>4. pc' = "advance" => \A a \in Arrays : ~Collides(a)
      BY <3>1 DEF VerifyInv
    <3>. QED  BY <3>1, <3>2, <3>3, <3>4 DEF ScanInv, VerifyInv
  <2>4. RejectsOnlyOverlap'
    <3>. SUFFICES ASSUME i <= N, Collides(i), pc' = "panicked" PROVE Overlap'
      BY NoIntersectionAssumption DEF TypeOK, RejectsOnlyOverlap
    <3>1. i \in Arrays /\ index \in Arrays /\ msgs[i] # <<>>
      BY DEF TypeOK, Collides
    <3>2. msgs[i] \in Seq(Int) /\ states[i].at \in DOMAIN msgs[i]
      BY <3>1, NoIntersectionAssumption DEF TypeOK
    <3>3. states[index].at \in DOMAIN msgs[index]
      BY <3>1, CurrentType DEF Collides
    <3>4. msgs[i][states[i].at] = msgs[index][states[index].at] /\ i # index
      BY DEF Collides, Current
    <3>5. Overlap
      BY <3>1, <3>2, <3>3, <3>4 DEF Overlap
    <3>. QED  BY <3>5 DEF Overlap
  <2>. QED  BY <2>1, <2>2, <2>3, <2>4 DEF ScanFindsOngoing
<1>4. CASE Advance
  <2>. USE <1>4 DEF Advance, IInv
  <2>1. index \in Arrays /\ IsOngoing(index)
    BY DEF TypeOK, VerifyInv, LeastBefore
  <2>2. /\ states[index].at \in 1 .. Len(msgs[index])
        /\ msgs[index] \in Seq(Int)
        /\ msgs[index] # <<>>
    BY <2>1, CurrentType, NoIntersectionAssumption DEF TypeOK
  <2>3. pc' = "loop" /\ states' = [states EXCEPT ![index] = Advanced(index)]
    BY <2>1
  <2>4. TypeOK'
    BY <2>1, <2>2, <2>3 DEF TypeOK, Advanced, Ongoing, Finished, Empty
  <2>5. FinishedAtEnd'
    BY <2>1, <2>2, <2>3 DEF TypeOK, FinishedAtEnd, Advanced, Ongoing, Finished
  <2>6. PassedAreUnique'
    <3>. SUFFICES ASSUME NEW a \in Arrays, NEW b \in Arrays, a # b,
                         NEW j \in Passed(a)', NEW k \in DOMAIN msgs[b]
                  PROVE  msgs[a][j] # msgs[b][k]
      BY DEF PassedAreUnique
    <3>1. CASE a # index \/ j # states[index].at
      <4>1. j \in Passed(a)
        BY <2>1, <2>2, <2>3, <3>1
           DEF TypeOK, Passed, Advanced, Ongoing, Finished, IsOngoing
      <4>. QED  BY <4>1 DEF PassedAreUnique
    <3>2. CASE a = index /\ j = states[index].at
      BY <3>2, LeastIsUnique DEF Current
    <3>. QED  BY <3>1, <3>2
  <2>. QED
    BY <2>3, <2>4, <2>5, <2>6
       DEF ScanInv, VerifyInv, RejectsOnlyOverlap, ScanFindsOngoing
<1>5. CASE UNCHANGED vars
  BY <1>5 DEF vars, IInv, TypeOK, FinishedAtEnd, PassedAreUnique, Passed, ScanInv,
     VerifyInv, LeastBefore, Collides, ShouldEnd, IsOngoing, Current,
     RejectsOnlyOverlap, Overlap, ScanFindsOngoing
<1>. QED  BY <1>1, <1>2, <1>3, <1>4, <1>5 DEF Next

LEMMA InvCorrect == Spec => []IInv
BY InitInv, NextInv, PTL DEF Spec

\* No state of assert_no_intersection indexes an array outside its bounds.
THEOREM TypeCorrect == Spec => []TypeOK
BY InvCorrect, PTL DEF IInv

\* Arrays that are accepted have no name in common, however many they are:
\* what the code compares is enough.
THEOREM AcceptsOnlyDisjointCorrect == Spec => []AcceptsOnlyDisjoint
<1>1. IInv => AcceptsOnlyDisjoint
  <2>. SUFFICES ASSUME IInv, pc = "done", NEW a \in Arrays, NEW b \in Arrays, a # b,
                       NEW j \in DOMAIN msgs[a], NEW k \in DOMAIN msgs[b]
                PROVE  msgs[a][j] # msgs[b][k]
    BY DEF AcceptsOnlyDisjoint, Overlap
  <2>1. states[a].tag # "Ongoing"
    BY DEF IInv, ShouldEnd, IsOngoing
  <2>2. states[a].tag = "Finished"
    BY <2>1, NoIntersectionAssumption DEF IInv, TypeOK
  <2>. QED  BY <2>2 DEF IInv, PassedAreUnique, Passed
<1>. QED  BY <1>1, InvCorrect, PTL

\* Arrays that are rejected do have a name in common.
THEOREM RejectsOnlyOverlapCorrect == Spec => []RejectsOnlyOverlap
BY InvCorrect, PTL DEF IInv

\* The arm that is marked unreachable!() is.
THEOREM ScanFindsOngoingCorrect == Spec => []ScanFindsOngoing
BY InvCorrect, PTL DEF IInv
=============================================================================

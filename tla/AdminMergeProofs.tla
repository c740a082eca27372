---------------------------- MODULE AdminMergeProofs ----------------------------
(***************************************************************************)
(* Proofs about AdminMerge, for every list and every set of stored admins. *)
(***************************************************************************)
EXTENDS AdminMerge, TLAPS

\* The filter starts with every key and at the head of the list.
NothingSearched ==
  pc = "sort" => low_idx = 0 /\ saved = 0 /\ to_remove = {} /\ keys = before /\ admins = before

\* The part of the list that is not searched any more holds nothing that a
\* key still to be visited could be equal to.
SearchedIsBehind ==
  pc # "sort" =>
    /\ Sorted(list)
    /\ \A j \in 1 .. low_idx, key \in keys : list[j] < key

\* What the last loop has made of the admins so far.
SavedSoFar ==
  pc = "save" =>
    /\ keys = {}
    /\ admins = (before \cap Elements(sent)) \cup {list[k] : k \in 1 .. saved}
    /\ \A k \in 1 .. saved : list[k] \in Valid

\* Nothing is written before the filter has seen the last key.
ReadOnlyFilter == pc = "filter" => admins = before /\ saved = 0

MergeInv ==
  /\ TypeOK
  /\ NothingSearched
  /\ ReadOnlyFilter
  /\ SearchedIsBehind
  /\ RemovesTheLeavers
  /\ SavedSoFar
  /\ ReplacesExactly

-----------------------------------------------------------------------------
LEMMA StoredAreInts == ASSUME TypeOK PROVE before \subseteq Int
  BY AdminMergeAssumption DEF TypeOK

LEMMA ListOfInts == ASSUME TypeOK PROVE \A k \in 1 .. Len(list) : list[k] \in Int
  BY DEF TypeOK

\* Sorting changes the order of the elements and nothing else.
LEMMA SortPermutes ==
  ASSUME TypeOK, Sort
  PROVE  /\ list' \in Seq(Int)
         /\ Len(list') = Len(list)
         /\ Elements(list') = Elements(list)
<1> DEFINE D == 1 .. Len(list)
<1>1. list \in Seq(Int) /\ Len(list) \in Nat
  BY DEF TypeOK
<1>2. PICK p \in Bijection(D, D) : list' = [k \in D |-> list[p[k]]]
  BY DEF Sort
<1>3. /\ p \in [D -> D]
      /\ \A d \in D : \E k \in D : p[k] = d
  BY DEF Bijection, Surjection, Injection
<1>4. list' \in Seq(Int) /\ Len(list') = Len(list)
  <2>1. \A k \in D : list[p[k]] \in Int
    BY <1>3, ListOfInts
  <2>2. list' \in [D -> Int]
    BY <1>2, <2>1
  <2> QED BY <2>2, <1>1
<1>5. Elements(list') = Elements(list)
  BY <1>1, <1>2, <1>3, <1>4 DEF Elements
<1> QED BY <1>4, <1>5

LEMMA InitMerge == Init => MergeInv
  BY AdminMergeAssumption
  DEF Init, MergeInv, TypeOK, NothingSearched, ReadOnlyFilter, SearchedIsBehind, RemovesTheLeavers, SavedSoFar, ReplacesExactly

LEMMA SortStep == MergeInv /\ Sort => MergeInv'
<1> SUFFICES ASSUME MergeInv, Sort PROVE MergeInv'
  OBVIOUS
<1>1. /\ list' \in Seq(Int)
      /\ Len(list') = Len(list)
      /\ Elements(list') = Elements(list)
  BY SortPermutes DEF MergeInv
<1>2. /\ pc = "sort" /\ pc' = "filter"
      /\ Sorted(list')
      /\ UNCHANGED <<admins, before, sent, keys, low_idx, to_remove, saved>>
  BY DEF Sort, Sorted
<1>3. low_idx = 0 /\ saved = 0 /\ to_remove = {} /\ keys = before /\ admins = before
  BY <1>2 DEF MergeInv, NothingSearched
<1>4. TypeOK'
  BY <1>1, <1>2, <1>3 DEF MergeInv, TypeOK, Elements
<1>5. SearchedIsBehind'
  BY <1>2, <1>3 DEF SearchedIsBehind, Sorted
<1> QED
  BY <1>2, <1>3, <1>4, <1>5
  DEF MergeInv, NothingSearched, ReadOnlyFilter, RemovesTheLeavers, SavedSoFar, ReplacesExactly

\* The key the filter is at goes exactly when the list does not hold it.
LEMMA FilterDecides ==
  ASSUME MergeInv, pc = "filter", NEW key \in keys, \A other \in keys : key <= other, Keep(key)
  PROVE  /\ to_remove' = IF key \in Elements(sent) THEN to_remove ELSE to_remove \cup {key}
         /\ low_idx' \in 0 .. Len(list)
         /\ \A j \in 1 .. low_idx' : list[j] <= key
<1>1. /\ key \in Int
      /\ low_idx \in 0 .. Len(list) /\ Len(list) \in Nat
      /\ Elements(list) = Elements(sent)
      /\ \A j \in 1 .. Len(list) : list[j] \in Int
      /\ Sorted(list)
      /\ \A j \in 1 .. low_idx : list[j] < key
  BY StoredAreInts, ListOfInts DEF MergeInv, TypeOK, SearchedIsBehind
<1>2. CASE low_idx >= Len(list)
  <2>1. key \notin Elements(list)
    BY <1>1, <1>2 DEF Elements
  <2> QED BY <1>1, <1>2, <2>1 DEF Keep
<1>3. CASE ~ low_idx >= Len(list)
  <2>1. PICK found \in BinarySearch(key) :
          /\ low_idx' = found.idx
          /\ to_remove' = IF found.ok THEN to_remove ELSE to_remove \cup {key}
    BY <1>3 DEF Keep
  <2>2. CASE found.ok
    <3>1. PICK k \in low_idx + 1 .. Len(list) :
            list[k] = key /\ found = [ok |-> TRUE, idx |-> k - 1 - low_idx]
      BY <2>2 DEF BinarySearch
    <3>2. k \in 1 .. Len(list) /\ low_idx' = k - 1 - low_idx /\ to_remove' = to_remove
      BY <1>1, <2>1, <3>1
    <3>3. key \in Elements(list)
      BY <3>1, <3>2 DEF Elements
    <3>4. \A j \in 1 .. low_idx' : list[j] <= key
      BY <1>1, <3>1, <3>2 DEF Sorted
    <3> QED BY <1>1, <3>1, <3>2, <3>3, <3>4
  <2>3. CASE ~ found.ok
    <3>1. PICK k \in low_idx .. Len(list) :
            /\ \A j \in low_idx + 1 .. k : list[j] < key
            /\ \A j \in k + 1 .. Len(list) : list[j] > key
            /\ found = [ok |-> FALSE, idx |-> k - low_idx]
      BY <2>3 DEF BinarySearch
    <3>2. low_idx' = k - low_idx /\ to_remove' = to_remove \cup {key}
      BY <2>1, <3>1
    <3>3. \A j \in 1 .. k : list[j] < key
      BY <1>1, <3>1
    <3>4. key \notin Elements(list)
      <4>1. \A j \in 1 .. Len(list) : list[j] # key
        BY <1>1, <3>1, <3>3
      <4> QED BY <4>1 DEF Elements
    <3>5. \A j \in 1 .. low_idx' : list[j] <= key
      BY <1>1, <3>1, <3>2, <3>3
    <3> QED BY <1>1, <3>1, <3>2, <3>4, <3>5
  <2> QED BY <2>2, <2>3
<1> QED BY <1>2, <1>3

LEMMA FilterStep == MergeInv /\ Filter => MergeInv'
<1> SUFFICES ASSUME MergeInv, Filter PROVE MergeInv'
  OBVIOUS
<1>1. PICK key \in keys :
        (\A other \in keys : key <= other) /\ Keep(key) /\ keys' = keys \ {key}
  BY DEF Filter
<1>2. pc = "filter" /\ UNCHANGED <<admins, before, sent, list, saved, pc>>
  BY DEF Filter
<1>3. /\ to_remove' = IF key \in Elements(sent) THEN to_remove ELSE to_remove \cup {key}
      /\ low_idx' \in 0 .. Len(list)
      /\ \A j \in 1 .. low_idx' : list[j] <= key
  BY <1>1, <1>2, FilterDecides
<1>4. keys \subseteq before /\ before \subseteq Int /\ \A j \in 1 .. Len(list) : list[j] \in Int
  BY StoredAreInts DEF MergeInv, TypeOK
<1>5. TypeOK'
  BY <1>1, <1>2, <1>3, <1>4 DEF MergeInv, TypeOK
<1>6. SearchedIsBehind'
  <2>1. ASSUME NEW j \in 1 .. low_idx', NEW other \in keys \ {key}
        PROVE  list[j] < other
    <3>1. key < other /\ key \in Int /\ other \in Int
      BY <1>1, <1>4
    <3>2. list[j] <= key /\ list[j] \in Int
      BY <1>3, <1>4
    <3> QED BY <3>1, <3>2
  <2> QED BY <1>1, <1>2, <2>1 DEF MergeInv, SearchedIsBehind
<1>7. RemovesTheLeavers'
  BY <1>1, <1>2, <1>3, <1>4 DEF MergeInv, RemovesTheLeavers
<1> QED
  BY <1>2, <1>5, <1>6, <1>7
  DEF MergeInv, NothingSearched, ReadOnlyFilter, SavedSoFar, ReplacesExactly

LEMMA RemoveStep == MergeInv /\ Remove => MergeInv'
<1> SUFFICES ASSUME MergeInv, Remove PROVE MergeInv'
  OBVIOUS
<1>1. /\ pc = "filter" /\ keys = {} /\ pc' = "save"
      /\ admins' = admins \ to_remove
      /\ UNCHANGED <<before, sent, list, keys, low_idx, to_remove, saved>>
  BY DEF Remove
<1>2. admins = before /\ saved = 0 /\ to_remove = before \ Elements(sent)
  BY <1>1 DEF MergeInv, ReadOnlyFilter, RemovesTheLeavers
<1>3. TypeOK' /\ SearchedIsBehind' /\ RemovesTheLeavers'
  BY <1>1, <1>2 DEF MergeInv, TypeOK, SearchedIsBehind, RemovesTheLeavers
<1>4. SavedSoFar'
  BY <1>1, <1>2 DEF SavedSoFar
<1> QED
  BY <1>1, <1>3, <1>4 DEF MergeInv, NothingSearched, ReadOnlyFilter, ReplacesExactly

LEMMA SaveStep == MergeInv /\ Save => MergeInv'
<1> SUFFICES ASSUME MergeInv, Save PROVE MergeInv'
  OBVIOUS
<1>1. /\ pc = "save" /\ saved < Len(list)
      /\ UNCHANGED <<before, sent, list, keys, low_idx, to_remove>>
  BY DEF Save
<1>2. /\ saved \in Nat /\ saved + 1 \in 1 .. Len(list)
      /\ list[saved + 1] \in Elements(sent)
      /\ keys = {}
      /\ admins = (before \cap Elements(sent)) \cup {list[k] : k \in 1 .. saved}
      /\ \A k \in 1 .. saved : list[k] \in Valid
  <2>1. saved \in Nat /\ saved + 1 \in 1 .. Len(list) /\ Elements(list) = Elements(sent)
    BY <1>1 DEF MergeInv, TypeOK
  <2>2. list[saved + 1] \in Elements(list)
    BY <2>1 DEF Elements
  <2> QED BY <1>1, <2>1, <2>2 DEF MergeInv, SavedSoFar
<1>3. CASE list[saved + 1] \in Valid
  <2>1. pc' = "save" /\ admins' = admins \cup {list[saved + 1]} /\ saved' = saved + 1
    BY <1>1, <1>3 DEF Save
  <2>2. TypeOK' /\ SearchedIsBehind' /\ RemovesTheLeavers'
    BY <1>1, <1>2, <2>1
    DEF MergeInv, TypeOK, SearchedIsBehind, RemovesTheLeavers
  <2>3. 1 .. saved + 1 = (1 .. saved) \cup {saved + 1}
    BY <1>2
  <2>4. SavedSoFar'
    BY <1>1, <1>2, <1>3, <2>1, <2>3 DEF SavedSoFar
  <2> QED
    BY <2>1, <2>2, <2>4 DEF MergeInv, NothingSearched, ReadOnlyFilter, ReplacesExactly
<1>4. CASE list[saved + 1] \notin Valid
  <2>1. pc' = "failed" /\ admins' = before /\ saved' = saved
    BY <1>1, <1>4 DEF Save
  <2>2. TypeOK' /\ SearchedIsBehind' /\ RemovesTheLeavers'
    BY <1>1, <1>2, <2>1
    DEF MergeInv, TypeOK, SearchedIsBehind, RemovesTheLeavers
  <2>3. ~ Elements(sent) \subseteq Valid
    BY <1>2, <1>4
  <2> QED
    BY <1>1, <2>1, <2>2, <2>3
    DEF MergeInv, NothingSearched, ReadOnlyFilter, SavedSoFar, ReplacesExactly
<1> QED BY <1>3, <1>4

LEMMA ReturnStep == MergeInv /\ Return => MergeInv'
<1> SUFFICES ASSUME MergeInv, Return PROVE MergeInv'
  OBVIOUS
<1>1. /\ pc = "save" /\ saved = Len(list) /\ pc' = "done"
      /\ UNCHANGED <<admins, before, sent, list, keys, low_idx, to_remove, saved>>
  BY DEF Return
<1>2. admins = Elements(list) /\ Elements(list) = Elements(sent) /\ Elements(list) \subseteq Valid
  <2>1. /\ admins = (before \cap Elements(sent)) \cup {list[k] : k \in 1 .. Len(list)}
        /\ \A k \in 1 .. Len(list) : list[k] \in Valid
    BY <1>1 DEF MergeInv, SavedSoFar
  <2>2. Elements(list) = Elements(sent)
    BY DEF MergeInv, TypeOK
  <2> QED BY <2>1, <2>2 DEF Elements
<1>3. TypeOK' /\ SearchedIsBehind' /\ RemovesTheLeavers'
  BY <1>1 DEF MergeInv, TypeOK, SearchedIsBehind, RemovesTheLeavers
<1>4. ReplacesExactly'
  BY <1>1, <1>2 DEF ReplacesExactly
<1> QED
  BY <1>1, <1>3, <1>4 DEF MergeInv, NothingSearched, ReadOnlyFilter, SavedSoFar

LEMMA StutterMerge == MergeInv /\ UNCHANGED vars => MergeInv'
  BY DEF vars, MergeInv, TypeOK, NothingSearched, ReadOnlyFilter, SearchedIsBehind,
         RemovesTheLeavers, SavedSoFar, ReplacesExactly

THEOREM MergeInvariant == Spec => []MergeInv
<1>1. MergeInv /\ [Next]_vars => MergeInv'
  BY SortStep, FilterStep, RemoveStep, SaveStep, ReturnStep, StutterMerge DEF Next
<1> QED BY InitMerge, <1>1, PTL DEF Spec

-----------------------------------------------------------------------------
\* No slicing of the list panics, however low_idx moves.
THEOREM MergeTypes == Spec => []TypeOK
  BY MergeInvariant, PTL DEF MergeInv

\* Searching a part of the list, from an index relative to another part,
\* still decides for every stored key whether the list holds it.
THEOREM MergeRemovesTheLeavers == Spec => []RemovesTheLeavers
  BY MergeInvariant, PTL DEF MergeInv

\* update_admins leaves exactly the admins it was sent, or what it found.
THEOREM MergeReplaces == Spec => []ReplacesExactly
  BY MergeInvariant, PTL DEF MergeInv
=============================================================================

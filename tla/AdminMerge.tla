------------------------------ MODULE AdminMerge ------------------------------
(***************************************************************************)
(* The merge that Whitelist::update_admins makes of the stored admins with *)
(* the list it is sent (examples/contracts/cw1-whitelist/src/whitelist.rs) *)
(*                                                                         *)
(* The stored keys are visited in ascending order and each is looked for   *)
(* in the sorted list, from low_idx on.  An address is an integer: only    *)
(* the order of addresses matters.  Indices count from 0 as in the source, *)
(* so that list[k + 1] is the element at index k.                          *)
(***************************************************************************)
EXTENDS Integers, Sequences, Functions

CONSTANTS
  Stored,   \* the sets of admins the call may find
  Inputs,   \* the values of admins, in the order the message has them
  Valid     \* the addresses that pass addr_validate

ASSUME AdminMergeAssumption ==
  /\ \A s \in Stored : s \subseteq Int
  /\ Inputs \subseteq Seq(Int)

VARIABLES
  admins,     \* Map<Addr, Empty>: the keys that are stored
  before,     \* the keys when the call came in
  sent,       \* the list as the message has it
  list,       \* the list after sort_unstable
  keys,       \* the keys that the filter has yet to see
  low_idx,    \* where the next search starts
  to_remove,  \* the keys that the filter has let through
  saved,      \* how many elements of the list the last loop has saved
  pc          \* the loop that runs, or how the call ended

vars == <<admins, before, sent, list, keys, low_idx, to_remove, saved, pc>>

Elements(s) == {s[k] : k \in 1 .. Len(s)}

Sorted(s) == \A j, k \in 1 .. Len(s) : j <= k => s[j] <= s[k]

-----------------------------------------------------------------------------
Init ==
  /\ before \in Stored
  /\ admins = before
  /\ sent \in Inputs
  /\ list = sent
  /\ keys = before
  /\ low_idx = 0
  /\ to_remove = {}
  /\ saved = 0
  /\ pc = "sort"

\* admins.sort_unstable()
Sort ==
  /\ pc = "sort"
  /\ \E p \in Bijection(1 .. Len(list), 1 .. Len(list)) :
       list' = [k \in 1 .. Len(list) |-> list[p[k]]]
  /\ Sorted(list')
  /\ pc' = "filter"
  /\ UNCHANGED <<admins, before, sent, keys, low_idx, to_remove, saved>>

\* What list[low_idx..].binary_search(&key) may answer: the place of any
\* element equal to key, or else the place where key could be inserted.
\* Both count from the start of the slice.
BinarySearch(key) ==
  {[ok |-> TRUE, idx |-> k - 1 - low_idx] :
     k \in {k \in low_idx + 1 .. Len(list) : list[k] = key}}
  \cup
  {[ok |-> FALSE, idx |-> k - low_idx] :
     k \in {k \in low_idx .. Len(list) :
              /\ \A j \in low_idx + 1 .. k : list[j] < key
              /\ \A j \in k + 1 .. Len(list) : list[j] > key}}

\* Mutant: once the list is used up, every following key is kept.
FilterKeepsTail(key) ==
  IF low_idx >= Len(list)
  THEN UNCHANGED <<low_idx, to_remove>>
  ELSE \E found \in BinarySearch(key) :
         /\ low_idx' = found.idx
         /\ to_remove' = IF found.ok THEN to_remove ELSE to_remove \cup {key}

\* Mutant: the place where a key was missing is taken to be used up.
FilterSkipsOne(key) ==
  IF low_idx >= Len(list)
  THEN to_remove' = to_remove \cup {key} /\ UNCHANGED low_idx
  ELSE \E found \in BinarySearch(key) :
         /\ low_idx' = IF found.ok THEN found.idx ELSE found.idx + 1
         /\ to_remove' = IF found.ok THEN to_remove ELSE to_remove \cup {key}

\* The closure of filter: true for the keys that have to go.
Keep(key) ==
  IF low_idx >= Len(list)
  THEN to_remove' = to_remove \cup {key} /\ UNCHANGED low_idx
  ELSE \E found \in BinarySearch(key) :
         /\ low_idx' = found.idx
         /\ to_remove' = IF found.ok THEN to_remove ELSE to_remove \cup {key}

Filter ==
  /\ pc = "filter"
  /\ \E key \in keys :
       /\ \A other \in keys : key <= other
       /\ Keep(key)
       /\ keys' = keys \ {key}
  /\ UNCHANGED <<admins, before, sent, list, saved, pc>>

\* collect, then the loop over to_remove
Remove ==
  /\ pc = "filter" /\ keys = {}
  /\ admins' = admins \ to_remove
  /\ pc' = "save"
  /\ UNCHANGED <<before, sent, list, keys, low_idx, to_remove, saved>>

\* Mutant: an address that does not validate is left out of the list.
SaveSkipsInvalid ==
  /\ pc = "save" /\ saved < Len(list)
  /\ admins' = admins \cup ({list[saved + 1]} \cap Valid)
  /\ saved' = saved + 1
  /\ UNCHANGED <<before, sent, list, keys, low_idx, to_remove, pc>>

\* One turn of the loop over admins.  An error rolls the call back.
Save ==
  /\ pc = "save" /\ saved < Len(list)
  /\ IF list[saved + 1] \in Valid
     THEN /\ admins' = admins \cup {list[saved + 1]}
          /\ saved' = saved + 1
          /\ UNCHANGED pc
     ELSE /\ admins' = before
          /\ pc' = "failed"
          /\ UNCHANGED saved
  /\ UNCHANGED <<before, sent, list, keys, low_idx, to_remove>>

Return ==
  /\ pc = "save" /\ saved = Len(list)
  /\ pc' = "done"
  /\ UNCHANGED <<admins, before, sent, list, keys, low_idx, to_remove, saved>>

Next == Sort \/ Filter \/ Remove \/ Save \/ Return

Spec == Init /\ [][Next]_vars

-----------------------------------------------------------------------------
\* Every search starts inside the list: the slicing does not panic.
TypeOK ==
  /\ before \in Stored /\ sent \in Inputs
  /\ list \in Seq(Int) /\ Elements(list) = Elements(sent)
  /\ admins \subseteq before \cup Elements(sent)
  /\ keys \subseteq before
  /\ to_remove \subseteq before \ keys
  /\ low_idx \in 0 .. Len(list)
  /\ saved \in 0 .. Len(list)
  /\ pc \in {"sort", "filter", "save", "done", "failed"}

\* The keys the filter lets through are those that are not in the list,
\* although each is looked for in a part of the list only, and low_idx is an
\* index into that part.
RemovesTheLeavers == pc # "sort" => to_remove = (before \ keys) \ Elements(sent)

\* A call that succeeds leaves the admins it was sent, no more and no fewer,
\* whatever their order and however often an address is repeated; one that
\* fails leaves the admins it found.
ReplacesExactly ==
  /\ pc = "done" => admins = Elements(sent) /\ admins \subseteq Valid
  /\ pc = "failed" => admins = before /\ ~ Elements(sent) \subseteq Valid

\* "for next item there is no point in looking at lower indices"
\* (whitelist.rs:61): no search starts before the one that came before it.
NeverLooksLower == [][low_idx' >= low_idx]_vars
=============================================================================

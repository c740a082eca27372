--------------------------- MODULE MCNoIntersection ---------------------------
(***************************************************************************)
(* NoIntersection for TLC: every tuple of short sorted arrays.             *)
(***************************************************************************)
EXTENDS NoIntersection

CONSTANTS
  MaxLen,    \* bound: the longest array
  Names      \* the message names

SortedSeqs == {s \in UNION {[1 .. n -> Names] : n \in 0 .. MaxLen} : Sorted(s)}

MCInputs == [Arrays -> SortedSeqs]
=============================================================================

----------------------------- MODULE MCAdminMerge -----------------------------
(***************************************************************************)
(* AdminMerge for TLC: every short list and every set of stored admins.    *)
(***************************************************************************)
EXTENDS AdminMerge

CONSTANTS
  Names,    \* the addresses
  MaxLen    \* bound: the longest list

MCStored == SUBSET (Names \cap Valid)

MCInputs == UNION {[1 .. n -> Names] : n \in 0 .. MaxLen}
=============================================================================

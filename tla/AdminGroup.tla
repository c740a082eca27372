------------------------------ MODULE AdminGroup ------------------------------
(***************************************************************************)
(* What a cw1 contract promises about its admins, whatever messages they   *)
(* make it send, itself included, and whoever calls it meanwhile: the      *)
(* group changes in whole transactions, in each of which somebody who was  *)
(* in it called, and only while it is open.  A group that is closed or has *)
(* lost all its members stays as it is.                                    *)
(***************************************************************************)
CONSTANT Member   \* everybody who may be in the group

VARIABLES
  group,    \* the admins
  open,     \* the admins may still be changed
  callers   \* who called in the last transaction

vars == <<group, open, callers>>

Init ==
  /\ group \in SUBSET Member
  /\ open \in BOOLEAN
  /\ callers = {}

Call == callers' \in SUBSET Member /\ UNCHANGED <<group, open>>

Change ==
  /\ open
  /\ callers' \cap group # {}
  /\ callers' \in SUBSET Member
  /\ group' \in SUBSET Member
  /\ open' \in BOOLEAN

Next == Call \/ Change

Spec == Init /\ [][Next]_vars
=============================================================================

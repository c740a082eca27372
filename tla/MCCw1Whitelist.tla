---------------------------- MODULE MCCw1Whitelist ----------------------------
(***************************************************************************)
(* Cw1Whitelist for TLC: the messages the contract gets and sends.         *)
(***************************************************************************)
EXTENDS Cw1Whitelist

CONSTANT MaxBatch   \* bound: the messages one execute carries

PlainCalls ==
  {[op |-> "freeze"]} \cup
  {[op |-> "update_admins", admins |-> a] : a \in SUBSET Addr \cup {Invalid}}

Batches(msgs) == UNION {[1 .. n -> msgs] : n \in 0 .. MaxBatch}

Executes(msgs) == {[op |-> "execute", msgs |-> batch] : batch \in Batches(msgs)}

OtherMsg == [kind |-> "other"]

PlainMsgs == {OtherMsg} \cup {[kind |-> "self", call |-> c] : c \in PlainCalls}

\* A batch inside a batch.
NestedCalls ==
  {[op |-> "execute", msgs |-> <<m, OtherMsg>>] : m \in PlainMsgs}

MCMessages == PlainMsgs \cup {[kind |-> "self", call |-> c] : c \in NestedCalls}

MCCalls == PlainCalls \cup NestedCalls \cup Executes(MCMessages)
=============================================================================

----------------------------- MODULE MCCw1Subkeys -----------------------------
(***************************************************************************)
(* Cw1Subkeys for TLC: the messages the contract gets and sends.           *)
(***************************************************************************)
EXTENDS Cw1Comments, TLC

CONSTANTS
  AdminLists,   \* the lists that update_admins carries
  Spenders,     \* who the grants name
  MCDeadlines   \* the deadlines that messages carry, None for none

Coin == [denom: Denoms, amount: Amounts]

Withdrawer == [NoPermissions EXCEPT !.withdraw = TRUE]

GrantCalls ==
  [op: {"increase_allowance", "decrease_allowance"}, spender: Spenders, coin: Coin, expires: MCDeadlines]
  \cup
  [op: {"set_permissions"}, spender: Spenders, permissions: {Withdrawer}]

\* What the contract tells itself to grant has no deadline of its own.
SelfGrants == {c \in GrantCalls : c.op # "set_permissions" => c.expires = None}

ListCalls ==
  {[op |-> "freeze"]} \cup [op: {"update_admins"}, admins: AdminLists]

SelfMsgs == {[kind |-> "self", call |-> c] : c \in SelfGrants \cup ListCalls}

BankMsgs == {[kind |-> "bank_send", coins |-> <<c>>] : c \in Coin}

TwoCoins == {[kind |-> "bank_send", coins |-> <<c, c>>] : c \in Coin}

OneOfEach == {[kind |-> "other"]} \cup {[kind |-> "bank_send", coins |-> <<>>]}

RoleMsgs == [kind: Staking \cup Distribution]

MCMessages == SelfMsgs \cup BankMsgs \cup TwoCoins \cup OneOfEach \cup RoleMsgs

Executes ==
  {[op |-> "execute", msgs |-> <<m>>] : m \in MCMessages}
  \cup
  {[op |-> "execute", msgs |-> <<m, n>>] : m \in SelfMsgs \cup BankMsgs, n \in OneOfEach}

MCCalls == GrantCalls \cup ListCalls \cup Executes \cup {[op |-> "execute", msgs |-> <<>>]}
=============================================================================

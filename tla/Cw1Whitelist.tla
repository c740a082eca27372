----------------------------- MODULE Cw1Whitelist -----------------------------
(***************************************************************************)
(* The cw1-whitelist contract (examples/contracts/cw1-whitelist): admins   *)
(* that replace each other until somebody freezes the list, and that make  *)
(* the contract send messages.                                             *)
(*                                                                         *)
(* A transaction is a message somebody signs, for the contract or for      *)
(* another one, with everything it causes.  The chain runs those messages  *)
(* one by one, the messages that a message causes before its siblings, and *)
(* undoes the transaction when one fails.  The contract can be its own     *)
(* admin, and then calls itself; other contracts that run may call it as   *)
(* often as they like.  A handler that returns an error or panics is an    *)
(* action that is not enabled; Fail undoes the transaction it was part of. *)
(***************************************************************************)
EXTENDS Integers, Sequences

CONSTANTS
  Addr,        \* the addresses that pass addr_validate
  Self,        \* the address of the contract
  Senders,     \* the addresses that sign transactions
  Contracts,   \* the addresses of other contracts
  Invalid,     \* strings that do not pass addr_validate
  Calls,       \* the messages the contract is sent: records with a field op
  Messages,    \* the messages it may send: records with a field kind
  MaxPending   \* bound: the messages that wait when another contract has called

ASSUME Cw1Assumption ==
  /\ Self \in Addr
  /\ Senders \subseteq Addr \ {Self}
  /\ Contracts \subseteq Addr \ ({Self} \cup Senders)
  /\ Invalid \cap Addr = {}
  /\ \A c \in Calls : c.op = "execute" => c.msgs \in Seq(Messages)
  /\ \A m \in Messages : m.kind # "abroad" /\ (m.kind = "self" => m.call \in Calls)
  /\ MaxPending \in Nat

VARIABLES
  storage,   \* the items and maps of the contract
  saved,     \* storage when the transaction began
  outbox,    \* messages of the transaction that have yet to end
  callers    \* who has called the contract in it, apart from itself

vars == <<storage, saved, outbox, callers>>

\* whitelist.is_admin
IsAdmin(s) == s \in storage.admins

-----------------------------------------------------------------------------
(***************************************************************************)
(* The handlers.  s is info.sender; rest is what the transaction has yet   *)
(* to run when the handler returns.                                        *)
(***************************************************************************)

Freeze(s, call, rest) ==
  /\ call.op = "freeze"
  /\ IsAdmin(s)
  /\ storage' = [storage EXCEPT !.mutable = FALSE]
  /\ outbox' = rest

\* Mutant: a frozen list is replaced all the same.
UpdateAdminsFrozen(s, call, rest) ==
  /\ call.op = "update_admins"
  /\ IsAdmin(s)
  /\ call.admins \subseteq Addr
  /\ storage' = [storage EXCEPT !.admins = call.admins]
  /\ outbox' = rest

\* What the loops leave is shown in AdminMerge.
UpdateAdmins(s, call, rest) ==
  /\ call.op = "update_admins"
  /\ IsAdmin(s)
  /\ storage.mutable
  /\ call.admins \subseteq Addr
  /\ storage' = [storage EXCEPT !.admins = call.admins]
  /\ outbox' = rest

\* Mutant: anybody may make the contract send messages.
ExecuteUnchecked(s, call, rest) ==
  /\ call.op = "execute"
  /\ outbox' = call.msgs \o rest
  /\ UNCHANGED storage

Execute(s, call, rest) ==
  /\ call.op = "execute"
  /\ IsAdmin(s)
  /\ outbox' = call.msgs \o rest
  /\ UNCHANGED storage

Handle(s, call, rest) ==
  \/ Freeze(s, call, rest)
  \/ UpdateAdmins(s, call, rest)
  \/ Execute(s, call, rest)

-----------------------------------------------------------------------------
(***************************************************************************)
(* The chain.                                                              *)
(***************************************************************************)

\* instantiate, which comes before any message; it fails for an address that
\* does not validate.
Init ==
  /\ storage \in [admins: SUBSET Addr, mutable: BOOLEAN]
  /\ saved = storage
  /\ outbox = <<>>
  /\ callers = {}

Transact ==
  /\ outbox = <<>>
  /\ \E s \in Senders, call \in Calls : Handle(s, call, <<>>) /\ callers' = {s}
  /\ saved' = storage

\* What somebody signed for another contract.
Abroad == [kind |-> "abroad"]

TransactAbroad ==
  /\ outbox = <<>>
  /\ outbox' = <<Abroad>>
  /\ callers' = {}
  /\ saved' = storage
  /\ UNCHANGED storage

IsSelfCall(msg) == msg.kind = "self"

SubMessage ==
  /\ outbox # <<>> /\ IsSelfCall(Head(outbox))
  /\ Handle(Self, Head(outbox).call, Tail(outbox))
  /\ UNCHANGED <<saved, callers>>

\* Other contracts run; bank and staking messages run none.
RunsOthers(msg) == msg.kind \in {"other", "abroad"}

\* One of them calls the contract.  What that makes it send runs before they
\* go on.
CallIn ==
  /\ outbox # <<>> /\ RunsOthers(Head(outbox))
  /\ \E c \in Contracts, call \in Calls : Handle(c, call, outbox) /\ callers' = callers \cup {c}
  /\ Len(outbox') <= MaxPending
  /\ UNCHANGED saved

\* A message for somebody else has run.
Elsewhere ==
  /\ outbox # <<>> /\ ~ IsSelfCall(Head(outbox))
  /\ outbox' = Tail(outbox)
  /\ UNCHANGED <<storage, saved, callers>>

\* Any message may fail, if only for want of gas.
Fail ==
  /\ outbox # <<>>
  /\ storage' = saved
  /\ outbox' = <<>>
  /\ UNCHANGED <<saved, callers>>

Next == Transact \/ TransactAbroad \/ SubMessage \/ CallIn \/ Elsewhere \/ Fail

Spec == Init /\ [][Next]_vars

-----------------------------------------------------------------------------
Storage == [admins: SUBSET Addr, mutable: BOOLEAN]

Pending == Messages \cup {Abroad}

TypeOK ==
  /\ storage \in Storage
  /\ saved \in Storage
  /\ outbox \in Seq(Pending)
  /\ callers \subseteq Senders \cup Contracts

\* What stays if the running transaction fails.
Committed == IF outbox = <<>> THEN storage ELSE saved

\* Whatever the contract sends, somebody who was an admin when the
\* transaction began has called it: it takes an admin to make the contract
\* act, even where its messages go through itself or others call it back.
ActsForAdmins ==
  (\E k \in DOMAIN outbox : outbox[k] # Abroad) => callers \cap saved.admins # {}

\* The admins change in whole transactions, in each of which one of them
\* called the contract, and never again once the list is frozen or empty; a
\* transaction that fails half-way leaves neither a changed list nor a
\* frozen one.
Group == INSTANCE AdminGroup WITH
  Member <- Addr, group <- Committed.admins, open <- Committed.mutable

ImplementsAdminGroup == Group!Spec
=============================================================================

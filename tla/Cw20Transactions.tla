--------------------------- MODULE Cw20Transactions ---------------------------
(***************************************************************************)
(* Cw20Base in the transactions of a chain.  Send and SendFrom finish with *)
(* a Cw20ReceiveMsg for the contract that gets the tokens; it may refuse,  *)
(* or call the token again before the transaction ends.  The chain runs    *)
(* the messages of a response depth first, right after the message that    *)
(* returned it, and undoes the whole transaction when one of them fails.   *)
(***************************************************************************)
EXTENDS Cw20Base, Sequences

CONSTANTS
  Contracts,   \* the addresses of contracts, which sign nothing
  MaxPending   \* bound: the most messages that wait in a transaction

ASSUME TransactionsAssumption ==
  /\ Contracts \subseteq Addr \ Senders
  /\ MaxPending \in Nat

VARIABLES
  outbox,   \* the messages of the transaction that wait
  saved,    \* the storage it began with
  signer,   \* who signed it
  paid      \* what its first message took from the signer's account

txVars == <<vars, outbox, saved, signer, paid>>

Storage ==
  [token_info |-> token_info, balances |-> balances,
   allowances |-> allowances, allowances_spender |-> allowances_spender]

\* A Cw20ReceiveMsg, and a message of a contract for the token, of whatever kind.
Receive(contract, by, amount) == [kind |-> "receive", to |-> contract, by |-> by, amount |-> amount]
CallBy(contract) == [kind |-> "call", by |-> contract]

\* Balance of the storage the transaction began with, and what was approved in it.
SavedBalance(a) == Amount(saved.balances[a])
SavedApproval(o, s) ==
  LET stored == saved.allowances[o][s]
  IN  IF stored = None \/ IsExpired(stored.expires) THEN 0 ELSE stored.allowance

-----------------------------------------------------------------------------
(***************************************************************************)
(* The messages of the token, with those they return.                      *)
(***************************************************************************)

\* Mutant: the message is returned, and the tokens stay where they are.
SendAndTellUnmoved(by, rest) ==
  \E contract \in Addr, amount \in Amounts :
    /\ Balance(by) >= amount
    /\ outbox' = <<Receive(contract, by, amount)>> \o rest
    /\ UNCHANGED <<tokenVars, allowanceVars>>

SendAndTell(by, rest) ==
  \E contract \in Addr, amount \in Amounts :
    /\ Send(by, contract, amount)
    /\ outbox' = <<Receive(contract, by, amount)>> \o rest

\* The contract hears of the sender of the message, not of the owner.
SendFromAndTell(by, rest) ==
  \E owner, contract \in Addr, amount \in Amounts :
    /\ SendFrom(by, owner, contract, amount)
    /\ outbox' = <<Receive(contract, by, amount)>> \o rest

Quiet(by, rest) ==
  /\ outbox' = rest
  /\ \/ \E to \in Addr, amount \in Amounts : Transfer(by, to, amount)
     \/ \E amount \in Amounts : Burn(by, amount)
     \/ \E spender \in Addr, amount \in Amounts, expires \in Expirations \cup {None} :
          \/ IncreaseAllowance(by, spender, amount, expires)
          \/ DecreaseAllowance(by, spender, amount, expires)
     \/ \E owner, to \in Addr, amount \in Amounts : TransferFrom(by, owner, to, amount)
     \/ \E owner \in Addr, amount \in Amounts : BurnFrom(by, owner, amount)
     \/ MintingExecute(by)

Message(by, rest) ==
  /\ Running
  /\ SendAndTell(by, rest) \/ SendFromAndTell(by, rest) \/ Quiet(by, rest)
  /\ sender' = by
  /\ UNCHANGED <<envVars, marketingVars>>

-----------------------------------------------------------------------------
Sign(s) ==
  /\ outbox = <<>>
  /\ Message(s, <<>>)
  /\ saved' = Storage
  /\ signer' = s
  /\ paid' = IF Balance(s)' < Balance(s) THEN Balance(s) - Balance(s)' ELSE 0

\* A contract that was told of tokens accepts them, and may call the token.
Accept ==
  /\ outbox # <<>>
  /\ LET told == Head(outbox)
     IN  /\ told.kind = "receive" /\ told.to \in Contracts
         /\ \E calls \in {<<>>, <<CallBy(told.to)>>, <<CallBy(told.to), CallBy(told.to)>>} :
              /\ Len(calls \o Tail(outbox)) <= MaxPending
              /\ outbox' = calls \o Tail(outbox)
  /\ UNCHANGED <<vars, saved, signer, paid>>

CallBack ==
  /\ outbox # <<>> /\ Head(outbox).kind = "call"
  /\ Message(Head(outbox).by, Tail(outbox))
  /\ UNCHANGED <<saved, signer, paid>>

\* A message fails: an account that is no contract gets one, a contract
\* refuses, or the token does.
RollBack ==
  /\ outbox # <<>>
  /\ outbox' = <<>>
  /\ token_info' = saved.token_info
  /\ balances' = saved.balances
  /\ allowances' = saved.allowances
  /\ allowances_spender' = saved.allowances_spender
  /\ sender' = None
  /\ paid' = 0
  /\ UNCHANGED <<envVars, marketingVars, saved, signer>>

TxInit ==
  /\ Fresh
  /\ marketing_info = None /\ logo = None
  /\ height = 0
  /\ sender = None
  /\ outbox = <<>>
  /\ saved = Storage
  /\ signer = None
  /\ paid = 0

\* Between transactions: instantiation, and the next block.
Outside ==
  /\ outbox = <<>>
  /\ NextBlock \/ \E s \in Senders : Create(s)
  /\ saved' = [token_info |-> token_info', balances |-> balances',
               allowances |-> allowances', allowances_spender |-> allowances_spender']
  /\ signer' = None
  /\ paid' = 0
  /\ UNCHANGED outbox

TxNext ==
  \/ \E s \in Senders : Sign(s)
  \/ Accept
  \/ CallBack
  \/ RollBack
  \/ Outside

TxSpec == TxInit /\ [][TxNext]_txVars

-----------------------------------------------------------------------------
(***************************************************************************)
(* Correctness.                                                            *)
(***************************************************************************)

Approved(o) == SumFunction([s \in Addr |-> SavedApproval(o, s)])

\* In a whole transaction, callbacks included, an account that is no contract
\* loses no more than what its own message moved and what it had approved
\* before: no approval is used twice by calling the token again.
LossIsGranted ==
  \A o \in Addr \ Contracts :
    SavedBalance(o) <= Balance(o) + (IF o = signer THEN paid ELSE 0) + Approved(o)

\* When a contract is told of tokens, it holds them, and nothing has happened
\* in between: it is told by the message that moved them, first of all.
ReceiptsAreBacked ==
  \A k \in DOMAIN outbox :
    outbox[k].kind = "receive" =>
      /\ k = 1
      /\ Balance(outbox[k].to) >= outbox[k].amount
      /\ outbox[k].by = sender
=============================================================================

------------------------ MODULE Cw20TransactionProofs ------------------------
(***************************************************************************)
(* Proofs about Cw20Transactions, for any accounts and contracts and any   *)
(* number of messages that a contract sends back in one transaction.       *)
(***************************************************************************)
EXTENDS Cw20Transactions, Cw20Authority

Pending ==
  [kind : {"receive"}, to : Addr, by : Addr, amount : Amounts] \cup
  [kind : {"call"}, by : Contracts]

\* Of the messages that wait only the first may tell a contract of tokens.
OutboxInv ==
  /\ outbox \in Seq(Pending)
  /\ \A k \in DOMAIN outbox : k # 1 => outbox[k].kind = "call"

\* What a transaction goes back to is as good as what IInv says of the
\* storage where this code runs.
SavedInv ==
  outbox # <<>> =>
    /\ Running
    /\ saved.token_info \in TokenInfo
    /\ saved.token_info.mint # None /\ saved.token_info.mint.cap # None =>
         saved.token_info.total_supply <= saved.token_info.mint.cap
    /\ saved.balances \in [Addr -> Uint128 \cup {None}]
    /\ saved.allowances \in [Addr -> [Addr -> Allowance \cup {None}]]
    /\ saved.allowances_spender \in [Addr -> [Addr -> Allowance \cup {None}]]
    /\ \A a \in Addr : saved.allowances[a][a] = None
    /\ \A o, s \in Addr : saved.allowances_spender[s][o] = saved.allowances[o][s]
    /\ saved.token_info.total_supply = SumFunction([a \in Addr |-> SavedBalance(a)])

TxInv == IInv /\ SupplyIsSumOfBalances /\ OutboxInv /\ SavedInv /\ ReceiptsAreBacked

-----------------------------------------------------------------------------
(***************************************************************************)
(* Sequences of messages.                                                  *)
(***************************************************************************)
\* What waits behind the first message tells nobody of tokens.
LEMMA RestCalls ==
  ASSUME OutboxInv, outbox # <<>>
  PROVE  /\ Head(outbox) = outbox[1] /\ 1 \in DOMAIN outbox /\ Head(outbox) \in Pending
         /\ Tail(outbox) \in Seq(Pending)
         /\ \A k \in DOMAIN Tail(outbox) : Tail(outbox)[k].kind = "call"
<1>1. outbox \in Seq(Pending)
  BY DEF OutboxInv
<1>2. /\ Head(outbox) = outbox[1] /\ 1 \in DOMAIN outbox /\ Head(outbox) \in Pending
      /\ Tail(outbox) \in Seq(Pending)
      /\ \A k \in DOMAIN Tail(outbox) : k + 1 \in DOMAIN outbox /\ k + 1 # 1 /\ Tail(outbox)[k] = outbox[k + 1]
  BY <1>1
<1>. QED  BY <1>2 DEF OutboxInv

\* A message put in front of calls.
LEMMA TellFirst ==
  ASSUME NEW m \in Pending, NEW rest \in Seq(Pending),
         \A k \in DOMAIN rest : rest[k].kind = "call",
         outbox' = <<m>> \o rest
  PROVE  /\ OutboxInv'
         /\ outbox'[1] = m
         /\ \A k \in DOMAIN outbox' : outbox'[k].kind = "receive" => k = 1
<1>1. /\ outbox' \in Seq(Pending) /\ outbox'[1] = m
      /\ \A k \in DOMAIN outbox' : k # 1 => k - 1 \in DOMAIN rest /\ outbox'[k] = rest[k - 1]
  OBVIOUS
<1>. QED  BY <1>1 DEF OutboxInv

\* Where only calls wait nobody is told of tokens.
LEMMA OnlyCalls ==
  ASSUME outbox' \in Seq(Pending), \A k \in DOMAIN outbox' : outbox'[k].kind = "call"
  PROVE  OutboxInv' /\ ReceiptsAreBacked'
BY DEF OutboxInv, ReceiptsAreBacked

-----------------------------------------------------------------------------
(***************************************************************************)
(* The messages of the token.                                              *)
(***************************************************************************)
\* Whoever is sent tokens holds at least those, be it the sender itself.
LEMMA MoveTokensCredits ==
  ASSUME IInv, NEW from \in Addr, NEW to \in Addr, NEW amount \in Amounts,
         MoveTokens(from, to, amount)
  PROVE  Balance(to)' >= amount
<1>. DEFINE debited == [balances EXCEPT ![from] = Balance(from) - amount]
<1>1. amount \in Nat /\ Balance(from) - amount \in Uint128
  BY BalanceType, Cw20Assumption DEF MoveTokens, IInv, Uint128
<1>2. debited \in [Addr -> Uint128 \cup {None}]
  BY <1>1 DEF IInv, TypeOK
<1>3. Amount(debited[to]) \in Nat
  BY <1>2, Cw20Assumption DEF Amount, Uint128
<1>4. balances'[to] = Amount(debited[to]) + amount
  BY <1>2 DEF MoveTokens
<1>5. Amount(debited[to]) + amount # None
  BY <1>1, <1>3, Cw20Assumption
<1>. HIDE DEF debited
<1>. QED  BY <1>1, <1>3, <1>4, <1>5 DEF Balance, Amount

\* A message in a transaction is one of Cw20Base, whoever it comes from.
LEMMA MessageIsExecute ==
  ASSUME NEW by \in Addr, NEW rest, Message(by, rest)
  PROVE  Running /\ TokenExecute(by)
<1>1. CASE SendAndTell(by, rest)
  BY <1>1 DEF Message, SendAndTell, TokenExecute, BaseExecute
<1>2. CASE SendFromAndTell(by, rest)
  BY <1>2 DEF Message, SendFromAndTell, TokenExecute, AllowancesExecute
<1>3. CASE Quiet(by, rest)
  BY <1>3 DEF Message, Quiet, TokenExecute, BaseExecute, AllowancesExecute
<1>. QED  BY <1>1, <1>2, <1>3 DEF Message

LEMMA MessageKeepsStorage ==
  ASSUME IInv, SupplyIsSumOfBalances, NEW by \in Addr, NEW rest, Message(by, rest)
  PROVE  IInv' /\ SupplyIsSumOfBalances' /\ Running'
<1>1. TokenInv' /\ ApprovalInv'
  BY MessageIsExecute, TokenExecuteInv DEF Message, envVars
<1>2. SupplyIsSumOfBalances'
  BY MessageIsExecute, TokenExecuteSupply
<1>. QED
  BY <1>1, <1>2 DEF Message, IInv, TypeOK, TokenInv, ApprovalInv, envVars, marketingVars, Running

\* A contract is told first, of what it holds.
LEMMA MessageTells ==
  ASSUME IInv, NEW by \in Addr, NEW rest \in Seq(Pending),
         \A k \in DOMAIN rest : rest[k].kind = "call", Message(by, rest)
  PROVE  OutboxInv' /\ ReceiptsAreBacked'
<1>1. ASSUME NEW contract \in Addr, NEW amount \in Amounts, NEW from \in Addr,
             MoveTokens(from, contract, amount),
             outbox' = <<Receive(contract, by, amount)>> \o rest
      PROVE  OutboxInv' /\ ReceiptsAreBacked'
  <2>1. Receive(contract, by, amount) \in Pending
    BY DEF Receive, Pending
  <2>2. /\ OutboxInv' /\ outbox'[1] = Receive(contract, by, amount)
        /\ \A k \in DOMAIN outbox' : outbox'[k].kind = "receive" => k = 1
    BY <1>1, <2>1, TellFirst
  <2>3. Balance(contract)' >= amount
    BY <1>1, MoveTokensCredits
  <2>4. sender' = by
    BY DEF Message
  <2>. QED  BY <2>2, <2>3, <2>4 DEF ReceiptsAreBacked, Receive, Balance
<1>2. CASE SendAndTell(by, rest)
  BY <1>1, <1>2 DEF SendAndTell, Send
<1>3. CASE SendFromAndTell(by, rest)
  BY <1>1, <1>3 DEF SendFromAndTell, SendFrom
<1>4. CASE Quiet(by, rest)
  BY <1>4, OnlyCalls DEF Quiet
<1>. QED  BY <1>2, <1>3, <1>4 DEF Message

-----------------------------------------------------------------------------
(***************************************************************************)
(* The steps of the chain.                                                 *)
(***************************************************************************)
LEMMA TxInitInv == TxInit => TxInv
<1>. SUFFICES ASSUME TxInit PROVE TxInv
  OBVIOUS
<1>1. Init
  BY DEF TxInit, Init
<1>2. outbox = <<>>
  BY DEF TxInit
<1>. QED  BY <1>1, <1>2, InitInv, InitSupply DEF TxInv, OutboxInv, SavedInv, ReceiptsAreBacked

LEMMA SignInv ==
  ASSUME TxInv, NEW s \in Senders, Sign(s)
  PROVE  TxInv'
<1>1. s \in Addr /\ Message(s, <<>>) /\ <<>> \in Seq(Pending)
  BY Cw20Assumption DEF Sign
<1>2. IInv' /\ SupplyIsSumOfBalances' /\ Running'
  BY <1>1, MessageKeepsStorage DEF TxInv
<1>3. OutboxInv' /\ ReceiptsAreBacked'
  <2>. DEFINE none == <<>>
  <2>1. none \in Seq(Pending) /\ \A k \in DOMAIN none : none[k].kind = "call"
    OBVIOUS
  <2>2. Message(s, none)
    BY <1>1
  <2>. HIDE DEF none
  <2>. QED  BY <1>1, <2>1, <2>2, MessageTells DEF TxInv
<1>4. Running /\ token_info \in TokenInfo
  BY <1>1, RunningHasToken DEF Message, TxInv
<1>5. SavedInv'
  <2>1. \A o, t \in Addr : allowances_spender[t][o] = allowances[o][t]
    BY <1>4 DEF TxInv, IInv, MirrorAgrees, MirrorIsConverse
  <2>2. token_info.mint # None /\ token_info.mint.cap # None =>
          token_info.total_supply <= token_info.mint.cap
    BY <1>4, NoneAssumption DEF TxInv, IInv, SupplyWithinCap, cap
  <2>3. saved' = Storage
    BY DEF Sign
  <2>4. saved'.token_info.total_supply = SumFunction([a \in Addr |-> SavedBalance(a)'])
    BY <1>4, <2>3, RunningHasToken DEF TxInv, SupplyIsSumOfBalances, SavedBalance, Balance, Storage
  <2>. QED
    BY <1>2, <1>4, <2>1, <2>2, <2>3, <2>4 DEF SavedInv, Storage, TxInv, IInv, TypeOK, NoSelfApproval
<1>. QED  BY <1>2, <1>3, <1>5 DEF TxInv

LEMMA AcceptInv ==
  ASSUME TxInv, Accept
  PROVE  TxInv'
<1>1. PICK calls \in {<<>>, <<CallBy(Head(outbox).to)>>, <<CallBy(Head(outbox).to), CallBy(Head(outbox).to)>>} :
        outbox' = calls \o Tail(outbox)
  BY DEF Accept
<1>2. Head(outbox).to \in Contracts /\ outbox # <<>> /\ UNCHANGED <<vars, saved>>
  BY DEF Accept
<1>3. CallBy(Head(outbox).to) \in Pending /\ CallBy(Head(outbox).to).kind = "call"
  BY <1>2 DEF CallBy, Pending
<1>. DEFINE c == CallBy(Head(outbox).to)
<1>. HIDE DEF c
<1>4. calls \in Seq(Pending) /\ \A k \in DOMAIN calls : calls[k] = c
  <2>1. calls \in {<<>>, <<c>>, <<c, c>>} /\ c \in Pending
    BY <1>1, <1>3 DEF c
  <2>2. CASE calls = <<>>
    BY <2>2
  <2>3. CASE calls = <<c>>
    BY <2>1, <2>3
  <2>4. CASE calls = <<c, c>>
    BY <2>1, <2>4
  <2>. QED  BY <2>1, <2>2, <2>3, <2>4
<1>5. /\ outbox' \in Seq(Pending)
      /\ \A k \in DOMAIN outbox' : outbox'[k].kind = "call"
  <2>1. Tail(outbox) \in Seq(Pending) /\ \A k \in DOMAIN Tail(outbox) : Tail(outbox)[k].kind = "call"
    BY <1>2, RestCalls DEF TxInv
  <2>2. c.kind = "call"
    BY <1>3 DEF c
  <2>. DEFINE t == Tail(outbox)
  <2>. HIDE DEF t
  <2>3. /\ calls \o t \in Seq(Pending)
        /\ \A k \in DOMAIN (calls \o t) :
             \/ k \in DOMAIN calls /\ (calls \o t)[k] = calls[k]
             \/ k - Len(calls) \in DOMAIN t /\ (calls \o t)[k] = t[k - Len(calls)]
    BY <1>4, <2>1 DEF t
  <2>. QED  BY <1>1, <1>4, <2>1, <2>2, <2>3 DEF t
<1>6. OutboxInv' /\ ReceiptsAreBacked'
  BY <1>5, OnlyCalls
<1>7. IInv' /\ SupplyIsSumOfBalances'
  BY <1>2, SupplyUntouched DEF TxInv, IInv, TypeOK, InstanceHasToken, SupplyWithinCap, NoSelfApproval, MirrorAgrees,
     MirrorIsComplete, MirrorIsConverse, cap, Running, vars, tokenVars, allowanceVars, marketingVars, envVars
<1>8. SavedInv'
  BY <1>2 DEF TxInv, SavedInv, SavedBalance, Running, vars, envVars
<1>. QED  BY <1>6, <1>7, <1>8 DEF TxInv

LEMMA CallBackInv ==
  ASSUME TxInv, CallBack
  PROVE  TxInv'
<1>1. outbox # <<>> /\ Head(outbox).kind = "call" /\ UNCHANGED saved
  BY DEF CallBack
<1>2. /\ Head(outbox) \in Pending
      /\ Tail(outbox) \in Seq(Pending)
      /\ \A k \in DOMAIN Tail(outbox) : Tail(outbox)[k].kind = "call"
  BY <1>1, RestCalls DEF TxInv
<1>3. Head(outbox).by \in Addr
  BY <1>1, <1>2, TransactionsAssumption DEF Pending
<1>4. Message(Head(outbox).by, Tail(outbox))
  BY DEF CallBack
<1>5. IInv' /\ SupplyIsSumOfBalances' /\ Running'
  BY <1>3, <1>4, MessageKeepsStorage DEF TxInv
<1>6. OutboxInv' /\ ReceiptsAreBacked'
  BY <1>2, <1>3, <1>4, MessageTells DEF TxInv
<1>7. SavedInv'
  BY <1>1, <1>5 DEF TxInv, SavedInv, SavedBalance
<1>. QED  BY <1>5, <1>6, <1>7 DEF TxInv

LEMMA RollBackInv ==
  ASSUME TxInv, RollBack
  PROVE  TxInv'
<1>1. /\ outbox # <<>> /\ outbox' = <<>>
      /\ token_info' = saved.token_info /\ balances' = saved.balances
      /\ allowances' = saved.allowances /\ allowances_spender' = saved.allowances_spender
      /\ sender' = None
      /\ UNCHANGED <<envVars, marketingVars>>
  BY DEF RollBack
<1>2. TypeOK'
  BY <1>1 DEF TxInv, IInv, SavedInv, TypeOK, envVars, marketingVars
<1>3. Running /\ Running' /\ contract_version' # None
  BY <1>1, Cw20Assumption DEF TxInv, SavedInv, Running, envVars
<1>4. InstanceHasToken'
  BY <1>1, <1>3, NoneAssumption DEF TxInv, SavedInv, InstanceHasToken
<1>5. SupplyWithinCap'
  BY <1>1 DEF TxInv, SavedInv, SupplyWithinCap, cap
<1>6. NoSelfApproval'
  BY <1>1 DEF TxInv, SavedInv, NoSelfApproval
<1>7. MirrorAgrees'
  BY <1>1, <1>3 DEF TxInv, SavedInv, MirrorAgrees, MirrorIsComplete, MirrorIsConverse
<1>8. OutboxInv' /\ SavedInv' /\ ReceiptsAreBacked'
  BY <1>1 DEF OutboxInv, SavedInv, ReceiptsAreBacked
<1>9. SupplyIsSumOfBalances'
  BY <1>1 DEF TxInv, SavedInv, SupplyIsSumOfBalances, SavedBalance, Balance
<1>. QED  BY <1>2, <1>4, <1>5, <1>6, <1>7, <1>8, <1>9 DEF TxInv, IInv

LEMMA OutsideInv ==
  ASSUME TxInv, Outside
  PROVE  TxInv'
<1>1. Next /\ outbox' = <<>>
  BY DEF Outside, Next
<1>2. IInv' /\ SupplyIsSumOfBalances'
  BY <1>1, NextInv, NextSupply DEF TxInv
<1>. QED  BY <1>1, <1>2 DEF TxInv, OutboxInv, SavedInv, ReceiptsAreBacked

LEMMA TxStutterInv ==
  ASSUME TxInv, UNCHANGED txVars
  PROVE  TxInv'
<1>1. UNCHANGED vars /\ UNCHANGED <<outbox, saved>>
  BY DEF txVars
<1>2. IInv' /\ SupplyIsSumOfBalances'
  BY <1>1, NextInv, NextSupply DEF TxInv
<1>. QED
  BY <1>1, <1>2 DEF TxInv, OutboxInv, SavedInv, SavedBalance, ReceiptsAreBacked, Running, Balance,
     vars, envVars, tokenVars

LEMMA TxInvariance == TxSpec => []TxInv
<1>1. TxInv /\ [TxNext]_txVars => TxInv'
  BY SignInv, AcceptInv, CallBackInv, RollBackInv, OutsideInv, TxStutterInv DEF TxNext
<1>. QED  BY <1>1, TxInitInv, PTL DEF TxSpec

-----------------------------------------------------------------------------
(***************************************************************************)
(* What a transaction may cost an account.                                 *)
(***************************************************************************)
\* All that others may spend of an account, now.
SpendableFrom(o) == SumFunctionOnSet([s \in Addr |-> Spendable(o, s)], Addr)

Paid(o) == IF o = signer THEN paid ELSE 0

\* While messages wait, what an account has lost and what is left of its
\* approvals are together no more than what it granted: nothing is spent
\* without an approval that falls as much.
GrantInv ==
  /\ paid \in Nat
  /\ LossIsGranted
  /\ outbox # <<>> => \A o \in Addr \ Contracts :
       SavedBalance(o) + SpendableFrom(o) <= Balance(o) + Paid(o) + Approved(o)

LEMMA SpendableType ==
  ASSUME IInv
  PROVE  \A o \in Addr :
           /\ SpendableFrom(o) \in Nat
           /\ Balance(o) \in Nat
           /\ \A s \in Addr : Spendable(o, s) \in Nat
<1>. TAKE o \in Addr
<1>1. \A s \in Addr : Spendable(o, s) \in Nat
  BY DEF IInv, TypeOK, Spendable, Allowance, Uint128
<1>2. SpendableFrom(o) \in Nat
  <2>. DEFINE spendable == [s \in Addr |-> Spendable(o, s)]
  <2>1. \A s \in Addr : spendable[s] \in Nat
    BY <1>1
  <2>. HIDE DEF spendable
  <2>2. SumFunctionOnSet(spendable, Addr) \in Nat
    BY <2>1, FiniteAddr, SumIsNat
  <2>. QED  BY <2>2 DEF SpendableFrom, spendable
<1>. QED  BY <1>1, <1>2, BalanceType DEF IInv, Uint128

LEMMA SpendableTypeNext ==
  ASSUME IInv'
  PROVE  \A o \in Addr : SpendableFrom(o)' \in Nat /\ Balance(o)' \in Nat
<1>. TAKE o \in Addr
<1>. DEFINE spendable == [s \in Addr |-> Spendable(o, s)']
<1>1. \A s \in Addr : spendable[s] \in Nat
  BY DEF IInv, TypeOK, Spendable, Allowance, Uint128
<1>2. Balance(o)' \in Nat
  BY Cw20Assumption DEF IInv, TypeOK, Balance, Amount, Uint128
<1>3. SpendableFrom(o)' = SumFunctionOnSet(spendable, Addr)
  BY DEF SpendableFrom
<1>. HIDE DEF spendable
<1>4. SumFunctionOnSet(spendable, Addr) \in Nat
  BY <1>1, FiniteAddr, SumIsNat
<1>. QED  BY <1>2, <1>3, <1>4

LEMMA SavedType ==
  ASSUME SavedInv, outbox # <<>>
  PROVE  \A o \in Addr : SavedBalance(o) \in Nat /\ Approved(o) \in Nat
<1>. TAKE o \in Addr
<1>1. SavedBalance(o) \in Nat
  BY DEF SavedInv, SavedBalance, Amount, Uint128
<1>2. Approved(o) \in Nat
  <2>. DEFINE approved == [s \in Addr |-> SavedApproval(o, s)]
  <2>1. \A s \in Addr : approved[s] \in Nat
    BY DEF SavedInv, SavedApproval, Allowance, Uint128
  <2>. HIDE DEF approved
  <2>2. SumFunctionOnSet(approved, Addr) \in Nat
    BY <2>1, FiniteAddr, SumIsNat
  <2>. QED  BY <2>2 DEF Approved, SumFunction, approved
<1>. QED  BY <1>1, <1>2

\* A message of somebody else takes from an account no more than it takes
\* from the approvals of that account.
LEMMA MessageGrants ==
  ASSUME IInv, SupplyIsSumOfBalances, NEW by \in Addr, NEW rest, Message(by, rest),
         NEW o \in Addr, o # by
  PROVE  Balance(o) + SpendableFrom(o)' <= Balance(o)' + SpendableFrom(o)
<1>. DEFINE before == [s \in Addr |-> Spendable(o, s)]
            after  == [s \in Addr |-> Spendable(o, s)']
<1>1. IInv' /\ sender' = by /\ height' = height
  BY MessageKeepsStorage DEF Message, envVars
<1>2. DebitStep /\ ApprovalStep
  BY <1>1, MessageIsExecute, ExecuteDebit, ExecuteApproval
<1>3. ASSUME NEW s \in Addr, s # by
      PROVE  Spendable(o, s)' = Spendable(o, s)
  <2>1. allowances'[o][s] = allowances[o][s]
    BY <1>1, <1>2, <1>3 DEF ApprovalStep
  <2>. QED  BY <1>1, <2>1 DEF Spendable, IsExpired
<1>4. /\ \A s \in Addr : Spendable(o, s) \in Nat /\ Spendable(o, s)' \in Nat
      /\ Balance(o) \in Nat /\ Balance(o)' \in Nat
      /\ \A e : IsExpired(e)' = IsExpired(e)
  BY <1>1, SpendableType DEF IInv, TypeOK, Spendable, Allowance, Uint128, Balance, Amount, IsExpired
<1>5. Spendable(o, by)' <= Spendable(o, by)
  <2>1. CASE allowances'[o][by] = allowances[o][by]
    BY <1>1, <1>4, <2>1 DEF Spendable, IsExpired
  <2>2. CASE allowances'[o][by] # allowances[o][by]
    BY <1>1, <1>2, <1>4, <2>2 DEF ApprovalStep, Spendable, IsExpired
  <2>. QED  BY <2>1, <2>2
<1>6. ASSUME Balance(o)' < Balance(o)
      PROVE  Balance(o) + Spendable(o, by)' <= Balance(o)' + Spendable(o, by)
  <2>. DEFINE loss == Balance(o) - Balance(o)'
              old  == allowances[o][by]
  <2>1. /\ loss <= Spendable(o, by) /\ loss \in Nat /\ loss > 0
        /\ allowances'[o][by] = [old EXCEPT !.allowance = @ - loss]
    BY <1>1, <1>2, <1>4, <1>6 DEF DebitStep
  <2>. HIDE DEF loss
  <2>2. Spendable(o, by) # 0
    BY <1>4, <2>1
  <2>3. old # None /\ ~ IsExpired(old.expires) /\ Spendable(o, by) = old.allowance
    BY <2>2 DEF Spendable
  <2>4. old \in Allowance
    BY <2>3 DEF IInv, TypeOK
  <2>5. allowances'[o][by].allowance = old.allowance - loss /\ allowances'[o][by].expires = old.expires
    BY <2>1, <2>4 DEF Allowance
  <2>6. Spendable(o, by)' \in {0, old.allowance - loss}
    BY <2>5 DEF Spendable
  <2>7. old.allowance - loss >= 0
    BY <1>4, <2>1, <2>3
  <2>. HIDE DEF old
  <2>. QED  BY <1>4, <2>1, <2>3, <2>6, <2>7 DEF loss
<1>7. Balance(o) + Spendable(o, by)' <= Balance(o)' + Spendable(o, by)
  BY <1>4, <1>5, <1>6
<1>8. /\ SumFunctionOnSet(after, Addr) = SumFunctionOnSet(before, Addr) - before[by] + after[by]
      /\ SumFunctionOnSet(before, Addr) \in Nat
      /\ before[by] = Spendable(o, by) /\ after[by] = Spendable(o, by)'
  <2>1. \A s \in Addr : before[s] \in Nat /\ after[s] \in Nat /\ (s # by => after[s] = before[s])
    BY <1>3, <1>4
  <2>. HIDE DEF before, after
  <2>3. /\ SumFunctionOnSet(after, Addr) = SumFunctionOnSet(before, Addr) - before[by] + after[by]
        /\ SumFunctionOnSet(before, Addr) \in Nat
    BY <2>1, AddrSumOfUpdate
  <2>. QED  BY <2>3 DEF before, after
<1>9. SpendableFrom(o) = SumFunctionOnSet(before, Addr) /\ SpendableFrom(o)' = SumFunctionOnSet(after, Addr)
  BY DEF SpendableFrom
<1>. HIDE DEF before, after
<1>. QED  BY <1>4, <1>7, <1>8, <1>9

\* What is approved in a storage that was just saved is what may be spent.
LEMMA SavedIsNow ==
  ASSUME saved = Storage
  PROVE  \A o \in Addr : SavedBalance(o) = Balance(o) /\ Approved(o) = SpendableFrom(o)
BY DEF Storage, SavedBalance, Balance, Approved, SumFunction, SpendableFrom, SavedApproval, Spendable

LEMMA SavesNow ==
  ASSUME saved' = Storage, height' = height
  PROVE  \A o \in Addr : SavedBalance(o)' = Balance(o) /\ Approved(o)' = SpendableFrom(o)
BY DEF Storage, SavedBalance, Balance, Approved, SumFunction, SpendableFrom, SavedApproval, Spendable,
   IsExpired

\* The messages that tell a contract of tokens leave the approvals of their
\* sender alone: nobody spends from its own.
LEMMA TellingApprovesNothing ==
  ASSUME IInv, NEW by \in Addr, Message(by, <<>>), outbox' # <<>>
  PROVE  SpendableFrom(by)' = SpendableFrom(by)
<1>1. SendAndTell(by, <<>>) \/ SendFromAndTell(by, <<>>)
  BY DEF Message, Quiet
<1>2. \A s \in Addr : allowances'[by][s] = allowances[by][s]
  <2>1. CASE SendAndTell(by, <<>>)
    BY <2>1 DEF SendAndTell, Send, allowanceVars
  <2>2. CASE SendFromAndTell(by, <<>>)
    <3>1. PICK owner \in Addr, amount \in Amounts : DeductAllowance(owner, by, amount)
      BY <2>2 DEF SendFromAndTell, SendFrom
    <3>2. owner # by
      BY <3>1 DEF DeductAllowance, Deductible, IInv, NoSelfApproval
    <3>. QED  BY <3>1, <3>2 DEF DeductAllowance, IInv, TypeOK
  <2>. QED  BY <1>1, <2>1, <2>2
<1>3. height' = height
  BY DEF Message, envVars
<1>4. \A s \in Addr : Spendable(by, s)' = Spendable(by, s)
  BY <1>2, <1>3 DEF Spendable, IsExpired
<1>. QED  BY <1>4 DEF SpendableFrom

-----------------------------------------------------------------------------
(***************************************************************************)
(* The steps of the chain, and what accounts have granted.                 *)
(***************************************************************************)
\* Nothing is granted where nothing is stored.
LEMMA TxInitGrant == TxInit => GrantInv
<1>. SUFFICES ASSUME TxInit PROVE GrantInv
  OBVIOUS
<1>1. IInv /\ paid = 0 /\ outbox = <<>> /\ saved = Storage
  BY InitInv DEF TxInit, Init
<1>2. \A o \in Addr : SavedBalance(o) = Balance(o) /\ Approved(o) = SpendableFrom(o)
  BY <1>1, SavedIsNow
<1>. QED  BY <1>1, <1>2, SpendableType DEF GrantInv, LossIsGranted

\* A signed message takes from others what they approved.  From its own
\* account it takes what is paid, and it approves nothing if it tells a
\* contract of tokens.
LEMMA SignGrant ==
  ASSUME TxInv, NEW s \in Senders, Sign(s)
  PROVE  GrantInv'
<1>1. /\ s \in Addr /\ Message(s, <<>>) /\ saved' = Storage /\ signer' = s
      /\ paid' = IF Balance(s)' < Balance(s) THEN Balance(s) - Balance(s)' ELSE 0
  BY Cw20Assumption DEF Sign
<1>2. IInv /\ IInv' /\ SupplyIsSumOfBalances /\ height' = height
  BY <1>1, MessageKeepsStorage DEF TxInv, Message, envVars
<1>3. /\ \A o \in Addr : Balance(o) \in Nat /\ Balance(o)' \in Nat
      /\ \A o \in Addr : SpendableFrom(o) \in Nat /\ SpendableFrom(o)' \in Nat
      /\ paid' \in Nat
  BY <1>1, <1>2, SpendableType, SpendableTypeNext
<1>4. \A o \in Addr : SavedBalance(o)' = Balance(o) /\ Approved(o)' = SpendableFrom(o)
  BY <1>1, <1>2, SavesNow
<1>5. \A o \in Addr : o # s => Balance(o) + SpendableFrom(o)' <= Balance(o)' + SpendableFrom(o)
  BY <1>1, <1>2, MessageGrants
<1>6. Balance(s) <= Balance(s)' + paid'
  BY <1>1, <1>3
<1>7. outbox' # <<>> => SpendableFrom(s)' = SpendableFrom(s)
  BY <1>1, <1>2, TellingApprovesNothing
<1>8. \A o \in Addr : Paid(o)' = IF o = s THEN paid' ELSE 0
  BY <1>1 DEF Paid
<1>9. \A o \in Addr : SavedBalance(o)' <= Balance(o)' + Paid(o)' + Approved(o)'
  BY <1>3, <1>4, <1>5, <1>6, <1>8
<1>10. outbox' # <<>> => \A o \in Addr :
         SavedBalance(o)' + SpendableFrom(o)' <= Balance(o)' + Paid(o)' + Approved(o)'
  BY <1>3, <1>4, <1>5, <1>6, <1>7, <1>8
<1>. QED  BY <1>3, <1>9, <1>10 DEF GrantInv, LossIsGranted, Paid

\* A contract that calls back takes from others what they approved.
LEMMA CallBackGrant ==
  ASSUME TxInv, GrantInv, CallBack
  PROVE  GrantInv'
<1>1. outbox # <<>> /\ UNCHANGED <<saved, signer, paid>> /\ Head(outbox).kind = "call"
  BY DEF CallBack
<1>2. Head(outbox).by \in Contracts /\ Head(outbox).by \in Addr
  BY <1>1, RestCalls, TransactionsAssumption DEF TxInv, Pending
<1>. DEFINE by == Head(outbox).by
<1>3. Message(by, Tail(outbox))
  BY DEF CallBack
<1>. HIDE DEF by
<1>4. IInv /\ IInv' /\ SupplyIsSumOfBalances /\ height' = height
  BY <1>2, <1>3, MessageKeepsStorage DEF TxInv, Message, envVars, by
<1>5. \A o \in Addr \ Contracts :
        Balance(o) + SpendableFrom(o)' <= Balance(o)' + SpendableFrom(o)
  BY <1>2, <1>3, <1>4, MessageGrants DEF by
<1>6. /\ \A o \in Addr : Balance(o) \in Nat /\ Balance(o)' \in Nat
      /\ \A o \in Addr : SpendableFrom(o) \in Nat /\ SpendableFrom(o)' \in Nat
      /\ \A o \in Addr : SavedBalance(o) \in Nat /\ Approved(o) \in Nat
      /\ \A o \in Addr : Paid(o) \in Nat
      /\ paid \in Nat
  BY <1>1, <1>4, SpendableType, SpendableTypeNext, SavedType DEF TxInv, GrantInv, Paid
<1>7. \A o \in Addr : SavedBalance(o)' = SavedBalance(o) /\ Approved(o)' = Approved(o) /\ Paid(o)' = Paid(o)
  BY <1>1, <1>4 DEF SavedBalance, Approved, SavedApproval, IsExpired, Paid
<1>8. \A o \in Addr \ Contracts :
        SavedBalance(o) + SpendableFrom(o) <= Balance(o) + Paid(o) + Approved(o)
  BY <1>1 DEF GrantInv
<1>9. \A o \in Addr \ Contracts :
        SavedBalance(o) + SpendableFrom(o)' <= Balance(o)' + Paid(o) + Approved(o)
  BY <1>5, <1>6, <1>8
<1>10. \A o \in Addr \ Contracts : SavedBalance(o) <= Balance(o)' + Paid(o) + Approved(o)
  BY <1>6, <1>9
<1>. QED  BY <1>1, <1>6, <1>7, <1>9, <1>10 DEF GrantInv, LossIsGranted, Paid

LEMMA AcceptGrant ==
  ASSUME GrantInv, Accept
  PROVE  GrantInv'
BY DEF Accept, GrantInv, LossIsGranted, SavedBalance, SpendableFrom, Spendable, Balance, Paid, Approved,
   SavedApproval, IsExpired, vars, tokenVars, allowanceVars, envVars

\* Everything is as it was.
LEMMA RollBackGrant ==
  ASSUME TxInv, RollBack
  PROVE  GrantInv'
<1>1. /\ outbox # <<>> /\ outbox' = <<>> /\ paid' = 0 /\ balances' = saved.balances
      /\ UNCHANGED <<saved, height>>
  BY DEF RollBack, envVars
<1>2. \A o \in Addr : SavedBalance(o)' = SavedBalance(o) /\ Balance(o)' = SavedBalance(o)
                       /\ Approved(o)' = Approved(o)
  BY <1>1 DEF SavedBalance, Balance, Approved, SavedApproval, IsExpired
<1>3. \A o \in Addr : SavedBalance(o) \in Nat /\ Approved(o) \in Nat
  BY <1>1, SavedType DEF TxInv
<1>. QED  BY <1>1, <1>2, <1>3 DEF GrantInv, LossIsGranted

LEMMA OutsideGrant ==
  ASSUME TxInv, TxInv', Outside
  PROVE  GrantInv'
<1>1. /\ outbox' = <<>> /\ paid' = 0
      /\ saved' = [token_info |-> token_info', balances |-> balances',
                   allowances |-> allowances', allowances_spender |-> allowances_spender']
  BY DEF Outside
<1>2. \A o \in Addr : SavedBalance(o)' = Balance(o)' /\ Approved(o)' = SpendableFrom(o)'
  BY <1>1 DEF SavedBalance, Balance, Approved, SumFunction, SpendableFrom, SavedApproval, Spendable
<1>3. \A o \in Addr : Balance(o)' \in Nat /\ SpendableFrom(o)' \in Nat
  BY SpendableTypeNext DEF TxInv
<1>. QED  BY <1>1, <1>2, <1>3 DEF GrantInv, LossIsGranted

LEMMA TxStutterGrant ==
  ASSUME GrantInv, UNCHANGED txVars
  PROVE  GrantInv'
BY DEF txVars, GrantInv, LossIsGranted, SavedBalance, SpendableFrom, Spendable, Balance, Paid, Approved,
   SavedApproval, IsExpired, vars, tokenVars, allowanceVars, envVars

LEMMA GrantInvariance == TxSpec => []GrantInv
<1>1. TxInv /\ TxInv' /\ GrantInv /\ [TxNext]_txVars => GrantInv'
  BY SignGrant, AcceptGrant, CallBackGrant, RollBackGrant, OutsideGrant, TxStutterGrant DEF TxNext
<1>. QED  BY <1>1, TxInitGrant, TxInvariance, PTL DEF TxSpec

-----------------------------------------------------------------------------
(***************************************************************************)
(* Transactions of the ledger.                                             *)
(***************************************************************************)
GoesBackTo(storage) ==
  /\ token_info' = storage.token_info
  /\ balances' = storage.balances
  /\ allowances' = storage.allowances
  /\ allowances_spender' = storage.allowances_spender

\* A step is one of the ledger, or ends the transaction and goes back to what
\* was saved, which is what it began with: while messages wait nothing is saved.
TransactionStep ==
  /\ \/ Ledger!Next
     \/ outbox # <<>> /\ outbox' = <<>> /\ GoesBackTo(saved)
  /\ saved' # saved => outbox = <<>> /\ saved' \in {Storage, Storage'}

LEMMA MessageIsLedgers ==
  ASSUME IInv, NEW by \in Addr, NEW rest, Message(by, rest)
  PROVE  Ledger!Next
BY MessageIsExecute, LedgerExecutes DEF Message, envVars

LEMMA TransactionSteps ==
  ASSUME TxInv, TxInv', [TxNext]_txVars
  PROVE  TransactionStep
<1>1. ASSUME NEW s \in Senders, Sign(s)
      PROVE  TransactionStep
  BY <1>1, MessageIsLedgers, Cw20Assumption DEF Sign, TransactionStep, TxInv
<1>2. CASE Accept \/ UNCHANGED txVars
  <2>1. UNCHANGED <<vars, saved>>
    BY <1>2 DEF Accept, txVars
  <2>. QED  BY <2>1, LedgerSteps DEF TransactionStep, TxInv
<1>3. CASE CallBack
  <2>1. /\ Head(outbox).by \in Addr
        /\ Message(Head(outbox).by, Tail(outbox)) /\ UNCHANGED saved
    <3>1. outbox # <<>> /\ Head(outbox).kind = "call" /\ Head(outbox) \in Pending
      BY <1>3, RestCalls DEF CallBack, TxInv
    <3>. QED  BY <1>3, <3>1, TransactionsAssumption DEF CallBack, Pending
  <2>. QED  BY <2>1, MessageIsLedgers DEF TransactionStep, TxInv
<1>4. CASE RollBack
  BY <1>4 DEF RollBack, GoesBackTo, TransactionStep
<1>5. CASE Outside
  <2>1. Next /\ outbox = <<>> /\ saved' = Storage'
    BY <1>5 DEF Outside, Next, Storage
  <2>. QED  BY <2>1, LedgerSteps DEF TransactionStep, TxInv
<1>. QED  BY <1>1, <1>2, <1>3, <1>4, <1>5 DEF TxNext

-----------------------------------------------------------------------------
(***************************************************************************)
(* Theorems.                                                               *)
(***************************************************************************)
\* The invariant of the storage holds in the middle of a transaction and
\* after one that failed, whatever contracts call back.
THEOREM TransactionsKeepStorage == TxSpec => []IInv
<1>1. TxInv => IInv
  BY DEF TxInv
<1>. QED  BY <1>1, TxInvariance, PTL

\* A contract that is told of tokens holds them, before anything else happens.
THEOREM ReceiptsAreBackedCorrect == TxSpec => []ReceiptsAreBacked
<1>1. TxInv => ReceiptsAreBacked
  BY DEF TxInv
<1>. QED  BY <1>1, TxInvariance, PTL

\* In the middle of a transaction too, and after one that failed, the supply
\* is the sum of all balances.
THEOREM SupplyIsSumInTransactions == TxSpec => []SupplyIsSumOfBalances
<1>1. TxInv => SupplyIsSumOfBalances
  BY DEF TxInv
<1>. QED  BY <1>1, TxInvariance, PTL

\* So that no credit overflows there, however often contracts call back.
THEOREM CreditsNeverOverflowInTransactions == TxSpec => []CreditsNeverOverflow
<1>1. TxInv => CreditsNeverOverflow
  BY SupplyBoundsTwo DEF TxInv
<1>. QED  BY <1>1, TxInvariance, PTL

\* A transaction costs an account that is no contract at most what its own
\* message moved and what it had approved before, whatever contracts call
\* back: no approval is used twice.
THEOREM LossIsGrantedCorrect == TxSpec => []LossIsGranted
<1>1. GrantInv => LossIsGranted
  BY DEF GrantInv
<1>. QED  BY <1>1, GrantInvariance, PTL

\* Calls back from contracts are steps of the ledger like any other, on its
\* authority; a message that fails takes the ledger back to where its
\* transaction began, and to nothing in between.
THEOREM TransactionsFollowLedger == TxSpec => [][TransactionStep]_txVars
  BY TransactionSteps, TxInvariance, PTL DEF TxSpec
=============================================================================

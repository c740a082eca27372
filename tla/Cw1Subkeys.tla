------------------------------ MODULE Cw1Subkeys ------------------------------
(***************************************************************************)
(* The cw1-subkeys contract (examples/contracts/cw1-subkeys): a whitelist  *)
(* whose admins let others make the contract send some messages, by an     *)
(* allowance that covers bank messages or by permissions.                  *)
(*                                                                         *)
(* The storage of Cw1Whitelist has two more maps here, in which an absent  *)
(* entry holds None, and Freeze and UpdateAdmins are its own.              *)
(***************************************************************************)
EXTENDS Cw1Whitelist

CONSTANTS
  Denoms,        \* denominations
  MaxUint128,    \* the largest Uint128
  Amounts,       \* the amounts that messages carry
  Expirations,   \* the Expiration values that messages carry
  Never,         \* Expiration::Never
  None,          \* Option::None
  MaxHeight      \* bound: the last block height that is explored

Uint128 == 0 .. MaxUint128

ASSUME SubkeysAssumption ==
  /\ MaxUint128 \in Nat
  /\ Amounts \subseteq Uint128
  /\ Expirations \subseteq Nat \cup {Never}
  /\ Never \notin Nat
  /\ None \notin Nat \cup {Never}
  /\ MaxHeight \in Nat

VARIABLE height   \* env.block.height

subkeysVars == <<vars, height>>

-----------------------------------------------------------------------------
(***************************************************************************)
(* cw_utils: Expiration and NativeBalance.  A balance maps a denomination  *)
(* to an amount, or to None if it holds no coin of it; it may hold a coin  *)
(* of amount zero.                                                         *)
(***************************************************************************)
Balance     == [Denoms -> Uint128 \cup {None}]
Allowance   == [balance: Balance, expires: Expirations \cup {Never}]
Permissions == [delegate: BOOLEAN, redelegate: BOOLEAN, undelegate: BOOLEAN, withdraw: BOOLEAN]

\* An absent entry differs from every one that is present.
ASSUME NoneAssumption == None \notin Allowance \cup Permissions \cup Balance

\* What the messages about grants carry.
ASSUME GrantsAssumption ==
  \A c \in Calls :
    /\ c.op \in {"increase_allowance", "decrease_allowance"} =>
         /\ c.coin \in [denom: Denoms, amount: Amounts]
         /\ c.expires \in Expirations \cup {None}
    /\ c.op = "set_permissions" => c.permissions \in Permissions

NoCoins == [d \in Denoms |-> None]

NoAllowance   == [balance |-> NoCoins, expires |-> Never]
NoPermissions == [delegate |-> FALSE, redelegate |-> FALSE, undelegate |-> FALSE, withdraw |-> FALSE]

IsExpired(expires) == expires # Never /\ expires <= height

IsLive(allow) == allow # None /\ ~ IsExpired(allow.expires)

\* No coin of it has an amount other than zero.
IsEmpty(balance) == \A d \in Denoms : balance[d] \in {None, 0}

Held(balance, d) == IF balance[d] = None THEN 0 ELSE balance[d]

\* balance += coin
Plus(balance, coin) == [balance EXCEPT ![coin.denom] = Held(balance, coin.denom) + coin.amount]

\* Mutant: subtracting more than there is is not cut off at zero.
LessUnderflows(balance, coin) ==
  [balance EXCEPT ![coin.denom] = IF @ = coin.amount THEN None ELSE @ - coin.amount]

\* What subtracting leaves of a coin that was there: nothing, not zero.
Less(balance, coin) ==
  [balance EXCEPT ![coin.denom] = IF @ <= coin.amount THEN None ELSE @ - coin.amount]

\* balance - coins, which is an error if a coin is missing or too small.
Covers(balance, coins) ==
  LET left[k \in 0 .. Len(coins)] ==
        IF k = 0 THEN balance ELSE
        IF left[k - 1] = None THEN None ELSE
        IF left[k - 1][coins[k].denom] = None THEN None ELSE
        IF left[k - 1][coins[k].denom] < coins[k].amount THEN None ELSE Less(left[k - 1], coins[k])
  IN left[Len(coins)] # None

-----------------------------------------------------------------------------
(***************************************************************************)
(* Allowances and permissions.                                             *)
(***************************************************************************)

\* The head the three handlers share.
MayGrant(s, spender) == IsAdmin(s) /\ spender \in Addr /\ spender # s

\* The deadline in a message, if there is one, has not passed.
SetsLiveDeadline(call) == call.expires # None => ~ IsExpired(call.expires)

\* Mutant: what an expired allowance held stays in it.
IncreaseAllowanceKeepsOld(s, call, rest) ==
  LET old  == storage.allowances[call.spender]
      base == IF old = None THEN NoAllowance ELSE old
  IN  /\ call.op = "increase_allowance"
      /\ MayGrant(s, call.spender)
      /\ SetsLiveDeadline(call)
      /\ call.expires = None => ~ IsExpired(base.expires)
      /\ Held(base.balance, call.coin.denom) + call.coin.amount <= MaxUint128
      /\ storage' = [storage EXCEPT !.allowances[call.spender] =
           [balance |-> Plus(base.balance, call.coin),
            expires |-> IF call.expires = None THEN base.expires ELSE call.expires]]
      /\ outbox' = rest

IncreaseAllowance(s, call, rest) ==
  LET old          == storage.allowances[call.spender]
      prev_expires == IF old = None THEN Never ELSE old.expires
      base         == IF IsLive(old) THEN old ELSE NoAllowance
  IN  /\ call.op = "increase_allowance"
      /\ MayGrant(s, call.spender)
      /\ SetsLiveDeadline(call)
      /\ call.expires = None => ~ IsExpired(prev_expires)
      /\ Held(base.balance, call.coin.denom) + call.coin.amount <= MaxUint128
      /\ storage' = [storage EXCEPT !.allowances[call.spender] =
           [balance |-> Plus(base.balance, call.coin),
            expires |-> IF call.expires = None THEN base.expires ELSE call.expires]]
      /\ outbox' = rest

DecreaseAllowance(s, call, rest) ==
  LET old  == storage.allowances[call.spender]
      left == Less(old.balance, call.coin)
  IN  /\ call.op = "decrease_allowance"
      /\ MayGrant(s, call.spender)
      /\ IsLive(old)
      /\ SetsLiveDeadline(call)
      /\ old.balance[call.coin.denom] # None
      /\ storage' = [storage EXCEPT !.allowances[call.spender] =
           IF IsEmpty(left) THEN None
           ELSE [balance |-> left, expires |-> IF call.expires = None THEN old.expires ELSE call.expires]]
      /\ outbox' = rest

\* Mutant: an admin may grant itself permissions, for when it is none.
SetPermissionsOwn(s, call, rest) ==
  /\ call.op = "set_permissions"
  /\ IsAdmin(s) /\ call.spender \in Addr
  /\ storage' = [storage EXCEPT !.permissions[call.spender] = call.permissions]
  /\ outbox' = rest

SetPermissions(s, call, rest) ==
  /\ call.op = "set_permissions"
  /\ MayGrant(s, call.spender)
  /\ storage' = [storage EXCEPT !.permissions[call.spender] = call.permissions]
  /\ outbox' = rest

-----------------------------------------------------------------------------
(***************************************************************************)
(* Queries, and what they tell apart.                                      *)
(***************************************************************************)

\* Mutant: the query shows what an expired allowance held.
AllowanceQueryExpired(s) ==
  IF storage.allowances[s] # None THEN storage.allowances[s] ELSE NoAllowance

\* The allowance query.
AllowanceQuery(s) == IF IsLive(storage.allowances[s]) THEN storage.allowances[s] ELSE NoAllowance

\* The permissions query, and may_load with nothing permitted to nobody.
PermissionsQuery(s) ==
  IF storage.permissions[s] # None THEN storage.permissions[s] ELSE NoPermissions

PermissionFor(what) ==
  IF what \in {"set_withdraw_address", "withdraw_reward"} THEN "withdraw" ELSE what

Staking      == {"delegate", "redelegate", "undelegate"}
Distribution == {"set_withdraw_address", "withdraw_reward"}

CoveredBy(stored, s, msg) ==
  CASE msg.kind = "bank_send" ->
         /\ IsLive(stored.allowances[s])
         /\ Covers(stored.allowances[s].balance, msg.coins)
    [] msg.kind \in Staking \cup Distribution ->
         /\ stored.permissions[s] # None
         /\ stored.permissions[s][PermissionFor(msg.kind)]
    [] OTHER -> FALSE

\* is_authorized, and the answer of can_execute
IsAuthorized(s, msg) == IsAdmin(s) \/ CoveredBy(storage, s, msg)

\* Mutant: one message of the batch that is authorized is enough.
ExecuteSubkeysAny(s, call, rest) ==
  /\ call.op = "execute"
  /\ call.msgs = <<>> \/ \E k \in DOMAIN call.msgs : IsAuthorized(s, call.msgs[k])
  /\ outbox' = call.msgs \o rest
  /\ UNCHANGED storage

ExecuteSubkeys(s, call, rest) ==
  /\ call.op = "execute"
  /\ \A k \in DOMAIN call.msgs : IsAuthorized(s, call.msgs[k])
  /\ outbox' = call.msgs \o rest
  /\ UNCHANGED storage

HandleSubkeys(s, call, rest) ==
  \/ Freeze(s, call, rest)
  \/ UpdateAdmins(s, call, rest)
  \/ IncreaseAllowance(s, call, rest)
  \/ DecreaseAllowance(s, call, rest)
  \/ SetPermissions(s, call, rest)
  \/ ExecuteSubkeys(s, call, rest)

-----------------------------------------------------------------------------
SubkeysStorage ==
  [admins: SUBSET Addr, mutable: BOOLEAN,
   permissions: [Addr -> Permissions \cup {None}],
   allowances: [Addr -> Allowance \cup {None}]]

SubkeysInit ==
  /\ storage \in [admins: SUBSET Addr, mutable: BOOLEAN,
                  permissions: {[a \in Addr |-> None]}, allowances: {[a \in Addr |-> None]}]
  /\ saved = storage
  /\ outbox = <<>>
  /\ callers = {}
  /\ height = 0

SubkeysTransact ==
  /\ outbox = <<>>
  /\ \E s \in Senders, call \in Calls : HandleSubkeys(s, call, <<>>) /\ callers' = {s}
  /\ saved' = storage
  /\ UNCHANGED height

SubkeysSubMessage ==
  /\ outbox # <<>> /\ IsSelfCall(Head(outbox))
  /\ HandleSubkeys(Self, Head(outbox).call, Tail(outbox))
  /\ UNCHANGED <<saved, callers, height>>

SubkeysCallIn ==
  /\ outbox # <<>> /\ RunsOthers(Head(outbox))
  /\ \E c \in Contracts, call \in Calls :
       HandleSubkeys(c, call, outbox) /\ callers' = callers \cup {c}
  /\ Len(outbox') <= MaxPending
  /\ UNCHANGED <<saved, height>>

\* A transaction runs in one block.
NextBlock ==
  /\ outbox = <<>>
  /\ height < MaxHeight
  /\ height' = height + 1
  /\ UNCHANGED vars

SubkeysNext ==
  \/ SubkeysTransact
  \/ TransactAbroad /\ UNCHANGED height
  \/ SubkeysSubMessage
  \/ SubkeysCallIn
  \/ Elsewhere /\ UNCHANGED height
  \/ Fail /\ UNCHANGED height
  \/ NextBlock

SubkeysSpec == SubkeysInit /\ [][SubkeysNext]_subkeysVars

-----------------------------------------------------------------------------
SubkeysTypeOK ==
  /\ storage \in SubkeysStorage
  /\ saved \in SubkeysStorage
  /\ outbox \in Seq(Pending)
  /\ callers \subseteq Senders \cup Contracts
  /\ height \in 0 .. MaxHeight

\* Where no admin has called it, the contract sends only what the allowance or
\* the permissions of somebody who has called it covered when the transaction
\* began.  So such a transaction never reaches the contract itself, which may
\* be an admin.
SubkeysActWithinGrants ==
  \/ callers \cap saved.admins # {}
  \/ \A k \in DOMAIN outbox :
       outbox[k] # Abroad => \E c \in callers : CoveredBy(saved, c, outbox[k])

\* Allowances and permissions change in whole transactions, in each of which
\* an admin called.  CannotSetOwnAccount sees no further than the caller: who
\* signs a message and is alone to call the contract gets its own grants
\* changed only where the contract is its own admin and calls itself.  Where
\* others call it back they may be admins, and a contract that calls twice
\* may make the contract its own admin in between.
GrantsAreByOthers ==
  [][\A a \in Addr :
       \/ /\ Committed'.allowances[a] = Committed.allowances[a]
          /\ Committed'.permissions[a] = Committed.permissions[a]
       \/ /\ callers' \cap saved'.admins # {}
          /\ callers' = {a} => a \in Contracts \/ Self \in saved'.admins]_subkeysVars

\* An allowance that has expired comes back with nothing of what it held: all
\* there is in it afterwards is what one message has added.
ExpiredIsForgotten ==
  [][\A a \in Addr :
       LET old == storage.allowances[a]
           new == storage'.allowances[a]
       IN  old # None /\ ~ IsLive(old) /\ new # old =>
             \E d \in Denoms, n \in Amounts : new.balance = [NoCoins EXCEPT ![d] = n]]_subkeysVars

\* A non-admin who asks what is granted to it is told exactly what it may send.
QueriesAreHonest ==
  \A a \in Addr \ storage.admins :
    /\ \A d \in Denoms, n \in Amounts :
         IsAuthorized(a, [kind |-> "bank_send", coins |-> <<[denom |-> d, amount |-> n]>>])
           <=> AllowanceQuery(a).balance[d] # None /\ AllowanceQuery(a).balance[d] >= n
    /\ \A k \in Staking \cup Distribution :
         IsAuthorized(a, [kind |-> k]) <=> PermissionsQuery(a)[PermissionFor(k)]

\* The admins of cw1-subkeys keep the promise that those of cw1-whitelist do.
ImplementsAdminGroupToo == Group!Spec
=============================================================================

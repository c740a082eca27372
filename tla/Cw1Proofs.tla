------------------------------- MODULE Cw1Proofs -------------------------------
(***************************************************************************)
(* Proofs about Cw1Whitelist and Cw1Subkeys, for any addresses, messages,  *)
(* batches and nesting of the messages a contract sends to itself.         *)
(***************************************************************************)
EXTENDS Cw1Subkeys, WellFoundedInduction, TLAPS

\* How far the running transaction may have changed the list by itself: it
\* closes the list at most, changes nothing of a closed one, and nothing at
\* all unless an admin has called.
ListWithinRights ==
  outbox # <<>> =>
    /\ storage.mutable => saved.mutable
    /\ ~ saved.mutable => storage.admins = saved.admins
    /\ callers \cap saved.admins = {} =>
         storage.admins = saved.admins /\ storage.mutable = saved.mutable

\* What one handler may do to the list.
ListStep(s) ==
  \/ storage'.admins = storage.admins /\ storage'.mutable = storage.mutable
  \/ /\ s \in storage.admins
     /\ storage'.mutable => storage.mutable
     /\ ~ storage.mutable => storage'.admins = storage.admins

\* The rest of a sequence.
LEMMA TailOfSeq ==
  ASSUME NEW S, NEW s \in Seq(S), s # <<>>
  PROVE  /\ Tail(s) \in Seq(S) /\ Head(s) \in S /\ Head(s) = s[1] /\ 1 \in DOMAIN s
         /\ \A k \in DOMAIN Tail(s) : k + 1 \in DOMAIN s /\ Tail(s)[k] = s[k + 1]
  OBVIOUS

LEMMA SeqTyping ==
  ASSUME NEW S, NEW s \in Seq(S)
  PROVE  Len(s) \in Nat /\ \A k \in 1 .. Len(s) : s[k] \in S
  OBVIOUS

LEMMA EmptySeq == <<>> \in Seq(Pending)
  OBVIOUS

LEMMA OneAbroad == <<Abroad>> \in Seq(Pending) /\ DOMAIN <<Abroad>> = {1} /\ <<Abroad>>[1] = Abroad
  BY DEF Pending

LEMMA SelfCallIsCall ==
  ASSUME outbox \in Seq(Pending), outbox # <<>>, IsSelfCall(Head(outbox))
  PROVE  Head(outbox).call \in Calls /\ Head(outbox) # Abroad
<1>1. Head(outbox) \in Pending
  BY TailOfSeq
<1>2. Abroad.kind # "self"
  BY DEF Abroad
<1> QED BY <1>1, <1>2, Cw1Assumption DEF IsSelfCall, Pending

LEMMA ExecuteSends ==
  ASSUME NEW call \in Calls, call.op = "execute", NEW rest \in Seq(Pending)
  PROVE  /\ call.msgs \o rest \in Seq(Pending)
         /\ \A k \in DOMAIN call.msgs : call.msgs[k] \in Messages /\ call.msgs[k] # Abroad
         /\ \A k \in DOMAIN (call.msgs \o rest) :
              \/ k \in DOMAIN call.msgs /\ (call.msgs \o rest)[k] = call.msgs[k]
              \/ \E j \in DOMAIN rest : (call.msgs \o rest)[k] = rest[j]
<1>1. call.msgs \in Seq(Messages) /\ Messages \subseteq Pending
  BY Cw1Assumption DEF Pending
<1>2. call.msgs \in Seq(Pending)
  BY <1>1
<1>3. \A m \in Messages : m # Abroad
  <2>1. Abroad.kind = "abroad"
    BY DEF Abroad
  <2> QED BY <2>1, Cw1Assumption
<1>4. \A k \in DOMAIN call.msgs : call.msgs[k] \in Messages
  BY <1>1, SeqTyping
<1>5. \A k \in DOMAIN (call.msgs \o rest) :
        \/ k \in DOMAIN call.msgs /\ (call.msgs \o rest)[k] = call.msgs[k]
        \/ k - Len(call.msgs) \in DOMAIN rest /\ (call.msgs \o rest)[k] = rest[k - Len(call.msgs)]
  BY <1>2
<1> QED BY <1>2, <1>3, <1>4, <1>5

-----------------------------------------------------------------------------
(***************************************************************************)
(* cw1-whitelist                                                           *)
(***************************************************************************)

WhitelistInv == TypeOK /\ ActsForAdmins /\ ListWithinRights

LEMMA WhitelistHandles ==
  ASSUME storage \in Storage, NEW s, NEW call \in Calls, NEW rest \in Seq(Pending),
         Handle(s, call, rest)
  PROVE  /\ storage' \in Storage
         /\ outbox' \in Seq(Pending)
         /\ ListStep(s)
         /\ s \in storage.admins
<1>1. CASE Freeze(s, call, rest)
  BY <1>1 DEF Freeze, IsAdmin, ListStep, Storage
<1>2. CASE UpdateAdmins(s, call, rest)
  BY <1>2 DEF UpdateAdmins, IsAdmin, ListStep, Storage
<1>3. CASE Execute(s, call, rest)
  BY <1>3, ExecuteSends DEF Execute, IsAdmin, ListStep
<1> QED BY <1>1, <1>2, <1>3 DEF Handle

\* What a handler leaves of the rights of a transaction in which s calls, or
\* the contract itself.
LEMMA ListStepStays ==
  ASSUME storage.mutable \in BOOLEAN, saved.mutable \in BOOLEAN, storage'.mutable \in BOOLEAN,
         outbox # <<>>, ListWithinRights, NEW s, ListStep(s), saved' = saved,
         callers \subseteq callers',
         s \in callers' \/ callers \cap saved.admins # {}
  PROVE  /\ ListWithinRights'
         /\ storage'.mutable => saved.mutable
         /\ ~ saved.mutable => storage'.admins = saved.admins
         /\ s \in storage.admins => callers' \cap saved.admins # {}
<1>1. /\ storage.mutable => saved.mutable
      /\ ~ saved.mutable => storage.admins = saved.admins
      /\ callers \cap saved.admins = {} =>
           storage.admins = saved.admins /\ storage.mutable = saved.mutable
  BY DEF ListWithinRights
<1>2. s \in storage.admins => callers' \cap saved.admins # {}
  BY <1>1
<1>3. storage'.mutable => saved.mutable
  BY <1>1 DEF ListStep
<1>4. ~ saved.mutable => storage'.admins = saved.admins
  BY <1>1 DEF ListStep
<1>5. callers' \cap saved.admins = {} =>
        storage'.admins = saved.admins /\ storage'.mutable = saved.mutable
  BY <1>1, <1>2 DEF ListStep
<1> QED BY <1>2, <1>3, <1>4, <1>5 DEF ListWithinRights

LEMMA WhitelistInit == Init => WhitelistInv
  BY DEF Init, WhitelistInv, TypeOK, Storage, ActsForAdmins, ListWithinRights

LEMMA WhitelistStep == WhitelistInv /\ [Next]_vars => WhitelistInv'
<1> SUFFICES ASSUME WhitelistInv, [Next]_vars PROVE WhitelistInv'
  OBVIOUS
<1>0. TypeOK /\ ActsForAdmins /\ ListWithinRights
  BY DEF WhitelistInv
<1>00. storage.mutable \in BOOLEAN /\ saved.mutable \in BOOLEAN
  BY <1>0 DEF TypeOK, Storage
<1>1. CASE Transact
  <2>1. PICK s \in Senders, call \in Calls : Handle(s, call, <<>>) /\ callers' = {s}
    BY <1>1 DEF Transact
  <2>2. /\ storage' \in Storage /\ outbox' \in Seq(Pending)
        /\ ListStep(s) /\ s \in storage.admins
    BY <1>0, <2>1, WhitelistHandles, EmptySeq DEF TypeOK
  <2>3. saved' = storage
    BY <1>1 DEF Transact
  <2>4. callers' \cap saved'.admins # {} /\ callers' \subseteq Senders \cup Contracts
    BY <2>1, <2>2, <2>3
  <2>5. storage'.mutable \in BOOLEAN
    BY <2>2 DEF Storage
  <2>6. ListWithinRights'
    BY <1>00, <2>2, <2>3, <2>4, <2>5 DEF ListWithinRights, ListStep
  <2> QED
    BY <1>0, <2>2, <2>3, <2>4, <2>6 DEF WhitelistInv, TypeOK, ActsForAdmins
<1>2. CASE TransactAbroad
  <2>1. outbox' = <<Abroad>> /\ callers' = {} /\ saved' = storage /\ storage' = storage
    BY <1>2 DEF TransactAbroad
  <2> QED
    BY <1>0, <2>1, OneAbroad DEF WhitelistInv, TypeOK, ActsForAdmins, ListWithinRights
<1>3. CASE SubMessage
  <2>1. /\ outbox # <<>> /\ IsSelfCall(Head(outbox))
        /\ Handle(Self, Head(outbox).call, Tail(outbox))
        /\ UNCHANGED <<saved, callers>>
    BY <1>3 DEF SubMessage
  <2>2. /\ Head(outbox).call \in Calls /\ Tail(outbox) \in Seq(Pending)
        /\ 1 \in DOMAIN outbox /\ outbox[1] # Abroad
    BY <1>0, <2>1, SelfCallIsCall, TailOfSeq DEF TypeOK
  <2>3. storage' \in Storage /\ outbox' \in Seq(Pending) /\ ListStep(Self)
    BY <1>0, <2>1, <2>2, WhitelistHandles DEF TypeOK
  <2>4. callers \cap saved.admins # {}
    BY <1>0, <2>2 DEF ActsForAdmins
  <2>5. ListWithinRights'
    BY <1>0, <1>00, <2>1, <2>3, <2>4, ListStepStays DEF Storage
  <2> QED
    BY <1>0, <2>1, <2>3, <2>4, <2>5 DEF WhitelistInv, TypeOK, ActsForAdmins
<1>4. CASE CallIn
  <2>1. PICK c \in Contracts, call \in Calls : Handle(c, call, outbox) /\ callers' = callers \cup {c}
    BY <1>4 DEF CallIn
  <2>2. outbox # <<>> /\ saved' = saved
    BY <1>4 DEF CallIn
  <2>3. storage' \in Storage /\ outbox' \in Seq(Pending) /\ ListStep(c) /\ c \in storage.admins
    BY <1>0, <2>1, WhitelistHandles DEF TypeOK
  <2>4. ListWithinRights' /\ callers' \cap saved.admins # {}
    BY <1>0, <1>00, <2>1, <2>2, <2>3, ListStepStays DEF Storage
  <2> QED
    BY <1>0, <2>1, <2>2, <2>3, <2>4 DEF WhitelistInv, TypeOK, ActsForAdmins
<1>5. CASE Elsewhere
  <2>1. outbox # <<>> /\ outbox' = Tail(outbox) /\ UNCHANGED <<storage, saved, callers>>
    BY <1>5 DEF Elsewhere
  <2>2. /\ outbox' \in Seq(Pending)
        /\ \A k \in DOMAIN outbox' : k + 1 \in DOMAIN outbox /\ outbox'[k] = outbox[k + 1]
    BY <1>0, <2>1, TailOfSeq DEF TypeOK
  <2>3. ActsForAdmins'
    BY <1>0, <2>1, <2>2 DEF ActsForAdmins
  <2> QED
    BY <1>0, <2>1, <2>2, <2>3 DEF WhitelistInv, TypeOK, ListWithinRights
<1>6. CASE Fail
  <2>1. storage' = saved /\ outbox' = <<>> /\ UNCHANGED <<saved, callers>>
    BY <1>6 DEF Fail
  <2> QED
    BY <1>0, <2>1 DEF WhitelistInv, TypeOK, ActsForAdmins, ListWithinRights
<1>7. CASE UNCHANGED vars
  BY <1>0, <1>7 DEF vars, WhitelistInv, TypeOK, ActsForAdmins, ListWithinRights
<1> QED BY <1>1, <1>2, <1>3, <1>4, <1>5, <1>6, <1>7 DEF Next

\* The storage of cw1-whitelist keeps its types, only admins make the
\* contract act, and a running transaction stays within their rights.
THEOREM WhitelistInvariant == Spec => []WhitelistInv
  BY WhitelistInit, WhitelistStep, PTL DEF Spec

\* Every address that is stored has been validated.
THEOREM WhitelistTypes == Spec => []TypeOK
  BY WhitelistInvariant, PTL DEF WhitelistInv

\* Nobody but an admin makes cw1-whitelist send anything, however deep the
\* message that sends it is nested, and whoever calls back.
THEOREM WhitelistActsForAdmins == Spec => []ActsForAdmins
  BY WhitelistInvariant, PTL DEF WhitelistInv

LEMMA GroupInit == Init => Group!Init
  BY DEF Init, Group!Init, Committed

LEMMA GroupStep ==
  ASSUME WhitelistInv, WhitelistInv', [Next]_vars
  PROVE  [Group!Next]_(Group!vars)
<1>0. /\ TypeOK /\ ActsForAdmins /\ ListWithinRights
      /\ TypeOK' /\ ActsForAdmins' /\ ListWithinRights'
  BY DEF WhitelistInv
<1>00. /\ callers' \in SUBSET Addr
       /\ storage.mutable \in BOOLEAN /\ saved.mutable \in BOOLEAN
       /\ storage'.mutable \in BOOLEAN /\ storage'.admins \in SUBSET Addr
       /\ saved'.mutable \in BOOLEAN /\ saved'.admins \in SUBSET Addr
  BY <1>0, Cw1Assumption DEF TypeOK, Storage
<1>1. CASE Transact
  <2>1. PICK s \in Senders, call \in Calls : Handle(s, call, <<>>) /\ callers' = {s}
    BY <1>1 DEF Transact
  <2>2. ListStep(s) /\ s \in storage.admins
    BY <1>0, <2>1, WhitelistHandles, EmptySeq DEF TypeOK
  <2>3. outbox = <<>> /\ saved' = storage
    BY <1>1 DEF Transact
  <2>4. callers' \cap storage.admins # {}
    BY <2>1, <2>2
  <2> QED
    BY <1>00, <2>2, <2>3, <2>4
    DEF Group!Next, Group!Call, Group!Change, Group!vars, Committed, ListStep
<1>2. CASE TransactAbroad
  BY <1>00, <1>2 DEF TransactAbroad, Group!Next, Group!Call, Group!vars, Committed
<1>3. CASE SubMessage
  <2>1. /\ outbox # <<>> /\ IsSelfCall(Head(outbox))
        /\ Handle(Self, Head(outbox).call, Tail(outbox))
        /\ UNCHANGED <<saved, callers>>
    BY <1>3 DEF SubMessage
  <2>2. /\ Head(outbox).call \in Calls /\ Tail(outbox) \in Seq(Pending)
        /\ 1 \in DOMAIN outbox /\ outbox[1] # Abroad
    BY <1>0, <2>1, SelfCallIsCall, TailOfSeq DEF TypeOK
  <2>3. ListStep(Self)
    BY <1>0, <2>1, <2>2, WhitelistHandles DEF TypeOK
  <2>4. callers \cap saved.admins # {}
    BY <1>0, <2>2 DEF ActsForAdmins
  <2>5. /\ storage'.mutable => saved.mutable
        /\ ~ saved.mutable => storage'.admins = saved.admins
    BY <1>0, <1>00, <2>1, <2>3, <2>4, ListStepStays
  <2> QED
    BY <1>00, <2>1, <2>4, <2>5 DEF Group!Next, Group!Call, Group!Change, Group!vars, Committed
<1>4. CASE CallIn
  <2>1. PICK c \in Contracts, call \in Calls : Handle(c, call, outbox) /\ callers' = callers \cup {c}
    BY <1>4 DEF CallIn
  <2>2. outbox # <<>> /\ saved' = saved
    BY <1>4 DEF CallIn
  <2>3. ListStep(c) /\ c \in storage.admins
    BY <1>0, <2>1, WhitelistHandles DEF TypeOK
  <2>4. /\ callers' \cap saved.admins # {}
        /\ storage'.mutable => saved.mutable
        /\ ~ saved.mutable => storage'.admins = saved.admins
    BY <1>0, <1>00, <2>1, <2>2, <2>3, ListStepStays
  <2> QED
    BY <1>00, <2>2, <2>4 DEF Group!Next, Group!Call, Group!Change, Group!vars, Committed
<1>5. CASE Elsewhere
  BY <1>0, <1>00, <1>5
  DEF Elsewhere, Group!Next, Group!Call, Group!Change, Group!vars, Committed, ListWithinRights
<1>6. CASE Fail
  BY <1>00, <1>6 DEF Fail, Group!Next, Group!Call, Group!vars, Committed
<1>7. CASE UNCHANGED vars
  BY <1>7 DEF vars, Group!vars, Committed
<1> QED BY <1>1, <1>2, <1>3, <1>4, <1>5, <1>6, <1>7 DEF Next

\* cw1-whitelist implements AdminGroup: whole transactions, in which a member
\* called, while the list is open.
THEOREM WhitelistRefinesGroup == Spec => ImplementsAdminGroup
<1>1. WhitelistInv /\ WhitelistInv' /\ [Next]_vars => [Group!Next]_(Group!vars)
  BY GroupStep
<1> QED
  BY GroupInit, WhitelistInvariant, <1>1, PTL DEF ImplementsAdminGroup, Group!Spec, Spec

-----------------------------------------------------------------------------
(***************************************************************************)
(* cw1-subkeys                                                             *)
(***************************************************************************)

\* A running transaction changes storage only where an admin has called, and
\* only through other contracts that call or through messages that the
\* contract, an admin of itself, sends to itself.
ChangesOnCalls ==
  outbox # <<>> =>
    \/ storage = saved
    \/ /\ callers \cap saved.admins # {}
       /\ callers \cap Contracts # {} \/ Self \in saved.admins

SubkeysInv ==
  /\ SubkeysTypeOK
  /\ SubkeysActWithinGrants
  /\ ListWithinRights
  /\ ChangesOnCalls

SameGrants(old, new, a) ==
  new.allowances[a] = old.allowances[a] /\ new.permissions[a] = old.permissions[a]

\* What one handler may do to the grants.
GrantStep(s) ==
  \A a \in Addr : SameGrants(storage, storage', a) \/ (s \in storage.admins /\ s # a)

LEMMA AmountsAreNats == MaxUint128 \in Nat /\ Amounts \subseteq Nat
<1>1. MaxUint128 \in Nat /\ Amounts \subseteq Uint128
  BY SubkeysAssumption
<1>2. Uint128 \subseteq Nat
  BY <1>1 DEF Uint128
<1> QED BY <1>1, <1>2

LEMMA AddedCoins ==
  ASSUME NEW balance \in Balance, NEW coin \in [denom: Denoms, amount: Amounts],
         Held(balance, coin.denom) + coin.amount <= MaxUint128
  PROVE  Plus(balance, coin) \in Balance
<1>1. coin.denom \in Denoms /\ coin.amount \in Nat /\ MaxUint128 \in Nat
  BY AmountsAreNats
<1>2. Held(balance, coin.denom) \in Nat
  BY <1>1 DEF Held, Balance, Uint128
<1> QED BY <1>1, <1>2 DEF Plus, Balance, Uint128

LEMMA TakenCoins ==
  ASSUME NEW balance \in Balance, NEW coin \in [denom: Denoms, amount: Amounts],
         balance[coin.denom] # None
  PROVE  Less(balance, coin) \in Balance
<1>1. coin.denom \in Denoms /\ coin.amount \in Nat /\ MaxUint128 \in Nat
  BY AmountsAreNats
<1>2. balance[coin.denom] \in 0 .. MaxUint128
  BY <1>1 DEF Balance, Uint128
<1>3. ~ balance[coin.denom] <= coin.amount => balance[coin.denom] - coin.amount \in Uint128
  BY <1>1, <1>2 DEF Uint128
<1> QED BY <1>1, <1>3 DEF Less, Balance

LEMMA NewAllowance ==
  ASSUME NEW allow \in Allowance \cup {None}, NEW spender \in Addr, storage \in SubkeysStorage,
         storage' = [storage EXCEPT !.allowances[spender] = allow]
  PROVE  /\ storage' \in SubkeysStorage
         /\ storage'.admins = storage.admins /\ storage'.mutable = storage.mutable
         /\ \A a \in Addr \ {spender} : SameGrants(storage, storage', a)
  BY DEF SubkeysStorage, SameGrants

LEMMA IncreaseHandles ==
  ASSUME storage \in SubkeysStorage, NEW s, NEW call \in Calls, NEW rest,
         IncreaseAllowance(s, call, rest)
  PROVE  storage' \in SubkeysStorage /\ ListStep(s) /\ GrantStep(s)
<1> DEFINE old  == storage.allowances[call.spender]
           base == IF IsLive(old) THEN old ELSE NoAllowance
           new  == [balance |-> Plus(base.balance, call.coin),
                    expires |-> IF call.expires = None THEN base.expires ELSE call.expires]
<1>1. /\ call.op = "increase_allowance"
      /\ s \in storage.admins /\ call.spender \in Addr /\ call.spender # s
      /\ Held(base.balance, call.coin.denom) + call.coin.amount <= MaxUint128
      /\ storage' = [storage EXCEPT !.allowances[call.spender] = new]
  BY DEF IncreaseAllowance, MayGrant, IsAdmin
<1>2. call.coin \in [denom: Denoms, amount: Amounts] /\ call.expires \in Expirations \cup {None}
  BY <1>1, GrantsAssumption
<1>3. old \in Allowance \cup {None}
  BY <1>1 DEF SubkeysStorage
<1>4. base \in Allowance
  BY <1>3 DEF IsLive, NoAllowance, NoCoins, Allowance, Balance
<1>5. Plus(base.balance, call.coin) \in Balance
  <2>1. base.balance \in Balance
    BY <1>4 DEF Allowance
  <2> QED BY <1>1, <1>2, <2>1, AddedCoins
<1>6. new \in Allowance
  BY <1>2, <1>4, <1>5 DEF Allowance
<1>7. /\ storage' \in SubkeysStorage
      /\ storage'.admins = storage.admins /\ storage'.mutable = storage.mutable
      /\ \A a \in Addr \ {call.spender} : SameGrants(storage, storage', a)
  <2> HIDE DEF new
  <2> QED BY <1>1, <1>6, NewAllowance
<1> QED BY <1>1, <1>7 DEF ListStep, GrantStep

LEMMA DecreaseHandles ==
  ASSUME storage \in SubkeysStorage, NEW s, NEW call \in Calls, NEW rest,
         DecreaseAllowance(s, call, rest)
  PROVE  storage' \in SubkeysStorage /\ ListStep(s) /\ GrantStep(s)
<1> DEFINE old  == storage.allowances[call.spender]
           left == Less(old.balance, call.coin)
           new  == IF IsEmpty(left) THEN None
                   ELSE [balance |-> left,
                         expires |-> IF call.expires = None THEN old.expires ELSE call.expires]
<1>1. /\ call.op = "decrease_allowance"
      /\ s \in storage.admins /\ call.spender \in Addr /\ call.spender # s
      /\ IsLive(old) /\ old.balance[call.coin.denom] # None
      /\ storage' = [storage EXCEPT !.allowances[call.spender] = new]
  BY DEF DecreaseAllowance, MayGrant, IsAdmin
<1>2. call.coin \in [denom: Denoms, amount: Amounts] /\ call.expires \in Expirations \cup {None}
  BY <1>1, GrantsAssumption
<1>3. old \in Allowance
  BY <1>1 DEF SubkeysStorage, IsLive
<1>4. left \in Balance
  <2>1. old.balance \in Balance
    BY <1>3 DEF Allowance
  <2> QED BY <1>1, <1>2, <2>1, TakenCoins
<1>5. new \in Allowance \cup {None}
  <2> HIDE DEF left
  <2> QED BY <1>2, <1>3, <1>4 DEF Allowance
<1>6. /\ storage' \in SubkeysStorage
      /\ storage'.admins = storage.admins /\ storage'.mutable = storage.mutable
      /\ \A a \in Addr \ {call.spender} : SameGrants(storage, storage', a)
  <2> HIDE DEF new
  <2> QED BY <1>1, <1>5, NewAllowance
<1> QED BY <1>1, <1>6 DEF ListStep, GrantStep

LEMMA PermissionsHandles ==
  ASSUME storage \in SubkeysStorage, NEW s, NEW call \in Calls, NEW rest,
         SetPermissions(s, call, rest)
  PROVE  storage' \in SubkeysStorage /\ ListStep(s) /\ GrantStep(s)
<1>1. /\ call.op = "set_permissions"
      /\ s \in storage.admins /\ call.spender \in Addr /\ call.spender # s
      /\ storage' = [storage EXCEPT !.permissions[call.spender] = call.permissions]
  BY DEF SetPermissions, MayGrant, IsAdmin
<1>2. call.permissions \in Permissions
  BY <1>1, GrantsAssumption
<1> QED BY <1>1, <1>2 DEF SubkeysStorage, SameGrants, ListStep, GrantStep

LEMMA ListHandles ==
  ASSUME storage \in SubkeysStorage, NEW s, NEW call, NEW rest,
         Freeze(s, call, rest) \/ UpdateAdmins(s, call, rest)
  PROVE  storage' \in SubkeysStorage /\ ListStep(s) /\ GrantStep(s)
<1>1. CASE Freeze(s, call, rest)
  BY <1>1 DEF Freeze, IsAdmin, SubkeysStorage, SameGrants, ListStep, GrantStep
<1>2. CASE UpdateAdmins(s, call, rest)
  BY <1>2 DEF UpdateAdmins, IsAdmin, SubkeysStorage, SameGrants, ListStep, GrantStep
<1> QED BY <1>1, <1>2

\* A handler relays what its caller is authorized to send, or writes and
\* sends nothing; only an admin gets anything written.
LEMMA SubkeysHandles ==
  ASSUME storage \in SubkeysStorage, NEW s, NEW call \in Calls, NEW rest \in Seq(Pending),
         HandleSubkeys(s, call, rest)
  PROVE  /\ storage' \in SubkeysStorage
         /\ outbox' \in Seq(Pending)
         /\ ListStep(s)
         /\ GrantStep(s)
         /\ \/ /\ storage' = storage
               /\ \A k \in DOMAIN outbox' :
                    \/ outbox'[k] # Abroad /\ IsAuthorized(s, outbox'[k])
                    \/ \E j \in DOMAIN rest : outbox'[k] = rest[j]
            \/ s \in storage.admins /\ outbox' = rest
<1>1. CASE Freeze(s, call, rest) \/ UpdateAdmins(s, call, rest)
  BY <1>1, ListHandles DEF Freeze, UpdateAdmins, IsAdmin
<1>2. CASE IncreaseAllowance(s, call, rest)
  BY <1>2, IncreaseHandles DEF IncreaseAllowance, MayGrant, IsAdmin
<1>3. CASE DecreaseAllowance(s, call, rest)
  BY <1>3, DecreaseHandles DEF DecreaseAllowance, MayGrant, IsAdmin
<1>4. CASE SetPermissions(s, call, rest)
  BY <1>4, PermissionsHandles DEF SetPermissions, MayGrant, IsAdmin
<1>5. CASE ExecuteSubkeys(s, call, rest)
  <2>1. /\ storage' = storage /\ outbox' = call.msgs \o rest /\ call.op = "execute"
        /\ \A k \in DOMAIN call.msgs : IsAuthorized(s, call.msgs[k])
    BY <1>5 DEF ExecuteSubkeys
  <2>2. /\ outbox' \in Seq(Pending)
        /\ \A k \in DOMAIN call.msgs : call.msgs[k] # Abroad
        /\ \A k \in DOMAIN outbox' :
             \/ k \in DOMAIN call.msgs /\ outbox'[k] = call.msgs[k]
             \/ \E j \in DOMAIN rest : outbox'[k] = rest[j]
    BY <2>1, ExecuteSends
  <2>3. ListStep(s) /\ GrantStep(s)
    BY <2>1 DEF ListStep, GrantStep, SameGrants
  <2>4. \A k \in DOMAIN outbox' :
          \/ outbox'[k] # Abroad /\ IsAuthorized(s, outbox'[k])
          \/ \E j \in DOMAIN rest : outbox'[k] = rest[j]
    BY <2>1, <2>2
  <2> QED BY <2>1, <2>2, <2>3, <2>4 DEF SubkeysStorage
<1> QED BY <1>1, <1>2, <1>3, <1>4, <1>5 DEF HandleSubkeys

\* No grant covers a message to the contract itself.
LEMMA SelfCallsAreNotCovered ==
  ASSUME NEW stored, NEW s, NEW msg, IsSelfCall(msg)
  PROVE  ~ CoveredBy(stored, s, msg)
  BY DEF IsSelfCall, CoveredBy, Staking, Distribution

\* What is covered stays so within a block.
LEMMA CoveredStays ==
  ASSUME height' = height, NEW stored, NEW s, NEW msg
  PROVE  CoveredBy(stored, s, msg)' <=> CoveredBy(stored, s, msg)
  BY DEF CoveredBy, IsLive, IsExpired

LEMMA SubkeysInitInv == SubkeysInit => SubkeysInv
  BY SubkeysAssumption
  DEF SubkeysInit, SubkeysInv, SubkeysTypeOK, SubkeysStorage, SubkeysActWithinGrants,
      ListWithinRights, ChangesOnCalls

LEMMA SubkeysTransactInv == SubkeysInv /\ SubkeysTransact => SubkeysInv'
<1> SUFFICES ASSUME SubkeysInv, SubkeysTransact PROVE SubkeysInv'
  OBVIOUS
<1>1. PICK s \in Senders, call \in Calls : HandleSubkeys(s, call, <<>>) /\ callers' = {s}
  BY DEF SubkeysTransact
<1>2. storage \in SubkeysStorage /\ height \in 0 .. MaxHeight
      /\ outbox = <<>> /\ saved' = storage /\ height' = height
  BY DEF SubkeysInv, SubkeysTypeOK, SubkeysTransact
<1>3. /\ storage' \in SubkeysStorage /\ outbox' \in Seq(Pending) /\ ListStep(s)
      /\ \/ /\ storage' = storage
            /\ \A k \in DOMAIN outbox' : outbox'[k] # Abroad /\ IsAuthorized(s, outbox'[k])
         \/ s \in storage.admins /\ outbox' = <<>>
  <2>1. /\ storage' \in SubkeysStorage /\ outbox' \in Seq(Pending) /\ ListStep(s)
        /\ \/ /\ storage' = storage
              /\ \A k \in DOMAIN outbox' :
                   \/ outbox'[k] # Abroad /\ IsAuthorized(s, outbox'[k])
                   \/ \E j \in DOMAIN <<>> : outbox'[k] = <<>>[j]
           \/ s \in storage.admins /\ outbox' = <<>>
    BY <1>1, <1>2, EmptySeq, SubkeysHandles, Zenon
  <2>2. DOMAIN <<>> = {}
    OBVIOUS
  <2> QED BY <2>1, <2>2, Zenon
<1>4. SubkeysTypeOK'
  BY <1>1, <1>2, <1>3 DEF SubkeysTypeOK
<1>5. SubkeysActWithinGrants'
  <2>1. CASE s \notin storage.admins
    <3>1. \A k \in DOMAIN outbox' : CoveredBy(storage, s, outbox'[k])
      BY <1>3, <2>1 DEF IsAuthorized, IsAdmin
    <3> QED BY <1>1, <1>2, <3>1 DEF SubkeysActWithinGrants, CoveredBy, IsLive, IsExpired
  <2>2. CASE s \in storage.admins
    <3>1. callers' \cap saved'.admins # {}
      BY <1>1, <1>2, <2>2
    <3> QED BY <3>1 DEF SubkeysActWithinGrants
  <2> QED BY <2>1, <2>2
<1>6. ListWithinRights' /\ ChangesOnCalls'
  BY <1>2, <1>3 DEF ListWithinRights, ChangesOnCalls
<1> QED BY <1>4, <1>5, <1>6 DEF SubkeysInv

LEMMA SubkeysSubMessageInv == SubkeysInv /\ SubkeysSubMessage => SubkeysInv'
<1> SUFFICES ASSUME SubkeysInv, SubkeysSubMessage PROVE SubkeysInv'
  OBVIOUS
<1>1. /\ SubkeysTypeOK /\ SubkeysActWithinGrants /\ ListWithinRights /\ ChangesOnCalls
      /\ outbox # <<>> /\ IsSelfCall(Head(outbox))
      /\ HandleSubkeys(Self, Head(outbox).call, Tail(outbox))
      /\ UNCHANGED <<saved, callers, height>>
  BY DEF SubkeysInv, SubkeysSubMessage
<1>2. /\ Head(outbox).call \in Calls /\ Tail(outbox) \in Seq(Pending)
      /\ Head(outbox) = outbox[1] /\ 1 \in DOMAIN outbox /\ outbox[1] # Abroad
  BY <1>1, SelfCallIsCall, TailOfSeq DEF SubkeysTypeOK
<1>3. /\ storage' \in SubkeysStorage /\ outbox' \in Seq(Pending) /\ ListStep(Self)
      /\ storage' = storage \/ Self \in storage.admins
  BY <1>1, <1>2, SubkeysHandles DEF SubkeysTypeOK
<1>4. callers \cap saved.admins # {}
  BY <1>1, <1>2, SelfCallsAreNotCovered DEF SubkeysActWithinGrants
<1>5. SubkeysTypeOK'
  BY <1>1, <1>3 DEF SubkeysTypeOK
<1>6. SubkeysActWithinGrants'
  BY <1>1, <1>4 DEF SubkeysActWithinGrants
<1>7. ListWithinRights'
  BY <1>1, <1>3, <1>4, ListStepStays DEF SubkeysTypeOK, SubkeysStorage
<1>8. ChangesOnCalls'
  BY <1>1, <1>3, <1>4 DEF ChangesOnCalls
<1> QED BY <1>5, <1>6, <1>7, <1>8 DEF SubkeysInv

LEMMA SubkeysCallInInv == SubkeysInv /\ SubkeysCallIn => SubkeysInv'
<1> SUFFICES ASSUME SubkeysInv, SubkeysCallIn PROVE SubkeysInv'
  OBVIOUS
<1>1. /\ SubkeysTypeOK /\ SubkeysActWithinGrants /\ ListWithinRights /\ ChangesOnCalls
      /\ outbox # <<>> /\ UNCHANGED <<saved, height>>
  BY DEF SubkeysInv, SubkeysCallIn
<1>2. PICK c \in Contracts, call \in Calls :
        HandleSubkeys(c, call, outbox) /\ callers' = callers \cup {c}
  BY DEF SubkeysCallIn
<1>3. /\ storage' \in SubkeysStorage /\ outbox' \in Seq(Pending) /\ ListStep(c)
      /\ \/ /\ storage' = storage
            /\ \A k \in DOMAIN outbox' :
                 \/ outbox'[k] # Abroad /\ IsAuthorized(c, outbox'[k])
                 \/ \E j \in DOMAIN outbox : outbox'[k] = outbox[j]
         \/ c \in storage.admins /\ outbox' = outbox
  BY <1>1, <1>2, SubkeysHandles DEF SubkeysTypeOK
<1>4. /\ ListWithinRights'
      /\ c \in storage.admins => callers' \cap saved.admins # {}
  BY <1>1, <1>2, <1>3, ListStepStays DEF SubkeysTypeOK, SubkeysStorage
<1>5. SubkeysTypeOK'
  BY <1>1, <1>2, <1>3 DEF SubkeysTypeOK
<1>6. SubkeysActWithinGrants'
  <2> SUFFICES ASSUME callers' \cap saved.admins = {}, NEW k \in DOMAIN outbox', outbox'[k] # Abroad
               PROVE  \E x \in callers' : CoveredBy(saved, x, outbox'[k])
    BY <1>1, CoveredStays DEF SubkeysActWithinGrants, CoveredBy, IsLive, IsExpired
  <2>1. callers \cap saved.admins = {} /\ c \notin storage.admins
    BY <1>2, <1>4
  <2>2. storage = saved
    BY <1>1, <2>1 DEF ChangesOnCalls
  <2>3. CASE IsAuthorized(c, outbox'[k])
    BY <1>2, <2>1, <2>2, <2>3 DEF IsAuthorized, IsAdmin
  <2>4. CASE \E j \in DOMAIN outbox : outbox'[k] = outbox[j]
    BY <1>1, <1>2, <2>1, <2>4 DEF SubkeysActWithinGrants
  <2> QED BY <1>3, <2>1, <2>3, <2>4
<1>7. ChangesOnCalls'
  <2>1. callers' \cap Contracts # {}
    BY <1>2
  <2>2. callers \cap saved.admins # {} => callers' \cap saved.admins # {}
    BY <1>2
  <2> QED BY <1>1, <1>3, <1>4, <2>1, <2>2 DEF ChangesOnCalls
<1> QED BY <1>4, <1>5, <1>6, <1>7 DEF SubkeysInv

LEMMA SubkeysStep == SubkeysInv /\ [SubkeysNext]_subkeysVars => SubkeysInv'
<1> SUFFICES ASSUME SubkeysInv, [SubkeysNext]_subkeysVars PROVE SubkeysInv'
  OBVIOUS
<1>0. SubkeysTypeOK /\ SubkeysActWithinGrants /\ ListWithinRights /\ ChangesOnCalls
  BY DEF SubkeysInv
<1>1. CASE SubkeysTransact
  BY <1>1, SubkeysTransactInv
<1>2. CASE TransactAbroad /\ UNCHANGED height
  <2>1. /\ outbox' = <<Abroad>> /\ callers' = {} /\ saved' = storage /\ storage' = storage
        /\ height' = height
    BY <1>2 DEF TransactAbroad
  <2> QED
    BY <1>0, <2>1, OneAbroad
    DEF SubkeysInv, SubkeysTypeOK, SubkeysActWithinGrants, ListWithinRights, ChangesOnCalls
<1>3. CASE SubkeysSubMessage
  BY <1>3, SubkeysSubMessageInv
<1>4. CASE SubkeysCallIn
  BY <1>4, SubkeysCallInInv
<1>5. CASE Elsewhere /\ UNCHANGED height
  <2>1. /\ outbox # <<>> /\ outbox' = Tail(outbox)
        /\ UNCHANGED <<storage, saved, callers, height>>
    BY <1>5 DEF Elsewhere
  <2>2. /\ outbox' \in Seq(Pending)
        /\ \A k \in DOMAIN outbox' : k + 1 \in DOMAIN outbox /\ outbox'[k] = outbox[k + 1]
    BY <1>0, <2>1, TailOfSeq DEF SubkeysTypeOK
  <2>3. SubkeysActWithinGrants'
    BY <1>0, <2>1, <2>2 DEF SubkeysActWithinGrants, CoveredBy, IsLive, IsExpired
  <2> QED
    BY <1>0, <2>1, <2>2, <2>3 DEF SubkeysInv, SubkeysTypeOK, ListWithinRights, ChangesOnCalls
<1>6. CASE Fail /\ UNCHANGED height
  <2>1. storage' = saved /\ outbox' = <<>> /\ UNCHANGED <<saved, callers, height>>
    BY <1>6 DEF Fail
  <2> QED
    BY <1>0, <2>1
    DEF SubkeysInv, SubkeysTypeOK, SubkeysActWithinGrants, ListWithinRights, ChangesOnCalls
<1>7. CASE NextBlock
  <2>1. /\ outbox = <<>> /\ height < MaxHeight /\ height' = height + 1
        /\ UNCHANGED <<storage, saved, outbox, callers>>
    BY <1>7 DEF NextBlock, vars
  <2> QED
    BY <1>0, <2>1, SubkeysAssumption
    DEF SubkeysInv, SubkeysTypeOK, SubkeysActWithinGrants, ListWithinRights, ChangesOnCalls
<1>8. CASE UNCHANGED subkeysVars
  <2>1. UNCHANGED <<storage, saved, outbox, callers, height>>
    BY <1>8 DEF subkeysVars, vars
  <2> QED
    BY <1>0, <2>1
    DEF SubkeysInv, SubkeysTypeOK, SubkeysActWithinGrants, ListWithinRights, ChangesOnCalls,
        CoveredBy, IsLive, IsExpired
<1> QED BY <1>1, <1>2, <1>3, <1>4, <1>5, <1>6, <1>7, <1>8 DEF SubkeysNext

THEOREM SubkeysInvariant == SubkeysSpec => []SubkeysInv
  BY SubkeysInitInv, SubkeysStep, PTL DEF SubkeysSpec

\* Balances stay in range whatever is added and taken away, and what is
\* stored was validated.
THEOREM SubkeysTypes == SubkeysSpec => []SubkeysTypeOK
  BY SubkeysInvariant, PTL DEF SubkeysInv

\* Non-admins make cw1-subkeys send only what their own grants cover, in
\* batches of any length and in calls of any depth.
THEOREM SubkeysStayWithinGrants == SubkeysSpec => []SubkeysActWithinGrants
  BY SubkeysInvariant, PTL DEF SubkeysInv

-----------------------------------------------------------------------------
LEMMA SubkeysGroupInit == SubkeysInit => Group!Init
  BY DEF SubkeysInit, Group!Init, Committed

\* What a step may do to the list and to the grants that stay if the
\* running transaction fails.
LEMMA SubkeysCommits ==
  ASSUME SubkeysInv, SubkeysInv', [SubkeysNext]_subkeysVars
  PROVE  /\ \/ Committed' = Committed
            \/ /\ callers' \cap Committed.admins # {}
               /\ Committed'.mutable => Committed.mutable
               /\ ~ Committed.mutable => Committed'.admins = Committed.admins
         /\ \A a \in Addr :
              \/ SameGrants(Committed, Committed', a)
              \/ /\ callers' \cap saved'.admins # {}
                 /\ callers' = {a} => a \in Contracts \/ Self \in saved'.admins
<1>0. /\ SubkeysTypeOK /\ SubkeysActWithinGrants /\ ListWithinRights /\ ChangesOnCalls
      /\ storage.mutable \in BOOLEAN /\ saved.mutable \in BOOLEAN /\ storage'.mutable \in BOOLEAN
  BY DEF SubkeysInv, SubkeysTypeOK, SubkeysStorage
<1>1. CASE SubkeysTransact
  <2>1. PICK s \in Senders, call \in Calls : HandleSubkeys(s, call, <<>>) /\ callers' = {s}
    BY <1>1 DEF SubkeysTransact
  <2>2. outbox = <<>> /\ saved' = storage
    BY <1>1 DEF SubkeysTransact
  <2>3. ListStep(s) /\ GrantStep(s) /\ (storage' = storage \/ s \in storage.admins)
    BY <1>0, <2>1, EmptySeq, SubkeysHandles DEF SubkeysTypeOK
  <2>4. CASE storage' = storage
    BY <2>2, <2>4 DEF Committed, SameGrants
  <2>5. CASE s \in storage.admins
    <3>1. callers' \cap storage.admins # {}
      BY <2>1, <2>5
    <3>2. /\ storage'.mutable => storage.mutable
          /\ ~ storage.mutable => storage'.admins = storage.admins
      BY <2>3 DEF ListStep
    <3>3. \A a \in Addr : SameGrants(storage, storage', a) \/ callers' # {a}
      BY <2>1, <2>3 DEF GrantStep
    <3> QED BY <2>2, <3>1, <3>2, <3>3 DEF Committed, SameGrants
  <2> QED BY <2>3, <2>4, <2>5
<1>2. CASE TransactAbroad /\ UNCHANGED height
  BY <1>2 DEF TransactAbroad, Committed, SameGrants
<1>3. CASE SubkeysSubMessage
  <2>1. /\ outbox # <<>> /\ IsSelfCall(Head(outbox))
        /\ HandleSubkeys(Self, Head(outbox).call, Tail(outbox))
        /\ UNCHANGED <<saved, callers>>
    BY <1>3 DEF SubkeysSubMessage
  <2>2. /\ Head(outbox).call \in Calls /\ Tail(outbox) \in Seq(Pending)
        /\ Head(outbox) = outbox[1] /\ 1 \in DOMAIN outbox /\ outbox[1] # Abroad
    BY <1>0, <2>1, SelfCallIsCall, TailOfSeq DEF SubkeysTypeOK
  <2>3. ListStep(Self) /\ (storage' = storage \/ Self \in storage.admins)
    BY <1>0, <2>1, <2>2, SubkeysHandles DEF SubkeysTypeOK
  <2>4. callers \cap saved.admins # {}
    BY <1>0, <2>1, <2>2, SelfCallsAreNotCovered DEF SubkeysActWithinGrants
  <2>5. storage' = saved \/ callers \cap Contracts # {} \/ Self \in saved.admins
    BY <1>0, <2>1, <2>3 DEF ChangesOnCalls
  <2>6. (storage'.mutable => saved.mutable) /\ (~ saved.mutable => storage'.admins = saved.admins)
    BY <1>0, <2>1, <2>3, <2>4, ListStepStays
  <2> QED
    BY <2>1, <2>4, <2>5, <2>6 DEF Committed, SameGrants
<1>4. CASE SubkeysCallIn
  <2>1. PICK c \in Contracts, call \in Calls :
          HandleSubkeys(c, call, outbox) /\ callers' = callers \cup {c}
    BY <1>4 DEF SubkeysCallIn
  <2>2. outbox # <<>> /\ saved' = saved
    BY <1>4 DEF SubkeysCallIn
  <2>3. ListStep(c) /\ (storage' = storage \/ c \in storage.admins)
    BY <1>0, <2>1, SubkeysHandles DEF SubkeysTypeOK
  <2>4. /\ storage'.mutable => saved.mutable
        /\ ~ saved.mutable => storage'.admins = saved.admins
        /\ c \in storage.admins => callers' \cap saved.admins # {}
    BY <1>0, <2>1, <2>2, <2>3, ListStepStays
  <2>5. storage' = saved \/ callers' \cap saved.admins # {}
    <3>1. callers \subseteq callers'
      BY <2>1
    <3> QED BY <1>0, <2>2, <2>3, <2>4, <3>1 DEF ChangesOnCalls
  <2>6. \A a : callers' = {a} => a \in Contracts
    BY <2>1
  <2> QED
    BY <2>2, <2>4, <2>5, <2>6 DEF Committed, SameGrants
<1>5. CASE Elsewhere /\ UNCHANGED height
  <2>1. outbox # <<>> /\ UNCHANGED <<storage, saved, callers>>
    BY <1>5 DEF Elsewhere
  <2>2. CASE callers \cap saved.admins # {}
    BY <1>0, <2>1, <2>2 DEF Committed, SameGrants, ListWithinRights, ChangesOnCalls
  <2>3. CASE callers \cap saved.admins = {}
    \* Nobody who is no admin has had anything written.
    <3>1. storage = saved
      BY <1>0, <2>1, <2>3 DEF ChangesOnCalls
    <3> QED BY <2>1, <3>1 DEF Committed, SameGrants
  <2> QED BY <2>2, <2>3
<1>6. CASE Fail /\ UNCHANGED height
  BY <1>6 DEF Fail, Committed, SameGrants
<1>7. CASE NextBlock
  BY <1>7 DEF NextBlock, vars, Committed, SameGrants
<1>8. CASE UNCHANGED subkeysVars
  BY <1>8 DEF subkeysVars, vars, Committed, SameGrants
<1> QED BY <1>1, <1>2, <1>3, <1>4, <1>5, <1>6, <1>7, <1>8 DEF SubkeysNext

LEMMA SubkeysGroupStep ==
  ASSUME SubkeysInv, SubkeysInv', [SubkeysNext]_subkeysVars
  PROVE  [Group!Next]_(Group!vars)
<1>1. /\ callers' \in SUBSET Addr
      /\ Committed'.admins \in SUBSET Addr /\ Committed'.mutable \in BOOLEAN
      /\ Committed.mutable \in BOOLEAN
  BY Cw1Assumption DEF SubkeysInv, SubkeysTypeOK, SubkeysStorage, Committed
<1> QED BY <1>1, SubkeysCommits DEF Group!Next, Group!Call, Group!Change, Group!vars

\* cw1-subkeys implements AdminGroup as well: no grant, no batch and no
\* failed transaction reopens or changes a list that was closed.
THEOREM SubkeysRefinesGroup == SubkeysSpec => ImplementsAdminGroupToo
<1>1. SubkeysInv /\ SubkeysInv' /\ [SubkeysNext]_subkeysVars => [Group!Next]_(Group!vars)
  BY SubkeysGroupStep
<1> QED
  BY SubkeysGroupInit, SubkeysInvariant, <1>1, PTL
  DEF ImplementsAdminGroupToo, Group!Spec, SubkeysSpec

\* Grants change in whole transactions in which an admin called; those of the
\* one who signs, if nobody else calls, only where the contract is an admin of
\* itself.
THEOREM SubkeysGrantsAreByOthers == SubkeysSpec => GrantsAreByOthers
<1>1. SubkeysInv /\ SubkeysInv' /\ [SubkeysNext]_subkeysVars =>
        [\A a \in Addr :
           \/ /\ Committed'.allowances[a] = Committed.allowances[a]
              /\ Committed'.permissions[a] = Committed.permissions[a]
           \/ /\ callers' \cap saved'.admins # {}
              /\ callers' = {a} => a \in Contracts \/ Self \in saved'.admins]_subkeysVars
  BY SubkeysCommits DEF SameGrants
<1> QED
  BY SubkeysInvariant, <1>1, PTL DEF GrantsAreByOthers, SubkeysSpec

-----------------------------------------------------------------------------
(***************************************************************************)
(* Expired allowances                                                      *)
(***************************************************************************)

\* All that an allowance holds is what one message has added.
HoldsOneGrant(allow) ==
  \E d \in Denoms, n \in Amounts : allow.balance = [NoCoins EXCEPT ![d] = n]

\* What is written over an allowance has not expired, and keeps nothing of
\* one that has.
WritesLive(old, new) ==
  \/ new = old
  \/ /\ new = None \/ IsLive(new)
     /\ old # None /\ ~ IsLive(old) => HoldsOneGrant(new)

\* A transaction, which runs in one block, has written nothing that has expired.
WrittenIsLive ==
  outbox # <<>> =>
    \A a \in Addr : storage.allowances[a] \in {saved.allowances[a], None} \/ IsLive(storage.allowances[a])

LEMMA IncreaseWritesLive ==
  ASSUME storage \in SubkeysStorage, NEW s, NEW call \in Calls, NEW rest,
         IncreaseAllowance(s, call, rest), NEW a \in Addr
  PROVE  WritesLive(storage.allowances[a], storage'.allowances[a])
<1> DEFINE old  == storage.allowances[call.spender]
           base == IF IsLive(old) THEN old ELSE NoAllowance
           new  == [balance |-> Plus(base.balance, call.coin),
                    expires |-> IF call.expires = None THEN base.expires ELSE call.expires]
<1>1. /\ call.op = "increase_allowance" /\ call.spender \in Addr /\ SetsLiveDeadline(call)
      /\ Held(base.balance, call.coin.denom) + call.coin.amount <= MaxUint128
      /\ storage' = [storage EXCEPT !.allowances[call.spender] = new]
  BY DEF IncreaseAllowance, MayGrant
<1>2. call.coin \in [denom: Denoms, amount: Amounts] /\ call.expires \in Expirations \cup {None}
  BY <1>1, GrantsAssumption
<1>3. storage'.allowances[a] = IF a = call.spender THEN new ELSE storage.allowances[a]
  <2> HIDE DEF new
  <2> QED BY <1>1 DEF SubkeysStorage
<1>4. base \in Allowance
  BY <1>1 DEF SubkeysStorage, IsLive, NoAllowance, NoCoins, Allowance, Balance
<1>5. new \in Allowance /\ new # None
  <2>1. base.balance \in Balance
    BY <1>4 DEF Allowance
  <2>2. Plus(base.balance, call.coin) \in Balance
    BY <1>1, <1>2, <2>1, AddedCoins
  <2>3. new \in Allowance
    BY <1>2, <1>4, <2>2 DEF Allowance
  <2> QED BY <2>3, NoneAssumption
<1>6. IsLive(new)
  <2>1. ~ IsExpired(base.expires)
    BY DEF IsLive, IsExpired, NoAllowance
  <2>2. call.expires # None => ~ IsExpired(call.expires)
    BY <1>1 DEF SetsLiveDeadline
  <2>3. ~ IsExpired(new.expires)
    BY <2>1, <2>2
  <2> QED BY <1>5, <2>3 DEF IsLive
<1>7. ASSUME ~ IsLive(old) PROVE HoldsOneGrant(new)
  <2>1. base.balance = NoCoins
    BY <1>7 DEF NoAllowance
  <2>2. Held(NoCoins, call.coin.denom) = 0 /\ call.coin.denom \in Denoms /\ call.coin.amount \in Amounts
    BY <1>2 DEF Held, NoCoins
  <2>3. 0 + call.coin.amount = call.coin.amount
    BY <2>2, AmountsAreNats
  <2>4. new.balance = [NoCoins EXCEPT ![call.coin.denom] = call.coin.amount]
    BY <2>1, <2>2, <2>3 DEF Plus
  <2> QED BY <2>2, <2>4 DEF HoldsOneGrant
<1> HIDE DEF new
<1> QED BY <1>3, <1>6, <1>7 DEF WritesLive

LEMMA DecreaseWritesLive ==
  ASSUME storage \in SubkeysStorage, NEW s, NEW call \in Calls, NEW rest,
         DecreaseAllowance(s, call, rest), NEW a \in Addr
  PROVE  WritesLive(storage.allowances[a], storage'.allowances[a])
<1> DEFINE old  == storage.allowances[call.spender]
           left == Less(old.balance, call.coin)
           kept == [balance |-> left,
                    expires |-> IF call.expires = None THEN old.expires ELSE call.expires]
           new  == IF IsEmpty(left) THEN None ELSE kept
<1>1. /\ call.op = "decrease_allowance" /\ call.spender \in Addr /\ SetsLiveDeadline(call)
      /\ IsLive(old) /\ old.balance[call.coin.denom] # None
      /\ storage' = [storage EXCEPT !.allowances[call.spender] = new]
  BY DEF DecreaseAllowance, MayGrant
<1>2. call.coin \in [denom: Denoms, amount: Amounts] /\ call.expires \in Expirations \cup {None}
  BY <1>1, GrantsAssumption
<1>3. storage'.allowances[a] = IF a = call.spender THEN new ELSE storage.allowances[a]
  <2> HIDE DEF new
  <2> QED BY <1>1 DEF SubkeysStorage
<1>4. kept # None
  <2>1. old \in Allowance
    BY <1>1 DEF SubkeysStorage, IsLive
  <2>2. left \in Balance
    <3>1. old.balance \in Balance
      BY <2>1 DEF Allowance
    <3> QED BY <1>1, <1>2, <3>1, TakenCoins
  <2>3. kept \in Allowance
    <3> HIDE DEF left
    <3> QED BY <1>2, <2>1, <2>2 DEF Allowance
  <2> QED BY <2>3, NoneAssumption
<1>5. ~ IsExpired(kept.expires)
  BY <1>1 DEF IsLive, SetsLiveDeadline
<1>6. new = None \/ IsLive(new)
  BY <1>4, <1>5 DEF IsLive
<1> HIDE DEF new
<1> QED BY <1>1, <1>3, <1>6 DEF WritesLive

LEMMA SubkeysWritesLive ==
  ASSUME storage \in SubkeysStorage, NEW s, NEW call \in Calls, NEW rest,
         HandleSubkeys(s, call, rest), NEW a \in Addr
  PROVE  WritesLive(storage.allowances[a], storage'.allowances[a])
<1>1. CASE IncreaseAllowance(s, call, rest)
  BY <1>1, IncreaseWritesLive
<1>2. CASE DecreaseAllowance(s, call, rest)
  BY <1>2, DecreaseWritesLive
<1>3. CASE SetPermissions(s, call, rest) \/ Freeze(s, call, rest) \/ UpdateAdmins(s, call, rest)
           \/ ExecuteSubkeys(s, call, rest)
  <2>1. storage'.allowances = storage.allowances
    BY <1>3 DEF SetPermissions, Freeze, UpdateAdmins, ExecuteSubkeys, SubkeysStorage
  <2> QED BY <2>1 DEF WritesLive
<1> QED BY <1>1, <1>2, <1>3 DEF HandleSubkeys

\* One step of the contract, for one allowance.
LEMMA ForgetsStep ==
  ASSUME SubkeysInv, WrittenIsLive, [SubkeysNext]_subkeysVars
  PROVE  /\ WrittenIsLive'
         /\ \A a \in Addr :
              \/ storage'.allowances[a] = storage.allowances[a]
              \/ storage.allowances[a] = None \/ IsLive(storage.allowances[a])
              \/ HoldsOneGrant(storage'.allowances[a])
<1>0. SubkeysTypeOK
  BY DEF SubkeysInv
<1>1. CASE SubkeysTransact
  <2>1. PICK s \in Senders, call \in Calls : HandleSubkeys(s, call, <<>>)
    BY <1>1 DEF SubkeysTransact
  <2>2. \A a \in Addr : WritesLive(storage.allowances[a], storage'.allowances[a])
    BY <1>0, <2>1, SubkeysWritesLive DEF SubkeysTypeOK
  <2>3. saved' = storage /\ height' = height
    BY <1>1 DEF SubkeysTransact
  <2> QED BY <2>2, <2>3 DEF WritesLive, WrittenIsLive, IsLive, IsExpired
<1>2. CASE TransactAbroad /\ UNCHANGED height
  BY <1>2 DEF TransactAbroad, WrittenIsLive
<1>3. CASE SubkeysSubMessage
  <2>1. /\ outbox # <<>> /\ UNCHANGED <<saved, height>>
        /\ HandleSubkeys(Self, Head(outbox).call, Tail(outbox))
        /\ Head(outbox).call \in Calls
    BY <1>0, <1>3, SelfCallIsCall DEF SubkeysSubMessage, SubkeysTypeOK
  <2>2. \A a \in Addr : WritesLive(storage.allowances[a], storage'.allowances[a])
    BY <1>0, <2>1, SubkeysWritesLive DEF SubkeysTypeOK
  <2> QED BY <2>1, <2>2 DEF WritesLive, WrittenIsLive, IsLive, IsExpired
<1>4. CASE SubkeysCallIn
  <2>1. PICK c \in Contracts, call \in Calls : HandleSubkeys(c, call, outbox)
    BY <1>4 DEF SubkeysCallIn
  <2>2. \A a \in Addr : WritesLive(storage.allowances[a], storage'.allowances[a])
    BY <1>0, <2>1, SubkeysWritesLive DEF SubkeysTypeOK
  <2>3. outbox # <<>> /\ UNCHANGED <<saved, height>>
    BY <1>4 DEF SubkeysCallIn
  <2> QED BY <2>2, <2>3 DEF WritesLive, WrittenIsLive, IsLive, IsExpired
<1>5. CASE Elsewhere /\ UNCHANGED height
  BY <1>5 DEF Elsewhere, WrittenIsLive, IsLive, IsExpired
<1>6. CASE Fail /\ UNCHANGED height
  BY <1>6 DEF Fail, WrittenIsLive
<1>7. CASE NextBlock
  BY <1>7 DEF NextBlock, vars, WrittenIsLive
<1>8. CASE UNCHANGED subkeysVars
  BY <1>8 DEF subkeysVars, vars, WrittenIsLive, IsLive, IsExpired
<1> QED BY <1>1, <1>2, <1>3, <1>4, <1>5, <1>6, <1>7, <1>8 DEF SubkeysNext

\* An allowance that has expired comes back with nothing of what it held, in
\* any block, by any message and through any failure.
THEOREM SubkeysForgetExpired == SubkeysSpec => ExpiredIsForgotten
<1>1. SubkeysInit => WrittenIsLive
  BY DEF SubkeysInit, WrittenIsLive
<1>2. SubkeysInv /\ WrittenIsLive /\ [SubkeysNext]_subkeysVars => WrittenIsLive'
  BY ForgetsStep
<1>3. SubkeysInv /\ WrittenIsLive /\ [SubkeysNext]_subkeysVars =>
        [\A a \in Addr :
           LET old == storage.allowances[a]
               new == storage'.allowances[a]
           IN  old # None /\ ~ IsLive(old) /\ new # old =>
                 \E d \in Denoms, n \in Amounts : new.balance = [NoCoins EXCEPT ![d] = n]]_subkeysVars
  BY ForgetsStep DEF HoldsOneGrant
<1> QED
  BY SubkeysInvariant, <1>1, <1>2, <1>3, PTL DEF ExpiredIsForgotten, SubkeysSpec
-----------------------------------------------------------------------------
(***************************************************************************)
(* What an allowance covers.                                               *)
(***************************************************************************)
\* Induction, over a set of the numbers for which the claim holds.
LEMMA NumberInduction ==
  ASSUME NEW G, 0 \in G, \A n \in Nat : n \in G => n + 1 \in G
  PROVE  Nat \subseteq G
<1> SUFFICES ASSUME Nat \ G # {} PROVE FALSE
  OBVIOUS
<1>1. PICK m \in Nat \ G : \A k \in Nat \ G : ~ (<<k, m>> \in OpToRel(<, Nat))
  BY NatLessThanWellFounded, WFMin, Zenon
<1>2. m \in Nat /\ m \notin G /\ m # 0
  OBVIOUS
<1>3. m - 1 \in Nat /\ (m - 1) + 1 = m /\ m - 1 < m
  BY <1>2
<1>4. m - 1 \notin G
  BY <1>2, <1>3
<1> QED BY <1>1, <1>2, <1>3, <1>4 DEF OpToRel

\* What left[k] is in Covers.
After(balance, coins, left, k) ==
  IF k = 0 THEN balance ELSE
  IF left[k - 1] = None THEN None ELSE
  IF left[k - 1][coins[k].denom] = None THEN None ELSE
  IF left[k - 1][coins[k].denom] < coins[k].amount THEN None ELSE Less(left[k - 1], coins[k])

IsLeft(balance, coins, left) ==
  left = [k \in 0 .. Len(coins) |->
            IF k = 0 THEN balance ELSE
            IF left[k - 1] = None THEN None ELSE
            IF left[k - 1][coins[k].denom] = None THEN None ELSE
            IF left[k - 1][coins[k].denom] < coins[k].amount THEN None
            ELSE Less(left[k - 1], coins[k])]

\* There is such a function: as much of it as concerns n coins can be
\* extended to one more.
LEMMA LeftExists ==
  ASSUME NEW balance, NEW coins, Len(coins) \in Nat
  PROVE  \E left : IsLeft(balance, coins, left)
<1> DEFINE Upto(n, g) == /\ g = [k \in 0 .. Len(coins) |-> g[k]]
                         /\ \A k \in 0 .. Len(coins) : k <= n => g[k] = After(balance, coins, g, k)
           N == {n \in Nat : \E g : Upto(n, g)}
<1>1. 0 \in N
  <2> DEFINE g == [k \in 0 .. Len(coins) |-> balance]
  <2>1. Upto(0, g)
    BY DEF After
  <2> QED BY <2>1
<1>2. ASSUME NEW n \in Nat, n \in N PROVE n + 1 \in N
  <2>1. PICK g : Upto(n, g)
    BY <1>2
  <2> DEFINE h == [k \in 0 .. Len(coins) |-> After(balance, coins, g, k)]
  <2>2. \A k \in 0 .. Len(coins) : k <= n => h[k] = g[k]
    BY <2>1
  <2>3. \A k \in 0 .. Len(coins) : k <= n + 1 => h[k] = After(balance, coins, h, k)
    <3> SUFFICES ASSUME NEW k \in 0 .. Len(coins), k <= n + 1
                 PROVE  After(balance, coins, g, k) = After(balance, coins, h, k)
      OBVIOUS
    <3>1. CASE k = 0
      BY <3>1 DEF After
    <3>2. CASE k # 0
      <4>1. h[k - 1] = g[k - 1]
        BY <2>2, <3>2
      <4> HIDE DEF h
      <4> QED BY <3>2, <4>1 DEF After
    <3> QED BY <3>1, <3>2
  <2>4. Upto(n + 1, h)
    BY <2>3
  <2> HIDE DEF h, Upto
  <2> QED BY <2>4
<1>3. Nat \subseteq N
  <2> HIDE DEF N
  <2> QED BY <1>1, <1>2, NumberInduction
<1>4. PICK g : Upto(Len(coins), g)
  BY <1>3
<1>5. IsLeft(balance, coins, g)
  BY <1>4 DEF IsLeft, After
<1> QED BY <1>5

LEMMA CoversUnfolds ==
  ASSUME NEW balance, NEW coins, Len(coins) \in Nat
  PROVE  \E left : /\ \A k \in 0 .. Len(coins) : left[k] = After(balance, coins, left, k)
                   /\ Covers(balance, coins) <=> left[Len(coins)] # None
<1> DEFINE left == CHOOSE g : IsLeft(balance, coins, g)
<1>1. IsLeft(balance, coins, left)
  BY LeftExists
<1>2. Covers(balance, coins) <=> left[Len(coins)] # None
  BY DEF Covers, IsLeft
<1> HIDE DEF left
<1>3. \A k \in 0 .. Len(coins) : left[k] = After(balance, coins, left, k)
  BY <1>1 DEF IsLeft, After
<1> QED BY <1>2, <1>3

Coin  == [denom: Denoms, amount: Amounts]
Coins == Seq(Coin)

Enough(balance, coin) == balance[coin.denom] # None /\ balance[coin.denom] >= coin.amount

\* Coins of different denominations do not compete: each is covered for
\* itself.
LEMMA CoversEach ==
  ASSUME NEW balance \in Balance, NEW coins \in Coins,
         \A i, j \in 1 .. Len(coins) : coins[i].denom = coins[j].denom => i = j
  PROVE  Covers(balance, coins) <=> \A k \in 1 .. Len(coins) : Enough(balance, coins[k])
<1>1. Len(coins) \in Nat /\ \A k \in 1 .. Len(coins) : coins[k] \in Coin
  BY SeqTyping DEF Coins
<1>2. PICK left : /\ \A k \in 0 .. Len(coins) : left[k] = After(balance, coins, left, k)
                  /\ Covers(balance, coins) <=> left[Len(coins)] # None
  BY <1>1, CoversUnfolds
<1> DEFINE Untouched(n) == \A d \in Denoms : (\A k \in 1 .. n : coins[k].denom # d) => left[n][d] = balance[d]
           Right(n) == /\ left[n] # None <=> \A k \in 1 .. n : Enough(balance, coins[k])
                       /\ left[n] # None => left[n] \in Balance /\ Untouched(n)
           G == {n \in Nat : n <= Len(coins) => Right(n)}
<1>3. 0 \in G
  <2>1. left[0] = balance
    BY <1>1, <1>2 DEF After
  <2>2. balance # None
    BY NoneAssumption
  <2> QED BY <2>1, <2>2
<1>4. ASSUME NEW n \in Nat, n \in G PROVE n + 1 \in G
  <2> SUFFICES ASSUME n + 1 <= Len(coins) PROVE Right(n + 1)
    OBVIOUS
  <2> DEFINE coin == coins[n + 1]
  <2>1. Right(n) /\ n + 1 \in 1 .. Len(coins) /\ n + 1 \in 0 .. Len(coins) /\ (n + 1) - 1 = n
    BY <1>1, <1>4
  <2>2. coin \in [denom: Denoms, amount: Amounts] /\ coin.denom \in Denoms /\ coin.amount \in Nat
    BY <1>1, <2>1, AmountsAreNats DEF Coin
  <2>3. ASSUME NEW k \in 1 .. n PROVE coins[k].denom # coin.denom
    <3>1. k \in 1 .. Len(coins) /\ k # n + 1
      BY <1>1, <2>1
    <3> QED BY <2>1, <3>1
  <2>4. left[n + 1] = After(balance, coins, left, n + 1) /\ n + 1 # 0
    BY <1>2, <2>1
  <2>5. left[n + 1] = IF left[n] = None \/ ~ Enough(left[n], coin) THEN None ELSE Less(left[n], coin)
    <3>1. left[n] \in Balance /\ left[n][coin.denom] # None => left[n][coin.denom] \in Nat
      BY <2>2 DEF Balance, Uint128
    <3>2. left[n] # None => left[n] \in Balance
      BY <2>1
    <3> QED BY <2>1, <2>2, <2>4, <3>1, <3>2 DEF After, Enough
  <2>6. (\A k \in 1 .. n + 1 : Enough(balance, coins[k])) <=>
          (\A k \in 1 .. n : Enough(balance, coins[k])) /\ Enough(balance, coin)
    <3>1. \A k : k \in 1 .. n + 1 <=> k \in 1 .. n \/ k = n + 1
      OBVIOUS
    <3> QED BY <3>1
  <2>7. left[n] # None => (Enough(left[n], coin) <=> Enough(balance, coin))
    BY <2>1, <2>2, <2>3 DEF Enough
  <2>8. left[n + 1] # None <=> \A k \in 1 .. n + 1 : Enough(balance, coins[k])
    <3>1. left[n] # None /\ Enough(left[n], coin) => Less(left[n], coin) \in Balance
      BY <2>1, <2>2, TakenCoins DEF Enough
    <3>2. None \notin Balance
      BY NoneAssumption
    <3> HIDE DEF coin
    <3> QED BY <2>1, <2>5, <2>6, <2>7, <3>1, <3>2
  <2>9. ASSUME left[n + 1] # None
        PROVE  left[n + 1] \in Balance /\ Untouched(n + 1)
    <3>1. left[n] \in Balance /\ Enough(left[n], coin) /\ left[n + 1] = Less(left[n], coin)
      BY <2>1, <2>5, <2>9
    <3>2. left[n + 1] \in Balance
      BY <2>2, <3>1, TakenCoins DEF Enough
    <3>3. ASSUME NEW d \in Denoms, \A k \in 1 .. n + 1 : coins[k].denom # d
          PROVE  left[n + 1][d] = balance[d]
      <4>1. coin.denom # d /\ \A k \in 1 .. n : coins[k].denom # d
        BY <3>3
      <4>2. left[n][d] = balance[d]
        BY <2>1, <3>1, <4>1, NoneAssumption
      <4>3. Less(left[n], coin)[d] = left[n][d]
        BY <3>1, <4>1 DEF Less, Balance
      <4> QED BY <3>1, <4>2, <4>3
    <3> QED BY <3>2, <3>3
  <2> QED BY <2>8, <2>9
<1>5. Nat \subseteq G
  <2> HIDE DEF G
  <2> QED BY <1>3, <1>4, NumberInduction
<1> QED BY <1>1, <1>2, <1>5

\* The message that sends coins.
BankSend(coins) == [kind |-> "bank_send", coins |-> coins]

\* A bank message with any number of coins, no denomination twice, is
\* authorized for a non-admin just if its allowance is live and the query
\* shows enough of every coin.
BatchesAreHonest ==
  \A a \in Addr \ storage.admins, coins \in Coins :
    (\A i, j \in 1 .. Len(coins) : coins[i].denom = coins[j].denom => i = j) =>
      (IsAuthorized(a, BankSend(coins)) <=>
         /\ IsLive(storage.allowances[a])
         /\ \A k \in 1 .. Len(coins) : Enough(AllowanceQuery(a).balance, coins[k]))

LEMMA BankSendsAreHonest == SubkeysTypeOK => BatchesAreHonest
<1> SUFFICES ASSUME SubkeysTypeOK, NEW a \in Addr \ storage.admins, NEW coins \in Coins,
                    \A i, j \in 1 .. Len(coins) : coins[i].denom = coins[j].denom => i = j
             PROVE  IsAuthorized(a, BankSend(coins)) <=>
                      /\ IsLive(storage.allowances[a])
                      /\ \A k \in 1 .. Len(coins) : Enough(AllowanceQuery(a).balance, coins[k])
  BY DEF BatchesAreHonest
<1>1. IsAuthorized(a, BankSend(coins)) <=>
        IsLive(storage.allowances[a]) /\ Covers(storage.allowances[a].balance, coins)
  <2>1. BankSend(coins).kind = "bank_send" /\ BankSend(coins).coins = coins
    BY DEF BankSend
  <2>2. CoveredBy(storage, a, BankSend(coins)) <=>
          IsLive(storage.allowances[a]) /\ Covers(storage.allowances[a].balance, coins)
    <3>1. "bank_send" \notin Staking \cup Distribution
      BY DEF Staking, Distribution
    <3> QED BY ONLY <2>1, <3>1 DEF CoveredBy, Covers, IsLive
  <2> QED BY <2>2 DEF IsAuthorized, IsAdmin
<1>2. CASE IsLive(storage.allowances[a])
  <2>1. storage.allowances[a].balance \in Balance
    BY <1>2 DEF SubkeysTypeOK, SubkeysStorage, IsLive, Allowance
  <2>2. AllowanceQuery(a) = storage.allowances[a]
    BY <1>2 DEF AllowanceQuery
  <2> QED BY <1>1, <1>2, <2>1, <2>2, CoversEach
<1>3. CASE ~ IsLive(storage.allowances[a])
  BY <1>1, <1>3
<1> QED BY <1>2, <1>3

\* A bank message is authorized for a non-admin just if the query shows
\* enough of every coin, however many different coins it sends.
THEOREM SubkeysBatchesAreHonest == SubkeysSpec => []BatchesAreHonest
  BY SubkeysInvariant, BankSendsAreHonest, PTL DEF SubkeysInv

\* A non-admin who asks what is granted to it is told exactly what it may
\* send, of coins and of staking messages.
THEOREM SubkeysQueriesAreHonest == SubkeysSpec => []QueriesAreHonest
<1>1. SubkeysTypeOK => QueriesAreHonest
  <2> SUFFICES ASSUME SubkeysTypeOK, NEW a \in Addr \ storage.admins
               PROVE  /\ \A d \in Denoms, n \in Amounts :
                           IsAuthorized(a, [kind |-> "bank_send", coins |-> <<[denom |-> d, amount |-> n]>>])
                             <=> AllowanceQuery(a).balance[d] # None /\ AllowanceQuery(a).balance[d] >= n
                      /\ \A k \in Staking \cup Distribution :
                           IsAuthorized(a, [kind |-> k]) <=> PermissionsQuery(a)[PermissionFor(k)]
    BY DEF QueriesAreHonest
  <2>1. ASSUME NEW d \in Denoms, NEW n \in Amounts
        PROVE  IsAuthorized(a, [kind |-> "bank_send", coins |-> <<[denom |-> d, amount |-> n]>>])
                 <=> AllowanceQuery(a).balance[d] # None /\ AllowanceQuery(a).balance[d] >= n
    <3> DEFINE coins == <<[denom |-> d, amount |-> n]>>
    <3>1. coins \in Coins /\ Len(coins) = 1 /\ coins[1].denom = d /\ coins[1].amount = n
      BY DEF Coins, Coin
    <3>2. ~ IsLive(storage.allowances[a]) => AllowanceQuery(a).balance[d] = None
      BY DEF AllowanceQuery, NoAllowance, NoCoins
    <3> HIDE DEF coins
    <3>3. IsAuthorized(a, BankSend(coins)) <=>
            /\ IsLive(storage.allowances[a])
            /\ \A k \in 1 .. Len(coins) : Enough(AllowanceQuery(a).balance, coins[k])
      <4>1. \A i, j \in 1 .. Len(coins) : coins[i].denom = coins[j].denom => i = j
        BY <3>1
      <4> QED BY <3>1, <4>1, BankSendsAreHonest DEF BatchesAreHonest
    <3>4. IsAuthorized(a, BankSend(coins)) <=>
            AllowanceQuery(a).balance[d] # None /\ AllowanceQuery(a).balance[d] >= n
      BY <3>1, <3>2, <3>3 DEF Enough
    <3> QED BY <3>4 DEF BankSend, coins
  <2>2. ASSUME NEW k \in Staking \cup Distribution
        PROVE  IsAuthorized(a, [kind |-> k]) <=> PermissionsQuery(a)[PermissionFor(k)]
    <3>1. PermissionFor(k) \in {"delegate", "redelegate", "undelegate", "withdraw"}
      BY DEF PermissionFor, Staking, Distribution
    <3>2. IsAuthorized(a, [kind |-> k]) <=>
            storage.permissions[a] # None /\ storage.permissions[a][PermissionFor(k)]
      BY DEF IsAuthorized, IsAdmin, CoveredBy, Staking, Distribution
    <3> QED BY <3>1, <3>2 DEF PermissionsQuery, NoPermissions
  <2> QED BY <2>1, <2>2
<1> QED BY <1>1, SubkeysInvariant, PTL DEF SubkeysInv
=============================================================================

------------------------------ MODULE Cw20State ------------------------------
(***************************************************************************)
(* The storage of the cw20-base contract, and the reads and writes its     *)
(* handlers share (examples/contracts/cw20-base/src/contract.rs).          *)
(*                                                                         *)
(* A cw_storage_plus Item or Map entry that is absent holds None.  A       *)
(* handler that returns an error or panics has its writes rolled back by   *)
(* the chain, so it is an action that is not enabled.                      *)
(***************************************************************************)
EXTENDS Integers, FiniteSets

CONSTANTS
  Addr,             \* account and contract addresses
  Senders,          \* the addresses that sign transactions
  None,             \* Option::None
  Never,            \* Expiration::Never
  MaxUint128,       \* the largest Uint128
  Amounts,          \* the amounts that messages carry
  Expirations,      \* the Expiration values that messages carry
  MaxHeight,        \* bound: the last block height that is explored
  ContractVersion,  \* CONTRACT_VERSION
  MirrorVersion     \* the version that introduced allowances_spender, 0.14.0

Uint128 == 0 .. MaxUint128

ASSUME Cw20Assumption ==
  /\ Senders \subseteq Addr
  /\ None \notin Addr
  /\ MaxUint128 \in Nat
  /\ Amounts \subseteq Uint128
  /\ Expirations \subseteq Nat \cup {Never}
  /\ None \notin Nat \cup {Never}
  /\ Never \notin Nat
  /\ MaxHeight \in Nat
  /\ ContractVersion \in Nat
  /\ MirrorVersion \in Nat

\* Addresses are strings of a bounded length.
ASSUME FiniteAddr == IsFiniteSet(Addr)

VARIABLES
  contract_version,   \* cw2 contract info, None before instantiation
  token_info,         \* Item<TokenInfo>
  balances,           \* Map<Addr, Uint128>
  allowances,         \* Map<(owner, spender), AllowanceResponse>
  allowances_spender, \* Map<(spender, owner), AllowanceResponse>
  marketing_info,     \* Item<MarketingInfoResponse>
  logo,               \* Item<Logo>
  height,             \* env.block.height
  sender              \* info.sender of the last message, None if it had none

tokenVars     == <<token_info, balances>>
allowanceVars == <<allowances, allowances_spender>>
marketingVars == <<marketing_info, logo>>
envVars       == <<contract_version, height>>
vars          == <<tokenVars, allowanceVars, marketingVars, envVars, sender>>

MinterData == [minter: Addr, cap: Uint128 \cup {None}]
TokenInfo  == [total_supply: Uint128, mint: MinterData \cup {None}]
Allowance  == [allowance: Uint128, expires: Expirations \cup {Never}]

\* An absent item differs from every one that is present.
ASSUME NoneAssumption == None \notin TokenInfo \cup MinterData \cup Allowance

-----------------------------------------------------------------------------
(***************************************************************************)
(* Reads.                                                                  *)
(***************************************************************************)

\* The code of this version answers messages: the contract was instantiated
\* with it, or migrated to it.
Running == contract_version = ContractVersion

\* Option<Uint128>::unwrap_or_default
Amount(stored) == IF stored = None THEN 0 ELSE stored

Balance(a) == Amount(balances[a])

IsExpired(expires) == expires # Never /\ expires <= height

cap == IF token_info.mint = None THEN None ELSE token_info.mint.cap

-----------------------------------------------------------------------------
(***************************************************************************)
(* Writes shared by transfer, send, transfer_from and send_from, and by    *)
(* burn and burn_from.  The second balance is read after the first one is  *)
(* written, so that a transfer to oneself changes nothing.                 *)
(***************************************************************************)

\* Mutant: both balances are computed from what was stored before.
MoveTokensStaleCredit(from, to, amount) ==
  /\ Balance(from) >= amount
  /\ Balance(to) + amount <= MaxUint128
  /\ balances' = [balances EXCEPT ![from] = Balance(from) - amount,
                                  ![to] = Balance(to) + amount]

MoveTokens(from, to, amount) ==
  LET debited == [balances EXCEPT ![from] = Balance(from) - amount]
  IN  /\ Balance(from) >= amount
      /\ Amount(debited[to]) + amount <= MaxUint128
      /\ balances' = [debited EXCEPT ![to] = Amount(debited[to]) + amount]

BurnTokens(from, amount) ==
  /\ Balance(from) >= amount
  /\ token_info.total_supply >= amount
  /\ balances' = [balances EXCEPT ![from] = Balance(from) - amount]
  /\ token_info' = [token_info EXCEPT !.total_supply = @ - amount]
=============================================================================

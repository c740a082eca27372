----------------------------- MODULE Cw20Minting -----------------------------
(***************************************************************************)
(* The Cw20Minting messages of cw20-base (minting.rs).                     *)
(***************************************************************************)
EXTENDS Cw20State

IsMinter(a) == token_info.mint # None /\ token_info.mint.minter = a

\* Mutant: the cap is compared with the supply before the addition.
WithinCapBefore(amount) ==
  /\ token_info.total_supply + amount <= MaxUint128
  /\ cap # None => token_info.total_supply <= cap

\* The addition to the supply panics when it overflows.
WithinCap(amount) ==
  /\ token_info.total_supply + amount <= MaxUint128
  /\ cap # None => token_info.total_supply + amount <= cap

\* Mutant: the recipient is credited and the supply is not.
MintKeepSupply(from, recipient, amount) ==
  /\ amount # 0
  /\ IsMinter(from)
  /\ WithinCap(amount)
  /\ Balance(recipient) + amount <= MaxUint128
  /\ balances' = [balances EXCEPT ![recipient] = Balance(recipient) + amount]
  /\ UNCHANGED <<token_info, allowanceVars>>

Mint(from, recipient, amount) ==
  /\ amount # 0
  /\ IsMinter(from)
  /\ WithinCap(amount)
  /\ Balance(recipient) + amount <= MaxUint128
  /\ token_info' = [token_info EXCEPT !.total_supply = @ + amount]
  /\ balances' = [balances EXCEPT ![recipient] = Balance(recipient) + amount]
  /\ UNCHANGED allowanceVars

\* Mutant: whoever asks may replace the minter, or install one again.
UpdateMinterUnauthorized(from, new_minter) ==
  /\ token_info' = [token_info EXCEPT !.mint =
       IF new_minter = None THEN None ELSE [minter |-> new_minter, cap |-> cap]]
  /\ UNCHANGED <<balances, allowanceVars>>

\* new_minter is None to give the role up; the cap stays with the role.
UpdateMinter(from, new_minter) ==
  /\ IsMinter(from)
  /\ token_info' = [token_info EXCEPT !.mint =
       IF new_minter = None THEN None ELSE [minter |-> new_minter, cap |-> cap]]
  /\ UNCHANGED <<balances, allowanceVars>>
=============================================================================

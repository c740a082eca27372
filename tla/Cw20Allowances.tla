---------------------------- MODULE Cw20Allowances ----------------------------
(***************************************************************************)
(* The Cw20Allowances messages and queries of cw20-base (allowances.rs)    *)
(* and Cw20Base::deduct_allowance (contract.rs).  An owner's approval is   *)
(* stored twice: under (owner, spender) and under (spender, owner).        *)
(***************************************************************************)
EXTENDS Cw20State

NoAllowance == [allowance |-> 0, expires |-> Never]  \* AllowanceResponse::default

\* Option<AllowanceResponse>::unwrap_or_default
AllowanceOf(stored) == IF stored = None THEN NoAllowance ELSE stored

-----------------------------------------------------------------------------
(***************************************************************************)
(* deduct_allowance: the approval must exist, be live and cover amount.    *)
(* Each map is updated from its own entry.                                 *)
(***************************************************************************)
\* Mutant: the deadline of the approval is not looked at.
DeductibleAfterDeadline(stored, amount) ==
  /\ stored # None
  /\ stored.allowance >= amount

Deductible(stored, amount) ==
  /\ stored # None
  /\ ~IsExpired(stored.expires)
  /\ stored.allowance >= amount

\* Mutant: a lookup without a deduction.
DeductAllowanceCheckOnly(owner, spender, amount) ==
  /\ Deductible(allowances[owner][spender], amount)
  /\ UNCHANGED allowanceVars

DeductAllowance(owner, spender, amount) ==
  /\ Deductible(allowances[owner][spender], amount)
  /\ Deductible(allowances_spender[spender][owner], amount)
  /\ allowances' = [allowances EXCEPT ![owner][spender].allowance = @ - amount]
  /\ allowances_spender' =
       [allowances_spender EXCEPT ![spender][owner].allowance = @ - amount]

-----------------------------------------------------------------------------
(***************************************************************************)
(* Messages.  from is the sender of the message, expires may be None.      *)
(***************************************************************************)
Increased(stored, amount, expires) ==
  [allowance |-> AllowanceOf(stored).allowance + amount,
   expires   |-> IF expires = None THEN AllowanceOf(stored).expires ELSE expires]

\* Mutant: nothing stops an addition that overflows.
CanIncreaseUnchecked(stored, amount) == TRUE

\* The addition of two Uint128 panics when it overflows.
CanIncrease(stored, amount) == AllowanceOf(stored).allowance + amount <= MaxUint128

\* Mutant: owner and spender are swapped when the first map is written.
IncreaseAllowanceSwapped(from, spender, amount, expires) ==
  /\ spender # from
  /\ CanIncrease(allowances[spender][from], amount)
  /\ expires # None => ~IsExpired(expires)
  /\ allowances' = [allowances EXCEPT ![spender][from] = Increased(@, amount, expires)]
  /\ allowances_spender' =
       [allowances_spender EXCEPT ![from][spender] = Increased(@, amount, expires)]
  /\ UNCHANGED tokenVars

\* Mutant: owners may approve themselves.
IncreaseAllowanceOwn(from, spender, amount, expires) ==
  /\ CanIncrease(allowances[from][spender], amount)
  /\ expires # None => ~IsExpired(expires)
  /\ allowances' = [allowances EXCEPT ![from][spender] = Increased(@, amount, expires)]
  /\ allowances_spender' =
       [allowances_spender EXCEPT ![spender][from] = Increased(@, amount, expires)]
  /\ UNCHANGED tokenVars

IncreaseAllowance(from, spender, amount, expires) ==
  /\ spender # from
  /\ CanIncrease(allowances[from][spender], amount)
  /\ CanIncrease(allowances_spender[spender][from], amount)
  /\ expires # None => ~IsExpired(expires)
  /\ allowances' = [allowances EXCEPT ![from][spender] = Increased(@, amount, expires)]
  /\ allowances_spender' =
       [allowances_spender EXCEPT ![spender][from] = Increased(@, amount, expires)]
  /\ UNCHANGED tokenVars

\* A smaller amount lowers the approval; any other amount removes it, and
\* then the new deadline is not looked at.
LowerAllowance(from, spender, amount, expires) ==
  LET stored  == allowances[from][spender]
      lowered == [allowance |-> stored.allowance - amount,
                  expires   |-> IF expires = None THEN stored.expires ELSE expires]
  IN  /\ amount < stored.allowance
      /\ expires # None => ~IsExpired(expires)
      /\ allowances' = [allowances EXCEPT ![from][spender] = lowered]
      /\ allowances_spender' = [allowances_spender EXCEPT ![spender][from] = lowered]

\* Mutant: the second map keeps the removed approval.
RemoveAllowanceOneMap(from, spender, amount) ==
  /\ amount >= allowances[from][spender].allowance
  /\ allowances' = [allowances EXCEPT ![from][spender] = None]
  /\ UNCHANGED allowances_spender

RemoveAllowance(from, spender, amount) ==
  /\ amount >= allowances[from][spender].allowance
  /\ allowances' = [allowances EXCEPT ![from][spender] = None]
  /\ allowances_spender' = [allowances_spender EXCEPT ![spender][from] = None]

DecreaseAllowance(from, spender, amount, expires) ==
  /\ spender # from
  /\ allowances[from][spender] # None
  /\ \/ LowerAllowance(from, spender, amount, expires)
     \/ RemoveAllowance(from, spender, amount)
  /\ UNCHANGED tokenVars

\* Mutant: nobody's approval is asked for.
TransferFromUnapproved(by, owner, recipient, amount) ==
  /\ MoveTokens(owner, recipient, amount)
  /\ UNCHANGED <<token_info, allowanceVars>>

\* Moving tokens to their owner succeeds and does nothing, whoever asks; the
\* owner needs no approval, everybody else spends one.
TransferFrom(by, owner, recipient, amount) ==
  \/ /\ recipient = owner
     /\ UNCHANGED <<tokenVars, allowanceVars>>
  \/ /\ recipient # owner
     /\ IF by = owner THEN UNCHANGED allowanceVars
                      ELSE DeductAllowance(owner, by, amount)
     /\ MoveTokens(owner, recipient, amount)
     /\ UNCHANGED token_info

\* The Cw20ReceiveMsg for the contract is in Cw20Transactions.
SendFrom(by, owner, contract, amount) ==
  /\ DeductAllowance(owner, by, amount)
  /\ MoveTokens(owner, contract, amount)
  /\ UNCHANGED token_info

BurnFrom(by, owner, amount) ==
  /\ DeductAllowance(owner, by, amount)
  /\ BurnTokens(owner, amount)

-----------------------------------------------------------------------------
(***************************************************************************)
(* Queries.                                                                *)
(***************************************************************************)
AllowanceQuery(owner, spender) == AllowanceOf(allowances[owner][spender])
=============================================================================

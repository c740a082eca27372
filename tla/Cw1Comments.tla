------------------------------ MODULE Cw1Comments ------------------------------
(***************************************************************************)
(* What the comments of cw1-subkeys say of it and the code does not do.    *)
(***************************************************************************)
EXTENDS Cw1Subkeys

Remaining(allow, d) == IF allow = None THEN 0 ELSE Held(allow.balance, d)

\* "if there is an allowance, we subtract the requested amount to ensure it is
\* covered" (contract.rs:290): what a subkey sends, its allowance has lost.
SendIsSubtracted ==
  [][\A s \in Senders \ storage.admins, k \in DOMAIN outbox' :
       outbox = <<>> /\ callers' = {s} /\ outbox'[k].kind = "bank_send" =>
         \A j \in DOMAIN outbox'[k].coins :
           LET coin == outbox'[k].coins[j]
           IN  coin.amount > 0 =>
                 Remaining(storage'.allowances[s], coin.denom)
                   < Remaining(storage.allowances[s], coin.denom)]_subkeysVars
=============================================================================

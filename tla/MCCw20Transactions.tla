-------------------------- MODULE MCCw20Transactions --------------------------
(***************************************************************************)
(* Cw20Transactions for TLC.                                               *)
(***************************************************************************)
EXTENDS Cw20Transactions

\* Everything is held by accounts that sign, before the first transaction.
MCInitialBalances ==
  {<<row>> : row \in [address: Senders, amount: Uint128 \ {0}]}

\* The contract may mint, as long as it names nobody else.
MCMintOptions == {[minter |-> contract, cap |-> None] : contract \in Contracts}
=============================================================================

-------------------------------- MODULE MCCw20 --------------------------------
(***************************************************************************)
(* Cw20Base for TLC: the inputs of the instantiations that are explored.   *)
(***************************************************************************)
EXTENDS Cw20Comments, TLC

CONSTANTS
  MaxRows,   \* bound: the longest initial_balances
  Caps       \* the caps that mint data may carry

Row == [address: Addr, amount: Amounts]

MCInitialBalances == UNION {[1 .. n -> Row] : n \in 0 .. MaxRows}

MCMintOptions == [minter: Addr, cap: Caps] \cup {None}

\* The ledger runs leave the marketing data out.
MCNoMarketing == {None}

MCMarketingOptions ==
  [project: Texts \cup {None}, description: {None}, marketing: Addr \cup {None},
   logo: Logos \cup {None}] \cup {None}

MCLogos ==
  {[kind |-> "url", format |-> FALSE, size |-> 1],
   [kind |-> "svg", format |-> TRUE, size |-> 1],
   [kind |-> "svg", format |-> FALSE, size |-> 1],
   [kind |-> "png", format |-> TRUE, size |-> 1],
   [kind |-> "png", format |-> TRUE, size |-> 2]}

MCLegacyAllowances == [allowance: Amounts, expires: Expirations]

AddrSymmetry == Permutations(Addr)
=============================================================================

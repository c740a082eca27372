----------------------------- MODULE Cw20Comments -----------------------------
(***************************************************************************)
(* What comments in the source say of the contract, where the code does    *)
(* something else.  TLC finds each violated; a .cfg of its own says where. *)
(***************************************************************************)
EXTENDS Cw20Base

\* "cap is how many more tokens can be issued by the minter"
\* (cw20-base/src/contract.rs:44).  Mint compares the cap with the whole
\* supply, as the Minter query documents it.
CapIsHowManyMore == token_info # None /\ cap # None => WithinCap(cap)

\* "Returns how much spender can use from owner account, 0 if unset"
\* (cw20-allowances/src/lib.rs:69).  The query returns what is stored, which
\* nobody can use once its deadline is over.
AllowanceIsUsable ==
  \A o, s \in Addr : AllowanceQuery(o, s).allowance = Spendable(o, s)

\* "A reference to an externally hosted logo. Must be a valid HTTP or HTTPS
\* URL." (cw20-marketing/src/lib.rs:12).  verify_logo accepts any text.
UrlIsValid == logo # None /\ logo.kind = "url" => logo.format
=============================================================================

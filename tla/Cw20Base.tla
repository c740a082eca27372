------------------------------- MODULE Cw20Base -------------------------------
(***************************************************************************)
(* The cw20-base token contract: the messages of contract.rs, composed     *)
(* with those of its three interfaces.  The chain runs one message at a    *)
(* time, to its end, and in the order it receives them.                    *)
(***************************************************************************)
EXTENDS Cw20Allowances, Cw20Minting, Cw20Marketing, Functions

CONSTANTS
  InitialBalances,  \* the initial_balances of instantiate: sequences of rows
  MintOptions,      \* the mint data of instantiate, None for no minter
  MarketingOptions, \* the marketing data of instantiate
  LegacyVersions,   \* versions of the instances that older code left behind
  LegacyAllowances  \* the approvals such an instance may hold

ASSUME Cw20BaseAssumption ==
  /\ \A rows \in InitialBalances :
       /\ IsFiniteSet(DOMAIN rows)
       /\ \A i \in DOMAIN rows : rows[i] \in [address: Addr, amount: Uint128]
  /\ MintOptions \subseteq MinterData \cup {None}
  /\ MarketingOptions \subseteq MarketingInfo \cup {None}
  /\ \A m \in MarketingOptions \ {None} : m.logo \in Logos \cup {None}
  /\ LegacyVersions \subseteq Nat \ {ContractVersion}
  /\ LegacyAllowances \subseteq Allowance

NoApprovals == [a \in Addr |-> [b \in Addr |-> None]]

Converse(map) == [a \in Addr |-> [b \in Addr |-> map[b][a]]]

-----------------------------------------------------------------------------
(***************************************************************************)
(* instantiate and create_accounts.  Two rows of one address are refused:  *)
(* one would overwrite the other, and the supply would count both.         *)
(***************************************************************************)
ValidateAccounts(rows) ==
  \A i, j \in DOMAIN rows : rows[i].address = rows[j].address => i = j

CreatedBalances(rows) ==
  LET RowsOf(a) == {i \in DOMAIN rows : rows[i].address = a}
  IN  [a \in Addr |-> IF RowsOf(a) = {} THEN None
                      ELSE rows[CHOOSE i \in RowsOf(a) : TRUE].amount]

CreatedSupply(rows) == SumFunction([i \in DOMAIN rows |-> rows[i].amount])

\* The sum of the rows panics when it overflows.
FitsCap(rows, mint) ==
  /\ CreatedSupply(rows) \in Uint128
  /\ mint # None /\ mint.cap # None => CreatedSupply(rows) <= mint.cap

\* The name, the symbol and the decimals are valid.
Instantiate(rows, mint, marketing) ==
  LET hasLogo == marketing # None /\ marketing.logo # None
  IN  /\ contract_version = None
      /\ ValidateAccounts(rows)
      /\ FitsCap(rows, mint)
      /\ hasLogo => VerifyLogo(marketing.logo)
      /\ contract_version' = ContractVersion
      /\ balances' = CreatedBalances(rows)
      /\ token_info' = [total_supply |-> CreatedSupply(rows), mint |-> mint]
      /\ logo' = IF hasLogo THEN marketing.logo ELSE None
      /\ marketing_info' =
           IF hasLogo THEN [marketing EXCEPT !.logo = LogoInfo(@)] ELSE marketing
      /\ UNCHANGED <<allowanceVars, height>>

-----------------------------------------------------------------------------
(***************************************************************************)
(* Messages of contract.rs.                                                *)
(***************************************************************************)
Transfer(from, recipient, amount) ==
  /\ amount # 0
  /\ MoveTokens(from, recipient, amount)
  /\ UNCHANGED <<token_info, allowanceVars>>

Burn(from, amount) ==
  /\ amount # 0
  /\ BurnTokens(from, amount)
  /\ UNCHANGED allowanceVars

\* The Cw20ReceiveMsg for the contract is in Cw20Transactions.
Send(from, contract, amount) ==
  /\ amount # 0
  /\ MoveTokens(from, contract, amount)
  /\ UNCHANGED <<token_info, allowanceVars>>

\* Every approval is saved under (spender, owner), over what is there.
Mirrored(map, mirror) ==
  [s \in Addr |-> [o \in Addr |-> IF map[o][s] # None THEN map[o][s] ELSE mirror[s][o]]]

\* ensure_from_older_version refuses to replace newer code, and writes
\* CONTRACT_VERSION.
Migrate ==
  /\ contract_version # None
  /\ contract_version <= ContractVersion
  /\ contract_version' = ContractVersion
  /\ allowances_spender' = IF contract_version < MirrorVersion
                           THEN Mirrored(allowances, allowances_spender)
                           ELSE allowances_spender
  /\ sender' = None
  /\ UNCHANGED <<allowances, tokenVars, marketingVars, height>>

-----------------------------------------------------------------------------
(***************************************************************************)
(* The specification.                                                      *)
(***************************************************************************)
\* Nothing is stored yet.
Fresh ==
  /\ contract_version = None
  /\ token_info = None
  /\ balances = [a \in Addr |-> None]
  /\ allowances = NoApprovals
  /\ allowances_spender = NoApprovals

\* An instance of older code; versions before MirrorVersion may or may not
\* have kept allowances_spender.
Legacy ==
  /\ contract_version \in LegacyVersions
  /\ balances \in [Addr -> Amounts \cup {None}]
  /\ \E mint \in MintOptions :
       LET supply == SumFunction([a \in Addr |-> Balance(a)])
       IN  /\ supply \in Uint128
           /\ mint # None /\ mint.cap # None => supply <= mint.cap
           /\ token_info = [total_supply |-> supply, mint |-> mint]
  /\ allowances \in [Addr -> [Addr -> LegacyAllowances \cup {None}]]
  /\ \A a \in Addr : allowances[a][a] = None
  /\ allowances_spender \in {NoApprovals, Converse(allowances)}
  /\ contract_version >= MirrorVersion => allowances_spender = Converse(allowances)

Init ==
  /\ Fresh \/ Legacy
  /\ marketing_info = None
  /\ logo = None
  /\ height = 0
  /\ sender = None

AllowancesExecute(s) ==
  \/ \E spender \in Addr, amount \in Amounts, expires \in Expirations \cup {None} :
       \/ IncreaseAllowance(s, spender, amount, expires)
       \/ DecreaseAllowance(s, spender, amount, expires)
  \/ \E owner, to \in Addr, amount \in Amounts :
       \/ TransferFrom(s, owner, to, amount)
       \/ SendFrom(s, owner, to, amount)
  \/ \E owner \in Addr, amount \in Amounts : BurnFrom(s, owner, amount)

MintingExecute(s) ==
  \/ \E to \in Addr, amount \in Amounts : Mint(s, to, amount)
  \/ \E new_minter \in Addr \cup {None} : UpdateMinter(s, new_minter)

BaseExecute(s) ==
  \/ \E to \in Addr, amount \in Amounts :
       Transfer(s, to, amount) \/ Send(s, to, amount)
  \/ \E amount \in Amounts : Burn(s, amount)

TokenExecute(s) == BaseExecute(s) \/ AllowancesExecute(s) \/ MintingExecute(s)

MarketingExecute(s) ==
  \/ \E project, description \in Texts \cup {Blank, None},
        marketing \in Addr \cup {Blank, None} :
       UpdateMarketing(s, project, description, marketing)
  \/ \E l \in Logos : UploadLogo(s, l)

\* A message that the contract accepts.
Execute(s) ==
  /\ Running
  /\ sender' = s
  /\ UNCHANGED envVars
  /\ \/ TokenExecute(s) /\ UNCHANGED marketingVars
     \/ MarketingExecute(s)

Create(s) ==
  /\ sender' = s
  /\ \E rows \in InitialBalances, mint \in MintOptions, marketing \in MarketingOptions :
       Instantiate(rows, mint, marketing)

NextBlock ==
  /\ height < MaxHeight
  /\ height' = height + 1
  /\ sender' = None
  /\ UNCHANGED <<contract_version, tokenVars, allowanceVars, marketingVars>>

Next == \/ \E s \in Senders : Create(s) \/ Execute(s)
        \/ Migrate
        \/ NextBlock

Spec == Init /\ [][Next]_vars
-----------------------------------------------------------------------------
(***************************************************************************)
(* Correctness.                                                            *)
(***************************************************************************)
\* Every item and map of the storage holds values of its Rust type.
TypeOK ==
  /\ contract_version \in Nat \cup {None}
  /\ token_info \in TokenInfo \cup {None}
  /\ balances \in [Addr -> Uint128 \cup {None}]
  /\ allowances \in [Addr -> [Addr -> Allowance \cup {None}]]
  /\ allowances_spender \in [Addr -> [Addr -> Allowance \cup {None}]]
  /\ marketing_info \in MarketingInfo \cup {None}
  /\ logo \in Logos \cup {None}
  /\ height \in Nat
  /\ sender \in Addr \cup {None}

\* The total supply is the sum of all balances, through every transfer
\* (to oneself too), mint, burn, instantiation and migration: the handlers
\* update the two in separate writes and nothing compares them.
SupplyIsSumOfBalances ==
  token_info # None =>
    token_info.total_supply = SumFunction([a \in Addr |-> Balance(a)])

\* The unchecked additions to a recipient's balance in mint, transfer_from
\* and send_from cannot overflow: any two balances fit in one.
CreditsNeverOverflow ==
  \A a, b \in Addr : a # b => Balance(a) + Balance(b) <= MaxUint128

\* While this code runs, allowances_spender is the converse of allowances:
\* all_spender_allowances tells a spender exactly what deduct_allowance
\* will let it spend, after a migration too.
MirrorIsConverse ==
  Running => \A o, s \in Addr : allowances_spender[s][o] = allowances[o][s]

\* Nobody is ever approved to spend from an account of its own, so that
\* send_from and burn_from by the owner always fail.
NoSelfApproval == \A a \in Addr : allowances[a][a] = None

\* The supply never exceeds the cap of the current minter, whoever it is.
SupplyWithinCap ==
  token_info # None /\ cap # None => token_info.total_supply <= cap

\* What spender may take from owner at this height.
Spendable(owner, spender) ==
  LET stored == allowances[owner][spender]
  IN  IF stored = None \/ IsExpired(stored.expires) THEN 0 ELSE stored.allowance

DebitStep ==
  \A o \in Addr : Balance(o)' < Balance(o) =>
    \/ sender' = o
    \/ /\ sender' \in Addr
       /\ Balance(o) - Balance(o)' <= Spendable(o, sender')
       /\ allowances'[o][sender'] =
            [allowances[o][sender'] EXCEPT !.allowance = @ - (Balance(o) - Balance(o)')]

\* A balance falls only in a message of its owner, or in one of a spender
\* whose live approval covers the amount and loses exactly that amount.
DebitIsAuthorized == [][DebitStep]_vars

ApprovalStep ==
  \A o, s \in Addr : allowances'[o][s] # allowances[o][s] =>
    \/ sender' = o
    \/ /\ sender' = s
       /\ Spendable(o, s) > 0
       /\ allowances'[o][s] # None
       /\ allowances'[o][s].expires = allowances[o][s].expires
       /\ allowances'[o][s].allowance < allowances[o][s].allowance

\* An approval changes only in a message of the owner, or in one of the
\* spender, which lowers a live approval and leaves its deadline alone.
ApprovalIsAuthorized == [][ApprovalStep]_vars

MintingStep ==
  token_info # None /\ token_info' # token_info =>
    LET mint == token_info.mint
    IN  /\ token_info'.mint # mint \/ token_info'.total_supply > token_info.total_supply
             => mint # None /\ sender' = mint.minter
        /\ token_info'.mint # None => mint # None /\ token_info'.mint.cap = mint.cap

\* Once instantiated, tokens come into being only in messages of the minter;
\* the role passes on only in its messages, never comes back once it was
\* given up, and its cap never changes.
MintingIsAuthorized == [][MintingStep]_vars

\* The logo that can be downloaded is the one that marketing_info names, and
\* was accepted by verify_logo; without marketing_info there is none.
LogoIsNamed ==
  /\ logo # None => VerifyLogo(logo) /\ marketing_info # None
  /\ marketing_info # None =>
       marketing_info.logo = IF logo = None THEN None ELSE LogoInfo(logo)

MarketingStep ==
  Running /\ marketingVars' # marketingVars =>
    /\ marketing_info # None
    /\ sender' = marketing_info.marketing
    /\ logo # None => logo' # None

\* After instantiation the marketing data changes only in messages of the
\* account that holds the marketing role, and a logo never disappears.
MarketingIsAuthorized == [][MarketingStep]_vars

\* The contract as its users see it: the approvals are those the allowance
\* query answers, and the entries of the balances that are absent are zero.
Ledger == INSTANCE TokenLedger WITH
  created  <- token_info # None,
  funds    <- [a \in Addr |-> Balance(a)],
  approved <- [o \in Addr |-> [s \in Addr |-> AllowanceQuery(o, s)]],
  issuer   <- IF token_info = None \/ token_info.mint = None THEN None
                                                           ELSE token_info.mint.minter,
  now      <- height,
  caller   <- sender

\* The contract implements the ledger: every message it accepts moves, creates
\* or destroys tokens only on the authority the ledger asks for.
ImplementsTokenLedger == Ledger!Spec

=============================================================================

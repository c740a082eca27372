---------------------------- MODULE Cw20Authority ----------------------------
(***************************************************************************)
(* Proofs that every step of Cw20Base is authorised: who may lower a       *)
(* balance, change an approval, create tokens, or edit the marketing data, *)
(* and that Cw20Base implements TokenLedger.  They build on the invariant  *)
(* of Cw20Proofs.                                                          *)
(***************************************************************************)
EXTENDS Cw20Proofs

-----------------------------------------------------------------------------
(***************************************************************************)
(* What the shared writes do to the balances.                              *)
(***************************************************************************)
\* Nobody but from loses anything by a move, and from at most amount.
LEMMA MoveTokensBalances ==
  ASSUME IInv, NEW from \in Addr, NEW to \in Addr, NEW amount \in Amounts,
         MoveTokens(from, to, amount)
  PROVE  /\ \A o \in Addr : o # from => Balance(o)' >= Balance(o)
         /\ Balance(from)' \in {Balance(from), Balance(from) - amount}
<1>. DEFINE debited == [balances EXCEPT ![from] = Balance(from) - amount]
<1>1. amount \in Nat /\ \A o \in Addr : Balance(o) \in Nat
  BY BalanceType, Cw20Assumption DEF IInv, Uint128
<1>2. \A o \in Addr : Amount(debited[o]) = IF o = from THEN Balance(from) - amount
                                                      ELSE Balance(o)
  <2>1. Balance(from) - amount # None
    BY <1>1, Cw20Assumption DEF MoveTokens
  <2>. QED  BY <2>1 DEF Balance, Amount, IInv, TypeOK
<1>3. \A o \in Addr : Balance(o)' = IF o = to THEN Amount(debited[to]) + amount
                                             ELSE Amount(debited[o])
  <2>1. balances' = [debited EXCEPT ![to] = Amount(debited[to]) + amount]
    BY DEF MoveTokens
  <2>2. Amount(debited[to]) + amount \in Nat
    BY <1>1, <1>2 DEF MoveTokens
  <2>3. Amount(debited[to]) + amount # None
    BY <2>2, Cw20Assumption
  <2>. QED  BY <2>1, <2>3 DEF Balance, Amount, IInv, TypeOK
<1>. QED  BY <1>1, <1>2, <1>3

LEMMA BurnTokensBalances ==
  ASSUME IInv, NEW from \in Addr, NEW amount \in Amounts, BurnTokens(from, amount)
  PROVE  /\ \A o \in Addr : o # from => Balance(o)' >= Balance(o)
         /\ Balance(from)' = Balance(from) - amount
<1>1. amount \in Nat /\ \A o \in Addr : Balance(o) \in Nat
  BY BalanceType, Cw20Assumption DEF IInv, Uint128
<1>2. Balance(from) - amount # None
  BY <1>1, Cw20Assumption DEF BurnTokens
<1>3. \A o \in Addr : Balance(o)' = IF o = from THEN Balance(from) - amount ELSE Balance(o)
  BY <1>2 DEF BurnTokens, Balance, Amount, IInv, TypeOK
<1>. QED  BY <1>1, <1>3

-----------------------------------------------------------------------------
(***************************************************************************)
(* Debits.                                                                 *)
(***************************************************************************)
\* A message of the owner may lower its balance.
LEMMA OwnDebit ==
  ASSUME NEW s \in Addr, sender' = s,
         \A o \in Addr : o # s => Balance(o)' >= Balance(o),
         \A o \in Addr : Balance(o) \in Int /\ Balance(o)' \in Int
  PROVE  DebitStep
BY DEF DebitStep

\* A message that lowers no balance is no debit.
LEMMA NoDebit ==
  ASSUME \A o \in Addr : Balance(o)' >= Balance(o),
         \A o \in Addr : Balance(o) \in Int /\ Balance(o)' \in Int
  PROVE  DebitStep
BY DEF DebitStep

\* A message of a spender pays with its approval for what it takes.
LEMMA ApprovedDebit ==
  ASSUME IInv, NEW s \in Addr, NEW owner \in Addr, NEW amount \in Amounts, sender' = s,
         DeductAllowance(owner, s, amount),
         \A o \in Addr : o # owner => Balance(o)' >= Balance(o),
         Balance(owner)' \in {Balance(owner), Balance(owner) - amount},
         \A o \in Addr : Balance(o) \in Int /\ Balance(o)' \in Int
  PROVE  DebitStep
<1>. SUFFICES ASSUME NEW o \in Addr, Balance(o)' < Balance(o)
              PROVE  /\ Balance(o) - Balance(o)' <= Spendable(o, s)
                     /\ allowances'[o][s] =
                          [allowances[o][s] EXCEPT !.allowance = @ - (Balance(o) - Balance(o)')]
  BY DEF DebitStep
<1>1. o = owner /\ Balance(o) - Balance(o)' = amount
  BY Cw20Assumption DEF Uint128
<1>2. amount <= Spendable(o, s)
  BY <1>1 DEF DeductAllowance, Deductible, Spendable
<1>3. allowances'[o][s] = [allowances[o][s] EXCEPT !.allowance = @ - amount]
  BY <1>1 DEF DeductAllowance, IInv, TypeOK
<1>. QED  BY <1>1, <1>2, <1>3

LEMMA BalancesAreInts ==
  ASSUME IInv, IInv'
  PROVE  \A o \in Addr : Balance(o) \in Int /\ Balance(o)' \in Int
BY Cw20Assumption DEF IInv, TypeOK, Balance, Amount, Uint128

LEMMA ExecuteDebit ==
  ASSUME IInv, IInv', NEW s \in Addr, sender' = s, TokenExecute(s)
  PROVE  DebitStep
<1>. \A o \in Addr : Balance(o) \in Int /\ Balance(o)' \in Int
  BY BalancesAreInts
<1>1. CASE BaseExecute(s)
  <2>1. ASSUME NEW to \in Addr, NEW amount \in Amounts, Transfer(s, to, amount)
        PROVE  DebitStep
    BY <2>1, MoveTokensBalances, OwnDebit DEF Transfer
  <2>2. ASSUME NEW to \in Addr, NEW amount \in Amounts, Send(s, to, amount)
        PROVE  DebitStep
    BY <2>2, MoveTokensBalances, OwnDebit DEF Send
  <2>3. ASSUME NEW amount \in Amounts, Burn(s, amount)
        PROVE  DebitStep
    BY <2>3, BurnTokensBalances, OwnDebit DEF Burn
  <2>. QED  BY <1>1, <2>1, <2>2, <2>3 DEF BaseExecute
<1>2. CASE AllowancesExecute(s)
  <2>1. ASSUME NEW spender \in Addr, NEW amount \in Amounts,
               NEW expires \in Expirations \cup {None},
               \/ IncreaseAllowance(s, spender, amount, expires)
               \/ DecreaseAllowance(s, spender, amount, expires)
        PROVE  DebitStep
    BY <2>1, NoDebit DEF IncreaseAllowance, DecreaseAllowance, tokenVars, Balance
  <2>2. ASSUME NEW owner \in Addr, NEW to \in Addr, NEW amount \in Amounts,
               TransferFrom(s, owner, to, amount)
        PROVE  DebitStep
    <3>1. CASE to = owner
      BY <2>2, <3>1, NoDebit DEF TransferFrom, tokenVars, Balance
    <3>2. CASE to # owner /\ s = owner
      BY <2>2, <3>2, MoveTokensBalances, OwnDebit DEF TransferFrom
    <3>3. CASE to # owner /\ s # owner
      BY <2>2, <3>3, MoveTokensBalances, ApprovedDebit DEF TransferFrom
    <3>. QED  BY <3>1, <3>2, <3>3
  <2>3. ASSUME NEW owner \in Addr, NEW to \in Addr, NEW amount \in Amounts,
               SendFrom(s, owner, to, amount)
        PROVE  DebitStep
    BY <2>3, MoveTokensBalances, ApprovedDebit DEF SendFrom
  <2>4. ASSUME NEW owner \in Addr, NEW amount \in Amounts, BurnFrom(s, owner, amount)
        PROVE  DebitStep
    BY <2>4, BurnTokensBalances, ApprovedDebit DEF BurnFrom
  <2>. QED  BY <1>2, <2>1, <2>2, <2>3, <2>4 DEF AllowancesExecute
<1>3. CASE MintingExecute(s)
  <2>1. ASSUME NEW to \in Addr, NEW amount \in Amounts, Mint(s, to, amount)
        PROVE  DebitStep
    <3>1. amount \in Nat
      BY Cw20Assumption DEF Uint128
    <3>2. Balance(to) + amount # None
      BY <3>1, BalanceType, Cw20Assumption DEF IInv, Uint128
    <3>3. \A o \in Addr : Balance(o)' >= Balance(o)
      BY <2>1, <3>1, <3>2 DEF Mint, Balance, Amount, IInv, TypeOK
    <3>. QED  BY <3>3, NoDebit
  <2>2. ASSUME NEW new_minter \in Addr \cup {None}, UpdateMinter(s, new_minter)
        PROVE  DebitStep
    BY <2>2, NoDebit DEF UpdateMinter, Balance
  <2>. QED  BY <1>3, <2>1, <2>2 DEF MintingExecute
<1>. QED  BY <1>1, <1>2, <1>3 DEF TokenExecute

LEMMA NextDebit ==
  ASSUME IInv, IInv', [Next]_vars
  PROVE  DebitStep
<1>. \A o \in Addr : Balance(o) \in Int /\ Balance(o)' \in Int
  BY BalancesAreInts
<1>1. ASSUME NEW s \in Senders, Create(s)
      PROVE  DebitStep
  <2>1. \A o \in Addr : Balance(o) = 0
    BY <1>1 DEF Create, Instantiate, IInv, InstanceHasToken, Balance, Amount
  <2>2. \A o \in Addr : Balance(o)' \in Nat
    BY BalanceType, Cw20Assumption DEF IInv, TypeOK, Balance, Amount, Uint128
  <2>. QED  BY <2>1, <2>2, NoDebit
<1>2. ASSUME NEW s \in Senders, Execute(s)
      PROVE  DebitStep
  <2>1. s \in Addr /\ sender' = s
    BY <1>2, Cw20Assumption DEF Execute
  <2>2. CASE TokenExecute(s)
    BY <2>1, <2>2, ExecuteDebit
  <2>3. CASE MarketingExecute(s)
    <3>1. UNCHANGED balances
      BY <2>1, <2>3, MarketingExecuteInv DEF tokenVars
    <3>. QED  BY <3>1, NoDebit DEF Balance
  <2>. QED  BY <1>2, <2>2, <2>3 DEF Execute
<1>3. CASE Migrate \/ NextBlock \/ UNCHANGED vars
  BY <1>3, NoDebit DEF Migrate, NextBlock, vars, tokenVars, Balance
<1>. QED  BY <1>1, <1>2, <1>3 DEF Next

\* A balance falls only in a message of its owner, or in one of a spender
\* whose live approval covers the amount and loses exactly that amount.
THEOREM DebitIsAuthorizedCorrect == Spec => DebitIsAuthorized
<1>1. IInv /\ IInv' /\ [Next]_vars => [DebitStep]_vars
  BY NextDebit
<1>. QED  BY <1>1, Invariance, PTL DEF Spec, DebitIsAuthorized

-----------------------------------------------------------------------------
(***************************************************************************)
(* Approvals.                                                              *)
(***************************************************************************)
\* Writing an approval of one's own.
LEMMA OwnApproval ==
  ASSUME IInv, NEW s \in Addr, NEW spender \in Addr, sender' = s,
         NEW v, allowances' = [allowances EXCEPT ![s][spender] = v]
  PROVE  ApprovalStep
BY DEF ApprovalStep, IInv, TypeOK

\* Spending from an approval of somebody else.
LEMMA SpentApproval ==
  ASSUME IInv, NEW s \in Addr, NEW owner \in Addr, NEW amount \in Amounts, sender' = s,
         DeductAllowance(owner, s, amount)
  PROVE  ApprovalStep
<1>. DEFINE old == allowances[owner][s]
            v   == [old EXCEPT !.allowance = @ - amount]
<1>1. old \in Allowance /\ ~IsExpired(old.expires) /\ old.allowance >= amount
  BY DEF DeductAllowance, Deductible, IInv, TypeOK
<1>2. amount \in Nat /\ old.allowance \in Nat
  BY <1>1, Cw20Assumption DEF Allowance, Uint128
<1>3. v \in Allowance /\ v.expires = old.expires /\ v.allowance = old.allowance - amount
  BY <1>1, <1>2, Cw20Assumption DEF Allowance, Uint128
<1>4. \A o, t \in Addr :
        allowances'[o][t] = IF o = owner /\ t = s THEN v ELSE allowances[o][t]
  BY DEF DeductAllowance, IInv, TypeOK
<1>5. SUFFICES ASSUME NEW o \in Addr, NEW t \in Addr, allowances'[o][t] # allowances[o][t]
               PROVE  /\ sender' = t
                      /\ Spendable(o, t) > 0
                      /\ allowances'[o][t] # None
                      /\ allowances'[o][t].expires = allowances[o][t].expires
                      /\ allowances'[o][t].allowance < allowances[o][t].allowance
  BY DEF ApprovalStep
<1>6. o = owner /\ t = s /\ v # old
  BY <1>4, <1>5
<1>7. amount # 0
  <2>1. amount = 0 => v = old
    BY <1>1, <1>2 DEF Allowance
  <2>. QED  BY <2>1, <1>6
<1>8. Spendable(o, t) = old.allowance
  BY <1>1, <1>6, NoneAssumption DEF Spendable
<1>. HIDE DEF v, old
<1>9. v # None
  BY <1>3, NoneAssumption
<1>10. allowances[o][t] = old /\ allowances'[o][t] = v
  BY <1>4, <1>6 DEF old
<1>11. old.allowance >= amount
  BY <1>1
<1>. QED  BY <1>2, <1>3, <1>6, <1>7, <1>8, <1>9, <1>10, <1>11

LEMMA KeptApprovals ==
  ASSUME UNCHANGED allowances
  PROVE  ApprovalStep
BY DEF ApprovalStep

LEMMA ExecuteApproval ==
  ASSUME IInv, NEW s \in Addr, sender' = s, TokenExecute(s)
  PROVE  ApprovalStep
<1>1. CASE BaseExecute(s) \/ MintingExecute(s)
  BY <1>1, KeptApprovals
     DEF BaseExecute, MintingExecute, Transfer, Send, Burn, Mint, UpdateMinter, allowanceVars
<1>2. CASE AllowancesExecute(s)
  <2>1. ASSUME NEW spender \in Addr, NEW amount \in Amounts,
               NEW expires \in Expirations \cup {None},
               \/ IncreaseAllowance(s, spender, amount, expires)
               \/ DecreaseAllowance(s, spender, amount, expires)
        PROVE  ApprovalStep
    BY <2>1, OwnApproval
       DEF IncreaseAllowance, DecreaseAllowance, LowerAllowance, RemoveAllowance
  <2>2. ASSUME NEW owner \in Addr, NEW to \in Addr, NEW amount \in Amounts,
               TransferFrom(s, owner, to, amount) \/ SendFrom(s, owner, to, amount)
        PROVE  ApprovalStep
    BY <2>2, SpentApproval, KeptApprovals DEF TransferFrom, SendFrom, allowanceVars
  <2>3. ASSUME NEW owner \in Addr, NEW amount \in Amounts, BurnFrom(s, owner, amount)
        PROVE  ApprovalStep
    BY <2>3, SpentApproval DEF BurnFrom
  <2>. QED  BY <1>2, <2>1, <2>2, <2>3 DEF AllowancesExecute
<1>. QED  BY <1>1, <1>2 DEF TokenExecute

LEMMA NextApproval ==
  ASSUME IInv, [Next]_vars
  PROVE  ApprovalStep
<1>1. ASSUME NEW s \in Senders, Create(s)
      PROVE  ApprovalStep
  BY <1>1, KeptApprovals DEF Create, Instantiate, allowanceVars
<1>2. ASSUME NEW s \in Senders, Execute(s)
      PROVE  ApprovalStep
  <2>1. s \in Addr /\ sender' = s
    BY <1>2, Cw20Assumption DEF Execute
  <2>2. CASE TokenExecute(s)
    BY <2>1, <2>2, ExecuteApproval
  <2>3. CASE MarketingExecute(s)
    BY <2>1, <2>3, MarketingExecuteInv, KeptApprovals DEF allowanceVars
  <2>. QED  BY <1>2, <2>2, <2>3 DEF Execute
<1>3. CASE Migrate \/ NextBlock \/ UNCHANGED vars
  BY <1>3, KeptApprovals DEF Migrate, NextBlock, vars, allowanceVars
<1>. QED  BY <1>1, <1>2, <1>3 DEF Next

\* An approval changes only in a message of the owner, or in one of the
\* spender, which lowers a live approval and leaves its deadline alone.
THEOREM ApprovalIsAuthorizedCorrect == Spec => ApprovalIsAuthorized
<1>1. IInv /\ [Next]_vars => [ApprovalStep]_vars
  BY NextApproval
<1>. QED  BY <1>1, Invariance, PTL DEF Spec, ApprovalIsAuthorized

-----------------------------------------------------------------------------
(***************************************************************************)
(* The supply and the minter.                                              *)
(***************************************************************************)
LEMMA KeptToken ==
  ASSUME UNCHANGED token_info
  PROVE  MintingStep
BY DEF MintingStep

\* Burning lowers the supply and leaves the minter alone.
LEMMA BurnTokensMinting ==
  ASSUME IInv, Running, NEW from \in Addr, NEW amount \in Amounts, BurnTokens(from, amount)
  PROVE  MintingStep
<1>1. amount \in Nat /\ token_info \in TokenInfo /\ token_info.total_supply \in Nat
  BY RunningHasToken, Cw20Assumption DEF TokenInfo, Uint128
<1>2. token_info'.total_supply = token_info.total_supply - amount
      /\ token_info'.mint = token_info.mint
  BY <1>1 DEF BurnTokens, TokenInfo
<1>. QED  BY <1>1, <1>2 DEF MintingStep

LEMMA MintMinting ==
  ASSUME IInv, Running, NEW s \in Addr, NEW to \in Addr, NEW amount \in Amounts,
         Mint(s, to, amount), sender' = s
  PROVE  MintingStep
<1>1. token_info'.mint = token_info.mint
  BY RunningHasToken DEF Mint, TokenInfo
<1>. QED  BY <1>1 DEF MintingStep, Mint, IsMinter

LEMMA UpdateMinterMinting ==
  ASSUME IInv, Running, NEW s \in Addr, NEW new_minter \in Addr \cup {None},
         UpdateMinter(s, new_minter), sender' = s
  PROVE  MintingStep
<1>1. /\ token_info'.total_supply = token_info.total_supply
      /\ token_info'.mint = IF new_minter = None THEN None
                                               ELSE [minter |-> new_minter, cap |-> cap]
  BY RunningHasToken DEF UpdateMinter, TokenInfo
<1>2. token_info'.mint # None => token_info'.mint.cap = token_info.mint.cap
  BY <1>1 DEF UpdateMinter, IsMinter, cap
<1>. QED  BY <1>1, <1>2 DEF MintingStep, UpdateMinter, IsMinter

LEMMA NextMinting ==
  ASSUME IInv, [Next]_vars
  PROVE  MintingStep
<1>1. ASSUME NEW s \in Senders, Create(s)
      PROVE  MintingStep
  BY <1>1 DEF Create, Instantiate, IInv, InstanceHasToken, MintingStep
<1>2. ASSUME NEW s \in Senders, Execute(s)
      PROVE  MintingStep
  <2>1. s \in Addr /\ sender' = s /\ Running
    BY <1>2, Cw20Assumption DEF Execute
  <2>2. CASE BaseExecute(s)
    BY <2>1, <2>2, KeptToken, BurnTokensMinting DEF BaseExecute, Transfer, Send, Burn
  <2>3. CASE AllowancesExecute(s)
    BY <2>1, <2>3, KeptToken, BurnTokensMinting
       DEF AllowancesExecute, IncreaseAllowance, DecreaseAllowance, TransferFrom, SendFrom,
           BurnFrom, tokenVars
  <2>4. CASE MintingExecute(s)
    BY <2>1, <2>4, MintMinting, UpdateMinterMinting DEF MintingExecute
  <2>5. CASE MarketingExecute(s)
    BY <2>1, <2>5, MarketingExecuteInv, KeptToken DEF tokenVars
  <2>. QED  BY <1>2, <2>2, <2>3, <2>4, <2>5 DEF Execute, TokenExecute
<1>3. CASE Migrate \/ NextBlock \/ UNCHANGED vars
  BY <1>3, KeptToken DEF Migrate, NextBlock, vars, tokenVars
<1>. QED  BY <1>1, <1>2, <1>3 DEF Next

\* After instantiation only messages of the minter create tokens or pass the
\* role on; a role that was given up never comes back, and its cap stays.
THEOREM MintingIsAuthorizedCorrect == Spec => MintingIsAuthorized
<1>1. IInv /\ [Next]_vars => [MintingStep]_vars
  BY NextMinting
<1>. QED  BY <1>1, Invariance, PTL DEF Spec, MintingIsAuthorized

-----------------------------------------------------------------------------
(***************************************************************************)
(* Marketing.                                                              *)
(***************************************************************************)
\* A name for a logo is never missing, and tells embedded from external.
LEMMA LogoInfoType ==
  ASSUME NEW l \in Logos
  PROVE  l # None /\ LogoInfo(l) # None
BY Cw20MarketingAssumption DEF LogoInfo

\* Blank information names no logo, so that removing it leaves none unnamed.
LEMMA UpdateMarketingLogo ==
  ASSUME IInv, LogoIsNamed, NEW s \in Addr,
         NEW project \in Texts \cup {Blank, None},
         NEW description \in Texts \cup {Blank, None},
         NEW marketing \in Addr \cup {Blank, None},
         UpdateMarketing(s, project, description, marketing)
  PROVE  LogoIsNamed'
<1>. DEFINE info == [marketing_info EXCEPT !.project     = Updated(@, project),
                                           !.description = Updated(@, description),
                                           !.marketing   = Updated(@, marketing)]
<1>1. marketing_info \in MarketingInfo
  BY DEF UpdateMarketing, HasMarketingRole, IInv, TypeOK
<1>2. info \in MarketingInfo /\ info.logo = marketing_info.logo
  <2>1. /\ Updated(marketing_info.project, project) \in Texts \cup {Blank, None}
        /\ Updated(marketing_info.description, description) \in Texts \cup {Blank, None}
        /\ Updated(marketing_info.marketing, marketing) \in Addr \cup {None}
    BY <1>1 DEF MarketingInfo, Updated
  <2>. QED  BY <1>1, <2>1 DEF MarketingInfo
<1>3. marketing_info' = IF IsBlankInfo(info) THEN None ELSE info
  BY DEF UpdateMarketing
<1>. HIDE DEF info
<1>4. info # None
  BY <1>2, Cw20MarketingAssumption
<1>5. logo' = logo /\ marketing_info.logo = IF logo = None THEN None ELSE LogoInfo(logo)
  BY DEF UpdateMarketing, HasMarketingRole, LogoIsNamed
<1>6. CASE IsBlankInfo(info)
  BY <1>2, <1>3, <1>5, <1>6, LogoInfoType DEF LogoIsNamed, IsBlankInfo, IInv, TypeOK
<1>7. CASE ~IsBlankInfo(info)
  BY <1>2, <1>3, <1>4, <1>5, <1>7 DEF LogoIsNamed
<1>. QED  BY <1>6, <1>7

LEMMA UploadLogoLogo ==
  ASSUME IInv, NEW s \in Addr, NEW l \in Logos, UploadLogo(s, l)
  PROVE  LogoIsNamed'
<1>1. marketing_info \in MarketingInfo
  BY DEF UploadLogo, HasMarketingRole, IInv, TypeOK
<1>2. /\ marketing_info' \in MarketingInfo
      /\ marketing_info'.logo = LogoInfo(l)
  BY <1>1 DEF UploadLogo, MarketingInfo, LogoInfo
<1>. QED
  BY <1>2, LogoInfoType, Cw20MarketingAssumption DEF UploadLogo, LogoIsNamed

LEMMA InstantiateLogo ==
  ASSUME NEW rows \in InitialBalances, NEW mint \in MintOptions,
         NEW marketing \in MarketingOptions, Instantiate(rows, mint, marketing)
  PROVE  LogoIsNamed'
<1>. DEFINE hasLogo == marketing # None /\ marketing.logo # None
            named   == [marketing EXCEPT !.logo = LogoInfo(@)]
<1>1. marketing # None => marketing \in MarketingInfo /\ marketing.logo \in Logos \cup {None}
  BY Cw20BaseAssumption
<1>2. CASE hasLogo
  <2>1. named \in MarketingInfo /\ named.logo = LogoInfo(marketing.logo)
    BY <1>1, <1>2 DEF MarketingInfo, LogoInfo
  <2>2. /\ marketing_info' = named
        /\ logo' = marketing.logo
        /\ VerifyLogo(marketing.logo)
    BY <1>2 DEF Instantiate
  <2>. HIDE DEF named
  <2>. QED  BY <1>2, <2>1, <2>2, Cw20MarketingAssumption DEF LogoIsNamed
<1>3. CASE ~hasLogo
  BY <1>3 DEF Instantiate, LogoIsNamed
<1>. QED  BY <1>2, <1>3

LEMMA NextLogo ==
  ASSUME IInv, LogoIsNamed, [Next]_vars
  PROVE  LogoIsNamed'
<1>1. ASSUME NEW s \in Senders, Create(s)
      PROVE  LogoIsNamed'
  BY <1>1, InstantiateLogo DEF Create
<1>2. ASSUME NEW s \in Senders, Execute(s)
      PROVE  LogoIsNamed'
  <2>1. s \in Addr
    BY Cw20Assumption
  <2>2. CASE UNCHANGED marketingVars
    BY <2>2 DEF marketingVars, LogoIsNamed
  <2>3. CASE MarketingExecute(s)
    BY <2>1, <2>3, UpdateMarketingLogo, UploadLogoLogo DEF MarketingExecute
  <2>. QED  BY <1>2, <2>2, <2>3 DEF Execute
<1>3. CASE Migrate \/ NextBlock \/ UNCHANGED vars
  BY <1>3 DEF Migrate, NextBlock, vars, marketingVars, LogoIsNamed
<1>. QED  BY <1>1, <1>2, <1>3 DEF Next

\* The logo that can be downloaded is the one that marketing_info names, and
\* was accepted by verify_logo; without marketing_info there is none.
THEOREM LogoIsNamedCorrect == Spec => []LogoIsNamed
<1>1. Init => LogoIsNamed
  BY DEF Init, LogoIsNamed
<1>2. IInv /\ LogoIsNamed /\ [Next]_vars => LogoIsNamed'
  BY NextLogo
<1>. QED  BY <1>1, <1>2, Invariance, PTL DEF Spec

LEMMA NextMarketing ==
  ASSUME IInv, [Next]_vars
  PROVE  MarketingStep
<1>1. ASSUME NEW s \in Senders, Create(s)
      PROVE  MarketingStep
  BY <1>1, Cw20Assumption DEF Create, Instantiate, Running, MarketingStep
<1>2. ASSUME NEW s \in Senders, Execute(s)
      PROVE  MarketingStep
  <2>1. sender' = s
    BY <1>2 DEF Execute
  <2>2. CASE UNCHANGED marketingVars
    BY <2>2 DEF MarketingStep
  <2>3. CASE MarketingExecute(s)
    BY <2>1, <2>3, LogoInfoType
       DEF MarketingExecute, UpdateMarketing, UploadLogo, HasMarketingRole, MarketingStep
  <2>. QED  BY <1>2, <2>2, <2>3 DEF Execute
<1>3. CASE Migrate \/ NextBlock \/ UNCHANGED vars
  BY <1>3 DEF Migrate, NextBlock, vars, MarketingStep
<1>. QED  BY <1>1, <1>2, <1>3 DEF Next

\* After instantiation the marketing data changes only in messages of the
\* account that holds the marketing role, and a logo never disappears.
THEOREM MarketingIsAuthorizedCorrect == Spec => MarketingIsAuthorized
<1>1. IInv /\ [Next]_vars => [MarketingStep]_vars
  BY NextMarketing
<1>. QED  BY <1>1, Invariance, PTL DEF Spec, MarketingIsAuthorized

-----------------------------------------------------------------------------
(***************************************************************************)
(* The refinement of TokenLedger.                                          *)
(***************************************************************************)
\* The mapping of Ledger: what the token is to its holders.
Created   == token_info # None
Approvals == [o \in Addr |-> [s \in Addr |-> AllowanceQuery(o, s)]]
Issuer    == IF token_info = None \/ token_info.mint = None THEN None ELSE token_info.mint.minter

\* What the ledger does not see, or only time passing.
LEMMA LedgerIdles ==
  ASSUME Created' = Created, Funds' = Funds, Approvals' = Approvals, Issuer' = Issuer,
         height' >= height
  PROVE  Ledger!Next
BY DEF Ledger!Next, Ledger!Idle, Created, Funds, Approvals, Issuer

LEMMA LedgerKept ==
  ASSUME UNCHANGED <<token_info, balances, allowances>>
  PROVE  Created' = Created /\ Funds' = Funds /\ Approvals' = Approvals /\ Issuer' = Issuer
BY DEF Created, Funds, Approvals, Issuer, Balance, AllowanceQuery

\* A deduction is the ledger's authority to take the tokens.
LEMMA LedgerAuthority ==
  ASSUME IInv, NEW s \in Addr, NEW owner \in Addr, NEW amount \in Amounts, sender' = s,
         \/ s = owner /\ UNCHANGED allowances
         \/ DeductAllowance(owner, s, amount)
  PROVE  Ledger!Authority(owner, amount)
<1>1. CASE s = owner /\ UNCHANGED allowances
  BY <1>1 DEF Ledger!Authority, AllowanceQuery
<1>2. CASE DeductAllowance(owner, s, amount)
  <2>. DEFINE old == allowances[owner][s]
              new == [old EXCEPT !.allowance = @ - amount]
  <2>1. old \in Allowance /\ old # None /\ ~IsExpired(old.expires) /\ old.allowance >= amount
    BY <1>2 DEF DeductAllowance, Deductible, IInv, TypeOK
  <2>2. amount \in Nat /\ old.allowance \in Nat /\ height \in Nat
    BY <2>1, Cw20Assumption DEF Allowance, Uint128, IInv, TypeOK
  <2>3. new \in Allowance /\ new # None
    BY <2>1, <2>2, Cw20Assumption, NoneAssumption DEF Allowance, Uint128
  <2>4. \A o, t \in Addr :
          allowances'[o][t] = IF o = owner /\ t = s THEN new ELSE allowances[o][t]
    BY <1>2 DEF DeductAllowance, IInv, TypeOK
  <2>5. \A o, t \in Addr :
          AllowanceQuery(o, t)' = IF o = owner /\ t = s THEN new ELSE AllowanceQuery(o, t)
    <3>. HIDE DEF new
    <3>. QED  BY <2>3, <2>4 DEF AllowanceQuery, AllowanceOf
  <2>6. AllowanceQuery(owner, s) = old
    BY <2>1 DEF AllowanceQuery, AllowanceOf
  <2>7. Approvals' = [Approvals EXCEPT ![owner][s].allowance = @ - amount]
    <3>1. Approvals[owner][s] = old
      BY <2>6 DEF Approvals
    <3>2. [Approvals EXCEPT ![owner][s].allowance = @ - amount]
            = [Approvals EXCEPT ![owner] = [Approvals[owner] EXCEPT ![s] = new]]
      BY <3>1
    <3>. HIDE DEF new
    <3>3. \A o \in Addr : [t \in Addr |-> AllowanceQuery(o, t)']
            = IF o = owner THEN [Approvals[owner] EXCEPT ![s] = new] ELSE Approvals[o]
      BY <2>5 DEF Approvals
    <3>4. Approvals' = [o \in Addr |-> [t \in Addr |-> AllowanceQuery(o, t)']]
      BY DEF Approvals
    <3>5. Approvals = [o \in Addr |-> Approvals[o]]
      BY DEF Approvals
    <3>. QED  BY <3>2, <3>3, <3>4, <3>5
  <2>8. Ledger!Covers(Approvals[owner][s], amount)
    <3>1. Approvals[owner][s] = old
      BY <2>6 DEF Approvals
    <3>2. old.expires \in Nat \/ old.expires = Never
      BY <2>1, Cw20Assumption DEF Allowance
    <3>. QED  BY <2>1, <2>2, <3>1, <3>2 DEF Ledger!Covers, IsExpired
  <2>. QED  BY <2>7, <2>8 DEF Ledger!Authority, Approvals
<1>. QED  BY <1>1, <1>2

\* A deduction of nothing leaves all approvals alone.
LEMMA NothingDeducted ==
  ASSUME IInv, NEW s \in Addr, NEW owner \in Addr, NEW amount, amount = 0,
         UNCHANGED allowances \/ DeductAllowance(owner, s, amount)
  PROVE  Approvals' = Approvals
<1>1. CASE UNCHANGED allowances
  BY <1>1 DEF Approvals, AllowanceQuery
<1>2. CASE DeductAllowance(owner, s, amount)
  <2>1. allowances[owner][s] \in Allowance /\ allowances[owner][s].allowance \in Nat
    BY <1>2, Cw20Assumption DEF DeductAllowance, Deductible, IInv, TypeOK, Allowance, Uint128
  <2>2. [allowances[owner][s] EXCEPT !.allowance = @ - amount] = allowances[owner][s]
    BY <2>1 DEF Allowance
  <2>3. \A o, t \in Addr : allowances'[o][t] = allowances[o][t]
    BY <1>2, <2>2 DEF DeductAllowance, IInv, TypeOK
  <2>. QED  BY <2>3 DEF Approvals, AllowanceQuery
<1>. QED  BY <1>1, <1>2

LEMMA LedgerPays ==
  ASSUME IInv, Created, NEW s \in Addr, NEW from \in Addr, NEW to \in Addr, NEW amount \in Amounts,
         MoveTokens(from, to, amount), UNCHANGED <<token_info, height>>, sender' = s,
         \/ s = from /\ UNCHANGED allowances
         \/ DeductAllowance(from, s, amount)
  PROVE  Ledger!Next
<1>1. /\ amount \in Nat /\ amount <= Funds[from] /\ Funds[from] \in Nat
      /\ Funds' = [[Funds EXCEPT ![from] = @ - amount] EXCEPT ![to] = @ + amount]
  BY MoveTokensFunds
<1>2. Ledger!Authority(from, amount)
  BY LedgerAuthority
<1>3. Created' = Created /\ Issuer' = Issuer
  BY DEF Created, Issuer
<1>4. CASE amount = 0
  <2>1. Funds' = Funds
    BY <1>1, <1>4, BalanceType, Cw20Assumption DEF Funds, IInv, Uint128
  <2>2. Approvals' = Approvals
    BY <1>4, NothingDeducted
  <2>3. height' >= height
    BY DEF IInv, TypeOK
  <2>. QED  BY <1>3, <2>1, <2>2, <2>3, LedgerIdles
<1>5. CASE amount # 0
  <2>1. amount \in 1 .. Funds[from]
    BY <1>1, <1>5
  <2>2. Ledger!Pay(from, to, amount)
    BY <1>1, <1>2, <1>3 DEF Ledger!Pay, Funds, Issuer
  <2>. QED  BY <1>3, <2>1, <2>2 DEF Ledger!Next, Created, Funds
<1>. QED  BY <1>4, <1>5

LEMMA LedgerDestroys ==
  ASSUME IInv, Running, NEW s \in Addr, NEW from \in Addr, NEW amount \in Amounts,
         BurnTokens(from, amount), UNCHANGED height, sender' = s,
         \/ s = from /\ UNCHANGED allowances
         \/ DeductAllowance(from, s, amount)
  PROVE  Ledger!Next
<1>1. amount \in Nat /\ amount <= Balance(from) /\ \A o \in Addr : Balance(o) \in Nat
  BY BalanceType, Cw20Assumption DEF IInv, Uint128, BurnTokens
<1>2. /\ amount <= Funds[from] /\ Funds[from] \in Nat
      /\ Funds' = [Funds EXCEPT ![from] = @ - amount]
  BY BurnTokensFunds
<1>3. Ledger!Authority(from, amount)
  BY LedgerAuthority
<1>4. Created /\ Created' /\ Issuer' = Issuer
  <2>1. token_info \in TokenInfo /\ token_info # None
    BY RunningHasToken
  <2>2. token_info' \in TokenInfo /\ token_info'.mint = token_info.mint
    BY <1>1, <2>1, Cw20Assumption DEF BurnTokens, TokenInfo, Uint128
  <2>. QED  BY <2>1, <2>2, NoneAssumption DEF Created, Issuer
<1>5. CASE amount = 0
  <2>1. Funds' = Funds
    <3>1. Funds[from] - amount = Funds[from]
      BY <1>2, <1>5
    <3>2. Funds' = [Funds EXCEPT ![from] = Funds[from]]
      BY <1>2, <3>1
    <3>. QED  BY <3>2 DEF Funds
  <2>2. Approvals' = Approvals
    BY <1>5, NothingDeducted
  <2>3. height' >= height
    BY DEF IInv, TypeOK
  <2>. QED  BY <1>4, <2>1, <2>2, <2>3, LedgerIdles
<1>6. CASE amount # 0
  <2>1. amount \in 1 .. Funds[from]
    BY <1>1, <1>2, <1>6
  <2>2. Ledger!Destroy(from, amount)
    BY <1>2, <1>3, <1>4 DEF Ledger!Destroy, Funds, Issuer
  <2>. QED  BY <1>4, <2>1, <2>2 DEF Ledger!Next, Created, Funds
<1>. QED  BY <1>5, <1>6

LEMMA LedgerIssues ==
  ASSUME IInv, Running, NEW s \in Addr, NEW to \in Addr, NEW amount \in Amounts,
         Mint(s, to, amount), UNCHANGED height, sender' = s
  PROVE  Ledger!Next
<1>1. amount \in Nat /\ amount > 0 /\ \A o \in Addr : Balance(o) \in Nat
  BY BalanceType, Cw20Assumption DEF IInv, Uint128, Mint
<1>2. Funds' = [Funds EXCEPT ![to] = @ + amount] /\ Funds'[to] = Funds[to] + amount /\ Funds[to] \in Nat
  BY MintFunds DEF Funds
<1>3. token_info \in TokenInfo /\ token_info # None
  BY RunningHasToken
<1>4. Created /\ Created' /\ Issuer' = Issuer /\ Issuer = s
  <2>1. token_info' # None /\ token_info'.mint = token_info.mint
    <3>1. token_info.total_supply + amount \in Uint128
      BY <1>1, <1>3, Cw20Assumption DEF Mint, WithinCap, TokenInfo, Uint128
    <3>2. token_info' \in TokenInfo /\ token_info'.mint = token_info.mint
      BY <1>3, <3>1 DEF Mint, TokenInfo
    <3>. QED  BY <3>2, NoneAssumption
  <2>. QED  BY <1>3, <2>1 DEF Created, Issuer, Mint, IsMinter
<1>5. UNCHANGED Approvals
  BY DEF Mint, Approvals, AllowanceQuery, allowanceVars
<1>6. s # None /\ Funds'[to] > Funds[to] /\ Funds'[to] - Funds[to] = amount
  BY <1>1, <1>2, Cw20Assumption
<1>7. Ledger!Issue(to, Funds'[to] - Funds[to])
  BY <1>2, <1>4, <1>5, <1>6 DEF Ledger!Issue, Funds, Issuer, Approvals
<1>. QED  BY <1>4, <1>6, <1>7 DEF Ledger!Next, Created, Funds

LEMMA LedgerHandsOver ==
  ASSUME IInv, Running, NEW s \in Addr, NEW new_minter \in Addr \cup {None},
         UpdateMinter(s, new_minter), UNCHANGED height, sender' = s
  PROVE  Ledger!Next
<1>1. token_info \in TokenInfo /\ token_info # None
  BY RunningHasToken
<1>2. token_info.mint # None /\ token_info.mint.minter = s /\ UNCHANGED <<balances, allowanceVars>>
  BY DEF UpdateMinter, IsMinter
<1>3. /\ token_info' # None
      /\ token_info'.mint = IF new_minter = None THEN None ELSE [minter |-> new_minter, cap |-> cap]
      /\ token_info'.mint # None => token_info'.mint.minter = new_minter
  <2>1. token_info.mint \in MinterData /\ cap \in Uint128 \cup {None}
    BY <1>1, <1>2 DEF TokenInfo, MinterData, cap
  <2>. DEFINE mint == IF new_minter = None THEN None ELSE [minter |-> new_minter, cap |-> cap]
  <2>2. mint \in MinterData \cup {None}
    BY <2>1 DEF MinterData
  <2>. HIDE DEF mint
  <2>3. token_info' = [token_info EXCEPT !.mint = mint]
    BY DEF UpdateMinter, mint
  <2>4. token_info' \in TokenInfo /\ token_info'.mint = mint
    BY <1>1, <2>2, <2>3 DEF TokenInfo
  <2>5. mint # None => mint.minter = new_minter
    BY DEF mint
  <2>. QED  BY <2>4, <2>5, NoneAssumption DEF mint
<1>4. Created /\ Created' /\ Issuer = s /\ s # None /\ Issuer' \in Addr \cup {None}
  BY <1>1, <1>2, <1>3, Cw20Assumption DEF Created, Issuer
<1>5. UNCHANGED <<Funds, Approvals>>
  BY <1>2 DEF Funds, Balance, Approvals, AllowanceQuery, allowanceVars
<1>6. Ledger!HandOver
  BY <1>4, <1>5 DEF Ledger!HandOver, Funds, Approvals, Issuer
<1>. QED  BY <1>4, <1>6 DEF Ledger!Next, Created

LEMMA LedgerApproves ==
  ASSUME IInv, Created, NEW s \in Addr, NEW spender \in Addr, NEW amount \in Amounts,
         NEW expires \in Expirations \cup {None}, UNCHANGED height, sender' = s,
         \/ IncreaseAllowance(s, spender, amount, expires)
         \/ DecreaseAllowance(s, spender, amount, expires)
  PROVE  Ledger!Next
<1>1. spender # s /\ UNCHANGED tokenVars
  BY DEF IncreaseAllowance, DecreaseAllowance
<1>2. \E v : allowances' = [allowances EXCEPT ![s][spender] = v]
  BY DEF IncreaseAllowance, DecreaseAllowance, LowerAllowance, RemoveAllowance
<1>3. \A o, t \in Addr : <<o, t>> # <<s, spender>> => allowances'[o][t] = allowances[o][t]
  BY <1>2 DEF IInv, TypeOK
<1>4. \A o, t \in Addr : <<o, t>> # <<s, spender>> => Approvals'[o][t] = Approvals[o][t]
  BY <1>3 DEF Approvals, AllowanceQuery
<1>5. Created' = Created /\ Issuer' = Issuer /\ Funds' = Funds
  BY <1>1 DEF Created, Issuer, Funds, Balance, tokenVars
<1>6. Ledger!Approve(spender)
  BY <1>1, <1>4, <1>5 DEF Ledger!Approve, Approvals, Funds, Issuer
<1>. QED  BY <1>5, <1>6 DEF Ledger!Next, Created

LEMMA LedgerExecutes ==
  ASSUME IInv, Running, NEW s \in Addr, sender' = s, TokenExecute(s), UNCHANGED height
  PROVE  Ledger!Next
<1>1. Created
  BY RunningHasToken DEF Created
<1>2. height' >= height
  BY DEF IInv, TypeOK
<1>3. CASE BaseExecute(s)
  <2>1. ASSUME NEW to \in Addr, NEW amount \in Amounts, Transfer(s, to, amount) \/ Send(s, to, amount)
        PROVE  Ledger!Next
    BY <1>1, <2>1, LedgerPays DEF Transfer, Send, allowanceVars
  <2>2. ASSUME NEW amount \in Amounts, Burn(s, amount)
        PROVE  Ledger!Next
    BY <2>2, LedgerDestroys DEF Burn, allowanceVars
  <2>. QED  BY <1>3, <2>1, <2>2 DEF BaseExecute
<1>4. CASE AllowancesExecute(s)
  <2>1. ASSUME NEW spender \in Addr, NEW amount \in Amounts,
               NEW expires \in Expirations \cup {None},
               \/ IncreaseAllowance(s, spender, amount, expires)
               \/ DecreaseAllowance(s, spender, amount, expires)
        PROVE  Ledger!Next
    BY <1>1, <2>1, LedgerApproves
  <2>2. ASSUME NEW owner \in Addr, NEW to \in Addr, NEW amount \in Amounts,
               TransferFrom(s, owner, to, amount)
        PROVE  Ledger!Next
    <3>1. CASE to = owner
      BY <1>2, <2>2, <3>1, LedgerIdles, LedgerKept DEF TransferFrom, tokenVars, allowanceVars
    <3>2. CASE to # owner
      BY <1>1, <2>2, <3>2, LedgerPays DEF TransferFrom, allowanceVars
    <3>. QED  BY <3>1, <3>2
  <2>3. ASSUME NEW owner \in Addr, NEW to \in Addr, NEW amount \in Amounts,
               SendFrom(s, owner, to, amount)
        PROVE  Ledger!Next
    BY <1>1, <2>3, LedgerPays DEF SendFrom
  <2>4. ASSUME NEW owner \in Addr, NEW amount \in Amounts, BurnFrom(s, owner, amount)
        PROVE  Ledger!Next
    BY <2>4, LedgerDestroys DEF BurnFrom
  <2>. QED  BY <1>4, <2>1, <2>2, <2>3, <2>4 DEF AllowancesExecute
<1>5. CASE MintingExecute(s)
  BY <1>5, LedgerIssues, LedgerHandsOver DEF MintingExecute
<1>. QED  BY <1>3, <1>4, <1>5 DEF TokenExecute

LEMMA LedgerSteps ==
  ASSUME IInv, IInv', [Next]_vars
  PROVE  Ledger!Next
<1>0. height \in Nat
  BY DEF IInv, TypeOK
<1>1. ASSUME NEW s \in Senders, Create(s)
      PROVE  Ledger!Next
  <2>1. ~ Created /\ UNCHANGED <<allowances, height>>
    BY <1>1 DEF Create, Instantiate, Created, IInv, InstanceHasToken, allowanceVars
  <2>2. contract_version' # None
    BY <1>1, Cw20Assumption DEF Create, Instantiate
  <2>3. Created'
    BY <2>2 DEF Created, IInv, InstanceHasToken
  <2>4. UNCHANGED Approvals
    BY <2>1 DEF Approvals, AllowanceQuery
  <2>5. Ledger!Create
    BY <2>1, <2>3, <2>4 DEF Ledger!Create, Created, Approvals
  <2>. QED  BY <2>5 DEF Ledger!Next
<1>2. ASSUME NEW s \in Senders, Execute(s)
      PROVE  Ledger!Next
  <2>1. s \in Addr /\ sender' = s /\ Running /\ height' = height
    BY <1>2, Cw20Assumption DEF Execute, envVars
  <2>2. CASE TokenExecute(s)
    BY <2>1, <2>2, LedgerExecutes
  <2>3. CASE MarketingExecute(s)
    <3>1. UNCHANGED <<token_info, balances, allowances>>
      BY <2>1, <2>3, MarketingExecuteInv DEF tokenVars, allowanceVars
    <3>. QED  BY <1>0, <2>1, <3>1, LedgerKept, LedgerIdles
  <2>. QED  BY <1>2, <2>2, <2>3 DEF Execute
<1>3. CASE Migrate \/ NextBlock \/ UNCHANGED vars
  <2>1. UNCHANGED <<token_info, balances, allowances>> /\ height' >= height
    BY <1>0, <1>3 DEF Migrate, NextBlock, vars, envVars, tokenVars, allowanceVars
  <2>. QED  BY <2>1, LedgerKept, LedgerIdles
<1>. QED  BY <1>1, <1>2, <1>3 DEF Next

LEMMA LedgerStarts == Init => Ledger!Init
<1>. SUFFICES ASSUME Init PROVE Ledger!Init
  OBVIOUS
<1>1. CASE Fresh
  <2>1. Funds = [a \in Addr |-> 0]
    BY <1>1 DEF Fresh, Funds, Balance, Amount
  <2>2. Approvals = [o \in Addr |-> [s \in Addr |-> NoAllowance]]
    BY <1>1 DEF Fresh, Approvals, AllowanceQuery, AllowanceOf, NoApprovals
  <2>. QED  BY <2>1, <2>2 DEF Ledger!Init, Ledger!Nothing, Funds, Approvals, NoAllowance
<1>2. CASE Legacy
  <2>1. contract_version # None
    BY <1>2, Cw20BaseAssumption, Cw20Assumption DEF Legacy
  <2>2. token_info # None
    BY <2>1, InitInv DEF IInv, InstanceHasToken
  <2>. QED  BY <2>2 DEF Ledger!Init
<1>. QED  BY <1>1, <1>2 DEF Init

\* The contract implements the ledger: through every message, migration and
\* block, tokens move, appear and disappear, and approvals change, only on
\* the authority the ledger asks for.
THEOREM ImplementsTokenLedgerCorrect == Spec => ImplementsTokenLedger
<1>1. IInv /\ IInv' /\ [Next]_vars => [Ledger!Next]_(Ledger!ledgerVars)
  BY LedgerSteps
<1>. QED
  BY <1>1, LedgerStarts, Invariance, PTL DEF Spec, ImplementsTokenLedger, Ledger!Spec
=============================================================================

\* Two accounts; approvals with deadlines, minting with and without a cap, and
\* instances that older code instantiated.  An instance newer than this code
\* cannot migrate to it, answers nothing, and stops at MaxHeight.
SPECIFICATION Spec
CONSTANTS
  a1 = a1
  a2 = a2
  Addr = {a1, a2}
  Senders = {a1, a2}
  None = None
  Never = Never
  MaxUint128 = 2
  Amounts = {0, 1, 2}
  Expirations = {1, 2, Never}
  MaxHeight = 2
  ContractVersion = 81
  MirrorVersion = 140
  Texts = {}
  Blank = Blank
  Embedded = Embedded
  Logos = {}
  LogoSizeCap = 1
  InitialBalances <- MCInitialBalances
  MaxRows = 2
  MintOptions <- MCMintOptions
  Caps = {1, None}
  MarketingOptions <- MCNoMarketing
  LegacyVersions = {14, 80, 141}
  LegacyAllowances <- MCLegacyAllowances
SYMMETRY AddrSymmetry
CHECK_DEADLOCK FALSE
INVARIANTS
  TypeOK
  SupplyIsSumOfBalances
  SupplyWithinCap
  MirrorIsConverse
  NoSelfApproval
PROPERTIES
  DebitIsAuthorized
  ApprovalIsAuthorized
  MintingIsAuthorized
  ImplementsTokenLedger

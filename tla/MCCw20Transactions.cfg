\* An account that signs, and a contract that calls back up to twice; the
\* contract may mint.
SPECIFICATION TxSpec
CONSTANTS
  alice = alice
  pool = pool
  Addr = {alice, pool}
  Senders = {alice}
  Contracts = {pool}
  MaxPending = 2
  None = None
  Never = Never
  MaxUint128 = 2
  Amounts = {0, 1}
  Expirations = {1}
  MaxHeight = 1
  ContractVersion = 81
  MirrorVersion = 140
  Texts = {}
  Blank = Blank
  Embedded = Embedded
  Logos = {}
  LogoSizeCap = 1
  InitialBalances <- MCInitialBalances
  MintOptions <- MCMintOptions
  MarketingOptions = {None}
  LegacyVersions = {}
  LegacyAllowances = {}
INVARIANTS
  CreditsNeverOverflow
  LossIsGranted
  ReceiptsAreBacked

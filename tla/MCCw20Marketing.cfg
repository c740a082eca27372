\* Every marketing message, with a logo of every kind, good and bad; the token
\* itself is idle.
SPECIFICATION Spec
CONSTANTS
  a1 = a1
  a2 = a2
  Addr = {a1, a2}
  Senders = {a1, a2}
  None = None
  Never = Never
  MaxUint128 = 1
  Amounts = {0}
  Expirations = {}
  MaxHeight = 0
  ContractVersion = 81
  MirrorVersion = 140
  t1 = t1
  t2 = t2
  Texts = {t1, t2}
  Blank = Blank
  Embedded = Embedded
  Logos <- MCLogos
  LogoSizeCap = 1
  InitialBalances <- MCInitialBalances
  MaxRows = 0
  MintOptions <- MCMintOptions
  Caps = {}
  MarketingOptions <- MCMarketingOptions
  LegacyVersions = {}
  LegacyAllowances = {}
SYMMETRY AddrSymmetry
INVARIANTS
  LogoIsNamed
PROPERTIES
  MarketingIsAuthorized

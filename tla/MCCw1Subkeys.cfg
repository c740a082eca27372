\* A subkey, a contract that calls back and the contract itself; grants with and
\* without deadlines.
SPECIFICATION SubkeysSpec
CONSTANTS
  a2 = a2
  c = c
  self = self
  bad = bad
  d1 = d1
  d2 = d2
  Never = Never
  None = None
  Addr = {a2, c, self}
  Self = self
  Senders = {a2}
  Contracts = {c}
  Invalid = {bad}
  Denoms = {d1, d2}
  MaxUint128 = 1
  Amounts = {0, 1}
  Expirations = {1, Never}
  MaxHeight = 1
  MaxPending = 2
  Spenders = {a2, bad}
  AdminLists = {{bad}, {c}, {a2, self}}
  MCDeadlines = {1, Never, None}
  Calls <- MCCalls
  Messages <- MCMessages
\* A list without admins accepts no message any more.
CHECK_DEADLOCK FALSE
INVARIANTS
  SubkeysTypeOK
  SubkeysActWithinGrants
  QueriesAreHonest
PROPERTIES
  GrantsAreByOthers
  ExpiredIsForgotten
  ImplementsAdminGroupToo

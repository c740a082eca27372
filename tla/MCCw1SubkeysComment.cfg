\* The comment on allowances, against what a subkey has left after it sent something.
SPECIFICATION SubkeysSpec
CONSTANTS
  a2 = a2
  c = c
  self = self
  bad = bad
  d1 = d1
  d2 = d2
  Never = Never
  None = None
  Addr = {a2, c, self}
  Self = self
  Senders = {a2}
  Contracts = {c}
  Invalid = {bad}
  Denoms = {d1, d2}
  MaxUint128 = 2
  Amounts = {0, 1}
  Expirations = {1, Never}
  MaxHeight = 1
  MaxPending = 2
  Spenders = {a2, bad}
  AdminLists = {{bad}, {c}, {a2, self}}
  MCDeadlines = {1, None}
  Calls <- MCCalls
  Messages <- MCMessages
CHECK_DEADLOCK FALSE
PROPERTIES
  SendIsSubtracted

\* A person who signs, a contract that calls back, and the contract itself.
SPECIFICATION Spec
CONSTANTS
  a1 = a1
  c = c
  self = self
  bad = bad
  Addr = {a1, c, self}
  Self = self
  Senders = {a1}
  Contracts = {c}
  Invalid = {bad}
  MaxBatch = 2
  MaxPending = 3
  Calls <- MCCalls
  Messages <- MCMessages
\* A list without admins accepts no message any more.
CHECK_DEADLOCK FALSE
INVARIANTS
  ActsForAdmins
PROPERTIES
  ImplementsAdminGroup

\* Five addresses, one of which does not validate; lists of up to four.
SPECIFICATION Spec
CONSTANTS
  Names = {1, 2, 3, 4, 5}
  Valid = {1, 2, 4, 5}
  MaxLen = 4
  Stored <- MCStored
  Inputs <- MCInputs
CHECK_DEADLOCK FALSE
INVARIANTS
  TypeOK
  RemovesTheLeavers
  ReplacesExactly

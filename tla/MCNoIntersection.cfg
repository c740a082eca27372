\* Three arrays of up to two names out of four: every way in which names may be
\* shared, and arrays may be empty or exhausted before the others.  The function
\* stops, so deadlock is not an error.
SPECIFICATION FairSpec
CHECK_DEADLOCK FALSE
CONSTANTS
  N = 3
  MaxLen = 2
  Names = {1, 2, 3, 4}
  Inputs <- MCInputs
INVARIANTS
  TypeOK
  AcceptsOnlyDisjoint
  RejectsOnlyOverlap
  ScanFindsOngoing
PROPERTIES
  Terminates

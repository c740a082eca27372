\* Four keys, in pages of one to three; blocks pass and allowances expire.
SPECIFICATION Spec
CONSTANTS
  Keys = {1, 2, 3, 4}
  None = None
  Never = Never
  Expirations = {1, 2}
  MaxHeight = 2
  Requests = {1, 4, None}
  DefaultLimit = 2
  MaxLimit = 3
INVARIANT NothingMissed
PROPERTY ReadersFinish

\* Overrides of each entry point.
SPECIFICATION Spec
CONSTANTS
  MCFnNames = {}
  FnNames <- AllFnNames
  Variant <- MCVariant
  Snake <- MCSnake
  Wire <- MCWire
  Programs <- MCPrograms
  Values = {1, 2}
  RawJson <- MCRawJson
  Answers <- MCAnswers
\* A program that is rejected takes no step.
CHECK_DEADLOCK FALSE
INVARIANT
  AllTypesAreOverridden

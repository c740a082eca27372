\* A method whose name has a digit after an underscore.
SPECIFICATION Spec
CONSTANTS
  MCFnNames = {"step_2"}
  FnNames <- AllFnNames
  Variant <- MCVariant
  Snake <- MCSnake
  Wire <- MCWire
  Programs <- MCPrograms
  Values = {1, 2}
  RawJson <- MCRawJson
  Answers <- MCAnswers
\* A program that is rejected takes no step.
CHECK_DEADLOCK FALSE
INVARIANT
  ExecMsgsAreUnderstood

\* Contracts on a chain and in a test; names that survive the conversions and others.
SPECIFICATION Spec
CONSTANTS
  MCFnNames = {"step_2", "step2", "a_b", "ab"}
  FnNames <- AllFnNames
  Variant <- MCVariant
  Snake <- MCSnake
  Wire <- MCWire
  Programs <- MCPrograms
  Values = {1, 2}
  RawJson <- MCRawJson
  Answers <- MCAnswers
\* A program that is rejected takes no step.
CHECK_DEADLOCK FALSE
INVARIANTS
  CallsReachTheirMethod
  ClientsAreUnderstood
  OneMethodPerName
  SubmessagesArrive
  TestsLikeTheChain
  

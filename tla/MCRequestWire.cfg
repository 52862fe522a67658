SPECIFICATION Spec
CONSTANTS
  Calls = {c1, c2}
  MaxLength = 5
SYMMETRY Symmetry
INVARIANTS
  CallsAnswered
  OpenAIExact
  
CHECK_DEADLOCK FALSE

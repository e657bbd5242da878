SPECIFICATION Spec
CONSTANTS
  Token <- Tokens
  Start <- Starts
  MaxTyped = 4
CHECK_DEADLOCK FALSE
INVARIANTS
  MacroAgreesWithParser
  CommasOnlySeparate
  UnexpectedEndCanBeCompleted
  ErrorsAreFinal

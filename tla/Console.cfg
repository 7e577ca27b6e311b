SPECIFICATION Spec
CONSTANTS
  MaxLines = 5
  Letter = {"a", "d", "E"}
  Digit = {"1"}
  Script <- UpToFourPieces
INVARIANTS StatementsAsTyped ScriptCarriedOut
CHECK_DEADLOCK FALSE

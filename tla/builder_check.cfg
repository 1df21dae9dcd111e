SPECIFICATION Spec
CONSTANTS
  AB = 2
  Room = 20
  MaxExprs = 4
  MaxActions = 1
  Words <- MCWords
  MaxStates = 10
  ActionKinds <- MCKinds
  Brackets <- MCBrackets
  Literals <- MCLiterals
  Repeats <- MCRepeats
CHECK_DEADLOCK FALSE
INVARIANT
  CheckHolds

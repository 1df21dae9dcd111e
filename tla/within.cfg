SPECIFICATION Spec
CONSTANTS
  MaxExprs = 8
  MaxAssociated = 4
  Tag <- MCTag
INVARIANTS LcaCorrect WithinUpward EdgeActions

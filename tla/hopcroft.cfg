SPECIFICATION MCFairSpec
CONSTANTS
  N = 3
  x = x
  y = y
  Letter = {x, y}
INVARIANTS TypeOK WorklistInv MarksInv StableAtEnd OutputFaithful
PROPERTIES Implements HalvesWork Termination

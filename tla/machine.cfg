SPECIFICATION MCSpec
CONSTANTS
  S = S
  W = W
  Stmt = {S, W}
  AB = 2
  Room = 8
  MaxWord = 3
  MaxStack = 5
CHECK_DEADLOCK FALSE
INVARIANTS MachineSound MachineComplete StartsFollowed
PROPERTY TransitEnds

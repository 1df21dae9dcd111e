SPECIFICATION MCSpec
CONSTANTS
  S = S
  W = W
  Stmt = {S, W}
  AB = 1
  Room = 24
INVARIANTS OnlyRefsDeleted

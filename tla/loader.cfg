SPECIFICATION MCSpec
CONSTANTS
  Inode <- MCInode
  Main <- MCMain
  Ident = {"x", "y"}
  Qualifier = {"q"}
INVARIANTS ReachedVisited ErrorsIffFaulty BoundUniquely UsesRecorded
PROPERTIES Termination

SPECIFICATION MCSpec
CONSTANTS
  N = 3
  Limit = 3
INVARIANTS TypeOK SubsetsFollowed EdgesCanonical StartsBuilt ResultInFsaOps
PROPERTIES Termination

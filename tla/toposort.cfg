SPECIFICATION FairSpec
CONSTANTS
  Stmt = {s1, s2, s3}
  MaxUses = 2
INVARIANTS OpenOnStack ErrorsIffCyclic TopologicalOrder
PROPERTIES EmbedsCompiledFirst Termination

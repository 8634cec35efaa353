SPECIFICATION Spec
CONSTANTS
  Tasks = {t1, t2, t3}
  WorkerCount = 2
  Depth = 2
  NoTask = NoTask
SYMMETRY TaskSymmetry
INVARIANTS OneOwner ResolvedByOwnParse DisabledOnlyByFault
CHECK_DEADLOCK FALSE

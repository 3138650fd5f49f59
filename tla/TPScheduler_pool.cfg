SPECIFICATION FairSpec
CONSTANTS
  NumCU = 3
  Kernels = {k1, k2, bad}
  Loadable = {k1, k2}
  None = None
  WorkSizes <- MCWorkSizes
INVARIANTS TypeOK PoolPartition RotationAlone CoordsUnshared FreshImage
PROPERTIES ExactlyOnce AddWorkReturns
CHECK_DEADLOCK FALSE

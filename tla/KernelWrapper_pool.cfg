SPECIFICATION SpecWrapper
CONSTANTS
  NumCU = 2
  Kernels = {k1}
  Loadable = {k1}
  None = None
  WorkSizes <- MCWorkSizes
INVARIANTS IdsInLaunch

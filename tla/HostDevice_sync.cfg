SPECIFICATION FairSpec
CONSTANTS
  Kernels = {kA, kB}
  Values = {v1, v2}
  Sizes = {s1, s2}
  NChunks = 3
  DiskFaults = {"open", "close"}
  FirstFd = {"null", "wild"}
  SendersReturn = TRUE
  NoKernel = NoKernel
  BuildOutcomes = {"built", "refused"}
  SwitchBack = FALSE
INVARIANTS TypeOK InStep RunsOwnKernel
PROPERTIES ImplementsDevice DispatchEnds
CHECK_DEADLOCK FALSE

SPECIFICATION Spec
CONSTANTS
  Kernels = {kA, kB}
  Values = {v1, v2}
  Sizes = {s1, s2}
  NChunks = 3
  DiskFaults = {"open", "write"}
  FirstFd = {"null", "wild"}
  SendersReturn = TRUE
  NoKernel = NoKernel
  BuildOutcomes = {"built", "refused", "stale"}
  SwitchBack = TRUE
INVARIANTS WholeImage StartIsAnswered
CHECK_DEADLOCK FALSE

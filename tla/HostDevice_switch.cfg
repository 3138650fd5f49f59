SPECIFICATION Spec
CONSTANTS
  Kernels = {kA, kB}
  Values = {v1, v2}
  Sizes = {s1, s2}
  NChunks = 2
  DiskFaults = {}
  FirstFd = {"null"}
  SendersReturn = TRUE
  NoKernel = NoKernel
  BuildOutcomes = {"built"}
  SwitchBack = TRUE
INVARIANTS RunsOwnKernel

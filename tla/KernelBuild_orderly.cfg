\* Applications with the habits of the demos; gcc succeeds.
SPECIFICATION Spec
CONSTANTS
  Programs = {p1, p2}
  Kernels = {k1, k2}
  ArgSizes = {4}
  MaxArgs = 2
  MaxPending = 2
  GccOutcomes = {"built"}
  Orderly = TRUE
  NoFile = NoFile
  Torn = Torn
INVARIANTS
  TypeOK
  LaunchesAsEnqueued
  BinaryIsOwn
CHECK_DEADLOCK FALSE

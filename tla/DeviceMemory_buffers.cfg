SPECIFICATION SpecMemory
CONSTANTS
  Threads = {t1}
  MaxCmds = 3
  Values = {v1, v2}
  Blank = Blank
  GLOBAL_MEMORY_SIZE = 3
  Sizes = {1, 2}
  MaxBuffers = 2
  ArgsInOrder = TRUE
  NotYet = NotYet
  Gone = Gone
SYMMETRY Symmetry
INVARIANTS MemoryTypeOK BuffersFit
PROPERTIES FinishFlushes ActsOnOwnBuffers
CHECK_DEADLOCK FALSE

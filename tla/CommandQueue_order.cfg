SPECIFICATION FairSpec
CONSTANTS
  Threads = {t1, t2}
  MaxCmds = 3
  MaxRefs = 2
  AllocMayFail = TRUE
  Nobody = Nobody
  Wild = Wild
INVARIANTS TypeOK CurrentIsFirstPending NothingOvertaken
PROPERTIES OnlyGhostsDangle InOrder EveryCommandExecuted CallsReturn
CHECK_DEADLOCK FALSE

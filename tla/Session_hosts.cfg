SPECIFICATION FairSpec
CONSTANTS
  Threads = {t1, t2}
  Objects = {d1, d2}
  MaxConn = 3
  HostMayDie = TRUE
  BindMayFail = TRUE
INVARIANTS TypeOK OneQueuePerObject OwnAnswers LostByOverlap
PROPERTIES DeviceReturns ReleaseReturns
CHECK_DEADLOCK FALSE

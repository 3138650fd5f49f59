SPECIFICATION Spec
CONSTANTS
  Threads = {t1}
  Objects = {d1}
  MaxConn = 2
  HostMayDie = FALSE
  BindMayFail = FALSE
INVARIANT NothingLost
CHECK_DEADLOCK FALSE

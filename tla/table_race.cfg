SPECIFICATION Spec
CONSTANTS
  Pid <- KnownAndOne
  Null = null
  MaxDatagrams = 1
INVARIANTS TableMutexed
CHECK_DEADLOCK FALSE

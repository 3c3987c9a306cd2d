SPECIFICATION FairSpec
CONSTANTS
  Pid <- KnownAndOne
  Null = null
  MaxDatagrams = 3
INVARIANTS TypeOK OneHolder QueuesMutexed
PROPERTIES OnlyResponsesAreDropped Flows EveryMessageEnds
CHECK_DEADLOCK FALSE

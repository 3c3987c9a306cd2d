SPECIFICATION FairSpec
CONSTANTS
  v1 = v1
  v2 = v2
  Byte = {v1, v2}
  ChunkSize = 2
  Word = 8
  WideSize = FALSE
  NoCopy = nocopy
  Faults = {"fileGone", "disconnect", "writeError"}
  MaxLength = 5
  MaxEdits = 2
  MaxFaults = 1
INVARIANTS TypeOK NoSeekNeeded MeasuredLengthArrives
PROPERTIES Delivers EndsUnlessCut
CHECK_DEADLOCK FALSE

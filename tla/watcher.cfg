SPECIFICATION FairSpec
CONSTANTS
  Path <- TwoPaths
  Hash = {v1, empty, partial, mixed}
  NoFile = nofile
  Empty = empty
  Partial = partial
  Mixed = mixed
  Nothing = nothing
  MaxChanges = 3
INVARIANTS TypeOK NothingMissed WholeReports
PROPERTIES Feeds FolderKnown
CHECK_DEADLOCK FALSE

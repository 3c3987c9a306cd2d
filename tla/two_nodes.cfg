SPECIFICATION Spec
CONSTANTS
  a = a
  b = b
  c = c
  v1 = v1
  v2 = v2
  v3 = v3
  Node = {a, b}
  Established = {}
  MayEdit <- Anybody
  Path <- OnePath
  Hash = {v1, v2, partial, torn}
  NoFile = nofile
  Partial = partial
  Torn = torn
  Nothing = nothing
  Respelt <- ByChance
  MaxDiffering = 1
  MaxEdits = 1
  MaxFaults = 1
INVARIANTS TypeOK LockDiscipline OnlyWholeFilesAnnounced AnswersMatchRequests ServersAreAwaited OpenFilesStay StopsExplained
PROPERTIES FoldersExchanged CirclesStay
CHECK_DEADLOCK FALSE

SPECIFICATION FairSpec
CONSTANTS
  a = a
  b = b
  c = c
  v1 = v1
  v2 = v2
  v3 = v3
  Node = {a, b}
  Established = {a}
  MayEdit <- Nobody
  Path <- TwoPaths
  Hash = {v1, v2, partial, torn}
  NoFile = nofile
  Partial = partial
  Torn = torn
  Nothing = nothing
  Respelt <- NoChance
  MaxDiffering = 2
  MaxEdits = 0
  MaxFaults = 0
PROPERTIES EstablishedFilesKept
CHECK_DEADLOCK FALSE

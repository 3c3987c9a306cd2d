SPECIFICATION FairSpec
CONSTANTS
  a = a
  b = b
  c = c
  v1 = v1
  v2 = v2
  v3 = v3
  Node = {a, b}
  Established = {a, b}
  MayEdit <- OnlyA
  Path <- OnePath
  Hash = {v1, v2, v3, partial, torn}
  NoFile = nofile
  Partial = partial
  Torn = torn
  Nothing = nothing
  Respelt <- NoChance
  MaxDiffering = 0
  MaxEdits = 2
  MaxFaults = 0
PROPERTIES EditsArrive
CHECK_DEADLOCK FALSE

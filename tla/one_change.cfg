SPECIFICATION FairSpec
CONSTANTS
  a = a
  b = b
  c = c
  v1 = v1
  v2 = v2
  v3 = v3
  Node = {a, b}
  Established = {a, b}
  MayEdit <- OnlyA
  Path <- TwoPaths
  Hash = {v1, v2, partial, torn}
  NoFile = nofile
  Partial = partial
  Torn = torn
  Nothing = nothing
  Respelt <- NoChance
  MaxDiffering = 1
  MaxEdits = 1
  MaxFaults = 0
INVARIANTS ListingAccountedFor
PROPERTIES Converges EditsArrive
CHECK_DEADLOCK FALSE

SPECIFICATION Spec
CONSTANTS
  Path = {1, 2, 3, 4}
  Hash <- MCHash
  NoFile = nofile
  Byte <- MCByte
  Cycle = 3
  Modulus = 2048
  Gap = 123
  Cr = 13
  Lf = 10
  Eof = 26
  Root <- MCRoot
  Name <- MCName
  Separator = 92
  HalfWord = 4
  MaxPacket = 63
  Files <- MCFiles
  FirstFolders <- MCFirst
  Edited <- MCEdited
  MaxSaves = 3
  MaxLost = 1
INVARIANTS TypeOK WhyDifferent WhatFitsArrives
PROPERTIES NothingTravelsWide TenthBytesUnseen
CHECK_DEADLOCK FALSE

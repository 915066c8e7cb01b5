CONSTANTS
  r1 = r1  w1 = w1  w2 = w2
  Readers = {r1}
  Writers = {w1, w2}
  BufCount = 2
  BufSize = 2
  CountMax = 3
  Lengths = {1, 2, 3}
  MaxLens = {1, 2}
  MaxSent = 4
SPECIFICATION FairSpec
\* Writers stop after MaxSent; a failed assertion ends the program.
CHECK_DEADLOCK FALSE
INVARIANTS
  BuffersCounted
  InOrder
  NothingLost
  AbortNeedsContention
PROPERTIES
  NoStandoff

CONSTANTS
  r1 = r1  w1 = w1  a = a  b = b
  Readers = {r1}
  Writers = {w1}
  Size = 3
  Bytes = {a, b}
  Junk = Junk
  Payloads <- Writes
  MaxLens = {1, 2}
  Timed = TRUE
  MaxBytes = 6
SPECIFICATION FairSpec
\* Writers stop after MaxBytes.
CHECK_DEADLOCK FALSE
INVARIANTS
  NoLostWakeup
PROPERTIES
  ImplementsStream
  NoStandoff

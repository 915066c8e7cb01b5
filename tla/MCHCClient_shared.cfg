CONSTANTS
  Threads = {t1, t2}
  Free = Free
  Requests <- GetAndISet
  Errs = {0, 255}
  Vals = {7}
  TransMod = 4
  MaxXact = 2
  MaxDrop = 1
  Dup = FALSE
  Spurious = FALSE
SPECIFICATION FairSpec
\* A client no thread calls, at an idle network, rests.
CHECK_DEADLOCK FALSE
INVARIANTS
  IInv
  OwnReply
  TrueResult
  OvertakenOnlyAfterTimeout
  Accounted
PROPERTIES
  AcceptsOnlyExpected
  CallsReturn

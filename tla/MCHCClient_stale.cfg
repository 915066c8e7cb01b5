CONSTANTS
  Threads = {t1}
  Free = Free
  Requests <- CallAndGet
  Errs = {0}
  Vals = {7}
  TransMod = 4
  MaxXact = 2
  MaxDrop = 1
  Dup = FALSE
  Spurious = FALSE
SPECIFICATION Spec
\* A client no thread calls, at an idle network, rests.
CHECK_DEADLOCK FALSE
INVARIANTS
  SignalledReplyIsOwn

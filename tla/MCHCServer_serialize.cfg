CONSTANTS
  call = call  calltable = calltable  value = value  text = text
  table = table  list = list  file = file  log = log
  Params = {call}
  Param <- Description
  Listed = {call}
  PidMax = 1
  CellMax = 17
  MsgMax = 20
  MethodErrs <- NoMethodErrors
  Scenarios <- Burst
SPECIFICATION Spec
\* The server rests when all messages have come.
CHECK_DEADLOCK FALSE
INVARIANTS
  SerializeAssertion

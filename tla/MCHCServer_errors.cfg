CONSTANTS
  call = call  calltable = calltable  value = value  text = text
  table = table  list = list  file = file  log = log
  Params = {value}
  Param <- Description
  Listed = {value}
  PidMax = 1
  CellMax = 20
  MsgMax = 23
  MethodErrs <- MethodResults
  Scenarios <- UnknownPIDOrType
SPECIFICATION Spec
\* The server rests when all messages have come.
CHECK_DEADLOCK FALSE
INVARIANTS
  EveryErrorReported

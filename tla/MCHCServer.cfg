CONSTANTS
  call = call  calltable = calltable  value = value  text = text
  table = table  list = list  file = file  log = log
  Params = {call, calltable, value, text, table, list, file, log}
  Param <- Description
  Listed = {call, value, file}
  PidMax = 2
  CellMax = 20
  MsgMax = 23
  MethodErrs <- MethodResults
  Scenarios <- Usual
SPECIFICATION Spec
\* The server rests when all messages have come.
CHECK_DEADLOCK FALSE
INVARIANTS
  TypeOK
  ErrorReported
  OneCellAnswered
  InfoFileTrue
  RepliesMatchCommands

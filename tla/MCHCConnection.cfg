CONSTANTS
  brief = brief  full = full  long = long
  Versions = {brief, full, long}
  Bytes <- Letters
  Content <- Files
  Chunk = 2
  Attempts = 3
  MaxRestarts = 2
  MaxTries = 3
SPECIFICATION FairConnSpec
\* Connections are made MaxTries times.
CHECK_DEADLOCK FALSE
INVARIANTS
  ParsedIsServers
  DownloadIsPrefix
PROPERTIES
  ConnectEnds

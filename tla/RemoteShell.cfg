SPECIFICATION FairSpec
CONSTANTS
  a = a
  b = b
  NoClient = NoClient
  Clients = {a, b}
  Lines <- MCLines
  Readers <- MCReaders
  ArgMax = 8
  MaxLines <- LongAndIdle
  SplitLines = TRUE
  MaxLeaves = 1
  MaxFaults = 1
INVARIANT TypeOK
 
 
PROPERTY EveryWaitEnds
PROPERTY LeaversFreeServer
CHECK_DEADLOCK FALSE

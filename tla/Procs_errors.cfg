SPECIFICATION HSpec
CONSTANTS
  p1 = p1
  p2 = p2
  Procs = {p1}
  Inodes = {1, 2}
  Menu <- MenuAll
  InitialFiles <- HomeFiles
  Alone <- Writers
  MaxFaults = 1
  MaxCrashes = 0
  MaxId = 2
  MaxGpa = 0
INVARIANT ErrorsAreReported

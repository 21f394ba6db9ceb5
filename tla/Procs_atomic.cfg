SPECIFICATION Spec
CONSTANTS
  p1 = p1
  p2 = p2
  Procs = {p1, p2}
  Inodes = {1, 2, 3}
  Menu <- MenuReader
  InitialFiles <- NoFile
  Alone <- Writers
  MaxFaults = 0
  MaxCrashes = 1
  MaxId = 2
  MaxGpa = 0
INVARIANT TypeOK
PROPERTY ImplementsAtomic

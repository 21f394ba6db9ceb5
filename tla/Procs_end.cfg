SPECIFICATION FairSpec
CONSTANTS
  p1 = p1
  p2 = p2
  Procs = {p1, p2}
  Inodes = {1, 2, 3, 4}
  Menu <- MenuWalkers
  InitialFiles <- NoFile
  Alone = {}
  MaxFaults = 1
  MaxCrashes = 0
  MaxId = 1
  MaxGpa = 0
INVARIANT NeverCopiesOntoItself
PROPERTY EveryCommandEnds

SPECIFICATION HSpec
CONSTANTS
  p1 = p1
  p2 = p2
  Procs = {p1, p2}
  Inodes = {1}
  Menu <- MenuInPlace
  InitialFiles <- NoFile
  Alone = {}
  MaxFaults = 1
  MaxCrashes = 1
  MaxId = 2
  MaxGpa = 0
INVARIANT AllAtHome
INVARIANT AnswersWereTrue

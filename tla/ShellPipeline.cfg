SPECIFICATION FairSpec
CONSTANTS
  Lines <- MCLines
  Pipes = {"a", "b", "c", "d"}
  Pids = {1, 2, 3, 4}
  CmdMax = 4
  PipeSize = 1
  Items = 2
  MaxLines = 2
  MaxFaults = 2
INVARIANT TypeOK
INVARIANT PromptIsClean
INVARIANT OutputIsComposed
PROPERTY EveryLineEnds
CHECK_DEADLOCK FALSE

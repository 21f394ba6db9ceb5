SPECIFICATION FairSpec
CONSTANTS
  TypedLines <- MCTypedLines
  MAX_CMDS = 5
  Inputs <- MCInputs
  EXE_MAX = 3
  ARG_MAX = 7
  CMD_MAX = 2
  Calls <- MCCalls
  BUFFER_SZ = 5
  Spare = 2
  Reach = 3
  Scripts <- MCScripts
  BlockLines = 3
  MaxTaken = 9
  ArgLines <- MCArgLines
  DefPort = 1234
INVARIANT ParserTypeOK
INVARIANT WordsApart
INVARIANT WordsAsTyped
INVARIANT RedirectionsTaken
INVARIANT ListTypeOK
INVARIANT ShownAsTyped
INVARIANT StringTypeOK
INVARIANT SetUpRight
INVARIANT WordsFound
INVARIANT Reversed
INVARIANT Replaced
INVARIANT EveryLineOnce
INVARIANT StartedAsTold
PROPERTY ParsingEnds
 
CHECK_DEADLOCK FALSE

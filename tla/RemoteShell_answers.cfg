SPECIFICATION Spec
CONSTANTS
  a = a
  b = b
  NoClient = NoClient
  Clients = {a}
  Lines <- PlainLines
  Readers <- NoReaders
  ArgMax = 8
  MaxLines <- Three
  SplitLines = FALSE
  MaxLeaves = 0
  MaxFaults = 0
INVARIANT AnswersMatchLines
CHECK_DEADLOCK FALSE

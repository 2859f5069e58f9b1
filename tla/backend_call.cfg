SPECIFICATION FairSpec
CONSTANTS
  MaxRun = 2
  Actions = 1
  Steps = 2
  SockCap = 1
  PipeCap = 1
  RespLen = 2
  RespCap = 1
  Deadlines = {TRUE, FALSE}
  Outputs = {"none", "pipe", "file"}
  MaxDeaths = 1
  MaxSignals = 1
INVARIANTS
  NoEventLost
  OkMeansDone
  Reaped
PROPERTIES
  Terminates
CHECK_DEADLOCK FALSE

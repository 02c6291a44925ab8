SPECIFICATION VSpec
CONSTANTS
  IKinds = {TRUE, FALSE}
  NNum = 4
  SLatch <- Bit
  FLatch <- MCFLatch
  initS = 0
  initF = 2
  UNum = 2
  VNum = 2
  N <- MCN
  Problems <- MCVerifyProblems
  CState <- Bit
  Controllers <- MCControllers
  XLatch <- Bit
  initXv = 0
  Xvs <- MCXvs
  UseCommands = {0, 4}
  Cycles = 8
INVARIANT PassedOnlyIfContained
CHECK_DEADLOCK FALSE

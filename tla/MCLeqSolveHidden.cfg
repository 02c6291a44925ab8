SPECIFICATION Spec
CONSTANTS
  IKinds = {FALSE}
  NNum = 4
  SLatch <- Bit
  FLatch <- MCFLatch
  initS = 0
  initF = 2
  UNum = 2
  VNum = 2
  N <- MCN
  Problems <- MCProblems
INVARIANTS
  NondeterFirstMove
CHECK_DEADLOCK FALSE

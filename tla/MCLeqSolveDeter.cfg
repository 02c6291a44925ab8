SPECIFICATION Spec
CONSTANTS
  IKinds = {TRUE}
  NNum = 2
  SLatch <- Bit
  FLatch <- MCFLatch
  initS = 0
  initF = 2
  UNum = 4
  VNum = 2
  N <- MCN
  Problems <- MCProblems
INVARIANTS
  DeterNeverStuck
CHECK_DEADLOCK FALSE

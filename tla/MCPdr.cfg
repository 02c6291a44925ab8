SPECIFICATION Spec
CONSTANTS
  a = a
  b = b
  c = c
  Latch <- MCLatch
  latch0 = a
  Input = {0, 1}
  Nets <- MCNets
  Limits = {3, 8}
  MaxFrame = 8
CHECK_DEADLOCK FALSE
INVARIANTS
  TypeOK FramesFollow ClosedFramesSafe SolversKeepFrames ObligationsBehind InvariantVerified CexRight
PROPERTIES
  ImplementsProver FoundInSolver Termination

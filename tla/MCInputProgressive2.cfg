SPECIFICATION FairSpec
CONSTANTS
  State <- MCState
  initS = 0
  UNum = 2
  VNum = 2
  N <- MCN
  Automata <- MCAutomata
INVARIANTS
  LargestKept
  FixpointOnEqual
PROPERTIES
  ChecksShrink
  Termination
CHECK_DEADLOCK FALSE

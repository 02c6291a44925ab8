SPECIFICATION FairSpec
CONSTANTS
  State <- MCState
  initS = 0
  UNum = 1
  VNum = 3
  N <- MCN
  Automata <- OneUAutomata
INVARIANTS
  ResultAlwaysProgressive
PROPERTIES
  Implements
  Termination
CHECK_DEADLOCK FALSE

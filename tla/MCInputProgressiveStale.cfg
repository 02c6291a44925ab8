SPECIFICATION Spec
CONSTANTS
  State <- MCState
  initS = 0
  UNum = 2
  VNum = 2
  N <- MCOneN
  Automata <- DetAutomata
INVARIANTS
  ResultAlwaysProgressive
CHECK_DEADLOCK FALSE

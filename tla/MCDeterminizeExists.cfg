SPECIFICATION FairSpec
CONSTANTS
  State <- MCState
  initS <- MCInit
  PiNum = 2
  N <- MCN
  Automata <- MCAutomata
INVARIANTS
  AcceptsForSomeBranch

SPECIFICATION Spec
CONSTANTS
  State <- MCState
  initS = 0
  UNum = 2
  VNum = 2
  N <- MCN
  Automata <- MCAutomata
INVARIANTS
  TypeOK
  DeletedStayOut
  MovesClosed
  CutJustified
  ResultProgressive
CHECK_DEADLOCK FALSE

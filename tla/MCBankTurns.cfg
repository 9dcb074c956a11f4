CONSTANTS
  Rounds = 25
  Limit = 3
  DadGives = 4
  StudentNeeds = 2
SPECIFICATION TurnsFairSpec
INVARIANTS
  TurnsInv
  StaleByOneTurn
PROPERTIES
  BothFinish
CHECK_DEADLOCK FALSE

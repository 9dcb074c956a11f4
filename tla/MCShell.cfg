CONSTANTS
  Pids = {p1, p2, p3}
  NoPid = NoPid
  TIMEOUT = 2
SPECIFICATION FairSpec
INVARIANTS
  ShellInv
PROPERTIES
  StrangersHitByReuseOnly
  BackAtPrompt
CHECK_DEADLOCK FALSE

CONSTANTS
  SIZE = 6
  Pids = {1, 2}
  Requests <- EverySize
SPECIFICATION Spec
INVARIANTS
  
  
  FitsPolicy
PROPERTIES
  CoalesceMergesAll

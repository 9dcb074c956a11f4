CONSTANTS
  Students = {s1, s2}
  Mothers = {mom}
  Dad = dad
  Limit = 100
  DadGives = 100
  MomGives = 125
  StudentNeeds = 50
  MaxRuns = 2
SPECIFICATION FairSpec
INVARIANTS
  BankInv
PROPERTIES
  VisitsGoOn
CHECK_DEADLOCK FALSE

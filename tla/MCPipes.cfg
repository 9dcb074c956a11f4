CONSTANTS
  Scores <- MCScores
  Wanted = {1, 2, 3}
  Typed = 9
  Capacity = 1
  MaxKills = 2
SPECIFICATION PipesFairSpec
INVARIANTS
  PipesInv
  OutputIsRight
PROPERTIES
  AllEnd

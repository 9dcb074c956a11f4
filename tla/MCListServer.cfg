CONSTANTS
  c1 = c1
  c2 = c2
  Clients <- MCClients
  NoClient = NoClient
  Values = {5, 7}
  Indices <- MCIndices
  MaxCommands <- MCMaxCommands
SPECIFICATION FairSpec
INVARIANTS
  ListServerInv
  Lockstep
  LabListAgrees
PROPERTIES
  ImplementsRemoteList
  ServedIsAnswered

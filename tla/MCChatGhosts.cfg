CONSTANTS
  ClientThreads = {t1, t2}
  Main = main
  NoThread = NoThread
  Fds <- MCFds
  Guest <- MCGuest
  LoginNames <- LoginAsGuest5
  RoomNames = {lobby}
  Lobby = lobby
  MaxRequests = 1
SYMMETRY MCSymmetry
SPECIFICATION Spec
INVARIANTS
  DesertedRoomsAreEmpty

CONSTANTS
  ClientThreads = {t1, t2, t3}
  Main = main
  NoThread = NoThread
  Fds <- MCFds
  Guest <- MCGuest
  LoginNames <- LoginAsGuest5
  RoomNames = {lobby, den}
  Lobby = lobby
  MaxRequests = 2
SYMMETRY MCSymmetry
SPECIFICATION Spec
INVARIANTS
  ServerInv
  OneRecordPerThread
  LiveSockets
  RosterAgrees
  MessagesReachRoomMates
  GuestFoundFirst
PROPERTIES
  OnlyOwnRecord
  ImplementsLock

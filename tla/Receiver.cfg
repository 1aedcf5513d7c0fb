\* Two receivers and what one client needs; the last number does not fit an fd_set.
SPECIFICATION Spec
CONSTANTS
  Receivers = {r1, r2}
  Descriptors <- MCDescriptors
  FD_SETSIZE = 7
  Waiting = 1
  Free = Free
  Client = Client
INVARIANTS
  TypeOK
  ByteArrivesWhenCalm
  ListensWhenCalm
  NothingLeftOpen
PROPERTIES
  ReceiverEnds
CHECK_DEADLOCK FALSE

\* Every interleaving of two handlers and main on a table of two; liveness
\* is checked too, hence no symmetry.
SPECIFICATION Spec
CONSTANTS
  Sockets = {s1, s2, s3}
  Threads = {t1, t2}
  MAX_CLIENTS = 2
  NoSocket = NoSocket
  NoThread = NoThread
INVARIANTS
  TypeOK
  CountCoversHandlers
  InBounds
  ExactWhenCalm
  OwnHandlerWhenCalm
PROPERTIES
  ImplementsSet
  HandlersFinish

\* main.c:6: a new thread is created to handle the client.
SPECIFICATION Spec
CONSTANTS
  Sockets = {s1, s2, s3}
  Threads = {t1, t2, t3}
  MAX_CLIENTS = 3
  NoSocket = NoSocket
  NoThread = NoThread
SYMMETRY Symmetry
INVARIANTS
  OwnHandler


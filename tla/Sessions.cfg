\* Three connections, one more than the table holds, three accounts.
SPECIFICATION Spec
CONSTANTS
  c1 = c1  c2 = c2  c3 = c3
  e1 = e1  e2 = e2
  n1 = n1
  anonymous = anonymous
  Conns <- MCConns
  Accounts <- MCAccounts
  Anonymous <- anonymous
  MAX_CLIENTS = 2
SYMMETRY Symmetry
VIEW View
INVARIANTS
  TypeOK
  NameIsOwnWhenCalm
  OneSessionWhenCalm
  NoFaultWhenCalm

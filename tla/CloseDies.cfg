CONSTANTS
  n1 = n1  r1 = r1  r2 = r2  r3 = r3  r4 = r4  r5 = r5
  Containers = {c1}
  Requests = {r1, r2, r3, r4, r5}
  Rank <- Interchangeable
  Names = {n1}
  NameOf <- OneName
  Ports = {p1}
  Mounts = {m1}
  Boot = Boot
  Closer = Closer
  Listener = Listener
  None = None
  Environments <- OnlyOrderly
  MaxSessions = 2
SPECIFICATION Spec
SYMMETRY Symmetry
CHECK_DEADLOCK FALSE
INVARIANTS CloseIsGraceful

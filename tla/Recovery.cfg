CONSTANTS
  n1 = n1  r1 = r1  r2 = r2  r3 = r3  r4 = r4  r5 = r5
  Containers = {c1}
  Requests = {r1, r2, r3, r4}
  Rank <- InOrder
  Names = {n1}
  NameOf <- OneName
  Ports = {p1}
  Mounts = {m1}
  Boot = Boot
  Closer = Closer
  Listener = Listener
  None = None
  Environments <- RecoveringOrShutting
  MaxSessions = 2
SPECIFICATION FairSpec
CHECK_DEADLOCK FALSE
INVARIANTS StoppedIsClean
PROPERTIES EveryThreadFinishes WaitCleansUp ListedHasSession ShutdownCompletes

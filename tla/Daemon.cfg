CONSTANTS
  Daemons = {d1, d2}
  Stops = {s1, s2}
  None = None
  Allowed = {"crash", "early"}
SPECIFICATION FairSpec
CHECK_DEADLOCK FALSE
INVARIANTS ServingIsNamed ToldByName
PROPERTIES StopEndsDaemon

CONSTANTS
  Calls = {k1}
  Others = {h1}
SPECIFICATION FairSpec
CHECK_DEADLOCK FALSE
INVARIANTS StreamOwned VictimsEnd
PROPERTIES CancelCleansUp ShutdownEnds HandlerEnds CancelReachesGuest

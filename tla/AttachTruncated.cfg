CONSTANTS
  Chains <- Attach
  Cap = 1
  MaxSend = 2
  Allowed = {"type", "hangup", "output", "exit", "exitOnEOF"}
SPECIFICATION Spec
CHECK_DEADLOCK FALSE
INVARIANTS OutputComplete

CONSTANTS
  Chains <- AllChains
  Cap = 2
  MaxSend = 3
  Allowed = {"type", "hangup", "output", "exit", "exitOnEOF"}
SPECIFICATION FairSpec
CHECK_DEADLOCK FALSE
INVARIANTS ExecOutputComplete InputComplete
PROPERTIES AllHopsReturn OutputEndPassedOn

CONSTANTS
  Containers = {c1, c2}
  Requests = {r1}
  Items = {i1, i2}
  NoContainer = NoContainer
  MaxSessions = 2
SPECIFICATION Spec
SYMMETRY Symmetry
INVARIANTS TypeOK JobOwnsEntries SessionsTracked
PROPERTY ImplementsLedger

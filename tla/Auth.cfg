CONSTANTS
  Commands = {p1, p2, p3}
  Orgs = {o1, o2}
  None = None
  Absent = Absent
  Empty = Empty
  Mixed = Mixed
  MaxGen = 1
SPECIFICATION Spec
CHECK_DEADLOCK FALSE
INVARIANTS OrgOfUser LastStands

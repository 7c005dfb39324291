CONSTANTS
  p1 = p1
  p2 = p2
  e1 = e1
  e2 = e2
  e3 = e3
  c1 = c1
  c2 = c2
  old = old
  new = new
  None = None
  Profiles = {p1, p2}
  Editions = {old, new}
  EnvironmentIds = {e1, e2, e3}
  Commands = {c1, c2}
  MaxEdits = 2
  MaxRuns = 3

SPECIFICATION Spec
SYMMETRY Symmetry
CHECK_DEADLOCK FALSE

INVARIANTS
  TypeOK
  ReadyMeansEqual

PROPERTIES
  
  ForeignKept

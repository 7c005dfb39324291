CONSTANTS
  o1 = o1
  o2 = o2
  c1 = c1
  c2 = c2
  c3 = c3
  e1 = e1
  e2 = e2
  Operators = {o1, o2}
  Commands = {"sync", "bootstrap", "publish"}
  CollectionIds = {c1, c2, c3}
  EnvironmentIds = {e1, e2}
  Bindings = {None, e1}
  MaxEdits = 1
  MaxRuns = 3
  None = None

SPECIFICATION Spec
SYMMETRY Symmetry
CHECK_DEADLOCK FALSE

INVARIANTS
  TypeOK
  
  
  PublishedOnce

PROPERTIES
  BoundOnly

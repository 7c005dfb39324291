CONSTANTS
  a = a
  b = b
  x = x
  y = y
  v1 = v1
  v2 = v2
  None = None
  Partial = Partial
  Processes = {a, b}
  Names = {x, y}
  Values = {v1, v2}
  Commands = {"init", "set", "materialize"}
  MaxRuns = 5

SPECIFICATION Spec
CHECK_DEADLOCK FALSE

INVARIANTS
  TypeOK
  FilesWhole
  OutputIsSnapshot

PROPERTIES
  SecretsKept

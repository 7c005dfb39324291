CONSTANTS
  f = f
  g = g
  a = a
  b = b
  n1 = n1
  n2 = n2
  k1 = k1
  k2 = k2
  Folders = {f, g}
  Ops = {a, b}
  Names = {n1, n2}
  Contracts = {k1, k2}
  MaxEdits = 2
  MaxMeddling = 1
  None = None

SPECIFICATION Spec
SYMMETRY Symmetry
INVARIANT TypeOK
INVARIANT PlanTellsTheTruth
PROPERTY IdsStable

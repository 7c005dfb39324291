SPECIFICATION Spec
CONSTANTS
  root = root
  leaf = leaf
  Groups = {root, leaf}
  Group = leaf
  GroupPath <- MCGroupPath
  RequestTimeout = 1
  CallTimeout = 2
  MaxRows = 2
  None = None
INVARIANT TypeOK
INVARIANT WindowOnlyForTheGroup
INVARIANT ClosedMeansGone
PROPERTY AtMostOnce
 
CHECK_DEADLOCK FALSE

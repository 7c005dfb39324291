CONSTANTS
  smoke = smoke
  contract = contract
  None = None
  Suites = {smoke, contract}
  Scenarios <- MCScenarios
  MaxRuns = 2
  MaxEdits = 2

SPECIFICATION Spec
CHECK_DEADLOCK FALSE

INVARIANTS
  TypeOK
  SuccessIsReal
  ReportsBelongTogether
  RequestsStayAllowed

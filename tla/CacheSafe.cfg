SPECIFICATION Spec
CONSTANTS
  h1 = h1
  h2 = h2
  Handlers <- MCHandlers
  URLs = {"url"}
  Resources <- MCResources
  Ranged = {TRUE, FALSE}
  ExceedSize = 3
  MayCrash = TRUE
  MaxRestarts = 1
SYMMETRY HandlerSymmetry
INVARIANTS
  TypeOK
  SizeIsTotal
  EngineGetsLargeFile
  FailureLeavesNoRecord
  SizeHasCode

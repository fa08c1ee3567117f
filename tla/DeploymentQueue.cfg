SPECIFICATION Spec
CONSTANTS
  d1 = d1
  d2 = d2
  e1 = e1
  e2 = e2
  NoOne = NoOne
  Deployment = {d1, d2}
  Requested = {"ERC20", "AccountAbstraction"}
  Engine = {e1, e2}
  MaxRuns = 2
  MaxNow = 1
  MaxFaults = 2
SYMMETRY Symmetry
CHECK_DEADLOCK FALSE
INVARIANTS
  RecordMatchesRun
  OneContractUnlessFaulty
  DeploymentsInOrder
PROPERTIES
  RemovedStaysUntouched

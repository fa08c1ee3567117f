SPECIFICATION FairSpecPart
CONSTANTS
  d1 = d1
  d2 = d2
  e1 = e1
  e2 = e2
  t1 = t1
  t2 = t2
  w1 = w1
  c1 = c1
  NoOne = NoOne
  Deployment = {d1, d2}
  Requested <- Kind
  Engine = {e1}
  MaxRuns = 2
  MaxNow = 1
  MaxFaults = 0
CHECK_DEADLOCK FALSE
PROPERTIES
  Settles
  QueueSettles

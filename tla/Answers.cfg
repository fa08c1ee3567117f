SPECIFICATION FairSpecPart
CONSTANTS
  o1 = o1
  a1 = a1
  v1 = v1
  r1 = r1
  r2 = r2
  k1 = k1
  k2 = k2
  w1 = w1
  p1 = p1
  p2 = p2
  f1 = f1
  b1 = b1
  b2 = b2
  NoOp = NoOp
  NotSponsored = NotSponsored
  NoAddress = NoAddress
  NoRequest = NoRequest
  NoPayment = NoPayment
  Zero = Zero
  NoBatch = NoBatch
CHECK_DEADLOCK FALSE
PROPERTIES
  PromisedIsAnswered
  BegunIsEnded

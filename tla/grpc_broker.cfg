CONSTANTS
  a1 = a1
  a2 = a2
  d1 = d1
  d2 = d2
  k1 = k1
  NoCall = NoCall
  Accepts <- MCAccepts
  Dials <- MCDials
  Closes <- MCCloses
  Requests <- MCRequests
  Ids = {1, 2}
SPECIFICATION FairSpec
PROPERTIES ImplementsRendezvous DroppedWithCause CloseLeavesNothing EveryCallReturns
CHECK_DEADLOCK FALSE

CONSTANTS
  a1 = a1
  a2 = a2
  d1 = d1
  d2 = d2
  k1 = k1
  r1 = r1
  r2 = r2
  r3 = r3
  NoCall = NoCall
  NoRpc = NoRpc
  Accepts <- MCAccepts
  Dials <- MCDials
  Closes <- MCCloses
  RpcCalls <- MCRpcCalls
  Requests <- MCRequests
  Asks <- MCAsks
  Ids = {1}
  MaxLoad = 12
SPECIFICATION FairSpec
INVARIANTS AnswersMatch
PROPERTIES ImplementsRendezvous EveryCallReturns
CHECK_DEADLOCK FALSE

CONSTANTS
  MaxVersion = 2
  Offers <- MCOffers
  MaxStarts = 2
SPECIFICATION FairSpec
INVARIANTS NegotiatedIsBest KilledIsOver OneProcess
PROPERTIES CallsReturn
CHECK_DEADLOCK FALSE

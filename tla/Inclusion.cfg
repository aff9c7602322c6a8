\* One device, whose descriptions, include messages and answers may be lost.
CONSTANTS
  MaxInFlight = 2
  ValueIds = {v1}
  NoEntry = NoEntry
SPECIFICATION FairSpec
INVARIANT TypeOK
PROPERTIES GetsIncluded Settles

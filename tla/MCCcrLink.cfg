SPECIFICATION FairSpec
CONSTANTS
  Ccrs = {100, 200}
  Tries = 2
  Timeout = 1
  MaxRequests = 2
  MaxWire = 1
INVARIANTS ConfirmedIsSet LogNamedAfterCcr
PROPERTIES PollingEnds

CONSTANTS
  HTTP_WINDOW = 4
  CREDIT_REFILL = 2
  BODY_CHUNK = 2
  MaxBody = 6
  MaxRequests = 2
  Faults = {"loss", "txfull", "restart"}
  MaxFaults = 2
SPECIFICATION Spec
INVARIANTS  OwnAnswer

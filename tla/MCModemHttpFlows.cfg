CONSTANTS
  HTTP_WINDOW = 4
  CREDIT_REFILL = 2
  BODY_CHUNK = 2
  MaxBody = 6
  MaxRequests = 1
  Faults = {}
  MaxFaults = 0
SPECIFICATION Spec
INVARIANT Flows

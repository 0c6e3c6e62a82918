CONSTANTS
  p1 = p1
  p2 = p2
  p3 = p3
  Phones = {p1, p2, p3}
  Savers = {p1}
  None = None
  MODEM_MAX_SOCKS = 2
  PORTAL_MAX_CONN = 1
  PORTAL_SOCK_WINDOW = 2
  OUT_BUF = 2
  REQUEST = 2
  RESPONSE = 3
  TX_RING = 3
  MaxFaults = 1
SPECIFICATION Spec
INVARIANTS OwnAnswer WholeBeforeClose SavedIsTold
SYMMETRY Alike
CHECK_DEADLOCK FALSE

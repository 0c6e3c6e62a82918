CONSTANTS
  home = home
  office = office
  Ssids = {home, office}
  NoSsid = NoSsid
  Rssi <- MCRssi
  Stored <- MCStored
  Rooms = {"away", "here"}
  KIOSK_MAX_NETWORKS = 2
  Faults = {"power", "crash", "room", "form", "wifi", "forget", "portal", "modem_reset", "slow"}
  MaxFaults = 1
  MaxUp = 2
  MaxDown = 1
  IdleDisconnects = {TRUE}
SPECIFICATION Spec
INVARIANTS WantedAgrees StateAgrees AttemptIsAsked LossNoticed

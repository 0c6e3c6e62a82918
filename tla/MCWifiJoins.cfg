CONSTANTS
  home = home
  office = office
  Ssids = {home}
  NoSsid = NoSsid
  Rssi <- MCRssi
  Stored <- MCStored
  Rooms = {"away", "here", "hidden", "locked"}
  KIOSK_MAX_NETWORKS = 2
  Faults = {"power", "crash", "lose", "room", "slow"}
  MaxFaults = 1
  MaxUp = 2
  MaxDown = 1
  IdleDisconnects = {TRUE, FALSE}
SPECIFICATION FairSpec
PROPERTY Joins

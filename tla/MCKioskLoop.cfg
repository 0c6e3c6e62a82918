CONSTANTS
  Sets = {s1, s2}
  NoSet = NoSet
  MaxRev = 3
  Faults <- Everything
  MaxFaults = 2
  OFFLINE_AFTER_FAILURES = 2
  CONFIG_404S = 2
  WEDGE_TIMEOUTS = 2
  WEDGE_REBOOT_LIMIT = 1
SPECIFICATION FairSpec
INVARIANTS FrameDrawable CallbackInState BadgeShown ParkedOnSeen SessionOwned 
PROPERTIES NeverHalfDrawn Recovers

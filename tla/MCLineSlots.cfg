CONSTANTS
  LINE_SLOTS = 8
  VFront = 2
  VSync = 1
  VBack = 5
  VActive = 12
  Slack = 2
SPECIFICATION SlotsSpec
INVARIANTS BeamShowsItsLine SlotsHeld OnTime

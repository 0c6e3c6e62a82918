CONSTANTS
  TX_RING_BYTES = 8
  MAX_PAYLOAD = 2
  Payloads <- MCPayloads
  MaxFrames = 5
  MaxDamage = 2
SPECIFICATION LinkSpec
CHECK_DEADLOCK FALSE
INVARIANTS WireIsQueue LossIsBounded

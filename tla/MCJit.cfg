CONSTANTS
  W = 112
  TX_START_DELAY = 1
  TX_MARGIN_DELAY = 1
  TX_JIT_DELAY = 5
  TX_MAX_ADVANCE_DELAY = 54
  BEACON_GUARD = 3
  BEACON_RESERVED = 2
  JIT_QUEUE_MAX = 3
  TimeOnAir = {1, 3}
  Offsets <- GuardedMix
  Lag = 1
  Timely = TRUE
  Paced = TRUE
SPECIFICATION EmissionSpec
INVARIANTS BeaconsCounted NoOverlap 
 

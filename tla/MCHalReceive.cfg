CONSTANTS
  COUNTER = 3
  WRAPS = 4
  FTIME = TRUE
  max_pkt = 3
  MAX_CONSECUTIVE_RX_ERRORS = 3
  Kinds <- AllKinds
  MaxTime = 13
  MaxFrames = 2
  MaxBusFaults = 1
SPECIFICATION FairHalSpec
INVARIANTS
  TimesRight
  
PROPERTIES
  
  EventuallyRead
CHECK_DEADLOCK FALSE

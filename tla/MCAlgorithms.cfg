CONSTANTS
  DIGIT = 2
  CPS = 7
  NSEC = 16
  WRAP = 49
  SECOND = 4
  COUNTER_RANGE = 49
  MAX_TIMESTAMP_PPS_HISTORY = 4
  MaxTicks = 90
  MaxAge = 7
  MaxGap = 2
  Epoch = 30
  RANGE = 16
  TX_MAX_ADVANCE_DELAY = 7
  beacon_period = 2
  JIT_NUM_BEACON_IN_QUEUE = 2
  GPS_REF_MAX_AGE = 9
  XERR_INIT_AVG = 8
  Saturates = {TRUE, FALSE}
  MaxTime = 30
  Calm = 3
  MaxLost = 2
  LGW_LBT_CHANNEL_NB_MAX = 2
  TX_GAIN_LUT_SIZE_MAX = 3
  REF_PAYLOAD_MAX = 1
  LbtLists <- MCLbtLists
  GainTables <- MCGainTables
  SfLists <- MCSfLists
  IfChannels <- MCIfChannels
  Texts <- PlainTexts
  Powers = {9, 10, 11, 12, 13, 18, 20, 21}
SPECIFICATION Spec
INVARIANTS
  
  
  
  ReferenceRight
  ProgramMatchesHal
CHECK_DEADLOCK FALSE

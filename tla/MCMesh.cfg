CONSTANTS
  Type <- MCType
  Links <- MCLinks
  Joined <- MCJoined
  Traffic <- MCTraffic
  MaxMuid = 4
  MaxAsked = 2
  Muid <- MCMuid
  numHashes = 2
  totalBits = 7
  maxMsgs = 3
  Djb2 <- MCDjb2
SPECIFICATION Spec
CHECK_DEADLOCK FALSE
INVARIANTS
  RelayedOnce
  RecentIsSeen
  OldIsForgotten
  PhaseInv
PROPERTY UplinkReaches

CONSTANTS
  Kind <- MixedKinds
  NB_PKT_MAX = 3
  MAX_QUEUE_SIZE = 2
  MAX_CONSECUTIVE_RX_ERRORS = 2
  Calls <- DaemonCalls
  Muid <- MCMuid
  numHashes = 2
  totalBits = 6
  bitsPerSector = 2
  maxMsgs = 2
  MaxAttempts = 2
  Djb2 <- MCDjb2
  Threads = {thread_duck}
SPECIFICATION Spec
INVARIANTS InOrder PacketsKept 
PROPERTIES QueueIsServed CallsAreAtomic
CHECK_DEADLOCK FALSE

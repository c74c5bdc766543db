CONSTANTS
  Muid <- MCMuid
  numHashes = 2
  totalBits = 6
  bitsPerSector = 2
  maxMsgs = 2
  MaxAttempts = 2
  Djb2 <- MCDjb2
  Threads = {thread_duck, mqtt_callback}
SPECIFICATION ThreadsSpec
INVARIANT OwnIsRecognised

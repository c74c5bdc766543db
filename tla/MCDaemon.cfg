CONSTANT Settings <- MCSettings
SPECIFICATION FairDaemonSpec
 
PROPERTY SignalEnds
CHECK_DEADLOCK FALSE

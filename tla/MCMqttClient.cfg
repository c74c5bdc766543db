CONSTANTS
  MQTT_QUEUE_SIZE = 2
  Uplink = {u1, u2}
  Response = {r1}
  Message <- AllMessages
  NULL = NULL
  initial_delay = 1
  mqtt_max_reconnect_delay = 3
  MallocMayFail = TRUE
  Outages = 2
SPECIFICATION FairMqttSpec
INVARIANT RingOwnership
PROPERTIES Accounted RingIsFifo Recovers
CHECK_DEADLOCK FALSE

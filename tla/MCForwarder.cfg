CONSTANTS
  Loads <- MCLoads
  fwd_valid_pkt = TRUE
  fwd_error_pkt = FALSE
  fwd_nocrc_pkt = FALSE
  NB_PKT_MAX = 2
  tx_enable <- MCtx_enable
  tx_freq_max = 1
  txlut <- MCtxlut
  JIT_QUEUE_MAX = 1
  autoquit_threshold = 2
  Tokens = {1, 2}
SPECIFICATION FairForwarderSpec
INVARIANT AcksReadRight
PROPERTY QuitEnds
CHECK_DEADLOCK FALSE

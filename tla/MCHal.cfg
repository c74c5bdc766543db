SPECIFICATION Spec
CONSTANTS
  Values = {0, 1}
  RadioValues = {1}
  Images = {1}
  Chunks = 2
  MaxReqs = 2
  MaxFaults = 1
  MaxCrashes = 1
  Sx1250 = FALSE
  FullDuplex = 0
  Lbt = 1
  DoubleDemod = 255
  MaxMcuFaults = 2
  MaxChipFaults = 1
  MaxCalls = 4
  Freqs = {0, 2}
  Confs <- MCConfs
  IfSettings <- MCIfSettings
  TxGains <- MCGains
  Emissions <- MCEmissions
  LbtChannels <- MCLbtChannels
  Downlinks <- MCDownlinks
  FreqStart = 600
  NbChan = 2
  MaxListenFaults = 1
INVARIANTS LinkRight AgcConfigured ClockSafe ControlRight  ScanHarmless
CHECK_DEADLOCK FALSE

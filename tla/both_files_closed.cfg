SPECIFICATION Spec
CONSTANTS
  MaxFiles = 1
  MaxFaults = 0
  GnssPeriods = {0, 20}
  ImuPeriods = {0, 10}
  InactivePeriods = {0, 1, 2}
  Defaults <- MCDefaults
  InitialConfigs <- NoConfigs
  Tokens <- LogOnly
  CharReadSize = 3
  RxDepth = 1
  MinInactive = 1
  TicksPerSecond = 1
  BtnHold = 1
  MaxRecords = 1
  MaxTokens = 1
  MaxPowerCuts = 0
PROPERTY BothFilesClosed
CHECK_DEADLOCK FALSE

SPECIFICATION FairSpec
CONSTANTS
  MaxFiles = 1
  MaxFaults = 1
  GnssPeriods = {0, 20}
  ImuPeriods = {0, 10}
  InactivePeriods = {0, 1, 2}
  Defaults <- MCDefaults
  InitialConfigs <- NoConfigs
  Tokens <- NoTokens
  CharReadSize = 3
  RxDepth = 1
  MinInactive = 1
  TicksPerSecond = 1
  BtnHold = 1
  MaxRecords = 1
  MaxTokens = 0
  MaxPowerCuts = 0
PROPERTY SaveAndShutdown
CHECK_DEADLOCK FALSE

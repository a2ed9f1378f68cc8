SPECIFICATION Spec
CONSTANTS
  MaxFiles = 1
  MaxFaults = 0
  GnssPeriods = {0, 20}
  ImuPeriods = {0, 10}
  InactivePeriods = {0, 1}
  Defaults <- Hasty
  InitialConfigs <- NoConfigs
  Tokens <- MixedTokens
  CharReadSize = 2
  RxDepth = 1
  MinInactive = 0
  TicksPerSecond = 1
  BtnHold = 1
  MaxRecords = 2
  MaxTokens = 4
  MaxPowerCuts = 0
PROPERTY WritesConfigFile
CHECK_DEADLOCK FALSE

SPECIFICATION FairSpec
CONSTANTS
  MaxFiles = 1
  MaxFaults = 1
  GnssPeriods = {0, 20}
  ImuPeriods = {0, 10}
  InactivePeriods = {0, 1}
  Defaults <- Hasty
  InitialConfigs <- NoConfigs
  Tokens <- DisplayTokens
  CharReadSize = 2
  RxDepth = 1
  MinInactive = 0
  TicksPerSecond = 1
  BtnHold = 1
  MaxRecords = 1
  MaxTokens = 2
  MaxPowerCuts = 0
INVARIANTS LogIntegrity LogsSavedAtPowerOff
PROPERTIES RecordSettles ShutdownCompletes
CHECK_DEADLOCK FALSE

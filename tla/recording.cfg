SPECIFICATION Spec
CONSTANTS
  MaxFiles = 1
  MaxFaults = 1
  GnssPeriods = {0, 5, 20}
  ImuPeriods = {0, 10}
  InactivePeriods = {0, 1}
  Defaults <- Hasty
  InitialConfigs <- ShortPeriods
  Tokens <- LoggingTokens
  CharReadSize = 3
  RxDepth = 1
  MinInactive = 0
  TicksPerSecond = 1
  BtnHold = 1
  MaxRecords = 2
  MaxTokens = 1
  MaxPowerCuts = 1
INVARIANTS TypeOK LogIntegrity HandlesOwned LogsSavedAtPowerOff
PROPERTY LogIsDurable
CHECK_DEADLOCK FALSE

SPECIFICATION Spec
CONSTANTS
  MaxFiles = 1
  MaxFaults = 1
  GnssPeriods = {0, 20}
  ImuPeriods = {0, 10}
  InactivePeriods = {0, 1, 2}
  Defaults <- MCDefaults
  InitialConfigs <- OtherConfigs
  Tokens <- ConfigTokens
  CharReadSize = 3
  RxDepth = 1
  MinInactive = 1
  TicksPerSecond = 1
  BtnHold = 1
  MaxRecords = 0
  MaxTokens = 3
  MaxPowerCuts = 1
INVARIANTS ConfigWellFormed LogsSavedAtPowerOff
PROPERTIES BootSettings PeriodsKept
CHECK_DEADLOCK FALSE

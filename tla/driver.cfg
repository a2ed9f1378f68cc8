SPECIFICATION Spec
CONSTANTS
  Registers <- SettableRegisters
  Settings <- MCSettings
  ReadOnly <- MCReadOnly
  Measures <- MCMeasures
  Conversions <- MCConversions
  Starts <- MCStarts
  ValuesOf <- MCValuesOf
  MaxCalls = 3
  MaxFaults = 2
INVARIANTS TypeOK CacheCoherent
PROPERTIES SuccessIsExact ReadsAreTrue FailureIsContained Resynchronised AutoSleepFits
CHECK_DEADLOCK FALSE

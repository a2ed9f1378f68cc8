SPECIFICATION Spec
CONSTANTS
  Registers <- SettableRegisters
  Settings <- MCSettings
  ReadOnly <- MCReadOnly
  Measures <- MCMeasures
  Conversions <- MCConversions
  Starts <- MCStarts
  ValuesOf <- MCValuesOf
  MaxCalls = 3
  MaxFaults = 1
PROPERTY PreviousModeRestored
CHECK_DEADLOCK FALSE

SPECIFICATION Spec
CONSTANTS
  Period <- MCPeriod
  HoldShutdown = 2
  MaxDebounceCount = 2
  Wrap = 5
  LogSteps = 3
  MaxTicks = 6
  MaxPresses = 3
  MaxCommands = 1
INVARIANTS TypeOK RecordedTimeIsPast MeasuresAreDue PressesDoNotAddUp
PROPERTIES EventsAreDebounced 
CHECK_DEADLOCK FALSE

SPECIFICATION Spec
CONSTANTS
  Registers <- MCRegisters
  MaxFaults = 3
  MaxStarts = 2
INVARIANTS CacheCoherent MeasureIsTrue OneFailureIsHarmless AsleepAtPowerOff

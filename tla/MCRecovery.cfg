SPECIFICATION LiveSpec
CONSTANTS
  p = p
  q = q
  v = v
  x = x
  w1 = w1
  NoReading = NoReading
  Point = {p}
  Value = {v}
  Worker = {w1}
  NewStamps <- EdgeStamps
  Unacceptable <- None
  NonNumeric <- All
  Unprocessable <- FirstReadings
  MaxRows = 2
  MaxAttempts = 1
  BackoffBase = 1
  BackoffSteps = 1
  MaxBackoff = 2
  ReplayLimit = 1
  MaxReadCycles = 2
  MaxStale = 1
PROPERTIES DrainsAfterOutage

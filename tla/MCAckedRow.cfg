SPECIFICATION Spec
CONSTANTS
  p = p
  q = q
  v = v
  x = x
  w1 = w1
  NoReading = NoReading
  Point = {p}
  Value = {v}
  Worker = {w1}
  NewStamps <- EdgeStamps
  Unacceptable <- None
  NonNumeric <- All
  Unprocessable <- None
  MaxRows = 1
  MaxAttempts = 1
  BackoffBase = 1
  BackoffSteps = 1
  MaxBackoff = 1
  ReplayLimit = 1
  MaxReadCycles = 1
  MaxStale = 0
PROPERTIES AckedIsRecorded

SPECIFICATION Spec
CONSTANTS
  p = p
  q = q
  v = v
  x = x
  w1 = w1
  NoReading = NoReading
  Point = {p}
  Value = {v, x}
  Worker = {w1}
  NewStamps <- SourceStamps
  Unacceptable <- None
  NonNumeric <- All
  Unprocessable <- None
  MaxRows = 2
  MaxAttempts = 1
  BackoffBase = 1
  BackoffSteps = 1
  MaxBackoff = 1
  ReplayLimit = 2
  MaxReadCycles = 2
  MaxStale = 1
INVARIANTS StoredIsAccountedFor SuccessIsForThisRequest ReplayListIsCurrent

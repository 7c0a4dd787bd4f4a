SPECIFICATION EndsSpec
CONSTANTS
  MaxRows = 2
  MaxAttempts = 2
  BackoffBase = 1
  BackoffSteps = 2
  MaxBackoff = 3
  MaxId = 4
  p = p
  q = q
  v = v
  x = x
  w1 = w1
  Worker = {w1}
  NoReading = NoReading
  Point <- MCPoint
  Event <- MCEvent
  PointOf <- MCPointOf
  SlotOf <- MCSlotOf
  KeyOf <- MCSlotOf
  Unacceptable <- MCUnacceptable
  NonNumeric <- MCNonNumeric
INVARIANTS DepthBounded OneRowPerReading OldestDroppedFirst NoSilentDeletion
  MarkedAfterApplied AnsweredIsRecorded HistoryIsRecorded NoResurrection
PROPERTIES DropsOnlyTheExcess AppliedOnce

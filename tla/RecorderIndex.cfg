SPECIFICATION Spec
CONSTANTS
  a = a
  r1 = r1
  r2 = r2
  Stream <- OneStream
  Caller <- TwoCallers
  AutoRecord <- OneStream
  MaxRecording = 1
  EventCapacity = 2
  StorageFails = TRUE
  MaxTime = 1
  MaxForward = 2
  MaxChange = 2
  MaxTask = 2
INVARIANT NoOrphanTask
INVARIANT ActiveIsRegistered
\* Time, incarnations and recordings are bounded.
CHECK_DEADLOCK FALSE

SPECIFICATION FairSpec
CONSTANTS
  a = a
  r1 = r1
  r2 = r2
  Stream <- OneStream
  Caller <- None
  AutoRecord <- OneStream
  MaxRecording = 0
  EventCapacity = 8
  StorageFails = FALSE
  MaxTime = 0
  MaxForward = 1
  MaxChange = 2
  MaxTask = 1
PROPERTY EndedTaskForgotten
\* Time, incarnations and recordings are bounded.
CHECK_DEADLOCK FALSE

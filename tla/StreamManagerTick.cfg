SPECIFICATION Spec
CONSTANTS
  a = a
  p1 = p1
  p2 = p2
  w1 = w1
  d1 = d1
  None = None
  Stream <- OneStream
  Publisher <- TwoPublishers
  Subscriber <- OneSubscriber
  Deleter <- OneDeleter
  AutoCreatePub = TRUE
  AutoCreateSub = FALSE
  PubTimeout = 0
  SubTimeout = 0
  FirstTime = 5
  MaxTime = 6
  MaxForward = 2
SYMMETRY Symmetry
INVARIANT StreamEventsBalance
PROPERTY TickSparesBusyStreams
\* The clock and the incarnations are bounded.
CHECK_DEADLOCK FALSE

SPECIFICATION AttentiveSpec
CONSTANTS
  h1 = h1
  c1 = c1
  w1 = w1
  w2 = w2
  Hook <- OneHook
  Client <- OneClient
  Writer <- TwoWriters
  ForwardCapacity = 2
  EventCapacity = 2
  SseCapacity = 1
  MaxForwardEvents = 4
INVARIANT HookSeesPrefix
PROPERTY HookCatchesUp
PROPERTY RequestServed
\* The events and requests of the instance are used up.
CHECK_DEADLOCK FALSE

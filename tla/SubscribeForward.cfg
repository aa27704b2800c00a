SPECIFICATION Spec
CONSTANTS
  Enable = Enable
  Disable = Disable
  None = None
  Lagged = Lagged
  Layers <- PlainThenSimulcast
  Voiced <- Both
  Refused <- FirstVideo
  MaxSelect = 2
INVARIANT RtcpReachesSource
INVARIANT NoLostChange
PROPERTY DisabledStaysSilent
\* Publishers and requests are used up, and the subscriber has left.
CHECK_DEADLOCK FALSE

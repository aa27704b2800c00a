SPECIFICATION Spec
CONSTANTS
  Codec <- AllCodecs
  Script <- Scripts
  SeqWrap = 8
  MaxParts = 3
  MaxUnits = 4
  TsMod = 8
  VideoScale = 2
  AudioScale = 2
  SegSeconds = 1
  DefaultTicks = 1
  AudioTicks = 1
  InitialTimeout = 1
  MaxTimeout = 2
  MaxRequests = 2
  MaxAudio <- Audio
  MaxFault <- Faults
  MaxTrack <- Tracks
  MaxTime <- Times
INVARIANT UnitsWhole
INVARIANT LosslessExact
INVARIANT ManifestExact
INVARIANT SegmentsSeekable
INVARIANT FlushedAtEnd
INVARIANT PliBacksOff
\* The task ends.
CHECK_DEADLOCK FALSE

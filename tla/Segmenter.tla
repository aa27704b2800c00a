-------------------------------- MODULE Segmenter ------------------------------
(***************************************************************************)
(* The segmenter of the recorder (liveion/src/recorder/segmenter.rs): one  *)
(* video and one audio track cut into fragments, with a manifest.  Its     *)
(* operations are operators from its state to its next state; `files` is   *)
(* the sequence of writes it has handed to store_file.  Bit rates, frame   *)
(* rates and the XML of the manifest are left out.                         *)
(***************************************************************************)
EXTENDS RtpParser, PliBackoff, Fmp4

CONSTANTS
  VideoScale, AudioScale,   \* ticks per second: 90000, and 48000 for Opus
  SegSeconds,               \* DEFAULT_SEG_DURATION
  DefaultTicks              \* the duration of a frame that gives none: 3000

ASSUME SegmenterAssumption ==
  {VideoScale, AudioScale, SegSeconds, DefaultTicks} \subseteq Nat \ {0}

NewSegmenter ==
  [adapter |-> FALSE, cfg |-> NoConfig, track |-> FALSE,
   index |-> 0, start |-> 0, pts |-> 0, samples |-> <<>>, segments |-> <<>>,
   atrack |-> FALSE,
   aindex |-> 0, astart |-> 0, apts |-> 0, asamples |-> <<>>, asegments |-> <<>>,
   pli |-> NewBackoff, files |-> <<>>]

\* The write is spawned as a task of its own and nobody waits for it: `files`
\* says what was handed over, and when.  What storage holds is left open: each
\* write may come at any later time, before or after others, or fail.
StoreFile(s, file) == [s EXCEPT !.files = Append(@, file)]

End(segments) ==
  IF segments = <<>> THEN 0
  ELSE LET l == segments[Len(segments)] IN l.start_time + l.duration

Longest(segments) == Max({0} \cup {segments[i].duration : i \in DOMAIN segments})

Larger(a, b) == IF a >= b THEN a ELSE b

\* Times of both tracks are in seconds times both scales.  A presentation
\* without segments takes the length of one segment.
WriteManifest(s) ==
  LET longest == Larger(Longest(s.segments) * AudioScale, Longest(s.asegments) * VideoScale)
      max == IF longest = 0 THEN SegSeconds * VideoScale * AudioScale ELSE longest
      end == Larger(End(s.segments) * AudioScale, End(s.asegments) * VideoScale)
  IN IF ~s.track /\ ~s.atrack THEN s
     ELSE StoreFile(s, [name |-> "manifest", video |-> s.segments, audio |-> s.asegments,
                        max_segment |-> max, duration |-> IF end = 0 THEN max ELSE end])

OpenNewSegment(s) == [s EXCEPT !.samples = <<>>, !.start = s.pts, !.index = @ + 1]

\* codec_string, up to the first dot.  (An H265 adapter whose SPS cannot be
\* parsed has none; such streams are left out.)
CodecString(codec) ==
  CASE codec = "h264" -> "avc1" [] codec = "h265" -> "hev1"
    [] codec = "vp9" -> "vp09"  [] codec = "av1" -> "av01"

InitWriter(s, codec) ==
  LET cs == CodecString(codec)
      config == IF cs \in {"avc1", "av01", "hev1"} THEN s.cfg ELSE NoConfig
      init == [name |-> "v_init", of |-> BuildInitSegment(cs, config)]
  IN OpenNewSegment(WriteManifest(StoreFile([s EXCEPT !.track = TRUE], init)))

\* Mutant: the next segment starts where this one started.
RollSegmentStale(s) ==
  LET fragment == BuildFragment(s.index, s.start, s.samples)
      stored == StoreFile(s, [name |-> "v_seg", of |-> fragment])
      listed == [stored EXCEPT !.segments =
                   Append(@, [start_time |-> s.start, duration |-> s.pts - s.start])]
  IN IF s.samples = <<>> \/ ~s.track THEN s
     ELSE WriteManifest([listed EXCEPT !.samples = <<>>, !.index = @ + 1])

RollSegment(s) ==
  LET fragment == BuildFragment(s.index, s.start, s.samples)
      stored == StoreFile(s, [name |-> "v_seg", of |-> fragment])
      listed == [stored EXCEPT !.segments =
                   Append(@, [start_time |-> s.start, duration |-> s.pts - s.start])]
  IN IF s.samples = <<>> \/ ~s.track THEN s ELSE WriteManifest(OpenNewSegment(listed))

RollAudioSegment(s, force) ==
  LET length == s.apts - s.astart
      fragment == BuildFragment(s.aindex + 1, s.astart, s.asamples)
      stored == StoreFile([s EXCEPT !.aindex = @ + 1], [name |-> "a_seg", of |-> fragment])
      listed == [stored EXCEPT !.asegments =
                   Append(@, [start_time |-> s.astart, duration |-> length])]
  IN IF ~s.atrack \/ s.asamples = <<>> \/ (~force /\ length < AudioScale * SegSeconds) THEN s
     ELSE WriteManifest([listed EXCEPT !.asamples = <<>>, !.astart = s.apts])

\* Mutant: the audio of the last segment is left behind.
FlushVideo(s) == RollSegment(s)

FlushSegmenter(s) == RollAudioSegment(RollSegment(s), TRUE)

--------------------------------------------------------------------------------
ResetVideoState(s) ==
  [s EXCEPT !.track = FALSE, !.samples = <<>>, !.index = 0, !.start = 0, !.pts = 0,
            !.segments = <<>>, !.pli = HardReset(@)]

\* The codec of a task never changes: the first frame alone makes an adapter.
EnsureVideoAdapter(s) ==
  IF s.adapter THEN s ELSE [ResetVideoState(s) EXCEPT !.adapter = TRUE, !.cfg = NoConfig]

Sample(frame, dur, sync) ==
  [frame |-> frame, duration |-> dur, is_sync |-> sync]

\* Until the configuration is known, frames are dropped.  A segment is cut
\* before a sync frame once it is long enough.
PushVideoFrame(s, codec, frame, ticks, now) ==
  LET a == EnsureVideoAdapter(s)
      v == ConvertFrame(codec, a.cfg, frame)
      dur == IF ticks = 0 THEN DefaultTicks ELSE ticks
      b == [a EXCEPT !.cfg = v.cfg, !.pli = IF v.sync THEN RecordKeyframe(@, now) ELSE @]
      c == IF v.sync /\ b.pts - b.start >= VideoScale * SegSeconds THEN RollSegment(b) ELSE b
      d == IF c.track THEN c ELSE InitWriter(c, codec)
  IN IF ~c.track /\ ~v.updated /\ ~v.ready THEN c
     ELSE [d EXCEPT !.samples = Append(@, Sample(frame, dur, v.sync)), !.pts = @ + dur]

InitAudioWriter(s) ==
  WriteManifest(
    [StoreFile(s, [name |-> "a_init", of |-> BuildInitSegment("opus", NoConfig)])
       EXCEPT !.atrack = TRUE, !.aindex = 0, !.astart = s.apts])

PushOpus(s, payload, ticks) ==
  LET a == IF s.atrack THEN s ELSE InitAudioWriter(s)
      b == [a EXCEPT !.astart = IF a.asamples = <<>> THEN a.apts ELSE @,
                     !.asamples = Append(@, Sample(<<payload>>, ticks, TRUE)),
                     !.apts = @ + ticks]
  IN RollAudioSegment(b, FALSE)
================================================================================

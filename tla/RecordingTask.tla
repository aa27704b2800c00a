----------------------------- MODULE RecordingTask -----------------------------
(***************************************************************************)
(* The task that records a stream (liveion/src/recorder/task.rs), with its *)
(* parsers and its segmenter: from the RTP packets of the publisher's      *)
(* tracks to the files handed to storage.                                  *)
(*                                                                         *)
(* Script gives the packets a publisher sends in each codec.  The network  *)
(* loses packets, or lets one overtake another.  A track's broadcast       *)
(* channel keeps its order, so that sending and receiving are one step; a  *)
(* receiver that is too slow sees Lagged instead.  The biased select only  *)
(* orders branches that are ready together, and the environment decides    *)
(* when each is.                                                           *)
(***************************************************************************)
EXTENDS Segmenter, SequencesExt

CONSTANTS
  Codec,        \* the codecs tried, each with its script
  Script,       \* Script[c]: packets [ts, marker, elems]
  TsMod,        \* RTP timestamps wrap (2^32)
  AudioTicks,   \* the duration of the first audio packet: 960
  MaxAudio, MaxFault, MaxTrack, MaxTime
    \* bounds for each codec: audio packets, faults, tracks that come or go, seconds

ASSUME RecordingTaskAssumption ==
  /\ {TsMod, AudioTicks} \subseteq Nat \ {0}
  /\ {MaxAudio, MaxFault, MaxTrack, MaxTime} \subseteq [Codec -> Nat]
  /\ Codec \subseteq {"h264", "h265", "vp9", "av1"}

\* Packet n carries the sequence number after that of packet k.
Follows(k, n) == ((k % SeqWrap) + 1) % SeqWrap = n % SeqWrap

Continues(elems) == elems # <<>> /\ elems[1].part # 1

\* e is the part of its unit after d.
NextPart(d, e) ==
  e.part = d.part + 1 /\ d.part # d.parts
    /\ e.parts = d.parts /\ e.frame = d.frame /\ e.unit = d.unit

\* What the payload formats say of the packets of a script.  Only the first
\* element of a packet goes on with a unit, that of the packet before it, and
\* only the last is gone on with; a VP9 packet has one element.
Packetized(packets) ==
  \A n \in DOMAIN packets :
    LET elems == packets[n].elems IN
    /\ packets[n].ts \in Nat
    /\ elems \in Seq({elems[i] : i \in DOMAIN elems})
    /\ \A i \in DOMAIN elems :
         /\ elems[i].part \in Nat
         /\ i > 1 => elems[i].part = 1
         /\ i < Len(elems) => elems[i].part = elems[i].parts
    /\ Continues(elems) /\ n > 1 =>
         LET before == packets[n - 1].elems IN
         before # <<>> => NextPart(before[Len(before)], elems[1])

\* Sequence numbers wrap, but no two packets are mistaken for neighbours where a
\* unit goes on.
Unambiguous(packets) ==
  \A k, n \in DOMAIN packets : Follows(k, n) /\ Continues(packets[n].elems) => n = k + 1

ASSUME ScriptAssumption ==
  \A c \in Codec :
    /\ Script[c] \in Seq({Script[c][n] : n \in DOMAIN Script[c]})
    /\ Packetized(Script[c])
    /\ c \in {"vp9", "av1"} => Unambiguous(Script[c])
    /\ c = "vp9" => \A n \in DOMAIN Script[c] : Len(Script[c][n].elems) <= 1

NoPacket == 0
NoTs == -1

VARIABLES
  codec,       \* the codec of the stream's video
  tracks,      \* the kinds of track that the publisher has
  pos,         \* packets of the script sent so far
  overtaken,   \* a packet that the next one overtakes, or NoPacket
  apos,        \* audio packets sent so far
  notified,    \* track changes the task has not received
  phase,       \* "waiting" and "chosen" in spawn, "running", "ended"
  rx,          \* rx[k]: the task's receiver of kind k: "none", "open", "closed"
  prev,        \* prev[k]: the timestamp of the last frame of kind k, or NoTs
  parser, seg,
  now, ticks,  \* seconds, and ticks of keyframe_check_interval handled
  faults, changes,
  intact,      \* history: no packet was missed, and the script seen from its start
  asks,        \* history: when PLIs were sent since the back-off started over
  before       \* history: the PLIs that no keyframe answered before it did so
               \* for the first frame

pubVars == <<codec, tracks, pos, overtaken, apos, changes>>
vars == <<pubVars, notified, phase, rx, prev, parser, seg, now, ticks, faults,
          intact, asks, before>>

Packet(n) ==
  LET p == Script[codec][n] IN
  [seq |-> n % SeqWrap, ts |-> p.ts % TsMod, marker |-> p.marker, elems |-> p.elems]

Init ==
  /\ codec \in Codec
  /\ tracks = {} /\ pos = 0 /\ overtaken = NoPacket /\ apos = 0
  /\ notified = 0 /\ phase = "waiting"
  /\ rx = [k \in {"video", "audio"} |-> "none"]
  /\ prev = [k \in {"video", "audio"} |-> NoTs]
  /\ parser = NewParser /\ seg = NewSegmenter
  /\ now = 0 /\ ticks = 0 /\ faults = 0 /\ changes = 0
  /\ intact = TRUE /\ asks = <<>> /\ before = <<>>

--------------------------------------------------------------------------------
(* The publisher and the network.                                          *)

Passes ==
  /\ now < MaxTime[codec]
  /\ now' = now + 1
  /\ UNCHANGED <<pubVars, notified, phase, rx, prev, parser, seg, ticks, faults,
                 intact, asks, before>>

\* Where the script may be taken up by a publisher: at the start of a frame.
FrameStart(n) == n = 0 \/ n = Len(Script[codec]) \/ Script[codec][n].marker

NextStart ==
  {n \in pos..Len(Script[codec]) : FrameStart(n) /\ \A m \in pos..(n - 1) : ~FrameStart(m)}

\* publish_track_up: only the task's own subscription is told.
TrackUp(k) ==
  /\ k \notin tracks /\ changes < MaxTrack[codec]
  /\ changes' = changes + 1
  /\ tracks' = tracks \cup {k}
  /\ notified' = IF phase = "running" THEN notified + 1 ELSE notified
  /\ pos' \in IF k = "video" THEN NextStart ELSE {pos}
  /\ intact' = (intact /\ pos' = pos)
  /\ UNCHANGED <<codec, overtaken, apos, phase, rx, prev, parser, seg, now, ticks,
                 faults, asks, before>>

\* The publisher leaves: its tracks go and their channels close.
TracksDown ==
  /\ tracks # {} /\ changes < MaxTrack[codec]
  /\ changes' = changes + 1
  /\ tracks' = {}
  /\ notified' = IF phase = "running" THEN notified + 1 ELSE notified
  /\ rx' = [k \in DOMAIN rx |-> IF rx[k] = "open" THEN "closed" ELSE rx[k]]
  /\ UNCHANGED <<codec, pos, overtaken, apos, phase, prev, parser, seg, now, ticks,
                 faults, intact, asks, before>>

Sent == pos < Len(Script[codec]) /\ "video" \in tracks

\* A packet is sent and lost on the way, or held up so that the next overtakes
\* it, or sent while nobody records: only the last costs the network nothing.
Lose ==
  /\ Sent
  /\ pos' = pos + 1
  /\ IF rx["video"] = "open"
     THEN /\ faults < MaxFault[codec] /\ faults' = faults + 1
          /\ overtaken' \in {overtaken} \cup (IF overtaken = NoPacket THEN {pos + 1} ELSE {})
     ELSE UNCHANGED <<faults, overtaken>>
  /\ intact' = FALSE
  /\ UNCHANGED <<codec, tracks, apos, changes, notified, phase, rx, prev, parser, seg,
                 now, ticks, asks, before>>

--------------------------------------------------------------------------------
(* RecordingTask::spawn                                                    *)

\* The loop that waits for a track: video with its codec, or audio.
Choose ==
  /\ phase = "waiting" /\ tracks # {}
  /\ rx' = [k \in DOMAIN rx |-> IF k \in tracks THEN "open" ELSE "none"]
  /\ phase' = "chosen"
  /\ UNCHANGED <<pubVars, notified, prev, parser, seg, now, ticks, faults, intact, asks, before>>

\* The task that is spawned subscribes to the track changes afresh, and its
\* timer starts.
Run ==
  /\ phase = "chosen"
  /\ phase' = "running"
  /\ notified' = 0
  /\ ticks' = now
  /\ UNCHANGED <<pubVars, rx, prev, parser, seg, now, faults, intact, asks, before>>

--------------------------------------------------------------------------------
(* The loop of the task.                                                   *)

\* Out of the loop: flush.
EndTask(s) == phase' = "ended" /\ seg' = FlushSegmenter(s)

\* After every branch: without receivers the loop ends.
Settle(s, r) ==
  IF r["video"] = "none" /\ r["audio"] = "none" THEN EndTask(s) ELSE phase' = phase /\ seg' = s

Shutdown ==
  /\ phase = "running"
  /\ EndTask(seg)
  /\ UNCHANGED <<pubVars, notified, rx, prev, parser, now, ticks, faults, intact, asks, before>>

\* keyframe_check_interval, due every second; missed ticks come in a burst.  No
\* PLI is sent while the stream has no video track.
KeyframeTick ==
  /\ phase = "running" /\ rx["video"] # "none"
  /\ ticks <= now
  /\ ticks' = ticks + 1
  /\ IF ShouldRequest(seg.pli, now) /\ "video" \in tracks
     THEN /\ seg' = [seg EXCEPT !.pli = RecordRequest(@, now)]
          /\ asks' = Append(asks, now)
     ELSE UNCHANGED <<seg, asks>>
  /\ UNCHANGED <<pubVars, notified, phase, rx, prev, parser, now, faults, intact,
                 before>>

Elapsed(k, ts, default) == IF prev[k] = NoTs THEN default ELSE (ts - prev[k]) % TsMod

\* A video packet: the parser, and if it completes a frame, the segmenter.
VideoPacket(n) ==
  LET pkt == Packet(n)
      r == PushPacket(codec, parser, pkt)
      first == ~seg.adapter
      key == ConvertFrame(codec, seg.cfg, r.out[1]).sync
      pushed == PushVideoFrame(seg, codec, r.out[1], Elapsed("video", pkt.ts, DefaultTicks), now)
  IN /\ parser' = r.parser
     /\ IF r.out = <<>> THEN UNCHANGED <<seg, prev, asks, before>>
        ELSE /\ seg' = pushed
             /\ prev' = [prev EXCEPT !["video"] = pkt.ts]
             /\ asks' = IF first \/ key THEN <<>> ELSE asks
             /\ before' = IF key THEN <<>> ELSE IF first THEN asks ELSE before

ReceiveVideo ==
  /\ phase = "running" /\ rx["video"] = "open"
  /\ Sent
  /\ pos' = pos + 1
  /\ VideoPacket(pos + 1)
  /\ UNCHANGED <<codec, tracks, overtaken, apos, changes, notified, phase, rx, now, ticks,
                 faults, intact>>

\* A packet that was overtaken comes in.
ReceiveLate ==
  /\ phase = "running" /\ rx["video"] = "open"
  /\ overtaken # NoPacket /\ overtaken < pos
  /\ overtaken' = NoPacket
  /\ VideoPacket(overtaken)
  /\ UNCHANGED <<codec, tracks, pos, apos, changes, notified, phase, rx, now, ticks, faults,
                 intact>>

\* recv().ok(): a closed receiver and one that lags are the same to the task,
\* though the track of the one that lags is still there.
ReceiverGone(k) ==
  /\ phase = "running"
  /\ \/ rx[k] = "closed" /\ UNCHANGED <<pos, faults>>
     \/ /\ rx[k] = "open" /\ faults < MaxFault[codec] /\ faults' = faults + 1
        /\ pos' = IF k = "video" /\ Sent THEN pos + 1 ELSE pos
  /\ rx' = [rx EXCEPT ![k] = "none"]
  /\ prev' = [prev EXCEPT ![k] = NoTs]
  /\ intact' = (intact /\ k # "video")
  /\ overtaken' = IF k = "video" THEN NoPacket ELSE overtaken
  /\ Settle(seg, rx')
  /\ UNCHANGED <<codec, tracks, apos, changes, notified, parser, now, ticks, asks, before>>

\* An audio packet; OpusRtpParser passes it on.  Some are lost.
ReceiveAudio ==
  /\ phase = "running" /\ rx["audio"] = "open"
  /\ "audio" \in tracks /\ apos < MaxAudio[codec]
  /\ apos' = apos + 1
  /\ \/ /\ seg' = PushOpus(seg, <<apos'>>, Elapsed("audio", apos' % TsMod, AudioTicks))
        /\ prev' = [prev EXCEPT !["audio"] = apos' % TsMod]
        /\ UNCHANGED faults
     \/ faults < MaxFault[codec] /\ faults' = faults + 1 /\ UNCHANGED <<seg, prev>>
  /\ UNCHANGED <<codec, tracks, pos, overtaken, changes, notified, phase, rx, parser,
                 now, ticks, intact, asks, before>>

\* Track changes are looked at only without a video receiver.  The parser
\* keeps what it has, and the codec is that of the first video track.
TrackChange ==
  /\ phase = "running" /\ rx["video"] = "none" /\ notified > 0
  /\ notified' = notified - 1
  /\ rx' = [rx EXCEPT !["video"] = IF "video" \in tracks THEN "open" ELSE "none"]
  /\ Settle(seg, rx')
  /\ UNCHANGED <<pubVars, prev, parser, now, ticks, faults, intact, asks, before>>

--------------------------------------------------------------------------------
Next ==
  \/ Passes \/ TracksDown \/ Lose
  \/ \E k \in {"video", "audio"} : TrackUp(k) \/ ReceiverGone(k)
  \/ Choose \/ Run \/ Shutdown \/ KeyframeTick
  \/ ReceiveVideo \/ ReceiveLate \/ ReceiveAudio \/ TrackChange

Spec == Init /\ [][Next]_vars

--------------------------------------------------------------------------------
(* Properties.                                                             *)

Named(files, name) == {i \in DOMAIN files : files[i].name = name}

Whole(unit) ==
  \A i \in DOMAIN unit :
    /\ unit[i].part = i /\ unit[i].parts = Len(unit)
    /\ unit[i].frame = unit[1].frame /\ unit[i].unit = unit[1].unit

SamplesWhole(samples) ==
  \A n \in DOMAIN samples : \A u \in DOMAIN samples[n].frame : Whole(samples[n].frame[u])

\* Whatever is lost or overtaken on the way, the VP9 and AV1 parsers never join
\* parts of different units or leave one out: each unit in a sample is one that
\* was sent, whole.  (The H264 and H265 parsers do not look at sequence numbers
\* and do record damaged units.)
UnitsWhole ==
  codec \in {"vp9", "av1"} =>
    /\ \A i \in Named(seg.files, "v_seg") : SamplesWhole(seg.files[i].of.samples)
    /\ SamplesWhole(seg.samples)

Files(name) == SelectSeq(seg.files, LAMBDA f : f.name = name)

\* Every video sample recorded so far, in order.
Recorded ==
  FlattenSeq([i \in DOMAIN Files("v_seg") |-> Files("v_seg")[i].of.samples]) \o seg.samples

SentElems == FlattenSeq([n \in 1..pos |-> Script[codec][n].elems])

\* The frames the publisher has sent to their end, unit by unit.
SentFrames ==
  LET last == {n \in 1..pos : Script[codec][n].marker}
      units(f) == {SentElems[i].unit : i \in {j \in DOMAIN SentElems : SentElems[j].frame = f}}
  IN [f \in 1..Cardinality(last) |->
        [u \in 1..Max(units(f)) |->
           SelectSeq(SentElems, LAMBDA e : e.frame = f /\ e.unit = u)]]

\* The configuration is known once the first f frames have been seen.
Configured(f) ==
  LET v == ConvertFrame(codec, NoConfig, FlattenSeq(SubSeq(SentFrames, 1, f))) IN
  v.ready \/ v.updated

\* While no packet is missed, what is recorded is what was sent: in every codec
\* the parser, the segmenter and its cuts neither lose, repeat, mix nor reorder
\* a frame from the first one on whose configuration is known.
LosslessExact ==
  intact =>
    LET known == {f \in DOMAIN SentFrames : Configured(f)} IN
    [n \in DOMAIN Recorded |-> Recorded[n].frame]
      = IF known = {} THEN <<>> ELSE SubSeq(SentFrames, Min(known), Len(SentFrames))

\* How long samples last together.
Lasts(samples) ==
  LET sum[k \in 0..Len(samples)] == IF k = 0 THEN 0 ELSE sum[k - 1] + samples[k].duration
  IN sum[Len(samples)]

\* Storage has one file for each name: it is what one of the writes handed over
\* under that name left, or is missing as long as none of them succeeded.
Writes(files, name, n) == {i \in Named(files, name) : files[i].of.seq_number = n}

\* The file holds segment n, with the times listed.
Holds(file, segment, n) ==
  LET f == file.of IN
  /\ f.seq_number = n
  /\ f.base_time = segment.start_time
  /\ segment.duration = Lasts(f.samples)

\* Segments follow each other without a gap.
Contiguous(segments) ==
  \A n \in DOMAIN segments :
    segments[n].start_time
      = IF n = 1 THEN 0 ELSE segments[n - 1].start_time + segments[n - 1].duration

\* Each segment was handed over under its number, and whatever write of that
\* number storage keeps is this segment; an init segment was handed over too.
Stored(segments, files, name, init) ==
  \A n \in DOMAIN segments :
    /\ Writes(files, name, n) # {}
    /\ \A i \in Writes(files, name, n) : Holds(files[i], segments[n], n)
    /\ Named(files, init) # {}

\* store_file writes in tasks of their own, which come in any order and may
\* fail.  Whichever manifest of a session storage ends up with, an old one that
\* came late included: no segment file it lists ever holds anything but the
\* segment listed under that number, with the times that its samples add up to;
\* segments listed leave no gap, none is listed that was not handed over, and
\* the manifest is as long as the longer of its tracks.  So what a player that
\* follows the timeline finds is played where it belongs.  (A file whose write
\* failed, or is still under way, is not found.)
ManifestExact ==
  \A i \in Named(seg.files, "manifest") :
    LET m == seg.files[i] IN
    /\ Stored(m.video, seg.files, "v_seg", "v_init") /\ Contiguous(m.video)
    /\ Stored(m.audio, seg.files, "a_seg", "a_init") /\ Contiguous(m.audio)
    /\ m.duration >= End(m.video) * AudioScale /\ m.duration >= End(m.audio) * VideoScale

\* An init segment is written once, so that no write can overtake another, from a
\* configuration that is complete (VP9 needs none), with the codec's sample entry.
InitDecodable ==
  LET init == Named(seg.files, "v_init") IN
  /\ \A i, j \in init : i = j
  /\ \A i \in init :
       LET f == seg.files[i].of IN
       /\ codec # "vp9" => ConvertFrame(codec, f.config, <<>>).ready
       /\ f.entry = CodecString(codec)

\* A player can start at every segment: the init segment is InitDecodable, and a
\* segment after the first starts with a keyframe and is cut only once it is long
\* enough, the last one excepted.
SegmentsSeekable ==
  /\ InitDecodable
  /\ \A i \in Named(seg.files, "v_seg") :
       LET f == seg.files[i].of IN
       /\ f.seq_number \in DOMAIN seg.segments
       /\ f.seq_number > 1 => f.samples[1].is_sync
       /\ phase # "ended" \/ f.seq_number < Len(seg.segments) =>
            seg.segments[f.seq_number].duration >= VideoScale * SegSeconds

\* The last manifest lists every segment of both tracks.
AllListed(s) ==
  \E i \in Named(s.files, "manifest") :
    /\ \A j \in Named(s.files, "manifest") : j <= i
    /\ s.files[i].video = s.segments /\ s.files[i].audio = s.asegments

\* When the task has ended, for whatever reason, nothing is left in its buffers
\* and the last manifest lists every segment of both tracks.
FlushedAtEnd ==
  phase = "ended" =>
    /\ seg.samples = <<>> /\ seg.asamples = <<>>
    /\ seg.track \/ seg.atrack => AllListed(seg)

\* The one way to double n waits from the first to the longest.
Backoffs(n) ==
  {c \in [1..n -> InitialTimeout..MaxTimeout] :
     \A k \in 1..n :
       c[k] = IF k = 1 THEN InitialTimeout
              ELSE IF 2 * c[k - 1] < MaxTimeout THEN 2 * c[k - 1] ELSE MaxTimeout}

\* The k-th request was not sent before c[k] had passed since the keyframe or,
\* without one, since the request before it.
Waited(requests, keyframe, c) ==
  \A k \in DOMAIN requests :
    IF keyframe # Never THEN requests[k] - keyframe >= c[k]
    ELSE k > 1 => requests[k] - requests[k - 1] >= c[k]

BacksOff(requests, keyframe) ==
  /\ MaxRequests > 0 => Len(requests) <= MaxRequests
  /\ \E c \in Backoffs(Len(requests)) : Waited(requests, keyframe, c)

\* Keyframe requests that no keyframe answers back off and stop: from one start
\* of the back-off they are at most max_requests and wait for times that double.
\* It starts over for a keyframe, and once without one: for the first frame
\* (hard_reset), before which there was no keyframe.  So a publisher that never
\* sends one is asked at most 2 * max_requests times.
PliBacksOff == BacksOff(asks, seg.pli.keyframe) /\ BacksOff(before, Never)
================================================================================

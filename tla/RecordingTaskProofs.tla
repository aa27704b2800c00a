--------------------------- MODULE RecordingTaskProofs --------------------------
(***************************************************************************)
(* Theorems about RecordingTask, for every codec, script, network and      *)
(* choice of the limits: nothing is left in the buffers at the end, every  *)
(* segment can be played from its start, keyframe requests back off, VP9   *)
(* and AV1 units are recorded whole, and manifests are exact.              *)
(***************************************************************************)
EXTENDS RecordingTask, SequenceTheorems, TLAPS

--------------------------------------------------------------------------------
(* The inductive invariant.  Times and sizes need no types.                *)

IsSequence(q) == Len(q) \in Nat /\ q = [i \in 1..Len(q) |-> q[i]]

\* s has the fields of a segmenter, as far as they matter.
SegTypes(s) ==
  /\ DOMAIN s = DOMAIN NewSegmenter
  /\ {s.adapter, s.track, s.atrack} \subseteq BOOLEAN
  /\ s.index \in Nat
  /\ IsSequence(s.samples) /\ IsSequence(s.segments) /\ IsSequence(s.files)
  /\ s.cfg = [k \in Kinds |-> s.cfg[k]]

\* Without a frame there is no keyframe.  A track that was not opened has
\* gathered nothing, and as soon as there is one the last manifest lists what
\* was handed over.
BufferInv(s) ==
  /\ ~s.adapter => s.pli.keyframe = Never
  /\ ~s.adapter => ~s.track
  /\ ~s.track => s.samples = <<>> /\ s.segments = <<>> /\ s.index = 0
  /\ ~s.atrack => s.asamples = <<>>
  /\ s.track \/ s.atrack => AllListed(s)

LongEnough(segment) == segment.duration >= VideoScale * SegSeconds

\* The segment being gathered is numbered after those that were cut, and its
\* first sample is a keyframe already; when the task has ended the last
\* segment may be short.
CutInv(s, ended) ==
  /\ s.track => s.index = Len(s.segments) + 1
  /\ ~ended /\ s.index > 1 => s.samples # <<>> /\ s.samples[1].is_sync
  /\ \A n \in DOMAIN s.segments : ~ended \/ n < Len(s.segments) => LongEnough(s.segments[n])
  /\ \A i \in Named(s.files, "v_seg") :
       LET f == s.files[i].of IN
       /\ f.seq_number \in DOMAIN s.segments
       /\ f.seq_number > 1 => f.samples[1].is_sync

Decodable(f, c) ==
  /\ c # "vp9" => ConvertFrame(c, f.config, <<>>).ready
  /\ f.entry = CodecString(c)

\* The init segment is not written before the configuration is complete; until
\* then an AV1 adapter has seen no sequence header.
InitInv(s, c) ==
  /\ ~s.track => Named(s.files, "v_init") = {}
  /\ ~s.track /\ c = "av1" => s.cfg["seq"] = 0
  /\ \A i, j \in Named(s.files, "v_init") : i = j
  /\ \A i \in Named(s.files, "v_init") : Decodable(s.files[i].of, c)

\* The back-off b has counted the requests a, its timeout is the next wait of
\* the schedule, and every request has waited for its own.
PliInv(b, a) ==
  /\ DOMAIN b = DOMAIN NewBackoff
  /\ b.keyframe \in Nat \cup {Never}
  /\ a \in Seq(Nat) /\ b.count = Len(a)
  /\ MaxRequests > 0 => Len(a) <= MaxRequests
  /\ b.request = IF a = <<>> THEN Never ELSE a[Len(a)]
  /\ \E w \in Backoffs(Len(a) + 1) :
       /\ b.timeout = w[Len(a) + 1]
       /\ \A k \in DOMAIN a :
            IF b.keyframe # Never THEN a[k] - b.keyframe >= w[k]
            ELSE k > 1 => a[k] - a[k - 1] >= w[k]

SegInv(s, c, ended) == SegTypes(s) /\ BufferInv(s) /\ CutInv(s, ended) /\ InitInv(s, c)

RecordingInv ==
  /\ codec \in Codec /\ now \in Nat
  /\ phase \in {"waiting", "chosen", "running", "ended"}
  /\ phase # "ended" => SegInv(seg, codec, FALSE)
  /\ phase = "ended" => SegInv(seg, codec, TRUE) /\ seg.samples = <<>> /\ seg.asamples = <<>>
  /\ PliInv(seg.pli, asks) /\ BacksOff(before, Never)

--------------------------------------------------------------------------------
(* Sequences.                                                              *)

\* A sequence is one over the values that are in it.
LEMMA SequenceTyped ==
  ASSUME NEW q, IsSequence(q)
  PROVE  q \in Seq({q[i] : i \in DOMAIN q}) /\ DOMAIN q = 1..Len(q) /\ Len(q) \in Nat
BY DEF IsSequence

\* A sequence over any set is a sequence.
LEMMA SeqIsSequence ==
  ASSUME NEW S, NEW q \in Seq(S)
  PROVE  IsSequence(q)
BY DEF IsSequence

\* The empty sequence is one.
LEMMA EmptySequence == IsSequence(<<>>) /\ Len(<<>>) = 0 /\ DOMAIN <<>> = {}
BY DEF IsSequence

\* What Append does to a sequence of anything.
LEMMA Appended ==
  ASSUME NEW q, IsSequence(q), NEW e
  PROVE  /\ IsSequence(Append(q, e))
         /\ Len(Append(q, e)) = Len(q) + 1
         /\ DOMAIN Append(q, e) = DOMAIN q \cup {Len(q) + 1}
         /\ Append(q, e)[Len(q) + 1] = e
         /\ \A i \in DOMAIN q : Append(q, e)[i] = q[i]
         /\ Append(q, e) # <<>>
<1> DEFINE S == {q[i] : i \in DOMAIN q} \cup {e}
<1>1. q \in Seq({q[i] : i \in DOMAIN q}) /\ DOMAIN q = 1..Len(q) /\ Len(q) \in Nat
  BY SequenceTyped
<1>2. q \in Seq(S) /\ e \in S
  BY <1>1
<1> HIDE DEF S
<1>3. /\ Append(q, e) \in Seq(S) /\ Len(Append(q, e)) = Len(q) + 1
      /\ Append(q, e)[Len(q) + 1] = e
      /\ \A i \in 1..Len(q) : Append(q, e)[i] = q[i]
  BY <1>1, <1>2, AppendProperties
<1>4. IsSequence(Append(q, e))
  BY <1>3, SeqIsSequence
<1>6. DOMAIN Append(q, e) = 1..(Len(q) + 1)
  BY <1>3, <1>4, SequenceTyped
<1>5. Append(q, e) # <<>>
  BY <1>1, <1>3, EmptySequence
<1> QED
  BY <1>1, <1>3, <1>4, <1>5, <1>6

\* One sequence after another.
LEMMA Joined ==
  ASSUME NEW a, IsSequence(a), NEW b, IsSequence(b)
  PROVE  /\ IsSequence(a \o b) /\ Len(a \o b) = Len(a) + Len(b)
         /\ Len(a) \in Nat /\ Len(b) \in Nat /\ DOMAIN a = 1..Len(a)
         /\ DOMAIN b = 1..Len(b) /\ DOMAIN (a \o b) = 1..(Len(a) + Len(b))
         /\ \A i \in 1..(Len(a) + Len(b)) :
              (a \o b)[i] = IF i <= Len(a) THEN a[i] ELSE b[i - Len(a)]
<1>1. PICK S : S = {a[i] : i \in DOMAIN a} \cup {b[i] : i \in DOMAIN b}
  OBVIOUS
<1>2. a \in Seq(S) /\ b \in Seq(S)
  <2>1. a \in Seq({a[i] : i \in DOMAIN a})
    BY SequenceTyped
  <2>2. b \in Seq({b[i] : i \in DOMAIN b})
    BY SequenceTyped
  <2>3. a \in Seq(S)
    BY <1>1, <2>1
  <2>4. b \in Seq(S)
    BY <1>1, <2>2
  <2> QED
    BY <2>3, <2>4
<1>3. a \o b \in Seq(S)
  BY <1>2, ConcatProperties
<1>4. IsSequence(a \o b)
  BY <1>3, SeqIsSequence
<1>5. /\ Len(a \o b) = Len(a) + Len(b)
      /\ \A i \in 1..(Len(a) + Len(b)) :
           (a \o b)[i] = IF i <= Len(a) THEN a[i] ELSE b[i - Len(a)]
  BY <1>2, ConcatProperties
<1>6. DOMAIN (a \o b) = 1..Len(a \o b)
  BY <1>4, SequenceTyped
<1> QED
  BY <1>4, <1>5, <1>6, SequenceTyped

\* A file that is added is found under its name, and under no other.
LEMMA NamedAppended ==
  ASSUME NEW q, IsSequence(q), NEW f, NEW name
  PROVE  /\ f.name = name => Named(Append(q, f), name) = Named(q, name) \cup {Len(q) + 1}
         /\ f.name # name => Named(Append(q, f), name) = Named(q, name)
<1>1. \A i \in DOMAIN q : i # Len(q) + 1
  BY SequenceTyped
<1> QED
  BY <1>1, Appended DEF Named

--------------------------------------------------------------------------------
(* What the operations of the segmenter do to its fields.                  *)

Fields ==
  {"adapter", "cfg", "track", "index", "start", "pts", "samples", "segments", "atrack",
   "aindex", "astart", "apts", "asamples", "asegments", "pli", "files"}

\* t is s but for the fields of K.
Same(s, t, K) ==
  DOMAIN s = Fields /\ DOMAIN t = Fields /\ \A k \in Fields \ K : t[k] = s[k]

\* The fields of a segmenter, spelt out.
LEMMA SegmenterFields == DOMAIN NewSegmenter = Fields
BY DEF NewSegmenter, Fields

\* A file is added and nothing else happens.
LEMMA StoreEffect ==
  ASSUME NEW s, DOMAIN s = Fields, NEW f
  PROVE  Same(s, StoreFile(s, f), {"files"}) /\ StoreFile(s, f).files = Append(s.files, f)
BY DEF Fields, Same, StoreFile

\* How long write_manifest says that the presentation is.
ManifestLength(s) ==
  LET longest == Larger(Longest(s.segments) * AudioScale, Longest(s.asegments) * VideoScale)
      max == IF longest = 0 THEN SegSeconds * VideoScale * AudioScale ELSE longest
      end == Larger(End(s.segments) * AudioScale, End(s.asegments) * VideoScale)
  IN IF end = 0 THEN max ELSE end

IsManifest(m, s) ==
  /\ m.name = "manifest" /\ m.video = s.segments /\ m.audio = s.asegments
  /\ m.duration = ManifestLength(s)

\* With a track, write_manifest stores a manifest with every segment.
LEMMA ManifestEffect ==
  ASSUME NEW s, s.track \/ s.atrack
  PROVE  \E m : IsManifest(m, s) /\ WriteManifest(s) = StoreFile(s, m)
<1> DEFINE end == Larger(End(s.segments) * AudioScale, End(s.asegments) * VideoScale)
           longest == Larger(Longest(s.segments) * AudioScale, Longest(s.asegments) * VideoScale)
           max == IF longest = 0 THEN SegSeconds * VideoScale * AudioScale ELSE longest
           m == [name |-> "manifest", video |-> s.segments, audio |-> s.asegments,
                 max_segment |-> max, duration |-> IF end = 0 THEN max ELSE end]
<1>1. WriteManifest(s) = StoreFile(s, m)
  BY DEF WriteManifest
<1>3. ManifestLength(s) = IF end = 0 THEN max ELSE end
  BY DEF ManifestLength
<1> HIDE DEF max, end
<1>2. IsManifest(m, s)
  BY <1>3 DEF IsManifest
<1> QED
  BY <1>1, <1>2

\* A manifest that has just been added lists everything.
LEMMA NewManifestLists ==
  ASSUME NEW s, NEW m, IsSequence(s.files), IsManifest(m, s), DOMAIN s = Fields
  PROVE  AllListed(StoreFile(s, m))
<1> DEFINE t == StoreFile(s, m)
<1>1. /\ t.files = Append(s.files, m)
      /\ t.segments = s.segments /\ t.asegments = s.asegments
  BY StoreEffect DEF Same, Fields
<1> HIDE DEF t
<1>2. Named(t.files, "manifest") = Named(s.files, "manifest") \cup {Len(s.files) + 1}
  <2>1. m.name = "manifest"
    BY DEF IsManifest
  <2> QED
    BY <1>1, <2>1, NamedAppended
<1> \A j \in Named(s.files, "manifest") : j \in DOMAIN s.files
  BY DEF Named
<1>3. \A j \in Named(t.files, "manifest") : j <= Len(s.files) + 1
  <2>1. DOMAIN s.files = 1..Len(s.files) /\ Len(s.files) \in Nat
    BY SequenceTyped
  <2> QED
    BY <1>2, <2>1
<1>4. t.files[Len(s.files) + 1] = m
  BY <1>1, Appended
<1>5. AllListed(t)
  BY <1>1, <1>2, <1>3, <1>4 DEF AllListed, IsManifest
<1> QED
  BY <1>5 DEF t

\* A manifest is one of every state with the same segments.
LEMMA SameManifest ==
  ASSUME NEW s, NEW t, t.segments = s.segments, t.asegments = s.asegments,
         NEW m, IsManifest(m, s)
  PROVE  IsManifest(m, t)
BY DEF IsManifest, ManifestLength

\* t has the files of s, f and a manifest of t.
FilesAdded(s, t, f) == \E m : IsManifest(m, t) /\ t.files = Append(Append(s.files, f), m)

VideoFile(s) == [name |-> "v_seg", of |-> BuildFragment(s.index, s.start, s.samples)]
VideoSegment(s) == [start_time |-> s.start, duration |-> s.pts - s.start]

\* roll_segment: the fragment, the entry, the manifest, a new segment.
LEMMA RollEffect ==
  ASSUME NEW s, DOMAIN s = Fields, IsSequence(s.files), s.track, s.samples # <<>>
  PROVE  /\ Same(s, RollSegment(s), {"files", "segments", "samples", "index", "start"})
         /\ RollSegment(s).segments = Append(s.segments, VideoSegment(s))
         /\ RollSegment(s).samples = <<>> /\ RollSegment(s).index = s.index + 1
         /\ RollSegment(s).start = s.pts
         /\ AllListed(RollSegment(s))
         /\ FilesAdded(s, RollSegment(s), VideoFile(s))
<1>1. PICK a : a = StoreFile(s, VideoFile(s))
  OBVIOUS
<1>2. Same(s, a, {"files"}) /\ a.files = Append(s.files, VideoFile(s))
  BY <1>1, StoreEffect
<1>3. PICK b : b = [a EXCEPT !.segments = Append(@, VideoSegment(s))]
  OBVIOUS
<1>4. /\ Same(s, b, {"files", "segments"}) /\ b.files = a.files
      /\ b.segments = Append(s.segments, VideoSegment(s))
  BY <1>2, <1>3 DEF Same, Fields
<1>5. PICK d : d = OpenNewSegment(b)
  OBVIOUS
<1>6. /\ Same(s, d, {"files", "segments", "samples", "index", "start"}) /\ d.files = a.files
      /\ d.segments = b.segments /\ d.samples = <<>> /\ d.index = s.index + 1 /\ d.track
      /\ d.start = s.pts
  BY <1>4, <1>5 DEF Same, Fields, OpenNewSegment
<1>7. RollSegment(s) = WriteManifest(d)
  BY <1>1, <1>3, <1>5 DEF RollSegment, VideoFile, VideoSegment
<1>8. PICK m : IsManifest(m, d) /\ WriteManifest(d) = StoreFile(d, m)
  BY <1>6, ManifestEffect
<1>9. IsSequence(d.files)
  BY <1>2, <1>6, Appended
<1>10. DOMAIN d = Fields
  BY <1>6 DEF Same
<1>11. AllListed(RollSegment(s))
  BY <1>7, <1>8, <1>9, <1>10, NewManifestLists
<1>12. Same(d, RollSegment(s), {"files"}) /\ RollSegment(s).files = Append(d.files, m)
  BY <1>7, <1>8, <1>10, StoreEffect
<1>13. /\ Same(s, RollSegment(s), {"files", "segments", "samples", "index", "start"})
       /\ RollSegment(s).segments = d.segments
       /\ RollSegment(s).samples = <<>> /\ RollSegment(s).index = s.index + 1
       /\ RollSegment(s).start = s.pts
  BY <1>6, <1>12 DEF Same, Fields
<1>14. IsManifest(m, RollSegment(s))
  <2>1. RollSegment(s).segments = d.segments /\ RollSegment(s).asegments = d.asegments
    BY <1>12 DEF Same, Fields
  <2> QED
    BY <1>8, <2>1, SameManifest
<1>15. RollSegment(s).files = Append(Append(s.files, VideoFile(s)), m)
  BY <1>2, <1>6, <1>12
<1>16. FilesAdded(s, RollSegment(s), VideoFile(s))
  BY <1>14, <1>15 DEF FilesAdded
<1> QED
  BY <1>2, <1>4, <1>6, <1>11, <1>13, <1>16

\* Without samples or without a track nothing is rolled.
LEMMA RollNothing ==
  ASSUME NEW s, s.samples = <<>> \/ ~s.track
  PROVE  RollSegment(s) = s
BY DEF RollSegment

AudioFields == {"atrack", "aindex", "astart", "apts", "asamples", "asegments"}

AudioFile(s) == [name |-> "a_seg", of |-> BuildFragment(s.aindex + 1, s.astart, s.asamples)]
AudioSegment(s) == [start_time |-> s.astart, duration |-> s.apts - s.astart]
AudioInitFile == [name |-> "a_init", of |-> BuildInitSegment("opus", NoConfig)]

AudioWaits(s, force) ==
  ~s.atrack \/ s.asamples = <<>> \/ (~force /\ s.apts - s.astart < AudioScale * SegSeconds)

\* roll_audio_segment, when it is due.
LEMMA RollAudioEffect ==
  ASSUME NEW s, DOMAIN s = Fields, IsSequence(s.files), s.atrack \in BOOLEAN, NEW force \in BOOLEAN,
         ~AudioWaits(s, force)
  PROVE  /\ Same(s, RollAudioSegment(s, force), (AudioFields \ {"atrack"}) \cup {"files"})
         /\ RollAudioSegment(s, force).asamples = <<>>
         /\ RollAudioSegment(s, force).asegments = Append(s.asegments, AudioSegment(s))
         /\ RollAudioSegment(s, force).aindex = s.aindex + 1
         /\ RollAudioSegment(s, force).astart = s.apts /\ RollAudioSegment(s, force).apts = s.apts
         /\ AllListed(RollAudioSegment(s, force))
         /\ FilesAdded(s, RollAudioSegment(s, force), AudioFile(s))
<1>1. PICK f : f = AudioFile(s)
  OBVIOUS
<1>2. PICK a : a = StoreFile([s EXCEPT !.aindex = @ + 1], f)
  OBVIOUS
<1>3. /\ Same(s, a, {"files", "aindex"}) /\ a.files = Append(s.files, f)
      /\ a.aindex = s.aindex + 1
  BY <1>2 DEF StoreFile, Same, Fields
<1>4. PICK b : b = [a EXCEPT !.asegments = Append(@, AudioSegment(s))]
  OBVIOUS
<1>5. PICK d : d = [b EXCEPT !.asamples = <<>>, !.astart = s.apts]
  OBVIOUS
<1>6. /\ Same(s, d, (AudioFields \ {"atrack"}) \cup {"files"}) /\ d.files = a.files
      /\ d.asamples = <<>> /\ d.atrack /\ d.asegments = Append(s.asegments, AudioSegment(s))
      /\ d.aindex = s.aindex + 1 /\ d.astart = s.apts /\ d.apts = s.apts
  BY <1>3, <1>4, <1>5 DEF Same, Fields, AudioFields, AudioWaits
<1>7. RollAudioSegment(s, force) = WriteManifest(d)
  BY <1>1, <1>2, <1>4, <1>5 DEF RollAudioSegment, AudioWaits, AudioFile, AudioSegment
<1>8. PICK m : IsManifest(m, d) /\ WriteManifest(d) = StoreFile(d, m)
  BY <1>6, ManifestEffect
<1>9. IsSequence(d.files) /\ DOMAIN d = Fields
  BY <1>3, <1>6, Appended DEF Same
<1>10. AllListed(RollAudioSegment(s, force))
  BY <1>7, <1>8, <1>9, NewManifestLists
<1>11. /\ Same(d, RollAudioSegment(s, force), {"files"})
       /\ RollAudioSegment(s, force).files = Append(d.files, m)
  BY <1>7, <1>8, <1>9, StoreEffect
<1>12. /\ Same(s, RollAudioSegment(s, force), (AudioFields \ {"atrack"}) \cup {"files"})
       /\ RollAudioSegment(s, force).asamples = <<>>
       /\ RollAudioSegment(s, force).asegments = d.asegments
       /\ RollAudioSegment(s, force).segments = d.segments
       /\ RollAudioSegment(s, force).aindex = s.aindex + 1
       /\ RollAudioSegment(s, force).astart = s.apts /\ RollAudioSegment(s, force).apts = s.apts
  BY <1>6, <1>11 DEF Same, Fields, AudioFields
<1>13. IsManifest(m, RollAudioSegment(s, force))
  BY <1>8, <1>12, SameManifest
<1>14. RollAudioSegment(s, force).files = Append(Append(s.files, AudioFile(s)), m)
  BY <1>1, <1>3, <1>6, <1>11
<1>15. FilesAdded(s, RollAudioSegment(s, force), AudioFile(s))
  BY <1>13, <1>14 DEF FilesAdded
<1> QED
  BY <1>6, <1>10, <1>12, <1>15

\* init_audio_writer.
LEMMA InitAudioEffect ==
  ASSUME NEW s, DOMAIN s = Fields, IsSequence(s.files)
  PROVE  /\ Same(s, InitAudioWriter(s), {"atrack", "aindex", "astart", "files"})
         /\ InitAudioWriter(s).atrack = TRUE
         /\ InitAudioWriter(s).aindex = 0 /\ InitAudioWriter(s).astart = s.apts
         /\ AllListed(InitAudioWriter(s))
         /\ FilesAdded(s, InitAudioWriter(s), AudioInitFile)
<1>1. PICK f : f = AudioInitFile
  OBVIOUS
<1>2. PICK a : a = StoreFile(s, f)
  OBVIOUS
<1>3. Same(s, a, {"files"}) /\ a.files = Append(s.files, f)
  BY <1>2, StoreEffect
<1>4. PICK d : d = [a EXCEPT !.atrack = TRUE, !.aindex = 0, !.astart = s.apts]
  OBVIOUS
<1>5. /\ Same(s, d, {"atrack", "aindex", "astart", "files"}) /\ d.files = a.files
      /\ d.atrack = TRUE /\ d.aindex = 0 /\ d.astart = s.apts
  BY <1>3, <1>4 DEF Same, Fields
<1>6. InitAudioWriter(s) = WriteManifest(d)
  BY <1>1, <1>2, <1>4 DEF InitAudioWriter, AudioInitFile
<1>7. PICK m : IsManifest(m, d) /\ WriteManifest(d) = StoreFile(d, m)
  BY <1>5, ManifestEffect
<1>8. IsSequence(d.files) /\ DOMAIN d = Fields
  BY <1>3, <1>5, Appended DEF Same
<1>9. AllListed(InitAudioWriter(s))
  BY <1>6, <1>7, <1>8, NewManifestLists
<1>10. Same(d, InitAudioWriter(s), {"files"}) /\ InitAudioWriter(s).files = Append(d.files, m)
  BY <1>6, <1>7, <1>8, StoreEffect
<1>11. /\ Same(s, InitAudioWriter(s), {"atrack", "aindex", "astart", "files"})
       /\ InitAudioWriter(s).atrack = TRUE
       /\ InitAudioWriter(s).aindex = 0 /\ InitAudioWriter(s).astart = s.apts
       /\ InitAudioWriter(s).segments = d.segments /\ InitAudioWriter(s).asegments = d.asegments
  BY <1>5, <1>10 DEF Same, Fields
<1>12. IsManifest(m, InitAudioWriter(s))
  BY <1>7, <1>11, SameManifest
<1>13. InitAudioWriter(s).files = Append(Append(s.files, AudioInitFile), m)
  BY <1>1, <1>3, <1>5, <1>10
<1>14. FilesAdded(s, InitAudioWriter(s), AudioInitFile)
  BY <1>12, <1>13 DEF FilesAdded
<1> QED
  BY <1>9, <1>11, <1>14

--------------------------------------------------------------------------------
(* The operations keep the invariant.                                      *)

\* Two files of other names leave those of a name where they were.
LEMMA OtherFiles ==
  ASSUME NEW q, IsSequence(q), NEW f, NEW m, NEW name, f.name # name, m.name # name
  PROVE  /\ IsSequence(Append(Append(q, f), m))
         /\ Named(Append(Append(q, f), m), name) = Named(q, name)
         /\ \A i \in DOMAIN q : Append(Append(q, f), m)[i] = q[i]
<1>1. IsSequence(Append(q, f)) /\ IsSequence(Append(Append(q, f), m))
  BY Appended
<1>2. Named(Append(Append(q, f), m), name) = Named(q, name)
  <2>1. Named(Append(q, f), name) = Named(q, name)
    BY NamedAppended
  <2>2. Named(Append(Append(q, f), m), name) = Named(Append(q, f), name)
    BY <1>1, NamedAppended
  <2> QED
    BY <2>1, <2>2
<1>3. \A i \in DOMAIN q : i \in DOMAIN Append(q, f) /\ Append(q, f)[i] = q[i]
  BY Appended
<1> QED
  BY <1>1, <1>2, <1>3, Appended

\* Steps of the audio track that add two files of its own.
LEMMA AudioKeeps ==
  ASSUME NEW s, NEW t, NEW c, NEW ended, SegInv(s, c, ended),
         Same(s, t, AudioFields \cup {"files"}), AllListed(t),
         t.atrack \in BOOLEAN, ~t.atrack => t.asamples = <<>>,
         NEW f, f.name \notin {"v_seg", "v_init"}, FilesAdded(s, t, f)
  PROVE  SegInv(t, c, ended)
<1> USE DEF SegInv
<1> PICK m : m.name = "manifest" /\ t.files = Append(Append(s.files, f), m)
  BY DEF FilesAdded, IsManifest
<1>1. /\ IsSequence(t.files)
      /\ Named(t.files, "v_seg") = Named(s.files, "v_seg")
      /\ Named(t.files, "v_init") = Named(s.files, "v_init")
      /\ \A i \in DOMAIN s.files : t.files[i] = s.files[i]
  BY OtherFiles DEF SegTypes
<1>2. /\ t.adapter = s.adapter /\ t.cfg = s.cfg /\ t.track = s.track /\ t.index = s.index
      /\ t.samples = s.samples /\ t.segments = s.segments /\ DOMAIN t = DOMAIN s
      /\ t.pli = s.pli
  BY DEF Same, Fields, AudioFields
<1>3. SegTypes(t)
  BY <1>1, <1>2 DEF SegTypes
<1>4. BufferInv(t)
  BY <1>2 DEF BufferInv
<1>5. \A i \in Named(s.files, "v_seg") \cup Named(s.files, "v_init") : t.files[i] = s.files[i]
  BY <1>1 DEF Named
<1>6. CutInv(t, ended)
  BY <1>1, <1>2, <1>5 DEF CutInv
<1>7. InitInv(t, c)
  BY <1>1, <1>2, <1>5 DEF InitInv
<1> QED
  BY <1>3, <1>4, <1>6, <1>7

\* roll_audio_segment keeps the invariant, whether it is due or not, and a
\* forced one leaves no sample behind.
LEMMA RollAudioKeeps ==
  ASSUME NEW s, NEW c, NEW ended, SegInv(s, c, ended), NEW force \in BOOLEAN
  PROVE  /\ SegInv(RollAudioSegment(s, force), c, ended)
         /\ RollAudioSegment(s, force).pli = s.pli
         /\ RollAudioSegment(s, force).samples = s.samples
         /\ force => RollAudioSegment(s, force).asamples = <<>>
<1>1. /\ DOMAIN s = Fields /\ IsSequence(s.files) /\ s.atrack \in BOOLEAN
      /\ ~s.atrack => s.asamples = <<>>
  BY SegmenterFields DEF SegInv, SegTypes, BufferInv
<1>2. CASE AudioWaits(s, force)
  <2>1. RollAudioSegment(s, force) = s
    BY <1>2 DEF RollAudioSegment, AudioWaits
  <2>2. force => s.asamples = <<>>
    BY <1>1, <1>2 DEF AudioWaits
  <2> QED
    BY <2>1, <2>2
<1>3. CASE ~AudioWaits(s, force)
  <2> DEFINE t == RollAudioSegment(s, force)
  <2>1. Same(s, t, (AudioFields \ {"atrack"}) \cup {"files"}) /\ t.asamples = <<>> /\ AllListed(t)
    BY <1>1, <1>3, RollAudioEffect, Zenon
  <2>2. FilesAdded(s, t, AudioFile(s))
    BY <1>1, <1>3, RollAudioEffect, Zenon
  <2> HIDE DEF t
  <2>3. /\ Same(s, t, AudioFields \cup {"files"}) /\ t.atrack = s.atrack
        /\ t.pli = s.pli /\ t.samples = s.samples
    BY <2>1 DEF Same, Fields, AudioFields
  <2>4. SegInv(t, c, ended)
    BY <1>1, <2>1, <2>2, <2>3, AudioKeeps DEF AudioFile
  <2> QED
    BY <2>1, <2>3, <2>4 DEF t
<1> QED
  BY <1>2, <1>3

\* init_audio_writer keeps the invariant.
LEMMA InitAudioKeeps ==
  ASSUME NEW s, NEW c, NEW ended, SegInv(s, c, ended)
  PROVE  LET a == InitAudioWriter(s) IN SegInv(a, c, ended) /\ a.atrack /\ a.pli = s.pli
<1>1. PICK a : a = InitAudioWriter(s)
  OBVIOUS
<1>2. DOMAIN s = Fields /\ IsSequence(s.files)
  BY SegmenterFields DEF SegInv, SegTypes
<1>3. /\ Same(s, a, {"atrack", "aindex", "astart", "files"}) /\ a.atrack = TRUE /\ AllListed(a)
      /\ FilesAdded(s, a, AudioInitFile)
  BY <1>1, <1>2, InitAudioEffect
<1>4. Same(s, a, AudioFields \cup {"files"}) /\ a.pli = s.pli
  BY <1>3 DEF Same, Fields, AudioFields
<1> QED
  BY <1>1, <1>3, <1>4, AudioKeeps DEF AudioInitFile

WithAudioSample(a, payload, dur) ==
  [a EXCEPT !.astart = IF a.asamples = <<>> THEN a.apts ELSE @,
            !.asamples = Append(@, Sample(<<payload>>, dur, TRUE)),
            !.apts = @ + dur]

\* An audio sample keeps the invariant of a track that was opened.
LEMMA AudioSampleKeeps ==
  ASSUME NEW a, NEW c, NEW ended, SegInv(a, c, ended), a.atrack, NEW payload, NEW dur
  PROVE  LET b == WithAudioSample(a, payload, dur) IN SegInv(b, c, ended) /\ b.pli = a.pli
<1>1. PICK b : b = WithAudioSample(a, payload, dur)
  OBVIOUS
<1>2. DOMAIN a = Fields
  BY SegmenterFields DEF SegInv, SegTypes
<1>3. Same(a, b, {"astart", "asamples", "apts"})
  BY <1>1, <1>2 DEF Same, Fields, WithAudioSample
<1>4. /\ b.adapter = a.adapter /\ b.cfg = a.cfg /\ b.track = a.track /\ b.index = a.index
      /\ b.samples = a.samples /\ b.segments = a.segments /\ DOMAIN b = DOMAIN a
      /\ b.atrack = a.atrack /\ b.files = a.files /\ b.asegments = a.asegments
      /\ b.pli = a.pli
  BY <1>3 DEF Same, Fields
<1>5. SegInv(b, c, ended)
  BY <1>4 DEF SegInv, SegTypes, BufferInv, CutInv, InitInv, AllListed
<1> QED
  BY <1>1, <1>4, <1>5

\* push_opus keeps the invariant.
LEMMA OpusKeeps ==
  ASSUME NEW s, NEW c, NEW ended, SegInv(s, c, ended), NEW payload, NEW dur
  PROVE  SegInv(PushOpus(s, payload, dur), c, ended) /\ PushOpus(s, payload, dur).pli = s.pli
<1>1. PICK a : a = IF s.atrack THEN s ELSE InitAudioWriter(s)
  OBVIOUS
<1>2. SegInv(a, c, ended) /\ a.atrack /\ a.pli = s.pli
  BY <1>1, InitAudioKeeps
<1>3. PICK b : b = WithAudioSample(a, payload, dur)
  OBVIOUS
<1>4. SegInv(b, c, ended) /\ b.pli = a.pli
  BY <1>2, <1>3, AudioSampleKeeps
<1>5. PushOpus(s, payload, dur) = RollAudioSegment(b, FALSE)
  BY <1>1, <1>3 DEF PushOpus, WithAudioSample
<1>6. SegInv(RollAudioSegment(b, FALSE), c, ended) /\ RollAudioSegment(b, FALSE).pli = b.pli
  BY <1>4, RollAudioKeeps
<1> QED
  BY <1>2, <1>4, <1>5, <1>6

\* roll_segment of a track with samples: everything is kept, but that the new
\* segment has no keyframe yet; no segment is short if this one is not.
LEMMA RollKeeps ==
  ASSUME NEW s, NEW c, SegInv(s, c, FALSE), s.track, s.samples # <<>>
  PROVE  LET t == RollSegment(s) IN
         /\ SegInv(t, c, TRUE)
         /\ LongEnough(VideoSegment(s)) => \A n \in DOMAIN t.segments : LongEnough(t.segments[n])
         /\ t.samples = <<>> /\ t.asamples = s.asamples /\ t.pli = s.pli /\ t.track = TRUE
<1> USE DEF SegInv
<1>1. DOMAIN s = Fields /\ IsSequence(s.files) /\ IsSequence(s.segments) /\ s.track = TRUE
  BY SegmenterFields DEF SegTypes
<1>2. PICK t : t = RollSegment(s)
  OBVIOUS
<1>3. /\ Same(s, t, {"files", "segments", "samples", "index", "start"})
      /\ t.segments = Append(s.segments, VideoSegment(s))
      /\ t.samples = <<>> /\ t.index = s.index + 1 /\ AllListed(t)
  BY <1>1, <1>2, RollEffect
<1>4. PICK m : m.name = "manifest" /\ t.files = Append(Append(s.files, VideoFile(s)), m)
  <2>1. FilesAdded(s, t, VideoFile(s))
    BY <1>1, <1>2, RollEffect
  <2> QED
    BY <2>1 DEF FilesAdded, IsManifest
<1>5. PICK v : v = VideoFile(s)
  OBVIOUS
<1>6. v.name = "v_seg" /\ v.of.seq_number = s.index /\ v.of.samples = s.samples
  BY <1>5 DEF VideoFile, BuildFragment
<1>7. /\ t.adapter = s.adapter /\ t.cfg = s.cfg /\ t.track = s.track /\ DOMAIN t = Fields
      /\ t.atrack = s.atrack /\ t.asamples = s.asamples /\ t.asegments = s.asegments
      /\ t.pli = s.pli
  BY <1>3 DEF Same, Fields
<1>8. PICK q : q = Append(s.files, v)
  OBVIOUS
<1>9. /\ IsSequence(q) /\ t.files = Append(q, m) /\ IsSequence(t.files)
      /\ \A i \in DOMAIN s.files : t.files[i] = s.files[i]
      /\ t.files[Len(s.files) + 1] = v
  BY <1>1, <1>4, <1>5, <1>8, Appended
<1>10. /\ Named(t.files, "v_seg") = Named(s.files, "v_seg") \cup {Len(s.files) + 1}
       /\ Named(t.files, "v_init") = Named(s.files, "v_init")
  <2>1. /\ Named(q, "v_seg") = Named(s.files, "v_seg") \cup {Len(s.files) + 1}
        /\ Named(q, "v_init") = Named(s.files, "v_init")
    <3>1. v.name = "v_seg" /\ v.name # "v_init"
      BY <1>6
    <3>2. Named(q, "v_seg") = Named(s.files, "v_seg") \cup {Len(s.files) + 1}
      BY <1>1, <1>8, <3>1, NamedAppended
    <3>3. Named(q, "v_init") = Named(s.files, "v_init")
      BY <1>1, <1>8, <3>1, NamedAppended
    <3> QED
      BY <3>2, <3>3
  <2>2. Named(t.files, "v_seg") = Named(q, "v_seg") /\ Named(t.files, "v_init") = Named(q, "v_init")
    BY <1>4, <1>9, NamedAppended
  <2> QED
    BY <2>1, <2>2
<1>11. \A i \in Named(s.files, "v_seg") \cup Named(s.files, "v_init") : t.files[i] = s.files[i]
  BY <1>9 DEF Named
<1>12. /\ IsSequence(t.segments) /\ Len(t.segments) = Len(s.segments) + 1
       /\ DOMAIN t.segments = DOMAIN s.segments \cup {Len(s.segments) + 1}
       /\ t.segments[Len(s.segments) + 1] = VideoSegment(s)
       /\ \A n \in DOMAIN s.segments : t.segments[n] = s.segments[n]
       /\ DOMAIN s.segments = 1..Len(s.segments) /\ Len(s.segments) \in Nat
  BY <1>1, <1>3, Appended, SequenceTyped
<1>13. SegTypes(t)
  BY <1>3, <1>7, <1>9, <1>12, EmptySequence, SegmenterFields DEF SegTypes
<1>14. BufferInv(t)
  BY <1>1, <1>3, <1>7 DEF BufferInv
<1>15. /\ \A n \in DOMAIN s.segments : LongEnough(s.segments[n])
       /\ s.index = Len(s.segments) + 1
       /\ s.index > 1 => s.samples[1].is_sync
  BY <1>1 DEF CutInv
<1>16. CutInv(t, TRUE)
  <2>1. \A n \in DOMAIN t.segments : n < Len(t.segments) => LongEnough(t.segments[n])
    BY <1>12, <1>15
  <2>2. ASSUME NEW i \in Named(s.files, "v_seg")
        PROVE  /\ t.files[i].of.seq_number \in DOMAIN t.segments
               /\ t.files[i].of.seq_number > 1 => t.files[i].of.samples[1].is_sync
    BY <1>11, <1>12 DEF CutInv
  <2>3. /\ v.of.seq_number \in DOMAIN t.segments
        /\ v.of.seq_number > 1 => v.of.samples[1].is_sync
    BY <1>6, <1>12, <1>15
  <2> QED
    BY <1>3, <1>9, <1>10, <1>12, <1>15, <2>1, <2>2, <2>3 DEF CutInv
<1>17. InitInv(t, c)
  BY <1>1, <1>7, <1>10, <1>11 DEF InitInv
<1>18. LongEnough(VideoSegment(s)) => \A n \in DOMAIN t.segments : LongEnough(t.segments[n])
  BY <1>12, <1>15
<1> QED
  BY <1>1, <1>2, <1>3, <1>7, <1>13, <1>14, <1>16, <1>17, <1>18

\* The end of the task: flush leaves no sample of either track behind.
LEMMA FlushEmpties ==
  ASSUME NEW s, NEW c, SegInv(s, c, FALSE)
  PROVE  LET t == FlushSegmenter(s) IN
         SegInv(t, c, TRUE) /\ t.samples = <<>> /\ t.asamples = <<>> /\ t.pli = s.pli
<1>1. PICK a : a = RollSegment(s)
  OBVIOUS
<1>2. SegInv(a, c, TRUE) /\ a.samples = <<>> /\ a.pli = s.pli
  <2>1. CASE s.track /\ s.samples # <<>>
    BY <1>1, <2>1, RollKeeps
  <2>2. CASE ~(s.track /\ s.samples # <<>>)
    <3>1. a = s
      BY <1>1, <2>2, RollNothing
    <3>2. s.samples = <<>>
      BY <2>2 DEF SegInv, BufferInv
    <3>3. CutInv(s, TRUE)
      BY DEF SegInv, CutInv
    <3> QED
      BY <3>1, <3>2, <3>3 DEF SegInv
  <2> QED
    BY <2>1, <2>2
<1>3. PICK t : t = RollAudioSegment(a, TRUE)
  OBVIOUS
<1>4. SegInv(t, c, TRUE) /\ t.pli = a.pli /\ t.samples = a.samples /\ t.asamples = <<>>
  BY <1>2, <1>3, RollAudioKeeps
<1>5. FlushSegmenter(s) = t
  BY <1>1, <1>3 DEF FlushSegmenter
<1> QED
  BY <1>2, <1>4, <1>5

--------------------------------------------------------------------------------
(* The video track.                                                        *)

Codecs == {"h264", "h265", "vp9", "av1"}

\* What the adapter of the codec needs to know.
Known(c, cfg) ==
  CASE c = "h264" -> cfg["sps"] # 0 /\ cfg["pps"] # 0
    [] c = "h265" -> cfg["vps"] # 0 /\ cfg["sps"] # 0 /\ cfg["pps"] # 0
    [] c = "av1"  -> cfg["seq"] # 0
    [] OTHER      -> TRUE

\* What a frame teaches the adapter: a configuration that counts as ready or
\* updated is complete, in AV1 if there was none before.
LEMMA Converted ==
  ASSUME NEW c \in Codecs, NEW cfg, cfg = [k \in Kinds |-> cfg[k]], NEW frame
  PROVE  LET v == ConvertFrame(c, cfg, frame) IN
         /\ v.cfg = [k \in Kinds |-> v.cfg[k]]
         /\ c = "av1" /\ ~v.ready => v.cfg["seq"] = 0
         /\ (c = "av1" => cfg["seq"] = 0) /\ (v.ready \/ v.updated) => Known(c, v.cfg)
<1>1. CASE c = "h264"
  BY <1>1 DEF Codecs, ConvertFrame, ConvertH264, Taken, Kinds, Known
<1>2. CASE c = "h265"
  BY <1>2 DEF Codecs, ConvertFrame, ConvertH265, Taken, Kinds, Known
<1>3. CASE c = "vp9"
  BY <1>3 DEF Codecs, ConvertFrame, ConvertVp9, Kinds, Known
<1>4. CASE c = "av1"
  <2>1. PICK new : new = Taken(cfg, {"seq"}, FirstHeaders(frame))
    OBVIOUS
  <2>2. new = [k \in Kinds |-> new[k]] /\ \A k \in Kinds \ {"seq"} : new[k] = cfg[k]
    BY <2>1 DEF Taken
  <2>3. new # cfg => new["seq"] # cfg["seq"]
    BY <2>2
  <2>4. /\ ConvertFrame(c, cfg, frame).cfg = new
        /\ ConvertFrame(c, cfg, frame).updated = (new # cfg)
        /\ ConvertFrame(c, cfg, frame).ready = (new["seq"] # 0)
    BY <1>4, <2>1 DEF ConvertFrame, ConvertAv1
  <2>5. Known(c, new) <=> new["seq"] # 0
    BY <1>4 DEF Known
  <2> QED
    BY <1>4, <2>2, <2>3, <2>4, <2>5
<1> QED
  BY <1>1, <1>2, <1>3, <1>4 DEF Codecs

\* A complete configuration is ready without any frame.
LEMMA KnownIsReady ==
  ASSUME NEW c \in Codecs, c # "vp9", NEW cfg, Known(c, cfg)
  PROVE  ConvertFrame(c, cfg, <<>>).ready
<1>1. LastHeaders(<<>>) = {} /\ FirstHeaders(<<>>) = {}
  BY DEF LastHeaders, FirstHeaders
<1>2. CASE c = "h264"
  BY <1>1, <1>2 DEF ConvertFrame, ConvertH264, Taken, Kinds, Known
<1>3. CASE c = "h265"
  BY <1>1, <1>3 DEF ConvertFrame, ConvertH265, Taken, Kinds, Known
<1>4. CASE c = "av1"
  BY <1>1, <1>4 DEF ConvertFrame, ConvertAv1, Taken, Kinds, Known
<1> QED
  BY <1>2, <1>3, <1>4 DEF Codecs

\* The init segment of a complete configuration can be decoded.
LEMMA InitFileDecodable ==
  ASSUME NEW c \in Codecs, NEW cfg, Known(c, cfg)
  PROVE  Decodable(BuildInitSegment(CodecString(c),
                     IF CodecString(c) \in {"avc1", "av01", "hev1"} THEN cfg ELSE NoConfig), c)
<1>1. PICK config : config = IF CodecString(c) \in {"avc1", "av01", "hev1"} THEN cfg ELSE NoConfig
  OBVIOUS
<1>2. c # "vp9" => config = cfg
  BY <1>1 DEF Codecs, CodecString
<1>3. PICK f : f = BuildInitSegment(CodecString(c), config)
  OBVIOUS
<1>4. f.config = config /\ f.entry = CodecString(c)
  BY <1>3 DEF BuildInitSegment, SampleEntry, Codecs, CodecString
<1>5. c # "vp9" => ConvertFrame(c, f.config, <<>>).ready
  BY <1>2, <1>4, KnownIsReady
<1> QED
  BY <1>1, <1>3, <1>4, <1>5 DEF Decodable

\* t has the files of s, an init segment and a manifest.
InitAdded(s, t, c) ==
  \E f : f.name = "v_init" /\ Decodable(f.of, c) /\ FilesAdded(s, t, f)

\* init_writer.
LEMMA InitWriterEffect ==
  ASSUME NEW s, DOMAIN s = Fields, IsSequence(s.files), NEW c \in Codecs, Known(c, s.cfg)
  PROVE  LET t == InitWriter(s, c) IN
         /\ Same(s, t, {"track", "files", "samples", "index", "start"})
         /\ t.track = TRUE /\ t.samples = <<>> /\ t.index = s.index + 1 /\ t.start = s.pts
         /\ AllListed(t) /\ InitAdded(s, t, c)
<1>1. PICK f : f = [name |-> "v_init",
                    of |-> BuildInitSegment(CodecString(c),
                      IF CodecString(c) \in {"avc1", "av01", "hev1"} THEN s.cfg ELSE NoConfig)]
  OBVIOUS
<1>2. f.name = "v_init" /\ Decodable(f.of, c)
  BY <1>1, InitFileDecodable
<1>3. PICK a : a = StoreFile([s EXCEPT !.track = TRUE], f)
  OBVIOUS
<1>4. Same(s, a, {"track", "files"}) /\ a.track = TRUE /\ a.files = Append(s.files, f)
  BY <1>3 DEF StoreFile, Same, Fields
<1>5. PICK m : IsManifest(m, a) /\ WriteManifest(a) = StoreFile(a, m)
  BY <1>4, ManifestEffect
<1>6. PICK b : b = StoreFile(a, m)
  OBVIOUS
<1>7. IsSequence(a.files) /\ DOMAIN a = Fields
  BY <1>4, Appended DEF Same
<1>8. Same(a, b, {"files"}) /\ b.files = Append(a.files, m) /\ AllListed(b)
  BY <1>5, <1>6, <1>7, StoreEffect, NewManifestLists
<1>9. PICK t : t = OpenNewSegment(b)
  OBVIOUS
<1>10. /\ Same(b, t, {"samples", "index", "start"})
       /\ t.samples = <<>> /\ t.index = b.index + 1 /\ t.start = b.pts
  BY <1>8, <1>9 DEF Same, Fields, OpenNewSegment
<1>11. /\ Same(s, t, {"track", "files", "samples", "index", "start"})
       /\ t.track = TRUE /\ t.index = s.index + 1 /\ t.start = s.pts /\ t.files = b.files
  BY <1>4, <1>8, <1>10 DEF Same, Fields
<1>12. AllListed(t)
  <2>1. t.files = b.files /\ t.segments = b.segments /\ t.asegments = b.asegments
    BY <1>10 DEF Same, Fields
  <2> QED
    BY <1>8, <2>1 DEF AllListed
<1>13. InitWriter(s, c) = t
  BY <1>1, <1>3, <1>5, <1>6, <1>9 DEF InitWriter
<1>14. InitAdded(s, t, c)
  <2>1. t.segments = a.segments /\ t.asegments = a.asegments
    BY <1>8, <1>10 DEF Same, Fields
  <2>2. IsManifest(m, t)
    BY <1>5, <2>1, SameManifest
  <2>3. t.files = Append(Append(s.files, f), m)
    BY <1>4, <1>8, <1>11
  <2>4. FilesAdded(s, t, f)
    BY <2>2, <2>3 DEF FilesAdded
  <2> QED
    BY <1>2, <2>4 DEF InitAdded
<1> QED
  BY <1>10, <1>11, <1>12, <1>13, <1>14

WithSample(s, e, dur) == [s EXCEPT !.samples = Append(@, e), !.pts = @ + dur]

\* A sample that is added to an open track.
LEMMA SampleKeeps ==
  ASSUME NEW d, NEW c, SegInv(d, c, TRUE), d.track,
         \A n \in DOMAIN d.segments : LongEnough(d.segments[n]),
         NEW e, NEW dur,
         d.index > 1 /\ d.samples = <<>> => e.is_sync,
         d.index > 1 /\ d.samples # <<>> => d.samples[1].is_sync
  PROVE  SegInv(WithSample(d, e, dur), c, FALSE) /\ WithSample(d, e, dur).pli = d.pli
<1> USE DEF SegInv
<1>1. PICK r : r = WithSample(d, e, dur)
  OBVIOUS
<1>2. DOMAIN d = Fields /\ IsSequence(d.samples)
  BY SegmenterFields DEF SegTypes
<1>3. Same(d, r, {"samples", "pts"}) /\ r.samples = Append(d.samples, e)
  BY <1>1, <1>2 DEF Same, Fields, WithSample
<1>4. /\ r.adapter = d.adapter /\ r.cfg = d.cfg /\ r.track = d.track /\ r.index = d.index
      /\ r.asamples = d.asamples /\ r.segments = d.segments /\ DOMAIN r = DOMAIN d
      /\ r.atrack = d.atrack /\ r.files = d.files /\ r.asegments = d.asegments
      /\ r.pli = d.pli
  BY <1>3 DEF Same, Fields
<1>5. IsSequence(r.samples) /\ r.samples # <<>>
  BY <1>2, <1>3, Appended
<1>6. r.index > 1 => r.samples[1].is_sync
  <2>1. CASE d.samples = <<>>
    <3>1. r.samples[1] = e
      BY <1>3, <2>1, EmptySequence, Appended
    <3> QED
      BY <1>4, <2>1, <3>1
  <2>2. CASE d.samples # <<>>
    <3>1. 1 \in DOMAIN d.samples
      BY <1>2, <2>2, SequenceTyped
    <3>2. r.samples[1] = d.samples[1]
      BY <1>2, <1>3, <3>1, Appended
    <3> QED
      BY <1>4, <2>2, <3>2
  <2> QED
    BY <2>1, <2>2
<1>7. SegTypes(r)
  BY <1>4, <1>5 DEF SegTypes
<1>8. BufferInv(r)
  BY <1>4 DEF BufferInv, AllListed
<1>9. CutInv(r, FALSE)
  BY <1>4, <1>5, <1>6 DEF CutInv
<1>10. InitInv(r, c)
  BY <1>4 DEF InitInv
<1> QED
  BY <1>1, <1>4, <1>7, <1>8, <1>9, <1>10

\* The first frame makes an adapter; the video state is reset to what it was.
LEMMA AdapterKeeps ==
  ASSUME NEW s, NEW c, SegInv(s, c, FALSE)
  PROVE  LET a == EnsureVideoAdapter(s) IN
         /\ SegInv(a, c, FALSE) /\ a.adapter
         /\ a.pli = IF s.adapter THEN s.pli ELSE NewBackoff
<1> USE DEF SegInv
<1>1. PICK a : a = EnsureVideoAdapter(s)
  OBVIOUS
<1>2. CASE s.adapter
  BY <1>2 DEF EnsureVideoAdapter
<1>3. CASE ~s.adapter
  <2>1. DOMAIN s = Fields
    BY SegmenterFields DEF SegTypes
  <2>2. /\ Same(s, a, {"adapter", "cfg", "track", "samples", "index", "start", "pts",
                       "segments", "pli"})
        /\ a.adapter = TRUE /\ a.cfg = NoConfig /\ a.track = FALSE /\ a.samples = <<>>
        /\ a.index = 0 /\ a.segments = <<>> /\ a.pli = NewBackoff
    BY <1>1, <1>3, <2>1 DEF EnsureVideoAdapter, ResetVideoState, HardReset, Same, Fields
  <2>3. /\ a.files = s.files /\ a.atrack = s.atrack /\ a.asamples = s.asamples
        /\ a.asegments = s.asegments /\ DOMAIN a = DOMAIN s
    BY <2>2 DEF Same, Fields
  <2>4. s.track = FALSE /\ s.samples = <<>> /\ s.segments = <<>> /\ s.index = 0
    BY <1>3 DEF BufferInv, SegTypes
  <2>5. SegTypes(a)
    <3>1. a.cfg = [k \in Kinds |-> a.cfg[k]]
      BY <2>2 DEF NoConfig
    <3>2. {a.adapter, a.track, a.atrack} \subseteq BOOLEAN
      BY <2>2, <2>3 DEF SegTypes
    <3>3. IsSequence(a.samples) /\ IsSequence(a.segments) /\ IsSequence(a.files)
      BY <2>2, <2>3, EmptySequence DEF SegTypes
    <3> QED
      BY <2>1, <2>2, <2>3, <3>1, <3>2, <3>3, SegmenterFields DEF SegTypes
  <2>6. BufferInv(a)
    BY <2>2, <2>3, <2>4 DEF BufferInv, AllListed
  <2>7. CutInv(a, FALSE)
    BY <2>2, <2>3, <2>4 DEF CutInv
  <2>8. InitInv(a, c)
    BY <2>2, <2>3, <2>4 DEF InitInv, NoConfig, Kinds
  <2> QED
    BY <1>1, <1>3, <2>2, <2>5, <2>6, <2>7, <2>8
<1> QED
  BY <1>2, <1>3

\* The back-off after a frame.
PliAfter(s, c, frame, n) ==
  IF ConvertFrame(c, EnsureVideoAdapter(s).cfg, frame).sync THEN RecordKeyframe(s.pli, n)
  ELSE IF s.adapter THEN s.pli ELSE NewBackoff

\* The state b of a segmenter s whose adapter has learnt v from a frame.
Learnt(s, b, c, v) ==
  /\ Same(s, b, {"adapter", "cfg", "pli", "start", "pts"})
  /\ b.start = (IF s.adapter THEN s.start ELSE 0) /\ b.pts = (IF s.adapter THEN s.pts ELSE 0)
  /\ b.adapter /\ b.cfg = v.cfg
  /\ SegTypes(b) /\ BufferInv(b) /\ CutInv(b, FALSE)
  /\ b.track \/ ~v.ready => InitInv(b, c)
  /\ ~b.track => Named(b.files, "v_init") = {} /\ (v.updated \/ v.ready => Known(c, b.cfg))

\* What becomes of b: the frame is dropped, or a sample of the segment, of the
\* next one or of the first one.
Pushed(b, t, c, v, e, dur) ==
  \/ ~b.track /\ ~v.updated /\ ~v.ready /\ t = b
  \/ /\ b.track /\ b.samples # <<>> /\ v.sync /\ LongEnough(VideoSegment(b))
     /\ t = WithSample(RollSegment(b), e, dur)
  \/ b.track /\ t = WithSample(b, e, dur)
  \/ ~b.track /\ (v.updated \/ v.ready) /\ t = WithSample(InitWriter(b, c), e, dur)

Ticks(d) == IF d = 0 THEN DefaultTicks ELSE d

\* What the adapter learns from a frame.
Lesson(s, c, frame) == ConvertFrame(c, EnsureVideoAdapter(s).cfg, frame)

\* The steps of push_video_frame.
FrameSteps(s, t, c, frame, d, n) ==
  \E b : /\ Learnt(s, b, c, Lesson(s, c, frame)) /\ b.pli = PliAfter(s, c, frame, n)
         /\ Pushed(b, t, c, Lesson(s, c, frame),
                   Sample(frame, Ticks(d), Lesson(s, c, frame).sync), Ticks(d))

\* push_video_frame is what it does to the adapter, then to the segment.
LEMMA FrameEffect ==
  ASSUME NEW s, NEW c \in Codecs, SegInv(s, c, FALSE), NEW frame, NEW d, NEW n
  PROVE  FrameSteps(s, PushVideoFrame(s, c, frame, d, n), c, frame, d, n)
<1>1. PICK a : a = EnsureVideoAdapter(s)
  OBVIOUS
<1>2. SegInv(a, c, FALSE) /\ a.adapter /\ a.pli = IF s.adapter THEN s.pli ELSE NewBackoff
  BY <1>1, AdapterKeeps
<1>3. PICK v : v = ConvertFrame(c, a.cfg, frame)
  OBVIOUS
<1>4. PICK b : b = [a EXCEPT !.cfg = v.cfg, !.pli = IF v.sync THEN RecordKeyframe(@, n) ELSE @]
  OBVIOUS
<1>5. PICK dur, e : dur = (IF d = 0 THEN DefaultTicks ELSE d) /\ e = Sample(frame, dur, v.sync)
  OBVIOUS
<1>7. DOMAIN a = Fields /\ a.cfg = [k \in Kinds |-> a.cfg[k]] /\ DOMAIN s = Fields
  BY <1>2, SegmenterFields DEF SegInv, SegTypes
<1>8. /\ Same(a, b, {"cfg", "pli"}) /\ b.cfg = v.cfg
      /\ b.pli = IF v.sync THEN RecordKeyframe(a.pli, n) ELSE a.pli
  BY <1>4, <1>7 DEF Same, Fields
<1>9. b.pli = PliAfter(s, c, frame, n)
  BY <1>1, <1>2, <1>3, <1>8 DEF PliAfter, RecordKeyframe
<1>10. /\ b.adapter = a.adapter /\ b.track = a.track /\ b.index = a.index
       /\ b.samples = a.samples /\ b.segments = a.segments /\ DOMAIN b = DOMAIN a
       /\ b.atrack = a.atrack /\ b.asamples = a.asamples /\ b.asegments = a.asegments
       /\ b.files = a.files /\ b.start = a.start /\ b.pts = a.pts
  BY <1>8 DEF Same, Fields
<1>11. /\ v.cfg = [k \in Kinds |-> v.cfg[k]]
       /\ c = "av1" /\ ~v.ready => v.cfg["seq"] = 0
       /\ (c = "av1" => a.cfg["seq"] = 0) /\ (v.ready \/ v.updated) => Known(c, v.cfg)
  BY <1>3, <1>7, Converted
<1>12. SegTypes(b) /\ BufferInv(b) /\ CutInv(b, FALSE)
  BY <1>2, <1>8, <1>10, <1>11 DEF SegInv, SegTypes, BufferInv, CutInv, AllListed
<1>13. (b.track \/ ~v.ready) => InitInv(b, c)
  BY <1>2, <1>8, <1>10, <1>11 DEF SegInv, InitInv
<1>14. ~b.track => Named(b.files, "v_init") = {} /\ (v.updated \/ v.ready => Known(c, b.cfg))
  BY <1>2, <1>8, <1>10, <1>11 DEF SegInv, InitInv
<1>15. /\ Same(s, b, {"adapter", "cfg", "pli", "start", "pts"})
       /\ b.start = (IF s.adapter THEN s.start ELSE 0) /\ b.pts = (IF s.adapter THEN s.pts ELSE 0)
  <2>1. CASE s.adapter
    <3>1. a = s
      BY <1>1, <2>1 DEF EnsureVideoAdapter
    <3> QED
      BY <1>8, <2>1, <3>1 DEF Same, Fields
  <2>2. CASE ~s.adapter
    <3>1. /\ Same(s, a, {"adapter", "cfg", "track", "samples", "index", "start", "pts",
                         "segments", "pli"})
          /\ a.track = FALSE /\ a.samples = <<>> /\ a.index = 0 /\ a.segments = <<>>
          /\ a.start = 0 /\ a.pts = 0
      BY <1>1, <1>7, <2>2 DEF EnsureVideoAdapter, ResetVideoState, Same, Fields
    <3>2. s.track = FALSE /\ s.samples = <<>> /\ s.segments = <<>> /\ s.index = 0
      BY <2>2 DEF SegInv, BufferInv, SegTypes
    <3> QED
      BY <1>8, <2>2, <3>1, <3>2 DEF Same, Fields
  <2> QED
    BY <2>1, <2>2
<1>16. Learnt(s, b, c, v)
  BY <1>2, <1>8, <1>10, <1>12, <1>13, <1>14, <1>15 DEF Learnt
<1>17. PICK t : t = PushVideoFrame(s, c, frame, d, n)
  OBVIOUS
<1>18. Pushed(b, t, c, v, e, dur)
  <2>1. CASE b.track /\ v.sync /\ b.pts - b.start >= VideoScale * SegSeconds /\ b.samples # <<>>
    <3>1. RollSegment(b).track
      <4>1. DOMAIN b = Fields /\ IsSequence(b.files)
        BY <1>12, SegmenterFields DEF SegTypes
      <4>2. Same(b, RollSegment(b), {"files", "segments", "samples", "index", "start"})
        BY <2>1, <4>1, RollEffect
      <4> QED
        BY <2>1, <4>2 DEF Same, Fields
    <3>2. t = WithSample(RollSegment(b), e, dur)
      BY <1>1, <1>3, <1>4, <1>5, <1>17, <2>1, <3>1 DEF PushVideoFrame, WithSample
    <3>3. LongEnough(VideoSegment(b))
      BY <2>1 DEF LongEnough, VideoSegment
    <3> QED
      BY <2>1, <3>2, <3>3 DEF Pushed
  <2>2. CASE b.track /\ ~(v.sync /\ b.pts - b.start >= VideoScale * SegSeconds /\ b.samples # <<>>)
    <3>1. (IF v.sync /\ b.pts - b.start >= VideoScale * SegSeconds THEN RollSegment(b) ELSE b) = b
      BY <2>2, RollNothing
    <3>2. t = WithSample(b, e, dur)
      BY <1>1, <1>3, <1>4, <1>5, <1>17, <2>2, <3>1 DEF PushVideoFrame, WithSample
    <3> QED
      BY <2>2, <3>2 DEF Pushed
  <2>3. CASE ~b.track
    <3>1. (IF v.sync /\ b.pts - b.start >= VideoScale * SegSeconds THEN RollSegment(b) ELSE b) = b
      BY <2>3, RollNothing
    <3>2. CASE ~v.updated /\ ~v.ready
      <4>1. t = b
        BY <1>1, <1>3, <1>4, <1>17, <2>3, <3>1, <3>2 DEF PushVideoFrame
      <4> QED
        BY <2>3, <3>2, <4>1 DEF Pushed
    <3>3. CASE v.updated \/ v.ready
      <4>1. t = WithSample(InitWriter(b, c), e, dur)
        BY <1>1, <1>3, <1>4, <1>5, <1>17, <2>3, <3>1, <3>3 DEF PushVideoFrame, WithSample
      <4> QED
        BY <2>3, <3>3, <4>1 DEF Pushed
    <3> QED
      BY <3>2, <3>3
  <2> QED
    BY <2>1, <2>2, <2>3
<1>19. v = Lesson(s, c, frame) /\ dur = Ticks(d)
  BY <1>1, <1>3, <1>5 DEF Lesson, Ticks
<1> QED
  BY <1>5, <1>9, <1>16, <1>17, <1>18, <1>19 DEF FrameSteps

\* init_writer after the first frames: no video was stored before.
LEMMA InitKeeps ==
  ASSUME NEW s, NEW b, NEW c \in Codecs, NEW v, Learnt(s, b, c, v), ~b.track, v.updated \/ v.ready
  PROVE  LET t == InitWriter(b, c) IN
         SegInv(t, c, TRUE) /\ t.track /\ t.pli = b.pli /\ t.index = 1 /\ t.segments = <<>>
<1>1. PICK t : t = InitWriter(b, c)
  OBVIOUS
<1>2. SegTypes(b) /\ BufferInv(b) /\ CutInv(b, FALSE) /\ b.track = FALSE
  BY DEF Learnt, SegTypes
<1>3. /\ DOMAIN b = Fields /\ IsSequence(b.files) /\ b.index = 0 /\ b.segments = <<>>
      /\ Named(b.files, "v_init") = {} /\ Named(b.files, "v_seg") = {}
      /\ Known(c, b.cfg)
  <2>1. DOMAIN b = Fields /\ IsSequence(b.files) /\ b.index = 0 /\ b.segments = <<>>
    BY <1>2, SegmenterFields DEF SegTypes, BufferInv
  <2>2. Named(b.files, "v_init") = {} /\ Known(c, b.cfg)
    BY DEF Learnt
  <2>3. Named(b.files, "v_seg") = {}
    BY <1>2, <2>1, EmptySequence DEF CutInv
  <2> QED
    BY <2>1, <2>2, <2>3
<1>4. /\ Same(b, t, {"track", "files", "samples", "index", "start"})
      /\ t.track = TRUE /\ t.samples = <<>> /\ t.index = b.index + 1
      /\ AllListed(t) /\ InitAdded(b, t, c)
  BY <1>1, <1>3, InitWriterEffect
<1>5. PICK f, m : /\ f.name = "v_init" /\ Decodable(f.of, c) /\ m.name = "manifest"
                  /\ t.files = Append(Append(b.files, f), m)
  BY <1>4 DEF InitAdded, FilesAdded, IsManifest
<1>6. /\ t.adapter = b.adapter /\ t.cfg = b.cfg /\ t.segments = b.segments
      /\ t.atrack = b.atrack /\ t.asamples = b.asamples /\ DOMAIN t = DOMAIN b
      /\ t.pli = b.pli
  BY <1>4 DEF Same, Fields
<1>7. PICK q : q = Append(b.files, f)
  OBVIOUS
<1>8. IsSequence(q) /\ t.files = Append(q, m) /\ IsSequence(t.files)
  BY <1>3, <1>5, <1>7, Appended
<1>9. f.name # "v_seg" /\ m.name # "v_seg" /\ m.name # "v_init"
  BY <1>5
<1>10. Named(t.files, "v_seg") = {}
  BY <1>3, <1>5, <1>9, OtherFiles
<1>11. Named(t.files, "v_init") = {Len(b.files) + 1}
  <2>1. Named(q, "v_init") = Named(b.files, "v_init") \cup {Len(b.files) + 1}
    <3>1. f.name = "v_init" /\ IsSequence(b.files)
      BY <1>3, <1>5
    <3>2. Named(Append(b.files, f), "v_init")
            = Named(b.files, "v_init") \cup {Len(b.files) + 1}
      BY <3>1, NamedAppended
    <3> QED
      BY <1>7, <3>2
  <2>2. Named(t.files, "v_init") = Named(q, "v_init")
    BY <1>8, <1>9, NamedAppended
  <2> QED
    BY <1>3, <2>1, <2>2
<1>12. t.files[Len(b.files) + 1] = f
  BY <1>3, <1>7, <1>8, Appended
<1>13. SegTypes(t)
  <2>1. {t.adapter, t.track, t.atrack} \subseteq BOOLEAN
    BY <1>2, <1>4, <1>6 DEF SegTypes
  <2>2. IsSequence(t.samples) /\ IsSequence(t.segments)
    BY <1>2, <1>4, <1>6, EmptySequence DEF SegTypes
  <2> QED
    BY <1>2, <1>3, <1>4, <1>6, <1>8, <2>1, <2>2 DEF SegTypes
<1>14. BufferInv(t)
  BY <1>2, <1>3, <1>4, <1>6 DEF BufferInv, Learnt
<1>15. CutInv(t, TRUE)
  BY <1>3, <1>4, <1>6, <1>10, EmptySequence DEF CutInv
<1>16. InitInv(t, c)
  BY <1>4, <1>5, <1>11, <1>12 DEF InitInv
<1>17. t.index = 1 /\ t.segments = <<>> /\ t.track /\ t.pli = b.pli
  BY <1>3, <1>4, <1>6
<1> QED
  BY <1>1, <1>13, <1>14, <1>15, <1>16, <1>17 DEF SegInv

\* push_video_frame keeps the invariant.
LEMMA FrameKeeps ==
  ASSUME NEW s, NEW c \in Codecs, SegInv(s, c, FALSE), NEW frame, NEW d, NEW n
  PROVE  LET t == PushVideoFrame(s, c, frame, d, n) IN
         /\ SegInv(t, c, FALSE)
         /\ t.pli = PliAfter(s, c, frame, n)
<1>1. PICK t : t = PushVideoFrame(s, c, frame, d, n)
  OBVIOUS
<1>2. PICK v, e, dur : /\ v = Lesson(s, c, frame) /\ dur = Ticks(d)
                       /\ e = Sample(frame, Ticks(d), v.sync)
  OBVIOUS
<1>3. PICK b : /\ Learnt(s, b, c, v) /\ b.pli = PliAfter(s, c, frame, n)
               /\ Pushed(b, t, c, v, e, dur)
  BY <1>1, <1>2, FrameEffect DEF FrameSteps
<1>4. e.is_sync = v.sync
  BY <1>2 DEF Sample
<1>5. CASE ~b.track /\ ~v.updated /\ ~v.ready /\ t = b
  BY <1>1, <1>3, <1>5 DEF Learnt, SegInv
<1>6. CASE /\ b.track /\ b.samples # <<>> /\ v.sync /\ LongEnough(VideoSegment(b))
           /\ t = WithSample(RollSegment(b), e, dur)
  <2>1. PICK r : r = RollSegment(b)
    OBVIOUS
  <2>2. SegInv(b, c, FALSE)
    BY <1>3, <1>6 DEF Learnt, SegInv
  <2>3. /\ SegInv(r, c, TRUE) /\ r.samples = <<>> /\ r.pli = b.pli /\ r.track = TRUE
        /\ \A k \in DOMAIN r.segments : LongEnough(r.segments[k])
    BY <1>6, <2>1, <2>2, RollKeeps
  <2>4. SegInv(WithSample(r, e, dur), c, FALSE) /\ WithSample(r, e, dur).pli = r.pli
    BY <1>4, <1>6, <2>3, SampleKeeps
  <2> QED
    BY <1>1, <1>3, <1>6, <2>1, <2>3, <2>4
<1>7. CASE b.track /\ t = WithSample(b, e, dur)
  <2>1. SegInv(b, c, FALSE)
    BY <1>3, <1>7 DEF Learnt, SegInv
  <2>2. /\ CutInv(b, TRUE) /\ (\A k \in DOMAIN b.segments : LongEnough(b.segments[k]))
        /\ b.index > 1 => b.samples # <<>> /\ b.samples[1].is_sync
    BY <2>1 DEF SegInv, CutInv
  <2>3. SegInv(WithSample(b, e, dur), c, FALSE) /\ WithSample(b, e, dur).pli = b.pli
    BY <1>7, <2>1, <2>2, SampleKeeps DEF SegInv
  <2> QED
    BY <1>1, <1>3, <1>7, <2>3
<1>8. CASE ~b.track /\ (v.updated \/ v.ready) /\ t = WithSample(InitWriter(b, c), e, dur)
  <2>1. PICK r : r = InitWriter(b, c)
    OBVIOUS
  <2>2. SegInv(r, c, TRUE) /\ r.track /\ r.pli = b.pli /\ r.index = 1 /\ r.segments = <<>>
    BY <1>3, <1>8, <2>1, InitKeeps
  <2>3. ~(r.index > 1) /\ \A k \in DOMAIN r.segments : LongEnough(r.segments[k])
    BY <2>2, EmptySequence
  <2>4. SegInv(WithSample(r, e, dur), c, FALSE) /\ WithSample(r, e, dur).pli = r.pli
    BY <2>2, <2>3, SampleKeeps
  <2> QED
    BY <1>1, <1>3, <1>8, <2>1, <2>2, <2>4
<1> QED
  BY <1>3, <1>5, <1>6, <1>7, <1>8 DEF Pushed

--------------------------------------------------------------------------------
(* The back-off.                                                           *)

\* The schedule of a single request.
LEMMA FirstBackoff == \E w \in Backoffs(0 + 1) : w[0 + 1] = InitialTimeout
<1> DEFINE w == [k \in 1..1 |-> InitialTimeout]
<1>1. w \in Backoffs(0 + 1) /\ w[0 + 1] = InitialTimeout
  BY PliBackoffAssumption DEF Backoffs
<1> QED
  BY <1>1

\* A back-off as new, and one after a keyframe, have nothing to wait for.
LEMMA PliFresh ==
  ASSUME NEW b, NEW n \in Nat
  PROVE  PliInv(NewBackoff, <<>>) /\ PliInv(RecordKeyframe(b, n), <<>>)
<1>1. /\ <<>> \in Seq(Nat) /\ Len(<<>>) = 0 /\ DOMAIN <<>> = {}
      /\ MaxRequests > 0 => 0 <= MaxRequests
  BY PliBackoffAssumption, EmptySequence
<1>2. PICK w \in Backoffs(0 + 1) : w[0 + 1] = InitialTimeout
  BY FirstBackoff
<1>3. ASSUME NEW x, DOMAIN x = DOMAIN NewBackoff, x.keyframe \in Nat \cup {Never},
             x.count = 0, x.request = Never, x.timeout = InitialTimeout
      PROVE  PliInv(x, <<>>)
  BY <1>1, <1>2, <1>3 DEF PliInv
<1>4. PliInv(NewBackoff, <<>>)
  BY <1>3 DEF NewBackoff
<1>5. PliInv(RecordKeyframe(b, n), <<>>)
  BY <1>3 DEF NewBackoff, RecordKeyframe
<1> QED
  BY <1>4, <1>5

\* The schedule goes on with twice the last wait, or the longest.
LEMMA NextBackoff ==
  ASSUME NEW n \in Nat, NEW w \in Backoffs(n + 1)
  PROVE  \E x \in Backoffs(n + 2) :
           /\ \A k \in 1..(n + 1) : x[k] = w[k]
           /\ x[n + 2] = IF 2 * w[n + 1] < MaxTimeout THEN 2 * w[n + 1] ELSE MaxTimeout
<1> DEFINE last == IF 2 * w[n + 1] < MaxTimeout THEN 2 * w[n + 1] ELSE MaxTimeout
           x == [k \in 1..(n + 2) |-> IF k <= n + 1 THEN w[k] ELSE last]
<1>1. /\ w \in [1..(n + 1) -> InitialTimeout..MaxTimeout]
      /\ \A k \in 1..(n + 1) :
           w[k] = IF k = 1 THEN InitialTimeout
                  ELSE IF 2 * w[k - 1] < MaxTimeout THEN 2 * w[k - 1] ELSE MaxTimeout
  BY DEF Backoffs
<1>2. w[n + 1] \in InitialTimeout..MaxTimeout
  BY <1>1
<1>3. last \in InitialTimeout..MaxTimeout
  BY <1>2, PliBackoffAssumption
<1> HIDE DEF last
<1>4. x \in [1..(n + 2) -> InitialTimeout..MaxTimeout]
  BY <1>1, <1>3
<1>5. (\A k \in 1..(n + 1) : x[k] = w[k]) /\ x[n + 2] = last
  OBVIOUS
<1> HIDE DEF x
<1>6. ASSUME NEW k \in 1..(n + 2)
      PROVE  x[k] = IF k = 1 THEN InitialTimeout
                    ELSE IF 2 * x[k - 1] < MaxTimeout THEN 2 * x[k - 1] ELSE MaxTimeout
  <2>1. CASE k = 1
    BY <1>1, <1>5, <2>1
  <2>2. CASE k # 1 /\ k <= n + 1
    <3>1. k - 1 \in 1..(n + 1) /\ k \in 1..(n + 1)
      BY <2>2
    <3> QED
      BY <1>1, <1>5, <2>2, <3>1
  <2>3. CASE k = n + 2
    <3>1. k # 1 /\ k - 1 = n + 1 /\ n + 1 \in 1..(n + 1)
      BY <2>3
    <3> QED
      BY <1>5, <2>3, <3>1 DEF last
  <2> QED
    BY <2>1, <2>2, <2>3
<1>7. x \in Backoffs(n + 2)
  BY <1>4, <1>6 DEF Backoffs
<1> QED
  BY <1>5, <1>7 DEF last

\* A request that is due was waited for, and doubles the next wait.
LEMMA PliRequest ==
  ASSUME NEW b, NEW a, PliInv(b, a), NEW n \in Nat, ShouldRequest(b, n)
  PROVE  PliInv(RecordRequest(b, n), Append(a, n))
<1>1. /\ a \in Seq(Nat) /\ b.count = Len(a) /\ b.keyframe \in Nat \cup {Never}
      /\ DOMAIN b = {"timeout", "keyframe", "request", "count"}
      /\ b.request = IF a = <<>> THEN Never ELSE a[Len(a)]
  BY DEF PliInv, NewBackoff
<1>2. PICK w \in Backoffs(Len(a) + 1) :
        /\ b.timeout = w[Len(a) + 1]
        /\ \A k \in DOMAIN a :
             IF b.keyframe # Never THEN a[k] - b.keyframe >= w[k]
             ELSE k > 1 => a[k] - a[k - 1] >= w[k]
  BY DEF PliInv
<1>3. PICK c : c = Append(a, n)
  OBVIOUS
<1>4. PICK l \in Nat : l = Len(a)
  BY <1>1
<1>5. /\ c \in Seq(Nat) /\ Len(c) = l + 1 /\ DOMAIN c = 1..(l + 1) /\ c # <<>>
      /\ c[l + 1] = n /\ \A k \in 1..l : c[k] = a[k]
      /\ DOMAIN a = 1..l
  <2>1. /\ c \in Seq(Nat) /\ Len(c) = Len(a) + 1
        /\ \A k \in 1..Len(a) : c[k] = a[k]
        /\ c[Len(a) + 1] = n
    BY <1>1, <1>3, AppendProperties
  <2>2. IsSequence(c)
    BY <2>1, SeqIsSequence
  <2>3. DOMAIN c = 1..Len(c)
    BY <2>2, SequenceTyped
  <2>4. DOMAIN a = 1..Len(a)
    BY <1>1
  <2>5. c # <<>>
    BY <1>4, <2>1, EmptySequence
  <2> QED
    BY <1>4, <2>1, <2>3, <2>4, <2>5
<1>6. PICK x \in Backoffs(l + 2) :
        /\ \A k \in 1..(l + 1) : x[k] = w[k]
        /\ x[l + 2] = IF 2 * w[l + 1] < MaxTimeout THEN 2 * w[l + 1] ELSE MaxTimeout
  BY <1>2, <1>4, NextBackoff
<1>7. PICK r : r = RecordRequest(b, n)
  OBVIOUS
<1>8. /\ DOMAIN r = DOMAIN b /\ r.keyframe = b.keyframe /\ r.request = n /\ r.count = b.count + 1
      /\ r.timeout = x[l + 2]
  BY <1>1, <1>2, <1>4, <1>6, <1>7 DEF RecordRequest
<1>9. MaxRequests > 0 => l + 1 <= MaxRequests
  BY <1>1, <1>4, PliBackoffAssumption DEF ShouldRequest
<1>10. ASSUME NEW k \in 1..(l + 1)
       PROVE  IF r.keyframe # Never THEN c[k] - r.keyframe >= x[k]
              ELSE k > 1 => c[k] - c[k - 1] >= x[k]
  <2>1. CASE k \in 1..l
    <3>1. k > 1 => k - 1 \in 1..l
      BY <2>1
    <3>2. c[k] = a[k] /\ x[k] = w[k] /\ (k > 1 => c[k - 1] = a[k - 1])
      BY <1>5, <1>6, <2>1, <3>1
    <3> QED
      BY <1>2, <1>5, <1>8, <2>1, <3>2
  <2>2. CASE k = l + 1
    <3>1. c[k] = n /\ x[k] = b.timeout
      BY <1>2, <1>4, <1>5, <1>6, <2>2
    <3>2. CASE b.keyframe # Never
      BY <1>8, <3>1, <3>2 DEF ShouldRequest
    <3>3. CASE b.keyframe = Never /\ k > 1
      <4>1. k - 1 = l /\ l \in 1..l
        BY <2>2, <3>3
      <4>2. c[k - 1] = a[l] /\ a[l] \in Nat
        BY <1>1, <1>4, <1>5, <4>1
      <4>3. a # <<>>
        BY <1>4, <4>1, EmptySequence
      <4>4. b.request = a[l] /\ b.request # Never
        BY <1>1, <1>4, <4>2, <4>3 DEF Never
      <4>5. n - b.request >= b.timeout
        BY <3>3, <4>4 DEF ShouldRequest
      <4> QED
        BY <1>8, <3>1, <3>3, <4>2, <4>4, <4>5
    <3>4. CASE b.keyframe = Never /\ ~(k > 1)
      BY <1>8, <3>4
    <3> QED
      BY <3>2, <3>3, <3>4
  <2> QED
    BY <2>1, <2>2
<1>11. Len(c) + 1 = l + 2
  BY <1>5
<1> QED
  BY <1>1, <1>3, <1>4, <1>5, <1>6, <1>7, <1>8, <1>9, <1>10, <1>11 DEF PliInv, NewBackoff

--------------------------------------------------------------------------------
(* The task.                                                               *)

\* A segmenter without files.
LEMMA NewKeeps ==
  ASSUME NEW c
  PROVE  SegInv(NewSegmenter, c, FALSE) /\ NewSegmenter.pli = NewBackoff
<1>1. PICK s : s = NewSegmenter
  OBVIOUS
<1>2. /\ DOMAIN s = DOMAIN NewSegmenter
      /\ s.adapter = FALSE /\ s.track = FALSE /\ s.atrack = FALSE /\ s.index = 0
      /\ s.samples = <<>> /\ s.segments = <<>> /\ s.files = <<>> /\ s.asamples = <<>>
      /\ s.cfg = NoConfig /\ s.pli = NewBackoff
  BY <1>1 DEF NewSegmenter
<1>3. NoConfig = [k \in Kinds |-> NoConfig[k]] /\ NoConfig["seq"] = 0
  BY DEF NoConfig, Kinds
<1>4. SegTypes(s)
  <2>1. {s.adapter, s.track, s.atrack} \subseteq BOOLEAN
    BY <1>2
  <2>2. IsSequence(s.samples) /\ IsSequence(s.segments) /\ IsSequence(s.files)
    BY <1>2, EmptySequence
  <2>3. s.cfg = [k \in Kinds |-> s.cfg[k]] /\ s.index \in Nat
    BY <1>2, <1>3
  <2> QED
    BY <1>2, <2>1, <2>2, <2>3 DEF SegTypes
<1>5. \A name : Named(s.files, name) = {}
  BY <1>2, EmptySequence DEF Named
<1>6. BufferInv(s)
  <2>1. s.pli.keyframe = Never
    BY <1>1 DEF NewSegmenter, NewBackoff
  <2> QED
    BY <1>2, <2>1 DEF BufferInv
<1>7. CutInv(s, FALSE)
  BY <1>2, <1>5, EmptySequence DEF CutInv
<1>8. InitInv(s, c)
  BY <1>2, <1>3, <1>5 DEF InitInv
<1> QED
  BY <1>1, <1>2, <1>4, <1>6, <1>7, <1>8 DEF SegInv

\* The back-off does not matter to the segments.
LEMMA PliApart ==
  ASSUME NEW s, NEW c, SegInv(s, c, FALSE), NEW b, b.keyframe = s.pli.keyframe
  PROVE  SegInv([s EXCEPT !.pli = b], c, FALSE) /\ [s EXCEPT !.pli = b].pli = b
<1>1. PICK t : t = [s EXCEPT !.pli = b]
  OBVIOUS
<1>2. DOMAIN s = Fields
  BY SegmenterFields DEF SegInv, SegTypes
<1>3. Same(s, t, {"pli"}) /\ t.pli = b
  BY <1>1, <1>2 DEF Same, Fields
<1>4. /\ t.adapter = s.adapter /\ t.cfg = s.cfg /\ t.track = s.track /\ t.index = s.index
      /\ t.samples = s.samples /\ t.segments = s.segments /\ DOMAIN t = DOMAIN s
      /\ t.atrack = s.atrack /\ t.files = s.files /\ t.asegments = s.asegments
      /\ t.asamples = s.asamples
  BY <1>3 DEF Same, Fields
<1>5. SegInv(t, c, FALSE)
  BY <1>3, <1>4 DEF SegInv, SegTypes, BufferInv, CutInv, InitInv, AllListed
<1> QED
  BY <1>1, <1>3, <1>5

\* The requests that a back-off has counted back off.
LEMMA AsksBackOff ==
  ASSUME NEW b, NEW a, PliInv(b, a)
  PROVE  BacksOff(a, b.keyframe)
<1>1. PICK l \in Nat : l = Len(a)
  BY DEF PliInv
<1>2. (MaxRequests > 0 => Len(a) <= MaxRequests) /\ DOMAIN a = 1..l
  BY <1>1 DEF PliInv
<1>3. PICK w \in Backoffs(l + 1) :
        \A k \in DOMAIN a :
          IF b.keyframe # Never THEN a[k] - b.keyframe >= w[k]
          ELSE k > 1 => a[k] - a[k - 1] >= w[k]
  BY <1>1 DEF PliInv
<1>4. PICK x : x = [k \in 1..l |-> w[k]]
  OBVIOUS
<1>5. x \in Backoffs(l)
  <2>1. /\ w \in [1..(l + 1) -> InitialTimeout..MaxTimeout]
        /\ \A k \in 1..(l + 1) :
             w[k] = IF k = 1 THEN InitialTimeout
                    ELSE IF 2 * w[k - 1] < MaxTimeout THEN 2 * w[k - 1] ELSE MaxTimeout
    BY DEF Backoffs
  <2>2. \A k \in 1..l : k \in 1..(l + 1) /\ (k # 1 => k - 1 \in 1..l)
    OBVIOUS
  <2>3. x \in [1..l -> InitialTimeout..MaxTimeout]
    BY <1>4, <2>1, <2>2
  <2>4. \A k \in 1..l : x[k] = IF k = 1 THEN InitialTimeout
                    ELSE IF 2 * x[k - 1] < MaxTimeout THEN 2 * x[k - 1] ELSE MaxTimeout
    BY <1>4, <2>1, <2>2
  <2> QED
    BY <2>3, <2>4 DEF Backoffs
<1>6. Waited(a, b.keyframe, x)
  BY <1>2, <1>3, <1>4 DEF Waited
<1> QED
  BY <1>1, <1>2, <1>5, <1>6 DEF BacksOff

\* The task starts with nothing recorded.
LEMMA InitRecording == Init => RecordingInv
<1> SUFFICES ASSUME Init PROVE RecordingInv
  OBVIOUS
<1>1. PliInv(NewBackoff, <<>>) /\ NewBackoff.keyframe = Never
  BY PliFresh DEF NewBackoff
<1>2. BacksOff(<<>>, Never)
  BY <1>1, AsksBackOff
<1> QED
  BY <1>1, <1>2, NewKeeps DEF Init, RecordingInv

\* The task goes on with a segmenter that keeps the invariant, or flushes it.
LEMMA GoesOn ==
  ASSUME RecordingInv, phase # "ended", codec' = codec, now' = now, NEW s,
         SegInv(s, codec, FALSE), PliInv(s.pli, asks'), BacksOff(before', Never),
         (phase' = phase /\ seg' = s) \/ EndTask(s)
  PROVE  RecordingInv'
<1>1. CASE phase' = phase /\ seg' = s
  BY <1>1 DEF RecordingInv
<1>2. CASE EndTask(s)
  <2>1. /\ phase' = "ended" /\ SegInv(seg', codec, TRUE)
        /\ seg'.samples = <<>> /\ seg'.asamples = <<>> /\ seg'.pli = s.pli
    BY <1>2, FlushEmpties DEF EndTask
  <2> QED
    BY <2>1 DEF RecordingInv
<1> QED
  BY <1>1, <1>2

\* A video packet that reaches the task.
LEMMA PacketKeeps ==
  ASSUME RecordingInv, phase = "running", NEW n, VideoPacket(n),
         UNCHANGED <<codec, now, phase>>
  PROVE  RecordingInv'
<1>1. codec \in Codecs
  BY RecordingTaskAssumption DEF RecordingInv, Codecs
<1>2. PICK r : r = PushPacket(codec, parser, Packet(n))
  OBVIOUS
<1>3. CASE r.out = <<>>
  <2>1. seg' = seg /\ asks' = asks /\ before' = before
    BY <1>2, <1>3 DEF VideoPacket
  <2> QED
    BY <2>1 DEF RecordingInv
<1>4. CASE r.out # <<>>
  <2>1. PICK d : d = Elapsed("video", Packet(n).ts, DefaultTicks)
    OBVIOUS
  <2>2. PICK f : f = r.out[1]
    OBVIOUS
  <2>3. PICK t : t = PushVideoFrame(seg, codec, f, d, now)
    OBVIOUS
  <2>4. /\ seg' = t
        /\ asks' = IF ~seg.adapter \/ ConvertFrame(codec, seg.cfg, f).sync THEN <<>> ELSE asks
        /\ before' = IF ConvertFrame(codec, seg.cfg, f).sync THEN <<>>
                     ELSE IF ~seg.adapter THEN asks ELSE before
    BY <1>2, <1>4, <2>1, <2>2, <2>3 DEF VideoPacket
  <2>5. SegInv(seg, codec, FALSE) /\ PliInv(seg.pli, asks) /\ now \in Nat
    BY DEF RecordingInv
  <2>6. /\ SegInv(t, codec, FALSE)
        /\ t.pli = PliAfter(seg, codec, f, now)
    <3>1. SegInv(PushVideoFrame(seg, codec, f, d, now), codec, FALSE)
      BY <1>1, <2>5, FrameKeeps, Zenon
    <3>2. PushVideoFrame(seg, codec, f, d, now).pli = PliAfter(seg, codec, f, now)
      BY <1>1, <2>5, FrameKeeps, Zenon
    <3> QED
      BY <2>3, <3>1, <3>2
  <2>7. PliInv(t.pli, asks')
    <3>1. CASE ~seg.adapter
      <4>1. asks' = <<>> /\ (t.pli = NewBackoff \/ t.pli = RecordKeyframe(seg.pli, now))
        BY <2>4, <2>6, <3>1 DEF PliAfter
      <4> QED
        BY <2>5, <4>1, PliFresh
    <3>2. CASE seg.adapter /\ ConvertFrame(codec, seg.cfg, f).sync
      <4>1. asks' = <<>> /\ t.pli = RecordKeyframe(seg.pli, now)
        BY <2>4, <2>6, <3>2 DEF PliAfter, EnsureVideoAdapter
      <4> QED
        BY <2>5, <4>1, PliFresh
    <3>3. CASE seg.adapter /\ ~ConvertFrame(codec, seg.cfg, f).sync
      <4>1. asks' = asks /\ t.pli = seg.pli
        BY <2>4, <2>6, <3>3 DEF PliAfter, EnsureVideoAdapter
      <4> QED
        BY <2>5, <4>1
    <3> QED
      BY <3>1, <3>2, <3>3
  <2>8. BacksOff(before', Never)
    <3>1. CASE ~seg.adapter /\ before' = asks
      <4>1. seg.pli.keyframe = Never
        BY <2>5, <3>1 DEF SegInv, BufferInv
      <4> QED
        BY <2>5, <3>1, <4>1, AsksBackOff
    <3>2. CASE before' = <<>>
      <4>1. PliInv(NewBackoff, <<>>) /\ NewBackoff.keyframe = Never
        BY <2>5, PliFresh DEF NewBackoff
      <4> QED
        BY <3>2, <4>1, AsksBackOff
    <3>3. CASE before' = before
      BY <3>3 DEF RecordingInv
    <3> QED
      BY <2>4, <3>1, <3>2, <3>3
  <2> QED
    BY <2>4, <2>6, <2>7, <2>8, GoesOn
<1> QED
  BY <1>3, <1>4

\* Every step of the publisher, the network and the task keeps the invariant.
LEMMA NextRecording == RecordingInv /\ [Next]_vars => RecordingInv'
<1> SUFFICES ASSUME RecordingInv, [Next]_vars PROVE RecordingInv'
  OBVIOUS
<1>1. ASSUME UNCHANGED <<codec, seg, asks, before>>, now' \in Nat,
             \/ phase' = phase
             \/ phase # "ended" /\ phase' \in {"chosen", "running"}
      PROVE  RecordingInv'
  BY <1>1 DEF RecordingInv
<1>2. CASE Passes
  <2>1. now' \in Nat
    BY <1>2 DEF Passes, RecordingInv
  <2>2. UNCHANGED <<codec, seg, asks, before, phase>>
    BY <1>2 DEF Passes, pubVars
  <2> QED
    BY <1>1, <2>1, <2>2
<1>3. CASE TracksDown \/ Lose \/ \E k \in {"video", "audio"} : TrackUp(k)
  BY <1>1, <1>3 DEF TracksDown, Lose, TrackUp, RecordingInv
<1>4. CASE Choose \/ Run
  BY <1>1, <1>4 DEF Choose, Run, pubVars, RecordingInv
<1>5. CASE Shutdown
  <2>1. SegInv(seg, codec, FALSE) /\ PliInv(seg.pli, asks) /\ BacksOff(before, Never)
    BY <1>5 DEF Shutdown, RecordingInv
  <2> QED
    BY <1>5, <2>1, GoesOn DEF Shutdown, pubVars
<1>6. CASE KeyframeTick
  <2>1. SegInv(seg, codec, FALSE) /\ PliInv(seg.pli, asks) /\ now \in Nat /\ BacksOff(before, Never)
    BY <1>6 DEF KeyframeTick, RecordingInv
  <2>2. CASE ShouldRequest(seg.pli, now) /\ "video" \in tracks
    <3>1. PICK b : b = RecordRequest(seg.pli, now)
      OBVIOUS
    <3>2. PliInv(b, Append(asks, now)) /\ b.keyframe = seg.pli.keyframe
      <4>1. PliInv(b, Append(asks, now))
        BY <2>1, <2>2, <3>1, PliRequest
      <4>2. b.keyframe = seg.pli.keyframe
        BY <2>1, <3>1 DEF PliInv, NewBackoff, RecordRequest
      <4> QED
        BY <4>1, <4>2
    <3>3. seg' = [seg EXCEPT !.pli = b] /\ asks' = Append(asks, now)
      BY <1>6, <2>2, <3>1 DEF KeyframeTick, RecordRequest
    <3>4. SegInv(seg', codec, FALSE) /\ PliInv(seg'.pli, asks')
      BY <2>1, <3>2, <3>3, PliApart
    <3> QED
      BY <1>6, <2>1, <3>4, GoesOn DEF KeyframeTick, pubVars
  <2>3. CASE ~(ShouldRequest(seg.pli, now) /\ "video" \in tracks)
    BY <1>1, <1>6, <2>3 DEF KeyframeTick, pubVars, RecordingInv
  <2> QED
    BY <2>2, <2>3
<1>7. CASE ReceiveVideo
  BY <1>7, PacketKeeps DEF ReceiveVideo
<1>8. CASE ReceiveLate
  BY <1>8, PacketKeeps DEF ReceiveLate
<1>9. ASSUME NEW k \in {"video", "audio"}, ReceiverGone(k)
      PROVE  RecordingInv'
  <2>1. SegInv(seg, codec, FALSE) /\ PliInv(seg.pli, asks) /\ BacksOff(before, Never)
    BY <1>9 DEF ReceiverGone, RecordingInv
  <2>2. (phase' = phase /\ seg' = seg) \/ EndTask(seg)
    BY <1>9 DEF ReceiverGone, Settle
  <2> QED
    BY <1>9, <2>1, <2>2, GoesOn DEF ReceiverGone
<1>10. CASE ReceiveAudio
  <2>1. SegInv(seg, codec, FALSE) /\ PliInv(seg.pli, asks) /\ BacksOff(before, Never)
    BY <1>10 DEF ReceiveAudio, RecordingInv
  <2>2. CASE UNCHANGED seg
    BY <1>1, <1>10, <2>2 DEF ReceiveAudio, RecordingInv
  <2>3. CASE seg' = PushOpus(seg, <<apos'>>, Elapsed("audio", apos' % TsMod, AudioTicks))
    <3>1. SegInv(seg', codec, FALSE) /\ seg'.pli = seg.pli
      BY <2>1, <2>3, OpusKeeps
    <3> QED
      BY <1>10, <2>1, <3>1, GoesOn DEF ReceiveAudio
  <2> QED
    BY <1>10, <2>2, <2>3 DEF ReceiveAudio
<1>11. CASE TrackChange
  <2>1. SegInv(seg, codec, FALSE) /\ PliInv(seg.pli, asks) /\ BacksOff(before, Never)
    BY <1>11 DEF TrackChange, RecordingInv
  <2>2. (phase' = phase /\ seg' = seg) \/ EndTask(seg)
    BY <1>11 DEF TrackChange, Settle
  <2> QED
    BY <1>11, <2>1, <2>2, GoesOn DEF TrackChange, pubVars
<1>12. CASE UNCHANGED vars
  BY <1>1, <1>12 DEF vars, pubVars, RecordingInv
<1> QED
  BY <1>2, <1>3, <1>4, <1>5, <1>6, <1>7, <1>8, <1>9, <1>10, <1>11, <1>12 DEF Next

\* The invariant of the recording task.
LEMMA RecordingHolds == Spec => []RecordingInv
BY InitRecording, NextRecording, PTL DEF Spec

--------------------------------------------------------------------------------
(* The VP9 and AV1 parsers.                                                *)

\* The parts gathered of one unit, from its first to e.
Gathered(parts, e) ==
  /\ IsSequence(parts) /\ Len(parts) > 0 /\ parts[Len(parts)] = e
  /\ \A i \in DOMAIN parts :
       /\ parts[i].part = i /\ parts[i].parts = e.parts
       /\ parts[i].frame = e.frame /\ parts[i].unit = e.unit

\* Sent packet n, in the order of the script of codec c.
Elems(c, n) == Script[c][n].elems

LastOf(q) == q[Len(q)]

\* What a parser waits for: the packet after one that was sent and, if that one
\* is gone on with, has left the parts of its last unit.
Awaits(p, c, k) ==
  /\ k \in DOMAIN Script[c] /\ Elems(c, k) # <<>>
  /\ p.next = ((k % SeqWrap) + 1) % SeqWrap
  /\ LastOf(Elems(c, k)).part # LastOf(Elems(c, k)).parts
       => Gathered(p.fragments, LastOf(Elems(c, k)))

FrameWhole(units) == \A u \in DOMAIN units : Whole(units[u])

ParserTypes(p) == DOMAIN p = DOMAIN NewParser /\ IsSequence(p.units) /\ IsSequence(p.fragments)

WholeParser(p, c) ==
  /\ ParserTypes(p)
  /\ FrameWhole(p.units)
  /\ p.next # NoSeq => \E k : Awaits(p, c, k)

\* What a parser gives keeps to the invariant, and a frame that it completes is
\* made of whole units.
WholeResult(r, c) ==
  WholeParser(r.parser, c) /\ (r.out = <<>> \/ FrameWhole(r.out[1]))

IsPacket(pkt, c, n) ==
  /\ n \in DOMAIN Script[c]
  /\ pkt.seq = n % SeqWrap /\ pkt.elems = Elems(c, n)

\* A packet is as the payload formats say.
LEMMA PacketElems ==
  ASSUME NEW c \in Codec, NEW n \in DOMAIN Script[c]
  PROVE  LET es == Elems(c, n) IN
         /\ n \in Nat /\ n > 0 /\ IsSequence(es) /\ Len(es) \in Nat /\ DOMAIN es = 1..Len(es)
         /\ es # <<>> => Len(es) > 0
         /\ \A i \in DOMAIN es :
              /\ es[i].part \in Nat
              /\ i > 1 => es[i].part = 1
              /\ i < Len(es) => es[i].part = es[i].parts
         /\ c = "vp9" => Len(es) <= 1
<1>1. n \in Nat /\ n > 0
  <2>1. PICK q : q = Script[c]
    OBVIOUS
  <2>2. q \in Seq({q[i] : i \in DOMAIN q})
    BY <2>1, ScriptAssumption
  <2>3. IsSequence(q)
    BY <2>2, SeqIsSequence
  <2> QED
    BY <2>1, <2>3, SequenceTyped
<1>2. PICK es : es = Elems(c, n)
  OBVIOUS
<1>0. Packetized(Script[c])
  BY ScriptAssumption
<1>3. es \in Seq({es[i] : i \in DOMAIN es})
  BY <1>2, <1>0 DEF Packetized, Elems
<1>4. IsSequence(es)
  BY <1>3, SeqIsSequence
<1>5. Len(es) \in Nat /\ DOMAIN es = 1..Len(es)
  BY <1>4, SequenceTyped
<1>6. es # <<>> => Len(es) > 0
  BY <1>3, <1>5
<1>7. \A i \in DOMAIN es :
        /\ es[i].part \in Nat
        /\ i > 1 => es[i].part = 1
        /\ i < Len(es) => es[i].part = es[i].parts
  BY <1>2, <1>0 DEF Packetized, Elems
<1>8. c = "vp9" => Len(es) <= 1
  BY <1>2, ScriptAssumption DEF Elems
<1> QED
  BY <1>1, <1>2, <1>4, <1>5, <1>6, <1>7, <1>8

\* A unit that goes on in a packet with the number the parser waits for goes on
\* with the parts that it has gathered.
LEMMA GoesOnWith ==
  ASSUME NEW c \in Codec, c \in {"vp9", "av1"}, NEW p, NEW k, Awaits(p, c, k),
         NEW n \in DOMAIN Script[c], p.next = n % SeqWrap, Continues(Elems(c, n))
  PROVE  /\ Gathered(p.fragments, LastOf(Elems(c, k)))
         /\ NextPart(LastOf(Elems(c, k)), Elems(c, n)[1])
<1>1. k \in DOMAIN Script[c] /\ Elems(c, k) # <<>>
  BY DEF Awaits
<1>2. Follows(k, n)
  BY DEF Follows, Awaits
<1>3. n = k + 1
  BY <1>1, <1>2, ScriptAssumption DEF Unambiguous, Elems
<1>4. k \in Nat /\ k > 0
  BY <1>1, PacketElems
<1>5. NextPart(LastOf(Elems(c, k)), Elems(c, n)[1])
  <2>1. n > 1 /\ n - 1 = k
    BY <1>3, <1>4
  <2>2. Script[c][n - 1].elems = Elems(c, k)
    BY <2>1 DEF Elems
  <2> QED
    BY <1>1, <2>1, <2>2, ScriptAssumption DEF Packetized, Elems, LastOf
<1> QED
  BY <1>5 DEF Awaits, NextPart

\* The next part of a unit is gathered; the last one makes it whole.
LEMMA PartGathered ==
  ASSUME NEW parts, NEW d, Gathered(parts, d), NEW e, NextPart(d, e)
  PROVE  /\ Gathered(Append(parts, e), e)
         /\ e.part = e.parts => Whole(Append(parts, e))
<1>1. PICK q : q = Append(parts, e)
  OBVIOUS
<1>2. PICK l \in Nat : l = Len(parts)
  BY DEF Gathered, IsSequence
<1>3. /\ IsSequence(q) /\ Len(q) = l + 1 /\ DOMAIN q = 1..(l + 1) /\ q[l + 1] = e
      /\ (\A i \in 1..l : q[i] = parts[i]) /\ DOMAIN parts = 1..l
  <2>1. IsSequence(parts)
    BY DEF Gathered
  <2>2. DOMAIN parts = 1..l
    BY <1>2, <2>1, SequenceTyped
  <2>3. IsSequence(q) /\ Len(q) = l + 1 /\ q[l + 1] = e /\ \A i \in DOMAIN parts : q[i] = parts[i]
    BY <1>1, <1>2, <2>1, Appended
  <2>4. DOMAIN q = 1..(l + 1)
    BY <2>3, SequenceTyped
  <2> QED
    BY <2>2, <2>3, <2>4
<1>4. l > 0 /\ parts[l] = d
  BY <1>2 DEF Gathered
<1>5. d.part = l /\ e.part = l + 1 /\ e.parts = d.parts /\ e.frame = d.frame /\ e.unit = d.unit
  BY <1>2, <1>3, <1>4 DEF Gathered, NextPart
<1>6. ASSUME NEW i \in DOMAIN q
      PROVE  /\ q[i].part = i /\ q[i].parts = e.parts
             /\ q[i].frame = e.frame /\ q[i].unit = e.unit
  <2>1. CASE i \in 1..l
    BY <1>3, <1>5, <2>1 DEF Gathered
  <2>2. CASE i = l + 1
    BY <1>3, <1>5, <2>2
  <2> QED
    BY <1>3, <2>1, <2>2
<1>7. Gathered(q, e)
  BY <1>2, <1>3, <1>6 DEF Gathered
<1>8. 1 \in DOMAIN q
  BY <1>2, <1>3
<1>9. e.part = e.parts => Whole(q)
  <2>1. \A i \in DOMAIN q : q[i].frame = q[1].frame /\ q[i].unit = q[1].unit
    BY <1>6, <1>8
  <2> QED
    BY <1>3, <1>5, <1>6, <2>1 DEF Whole
<1> QED
  BY <1>1, <1>7, <1>9

\* A unit's first part, and a unit of one part.
LEMMA FirstPart ==
  ASSUME NEW e, e.part = 1
  PROVE  Gathered(<<e>>, e) /\ (e.part = e.parts => Whole(<<e>>))
<1>1. PICK q : q = <<e>>
  OBVIOUS
<1>2. IsSequence(q) /\ Len(q) = 1 /\ DOMAIN q = {1} /\ q[1] = e
  <2>1. IsSequence(q) /\ Len(q) = 1 /\ q[1] = e
    BY <1>1 DEF IsSequence
  <2> QED
    BY <2>1, SequenceTyped
<1>3. Gathered(q, e)
  BY <1>2 DEF Gathered
<1>4. e.part = e.parts => Whole(q)
  BY <1>2 DEF Whole
<1> QED
  BY <1>1, <1>3, <1>4

\* A sequence number is not NoSeq.
LEMMA SeqBelow ==
  ASSUME NEW n \in Nat
  PROVE  n % SeqWrap # NoSeq
BY RtpParserAssumption DEF NoSeq

\* A parser that forgets its fragments.
LEMMA ResetKeeps ==
  ASSUME NEW p, NEW c, WholeParser(p, c)
  PROVE  /\ WholeParser(ResetFragments(p), c)
         /\ ResetFragments(p).units = p.units
<1>1. PICK q : q = ResetFragments(p)
  OBVIOUS
<1>2. /\ DOMAIN q = DOMAIN p /\ q.units = p.units /\ q.fragments = <<>> /\ q.next = NoSeq
  BY <1>1 DEF ResetFragments, WholeParser, ParserTypes, NewParser
<1> QED
  BY <1>1, <1>2, EmptySequence DEF WholeParser, ParserTypes

\* Any other field of the parser.
LEMMA FirstKeeps ==
  ASSUME NEW p, NEW c, WholeParser(p, c)
  PROVE  WholeParser([p EXCEPT !.first = TRUE], c)
<1>1. PICK q : q = [p EXCEPT !.first = TRUE]
  OBVIOUS
<1>2. DOMAIN q = DOMAIN p /\ q.units = p.units /\ q.fragments = p.fragments /\ q.next = p.next
  BY <1>1 DEF WholeParser, ParserTypes, NewParser
<1> QED
  BY <1>1, <1>2 DEF WholeParser, ParserTypes, Awaits

\* VP9.
LEMMA Vp9Whole ==
  ASSUME NEW c \in Codec, c = "vp9", NEW p, WholeParser(p, c), NEW n, NEW pkt, IsPacket(pkt, c, n)
  PROVE  WholeResult(PushVp9(p, pkt), c)
<1>1. PICK es : es = Elems(c, n)
  OBVIOUS
<1>2. /\ pkt.elems = es /\ pkt.seq = n % SeqWrap /\ n \in DOMAIN Script[c]
      /\ n \in Nat /\ IsSequence(es) /\ Len(es) \in Nat /\ Len(es) <= 1
      /\ es # <<>> => Len(es) > 0
  BY <1>1, PacketElems DEF IsPacket
<1>3. DOMAIN p = {"units", "fragments", "next", "first"} /\ IsSequence(p.fragments)
  BY DEF WholeParser, ParserTypes, NewParser
<1>4. PICK r : r = PushVp9(p, pkt)
  OBVIOUS
<1>5. ASSUME NEW q, WholeParser(q, c), r = Nothing(q)
      PROVE  WholeResult(r, c)
  BY <1>5 DEF WholeResult, Nothing
<1>6. ASSUME NEW q, NEW f, WholeParser(q, c), Whole(f), r = Complete(q, <<f>>)
      PROVE  WholeResult(r, c)
  <2>1. r.parser = q /\ r.out[1] = <<f>>
    BY <1>6 DEF Complete
  <2>2. FrameWhole(<<f>>)
    BY <1>6 DEF FrameWhole
  <2> QED
    BY <1>6, <2>1, <2>2 DEF WholeResult
<1>7. CASE es = <<>>
  <2>1. r = Nothing(ResetFragments(p))
    BY <1>2, <1>4, <1>7 DEF PushVp9
  <2> QED
    BY <1>4, <1>5, <2>1, ResetKeeps
<1>8. CASE es # <<>>
  <2>1. PICK e : e = es[1]
    OBVIOUS
  <2>2. Len(es) = 1 /\ es = <<e>> /\ LastOf(es) = e
    <3>1. Len(es) = 1
      <4>1. PICK l \in Nat : l = Len(es)
        BY <1>2
      <4>2. l > 0 /\ l <= 1
        BY <1>2, <1>8, <4>1
      <4> QED
        BY <4>1, <4>2
    <3>2. es = [i \in 1..1 |-> es[i]]
      BY <1>2, <3>1 DEF IsSequence
    <3> QED
      BY <2>1, <3>1, <3>2 DEF LastOf
  <2>3. /\ Starts(pkt) <=> e.part = 1
        /\ Ends(pkt) <=> e.part = e.parts
    BY <1>2, <2>1, <2>2 DEF Starts, Ends
  <2>4. ASSUME NEW q, ParserTypes(q), q.units = p.units, q.next = After(pkt),
               Gathered(q.fragments, e)
        PROVE  WholeParser(q, c)
    <3>1. Awaits(q, c, n)
      BY <1>1, <1>2, <1>8, <2>2, <2>4 DEF Awaits, After
    <3> QED
      BY <2>4, <3>1 DEF WholeParser
  <2>5. CASE Starts(pkt)
    <3>1. PICK s : s = [ResetFragments(p) EXCEPT !.first = TRUE]
      OBVIOUS
    <3>2. WholeParser(s, c)
      BY <3>1, ResetKeeps, FirstKeeps
    <3>3. CASE Ends(pkt)
      <4>1. r = Complete(s, <<es>>)
        BY <1>2, <1>4, <1>8, <2>5, <3>1, <3>3 DEF PushVp9
      <4>2. Whole(es)
        BY <2>2, <2>3, <2>5, <3>3, FirstPart
      <4> QED
        BY <1>4, <1>6, <3>2, <4>1, <4>2
    <3>4. CASE ~Ends(pkt)
      <4>1. PICK q : q = [s EXCEPT !.fragments = es, !.next = After(pkt)]
        OBVIOUS
      <4>2. r = Nothing(q)
        BY <1>2, <1>4, <1>8, <2>5, <3>1, <3>4, <4>1 DEF PushVp9
      <4>3. /\ DOMAIN q = DOMAIN s /\ q.units = p.units /\ q.fragments = es
            /\ q.next = After(pkt)
        BY <1>3, <3>1, <4>1 DEF ResetFragments
      <4>4. Gathered(es, e)
        BY <2>2, <2>3, <2>5, FirstPart
      <4>5. WholeParser(q, c)
        BY <1>2, <2>4, <3>2, <4>3, <4>4 DEF WholeParser, ParserTypes
      <4> QED
        BY <1>4, <1>5, <4>2, <4>5
    <3> QED
      BY <3>3, <3>4
  <2>6. CASE ~Starts(pkt) /\ p.fragments = <<>>
    <3>1. r = Nothing(p)
      BY <1>2, <1>4, <1>8, <2>6 DEF PushVp9
    <3> QED
      BY <1>4, <1>5, <3>1
  <2>7. CASE ~Starts(pkt) /\ p.fragments # <<>>
    <3>1. PICK f : f = Append(p.fragments, e)
      OBVIOUS
    <3>2. CASE p.next # pkt.seq \/ Len(f) > MaxParts
      <4>1. r = Nothing(ResetFragments(p))
        BY <1>2, <1>4, <1>8, <2>1, <2>7, <3>1, <3>2 DEF PushVp9
      <4> QED
        BY <1>4, <1>5, <4>1, ResetKeeps
    <3>3. CASE ~(p.next # pkt.seq \/ Len(f) > MaxParts)
      <4>1. p.next = n % SeqWrap /\ p.next # NoSeq
        BY <1>2, <3>3, SeqBelow
      <4>2. PICK k : Awaits(p, c, k)
        BY <4>1 DEF WholeParser
      <4>3. Continues(es)
        BY <1>8, <2>1, <2>3, <2>7 DEF Continues
      <4>4. PICK d : d = LastOf(Elems(c, k))
        OBVIOUS
      <4>5. Gathered(p.fragments, d) /\ NextPart(d, e)
        BY <1>1, <1>2, <2>1, <4>1, <4>2, <4>3, <4>4, GoesOnWith
      <4>6. Gathered(f, e) /\ (e.part = e.parts => Whole(f))
        BY <3>1, <4>5, PartGathered
      <4>7. PICK q : q = [p EXCEPT !.fragments = f, !.next = After(pkt)]
        OBVIOUS
      <4>8. DOMAIN q = DOMAIN p /\ q.units = p.units /\ q.fragments = f /\ q.next = After(pkt)
        BY <1>3, <4>7
      <4>9. WholeParser(q, c)
        BY <2>4, <4>6, <4>8 DEF WholeParser, ParserTypes, Gathered
      <4>10. CASE Ends(pkt)
        <5>1. r = Complete(ResetFragments(q), <<f>>)
          BY <1>2, <1>4, <1>8, <2>1, <2>7, <3>1, <3>3, <4>7, <4>10 DEF PushVp9
        <5> QED
          BY <1>4, <1>6, <2>3, <4>6, <4>9, <4>10, <5>1, ResetKeeps
      <4>11. CASE ~Ends(pkt)
        <5>1. r = Nothing(q)
          BY <1>2, <1>4, <1>8, <2>1, <2>7, <3>1, <3>3, <4>7, <4>11 DEF PushVp9
        <5> QED
          BY <1>4, <1>5, <4>9, <5>1
      <4> QED
        BY <4>10, <4>11
    <3> QED
      BY <3>2, <3>3
  <2> QED
    BY <2>5, <2>6, <2>7
<1> QED
  BY <1>7, <1>8

\* Units of one part each.
LEMMA EachUnit ==
  ASSUME NEW q, IsSequence(q)
  PROVE  /\ IsSequence(Each(q)) /\ Len(Each(q)) = Len(q) /\ Len(q) \in Nat
         /\ DOMAIN Each(q) = 1..Len(q) /\ DOMAIN q = 1..Len(q)
         /\ \A i \in DOMAIN q : Each(q)[i] = <<q[i]>>
<1>1. DOMAIN q = 1..Len(q) /\ Len(q) \in Nat
  BY SequenceTyped
<1>2. PICK l \in Nat : l = Len(q)
  BY <1>1
<1>3. PICK u : u = Each(q)
  OBVIOUS
<1>4. DOMAIN u = 1..l /\ \A i \in DOMAIN q : u[i] = <<q[i]>>
  BY <1>1, <1>2, <1>3 DEF Each
<1>5. PICK S : S = {u[i] : i \in 1..l}
  OBVIOUS
<1>6. u \in [1..l -> S]
  <2>1. u = [i \in 1..l |-> u[i]]
    BY <1>1, <1>2, <1>3 DEF Each
  <2> QED
    BY <1>5, <2>1
<1>7. u \in Seq(S) /\ Len(u) = l
  BY <1>6
<1> QED
  BY <1>1, <1>2, <1>3, <1>4, <1>7, SeqIsSequence

\* The tail of a sequence of anything.
LEMMA TailOf ==
  ASSUME NEW q, IsSequence(q), q # <<>>
  PROVE  /\ IsSequence(Tail(q)) /\ Len(Tail(q)) = Len(q) - 1
         /\ \A i \in 1..(Len(q) - 1) : Tail(q)[i] = q[i + 1]
<1>1. PICK S : S = {q[i] : i \in DOMAIN q}
  OBVIOUS
<1>2. q \in Seq(S) /\ q # <<>>
  BY <1>1, SequenceTyped
<1>3. Tail(q) \in Seq(S) /\ Len(Tail(q)) = Len(q) - 1
  BY <1>2, HeadTailProperties
<1>4. \A i \in 1..(Len(q) - 1) : Tail(q)[i] = q[i + 1]
  BY <1>2, HeadTailProperties
<1> QED
  BY <1>3, <1>4, SeqIsSequence

\* A sequence without its last element.
LEMMA FrontOf ==
  ASSUME NEW q, IsSequence(q), NEW l \in Nat, Len(q) = l, l > 0
  PROVE  /\ IsSequence(SubSeq(q, 1, l - 1)) /\ DOMAIN SubSeq(q, 1, l - 1) = 1..(l - 1)
         /\ \A i \in 1..(l - 1) : SubSeq(q, 1, l - 1)[i] = q[i]
<1>1. PICK S : S = {q[i] : i \in DOMAIN q}
  OBVIOUS
<1>2. q \in Seq(S)
  BY <1>1, SequenceTyped
<1>3. PICK f : f = SubSeq(q, 1, l - 1)
  OBVIOUS
<1>4. f \in Seq(S) /\ Len(f) = l - 1 /\ \A i \in 1..(l - 1) : f[i] = q[i]
  BY <1>2, <1>3
<1>5. IsSequence(f)
  BY <1>4, SeqIsSequence
<1>6. DOMAIN f = 1..(l - 1)
  BY <1>4, <1>5, SequenceTyped
<1> QED
  BY <1>3, <1>4, <1>5, <1>6

\* The units of an AV1 packet, the first with what was gathered before.
Decoded(joined, z, es) == IF z THEN <<joined>> \o Each(Tail(es)) ELSE Each(es)

UnitPerElem(u, joined, z, es, l) ==
  /\ IsSequence(u) /\ Len(u) = l /\ DOMAIN u = 1..l
  /\ u[1] = IF z THEN joined ELSE <<es[1]>>
  /\ \A i \in 2..l : u[i] = <<es[i]>>

\* They are as many as its elements.
LEMMA DecodedUnits ==
  ASSUME NEW joined, NEW z \in BOOLEAN, NEW es, IsSequence(es), NEW l \in Nat, Len(es) = l, l > 0
  PROVE  UnitPerElem(Decoded(joined, z, es), joined, z, es, l)
<1> USE DEF UnitPerElem
<1>1. PICK u : u = Decoded(joined, z, es)
  OBVIOUS
<1>2. DOMAIN es = 1..l /\ es # <<>>
  BY SequenceTyped, EmptySequence
<1>3. CASE ~z
  <2>1. u = Each(es)
    BY <1>1, <1>3 DEF Decoded
  <2> QED
    BY <1>1, <1>2, <1>3, <2>1, EachUnit
<1>4. CASE z
  <2>1. PICK t : t = Tail(es)
    OBVIOUS
  <2>2. IsSequence(t) /\ Len(t) = l - 1 /\ \A i \in 1..(l - 1) : t[i] = es[i + 1]
    BY <1>2, <2>1, TailOf
  <2>3. PICK v : v = Each(t)
    OBVIOUS
  <2>4. IsSequence(v) /\ Len(v) = l - 1 /\ \A i \in 1..(l - 1) : v[i] = <<es[i + 1]>>
    <3>1. IsSequence(v) /\ Len(v) = Len(t) /\ DOMAIN t = 1..Len(t)
          /\ \A i \in DOMAIN t : v[i] = <<t[i]>>
      BY <2>2, <2>3, EachUnit
    <3> QED
      BY <2>2, <3>1
  <2>5. PICK j : j = <<joined>>
    OBVIOUS
  <2>6. IsSequence(j) /\ Len(j) = 1 /\ j[1] = joined
    BY <2>5 DEF IsSequence
  <2>7. u = j \o v
    BY <1>1, <1>4, <2>1, <2>3, <2>5 DEF Decoded
  <2>8. /\ IsSequence(u) /\ Len(u) = l /\ DOMAIN u = 1..l
        /\ \A i \in 1..l : u[i] = IF i <= 1 THEN j[i] ELSE v[i - 1]
    <3>1. /\ IsSequence(j \o v) /\ Len(j \o v) = Len(j) + Len(v)
          /\ DOMAIN (j \o v) = 1..(Len(j) + Len(v))
          /\ \A i \in 1..(Len(j) + Len(v)) : (j \o v)[i] = IF i <= Len(j) THEN j[i] ELSE v[i - Len(j)]
      BY <2>4, <2>6, Joined
    <3>2. Len(j) + Len(v) = l
      BY <2>4, <2>6
    <3> QED
      BY <2>6, <2>7, <3>1, <3>2
  <2>9. u[1] = joined
    BY <2>6, <2>8
  <2>10. ASSUME NEW i \in 2..l
         PROVE  u[i] = <<es[i]>>
    <3>1. i - 1 \in 1..(l - 1) /\ i \in 1..l /\ ~(i <= 1) /\ (i - 1) + 1 = i
      OBVIOUS
    <3>2. v[i - 1] = <<es[(i - 1) + 1]>>
      BY <2>4, <3>1
    <3> QED
      BY <2>8, <3>1, <3>2
  <2> QED
    BY <1>1, <1>4, <2>8, <2>9, <2>10
<1> QED
  BY <1>3, <1>4


\* What is left of a packet when its units are given.
AV1Left(p, pkt, last) ==
  [[p EXCEPT !.first = TRUE]
     EXCEPT !.fragments = IF ~Ends(pkt) THEN last ELSE IF ~Starts(pkt) THEN <<>> ELSE @,
            !.next = After(pkt)]

\* AV1: the units of a packet that follows on.
LEMMA ObusWhole ==
  ASSUME NEW c \in Codec, c = "av1", NEW p, WholeParser(p, c), NEW n, NEW pkt, IsPacket(pkt, c, n)
  PROVE  LET r == DecodeObus(p, pkt) IN
         /\ WholeParser(r.parser, c) /\ r.parser.units = p.units
         /\ r.out # <<>> => IsSequence(r.out[1]) /\ FrameWhole(r.out[1])
<1>1. PICK es : es = Elems(c, n)
  OBVIOUS
<1>2. /\ pkt.elems = es /\ pkt.seq = n % SeqWrap /\ n \in DOMAIN Script[c]
      /\ n \in Nat /\ IsSequence(es) /\ Len(es) \in Nat /\ DOMAIN es = 1..Len(es)
      /\ es # <<>> => Len(es) > 0
  BY <1>1, PacketElems DEF IsPacket
<1>3. DOMAIN p = {"units", "fragments", "next", "first"} /\ IsSequence(p.fragments)
  BY DEF WholeParser, ParserTypes, NewParser
<1>4. PICK r : r = DecodeObus(p, pkt)
  OBVIOUS
<1>5. ASSUME NEW q, WholeParser(q, c), q.units = p.units, r = Nothing(q)
      PROVE  /\ WholeParser(r.parser, c) /\ r.parser.units = p.units
             /\ r.out = <<>>
  BY <1>5 DEF Nothing
<1>6. CASE es = <<>>
  <2>1. r = Nothing(ResetFragments(p))
    BY <1>2, <1>4, <1>6 DEF DecodeObus
  <2> QED
    BY <1>4, <1>5, <2>1, ResetKeeps
<1>7. PICK z, y, joined :
        /\ z \in BOOLEAN /\ z = ~Starts(pkt) /\ y \in BOOLEAN /\ y = ~Ends(pkt)
        /\ joined = Append(p.fragments, es[1])
  OBVIOUS
<1>8. CASE es # <<>> /\ z /\ p.fragments = <<>>
  <2>1. r = Nothing(ResetFragments(p))
    BY <1>2, <1>4, <1>7, <1>8 DEF DecodeObus
  <2> QED
    BY <1>4, <1>5, <2>1, ResetKeeps
<1>9. CASE es # <<>> /\ z /\ p.fragments # <<>> /\ (p.next # pkt.seq \/ Len(joined) > MaxParts)
  <2>1. PICK q : q = [p EXCEPT !.first = TRUE]
    OBVIOUS
  <2>2. WholeParser(q, c) /\ q.units = p.units
    BY <1>3, <2>1, FirstKeeps
  <2>3. r = Nothing(ResetFragments(q))
    BY <1>2, <1>4, <1>7, <1>9, <2>1 DEF DecodeObus
  <2> QED
    BY <1>4, <1>5, <2>2, <2>3, ResetKeeps
<1>10. CASE es # <<>> /\ (z => p.fragments # <<>> /\ p.next = pkt.seq /\ ~(Len(joined) > MaxParts))
  <2>1. PICK l \in Nat : l = Len(es)
    BY <1>2
  <2>2. l > 0 /\ DOMAIN es = 1..l
    BY <1>2, <1>10, <2>1
  <2>3. PICK whole : whole = Decoded(joined, z, es)
    OBVIOUS
  <2>4. /\ IsSequence(whole) /\ Len(whole) = l /\ DOMAIN whole = 1..l
        /\ whole[1] = IF z THEN joined ELSE <<es[1]>>
        /\ \A i \in 2..l : whole[i] = <<es[i]>>
    <3>1. IsSequence(es) /\ Len(es) = l
      BY <1>2, <2>1
    <3>2. UnitPerElem(whole, joined, z, es, l)
      BY <1>7, <2>2, <2>3, <3>1, DecodedUnits, Zenon
    <3> QED
      BY <3>2 DEF UnitPerElem
  <2>5. (z <=> es[1].part # 1) /\ (y <=> es[l].part # es[l].parts)
    BY <1>2, <1>7, <2>1 DEF Starts, Ends
  <2>6. \A i \in 1..l : (i > 1 => es[i].part = 1) /\ (i < l => es[i].part = es[i].parts)
    BY <1>1, <1>2, <2>1, <2>2, PacketElems
  <2>7. \A i \in 1..l : Gathered(whole[i], es[i]) /\ (es[i].part = es[i].parts => Whole(whole[i]))
    <3>1. CASE z
      <4>1. p.next = n % SeqWrap /\ p.next # NoSeq
        BY <1>2, <1>10, <3>1, SeqBelow
      <4>2. PICK k : Awaits(p, c, k)
        BY <4>1 DEF WholeParser
      <4>3. Continues(es)
        BY <1>10, <2>5, <3>1 DEF Continues
      <4>4. PICK d : d = LastOf(Elems(c, k))
        OBVIOUS
      <4>5. Gathered(p.fragments, d) /\ NextPart(d, es[1])
        BY <1>1, <1>2, <4>1, <4>2, <4>3, <4>4, GoesOnWith
      <4>6. Gathered(joined, es[1]) /\ (es[1].part = es[1].parts => Whole(joined))
        BY <1>7, <4>5, PartGathered
      <4>7. \A i \in 2..l : Gathered(<<es[i]>>, es[i]) /\ (es[i].part = es[i].parts => Whole(<<es[i]>>))
        BY <2>6, FirstPart
      <4>8. ASSUME NEW i \in 1..l, i # 1 PROVE i \in 2..l
        BY <4>8
      <4> QED
        BY <2>4, <3>1, <4>6, <4>7, <4>8
    <3>2. CASE ~z
      <4>1. es[1].part = 1
        BY <2>5, <3>2
      <4>2. \A i \in 1..l : es[i].part = 1
        BY <2>6, <4>1
      <4>3. \A i \in 1..l : whole[i] = <<es[i]>>
        <5>1. ASSUME NEW i \in 1..l, i # 1 PROVE i \in 2..l
          BY <5>1
        <5> QED
          BY <2>4, <3>2, <5>1
      <4> QED
        BY <4>2, <4>3, FirstPart
    <3> QED
      BY <3>1, <3>2
  <2>8. PICK given : given = IF y THEN SubSeq(whole, 1, l - 1) ELSE whole
    OBVIOUS
  <2>9. IsSequence(given) /\ FrameWhole(given)
    <3>1. CASE y
      <4>1. /\ IsSequence(given) /\ DOMAIN given = 1..(l - 1)
            /\ \A i \in 1..(l - 1) : given[i] = whole[i]
        BY <2>2, <2>4, <2>8, <3>1, FrontOf
      <4>2. ASSUME NEW i \in 1..(l - 1) PROVE Whole(given[i])
        <5>1. i \in 1..l /\ i < l
          OBVIOUS
        <5> QED
          BY <2>6, <2>7, <4>1, <5>1
      <4> QED
        BY <4>1, <4>2 DEF FrameWhole
    <3>2. CASE ~y
      <4>1. \A i \in 1..l : i = l \/ i < l
        OBVIOUS
      <4>2. \A i \in 1..l : es[i].part = es[i].parts
        BY <2>5, <2>6, <3>2, <4>1
      <4> QED
        BY <2>4, <2>7, <2>8, <3>2, <4>2 DEF FrameWhole
    <3> QED
      BY <3>1, <3>2
  <2>10. PICK last : last = whole[l]
    OBVIOUS
  <2>11. PICK q : q = AV1Left(p, pkt, last)
    OBVIOUS
  <2>12. r = [parser |-> q, out |-> IF given = <<>> THEN <<>> ELSE <<given>>]
    <3>1. whole = IF z THEN <<joined>> \o Each(Tail(es)) ELSE Each(es)
      BY <2>3 DEF Decoded
    <3>2. ~(z /\ p.fragments = <<>>) /\ ~(z /\ (p.next # pkt.seq \/ Len(joined) > MaxParts))
      BY <1>10
    <3>3. Len(whole) = l
      BY <2>4
    <3> QED
      BY <1>2, <1>4, <1>7, <1>10, <2>8, <2>10, <2>11, <3>1, <3>2, <3>3 DEF DecodeObus, AV1Left
  <2>13. /\ DOMAIN q = DOMAIN p /\ q.units = p.units /\ q.next = After(pkt)
         /\ q.fragments = IF y THEN last ELSE IF z THEN <<>> ELSE p.fragments
    BY <1>3, <1>7, <2>11 DEF AV1Left
  <2>14. Gathered(last, es[l])
    BY <2>2, <2>7, <2>10
  <2>15. ParserTypes(q)
    BY <1>3, <2>13, <2>14, EmptySequence DEF WholeParser, ParserTypes, Gathered
  <2>16. Awaits(q, c, n)
    BY <1>1, <1>2, <1>10, <2>1, <2>5, <2>13, <2>14 DEF Awaits, After, LastOf
  <2>17. WholeParser(q, c)
    BY <2>13, <2>15, <2>16 DEF WholeParser
  <2>18. r.parser = q /\ (r.out # <<>> => r.out[1] = given)
    BY <2>12
  <2> QED
    BY <1>4, <2>9, <2>13, <2>17, <2>18
<1> QED
  BY <1>6, <1>7, <1>8, <1>9, <1>10, <1>4

\* AV1: the temporal unit is made of whole units.
LEMMA Av1Whole ==
  ASSUME NEW c \in Codec, c = "av1", NEW p, WholeParser(p, c), NEW n, NEW pkt, IsPacket(pkt, c, n)
  PROVE  WholeResult(PushAv1(p, pkt), c)
<1>1. PICK d : d = DecodeObus(p, pkt)
  OBVIOUS
<1>2. WholeParser(d.parser, c)
  BY <1>1, ObusWhole
<1>3. d.out # <<>> => IsSequence(d.out[1]) /\ FrameWhole(d.out[1])
  BY <1>1, ObusWhole
<1>4. PICK r : r = PushAv1(p, pkt)
  OBVIOUS
<1>5. ASSUME NEW u, IsSequence(u), FrameWhole(u)
      PROVE  WholeParser([d.parser EXCEPT !.units = u], c)
  <2>1. PICK q : q = [d.parser EXCEPT !.units = u]
    OBVIOUS
  <2>2. /\ DOMAIN q = DOMAIN d.parser /\ q.units = u /\ q.fragments = d.parser.fragments
        /\ q.next = d.parser.next
    BY <1>2, <2>1 DEF WholeParser, ParserTypes, NewParser
  <2> QED
    BY <1>2, <1>5, <2>1, <2>2 DEF WholeParser, ParserTypes, Awaits
<1>6. WholeParser([d.parser EXCEPT !.units = <<>>], c)
  BY <1>5, EmptySequence DEF FrameWhole
<1>7. CASE d.out = <<>>
  <2>1. r = Nothing(d.parser)
    BY <1>1, <1>4, <1>7 DEF PushAv1
  <2> QED
    BY <1>2, <1>4, <2>1 DEF WholeResult, Nothing
<1>8. CASE d.out # <<>>
  <2>1. PICK grown : grown = d.parser.units \o d.out[1]
    OBVIOUS
  <2>2. IsSequence(grown) /\ FrameWhole(grown)
    <3>1. PICK a, b : a = d.parser.units /\ b = d.out[1]
      OBVIOUS
    <3>2. IsSequence(a) /\ IsSequence(b) /\ FrameWhole(a) /\ FrameWhole(b)
      BY <1>2, <1>3, <1>8, <3>1 DEF WholeParser, ParserTypes
    <3>3. /\ IsSequence(grown) /\ Len(a) \in Nat /\ Len(b) \in Nat
          /\ DOMAIN a = 1..Len(a) /\ DOMAIN b = 1..Len(b) /\ DOMAIN grown = 1..(Len(a) + Len(b))
          /\ \A i \in 1..(Len(a) + Len(b)) :
               grown[i] = IF i <= Len(a) THEN a[i] ELSE b[i - Len(a)]
      BY <2>1, <3>1, <3>2, Joined
    <3>4. PICK k \in Nat, l \in Nat : k = Len(a) /\ l = Len(b)
      BY <3>3
    <3>5. ASSUME NEW i \in 1..(k + l)
          PROVE  Whole(grown[i])
      <4>1. i <= k => i \in 1..k
        OBVIOUS
      <4>2. ~(i <= k) => i - k \in 1..l
        OBVIOUS
      <4> QED
        BY <3>2, <3>3, <3>4, <4>1, <4>2 DEF FrameWhole
    <3> QED
      BY <3>3, <3>4, <3>5 DEF FrameWhole
  <2>3. PICK q : q = [d.parser EXCEPT !.units = grown]
    OBVIOUS
  <2>4. WholeParser(q, c) /\ q.units = grown
    BY <1>2, <1>5, <2>2, <2>3 DEF WholeParser, ParserTypes, NewParser
  <2>5. CASE Len(grown) > MaxUnits
    <3>1. r = Nothing([d.parser EXCEPT !.units = <<>>])
      BY <1>1, <1>4, <1>8, <2>1, <2>5 DEF PushAv1
    <3> QED
      BY <1>4, <1>6, <3>1 DEF WholeResult, Nothing
  <2>6. CASE ~(Len(grown) > MaxUnits)
    <3>1. r = Flush(q, pkt)
      BY <1>1, <1>4, <1>8, <2>1, <2>3, <2>6 DEF PushAv1
    <3>2. [q EXCEPT !.units = <<>>] = [d.parser EXCEPT !.units = <<>>]
      BY <1>2, <2>3 DEF WholeParser, ParserTypes, NewParser
    <3>3. CASE pkt.marker
      <4>1. r.parser = [d.parser EXCEPT !.units = <<>>] /\ r.out[1] = grown
        BY <2>4, <3>1, <3>2, <3>3 DEF Flush, Complete
      <4> QED
        BY <1>4, <1>6, <2>2, <4>1 DEF WholeResult
    <3>4. CASE ~pkt.marker
      <4>1. r.parser = q /\ r.out = <<>>
        BY <3>1, <3>4 DEF Flush, Nothing
      <4> QED
        BY <1>4, <2>4, <4>1 DEF WholeResult
    <3> QED
      BY <3>3, <3>4
  <2> QED
    BY <2>5, <2>6
<1> QED
  BY <1>7, <1>8

--------------------------------------------------------------------------------
(* Samples, segments and manifests.                                        *)

\* w holds what the first k samples of q last, for every k.
Sums(w, q) == w = [k \in 0..Len(q) |-> IF k = 0 THEN 0 ELSE w[k - 1] + q[k].duration]

\* Some w does, and every one that does ends at d.
SumsUp(q, d) == (\E w : Sums(w, q)) /\ \A w : Sums(w, q) => w[Len(q)] = d

\* The samples gathered since start.
Gathering(samples, start, pts) ==
  /\ IsSequence(samples) /\ start \in Nat /\ pts \in Nat /\ start <= pts
  /\ SumsUp(samples, pts - start)

HasLongest(segments) ==
  LET d == {0} \cup {segments[n].duration : n \in DOMAIN segments} IN
  \E x \in d : \A y \in d : x >= y

\* Each segment was handed over under that name before the i-th file, and so was
\* an init segment.
StoredBefore(segments, files, i, name, init) ==
  \A n \in DOMAIN segments :
    /\ \E j \in Named(files, name) : j < i /\ Holds(files[j], segments[n], n)
    /\ \E j \in Named(files, init) : j < i

\* No number is handed over twice.
Numbered(files, name) ==
  \A i, j \in Named(files, name) : files[i].of.seq_number = files[j].of.seq_number => i = j

\* The segments of a track up to `at` are handed over, and nothing else under
\* their names.
TrackInv(segments, at, files, name, init) ==
  /\ IsSequence(segments)
  /\ \A n \in DOMAIN segments : segments[n].start_time \in Nat /\ segments[n].duration \in Nat
  /\ Contiguous(segments) /\ HasLongest(segments) /\ End(segments) = at
  /\ StoredBefore(segments, files, Len(files) + 1, name, init)
  /\ Numbered(files, name)
  /\ \A i \in Named(files, name) : files[i].of.seq_number \in DOMAIN segments

\* The i-th file is a manifest of what was stored before it.
ManifestAt(files, i) ==
  LET m == files[i] IN
  /\ StoredBefore(m.video, files, i, "v_seg", "v_init") /\ Contiguous(m.video)
  /\ StoredBefore(m.audio, files, i, "a_seg", "a_init") /\ Contiguous(m.audio)
  /\ m.duration >= End(m.video) * AudioScale /\ m.duration >= End(m.audio) * VideoScale

\* What a partial sum is, at both ends.
LEMMA LastsSum ==
  ASSUME NEW q, NEW d, SumsUp(q, d)
  PROVE  Lasts(q) = d
<1>1. Sums(CHOOSE w : Sums(w, q), q)
  BY DEF SumsUp
<1>2. Lasts(q) = (CHOOSE w : Sums(w, q))[Len(q)]
  BY DEF Lasts, Sums
<1> QED
  BY <1>1, <1>2 DEF SumsUp

\* Without samples no time has passed.
LEMMA SumsNothing == SumsUp(<<>>, 0)
<1>1. PICK w : w = [k \in 0..0 |-> 0]
  OBVIOUS
<1>2. Sums(w, <<>>)
  BY <1>1, EmptySequence DEF Sums
<1>3. ASSUME NEW x, Sums(x, <<>>) PROVE x[Len(<<>>)] = 0
  BY <1>3, EmptySequence DEF Sums
<1> QED
  BY <1>2, <1>3 DEF SumsUp

\* A sample adds its duration.
LEMMA SumsOneMore ==
  ASSUME NEW q, IsSequence(q), NEW d, SumsUp(q, d), NEW e
  PROVE  SumsUp(Append(q, e), d + e.duration)
<1>1. PICK l \in Nat : l = Len(q)
  BY DEF IsSequence
<1>2. PICK r : r = Append(q, e)
  OBVIOUS
<1>3. Len(r) = l + 1 /\ r[l + 1] = e /\ \A i \in 1..l : r[i] = q[i]
  BY <1>1, <1>2, Appended, SequenceTyped
<1>4. \E w : Sums(w, r)
  <2>1. PICK w : Sums(w, q)
    BY DEF SumsUp
  <2>2. /\ w = [k \in 0..l |-> w[k]] /\ w[0] = 0
        /\ \A k \in 1..l : w[k] = w[k - 1] + q[k].duration
    BY <1>1, <2>1 DEF Sums
  <2>3. PICK x : x = [k \in 0..(l + 1) |-> IF k <= l THEN w[k] ELSE w[l] + e.duration]
    OBVIOUS
  <2>4. x = [k \in 0..(l + 1) |-> x[k]] /\ x[0] = 0 /\ x[l + 1] = w[l] + e.duration
        /\ \A k \in 0..l : x[k] = w[k]
    BY <2>2, <2>3
  <2>5. ASSUME NEW k \in 0..(l + 1), k # 0
        PROVE  x[k] = x[k - 1] + r[k].duration
    <3>1. CASE k \in 1..l
      <4>1. k - 1 \in 0..l /\ k \in 0..l
        BY <3>1
      <4> QED
        BY <1>3, <2>2, <2>4, <3>1, <4>1
    <3>2. CASE k = l + 1
      <4>1. k - 1 = l /\ l \in 0..l
        BY <3>2
      <4> QED
        BY <1>3, <2>4, <3>2, <4>1
    <3> QED
      BY <2>5, <3>1, <3>2
  <2>6. Sums(x, r)
    BY <1>3, <2>4, <2>5 DEF Sums
  <2> QED
    BY <2>6
<1>5. ASSUME NEW x, Sums(x, r)
      PROVE  x[l + 1] = d + e.duration
  <2>1. /\ x = [k \in 0..(l + 1) |-> x[k]] /\ x[0] = 0
        /\ \A k \in 1..(l + 1) : x[k] = x[k - 1] + r[k].duration
    BY <1>3, <1>5 DEF Sums
  <2>2. PICK w : w = [k \in 0..l |-> x[k]]
    OBVIOUS
  <2>3. ASSUME NEW k \in 0..l
        PROVE  w[k] = IF k = 0 THEN 0 ELSE w[k - 1] + q[k].duration
    <3>1. CASE k = 0
      BY <2>1, <2>2, <3>1
    <3>2. CASE k # 0
      <4>1. k \in 1..(l + 1) /\ k - 1 \in 0..l /\ k \in 1..l
        BY <3>2
      <4> QED
        BY <1>3, <2>1, <2>2, <3>2, <4>1
    <3> QED
      BY <3>1, <3>2
  <2>4. Sums(w, q)
    BY <1>1, <2>2, <2>3 DEF Sums
  <2>5. w[l] = d
    BY <1>1, <2>4 DEF SumsUp
  <2>6. x[l] = d
    BY <2>2, <2>5
  <2>7. x[l + 1] = x[l] + e.duration
    <3>1. l + 1 \in 1..(l + 1) /\ (l + 1) - 1 = l
      OBVIOUS
    <3> QED
      BY <1>3, <2>1, <3>1
  <2> QED
    BY <2>6, <2>7
<1> QED
  BY <1>2, <1>3, <1>4, <1>5 DEF SumsUp

\* A new segment has gathered nothing.
LEMMA GatheringNothing ==
  ASSUME NEW t \in Nat
  PROVE  Gathering(<<>>, t, t)
<1>1. t - t = 0
  OBVIOUS
<1> QED
  BY <1>1, EmptySequence, SumsNothing DEF Gathering

\* A sample is gathered.
LEMMA GatheringOneMore ==
  ASSUME NEW samples, NEW start, NEW pts, Gathering(samples, start, pts), NEW e,
         NEW dur \in Nat, e.duration = dur
  PROVE  Gathering(Append(samples, e), start, pts + dur)
<1>1. SumsUp(Append(samples, e), (pts - start) + dur)
  BY SumsOneMore DEF Gathering
<1>2. (pts - start) + dur = (pts + dur) - start
  BY DEF Gathering
<1>3. IsSequence(Append(samples, e))
  BY Appended DEF Gathering
<1> QED
  BY <1>1, <1>2, <1>3 DEF Gathering

\* What is stored stays stored.
LEMMA StoredStays ==
  ASSUME NEW files, IsSequence(files), NEW f, NEW segments, NEW name, NEW init,
         NEW i \in Nat, i <= Len(files) + 1, StoredBefore(segments, files, i, name, init),
         NEW k \in Nat, i <= k
  PROVE  StoredBefore(segments, Append(files, f), k, name, init)
<1>1. \A x, j : j \in Named(files, x) => j \in Named(Append(files, f), x)
                                       /\ Append(files, f)[j] = files[j] /\ j \in Nat
  <2>1. /\ DOMAIN files = 1..Len(files) /\ DOMAIN Append(files, f) = DOMAIN files \cup {Len(files) + 1}
        /\ \A j \in DOMAIN files : Append(files, f)[j] = files[j]
    BY Appended, SequenceTyped
  <2> QED
    BY <2>1 DEF Named
<1>2. ASSUME NEW n \in DOMAIN segments
      PROVE  /\ \E j \in Named(Append(files, f), name) :
                  j < k /\ Holds(Append(files, f)[j], segments[n], n)
             /\ \E j \in Named(Append(files, f), init) : j < k
  <2>1. PICK j \in Named(files, name) : j < i /\ Holds(files[j], segments[n], n)
    BY DEF StoredBefore
  <2>2. PICK h \in Named(files, init) : h < i
    BY DEF StoredBefore
  <2>3. j < k /\ h < k
    BY <1>1, <2>1, <2>2
  <2> QED
    BY <1>1, <2>1, <2>2, <2>3
<1> QED
  BY <1>2 DEF StoredBefore

\* A manifest stays true.
LEMMA ManifestStays ==
  ASSUME NEW files, IsSequence(files), NEW f, NEW i \in DOMAIN files, ManifestAt(files, i)
  PROVE  ManifestAt(Append(files, f), i)
<1>1. i \in Nat /\ i <= Len(files) + 1 /\ i <= i /\ Append(files, f)[i] = files[i]
  BY Appended, SequenceTyped
<1>2. PICK m : m = files[i]
  OBVIOUS
<1>3. StoredBefore(m.video, Append(files, f), i, "v_seg", "v_init")
  BY <1>1, <1>2, StoredStays DEF ManifestAt
<1>4. StoredBefore(m.audio, Append(files, f), i, "a_seg", "a_init")
  BY <1>1, <1>2, StoredStays DEF ManifestAt
<1> QED
  BY <1>1, <1>2, <1>3, <1>4 DEF ManifestAt

\* A file of another name.
LEMMA TrackApart ==
  ASSUME NEW segments, NEW at, NEW files, IsSequence(files), NEW name, NEW init,
         TrackInv(segments, at, files, name, init), NEW f, f.name # name
  PROVE  TrackInv(segments, at, Append(files, f), name, init)
<1>1. PICK q : q = Append(files, f)
  OBVIOUS
<1>2. PICK l \in Nat : l = Len(files)
  BY DEF IsSequence
<1>3. Len(q) = l + 1 /\ Named(q, name) = Named(files, name) /\ \A i \in DOMAIN files : q[i] = files[i]
  BY <1>1, <1>2, Appended, NamedAppended
<1>4. \A i \in Named(files, name) : q[i] = files[i]
  BY <1>3 DEF Named
<1>5. StoredBefore(segments, q, Len(q) + 1, name, init)
  <2>1. StoredBefore(segments, files, l + 1, name, init)
    BY <1>2 DEF TrackInv
  <2>2. l + 1 \in Nat /\ l + 1 <= Len(files) + 1 /\ l + 2 \in Nat /\ l + 1 <= l + 2
    BY <1>2
  <2>3. StoredBefore(segments, q, l + 2, name, init)
    BY <1>1, <2>1, <2>2, StoredStays
  <2>4. Len(q) + 1 = l + 2
    BY <1>3
  <2> QED
    BY <2>3, <2>4
<1>6. Numbered(q, name) /\ \A i \in Named(q, name) : q[i].of.seq_number \in DOMAIN segments
  BY <1>3, <1>4 DEF TrackInv, Numbered
<1> QED
  BY <1>1, <1>5, <1>6 DEF TrackInv

\* A segment that is cut is stored under the next number and starts where the
\* last one ended.
LEMMA SegmentAdded ==
  ASSUME NEW segments, NEW start, NEW files, IsSequence(files), NEW name, NEW init,
         TrackInv(segments, start, files, name, init), Named(files, init) # {},
         NEW samples, NEW pts, Gathering(samples, start, pts),
         NEW f, f.name = name, f.of = BuildFragment(Len(segments) + 1, start, samples),
         NEW g, g = [start_time |-> start, duration |-> pts - start]
  PROVE  TrackInv(Append(segments, g), pts, Append(files, f), name, init)
<1>1. PICK t, q : t = Append(segments, g) /\ q = Append(files, f)
  OBVIOUS
<1>2. PICK l \in Nat, k \in Nat : l = Len(segments) /\ k = Len(files)
  BY DEF TrackInv, IsSequence
<1>3. IsSequence(segments) /\ DOMAIN segments = 1..l /\ DOMAIN files = 1..k
  BY <1>2, SequenceTyped DEF TrackInv
<1>4. /\ IsSequence(t) /\ Len(t) = l + 1 /\ DOMAIN t = 1..(l + 1) /\ t[l + 1] = g /\ t # <<>>
      /\ \A n \in 1..l : t[n] = segments[n]
  <2>1. /\ IsSequence(t) /\ Len(t) = l + 1 /\ t[l + 1] = g /\ t # <<>>
        /\ \A n \in DOMAIN segments : t[n] = segments[n]
    BY <1>1, <1>2, <1>3, Appended
  <2>2. DOMAIN t = 1..(l + 1)
    BY <2>1, SequenceTyped
  <2> QED
    BY <1>3, <2>1, <2>2
<1>5. /\ IsSequence(q) /\ Len(q) = k + 1 /\ q[k + 1] = f /\ (\A n \in 1..k : q[n] = files[n])
      /\ Named(q, name) = Named(files, name) \cup {k + 1}
  <2>1. IsSequence(q) /\ Len(q) = k + 1 /\ q[k + 1] = f /\ (\A n \in 1..k : q[n] = files[n])
    BY <1>1, <1>2, <1>3, Appended
  <2>2. Named(Append(files, f), name) = Named(files, name) \cup {Len(files) + 1}
    BY NamedAppended
  <2> QED
    BY <1>1, <1>2, <2>1, <2>2
<1>6. start \in Nat /\ pts \in Nat /\ start <= pts /\ IsSequence(samples)
      /\ SumsUp(samples, pts - start)
  BY DEF Gathering
<1>7. g.start_time = start /\ g.duration = pts - start /\ pts - start \in Nat
  BY <1>6
<1>8. \A n \in DOMAIN t : t[n].start_time \in Nat /\ t[n].duration \in Nat
  <2>1. \A n \in 1..l : segments[n].start_time \in Nat /\ segments[n].duration \in Nat
    BY <1>3 DEF TrackInv
  <2>2. \A n \in 1..(l + 1) : n \in 1..l \/ n = l + 1
    OBVIOUS
  <2> QED
    BY <1>4, <1>6, <1>7, <2>1, <2>2
<1>9. End(t) = pts
  <2>1. t[Len(t)] = g
    BY <1>4
  <2>2. start + (pts - start) = pts
    BY <1>6
  <2> QED
    BY <1>4, <1>7, <2>1, <2>2 DEF End
<1>10. Contiguous(t)
  <2>1. ASSUME NEW n \in 1..(l + 1)
        PROVE  t[n].start_time = IF n = 1 THEN 0 ELSE t[n - 1].start_time + t[n - 1].duration
    <3>1. CASE n \in 1..l
      <4>1. n # 1 => n - 1 \in 1..l
        BY <3>1
      <4> QED
        BY <1>3, <1>4, <3>1, <4>1 DEF TrackInv, Contiguous
    <3>2. CASE n = l + 1 /\ l = 0
      <4>1. segments = <<>>
        BY <1>2, <1>3, <3>2 DEF IsSequence
      <4>2. start = 0
        BY <4>1 DEF TrackInv, End
      <4> QED
        BY <1>4, <1>7, <3>2, <4>2
    <3>3. CASE n = l + 1 /\ l # 0
      <4>1. segments # <<>>
        BY <1>2, <3>3, EmptySequence
      <4>2. start = segments[l].start_time + segments[l].duration
        BY <1>2, <4>1 DEF TrackInv, End
      <4>3. n # 1 /\ n - 1 = l /\ l \in 1..l
        BY <3>3
      <4> QED
        BY <1>4, <1>7, <3>3, <4>2, <4>3
    <3> QED
      BY <3>1, <3>2, <3>3
  <2> QED
    BY <1>4, <2>1 DEF Contiguous
<1>11. HasLongest(t)
  <2>1. PICK S : S = {0} \cup {segments[n].duration : n \in 1..l}
    OBVIOUS
  <2>2. PICK x \in S : \A y \in S : x >= y
    BY <1>3, <2>1 DEF TrackInv, HasLongest
  <2>3. \A y \in S : y \in Nat
    BY <1>3, <2>1 DEF TrackInv
  <2>4. {0} \cup {t[n].duration : n \in DOMAIN t} = S \cup {pts - start}
    <3>1. \A n \in 1..(l + 1) : n \in 1..l \/ n = l + 1
      OBVIOUS
    <3>2. \A n \in 1..l : n \in 1..(l + 1)
      OBVIOUS
    <3>3. l + 1 \in 1..(l + 1)
      OBVIOUS
    <3> QED
      BY <1>4, <1>7, <2>1, <3>1, <3>2, <3>3
  <2>5. \E z \in S \cup {pts - start} : \A y \in S \cup {pts - start} : z >= y
    <3>1. CASE x >= pts - start
      BY <1>7, <2>2, <2>3, <3>1
    <3>2. CASE ~(x >= pts - start)
      BY <1>7, <2>2, <2>3, <3>2
    <3> QED
      BY <3>1, <3>2
  <2> QED
    BY <2>4, <2>5 DEF HasLongest
<1>12. StoredBefore(t, q, k + 2, name, init)
  <2>1. StoredBefore(segments, q, k + 2, name, init)
    <3>1. StoredBefore(segments, files, k + 1, name, init)
      BY <1>2 DEF TrackInv
    <3>2. k + 1 \in Nat /\ k + 1 <= Len(files) + 1 /\ k + 2 \in Nat /\ k + 1 <= k + 2
      BY <1>2
    <3> QED
      BY <1>1, <3>1, <3>2, StoredStays
  <2>2. \E j \in Named(q, init) : j < k + 2
    <3>1. PICK j \in Named(files, init) : TRUE
      OBVIOUS
    <3>2. j \in 1..k /\ files[j].name = init
      BY <1>3, <3>1 DEF Named
    <3>3. j \in DOMAIN q
      BY <1>5, <3>2, SequenceTyped
    <3>4. j \in Named(q, init) /\ j < k + 2
      BY <1>5, <3>2, <3>3 DEF Named
    <3> QED
      BY <3>4
  <2>3. Holds(f, g, l + 1)
    <3>1. PICK b : b = BuildFragment(l + 1, start, samples)
      OBVIOUS
    <3>2. b.seq_number = l + 1 /\ b.base_time = start /\ b.samples = samples
      BY <3>1 DEF BuildFragment
    <3>3. f.of = b
      BY <1>2, <3>1
    <3>4. g.duration = Lasts(samples)
      BY <1>6, <1>7, LastsSum
    <3> QED
      BY <1>7, <3>2, <3>3, <3>4 DEF Holds
  <2>4. k + 1 \in Named(q, name) /\ k + 1 < k + 2
    BY <1>5
  <2>5. ASSUME NEW n \in 1..(l + 1)
        PROVE  /\ \E j \in Named(q, name) : j < k + 2 /\ Holds(q[j], t[n], n)
               /\ \E j \in Named(q, init) : j < k + 2
    <3>1. CASE n \in 1..l
      BY <1>3, <1>4, <2>1, <3>1 DEF StoredBefore
    <3>2. CASE n = l + 1
      <4>1. Holds(q[k + 1], t[n], n)
        BY <1>4, <1>5, <2>3, <3>2
      <4> QED
        BY <2>2, <2>4, <4>1
    <3> QED
      BY <3>1, <3>2
  <2> QED
    BY <1>4, <2>5 DEF StoredBefore
<1>13. \A i \in Named(files, name) : i \in 1..k /\ q[i] = files[i]
  BY <1>3, <1>5 DEF Named
<1>14. f.of.seq_number = l + 1
  BY <1>2 DEF BuildFragment
<1>15. \A i \in Named(q, name) : q[i].of.seq_number \in DOMAIN t
  <2>1. \A n \in 1..l : n \in 1..(l + 1)
    OBVIOUS
  <2>2. \A i \in Named(files, name) : q[i].of.seq_number \in 1..l
    BY <1>3, <1>13 DEF TrackInv
  <2>3. q[k + 1].of.seq_number \in 1..(l + 1)
    BY <1>5, <1>14
  <2> QED
    BY <1>4, <1>5, <2>1, <2>2, <2>3
<1>16. Numbered(q, name)
  <2>1. \A i \in Named(files, name) : q[i].of.seq_number \in 1..l /\ q[k + 1].of.seq_number = l + 1
    BY <1>3, <1>5, <1>13, <1>14 DEF TrackInv
  <2>2. \A i \in Named(files, name) : q[i].of.seq_number # q[k + 1].of.seq_number
    BY <2>1
  <2>3. \A i, j \in Named(files, name) : q[i].of.seq_number = q[j].of.seq_number => i = j
    BY <1>13 DEF TrackInv, Numbered
  <2> QED
    BY <1>5, <2>2, <2>3 DEF Numbered
<1>17. Len(q) + 1 = k + 2
  BY <1>5
<1> QED
  BY <1>1, <1>4, <1>8, <1>9, <1>10, <1>11, <1>12, <1>15, <1>16, <1>17 DEF TrackInv

\* The longest of a track's segments is a number.
LEMMA LongestTyped ==
  ASSUME NEW segments, NEW at, NEW files, NEW name, NEW init,
         TrackInv(segments, at, files, name, init)
  PROVE  Longest(segments) \in Nat
<1>1. PICK S : S = {0} \cup {segments[n].duration : n \in DOMAIN segments}
  OBVIOUS
<1>2. \E x \in S : \A y \in S : x >= y
  BY <1>1 DEF TrackInv, HasLongest
<1>3. \A x \in S : x \in Nat
  BY <1>1 DEF TrackInv
<1>4. Longest(segments) = CHOOSE x \in S : \A y \in S : x >= y
  BY <1>1 DEF Longest, Max
<1> QED
  BY <1>2, <1>3, <1>4

\* A product of natural numbers is one.
LEMMA ProductTyped == \A a, b \in Nat : a * b \in Nat
OBVIOUS

\* A manifest of what was stored is exact.
LEMMA ManifestAdded ==
  ASSUME NEW s, IsSequence(s.files), NEW at \in Nat, NEW aat \in Nat,
         TrackInv(s.segments, at, s.files, "v_seg", "v_init"),
         TrackInv(s.asegments, aat, s.files, "a_seg", "a_init"),
         NEW m, IsManifest(m, s)
  PROVE  ManifestAt(Append(s.files, m), Len(s.files) + 1)
<1>1. PICK q : q = Append(s.files, m)
  OBVIOUS
<1>2. PICK k \in Nat : k = Len(s.files)
  BY DEF IsSequence
<1>3. q[k + 1] = m
  BY <1>1, <1>2, Appended
<1>4. k + 1 \in Nat /\ k + 1 <= Len(s.files) + 1 /\ k + 1 <= k + 1
  BY <1>2
<1>5. StoredBefore(m.video, q, k + 1, "v_seg", "v_init") /\ Contiguous(m.video)
  <2>1. StoredBefore(s.segments, s.files, k + 1, "v_seg", "v_init")
    BY <1>2 DEF TrackInv
  <2>2. StoredBefore(s.segments, q, k + 1, "v_seg", "v_init")
    BY <1>1, <1>4, <2>1, StoredStays
  <2> QED
    BY <2>2 DEF TrackInv, IsManifest
<1>6. StoredBefore(m.audio, q, k + 1, "a_seg", "a_init") /\ Contiguous(m.audio)
  <2>1. StoredBefore(s.asegments, s.files, k + 1, "a_seg", "a_init")
    BY <1>2 DEF TrackInv
  <2>2. StoredBefore(s.asegments, q, k + 1, "a_seg", "a_init")
    BY <1>1, <1>4, <2>1, StoredStays
  <2> QED
    BY <2>2 DEF TrackInv, IsManifest
<1>7. m.duration >= End(m.video) * AudioScale /\ m.duration >= End(m.audio) * VideoScale
  <2>1. End(m.video) = at /\ End(m.audio) = aat
    BY DEF TrackInv, IsManifest
  <2>2. PICK x \in Nat, y \in Nat : x = at * AudioScale /\ y = aat * VideoScale
    BY ProductTyped, SegmenterAssumption
  <2>3. PICK a \in Nat, b \in Nat : /\ a = Longest(s.segments) * AudioScale
                                    /\ b = Longest(s.asegments) * VideoScale
    <3>1. Longest(s.segments) \in Nat
      BY LongestTyped
    <3>2. Longest(s.asegments) \in Nat
      BY LongestTyped
    <3> QED
      BY <3>1, <3>2, ProductTyped, SegmenterAssumption
  <2>4. PICK d \in Nat : d = SegSeconds * VideoScale * AudioScale
    BY ProductTyped, SegmenterAssumption
  <2>5. PICK longest \in Nat, max \in Nat, end \in Nat :
          /\ longest = Larger(a, b) /\ max = (IF longest = 0 THEN d ELSE longest)
          /\ end = Larger(x, y)
    BY DEF Larger
  <2>6. m.duration = IF end = 0 THEN max ELSE end
    <3>1. End(s.segments) = at /\ End(s.asegments) = aat
      BY DEF TrackInv
    <3> QED
      BY <2>2, <2>3, <2>4, <2>5, <3>1 DEF IsManifest, ManifestLength
  <2>7. m.duration >= x /\ m.duration >= y
    BY <2>5, <2>6 DEF Larger
  <2> QED
    BY <2>1, <2>2, <2>7
<1> QED
  BY <1>1, <1>2, <1>3, <1>5, <1>6, <1>7 DEF ManifestAt

\* Both tracks are gathered and stored as their manifests say.
ExactInv(s) ==
  /\ Gathering(s.samples, s.start, s.pts) /\ Gathering(s.asamples, s.astart, s.apts)
  /\ TrackInv(s.segments, s.start, s.files, "v_seg", "v_init")
  /\ TrackInv(s.asegments, s.astart, s.files, "a_seg", "a_init")
  /\ s.aindex = Len(s.asegments)
  /\ s.asamples = <<>> => s.astart = s.apts
  /\ ~s.track => s.pts = 0
  /\ s.track => Named(s.files, "v_init") # {}
  /\ s.atrack => Named(s.files, "a_init") # {}
  /\ ~s.atrack => s.asegments = <<>>
  /\ \A i \in Named(s.files, "manifest") : ManifestAt(s.files, i)

WholeInv(s) ==
  /\ \A i \in Named(s.files, "v_seg") : SamplesWhole(s.files[i].of.samples)
  /\ SamplesWhole(s.samples)

\* What is recorded: exact manifests, and in VP9 and AV1 whole units.
MediaInv(s, c) == ExactInv(s) /\ (c \in {"vp9", "av1"} => WholeInv(s))

\* The fields that ExactInv and WholeInv are about.
MediaFields == Fields \ {"adapter", "cfg", "index", "pli"}

\* A file and a manifest of the segments there are then.
LEMMA FilesExact ==
  ASSUME NEW s, NEW t, IsSequence(s.files), NEW f, f.name # "manifest", FilesAdded(s, t, f),
         NEW at \in Nat, NEW aat \in Nat,
         TrackInv(t.segments, at, Append(s.files, f), "v_seg", "v_init"),
         TrackInv(t.asegments, aat, Append(s.files, f), "a_seg", "a_init"),
         \A i \in Named(s.files, "manifest") : ManifestAt(s.files, i)
  PROVE  /\ TrackInv(t.segments, at, t.files, "v_seg", "v_init")
         /\ TrackInv(t.asegments, aat, t.files, "a_seg", "a_init")
         /\ \A i \in Named(t.files, "manifest") : ManifestAt(t.files, i)
         /\ \A x : Named(s.files, x) \subseteq Named(t.files, x)
         /\ Named(t.files, f.name) # {}
<1>1. PICK q : q = Append(s.files, f)
  OBVIOUS
<1>2. PICK m : IsManifest(m, t) /\ t.files = Append(q, m)
  BY <1>1 DEF FilesAdded
<1>3. m.name = "manifest" /\ IsSequence(q) /\ IsSequence(t.files)
  BY <1>1, <1>2, Appended DEF IsManifest
<1>4. TrackInv(t.segments, at, t.files, "v_seg", "v_init")
  <2>1. m.name # "v_seg"
    BY <1>3
  <2> QED
    BY <1>1, <1>2, <1>3, <2>1, TrackApart
<1>5. TrackInv(t.asegments, aat, t.files, "a_seg", "a_init")
  <2>1. m.name # "a_seg"
    BY <1>3
  <2> QED
    BY <1>1, <1>2, <1>3, <2>1, TrackApart
<1>6. Named(q, "manifest") = Named(s.files, "manifest")
  BY <1>1, NamedAppended
<1>7. \A i \in Named(q, "manifest") : ManifestAt(q, i)
  <2>1. \A i \in Named(s.files, "manifest") : i \in DOMAIN s.files
    BY DEF Named
  <2> QED
    BY <1>1, <1>6, <2>1, ManifestStays
<1>8. Named(t.files, "manifest") = Named(q, "manifest") \cup {Len(q) + 1}
  BY <1>2, <1>3, NamedAppended
<1>9. ManifestAt(t.files, Len(q) + 1)
  <2>1. PICK d : d = [files |-> q, segments |-> t.segments, asegments |-> t.asegments]
    OBVIOUS
  <2>2. d.files = q /\ d.segments = t.segments /\ d.asegments = t.asegments
    BY <2>1
  <2>3. IsManifest(m, d)
    BY <1>2, <2>2, SameManifest
  <2>4. ManifestAt(Append(d.files, m), Len(d.files) + 1)
    BY <1>1, <1>3, <2>2, <2>3, ManifestAdded
  <2> QED
    BY <1>2, <2>2, <2>4
<1>10. \A i \in Named(q, "manifest") : ManifestAt(t.files, i)
  <2>1. \A i \in Named(q, "manifest") : i \in DOMAIN q
    BY DEF Named
  <2> QED
    BY <1>2, <1>3, <1>7, <2>1, ManifestStays
<1>11. /\ DOMAIN q = DOMAIN s.files \cup {Len(s.files) + 1} /\ q[Len(s.files) + 1] = f
       /\ (\A i \in DOMAIN s.files : q[i] = s.files[i])
       /\ DOMAIN t.files = DOMAIN q \cup {Len(q) + 1}
       /\ (\A i \in DOMAIN q : t.files[i] = q[i])
  BY <1>1, <1>2, <1>3, Appended
<1>12. \A x : Named(s.files, x) \subseteq Named(t.files, x)
  BY <1>11 DEF Named
<1>13. Len(s.files) + 1 \in Named(t.files, f.name)
  BY <1>11 DEF Named
<1> QED
  BY <1>4, <1>5, <1>8, <1>9, <1>10, <1>12, <1>13

\* Files of other names leave the samples that are stored.
LEMMA FilesWhole ==
  ASSUME NEW s, NEW t, IsSequence(s.files), NEW f, FilesAdded(s, t, f), WholeInv(s),
         f.name = "v_seg" => SamplesWhole(f.of.samples), SamplesWhole(t.samples)
  PROVE  WholeInv(t)
<1>1. PICK q : q = Append(s.files, f)
  OBVIOUS
<1>2. PICK m : m.name = "manifest" /\ t.files = Append(q, m)
  BY <1>1 DEF FilesAdded, IsManifest
<1>3. IsSequence(q) /\ m.name # "v_seg"
  BY <1>1, <1>2, Appended
<1>4. Named(t.files, "v_seg") = Named(q, "v_seg")
  BY <1>2, <1>3, NamedAppended
<1>5. /\ DOMAIN q = DOMAIN s.files \cup {Len(s.files) + 1} /\ q[Len(s.files) + 1] = f
      /\ (\A i \in DOMAIN s.files : q[i] = s.files[i])
      /\ (\A i \in DOMAIN q : t.files[i] = q[i])
  BY <1>1, <1>2, <1>3, Appended
<1>6. ASSUME NEW i \in Named(q, "v_seg")
      PROVE  SamplesWhole(q[i].of.samples)
  <2>1. i \in DOMAIN q /\ q[i].name = "v_seg"
    BY DEF Named
  <2>2. CASE i \in DOMAIN s.files
    BY <1>5, <2>1, <2>2 DEF Named, WholeInv
  <2>3. CASE i = Len(s.files) + 1
    BY <1>5, <2>1, <2>3
  <2> QED
    BY <1>5, <2>1, <2>2, <2>3
<1>7. \A i \in Named(q, "v_seg") : t.files[i] = q[i]
  BY <1>5 DEF Named
<1> QED
  BY <1>4, <1>6, <1>7 DEF WholeInv

\* A state with the same media fields.
LEMMA MediaApart ==
  ASSUME NEW s, NEW t, NEW c, MediaInv(s, c), \A k \in MediaFields : t[k] = s[k]
  PROVE  MediaInv(t, c)
<1>1. /\ t.track = s.track /\ t.start = s.start /\ t.pts = s.pts
      /\ t.samples = s.samples /\ t.segments = s.segments /\ t.atrack = s.atrack
      /\ t.aindex = s.aindex /\ t.astart = s.astart /\ t.apts = s.apts
      /\ t.asamples = s.asamples /\ t.asegments = s.asegments /\ t.files = s.files
  BY DEF MediaFields, Fields
<1>2. ExactInv(t)
  BY <1>1 DEF MediaInv, ExactInv
<1>3. c \in {"vp9", "av1"} => WholeInv(t)
  BY <1>1 DEF MediaInv, WholeInv
<1> QED
  BY <1>2, <1>3 DEF MediaInv

\* roll_segment.
LEMMA RollMedia ==
  ASSUME NEW s, NEW c, SegInv(s, c, FALSE), MediaInv(s, c), s.track, s.samples # <<>>
  PROVE  MediaInv(RollSegment(s), c)
<1>1. /\ DOMAIN s = Fields /\ IsSequence(s.files) /\ s.index = Len(s.segments) + 1
      /\ Named(s.files, "v_init") # {} /\ ExactInv(s)
  BY SegmenterFields DEF SegInv, SegTypes, CutInv, MediaInv, ExactInv
<1>2. PICK t : t = RollSegment(s)
  OBVIOUS
<1>3. PICK f : f = VideoFile(s)
  OBVIOUS
<1>4. f.name = "v_seg" /\ f.of = BuildFragment(Len(s.segments) + 1, s.start, s.samples)
  BY <1>1, <1>3 DEF VideoFile
<1>5. /\ Same(s, t, {"files", "segments", "samples", "index", "start"})
      /\ t.segments = Append(s.segments, VideoSegment(s))
      /\ t.samples = <<>> /\ t.start = s.pts
  BY <1>1, <1>2, RollEffect
<1>6. FilesAdded(s, t, f)
  BY <1>1, <1>2, <1>3, RollEffect
<1>7. /\ t.track = s.track /\ t.pts = s.pts /\ t.atrack = s.atrack
      /\ t.aindex = s.aindex /\ t.astart = s.astart /\ t.apts = s.apts
      /\ t.asamples = s.asamples /\ t.asegments = s.asegments
  BY <1>5 DEF Same, Fields
<1>8. TrackInv(t.segments, s.pts, Append(s.files, f), "v_seg", "v_init")
  <2>1. TrackInv(s.segments, s.start, s.files, "v_seg", "v_init")
    BY <1>1 DEF ExactInv
  <2>2. Gathering(s.samples, s.start, s.pts)
    BY <1>1 DEF ExactInv
  <2>3. PICK g : g = [start_time |-> s.start, duration |-> s.pts - s.start]
    OBVIOUS
  <2>4. t.segments = Append(s.segments, g)
    BY <1>5, <2>3 DEF VideoSegment
  <2> QED
    BY <1>1, <1>4, <2>1, <2>2, <2>3, <2>4, SegmentAdded
<1>9. TrackInv(t.asegments, s.astart, Append(s.files, f), "a_seg", "a_init")
  <2>1. f.name # "a_seg" /\ TrackInv(s.asegments, s.astart, s.files, "a_seg", "a_init")
    BY <1>1, <1>4 DEF ExactInv
  <2> QED
    BY <1>1, <1>7, <2>1, TrackApart
<1>10. s.pts \in Nat /\ s.astart \in Nat
  BY <1>1 DEF ExactInv, Gathering
<1>11. \A i \in Named(s.files, "manifest") : ManifestAt(s.files, i)
  BY <1>1 DEF ExactInv
<1>12. /\ TrackInv(t.segments, s.pts, t.files, "v_seg", "v_init")
       /\ TrackInv(t.asegments, s.astart, t.files, "a_seg", "a_init")
       /\ \A i \in Named(t.files, "manifest") : ManifestAt(t.files, i)
       /\ \A x : Named(s.files, x) \subseteq Named(t.files, x)
  <2>1. f.name # "manifest"
    BY <1>4
  <2> QED
    BY <1>1, <1>6, <1>8, <1>9, <1>10, <1>11, <2>1, FilesExact
<1>13. Gathering(t.samples, t.start, t.pts)
  BY <1>5, <1>7, <1>10, GatheringNothing
<1>14. Named(t.files, "v_init") # {} /\ (s.atrack => Named(t.files, "a_init") # {})
  <2>1. s.atrack => Named(s.files, "a_init") # {}
    BY <1>1 DEF ExactInv
  <2> QED
    BY <1>1, <1>12, <2>1
<1>15. ExactInv(t)
  BY <1>1, <1>5, <1>7, <1>12, <1>13, <1>14 DEF ExactInv
<1>16. ASSUME c \in {"vp9", "av1"}
       PROVE  WholeInv(t)
  <2>1. WholeInv(s)
    BY <1>16 DEF MediaInv
  <2>2. SamplesWhole(f.of.samples)
    BY <1>4, <2>1 DEF BuildFragment, WholeInv
  <2>3. SamplesWhole(t.samples)
    BY <1>5, EmptySequence DEF SamplesWhole
  <2> QED
    BY <1>1, <1>6, <2>1, <2>2, <2>3, FilesWhole
<1> QED
  BY <1>2, <1>15, <1>16 DEF MediaInv

\* roll_audio_segment.
LEMMA RollAudioMedia ==
  ASSUME NEW s, NEW c, NEW ended, SegInv(s, c, ended), MediaInv(s, c), NEW force \in BOOLEAN
  PROVE  MediaInv(RollAudioSegment(s, force), c)
<1>1. DOMAIN s = Fields /\ IsSequence(s.files) /\ s.atrack \in BOOLEAN /\ ExactInv(s)
  BY SegmenterFields DEF SegInv, SegTypes, MediaInv
<1>2. CASE AudioWaits(s, force)
  <2>1. RollAudioSegment(s, force) = s
    BY <1>2 DEF RollAudioSegment, AudioWaits
  <2> QED
    BY <2>1
<1>3. CASE ~AudioWaits(s, force)
  <2>1. PICK t : t = RollAudioSegment(s, force)
    OBVIOUS
  <2>2. PICK f : f = AudioFile(s)
    OBVIOUS
  <2>3. f.name = "a_seg" /\ f.of = BuildFragment(Len(s.asegments) + 1, s.astart, s.asamples)
    BY <1>1, <2>2 DEF AudioFile, ExactInv
  <2>4. /\ Same(s, t, (AudioFields \ {"atrack"}) \cup {"files"}) /\ t.asamples = <<>>
        /\ t.asegments = Append(s.asegments, AudioSegment(s))
        /\ t.aindex = s.aindex + 1 /\ t.astart = s.apts /\ t.apts = s.apts
    BY <1>1, <1>3, <2>1, RollAudioEffect, Zenon
  <2>5. FilesAdded(s, t, f)
    BY <1>1, <1>3, <2>1, <2>2, RollAudioEffect, Zenon
  <2>6. /\ t.track = s.track /\ t.start = s.start /\ t.pts = s.pts /\ t.atrack = s.atrack
        /\ t.samples = s.samples /\ t.segments = s.segments
    BY <2>4 DEF Same, Fields, AudioFields
  <2>7. s.atrack /\ Named(s.files, "a_init") # {}
    BY <1>1, <1>3 DEF AudioWaits, ExactInv
  <2>8. TrackInv(s.asegments, s.astart, s.files, "a_seg", "a_init")
    BY <1>1 DEF ExactInv
  <2>9. TrackInv(t.asegments, s.apts, Append(s.files, f), "a_seg", "a_init")
    <3>1. Gathering(s.asamples, s.astart, s.apts)
      BY <1>1 DEF ExactInv
    <3>2. PICK g : g = [start_time |-> s.astart, duration |-> s.apts - s.astart]
      OBVIOUS
    <3>3. t.asegments = Append(s.asegments, g)
      BY <2>4, <3>2 DEF AudioSegment
    <3> QED
      BY <1>1, <2>3, <2>7, <2>8, <3>1, <3>2, <3>3, SegmentAdded
  <2>10. TrackInv(t.segments, s.start, Append(s.files, f), "v_seg", "v_init")
    <3>1. f.name # "v_seg" /\ TrackInv(s.segments, s.start, s.files, "v_seg", "v_init")
      BY <1>1, <2>3 DEF ExactInv
    <3> QED
      BY <1>1, <2>6, <3>1, TrackApart
  <2>11. s.apts \in Nat /\ s.start \in Nat
    BY <1>1 DEF ExactInv, Gathering
  <2>12. \A i \in Named(s.files, "manifest") : ManifestAt(s.files, i)
    BY <1>1 DEF ExactInv
  <2>13. /\ TrackInv(t.segments, s.start, t.files, "v_seg", "v_init")
         /\ TrackInv(t.asegments, s.apts, t.files, "a_seg", "a_init")
         /\ \A i \in Named(t.files, "manifest") : ManifestAt(t.files, i)
         /\ \A x : Named(s.files, x) \subseteq Named(t.files, x)
    <3>1. f.name # "manifest"
      BY <2>3
    <3> QED
      BY <1>1, <2>5, <2>9, <2>10, <2>11, <2>12, <3>1, FilesExact
  <2>14. Gathering(t.asamples, t.astart, t.apts)
    BY <2>4, <2>11, GatheringNothing
  <2>15. Named(t.files, "a_init") # {} /\ (s.track => Named(t.files, "v_init") # {})
    <3>1. s.track => Named(s.files, "v_init") # {}
      BY <1>1 DEF ExactInv
    <3> QED
      BY <2>7, <2>13, <3>1
  <2>16. t.aindex = Len(t.asegments)
    <3>1. IsSequence(s.asegments) /\ s.aindex = Len(s.asegments)
      BY <1>1, <2>8 DEF ExactInv, TrackInv
    <3> QED
      BY <2>4, <3>1, Appended
  <2>17. ExactInv(t)
    BY <1>1, <2>4, <2>6, <2>7, <2>13, <2>14, <2>15, <2>16 DEF ExactInv
  <2>18. ASSUME c \in {"vp9", "av1"}
         PROVE  WholeInv(t)
    <3>1. WholeInv(s)
      BY <2>18 DEF MediaInv
    <3>2. SamplesWhole(t.samples)
      BY <2>6, <3>1 DEF WholeInv
    <3>3. f.name # "v_seg"
      BY <2>3
    <3> QED
      BY <1>1, <2>5, <3>1, <3>2, <3>3, FilesWhole
  <2> QED
    BY <2>1, <2>17, <2>18 DEF MediaInv
<1> QED
  BY <1>2, <1>3

\* A sample of an open track.
LEMMA SampleMedia ==
  ASSUME NEW d, NEW c, DOMAIN d = Fields, MediaInv(d, c), d.track,
         NEW e, NEW dur \in Nat, e.duration = dur,
         c \in {"vp9", "av1"} => FrameWhole(e.frame)
  PROVE  MediaInv(WithSample(d, e, dur), c)
<1>1. PICK r : r = WithSample(d, e, dur)
  OBVIOUS
<1>2. /\ Same(d, r, {"samples", "pts"}) /\ r.samples = Append(d.samples, e)
      /\ r.pts = d.pts + dur
  BY <1>1 DEF Same, Fields, WithSample
<1>3. /\ r.track = d.track /\ r.start = d.start /\ r.segments = d.segments
      /\ r.atrack = d.atrack /\ r.aindex = d.aindex /\ r.astart = d.astart
      /\ r.apts = d.apts /\ r.asamples = d.asamples /\ r.asegments = d.asegments
      /\ r.files = d.files
  BY <1>2 DEF Same, Fields
<1>4. Gathering(r.samples, r.start, r.pts)
  BY <1>2, <1>3, GatheringOneMore DEF MediaInv, ExactInv
<1>5. ExactInv(r)
  BY <1>3, <1>4 DEF MediaInv, ExactInv
<1>6. ASSUME c \in {"vp9", "av1"}
      PROVE  WholeInv(r)
  <2>1. WholeInv(d) /\ FrameWhole(e.frame) /\ IsSequence(d.samples)
    BY <1>6 DEF MediaInv, ExactInv, Gathering
  <2>2. /\ DOMAIN r.samples = DOMAIN d.samples \cup {Len(d.samples) + 1}
        /\ r.samples[Len(d.samples) + 1] = e
        /\ \A i \in DOMAIN d.samples : r.samples[i] = d.samples[i]
    BY <1>2, <2>1, Appended
  <2>3. SamplesWhole(r.samples)
    BY <2>1, <2>2 DEF SamplesWhole, FrameWhole, WholeInv
  <2> QED
    BY <1>3, <2>1, <2>3 DEF WholeInv
<1> QED
  BY <1>1, <1>5, <1>6 DEF MediaInv

\* init_writer, before any video.
LEMMA InitMedia ==
  ASSUME NEW b, NEW c \in Codecs, DOMAIN b = Fields, IsSequence(b.files), Known(c, b.cfg),
         MediaInv(b, c), ~b.track, b.segments = <<>>
  PROVE  MediaInv(InitWriter(b, c), c)
<1>1. PICK t : t = InitWriter(b, c)
  OBVIOUS
<1>2. /\ Same(b, t, {"track", "files", "samples", "index", "start"})
      /\ t.samples = <<>> /\ t.track = TRUE /\ t.start = b.pts
  BY <1>1, InitWriterEffect
<1>3. InitAdded(b, t, c)
  BY <1>1, InitWriterEffect
<1>4. PICK f : f.name = "v_init" /\ FilesAdded(b, t, f)
  BY <1>3 DEF InitAdded
<1>5. /\ t.segments = b.segments /\ t.pts = b.pts
      /\ t.atrack = b.atrack /\ t.aindex = b.aindex /\ t.astart = b.astart
      /\ t.apts = b.apts /\ t.asamples = b.asamples /\ t.asegments = b.asegments
  BY <1>2 DEF Same, Fields
<1>6. ExactInv(b)
  BY DEF MediaInv
<1>7. b.pts = 0 /\ b.start = 0 /\ b.astart \in Nat
  <2>1. b.pts = 0 /\ b.astart \in Nat
    BY <1>6 DEF ExactInv, Gathering
  <2>2. End(b.segments) = b.start
    BY <1>6 DEF ExactInv, TrackInv
  <2> QED
    BY <2>1, <2>2 DEF End
<1>8. TrackInv(t.segments, 0, Append(b.files, f), "v_seg", "v_init")
  <2>1. f.name # "v_seg" /\ TrackInv(b.segments, 0, b.files, "v_seg", "v_init")
    BY <1>4, <1>6, <1>7 DEF ExactInv
  <2> QED
    BY <1>5, <2>1, TrackApart
<1>9. TrackInv(t.asegments, b.astart, Append(b.files, f), "a_seg", "a_init")
  <2>1. f.name # "a_seg" /\ TrackInv(b.asegments, b.astart, b.files, "a_seg", "a_init")
    BY <1>4, <1>6 DEF ExactInv
  <2> QED
    BY <1>5, <2>1, TrackApart
<1>10. \A i \in Named(b.files, "manifest") : ManifestAt(b.files, i)
  BY <1>6 DEF ExactInv
<1>11. /\ TrackInv(t.segments, 0, t.files, "v_seg", "v_init")
       /\ TrackInv(t.asegments, b.astart, t.files, "a_seg", "a_init")
       /\ \A i \in Named(t.files, "manifest") : ManifestAt(t.files, i)
       /\ \A x : Named(b.files, x) \subseteq Named(t.files, x)
       /\ Named(t.files, f.name) # {}
  <2>1. f.name # "manifest" /\ 0 \in Nat
    BY <1>4
  <2> QED
    BY <1>4, <1>7, <1>8, <1>9, <1>10, <2>1, FilesExact
<1>12. Gathering(t.samples, t.start, t.pts)
  BY <1>2, <1>5, <1>7, GatheringNothing
<1>13. Named(t.files, "v_init") # {} /\ (b.atrack => Named(t.files, "a_init") # {})
  <2>1. b.atrack => Named(b.files, "a_init") # {}
    BY <1>6 DEF ExactInv
  <2> QED
    BY <1>4, <1>11, <2>1
<1>14. ExactInv(t)
  BY <1>2, <1>5, <1>6, <1>7, <1>11, <1>12, <1>13 DEF ExactInv
<1>15. ASSUME c \in {"vp9", "av1"}
       PROVE  WholeInv(t)
  <2>1. WholeInv(b)
    BY <1>15 DEF MediaInv
  <2>2. SamplesWhole(t.samples) /\ f.name # "v_seg"
    BY <1>2, <1>4, EmptySequence DEF SamplesWhole
  <2> QED
    BY <1>4, <2>1, <2>2, FilesWhole
<1> QED
  BY <1>1, <1>14, <1>15 DEF MediaInv

\* init_audio_writer, before any audio.
LEMMA InitAudioMedia ==
  ASSUME NEW s, NEW c, NEW ended, SegInv(s, c, ended), MediaInv(s, c), ~s.atrack
  PROVE  MediaInv(InitAudioWriter(s), c)
<1>1. PICK t : t = InitAudioWriter(s)
  OBVIOUS
<1>2. DOMAIN s = Fields /\ IsSequence(s.files) /\ s.asamples = <<>> /\ ExactInv(s)
  BY SegmenterFields DEF SegInv, SegTypes, BufferInv, MediaInv
<1>3. /\ Same(s, t, {"atrack", "aindex", "astart", "files"})
      /\ t.atrack = TRUE /\ t.aindex = 0 /\ t.astart = s.apts
  BY <1>1, <1>2, InitAudioEffect
<1>4. PICK f : f.name = "a_init" /\ FilesAdded(s, t, f)
  BY <1>1, <1>2, InitAudioEffect DEF AudioInitFile
<1>5. /\ t.track = s.track /\ t.start = s.start /\ t.pts = s.pts
      /\ t.samples = s.samples /\ t.segments = s.segments
      /\ t.apts = s.apts /\ t.asamples = s.asamples /\ t.asegments = s.asegments
  BY <1>3 DEF Same, Fields
<1>6. t.astart = s.astart /\ s.start \in Nat /\ s.astart \in Nat /\ s.asegments = <<>>
  BY <1>2, <1>3 DEF ExactInv, Gathering
<1>7. t.aindex = Len(t.asegments)
  BY <1>3, <1>5, <1>6, EmptySequence
<1>8. TrackInv(t.segments, s.start, Append(s.files, f), "v_seg", "v_init")
  <2>1. f.name # "v_seg" /\ TrackInv(s.segments, s.start, s.files, "v_seg", "v_init")
    BY <1>2, <1>4 DEF ExactInv
  <2> QED
    BY <1>2, <1>5, <2>1, TrackApart
<1>9. TrackInv(t.asegments, s.astart, Append(s.files, f), "a_seg", "a_init")
  <2>1. f.name # "a_seg" /\ TrackInv(s.asegments, s.astart, s.files, "a_seg", "a_init")
    BY <1>2, <1>4 DEF ExactInv
  <2> QED
    BY <1>2, <1>5, <2>1, TrackApart
<1>10. \A i \in Named(s.files, "manifest") : ManifestAt(s.files, i)
  BY <1>2 DEF ExactInv
<1>11. /\ TrackInv(t.segments, s.start, t.files, "v_seg", "v_init")
       /\ TrackInv(t.asegments, s.astart, t.files, "a_seg", "a_init")
       /\ \A i \in Named(t.files, "manifest") : ManifestAt(t.files, i)
       /\ \A x : Named(s.files, x) \subseteq Named(t.files, x)
       /\ Named(t.files, f.name) # {}
  <2>1. f.name # "manifest"
    BY <1>4
  <2> QED
    BY <1>2, <1>4, <1>6, <1>8, <1>9, <1>10, <2>1, FilesExact
<1>12. Named(t.files, "a_init") # {} /\ (s.track => Named(t.files, "v_init") # {})
  <2>1. s.track => Named(s.files, "v_init") # {}
    BY <1>2 DEF ExactInv
  <2> QED
    BY <1>4, <1>11, <2>1
<1>13. ExactInv(t)
  BY <1>2, <1>3, <1>5, <1>6, <1>7, <1>11, <1>12 DEF ExactInv
<1>14. ASSUME c \in {"vp9", "av1"}
       PROVE  WholeInv(t)
  <2>1. WholeInv(s)
    BY <1>14 DEF MediaInv
  <2>2. SamplesWhole(t.samples) /\ f.name # "v_seg"
    BY <1>4, <1>5, <2>1 DEF WholeInv
  <2> QED
    BY <1>2, <1>4, <2>1, <2>2, FilesWhole
<1> QED
  BY <1>1, <1>13, <1>14 DEF MediaInv

\* push_opus.
LEMMA OpusMedia ==
  ASSUME NEW s, NEW c, NEW ended, SegInv(s, c, ended), MediaInv(s, c), NEW payload,
         NEW dur \in Nat
  PROVE  MediaInv(PushOpus(s, payload, dur), c)
<1>1. PICK a : a = IF s.atrack THEN s ELSE InitAudioWriter(s)
  OBVIOUS
<1>2. SegInv(a, c, ended) /\ a.atrack
  BY <1>1, InitAudioKeeps
<1>3. MediaInv(a, c)
  BY <1>1, InitAudioMedia
<1>4. PICK b : b = WithAudioSample(a, payload, dur)
  OBVIOUS
<1>5. SegInv(b, c, ended)
  BY <1>2, <1>4, AudioSampleKeeps
<1>6. PICK e : e = Sample(<<payload>>, dur, TRUE)
  OBVIOUS
<1>7. e.duration = dur
  BY <1>6 DEF Sample
<1>8. DOMAIN a = Fields /\ ExactInv(a)
  BY <1>2, <1>3, SegmenterFields DEF SegInv, SegTypes, MediaInv
<1>9. /\ Same(a, b, {"astart", "asamples", "apts"})
      /\ b.asamples = Append(a.asamples, e) /\ b.apts = a.apts + dur
      /\ b.astart = IF a.asamples = <<>> THEN a.apts ELSE a.astart
  BY <1>4, <1>6, <1>8 DEF Same, Fields, WithAudioSample
<1>10. /\ b.track = a.track /\ b.start = a.start /\ b.pts = a.pts
       /\ b.samples = a.samples /\ b.segments = a.segments /\ b.atrack = a.atrack
       /\ b.aindex = a.aindex /\ b.asegments = a.asegments /\ b.files = a.files
  BY <1>9 DEF Same, Fields
<1>11. b.astart = a.astart
  BY <1>8, <1>9 DEF ExactInv
<1>12. Gathering(b.asamples, b.astart, b.apts)
  BY <1>7, <1>8, <1>9, <1>11, GatheringOneMore DEF ExactInv
<1>13. b.asamples # <<>>
  <2>1. IsSequence(a.asamples)
    BY <1>8 DEF ExactInv, Gathering
  <2> QED
    BY <1>9, <2>1, Appended
<1>14. ExactInv(b)
  BY <1>2, <1>8, <1>10, <1>11, <1>12, <1>13 DEF ExactInv
<1>15. MediaInv(b, c)
  BY <1>3, <1>10, <1>14 DEF MediaInv, WholeInv
<1>16. PushOpus(s, payload, dur) = RollAudioSegment(b, FALSE)
  BY <1>1, <1>4 DEF PushOpus, WithAudioSample
<1> QED
  BY <1>5, <1>15, <1>16, RollAudioMedia

\* push_video_frame.
LEMMA FrameMedia ==
  ASSUME NEW s, NEW c \in Codecs, SegInv(s, c, FALSE), MediaInv(s, c), NEW frame,
         NEW d \in Nat, NEW n, c \in {"vp9", "av1"} => FrameWhole(frame)
  PROVE  MediaInv(PushVideoFrame(s, c, frame, d, n), c)
<1>1. PICK t : t = PushVideoFrame(s, c, frame, d, n)
  OBVIOUS
<1>2. PICK v, e, dur : /\ v = Lesson(s, c, frame) /\ dur = Ticks(d)
                       /\ e = Sample(frame, Ticks(d), v.sync)
  OBVIOUS
<1>3. PICK b : Learnt(s, b, c, v) /\ Pushed(b, t, c, v, e, dur)
  BY <1>1, <1>2, FrameEffect DEF FrameSteps
<1>4. e.duration = dur /\ e.frame = frame /\ dur \in Nat
  BY <1>2, SegmenterAssumption DEF Sample, Ticks
<1>5. MediaInv(b, c)
  <2>1. b.start = s.start /\ b.pts = s.pts
    <3>1. b.start = (IF s.adapter THEN s.start ELSE 0) /\ b.pts = (IF s.adapter THEN s.pts ELSE 0)
      BY <1>3 DEF Learnt
    <3>2. ~s.adapter => s.pts = 0
      BY DEF SegInv, BufferInv, MediaInv, ExactInv
    <3>3. ~s.adapter => s.start = 0
      <4>1. ~s.adapter => s.segments = <<>>
        BY DEF SegInv, BufferInv
      <4>2. End(s.segments) = s.start
        BY DEF MediaInv, ExactInv, TrackInv
      <4> QED
        BY <4>1, <4>2 DEF End
    <3> QED
      BY <3>1, <3>2, <3>3
  <2>2. Same(s, b, {"adapter", "cfg", "pli", "start", "pts"})
    BY <1>3 DEF Learnt
  <2>3. \A k \in MediaFields : b[k] = s[k]
    BY <2>1, <2>2 DEF Same, MediaFields, Fields
  <2> QED
    BY <2>3, MediaApart
<1>6. /\ DOMAIN b = Fields /\ IsSequence(b.files) /\ b.track \in BOOLEAN
      /\ b.track => SegInv(b, c, FALSE)
      /\ ~b.track => b.segments = <<>> /\ (v.updated \/ v.ready => Known(c, b.cfg))
  <2>1. SegTypes(b) /\ BufferInv(b)
    BY <1>3 DEF Learnt
  <2>2. b.track \in BOOLEAN
    BY <2>1 DEF SegTypes
  <2>3. b.track => SegInv(b, c, FALSE)
    BY <1>3 DEF Learnt, SegInv
  <2>4. ~b.track => b.segments = <<>> /\ (v.updated \/ v.ready => Known(c, b.cfg))
    BY <1>3, <2>1 DEF Learnt, BufferInv
  <2> QED
    BY <2>1, <2>2, <2>3, <2>4, SegmenterFields DEF SegTypes
<1>7. CASE t = b
  BY <1>1, <1>5, <1>7
<1>8. CASE /\ b.track /\ b.samples # <<>>
           /\ t = WithSample(RollSegment(b), e, dur)
  <2>1. PICK r : r = RollSegment(b)
    OBVIOUS
  <2>2. MediaInv(r, c)
    BY <1>5, <1>6, <1>8, <2>1, RollMedia
  <2>3. DOMAIN r = Fields /\ r.track
    <3>1. Same(b, r, {"files", "segments", "samples", "index", "start"})
      BY <1>6, <1>8, <2>1, RollEffect
    <3> QED
      BY <1>8, <3>1 DEF Same, Fields
  <2> QED
    BY <1>1, <1>4, <1>8, <2>1, <2>2, <2>3, SampleMedia
<1>9. CASE b.track /\ t = WithSample(b, e, dur)
  BY <1>1, <1>4, <1>5, <1>6, <1>9, SampleMedia
<1>10. CASE ~b.track /\ (v.updated \/ v.ready) /\ t = WithSample(InitWriter(b, c), e, dur)
  <2>1. PICK r : r = InitWriter(b, c)
    OBVIOUS
  <2>2. MediaInv(r, c)
    BY <1>5, <1>6, <1>10, <2>1, InitMedia
  <2>3. DOMAIN r = Fields /\ r.track
    <3>1. Same(b, r, {"track", "files", "samples", "index", "start"}) /\ r.track = TRUE
      BY <1>6, <1>10, <2>1, InitWriterEffect
    <3> QED
      BY <3>1 DEF Same
  <2> QED
    BY <1>1, <1>4, <1>10, <2>1, <2>2, <2>3, SampleMedia
<1> QED
  BY <1>3, <1>7, <1>8, <1>9, <1>10 DEF Pushed

\* flush.
LEMMA FlushMedia ==
  ASSUME NEW s, NEW c, SegInv(s, c, FALSE), MediaInv(s, c)
  PROVE  MediaInv(FlushSegmenter(s), c)
<1>1. PICK t : t = RollSegment(s)
  OBVIOUS
<1>2. CASE s.samples = <<>> \/ ~s.track
  <2>1. t = s
    BY <1>1, <1>2, RollNothing
  <2> QED
    BY <1>1, <2>1, RollAudioMedia DEF FlushSegmenter
<1>3. CASE s.samples # <<>> /\ s.track
  <2>1. SegInv(t, c, TRUE)
    BY <1>1, <1>3, RollKeeps
  <2>2. MediaInv(t, c)
    BY <1>1, <1>3, RollMedia
  <2> QED
    BY <1>1, <2>1, <2>2, RollAudioMedia DEF FlushSegmenter
<1> QED
  BY <1>2, <1>3

\* How far the script is sent, and when frames came.
PlaceInv ==
  /\ pos \in 0..Len(Script[codec])
  /\ overtaken \in DOMAIN Script[codec] \cup {NoPacket}
  /\ apos \in Nat
  /\ prev \in [{"video", "audio"} -> Int]

\* The invariant of what is recorded.
MediaTaskInv ==
  /\ RecordingInv /\ PlaceInv
  /\ MediaInv(seg, codec)
  /\ codec \in {"vp9", "av1"} => WholeParser(parser, codec)

\* Nothing is recorded yet.
LEMMA NewMedia == ASSUME NEW c PROVE MediaInv(NewSegmenter, c) /\ WholeParser(NewParser, c)
<1>1. PICK s : s = NewSegmenter
  OBVIOUS
<1>2. /\ s.track = FALSE /\ s.start = 0 /\ s.pts = 0 /\ s.samples = <<>> /\ s.segments = <<>>
      /\ s.atrack = FALSE /\ s.aindex = 0 /\ s.astart = 0 /\ s.apts = 0
      /\ s.asamples = <<>> /\ s.asegments = <<>> /\ s.files = <<>>
  BY <1>1 DEF NewSegmenter
<1>3. \A name : Named(<<>>, name) = {}
  BY EmptySequence DEF Named
<1>4. ASSUME NEW name, NEW init
      PROVE  TrackInv(<<>>, 0, <<>>, name, init)
  <2>1. Contiguous(<<>>) /\ HasLongest(<<>>) /\ End(<<>>) = 0
    BY EmptySequence DEF Contiguous, HasLongest, End
  <2>2. StoredBefore(<<>>, <<>>, Len(<<>>) + 1, name, init) /\ Numbered(<<>>, name)
    BY <1>3, EmptySequence DEF StoredBefore, Numbered
  <2> QED
    BY <1>3, <2>1, <2>2, EmptySequence DEF TrackInv
<1>5. Gathering(<<>>, 0, 0)
  BY GatheringNothing
<1>6. ExactInv(s)
  BY <1>2, <1>3, <1>4, <1>5, EmptySequence DEF ExactInv
<1>7. WholeInv(s)
  BY <1>2, <1>3, EmptySequence DEF WholeInv, SamplesWhole
<1>8. WholeParser(NewParser, c)
  BY EmptySequence DEF WholeParser, ParserTypes, NewParser, FrameWhole
<1> QED
  BY <1>1, <1>6, <1>7, <1>8 DEF MediaInv

\* The script is a sequence, and its packets are those that are sent.
LEMMA ScriptPackets ==
  ASSUME codec \in Codec
  PROVE  /\ Len(Script[codec]) \in Nat /\ DOMAIN Script[codec] = 1..Len(Script[codec])
         /\ \A n \in DOMAIN Script[codec] :
              IsPacket(Packet(n), codec, n) /\ Packet(n).ts \in Nat
<1>1. PICK q : q = Script[codec]
  OBVIOUS
<1>2. q \in Seq({q[i] : i \in DOMAIN q}) /\ Packetized(q)
  BY <1>1, ScriptAssumption
<1>3. IsSequence(q)
  BY <1>2, SeqIsSequence
<1>4. Len(q) \in Nat /\ DOMAIN q = 1..Len(q)
  BY <1>3, SequenceTyped
<1>5. ASSUME NEW n \in DOMAIN q
      PROVE  IsPacket(Packet(n), codec, n) /\ Packet(n).ts \in Nat
  <2>1. q[n].ts \in Nat /\ TsMod \in Nat \ {0}
    BY <1>2, RecordingTaskAssumption DEF Packetized
  <2>2. q[n].ts % TsMod \in Nat
    BY <2>1
  <2> QED
    BY <1>1, <2>2 DEF Packet, IsPacket, Elems
<1> QED
  BY <1>1, <1>4, <1>5

\* The time since the last frame is a number of ticks.
LEMMA ElapsedTyped ==
  ASSUME prev \in [{"video", "audio"} -> Int], NEW k \in {"video", "audio"}, NEW ts \in Nat,
         NEW default \in Nat
  PROVE  Elapsed(k, ts, default) \in Nat
<1>1. prev[k] \in Int /\ TsMod \in Nat \ {0}
  BY RecordingTaskAssumption
<1>2. (ts - prev[k]) % TsMod \in Nat
  BY <1>1
<1> QED
  BY <1>2 DEF Elapsed

\* The parser keeps its invariant, and in VP9 and AV1 gives whole units.
LEMMA PushWhole ==
  ASSUME NEW c \in Codec, c \in {"vp9", "av1"}, NEW p, WholeParser(p, c), NEW n, NEW pkt,
         IsPacket(pkt, c, n)
  PROVE  WholeResult(PushPacket(c, p, pkt), c)
<1>1. CASE c = "vp9"
  <2>1. PushPacket(c, p, pkt) = PushVp9(p, pkt)
    BY <1>1 DEF PushPacket
  <2> QED
    BY <1>1, <2>1, Vp9Whole
<1>2. CASE c = "av1"
  <2>1. PushPacket(c, p, pkt) = PushAv1(p, pkt)
    BY <1>2 DEF PushPacket
  <2> QED
    BY <1>2, <2>1, Av1Whole
<1> QED
  BY <1>1, <1>2

\* A video packet that reaches the task.
LEMMA PacketMedia ==
  ASSUME MediaTaskInv, phase = "running", NEW n \in DOMAIN Script[codec], VideoPacket(n),
         UNCHANGED <<codec, now, phase>>
  PROVE  /\ MediaInv(seg', codec)
         /\ codec \in {"vp9", "av1"} => WholeParser(parser', codec)
         /\ prev' \in [{"video", "audio"} -> Int]
<1>1. codec \in Codec /\ codec \in Codecs /\ SegInv(seg, codec, FALSE) /\ MediaInv(seg, codec)
  BY RecordingTaskAssumption DEF MediaTaskInv, RecordingInv, Codecs
<1>2. PICK pkt : pkt = Packet(n)
  OBVIOUS
<1>3. IsPacket(pkt, codec, n) /\ pkt.ts \in Nat
  BY <1>1, <1>2, ScriptPackets
<1>4. PICK r : r = PushPacket(codec, parser, pkt)
  OBVIOUS
<1>5. codec \in {"vp9", "av1"} => WholeResult(r, codec)
  BY <1>1, <1>3, <1>4, PushWhole DEF MediaTaskInv
<1>6. parser' = r.parser
  BY <1>2, <1>4 DEF VideoPacket
<1>7. codec \in {"vp9", "av1"} => WholeParser(parser', codec)
  BY <1>5, <1>6 DEF WholeResult
<1>8. prev \in [{"video", "audio"} -> Int]
  BY DEF MediaTaskInv, PlaceInv
<1>9. CASE r.out = <<>>
  <2>1. seg' = seg /\ prev' = prev
    BY <1>2, <1>4, <1>9 DEF VideoPacket
  <2> QED
    BY <1>1, <1>7, <1>8, <2>1
<1>10. CASE r.out # <<>>
  <2>1. PICK d : d = Elapsed("video", pkt.ts, DefaultTicks)
    OBVIOUS
  <2>2. PICK f : f = r.out[1]
    OBVIOUS
  <2>3. /\ seg' = PushVideoFrame(seg, codec, f, d, now)
        /\ prev' = [prev EXCEPT !["video"] = pkt.ts]
    BY <1>2, <1>4, <1>10, <2>1, <2>2 DEF VideoPacket
  <2>4. d \in Nat
    BY <1>3, <1>8, <2>1, ElapsedTyped, SegmenterAssumption
  <2>5. codec \in {"vp9", "av1"} => FrameWhole(f)
    BY <1>5, <1>10, <2>2 DEF WholeResult
  <2>6. MediaInv(PushVideoFrame(seg, codec, f, d, now), codec)
    BY <1>1, <2>4, <2>5, FrameMedia
  <2>7. prev' \in [{"video", "audio"} -> Int]
    BY <1>3, <1>8, <2>3
  <2> QED
    BY <1>7, <2>3, <2>6, <2>7
<1> QED
  BY <1>9, <1>10

\* Nothing is sent and nothing recorded at first.
LEMMA InitMediaTask == Init => MediaTaskInv
<1> SUFFICES ASSUME Init PROVE MediaTaskInv
  OBVIOUS
<1>1. RecordingInv
  BY InitRecording
<1>2. PlaceInv
  <2>1. codec \in Codec /\ pos = 0 /\ overtaken = NoPacket /\ apos = 0
    BY DEF Init
  <2>2. Len(Script[codec]) \in Nat
    BY <2>1, ScriptPackets
  <2>3. prev \in [{"video", "audio"} -> Int]
    BY DEF Init, NoTs
  <2> QED
    BY <2>1, <2>2, <2>3 DEF PlaceInv
<1>3. MediaInv(seg, codec) /\ WholeParser(parser, codec)
  BY NewMedia DEF Init
<1> QED
  BY <1>1, <1>2, <1>3 DEF MediaTaskInv

\* Every step keeps it.
LEMMA NextMedia == MediaTaskInv /\ [Next]_vars => MediaTaskInv'
<1> SUFFICES ASSUME MediaTaskInv, [Next]_vars PROVE MediaTaskInv'
  OBVIOUS
<1> USE DEF MediaTaskInv
<1>1. RecordingInv'
  BY NextRecording
<1>2. codec \in Codec /\ PlaceInv
  BY DEF RecordingInv
<1>3. Len(Script[codec]) \in Nat /\ DOMAIN Script[codec] = 1..Len(Script[codec])
  BY <1>2, ScriptPackets
<1>4. ASSUME UNCHANGED <<codec, seg, parser, apos, prev>>,
             pos' \in 0..Len(Script[codec]),
             overtaken' \in DOMAIN Script[codec] \cup {NoPacket}
      PROVE  MediaTaskInv'
  BY <1>1, <1>4 DEF PlaceInv
<1>5. CASE Passes \/ TracksDown \/ Choose \/ Run \/ UNCHANGED vars
  BY <1>2, <1>4, <1>5 DEF Passes, TracksDown, Choose, Run, vars, pubVars, PlaceInv
<1>6. CASE Lose
  <2>1. pos' \in 0..Len(Script[codec]) /\ pos + 1 \in DOMAIN Script[codec]
    BY <1>2, <1>3, <1>6 DEF Lose, Sent, PlaceInv
  <2>2. overtaken' \in DOMAIN Script[codec] \cup {NoPacket}
    BY <1>2, <1>6, <2>1 DEF Lose, PlaceInv
  <2> QED
    BY <1>4, <1>6, <2>1, <2>2 DEF Lose
<1>7. CASE \E k \in {"video", "audio"} : TrackUp(k)
  <2>1. pos' \in 0..Len(Script[codec])
    BY <1>2, <1>3, <1>7 DEF TrackUp, NextStart, PlaceInv
  <2> QED
    BY <1>2, <1>4, <1>7, <2>1 DEF TrackUp, PlaceInv
<1>8. ASSUME phase # "ended", UNCHANGED <<codec, parser, apos>>,
             pos' \in 0..Len(Script[codec]),
             overtaken' \in DOMAIN Script[codec] \cup {NoPacket},
             prev' \in [{"video", "audio"} -> Int], seg' = seg \/ EndTask(seg)
      PROVE  MediaTaskInv'
  <2>1. MediaInv(seg', codec)
    <3>1. SegInv(seg, codec, FALSE)
      BY <1>8 DEF RecordingInv
    <3> QED
      BY <1>8, <3>1, FlushMedia DEF EndTask
  <2> QED
    BY <1>1, <1>8, <2>1 DEF PlaceInv
<1>9. CASE Shutdown
  BY <1>2, <1>8, <1>9 DEF Shutdown, pubVars, PlaceInv
<1>10. CASE KeyframeTick
  <2>1. MediaInv(seg', codec)
    <3>1. CASE seg' = seg
      BY <3>1
    <3>2. CASE seg' = [seg EXCEPT !.pli = RecordRequest(@, now)]
      <4>1. DOMAIN seg = Fields
        BY <1>10, SegmenterFields DEF KeyframeTick, RecordingInv, SegInv, SegTypes
      <4>2. \A k \in MediaFields : seg'[k] = seg[k]
        BY <3>2, <4>1 DEF MediaFields, Fields
      <4> QED
        BY <4>2, MediaApart
    <3> QED
      BY <1>10, <3>1, <3>2 DEF KeyframeTick
  <2> QED
    BY <1>1, <1>2, <1>10, <2>1 DEF KeyframeTick, pubVars, PlaceInv
<1>11. CASE ReceiveVideo
  <2>1. pos' \in 0..Len(Script[codec]) /\ pos + 1 \in DOMAIN Script[codec]
    BY <1>2, <1>3, <1>11 DEF ReceiveVideo, Sent, PlaceInv
  <2>2. /\ MediaInv(seg', codec)
        /\ codec \in {"vp9", "av1"} => WholeParser(parser', codec)
        /\ prev' \in [{"video", "audio"} -> Int]
    BY <1>11, <2>1, PacketMedia DEF ReceiveVideo
  <2> QED
    BY <1>1, <1>2, <1>11, <2>1, <2>2 DEF ReceiveVideo, PlaceInv
<1>12. CASE ReceiveLate
  <2>1. overtaken \in DOMAIN Script[codec]
    BY <1>2, <1>12 DEF ReceiveLate, PlaceInv
  <2>2. /\ MediaInv(seg', codec)
        /\ codec \in {"vp9", "av1"} => WholeParser(parser', codec)
        /\ prev' \in [{"video", "audio"} -> Int]
    BY <1>12, <2>1, PacketMedia DEF ReceiveLate
  <2> QED
    BY <1>1, <1>2, <1>12, <2>2 DEF ReceiveLate, PlaceInv
<1>13. ASSUME NEW k \in {"video", "audio"}, ReceiverGone(k)
       PROVE  MediaTaskInv'
  <2>1. pos' \in 0..Len(Script[codec])
    BY <1>2, <1>3, <1>13 DEF ReceiverGone, Sent, PlaceInv
  <2>2. prev' \in [{"video", "audio"} -> Int]
    BY <1>2, <1>13 DEF ReceiverGone, PlaceInv, NoTs
  <2>3. overtaken' \in DOMAIN Script[codec] \cup {NoPacket}
    BY <1>2, <1>13 DEF ReceiverGone, PlaceInv
  <2>4. seg' = seg \/ EndTask(seg)
    BY <1>13 DEF ReceiverGone, Settle
  <2> QED
    BY <1>8, <1>13, <2>1, <2>2, <2>3, <2>4 DEF ReceiverGone
<1>14. CASE ReceiveAudio
  <2>1. apos' \in Nat /\ apos' % TsMod \in Nat
    BY <1>2, <1>14, RecordingTaskAssumption DEF ReceiveAudio, PlaceInv
  <2>2. CASE UNCHANGED <<seg, prev>>
    BY <1>1, <1>2, <1>14, <2>1, <2>2 DEF ReceiveAudio, PlaceInv
  <2>3. CASE /\ seg' = PushOpus(seg, <<apos'>>, Elapsed("audio", apos' % TsMod, AudioTicks))
             /\ prev' = [prev EXCEPT !["audio"] = apos' % TsMod]
    <3>1. PICK ts \in Nat : ts = apos' % TsMod
      BY <2>1
    <3>2. PICK d : d = Elapsed("audio", ts, AudioTicks)
      OBVIOUS
    <3>3. d \in Nat
      BY <1>2, <3>2, ElapsedTyped, RecordingTaskAssumption DEF PlaceInv
    <3>4. SegInv(seg, codec, FALSE)
      BY <1>14 DEF ReceiveAudio, RecordingInv
    <3>5. MediaInv(seg', codec)
      BY <2>3, <3>1, <3>2, <3>3, <3>4, OpusMedia
    <3>6. prev' \in [{"video", "audio"} -> Int]
      BY <1>2, <2>3, <3>1 DEF PlaceInv
    <3> QED
      BY <1>1, <1>2, <1>14, <2>1, <3>5, <3>6 DEF ReceiveAudio, PlaceInv
  <2> QED
    BY <1>14, <2>2, <2>3 DEF ReceiveAudio
<1>15. CASE TrackChange
  <2>1. seg' = seg \/ EndTask(seg)
    BY <1>15 DEF TrackChange, Settle
  <2> QED
    BY <1>2, <1>8, <1>15, <2>1 DEF TrackChange, pubVars, PlaceInv
<1> QED
  BY <1>5, <1>6, <1>7, <1>9, <1>10, <1>11, <1>12, <1>13, <1>14, <1>15 DEF Next

\* The invariant of what is recorded.
LEMMA MediaHolds == Spec => []MediaTaskInv
BY InitMediaTask, NextMedia, PTL DEF Spec


--------------------------------------------------------------------------------

\* However the task ends (its publisher leaves, a receiver lags or closes, it is
\* told to stop), flush leaves no sample in its buffers and the last manifest
\* lists every segment of both tracks.
THEOREM FlushedWhenEnded == Spec => []FlushedAtEnd
<1>1. RecordingInv => FlushedAtEnd
  BY DEF RecordingInv, FlushedAtEnd, SegInv, BufferInv
<1> QED
  BY <1>1, RecordingHolds, PTL

\* In every codec, whatever is lost on the way, there is one init segment, made
\* of a complete configuration, and every later video segment starts with a
\* keyframe and, the last one excepted, is as long as it has to be.
THEOREM SegmentsPlayable == Spec => []SegmentsSeekable
<1>1. ASSUME RecordingInv
      PROVE  SegmentsSeekable
  <2>1. /\ SegInv(seg, codec, TRUE)
        /\ phase # "ended" => SegInv(seg, codec, FALSE)
    BY <1>1 DEF RecordingInv, SegInv, CutInv
  <2>2. InitDecodable
    BY <2>1 DEF SegInv, InitInv, InitDecodable, Decodable
  <2>3. ASSUME NEW i \in Named(seg.files, "v_seg")
        PROVE  /\ seg.files[i].of.seq_number \in DOMAIN seg.segments
               /\ seg.files[i].of.seq_number > 1 => seg.files[i].of.samples[1].is_sync
    BY <2>1 DEF SegInv, CutInv
  <2>4. ASSUME NEW k \in DOMAIN seg.segments, phase # "ended" \/ k < Len(seg.segments)
        PROVE  seg.segments[k].duration >= VideoScale * SegSeconds
    BY <2>1, <2>4 DEF SegInv, CutInv, LongEnough
  <2> QED
    BY <2>2, <2>3, <2>4 DEF SegmentsSeekable
<1> QED
  BY <1>1, RecordingHolds, PTL

\* For every configuration of the back-off, however the ticks, frames and tracks
\* come: from one start of the back-off, the PLIs that bring no keyframe are at
\* most max_requests and wait for times that double up to the longest.  Without a
\* keyframe it starts over once, for the first frame, so that both what was asked
\* before it and what was asked since are limited, and each to max_requests.
THEOREM RequestsBackOff == Spec => []PliBacksOff
<1>1. ASSUME RecordingInv
      PROVE  PliBacksOff
  <2>1. BacksOff(asks, seg.pli.keyframe)
    BY <1>1, AsksBackOff DEF RecordingInv
  <2> QED
    BY <1>1, <2>1 DEF RecordingInv, PliBacksOff
<1> QED
  BY <1>1, RecordingHolds, PTL

\* Whatever the network loses or lets overtake, every unit that the VP9 and AV1
\* parsers put into a sample is one that the publisher sent, from its first part
\* to its last: for every script and number of packets.
THEOREM OnlyWholeUnits == Spec => []UnitsWhole
<1>1. MediaTaskInv => UnitsWhole
  BY DEF MediaTaskInv, MediaInv, WholeInv, UnitsWhole
<1> QED
  BY <1>1, MediaHolds, PTL

\* As no number is handed over twice, the write of a number that storage keeps is
\* the one that was listed.
LEMMA StoredOnce ==
  ASSUME NEW segments, NEW files, NEW i, NEW name, NEW init,
         StoredBefore(segments, files, i, name, init), Numbered(files, name)
  PROVE  Stored(segments, files, name, init)
<1>1. ASSUME NEW n \in DOMAIN segments
      PROVE  /\ Writes(files, name, n) # {}
             /\ \A j \in Writes(files, name, n) : Holds(files[j], segments[n], n)
             /\ Named(files, init) # {}
  <2>1. PICK j \in Named(files, name) : Holds(files[j], segments[n], n)
    BY DEF StoredBefore
  <2>2. Named(files, init) # {}
    BY DEF StoredBefore
  <2>3. files[j].of.seq_number = n
    BY <2>1 DEF Holds
  <2>4. \A h \in Writes(files, name, n) : h = j
    BY <2>1, <2>3 DEF Writes, Numbered
  <2>5. j \in Writes(files, name, n)
    BY <2>1, <2>3 DEF Writes
  <2> QED
    BY <2>1, <2>2, <2>4, <2>5
<1> QED
  BY <1>1 DEF Stored

\* Whichever manifest storage keeps, and whichever of the writes handed to it come
\* or fail, in whatever order: no segment file is ever anything but the segment
\* listed under its number, with the times its samples add up to, and segments
\* are listed one after the other: for every script, duration and clock.
THEOREM ManifestsExact == Spec => []ManifestExact
<1>1. ASSUME MediaTaskInv
      PROVE  ManifestExact
  <2>1. ExactInv(seg)
    BY <1>1 DEF MediaTaskInv, MediaInv
  <2>2. Numbered(seg.files, "v_seg") /\ Numbered(seg.files, "a_seg")
    BY <2>1 DEF ExactInv, TrackInv
  <2>3. \A i \in Named(seg.files, "manifest") : ManifestAt(seg.files, i)
    BY <2>1 DEF ExactInv
  <2>4. ASSUME NEW i \in Named(seg.files, "manifest"), NEW m, m = seg.files[i]
        PROVE  /\ Stored(m.video, seg.files, "v_seg", "v_init") /\ Contiguous(m.video)
               /\ Stored(m.audio, seg.files, "a_seg", "a_init") /\ Contiguous(m.audio)
               /\ m.duration >= End(m.video) * AudioScale
               /\ m.duration >= End(m.audio) * VideoScale
    <3>1. /\ StoredBefore(m.video, seg.files, i, "v_seg", "v_init") /\ Contiguous(m.video)
          /\ StoredBefore(m.audio, seg.files, i, "a_seg", "a_init") /\ Contiguous(m.audio)
          /\ m.duration >= End(m.video) * AudioScale
          /\ m.duration >= End(m.audio) * VideoScale
      BY <2>3, <2>4 DEF ManifestAt
    <3>2. Stored(m.video, seg.files, "v_seg", "v_init")
      BY <2>2, <3>1, StoredOnce
    <3>3. Stored(m.audio, seg.files, "a_seg", "a_init")
      BY <2>2, <3>1, StoredOnce
    <3> QED
      BY <3>1, <3>2, <3>3
  <2> QED
    BY <2>4 DEF ManifestExact
<1> QED
  BY <1>1, MediaHolds, PTL
================================================================================

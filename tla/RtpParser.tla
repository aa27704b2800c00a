-------------------------------- MODULE RtpParser ------------------------------
(***************************************************************************)
(* The RTP parsers of the recorder (liveion/src/recorder/codec): how each  *)
(* codec's packets become frames again.                                    *)
(*                                                                         *)
(* A packet carries elements.  An element is a part of a unit (a NAL unit, *)
(* an OBU, a VP9 frame): [frame, unit, part, parts, kind, v], and a unit   *)
(* that a parser puts together is the sequence of the parts it holds.  The *)
(* kind and its version v stand for the unit's header.  A packet with no   *)
(* element has no payload (padding).  Bytes, sizes and start codes are     *)
(* left out; the limits on a frame count parts and units.                  *)
(*                                                                         *)
(* A parser takes a packet and gives its next state with the frames that   *)
(* it completes: none (Ok(None) and Err alike), or one.                    *)
(***************************************************************************)
EXTENDS Naturals, Sequences

CONSTANTS
  SeqWrap,        \* sequence numbers wrap (2^16 in the code)
  MaxParts,      \* MAX_FRAME_SIZE and MAX_TEMPORAL_UNIT_SIZE, in parts
  MaxUnits       \* MAX_OBUS_PER_TEMPORAL_UNIT, and its size

ASSUME RtpParserAssumption == {SeqWrap, MaxParts, MaxUnits} \subseteq Nat \ {0}

NoSeq == SeqWrap   \* fragment_next_seq is None

NewParser == [units |-> <<>>, fragments |-> <<>>, next |-> NoSeq, first |-> FALSE]

After(pkt) == (pkt.seq + 1) % SeqWrap

Nothing(p)     == [parser |-> p, out |-> <<>>]
Complete(p, f) == [parser |-> p, out |-> <<f>>]

ResetFragments(p) == [p EXCEPT !.fragments = <<>>, !.next = NoSeq]

Starts(pkt) == pkt.elems[1].part = 1
Ends(pkt)   == LET e == pkt.elems[Len(pkt.elems)] IN e.part = e.parts
Fragment(pkt) == pkt.elems[1].parts > 1

Each(elems) == [i \in DOMAIN elems |-> <<elems[i]>>]

\* Mutant: the buffer is kept when the frame is handed out.
FlushKeeps(p, pkt) == IF pkt.marker THEN Complete(p, p.units) ELSE Nothing(p)

\* H264 and H265: the marker bit ends the frame.
Flush(p, pkt) ==
  IF pkt.marker THEN Complete([p EXCEPT !.units = <<>>], p.units) ELSE Nothing(p)

\* The depacketizer of webrtc-rs: fragments are gathered until one has the end
\* bit, whichever unit they are of; other packets give their units at once.
H264Depacketize(p, pkt) ==
  LET gathered == Append(p.fragments, pkt.elems[1]) IN
  IF ~Fragment(pkt) THEN [units |-> Each(pkt.elems), fragments |-> p.fragments]
  ELSE IF Ends(pkt) THEN [units |-> <<gathered>>, fragments |-> <<>>]
  ELSE [units |-> <<>>, fragments |-> gathered]

\* The sequence number is not looked at; a packet without payload is an error.
PushH264(p, pkt) ==
  IF pkt.elems = <<>> THEN Nothing(p)
  ELSE LET d == H264Depacketize(p, pkt) IN
       Flush([p EXCEPT !.units = @ \o d.units, !.fragments = d.fragments], pkt)

\* A fragment with the start bit opens a unit, any other is added to the bytes
\* of the last one; before the first start code, convert_frame skips them.
H265Append(units, pkt) ==
  IF ~Fragment(pkt) THEN units \o Each(pkt.elems)
  ELSE IF Starts(pkt) THEN Append(units, pkt.elems)
  ELSE IF units = <<>> THEN units
  ELSE [units EXCEPT ![Len(units)] = @ \o pkt.elems]

PushH265(p, pkt) ==
  IF pkt.elems = <<>> THEN Nothing(p)
  ELSE Flush([p EXCEPT !.units = H265Append(@, pkt)], pkt)

\* VP9: a begin drops what was gathered, a gap too, and the end bit, not the
\* marker, completes the frame.
PushVp9(p, pkt) ==
  LET f == Append(p.fragments, pkt.elems[1])
      q == [p EXCEPT !.fragments = f, !.next = After(pkt)]
  IN IF pkt.elems = <<>> THEN Nothing(ResetFragments(p))
     ELSE IF Starts(pkt) THEN
       LET r == [ResetFragments(p) EXCEPT !.first = TRUE] IN
       IF Ends(pkt) THEN Complete(r, <<pkt.elems>>)
       ELSE Nothing([r EXCEPT !.fragments = pkt.elems, !.next = After(pkt)])
     ELSE IF p.fragments = <<>> THEN Nothing(p)
     ELSE IF p.next # pkt.seq \/ Len(f) > MaxParts THEN Nothing(ResetFragments(p))
     ELSE IF Ends(pkt) THEN Complete(ResetFragments(q), <<f>>)
     ELSE Nothing(q)

\* Mutant: a unit is joined whatever was lost between its parts.
DecodeObusBlind(p, pkt) ==
  LET z == ~Starts(pkt)
      y == ~Ends(pkt)
      joined == Append(p.fragments, pkt.elems[1])
      q == [p EXCEPT !.first = TRUE]
      whole == IF z THEN <<joined>> \o Each(Tail(pkt.elems)) ELSE Each(pkt.elems)
      last == whole[Len(whole)]
      given == IF y THEN SubSeq(whole, 1, Len(whole) - 1) ELSE whole
  IN IF pkt.elems = <<>> THEN Nothing(ResetFragments(p))
     ELSE IF z /\ p.fragments = <<>> THEN Nothing(ResetFragments(p))
     ELSE [parser |-> [q EXCEPT !.fragments = IF y THEN last ELSE IF z THEN <<>> ELSE @,
                                !.next = After(pkt)],
           out    |-> IF given = <<>> THEN <<>> ELSE <<given>>]

\* AV1: z, the first element goes on with a unit; y, the last one goes on in
\* the next packet.  A gap drops the unit and the packet.  A packet that
\* neither goes on nor is gone on with leaves old fragments where they are.
DecodeObus(p, pkt) ==
  LET z == ~Starts(pkt)
      y == ~Ends(pkt)
      joined == Append(p.fragments, pkt.elems[1])
      q == [p EXCEPT !.first = TRUE]
      whole == IF z THEN <<joined>> \o Each(Tail(pkt.elems)) ELSE Each(pkt.elems)
      last == whole[Len(whole)]
      given == IF y THEN SubSeq(whole, 1, Len(whole) - 1) ELSE whole
  IN IF pkt.elems = <<>> THEN Nothing(ResetFragments(p))
     ELSE IF z /\ p.fragments = <<>> THEN Nothing(ResetFragments(p))
     ELSE IF z /\ (p.next # pkt.seq \/ Len(joined) > MaxParts)
       THEN Nothing(ResetFragments(q))
     ELSE [parser |-> [q EXCEPT !.fragments = IF y THEN last ELSE IF z THEN <<>> ELSE @,
                                !.next = After(pkt)],
           out    |-> IF given = <<>> THEN <<>> ELSE <<given>>]

\* The temporal unit grows until a packet with the marker bit that gives an
\* OBU; one that gives none leaves it to the packets that follow.
PushAv1(p, pkt) ==
  LET d == DecodeObus(p, pkt)
      grown == d.parser.units \o d.out[1]
      q == [d.parser EXCEPT !.units = grown]
  IN IF d.out = <<>> THEN Nothing(d.parser)
     ELSE IF Len(grown) > MaxUnits THEN Nothing([d.parser EXCEPT !.units = <<>>])
     ELSE Flush(q, pkt)

PushPacket(codec, p, pkt) ==
  CASE codec = "h264" -> PushH264(p, pkt)
    [] codec = "h265" -> PushH265(p, pkt)
    [] codec = "vp9"  -> PushVp9(p, pkt)
    [] codec = "av1"  -> PushAv1(p, pkt)

--------------------------------------------------------------------------------
(* The adapters: what convert_frame learns from a frame.                   *)

Kinds == {"vps", "sps", "pps", "seq", "size", "profile"}
NoConfig == [k \in Kinds |-> 0]

\* The headers of a frame's units: the depacketizer of webrtc-rs rebuilds that
\* of an H264 unit from its last fragment, the others are those of the first.
LastHeaders(frame)  == {frame[i][Len(frame[i])] : i \in DOMAIN frame}
FirstHeaders(frame) == {frame[i][1] : i \in DOMAIN frame}

\* cfg with the versions of the given kinds that the headers carry.
Taken(cfg, kinds, headers) ==
  [k \in Kinds |->
     IF k \in kinds /\ \E e \in headers : e.kind = k
     THEN (CHOOSE e \in headers : e.kind = k).v ELSE cfg[k]]

HasKind(headers, k) == \E e \in headers : e.kind = k

\* Each adapter gives the configuration it has then, whether the frame is a
\* sync sample, whether the configuration was completed or changed by it
\* (config_ready), and whether it is complete (ready).

\* Mutant: a part of the configuration is taken for all of it.
ConvertH264Early(cfg, frame) ==
  LET h == LastHeaders(frame)
      new == Taken(cfg, {k \in {"sps", "pps"} : cfg[k] = 0}, h)
  IN [cfg |-> new, sync |-> HasKind(h, "key"), updated |-> new # cfg,
      ready |-> new["sps"] # 0 /\ new["pps"] # 0]

\* H264 keeps the first parameter sets it sees.
ConvertH264(cfg, frame) ==
  LET h == LastHeaders(frame)
      new == Taken(cfg, {k \in {"sps", "pps"} : cfg[k] = 0}, h)
      ready == new["sps"] # 0 /\ new["pps"] # 0
  IN [cfg |-> new, sync |-> HasKind(h, "key"), updated |-> new # cfg /\ ready, ready |-> ready]

\* H265 takes every new one.
ConvertH265(cfg, frame) ==
  LET h == FirstHeaders(frame)
      new == Taken(cfg, {"vps", "sps", "pps"}, h)
      ready == \A k \in {"vps", "sps", "pps"} : new[k] # 0
  IN [cfg |-> new, sync |-> HasKind(h, "key"), updated |-> new # cfg /\ ready, ready |-> ready]

\* Every VP9 frame has a profile (its v; 0 as a rule), a keyframe a size too.
\* Any change counts, also a profile learnt before the size.
ConvertVp9(cfg, frame) ==
  LET h == frame[1][1]
      key == h.kind = "key"
      new == [cfg EXCEPT !["profile"] = h.v, !["size"] = IF key THEN 1 ELSE @]
  IN [cfg |-> new, sync |-> key, updated |-> new # cfg, ready |-> new["size"] # 0]

\* In AV1 a sequence header makes a temporal unit a sync sample.
ConvertAv1(cfg, frame) ==
  LET h == FirstHeaders(frame)
      new == Taken(cfg, {"seq"}, h)
  IN [cfg |-> new, sync |-> HasKind(h, "seq"), updated |-> new # cfg, ready |-> new["seq"] # 0]

ConvertFrame(codec, cfg, frame) ==
  CASE codec = "h264" -> ConvertH264(cfg, frame)
    [] codec = "h265" -> ConvertH265(cfg, frame)
    [] codec = "vp9"  -> ConvertVp9(cfg, frame)
    [] codec = "av1"  -> ConvertAv1(cfg, frame)
================================================================================

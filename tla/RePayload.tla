------------------------------- MODULE RePayload -------------------------------
(***************************************************************************)
(* The packets of the input become the packets of the WebRTC track         *)
(* (livetwo/src/payload): depacketized up to the marker, given the         *)
(* parameter sets they lack, and packetized again.                         *)
(*                                                                         *)
(* A packet carries elements: parts of units, [frame, unit, part, parts,   *)
(* kind].  A unit put together is the sequence of the parts it holds; its  *)
(* size is their number.  Bytes and start codes are left out.              *)
(***************************************************************************)
EXTENDS Naturals, Sequences, SequencesExt

CONSTANTS
  OutWrap,      \* outgoing sequence numbers wrap: 2^16
  Mtu           \* RTP_OUTBOUND_MTU, in parts

ASSUME RePayloadAssumption == {OutWrap, Mtu} \subseteq Nat \ {0}

Sets(codec) == CASE codec = "h264" -> <<"sps", "pps">>
                 [] codec = "h265" -> <<"vps", "sps", "pps">>
                 [] OTHER -> <<>>

\* The payloader of webrtc-rs holds H264 parameter sets back.
NothingHeld == [sps |-> <<>>, pps |-> <<>>]

\* RePayloadCodec::new and set_h264_params or set_h265_params: an SDP without
\* parameter sets gives empty ones, which count as known.
NewRePayload(codec, sprop) ==
  [fragments |-> <<>>, buffer |-> <<>>, held |-> NothingHeld, seq |-> 0, injected |-> FALSE,
   params |-> [i \in DOMAIN Sets(codec) |-> IF sprop THEN Sets(codec)[i] ELSE "empty"]]

Alone(elems) == [i \in DOMAIN elems |-> <<elems[i]>>]

\* The depacketizer of webrtc-rs gathers the fragments of an H264 unit until
\* the end bit.
DepacketizeH264(r, elems) ==
  LET gathered == Append(r.fragments, elems[1]) IN
  IF elems[1].parts = 1 THEN [r EXCEPT !.buffer = @ \o Alone(elems)]
  ELSE IF elems[1].part < elems[1].parts THEN [r EXCEPT !.fragments = gathered]
  ELSE [r EXCEPT !.fragments = <<>>, !.buffer = Append(@, gathered)]

\* H265, put together here: a start bit opens a unit, other fragments are bytes
\* after it; payload_h265_manually skips those before the first start code.
\* An aggregation packet gives its units.
DepacketizeH265(r, elems) ==
  IF elems[1].parts = 1 THEN [r EXCEPT !.buffer = @ \o Alone(elems)]
  ELSE IF elems[1].part = 1 THEN [r EXCEPT !.buffer = Append(@, elems)]
  ELSE IF r.buffer = <<>> THEN r
  ELSE [r EXCEPT !.buffer[Len(r.buffer)] = @ \o elems]

\* Mutant: only the last packet of a frame is kept.
DepacketizeVpLast(r, elems) == [r EXCEPT !.buffer = <<elems>>]

\* VP8 and VP9 have one unit, of all the bytes.
DepacketizeVp(r, elems) == [r EXCEPT !.buffer = <<FlattenSeq(@) \o elems>>]

Depacketize(codec, r, elems) ==
  CASE codec = "h264" -> DepacketizeH264(r, elems)
    [] codec = "h265" -> DepacketizeH265(r, elems)
    [] OTHER -> DepacketizeVp(r, elems)

Has(units, kind) == \E i \in DOMAIN units : units[i][1].kind = kind

\* A unit that was kept, not part of a frame of the input.
Kept(kind) == <<[frame |-> 0, unit |-> 0, part |-> 1, parts |-> 1, kind |-> kind]>>

\* Empty sets leave no packet.
KeptUnits(r) ==
  LET known == SelectSeq(r.params, LAMBDA k : k # "empty") IN
  [i \in DOMAIN known |-> Kept(known[i])]

\* Mutant: parameter sets are added until they have been once.
InjectH264Once(r, codec) ==
  LET frame == r.buffer
      lacks == \E i \in DOMAIN Sets(codec) : ~Has(frame, Sets(codec)[i])
  IN IF Has(frame, "key") /\ lacks /\ ~r.injected
     THEN [r EXCEPT !.buffer = KeptUnits(r) \o frame, !.injected = TRUE] ELSE r

\* H264: before a key frame that does not bring its own.
InjectH264(r, codec) ==
  LET frame == r.buffer
      lacks == \E i \in DOMAIN Sets(codec) : ~Has(frame, Sets(codec)[i])
  IN IF Has(frame, "key") /\ lacks THEN [r EXCEPT !.buffer = KeptUnits(r) \o frame] ELSE r

\* H265: before the first frame, and before every key frame.
InjectH265(r) ==
  IF ~Has(r.buffer, "key") /\ r.injected THEN r
  ELSE [r EXCEPT !.buffer = KeptUnits(r) \o @, !.injected = TRUE]

InjectParams(codec, r) ==
  CASE codec = "h264" -> InjectH264(r, codec)
    [] codec = "h265" -> InjectH265(r)
    [] OTHER -> r

\* A unit as fragments that fit.
Pieces(unit) ==
  [i \in 1..((Len(unit) + Mtu - 1) \div Mtu) |->
     SubSeq(unit, (i - 1) * Mtu + 1, IF i * Mtu > Len(unit) THEN Len(unit) ELSE i * Mtu)]

\* payload_h265_manually, and the payloaders of webrtc-rs for VP8 and VP9: a unit
\* after the other.
Split(units) == FlattenSeq([i \in DOMAIN units |-> Pieces(units[i])])

\* The payloader of webrtc-rs for H264 sends the last SPS and PPS in one packet
\* before the next other unit.  (Delimiters and filler data, which it drops, are
\* left out.)
Bundle(held, units) ==
  LET both(h) == h.sps # <<>> /\ h.pps # <<>>
      step(acc, unit) ==
        IF unit[1].kind \in DOMAIN NothingHeld
        THEN [acc EXCEPT !.held[unit[1].kind] = unit]
        ELSE [held |-> IF both(acc.held) THEN NothingHeld ELSE acc.held,
              out  |-> acc.out \o (IF both(acc.held) THEN <<acc.held.sps \o acc.held.pps>> ELSE <<>>)
                         \o Pieces(unit)]
  IN FoldLeft(step, [held |-> held, out |-> <<>>], units)

Encode(codec, r) ==
  IF codec = "h264" THEN Bundle(r.held, r.buffer) ELSE [held |-> r.held, out |-> Split(r.buffer)]

\* The packets of a frame: numbered on, and the marker bit on the last.
Packetize(r, payloads) ==
  [i \in DOMAIN payloads |->
     [seq |-> (r.seq + i - 1) % OutWrap, payload |-> payloads[i], marker |-> i = Len(payloads)]]

NextSeq(r, n) == (r.seq + n) % OutWrap

\* payload: sequence numbers of the input are looked at only to log a gap, and
\* a packet without payload is an error that returns before its marker.
Payload(codec, r, pkt) ==
  LET d == Depacketize(codec, r, pkt.elems)
      whole == InjectParams(codec, d)
      encoded == Encode(codec, whole)
      out == Packetize(whole, encoded.out)
  IN IF pkt.elems = <<>> THEN [state |-> r, out |-> <<>>]
     ELSE IF ~pkt.marker THEN [state |-> d, out |-> <<>>]
     ELSE IF d.buffer = <<>> THEN [state |-> d, out |-> <<>>]
     ELSE [state |-> [whole EXCEPT !.buffer = <<>>, !.held = encoded.held, !.seq = NextSeq(r, Len(out))],
           out |-> out]
================================================================================

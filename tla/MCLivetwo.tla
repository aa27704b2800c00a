------------------------------- MODULE MCLivetwo -------------------------------
(* Instances of Livetwo for TLC.                                           *)
EXTENDS Livetwo

Av == [m \in Media |-> IF m = "video" THEN "h264" ELSE "opus"]
Vo == [m \in Media |-> IF m = "video" THEN "h264" ELSE "none"]
Ao == [m \in Media |-> IF m = "video" THEN "none" ELSE "opus"]

Config(dir, scheme) ==
  [dir |-> dir, scheme |-> scheme, tcp |-> FALSE, child |-> FALSE, style |-> "kind", sdp |-> Av,
   codec |-> "vp8", sprop |-> FALSE, script |-> <<>>,
   conns |-> 0, frames |-> 0, len |-> 0]

Packet(elems, marker) == [elems |-> elems, marker |-> marker]
Elem(frame, unit, part, parts, kind) ==
  [frame |-> frame, unit |-> unit, part |-> part, parts |-> parts, kind |-> kind]

\* A key frame with its parameter sets, a frame of two slices, and a key frame
\* without sets.
Nals(codec) ==
  << Packet([u \in DOMAIN Sets(codec) |-> Elem(1, u, 1, 1, Sets(codec)[u])], FALSE),
     Packet(<<Elem(1, 4, 1, 3, "key")>>, FALSE), Packet(<<Elem(1, 4, 2, 3, "key")>>, FALSE),
     Packet(<<Elem(1, 4, 3, 3, "key")>>, TRUE),
     Packet(<<Elem(2, 1, 1, 1, "delta")>>, FALSE), Packet(<<>>, FALSE),
     Packet(<<Elem(2, 2, 1, 1, "delta")>>, TRUE),
     Packet(<<Elem(3, 1, 1, 1, "key")>>, TRUE) >>

Frames ==
  << Packet(<<Elem(1, 1, 1, 2, "key")>>, FALSE), Packet(<<Elem(1, 1, 2, 2, "key")>>, TRUE),
     Packet(<<Elem(2, 1, 1, 3, "delta")>>, FALSE), Packet(<<Elem(2, 1, 2, 3, "delta")>>, FALSE),
     Packet(<<Elem(2, 1, 3, 3, "delta")>>, TRUE) >>

\* Two connections and short frames, or one connection.
ServerConfigs ==
  {[Config(dir, "server") EXCEPT !.conns = 2, !.frames = 1] : dir \in {"whip", "whep"}}
    \cup {[Config("whip", "server") EXCEPT !.conns = 1, !.frames = 1, !.style = style, !.sdp = sdp] :
            style \in {"index", "none"}, sdp \in {Av, Ao}}

ClientConfigs ==
  {[Config(dir, "client") EXCEPT !.child = TRUE] : dir \in {"whip", "whep"}}
    \cup {[Config("whep", "client") EXCEPT !.tcp = TRUE],
          [Config("whip", "client") EXCEPT !.tcp = TRUE, !.frames = 2],
          [Config("whip", "client") EXCEPT !.tcp = TRUE, !.frames = 2, !.len = 1, !.sdp = Vo]}

RtpConfigs ==
  {[Config("whip", "rtp") EXCEPT !.codec = codec, !.sprop = sprop, !.script = Nals(codec)] :
      codec \in {"h264", "h265"}, sprop \in BOOLEAN}
    \cup {[Config("whip", "rtp") EXCEPT !.script = Frames], [Config("whep", "rtp") EXCEPT !.child = TRUE]}

MCConfigs == ServerConfigs \cup ClientConfigs \cup RtpConfigs
================================================================================

------------------------------- MODULE RtspServer ------------------------------
(***************************************************************************)
(* A connection of the RTSP server (libs/rtsp/src/server): the handler's   *)
(* answer to each request, and the media info that PLAY or RECORD gives.   *)
(*                                                                         *)
(* A request is [method, medium, uri, transport, port, sdp]: the medium    *)
(* that the client means by a SETUP, the one its URI has the words of, or  *)
(* "none", and its own UDP ports.  An SDP gives each medium its codec, or  *)
(* "none"; NoSdp does not parse.  RTP and RTCP always come as a pair of    *)
(* ports or channels, so that one stands for both.  CSeq is echoed and     *)
(* left out.                                                               *)
(***************************************************************************)
EXTENDS Naturals

CONSTANT ChannelMod     \* next_channel is a u8: 256

ASSUME RtspServerAssumption == ChannelMod \in Nat \ {0}

Media == {"video", "audio"}
NoSdp == [m \in Media |-> "unparsable"]

NoTransport == [by |-> "none"]
Tcp(channel) == [by |-> "tcp", channel |-> channel]
Udp(send, recv) == [by |-> "udp", send |-> send, recv |-> recv]

NoMedia == [m \in Media |-> NoTransport]

\* RtspServerSession::new, with the SDP the server was given.  told is what the
\* client was answered for each medium that it meant.  The map of sessions is the
\* connection's own and nobody reads it.
NewSession(sdp) ==
  [stage |-> "request", session |-> FALSE, sdp |-> sdp,
   next |-> 0, channels |-> NoMedia, ports |-> NoMedia, tcp |-> FALSE, told |-> NoMedia]

\* An error ends the connection, and its state is dropped.
Fail(c) == [NewSession(NoSdp) EXCEPT !.stage = "failed"]

\* get_or_create_session: a session that was torn down keeps its id.
GetOrCreateSession(c) == [c EXCEPT !.session = TRUE]

HandleAnnounce(c, sdp) == [GetOrCreateSession(c) EXCEPT !.sdp = sdp]

\* The medium of a SETUP: by words in the URI, else by the SDP, where a stream
\* with both has video first.
IsVideo(c, uri) ==
  IF uri # "none" THEN uri = "video"
  ELSE LET has(m) == c.sdp[m] # "none" IN
       IF has("video") /\ has("audio")
       THEN c.channels["video"] = NoTransport /\ c.ports["video"] = NoTransport
       ELSE has("video") \/ ~has("audio")

HandleSetupTcp(c, m, meant) ==
  LET t == Tcp(c.next) IN
  [GetOrCreateSession(c) EXCEPT
     !.tcp = TRUE, !.next = (@ + 2) % ChannelMod, !.channels[m] = t, !.told[meant] = t]

\* The server's ports were bound and given back: they are only a promise.
HandleSetupUdp(c, m, meant, port, own) ==
  LET t == Udp(port, own) IN
  [GetOrCreateSession(c) EXCEPT !.tcp = FALSE, !.ports[m] = t, !.told[meant] = t]

\* A URI without the words needs an SDP that parses.  own are the ports the
\* system gives.
HandleSetup(c, req, own) ==
  IF req.transport = "none" \/ (req.uri = "none" /\ c.sdp = NoSdp) THEN Fail(c)
  ELSE LET m == IF IsVideo(c, req.uri) THEN "video" ELSE "audio" IN
       IF req.transport = "tcp" THEN HandleSetupTcp(c, m, req.medium)
       ELSE HandleSetupUdp(c, m, req.medium, req.port, own)

\* parse_codecs_from_sdp: a video codec it does not know ("other") is none.
ParseCodecs(sdp) == [m \in Media |-> IF m = "video" /\ sdp[m] = "other" THEN "none" ELSE sdp[m]]

\* build_media_info_tcp and build_media_info_udp: of the transport that the
\* last SETUP asked for.
BuildMediaInfo(c) ==
  [codec |-> ParseCodecs(c.sdp), via |-> IF c.tcp THEN c.channels ELSE c.ports]

\* handle_play, handle_record: without a session, an error and no answer.  With
\* one, the answer goes out before the SDP is parsed.
HandleStart(c) ==
  IF ~c.session \/ c.sdp = NoSdp THEN Fail(c)
  ELSE [c EXCEPT !.stage = IF c.tcp THEN "data" ELSE "control"]

\* One turn of the loop of handle_session.
HandleSession(c, req, own) ==
  CASE req.method = "ANNOUNCE" -> HandleAnnounce(c, req.sdp)
    [] req.method = "SETUP"    -> HandleSetup(c, req, own)
    [] req.method \in {"PLAY", "RECORD"} -> HandleStart(c)
    [] OTHER -> c      \* OPTIONS, DESCRIBE, TEARDOWN, and methods without an answer

\* The loop of keep_control_connection, once media goes by UDP.
KeepControlConnection(c, req) ==
  IF req.method = "TEARDOWN" THEN [c EXCEPT !.stage = "closed"] ELSE c

Established(c) == c.stage \in {"data", "control", "closed"}

\* normalize_audio_only: a sole audio stream set up as video.
Normalize(info) ==
  IF /\ info.codec["video"] = "none" /\ info.codec["audio"] # "none"
     /\ info.via["audio"] = NoTransport /\ info.via["video"] # NoTransport
  THEN [info EXCEPT !.via = [m \in Media |-> IF m = "audio" THEN @["video"] ELSE NoTransport]]
  ELSE info
================================================================================

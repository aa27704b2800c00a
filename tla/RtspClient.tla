------------------------------- MODULE RtspClient ------------------------------
(***************************************************************************)
(* The RTSP client (libs/rtsp/src/client): the handshake of                *)
(* setup_rtsp_session, one request and its response after the other.       *)
(*                                                                         *)
(* A response is [status, sdp, control, session, port]: the body of the    *)
(* answer to DESCRIBE and its media that have a control attribute, whether *)
(* there is a Session header, and the server's ports or NoPort.  A 401     *)
(* with a WWW-Authenticate header is "challenge", without one it is        *)
(* "unauthorized".  A response that does not come, or not in one read, or  *)
(* whose challenge or SDP cannot be parsed, ends the handshake.            *)
(***************************************************************************)
EXTENDS RtspServer, Sequences

NoPort == 0

\* RtspSession::new.  The SDP to push comes from filter_sdp, which gives every
\* medium a control attribute.
NewClient(sdp) ==
  [step |-> "OPTIONS", cseq |-> 1, session |-> FALSE, next |-> 0, sdp |-> sdp,
   control |-> Media, via |-> NoMedia, announced |-> FALSE, sent |-> <<>>]

Offers(sdp, m) == sdp # NoSdp /\ sdp[m] # "none"

\* The media that are set up: those of the SDP with a control attribute.
Controlled(sdp, control) == {m \in control : Offers(sdp, m)}

\* The step after the SETUP of the media in done.
NextSetup(sdp, control, done) ==
  LET left == Controlled(sdp, control) \ done IN
  IF "video" \in left THEN "SETUP video" ELSE IF "audio" \in left THEN "SETUP audio" ELSE "START"

\* What the step sends: the method and the CSeq, and whether it carries the
\* Authorization header, the body, and the session.
Request(c, mode) ==
  LET start == IF mode = "pull" THEN "DESCRIBE" ELSE "ANNOUNCE" IN
  [step |-> c.step, cseq |-> c.cseq, session |-> c.session,
   method |-> CASE c.step = "LOGIN" -> start
                [] c.step = "START" -> IF mode = "pull" THEN "PLAY" ELSE "RECORD"
                [] OTHER -> c.step,
   auth |-> c.step = "LOGIN", body |-> c.step = "ANNOUNCE"]

Failed(c) == [c EXCEPT !.step = "failed"]

\* A request goes out; START needs a session id.
SendRequest(c, mode) ==
  IF c.step = "START" /\ ~c.session THEN Failed(c)
  ELSE [c EXCEPT !.sent = Append(@, Request(c, mode))]

\* The request was answered.
Answered(c, step) == [c EXCEPT !.step = step, !.cseq = @ + 1]

SendOptionsRequest(c, mode) == Answered(c, IF mode = "pull" THEN "DESCRIBE" ELSE "ANNOUNCE")

\* The body decides, whatever the status is.
TakeDescription(c, resp) ==
  IF resp.sdp = NoSdp THEN Failed(c)
  ELSE [Answered(c, NextSetup(resp.sdp, resp.control, {}))
          EXCEPT !.sdp = resp.sdp, !.control = resp.control]

SendDescribeRequest(c, resp) ==
  IF resp.status = "challenge" THEN Answered(c, "LOGIN") ELSE TakeDescription(c, resp)

SendAnnounceRequest(c, resp) ==
  CASE resp.status = "challenge" -> Answered(c, "LOGIN")
    [] resp.status = "ok" -> [Answered(c, NextSetup(c.sdp, c.control, {})) EXCEPT !.announced = TRUE]
    [] OTHER -> Failed(c)

\* handle_unauthorized: the request again with credentials but without a body.
\* A second challenge is not answered.
HandleUnauthorized(c, mode, resp) ==
  IF mode = "pull" THEN TakeDescription(c, resp)
  ELSE IF resp.status = "ok" THEN Answered(c, NextSetup(c.sdp, c.control, {})) ELSE Failed(c)

\* Mutant: the next SETUP takes the same channels.
SetupTcpStuck(c, m) == [c EXCEPT !.via[m] = Tcp(c.next)]

\* The channels are the client's own choice; the answer's are not looked at.
SetupTcp(c, m) == [c EXCEPT !.via[m] = Tcp(c.next), !.next = (@ + 2) % ChannelMod]

\* setup_udp needs the server's ports.  Its own were bound and given back.
SetupUdp(c, mode, m, resp, own) ==
  IF resp.port = NoPort THEN Failed(c)
  ELSE [c EXCEPT !.via[m] = IF mode = "pull" THEN Udp(NoPort, own) ELSE Udp(resp.port, NoPort)]

SetupRequest(c, mode, tcp, m, resp, own) ==
  LET q == [c EXCEPT !.session = @ \/ resp.session]
      done == IF m = "video" THEN {"video"} ELSE Media
      r == IF tcp THEN SetupTcp(q, m) ELSE SetupUdp(q, mode, m, resp, own)
  IN IF resp.status # "ok" THEN Failed(c)
     ELSE IF r.step = "failed" THEN r ELSE Answered(r, NextSetup(c.sdp, c.control, done))

\* send_play_request, send_record_request
StartRequest(c, resp) == IF resp.status = "ok" THEN Answered(c, "done") ELSE Failed(c)

\* The response to the last request, in setup_rtsp_session.
OnResponse(c, mode, tcp, resp, own) ==
  CASE c.step = "OPTIONS"  -> SendOptionsRequest(c, mode)
    [] c.step = "DESCRIBE" -> SendDescribeRequest(c, resp)
    [] c.step = "ANNOUNCE" -> SendAnnounceRequest(c, resp)
    [] c.step = "LOGIN"    -> HandleUnauthorized(c, mode, resp)
    [] c.step = "SETUP video" -> SetupRequest(c, mode, tcp, "video", resp, own)
    [] c.step = "SETUP audio" -> SetupRequest(c, mode, tcp, "audio", resp, own)
    [] c.step = "START"    -> StartRequest(c, resp)

ClientInfo(c) == [codec |-> ParseCodecs(c.sdp), via |-> c.via]
================================================================================

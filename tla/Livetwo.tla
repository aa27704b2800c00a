-------------------------------- MODULE Livetwo --------------------------------
(***************************************************************************)
(* The gateways of livetwo: whipinto (livetwo/src/whip) takes a stream from*)
(* an RTSP client or server, or from plain RTP, into a WHIP session;       *)
(* whepfrom (livetwo/src/whep) gives a WHEP session out the same ways.     *)
(*                                                                         *)
(* cfg is the command line and the other side's habits.  The RTSP server,  *)
(* the client, the interleaved stream and the repacketizer are RtspServer, *)
(* RtspClient, TcpStream and RePayload.  The repacketizer runs on plain    *)
(* RTP here, where packets can be lost; for the other inputs a packet is   *)
(* followed only to its track.                                             *)
(***************************************************************************)
EXTENDS RtspClient, TcpStream, RePayload, FiniteSets

CONSTANTS
  Configs,      \* the configurations to run, with their bounds
  Ports,        \* the ports the system can give for a SETUP
  MaxConn       \* bound: connections to the RTSP server

ASSUME LivetwoAssumption ==
  /\ Ports \subseteq Nat \ {NoPort}
  /\ MaxConn \in Nat
  /\ \A c \in Configs : c.conns \in 0..MaxConn /\ {c.frames, c.len} \subseteq Nat

VARIABLES
  cfg,          \* [dir, scheme, tcp, child, style, sdp, codec, sprop, script], and the
                \* bounds conns, frames and len of this instance
  stage,        \* where into or from is
  child,        \* the child process: "none", "running", "exited"
  peer,         \* the peer connection: "none", "up", "closed"
  resource,     \* the WHIP or WHEP resource at the server: "none", "open", "deleted"
  complete,     \* complete_tx has been sent to
  client,       \* the RTSP client
  conns,        \* the connections of the RTSP server, in the order of accept
  updates,      \* the PortUpdates not yet taken: numbers of connections
  info,         \* the media info of the input or output, NoInfo before
  tracks,       \* whip: the media with a track; whep: the tracks that arrived
  main,         \* the interleaved channels were kept: the first one uses TCP
  ports,        \* bound RTP listeners [port, medium] (whip), senders [conn, medium, port] (whep)
  wire,         \* per stream, the tokens under way
  reader,       \* per stream, the state of handle_read_stream
  swallowed,    \* bytes went with the answer to PLAY
  sent, got,    \* per stream, the frames sent [medium, channel, data], and the frames read
  inbox,        \* frames read and not yet taken by the forwarder to WebRTC
  tracksGot,    \* history, whip: [conn, medium, track]
  clientsGot,   \* history, whep: [conn, medium, via]
  pos, lossy,   \* plain RTP: the place in the script, and whether a packet was lost
  rep, out      \* the repacketizer, and what it wrote to the track

process == <<cfg, stage, child, peer, resource, complete>>
rtsp    == <<client, conns, updates, info, tracks, main, ports>>
streams == <<wire, reader, swallowed, sent, got, inbox, tracksGot, clientsGot>>
rtp     == <<pos, lossy, rep, out>>
vars    == <<process, rtsp, streams, rtp>>

NoInfo == [codec |-> [m \in Media |-> "none"], via |-> NoMedia]

Whip == cfg.dir = "whip"
Mode == IF Whip THEN "pull" ELSE "push"
Offered == {m \in Media : Offers(cfg.sdp, m)}
Streams == 1..MaxConn
\* What other tasks do between the shutdown and the exit is left out.
Running == stage \notin {"closing", "closing peer", "ended", "failed"}

\* The media that are set up on stream i, as the other side was told.
Told(i) == IF cfg.scheme = "server" THEN conns[i].told ELSE client.via

Init ==
  /\ cfg \in Configs
  /\ stage = IF cfg.dir = "whip" THEN "input" ELSE "peer"
  /\ child = IF cfg.child /\ cfg.dir = "whip" THEN "running" ELSE "none"
  /\ peer = "none" /\ resource = "none" /\ complete = FALSE
  /\ client = NewClient(NoSdp)
  /\ conns = <<>> /\ updates = <<>>
  /\ info = NoInfo /\ tracks = {} /\ main = FALSE /\ ports = {}
  /\ wire = [i \in Streams |-> <<>>] /\ reader = [i \in Streams |-> NewReader]
  /\ swallowed = FALSE
  /\ sent = [i \in Streams |-> <<>>] /\ got = [i \in Streams |-> <<>>]
  /\ inbox = <<>> /\ tracksGot = {} /\ clientsGot = {}
  /\ pos = 0 /\ lossy = FALSE
  /\ rep = NewRePayload(cfg.codec, cfg.sprop) /\ out = <<>>

--------------------------------------------------------------------------------
(* The RTSP server: setup_rtsp_server_session.                             *)

\* The server is there from the input or output stage on, and until the end.
Serving ==
  /\ cfg.scheme = "server" /\ Running
  /\ Whip \/ stage \notin {"peer", "codecs"}

\* The SDP that the server was given: none to push to it, the filtered one to pull.
ServerSdp == IF Whip THEN NoSdp ELSE client.sdp

Accept ==
  /\ Serving /\ Len(conns) < cfg.conns
  /\ conns' = Append(conns, NewSession(ServerSdp))
  /\ UNCHANGED <<process, client, updates, info, tracks, main, ports, streams, rtp>>

\* The words in the URI of a SETUP: of the kind of medium, of its place in the
\* SDP (streamid=0 is taken for video), or none.
UriOf(m) ==
  CASE cfg.style = "kind" -> m
    [] cfg.style = "index" -> IF m = "audio" /\ "video" \in Offered THEN "audio" ELSE "video"
    [] OTHER -> "none"

ClientPort(i, m) == 10 * i + (IF m = "video" THEN 1 ELSE 2)

\* The requests of a client that sets each medium up once.
Requests(i) ==
  LET c == conns[i]
      req(method, m, transport, sdp) ==
        [method |-> method, medium |-> m, uri |-> UriOf(m), transport |-> transport,
         port |-> ClientPort(i, m), sdp |-> sdp]
  IN {req(x, "video", "none", NoSdp) : x \in {"OPTIONS", "TEARDOWN", "RECORD"}}
       \cup {req("ANNOUNCE", "video", "none", sdp) :
               sdp \in IF Whip /\ c.next = 0 THEN {cfg.sdp, NoSdp} ELSE {}}
       \cup {req("SETUP", m, t, NoSdp) :
               m \in {x \in Offered : c.told[x] = NoTransport /\ (Whip \/ Offers(c.sdp, x))}, t \in {"tcp", "udp", "none"}}

\* Ports that no listener of this process has now.
Free == IF Whip THEN Ports \ {p.port : p \in ports} ELSE {CHOOSE p \in Ports : TRUE}

\* A request before PLAY or RECORD; when the session is established, the media
\* info goes out as a port update.
ServeRequest(i) ==
  /\ Serving /\ conns[i].stage = "request"
  /\ \E req \in Requests(i) :
       \E own \in IF req.transport = "udp" THEN Free ELSE {NoPort} :
         LET c == HandleSession(conns[i], req, own) IN
         /\ conns' = [conns EXCEPT ![i] = c]
         /\ updates' = IF Established(c) THEN Append(updates, i) ELSE updates
  /\ UNCHANGED <<process, client, info, tracks, main, ports, streams, rtp>>

\* A request on the control connection of media that goes by UDP.
ServeControl(i) ==
  /\ Serving /\ conns[i].stage = "control"
  /\ \E req \in Requests(i) :
       conns' = [conns EXCEPT ![i] = KeepControlConnection(conns[i], req)]
  /\ UNCHANGED <<process, client, updates, info, tracks, main, ports, streams, rtp>>

\* The client goes: read_request fails.
Hangup(i) ==
  /\ Serving /\ conns[i].stage \in {"request", "control"}
  /\ conns' = [conns EXCEPT ![i] = IF @.stage = "request" THEN Fail(@) ELSE [@ EXCEPT !.stage = "closed"]]
  /\ UNCHANGED <<process, client, updates, info, tracks, main, ports, streams, rtp>>

--------------------------------------------------------------------------------
(* The RTSP client: setup_rtsp_session, as setup_client_for_pull or _push. *)

InputStage == IF Whip THEN "input" ELSE "output"

\* What the answer to a step can tell.
Responses(step) ==
  LET setup == step \in {"SETUP video", "SETUP audio"}
      port == ClientPort(1, IF step = "SETUP video" THEN "video" ELSE "audio") IN
  [status : {"ok", "challenge", "unauthorized", "error"},
   sdp : IF Whip /\ step \in {"DESCRIBE", "LOGIN"} THEN {cfg.sdp, NoSdp} ELSE {NoSdp},
   control : IF Whip /\ step \in {"DESCRIBE", "LOGIN"} THEN SUBSET Offered ELSE {{}},
   session : IF setup THEN BOOLEAN ELSE {FALSE},
   port : IF setup /\ ~cfg.tcp THEN {NoPort, port} ELSE {NoPort}]

\* A request and its response.
ClientRequest ==
  /\ cfg.scheme = "client" /\ stage = InputStage
  /\ client.step \notin {"done", "failed"}
  /\ LET c == SendRequest(client, Mode) IN
     IF c.step = "failed" THEN client' = c
     ELSE \E resp \in Responses(c.step) :
            \E own \in IF resp.port = NoPort THEN {NoPort} ELSE Ports :
              client' = OnResponse(c, Mode, cfg.tcp, resp, own)
  /\ UNCHANGED <<process, conns, updates, info, tracks, main, ports, streams, rtp>>

\* No response, or not in one read.
ClientGivesUp ==
  /\ cfg.scheme = "client" /\ stage = InputStage
  /\ client.step \notin {"done", "failed"}
  /\ client' = Failed(client)
  /\ UNCHANGED <<process, conns, updates, info, tracks, main, ports, streams, rtp>>

--------------------------------------------------------------------------------
(* The session: into, from and what they call.                             *)

RtpPort(m) == ClientPort(0, m)

\* The media info of the input or output: of the first connection, of the
\* client, or of the SDP file.
First == cfg.scheme = "server" /\ conns # <<>> /\ Established(conns[1])
InfoNow ==
  CASE cfg.scheme = "server" -> BuildMediaInfo(conns[1])
    [] cfg.scheme = "client" -> ClientInfo(client)
    [] Whip -> [codec |-> ParseCodecs(cfg.sdp),
                via |-> [m \in Media |-> IF m \in Offered THEN Udp(NoPort, RtpPort(m)) ELSE NoTransport]]
    [] OTHER -> [codec |-> client.sdp,
                 via |-> [m \in Media |-> IF Offers(client.sdp, m) THEN Udp(RtpPort(m), NoPort)
                                          ELSE NoTransport]]

Ready ==
  \/ First
  \/ cfg.scheme = "client" /\ client.step = "done"
  \/ cfg.scheme = "rtp"
UsesTcp(inf) == \E m \in Media : inf.via[m].by = "tcp"

\* setup_input_source is done.  Channels that are not TCP's are dropped.
InputReady ==
  /\ Whip /\ stage = "input" /\ Ready
  /\ stage' = "peer"
  /\ info' = InfoNow /\ main' = UsesTcp(InfoNow)
  /\ inbox' = IF main' THEN inbox ELSE <<>>
  /\ UNCHANGED <<cfg, child, peer, resource, complete, client, conns, updates, tracks, ports,
                 wire, reader, swallowed, sent, got, tracksGot, clientsGot, rtp>>

\* The client's handshake failed, or the SDP file cannot be read or written.
SetupFails ==
  /\ stage = InputStage
  /\ \/ cfg.scheme = "client" /\ client.step = "failed"
     \/ cfg.scheme = "rtp"
  /\ stage' = "failed"
  /\ UNCHANGED <<cfg, child, peer, resource, complete, rtsp, streams, rtp>>

\* create_peer: the media that get a track; some audio codecs are not supported.
TracksOf(inf) == {m \in Media : inf.codec[m] \notin {"none", "other"}}

\* setup_whip_peer or setup_whep_peer.  An error before or at the POST leaves
\* no resource, one after it leaves it open.
SetupPeer ==
  /\ stage = "peer"
  /\ \/ /\ stage' = IF Whip THEN "connect" ELSE "codecs"
        /\ peer' = "up" /\ resource' = "open"
        /\ tracks' = IF Whip THEN TracksOf(info) ELSE {}
     \/ /\ stage' = "failed"
        /\ resource' \in {"none", "open"}
        /\ UNCHANGED <<peer, tracks>>
  /\ UNCHANGED <<cfg, child, complete, client, conns, updates, info, main, ports, streams, rtp>>

\* Mutant: the state change is only logged.
PeerLostQuiet ==
  /\ peer = "up" /\ Running
  /\ peer' = "closed"
  /\ UNCHANGED <<cfg, stage, child, resource, complete, rtsp, streams, rtp>>

\* setup_handlers: a connection that fails is closed, and a closed one completes.
PeerLost ==
  /\ peer = "up" /\ Running
  /\ peer' = "closed" /\ complete' = TRUE
  /\ UNCHANGED <<cfg, stage, child, resource, rtsp, streams, rtp>>

\* whep: on_track.
TrackArrives(m) ==
  /\ ~Whip /\ peer = "up" /\ Running /\ m \in Offered \ tracks
  /\ tracks' = tracks \cup {m}
  /\ UNCHANGED <<process, client, conns, updates, info, main, ports, streams, rtp>>

\* whep: one second later, filter_sdp keeps the media whose codec is known, and
\* the codec info is locked for good.
CodecsKnown ==
  /\ stage = "codecs"
  /\ stage' = "output"
  /\ client' = NewClient([m \in Media |-> IF m \in tracks THEN cfg.sdp[m] ELSE "none"])
  /\ UNCHANGED <<cfg, child, peer, resource, complete, conns, updates, info, tracks, main, ports,
                 streams, rtp>>

\* whep: create_child, while the output is being set up.
ChildStarts ==
  /\ stage = "output" /\ cfg.child /\ child = "none"
  /\ \/ child' = "running" /\ UNCHANGED stage
     \/ stage' = "failed" /\ UNCHANGED child
  /\ UNCHANGED <<cfg, peer, resource, complete, rtsp, streams, rtp>>

\* Mutant: the server's own port for the client's.
SendersForOwn(i, inf) ==
  {[conn |-> i, medium |-> m, port |-> inf.via[m].recv] :
     m \in {x \in Media : inf.via[x].by = "udp" /\ inf.via[x].send # NoPort}}

\* spawn_webrtc_to_output: senders for the UDP ports.
SendersFor(i, inf) ==
  {[conn |-> i, medium |-> m, port |-> inf.via[m].send] :
     m \in {x \in Media : inf.via[x].by = "udp" /\ inf.via[x].send # NoPort}}

\* whep: setup_output_target is done, and start_initial_transport_task.
OutputReady ==
  /\ ~Whip /\ stage = "output" /\ Ready
  /\ cfg.child => child # "none"
  /\ stage' = "wait"
  /\ info' = InfoNow /\ main' = UsesTcp(InfoNow)
  /\ ports' = IF main' THEN ports ELSE ports \cup SendersFor(1, InfoNow)
  /\ UNCHANGED <<cfg, child, peer, resource, complete, client, conns, updates, tracks, streams, rtp>>

\* spawn_input_to_webrtc of UDP: a listener for video, then one for audio; one
\* that cannot be bound ends it.  taken are ports of other processes.
Bind(inf, taken) ==
  LET via == Normalize(inf).via
      wanted(m) == m \in tracks /\ via[m].by = "udp" /\ via[m].recv # NoPort
      listener(m) == [port |-> via[m].recv, medium |-> m]
      bound(b) == taken \cup {p.port : p \in b}
      video == IF wanted("video") THEN {listener("video")} ELSE {}
      audio == IF wanted("audio") THEN {listener("audio")} ELSE {}
      fails(b, new) == \E l \in new : l.port \in bound(b)
  IN IF fails(ports, video) THEN [ok |-> FALSE, ports |-> ports]
     ELSE IF fails(ports \cup video, audio) THEN [ok |-> FALSE, ports |-> ports \cup video]
     ELSE [ok |-> TRUE, ports |-> ports \cup video \cup audio]

Taken == {{}} \cup {{p} : p \in Ports}

\* whip: connect_input_to_webrtc, at first.
ConnectInput ==
  /\ stage = "connect"
  /\ \/ main /\ stage' = "wait" /\ UNCHANGED ports
     \/ /\ ~main
        /\ \E taken \in Taken :
          /\ ports' = Bind(info, taken).ports
          /\ stage' = IF Bind(info, taken).ok THEN "wait" ELSE "failed"
  /\ UNCHANGED <<cfg, child, peer, resource, complete, client, conns, updates, info, tracks, main,
                 streams, rtp>>

\* A port update.  The first connection's was used already.  For another one,
\* whip binds listeners again, by UDP whatever the transport is (the handle it
\* aborts does nothing), and only logs an error; whep starts senders.
PortUpdate ==
  /\ stage = "wait" /\ updates # <<>>
  /\ updates' = Tail(updates)
  /\ LET i == Head(updates)
         inf == BuildMediaInfo(conns[i])
     IN IF i = 1 THEN UNCHANGED ports
        ELSE IF Whip THEN \E taken \in Taken : ports' = Bind(inf, taken).ports
        ELSE ports' = ports \cup SendersFor(i, inf)
  /\ UNCHANGED <<process, client, conns, info, tracks, main, streams, rtp>>

--------------------------------------------------------------------------------
(* Media.                                                                  *)

StreamOpen(i) ==
  /\ Running
  /\ CASE cfg.scheme = "server" -> i \in DOMAIN conns /\ conns[i].stage = "data"
       [] cfg.scheme = "client" -> i = 1 /\ cfg.tcp /\ client.step = "done"
       [] OTHER -> FALSE

\* The source writes a frame, whose bytes may look like a header.  Bytes of the
\* first one may come with the answer to PLAY, and the client drops what follows
\* the answer.
SendFrame(i, m) ==
  /\ Whip /\ StreamOpen(i) /\ Told(i)[m].by = "tcp" /\ Len(sent[i]) < cfg.frames
  /\ \E len \in 0..cfg.len : \E data \in [1..len -> {0, Dollar}] :
       LET frame == BuildInterleavedFrame(Told(i)[m].channel, data, Len(sent[i]) + 1) IN
       \E cut \in IF cfg.scheme = "client" /\ sent[i] = <<>> THEN 0..Len(frame) ELSE {0} :
         /\ wire' = [wire EXCEPT ![i] = @ \o SubSeq(frame, cut + 1, Len(frame))]
         /\ swallowed' = (swallowed \/ cut > 0)
         /\ sent' = [sent EXCEPT ![i] =
                       Append(@, [medium |-> m, channel |-> Told(i)[m].channel, data |-> data])]
  /\ UNCHANGED <<process, rtsp, reader, got, inbox, tracksGot, clientsGot, rtp>>

\* A keep-alive or TEARDOWN among the frames.
SendMessage(i) ==
  /\ Whip /\ StreamOpen(i) /\ reader[i].open /\ cfg.len > 0
  /\ \A k \in DOMAIN wire[i] : wire[i][k] # Message
  /\ wire' = [wire EXCEPT ![i] = Append(@, Message)]
  /\ UNCHANGED <<process, rtsp, reader, swallowed, sent, got, inbox, tracksGot, clientsGot, rtp>>

\* How much a read can give.  Only where payloads are followed too is it less than
\* what is there.
ReadSizes(n) ==
  LET most == IF n < MaxRead THEN n ELSE MaxRead IN IF cfg.len = 0 THEN {most} ELSE 1..most

\* A read of handle_read_stream; the frames go to the main channel as long as
\* it has a receiver.
ReadPiece(i) ==
  /\ StreamOpen(i) /\ reader[i].open /\ wire[i] # <<>>
  /\ \E k \in ReadSizes(Len(wire[i])), incomplete \in BOOLEAN :
       LET r == ReadStream(reader[i], SubSeq(wire[i], 1, k), incomplete)
           tagged == [f \in DOMAIN r.frames |-> [conn |-> i, frame |-> r.frames[f]]]
       IN /\ reader' = [reader EXCEPT ![i] = r.reader]
          /\ got' = [got EXCEPT ![i] = @ \o r.frames]
          /\ inbox' = IF main \/ stage = "input" THEN inbox \o tagged ELSE inbox
          /\ wire' = [wire EXCEPT ![i] = SubSeq(@, k + 1, Len(@))]
  /\ UNCHANGED <<process, rtsp, swallowed, sent, tracksGot, clientsGot, rtp>>

\* TcpHandler: the channels of the first media info decide, video's first.
Demux(channel) ==
  LET via == Normalize(info).via
      to == IF via["video"] = Tcp(channel) THEN {"video"} ELSE {m \in Media : via[m] = Tcp(channel)}
  IN to \cap tracks

\* whip: a frame goes to its track.  What was taken for a frame by mistake goes to
\* a track too, but is no packet of any medium.
ForwardFrame ==
  /\ Whip /\ main /\ stage = "wait" /\ inbox # <<>>
  /\ LET f == Head(inbox) IN
     tracksGot' = tracksGot \cup
       {[conn |-> f.conn, medium |-> sent[f.conn][f.frame.of].medium, track |-> t] :
          t \in IF f.frame.of = 0 THEN {} ELSE Demux(f.frame.channel)}
  /\ inbox' = Tail(inbox)
  /\ UNCHANGED <<process, rtsp, wire, reader, swallowed, sent, got, clientsGot, rtp>>

\* whip: a packet at a UDP port that the source was told.
ListenerPacket(i, m) ==
  /\ Whip /\ Running
  /\ CASE cfg.scheme = "server" -> i \in DOMAIN conns /\ Established(conns[i])
       [] cfg.scheme = "client" -> i = 1 /\ client.step = "done"
       [] OTHER -> FALSE
  /\ Told(i)[m].by = "udp"
  /\ \E l \in ports :
       /\ l.port = Told(i)[m].recv
       /\ tracksGot' = tracksGot \cup {[conn |-> i, medium |-> m, track |-> l.medium]}
  /\ UNCHANGED <<process, rtsp, wire, reader, swallowed, sent, got, inbox, clientsGot, rtp>>

\* whep: a packet of a track.  By TCP it has the first connection's channel and
\* goes to every connection accepted (one that is not yet established gets it
\* then); by UDP it goes to every sender's port.
TrackPacket(m) ==
  /\ ~Whip /\ peer = "up" /\ stage = "wait" /\ m \in tracks
  /\ LET via == Normalize(info).via[m]
         open == IF cfg.scheme = "client" THEN {1}
                 ELSE {i \in DOMAIN conns : conns[i].stage \in {"request", "data"}}
     IN clientsGot' = clientsGot
          \cup {[conn |-> i, medium |-> m, via |-> via] : i \in IF main /\ via.by = "tcp" THEN open ELSE {}}
          \cup {[conn |-> p.conn, medium |-> m, via |-> Udp(p.port, NoPort)] :
                   p \in {x \in ports : x.medium = m}}
  /\ UNCHANGED <<process, rtsp, wire, reader, swallowed, sent, got, inbox, tracksGot, rtp>>

\* whip, plain RTP: the next packet of the source arrives or is lost.
RtpPacket ==
  /\ cfg.scheme = "rtp" /\ Whip /\ stage = "wait" /\ "video" \in tracks
  /\ pos < Len(cfg.script)
  /\ pos' = pos + 1
  /\ \/ /\ ~lossy
        /\ lossy' = TRUE /\ UNCHANGED <<rep, out>>
     \/ LET r == Payload(cfg.codec, rep, cfg.script[pos + 1]) IN
        /\ rep' = r.state /\ out' = out \o r.out
        /\ UNCHANGED lossy
  /\ UNCHANGED <<process, rtsp, streams>>

--------------------------------------------------------------------------------
(* The end.                                                                *)

ChildExits ==
  /\ child = "running" /\ Running
  /\ child' = "exited"
  /\ UNCHANGED <<cfg, stage, peer, resource, complete, rtsp, streams, rtp>>

\* The child monitor runs once the session does.
ChildSeen ==
  /\ child = "exited" /\ stage = "wait" /\ ~complete
  /\ complete' = TRUE
  /\ UNCHANGED <<cfg, stage, child, peer, resource, rtsp, streams, rtp>>

\* wait_for_shutdown: a completion.
Completed ==
  /\ stage = "wait" /\ complete
  /\ stage' = "closing"
  /\ UNCHANGED <<cfg, child, peer, resource, complete, rtsp, streams, rtp>>

\* wait_for_shutdown: a signal.
Signalled ==
  /\ stage = "wait"
  /\ stage' = "closing"
  /\ UNCHANGED <<cfg, child, peer, resource, complete, rtsp, streams, rtp>>

\* graceful_shutdown: the DELETE, which may fail.
RemoveResource ==
  /\ stage = "closing"
  /\ resource' \in {"open", "deleted"}
  /\ stage' = "closing peer"
  /\ UNCHANGED <<cfg, child, peer, complete, rtsp, streams, rtp>>

ClosePeer ==
  /\ stage = "closing peer"
  /\ peer' = "closed" /\ complete' = TRUE
  /\ stage' = "ended"
  /\ UNCHANGED <<cfg, child, resource, rtsp, streams, rtp>>

ShutdownTimeout ==
  /\ stage \in {"closing", "closing peer"}
  /\ stage' = "ended"
  /\ UNCHANGED <<cfg, child, peer, resource, complete, rtsp, streams, rtp>>

Next ==
  \/ Accept \/ ClientRequest \/ ClientGivesUp
  \/ \E i \in DOMAIN conns : ServeRequest(i) \/ ServeControl(i) \/ Hangup(i)
  \/ InputReady \/ SetupFails \/ SetupPeer \/ PeerLost
  \/ \E m \in Media : TrackArrives(m) \/ TrackPacket(m)
  \/ CodecsKnown \/ ChildStarts \/ OutputReady \/ ConnectInput \/ PortUpdate
  \/ \E i \in Streams :
       SendMessage(i) \/ ReadPiece(i) \/ \E m \in Media : SendFrame(i, m) \/ ListenerPacket(i, m)
  \/ ForwardFrame \/ RtpPacket
  \/ ChildExits \/ ChildSeen \/ Completed \/ Signalled
  \/ RemoveResource \/ ClosePeer \/ ShutdownTimeout

Spec == Init /\ [][Next]_vars

\* The runtime polls its tasks, and the shutdown has a timeout.  Nothing is
\* assumed of peers, clients, children and signals.
Fairness ==
  /\ WF_vars(InputReady \/ OutputReady)
  /\ WF_vars(ChildSeen) /\ WF_vars(Completed)
  /\ WF_vars(RemoveResource \/ ClosePeer \/ ShutdownTimeout)

FairSpec == Spec /\ Fairness

--------------------------------------------------------------------------------
(* Properties.                                                             *)

\* The server's half: media info that says of each medium what its client was
\* told in SETUP, if all of them go one way, also when a sole audio stream was
\* set up by a URI that is taken for video.  By URIs without a name, media can
\* be taken for one another, but no transport is lost.
InfoAsTold ==
  \A i \in DOMAIN conns :
    LET c == conns[i]
        via == Normalize(BuildMediaInfo(c)).via
    IN Established(c) /\ Cardinality({c.told[m].by : m \in Media} \ {"none"}) = 1 =>
         IF cfg.style = "none"
         THEN {via[m] : m \in Media} = {c.told[m] : m \in Media}
         ELSE \A m \in Offered : via[m] = c.told[m]

\* However the bytes are cut into reads, within a header too, and whatever the
\* payloads hold, what is read from an interleaved stream is what the source
\* wrote: the frames whole, on their channels, in order, none twice, and all of
\* them once the stream is read; no buffer is cleared on the way.  This is said of
\* streams whose start did not come in one read with the answer to PLAY.
\* (read_response drops what follows the answer, and handle_read_stream then takes
\* any '$' at the head of its buffer for a header: what it hands on is anything.)
FramesExact ==
  \A i \in Streams : ~swallowed =>
    /\ \A k \in DOMAIN got[i] :
         LET f == got[i][k] IN
         /\ f.of = k /\ k \in DOMAIN sent[i]
         /\ f.channel = sent[i][k].channel /\ f.data = sent[i][k].data
    /\ (reader[i].open /\ reader[i].buffer \o wire[i] = <<>>) => Len(got[i]) = Len(sent[i])

\* The media of stream i are told apart by where they go: the channels are the
\* first connection's, and no UDP port was promised twice.
ToldApart(i) ==
  /\ cfg.style # "none"
  /\ \A m \in Media : LET t == Told(i)[m] IN
       /\ t.by = "tcp" => t = Normalize(info).via[m]
       /\ t.by = "udp" => \A j \in IF cfg.scheme = "server" THEN DOMAIN conns ELSE {1}, n \in Media :
            (Told(j)[n].by = "udp" /\ Told(j)[n].recv = t.recv) => j = i /\ n = m

\* Media end up where they belong, over reconnections and changes of transport.
\* whipinto: a packet never reaches the track of the other medium, as long as
\* the ports and channels tell the media apart.  whepfrom: the first connection,
\* and every one that uses UDP, gets each medium where it asked for it.
RoutedRight ==
  /\ \A g \in tracksGot : g.track = g.medium \/ ~ToldApart(g.conn)
  /\ \A g \in clientsGot :
       LET told == Told(g.conn)[g.medium] IN
       /\ (g.via.by = "udp" /\ cfg.scheme # "rtp") => told.by = "udp" /\ told.send = g.via.send
       /\ (g.via.by = "tcp" /\ g.conn = 1) => told = g.via

\* A handshake leaves both sides with the same idea of the session.  The server
\* keeps what it told.  The client's ends with a session, and with the media of
\* the SDP that have a control attribute set up, on channels of their own (one
\* without is silently left out); its requests are numbered without a gap.  A
\* server that is recorded to and asked for no credentials has got the SDP.  (One
\* that asked has not, although credentials in the URL are documented:
\* handle_unauthorized repeats the ANNOUNCE without its body.)
HandshakeSound ==
  /\ InfoAsTold
  /\ \A k \in DOMAIN client.sent : client.sent[k].cseq = k
  /\ client.step = "done" =>
       /\ client.session
       /\ {m \in Media : client.via[m] # NoTransport} = Controlled(client.sdp, client.control)
       /\ cfg.tcp => \A m, n \in Media :
            (client.via[m] = client.via[n] /\ client.via[m] # NoTransport) => m = n
       /\ ~Whip /\ (\A k \in DOMAIN client.sent : ~client.sent[k].auth) => client.announced

Markers(seq) == Cardinality({k \in DOMAIN seq : seq[k].marker})

\* The packets written to the track are numbered without a gap over the wrap, the
\* last one with the marker bit.  Without loss there are as many markers as the
\* input had, and the track gets the units of every frame that ended, complete
\* and in order, with nothing but parameter sets added.
RePayloadExact ==
  LET own == SelectSeq(FlattenSeq([k \in DOMAIN out |-> out[k].payload]), LAMBDA e : e.frame # 0)
      ended == {k \in 1..pos : cfg.script[k].marker}
      last == IF ended = {} THEN 0 ELSE CHOOSE k \in ended : \A j \in ended : j <= k
  IN /\ \A k \in DOMAIN out : out[k].seq = (k - 1) % OutWrap
     /\ out # <<>> => out[Len(out)].marker
     /\ ~lossy => /\ Markers(out) = Markers(SubSeq(cfg.script, 1, pos))
                  /\ own = FlattenSeq([k \in 1..last |-> cfg.script[k].elems])

\* Every key frame on the track comes with all parameter sets when the SDP has
\* them, also after a loss.
KeyFramesDecodable ==
  \A k \in DOMAIN out : \A e \in DOMAIN out[k].payload :
    (out[k].payload[e].kind = "key" /\ cfg.sprop) =>
      \A x \in DOMAIN Sets(cfg.codec) : \E j \in 1..k :
        /\ \E f \in DOMAIN out[j].payload : out[j].payload[f].kind = Sets(cfg.codec)[x]
        /\ \A n \in j..k - 1 : ~out[n].marker

\* A session that runs and whose peer connection is closed, or whose child has
\* exited, ends.
SessionEnds == (stage = "wait" /\ (peer = "closed" \/ child = "exited")) ~> stage = "ended"
================================================================================

---------------------------- MODULE SubscribeForward ---------------------------
(***************************************************************************)
(* How one subscriber gets the media of a stream                           *)
(* (liveion/src/forward/subscribe.rs): for each kind of media a loop that  *)
(* binds the subscriber's sender to a published track, driven by changes   *)
(* of publish_tracks and by the layer and resource requests of the client. *)
(* A loop handles one message at a time, with the binding table locked for *)
(* writing and publish_tracks for reading, so a message is one step.       *)
(*                                                                         *)
(* Abstractions.  publish_tracks is sorted by rid; it is a set here, and   *)
(* its first track of a kind is any of those with the least rid.  Rids are *)
(* numbers in the order of the strings they stand for, 0 the empty one of  *)
(* a track that is not simulcast.  A pending notification is a flag: its   *)
(* handler looks at the tracks as they are, and a receiver that lags loses *)
(* old notifications only.  RTP packets change no state.                   *)
(***************************************************************************)
EXTENDS Naturals, Sequences

CONSTANTS
  Layers,      \* Layers[p]: the rids of the video tracks of the p-th publisher
  Voiced,      \* publishers with an audio track
  Refused,     \* <<p, k>>: the codec of p's tracks of kind k was not negotiated
  Enable, Disable, \* constant::RID_ENABLE, RID_DISABLE
  None,
  Lagged,      \* RecvError::Lagged
  MaxSelect    \* bound: requests of the client

Kind == {"video", "audio"}
Publisher == DOMAIN Layers
Rid == {0} \cup UNION {Layers[p] : p \in Publisher}
Track == {[publisher |-> p, kind |-> "video", rid |-> r] : p \in Publisher, r \in Rid}
         \cup {[publisher |-> p, kind |-> "audio", rid |-> 0] : p \in Voiced}

Body == [kind : Kind, rid : Rid \cup {Enable, Disable}] \* of a request

ASSUME LayerAssumption ==
  /\ Layers \in Seq(SUBSET Nat)
  /\ Voiced \subseteq Publisher /\ Refused \subseteq Publisher \X Kind
  /\ {Enable, Disable, None} \cap Rid = {} /\ Enable # Disable
  /\ None \notin Track \cup Body \cup {Enable, Disable} /\ Lagged \notin Body \cup {None}
  /\ MaxSelect \in Nat

VARIABLES
  publisher,      \* the publisher that holds the slot, or 0
  made,           \* publishers so far
  leaving,        \* publishers that gave the slot up and have not cleared their tracks
  came,           \* tracks that have come up
  publish_tracks,
  loop,           \* sender_forward_rtp of each kind: "none", "run", "ended"
  change,         \* whether a loop has a notification of changed tracks
  bound,          \* the track each sender forwards (`track` and `recv`), or None
  binding,        \* track_binding_publish_rid
  pre_rid,
  select,         \* what each loop receives next from its select channel, or None
  asked           \* number of requests of the client

pubVars  == <<publisher, made, leaving, came, publish_tracks>>
bindVars == <<bound, binding, pre_rid>>
vars == <<pubVars, loop, change, bindVars, select, asked>>

Init ==
  /\ publisher = 0 /\ made = 0 /\ leaving = {} /\ came = {}
  /\ publish_tracks = {}
  /\ loop = [k \in Kind |-> "none"]
  /\ change = [k \in Kind |-> FALSE]
  /\ bound = [k \in Kind |-> None]
  /\ binding = [k \in Kind |-> None]
  /\ pre_rid = [k \in Kind |-> None]
  /\ select = [k \in Kind |-> None]
  /\ asked = 0

--------------------------------------------------------------------------------
(* The stream: publishers that come and go, and their tracks.              *)

\* publish_tracks_change.send(()): every receiver there is.
Notify == change' = [k \in Kind |-> loop[k] = "run"]

PublishUp ==
  /\ publisher = 0 /\ made < Len(Layers)
  /\ made' = made + 1
  /\ publisher' = made'
  /\ UNCHANGED <<leaving, came, publish_tracks, loop, change, bindVars, select, asked>>

\* remove_publish releases the slot ...
PublishDown ==
  /\ publisher # 0
  /\ publisher' = 0
  /\ leaving' = leaving \cup {publisher}
  /\ UNCHANGED <<made, came, publish_tracks, loop, change, bindVars, select, asked>>

\* ... and clears the tracks, its own and any that came meanwhile.
RemovePublishTracks(p) ==
  /\ p \in leaving
  /\ leaving' = leaving \ {p}
  /\ publish_tracks' = {}
  /\ Notify
  /\ UNCHANGED <<publisher, made, came, loop, bindVars, select, asked>>

\* publish_track_up, in a task of its own, so possibly after its publisher left.
PublishTrackUp(t) ==
  /\ t \notin came /\ t.publisher <= made
  /\ t.kind = "video" => t.rid \in Layers[t.publisher]
  /\ came' = came \cup {t}
  /\ publish_tracks' = publish_tracks \cup {t}
  /\ Notify
  /\ UNCHANGED <<publisher, made, leaving, loop, bindVars, select, asked>>

--------------------------------------------------------------------------------
(* The subscriber.                                                         *)

\* Mutant: the loops are not told of the tracks that are there.
SubscribeQuietly ==
  /\ loop = [k \in Kind |-> "none"]
  /\ loop' = [k \in Kind |-> "run"]
  /\ UNCHANGED <<pubVars, change, bindVars, select, asked>>

\* SubscribeRTCPeerConnection::new: the loops subscribe to changes, and then a
\* change is sent for the sake of the tracks that are there already.
Subscribe ==
  /\ loop = [k \in Kind |-> "none"]
  /\ loop' = [k \in Kind |-> "run"]
  /\ change' = [k \in Kind |-> TRUE]
  /\ UNCHANGED <<pubVars, bindVars, select, asked>>

\* A loop that ends drops its receivers and its own variables.
Break(k) ==
  /\ loop' = [loop EXCEPT ![k] = "ended"]
  /\ change' = [change EXCEPT ![k] = FALSE]
  /\ bound' = [bound EXCEPT ![k] = None]
  /\ pre_rid' = [pre_rid EXCEPT ![k] = None]
  /\ select' = [select EXCEPT ![k] = None]
  /\ UNCHANGED <<pubVars, binding, asked>>

\* The connection is closed, so that writing fails, or the session is removed,
\* which closes the select channel.
SessionEnds(k) == loop[k] = "run" /\ Break(k)

\* select_layer (video, any rid a client names, or the first one published),
\* its DELETE, and change_resource (either kind).  Both loops receive every
\* request.  The channel keeps one: a second one makes a loop that has not
\* received the first lag behind.
SelectKindRid(body) ==
  /\ loop # [k \in Kind |-> "none"] /\ asked < MaxSelect
  /\ body.kind = "audio" => body.rid \in {Enable, Disable}
  /\ asked' = asked + 1
  /\ select' = [k \in Kind |-> IF loop[k] # "run" THEN None
                              ELSE IF select[k] = None THEN body ELSE Lagged]
  /\ UNCHANGED <<pubVars, loop, change, bindVars>>

--------------------------------------------------------------------------------
(* sender_forward_rtp.                                                     *)

FirstOf(ts) == {t \in ts : \A u \in ts : t.rid <= u.rid}
TracksOf(k) == {t \in publish_tracks : t.kind = k}

\* RTCRtpSender::replace_track (webrtc, external) wants a track of the sender's
\* kind in a codec that was negotiated.
Accepts(k, t) == t.kind = k /\ <<t.publisher, k>> \notin Refused

Bind(k, t, rid) ==
  /\ bound' = [bound EXCEPT ![k] = t]
  /\ binding' = [binding EXCEPT ![k] = rid]

\* Mutant: a sender that was disabled is bound to new tracks.
TrackChangeIgnoresDisable(k) ==
  /\ loop[k] = "run" /\ change[k]
  /\ change' = [change EXCEPT ![k] = FALSE]
  /\ \/ /\ publish_tracks = {}
        /\ Bind(k, None, IF binding[k] = Disable THEN Disable ELSE None)
        /\ pre_rid' = [pre_rid EXCEPT ![k] = None]
     \/ /\ publish_tracks # {} /\ bound[k] = None
        /\ \E t \in FirstOf(TracksOf(k)) : Accepts(k, t) /\ Bind(k, t, t.rid)
        /\ UNCHANGED pre_rid
     \/ /\ publish_tracks # {}
        /\ \/ bound[k] # None \/ TracksOf(k) = {}
           \/ \E t \in FirstOf(TracksOf(k)) : ~Accepts(k, t)
        /\ UNCHANGED bindVars
  /\ UNCHANGED <<pubVars, loop, select, asked>>

\* The publish_track_change branch.  A sender with a track keeps it as long as
\* there are tracks at all; a disabled one stays so.
TrackChange(k) ==
  /\ loop[k] = "run" /\ change[k]
  /\ change' = [change EXCEPT ![k] = FALSE]
  /\ \/ /\ publish_tracks = {}
        /\ Bind(k, None, IF binding[k] = Disable THEN Disable ELSE None)
        /\ pre_rid' = [pre_rid EXCEPT ![k] = None]
     \/ /\ publish_tracks # {} /\ bound[k] = None /\ binding[k] # Disable
        /\ \E t \in FirstOf(TracksOf(k)) : Accepts(k, t) /\ Bind(k, t, t.rid)
        /\ UNCHANGED pre_rid
     \/ /\ publish_tracks # {}
        /\ \/ bound[k] # None \/ binding[k] = Disable
           \/ TracksOf(k) = {} \/ \E t \in FirstOf(TracksOf(k)) : ~Accepts(k, t)
        /\ UNCHANGED bindVars
  /\ UNCHANGED <<pubVars, loop, select, asked>>

\* Err(Lagged) ends the loop.
SelectLagged(k) == loop[k] = "run" /\ select[k] = Lagged /\ Break(k)

\* The rid that a request asks for: RID_ENABLE on a disabled sender stands for
\* the rid it had, or else the first one published; None: there is none.
Wanted(k, rid) ==
  IF ~(binding[k] = Disable /\ rid = Enable) THEN {rid}
  ELSE IF pre_rid[k] # None THEN {pre_rid[k]}
  ELSE IF TracksOf(k) = {} THEN {None}
  ELSE {t.rid : t \in FirstOf(TracksOf(k))}

\* The search is among the video tracks, for either kind.
Candidates(rid) == FirstOf({t \in TracksOf("video") : t.rid = rid \/ rid = Enable})

SwitchOff(k) ==
  /\ bound' = [bound EXCEPT ![k] = IF binding[k] # None THEN None ELSE @]
  /\ pre_rid' = [pre_rid EXCEPT ![k] = IF binding[k] # None THEN binding[k] ELSE @]
  /\ binding' = [binding EXCEPT ![k] = Disable]

\* Mutant: the binding table keeps the rid that it has.
SwitchToUntold(k, rid, enabling) ==
  /\ \/ \E t \in Candidates(rid) :
          /\ Accepts(k, t)
          /\ Bind(k, t, IF binding[k] \in {None, Disable} THEN rid ELSE binding[k])
     \/ /\ Candidates(rid) = {} \/ \E t \in Candidates(rid) : ~Accepts(k, t)
        /\ binding' = [binding EXCEPT ![k] = IF enabling THEN None ELSE @]
        /\ UNCHANGED bound
  /\ UNCHANGED pre_rid

\* If no track is found, or it is refused, only the removal of RID_DISABLE by
\* RID_ENABLE remains.
SwitchTo(k, rid, enabling) ==
  /\ \/ \E t \in Candidates(rid) : Accepts(k, t) /\ Bind(k, t, rid)
     \/ /\ Candidates(rid) = {} \/ \E t \in Candidates(rid) : ~Accepts(k, t)
        /\ binding' = [binding EXCEPT ![k] = IF enabling THEN None ELSE @]
        /\ UNCHANGED bound
  /\ UNCHANGED pre_rid

\* The select_layer_recv branch.
SelectLayer(k) ==
  /\ loop[k] = "run" /\ select[k] \notin {None, Lagged}
  /\ select' = [select EXCEPT ![k] = None]
  /\ LET body == select[k] IN
     \/ /\ body.kind # k \/ body.rid = binding[k]
        /\ UNCHANGED bindVars
     \/ /\ body.kind = k /\ body.rid # binding[k]
        /\ \E rid \in Wanted(k, body.rid) :
             IF rid = Disable THEN SwitchOff(k)
             ELSE SwitchTo(k, rid, binding[k] = Disable /\ body.rid = Enable)
  /\ UNCHANGED <<pubVars, loop, change, asked>>

--------------------------------------------------------------------------------
(* sender_forward_rtcp: the published tracks that the subscriber's RTCP    *)
(* messages, such as a picture loss indication, are sent on to.            *)

RtcpTargets(k) == {t \in TracksOf(k) : t.rid = binding[k]}

--------------------------------------------------------------------------------
LoopStep(k) == TrackChange(k) \/ SelectLagged(k) \/ SelectLayer(k)

Next ==
  \/ PublishUp \/ PublishDown
  \/ \E p \in Publisher : RemovePublishTracks(p)
  \/ \E t \in Track : PublishTrackUp(t)
  \/ Subscribe
  \/ \E k \in Kind : SessionEnds(k) \/ LoopStep(k)
  \/ \E body \in Body : SelectKindRid(body)

Spec == Init /\ [][Next]_vars

--------------------------------------------------------------------------------
(* Properties.                                                             *)

\* A sender that its client has switched off stays so and forwards nothing,
\* whatever publishers and tracks come and go, until its loop handles a request
\* of the client for its kind that asks for something else.
DisabledStaysSilent ==
  [][\A k \in Kind : binding[k] = Disable =>
       \/ binding'[k] = Disable /\ bound'[k] = None
       \/ /\ select[k] \in Body /\ select'[k] = None
          /\ select[k].kind = k /\ select[k].rid # Disable]_vars

\* What a subscriber says about a picture it misses reaches the track that it
\* is sent, as long as that is published: the binding table, shared by the RTP
\* and the RTCP loop, names the rid of the forwarded track, of the sender's own
\* kind.  The exception is a sender bound by RID_ENABLE itself, whose table
\* entry names no track.
RtcpReachesSource ==
  \A k \in Kind : bound[k] \in publish_tracks /\ binding[k] # Enable =>
    bound[k] \in RtcpTargets(k)

\* No change of the tracks is lost on a loop.  While a sender of a client that
\* has made no request could forward a published track and has none, or any
\* sender still has a track although all are gone, its loop has a notification
\* pending: whether the subscriber came before the tracks or after them, and in
\* whatever order the publishers' tasks ran, it is attached, and let go, as soon
\* as the loop runs.
NoLostChange ==
  \A k \in Kind : loop[k] = "run" /\ ~change[k] =>
    /\ asked = 0 /\ bound[k] = None =>
         TracksOf(k) = {} \/ \E t \in FirstOf(TracksOf(k)) : ~Accepts(k, t)
    /\ publish_tracks = {} => bound[k] = None
================================================================================

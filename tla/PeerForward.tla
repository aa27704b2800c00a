------------------------------ MODULE PeerForward ------------------------------
(***************************************************************************)
(* One live777 stream: PeerForward / PeerForwardInternal                   *)
(* (liveion/src/forward/mod.rs, internal.rs, publish.rs) together with the *)
(* steps of the stream manager that act on it.                             *)
(*                                                                         *)
(* Every request owns a fresh peer connection, so a peer stands for its    *)
(* request, its connection and the session it becomes.  A request is a     *)
(* tokio task: each action is one stretch of it between two lock           *)
(* acquisitions or other awaits.  The webrtc callbacks are tasks of their  *)
(* own (tokio::spawn), so they run in any order and at any later time.     *)
(*                                                                         *)
(* Abstractions.  publish_tracks and subscribe_group are Vecs of which     *)
(* nothing here depends on the order: a set of owners and a set of         *)
(* sessions.  A *_leave_at timestamp is 0 ("not idle") or 1 (some time in  *)
(* the past): a timeout may then expire at any moment.  The broadcast      *)
(* channel of forward events is the set of events sent.                    *)
(***************************************************************************)
EXTENDS Integers, FiniteSets

CONSTANTS
  Publisher,     \* peers of WHIP and cascade-pull requests
  Subscriber,    \* peers of WHEP and cascade-push requests
  Cascade,       \* the ones of either kind that a cascade request made
  None,          \* Option::None
  AutoDeletePub, \* strategy.auto_delete_whip >= 0
  AutoDeleteSub, \* strategy.auto_delete_whep >= 0
  CascadePushCloseSub, \* strategy.cascade_push_close_sub
  MaxRequests    \* bound: requests made

Peer == Publisher \cup Subscriber

ASSUME PeerAssumption ==
  /\ Publisher \cap Subscriber = {}
  /\ Cascade \subseteq Peer
  /\ None \notin Peer
ASSUME FinitePeers == IsFiniteSet(Publisher) /\ IsFiniteSet(Subscriber)
ASSUME StrategyAssumption ==
  {AutoDeletePub, AutoDeleteSub, CascadePushCloseSub} \subseteq BOOLEAN

VARIABLES
  alive,               \* the stream is in Manager.stream_map
  reaping,             \* an auto-delete tick has decided to close the stream
  publish,             \* RwLock<Option<PublishRTCPeerConnection>>
  publish_tracks,      \* owners of the entries of publish_tracks
  publish_leave_at,
  subscribe_group,
  subscribe_leave_at,
  request,             \* progress of each peer's request
  conn,                \* RTCPeerConnection state of each peer
  closing,             \* peers with a spawned pc.close() task
  removal,             \* progress of each peer's spawned remove_* task
  track_up,            \* peers with a spawned publish_track_up task
  remote,              \* cascade sessions opened on the other node, not told to end
  sent,                \* forward events sent
  gauge                \* metrics::PUBLISH, SUBSCRIBE, REFORWARD

vars == <<alive, reaping, publish, publish_tracks, publish_leave_at,
          subscribe_group, subscribe_leave_at, request, conn, closing, removal,
          track_up, remote, sent, gauge>>

slotVars  == <<publish, publish_tracks, publish_leave_at>>
groupVars == <<subscribe_group, subscribe_leave_at>>
taskVars  == <<closing, removal, track_up>>
mgrVars   == <<alive, reaping>>
outVars   == <<remote, sent, gauge>>

RequestStep == {"idle", "checked", "negotiating", "negotiated", "registered",
                "announce", "reforward", "close_subs", "done", "failed"}
RemovalStep == {"none", "remove", "clear", "stamp", "announce", "reforward", "done"}
EventType   == {"PublishUp", "PublishDown", "SubscribeUp", "SubscribeDown",
                "ReforwardUp", "ReforwardDown"}

TypeOK ==
  /\ alive \in BOOLEAN
  /\ reaping \in BOOLEAN
  /\ publish \in Publisher \cup {None}
  /\ publish_tracks \subseteq Publisher
  /\ publish_leave_at \in {0, 1}
  /\ subscribe_group \subseteq Subscriber
  /\ subscribe_leave_at \in {0, 1}
  /\ request \in [Peer -> RequestStep]
  /\ conn \in [Peer -> {"none", "new", "live", "failed", "closed"}]
  /\ closing \subseteq Peer
  /\ removal \in [Peer -> RemovalStep]
  /\ track_up \subseteq Publisher
  /\ remote \subseteq Cascade
  /\ sent \subseteq EventType \X Peer
  /\ gauge \in [{"PUBLISH", "SUBSCRIBE", "REFORWARD"} -> Int]

Init ==
  /\ alive = TRUE
  /\ reaping = FALSE
  /\ publish = None
  /\ publish_tracks = {}
  /\ publish_leave_at = 0
  /\ subscribe_group = {}
  /\ subscribe_leave_at = 1
  /\ request = [p \in Peer |-> "idle"]
  /\ conn = [p \in Peer |-> "none"]
  /\ closing = {}
  /\ removal = [p \in Peer |-> "none"]
  /\ track_up = {}
  /\ remote = {}
  /\ sent = {}
  /\ gauge = [g \in {"PUBLISH", "SUBSCRIBE", "REFORWARD"} |-> 0]

--------------------------------------------------------------------------------
(* Helpers.                                                                *)

Goto(p, step) == request' = [request EXCEPT ![p] = step]

\* A request is made while the bound allows for one more.
Makes(p) == request[p] = "idle" /\ Cardinality({q \in Peer : request[q] # "idle"}) < MaxRequests

\* pc.close() on each peer of ps: the state becomes Closed once, and its
\* callback spawns the remove_publish / remove_subscribe task.
ClosePeers(ps) ==
  LET closed == {p \in ps : conn[p] # "closed"}
  IN /\ conn' = [p \in Peer |-> IF p \in closed THEN "closed" ELSE conn[p]]
     /\ removal' = [p \in Peer |-> IF p \in closed THEN "remove" ELSE removal[p]]

\* PeerForwardInternal::close.  The publisher comes first; an error of one
\* peer's close() leaves the rest of the group open.
CloseAll ==
  \E some \in SUBSET subscribe_group :
    ClosePeers(some \cup ({publish} \ {None}))

--------------------------------------------------------------------------------
(* Publishing: PeerForward::set_publish (WHIP) and publish_pull (cascade). *)

\* The first publish_is_some().  The manager clones the forward out of its map
\* and unlocks the map first, so the request may run after the stream is gone.
PublishRequest(p) ==
  /\ Makes(p)
  /\ Goto(p, IF publish = None THEN "checked" ELSE "failed")
  /\ UNCHANGED <<mgrVars, slotVars, groupVars, conn, taskVars, outVars>>

\* `let _ = self.publish_lock.lock().await` drops the guard at once, so the
\* lock orders nothing; the second publish_is_some(); new_publish_peer, whose
\* failure ends the request.
NewPublishPeer(p) ==
  /\ request[p] = "checked"
  /\ \/ /\ publish = None
        /\ conn' = [conn EXCEPT ![p] = "new"]
        /\ Goto(p, "negotiating")
     \/ Goto(p, "failed") /\ UNCHANGED conn
  /\ UNCHANGED <<mgrVars, slotVars, groupVars, taskVars, outVars>>

\* peer_complete (WHIP, WHEP) or client.wish to the other node (cascade).  A
\* refused wish closes its peer; any earlier error, and any of a WHIP or WHEP,
\* only drops it.
Negotiate(p) ==
  /\ request[p] = "negotiating"
  /\ \/ /\ Goto(p, "negotiated")
        /\ remote' = remote \cup ({p} \cap Cascade)
        /\ UNCHANGED <<conn, removal>>
     \/ /\ Goto(p, "failed")
        /\ \E ps \in SUBSET ({p} \cap Cascade) : ClosePeers(ps)
        /\ UNCHANGED remote
  /\ UNCHANGED <<mgrVars, slotVars, groupVars, closing, track_up, sent, gauge>>

\* Mutant: set_publish as set_publish in mod.rs would leave it if it relied on
\* its two earlier checks of the slot.
SetPublishUnchecked(p) ==
  /\ request[p] = "negotiated"
  /\ publish' = p
  /\ Goto(p, "registered")
  /\ UNCHANGED <<mgrVars, publish_tracks, publish_leave_at, groupVars, conn,
                 taskVars, outVars>>

\* PeerForwardInternal::set_publish, under the write lock of `publish`.  A
\* refused peer is not closed.
SetPublish(p) ==
  /\ request[p] = "negotiated"
  /\ \/ /\ publish = None
        /\ publish' = p
        /\ Goto(p, "registered")
     \/ Goto(p, "failed") /\ UNCHANGED publish
  /\ UNCHANGED <<mgrVars, publish_tracks, publish_leave_at, groupVars, conn,
                 taskVars, outVars>>

\* ... then, under the lock of publish_leave_at,
SetPublishLeaveAt(p) ==
  /\ request[p] = "registered"
  /\ publish_leave_at' = 0
  /\ Goto(p, "announce")
  /\ UNCHANGED <<mgrVars, publish, publish_tracks, groupVars, conn, taskVars,
                 outVars>>

\* Mutant: the gauge is not counted.
AnnouncePublishUncounted(p) ==
  /\ request[p] = "announce"
  /\ sent' = sent \cup {<<"PublishUp", p>>}
  /\ Goto(p, "done")
  /\ UNCHANGED <<mgrVars, slotVars, groupVars, conn, taskVars, remote, gauge>>

\* ... then the gauge and the event.
AnnouncePublish(p) ==
  /\ request[p] = "announce"
  /\ gauge' = [gauge EXCEPT !["PUBLISH"] = @ + 1]
  /\ sent' = sent \cup {<<"PublishUp", p>>}
  /\ Goto(p, "done")
  /\ UNCHANGED <<mgrVars, slotVars, groupVars, conn, taskVars, remote>>

\* Mutant: remove_publish without the check that the slot holds this session.
RemovePublishOfAnyone(p) ==
  /\ removal[p] = "remove"
  /\ publish' = None
  /\ removal' = [removal EXCEPT ![p] = IF publish = None THEN "done" ELSE "clear"]
  /\ UNCHANGED <<mgrVars, publish_tracks, publish_leave_at, groupVars, request,
                 conn, closing, track_up, outVars>>

\* PeerForwardInternal::remove_publish, the task that the Closed state spawns.
RemovePublish(p) ==
  /\ removal[p] = "remove"
  /\ \/ /\ publish = p
        /\ publish' = None
        /\ removal' = [removal EXCEPT ![p] = "clear"]
     \/ /\ publish # p
        /\ removal' = [removal EXCEPT ![p] = "done"]
        /\ UNCHANGED publish
  /\ UNCHANGED <<mgrVars, publish_tracks, publish_leave_at, groupVars, request,
                 conn, closing, track_up, outVars>>

RemovePublishTracks(p) ==
  /\ removal[p] = "clear"
  /\ publish_tracks' = {}
  /\ removal' = [removal EXCEPT ![p] = "stamp"]
  /\ UNCHANGED <<mgrVars, publish, publish_leave_at, groupVars, request, conn,
                 closing, track_up, outVars>>

RemovePublishLeaveAt(p) ==
  /\ removal[p] = "stamp"
  /\ publish_leave_at' = 1
  /\ removal' = [removal EXCEPT ![p] = "announce"]
  /\ UNCHANGED <<mgrVars, publish, publish_tracks, groupVars, request, conn,
                 closing, track_up, outVars>>

AnnouncePublishDown(p) ==
  /\ removal[p] = "announce"
  /\ gauge' = [gauge EXCEPT !["PUBLISH"] = @ - 1]
  /\ sent' = sent \cup {<<"PublishDown", p>>}
  /\ removal' = [removal EXCEPT ![p] = "done"]
  /\ UNCHANGED <<mgrVars, slotVars, groupVars, request, conn, closing, track_up,
                 remote>>

\* Mutant: the track is filed under whoever holds the slot.
PublishTrackUpForSlot(p) ==
  /\ p \in track_up
  /\ track_up' = track_up \ {p}
  /\ publish_tracks' = publish_tracks \cup {publish}
  /\ UNCHANGED <<mgrVars, publish, publish_leave_at, groupVars, request, conn,
                 closing, removal, outVars>>

\* PeerForwardInternal::publish_track_up, the task that on_track spawns.
PublishTrackUp(p) ==
  /\ p \in track_up
  /\ track_up' = track_up \ {p}
  /\ publish_tracks' = publish_tracks \cup {p}
  /\ UNCHANGED <<mgrVars, publish, publish_leave_at, groupVars, request, conn,
                 closing, removal, outVars>>

--------------------------------------------------------------------------------
(* Subscribing: PeerForward::add_subscribe (WHEP), subscribe_push (cascade) *)

NewSubscriptionPeer(s) ==
  /\ Makes(s)
  /\ \/ /\ conn' = [conn EXCEPT ![s] = "new"]
        /\ Goto(s, "negotiating")
     \/ Goto(s, "failed") /\ UNCHANGED conn
  /\ UNCHANGED <<mgrVars, slotVars, groupVars, taskVars, outVars>>

\* PeerForwardInternal::add_subscribe: the guard of subscribe_group lives only
\* for the push ...
AddSubscribe(s) ==
  /\ request[s] = "negotiated"
  /\ subscribe_group' = subscribe_group \cup {s}
  /\ Goto(s, "registered")
  /\ UNCHANGED <<mgrVars, slotVars, subscribe_leave_at, conn, taskVars, outVars>>

\* ... and subscribe_leave_at is reset in a step of its own.
AddSubscribeLeaveAt(s) ==
  /\ request[s] = "registered"
  /\ subscribe_leave_at' = 0
  /\ Goto(s, "announce")
  /\ UNCHANGED <<mgrVars, slotVars, subscribe_group, conn, taskVars, outVars>>

AnnounceSubscribe(s) ==
  /\ request[s] = "announce"
  /\ gauge' = [gauge EXCEPT !["SUBSCRIBE"] = @ + 1]
  /\ sent' = sent \cup {<<"SubscribeUp", s>>}
  /\ Goto(s, IF s \in Cascade THEN "reforward" ELSE "done")
  /\ UNCHANGED <<mgrVars, slotVars, groupVars, conn, taskVars, remote>>

AnnounceReforward(s) ==
  /\ request[s] = "reforward"
  /\ gauge' = [gauge EXCEPT !["REFORWARD"] = @ + 1]
  /\ sent' = sent \cup {<<"ReforwardUp", s>>}
  /\ Goto(s, IF CascadePushCloseSub THEN "close_subs" ELSE "done")
  /\ UNCHANGED <<mgrVars, slotVars, groupVars, conn, taskVars, remote>>

\* The end of Manager::cascade_push: the subscribers that are no cascade, one
\* remove_peer each, whose error is ignored.
CloseSubs(s) ==
  /\ request[s] = "close_subs"
  /\ ClosePeers(subscribe_group \ Cascade)
  /\ Goto(s, "done")
  /\ UNCHANGED <<mgrVars, slotVars, groupVars, closing, track_up, outVars>>

\* Mutant: the stamp is made whenever a session leaves.
RemoveSubscribeAlwaysStamps(s) ==
  /\ removal[s] = "remove"
  /\ subscribe_group' = subscribe_group \ {s}
  /\ subscribe_leave_at' = 1
  /\ gauge' = IF s \notin subscribe_group THEN gauge
              ELSE [gauge EXCEPT !["SUBSCRIBE"] = @ - 1,
                                 !["REFORWARD"] = IF s \in Cascade THEN @ - 1 ELSE @]
  /\ remote' = remote \ ({s} \cap subscribe_group)
  /\ removal' = [removal EXCEPT ![s] = IF s \in subscribe_group THEN "announce" ELSE "done"]
  /\ UNCHANGED <<mgrVars, slotVars, request, conn, closing, track_up, sent>>

\* Mutant: a cascade session is dropped without telling the other node.
RemoveSubscribeKeepsRemote(s) ==
  /\ removal[s] = "remove"
  /\ subscribe_group' = subscribe_group \ {s}
  /\ subscribe_leave_at' = IF subscribe_group' = {} THEN 1 ELSE subscribe_leave_at
  /\ gauge' = IF s \notin subscribe_group THEN gauge
              ELSE [gauge EXCEPT !["SUBSCRIBE"] = @ - 1,
                                 !["REFORWARD"] = IF s \in Cascade THEN @ - 1 ELSE @]
  /\ removal' = [removal EXCEPT ![s] = IF s \in subscribe_group THEN "announce" ELSE "done"]
  /\ UNCHANGED <<mgrVars, slotVars, request, conn, closing, track_up, sent, remote>>

\* PeerForwardInternal::remove_subscribe: one critical section of
\* subscribe_group; the stamp is made inside it, also when s was not found.
RemoveSubscribe(s) ==
  /\ removal[s] = "remove"
  /\ subscribe_group' = subscribe_group \ {s}
  /\ subscribe_leave_at' = IF subscribe_group' = {} THEN 1 ELSE subscribe_leave_at
  /\ \/ /\ s \in subscribe_group
        /\ gauge' = [gauge EXCEPT !["SUBSCRIBE"] = @ - 1,
                                  !["REFORWARD"] = IF s \in Cascade THEN @ - 1 ELSE @]
        /\ remote' = remote \ {s}
        /\ removal' = [removal EXCEPT ![s] = "announce"]
     \/ /\ s \notin subscribe_group
        /\ removal' = [removal EXCEPT ![s] = "done"]
        /\ UNCHANGED <<gauge, remote>>
  /\ UNCHANGED <<mgrVars, slotVars, request, conn, closing, track_up, sent>>

AnnounceSubscribeDown(s) ==
  /\ removal[s] = "announce"
  /\ sent' = sent \cup {<<"SubscribeDown", s>>}
  /\ removal' = [removal EXCEPT ![s] = IF s \in Cascade THEN "reforward" ELSE "done"]
  /\ UNCHANGED <<mgrVars, slotVars, groupVars, request, conn, closing, track_up,
                 remote, gauge>>

AnnounceReforwardDown(s) ==
  /\ removal[s] = "reforward"
  /\ sent' = sent \cup {<<"ReforwardDown", s>>}
  /\ removal' = [removal EXCEPT ![s] = "done"]
  /\ UNCHANGED <<mgrVars, slotVars, groupVars, request, conn, closing, track_up,
                 remote, gauge>>

--------------------------------------------------------------------------------
(* The peer connections (webrtc, external).                                *)

\* Both descriptions are set and the other side knows them: a pull starts when
\* the upstream answer is applied, before set_publish; a push applies it after
\* add_subscribe has returned; a WHIP or WHEP client needs the response.
Connectable(p) ==
  \/ request[p] \in {"close_subs", "done"}
  \/ p \in Cascade \cap Publisher /\ request[p] \in {"negotiated", "registered", "announce"}

Connect(p) ==
  /\ conn[p] = "new"
  /\ Connectable(p)
  /\ conn' = [conn EXCEPT ![p] = "live"]
  /\ UNCHANGED <<mgrVars, slotVars, groupVars, request, taskVars, outVars>>

\* ICE fails or disconnects; the callback spawns a task that closes the peer.
\* The ICE agent of a WHIP or WHEP peer runs from the moment its answer is set,
\* so this can happen while the request still gathers candidates.  The peer of
\* a failed request is dropped, and the callbacks hold it weakly.
Fail(p) ==
  /\ conn[p] \in {"new", "live"}
  /\ request[p] # "failed"
  /\ p \in Cascade => Connectable(p)
  /\ conn' = [conn EXCEPT ![p] = "failed"]
  /\ closing' = closing \cup {p}
  /\ UNCHANGED <<mgrVars, slotVars, groupVars, request, removal, track_up, outVars>>

\* Mutant: the callback of a failed connection does not close it.
CloseTaskForgotten(p) ==
  /\ p \in closing
  /\ closing' = closing \ {p}
  /\ UNCHANGED <<mgrVars, slotVars, groupVars, request, conn, removal, track_up, outVars>>

CloseTask(p) ==
  /\ p \in closing
  /\ closing' = closing \ {p}
  /\ ClosePeers({p})
  /\ UNCHANGED <<mgrVars, slotVars, groupVars, request, track_up, outVars>>

OnTrack(p) ==
  /\ conn[p] = "live"
  /\ request[p] # "failed"
  /\ track_up' = track_up \cup {p}
  /\ UNCHANGED <<mgrVars, slotVars, groupVars, request, conn, closing, removal, outVars>>

--------------------------------------------------------------------------------
(* The manager's operations on this stream.                                *)

\* Manager::remove_stream_session, for DELETE /session/{stream}/{session}:
\* remove_peer on a forward found earlier.  The stream_delete that follows for
\* the publisher's session is StreamDelete below.
RemovePeer(p) ==
  /\ p \in subscribe_group \cup {publish}
  /\ conn[p] # "closed"
  /\ ClosePeers({p})
  /\ UNCHANGED <<mgrVars, slotVars, groupVars, request, closing, track_up, outVars>>

\* Manager::stream_delete, of the API or the end of remove_stream_session:
\* close, then removal from the map, in one critical section of the map.
StreamDelete ==
  /\ alive
  /\ ~reaping
  /\ CloseAll
  /\ alive' = FALSE
  /\ UNCHANGED <<reaping, slotVars, groupVars, request, closing, track_up, outVars>>

\* The second phase of publish_check_tick / subscribe_check_tick: info() under
\* the write lock of the map, which stream_delete needs too ...
PublishCheckTick ==
  /\ alive /\ ~reaping
  /\ AutoDeletePub
  /\ publish_leave_at > 0
  /\ reaping' = TRUE
  /\ UNCHANGED <<alive, slotVars, groupVars, request, conn, taskVars, outVars>>

SubscribeCheckTick ==
  /\ alive /\ ~reaping
  /\ AutoDeleteSub
  /\ subscribe_leave_at > 0
  /\ reaping' = TRUE
  /\ UNCHANGED <<alive, slotVars, groupVars, request, conn, taskVars, outVars>>

\* ... then close() and the removal from the map.
CheckTickDelete ==
  /\ reaping
  /\ CloseAll
  /\ alive' = FALSE
  /\ reaping' = FALSE
  /\ UNCHANGED <<slotVars, groupVars, request, closing, track_up, outVars>>

--------------------------------------------------------------------------------
PublishStep(p) ==
  \/ NewPublishPeer(p) \/ SetPublish(p) \/ SetPublishLeaveAt(p) \/ AnnouncePublish(p)
  \/ RemovePublish(p) \/ RemovePublishTracks(p) \/ RemovePublishLeaveAt(p)
  \/ AnnouncePublishDown(p) \/ PublishTrackUp(p)

SubscribeStep(s) ==
  \/ AddSubscribe(s) \/ AddSubscribeLeaveAt(s) \/ AnnounceSubscribe(s)
  \/ AnnounceReforward(s) \/ CloseSubs(s)
  \/ RemoveSubscribe(s) \/ AnnounceSubscribeDown(s) \/ AnnounceReforwardDown(s)

Next ==
  \/ \E p \in Publisher : PublishRequest(p) \/ PublishStep(p) \/ OnTrack(p)
  \/ \E s \in Subscriber : NewSubscriptionPeer(s) \/ SubscribeStep(s)
  \/ \E p \in Peer : Negotiate(p) \/ Connect(p) \/ Fail(p) \/ CloseTask(p) \/ RemovePeer(p)
  \/ StreamDelete
  \/ PublishCheckTick \/ SubscribeCheckTick \/ CheckTickDelete

Spec == Init /\ [][Next]_vars

\* tokio runs every ready task: requests past an await, spawned callbacks.
\* Clients, the network and a negotiation may stop for ever.
Fairness ==
  /\ \A p \in Publisher : WF_vars(PublishStep(p))
  /\ \A s \in Subscriber : WF_vars(SubscribeStep(s))
  /\ \A p \in Peer : WF_vars(CloseTask(p))

FairSpec == Spec /\ Fairness

--------------------------------------------------------------------------------
(* Properties.                                                             *)

\* Sessions that went through SetPublish, respectively AddSubscribe.
Registered == {p \in Peer : request[p] \in {"registered", "announce", "reforward",
                                            "close_subs", "done"}}

\* The publish slot behaves as PublishSlot says: although the requests' checks
\* (mod.rs set_publish) are not atomic with the registration, and a removal
\* task may run at any time after its connection closed, the slot never passes
\* from one session to another without being empty, no session gets it twice,
\* and no session but the closed one that holds it makes it empty.
Slot == INSTANCE PublishSlot WITH
  Session <- Publisher, slot <- publish,
  held <- Registered \cap Publisher,
  closed <- {p \in Publisher : conn[p] = "closed"}

SlotSpec == Slot!Spec

\* remove_subscribe stamps subscribe_leave_at only while it sees the group
\* empty, under the group's lock, and add_subscribe resets it after joining:
\* once a subscriber's join is complete, the stream never counts as idle while
\* that subscriber stays, whoever else leaves.
EstablishedNotIdle ==
  \A s \in subscribe_group :
    request[s] \in {"announce", "reforward", "close_subs", "done"} => subscribe_leave_at = 0

\* Sessions that are registered and not yet counted, or removed and still counted.
PublishJoining   == {p \in Publisher : request[p] \in {"registered", "announce"}}
PublishLeaving   == {p \in Publisher : removal[p] \in {"clear", "stamp", "announce"}}
SubscribeJoining == {s \in Subscriber : request[s] \in {"registered", "announce"}}
PushJoining      == {s \in Subscriber \cap Cascade :
                       request[s] \in {"registered", "announce", "reforward"}}

\* Each metric gauge differs from the number of sessions it counts exactly by
\* the tasks that are between the registration and its inc(), or between the
\* removal and its dec(): no session is counted twice or left counted, however
\* joins, failures, deletes and removals interleave.
PublishGauge ==
  gauge["PUBLISH"] = Cardinality({publish} \ {None})
                     - Cardinality(PublishJoining) + Cardinality(PublishLeaving)
SubscribeGauge ==
  gauge["SUBSCRIBE"] = Cardinality(subscribe_group) - Cardinality(SubscribeJoining)
ReforwardGauge ==
  gauge["REFORWARD"] = Cardinality(subscribe_group \cap Cascade) - Cardinality(PushJoining)
GaugesBalance == PublishGauge /\ SubscribeGauge /\ ReforwardGauge

\* Quiet(P): no join and no removal of a session of P is under way.
Quiet(P) ==
  \A p \in P : /\ request[p] \notin {"registered", "announce", "reforward"}
               /\ removal[p] \notin {"clear", "stamp", "announce", "reforward"}

Up(up, down) == {p \in Peer : <<up, p>> \in sent /\ <<down, p>> \notin sent}

\* When nothing is under way, the events sent tell exactly who is there: every
\* PublishUp, SubscribeUp and ReforwardUp without its Down is a session in the
\* slot or the group, and every such session has been announced.  A request
\* that lost the race for the slot is never announced.
EventsMatchSessions ==
  /\ Quiet(Publisher) => Up("PublishUp", "PublishDown") = {publish} \ {None}
  /\ Quiet(Subscriber) =>
       /\ Up("SubscribeUp", "SubscribeDown") = subscribe_group
       /\ Up("ReforwardUp", "ReforwardDown") = subscribe_group \cap Cascade

\* A push session opened on another node is either still being registered, or
\* in the group, or the other node has been told to end it: none is leaked by
\* a failure between client.wish and add_subscribe, or by a removal.
CascadeReleased ==
  remote \cap Subscriber \subseteq
    subscribe_group \cup {s \in Subscriber : request[s] = "negotiated"}

\* A session whose connection fails while it is registered is removed from the
\* slot or the group, whatever happens to the stream meanwhile: the callback
\* chain Failed -> close() -> Closed -> remove_* completes.
FailedPublisherLeaves ==
  \A p \in Publisher : publish = p /\ conn[p] = "failed" ~> publish # p
FailedSubscriberLeaves ==
  \A s \in Subscriber :
    s \in subscribe_group /\ conn[s] = "failed" ~> s \notin subscribe_group
================================================================================

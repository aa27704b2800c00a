--------------------------- MODULE PeerForwardProofs ---------------------------
(***************************************************************************)
(* Theorems about PeerForward, for any number of publishers and            *)
(* subscribers and any strategy.                                           *)
(***************************************************************************)
EXTENDS PeerForward, FiniteSetTheorems, TLAPS

USE PeerAssumption DEF Peer

--------------------------------------------------------------------------------
(* Closing peers.                                                          *)

\* pc.close() keeps the types of the connections and of the removal tasks.
LEMMA ClosePeersType ==
  ASSUME NEW ps, TypeOK, ClosePeers(ps)
  PROVE  /\ conn' \in [Peer -> {"none", "new", "live", "failed", "closed"}]
         /\ removal' \in [Peer -> RemovalStep]
BY DEF TypeOK, ClosePeers, RemovalStep

--------------------------------------------------------------------------------
(* Types.                                                                  *)

\* Every step of a publish request, of its removal task or of its tracks keeps
\* the types.
LEMMA PublishTypes ==
  ASSUME NEW p \in Publisher, TypeOK,
         PublishRequest(p) \/ PublishStep(p) \/ OnTrack(p)
  PROVE  TypeOK'
<1> USE DEF TypeOK, Goto, RequestStep, RemovalStep, EventType, mgrVars, slotVars,
            groupVars, taskVars, outVars
<1>1. CASE PublishRequest(p) BY <1>1 DEF PublishRequest
<1>2. CASE NewPublishPeer(p) BY <1>2 DEF NewPublishPeer
<1>3. CASE SetPublish(p) BY <1>3 DEF SetPublish
<1>4. CASE SetPublishLeaveAt(p) BY <1>4 DEF SetPublishLeaveAt
<1>5. CASE AnnouncePublish(p) BY <1>5 DEF AnnouncePublish
<1>6. CASE RemovePublish(p) BY <1>6 DEF RemovePublish
<1>7. CASE RemovePublishTracks(p) BY <1>7 DEF RemovePublishTracks
<1>8. CASE RemovePublishLeaveAt(p) BY <1>8 DEF RemovePublishLeaveAt
<1>9. CASE AnnouncePublishDown(p) BY <1>9 DEF AnnouncePublishDown
<1>10. CASE PublishTrackUp(p) BY <1>10 DEF PublishTrackUp
<1>11. CASE OnTrack(p) BY <1>11 DEF OnTrack
<1>. QED BY <1>1, <1>2, <1>3, <1>4, <1>5, <1>6, <1>7, <1>8, <1>9, <1>10, <1>11
         DEF PublishStep

\* So does every step of a subscription.
LEMMA SubscribeTypes ==
  ASSUME NEW s \in Subscriber, TypeOK, NewSubscriptionPeer(s) \/ SubscribeStep(s)
  PROVE  TypeOK'
<1> USE DEF TypeOK, Goto, RequestStep, RemovalStep, EventType, mgrVars, slotVars,
            groupVars, taskVars, outVars
<1>1. CASE NewSubscriptionPeer(s) BY <1>1 DEF NewSubscriptionPeer
<1>2. CASE AddSubscribe(s) BY <1>2 DEF AddSubscribe
<1>3. CASE AddSubscribeLeaveAt(s) BY <1>3 DEF AddSubscribeLeaveAt
<1>4. CASE AnnounceSubscribe(s) BY <1>4 DEF AnnounceSubscribe
<1>5. CASE AnnounceReforward(s) BY <1>5 DEF AnnounceReforward
<1>6. CASE CloseSubs(s) BY <1>6, ClosePeersType DEF CloseSubs
<1>7. CASE RemoveSubscribe(s)
  <2>1. gauge' \in [{"PUBLISH", "SUBSCRIBE", "REFORWARD"} -> Int]
    <3>1. CASE s \in subscribe_group /\ s \in Cascade BY <1>7, <3>1 DEF RemoveSubscribe
    <3>2. CASE s \in subscribe_group /\ s \notin Cascade BY <1>7, <3>2 DEF RemoveSubscribe
    <3>3. CASE s \notin subscribe_group BY <1>7, <3>3 DEF RemoveSubscribe
    <3>. QED BY <3>1, <3>2, <3>3
  <2>2. subscribe_leave_at' \in {0, 1} /\ remote' \subseteq Cascade
    BY <1>7 DEF RemoveSubscribe
  <2>3. removal' \in [Peer -> RemovalStep]
    BY <1>7 DEF RemoveSubscribe
  <2>. QED BY <1>7, <2>1, <2>2, <2>3 DEF RemoveSubscribe
<1>8. CASE AnnounceSubscribeDown(s) BY <1>8 DEF AnnounceSubscribeDown
<1>9. CASE AnnounceReforwardDown(s) BY <1>9 DEF AnnounceReforwardDown
<1>. QED BY <1>1, <1>2, <1>3, <1>4, <1>5, <1>6, <1>7, <1>8, <1>9 DEF SubscribeStep

\* So do the connections and the manager.
LEMMA EnvironmentTypes ==
  ASSUME TypeOK,
         \/ \E p \in Peer : Negotiate(p) \/ Connect(p) \/ Fail(p) \/ CloseTask(p) \/ RemovePeer(p)
         \/ StreamDelete
         \/ PublishCheckTick \/ SubscribeCheckTick \/ CheckTickDelete
  PROVE  TypeOK'
<1> USE DEF TypeOK, Goto, RequestStep, mgrVars, slotVars, groupVars, taskVars, outVars
<1>1. ASSUME NEW p \in Peer, Negotiate(p) PROVE TypeOK'
  BY <1>1, ClosePeersType DEF Negotiate
<1>2. ASSUME NEW p \in Peer, Connect(p) PROVE TypeOK'
  BY <1>2 DEF Connect
<1>3. ASSUME NEW p \in Peer, Fail(p) PROVE TypeOK'
  BY <1>3 DEF Fail
<1>4. ASSUME NEW p \in Peer, CloseTask(p) PROVE TypeOK'
  BY <1>4, ClosePeersType DEF CloseTask
<1>5. ASSUME NEW p \in Peer, RemovePeer(p) PROVE TypeOK'
  BY <1>5, ClosePeersType DEF RemovePeer
<1>6. CASE StreamDelete BY <1>6, ClosePeersType DEF StreamDelete, CloseAll
<1>7. CASE PublishCheckTick BY <1>7 DEF PublishCheckTick
<1>8. CASE SubscribeCheckTick BY <1>8 DEF SubscribeCheckTick
<1>9. CASE CheckTickDelete BY <1>9, ClosePeersType DEF CheckTickDelete, CloseAll
<1>. QED BY <1>1, <1>2, <1>3, <1>4, <1>5, <1>6, <1>7, <1>8, <1>9

\* The state of a stream keeps its types: in particular only publish sessions
\* get into the slot and the track list, and only subscriptions into the group.
THEOREM TypeCorrect == Spec => []TypeOK
<1>1. Init => TypeOK
  <2> SUFFICES ASSUME Init PROVE TypeOK
    OBVIOUS
  <2>1. sent \subseteq EventType \X Peer
    BY DEF Init
  <2>2. /\ request \in [Peer -> RequestStep]
        /\ conn \in [Peer -> {"none", "new", "live", "failed", "closed"}]
        /\ removal \in [Peer -> RemovalStep]
    BY DEF Init, RequestStep, RemovalStep
  <2>3. gauge \in [{"PUBLISH", "SUBSCRIBE", "REFORWARD"} -> Int]
    BY DEF Init
  <2>. QED BY <2>1, <2>2, <2>3 DEF Init, TypeOK
<1>2. TypeOK /\ [Next]_vars => TypeOK'
  <2> SUFFICES ASSUME TypeOK, [Next]_vars PROVE TypeOK'
    OBVIOUS
  <2>1. CASE Next
    BY <2>1, PublishTypes, SubscribeTypes, EnvironmentTypes DEF Next
  <2>2. CASE UNCHANGED vars
    BY <2>2 DEF vars, TypeOK
  <2>. QED BY <2>1, <2>2
<1>. QED BY <1>1, <1>2, PTL DEF Spec

--------------------------------------------------------------------------------
(* The subscribers: idleness, and the sessions of cascade pushes.  Each of *)
(* the two invariants is inductive together with the types; what matters   *)
(* is which of the group, the leave time, the remote sessions and the      *)
(* progress of a subscription's request a step touches.                    *)

SubscriberInv == EstablishedNotIdle /\ CascadeReleased

\* A step that leaves these four alone for every subscriber preserves both.
LEMMA SubscriberFrame ==
  ASSUME TypeOK, SubscriberInv,
         subscribe_group' = subscribe_group,
         subscribe_leave_at' = subscribe_leave_at,
         remote' \cap Subscriber = remote \cap Subscriber,
         \A s \in Subscriber : request'[s] = request[s]
  PROVE  SubscriberInv'
BY DEF TypeOK, SubscriberInv, EstablishedNotIdle, CascadeReleased

\* The steps of publishers, of connections and of the manager are of that kind
\* (Negotiate is looked at below).
LEMMA OthersLeaveSubscribers ==
  ASSUME TypeOK, SubscriberInv,
         \/ \E p \in Publisher : PublishRequest(p) \/ PublishStep(p) \/ OnTrack(p)
         \/ \E p \in Peer : Connect(p) \/ Fail(p) \/ CloseTask(p) \/ RemovePeer(p)
         \/ StreamDelete
         \/ PublishCheckTick \/ SubscribeCheckTick \/ CheckTickDelete
  PROVE  SubscriberInv'
<1> USE DEF mgrVars, slotVars, groupVars, taskVars, outVars
<1>1. ASSUME NEW p \in Publisher, PublishRequest(p) \/ PublishStep(p) \/ OnTrack(p)
      PROVE  SubscriberInv'
  <2>1. UNCHANGED <<subscribe_group, subscribe_leave_at, remote>>
    BY <1>1 DEF PublishRequest, PublishStep, OnTrack, NewPublishPeer, SetPublish,
                SetPublishLeaveAt, AnnouncePublish, RemovePublish, RemovePublishTracks,
                RemovePublishLeaveAt, AnnouncePublishDown, PublishTrackUp
  <2>2. \A s \in Subscriber : request'[s] = request[s]
    BY <1>1 DEF TypeOK, Goto, PublishRequest, PublishStep, OnTrack, NewPublishPeer,
                SetPublish, SetPublishLeaveAt, AnnouncePublish, RemovePublish,
                RemovePublishTracks, RemovePublishLeaveAt, AnnouncePublishDown,
                PublishTrackUp
  <2>. QED BY <2>1, <2>2, SubscriberFrame
<1>2. ASSUME NEW p \in Peer, Connect(p) \/ Fail(p) \/ CloseTask(p) \/ RemovePeer(p)
      PROVE  SubscriberInv'
  <2>1. UNCHANGED <<subscribe_group, subscribe_leave_at, remote, request>>
    BY <1>2 DEF Connect, Fail, CloseTask, RemovePeer
  <2>. QED BY <2>1, SubscriberFrame
<1>3. ASSUME StreamDelete \/ PublishCheckTick \/ SubscribeCheckTick \/ CheckTickDelete
      PROVE  SubscriberInv'
  <2>1. UNCHANGED <<subscribe_group, subscribe_leave_at, remote, request>>
    BY <1>3 DEF StreamDelete, PublishCheckTick, SubscribeCheckTick, CheckTickDelete
  <2>. QED BY <2>1, SubscriberFrame
<1>. QED BY <1>1, <1>2, <1>3

\* A subscription's own steps, and its negotiation.
LEMMA SubscriptionSteps ==
  ASSUME NEW s \in Subscriber, TypeOK, SubscriberInv,
         NewSubscriptionPeer(s) \/ SubscribeStep(s)
  PROVE  SubscriberInv'
<1> USE DEF TypeOK, SubscriberInv, EstablishedNotIdle, CascadeReleased, Goto,
            RequestStep, mgrVars, slotVars, groupVars, taskVars, outVars
<1>1. CASE NewSubscriptionPeer(s) BY <1>1 DEF NewSubscriptionPeer, Makes
<1>2. CASE AddSubscribe(s) BY <1>2 DEF AddSubscribe
<1>3. CASE AddSubscribeLeaveAt(s) BY <1>3 DEF AddSubscribeLeaveAt
<1>4. CASE AnnounceSubscribe(s) BY <1>4 DEF AnnounceSubscribe
<1>5. CASE AnnounceReforward(s) BY <1>5 DEF AnnounceReforward
<1>6. CASE CloseSubs(s) BY <1>6 DEF CloseSubs
<1>7. CASE RemoveSubscribe(s) BY <1>7 DEF RemoveSubscribe
<1>8. CASE AnnounceSubscribeDown(s) BY <1>8 DEF AnnounceSubscribeDown
<1>9. CASE AnnounceReforwardDown(s) BY <1>9 DEF AnnounceReforwardDown
<1>. QED BY <1>1, <1>2, <1>3, <1>4, <1>5, <1>6, <1>7, <1>8, <1>9 DEF SubscribeStep

LEMMA NegotiationSteps ==
  ASSUME NEW p \in Peer, TypeOK, SubscriberInv, Negotiate(p)
  PROVE  SubscriberInv'
BY DEF TypeOK, SubscriberInv, EstablishedNotIdle, CascadeReleased, Goto, Negotiate,
       mgrVars, slotVars, groupVars

\* For any number of subscribers: a stream with a completely joined subscriber
\* never counts as idle, and no push session on another node is leaked.
THEOREM SubscribersSafe == Spec => [](EstablishedNotIdle /\ CascadeReleased)
<1>1. Init => SubscriberInv
  BY DEF Init, SubscriberInv, EstablishedNotIdle, CascadeReleased
<1>2. TypeOK /\ SubscriberInv /\ [Next]_vars => SubscriberInv'
  <2> SUFFICES ASSUME TypeOK, SubscriberInv, [Next]_vars PROVE SubscriberInv'
    OBVIOUS
  <2>1. CASE Next
    BY <2>1, OthersLeaveSubscribers, SubscriptionSteps, NegotiationSteps DEF Next
  <2>2. CASE UNCHANGED vars
    BY <2>2 DEF vars, SubscriberInv, EstablishedNotIdle, CascadeReleased
  <2>. QED BY <2>1, <2>2
<1>. QED BY <1>1, <1>2, TypeCorrect, PTL DEF Spec, SubscriberInv

\* The cascade half by itself: a session that a push has opened on another node
\* is still being registered or belongs to the group; a refused subscribe_push
\* and remove_subscribe delete it.
THEOREM CascadesReleased == Spec => []CascadeReleased
<1>1. EstablishedNotIdle /\ CascadeReleased => CascadeReleased OBVIOUS
<1>. QED BY <1>1, SubscribersSafe, PTL

--------------------------------------------------------------------------------
(* Connections: what a removal task, a close task and a registration say   *)
(* about their peer.                                                       *)

Unborn == {"idle", "checked"}

\* A peer whose request has not made its connection is nowhere; a removal task
\* exists only once the connection is closed, which it then stays.
ConnectionInv ==
  /\ \A p \in Peer : request[p] \in Unborn => conn[p] = "none" /\ p \notin closing
  /\ \A p \in Peer : removal[p] # "none" => conn[p] = "closed"
  /\ publish # None => publish \in Registered
  /\ subscribe_group \subseteq Registered

LEMMA ConnectionInit == Init => ConnectionInv
BY DEF Init, ConnectionInv, Unborn

LEMMA ConnectionPublish ==
  ASSUME NEW p \in Publisher, TypeOK, ConnectionInv,
         PublishRequest(p) \/ PublishStep(p) \/ OnTrack(p)
  PROVE  ConnectionInv'
<1> USE DEF TypeOK, ConnectionInv, Registered, Unborn, Goto, mgrVars, slotVars,
            groupVars, taskVars, outVars
<1>1. CASE PublishRequest(p) BY <1>1 DEF PublishRequest, Makes
<1>2. CASE NewPublishPeer(p) BY <1>2 DEF NewPublishPeer
<1>3. CASE SetPublish(p) BY <1>3 DEF SetPublish
<1>4. CASE SetPublishLeaveAt(p) BY <1>4 DEF SetPublishLeaveAt
<1>5. CASE AnnouncePublish(p) BY <1>5 DEF AnnouncePublish
<1>6. CASE RemovePublish(p) BY <1>6 DEF RemovePublish
<1>7. CASE RemovePublishTracks(p) BY <1>7 DEF RemovePublishTracks
<1>8. CASE RemovePublishLeaveAt(p) BY <1>8 DEF RemovePublishLeaveAt
<1>9. CASE AnnouncePublishDown(p) BY <1>9 DEF AnnouncePublishDown
<1>10. CASE PublishTrackUp(p) BY <1>10 DEF PublishTrackUp
<1>11. CASE OnTrack(p) BY <1>11 DEF OnTrack
<1>. QED BY <1>1, <1>2, <1>3, <1>4, <1>5, <1>6, <1>7, <1>8, <1>9, <1>10, <1>11
         DEF PublishStep

LEMMA ConnectionSubscribe ==
  ASSUME NEW s \in Subscriber, TypeOK, ConnectionInv,
         NewSubscriptionPeer(s) \/ SubscribeStep(s)
  PROVE  ConnectionInv'
<1> USE DEF TypeOK, ConnectionInv, Registered, Unborn, Goto, mgrVars, slotVars,
            groupVars, taskVars, outVars
<1>1. CASE NewSubscriptionPeer(s) BY <1>1 DEF NewSubscriptionPeer, Makes
<1>2. CASE AddSubscribe(s) BY <1>2 DEF AddSubscribe
<1>3. CASE AddSubscribeLeaveAt(s) BY <1>3 DEF AddSubscribeLeaveAt
<1>4. CASE AnnounceSubscribe(s) BY <1>4 DEF AnnounceSubscribe
<1>5. CASE AnnounceReforward(s) BY <1>5 DEF AnnounceReforward
<1>6. CASE CloseSubs(s) BY <1>6 DEF CloseSubs, ClosePeers
<1>7. CASE RemoveSubscribe(s) BY <1>7 DEF RemoveSubscribe
<1>8. CASE AnnounceSubscribeDown(s) BY <1>8 DEF AnnounceSubscribeDown
<1>9. CASE AnnounceReforwardDown(s) BY <1>9 DEF AnnounceReforwardDown
<1>. QED BY <1>1, <1>2, <1>3, <1>4, <1>5, <1>6, <1>7, <1>8, <1>9 DEF SubscribeStep

LEMMA ConnectionEnvironment ==
  ASSUME TypeOK, ConnectionInv,
         \/ \E p \in Peer : Negotiate(p) \/ Connect(p) \/ Fail(p) \/ CloseTask(p) \/ RemovePeer(p)
         \/ StreamDelete
         \/ PublishCheckTick \/ SubscribeCheckTick \/ CheckTickDelete
  PROVE  ConnectionInv'
<1> USE DEF TypeOK, ConnectionInv, Registered, Unborn, Goto, mgrVars, slotVars,
            groupVars, taskVars, outVars
<1>1. ASSUME NEW p \in Peer, Negotiate(p) PROVE ConnectionInv'
  BY <1>1 DEF Negotiate, ClosePeers
<1>2. ASSUME NEW p \in Peer, Connect(p) PROVE ConnectionInv'
  BY <1>2 DEF Connect
<1>3. ASSUME NEW p \in Peer, Fail(p) PROVE ConnectionInv'
  BY <1>3 DEF Fail
<1>4. ASSUME NEW p \in Peer, CloseTask(p) PROVE ConnectionInv'
  BY <1>4 DEF CloseTask, ClosePeers
<1>5. ASSUME NEW p \in Peer, RemovePeer(p) PROVE ConnectionInv'
  BY <1>5 DEF RemovePeer, ClosePeers
<1>6. CASE StreamDelete BY <1>6 DEF StreamDelete, CloseAll, ClosePeers
<1>7. CASE PublishCheckTick BY <1>7 DEF PublishCheckTick
<1>8. CASE SubscribeCheckTick BY <1>8 DEF SubscribeCheckTick
<1>9. CASE CheckTickDelete BY <1>9 DEF CheckTickDelete, CloseAll, ClosePeers
<1>. QED BY <1>1, <1>2, <1>3, <1>4, <1>5, <1>6, <1>7, <1>8, <1>9

LEMMA ConnectionInvariant == Spec => []ConnectionInv
<1>1. TypeOK /\ ConnectionInv /\ [Next]_vars => ConnectionInv'
  <2> SUFFICES ASSUME TypeOK, ConnectionInv, [Next]_vars PROVE ConnectionInv'
    OBVIOUS
  <2>1. CASE Next
    BY <2>1, ConnectionPublish, ConnectionSubscribe, ConnectionEnvironment DEF Next
  <2>2. CASE UNCHANGED vars
    BY <2>2 DEF vars, ConnectionInv, Registered
  <2>. QED BY <2>1, <2>2
<1>. QED BY <1>1, ConnectionInit, TypeCorrect, PTL DEF Spec

--------------------------------------------------------------------------------
(* The publish slot implements PublishSlot.                                *)

SlotHeld == Registered \cap Publisher
SlotClosed == {p \in Publisher : conn[p] = "closed"}

\* A step that changes neither the slot nor who has had it, and closes at most
\* one publisher, is a step of PublishSlot or a stutter.
LEMMA SlotCloses ==
  ASSUME NEW p, TypeOK, publish' = publish, SlotHeld' = SlotHeld,
         SlotClosed' = SlotClosed \cup ({p} \cap Publisher)
  PROVE  [Slot!Next]_(Slot!vars)
<1>1. CASE p \in Publisher \ SlotClosed
  <2>1. Slot!CloseSession(p)
    BY <1>1 DEF Slot!CloseSession, SlotHeld, SlotClosed
  <2>. QED BY <1>1, <2>1 DEF Slot!Next
<1>2. CASE p \notin Publisher \ SlotClosed
  <2>1. SlotClosed' = SlotClosed
    BY <1>2
  <2>. QED BY <2>1 DEF Slot!vars, SlotHeld, SlotClosed
<1>. QED BY <1>1, <1>2

\* The peers that a step closes are the publishers among them.
LEMMA ClosePeersSlot ==
  ASSUME NEW ps, NEW p, TypeOK, ClosePeers(ps), ps \cap Publisher \subseteq {p},
         {p} \cap Publisher \subseteq ps, UNCHANGED <<publish, request>>
  PROVE  [Slot!Next]_(Slot!vars)
<1>1. SlotClosed' = SlotClosed \cup ({p} \cap Publisher)
  BY DEF ClosePeers, SlotClosed, TypeOK
<1>. QED BY <1>1, SlotCloses DEF SlotHeld, Registered

LEMMA SlotPublish ==
  ASSUME NEW p \in Publisher, TypeOK, ConnectionInv,
         PublishRequest(p) \/ PublishStep(p) \/ OnTrack(p)
  PROVE  [Slot!Next]_(Slot!vars)
<1> USE DEF TypeOK, Goto, Registered, mgrVars, slotVars, groupVars, taskVars, outVars
<1>1. CASE SetPublish(p)
  <2>1. CASE publish' = publish
    BY <1>1, <2>1 DEF SetPublish, Slot!vars
  <2>2. CASE publish' # publish
    <3>1. Slot!Take(p)
      BY <1>1, <2>2 DEF SetPublish, Slot!Take
    <3>. QED BY <3>1 DEF Slot!Next
  <2>. QED BY <2>1, <2>2
<1>2. CASE RemovePublish(p)
  <2>1. CASE publish # p
    BY <1>2, <2>1 DEF RemovePublish, Slot!vars
  <2>2. CASE publish = p
    <3>1. Slot!Leave(p)
      BY <1>2, <2>2 DEF RemovePublish, ConnectionInv, Slot!Leave
    <3>. QED BY <3>1 DEF Slot!Next
  <2>. QED BY <2>1, <2>2
<1>3. CASE NewPublishPeer(p)
  BY <1>3 DEF NewPublishPeer, ConnectionInv, Unborn, Slot!vars
<1>4. CASE PublishRequest(p) BY <1>4 DEF PublishRequest, Makes, Slot!vars
<1>5. CASE SetPublishLeaveAt(p) BY <1>5 DEF SetPublishLeaveAt, Slot!vars
<1>6. CASE AnnouncePublish(p) BY <1>6 DEF AnnouncePublish, Slot!vars
<1>7. CASE RemovePublishTracks(p) BY <1>7 DEF RemovePublishTracks, Slot!vars
<1>8. CASE RemovePublishLeaveAt(p) BY <1>8 DEF RemovePublishLeaveAt, Slot!vars
<1>9. CASE AnnouncePublishDown(p) BY <1>9 DEF AnnouncePublishDown, Slot!vars
<1>10. CASE PublishTrackUp(p) BY <1>10 DEF PublishTrackUp, Slot!vars
<1>11. CASE OnTrack(p) BY <1>11 DEF OnTrack, Slot!vars
<1>. QED BY <1>1, <1>2, <1>3, <1>4, <1>5, <1>6, <1>7, <1>8, <1>9, <1>10, <1>11
         DEF PublishStep

LEMMA SlotSubscribe ==
  ASSUME NEW s \in Subscriber, TypeOK, NewSubscriptionPeer(s) \/ SubscribeStep(s)
  PROVE  [Slot!Next]_(Slot!vars)
<1> USE DEF mgrVars, slotVars, groupVars, taskVars, outVars
<1>1. /\ publish' = publish
      /\ \A p \in Publisher : request'[p] = request[p]
  BY DEF TypeOK, Goto, NewSubscriptionPeer, SubscribeStep, AddSubscribe,
         AddSubscribeLeaveAt, AnnounceSubscribe, AnnounceReforward, CloseSubs,
         RemoveSubscribe, AnnounceSubscribeDown, AnnounceReforwardDown
<1>2. \A p \in Publisher : conn'[p] = conn[p]
  BY DEF TypeOK, ClosePeers, NewSubscriptionPeer, SubscribeStep, AddSubscribe,
         AddSubscribeLeaveAt, AnnounceSubscribe, AnnounceReforward, CloseSubs,
         RemoveSubscribe, AnnounceSubscribeDown, AnnounceReforwardDown
<1>. QED BY <1>1, <1>2 DEF Slot!vars, Registered

LEMMA SlotEnvironment ==
  ASSUME TypeOK, ConnectionInv,
         \/ \E p \in Peer : Negotiate(p) \/ Connect(p) \/ Fail(p) \/ CloseTask(p) \/ RemovePeer(p)
         \/ StreamDelete
         \/ PublishCheckTick \/ SubscribeCheckTick \/ CheckTickDelete
  PROVE  [Slot!Next]_(Slot!vars)
<1> USE DEF mgrVars, slotVars, groupVars, taskVars, outVars
<1>1. ASSUME NEW p \in Peer, Negotiate(p) PROVE [Slot!Next]_(Slot!vars)
  <2>1. publish' = publish /\ SlotHeld' = SlotHeld
    BY <1>1 DEF Negotiate, Goto, TypeOK, SlotHeld, Registered
  <2>2. CASE UNCHANGED conn
    BY <2>1, <2>2 DEF Slot!vars, SlotHeld
  <2>3. ASSUME NEW ps \in SUBSET ({p} \cap Cascade), ClosePeers(ps)
        PROVE  [Slot!Next]_(Slot!vars)
    <3>1. \E q : SlotClosed' = SlotClosed \cup ({q} \cap Publisher)
      <4>1. CASE p \in ps
        <5>1. SlotClosed' = SlotClosed \cup ({p} \cap Publisher)
          BY <2>3, <4>1 DEF ClosePeers, SlotClosed, TypeOK
        <5>. QED BY <5>1
      <4>2. CASE p \notin ps
        <5>1. SlotClosed' = SlotClosed \cup ({None} \cap Publisher)
          BY <2>3, <4>2 DEF ClosePeers, SlotClosed, TypeOK
        <5>. QED BY <5>1
      <4>. QED BY <4>1, <4>2
    <3>. QED BY <2>1, <3>1, SlotCloses
  <2>. QED BY <1>1, <2>2, <2>3 DEF Negotiate
<1>2. ASSUME NEW p \in Peer, Connect(p) PROVE [Slot!Next]_(Slot!vars)
  BY <1>2 DEF Connect, TypeOK, Slot!vars, Registered
<1>3. ASSUME NEW p \in Peer, Fail(p) PROVE [Slot!Next]_(Slot!vars)
  BY <1>3 DEF Fail, TypeOK, Slot!vars, Registered
<1>4. ASSUME NEW p \in Peer, CloseTask(p) PROVE [Slot!Next]_(Slot!vars)
  BY <1>4, ClosePeersSlot DEF CloseTask
<1>5. ASSUME NEW p \in Peer, RemovePeer(p) PROVE [Slot!Next]_(Slot!vars)
  BY <1>5, ClosePeersSlot DEF RemovePeer
<1>6. ASSUME StreamDelete \/ CheckTickDelete PROVE [Slot!Next]_(Slot!vars)
  <2>1. PICK some \in SUBSET subscribe_group : ClosePeers(some \cup ({publish} \ {None}))
    BY <1>6 DEF StreamDelete, CheckTickDelete, CloseAll
  <2>2. UNCHANGED <<publish, request>>
    BY <1>6 DEF StreamDelete, CheckTickDelete
  <2>3. (some \cup ({publish} \ {None})) \cap Publisher = {publish} \cap Publisher
    BY <2>1 DEF TypeOK
  <2>. QED BY <2>1, <2>2, <2>3, ClosePeersSlot
<1>7. ASSUME PublishCheckTick \/ SubscribeCheckTick PROVE [Slot!Next]_(Slot!vars)
  BY <1>7 DEF PublishCheckTick, SubscribeCheckTick, Slot!vars, Registered
<1>. QED BY <1>1, <1>2, <1>3, <1>4, <1>5, <1>6, <1>7

\* For any number of publishers, the slot of a stream is what PublishSlot says,
\* however requests, callbacks, deletions and ticks interleave.
THEOREM SlotCorrect == Spec => SlotSpec
<1>1. Init => Slot!Init
  BY DEF Init, Slot!Init, Registered
<1>2. TypeOK /\ ConnectionInv /\ [Next]_vars => [Slot!Next]_(Slot!vars)
  <2> SUFFICES ASSUME TypeOK, ConnectionInv, [Next]_vars PROVE [Slot!Next]_(Slot!vars)
    OBVIOUS
  <2>1. CASE Next
    BY <2>1, SlotPublish, SlotSubscribe, SlotEnvironment DEF Next
  <2>2. CASE UNCHANGED vars
    BY <2>2 DEF vars, Slot!vars, Registered
  <2>. QED BY <2>1, <2>2
<1>. QED BY <1>1, <1>2, TypeCorrect, ConnectionInvariant, PTL DEF Spec, SlotSpec, Slot!Spec

--------------------------------------------------------------------------------
(* The events that have been sent say who is there.                        *)

\* Where the request and the removal task of a publisher are decides which of
\* its events have been sent.  A removal task that found the slot taken by
\* somebody else, or empty, is done without having sent anything.
PublishEvents(p) ==
  /\ <<"PublishUp", p>> \in sent <=> request[p] = "done"
  /\ publish = p => /\ request[p] \in {"registered", "announce", "done"}
                    /\ removal[p] \in {"none", "remove", "done"}
                    /\ <<"PublishDown", p>> \notin sent
  /\ publish # p /\ p \in Registered =>
       \/ removal[p] \in {"clear", "stamp", "announce"} /\ <<"PublishDown", p>> \notin sent
       \/ removal[p] = "done" /\ <<"PublishDown", p>> \in sent
  /\ p \notin Registered => removal[p] \in {"none", "remove", "done"}
                            /\ <<"PublishDown", p>> \notin sent
  /\ <<"SubscribeUp", p>> \notin sent
  /\ <<"ReforwardUp", p>> \notin sent

SubscribeEvents(s) ==
  /\ <<"SubscribeUp", s>> \in sent <=> request[s] \in {"reforward", "close_subs", "done"}
  /\ <<"ReforwardUp", s>> \in sent <=> s \in Cascade /\ request[s] \in {"close_subs", "done"}
  /\ request[s] = "reforward" => s \in Cascade
  /\ removal[s] = "reforward" => s \in Cascade
  /\ s \in subscribe_group \/ s \notin Registered =>
       /\ removal[s] \in {"none", "remove", "done"}
       /\ <<"SubscribeDown", s>> \notin sent
       /\ <<"ReforwardDown", s>> \notin sent
  /\ s \notin subscribe_group /\ s \in Registered =>
       /\ removal[s] \in {"announce", "reforward", "done"}
       /\ <<"SubscribeDown", s>> \in sent <=> removal[s] \in {"reforward", "done"}
       /\ <<"ReforwardDown", s>> \in sent <=> s \in Cascade /\ removal[s] = "done"
  /\ <<"PublishUp", s>> \notin sent

EventsOf(q) ==
  /\ q \in Publisher => PublishEvents(q)
  /\ q \in Subscriber => SubscribeEvents(q)

EventInv == \A q \in Peer : EventsOf(q)

\* What a step may do to a peer without disturbing EventsOf: move its request
\* within its early part, end it after the closing of the subscribers, and
\* spawn its removal task.
Early == {"idle", "checked", "negotiating", "negotiated", "failed"}

Same(q) ==
  /\ \/ request'[q] = request[q]
     \/ request[q] \in Early /\ request'[q] \in Early
     \/ q \in Subscriber /\ request[q] = "close_subs" /\ request'[q] = "done"
  /\ \/ removal'[q] = removal[q]
     \/ removal[q] = "none" /\ removal'[q] = "remove"
  /\ publish' = q <=> publish = q
  /\ q \in subscribe_group' <=> q \in subscribe_group
  /\ \A e \in EventType : <<e, q>> \in sent' <=> <<e, q>> \in sent

LEMMA SameEvents ==
  ASSUME NEW q \in Peer, EventsOf(q), Same(q)
  PROVE  EventsOf(q)'
<1>1. ASSUME q \in Publisher PROVE PublishEvents(q)'
  BY <1>1 DEF EventsOf, Same, Early, PublishEvents, Registered, EventType
<1>2. ASSUME q \in Subscriber PROVE SubscribeEvents(q)'
  BY <1>2 DEF EventsOf, Same, Early, SubscribeEvents, Registered, EventType
<1>. QED BY <1>1, <1>2 DEF EventsOf

\* A step of p alone.
LEMMA EventStep ==
  ASSUME EventInv, NEW p \in Peer, \A q \in Peer \ {p} : Same(q), EventsOf(p)'
  PROVE  EventInv'
<1>1. ASSUME NEW q \in Peer PROVE EventsOf(q)'
  BY SameEvents DEF EventInv
<1>. QED BY <1>1 DEF EventInv

LEMMA SentOne ==
  ASSUME NEW e, NEW p, sent' = sent \cup {<<e, p>>}
  PROVE  \A f, q : <<f, q>> \in sent' <=> <<f, q>> \in sent \/ (f = e /\ q = p)
OBVIOUS

LEMMA EventInit == Init => EventInv
<1> SUFFICES ASSUME Init, NEW q \in Peer PROVE EventsOf(q)
  BY DEF EventInv
<1>. QED BY DEF Init, EventsOf, PublishEvents, SubscribeEvents, Registered

LEMMA EventPublish ==
  ASSUME NEW p \in Publisher, TypeOK, EventInv,
         PublishRequest(p) \/ PublishStep(p) \/ OnTrack(p)
  PROVE  EventInv'
<1> USE DEF mgrVars, slotVars, groupVars, taskVars, outVars
<1>0. PublishEvents(p)
  BY DEF EventInv, EventsOf
<1>1. CASE PublishRequest(p)
  <2>1. \A q \in Peer : Same(q)
    BY <1>1 DEF TypeOK, Goto, Same, Early, PublishRequest, Makes
  <2>. QED BY <2>1, SameEvents DEF EventInv
<1>2. CASE NewPublishPeer(p)
  <2>1. \A q \in Peer : Same(q)
    BY <1>2 DEF TypeOK, Goto, Same, Early, NewPublishPeer
  <2>. QED BY <2>1, SameEvents DEF EventInv
<1>3. CASE SetPublish(p)
  <2>2. \A q \in Peer \ {p} : Same(q)
    BY <1>3 DEF TypeOK, Goto, SetPublish, Same
  <2>3. PublishEvents(p)'
    BY <1>0, <1>3 DEF TypeOK, Goto, SetPublish, PublishEvents, Registered
  <2>. QED BY <2>2, <2>3, EventStep DEF EventsOf
<1>4. CASE SetPublishLeaveAt(p)
  <2>2. \A q \in Peer \ {p} : Same(q)
    BY <1>4 DEF TypeOK, Goto, SetPublishLeaveAt, Same
  <2>3. PublishEvents(p)'
    BY <1>0, <1>4 DEF TypeOK, Goto, SetPublishLeaveAt, PublishEvents, Registered
  <2>. QED BY <2>2, <2>3, EventStep DEF EventsOf
<1>5. CASE AnnouncePublish(p)
  <2>1. \A f, q : <<f, q>> \in sent' <=> <<f, q>> \in sent \/ (f = "PublishUp" /\ q = p)
    BY <1>5, SentOne DEF AnnouncePublish
  <2>2. \A q \in Peer \ {p} : Same(q)
    BY <1>5, <2>1 DEF TypeOK, Goto, AnnouncePublish, Same
  <2>3. PublishEvents(p)'
    BY <1>0, <1>5, <2>1 DEF TypeOK, Goto, AnnouncePublish, PublishEvents, Registered
  <2>. QED BY <2>2, <2>3, EventStep DEF EventsOf
<1>6. CASE RemovePublish(p)
  <2>2. \A q \in Peer \ {p} : Same(q)
    BY <1>6 DEF TypeOK, Goto, RemovePublish, Same
  <2>3. PublishEvents(p)'
    BY <1>0, <1>6 DEF TypeOK, Goto, RemovePublish, PublishEvents, Registered
  <2>. QED BY <2>2, <2>3, EventStep DEF EventsOf
<1>7. CASE RemovePublishTracks(p)
  <2>2. \A q \in Peer \ {p} : Same(q)
    BY <1>7 DEF TypeOK, Goto, RemovePublishTracks, Same
  <2>3. PublishEvents(p)'
    BY <1>0, <1>7 DEF TypeOK, Goto, RemovePublishTracks, PublishEvents, Registered
  <2>. QED BY <2>2, <2>3, EventStep DEF EventsOf
<1>8. CASE RemovePublishLeaveAt(p)
  <2>2. \A q \in Peer \ {p} : Same(q)
    BY <1>8 DEF TypeOK, Goto, RemovePublishLeaveAt, Same
  <2>3. PublishEvents(p)'
    BY <1>0, <1>8 DEF TypeOK, Goto, RemovePublishLeaveAt, PublishEvents, Registered
  <2>. QED BY <2>2, <2>3, EventStep DEF EventsOf
<1>9. CASE AnnouncePublishDown(p)
  <2>1. \A f, q : <<f, q>> \in sent' <=> <<f, q>> \in sent \/ (f = "PublishDown" /\ q = p)
    BY <1>9, SentOne DEF AnnouncePublishDown
  <2>2. \A q \in Peer \ {p} : Same(q)
    BY <1>9, <2>1 DEF TypeOK, Goto, AnnouncePublishDown, Same
  <2>3. PublishEvents(p)'
    BY <1>0, <1>9, <2>1 DEF TypeOK, Goto, AnnouncePublishDown, PublishEvents, Registered
  <2>. QED BY <2>2, <2>3, EventStep DEF EventsOf
<1>10. CASE PublishTrackUp(p)
  <2>1. \A q \in Peer : Same(q)
    BY <1>10 DEF TypeOK, Goto, Same, Early, PublishTrackUp
  <2>. QED BY <2>1, SameEvents DEF EventInv
<1>11. CASE OnTrack(p)
  <2>1. \A q \in Peer : Same(q)
    BY <1>11 DEF TypeOK, Goto, Same, Early, OnTrack
  <2>. QED BY <2>1, SameEvents DEF EventInv
<1>. QED BY <1>1, <1>2, <1>3, <1>4, <1>5, <1>6, <1>7, <1>8, <1>9, <1>10, <1>11
         DEF PublishStep

LEMMA EventSubscribe ==
  ASSUME NEW s \in Subscriber, TypeOK, ConnectionInv, EventInv,
         NewSubscriptionPeer(s) \/ SubscribeStep(s)
  PROVE  EventInv'
<1> USE DEF mgrVars, slotVars, groupVars, taskVars, outVars
<1>0. SubscribeEvents(s)
  BY DEF EventInv, EventsOf
<1>1. CASE NewSubscriptionPeer(s)
  <2>1. \A q \in Peer : Same(q)
    BY <1>1 DEF TypeOK, Goto, Same, Early, NewSubscriptionPeer, Makes
  <2>. QED BY <2>1, SameEvents DEF EventInv
<1>2. CASE AddSubscribe(s)
  <2>2. \A q \in Peer \ {s} : Same(q)
    BY <1>2 DEF TypeOK, Goto, AddSubscribe, Same
  <2>3. SubscribeEvents(s)'
    BY <1>0, <1>2 DEF TypeOK, Goto, AddSubscribe, SubscribeEvents, Registered
  <2>. QED BY <2>2, <2>3, EventStep DEF EventsOf
<1>3. CASE AddSubscribeLeaveAt(s)
  <2>2. \A q \in Peer \ {s} : Same(q)
    BY <1>3 DEF TypeOK, Goto, AddSubscribeLeaveAt, Same
  <2>3. SubscribeEvents(s)'
    BY <1>0, <1>3 DEF TypeOK, Goto, AddSubscribeLeaveAt, SubscribeEvents, Registered
  <2>. QED BY <2>2, <2>3, EventStep DEF EventsOf
<1>4. CASE AnnounceSubscribe(s)
  <2>1. \A f, q : <<f, q>> \in sent' <=> <<f, q>> \in sent \/ (f = "SubscribeUp" /\ q = s)
    BY <1>4, SentOne DEF AnnounceSubscribe
  <2>2. \A q \in Peer \ {s} : Same(q)
    BY <1>4, <2>1 DEF TypeOK, Goto, AnnounceSubscribe, Same
  <2>3. SubscribeEvents(s)'
    BY <1>0, <1>4, <2>1 DEF TypeOK, Goto, AnnounceSubscribe, SubscribeEvents, Registered
  <2>. QED BY <2>2, <2>3, EventStep DEF EventsOf
<1>5. CASE AnnounceReforward(s)
  <2>1. \A f, q : <<f, q>> \in sent' <=> <<f, q>> \in sent \/ (f = "ReforwardUp" /\ q = s)
    BY <1>5, SentOne DEF AnnounceReforward
  <2>2. \A q \in Peer \ {s} : Same(q)
    BY <1>5, <2>1 DEF TypeOK, Goto, AnnounceReforward, Same
  <2>3. SubscribeEvents(s)'
    BY <1>0, <1>5, <2>1 DEF TypeOK, Goto, AnnounceReforward, SubscribeEvents, Registered
  <2>. QED BY <2>2, <2>3, EventStep DEF EventsOf
<1>6. CASE CloseSubs(s)
  <2>1. \A q \in Peer : Same(q)
    BY <1>6 DEF TypeOK, Goto, Same, Early, CloseSubs, ClosePeers, ConnectionInv
  <2>. QED BY <2>1, SameEvents DEF EventInv
<1>7. CASE RemoveSubscribe(s)
  <2>2. \A q \in Peer \ {s} : Same(q)
    BY <1>7 DEF TypeOK, Goto, RemoveSubscribe, Same
  <2>3. SubscribeEvents(s)'
    <3>1. CASE s \in subscribe_group
      BY <1>0, <1>7, <3>1 DEF TypeOK, RemoveSubscribe, SubscribeEvents, ConnectionInv, Registered
    <3>2. CASE s \notin subscribe_group
      BY <1>0, <1>7, <3>2 DEF TypeOK, RemoveSubscribe, SubscribeEvents, Registered
    <3>. QED BY <3>1, <3>2
  <2>. QED BY <2>2, <2>3, EventStep DEF EventsOf
<1>8. CASE AnnounceSubscribeDown(s)
  <2>1. \A f, q : <<f, q>> \in sent' <=> <<f, q>> \in sent \/ (f = "SubscribeDown" /\ q = s)
    BY <1>8, SentOne DEF AnnounceSubscribeDown
  <2>2. \A q \in Peer \ {s} : Same(q)
    BY <1>8, <2>1 DEF TypeOK, Goto, AnnounceSubscribeDown, Same
  <2>3. SubscribeEvents(s)'
    BY <1>0, <1>8, <2>1 DEF TypeOK, Goto, AnnounceSubscribeDown, SubscribeEvents, Registered
  <2>. QED BY <2>2, <2>3, EventStep DEF EventsOf
<1>9. CASE AnnounceReforwardDown(s)
  <2>1. \A f, q : <<f, q>> \in sent' <=> <<f, q>> \in sent \/ (f = "ReforwardDown" /\ q = s)
    BY <1>9, SentOne DEF AnnounceReforwardDown
  <2>2. \A q \in Peer \ {s} : Same(q)
    BY <1>9, <2>1 DEF TypeOK, Goto, AnnounceReforwardDown, Same
  <2>3. SubscribeEvents(s)'
    BY <1>0, <1>9, <2>1 DEF TypeOK, Goto, AnnounceReforwardDown, SubscribeEvents, Registered
  <2>. QED BY <2>2, <2>3, EventStep DEF EventsOf
<1>. QED BY <1>1, <1>2, <1>3, <1>4, <1>5, <1>6, <1>7, <1>8, <1>9 DEF SubscribeStep

LEMMA EventEnvironment ==
  ASSUME TypeOK, ConnectionInv, EventInv,
         \/ \E p \in Peer : Negotiate(p) \/ Connect(p) \/ Fail(p) \/ CloseTask(p) \/ RemovePeer(p)
         \/ StreamDelete
         \/ PublishCheckTick \/ SubscribeCheckTick \/ CheckTickDelete
  PROVE  EventInv'
<1> SUFFICES \A q \in Peer : Same(q)
  BY SameEvents DEF EventInv
<1> USE DEF TypeOK, ConnectionInv, Same, Early, Goto, mgrVars, slotVars, groupVars,
            taskVars, outVars
<1>1. ASSUME NEW p \in Peer, Negotiate(p) PROVE \A q \in Peer : Same(q)
  BY <1>1 DEF Negotiate, ClosePeers
<1>2. ASSUME NEW p \in Peer, Connect(p) PROVE \A q \in Peer : Same(q)
  BY <1>2 DEF Connect
<1>3. ASSUME NEW p \in Peer, Fail(p) PROVE \A q \in Peer : Same(q)
  BY <1>3 DEF Fail
<1>4. ASSUME NEW p \in Peer, CloseTask(p) PROVE \A q \in Peer : Same(q)
  BY <1>4 DEF CloseTask, ClosePeers
<1>5. ASSUME NEW p \in Peer, RemovePeer(p) PROVE \A q \in Peer : Same(q)
  BY <1>5 DEF RemovePeer, ClosePeers
<1>6. CASE StreamDelete BY <1>6 DEF StreamDelete, CloseAll, ClosePeers
<1>7. CASE PublishCheckTick BY <1>7 DEF PublishCheckTick
<1>8. CASE SubscribeCheckTick BY <1>8 DEF SubscribeCheckTick
<1>9. CASE CheckTickDelete BY <1>9 DEF CheckTickDelete, CloseAll, ClosePeers
<1>. QED BY <1>1, <1>2, <1>3, <1>4, <1>5, <1>6, <1>7, <1>8, <1>9

LEMMA EventInvariant == Spec => []EventInv
<1>1. TypeOK /\ ConnectionInv /\ EventInv /\ [Next]_vars => EventInv'
  <2> SUFFICES ASSUME TypeOK, ConnectionInv, EventInv, [Next]_vars PROVE EventInv'
    OBVIOUS
  <2>1. CASE Next
    BY <2>1, EventPublish, EventSubscribe, EventEnvironment DEF Next
  <2>2. CASE UNCHANGED vars
    <3>1. \A q \in Peer : Same(q)
      BY <2>2 DEF vars, Same
    <3>. QED BY <3>1, SameEvents DEF EventInv
  <2>. QED BY <2>1, <2>2
<1>. QED BY <1>1, EventInit, TypeCorrect, ConnectionInvariant, PTL DEF Spec

\* Whenever no join and no removal is under way, the Up events without a Down
\* are exactly the sessions of the stream, for any number of sessions.
THEOREM EventsCorrect == Spec => []EventsMatchSessions
<1>1. TypeOK /\ ConnectionInv /\ EventInv => EventsMatchSessions
  <2> SUFFICES ASSUME TypeOK, ConnectionInv, EventInv PROVE EventsMatchSessions
    OBVIOUS
  <2>0. \A q \in Peer : EventsOf(q)
    BY DEF EventInv
  <2>1. ASSUME Quiet(Publisher)
        PROVE  Up("PublishUp", "PublishDown") = {publish} \ {None}
    <3>1. ASSUME NEW q \in Peer
          PROVE  <<"PublishUp", q>> \in sent /\ <<"PublishDown", q>> \notin sent <=> publish = q
      BY <2>0, <2>1 DEF TypeOK, EventsOf, PublishEvents, SubscribeEvents, Quiet, Registered
    <3>. QED BY <3>1 DEF Up, TypeOK
  <2>2. ASSUME Quiet(Subscriber)
        PROVE  /\ Up("SubscribeUp", "SubscribeDown") = subscribe_group
               /\ Up("ReforwardUp", "ReforwardDown") = subscribe_group \cap Cascade
    <3>1. ASSUME NEW q \in Peer
          PROVE  /\ <<"SubscribeUp", q>> \in sent /\ <<"SubscribeDown", q>> \notin sent
                      <=> q \in subscribe_group
                 /\ <<"ReforwardUp", q>> \in sent /\ <<"ReforwardDown", q>> \notin sent
                      <=> q \in subscribe_group \cap Cascade
      BY <2>0, <2>2 DEF TypeOK, ConnectionInv, EventsOf, PublishEvents, SubscribeEvents,
                        Quiet, Registered
    <3>. QED BY <3>1 DEF Up, TypeOK
  <2>. QED BY <2>1, <2>2 DEF EventsMatchSessions
<1>. QED BY <1>1, TypeCorrect, ConnectionInvariant, EventInvariant, PTL

--------------------------------------------------------------------------------
(* The metric gauges.                                                      *)

\* The sets that the gauges are compared with are finite.
LEMMA FiniteSessions ==
  ASSUME TypeOK
  PROVE  /\ IsFiniteSet(PublishJoining) /\ IsFiniteSet(PublishLeaving)
         /\ IsFiniteSet(SubscribeJoining) /\ IsFiniteSet(PushJoining)
         /\ IsFiniteSet(subscribe_group) /\ IsFiniteSet(subscribe_group \cap Cascade)
<1>1. /\ PublishJoining \subseteq Publisher /\ PublishLeaving \subseteq Publisher
      /\ SubscribeJoining \subseteq Subscriber /\ PushJoining \subseteq Subscriber
      /\ subscribe_group \subseteq Subscriber
      /\ subscribe_group \cap Cascade \subseteq Subscriber
  BY DEF PublishJoining, PublishLeaving, SubscribeJoining, PushJoining, TypeOK
<1>. QED BY <1>1, FinitePeers, FS_Subset

LEMMA AddOne ==
  ASSUME NEW S, IsFiniteSet(S), NEW x, x \notin S
  PROVE  Cardinality(S) \in Nat /\ Cardinality(S \cup {x}) = Cardinality(S) + 1
BY FS_AddElement, FS_CardinalityType

LEMMA RemoveOne ==
  ASSUME NEW S, IsFiniteSet(S), NEW x \in S
  PROVE  Cardinality(S) \in Nat /\ Cardinality(S \ {x}) = Cardinality(S) - 1
BY FS_RemoveElement, FS_CardinalityType

\* A step that leaves these alone for the sessions of one kind keeps the gauges
\* of that kind.
LEMMA PublishGaugeFrame ==
  ASSUME PublishGauge, publish' = publish, gauge'["PUBLISH"] = gauge["PUBLISH"],
         PublishJoining' = PublishJoining, PublishLeaving' = PublishLeaving
  PROVE  PublishGauge'
BY DEF PublishGauge

LEMMA GroupGaugesFrame ==
  ASSUME SubscribeGauge, ReforwardGauge, subscribe_group' = subscribe_group,
         gauge'["SUBSCRIBE"] = gauge["SUBSCRIBE"], gauge'["REFORWARD"] = gauge["REFORWARD"],
         SubscribeJoining' = SubscribeJoining, PushJoining' = PushJoining
  PROVE  SubscribeGauge' /\ ReforwardGauge'
BY DEF SubscribeGauge, ReforwardGauge

LEMMA PublishGaugeSteps ==
  ASSUME NEW p \in Publisher, TypeOK, PublishGauge,
         PublishRequest(p) \/ PublishStep(p) \/ OnTrack(p)
  PROVE  PublishGauge'
<1> USE DEF TypeOK, Goto, mgrVars, slotVars, groupVars, taskVars, outVars
<1>0. /\ Cardinality(PublishJoining) \in Nat /\ Cardinality(PublishLeaving) \in Nat
      /\ \A q \in Publisher : q # None
      /\ {None} \ {None} = {} /\ \A q \in Publisher : {q} \ {None} = {q}
  BY FiniteSessions, FS_CardinalityType
<1>1. CASE SetPublish(p)
  <2>1. CASE publish' = publish
    BY <1>1, <2>1, PublishGaugeFrame DEF SetPublish, PublishJoining, PublishLeaving
  <2>2. CASE publish' # publish
    <3>1. /\ publish = None /\ publish' = p /\ gauge' = gauge
          /\ PublishJoining' = PublishJoining \cup {p} /\ p \notin PublishJoining
          /\ PublishLeaving' = PublishLeaving
      BY <1>1, <2>2 DEF SetPublish, PublishJoining, PublishLeaving
    <3>2. Cardinality(PublishJoining') = Cardinality(PublishJoining) + 1
      BY <3>1, FiniteSessions, AddOne
    <3>3. {publish} \ {None} = {} /\ {publish'} \ {None} = {p}
      BY <1>0, <3>1
    <3>4. Cardinality({publish} \ {None}) = 0 /\ Cardinality({publish'} \ {None}) = 1
      BY <3>3, FS_EmptySet, FS_Singleton
    <3>. QED BY <1>0, <3>1, <3>2, <3>4 DEF PublishGauge
  <2>. QED BY <2>1, <2>2
<1>2. CASE AnnouncePublish(p)
  <2>1. /\ publish' = publish /\ gauge'["PUBLISH"] = gauge["PUBLISH"] + 1
        /\ PublishJoining' = PublishJoining \ {p} /\ p \in PublishJoining
        /\ PublishLeaving' = PublishLeaving
    BY <1>2 DEF AnnouncePublish, PublishJoining, PublishLeaving
  <2>2. Cardinality(PublishJoining') = Cardinality(PublishJoining) - 1
    BY <2>1, FiniteSessions, RemoveOne
  <2>3. IsFiniteSet({publish} \ {None})
    BY FS_Singleton, FS_RemoveElement
  <2>4. Cardinality({publish} \ {None}) \in Nat
    BY <2>3, FS_CardinalityType
  <2>. QED BY <1>0, <2>1, <2>2, <2>4 DEF PublishGauge
<1>3. CASE RemovePublish(p)
  <2>1. CASE publish # p
    BY <1>3, <2>1, PublishGaugeFrame DEF RemovePublish, PublishJoining, PublishLeaving
  <2>2. CASE publish = p
    <3>1. /\ publish' = None /\ gauge' = gauge
          /\ PublishJoining' = PublishJoining
          /\ PublishLeaving' = PublishLeaving \cup {p} /\ p \notin PublishLeaving
      BY <1>3, <2>2 DEF RemovePublish, PublishJoining, PublishLeaving
    <3>2. Cardinality(PublishLeaving') = Cardinality(PublishLeaving) + 1
      BY <3>1, FiniteSessions, AddOne
    <3>3. {publish} \ {None} = {p} /\ {publish'} \ {None} = {}
      BY <1>0, <2>2, <3>1
    <3>4. Cardinality({publish} \ {None}) = 1 /\ Cardinality({publish'} \ {None}) = 0
      BY <3>3, FS_EmptySet, FS_Singleton
    <3>. QED BY <1>0, <3>1, <3>2, <3>4 DEF PublishGauge
  <2>. QED BY <2>1, <2>2
<1>4. CASE AnnouncePublishDown(p)
  <2>1. /\ publish' = publish /\ gauge'["PUBLISH"] = gauge["PUBLISH"] - 1
        /\ PublishJoining' = PublishJoining
        /\ PublishLeaving' = PublishLeaving \ {p} /\ p \in PublishLeaving
    BY <1>4 DEF AnnouncePublishDown, PublishJoining, PublishLeaving
  <2>2. Cardinality(PublishLeaving') = Cardinality(PublishLeaving) - 1
    BY <2>1, FiniteSessions, RemoveOne
  <2>3. IsFiniteSet({publish} \ {None})
    BY FS_Singleton, FS_RemoveElement
  <2>4. Cardinality({publish} \ {None}) \in Nat
    BY <2>3, FS_CardinalityType
  <2>. QED BY <1>0, <2>1, <2>2, <2>4 DEF PublishGauge
<1> USE PublishGaugeFrame DEF PublishJoining, PublishLeaving
<1>5. CASE PublishRequest(p) BY <1>5 DEF PublishRequest, Makes
<1>6. CASE NewPublishPeer(p) BY <1>6 DEF NewPublishPeer
<1>7. CASE SetPublishLeaveAt(p) BY <1>7 DEF SetPublishLeaveAt
<1>8. CASE RemovePublishTracks(p) BY <1>8 DEF RemovePublishTracks
<1>9. CASE RemovePublishLeaveAt(p) BY <1>9 DEF RemovePublishLeaveAt
<1>10. CASE PublishTrackUp(p) BY <1>10 DEF PublishTrackUp
<1>11. CASE OnTrack(p) BY <1>11 DEF OnTrack
<1>. QED BY <1>1, <1>2, <1>3, <1>4, <1>5, <1>6, <1>7, <1>8, <1>9, <1>10, <1>11
         DEF PublishStep

LEMMA GroupGaugesSteps ==
  ASSUME NEW s \in Subscriber, TypeOK, ConnectionInv, EventInv,
         SubscribeGauge, ReforwardGauge, NewSubscriptionPeer(s) \/ SubscribeStep(s)
  PROVE  SubscribeGauge' /\ ReforwardGauge'
<1> USE DEF TypeOK, Goto, mgrVars, slotVars, groupVars, taskVars, outVars
<1> DEFINE pushes == subscribe_group \cap Cascade
<1>0. /\ Cardinality(SubscribeJoining) \in Nat /\ Cardinality(PushJoining) \in Nat
      /\ Cardinality(subscribe_group) \in Nat /\ Cardinality(pushes) \in Nat
  BY FiniteSessions, FS_CardinalityType
<1>1. CASE AddSubscribe(s)
  <2>1. /\ gauge' = gauge
        /\ subscribe_group' = subscribe_group \cup {s} /\ s \notin subscribe_group
        /\ SubscribeJoining' = SubscribeJoining \cup {s} /\ s \notin SubscribeJoining
    BY <1>1 DEF AddSubscribe, SubscribeJoining, ConnectionInv, Registered
  <2>2. /\ Cardinality(subscribe_group') = Cardinality(subscribe_group) + 1
        /\ Cardinality(SubscribeJoining') = Cardinality(SubscribeJoining) + 1
    BY <2>1, FiniteSessions, AddOne
  <2>3. SubscribeGauge'
    BY <1>0, <2>1, <2>2 DEF SubscribeGauge
  <2>4. CASE s \in Cascade
    <3>1. /\ pushes' = pushes \cup {s} /\ s \notin pushes
          /\ PushJoining' = PushJoining \cup {s} /\ s \notin PushJoining
      BY <1>1, <2>1, <2>4 DEF AddSubscribe, PushJoining
    <3>2. /\ Cardinality(pushes') = Cardinality(pushes) + 1
          /\ Cardinality(PushJoining') = Cardinality(PushJoining) + 1
      BY <3>1, FiniteSessions, AddOne
    <3>. QED BY <1>0, <2>1, <2>3, <3>2 DEF ReforwardGauge
  <2>5. CASE s \notin Cascade
    <3>1. pushes' = pushes /\ PushJoining' = PushJoining
      BY <1>1, <2>1, <2>5 DEF AddSubscribe, PushJoining
    <3>. QED BY <2>1, <2>3, <3>1 DEF ReforwardGauge
  <2>. QED BY <2>4, <2>5
<1>2. CASE AnnounceSubscribe(s)
  <2>1. /\ gauge'["SUBSCRIBE"] = gauge["SUBSCRIBE"] + 1
        /\ gauge'["REFORWARD"] = gauge["REFORWARD"]
        /\ subscribe_group' = subscribe_group
        /\ SubscribeJoining' = SubscribeJoining \ {s} /\ s \in SubscribeJoining
        /\ PushJoining' = PushJoining
    BY <1>2 DEF AnnounceSubscribe, SubscribeJoining, PushJoining
  <2>2. Cardinality(SubscribeJoining') = Cardinality(SubscribeJoining) - 1
    BY <2>1, FiniteSessions, RemoveOne
  <2>. QED BY <1>0, <2>1, <2>2 DEF SubscribeGauge, ReforwardGauge
<1>3. CASE AnnounceReforward(s)
  <2>1. s \in Cascade
    BY <1>3 DEF AnnounceReforward, EventInv, EventsOf, SubscribeEvents
  <2>2. /\ gauge'["SUBSCRIBE"] = gauge["SUBSCRIBE"]
        /\ gauge'["REFORWARD"] = gauge["REFORWARD"] + 1
        /\ subscribe_group' = subscribe_group
        /\ SubscribeJoining' = SubscribeJoining
        /\ PushJoining' = PushJoining \ {s} /\ s \in PushJoining
    BY <1>3, <2>1 DEF AnnounceReforward, SubscribeJoining, PushJoining
  <2>3. Cardinality(PushJoining') = Cardinality(PushJoining) - 1
    BY <2>2, FiniteSessions, RemoveOne
  <2>. QED BY <1>0, <2>2, <2>3 DEF SubscribeGauge, ReforwardGauge
<1>4. CASE RemoveSubscribe(s)
  <2>0. SubscribeJoining' = SubscribeJoining /\ PushJoining' = PushJoining
    BY <1>4 DEF RemoveSubscribe, SubscribeJoining, PushJoining
  <2>1. CASE s \notin subscribe_group
    BY <1>4, <2>0, <2>1, GroupGaugesFrame DEF RemoveSubscribe
  <2>2. CASE s \in subscribe_group
    <3>1. /\ gauge'["SUBSCRIBE"] = gauge["SUBSCRIBE"] - 1
          /\ gauge'["REFORWARD"] = IF s \in Cascade THEN gauge["REFORWARD"] - 1
                                                    ELSE gauge["REFORWARD"]
          /\ subscribe_group' = subscribe_group \ {s}
      BY <1>4, <2>2 DEF RemoveSubscribe
    <3>2. Cardinality(subscribe_group') = Cardinality(subscribe_group) - 1
      BY <2>2, <3>1, FiniteSessions, RemoveOne
    <3>3. SubscribeGauge'
      BY <1>0, <2>0, <3>1, <3>2 DEF SubscribeGauge
    <3>4. CASE s \in Cascade
      <4>1. pushes' = pushes \ {s} /\ s \in pushes
        BY <2>2, <3>1, <3>4
      <4>2. Cardinality(pushes') = Cardinality(pushes) - 1
        BY <4>1, FiniteSessions, RemoveOne
      <4>. QED BY <1>0, <2>0, <3>1, <3>3, <3>4, <4>2 DEF ReforwardGauge
    <3>5. CASE s \notin Cascade
      <4>1. pushes' = pushes
        BY <3>1, <3>5
      <4>. QED BY <2>0, <3>1, <3>3, <3>5, <4>1 DEF ReforwardGauge
    <3>. QED BY <3>4, <3>5
  <2>. QED BY <2>1, <2>2
<1> USE GroupGaugesFrame DEF SubscribeJoining, PushJoining
<1>5. CASE NewSubscriptionPeer(s) BY <1>5 DEF NewSubscriptionPeer, Makes
<1>6. CASE AddSubscribeLeaveAt(s) BY <1>6 DEF AddSubscribeLeaveAt
<1>7. CASE CloseSubs(s) BY <1>7 DEF CloseSubs
<1>8. CASE AnnounceSubscribeDown(s) BY <1>8 DEF AnnounceSubscribeDown
<1>9. CASE AnnounceReforwardDown(s) BY <1>9 DEF AnnounceReforwardDown
<1>. QED BY <1>1, <1>2, <1>3, <1>4, <1>5, <1>6, <1>7, <1>8, <1>9 DEF SubscribeStep

\* Publishers do not touch the gauges of the group, nor subscribers the other.
LEMMA PublishersKeepGroupGauges ==
  ASSUME NEW p \in Publisher, TypeOK, SubscribeGauge, ReforwardGauge,
         PublishRequest(p) \/ PublishStep(p) \/ OnTrack(p)
  PROVE  SubscribeGauge' /\ ReforwardGauge'
<1> USE DEF TypeOK, mgrVars, slotVars, groupVars, taskVars, outVars
<1>1. /\ subscribe_group' = subscribe_group
      /\ gauge'["SUBSCRIBE"] = gauge["SUBSCRIBE"]
      /\ gauge'["REFORWARD"] = gauge["REFORWARD"]
  BY DEF PublishRequest, PublishStep, OnTrack, NewPublishPeer, SetPublish,
         SetPublishLeaveAt, AnnouncePublish, RemovePublish, RemovePublishTracks,
         RemovePublishLeaveAt, AnnouncePublishDown, PublishTrackUp
<1>2. \A s \in Subscriber : request'[s] = request[s]
  BY DEF Goto, PublishRequest, PublishStep, OnTrack, NewPublishPeer,
         SetPublish, SetPublishLeaveAt, AnnouncePublish, RemovePublish,
         RemovePublishTracks, RemovePublishLeaveAt, AnnouncePublishDown, PublishTrackUp
<1>3. SubscribeJoining' = SubscribeJoining /\ PushJoining' = PushJoining
  BY <1>2 DEF SubscribeJoining, PushJoining
<1>. QED BY <1>1, <1>3, GroupGaugesFrame

LEMMA SubscribersKeepPublishGauge ==
  ASSUME NEW s \in Subscriber, TypeOK, ConnectionInv, PublishGauge,
         NewSubscriptionPeer(s) \/ SubscribeStep(s)
  PROVE  PublishGauge'
<1> USE DEF TypeOK, mgrVars, slotVars, groupVars, taskVars, outVars
<1>1. publish' = publish /\ gauge'["PUBLISH"] = gauge["PUBLISH"]
  BY DEF NewSubscriptionPeer, SubscribeStep, AddSubscribe, AddSubscribeLeaveAt,
         AnnounceSubscribe, AnnounceReforward, CloseSubs, RemoveSubscribe,
         AnnounceSubscribeDown, AnnounceReforwardDown
<1>2. \A p \in Publisher : request'[p] = request[p] /\ removal'[p] = removal[p]
  BY DEF Goto, ClosePeers, NewSubscriptionPeer, SubscribeStep, AddSubscribe,
         AddSubscribeLeaveAt, AnnounceSubscribe, AnnounceReforward, CloseSubs,
         RemoveSubscribe, AnnounceSubscribeDown, AnnounceReforwardDown
<1>3. PublishJoining' = PublishJoining /\ PublishLeaving' = PublishLeaving
  BY <1>2 DEF PublishJoining, PublishLeaving
<1>. QED BY <1>1, <1>3, PublishGaugeFrame

\* The connections and the manager touch none: a removal task that they spawn
\* has counted nothing yet.
LEMMA EnvironmentKeepsGauges ==
  ASSUME TypeOK, ConnectionInv, GaugesBalance,
         \/ \E p \in Peer : Negotiate(p) \/ Connect(p) \/ Fail(p) \/ CloseTask(p) \/ RemovePeer(p)
         \/ StreamDelete
         \/ PublishCheckTick \/ SubscribeCheckTick \/ CheckTickDelete
  PROVE  GaugesBalance'
<1> USE DEF mgrVars, slotVars, groupVars, taskVars, outVars
<1>1. UNCHANGED <<publish, subscribe_group, gauge>>
  BY DEF Negotiate, Connect, Fail, CloseTask, RemovePeer, StreamDelete,
         PublishCheckTick, SubscribeCheckTick, CheckTickDelete
<1>2. \A q \in Peer : \/ request'[q] = request[q]
                      \/ request[q] = "negotiating" /\ request'[q] \in {"negotiated", "failed"}
  BY DEF TypeOK, Goto, Negotiate, Connect, Fail, CloseTask, RemovePeer, StreamDelete,
         PublishCheckTick, SubscribeCheckTick, CheckTickDelete
<1>3. \A q \in Peer : \/ removal'[q] = removal[q]
                      \/ removal[q] = "none" /\ removal'[q] = "remove"
  BY DEF TypeOK, ConnectionInv, ClosePeers, CloseAll, Negotiate, Connect, Fail, CloseTask,
         RemovePeer, StreamDelete, PublishCheckTick, SubscribeCheckTick, CheckTickDelete
<1>4. /\ PublishJoining' = PublishJoining /\ PublishLeaving' = PublishLeaving
      /\ SubscribeJoining' = SubscribeJoining /\ PushJoining' = PushJoining
  BY <1>2, <1>3 DEF PublishJoining, PublishLeaving, SubscribeJoining, PushJoining
<1>. QED BY <1>1, <1>4, PublishGaugeFrame, GroupGaugesFrame DEF GaugesBalance

\* For any finite number of sessions, no session is ever counted twice by a
\* gauge, or left in it.
THEOREM GaugesCorrect == Spec => []GaugesBalance
<1>1. Init => GaugesBalance
  <2> SUFFICES ASSUME Init PROVE GaugesBalance
    OBVIOUS
  <2>1. /\ PublishJoining = {} /\ PublishLeaving = {} /\ SubscribeJoining = {}
        /\ PushJoining = {} /\ subscribe_group = {} /\ subscribe_group \cap Cascade = {}
        /\ {publish} \ {None} = {}
    BY DEF Init, PublishJoining, PublishLeaving, SubscribeJoining, PushJoining
  <2>2. gauge["PUBLISH"] = 0 /\ gauge["SUBSCRIBE"] = 0 /\ gauge["REFORWARD"] = 0
    BY DEF Init
  <2>. QED BY <2>1, <2>2, FS_EmptySet
           DEF GaugesBalance, PublishGauge, SubscribeGauge, ReforwardGauge
<1>2. TypeOK /\ ConnectionInv /\ EventInv /\ GaugesBalance /\ [Next]_vars => GaugesBalance'
  <2> SUFFICES ASSUME TypeOK, ConnectionInv, EventInv, GaugesBalance, [Next]_vars
               PROVE  GaugesBalance'
    OBVIOUS
  <2>1. ASSUME NEW p \in Publisher, PublishRequest(p) \/ PublishStep(p) \/ OnTrack(p)
        PROVE  GaugesBalance'
    BY <2>1, PublishGaugeSteps, PublishersKeepGroupGauges DEF GaugesBalance
  <2>2. ASSUME NEW s \in Subscriber, NewSubscriptionPeer(s) \/ SubscribeStep(s)
        PROVE  GaugesBalance'
    BY <2>2, GroupGaugesSteps, SubscribersKeepPublishGauge DEF GaugesBalance
  <2>3. CASE UNCHANGED vars
    BY <2>3 DEF vars, GaugesBalance, PublishGauge, SubscribeGauge, ReforwardGauge,
                PublishJoining, PublishLeaving, SubscribeJoining, PushJoining
  <2>. QED BY <2>1, <2>2, <2>3, EnvironmentKeepsGauges DEF Next
<1>. QED BY <1>1, <1>2, TypeCorrect, ConnectionInvariant, EventInvariant, PTL DEF Spec
================================================================================

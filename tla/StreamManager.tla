----------------------------- MODULE StreamManager -----------------------------
(***************************************************************************)
(* The stream manager of a live777 node (liveion/src/stream/manager.rs):   *)
(* the map from stream names to forwards, the requests that look a forward *)
(* up and use it after the map is unlocked, the removal of a publisher's   *)
(* stream, and the two auto-delete ticks.                                  *)
(*                                                                         *)
(* A forward is one incarnation of a stream: a PeerForward that the map    *)
(* holds or held.  What happens inside it (module PeerForward) is reduced  *)
(* to its sessions and its two leave times, each under a lock of its own.  *)
(* A step here is a critical section of stream_map or of one lock of a     *)
(* forward; the long critical section of a tick, which awaits the forwards *)
(* it looks at, is several.                                                *)
(***************************************************************************)
EXTENDS Integers, FiniteSets

CONSTANTS
  Stream,        \* stream names
  Publisher,     \* WHIP / cascade-pull requests, and the sessions they become
  Subscriber,    \* WHEP requests
  Deleter,       \* DELETE /session requests
  None,
  AutoCreatePub, AutoCreateSub, \* strategy.auto_create_whip, auto_create_whep
  PubTimeout, SubTimeout,       \* auto_delete_whip, auto_delete_whep; < 0: disabled
  FirstTime,     \* the time at which the program starts
  MaxTime,       \* bound: the clock stops here
  MaxForward     \* bound: incarnations

Client == Publisher \cup Subscriber
Forward == 1..MaxForward
Tick == {"publish", "subscribe"}

\* Times are far from 0, which stands for "not idle".
ASSUME TimeAssumption ==
  /\ {PubTimeout, SubTimeout} \subseteq Int
  /\ FirstTime \in Nat /\ FirstTime > PubTimeout /\ FirstTime > SubTimeout /\ FirstTime > 0
  /\ MaxTime \in Nat /\ MaxTime >= FirstTime
ASSUME ClientAssumption ==
  /\ Publisher \cap Subscriber = {}
  /\ None \notin Client \cup Stream \cup Tick
  /\ IsFiniteSet(Stream) /\ MaxForward \in Nat

VARIABLES
  now,
  stream_map,          \* 0, or the forward the map holds
  created,             \* number of forwards created
  name,                \* the stream of each forward
  publish, subscribe_group, publish_leave_at, subscribe_leave_at, \* of each forward
  request,             \* request[c]: [at, forward], where the handler of c is
  delete,              \* delete[d]: [at, stream, forward], the handler of a DELETE
  closed,              \* sessions whose connection is closed
  leaving,             \* publishers out of the slot that have yet to stamp the leave time
  scan,                \* scan[k]: the streams tick k found idle, to be looked at again
  lock,                \* the tick that holds the write lock of stream_map, or None
  reaping,             \* the stream that this tick has decided to remove, or None
  deleting,            \* the forwards whose stream_delete has yet to announce it
  STREAM,              \* metrics::STREAM
  up, down,            \* up[s], down[s]: number of StreamUp, StreamDown events
  overtaken,           \* history: publishers whose reset an older leave time came after
  busy                 \* history: when each forward was last in use, for either tick

mapVars     == <<stream_map, created, name>>
forwardVars == <<publish, subscribe_group, publish_leave_at, subscribe_leave_at, busy>>
taskVars    == <<request, delete, scan, lock, reaping>>
peerVars    == <<closed, leaving, overtaken>>
outVars     == <<deleting, STREAM, up, down>>
vars == <<now, mapVars, forwardVars, taskVars, peerVars, outVars>>

Init ==
  /\ now = FirstTime
  /\ stream_map = [s \in Stream |-> 0]
  /\ created = 0
  /\ name = [f \in Forward |-> None]
  /\ publish = [f \in Forward |-> None]
  /\ subscribe_group = [f \in Forward |-> {}]
  /\ publish_leave_at = [f \in Forward |-> 0]
  /\ subscribe_leave_at = [f \in Forward |-> 0]
  /\ request = [c \in Client |-> [at |-> "idle", forward |-> 0]]
  /\ delete = [d \in Deleter |-> [at |-> "idle", stream |-> None, forward |-> 0]]
  /\ closed = {} /\ leaving = {} /\ overtaken = {}
  /\ scan = [k \in Tick |-> {}]
  /\ lock = None /\ reaping = None
  /\ deleting = {}
  /\ STREAM = 0
  /\ up = [s \in Stream |-> 0] /\ down = [s \in Stream |-> 0]
  /\ busy = [f \in Forward |-> [k \in Tick |-> 0]]

\* The sessions that have joined forward f, their reset of the leave time
\* included, for each tick.  A publisher that was overtaken does not count.
Established(k, f) ==
  {c \in IF k = "publish" THEN {publish[f]} \ ({None} \cup overtaken) ELSE subscribe_group[f] :
     request[c].at = "joined"}
Occupied(k, f) == Established(k, f) # {}

Passes ==
  /\ now < MaxTime
  /\ now' = now + 1
  /\ busy' = [f \in Forward |->
                [k \in Tick |-> IF Occupied(k, f) THEN now' ELSE busy[f][k]]]
  /\ UNCHANGED <<mapVars, publish, subscribe_group, publish_leave_at,
                 subscribe_leave_at, taskVars, peerVars, outVars>>

--------------------------------------------------------------------------------
(* Creating and finding streams.                                           *)

\* do_stream_create and the insertion into the map, under its write lock.  A
\* new forward counts as left by its subscribers, not by its publisher.
Create(s) ==
  LET f == created + 1 IN
  /\ created < MaxForward
  /\ created' = f
  /\ stream_map' = [stream_map EXCEPT ![s] = f]
  /\ name' = [name EXCEPT ![f] = s]
  /\ subscribe_leave_at' = [subscribe_leave_at EXCEPT ![f] = now]
  /\ STREAM' = STREAM + 1
  /\ up' = [up EXCEPT ![s] = @ + 1]
  /\ UNCHANGED <<publish, subscribe_group, publish_leave_at, busy, deleting, down>>

StreamCreate(s) ==
  /\ lock = None
  /\ stream_map[s] = 0
  /\ Create(s)
  /\ UNCHANGED <<now, taskVars, peerVars>>

Moves(c, at, f) == request' = [request EXCEPT ![c] = [at |-> at, forward |-> f]]

\* The first half of Manager::publish, subscribe, cascade_pull: find the
\* forward, or create it, or give up.
LookUp(c, s) ==
  /\ lock = None
  /\ request[c].at = "idle"
  /\ \/ /\ stream_map[s] # 0
        /\ Moves(c, "found", stream_map[s])
        /\ UNCHANGED <<mapVars, forwardVars, outVars>>
     \/ /\ stream_map[s] = 0
        /\ IF c \in Publisher THEN AutoCreatePub ELSE AutoCreateSub
        /\ Create(s)
        /\ Moves(c, "found", created')
     \/ /\ stream_map[s] = 0
        /\ ~ IF c \in Publisher THEN AutoCreatePub ELSE AutoCreateSub
        /\ Moves(c, "failed", 0)
        /\ UNCHANGED <<mapVars, forwardVars, outVars>>
  /\ UNCHANGED <<now, delete, scan, lock, reaping, peerVars>>

--------------------------------------------------------------------------------
(* The forward, reduced to whole operations.                               *)

\* set_publish on the forward that was found, which may have left the map: the
\* slot, under its lock, ...
SetPublish(c) ==
  /\ request[c].at = "found"
  /\ \/ /\ publish[request[c].forward] = None
        /\ publish' = [publish EXCEPT ![request[c].forward] = c]
        /\ Moves(c, "registered", request[c].forward)
     \/ Moves(c, "failed", 0) /\ UNCHANGED publish
  /\ UNCHANGED <<now, mapVars, subscribe_group, publish_leave_at, subscribe_leave_at, busy,
                 delete, scan, lock, reaping, peerVars, outVars>>

\* ... and the leave time, under another one.
SetPublishLeaveAt(c) ==
  /\ request[c].at = "registered"
  /\ publish_leave_at' = [publish_leave_at EXCEPT ![request[c].forward] = 0]
  /\ busy' = [busy EXCEPT ![request[c].forward]["publish"] = now]
  /\ Moves(c, "joined", request[c].forward)
  /\ UNCHANGED <<now, mapVars, publish, subscribe_group, subscribe_leave_at, delete, scan,
                 lock, reaping, peerVars, outVars>>

\* add_subscribe: the group, ...
AddSubscribe(c) ==
  /\ request[c].at = "found"
  /\ \/ /\ subscribe_group' = [subscribe_group EXCEPT ![request[c].forward] = @ \cup {c}]
        /\ Moves(c, "registered", request[c].forward)
     \/ Moves(c, "failed", 0) /\ UNCHANGED subscribe_group
  /\ UNCHANGED <<now, mapVars, publish, publish_leave_at, subscribe_leave_at, busy, delete,
                 scan, lock, reaping, peerVars, outVars>>

\* ... and the leave time.
AddSubscribeLeaveAt(c) ==
  /\ request[c].at = "registered"
  /\ subscribe_leave_at' = [subscribe_leave_at EXCEPT ![request[c].forward] = 0]
  /\ busy' = [busy EXCEPT ![request[c].forward]["subscribe"] = now]
  /\ Moves(c, "joined", request[c].forward)
  /\ UNCHANGED <<now, mapVars, publish, subscribe_group, publish_leave_at, delete, scan,
                 lock, reaping, peerVars, outVars>>

\* The connection of a session fails or is closed by its client.
Disconnect(c) ==
  /\ request[c].at \in {"registered", "joined"}
  /\ c \notin closed
  /\ closed' = closed \cup {c}
  /\ UNCHANGED <<now, mapVars, forwardVars, taskVars, leaving, overtaken, outVars>>

\* remove_publish, the callback of a closed connection: the slot, ...
RemovePublish(c) ==
  /\ c \in closed
  /\ \E f \in Forward :
       /\ publish[f] = c
       /\ publish' = [publish EXCEPT ![f] = None]
  /\ leaving' = leaving \cup {c}
  /\ UNCHANGED <<now, mapVars, subscribe_group, publish_leave_at, subscribe_leave_at, busy,
                 taskVars, closed, overtaken, outVars>>

\* ... and, after the tracks, the leave time.  Whoever took the slot in between
\* and has made its reset already now counts as gone.
RemovePublishLeaveAt(c) ==
  /\ c \in leaving
  /\ leaving' = leaving \ {c}
  /\ publish_leave_at' = [publish_leave_at EXCEPT ![request[c].forward] = now]
  /\ overtaken' = overtaken \cup Established("publish", request[c].forward)
  /\ UNCHANGED <<now, mapVars, publish, subscribe_group, subscribe_leave_at, busy, taskVars,
                 closed, outVars>>

\* remove_subscribe: both under the lock of the group.
RemoveSubscribe(c) ==
  /\ c \in closed
  /\ \E f \in Forward :
       /\ c \in subscribe_group[f]
       /\ subscribe_group' = [subscribe_group EXCEPT ![f] = @ \ {c}]
       /\ subscribe_leave_at' = [subscribe_leave_at EXCEPT
                                   ![f] = IF subscribe_group'[f] = {} THEN now ELSE @]
  /\ UNCHANGED <<now, mapVars, publish, publish_leave_at, busy, taskVars, peerVars, outVars>>

\* PeerForward::close: every session of the forward.
SessionsOf(f) == subscribe_group[f] \cup ({publish[f]} \ {None})

--------------------------------------------------------------------------------
(* Deleting streams and sessions.                                          *)

\* stream_delete: close and remove under the write lock ...
Delete(s) ==
  /\ lock = None
  /\ stream_map[s] # 0
  /\ closed' = closed \cup SessionsOf(stream_map[s])
  /\ stream_map' = [stream_map EXCEPT ![s] = 0]
  /\ deleting' = deleting \cup {stream_map[s]}
  /\ UNCHANGED <<now, created, name, forwardVars, leaving, overtaken, STREAM, up, down>>

StreamDelete(s) == Delete(s) /\ UNCHANGED taskVars

\* ... and do_stream_delete after it is released.
DoStreamDelete(f) ==
  /\ f \in deleting
  /\ deleting' = deleting \ {f}
  /\ STREAM' = STREAM - 1
  /\ down' = [down EXCEPT ![name[f]] = @ + 1]
  /\ UNCHANGED <<now, mapVars, forwardVars, taskVars, peerVars, up>>

Serves(d, at, s, f) == delete' = [delete EXCEPT ![d] = [at |-> at, stream |-> s, forward |-> f]]

\* remove_stream_session: look the forward up, ...
DeleteLookUp(d, s) ==
  /\ lock = None
  /\ delete[d].at = "idle"
  /\ IF stream_map[s] = 0 THEN Serves(d, "done", s, 0) ELSE Serves(d, "found", s, stream_map[s])
  /\ UNCHANGED <<now, mapVars, forwardVars, request, scan, lock, reaping, peerVars, outVars>>

\* ... remove_peer closes the session named by the request, ...
RemovePeer(d, c) ==
  /\ delete[d].at = "found"
  /\ LET f == delete[d].forward IN
     /\ closed' = closed \cup ({c} \cap SessionsOf(f))
     /\ Serves(d, IF c = publish[f] THEN "removed" ELSE "done", delete[d].stream, f)
  /\ UNCHANGED <<now, mapVars, forwardVars, request, scan, lock, reaping, leaving, overtaken, outVars>>

\* ... and a publisher's session takes the stream of that name with it.
DeleteStream(d) ==
  /\ delete[d].at = "removed"
  /\ Serves(d, "done", delete[d].stream, delete[d].forward)
  /\ \/ Delete(delete[d].stream)
     \/ /\ lock = None /\ stream_map[delete[d].stream] = 0
        /\ UNCHANGED <<now, mapVars, forwardVars, peerVars, outVars>>
  /\ UNCHANGED <<request, scan, lock, reaping>>

--------------------------------------------------------------------------------
(* publish_check_tick and subscribe_check_tick, once a second.             *)

Timeout(k) == IF k = "publish" THEN PubTimeout ELSE SubTimeout
LeaveAt(k, f) == IF k = "publish" THEN publish_leave_at[f] ELSE subscribe_leave_at[f]

\* The scan of either tick compares the time with publish_leave_at: the one of
\* subscribe_check_tick only tests that subscribe_leave_at is set.
Scanned(k, f) == LeaveAt(k, f) > 0 /\ now - publish_leave_at[f] > Timeout(k)
Expired(k, f) == LeaveAt(k, f) > 0 /\ now - LeaveAt(k, f) > Timeout(k)

\* Under the read lock of the map: the names, not the forwards.
CheckTickScan(k) ==
  /\ Timeout(k) >= 0
  /\ lock = None /\ scan[k] = {}
  /\ scan' = [scan EXCEPT ![k] = {s \in Stream : stream_map[s] # 0 /\ Scanned(k, stream_map[s])}]
  /\ scan' # scan
  /\ UNCHANGED <<now, mapVars, forwardVars, request, delete, lock, reaping, peerVars, outVars>>

\* The write lock, kept to the end of the loop over the names.
CheckTickLock(k) ==
  /\ lock = None /\ scan[k] # {}
  /\ lock' = k
  /\ UNCHANGED <<now, mapVars, forwardVars, request, delete, scan, reaping, peerVars, outVars>>

\* Mutant: the second look at the forward is dropped.
CheckTickTrustsScan(k, s) ==
  /\ lock = k /\ reaping = None
  /\ s \in scan[k]
  /\ scan' = [scan EXCEPT ![k] = @ \ {s}]
  /\ \/ stream_map[s] # 0 /\ reaping' = s /\ UNCHANGED lock
     \/ /\ stream_map[s] = 0
        /\ lock' = IF scan'[k] = {} THEN None ELSE lock
        /\ UNCHANGED reaping
  /\ UNCHANGED <<now, mapVars, forwardVars, request, delete, peerVars, outVars>>

\* Whichever forward has the name now is looked at again (info) ...
CheckTickLook(k, s) ==
  /\ lock = k /\ reaping = None
  /\ s \in scan[k]
  /\ scan' = [scan EXCEPT ![k] = @ \ {s}]
  /\ \/ /\ stream_map[s] # 0 /\ Expired(k, stream_map[s])
        /\ reaping' = s
        /\ UNCHANGED lock
     \/ /\ ~ (stream_map[s] # 0 /\ Expired(k, stream_map[s]))
        /\ lock' = IF scan'[k] = {} THEN None ELSE lock
        /\ UNCHANGED reaping
  /\ UNCHANGED <<now, mapVars, forwardVars, request, delete, peerVars, outVars>>

\* Mutant: nobody is told of the stream that a tick removes.
CheckTickRemoveQuietly(k) ==
  /\ lock = k /\ reaping # None
  /\ closed' = closed \cup SessionsOf(stream_map[reaping])
  /\ stream_map' = [stream_map EXCEPT ![reaping] = 0]
  /\ STREAM' = STREAM - 2
  /\ reaping' = None
  /\ lock' = IF scan[k] = {} THEN None ELSE lock
  /\ UNCHANGED <<now, created, name, forwardVars, request, delete, scan, leaving, overtaken,
                 deleting, up, down>>

\* ... and closed and removed, with the sessions that it has by then.  Each
\* removal costs the gauge two.
CheckTickRemove(k) ==
  /\ lock = k /\ reaping # None
  /\ closed' = closed \cup SessionsOf(stream_map[reaping])
  /\ stream_map' = [stream_map EXCEPT ![reaping] = 0]
  /\ STREAM' = STREAM - 2
  /\ down' = [down EXCEPT ![reaping] = @ + 1]
  /\ reaping' = None
  /\ lock' = IF scan[k] = {} THEN None ELSE lock
  /\ UNCHANGED <<now, created, name, forwardVars, request, delete, scan, leaving, overtaken,
                 deleting, up>>

--------------------------------------------------------------------------------
Next ==
  \/ Passes
  \/ \E s \in Stream : StreamCreate(s) \/ StreamDelete(s)
  \/ \E f \in Forward : DoStreamDelete(f)
  \/ \E c \in Client, s \in Stream : LookUp(c, s)
  \/ \E c \in Publisher : \/ SetPublish(c) \/ SetPublishLeaveAt(c)
                             \/ RemovePublish(c) \/ RemovePublishLeaveAt(c)
  \/ \E c \in Subscriber : AddSubscribe(c) \/ AddSubscribeLeaveAt(c) \/ RemoveSubscribe(c)
  \/ \E c \in Client : Disconnect(c)
  \/ \E d \in Deleter, s \in Stream : DeleteLookUp(d, s)
  \/ \E d \in Deleter, c \in Client : RemovePeer(d, c)
  \/ \E d \in Deleter : DeleteStream(d)
  \/ \E k \in Tick : CheckTickScan(k) \/ CheckTickLock(k) \/ CheckTickRemove(k)
  \/ \E k \in Tick, s \in Stream : CheckTickLook(k, s)

Spec == Init /\ [][Next]_vars

--------------------------------------------------------------------------------
(* Properties.                                                             *)

\* The streams that the map has, and the deletions of stream s still to be
\* announced.
Streams == {s \in Stream : stream_map[s] # 0}
Unannounced(s) == {f \in deleting : name[f] = s}

\* A tick decides to remove a stream only if no publisher (no subscriber, for
\* the other tick) was established on it at any moment of the timeout that ends
\* now.  The scan is by name and stale when the write lock is taken, the stream
\* may have been deleted and made again meanwhile, and the scan of
\* subscribe_check_tick looks at the wrong leave time: the second look makes up
\* for all three.  It does not make up for remove_publish, whose stamp of the
\* leave time can come after the reset of the next publisher: such a publisher
\* is overtaken, and its stream is removed under it.
TickSparesBusyStreams ==
  [][\A s \in Stream :
       reaping = None /\ reaping' = s =>
         /\ now - busy[stream_map[s]][lock] > Timeout(lock)
         /\ ~Occupied(lock, stream_map[s])]_vars

\* For every stream, the StreamUp events exceed the StreamDown events by one
\* if the map has it, counting the deletions that are still to be announced:
\* no interleaving of deletes, ticks and creations announces one end twice or
\* forgets one.
StreamEventsBalance ==
  \A s \in Stream :
    up[s] = down[s] + Cardinality(Unannounced(s)) + (IF s \in Streams THEN 1 ELSE 0)

\* metrics.rs calls the gauge the "stream number": with no deletion half done,
\* it is the number of streams in the map.
GaugeCountsStreams == deleting = {} => STREAM = Cardinality(Streams)
================================================================================

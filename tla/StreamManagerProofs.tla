-------------------------- MODULE StreamManagerProofs --------------------------
(***************************************************************************)
(* The manager's bookkeeping and its auto-delete ticks, for any number of  *)
(* streams, requests and incarnations and any timeouts.                    *)
(***************************************************************************)
EXTENDS StreamManager, FiniteSetTheorems, TLAPS

USE TimeAssumption, ClientAssumption

--------------------------------------------------------------------------------
(* The map, the deletions under way and the tick that holds the lock.      *)

\* The map holds a forward under its own name, and none that is being deleted.
MapInv ==
  /\ created \in 0..MaxForward
  /\ stream_map \in [Stream -> 0..created]
  /\ name \in [Forward -> Stream \cup {None}]
  /\ deleting \subseteq 1..created
  /\ \A f \in 1..created : name[f] \in Stream
  /\ \A s \in Streams : name[stream_map[s]] = s /\ stream_map[s] \notin deleting

\* A stream that a tick has decided to remove stays in the map until it does.
LockInv ==
  /\ lock \in Tick \cup {None}
  /\ reaping \in Stream \cup {None}
  /\ reaping # None => lock # None /\ reaping \in Streams

CountInv ==
  /\ up \in [Stream -> Int] /\ down \in [Stream -> Int]
  /\ StreamEventsBalance

BookInv == MapInv /\ LockInv /\ CountInv
bookVars == <<stream_map, created, name, lock, reaping, deleting, up, down>>

\* A DELETE that has found a forward knows the name it looked up.
DeleterInv ==
  /\ delete \in [Deleter -> [at : {"idle", "found", "removed", "done"},
                             stream : Stream \cup {None}, forward : 0..MaxForward]]
  /\ \A d \in Deleter : delete[d].at \in {"found", "removed"} => delete[d].stream \in Stream

\* The sets that the counts are about are finite.
LEMMA Finite ==
  ASSUME MapInv
  PROVE  /\ IsFiniteSet(Streams) /\ Cardinality(Streams) \in Nat
         /\ IsFiniteSet(deleting) /\ Cardinality(deleting) \in Nat
         /\ \A s : IsFiniteSet(Unannounced(s)) /\ Cardinality(Unannounced(s)) \in Nat
<1>1. IsFiniteSet(Streams) /\ Cardinality(Streams) \in Nat
  BY FS_Subset, FS_CardinalityType DEF Streams
<1>2. IsFiniteSet(1..created)
  BY FS_Interval DEF MapInv
<1>3. IsFiniteSet(deleting) /\ Cardinality(deleting) \in Nat
  BY <1>2, FS_Subset, FS_CardinalityType DEF MapInv
<1>4. ASSUME NEW s PROVE IsFiniteSet(Unannounced(s)) /\ Cardinality(Unannounced(s)) \in Nat
  BY <1>3, FS_Subset, FS_CardinalityType DEF Unannounced
<1>. QED BY <1>1, <1>3, <1>4

\* A step that leaves the books alone.
LEMMA BookFrame == ASSUME BookInv, UNCHANGED bookVars PROVE BookInv'
BY DEF BookInv, bookVars, MapInv, LockInv, CountInv, StreamEventsBalance, Streams,
       Unannounced

\* A new forward gets a number that no deletion has, and its stream one StreamUp.
LEMMA CreateBooks ==
  ASSUME BookInv, NEW s \in Stream, stream_map[s] = 0, lock = None, Create(s),
         UNCHANGED <<lock, reaping>>
  PROVE  BookInv'
<1> DEFINE f == created + 1
<1>0. MapInv /\ LockInv /\ CountInv
  BY DEF BookInv
<1>1. /\ f \in Forward /\ f \in 1..created' /\ created' = f /\ f # 0 /\ created \in Nat
      /\ \A x \in Stream : stream_map'[x] = IF x = s THEN f ELSE stream_map[x]
      /\ \A g \in Forward : name'[g] = IF g = f THEN s ELSE name[g]
      /\ deleting' = deleting /\ 1..created \subseteq Forward /\ f \notin 1..created
      /\ 1..created' = 1..created \cup {f}
  BY <1>0 DEF Create, MapInv, Forward
<1>2. Streams' = Streams \cup {s} /\ s \notin Streams
  BY <1>1 DEF Streams
<1>3. ASSUME NEW x \in Stream PROVE Unannounced(x)' = Unannounced(x)
  BY <1>0, <1>1 DEF Unannounced, MapInv
<1>4. MapInv'
  <2>1. stream_map' \in [Stream -> 0..created']
    BY <1>0, <1>1 DEF MapInv, Create
  <2>2. name' \in [Forward -> Stream \cup {None}]
    BY <1>0, <1>1 DEF MapInv, Create
  <2>3. \A x \in Streams' : name'[stream_map'[x]] = x /\ stream_map'[x] \notin deleting'
    <3> SUFFICES ASSUME NEW x \in Streams'
                 PROVE  name'[stream_map'[x]] = x /\ stream_map'[x] \notin deleting'
      OBVIOUS
    <3>1. CASE x = s BY <3>1, <1>0, <1>1 DEF MapInv
    <3>2. CASE x # s
      <4>1. x \in Streams /\ stream_map'[x] = stream_map[x] /\ stream_map[x] \in 1..created
        BY <3>2, <1>0, <1>1, <1>2 DEF Streams, MapInv
      <4>. QED BY <4>1, <1>0, <1>1 DEF MapInv
    <3>. QED BY <3>1, <3>2
  <2>. QED BY <2>1, <2>2, <2>3, <1>0, <1>1 DEF MapInv, Forward
<1>5. LockInv'
  BY <1>0 DEF LockInv
<1>6. StreamEventsBalance'
  BY <1>0, <1>1, <1>2, <1>3, Finite DEF StreamEventsBalance, CountInv, Create
<1>8. CountInv'
  BY <1>0, <1>6 DEF CountInv, Create
<1>. QED BY <1>4, <1>5, <1>8 DEF BookInv

\* stream_delete: the forward goes from the map to the deletions under way.
LEMMA DeleteBooks ==
  ASSUME BookInv, NEW s \in Stream, Delete(s), UNCHANGED <<lock, reaping>>
  PROVE  BookInv'
<1> DEFINE f == stream_map[s]
<1>0. MapInv /\ LockInv /\ CountInv
  BY DEF BookInv
<1>1. /\ s \in Streams /\ f \in 1..created /\ f \notin deleting /\ name[f] = s
      /\ \A x \in Stream : stream_map'[x] = IF x = s THEN 0 ELSE stream_map[x]
      /\ deleting' = deleting \cup {f} /\ name' = name /\ created' = created
  BY <1>0 DEF Delete, MapInv, Streams
<1>2. Streams' = Streams \ {s}
  BY <1>1 DEF Streams
<1>3. /\ Unannounced(s)' = Unannounced(s) \cup {f} /\ f \notin Unannounced(s)
      /\ \A x \in Stream \ {s} : Unannounced(x)' = Unannounced(x)
  BY <1>1 DEF Unannounced
<1>4. MapInv'
  <2>1. stream_map' \in [Stream -> 0..created']
    BY <1>0, <1>1 DEF MapInv, Delete
  <2>2. ASSUME NEW x \in Streams'
        PROVE  name'[stream_map'[x]] = x /\ stream_map'[x] \notin deleting'
    <3>1. x \in Streams /\ x # s /\ stream_map'[x] = stream_map[x]
      BY <1>1, <1>2 DEF Streams
    <3>. QED BY <3>1, <1>0, <1>1 DEF MapInv
  <2>. QED BY <2>1, <2>2, <1>0, <1>1 DEF MapInv
<1>5. LockInv'
  BY <1>0 DEF LockInv, Delete
<1>6. StreamEventsBalance'
  <2>1. Cardinality(Unannounced(s)') = Cardinality(Unannounced(s)) + 1
    BY <1>0, <1>3, Finite, FS_AddElement
  <2> SUFFICES ASSUME NEW x \in Stream
               PROVE  up'[x] = down'[x] + Cardinality(Unannounced(x)')
                               + (IF x \in Streams' THEN 1 ELSE 0)
    BY DEF StreamEventsBalance
  <2>2. up[x] = down[x] + Cardinality(Unannounced(x)) + (IF x \in Streams THEN 1 ELSE 0)
    BY <1>0 DEF CountInv, StreamEventsBalance
  <2>3. up' = up /\ down' = down /\ down[x] \in Int /\ Cardinality(Unannounced(x)) \in Nat
    BY <1>0, Finite DEF Delete, CountInv
  <2>4. CASE x = s BY <2>1, <2>2, <2>3, <2>4, <1>1, <1>2
  <2>5. CASE x # s BY <2>2, <2>3, <2>5, <1>2, <1>3
  <2>. QED BY <2>4, <2>5
<1>8. CountInv'
  BY <1>0, <1>6 DEF CountInv, Delete
<1>. QED BY <1>4, <1>5, <1>8 DEF BookInv

\* do_stream_delete announces one deletion, of the name that its forward had.
LEMMA AnnounceBooks ==
  ASSUME BookInv, NEW f \in Forward, DoStreamDelete(f)
  PROVE  BookInv'
<1>0. MapInv /\ LockInv /\ CountInv
  BY DEF BookInv
<1>00. PICK s \in Stream : s = name[f]
  BY <1>0 DEF DoStreamDelete, MapInv
<1>1. /\ f \in deleting /\ deleting' = deleting \ {f}
      /\ UNCHANGED <<stream_map, created, name, lock, reaping, up>>
      /\ \A x \in Stream : down'[x] = IF x = s THEN down[x] + 1 ELSE down[x]
  BY <1>0, <1>00 DEF DoStreamDelete, MapInv, CountInv, mapVars, taskVars
<1>2. Streams' = Streams
  BY <1>1 DEF Streams
<1>3. /\ Unannounced(s)' = Unannounced(s) \ {f} /\ f \in Unannounced(s)
      /\ \A x \in Stream \ {s} : Unannounced(x)' = Unannounced(x)
  BY <1>00, <1>1 DEF Unannounced
<1>4. MapInv'
  BY <1>0, <1>1, <1>2 DEF MapInv
<1>5. LockInv'
  BY <1>0, <1>1, <1>2 DEF LockInv
<1>6. StreamEventsBalance'
  <2>1. Cardinality(Unannounced(s)') = Cardinality(Unannounced(s)) - 1
    BY <1>0, <1>3, Finite, FS_RemoveElement
  <2> SUFFICES ASSUME NEW x \in Stream
               PROVE  up'[x] = down'[x] + Cardinality(Unannounced(x)')
                               + (IF x \in Streams' THEN 1 ELSE 0)
    BY DEF StreamEventsBalance
  <2>2. up[x] = down[x] + Cardinality(Unannounced(x)) + (IF x \in Streams THEN 1 ELSE 0)
    BY <1>0 DEF CountInv, StreamEventsBalance
  <2>3. down[x] \in Int /\ Cardinality(Unannounced(x)) \in Nat
    BY <1>0, Finite DEF CountInv
  <2>4. CASE x = s BY <2>1, <2>2, <2>3, <2>4, <1>1, <1>2
  <2>5. CASE x # s BY <2>2, <2>3, <2>5, <1>1, <1>2, <1>3
  <2>. QED BY <2>4, <2>5
<1>8. CountInv'
  BY <1>0, <1>1, <1>6 DEF CountInv, DoStreamDelete
<1>. QED BY <1>4, <1>5, <1>8 DEF BookInv

\* A tick announces what it removes in the same step.
LEMMA TickRemoveBooks ==
  ASSUME BookInv, NEW k \in Tick, CheckTickRemove(k)
  PROVE  BookInv'
<1> DEFINE s == reaping
<1>0. MapInv /\ LockInv /\ CountInv
  BY DEF BookInv
<1>1. /\ s \in Stream /\ s \in Streams
      /\ \A x \in Stream : stream_map'[x] = IF x = s THEN 0 ELSE stream_map[x]
      /\ UNCHANGED <<created, name, deleting, up>>
      /\ \A x \in Stream : down'[x] = IF x = s THEN down[x] + 1 ELSE down[x]
      /\ reaping' = None /\ lock' \in {lock, None}
  BY <1>0 DEF CheckTickRemove, MapInv, LockInv, CountInv
<1>2. Streams' = Streams \ {s}
  BY <1>1 DEF Streams
<1>3. \A x \in Stream : Unannounced(x)' = Unannounced(x)
  BY <1>1 DEF Unannounced
<1>4. MapInv'
  <2>1. stream_map' \in [Stream -> 0..created']
    BY <1>0, <1>1 DEF MapInv, CheckTickRemove
  <2>2. ASSUME NEW x \in Streams'
        PROVE  name'[stream_map'[x]] = x /\ stream_map'[x] \notin deleting'
    <3>1. x \in Streams /\ x # s /\ stream_map'[x] = stream_map[x]
      BY <1>1, <1>2 DEF Streams
    <3>. QED BY <3>1, <1>0, <1>1 DEF MapInv
  <2>. QED BY <2>1, <2>2, <1>0, <1>1 DEF MapInv
<1>5. LockInv'
  BY <1>0, <1>1 DEF LockInv
<1>6. StreamEventsBalance'
  <2> SUFFICES ASSUME NEW x \in Stream
               PROVE  up'[x] = down'[x] + Cardinality(Unannounced(x)')
                               + (IF x \in Streams' THEN 1 ELSE 0)
    BY DEF StreamEventsBalance
  <2>2. up[x] = down[x] + Cardinality(Unannounced(x)) + (IF x \in Streams THEN 1 ELSE 0)
    BY <1>0 DEF CountInv, StreamEventsBalance
  <2>3. down[x] \in Int /\ Cardinality(Unannounced(x)) \in Nat
    BY <1>0, Finite DEF CountInv
  <2>4. CASE x = s BY <2>2, <2>3, <2>4, <1>1, <1>2, <1>3
  <2>5. CASE x # s BY <2>2, <2>3, <2>5, <1>1, <1>2, <1>3
  <2>. QED BY <2>4, <2>5
<1>8. CountInv'
  BY <1>0, <1>1, <1>6 DEF CountInv, CheckTickRemove
<1>. QED BY <1>4, <1>5, <1>8 DEF BookInv

\* A tick takes the lock with no removal under way, and decides on one only
\* while the stream is in the map.
LEMMA TickLookBooks ==
  ASSUME BookInv, NEW k \in Tick,
         CheckTickLock(k) \/ \E s \in Stream : CheckTickLook(k, s)
  PROVE  BookInv'
<1>1. UNCHANGED <<stream_map, created, name, deleting, up, down>>
  BY DEF CheckTickLock, CheckTickLook, mapVars, outVars
<1>2. MapInv' /\ CountInv'
  BY <1>1 DEF BookInv, MapInv, CountInv, StreamEventsBalance, Streams, Unannounced
<1>3. Streams' = Streams
  BY <1>1 DEF Streams
<1>4. LockInv'
  BY <1>3 DEF BookInv, LockInv, CheckTickLock, CheckTickLook, Streams
<1>. QED BY <1>2, <1>4 DEF BookInv

\* Initially the map is empty and nothing has been counted.
LEMMA BookInit == Init => BookInv /\ DeleterInv
<1> SUFFICES ASSUME Init PROVE BookInv /\ DeleterInv
  OBVIOUS
<1>1. Streams = {} /\ \A s : Unannounced(s) = {}
  BY DEF Init, Streams, Unannounced
<1>2. MapInv /\ LockInv
  <2>1. created = 0 /\ 1..created = {} /\ created \in 0..MaxForward /\ deleting = {}
    BY DEF Init
  <2>2. stream_map \in [Stream -> 0..created] /\ name \in [Forward -> Stream \cup {None}]
    BY <2>1 DEF Init
  <2>. QED BY <1>1, <2>1, <2>2 DEF Init, MapInv, LockInv
<1>3. CountInv
  <2>1. \A s : Cardinality(Unannounced(s)) = 0
    BY <1>1, FS_EmptySet DEF Init
  <2>2. /\ up \in [Stream -> Int] /\ down \in [Stream -> Int]
        /\ \A s \in Stream : up[s] = 0 /\ down[s] = 0
    BY DEF Init
  <2>. QED BY <1>1, <2>1, <2>2 DEF CountInv, StreamEventsBalance
<1>4. DeleterInv
  BY DEF Init, DeleterInv
<1>. QED BY <1>2, <1>3, <1>4 DEF BookInv

\* The handlers of DELETE keep the name that they have looked up.
LEMMA DeleterStep == MapInv /\ DeleterInv /\ [Next]_vars => DeleterInv'
<1> SUFFICES ASSUME MapInv, DeleterInv, [Next]_vars PROVE DeleterInv'
  OBVIOUS
<1> USE DEF mapVars, forwardVars, taskVars, outVars
<1>1. ASSUME delete' = delete PROVE DeleterInv'
  BY <1>1 DEF DeleterInv
<1>2. ASSUME NEW d \in Deleter, NEW s \in Stream, DeleteLookUp(d, s) PROVE DeleterInv'
  <2>1. stream_map[s] \in 0..MaxForward
    BY DEF MapInv
  <2>. QED BY <2>1, <1>2 DEF DeleterInv, DeleteLookUp, Serves
<1>3. ASSUME NEW d \in Deleter, NEW c \in Client, RemovePeer(d, c) PROVE DeleterInv'
  BY <1>3 DEF DeleterInv, RemovePeer, Serves
<1>4. ASSUME NEW d \in Deleter, DeleteStream(d) PROVE DeleterInv'
  BY <1>4 DEF DeleterInv, DeleteStream, Serves
<1>5. CASE \/ Passes
           \/ \E s \in Stream : StreamCreate(s) \/ StreamDelete(s)
           \/ \E f \in Forward : DoStreamDelete(f)
           \/ \E c \in Client, s \in Stream : LookUp(c, s)
           \/ \E c \in Publisher : \/ SetPublish(c) \/ SetPublishLeaveAt(c)
                                    \/ RemovePublish(c) \/ RemovePublishLeaveAt(c)
           \/ \E c \in Subscriber : AddSubscribe(c) \/ AddSubscribeLeaveAt(c) \/ RemoveSubscribe(c)
           \/ \E c \in Client : Disconnect(c)
           \/ \E k \in Tick : CheckTickScan(k) \/ CheckTickLock(k) \/ CheckTickRemove(k)
           \/ \E k \in Tick, s \in Stream : CheckTickLook(k, s)
           \/ UNCHANGED vars
  BY <1>1, <1>5 DEF Passes, StreamCreate, StreamDelete, DoStreamDelete, LookUp, SetPublish,
     SetPublishLeaveAt, RemovePublish, RemovePublishLeaveAt, AddSubscribe, AddSubscribeLeaveAt,
     RemoveSubscribe, Disconnect, CheckTickScan, CheckTickLock, CheckTickRemove,
     CheckTickLook, vars
<1>. QED BY <1>2, <1>3, <1>4, <1>5 DEF Next

\* Every step keeps the books.
LEMMA BookStep == BookInv /\ DeleterInv /\ [Next]_vars => BookInv'
<1> SUFFICES ASSUME BookInv, DeleterInv, [Next]_vars PROVE BookInv'
  OBVIOUS
<1> USE DEF bookVars, mapVars, forwardVars, taskVars, outVars
<1>1. CASE Passes BY <1>1, BookFrame DEF Passes
<1>2. ASSUME NEW s \in Stream, StreamCreate(s) PROVE BookInv'
  BY <1>2, CreateBooks DEF StreamCreate
<1>3. ASSUME NEW s \in Stream, StreamDelete(s) PROVE BookInv'
  BY <1>3, DeleteBooks DEF StreamDelete
<1>4. ASSUME NEW f \in Forward, DoStreamDelete(f) PROVE BookInv'
  BY <1>4, AnnounceBooks
<1>5. ASSUME NEW c \in Client, NEW s \in Stream, LookUp(c, s) PROVE BookInv'
  <2>1. CASE UNCHANGED <<mapVars, forwardVars, outVars>>
    BY <2>1, <1>5, BookFrame DEF LookUp
  <2>2. CASE stream_map[s] = 0 /\ Create(s)
    BY <2>2, <1>5, CreateBooks DEF LookUp
  <2>. QED BY <2>1, <2>2, <1>5 DEF LookUp
<1>6. ASSUME NEW c \in Client,
             \/ SetPublish(c) \/ SetPublishLeaveAt(c) \/ RemovePublish(c)
             \/ RemovePublishLeaveAt(c) \/ AddSubscribe(c) \/ AddSubscribeLeaveAt(c)
             \/ RemoveSubscribe(c) \/ Disconnect(c)
      PROVE  BookInv'
  BY <1>6, BookFrame DEF SetPublish, SetPublishLeaveAt, RemovePublish, RemovePublishLeaveAt,
     AddSubscribe, AddSubscribeLeaveAt, RemoveSubscribe, Disconnect
<1>7. ASSUME NEW d \in Deleter, NEW s \in Stream, DeleteLookUp(d, s) PROVE BookInv'
  BY <1>7, BookFrame DEF DeleteLookUp
<1>8. ASSUME NEW d \in Deleter, NEW c \in Client, RemovePeer(d, c) PROVE BookInv'
  BY <1>8, BookFrame DEF RemovePeer
<1>9. ASSUME NEW d \in Deleter, DeleteStream(d) PROVE BookInv'
  <2>1. CASE UNCHANGED <<now, mapVars, forwardVars, peerVars, outVars>>
    BY <2>1, <1>9, BookFrame DEF DeleteStream
  <2>2. CASE Delete(delete[d].stream)
    <3>1. delete[d].stream \in Stream
      BY <1>9 DEF DeleteStream, DeleterInv
    <3>. QED BY <2>2, <3>1, <1>9, DeleteBooks DEF DeleteStream
  <2>. QED BY <2>1, <2>2, <1>9 DEF DeleteStream
<1>10. ASSUME NEW k \in Tick, CheckTickScan(k) PROVE BookInv'
  BY <1>10, BookFrame DEF CheckTickScan
<1>11. ASSUME NEW k \in Tick, CheckTickLock(k) \/ \E s \in Stream : CheckTickLook(k, s)
       PROVE  BookInv'
  BY <1>11, TickLookBooks
<1>12. ASSUME NEW k \in Tick, CheckTickRemove(k) PROVE BookInv'
  BY <1>12, TickRemoveBooks
<1>13. CASE UNCHANGED vars BY <1>13, BookFrame DEF vars
<1>. QED BY <1>1, <1>2, <1>3, <1>4, <1>5, <1>6, <1>7, <1>8, <1>9, <1>10, <1>11, <1>12, <1>13
         DEF Next, Client

\* The books are right in every state.
LEMMA BooksKept == Spec => [](BookInv /\ DeleterInv)
<1>1. BookInv /\ DeleterInv /\ [Next]_vars => (BookInv /\ DeleterInv)'
  BY BookStep, DeleterStep DEF BookInv
<1>. QED BY <1>1, BookInit, PTL DEF Spec

\* However deletes, ticks and creations overlap, each stream's StreamUp and
\* StreamDown events alternate in number: none is announced twice or forgotten.
THEOREM EventsBalance == Spec => []StreamEventsBalance
<1>1. BookInv => StreamEventsBalance
  BY DEF BookInv, CountInv
<1>. QED BY <1>1, BooksKept, PTL

--------------------------------------------------------------------------------
(* The auto-delete ticks.                                                  *)

\* Who is in a forward, and since when nobody is.  A session in a slot or a group
\* has that forward, and one that has completed its join clears the leave time; a
\* leave time that is set means that nobody is established there, nor was since.
SessionTypes ==
  /\ now \in Nat /\ now > 0
  /\ publish \in [Forward -> Publisher \cup {None}]
  /\ subscribe_group \in [Forward -> SUBSET Subscriber]
  /\ publish_leave_at \in [Forward -> Int]
  /\ subscribe_leave_at \in [Forward -> Int]
  /\ busy \in [Forward -> [Tick -> Int]]
  /\ leaving \subseteq Publisher

RequestInv ==
  /\ request \in [Client -> [at : {"idle", "found", "registered", "joined", "failed"},
                             forward : 0..MaxForward]]
  /\ \A c \in Client :
       request[c].at \in {"found", "registered", "joined"} => request[c].forward \in 1..created

Member(c, f) == publish[f] = c \/ c \in subscribe_group[f]
In(c, f) == request[c].at \in {"registered", "joined"} /\ request[c].forward = f
JoinInv ==
  /\ \A f \in Forward, c \in Client : Member(c, f) => In(c, f)
  /\ \A c \in leaving : request[c].at \in {"registered", "joined"}

Idle(k, f) ==
  /\ busy[f][k] <= now
  /\ LeaveAt(k, f) > 0 => ~Occupied(k, f) /\ busy[f][k] <= LeaveAt(k, f)
IdleInv == \A f \in Forward, k \in Tick : Idle(k, f)

TimeInv == SessionTypes /\ RequestInv /\ JoinInv /\ IdleInv
idleVars == <<now, created, request, forwardVars, leaving, overtaken>>

LEMMA TimeFrame == ASSUME TimeInv, UNCHANGED idleVars PROVE TimeInv'
<1> USE DEF idleVars, forwardVars
<1>1. SessionTypes' /\ RequestInv' /\ JoinInv'
  BY DEF TimeInv, SessionTypes, RequestInv, JoinInv, Member, In
<1>2. ASSUME NEW f \in Forward, NEW k \in Tick PROVE Idle(k, f)'
  <2>1. Occupied(k, f)' = Occupied(k, f) /\ LeaveAt(k, f)' = LeaveAt(k, f)
    BY DEF Occupied, Established, LeaveAt
  <2>. QED BY <2>1 DEF TimeInv, IdleInv, Idle
<1>. QED BY <1>1, <1>2 DEF TimeInv, IdleInv

\* A tick's view of a forward that a step does not touch.
LEMMA IdleSame ==
  ASSUME SessionTypes, NEW f \in Forward, NEW k \in Tick, Idle(k, f), now' = now,
         busy'[f][k] = busy[f][k], LeaveAt(k, f)' = LeaveAt(k, f),
         Established(k, f)' \subseteq Established(k, f)
  PROVE  Idle(k, f)'
BY DEF Idle, Occupied

\* Who is established depends on the place, on the request and on being overtaken.
LEMMA EstablishedSame ==
  ASSUME SessionTypes, NEW f \in Forward, NEW k \in Tick,
         publish'[f] \in {publish[f], None}, subscribe_group'[f] \subseteq subscribe_group[f],
         overtaken \subseteq overtaken',
         \A c \in Client : Member(c, f) => (request'[c].at = "joined" => request[c].at = "joined")
  PROVE  Established(k, f)' \subseteq Established(k, f)
<1>1. ASSUME NEW c \in Established(k, f)' PROVE c \in Established(k, f)
  <2>1. CASE k = "publish"
    <3>1. c = publish'[f] /\ c # None /\ c \notin overtaken /\ request'[c].at = "joined"
      BY <2>1 DEF Established
    <3>2. c = publish[f] /\ c \in Client
      BY <3>1 DEF SessionTypes, Client
    <3>. QED BY <2>1, <3>1, <3>2 DEF Established, Member
  <2>2. CASE k # "publish"
    <3>1. c \in subscribe_group[f] /\ request'[c].at = "joined" /\ c \in Client
      BY <2>2 DEF Established, SessionTypes, Client
    <3>. QED BY <2>2, <3>1 DEF Established, Member
  <2>. QED BY <2>1, <2>2
<1>. QED BY <1>1

LEMMA TimeInit == Init => TimeInv
<1> SUFFICES ASSUME Init PROVE TimeInv
  OBVIOUS
<1>1. SessionTypes
  BY DEF Init, SessionTypes
<1>2. RequestInv
  BY DEF Init, RequestInv
<1>3. JoinInv
  BY DEF Init, JoinInv, Member, In, Client
<1>4. IdleInv
  BY DEF Init, IdleInv, Idle, LeaveAt, Tick
<1>. QED BY <1>1, <1>2, <1>3, <1>4 DEF TimeInv

\* While time passes, who is there stays busy.
LEMMA PassesTime == ASSUME TimeInv, Passes PROVE TimeInv'
<1>0. SessionTypes /\ RequestInv /\ JoinInv /\ IdleInv
  BY DEF TimeInv
<1>1. /\ now' = now + 1
      /\ UNCHANGED <<created, request, publish, subscribe_group, publish_leave_at,
                     subscribe_leave_at, leaving, overtaken>>
      /\ busy' = [f \in Forward |->
                    [k \in Tick |-> IF Occupied(k, f) THEN now' ELSE busy[f][k]]]
  BY DEF Passes, mapVars, taskVars, peerVars
<1>2. SessionTypes'
  BY <1>0, <1>1 DEF SessionTypes
<1>3. RequestInv' /\ JoinInv'
  BY <1>0, <1>1 DEF RequestInv, JoinInv, Member, In
<1>4. ASSUME NEW f \in Forward, NEW k \in Tick PROVE Idle(k, f)'
  <2>1. Occupied(k, f)' = Occupied(k, f) /\ LeaveAt(k, f)' = LeaveAt(k, f)
    BY <1>1 DEF Occupied, Established, LeaveAt
  <2>2. now \in Nat /\ busy[f][k] \in Int /\ now' = now + 1
    BY <1>0, <1>1 DEF SessionTypes
  <2>3. busy'[f][k] = IF Occupied(k, f) THEN now' ELSE busy[f][k]
    BY <1>1
  <2>4. Idle(k, f)
    BY <1>0 DEF IdleInv
  <2>. QED BY <2>1, <2>2, <2>3, <2>4 DEF Idle
<1>. QED BY <1>2, <1>3, <1>4 DEF TimeInv, IdleInv

\* A request that has not joined anywhere may move on without disturbing the
\* sessions.
LEMMA RequestMoves ==
  ASSUME JoinInv, RequestInv, NEW c \in Client, request[c].at \in {"idle", "found"},
         NEW r, request' = [request EXCEPT ![c] = r],
         UNCHANGED <<publish, subscribe_group, leaving>>, SessionTypes
  PROVE  /\ JoinInv'
         /\ \A f \in Forward, x \in Client : Member(x, f) => request'[x] = request[x]
<1>1. \A x \in Client : request'[x] = IF x = c THEN r ELSE request[x]
  BY DEF RequestInv
<1>2. \A f \in Forward : ~Member(c, f)
  BY DEF JoinInv, In
<1>3. \A f \in Forward, x \in Client : Member(x, f) => request'[x] = request[x]
  BY <1>1, <1>2
<1>4. \A x \in leaving : x \in Client /\ request'[x] = request[x]
  BY <1>1 DEF JoinInv, SessionTypes, Client
<1>5. \A f \in Forward, x \in Client : Member(x, f)' = Member(x, f)
  BY DEF Member
<1>. QED BY <1>3, <1>4, <1>5 DEF JoinInv, In

\* A new forward is empty, and counts as left by its subscribers.  The request
\* that made it, if any, was idle.
LEMMA CreateTime ==
  ASSUME MapInv, TimeInv, NEW s \in Stream, Create(s), now' = now,
         UNCHANGED <<leaving, overtaken>>,
         \/ request' = request
         \/ \E c \in Client : request[c].at = "idle" /\ Moves(c, "found", created')
  PROVE  TimeInv'
<1>0. SessionTypes /\ RequestInv /\ JoinInv /\ IdleInv
  BY DEF TimeInv
<1>01. PICK f : f = created + 1
  OBVIOUS
<1>1. /\ created \in Nat /\ f \in Forward /\ created' = f /\ f \notin 1..created
      /\ f \in 0..MaxForward /\ 1..created \subseteq 1..created' /\ f \in 1..created'
      /\ UNCHANGED <<publish, subscribe_group, publish_leave_at, busy>>
      /\ subscribe_leave_at' = [subscribe_leave_at EXCEPT ![f] = now]
  BY <1>01 DEF Create, MapInv, Forward
<1>2. SessionTypes'
  BY <1>0, <1>1 DEF SessionTypes
<1>3. RequestInv' /\ JoinInv'
      /\ \A g \in Forward, x \in Client : Member(x, g) => request'[x] = request[x]
  <2>1. CASE request' = request
    BY <2>1, <1>0, <1>1 DEF RequestInv, JoinInv, Member, In
  <2>2. CASE \E c \in Client : request[c].at = "idle" /\ Moves(c, "found", created')
    <3>1. PICK c \in Client : request[c].at = "idle" /\ Moves(c, "found", created')
      BY <2>2
    <3>2. RequestInv'
      BY <3>1, <1>0, <1>1 DEF RequestInv, Moves
    <3>. QED BY <3>1, <3>2, <1>0, <1>1, RequestMoves DEF Moves
  <2>. QED BY <2>1, <2>2
<1>4. \A k \in Tick, g \in Forward : Established(k, g)' \subseteq Established(k, g)
  BY <1>0, <1>1, <1>3, EstablishedSame
<1>5. \A c \in Client : ~Member(c, f)
  BY <1>0, <1>1 DEF JoinInv, In, RequestInv
<1>6. \A k \in Tick : Established(k, f) = {}
  BY <1>0, <1>1, <1>5 DEF Established, Member, SessionTypes, Client
<1>7. ASSUME NEW k \in Tick, NEW g \in Forward PROVE Idle(k, g)'
  <2>0. Idle(k, g) /\ now \in Int /\ busy[g][k] \in Int
    BY <1>0 DEF IdleInv, SessionTypes
  <2>1. CASE g # f
    <3>1. LeaveAt(k, g)' = LeaveAt(k, g) /\ busy'[g][k] = busy[g][k]
      BY <2>1, <1>0, <1>1 DEF LeaveAt, SessionTypes
    <3>. QED BY <3>1, <2>0, <1>0, <1>4, IdleSame
  <2>2. CASE g = f
    <3>1. LeaveAt(k, f)' \in {LeaveAt(k, f), now} /\ busy' = busy
      BY <1>0, <1>1 DEF LeaveAt, SessionTypes
    <3>2. ~Occupied(k, f)'
      BY <1>4, <1>6, <1>1 DEF Occupied
    <3>. QED BY <2>0, <2>2, <3>1, <3>2 DEF Idle
  <2>. QED BY <2>1, <2>2
<1>. QED BY <1>2, <1>3, <1>7 DEF TimeInv, IdleInv

\* A session that enters the slot or a group is not established yet.
LEMMA EnterTime ==
  ASSUME MapInv, TimeInv,
         \/ \E c \in Publisher : SetPublish(c)
         \/ \E c \in Subscriber : AddSubscribe(c)
  PROVE  TimeInv'
<1>0. SessionTypes /\ RequestInv /\ JoinInv /\ IdleInv
  BY DEF TimeInv
<1>1. PICK c \in Client : \/ c \in Publisher /\ SetPublish(c)
                          \/ c \in Subscriber /\ AddSubscribe(c)
  BY DEF Client
<1>01. PICK f : f = request[c].forward
  OBVIOUS
<1>2. /\ request[c].at = "found" /\ f \in 1..created /\ f \in Forward /\ f \in 0..MaxForward
      /\ UNCHANGED <<now, created, publish_leave_at, subscribe_leave_at, busy, leaving, overtaken>>
  BY <1>0, <1>01, <1>1
     DEF SetPublish, AddSubscribe, RequestInv, mapVars, peerVars, Forward, MapInv
<1>3. \/ Moves(c, "failed", 0) /\ UNCHANGED <<publish, subscribe_group>>
      \/ /\ Moves(c, "registered", f)
         /\ c \in Publisher /\ publish' = [publish EXCEPT ![f] = c] /\ UNCHANGED subscribe_group
      \/ /\ Moves(c, "registered", f)
         /\ c \in Subscriber /\ subscribe_group' = [subscribe_group EXCEPT ![f] = @ \cup {c}]
         /\ UNCHANGED publish
  BY <1>01, <1>1 DEF SetPublish, AddSubscribe
<1>4. SessionTypes'
  BY <1>0, <1>2, <1>3 DEF SessionTypes
<1>5. RequestInv'
  BY <1>0, <1>2, <1>3 DEF RequestInv, Moves
<1>6. /\ \A x \in Client \ {c} : request'[x] = request[x]
      /\ request'[c].at \in {"failed", "registered"}
  BY <1>0, <1>3 DEF RequestInv, Moves
<1>7. ASSUME NEW g \in Forward, NEW x \in Client, Member(x, g)' PROVE In(x, g)'
  <2>1. \A y \in Forward : ~Member(c, y)
    BY <1>0, <1>2 DEF JoinInv, In
  <2>2. CASE x # c
    <3>1. Member(x, g)
      BY <2>2, <1>0, <1>2, <1>3, <1>7 DEF Member, SessionTypes
    <3>. QED BY <3>1, <2>2, <1>0, <1>6 DEF JoinInv, In
  <2>3. CASE x = c
    <3>1. g = f /\ Moves(c, "registered", f)
      BY <2>1, <2>3, <1>0, <1>2, <1>3, <1>7 DEF Member, SessionTypes
    <3>. QED BY <3>1, <2>3, <1>0 DEF RequestInv, Moves, In
  <2>. QED BY <2>2, <2>3
<1>8. JoinInv'
  <2>1. \A x \in leaving' : x \in Client /\ x # c /\ request[x].at \in {"registered", "joined"}
    BY <1>0, <1>2 DEF JoinInv, SessionTypes, Client
  <2>. QED BY <1>6, <1>7, <2>1 DEF JoinInv
<1>9. ASSUME NEW g \in Forward, NEW k \in Tick PROVE Established(k, g)' \subseteq Established(k, g)
  <2>1. ASSUME NEW x \in Established(k, g)' PROVE x \in Established(k, g)
    <3>1. request'[x].at = "joined" /\ x \in Client
      BY <2>1, <1>4 DEF Established, SessionTypes, Client
    <3>2. x # c
      BY <3>1, <1>6
    <3>. QED BY <3>1, <3>2, <2>1, <1>0, <1>2, <1>3, <1>6 DEF Established, SessionTypes
  <2>. QED BY <2>1
<1>10. ASSUME NEW g \in Forward, NEW k \in Tick PROVE Idle(k, g)'
  BY <1>0, <1>2, <1>9, IdleSame DEF IdleInv, LeaveAt
<1>. QED BY <1>4, <1>5, <1>8, <1>10 DEF TimeInv, IdleInv

\* A session that completes its join clears the leave time of its kind.
LEMMA JoinTime ==
  ASSUME MapInv, TimeInv,
         \/ \E c \in Publisher : SetPublishLeaveAt(c)
         \/ \E c \in Subscriber : AddSubscribeLeaveAt(c)
  PROVE  TimeInv'
<1>0. SessionTypes /\ RequestInv /\ JoinInv /\ IdleInv
  BY DEF TimeInv
<1>1. PICK c \in Client : \/ c \in Publisher /\ SetPublishLeaveAt(c)
                          \/ c \in Subscriber /\ AddSubscribeLeaveAt(c)
  BY DEF Client
<1>01. PICK f : f = request[c].forward
  OBVIOUS
<1>02. PICK j \in Tick : j = IF c \in Publisher THEN "publish" ELSE "subscribe"
  BY DEF Tick
<1>03. /\ request[c].at = "registered"
       /\ UNCHANGED <<now, created, publish, subscribe_group, leaving, overtaken>>
       /\ Moves(c, "joined", f)
  BY <1>01, <1>1 DEF SetPublishLeaveAt, AddSubscribeLeaveAt, mapVars, peerVars
<1>04. busy' = [busy EXCEPT ![f][j] = now]
  <2>1. CASE c \in Publisher /\ SetPublishLeaveAt(c)
    BY <2>1, <1>01, <1>02 DEF SetPublishLeaveAt
  <2>2. CASE c \in Subscriber /\ AddSubscribeLeaveAt(c)
    <3>1. j = "subscribe"
      BY <2>2, <1>02, ClientAssumption
    <3>. QED BY <2>2, <3>1, <1>01 DEF AddSubscribeLeaveAt
  <2>. QED BY <2>1, <2>2, <1>1
<1>05. f \in 1..created /\ f \in Forward /\ f \in 0..MaxForward
  BY <1>0, <1>01, <1>03 DEF RequestInv, Forward, MapInv
<1>2. /\ request[c].at = "registered" /\ f \in 1..created /\ f \in Forward /\ f \in 0..MaxForward
      /\ UNCHANGED <<now, created, publish, subscribe_group, leaving, overtaken>>
      /\ Moves(c, "joined", f) /\ busy' = [busy EXCEPT ![f][j] = now]
  BY <1>03, <1>04, <1>05
<1>3. \/ /\ j = "publish" /\ publish_leave_at' = [publish_leave_at EXCEPT ![f] = 0]
         /\ UNCHANGED subscribe_leave_at /\ c \in Publisher
      \/ /\ j = "subscribe" /\ subscribe_leave_at' = [subscribe_leave_at EXCEPT ![f] = 0]
         /\ UNCHANGED publish_leave_at /\ c \in Subscriber
  BY <1>01, <1>02, <1>1, ClientAssumption DEF SetPublishLeaveAt, AddSubscribeLeaveAt
<1>4. SessionTypes'
  BY <1>0, <1>2, <1>3 DEF SessionTypes
<1>5. RequestInv'
  BY <1>0, <1>2 DEF RequestInv, Moves
<1>6. /\ \A x \in Client \ {c} : request'[x] = request[x]
      /\ request'[c].at = "joined" /\ request'[c].forward = f
  BY <1>0, <1>2 DEF RequestInv, Moves
<1>7. JoinInv'
  <2>1. ASSUME NEW g \in Forward, NEW x \in Client, Member(x, g)' PROVE In(x, g)'
    <3>1. Member(x, g) /\ In(x, g)
      BY <2>1, <1>0, <1>2 DEF Member, JoinInv
    <3>. QED BY <3>1, <1>01, <1>6 DEF In
  <2>2. \A x \in leaving' : request'[x].at \in {"registered", "joined"}
    BY <1>0, <1>2, <1>6 DEF JoinInv, SessionTypes, Client
  <2>. QED BY <2>1, <2>2 DEF JoinInv
<1>8. ASSUME NEW g \in Forward, NEW k \in Tick PROVE Idle(k, g)'
  <2>0. Idle(k, g)
    BY <1>0 DEF IdleInv
  <2>1. CASE g = f /\ k = j
    BY <2>1, <1>0, <1>2, <1>3 DEF Idle, LeaveAt, SessionTypes
  <2>2. CASE ~(g = f /\ k = j)
    <3>1. LeaveAt(k, g)' = LeaveAt(k, g) /\ busy'[g][k] = busy[g][k]
      BY <2>2, <1>0, <1>2, <1>3 DEF LeaveAt, SessionTypes, Tick
    <3>2. ASSUME NEW x \in Established(k, g)' PROVE x \in Established(k, g)
      <4>1. x \in Client /\ (k = "publish" => x \in Publisher /\ publish[g] = x)
            /\ (k # "publish" => x \in Subscriber /\ x \in subscribe_group[g])
        BY <3>2, <1>0, <1>2 DEF Established, SessionTypes, Client
      <4>2. x # c
        <5>1. CASE g # f
          <6>1. Member(x, g) /\ request[x].forward = g
            BY <4>1, <1>0 DEF Member, JoinInv, In
          <6>. QED BY <5>1, <6>1, <1>01
        <5>2. CASE k # j
          BY <5>2, <4>1, <1>3, ClientAssumption DEF Tick
        <5>. QED BY <5>1, <5>2, <2>2
      <4>. QED BY <3>2, <4>1, <4>2, <1>2, <1>6 DEF Established
    <3>. QED BY <2>0, <3>1, <3>2, <1>0, <1>2, IdleSame
  <2>. QED BY <2>1, <2>2
<1>. QED BY <1>4, <1>5, <1>7, <1>8 DEF TimeInv, IdleInv

\* A publisher that leaves the slot does not stamp it yet.
LEMMA LeaveSlotTime ==
  ASSUME TimeInv, NEW c \in Publisher, RemovePublish(c)
  PROVE  TimeInv'
<1>0. SessionTypes /\ RequestInv /\ JoinInv /\ IdleInv
  BY DEF TimeInv
<1>1. /\ UNCHANGED <<now, created, request, subscribe_group, publish_leave_at,
                     subscribe_leave_at, busy, overtaken>>
      /\ leaving' = leaving \cup {c}
  BY DEF RemovePublish, mapVars, taskVars
<1>2. PICK f \in Forward : publish[f] = c /\ publish' = [publish EXCEPT ![f] = None]
  BY DEF RemovePublish
<1>3. SessionTypes' /\ RequestInv'
  BY <1>0, <1>1, <1>2 DEF SessionTypes, RequestInv
<1>4. JoinInv'
  <2>1. request[c].at \in {"registered", "joined"}
    BY <1>0, <1>2 DEF JoinInv, Member, In, Client
  <2>2. ASSUME NEW g \in Forward, NEW x \in Client, Member(x, g)' PROVE In(x, g)'
    <3>1. x # None
      BY ClientAssumption
    <3>2. Member(x, g)
      BY <2>2, <3>1, <1>0, <1>1, <1>2 DEF Member, SessionTypes
    <3>. QED BY <3>2, <1>0, <1>1 DEF JoinInv, In
  <2>. QED BY <2>1, <2>2, <1>0, <1>1 DEF JoinInv
<1>5. ASSUME NEW g \in Forward, NEW k \in Tick PROVE Idle(k, g)'
  <2>1. publish'[g] \in {publish[g], None}
    BY <1>0, <1>2 DEF SessionTypes
  <2>2. Established(k, g)' \subseteq Established(k, g)
    BY <2>1, <1>0, <1>1, EstablishedSame
  <2>. QED BY <2>2, <1>0, <1>1, IdleSame DEF IdleInv, LeaveAt
<1>. QED BY <1>3, <1>4, <1>5 DEF TimeInv, IdleInv

\* Its stamp leaves nobody established in the slot: who was is overtaken.
LEMMA StampTime ==
  ASSUME MapInv, TimeInv, NEW c \in Publisher, RemovePublishLeaveAt(c)
  PROVE  TimeInv'
<1>0. SessionTypes /\ RequestInv /\ JoinInv /\ IdleInv
  BY DEF TimeInv
<1>01. PICK f : f = request[c].forward
  OBVIOUS
<1>1. /\ UNCHANGED <<now, created, request, publish, subscribe_group, subscribe_leave_at, busy>>
      /\ leaving' \subseteq leaving /\ overtaken' = overtaken \cup Established("publish", f)
      /\ publish_leave_at' = [publish_leave_at EXCEPT ![f] = now]
  BY <1>01 DEF RemovePublishLeaveAt, mapVars, taskVars
<1>2. f \in Forward
  <2>1. c \in Client /\ request[c].at \in {"registered", "joined"}
    BY <1>0 DEF RemovePublishLeaveAt, JoinInv, Client
  <2>. QED BY <2>1, <1>0, <1>01 DEF RequestInv, Forward, MapInv
<1>3. SessionTypes' /\ RequestInv' /\ JoinInv'
  <2>1. SessionTypes' /\ RequestInv'
    BY <1>0, <1>1, <1>2 DEF SessionTypes, RequestInv
  <2>2. JoinInv'
    BY <1>0, <1>1 DEF JoinInv, Member, In
  <2>. QED BY <2>1, <2>2
<1>4. ASSUME NEW g \in Forward, NEW k \in Tick PROVE Idle(k, g)'
  <2>0. Idle(k, g) /\ busy[g][k] \in Int /\ now \in Int
    BY <1>0 DEF IdleInv, SessionTypes
  <2>1. Established(k, g)' \subseteq Established(k, g)
    BY <1>0, <1>1, EstablishedSame
  <2>2. CASE g = f /\ k = "publish"
    <3>1. ~Occupied(k, g)'
      <4> SUFFICES ASSUME NEW x \in Established(k, g)' PROVE FALSE
        BY DEF Occupied
      <4>1. x \notin overtaken' /\ x \in Established("publish", f)
        BY <2>1, <2>2 DEF Established
      <4>. QED BY <4>1, <1>1
    <3>2. LeaveAt(k, g)' = now
      BY <2>2, <1>0, <1>1, <1>2 DEF LeaveAt, SessionTypes
    <3>. QED BY <2>0, <3>1, <3>2, <1>1 DEF Idle
  <2>3. CASE ~(g = f /\ k = "publish")
    <3>1. LeaveAt(k, g)' = LeaveAt(k, g)
      BY <2>3, <1>0, <1>1, <1>2 DEF LeaveAt, SessionTypes, Tick
    <3>. QED BY <2>0, <2>1, <3>1, <1>0, <1>1, IdleSame
  <2>. QED BY <2>2, <2>3
<1>. QED BY <1>3, <1>4 DEF TimeInv, IdleInv

\* The last subscriber that leaves stamps the time under the lock of the group.
LEMMA LeaveGroupTime ==
  ASSUME TimeInv, NEW c \in Subscriber, RemoveSubscribe(c)
  PROVE  TimeInv'
<1>0. SessionTypes /\ RequestInv /\ JoinInv /\ IdleInv
  BY DEF TimeInv
<1>1. UNCHANGED <<now, created, request, publish, publish_leave_at, busy, leaving, overtaken>>
  BY DEF RemoveSubscribe, mapVars, taskVars, peerVars
<1>2. PICK f \in Forward :
        /\ c \in subscribe_group[f]
        /\ subscribe_group' = [subscribe_group EXCEPT ![f] = @ \ {c}]
        /\ subscribe_leave_at' = [subscribe_leave_at EXCEPT
                                    ![f] = IF subscribe_group'[f] = {} THEN now ELSE @]
  BY DEF RemoveSubscribe
<1>3. SessionTypes' /\ RequestInv'
  BY <1>0, <1>1, <1>2 DEF SessionTypes, RequestInv
<1>4. \A g \in Forward : subscribe_group'[g] \subseteq subscribe_group[g]
  BY <1>0, <1>2 DEF SessionTypes
<1>5. JoinInv'
  BY <1>0, <1>1, <1>4 DEF JoinInv, Member, In
<1>6. ASSUME NEW g \in Forward, NEW k \in Tick PROVE Idle(k, g)'
  <2>0. Idle(k, g) /\ busy[g][k] \in Int /\ now \in Int
    BY <1>0 DEF IdleInv, SessionTypes
  <2>1. Established(k, g)' \subseteq Established(k, g)
    BY <1>0, <1>1, <1>4, EstablishedSame
  <2>2. CASE g = f /\ k = "subscribe" /\ subscribe_group'[f] = {}
    <3>1. ~Occupied(k, g)'
      BY <2>2 DEF Occupied, Established
    <3>2. LeaveAt(k, g)' = now
      BY <2>2, <1>0, <1>2 DEF LeaveAt, SessionTypes
    <3>. QED BY <2>0, <3>1, <3>2, <1>1 DEF Idle
  <2>3. CASE ~(g = f /\ k = "subscribe" /\ subscribe_group'[f] = {})
    <3>1. LeaveAt(k, g)' = LeaveAt(k, g)
      BY <2>3, <1>0, <1>1, <1>2 DEF LeaveAt, SessionTypes, Tick
    <3>. QED BY <2>0, <2>1, <3>1, <1>0, <1>1, IdleSame
  <2>. QED BY <2>2, <2>3
<1>. QED BY <1>3, <1>5, <1>6 DEF TimeInv, IdleInv

\* Every step keeps the leave times true.
LEMMA TimeStep == MapInv /\ TimeInv /\ [Next]_vars => TimeInv'
<1> SUFFICES ASSUME MapInv, TimeInv, [Next]_vars PROVE TimeInv'
  OBVIOUS
<1> USE DEF idleVars, mapVars, forwardVars, taskVars, peerVars, outVars
<1>1. CASE Passes BY <1>1, PassesTime
<1>2. ASSUME NEW s \in Stream, StreamCreate(s) PROVE TimeInv'
  BY <1>2, CreateTime DEF StreamCreate
<1>3. ASSUME NEW c \in Client, NEW s \in Stream, LookUp(c, s) PROVE TimeInv'
  <2>0. SessionTypes /\ RequestInv /\ JoinInv /\ IdleInv /\ request[c].at = "idle"
    BY <1>3 DEF TimeInv, LookUp
  <2>1. CASE UNCHANGED <<mapVars, forwardVars, outVars>>
    <3>1. stream_map[s] \in 0..created /\ created \in 0..MaxForward /\ created' = created
      BY <2>1 DEF MapInv
    <3>2. ~Create(s)
      BY <2>1, <3>1 DEF Create
    <3>3. PICK r \in [at : {"found", "failed"}, forward : 0..MaxForward] :
            /\ request' = [request EXCEPT ![c] = r]
            /\ r.at = "found" => r.forward \in 1..created
      <4>1. CASE stream_map[s] # 0 /\ Moves(c, "found", stream_map[s])
        <5>1. stream_map[s] \in 1..created /\ stream_map[s] \in 0..MaxForward
          BY <3>1, <4>1
        <5>2. PICK r : r = [at |-> "found", forward |-> stream_map[s]]
          OBVIOUS
        <5>3. r \in [at : {"found", "failed"}, forward : 0..MaxForward] /\ r.forward \in 1..created
          BY <5>1, <5>2
        <5>. QED BY <4>1, <5>2, <5>3 DEF Moves
      <4>2. CASE Moves(c, "failed", 0)
        <5>1. PICK r : r = [at |-> "failed", forward |-> 0]
          OBVIOUS
        <5>2. r \in [at : {"found", "failed"}, forward : 0..MaxForward] /\ r.at # "found"
          BY <5>1, ClientAssumption
        <5>. QED BY <4>2, <5>1, <5>2 DEF Moves
      <4>. QED BY <4>1, <4>2, <3>2, <1>3 DEF LookUp
    <3>4. RequestInv'
      BY <3>1, <3>3, <2>0 DEF RequestInv
    <3>5. UNCHANGED <<publish, subscribe_group, publish_leave_at, subscribe_leave_at, busy,
                      now, leaving, overtaken>>
      BY <2>1, <1>3 DEF LookUp
    <3>6. /\ JoinInv'
          /\ \A f \in Forward, x \in Client : Member(x, f) => request'[x] = request[x]
      BY <2>0, <3>3, <3>5, RequestMoves
    <3>7. SessionTypes'
      BY <2>0, <3>5 DEF SessionTypes
    <3>8. ASSUME NEW f \in Forward, NEW k \in Tick PROVE Idle(k, f)'
      <4>1. Established(k, f)' \subseteq Established(k, f)
        BY <2>0, <3>5, <3>6, EstablishedSame
      <4>. QED BY <4>1, <2>0, <3>5, IdleSame DEF IdleInv, LeaveAt
    <3>. QED BY <3>4, <3>6, <3>7, <3>8 DEF TimeInv, IdleInv
  <2>2. CASE stream_map[s] = 0 /\ Create(s) /\ Moves(c, "found", created')
    BY <2>0, <2>2, <1>3, CreateTime DEF LookUp
  <2>. QED BY <2>1, <2>2, <1>3 DEF LookUp
<1>4. CASE \/ \E c \in Publisher : SetPublish(c)
           \/ \E c \in Subscriber : AddSubscribe(c)
  BY <1>4, EnterTime
<1>5. CASE \/ \E c \in Publisher : SetPublishLeaveAt(c)
           \/ \E c \in Subscriber : AddSubscribeLeaveAt(c)
  BY <1>5, JoinTime
<1>6. CASE \/ \E c \in Publisher : RemovePublish(c) \/ RemovePublishLeaveAt(c)
           \/ \E c \in Subscriber : RemoveSubscribe(c)
  BY <1>6, LeaveSlotTime, StampTime, LeaveGroupTime
<1>7. CASE \/ \E s \in Stream : StreamDelete(s)
           \/ \E f \in Forward : DoStreamDelete(f)
           \/ \E c \in Client : Disconnect(c)
           \/ \E d \in Deleter, s \in Stream : DeleteLookUp(d, s)
           \/ \E d \in Deleter, c \in Client : RemovePeer(d, c)
           \/ \E d \in Deleter : DeleteStream(d)
           \/ \E k \in Tick : CheckTickScan(k) \/ CheckTickLock(k) \/ CheckTickRemove(k)
           \/ \E k \in Tick, s \in Stream : CheckTickLook(k, s)
           \/ UNCHANGED vars
  BY <1>7, TimeFrame DEF StreamDelete, Delete, DoStreamDelete, Disconnect, DeleteLookUp,
     RemovePeer, DeleteStream, CheckTickScan, CheckTickLock, CheckTickRemove, CheckTickLook, vars
<1>. QED BY <1>1, <1>2, <1>3, <1>4, <1>5, <1>6, <1>7 DEF Next

\* Only the second look of a tick decides on a removal, and the leave time that
\* it trusts is true of the forward that has the name now.
LEMMA TickSpares ==
  ASSUME MapInv, TimeInv, [Next]_vars, NEW s \in Stream, reaping = None, reaping' = s
  PROVE  now - busy[stream_map[s]][lock] > Timeout(lock) /\ ~Occupied(lock, stream_map[s])
<1> USE DEF mapVars, forwardVars, taskVars, outVars
<1>1. reaping' # None /\ reaping' # reaping
  OBVIOUS
<1>2. PICK k \in Tick, x \in Stream : CheckTickLook(k, x)
  BY <1>1 DEF Next, vars, Passes, StreamCreate, StreamDelete, DoStreamDelete, LookUp,
     SetPublish, SetPublishLeaveAt, RemovePublish, RemovePublishLeaveAt, AddSubscribe,
     AddSubscribeLeaveAt, RemoveSubscribe, Disconnect, DeleteLookUp, RemovePeer, DeleteStream,
     CheckTickScan, CheckTickLock, CheckTickRemove
<1>3. x = s /\ lock = k /\ stream_map[s] # 0 /\ Expired(k, stream_map[s])
  BY <1>1, <1>2 DEF CheckTickLook
<1>4. stream_map[s] \in Forward
  BY <1>3 DEF MapInv, Forward
<1>5. /\ LeaveAt(k, stream_map[s]) \in Int /\ busy[stream_map[s]][k] \in Int /\ now \in Int
      /\ Timeout(k) \in Int
  BY <1>4 DEF TimeInv, SessionTypes, LeaveAt, Timeout
<1>6. ~Occupied(k, stream_map[s]) /\ busy[stream_map[s]][k] <= LeaveAt(k, stream_map[s])
  BY <1>3, <1>4 DEF Expired, TimeInv, IdleInv, Idle
<1>. QED BY <1>3, <1>5, <1>6 DEF Expired

\* Although the scan is by name and stale, and one of the two scans compares the
\* wrong time, a tick decides to remove a stream only if no session was established
\* on it at any moment of the timeout that ends then, other than a publisher whose
\* reset of the leave time was overtaken by its predecessor's remove_publish.
THEOREM TicksSpareBusyStreams == Spec => TickSparesBusyStreams
<1>1. MapInv /\ TimeInv /\ [Next]_vars =>
        [\A s \in Stream :
           reaping = None /\ reaping' = s =>
             /\ now - busy[stream_map[s]][lock] > Timeout(lock)
             /\ ~Occupied(lock, stream_map[s])]_vars
  BY TickSpares
<1>2. BookInv => MapInv
  BY DEF BookInv
<1>. QED BY <1>1, <1>2, TimeInit, TimeStep, BooksKept, PTL DEF Spec, TickSparesBusyStreams
================================================================================

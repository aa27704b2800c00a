------------------------------ MODULE ForwardLocks -----------------------------
(***************************************************************************)
(* The read-write locks of one stream and in which order its operations    *)
(* take them (liveion/src/forward/internal.rs, subscribe.rs and            *)
(* stream/manager.rs).                                                     *)
(*                                                                         *)
(* tokio::sync::RwLock is fair: requests are served first come first       *)
(* served, so a reader queues behind a waiting writer even while other     *)
(* readers hold the lock.  Two readers can therefore block each other      *)
(* through the writers between them, and lock order matters between reads  *)
(* as well.                                                                *)
(*                                                                         *)
(* An operation is the sequence of its lock steps: take a lock for reading *)
(* or writing, or drop some.  What it does between them is left out, as is *)
(* the waiting inside a peer's close(), which takes none of these locks    *)
(* (its callback only spawns a task).                                      *)
(***************************************************************************)
EXTENDS Naturals, Sequences, FiniteSets

CONSTANTS Task,       \* tokio tasks
          Operation   \* operations they may run: a subset of DOMAIN Locking

ASSUME TaskAssumption == IsFiniteSet(Task)

Lock == {"stream_map", "subscribe_group", "publish_leave_at",
         "subscribe_leave_at", "publish", "track_binding", "publish_tracks"}

Rd(l) == [do |-> "r", locks |-> {l}]
Wr(l) == [do |-> "w", locks |-> {l}]
Drop(ls) == [do |-> "drop", locks |-> ls]

\* A lock that is taken for one statement.
Read(l) == << Rd(l), Drop({l}) >>
Write(l) == << Wr(l), Drop({l}) >>

--------------------------------------------------------------------------------
(* The lock steps of each operation.                                       *)

\* PeerForwardInternal::info: the group's guard is a local; the other four are
\* temporaries of the tail expression and live to its end.
info == << Rd("subscribe_group"), Rd("publish_leave_at"), Rd("subscribe_leave_at"),
           Rd("publish"), Rd("publish_tracks"),
           Drop({"subscribe_group", "publish_leave_at", "subscribe_leave_at",
                 "publish", "publish_tracks"}) >>

add_ice_candidate == Read("publish") \o Read("subscribe_group")

\* The guard of `publish` is held to the end of the function.
remove_peer == << Rd("publish"), Rd("subscribe_group"),
                  Drop({"publish", "subscribe_group"}) >>

close == << Rd("publish"), Rd("subscribe_group"), Drop({"publish", "subscribe_group"}) >>

\* The two checks of PeerForward::set_publish are the reads.  send_event calls
\* info.
set_publish == Read("publish") \o Read("publish") \o Write("publish")
               \o Write("publish_leave_at") \o info

set_publish_refused == Read("publish") \o Read("publish") \o Write("publish")

remove_publish == Write("publish") \o Write("publish_tracks") \o Write("publish_leave_at")
                  \o info

publish_track_up == Write("publish_tracks")

layers == Read("publish") \o Read("publish_tracks")

add_subscribe == Write("subscribe_group") \o Write("subscribe_leave_at") \o info

\* Mutant: the leave time is locked before the group.
remove_subscribe_swapped == << Wr("subscribe_leave_at"), Wr("subscribe_group"),
                               Drop({"subscribe_leave_at", "subscribe_group"}) >> \o info

\* The last subscriber leaves; the leave time is written inside the group's
\* critical section.
remove_subscribe == << Wr("subscribe_group"), Wr("subscribe_leave_at"),
                       Drop({"subscribe_leave_at"}), Drop({"subscribe_group"}) >> \o info

select_kind_rid == Read("subscribe_group")

\* The track_change and select_layer branches of sender_forward_rtp.
forward_rtp == << Wr("track_binding"), Rd("publish_tracks"),
                  Drop({"track_binding", "publish_tracks"}) >>

forward_rtcp == << Rd("track_binding"), Rd("publish_tracks"), Drop({"publish_tracks"}),
                   Drop({"track_binding"}) >>

\* Manager: look a stream up, list the streams, destroy one, tick.
publish_lookup == Write("stream_map")

list_streams == << Rd("stream_map") >> \o info \o << Drop({"stream_map"}) >>

stream_delete == << Wr("stream_map") >> \o close \o << Drop({"stream_map"}) >>

check_tick == << Rd("stream_map") >> \o info \o << Drop({"stream_map"}), Wr("stream_map") >>
              \o info \o close \o << Drop({"stream_map"}) >>

Locking ==
  [ info |-> info, add_ice_candidate |-> add_ice_candidate, remove_peer |-> remove_peer,
    set_publish |-> set_publish, set_publish_refused |-> set_publish_refused,
    remove_publish |-> remove_publish, publish_track_up |-> publish_track_up,
    layers |-> layers, add_subscribe |-> add_subscribe,
    remove_subscribe |-> remove_subscribe, select_kind_rid |-> select_kind_rid,
    forward_rtp |-> forward_rtp, forward_rtcp |-> forward_rtcp,
    publish_lookup |-> publish_lookup, list_streams |-> list_streams,
    stream_delete |-> stream_delete, check_tick |-> check_tick ]

\* Every operation but the ones that hold `publish` while they take
\* subscribe_group.
Ordered == DOMAIN Locking \ {"remove_peer", "stream_delete", "check_tick"}

ASSUME OperationAssumption == Operation \subseteq DOMAIN Locking

--------------------------------------------------------------------------------
VARIABLES op,      \* the operation each task runs
          pc,      \* the index of its next lock step
          held,    \* held[l]: the requests that hold l
          queue    \* queue[l]: the requests that wait for l, in order

vars == <<op, pc, held, queue>>

Request == [task : Task, mode : {"r", "w"}]

Init ==
  /\ op \in [Task -> Operation]
  /\ pc = [t \in Task |-> 1]
  /\ held = [l \in Lock |-> {}]
  /\ queue = [l \in Lock |-> <<>>]

Finished(t) == pc[t] > Len(Locking[op[t]])
NextStep(t) == Locking[op[t]][pc[t]]
Waits(t) == \E l \in Lock : \E i \in DOMAIN queue[l] : queue[l][i].task = t
Runs(t) == ~Finished(t) /\ ~Waits(t)

\* Whether a request may join those that hold a lock.
Compatible(q, holders) == holders = {} \/ (q.mode = "r" /\ \A h \in holders : h.mode = "r")

\* The number of requests at the head of a queue that get a released lock: one
\* writer, or the readers in front of the first writer.
Grantable(q, holders) ==
  IF q = <<>> \/ ~Compatible(q[1], holders) THEN 0
  ELSE IF q[1].mode = "w" THEN 1
  ELSE Cardinality({i \in 1..Len(q) : \A j \in 1..i : q[j].mode = "r"})

\* read() / write(): taken at once, or queued.
Acquire(t) ==
  /\ Runs(t)
  /\ NextStep(t).do \in {"r", "w"}
  /\ \E l \in NextStep(t).locks :
       LET q == [task |-> t, mode |-> NextStep(t).do] IN
       \/ /\ queue[l] = <<>> /\ Compatible(q, held[l])
          /\ held' = [held EXCEPT ![l] = @ \cup {q}]
          /\ pc' = [pc EXCEPT ![t] = @ + 1]
          /\ UNCHANGED <<op, queue>>
       \/ /\ queue[l] # <<>> \/ ~Compatible(q, held[l])
          /\ queue' = [queue EXCEPT ![l] = Append(@, q)]
          /\ UNCHANGED <<op, held, pc>>

\* Dropping guards hands each lock on to the head of its queue.
Release(t) ==
  /\ Runs(t)
  /\ NextStep(t).do = "drop"
  /\ LET ls == NextStep(t).locks
         left(l) == {h \in held[l] : h.task # t}
         n(l) == IF l \in ls THEN Grantable(queue[l], left(l)) ELSE 0
         granted(l) == {queue[l][i] : i \in 1..n(l)}
         resumed == {q.task : q \in UNION {granted(l) : l \in ls}}
     IN /\ held' = [l \in Lock |-> IF l \in ls THEN left(l) \cup granted(l) ELSE held[l]]
        /\ queue' = [l \in Lock |-> SubSeq(queue[l], n(l) + 1, Len(queue[l]))]
        /\ pc' = [u \in Task |-> IF u = t \/ u \in resumed THEN pc[u] + 1 ELSE pc[u]]
        /\ UNCHANGED op

Next == \E t \in Task : Acquire(t) \/ Release(t)

\* tokio polls every task that can proceed.
Spec == Init /\ [][Next]_vars /\ \A t \in Task : WF_vars(Acquire(t) \/ Release(t))

--------------------------------------------------------------------------------
(* Properties.                                                             *)

\* While some operation is not finished, one of the unfinished ones can take a
\* step: the operations of a stream never all wait for each other's locks.  As every
\* step of a task brings it nearer to its end, they all finish.
NoDeadlock == (\E t \in Task : ~Finished(t)) => \E t \in Task : Runs(t)

\* docs/guide/live777-api.md promises an answer to DELETE of a session or a
\* stream.  It is not so when remove_peer or close, which take `publish` before
\* subscribe_group, meet info, which takes them the other way round, with a
\* writer queued on each lock in between: all four wait for ever.
DeleteAnswered == \A t \in Task : op[t] = "remove_peer" => <>Finished(t)
================================================================================

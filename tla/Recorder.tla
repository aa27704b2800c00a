-------------------------------- MODULE Recorder -------------------------------
(***************************************************************************)
(* The recorder of a live777 node (liveion/src/recorder/mod.rs, task.rs):  *)
(* the TASKS map and its lock, start and stop as the API, the event loop   *)
(* of init and the rotation call them, the recording tasks they spawn, and *)
(* the index entry of each recording.                                      *)
(*                                                                         *)
(* A stream is known by its forward, an incarnation number, and a forward  *)
(* by whether it has media tracks.  Codecs, segments and storage are left  *)
(* out: a recording task runs until it ends.  Time passes in seconds, the  *)
(* grain of the record ids.                                                *)
(***************************************************************************)
EXTENDS Naturals, FiniteSets, Sequences

CONSTANTS
  Stream,
  Caller,          \* requests of the record API
  AutoRecord,      \* streams that recorder.auto_streams matches
  MaxRecording,    \* max_recording_seconds; 0: no rotation
  EventCapacity,   \* capacity of the manager's channel (4 in the code)
  StorageFails,    \* whether the storage backend may fail
  MaxTime, MaxForward, MaxChange, MaxTask
    \* bounds: seconds, incarnations, publishers that come or leave, recordings

Loop == "event loop"
Rotation == "rotation"
Process == {Loop, Rotation} \cup Caller
Key == Stream \X (0..MaxTime)
Nobody == "nobody"

ASSUME RecorderAssumption ==
  /\ AutoRecord \subseteq Stream
  /\ {MaxRecording, EventCapacity, MaxTime, MaxForward, MaxChange, MaxTask} \subseteq Nat
  /\ EventCapacity > 0
  /\ StorageFails \in BOOLEAN
  /\ {Loop, Rotation, Nobody} \cap Caller = {}

VARIABLES
  now,
  forward,     \* forward[s]: the forward in the manager's map, or 0
  made,        \* forwards made so far
  tracks,      \* forwards that have media tracks
  changes,     \* how often a publisher has come or left
  TASKS,       \* TASKS[s]: the registered recording task, or 0
  lock,        \* who holds the write lock of TASKS across an await, or Nobody
  tasks,       \* every recording task spawned: [stream, second, forward]
  ended,       \* tasks whose loop has ended
  signalled,   \* tasks that were sent the stop signal
  index,       \* index[k]: "Active", "Completed", "Failed", or "absent"
  at,          \* where each process is in start or stop
  on,          \* the stream it is about
  key,         \* the record id it has chosen: a second
  found,       \* the forward it has found
  mine,        \* the task it stops
  events,      \* events the loop has not received, at most EventCapacity
  lagged,      \* older events have been dropped
  rotation,    \* the streams yet to be stopped, and to be started, by a rotation
  used         \* callers that have made their request

envVars  == <<now, forward, made, tracks, changes, events, lagged>>
taskVars == <<TASKS, tasks, ended, signalled>>
procVars == <<at, on, key, found, mine>>
vars == <<envVars, taskVars, lock, index, procVars, rotation, used>>

TaskId == 1..Len(tasks)

Init ==
  /\ now = 0
  /\ forward = [s \in Stream |-> 0] /\ made = 0
  /\ tracks = {} /\ changes = 0
  /\ TASKS = [s \in Stream |-> 0]
  /\ lock = Nobody
  /\ tasks = <<>> /\ ended = {} /\ signalled = {}
  /\ index = [k \in Key |-> "absent"]
  /\ at = [p \in Process |-> "idle"]
  /\ on = [p \in Process |-> CHOOSE s \in Stream : TRUE]
  /\ key = [p \in Process |-> 0]
  /\ found = [p \in Process |-> 0]
  /\ mine = [p \in Process |-> 0]
  /\ events = <<>> /\ lagged = FALSE
  /\ rotation = [stop |-> {}, start |-> {}]
  /\ used = {}

--------------------------------------------------------------------------------
(* The node around the recorder.                                           *)

\* A broadcast channel drops its oldest value when it is full (tokio).
Send(e) ==
  IF Len(events) < EventCapacity
  THEN events' = Append(events, e) /\ UNCHANGED lagged
  ELSE events' = Append(Tail(events), e) /\ lagged' = TRUE

Passes ==
  /\ now < MaxTime
  /\ now' = now + 1
  /\ UNCHANGED <<forward, made, tracks, changes, events, lagged, taskVars, lock, index,
                 procVars, rotation, used>>

StreamUp(s) ==
  /\ forward[s] = 0 /\ made < MaxForward
  /\ made' = made + 1
  /\ forward' = [forward EXCEPT ![s] = made']
  /\ Send(<<"Up", s>>)
  /\ UNCHANGED <<now, tracks, changes, taskVars, lock, index, procVars, rotation, used>>

\* The stream is deleted, and its publisher closed.
StreamDown(s) ==
  /\ forward[s] # 0
  /\ forward' = [forward EXCEPT ![s] = 0]
  /\ tracks' = tracks \ {forward[s]}
  /\ Send(<<"Down", s>>)
  /\ UNCHANGED <<now, made, changes, taskVars, lock, index, procVars, rotation, used>>

Changes == changes < MaxChange /\ changes' = changes + 1

\* A publisher comes, or leaves its stream behind.
PublishUp(s) ==
  /\ forward[s] # 0 /\ forward[s] \notin tracks
  /\ tracks' = tracks \cup {forward[s]}
  /\ Changes
  /\ Send(<<"Other", s>>)
  /\ UNCHANGED <<now, forward, made, taskVars, lock, index, procVars, rotation, used>>

PublishDown(s) ==
  /\ forward[s] \in tracks
  /\ tracks' = tracks \ {forward[s]}
  /\ Changes
  /\ Send(<<"Other", s>>)
  /\ UNCHANGED <<now, forward, made, taskVars, lock, index, procVars, rotation, used>>

--------------------------------------------------------------------------------
(* start                                                                   *)

Goto(p, where) == at' = [at EXCEPT ![p] = where]

\* Mutant: the lock is taken for the look at TASKS only.
StartUnlocked(p) ==
  /\ at[p] = "start" /\ lock = Nobody
  /\ Goto(p, IF TASKS[on[p]] # 0 THEN "idle" ELSE "spawn")
  /\ UNCHANGED <<envVars, taskVars, lock, index, on, key, found, mine, rotation, used>>

\* The write lock of TASKS, kept to the end; a stream that is registered
\* already is not started again.
Start(p) ==
  /\ at[p] = "start" /\ lock = Nobody
  /\ IF TASKS[on[p]] # 0
     THEN Goto(p, "idle") /\ UNCHANGED lock
     ELSE Goto(p, "spawn") /\ lock' = p
  /\ UNCHANGED <<envVars, taskVars, index, on, key, found, mine, rotation, used>>

\* RecordingTask::spawn: the record id, the segmenter, the forward.  A storage
\* error or a missing stream ends start.
Spawn(p) ==
  /\ at[p] = "spawn"
  /\ key' = [key EXCEPT ![p] = now]
  /\ \/ /\ forward[on[p]] # 0
        /\ found' = [found EXCEPT ![p] = forward[on[p]]]
        /\ Goto(p, "wait")
        /\ UNCHANGED lock
     \/ /\ forward[on[p]] = 0 \/ StorageFails
        /\ Goto(p, "idle")
        /\ lock' = Nobody
        /\ UNCHANGED found
  /\ UNCHANGED <<envVars, taskVars, index, on, mine, rotation, used>>

\* Mutant: the lock is released before the index is told.
RegisterFirst(p) ==
  /\ at[p] = "wait" /\ found[p] \in tracks
  /\ Len(tasks) < MaxTask
  /\ tasks' = Append(tasks, [stream |-> on[p], second |-> key[p], forward |-> found[p]])
  /\ TASKS' = [TASKS EXCEPT ![on[p]] = Len(tasks')]
  /\ Goto(p, "index")
  /\ lock' = Nobody
  /\ UNCHANGED <<envVars, ended, signalled, index, on, key, found, mine, rotation, used>>

\* ... its loop that waits for a track of the forward it has found (which it
\* keeps alive, so that waiting never fails) and the task it then spawns.
WaitTracks(p) ==
  /\ at[p] = "wait" /\ found[p] \in tracks
  /\ Len(tasks) < MaxTask
  /\ tasks' = Append(tasks, [stream |-> on[p], second |-> key[p], forward |-> found[p]])
  /\ TASKS' = [TASKS EXCEPT ![on[p]] = Len(tasks')]
  /\ Goto(p, "index")
  /\ UNCHANGED <<envVars, ended, signalled, lock, index, on, key, found, mine, rotation, used>>

\* update_index_on_start, and the lock is released.
IndexStart(p) ==
  /\ at[p] = "index"
  /\ index' = [index EXCEPT ![<<on[p], key[p]>>] = "Active"]
  /\ lock' = IF lock = p THEN Nobody ELSE lock
  /\ Goto(p, "idle")
  /\ UNCHANGED <<envVars, taskVars, on, key, found, mine, rotation, used>>

--------------------------------------------------------------------------------
(* stop, and the Down branch of the event loop, which does the same.       *)

Stop(p) ==
  /\ at[p] = "stop" /\ lock = Nobody
  /\ TASKS' = [TASKS EXCEPT ![on[p]] = 0]
  /\ mine' = [mine EXCEPT ![p] = TASKS[on[p]]]
  /\ signalled' = signalled \cup ({TASKS[on[p]]} \ {0})
  /\ Goto(p, IF TASKS[on[p]] = 0 THEN "idle" ELSE "join")
  /\ UNCHANGED <<envVars, tasks, ended, lock, index, on, key, found, rotation, used>>

\* RecordingTask::stop awaits the end of the task.
Join(p) ==
  /\ at[p] = "join" /\ mine[p] \in ended
  /\ Goto(p, "complete")
  /\ UNCHANGED <<envVars, taskVars, lock, index, on, key, found, mine, rotation, used>>

\* update_index_on_stop, with Failed for a task that panicked; update_status
\* does nothing for an unknown key.
IndexStop(p) ==
  /\ at[p] = "complete"
  /\ LET k == <<on[p], tasks[mine[p]].second>> IN
     \E status \in {"Completed", "Failed"} :
       index' = [index EXCEPT ![k] = IF @ = "absent" THEN @ ELSE status]
  /\ Goto(p, "idle")
  /\ UNCHANGED <<envVars, taskVars, lock, on, key, found, mine, rotation, used>>

\* The task's loop ends when it is told to, when its receivers are closed with
\* the tracks, or when one lags behind, which it takes for the same.
TaskEnds(n) ==
  /\ n \in TaskId \ ended
  /\ ended' = ended \cup {n}
  /\ UNCHANGED <<envVars, TASKS, tasks, signalled, lock, index, procVars, rotation, used>>

--------------------------------------------------------------------------------
(* Who calls start and stop.                                               *)

Calls(p, where, s) ==
  /\ Goto(p, where)
  /\ on' = [on EXCEPT ![p] = s]
  /\ UNCHANGED <<key, found, mine>>

\* POST and DELETE /api/record/{stream}.
Request(p, where, s) ==
  /\ at[p] = "idle" /\ p \notin used
  /\ used' = used \cup {p}
  /\ Calls(p, where, s)
  /\ UNCHANGED <<envVars, taskVars, lock, index, rotation>>

\* The loop of init: one event at a time; Err(Lagged) ends it.
EventLoop ==
  /\ at[Loop] = "idle" /\ events # <<>>
  /\ \/ /\ lagged
        /\ Goto(Loop, "ended")
        /\ UNCHANGED <<events, on, key, found, mine>>
     \/ /\ ~lagged
        /\ events' = Tail(events)
        /\ LET e == Head(events) IN
           \/ e[1] = "Up" /\ e[2] \in AutoRecord /\ Calls(Loop, "start", e[2])
           \/ e[1] = "Down" /\ Calls(Loop, "stop", e[2])
           \/ /\ e[1] = "Other" \/ (e[1] = "Up" /\ e[2] \notin AutoRecord)
              /\ UNCHANGED procVars
  /\ UNCHANGED <<now, forward, made, tracks, changes, lagged, taskVars, lock, index,
                 rotation, used>>

\* enforce_max_duration: the candidates under the read lock, ...
RotationScan ==
  /\ MaxRecording > 0
  /\ at[Rotation] = "idle" /\ lock = Nobody
  /\ rotation = [stop |-> {}, start |-> {}]
  /\ LET old == {s \in Stream : TASKS[s] # 0 /\ now - tasks[TASKS[s]].second >= MaxRecording}
     IN old # {} /\ rotation' = [stop |-> old, start |-> old]
  /\ UNCHANGED <<envVars, taskVars, lock, index, procVars, used>>

\* ... then stop for each of them, then start.
RotationStep ==
  /\ at[Rotation] = "idle"
  /\ \/ \E s \in rotation.stop :
          /\ rotation' = [rotation EXCEPT !.stop = @ \ {s}]
          /\ Calls(Rotation, "stop", s)
     \/ /\ rotation.stop = {}
        /\ \E s \in rotation.start :
             /\ rotation' = [rotation EXCEPT !.start = @ \ {s}]
             /\ Calls(Rotation, "start", s)
  /\ UNCHANGED <<envVars, taskVars, lock, index, used>>

--------------------------------------------------------------------------------
ProcessStep(p) ==
  Start(p) \/ Spawn(p) \/ WaitTracks(p) \/ IndexStart(p) \/ Stop(p) \/ Join(p) \/ IndexStop(p)

Next ==
  \/ Passes
  \/ \E s \in Stream : StreamUp(s) \/ StreamDown(s) \/ PublishUp(s) \/ PublishDown(s)
  \/ \E p \in Process : ProcessStep(p)
  \/ \E n \in TaskId : TaskEnds(n)
  \/ \E p \in Caller, s \in Stream : Request(p, "start", s) \/ Request(p, "stop", s)
  \/ EventLoop
  \/ RotationScan \/ RotationStep

Spec == Init /\ [][Next]_vars

\* tokio runs every task that can proceed; a recording task ends once it is
\* told to or has lost its tracks.
Fairness ==
  /\ \A p \in Process : WF_vars(ProcessStep(p))
  /\ WF_vars(EventLoop) /\ WF_vars(RotationScan) /\ WF_vars(RotationStep)
  /\ \A n \in 1..MaxTask :
       WF_vars(/\ n \in TaskId /\ (n \in signalled \/ tasks[n].forward \notin tracks)
               /\ TaskEnds(n))

FairSpec == Spec /\ Fairness

--------------------------------------------------------------------------------
(* Properties.                                                             *)

\* Every recording task that runs is registered in TASKS, or has been told to
\* stop: however the API, the event loop and the rotation interleave, no task
\* is replaced in the map and left recording where nobody can stop it.
NoOrphanTask ==
  \A n \in TaskId \ ended : TASKS[tasks[n].stream] = n \/ n \in signalled

\* In one run of the process, and with handlers that run to their end, an index
\* entry is Active only while its recording is registered in TASKS or a stop
\* that took it out has still to write the status: no order of the writes of
\* start and stop leaves an entry Active that TASKS no longer knows.  It does
\* not say that the entry is ever taken down: a recording that ended by itself
\* stays registered and Active (EndedTaskForgotten), and so does the entry of a
\* process that was restarted or of a stop whose client hung up.
ActiveIsRegistered ==
  \A k \in Key : index[k] = "Active" =>
    \E n \in TaskId :
      /\ <<tasks[n].stream, tasks[n].second>> = k
      /\ \/ TASKS[k[1]] = n
         \/ \E p \in Process : at[p] \in {"join", "complete"} /\ mine[p] = n

\* mod.rs, is_recording: "Check whether a stream is currently being recorded on
\* this node".  So a task that has ended does not stay registered for ever.  It
\* does: when the publisher leaves, the task ends, and only a stop or the end
\* of the stream takes it out of TASKS; start then returns the dead recording.
EndedTaskForgotten ==
  \A n \in 1..MaxTask :
    (n \in ended /\ \E s \in Stream : TASKS[s] = n) ~> ~ \E s \in Stream : TASKS[s] = n
================================================================================

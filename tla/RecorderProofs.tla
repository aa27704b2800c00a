----------------------------- MODULE RecorderProofs ----------------------------
(***************************************************************************)
(* The recorder never loses a running task, and the index never shows a    *)
(* recording as active that nobody will complete: for any streams, API     *)
(* requests, rotation period and interleaving.                             *)
(*                                                                         *)
(* The argument is the write lock of TASKS: a process between its look at  *)
(* the map and its entry in the index holds it, so that what it has seen   *)
(* there still holds when it registers its task and writes the entry.      *)
(***************************************************************************)
EXTENDS Recorder, SequenceTheorems, TLAPS

Place == {"idle", "ended", "start", "spawn", "wait", "index", "stop", "join", "complete"}
Recording == [stream : Stream, second : 0..MaxTime, forward : Nat]
Event == {"Up", "Down", "Other"} \X Stream

RecTypes ==
  /\ now \in 0..MaxTime
  /\ forward \in [Stream -> Nat] /\ made \in Nat
  /\ TASKS \in [Stream -> Nat] /\ tasks \in Seq(Recording)
  /\ index \in [Key -> {"absent", "Active", "Completed", "Failed"}]
  /\ at \in [Process -> Place]
  /\ on \in [Process -> Stream \cup {CHOOSE s \in Stream : TRUE}]
  /\ key \in [Process -> 0..MaxTime]
  /\ found \in [Process -> Nat] /\ mine \in [Process -> Nat]
  /\ events \in Seq(Event)
  /\ rotation \in [stop : SUBSET Stream, start : SUBSET Stream]

\* A process in start or stop has been given a stream.
OnInv == \A p \in Process : at[p] \notin {"idle", "ended"} => on[p] \in Stream

\* A registered task is one of its stream's; every other has been told to stop.
TaskInv ==
  /\ \A s \in Stream : TASKS[s] # 0 => TASKS[s] \in TaskId /\ tasks[TASKS[s]].stream = s
  /\ \A n \in TaskId : TASKS[tasks[n].stream] = n \/ n \in signalled

\* From its look at TASKS to its entry in the index a start keeps the lock, and
\* what it has seen or written in the map stays.
StartInv ==
  \A p \in Process :
    /\ at[p] \in {"spawn", "wait", "index"} => lock = p
    /\ at[p] \in {"spawn", "wait"} => TASKS[on[p]] = 0
    /\ at[p] = "index" => TASKS[on[p]] \in TaskId /\ tasks[TASKS[on[p]]].second = key[p]

\* A stop that waits for its task knows it by a stream and a record id.
StopInv ==
  \A p \in Process : at[p] \in {"join", "complete"} =>
    mine[p] \in TaskId /\ tasks[mine[p]].stream = on[p]

RecInv == RecTypes /\ OnInv /\ TaskInv /\ StartInv /\ StopInv /\ ActiveIsRegistered

LEMMA Constants ==
  /\ Nobody \notin Process /\ Loop \in Process /\ Rotation \in Process /\ Caller \subseteq Process
  /\ MaxTime \in Nat /\ EventCapacity \in Nat /\ EventCapacity > 0 /\ 0 \in 0..MaxTime
<1>1. MaxTime \in Nat /\ EventCapacity \in Nat /\ EventCapacity > 0 /\ Nobody \notin Caller
  BY RecorderAssumption
<1>2. Nobody # Loop /\ Nobody # Rotation
  BY DEF Nobody, Loop, Rotation
<1>3. 0 \in 0..MaxTime
  BY <1>1
<1>. QED BY <1>1, <1>2, <1>3 DEF Process

LEMMA RecordingType ==
  ASSUME RecTypes, NEW n \in TaskId
  PROVE  tasks[n].stream \in Stream /\ tasks[n].second \in 0..MaxTime
<1>1. tasks[n] \in Recording
  BY DEF RecTypes, TaskId
<1>. QED BY <1>1 DEF Recording

LEMMA RecInit == Init => RecInv
<1> SUFFICES ASSUME Init PROVE RecInv
  OBVIOUS
<1>1. RecTypes
  BY Constants DEF Init, RecTypes, Place
<1>2. TaskId = {} /\ \A p \in Process : at[p] = "idle"
  BY DEF Init, TaskId
<1>3. \A k \in Key : index[k] # "Active"
  BY DEF Init
<1>4. \A s \in Stream : TASKS[s] = 0
  BY DEF Init
<1>. QED BY <1>1, <1>2, <1>3, <1>4
         DEF RecInv, OnInv, TaskInv, StartInv, StopInv, ActiveIsRegistered

--------------------------------------------------------------------------------
(* Steps that leave the tasks and the index alone: the environment, and    *)
(* whatever hands a stream to an idle process.                             *)

LEMMA Aside ==
  ASSUME RecInv, RecTypes',
         TASKS' = TASKS, tasks' = tasks, signalled' = signalled, lock' = lock, index' = index,
         key' = key, mine' = mine,
         \A p \in Process :
           \/ at'[p] = at[p] /\ on'[p] = on[p]
           \/ at[p] = "idle" /\ at'[p] = "ended"
           \/ at[p] = "idle" /\ at'[p] \in {"start", "stop"} /\ on'[p] \in Stream
  PROVE  RecInv'
<1>1. OnInv'
  BY DEF RecInv, OnInv
<1>2. TaskInv'
  BY DEF RecInv, TaskInv, TaskId
<1>3. StartInv'
  <2> SUFFICES ASSUME NEW p \in Process, at'[p] \in {"spawn", "wait", "index"}
               PROVE  /\ lock' = p
                      /\ at'[p] \in {"spawn", "wait"} => TASKS'[on'[p]] = 0
                      /\ at'[p] = "index" => TASKS'[on'[p]] \in TaskId' /\ tasks'[TASKS'[on'[p]]].second = key'[p]
    BY DEF StartInv
  <2>1. at'[p] = at[p] /\ on'[p] = on[p]
    OBVIOUS
  <2>. QED BY <2>1 DEF RecInv, StartInv, TaskId
<1>4. StopInv'
  <2> SUFFICES ASSUME NEW p \in Process, at'[p] \in {"join", "complete"}
               PROVE  mine'[p] \in TaskId' /\ tasks'[mine'[p]].stream = on'[p]
    BY DEF StopInv
  <2>1. at'[p] = at[p] /\ on'[p] = on[p]
    OBVIOUS
  <2>. QED BY <2>1 DEF RecInv, StopInv, TaskId
<1>5. ActiveIsRegistered'
  <2> SUFFICES ASSUME NEW k \in Key, index[k] = "Active"
               PROVE  \E n \in TaskId :
                        /\ <<tasks[n].stream, tasks[n].second>> = k
                        /\ \/ TASKS[k[1]] = n
                           \/ \E p \in Process : at'[p] \in {"join", "complete"} /\ mine[p] = n
    BY DEF ActiveIsRegistered, TaskId
  <2>1. PICK n \in TaskId :
          /\ <<tasks[n].stream, tasks[n].second>> = k
          /\ \/ TASKS[k[1]] = n
             \/ \E p \in Process : at[p] \in {"join", "complete"} /\ mine[p] = n
    BY DEF RecInv, ActiveIsRegistered
  <2>2. \A p \in Process : at[p] \in {"join", "complete"} => at'[p] = at[p]
    OBVIOUS
  <2>. QED BY <2>1, <2>2
<1>. QED BY <1>1, <1>2, <1>3, <1>4, <1>5 DEF RecInv

LEMMA SendType ==
  ASSUME RecTypes, NEW e \in Event, Send(e)
  PROVE  events' \in Seq(Event)
<1>1. events \in Seq(Event) /\ Len(events) \in Nat
  BY DEF RecTypes
<1>2. CASE Len(events) < EventCapacity
  BY <1>1, <1>2, AppendProperties DEF Send
<1>3. CASE ~(Len(events) < EventCapacity)
  <2>1. events # <<>>
    BY <1>1, <1>3, Constants
  <2>2. Tail(events) \in Seq(Event)
    BY <1>1, <2>1, HeadTailProperties
  <2>. QED BY <1>3, <2>2, AppendProperties DEF Send
<1>. QED BY <1>2, <1>3

LEMMA EnvironmentSteps ==
  ASSUME RecInv,
         \/ Passes
         \/ \E s \in Stream : StreamUp(s) \/ StreamDown(s) \/ PublishUp(s) \/ PublishDown(s)
         \/ \E n \in TaskId : TaskEnds(n)
         \/ RotationScan
  PROVE  RecInv'
<1>. RecTypes
  BY DEF RecInv
<1>1. CASE Passes
  <2>1. now' \in 0..MaxTime
    BY <1>1, Constants DEF Passes, RecTypes
  <2>2. RecTypes'
    BY <1>1, <2>1 DEF Passes, RecTypes, taskVars, procVars
  <2>. QED BY <1>1, <2>2, Aside DEF Passes, taskVars, procVars
<1>2. ASSUME NEW s \in Stream, StreamUp(s) \/ StreamDown(s) \/ PublishUp(s) \/ PublishDown(s)
      PROVE  RecInv'
  <2>0. UNCHANGED <<now, taskVars, lock, index, procVars, rotation>>
    BY <1>2 DEF StreamUp, StreamDown, PublishUp, PublishDown
  <2>1. forward' \in [Stream -> Nat] /\ made' \in Nat
    <3>1. CASE StreamUp(s) BY <3>1 DEF StreamUp, RecTypes
    <3>2. CASE StreamDown(s) BY <3>2 DEF StreamDown, RecTypes
    <3>3. CASE PublishUp(s) \/ PublishDown(s) BY <3>3 DEF PublishUp, PublishDown, RecTypes
    <3>. QED BY <1>2, <3>1, <3>2, <3>3
  <2>2. events' \in Seq(Event)
    <3>1. <<"Up", s>> \in Event /\ <<"Down", s>> \in Event /\ <<"Other", s>> \in Event
      BY DEF Event
    <3>. QED BY <1>2, <3>1, SendType DEF StreamUp, StreamDown, PublishUp, PublishDown
  <2>3. RecTypes'
    BY <2>0, <2>1, <2>2 DEF RecTypes, taskVars, procVars
  <2>. QED BY <2>0, <2>3, Aside DEF taskVars, procVars
<1>3. ASSUME NEW n \in TaskId, TaskEnds(n) PROVE RecInv'
  <2>1. RecTypes'
    BY <1>3 DEF TaskEnds, RecTypes, envVars, procVars
  <2>. QED BY <1>3, <2>1, Aside DEF TaskEnds, procVars
<1>4. CASE RotationScan
  <2>1. rotation' \in [stop : SUBSET Stream, start : SUBSET Stream]
    BY <1>4 DEF RotationScan
  <2>2. RecTypes'
    BY <1>4, <2>1 DEF RotationScan, RecTypes, envVars, taskVars, procVars
  <2>. QED BY <1>4, <2>2, Aside DEF RotationScan, taskVars, procVars
<1>. QED BY <1>1, <1>2, <1>3, <1>4

\* A stream is handed to an idle process.
LEMMA CallsAside ==
  ASSUME RecTypes, NEW p \in Process, NEW w \in {"start", "stop"}, NEW s \in Stream,
         at[p] = "idle", Calls(p, w, s)
  PROVE  /\ key' = key /\ found' = found /\ mine' = mine
         /\ at' \in [Process -> Place]
         /\ on' \in [Process -> Stream \cup {CHOOSE x \in Stream : TRUE}]
         /\ \A q \in Process :
              \/ at'[q] = at[q] /\ on'[q] = on[q]
              \/ at[q] = "idle" /\ at'[q] \in {"start", "stop"} /\ on'[q] \in Stream
BY DEF Calls, Goto, RecTypes, Place

LEMMA CallerSteps ==
  ASSUME RecInv,
         \/ \E p \in Caller, s \in Stream : Request(p, "start", s) \/ Request(p, "stop", s)
         \/ EventLoop
         \/ RotationStep
  PROVE  RecInv'
<1>. RecTypes
  BY DEF RecInv
<1>1. ASSUME NEW p \in Caller, NEW s \in Stream, NEW w \in {"start", "stop"}, Request(p, w, s)
      PROVE  RecInv'
  <2>1. p \in Process /\ at[p] = "idle" /\ Calls(p, w, s)
    BY <1>1, Constants DEF Request
  <2>2. RecTypes'
    BY <1>1, <2>1, CallsAside DEF Request, RecTypes, envVars, taskVars
  <2>3. \A q \in Process :
              \/ at'[q] = at[q] /\ on'[q] = on[q]
              \/ at[q] = "idle" /\ at'[q] \in {"start", "stop"} /\ on'[q] \in Stream
    BY <2>1, CallsAside
  <2>4. key' = key /\ mine' = mine
    BY <2>1, CallsAside
  <2>. QED BY <1>1, <2>2, <2>3, <2>4, Aside DEF Request, taskVars
<1>2. CASE EventLoop
  <2>1. /\ UNCHANGED <<now, forward, made, taskVars, lock, index, rotation>>
        /\ at[Loop] = "idle" /\ events \in Seq(Event) /\ events # <<>>
    BY <1>2 DEF EventLoop, RecTypes
  <2>2. Head(events) \in Event /\ Tail(events) \in Seq(Event)
    BY <2>1, HeadTailProperties
  <2>3. CASE Goto(Loop, "ended") /\ UNCHANGED <<events, on, key, found, mine>>
    <3>1. RecTypes'
      BY <2>1, <2>3, Constants DEF Goto, RecTypes, taskVars, Place
    <3>2. \A q \in Process :
            \/ at'[q] = at[q] /\ on'[q] = on[q]
            \/ at[q] = "idle" /\ at'[q] = "ended"
      BY <2>1, <2>3 DEF Goto, RecTypes
    <3>. QED BY <2>1, <2>3, <3>1, <3>2, Aside DEF taskVars
  <2>4. CASE events' = Tail(events) /\ UNCHANGED procVars
    <3>1. RecTypes'
      BY <2>1, <2>2, <2>4 DEF RecTypes, taskVars, procVars
    <3>. QED BY <2>1, <2>4, <3>1, Aside DEF taskVars, procVars
  <2>5. ASSUME NEW w \in {"start", "stop"}, NEW s \in Stream,
               events' = Tail(events), Calls(Loop, w, s)
        PROVE  RecInv'
    <3>1. RecTypes'
      BY <2>1, <2>2, <2>5, Constants, CallsAside DEF RecTypes, taskVars
    <3>2. \A q \in Process :
              \/ at'[q] = at[q] /\ on'[q] = on[q]
              \/ at[q] = "idle" /\ at'[q] \in {"start", "stop"} /\ on'[q] \in Stream
      BY <2>1, <2>5, Constants, CallsAside
    <3>3. key' = key /\ mine' = mine
      BY <2>1, <2>5, Constants, CallsAside
    <3>. QED BY <2>1, <3>1, <3>2, <3>3, Aside DEF taskVars
  <2>6. PICK e \in Event : e = Head(events)
    BY <2>2
  <2>7. e[2] \in Stream
    BY DEF Event
  <2>8. \/ Goto(Loop, "ended") /\ UNCHANGED <<events, on, key, found, mine>>
        \/ events' = Tail(events) /\ UNCHANGED procVars
        \/ events' = Tail(events) /\ (Calls(Loop, "start", e[2]) \/ Calls(Loop, "stop", e[2]))
    BY <1>2, <2>6 DEF EventLoop
  <2>. QED BY <2>3, <2>4, <2>5, <2>7, <2>8
<1>3. CASE RotationStep
  <2>1. /\ UNCHANGED <<envVars, taskVars, lock, index, used>> /\ at[Rotation] = "idle"
        /\ rotation' \in [stop : SUBSET Stream, start : SUBSET Stream]
    BY <1>3 DEF RotationStep, RecTypes
  <2>2. PICK s \in Stream : Calls(Rotation, "start", s) \/ Calls(Rotation, "stop", s)
    BY <1>3 DEF RotationStep, RecTypes
  <2>3. PICK w \in {"start", "stop"} : Calls(Rotation, w, s)
    BY <2>2
  <2>4. RecTypes'
    BY <2>1, <2>3, Constants, CallsAside DEF RecTypes, envVars, taskVars
  <2>5. \A q \in Process :
              \/ at'[q] = at[q] /\ on'[q] = on[q]
              \/ at[q] = "idle" /\ at'[q] \in {"start", "stop"} /\ on'[q] \in Stream
    BY <2>1, <2>3, Constants, CallsAside
  <2>6. key' = key /\ mine' = mine
    BY <2>1, <2>3, Constants, CallsAside
  <2>. QED BY <2>1, <2>4, <2>5, <2>6, Aside DEF taskVars
<1>. QED BY <1>1, <1>2, <1>3

--------------------------------------------------------------------------------
(* start and stop.                                                         *)

\* Whoever finds the lock free, or has it, is alone in start.
LEMMA Alone ==
  ASSUME StartInv, NEW p \in Process, lock = Nobody \/ lock = p
  PROVE  \A q \in Process : q # p => at[q] \notin {"spawn", "wait", "index"}
BY Constants DEF StartInv

\* The parts that a step of p within start or stop cannot disturb while the map,
\* the tasks and the index stay as they are.
LEMMA Within ==
  ASSUME RecInv, NEW p \in Process, at[p] \notin {"idle", "ended"},
         NEW w \in Place, at' = [at EXCEPT ![p] = w],
         w \in {"join", "complete"} => at[p] = "join",
         at[p] = "join" => w = "complete", at[p] # "complete",
         TASKS' = TASKS, tasks' = tasks, signalled' = signalled, index' = index,
         on' = on, mine' = mine
  PROVE  OnInv' /\ TaskInv' /\ StopInv' /\ ActiveIsRegistered'
<1>. RecTypes
  BY DEF RecInv
<1>1. \A q \in Process : at'[q] = IF q = p THEN w ELSE at[q]
  BY DEF RecTypes
<1>2. OnInv'
  BY <1>1 DEF RecInv, OnInv
<1>3. TaskInv'
  BY DEF RecInv, TaskInv, TaskId
<1>4. StopInv'
  <2> SUFFICES ASSUME NEW q \in Process, at'[q] \in {"join", "complete"}
               PROVE  mine[q] \in TaskId /\ tasks[mine[q]].stream = on[q]
    BY DEF StopInv, TaskId
  <2>1. at[q] \in {"join", "complete"}
    BY <1>1
  <2>. QED BY <2>1 DEF RecInv, StopInv
<1>5. ActiveIsRegistered'
  <2> SUFFICES ASSUME NEW k \in Key, index[k] = "Active"
               PROVE  \E n \in TaskId :
                        /\ <<tasks[n].stream, tasks[n].second>> = k
                        /\ \/ TASKS[k[1]] = n
                           \/ \E q \in Process : at'[q] \in {"join", "complete"} /\ mine[q] = n
    BY DEF ActiveIsRegistered, TaskId
  <2>1. PICK n \in TaskId :
          /\ <<tasks[n].stream, tasks[n].second>> = k
          /\ \/ TASKS[k[1]] = n
             \/ \E q \in Process : at[q] \in {"join", "complete"} /\ mine[q] = n
    BY DEF RecInv, ActiveIsRegistered
  <2>2. \A q \in Process : at[q] \in {"join", "complete"} => at'[q] \in {"join", "complete"}
    BY <1>1
  <2>. QED BY <2>1, <2>2
<1>. QED BY <1>2, <1>3, <1>4, <1>5

LEMMA StartStep ==
  ASSUME RecInv, NEW p \in Process, Start(p)
  PROVE  RecInv'
<1>. RecTypes /\ StartInv
  BY DEF RecInv
<1>1. /\ at[p] = "start" /\ lock = Nobody
      /\ UNCHANGED <<envVars, taskVars, index, on, key, found, mine, rotation>>
  BY DEF Start
<1>2. \A q \in Process : q # p => at[q] \notin {"spawn", "wait", "index"}
  BY <1>1, Alone
<1>3. PICK w \in {"idle", "spawn"} :
        /\ at' = [at EXCEPT ![p] = w]
        /\ w = "spawn" => lock' = p /\ TASKS[on[p]] = 0
  BY DEF Start, Goto
<1>4. RecTypes'
  BY <1>1, <1>3 DEF RecTypes, Place, envVars, taskVars
<1>5. OnInv' /\ TaskInv' /\ StopInv' /\ ActiveIsRegistered'
  <2>1. w \in Place
    BY DEF Place
  <2>. QED BY <1>1, <1>3, <2>1, Within DEF taskVars
<1>6. StartInv'
  <2>1. \A q \in Process : at'[q] = IF q = p THEN w ELSE at[q]
    BY <1>3 DEF RecTypes
  <2>. QED BY <1>1, <1>2, <1>3, <2>1 DEF StartInv, taskVars
<1>. QED BY <1>4, <1>5, <1>6 DEF RecInv

LEMMA SpawnStep ==
  ASSUME RecInv, NEW p \in Process, Spawn(p)
  PROVE  RecInv'
<1>. RecTypes /\ StartInv
  BY DEF RecInv
<1>1. /\ at[p] = "spawn" /\ key' = [key EXCEPT ![p] = now]
      /\ UNCHANGED <<envVars, taskVars, index, on, mine, rotation>>
  BY DEF Spawn
<1>2. /\ lock = p /\ TASKS[on[p]] = 0
      /\ \A q \in Process : q # p => at[q] \notin {"spawn", "wait", "index"}
  BY <1>1, Alone DEF StartInv
<1>3. PICK w \in {"idle", "wait"} :
        /\ at' = [at EXCEPT ![p] = w]
        /\ w = "wait" => lock' = p
  BY <1>2 DEF Spawn, Goto
<1>4. found' \in [Process -> Nat] /\ on[p] \in Stream
  BY <1>1 DEF Spawn, RecTypes, RecInv, OnInv
<1>5. RecTypes'
  BY <1>1, <1>3, <1>4 DEF RecTypes, Place, envVars, taskVars
<1>6. OnInv' /\ TaskInv' /\ StopInv' /\ ActiveIsRegistered'
  <2>1. w \in Place
    BY DEF Place
  <2>. QED BY <1>1, <1>3, <2>1, Within DEF taskVars
<1>7. StartInv'
  <2>1. \A q \in Process : at'[q] = IF q = p THEN w ELSE at[q]
    BY <1>3 DEF RecTypes
  <2>. QED BY <1>1, <1>2, <1>3, <2>1 DEF StartInv, taskVars
<1>. QED BY <1>5, <1>6, <1>7 DEF RecInv

LEMMA JoinStep ==
  ASSUME RecInv, NEW p \in Process, Join(p)
  PROVE  RecInv'
<1>. RecTypes /\ StartInv
  BY DEF RecInv
<1>1. /\ at[p] = "join" /\ at' = [at EXCEPT ![p] = "complete"]
      /\ UNCHANGED <<envVars, taskVars, lock, index, on, key, found, mine, rotation>>
  BY DEF Join, Goto
<1>2. RecTypes'
  BY <1>1 DEF RecTypes, Place, envVars, taskVars
<1>3. OnInv' /\ TaskInv' /\ StopInv' /\ ActiveIsRegistered'
  <2>1. "complete" \in Place
    BY DEF Place
  <2>. QED BY <1>1, <2>1, Within DEF taskVars
<1>4. StartInv'
  <2> SUFFICES ASSUME NEW q \in Process, at'[q] \in {"spawn", "wait", "index"}
               PROVE  /\ lock = q
                      /\ at'[q] \in {"spawn", "wait"} => TASKS[on[q]] = 0
                      /\ at'[q] = "index" => TASKS[on[q]] \in TaskId /\ tasks[TASKS[on[q]]].second = key[q]
    BY <1>1 DEF StartInv, TaskId, taskVars
  <2>1. at'[q] = at[q]
    BY <1>1 DEF RecTypes
  <2>. QED BY <2>1 DEF StartInv
<1>. QED BY <1>2, <1>3, <1>4 DEF RecInv

\* The task is registered: its stream had none.
LEMMA WaitTracksStep ==
  ASSUME RecInv, NEW p \in Process, WaitTracks(p)
  PROVE  RecInv'
<1>. RecTypes /\ StartInv
  BY DEF RecInv
<1>1. /\ at[p] = "wait" /\ at' = [at EXCEPT ![p] = "index"]
      /\ UNCHANGED <<envVars, signalled, lock, index, on, key, found, mine, rotation>>
  BY DEF WaitTracks, Goto
<1>2. /\ lock = p /\ TASKS[on[p]] = 0 /\ on[p] \in Stream
      /\ \A q \in Process : q # p => at[q] \notin {"spawn", "wait", "index"}
  BY <1>1, Alone DEF StartInv, RecInv, OnInv
<1>3. PICK r : r = [stream |-> on[p], second |-> key[p], forward |-> found[p]]
  OBVIOUS
<1>4. r \in Recording /\ r.stream = on[p] /\ r.second = key[p]
  BY <1>2, <1>3 DEF Recording, RecTypes
<1>5. PICK m \in Nat : m = Len(tasks)
  BY DEF RecTypes
<1>6. /\ tasks' \in Seq(Recording) /\ Len(tasks') = m + 1 /\ tasks'[m + 1] = r
      /\ \A n \in 1..m : tasks'[n] = tasks[n]
      /\ TaskId = 1..m /\ TaskId' = 1..(m + 1)
  <2>1. tasks' = Append(tasks, r) /\ tasks \in Seq(Recording)
    BY <1>3 DEF WaitTracks, RecTypes
  <2>. QED BY <2>1, <1>4, <1>5, AppendProperties DEF TaskId
<1>7. TASKS' = [TASKS EXCEPT ![on[p]] = m + 1]
  BY <1>6 DEF WaitTracks
<1>8. \A s \in Stream : TASKS'[s] = IF s = on[p] THEN m + 1 ELSE TASKS[s]
  BY <1>7 DEF RecTypes
<1>9. \A q \in Process : at'[q] = IF q = p THEN "index" ELSE at[q]
  BY <1>1 DEF RecTypes
<1>10. RecTypes'
  <2>1. TASKS' \in [Stream -> Nat]
    <3>1. m + 1 \in Nat
      OBVIOUS
    <3>2. TASKS \in [Stream -> Nat]
      BY DEF RecTypes
    <3>. QED BY <3>1, <3>2, <1>2, <1>7
  <2>. QED BY <1>1, <1>6, <2>1 DEF RecTypes, Place, envVars
<1>11. OnInv'
  BY <1>1, <1>2, <1>9 DEF RecInv, OnInv
<1>12. TaskInv'
  <2>1. ASSUME NEW s \in Stream, TASKS'[s] # 0
        PROVE  TASKS'[s] \in TaskId' /\ tasks'[TASKS'[s]].stream = s
    <3>1. CASE s = on[p]
      BY <3>1, <1>4, <1>6, <1>8
    <3>2. CASE s # on[p]
      BY <2>1, <3>2, <1>6, <1>8 DEF RecInv, TaskInv
    <3>. QED BY <3>1, <3>2
  <2>2. ASSUME NEW n \in TaskId' PROVE TASKS'[tasks'[n].stream] = n \/ n \in signalled'
    <3>1. CASE n = m + 1
      BY <3>1, <1>2, <1>4, <1>6, <1>8
    <3>2. CASE n # m + 1
      <4>1. n \in TaskId /\ tasks'[n] = tasks[n] /\ n # 0
        BY <3>2, <1>6
      <4>2. tasks[n].stream \in Stream
        BY <4>1, RecordingType
      <4>3. TASKS[tasks[n].stream] = n \/ n \in signalled
        BY <4>1 DEF RecInv, TaskInv
      <4>. QED BY <4>1, <4>2, <4>3, <1>1, <1>2, <1>8
    <3>. QED BY <3>1, <3>2
  <2>. QED BY <2>1, <2>2 DEF TaskInv
<1>13. StartInv'
  <2>1. at'[p] = "index" /\ lock' = p /\ TASKS'[on'[p]] = m + 1 /\ tasks'[m + 1].second = key'[p]
        /\ m + 1 \in TaskId'
    BY <1>1, <1>2, <1>4, <1>6, <1>8, <1>9
  <2>2. \A q \in Process : q # p => at'[q] \notin {"spawn", "wait", "index"}
    BY <1>2, <1>9
  <2>. QED BY <2>1, <2>2 DEF StartInv
<1>14. StopInv'
  <2> SUFFICES ASSUME NEW q \in Process, at'[q] \in {"join", "complete"}
               PROVE  mine'[q] \in TaskId' /\ tasks'[mine'[q]].stream = on'[q]
    BY DEF StopInv
  <2>1. at[q] \in {"join", "complete"}
    BY <1>9
  <2>2. mine[q] \in TaskId /\ tasks[mine[q]].stream = on[q]
    BY <2>1 DEF RecInv, StopInv
  <2>. QED BY <2>2, <1>1, <1>6
<1>15. ActiveIsRegistered'
  <2> SUFFICES ASSUME NEW k \in Key, index[k] = "Active"
               PROVE  \E n \in TaskId' :
                        /\ <<tasks'[n].stream, tasks'[n].second>> = k
                        /\ \/ TASKS'[k[1]] = n
                           \/ \E q \in Process : at'[q] \in {"join", "complete"} /\ mine[q] = n
    BY <1>1 DEF ActiveIsRegistered
  <2>1. PICK n \in TaskId :
          /\ <<tasks[n].stream, tasks[n].second>> = k
          /\ \/ TASKS[k[1]] = n
             \/ \E q \in Process : at[q] \in {"join", "complete"} /\ mine[q] = n
    BY DEF RecInv, ActiveIsRegistered
  <2>2. n \in TaskId' /\ tasks'[n] = tasks[n] /\ n # 0
    BY <1>6
  <2>3. \A q \in Process : at[q] \in {"join", "complete"} => at'[q] \in {"join", "complete"}
    BY <1>1, <1>9
  <2>4. k[1] \in Stream
    BY DEF Key
  <2>5. TASKS[k[1]] = n => TASKS'[k[1]] = n
    BY <2>2, <2>4, <1>2, <1>8
  <2>. QED BY <2>1, <2>2, <2>3, <2>5
<1>. QED BY <1>10, <1>11, <1>12, <1>13, <1>14, <1>15 DEF RecInv

\* The entry is made for the task that is registered.
LEMMA IndexStartStep ==
  ASSUME RecInv, NEW p \in Process, IndexStart(p)
  PROVE  RecInv'
<1>. RecTypes /\ StartInv
  BY DEF RecInv
<1>1. /\ at[p] = "index" /\ at' = [at EXCEPT ![p] = "idle"]
      /\ index' = [index EXCEPT ![<<on[p], key[p]>>] = "Active"]
      /\ UNCHANGED <<envVars, taskVars, on, key, found, mine, rotation>>
  BY DEF IndexStart, Goto
<1>2. /\ TASKS[on[p]] \in TaskId /\ tasks[TASKS[on[p]]].second = key[p] /\ on[p] \in Stream
      /\ lock = p
      /\ \A q \in Process : q # p => at[q] \notin {"spawn", "wait", "index"}
  BY <1>1, Alone DEF StartInv, RecInv, OnInv
<1>3. <<on[p], key[p]>> \in Key
  BY <1>2 DEF Key, RecTypes
<1>4. RecTypes'
  BY <1>1, <1>3 DEF RecTypes, Place, envVars, taskVars
<1>5. \A q \in Process : at'[q] = IF q = p THEN "idle" ELSE at[q]
  BY <1>1 DEF RecTypes
<1>6. OnInv' /\ TaskInv'
  BY <1>1, <1>5 DEF RecInv, OnInv, TaskInv, TaskId, taskVars
<1>7. StartInv'
  BY <1>2, <1>5 DEF StartInv
<1>8. StopInv'
  BY <1>1, <1>5 DEF RecInv, StopInv, TaskId, taskVars
<1>9. ActiveIsRegistered'
  <2> SUFFICES ASSUME NEW k \in Key, index'[k] = "Active"
               PROVE  \E n \in TaskId :
                        /\ <<tasks[n].stream, tasks[n].second>> = k
                        /\ \/ TASKS[k[1]] = n
                           \/ \E q \in Process : at'[q] \in {"join", "complete"} /\ mine[q] = n
    BY <1>1 DEF ActiveIsRegistered, TaskId, taskVars
  <2>1. CASE k = <<on[p], key[p]>>
    <3>1. tasks[TASKS[on[p]]].stream = on[p]
      <4>1. TASKS[on[p]] # 0
        BY <1>2 DEF TaskId
      <4>. QED BY <4>1, <1>2 DEF RecInv, TaskInv
    <3>. QED BY <2>1, <3>1, <1>2
  <2>2. CASE k # <<on[p], key[p]>>
    <3>1. index[k] = "Active"
      BY <2>2, <1>1 DEF RecTypes
    <3>2. \A q \in Process : at[q] \in {"join", "complete"} => at'[q] \in {"join", "complete"}
      BY <1>1, <1>5
    <3>. QED BY <3>1, <3>2 DEF RecInv, ActiveIsRegistered
  <2>. QED BY <2>1, <2>2
<1>. QED BY <1>4, <1>6, <1>7, <1>8, <1>9 DEF RecInv

\* The task leaves the map, and p has it.
LEMMA StopStep ==
  ASSUME RecInv, NEW p \in Process, Stop(p)
  PROVE  RecInv'
<1>. RecTypes /\ StartInv
  BY DEF RecInv
<1>1. /\ at[p] = "stop" /\ lock = Nobody
      /\ TASKS' = [TASKS EXCEPT ![on[p]] = 0]
      /\ mine' = [mine EXCEPT ![p] = TASKS[on[p]]]
      /\ signalled' = signalled \cup ({TASKS[on[p]]} \ {0})
      /\ UNCHANGED <<envVars, tasks, ended, lock, index, on, key, found, rotation>>
  BY DEF Stop
<1>2. PICK w \in {"idle", "join"} :
        at' = [at EXCEPT ![p] = w] /\ (w = "idle" <=> TASKS[on[p]] = 0)
  BY DEF Stop, Goto
<1>3. on[p] \in Stream /\ \A q \in Process : at[q] \notin {"spawn", "wait", "index"}
  BY <1>1, Alone DEF RecInv, OnInv
<1>4. /\ \A q \in Process : at'[q] = IF q = p THEN w ELSE at[q]
      /\ \A q \in Process : mine'[q] = IF q = p THEN TASKS[on[p]] ELSE mine[q]
      /\ \A s \in Stream : TASKS'[s] = IF s = on[p] THEN 0 ELSE TASKS[s]
  BY <1>1, <1>2 DEF RecTypes
<1>5. RecTypes'
  <2>1. mine' \in [Process -> Nat] /\ TASKS' \in [Stream -> Nat] /\ at' \in [Process -> Place]
    BY <1>1, <1>2, <1>3 DEF RecTypes, Place
  <2>. QED BY <1>1, <2>1 DEF RecTypes, envVars
<1>6. OnInv'
  BY <1>1, <1>3, <1>4 DEF RecInv, OnInv
<1>7. TaskInv'
  <2>1. ASSUME NEW s \in Stream, TASKS'[s] # 0
        PROVE  TASKS'[s] \in TaskId' /\ tasks'[TASKS'[s]].stream = s
    BY <2>1, <1>1, <1>4 DEF RecInv, TaskInv, TaskId
  <2>2. ASSUME NEW n \in TaskId' PROVE TASKS'[tasks'[n].stream] = n \/ n \in signalled'
    <3>1. n \in TaskId /\ tasks' = tasks /\ n # 0
      BY <1>1 DEF TaskId
    <3>2. tasks[n].stream \in Stream
      BY <3>1, RecordingType
    <3>3. TASKS[tasks[n].stream] = n \/ n \in signalled
      BY <3>1 DEF RecInv, TaskInv
    <3>. QED BY <3>1, <3>2, <3>3, <1>1, <1>4
  <2>. QED BY <2>1, <2>2 DEF TaskInv
<1>8. StartInv'
  BY <1>3, <1>4 DEF StartInv
<1>9. StopInv'
  <2> SUFFICES ASSUME NEW q \in Process, at'[q] \in {"join", "complete"}
               PROVE  mine'[q] \in TaskId /\ tasks[mine'[q]].stream = on[q]
    BY <1>1 DEF StopInv, TaskId
  <2>1. CASE q = p
    BY <2>1, <1>2, <1>3, <1>4 DEF RecInv, TaskInv
  <2>2. CASE q # p
    BY <2>2, <1>4 DEF RecInv, StopInv
  <2>. QED BY <2>1, <2>2
<1>10. ActiveIsRegistered'
  <2> SUFFICES ASSUME NEW k \in Key, index[k] = "Active"
               PROVE  \E n \in TaskId :
                        /\ <<tasks[n].stream, tasks[n].second>> = k
                        /\ \/ TASKS'[k[1]] = n
                           \/ \E q \in Process : at'[q] \in {"join", "complete"} /\ mine'[q] = n
    BY <1>1 DEF ActiveIsRegistered, TaskId
  <2>1. PICK n \in TaskId :
          /\ <<tasks[n].stream, tasks[n].second>> = k
          /\ \/ TASKS[k[1]] = n
             \/ \E q \in Process : at[q] \in {"join", "complete"} /\ mine[q] = n
    BY DEF RecInv, ActiveIsRegistered
  <2>2. n # 0 /\ k[1] \in Stream
    BY DEF TaskId, Key
  <2>3. CASE TASKS[k[1]] = n /\ k[1] = on[p]
    <3>1. at'[p] = "join" /\ mine'[p] = n
      BY <2>2, <2>3, <1>2, <1>4
    <3>. QED BY <3>1, <2>1
  <2>4. CASE TASKS[k[1]] = n /\ k[1] # on[p]
    BY <2>1, <2>2, <2>4, <1>4
  <2>5. CASE \E q \in Process : at[q] \in {"join", "complete"} /\ mine[q] = n
    BY <2>1, <2>5, <1>1, <1>4
  <2>. QED BY <2>1, <2>3, <2>4, <2>5
<1>. QED BY <1>5, <1>6, <1>7, <1>8, <1>9, <1>10 DEF RecInv

\* The entry of the stopped task is closed before p forgets it.
LEMMA IndexStopStep ==
  ASSUME RecInv, NEW p \in Process, IndexStop(p)
  PROVE  RecInv'
<1>. RecTypes /\ StartInv
  BY DEF RecInv
<1>1. /\ at[p] = "complete" /\ at' = [at EXCEPT ![p] = "idle"]
      /\ UNCHANGED <<envVars, taskVars, lock, on, key, found, mine, rotation>>
  BY DEF IndexStop, Goto
<1>2. PICK k0 : k0 = <<on[p], tasks[mine[p]].second>>
  OBVIOUS
<1>3. PICK status \in {"Completed", "Failed"} :
        index' = [index EXCEPT ![k0] = IF @ = "absent" THEN @ ELSE status]
  BY <1>2 DEF IndexStop
<1>4. mine[p] \in TaskId /\ tasks[mine[p]].stream = on[p] /\ on[p] \in Stream
  BY <1>1 DEF RecInv, StopInv, OnInv
<1>5. k0 \in Key /\ k0 = <<tasks[mine[p]].stream, tasks[mine[p]].second>>
  BY <1>2, <1>4, RecordingType DEF Key
<1>6. /\ index'[k0] # "Active"
      /\ \A k \in Key : k # k0 => index'[k] = index[k]
      /\ index' \in [Key -> {"absent", "Active", "Completed", "Failed"}]
  BY <1>3, <1>5 DEF RecTypes
<1>7. RecTypes'
  BY <1>1, <1>6 DEF RecTypes, Place, envVars, taskVars
<1>8. \A q \in Process : at'[q] = IF q = p THEN "idle" ELSE at[q]
  BY <1>1 DEF RecTypes
<1>9. OnInv' /\ TaskInv'
  BY <1>1, <1>8 DEF RecInv, OnInv, TaskInv, TaskId, taskVars
<1>10. StartInv' /\ StopInv'
  BY <1>1, <1>8 DEF StartInv, RecInv, StopInv, TaskId, taskVars
<1>11. ActiveIsRegistered'
  <2> SUFFICES ASSUME NEW k \in Key, index'[k] = "Active"
               PROVE  \E n \in TaskId :
                        /\ <<tasks[n].stream, tasks[n].second>> = k
                        /\ \/ TASKS[k[1]] = n
                           \/ \E q \in Process : at'[q] \in {"join", "complete"} /\ mine[q] = n
    BY <1>1 DEF ActiveIsRegistered, TaskId, taskVars
  <2>1. k # k0 /\ index[k] = "Active"
    BY <1>6
  <2>2. PICK n \in TaskId :
          /\ <<tasks[n].stream, tasks[n].second>> = k
          /\ \/ TASKS[k[1]] = n
             \/ \E q \in Process : at[q] \in {"join", "complete"} /\ mine[q] = n
    BY <2>1 DEF RecInv, ActiveIsRegistered
  <2>3. n # mine[p]
    BY <2>1, <2>2, <1>5
  <2>. QED BY <2>2, <2>3, <1>8
<1>. QED BY <1>7, <1>9, <1>10, <1>11 DEF RecInv

--------------------------------------------------------------------------------
LEMMA RecNext == RecInv /\ [Next]_vars => RecInv'
<1> SUFFICES ASSUME RecInv, [Next]_vars PROVE RecInv'
  OBVIOUS
<1>1. ASSUME NEW p \in Process, ProcessStep(p) PROVE RecInv'
  BY <1>1, StartStep, SpawnStep, WaitTracksStep, IndexStartStep, StopStep, JoinStep, IndexStopStep
  DEF ProcessStep
<1>2. CASE UNCHANGED vars
  BY <1>2 DEF vars, envVars, taskVars, procVars, RecInv, RecTypes, OnInv, TaskInv, StartInv, StopInv,
              ActiveIsRegistered, TaskId
<1>. QED BY <1>1, <1>2, EnvironmentSteps, CallerSteps DEF Next

LEMMA RecAlways == Spec => []RecInv
BY RecInit, RecNext, PTL DEF Spec

\* However the record API, the event loop and the rotation interleave, a
\* recording task is registered in TASKS or has been told to stop
\* (recorder/mod.rs: start, stop, enforce_max_duration).
THEOREM TasksStayReachable == Spec => []NoOrphanTask
<1>1. RecInv => NoOrphanTask
  BY DEF RecInv, TaskInv, NoOrphanTask
<1>. QED BY <1>1, RecAlways, PTL

\* And an index entry is Active only while its recording is registered, ended or
\* not, or a stop is on its way to the index (update_index_on_start,
\* update_index_on_stop).
THEOREM ActiveEntriesAreLive == Spec => []ActiveIsRegistered
<1>1. RecInv => ActiveIsRegistered
  BY DEF RecInv
<1>. QED BY <1>1, RecAlways, PTL
================================================================================

----------------------------- MODULE LivemanProofs -----------------------------
(***************************************************************************)
(* For any nodes, requests, ticks, failures and restarts: Liveman          *)
(* acknowledges no recording that its table does not have, routes the      *)
(* sessions that it has told clients of to the nodes that have them,       *)
(* unwraps no node but one that has left, or for the tick that closes      *)
(* cascades has come, since the handler began, and starves no push cascade *)
(* that it sends the clients of the source away for.  While one process    *)
(* runs after the other and nothing fails, a stream stays in one piece and *)
(* the nodes stay within their limits.                                     *)
(***************************************************************************)
EXTENDS Liveman, FiniteSetTheorems, TLAPS

Fields == DOMAIN NewProcess
Entry == [record : Nat, updated_at : Nat, open : BOOLEAN]

LEMMA FieldNames ==
  Fields = {"at", "ready", "rounds", "wait", "got", "back", "servers", "node", "left",
            "record", "records", "acks", "last", "row", "urls", "map", "infos", "out", "shaken"}
BY DEF Fields, NewProcess

LEMMA NewFields ==
  /\ DOMAIN NewProcess = Fields
  /\ NewProcess.at = "new" /\ NewProcess.back = "new" /\ NewProcess.wait = {}
  /\ NewProcess.acks = {} /\ NewProcess.got = Empty /\ NewProcess.shaken = FALSE
BY DEF NewProcess, Fields

--------------------------------------------------------------------------------
(* The catalogue.                                                          *)

StoreTypes == DOMAIN st = {"list", "stream", "session"} /\ get_cluster(st) \subseteq Node

WorldTypes ==
  /\ DOMAIN world = Node
  /\ \A n \in Node : DOMAIN world[n] = DOMAIN NoStream

IndexTypes == index \in [Node -> SUBSET Entry] /\ made \in Seq(Node) /\ clock \in Nat

\* What the variables r of process p say, given the rows of the table: records
\* that are to be acknowledged have a row, so does one that was just written, and
\* a recording is started on a node.
Sound(p, r, rows) ==
  /\ DOMAIN r = Fields
  /\ r.back \in Updates /\ r.wait \subseteq Node /\ r.shaken \in BOOLEAN
  /\ r.acks \subseteq rows
  /\ r.at = "written" => r.record \in rows
  /\ r.at = "post" => r.node \in Node
  /\ r.at \in {"status", "halt"} =>
       r.node \in Node \/ (r.node = Nowhere /\ Op(p) # "auto_record_check")

ProcInv == DOMAIN proc = Process /\ \A p \in Process : Sound(p, proc[p], db)

CatalogueInv ==
  /\ cfg \in Configs /\ StoreTypes /\ WorldTypes /\ IndexTypes /\ ProcInv
  /\ RecordNeverLost

\* Where a process that has nodes in mind is, and where one ends that misses one.
Asks == {"strategy", "fetch", "idle", "map", "infos", "delete", "panic"}

\* The steps that look the nodes up.
Looks(p) ==
  \/ Update(p) \/ Strategy(p) \/ WhipNodes(p) \/ Whep(p) \/ IdleNode(p) \/ CascadeNewNode(p)
  \/ DoCascadeCheck(p)

\* What a step of process p leaves as it is, in the new variables r.
Carries(p, r) ==
  /\ DOMAIN r = Fields
  /\ r.back = proc[p].back /\ r.wait = proc[p].wait /\ r.got = proc[p].got
  /\ r.shaken = proc[p].shaken

\* A step of a process that neither makes nor keeps a session, and whose answers
\* of an update stay or go.
Moves(p) ==
  /\ proc[p].at \notin {"record", "done"}
  /\ \E r : /\ Set(p, r) /\ Sound(p, r, db') /\ r.got \in {proc[p].got, Empty}
            /\ r.at \notin Asks \/ Looks(p)

\* The process that is left when a request or a round of a tick ends.
LEMMA Finished ==
  ASSUME ProcInv, NEW p \in Process, NEW out, Finish(p, out) \/ Panic(p, out)
  PROVE  \E r : Set(p, r) /\ Sound(p, r, db') /\ r.got = Empty
<1>. PICK r : /\ r \in {NewProcess, [NewProcess EXCEPT !.at = "done", !.out = out],
                        [NewProcess EXCEPT !.at = "panic", !.out = out, !.shaken = proc[p].shaken]}
              /\ Set(p, r)
  BY DEF Finish, Panic, Set
<1>1. /\ DOMAIN r = Fields /\ r.back = "new" /\ r.wait = {} /\ r.acks = {} /\ r.got = Empty
      /\ r.at \in {"new", "done", "panic"} /\ r.shaken \in {FALSE, proc[p].shaken}
  <2>1. CASE r = NewProcess
    BY <2>1, NewFields
  <2>2. CASE r = [NewProcess EXCEPT !.at = "done", !.out = out]
    BY <2>2, NewFields, FieldNames
  <2>3. CASE r = [NewProcess EXCEPT !.at = "panic", !.out = out, !.shaken = proc[p].shaken]
    BY <2>3, NewFields, FieldNames
  <2>. QED BY <2>1, <2>2, <2>3
<1>. QED BY <1>1 DEF Sound, Updates, ProcInv

LEMMA Ends ==
  ASSUME ProcInv, NEW p \in Process, NEW out, Finish(p, out) \/ (Panic(p, out) /\ Looks(p)),
         proc[p].at \notin {"record", "done"}
  PROVE  Moves(p)
<1>. PICK r : Set(p, r) /\ Sound(p, r, db') /\ r.got = Empty
  BY Finished
<1>1. CASE Looks(p)
  BY <1>1 DEF Moves
<1>2. CASE Finish(p, out)
  <2>1. proc'[p] = r /\ proc'[p].at \in {"new", "done"}
    BY <1>2, NewFields, FieldNames DEF Finish, Set, ProcInv
  <2>. QED BY <2>1 DEF Moves, Asks
<1>. QED BY <1>1, <1>2

\* Going on with the same answers, at another place that asks nothing of its node
\* or its record.
LEMMA GoesOn ==
  ASSUME ProcInv, NEW p \in Process, NEW r, Set(p, r), db' = db,
         proc[p].at \notin {"record", "done"},
         Carries(p, r), r.acks = proc[p].acks, r.at \notin {"written", "post", "status", "halt"},
         r.at \notin Asks \/ Looks(p)
  PROVE  Moves(p)
BY DEF Moves, Sound, ProcInv, Carries

LEMMA UpdateMoves ==
  ASSUME CatalogueInv, NEW p \in Process, Update(p)
  PROVE  Moves(p)
<1>. PICK r : r = [Stale(p) EXCEPT !.at = "strategy", !.back = proc[p].at,
                     !.rounds = proc[p].rounds + 1, !.wait = AskStrategy(st)]
  OBVIOUS
<1>1. Set(p, r) /\ proc[p].at \in Updates /\ db' = db
  BY DEF Update
<1>2. DOMAIN proc[p] = Fields /\ proc[p].acks \subseteq db /\ AskStrategy(st) \subseteq Node
  BY DEF CatalogueInv, ProcInv, Sound, StoreTypes, get_cluster, AskStrategy
<1>3. /\ DOMAIN r = Fields /\ r.at = "strategy" /\ r.back = proc[p].at /\ r.wait = AskStrategy(st)
      /\ r.acks = proc[p].acks /\ r.got = proc[p].got /\ r.shaken = proc[p].shaken
  BY <1>2, FieldNames DEF Stale
<1>. QED BY <1>1, <1>2, <1>3 DEF Moves, Sound, Updates, Looks, CatalogueInv, ProcInv

LEMMA PollFacts ==
  ASSUME CatalogueInv, NEW p \in Process, NEW wait, NEW got, Polls(p, wait, got), db' = db,
         wait \subseteq Node, proc[p].at \in {"strategy", "fetch"}
  PROVE  \E r : Set(p, r) /\ Sound(p, r, db') /\ r.got = got
<1>1. /\ DOMAIN proc[p] = Fields /\ proc[p].acks \subseteq db /\ proc[p].back \in Updates
      /\ proc[p].shaken \in BOOLEAN
  BY DEF CatalogueInv, ProcInv, Sound
<1>2. CASE wait = {} /\ got = Empty
  <2>. PICK r : r = [proc[p] EXCEPT !.at = proc[p].back, !.back = "new", !.ready = TRUE,
                                    !.wait = {}, !.got = Empty]
    OBVIOUS
  <2>1. Set(p, r)
    BY <1>2 DEF Polls, Set
  <2>2. /\ DOMAIN r = Fields /\ r.at = proc[p].back /\ r.back = "new" /\ r.wait = {}
        /\ r.acks = proc[p].acks /\ r.got = Empty /\ r.shaken = proc[p].shaken
    BY <1>1, FieldNames
  <2>. QED BY <1>1, <1>2, <2>1, <2>2 DEF Sound, Updates
<1>3. CASE ~(wait = {} /\ got = Empty)
  <2>. PICK r : r = [Stale(p) EXCEPT !.at = "fetch", !.wait = wait, !.got = got]
    OBVIOUS
  <2>1. Set(p, r)
    BY <1>3 DEF Polls
  <2>2. /\ DOMAIN r = Fields /\ r.at = "fetch" /\ r.back = proc[p].back /\ r.wait = wait
        /\ r.acks = proc[p].acks /\ r.got = got /\ r.shaken = proc[p].shaken
    BY <1>1, FieldNames DEF Stale
  <2>. QED BY <1>1, <2>1, <2>2 DEF Sound, Updates
<1>. QED BY <1>2, <1>3

LEMMA StrategyMoves ==
  ASSUME CatalogueInv, NEW p \in Process, Strategy(p)
  PROVE  Moves(p)
<1>1. proc[p].at = "strategy" /\ db' = db /\ get_cluster(st) \subseteq Node /\ ProcInv
  BY DEF Strategy, CatalogueInv, StoreTypes
<1>2. Polls(p, get_cluster(st), Empty) \/ Panic(p, "body")
  BY DEF Strategy
<1>3. PICK r : Set(p, r) /\ Sound(p, r, db') /\ r.got = Empty
  BY <1>1, <1>2, PollFacts, Finished
<1>. QED BY <1>1, <1>3 DEF Moves, Looks

\* What a node tells, or fails to tell.
LEMMA FetchFacts ==
  ASSUME CatalogueInv, NEW p \in Process, NEW n \in Node, Fetch(p, n)
  PROVE  \E r : /\ Set(p, r) /\ Sound(p, r, db')
                /\ r.got \in {Empty, proc[p].got, With(proc[p].got, n, world[n])}
<1>1. /\ proc[p].at = "fetch" /\ db' = db /\ ProcInv
      /\ proc[p].wait \ {n} \subseteq Node
  BY DEF Fetch, CatalogueInv, ProcInv, Sound
<1>2. \/ Panic(p, "body")
      \/ \E got \in {proc[p].got, With(proc[p].got, n, world[n])} : Polls(p, proc[p].wait \ {n}, got)
  BY DEF Fetch
<1>3. CASE Panic(p, "body")
  BY <1>1, <1>3, Finished
<1>4. ASSUME NEW got \in {proc[p].got, With(proc[p].got, n, world[n])},
             Polls(p, proc[p].wait \ {n}, got)
      PROVE  \E r : Set(p, r) /\ Sound(p, r, db') /\ r.got = got
  BY <1>1, <1>4, PollFacts
<1>. QED BY <1>2, <1>3, <1>4

\* What is put in is not put in again.
LEMMA PutShape ==
  ASSUME CatalogueInv, NEW p \in Process, NEW n \in Node, Put(p, n)
  PROVE  \E r : /\ Set(p, r) /\ Sound(p, r, db')
                /\ \A m \in DOMAIN r.got : m \in DOMAIN proc[p].got /\ r.got[m] = proc[p].got[m]
<1>1. proc[p].at = "fetch" /\ db' = db /\ ProcInv /\ proc[p].wait \subseteq Node
  BY DEF Put, CatalogueInv, ProcInv, Sound
<1>2. CASE Panic(p, "node gone")
  <2>1. PICK r : Set(p, r) /\ Sound(p, r, db') /\ r.got = Empty
    BY <1>1, <1>2, Finished
  <2>. QED BY <2>1 DEF Empty
<1>3. CASE Polls(p, proc[p].wait, [m \in DOMAIN proc[p].got \ {n} |-> proc[p].got[m]])
  <2>. PICK got : got = [m \in DOMAIN proc[p].got \ {n} |-> proc[p].got[m]]
    OBVIOUS
  <2>1. PICK r : Set(p, r) /\ Sound(p, r, db') /\ r.got = got
    BY <1>1, <1>3, PollFacts
  <2>. QED BY <2>1
<1>. QED BY <1>2, <1>3 DEF Put

\* A step to another place, with whatever else it sets beside these variables.
LEMMA GotoMoves ==
  ASSUME ProcInv, NEW p \in Process, NEW label, Goto(p, label), db' = db,
         proc[p].at \notin {"record", "done"},
         label \notin {"written", "post", "status", "halt"} \cup Asks
  PROVE  Moves(p)
<1>. PICK r : r = [Stale(p) EXCEPT !.at = label]
  OBVIOUS
<1>1. Set(p, r) /\ DOMAIN proc[p] = Fields
  BY DEF Goto, ProcInv, Sound
<1>2. Carries(p, r) /\ r.at = label /\ r.acks = proc[p].acks
  BY <1>1, FieldNames DEF Stale, Carries
<1>. QED BY <1>1, <1>2, GoesOn DEF Asks

\* The routes, but for the two steps that make and keep a session.
LEMMA RouteMoves ==
  ASSUME CatalogueInv, NEW p \in Process,
         \/ Whip(p) \/ WhipNodes(p) \/ Whep(p) \/ IdleNode(p) \/ CascadeNewNode(p)
         \/ Session(p) \/ ProxyDelete(p) \/ StreamIndex(p) \/ StreamCreate(p)
         \/ ProxyCreate(p) \/ StreamDestroy(p) \/ ProxyDestroy(p)
  PROVE  Moves(p)
<1>1. ProcInv /\ DOMAIN proc[p] = Fields
  BY DEF CatalogueInv, ProcInv, Sound
<1>2. ASSUME NEW node, Set(p, [Stale(p) EXCEPT !.at = "proxy", !.node = node]),
             db' = db, proc[p].at \notin {"record", "done"}
      PROVE  Moves(p)
  <2>. PICK r : r = [Stale(p) EXCEPT !.at = "proxy", !.node = node]
    OBVIOUS
  <2>1. Carries(p, r) /\ r.at = "proxy" /\ r.acks = proc[p].acks
    BY <1>1, FieldNames DEF Stale, Carries
  <2>. QED BY <1>1, <1>2, <2>1, GoesOn DEF Asks
<1>3. ASSUME NEW node, NEW servers,
             Set(p, [Stale(p) EXCEPT !.at = "proxy", !.node = node, !.servers = servers]),
             db' = db, proc[p].at \notin {"record", "done"}
      PROVE  Moves(p)
  <2>. PICK r : r = [Stale(p) EXCEPT !.at = "proxy", !.node = node, !.servers = servers]
    OBVIOUS
  <2>1. Carries(p, r) /\ r.at = "proxy" /\ r.acks = proc[p].acks
    BY <1>1, FieldNames DEF Stale, Carries
  <2>. QED BY <1>1, <1>3, <2>1, GoesOn DEF Asks
<1>4. ASSUME NEW servers, Set(p, [Stale(p) EXCEPT !.at = "idle", !.servers = servers]),
             db' = db, proc[p].at \notin {"record", "done"}, Looks(p)
      PROVE  Moves(p)
  <2>. PICK r : r = [Stale(p) EXCEPT !.at = "idle", !.servers = servers]
    OBVIOUS
  <2>1. Carries(p, r) /\ r.at = "idle" /\ r.acks = proc[p].acks
    BY <1>1, FieldNames DEF Stale, Carries
  <2>. QED BY <1>1, <1>4, <2>1, GoesOn DEF Asks
<1>5. CASE Whip(p)
  <2>1. proc[p].at = "new" /\ db' = db
    BY <1>5 DEF Whip, Is
  <2>. QED BY <1>5, <2>1, <1>1, <1>2, Ends, GotoMoves DEF Whip, Asks
<1>6. CASE WhipNodes(p)
  <2>1. proc[p].at = "nodes" /\ db' = db
    BY <1>6 DEF WhipNodes, Is
  <2>. QED BY <1>6, <2>1, <1>1, <1>4, Ends DEF WhipNodes, Looks
<1>7. CASE Whep(p)
  <2>1. proc[p].at = "new" /\ db' = db
    BY <1>7 DEF Whep, Is
  <2>. QED BY <1>7, <2>1, <1>1, <1>4, Ends DEF Whep, Looks
<1>8. CASE IdleNode(p)
  <2>1. proc[p].at = "idle" /\ db' = db
    BY <1>8 DEF IdleNode, Is
  <2>. QED BY <1>8, <2>1, <1>1, <1>2, Ends, GotoMoves DEF IdleNode, Looks, Asks
<1>9. CASE CascadeNewNode(p)
  <2>1. proc[p].at = "cascade" /\ db' = db
    BY <1>9 DEF CascadeNewNode, Is
  <2>. QED BY <1>9, <2>1, <1>1, <1>2, Ends DEF CascadeNewNode, Looks
<1>10. CASE Session(p)
  <2>1. proc[p].at = "new" /\ db' = db
    BY <1>10 DEF Session, Is
  <2>. QED BY <1>10, <2>1, <1>1, <1>3, Ends DEF Session
<1>11. CASE ProxyDelete(p)
  <2>1. proc[p].at = "proxy" /\ db' = db
    BY <1>11 DEF ProxyDelete, Is
  <2>. QED BY <1>11, <2>1, <1>1, Ends DEF ProxyDelete
<1>12. CASE StreamIndex(p)
  <2>. PICK r : r = [NewProcess EXCEPT !.at = "done", !.left = Listed(st)]
    OBVIOUS
  <2>1. proc[p].at = "new" /\ Set(p, r)
    BY <1>12 DEF StreamIndex, Is, Set
  <2>2. /\ DOMAIN r = Fields /\ r.back = "new" /\ r.wait = {} /\ r.acks = {} /\ r.got = Empty
        /\ r.at = "done" /\ r.shaken = FALSE
    BY NewFields, FieldNames
  <2>. QED BY <2>1, <2>2 DEF Moves, Sound, Updates, Asks
<1>13. CASE StreamCreate(p)
  <2>1. proc[p].at = "new" /\ db' = db
    BY <1>13 DEF StreamCreate, Is
  <2>. QED BY <1>13, <2>1, <1>1, <1>2, Ends DEF StreamCreate
<1>14. CASE ProxyCreate(p)
  <2>1. proc[p].at = "proxy" /\ db' = db
    BY <1>14 DEF ProxyCreate, Is
  <2>. QED BY <1>14, <2>1, <1>1, Ends DEF ProxyCreate
<1>15. CASE StreamDestroy(p)
  <2>1. proc[p].at = "new" /\ db' = db
    BY <1>15 DEF StreamDestroy, Is
  <2>2. PICK order : Set(p, [Stale(p) EXCEPT !.at = "proxy", !.left = order])
    BY <1>15 DEF StreamDestroy
  <2>. PICK r : r = [Stale(p) EXCEPT !.at = "proxy", !.left = order]
    OBVIOUS
  <2>3. Carries(p, r) /\ r.at = "proxy" /\ r.acks = proc[p].acks
    BY <1>1, FieldNames DEF Stale, Carries
  <2>. QED BY <1>1, <2>1, <2>2, <2>3, GoesOn DEF Asks
<1>16. CASE ProxyDestroy(p)
  <2>1. proc[p].at = "proxy" /\ db' = db
    BY <1>16 DEF ProxyDestroy, Is
  <2>2. ASSUME Set(p, [Stale(p) EXCEPT !.left = Tail(proc[p].left)]) PROVE Moves(p)
    <3>. PICK r : r = [Stale(p) EXCEPT !.left = Tail(proc[p].left)]
      OBVIOUS
    <3>1. Carries(p, r) /\ r.at = "proxy" /\ r.acks = proc[p].acks
      BY <1>1, <2>1, FieldNames DEF Stale, Carries
    <3>. QED BY <1>1, <2>1, <2>2, <3>1, GoesOn DEF Asks
  <2>. QED BY <1>16, <2>1, <2>2, <1>1, Ends DEF ProxyDestroy
<1>. QED
  BY <1>5, <1>6, <1>7, <1>8, <1>9, <1>10, <1>11, <1>12, <1>13, <1>14, <1>15, <1>16

\* Going on to a place that asks something of the node or of the record.
LEMMA GoesTo ==
  ASSUME ProcInv, NEW p \in Process, NEW r, Set(p, r), db \subseteq db',
         proc[p].at \notin {"record", "done"},
         Carries(p, r), r.at \notin Asks, r.acks \subseteq db',
         r.at = "written" => r.record \in db',
         r.at = "post" => r.node \in Node,
         r.at \in {"status", "halt"} =>
           r.node \in Node \/ (r.node = Nowhere /\ Op(p) # "auto_record_check")
  PROVE  Moves(p)
BY DEF Moves, Sound, ProcInv, Carries

LEMMA RecordMoves ==
  ASSUME CatalogueInv, NEW p \in Process, RecordStep(p) \/ DoCascadeCheck(p)
  PROVE  Moves(p)
<1>1. /\ ProcInv /\ DOMAIN proc[p] = Fields /\ proc[p].acks \subseteq db
      /\ get_cluster(st) \subseteq Node
      /\ proc[p].at = "written" => proc[p].record \in db
      /\ proc[p].at = "post" => proc[p].node \in Node
      /\ proc[p].at \in {"status", "halt"} =>
           proc[p].node \in Node \/ (proc[p].node = Nowhere /\ Op(p) # "auto_record_check")
  BY DEF CatalogueInv, ProcInv, Sound, StoreTypes
<1>2. CASE StartRecord(p)
  <2>1. proc[p].at = "new" /\ db' = db
    BY <1>2 DEF StartRecord, Is
  <2>2. ASSUME NEW n \in get_cluster(st), Set(p, [Stale(p) EXCEPT !.at = "post", !.node = n])
        PROVE  Moves(p)
    <3>. PICK r : r = [Stale(p) EXCEPT !.at = "post", !.node = n]
      OBVIOUS
    <3>1. Carries(p, r) /\ r.at = "post" /\ r.acks = proc[p].acks /\ r.node = n
      BY <1>1, FieldNames DEF Stale, Carries
    <3>. QED BY <1>1, <2>1, <2>2, <3>1, GoesTo DEF Asks
  <2>. QED BY <1>2, <1>1, <2>1, <2>2, Ends DEF StartRecord
<1>3. CASE RecordNodes(p)
  <2>1. proc[p].at = "new" /\ db' = db
    BY <1>3 DEF RecordNodes, Is
  <2>2. ASSUME NEW here, NEW first,
               Op(p) # "auto_record_check" \/ first \in get_cluster(st),
               Set(p, [Stale(p) EXCEPT !.at = "status", !.left = here,
                         !.node = IF first \in get_cluster(st) THEN first ELSE Nowhere])
        PROVE  Moves(p)
    <3>. PICK r : r = [Stale(p) EXCEPT !.at = "status", !.left = here,
                         !.node = IF first \in get_cluster(st) THEN first ELSE Nowhere]
      OBVIOUS
    <3>1. /\ Carries(p, r) /\ r.at = "status" /\ r.acks = proc[p].acks
          /\ r.node = IF first \in get_cluster(st) THEN first ELSE Nowhere
      BY <1>1, FieldNames DEF Stale, Carries
    <3>. QED BY <1>1, <2>1, <2>2, <3>1, GoesTo DEF Asks
  <2>. QED BY <1>3, <1>1, <2>1, <2>2, Ends DEF RecordNodes
<1>4. CASE Status(p)
  <2>1. proc[p].at = "status" /\ db' = db
    BY <1>4 DEF Status
  <2>2. ASSUME NEW label \in {"halt", "post"}, Goto(p, label),
               label = "post" => Op(p) = "auto_record_check" \/ proc[p].node # Nowhere
        PROVE  Moves(p)
    <3>. PICK r : r = [Stale(p) EXCEPT !.at = label]
      OBVIOUS
    <3>1. Carries(p, r) /\ r.at = label /\ r.acks = proc[p].acks /\ r.node = proc[p].node
      BY <1>1, FieldNames DEF Stale, Carries
    <3>2. Set(p, r)
      BY <2>2 DEF Goto
    <3>. QED BY <1>1, <2>1, <2>2, <3>1, <3>2, GoesTo DEF Asks
  <2>3. ASSUME Set(p, [Stale(p) EXCEPT !.left = Tail(proc[p].left)]) PROVE Moves(p)
    <3>. PICK r : r = [Stale(p) EXCEPT !.left = Tail(proc[p].left)]
      OBVIOUS
    <3>1. Carries(p, r) /\ r.at = "status" /\ r.acks = proc[p].acks /\ r.node = proc[p].node
      BY <1>1, <2>1, FieldNames DEF Stale, Carries
    <3>. QED BY <1>1, <2>1, <2>3, <3>1, GoesTo DEF Asks
  <2>4. Goto(p, "halt") => Moves(p)
    BY <2>2
  <2>5. Goto(p, "post") /\ (Op(p) = "auto_record_check" \/ proc[p].node # Nowhere) => Moves(p)
    BY <2>2
  <2>. QED BY <1>4, <1>1, <2>1, <2>3, <2>4, <2>5, Ends DEF Status
<1>5. CASE Halt(p)
  <2>1. proc[p].at = "halt" /\ db' = db
    BY <1>5 DEF Halt
  <2>. PICK r : r = [Stale(p) EXCEPT !.at = "status", !.left = Tail(proc[p].left)]
    OBVIOUS
  <2>2. Set(p, r)
    BY <1>5 DEF Halt
  <2>3. Carries(p, r) /\ r.at = "status" /\ r.acks = proc[p].acks /\ r.node = proc[p].node
    BY <1>1, FieldNames DEF Stale, Carries
  <2>. QED BY <1>1, <2>1, <2>2, <2>3, GoesTo DEF Asks
<1>6. CASE Post(p)
  <2>1. proc[p].at = "post" /\ db' = db
    BY <1>6 DEF Post
  <2>2. ASSUME NEW i, Set(p, [Stale(p) EXCEPT !.at = "find", !.record = i]) PROVE Moves(p)
    <3>. PICK r : r = [Stale(p) EXCEPT !.at = "find", !.record = i]
      OBVIOUS
    <3>1. Carries(p, r) /\ r.at = "find" /\ r.acks = proc[p].acks
      BY <1>1, FieldNames DEF Stale, Carries
    <3>. QED BY <1>1, <2>1, <2>2, <3>1, GoesOn DEF Asks
  <2>3. \/ \E out : Finish(p, out)
        \/ \E i : Set(p, [Stale(p) EXCEPT !.at = "find", !.record = i])
    BY <1>6 DEF Post
  <2>. QED BY <1>1, <2>1, <2>2, <2>3, Ends
<1>7. CASE Find(p)
  <2>1. proc[p].at = "find" /\ db' = db
    BY <1>7 DEF Find
  <2>2. ASSUME NEW row, Set(p, [Stale(p) EXCEPT !.at = "write", !.row = row]) PROVE Moves(p)
    <3>. PICK r : r = [Stale(p) EXCEPT !.at = "write", !.row = row]
      OBVIOUS
    <3>1. Carries(p, r) /\ r.at = "write" /\ r.acks = proc[p].acks
      BY <1>1, FieldNames DEF Stale, Carries
    <3>. QED BY <1>1, <2>1, <2>2, <3>1, GoesOn DEF Asks
  <2>3. \/ Goto(p, "failed")
        \/ Set(p, [Stale(p) EXCEPT !.at = "write", !.row = proc[p].record \in db])
    BY <1>7 DEF Find, Goto
  <2>. QED BY <1>1, <2>1, <2>2, <2>3, GotoMoves DEF Asks
<1>8. CASE Write(p)
  <2>1. proc[p].at = "write"
    BY <1>8 DEF Write
  <2>2. \/ db' = db /\ Goto(p, "failed")
        \/ /\ db' = db \cup {proc[p].record}
           /\ \E label \in {"failed", "written"} : Goto(p, label)
    BY <1>8 DEF Write
  <2>3. PICK label \in {"failed", "written"} :
          /\ Goto(p, label)
          /\ db' = db \cup {proc[p].record} \/ (db' = db /\ label = "failed")
    BY <2>2
  <2>. PICK r : r = [Stale(p) EXCEPT !.at = label]
    OBVIOUS
  <2>4. Set(p, r)
    BY <2>3 DEF Goto
  <2>5. Carries(p, r) /\ r.at = label /\ r.acks = proc[p].acks /\ r.record = proc[p].record
    BY <1>1, FieldNames DEF Stale, Carries
  <2>. QED BY <1>1, <2>1, <2>3, <2>4, <2>5, GoesTo DEF Asks
<1>9. CASE Upserted(p)
  <2>1. proc[p].at \in {"written", "failed"} /\ db' = db
    BY <1>9 DEF Upserted
  <2>2. ASSUME NEW acks, acks \subseteq db, NextRecord(p, acks) PROVE Moves(p)
    <3>1. CASE Set(p, [Stale(p) EXCEPT !.at = "ack", !.acks = acks])
      <4>. PICK r : r = [Stale(p) EXCEPT !.at = "ack", !.acks = acks]
        OBVIOUS
      <4>1. Carries(p, r) /\ r.at = "ack" /\ r.acks = acks
        BY <1>1, FieldNames DEF Stale, Carries
      <4>. QED BY <1>1, <2>1, <2>2, <3>1, <4>1, GoesTo DEF Asks
    <3>2. ASSUME NEW i, NEW rest,
                 Set(p, [Stale(p) EXCEPT !.at = "find", !.acks = acks, !.record = i, !.records = rest])
          PROVE  Moves(p)
      <4>. PICK r : r = [Stale(p) EXCEPT !.at = "find", !.acks = acks, !.record = i, !.records = rest]
        OBVIOUS
      <4>1. Carries(p, r) /\ r.at = "find" /\ r.acks = acks
        BY <1>1, FieldNames DEF Stale, Carries
      <4>. QED BY <1>1, <2>1, <2>2, <3>2, <4>1, GoesTo DEF Asks
    <3>. QED BY <2>2, <3>1, <3>2 DEF NextRecord
  <2>. QED BY <1>9, <1>1, <2>1, <2>2, Ends DEF Upserted
<1>10. CASE RecordSync(p)
  <2>1. proc[p].at = "new" /\ db' = db
    BY <1>10 DEF RecordSync, Is
  <2>2. PICK order : Set(p, [Stale(p) EXCEPT !.at = "pull", !.left = order])
    BY <1>10 DEF RecordSync
  <2>. PICK r : r = [Stale(p) EXCEPT !.at = "pull", !.left = order]
    OBVIOUS
  <2>3. Carries(p, r) /\ r.at = "pull" /\ r.acks = proc[p].acks
    BY <1>1, FieldNames DEF Stale, Carries
  <2>. QED BY <1>1, <2>1, <2>2, <2>3, GoesOn DEF Asks
<1>11. CASE Pull(p)
  <2>1. proc[p].at = "pull" /\ db' = db
    BY <1>11 DEF Pull
  <2>2. ASSUME Set(p, [Stale(p) EXCEPT !.left = Tail(proc[p].left)]) PROVE Moves(p)
    <3>. PICK r : r = [Stale(p) EXCEPT !.left = Tail(proc[p].left)]
      OBVIOUS
    <3>1. Carries(p, r) /\ r.at = "pull" /\ r.acks = proc[p].acks
      BY <1>1, <2>1, FieldNames DEF Stale, Carries
    <3>. QED BY <1>1, <2>1, <2>2, <3>1, GoesOn DEF Asks
  <2>3. ASSUME NEW n, NEW last, NEW i, NEW rest,
               Set(p, [Stale(p) EXCEPT !.at = "find", !.node = n, !.left = Tail(proc[p].left),
                         !.acks = {}, !.last = last, !.record = i, !.records = rest])
        PROVE  Moves(p)
    <3>. PICK r : r = [Stale(p) EXCEPT !.at = "find", !.node = n, !.left = Tail(proc[p].left),
                         !.acks = {}, !.last = last, !.record = i, !.records = rest]
      OBVIOUS
    <3>1. Carries(p, r) /\ r.at = "find" /\ r.acks = {}
      BY <1>1, FieldNames DEF Stale, Carries
    <3>. QED BY <1>1, <2>1, <2>3, <3>1, GoesTo DEF Asks
  <2>. QED BY <1>11, <1>1, <2>1, <2>2, <2>3, Ends DEF Pull
<1>12. CASE Ack(p)
  <2>1. proc[p].at = "ack" /\ db' = db /\ Goto(p, "pull")
    BY <1>12 DEF Ack
  <2>. QED BY <1>1, <2>1, GotoMoves DEF Asks
<1>13. CASE DoCascadeCheck(p)
  <2>1. proc[p].at \in {"new", "map", "infos", "delete"} /\ db' = db /\ Looks(p)
    BY <1>13 DEF DoCascadeCheck, CheckNodes, CheckServers, CheckInfos, CheckDelete, Is, Looks
  <2>2. ASSUME NEW r, Set(p, r), Carries(p, r), r.acks = proc[p].acks,
               r.at \in {"map", "infos", "delete"}
        PROVE  Moves(p)
    BY <1>1, <2>1, <2>2, GoesOn
  <2>3. CASE CheckNodes(p)
    <3>. PICK r : r = [Stale(p) EXCEPT !.at = "map", !.urls = get_cluster(st)]
      OBVIOUS
    <3>1. Carries(p, r) /\ r.at = "map" /\ r.acks = proc[p].acks
      BY <1>1, FieldNames DEF Stale, Carries
    <3>. QED BY <2>2, <2>3, <3>1 DEF CheckNodes
  <2>4. CASE CheckServers(p)
    <3>. PICK r : r = [Stale(p) EXCEPT !.at = "infos", !.map = get_cluster(st)]
      OBVIOUS
    <3>1. Carries(p, r) /\ r.at = "infos" /\ r.acks = proc[p].acks
      BY <1>1, FieldNames DEF Stale, Carries
    <3>. QED BY <2>2, <2>4, <3>1 DEF CheckServers
  <2>5. CASE CheckInfos(p)
    <3>. PICK infos : infos = [n \in get_cluster(st) |-> st.list[n].info]
      OBVIOUS
    <3>. PICK r : r = [Stale(p) EXCEPT !.at = "delete", !.infos = infos]
      OBVIOUS
    <3>1. Carries(p, r) /\ r.at = "delete" /\ r.acks = proc[p].acks
      BY <1>1, FieldNames DEF Stale, Carries
    <3>. QED BY <2>2, <2>5, <3>1 DEF CheckInfos
  <2>6. CASE CheckDelete(p)
    <3>1. ASSUME NEW n, NEW t, Set(p, [Stale(p) EXCEPT !.infos[n].sub = @ \ {t}]) PROVE Moves(p)
      <4>. PICK r : r = [Stale(p) EXCEPT !.infos[n].sub = @ \ {t}]
        OBVIOUS
      <4>1. Carries(p, r) /\ r.at = "delete" /\ r.acks = proc[p].acks
        BY <1>1, <2>6, FieldNames DEF Stale, Carries, CheckDelete, Is
      <4>. QED BY <2>2, <3>1, <4>1
    <3>2. \/ \E n, t : Set(p, [Stale(p) EXCEPT !.infos[n].sub = @ \ {t}])
          \/ \E out : Finish(p, out) \/ Panic(p, out)
      BY <2>6 DEF CheckDelete
    <3>. QED BY <1>1, <2>1, <3>1, <3>2, Ends
  <2>. QED BY <1>13, <2>3, <2>4, <2>5, <2>6 DEF DoCascadeCheck
<1>. QED
  BY <1>2, <1>3, <1>4, <1>5, <1>6, <1>7, <1>8, <1>9, <1>10, <1>11, <1>12, <1>13 DEF RecordStep

\* A process that becomes a sound one leaves all processes sound.
LEMMA StaySound ==
  ASSUME ProcInv, NEW p \in Process, NEW r, Set(p, r), Sound(p, r, db'),
         cfg' = cfg, db \subseteq db'
  PROVE  ProcInv'
<1>1. /\ DOMAIN proc' = Process /\ proc'[p] = r
      /\ \A q \in Process \ {p} : proc'[q] = proc[q]
  BY DEF ProcInv, Set
<1>2. ASSUME NEW q \in Process PROVE Sound(q, proc'[q], db')
  BY <1>1 DEF ProcInv, Sound
<1>. QED BY <1>1, <1>2 DEF ProcInv, Sound, Process, Op

\* Stopping a recording marks its entry; nothing leaves the index.
LEMMA StopKeeps ==
  ASSUME IndexTypes, RecordNeverLost, NEW n, StopRecording(n), db' = db
  PROVE  IndexTypes' /\ RecordNeverLost'
<1>1. /\ clock' \in Nat /\ made' = made
      /\ index' = [index EXCEPT ![n] = Stopped(index[n], n)]
  BY DEF StopRecording, IndexTypes
<1>2. ASSUME NEW m \in Node
      PROVE  /\ index'[m] \subseteq Entry
             /\ \A e \in index[m] : \E d \in index'[m] : d.record = e.record
  <2>0. index[m] \subseteq Entry
    BY DEF IndexTypes
  <2>1. CASE index'[m] = index[m]
    BY <2>0, <2>1
  <2>2. CASE index'[m] # index[m]
    <3>1. index'[m] = {IF e.record = recording[n]
                       THEN [e EXCEPT !.open = FALSE, !.updated_at = clock'] ELSE e : e \in index[m]}
      BY <1>1, <2>2 DEF IndexTypes, Stopped, update_status
    <3>2. ASSUME NEW e \in index[m]
          PROVE  /\ [e EXCEPT !.open = FALSE, !.updated_at = clock'] \in Entry
                 /\ [e EXCEPT !.open = FALSE, !.updated_at = clock'].record = e.record
      BY <1>1, <2>0 DEF Entry
    <3>. QED BY <2>0, <3>1, <3>2
  <2>. QED BY <2>1, <2>2
<1>3. IndexTypes'
  BY <1>1, <1>2 DEF IndexTypes
<1>4. ASSUME NEW i \in DOMAIN made
      PROVE  i \in db \/ \E e \in index'[made[i]] : e.record = i
  BY <1>2 DEF IndexTypes, RecordNeverLost
<1>. QED BY <1>1, <1>3, <1>4 DEF RecordNeverLost

\* Acknowledging what has a row loses nothing.
LEMMA AckKeeps ==
  ASSUME IndexTypes, RecordNeverLost, NEW n, NEW acks, acks \subseteq db,
         index' = [index EXCEPT ![n] = ack(@, acks)], made' = made, clock' = clock, db' = db
  PROVE  IndexTypes' /\ RecordNeverLost'
<1>1. ASSUME NEW m \in Node
      PROVE  /\ index'[m] \subseteq Entry
             /\ \A e \in index[m] : e \in index'[m] \/ e.record \in db
  BY DEF IndexTypes, ack
<1>2. IndexTypes'
  BY <1>1 DEF IndexTypes
<1>3. ASSUME NEW i \in DOMAIN made
      PROVE  i \in db \/ \E e \in index'[made[i]] : e.record = i
  BY <1>1 DEF IndexTypes, RecordNeverLost
<1>. QED BY <1>2, <1>3 DEF RecordNeverLost

\* A new recording is in the index of its node, and replaces no other.
LEMMA PostKeeps ==
  ASSUME IndexTypes, RecordNeverLost, NEW n \in Node,
         made' = Append(made, n), clock' = clock + 1, db' = db,
         index' = [index EXCEPT ![n] = upsert(@, Len(made'), clock')]
  PROVE  IndexTypes' /\ RecordNeverLost'
<1>. PICK k : k = Len(made) + 1
  OBVIOUS
<1>1. /\ k \in Nat /\ made' \in Seq(Node) /\ Len(made') = k /\ clock' \in Nat
      /\ DOMAIN made' = 1..k /\ DOMAIN made = 1..(k - 1) /\ made'[k] = n
      /\ \A i \in 1..(k - 1) : made'[i] = made[i]
  BY DEF IndexTypes
<1>. PICK new : new = [record |-> k, updated_at |-> clock', open |-> TRUE]
  OBVIOUS
<1>2. new \in Entry /\ new.record = k
  BY <1>1 DEF Entry
<1>3. index'[n] = {e \in index[n] : e.record # k} \cup {new}
  BY <1>1 DEF IndexTypes, upsert
<1>4. \A m \in Node \ {n} : index'[m] = index[m]
  BY DEF IndexTypes
<1>5. IndexTypes'
  BY <1>1, <1>2, <1>3, <1>4 DEF IndexTypes
<1>6. ASSUME NEW i \in 1..k
      PROVE  i \in db \/ \E e \in index'[made'[i]] : e.record = i
  <2>1. CASE i = k
    BY <2>1, <1>1, <1>2, <1>3
  <2>2. CASE i # k
    <3>1. i \in DOMAIN made /\ made'[i] = made[i] /\ made[i] \in Node
      BY <2>2, <1>1 DEF IndexTypes
    <3>. QED BY <2>2, <3>1, <1>3, <1>4 DEF RecordNeverLost
  <2>. QED BY <2>1, <2>2
<1>. QED BY <1>1, <1>5, <1>6 DEF RecordNeverLost

\* Nothing is taken out of the table.
LEMMA IndexFrame ==
  ASSUME IndexTypes, RecordNeverLost, UNCHANGED <<index, made, clock>>, db \subseteq db'
  PROVE  IndexTypes' /\ RecordNeverLost'
BY DEF IndexTypes, RecordNeverLost

--------------------------------------------------------------------------------
(* Every step keeps the invariant of the catalogue.                        *)

\* The steps that change nothing but their process, its cascade and the faults.
Quiet(p) ==
  \/ Whip(p) \/ WhipNodes(p) \/ Whep(p) \/ IdleNode(p) \/ CascadeNewNode(p) \/ Session(p)
  \/ StreamIndex(p) \/ StreamCreate(p) \/ StreamDestroy(p) \/ StartRecord(p) \/ RecordNodes(p)
  \/ Status(p) \/ Find(p) \/ Upserted(p) \/ RecordSync(p) \/ Pull(p)

LEMMA QuietFrame ==
  ASSUME NEW p, Quiet(p)
  PROVE  UNCHANGED <<cfg, st, world, index, made, clock, db, restarts, told>>
<1>. USE DEF shared, clusterVars
<1>1. CASE Whip(p) BY <1>1 DEF Whip
<1>2. CASE WhipNodes(p) BY <1>2 DEF WhipNodes
<1>3. CASE Whep(p) BY <1>3 DEF Whep
<1>4. CASE IdleNode(p) BY <1>4 DEF IdleNode
<1>5. CASE CascadeNewNode(p) BY <1>5 DEF CascadeNewNode
<1>6. CASE Session(p) BY <1>6 DEF Session
<1>7. CASE StreamIndex(p) BY <1>7 DEF StreamIndex
<1>8. CASE StreamCreate(p) BY <1>8 DEF StreamCreate
<1>9. CASE StreamDestroy(p) BY <1>9 DEF StreamDestroy
<1>10. CASE StartRecord(p) BY <1>10 DEF StartRecord
<1>11. CASE RecordNodes(p) BY <1>11 DEF RecordNodes
<1>12. CASE Status(p) BY <1>12 DEF Status
<1>13. CASE Find(p) BY <1>13 DEF Find
<1>14. CASE Upserted(p) BY <1>14 DEF Upserted
<1>15. CASE RecordSync(p) BY <1>15 DEF RecordSync
<1>16. CASE Pull(p) BY <1>16 DEF Pull
<1>. QED
  BY <1>1, <1>2, <1>3, <1>4, <1>5, <1>6, <1>7, <1>8, <1>9, <1>10, <1>11, <1>12, <1>13, <1>14,
     <1>15, <1>16 DEF Quiet

\* The step in which a node makes a session is a move too.
LEMMA ProxyMoves ==
  ASSUME CatalogueInv, NEW p \in Process, ProxySession(p)
  PROVE  Moves(p)
<1>1. proc[p].at = "proxy" /\ db' = db /\ ProcInv
  BY DEF ProxySession, Is, CatalogueInv
<1>2. Goto(p, "record") \/ \E out : Finish(p, out)
  BY DEF ProxySession
<1>. QED BY <1>1, <1>2, Ends, GotoMoves DEF Asks

\* A step of a process sets its own variables only, and soundly.
LEMMA StepsSet ==
  ASSUME CatalogueInv, NEW p \in Process, ProcessStep(p)
  PROVE  \E r : Set(p, r) /\ Sound(p, r, db')
<1>0. ProcInv
  BY DEF CatalogueInv
<1>1. CASE \E n \in Node : Fetch(p, n) \/ Put(p, n)
  BY <1>1, FetchFacts, PutShape
<1>3. CASE KeepSession(p)
  <2>1. \E out : Finish(p, out)
    BY <1>3 DEF KeepSession
  <2>. QED BY <1>0, <2>1, Finished
<1>4. CASE Moves(p)
  BY <1>4 DEF Moves
<1>. QED
  BY <1>1, <1>3, <1>4, UpdateMoves, StrategyMoves, RouteMoves, RecordMoves, ProxyMoves
  DEF ProcessStep, UpdateStep, RouteStep

LEMMA StepsStaySound ==
  ASSUME CatalogueInv, NEW p \in Process, ProcessStep(p)
  PROVE  ProcInv' /\ cfg' = cfg /\ db \subseteq db'
<1>0. ProcInv
  BY DEF CatalogueInv
<1>1. cfg' = cfg /\ db \subseteq db'
  <2>. USE DEF shared, clusterVars
  <2>1. CASE UpdateStep(p)
    BY <2>1 DEF UpdateStep, Update, Strategy, Fetch, Put
  <2>2. CASE RouteStep(p)
    <3>1. CASE Quiet(p) BY <3>1, QuietFrame
    <3>2. CASE ProxySession(p) BY <3>2 DEF ProxySession
    <3>3. CASE KeepSession(p) BY <3>3 DEF KeepSession
    <3>4. CASE ProxyDelete(p) BY <3>4 DEF ProxyDelete
    <3>5. CASE ProxyCreate(p) BY <3>5 DEF ProxyCreate
    <3>6. CASE ProxyDestroy(p) BY <3>6 DEF ProxyDestroy
    <3>. QED BY <2>2, <3>1, <3>2, <3>3, <3>4, <3>5, <3>6 DEF RouteStep, Quiet
  <2>3. CASE RecordStep(p)
    <3>1. CASE Quiet(p) BY <3>1, QuietFrame
    <3>2. CASE Halt(p) BY <3>2 DEF Halt
    <3>3. CASE Post(p) BY <3>3 DEF Post
    <3>4. CASE Write(p) BY <3>4 DEF Write
    <3>5. CASE Ack(p) BY <3>5 DEF Ack
    <3>. QED BY <2>3, <3>1, <3>2, <3>3, <3>4, <3>5 DEF RecordStep, Quiet
  <2>4. CASE DoCascadeCheck(p)
    BY <2>4 DEF DoCascadeCheck, CheckNodes, CheckServers, CheckInfos, CheckDelete
  <2>. QED BY <2>1, <2>2, <2>3, <2>4 DEF ProcessStep
<1>2. \E r : Set(p, r) /\ Sound(p, r, db')
  BY StepsSet
<1>. QED BY <1>0, <1>1, <1>2, StaySound

LEMMA StepsKeepIndex ==
  ASSUME CatalogueInv, NEW p \in Process, ProcessStep(p)
  PROVE  IndexTypes' /\ RecordNeverLost'
<1>0. /\ IndexTypes /\ RecordNeverLost /\ ProcInv /\ proc[p].acks \subseteq db
      /\ proc[p].at = "post" => proc[p].node \in Node
  BY DEF CatalogueInv, ProcInv, Sound
<1>1. db \subseteq db'
  BY StepsStaySound
<1>2. CASE UNCHANGED <<index, made, clock>>
  BY <1>0, <1>1, <1>2, IndexFrame
<1>3. CASE ProxyDelete(p)
  <2>1. db' = db
    BY <1>3 DEF ProxyDelete
  <2>2. UNCHANGED <<index, made, clock>> \/ StopRecording(proc[p].node)
    BY <1>3 DEF ProxyDelete, NodeDelete, clusterVars
  <2>. QED BY <1>0, <1>2, <2>1, <2>2, StopKeeps
<1>4. CASE ProxyDestroy(p)
  <2>1. db' = db
    BY <1>4 DEF ProxyDestroy
  <2>2. UNCHANGED <<index, made, clock>> \/ StopRecording(Head(proc[p].left))
    BY <1>4 DEF ProxyDestroy, clusterVars
  <2>. QED BY <1>0, <1>2, <2>1, <2>2, StopKeeps
<1>5. CASE Halt(p)
  <2>1. db' = db
    BY <1>5 DEF Halt
  <2>2. UNCHANGED <<index, made, clock>> \/ StopRecording(Head(proc[p].left))
    BY <1>5 DEF Halt
  <2>. QED BY <1>0, <1>2, <2>1, <2>2, StopKeeps
<1>6. CASE Post(p)
  <2>1. db' = db /\ proc[p].node \in Node
    BY <1>6, <1>0 DEF Post
  <2>2. \/ UNCHANGED <<index, made, clock>>
        \/ /\ made' = Append(made, proc[p].node) /\ clock' = clock + 1
           /\ index' = [index EXCEPT ![proc[p].node] = upsert(@, Len(made'), clock')]
    BY <1>6 DEF Post
  <2>. QED BY <1>0, <1>2, <2>1, <2>2, PostKeeps
<1>7. CASE Ack(p)
  <2>1. db' = db /\ made' = made /\ clock' = clock
    BY <1>7 DEF Ack
  <2>2. index' = index \/ index' = [index EXCEPT ![proc[p].node] = ack(@, proc[p].acks)]
    BY <1>7 DEF Ack
  <2>. QED BY <1>0, <1>2, <2>1, <2>2, AckKeeps
<1>8. CASE Quiet(p)
  BY <1>2, <1>8, QuietFrame
<1>9. ASSUME \/ UpdateStep(p) \/ ProxySession(p) \/ KeepSession(p) \/ ProxyCreate(p) \/ Write(p)
             \/ DoCascadeCheck(p)
      PROVE  UNCHANGED <<index, made, clock>>
  <2>. USE DEF clusterVars
  <2>1. CASE UpdateStep(p) BY <2>1 DEF UpdateStep, Update, Strategy, Fetch, Put
  <2>2. CASE ProxySession(p) BY <2>2 DEF ProxySession
  <2>3. CASE KeepSession(p) BY <2>3 DEF KeepSession
  <2>4. CASE ProxyCreate(p) BY <2>4 DEF ProxyCreate
  <2>5. CASE Write(p) BY <2>5 DEF Write
  <2>6. CASE DoCascadeCheck(p)
    BY <2>6 DEF DoCascadeCheck, CheckNodes, CheckServers, CheckInfos, CheckDelete
  <2>. QED BY <1>9, <2>1, <2>2, <2>3, <2>4, <2>5, <2>6
<1>. QED
  BY <1>2, <1>3, <1>4, <1>5, <1>6, <1>7, <1>8, <1>9 DEF ProcessStep, RouteStep, RecordStep, Quiet

\* What is deleted leaves a node with fewer subscribers, and everything else.
LEMMA DeleteTypes ==
  ASSUME WorldTypes, NEW n, NEW t, SessionDelete(n, t)
  PROVE  /\ WorldTypes'
         /\ \A m \in Node \ {n} : world'[m] = world[m]
         /\ \A m \in Node :
              /\ world'[m].up = world[m].up /\ world'[m].pub = world[m].pub
              /\ world'[m].idle = world[m].idle
              /\ world'[m].sub = world[m].sub \/ (m = n /\ world'[m].sub = world[m].sub \ {t})
<1>1. world' = world \/ world' = [world EXCEPT ![n].sub = @ \ {t}]
  BY DEF SessionDelete
<1>2. DOMAIN NoStream = {"up", "pub", "sub", "idle"}
  BY DEF NoStream
<1>. QED BY <1>1, <1>2 DEF WorldTypes

LEMMA StepsKeepTypes ==
  ASSUME CatalogueInv, NEW p \in Process, ProcessStep(p)
  PROVE  StoreTypes' /\ WorldTypes'
<1>0. /\ StoreTypes /\ WorldTypes
      /\ DOMAIN NoStream = {"up", "pub", "sub", "idle"}
  BY DEF CatalogueInv, NoStream
<1>1. UNCHANGED st => StoreTypes'
  BY <1>0 DEF StoreTypes, get_cluster
<1>2. UNCHANGED world => WorldTypes'
  BY <1>0 DEF WorldTypes
<1>3. CASE Quiet(p)
  BY <1>1, <1>2, <1>3, QuietFrame
<1>4. CASE Update(p) \/ Strategy(p)
  <2>1. \/ st' = ClearStreams(st)
        \/ \E known : \/ st' = ClearStreams(PutStrategy(st, known, cfg.max))
                      \/ st' = PutStrategy(st, known, cfg.max)
    BY <1>4 DEF Update, Strategy
  <2>2. StoreTypes'
    BY <1>0, <2>1 DEF StoreTypes, get_cluster, ClearStreams, PutStrategy
  <2>. QED BY <1>2, <1>4, <2>2 DEF Update, Strategy, clusterVars
<1>5. CASE \E n \in Node : Fetch(p, n)
  BY <1>1, <1>2, <1>5 DEF Fetch, clusterVars
<1>6. ASSUME NEW n \in Node, Put(p, n) PROVE StoreTypes' /\ WorldTypes'
  <2>1. UNCHANGED st \/ st' = PutAnswer(st, n, proc[p].got[n])
    BY <1>6 DEF Put
  <2>2. st' = PutAnswer(st, n, proc[p].got[n]) => StoreTypes'
    BY <1>0 DEF StoreTypes, get_cluster, PutAnswer, info_put, stream_put
  <2>. QED BY <1>1, <1>2, <1>6, <2>1, <2>2 DEF Put, clusterVars
<1>7. CASE ProxySession(p)
  <2>1. WorldTypes'
    BY <1>0, <1>7 DEF ProxySession, WorldTypes
  <2>. QED BY <1>1, <1>7, <2>1 DEF ProxySession
<1>8. CASE KeepSession(p)
  <2>1. StoreTypes'
    BY <1>0, <1>8 DEF KeepSession, StoreTypes, get_cluster, session_put, stream_put
  <2>. QED BY <1>2, <1>8, <2>1 DEF KeepSession, clusterVars
<1>9. CASE ProxyDelete(p)
  <2>1. WorldTypes'
    BY <1>0, <1>9 DEF ProxyDelete, NodeDelete, WorldTypes, clusterVars
  <2>. QED BY <1>1, <1>9, <2>1 DEF ProxyDelete
<1>10. CASE ProxyCreate(p)
  <2>1. WorldTypes'
    BY <1>0, <1>10 DEF ProxyCreate, WorldTypes
  <2>. QED BY <1>1, <1>10, <2>1 DEF ProxyCreate
<1>11. CASE ProxyDestroy(p)
  <2>1. WorldTypes'
    BY <1>0, <1>11 DEF ProxyDestroy, WorldTypes, clusterVars
  <2>. QED BY <1>1, <1>11, <2>1 DEF ProxyDestroy
<1>12. CASE Halt(p)
  BY <1>1, <1>2, <1>12 DEF Halt
<1>13. CASE Post(p)
  BY <1>1, <1>2, <1>13 DEF Post
<1>14. CASE Write(p)
  BY <1>1, <1>2, <1>14 DEF Write, clusterVars
<1>15. CASE Ack(p)
  BY <1>1, <1>2, <1>15 DEF Ack
<1>16. CASE DoCascadeCheck(p)
  <2>1. UNCHANGED st
    BY <1>16 DEF DoCascadeCheck, CheckNodes, CheckServers, CheckInfos, CheckDelete
  <2>2. UNCHANGED world \/ \E n, t : SessionDelete(n, t)
    BY <1>16 DEF DoCascadeCheck, CheckNodes, CheckServers, CheckInfos, CheckDelete, clusterVars
  <2>. QED BY <1>0, <1>1, <1>2, <2>1, <2>2, DeleteTypes
<1>. QED
  BY <1>3, <1>4, <1>5, <1>6, <1>7, <1>8, <1>9, <1>10, <1>11, <1>12, <1>13, <1>14, <1>15, <1>16
  DEF ProcessStep, UpdateStep, RouteStep, RecordStep, Quiet

\* The cascades, which are tasks of their own.
LEMMA CascadesKeepCatalogue ==
  ASSUME CatalogueInv, NEW p \in Process, CascadeStep(p)
  PROVE  CatalogueInv' /\ UNCHANGED <<proc, db>>
<1>0. /\ StoreTypes /\ WorldTypes /\ IndexTypes /\ ProcInv /\ RecordNeverLost /\ cfg \in Configs
      /\ DOMAIN NoStream = {"up", "pub", "sub", "idle"}
  BY DEF CatalogueInv, NoStream
<1>1. UNCHANGED <<cfg, proc, index, made, clock, db>>
  <2>. USE DEF shared, clusterVars
  <2>1. CASE CascadeCall(p) BY <2>1 DEF CascadeCall
  <2>2. CASE CascadeCheck(p) BY <2>2 DEF CascadeCheck
  <2>3. CASE CascadeClose(p) BY <2>3 DEF CascadeClose
  <2>4. CASE CascadeCut(p) BY <2>4 DEF CascadeCut
  <2>. QED BY <2>1, <2>2, <2>3, <2>4 DEF CascadeStep
<1>2. ProcInv' /\ IndexTypes' /\ RecordNeverLost' /\ cfg' \in Configs
  BY <1>0, <1>1, IndexFrame DEF ProcInv, Process, Sound, Op
<1>3. StoreTypes'
  <2>1. UNCHANGED st => StoreTypes'
    BY <1>0 DEF StoreTypes, get_cluster
  <2>2. CASE CascadeClose(p)
    <3>1. \/ UNCHANGED st \/ st' = ClearStreams(st)
          \/ \E order : st' = PutAnswers(st, order, world)
      BY <2>2 DEF CascadeClose
    <3>. QED BY <1>0, <2>1, <3>1 DEF StoreTypes, get_cluster, ClearStreams, PutAnswers
  <2>. QED BY <2>1, <2>2 DEF CascadeStep, CascadeCall, CascadeCheck, CascadeCut
<1>4. WorldTypes'
  <2>1. UNCHANGED world => WorldTypes'
    BY <1>0 DEF WorldTypes
  <2>2. CASE CascadeCall(p)
    <3>1. UNCHANGED world \/ \E s : Feeds(p, casc[p].src, casc[p].dst, s)
      BY <2>2 DEF CascadeCall
    <3>2. ASSUME NEW s, Feeds(p, casc[p].src, casc[p].dst, s) PROVE WorldTypes'
      BY <1>0, <3>2 DEF Feeds, WorldTypes
    <3>. QED BY <2>1, <3>1, <3>2
  <2>3. CASE CascadeCut(p)
    <3>1. UNCHANGED world \/ \E t : SessionDelete(casc[p].src, t)
      BY <2>3 DEF CascadeCut
    <3>. QED BY <1>0, <2>1, <3>1, DeleteTypes
  <2>. QED BY <2>1, <2>2, <2>3 DEF CascadeStep, CascadeCheck, CascadeClose, clusterVars
<1>. QED BY <1>1, <1>2, <1>3, <1>4 DEF CatalogueInv

\* All that is noted of a process when the nodes change is that they have.
LEMMA ShakeShape ==
  ASSUME ProcInv, NEW P, Shake(P), NEW p \in Process
  PROVE  /\ DOMAIN proc'[p] = Fields
         /\ \A x \in Fields \ {"shaken"} : proc'[p][x] = proc[p][x]
         /\ proc'[p].shaken \in BOOLEAN
         /\ proc'[p].shaken =
              (proc[p].shaken \/ (p \in P /\ (\/ proc[p].at \notin {"new", "done", "panic"}
                                              \/ proc[p].ready)))
<1>1. DOMAIN proc[p] = Fields /\ proc[p].shaken \in BOOLEAN
  BY DEF ProcInv, Sound
<1>. QED BY <1>1, FieldNames DEF Shake

\* The nodes, the broker and time.
LEMMA NodesKeepCatalogue ==
  ASSUME CatalogueInv, NEW n \in Node, FeedLost(n) \/ Idles(n) \/ Announce(n) \/ StreamEnds(n)
  PROVE  CatalogueInv'
<1>0. /\ StoreTypes /\ WorldTypes /\ IndexTypes /\ ProcInv /\ RecordNeverLost /\ cfg \in Configs
      /\ DOMAIN NoStream = {"up", "pub", "sub", "idle"}
  BY DEF CatalogueInv, NoStream
<1>1. cfg' = cfg /\ db' = db
  BY DEF FeedLost, Idles, Announce, StreamEnds, shared
<1>2. UNCHANGED proc => ProcInv'
  BY <1>0, <1>1 DEF ProcInv, Process, Sound, Op
<1>3. UNCHANGED st => StoreTypes'
  BY <1>0 DEF StoreTypes, get_cluster
<1>4. UNCHANGED <<index, made, clock>> => IndexTypes' /\ RecordNeverLost'
  BY <1>0, <1>1, IndexFrame
<1>5. CASE FeedLost(n)
  <2>1. WorldTypes'
    BY <1>0, <1>5 DEF FeedLost, WorldTypes
  <2>. QED BY <1>0, <1>1, <1>2, <1>3, <1>4, <1>5, <2>1 DEF FeedLost, CatalogueInv
<1>6. CASE Idles(n)
  <2>1. WorldTypes'
    BY <1>0, <1>6 DEF Idles, WorldTypes
  <2>. QED BY <1>0, <1>1, <1>2, <1>3, <1>4, <1>6, <2>1 DEF Idles, CatalogueInv
<1>7. CASE Announce(n)
  <2>1. UNCHANGED <<world, index, made, clock>>
    BY <1>7 DEF Announce, clusterVars
  <2>2. StoreTypes'
    <3>1. st' = AddNode(st, n) \/ st' = RemoveNode(st, n)
      BY <1>7 DEF Announce
    <3>. QED BY <1>0, <3>1 DEF StoreTypes, get_cluster, AddNode, RemoveNode, With
  <2>3. ProcInv'
    <3>1. PICK P : Shake(P)
      BY <1>7 DEF Announce
    <3>2. DOMAIN proc' = Process
      BY <3>1 DEF Shake
    <3>3. ASSUME NEW p \in Process PROVE Sound(p, proc'[p], db)
      <4>1. Sound(p, proc[p], db)
        BY <1>0 DEF ProcInv
      <4>2. /\ DOMAIN proc'[p] = Fields /\ proc'[p].back = proc[p].back
            /\ proc'[p].wait = proc[p].wait /\ proc'[p].acks = proc[p].acks
            /\ proc'[p].at = proc[p].at /\ proc'[p].record = proc[p].record
            /\ proc'[p].node = proc[p].node /\ proc'[p].shaken \in BOOLEAN
        BY <1>0, <3>1, ShakeShape, FieldNames
      <4>. QED BY <4>1, <4>2 DEF Sound
    <3>. QED BY <1>1, <3>2, <3>3 DEF ProcInv, Process, Sound, Op
  <2>. QED BY <1>0, <1>1, <1>4, <2>1, <2>2, <2>3 DEF CatalogueInv, WorldTypes
<1>8. CASE StreamEnds(n)
  <2>1. WorldTypes'
    BY <1>0, <1>8 DEF StreamEnds, WorldTypes
  <2>2. IndexTypes' /\ RecordNeverLost'
    BY <1>0, <1>1, <1>8, StopKeeps DEF StreamEnds
  <2>. QED BY <1>0, <1>1, <1>2, <1>3, <1>8, <2>1, <2>2 DEF StreamEnds, CatalogueInv
<1>. QED BY <1>5, <1>6, <1>7, <1>8

LEMMA RestartKeepsCatalogue ==
  ASSUME CatalogueInv, Restart
  PROVE  CatalogueInv'
<1>0. /\ StoreTypes /\ WorldTypes /\ IndexTypes /\ ProcInv /\ RecordNeverLost /\ cfg \in Configs
  BY DEF CatalogueInv
<1>1. UNCHANGED <<cfg, world, index, made, clock, db>>
  BY DEF Restart, clusterVars
<1>2. StoreTypes'
  <2>1. cfg.nodes \subseteq Node
    BY <1>0, LivemanAssumption
  <2>. QED BY <2>1 DEF Restart, NewStorage, StoreTypes, get_cluster
<1>3. ASSUME NEW p \in Process PROVE Sound(p, proc'[p], db)
  <2>1. proc'[p] = NewProcess \/ proc'[p] = [NewProcess EXCEPT !.at = "done", !.out = "lost"]
    BY DEF Restart
  <2>2. /\ DOMAIN proc'[p] = Fields /\ proc'[p].back = "new" /\ proc'[p].wait = {}
        /\ proc'[p].acks = {} /\ proc'[p].at \in {"new", "done"}
    BY <2>1, NewFields, FieldNames
  <2>3. proc'[p].shaken = FALSE
    <3>1. [NewProcess EXCEPT !.at = "done", !.out = "lost"].shaken = NewProcess.shaken
      BY NewFields, FieldNames
    <3>. QED BY <2>1, <3>1, NewFields
  <2>. QED BY <2>2, <2>3 DEF Sound, Updates
<1>4. ProcInv'
  BY <1>1, <1>3 DEF Restart, ProcInv, Process, Sound, Op
<1>. QED BY <1>0, <1>1, <1>2, <1>4, IndexFrame DEF CatalogueInv, WorldTypes

LEMMA CatalogueInit == Init => CatalogueInv
<1> SUFFICES ASSUME Init PROVE CatalogueInv
  OBVIOUS
<1>1. /\ cfg \in Configs /\ cfg.nodes \subseteq Node /\ DOMAIN cfg.world = Node
      /\ \A n \in Node : DOMAIN cfg.world[n] = DOMAIN NoStream
  BY LivemanAssumption DEF Init
<1>2. StoreTypes
  BY <1>1 DEF Init, StoreTypes, NewStorage, get_cluster
<1>3. WorldTypes
  BY <1>1 DEF Init, WorldTypes
<1>4. IndexTypes /\ RecordNeverLost
  BY DEF Init, IndexTypes, RecordNeverLost
<1>5. ASSUME NEW p \in Process PROVE Sound(p, proc[p], db)
  <2>1. proc[p] = NewProcess
    BY DEF Init
  <2>. QED BY <2>1, NewFields DEF Sound, Updates
<1>6. ProcInv
  BY <1>5 DEF Init, ProcInv
<1>. QED BY <1>1, <1>2, <1>3, <1>4, <1>6 DEF CatalogueInv

LEMMA CatalogueStep == CatalogueInv /\ [Next]_vars => CatalogueInv'
<1> SUFFICES ASSUME CatalogueInv, [Next]_vars PROVE CatalogueInv'
  OBVIOUS
<1>1. ASSUME NEW p \in Process, ProcessStep(p) PROVE CatalogueInv'
  BY <1>1, StepsStaySound, StepsKeepIndex, StepsKeepTypes DEF CatalogueInv
<1>2. ASSUME NEW p \in Process, CascadeStep(p) PROVE CatalogueInv'
  BY <1>2, CascadesKeepCatalogue
<1>3. ASSUME NEW n \in Node, FeedLost(n) \/ Idles(n) \/ Announce(n) \/ StreamEnds(n)
      PROVE  CatalogueInv'
  BY <1>3, NodesKeepCatalogue
<1>4. ASSUME UNCHANGED <<cfg, st, proc, clusterVars, db>> PROVE CatalogueInv'
  <2>1. UNCHANGED <<cfg, st, proc, world, index, made, clock, db>>
    BY <1>4 DEF clusterVars
  <2>2. ProcInv'
    BY <2>1 DEF CatalogueInv, ProcInv, Process, Sound, Op
  <2>3. IndexTypes' /\ RecordNeverLost'
    BY <2>1, IndexFrame DEF CatalogueInv
  <2>. QED BY <2>1, <2>2, <2>3 DEF CatalogueInv, StoreTypes, WorldTypes, get_cluster
<1>5. CASE ThreeSeconds
  BY <1>4, <1>5 DEF ThreeSeconds
<1>6. CASE UNCHANGED vars
  BY <1>4, <1>6 DEF vars
<1>. QED BY <1>1, <1>2, <1>3, <1>5, <1>6, RestartKeepsCatalogue DEF Next

\* For any nodes, requests, failures and restarts: a recording stays in the index
\* of its node (recorder/index.rs) until Liveman's table has its row, whatever
\* do_record_sync acknowledges and whenever an answer gets lost.
THEOREM CatalogueSafe == Spec => []RecordNeverLost
<1>1. CatalogueInv => RecordNeverLost
  BY DEF CatalogueInv
<1>. QED BY <1>1, CatalogueInit, CatalogueStep, PTL DEF Spec

--------------------------------------------------------------------------------
(* The sessions.                                                           *)

\* The session of request p can only be on node n: the request is about to keep
\* it there, or is over and no client was told of another node.
Lives(p, n) ==
  \/ proc[p].at = "record" /\ proc[p].node = n
  \/ proc[p].at = "done" /\ \A t \in told : t[1] = Direct(p) => t[2] = n

\* What is true of a node is true of any answer of it that is still to be put into
\* the storage, however old.
LivesInv ==
  \A p \in Process :
    /\ \A n \in Node : Direct(p) \in world[n].sub => Lives(p, n)
    /\ \A q \in Process : \A n \in DOMAIN proc[q].got :
         Direct(p) \in proc[q].got[n].sub => Lives(p, n)

\* A client is told at the end of its request, when the session was kept.
ToldInv ==
  \A t \in told :
    /\ \E p \in Process : t[1] = Direct(p) /\ proc[p].at = "done"
    /\ t[1] \in DOMAIN st.session /\ st.session[t[1]] = t[2]

SessionInv == restarts \in Nat /\ (restarts = 0 => LivesInv /\ ToldInv)

\* A step that makes, keeps and moves no session.
LEMMA SessionFrame ==
  ASSUME SessionInv, UNCHANGED <<cfg, restarts>>, told' \subseteq told,
         st'.session = st.session,
         \A q \in Process : \A n \in Node : Direct(q) \in world'[n].sub => Direct(q) \in world[n].sub,
         \A q \in Process : proc[q].at \in {"record", "done"} =>
                              proc'[q].at = proc[q].at /\ proc'[q].node = proc[q].node,
         \A q \in Process : \A n \in DOMAIN proc'[q].got :
           n \in DOMAIN proc[q].got /\ proc'[q].got[n] = proc[q].got[n]
  PROVE  SessionInv'
<1>. SUFFICES ASSUME restarts = 0 PROVE LivesInv' /\ ToldInv'
  BY DEF SessionInv
<1>0. LivesInv /\ ToldInv /\ Process' = Process
  BY DEF SessionInv, Process
<1>1. \A p : Direct(p)' = Direct(p)
  BY DEF Direct, Nowhere
<1>2. ASSUME NEW p \in Process, NEW n, Lives(p, n) PROVE Lives(p, n)'
  BY <1>1, <1>2 DEF Lives
<1>3. LivesInv'
  BY <1>0, <1>1, <1>2 DEF LivesInv
<1>4. ToldInv'
  BY <1>0, <1>1 DEF ToldInv
<1>. QED BY <1>3, <1>4

\* A move of a process is such a step, unless it is the node that makes a session.
LEMMA MovesFrame ==
  ASSUME CatalogueInv, SessionInv, NEW p \in Process, Moves(p),
         UNCHANGED <<cfg, restarts>>, told' \subseteq told, st'.session = st.session,
         \A q \in Process : \A n \in Node : Direct(q) \in world'[n].sub => Direct(q) \in world[n].sub
  PROVE  SessionInv'
<1>. PICK r : Set(p, r) /\ r.got \in {proc[p].got, Empty}
  BY DEF Moves
<1>1. /\ proc[p].at \notin {"record", "done"} /\ proc'[p] = r
      /\ \A q \in Process \ {p} : proc'[q] = proc[q]
  BY DEF Moves, CatalogueInv, ProcInv, Set
<1>2. DOMAIN Empty = {}
  BY DEF Empty
<1>3. \A q \in Process : \A n \in DOMAIN proc'[q].got :
        n \in DOMAIN proc[q].got /\ proc'[q].got[n] = proc[q].got[n]
  BY <1>1, <1>2
<1>4. \A q \in Process : proc[q].at \in {"record", "done"} =>
        proc'[q].at = proc[q].at /\ proc'[q].node = proc[q].node
  BY <1>1
<1>. QED BY <1>3, <1>4, SessionFrame

\* The answers of an update are what the nodes have.
LEMMA FetchSession ==
  ASSUME CatalogueInv, SessionInv, NEW p \in Process, NEW node \in Node, Fetch(p, node)
  PROVE  SessionInv'
<1>1. proc[p].at = "fetch" /\ UNCHANGED <<cfg, restarts, told, st, world, db>>
  BY DEF Fetch, shared, clusterVars, CatalogueInv, ProcInv, Sound
<1>4. PICK r : Set(p, r) /\ r.got \in {Empty, proc[p].got, With(proc[p].got, node, world[node])}
  BY FetchFacts
<1>. PICK got : got = r.got
  OBVIOUS
<1>2. \A n \in DOMAIN got :
        \/ n \in DOMAIN proc[p].got /\ got[n] = proc[p].got[n]
        \/ n \in Node /\ got[n] = world[n]
  BY <1>4 DEF Empty, With
<1>5. proc'[p].got = got /\ \A q \in Process \ {p} : proc'[q] = proc[q]
  BY <1>4 DEF CatalogueInv, ProcInv, Set
<1>. SUFFICES ASSUME restarts = 0 PROVE LivesInv' /\ ToldInv'
  BY <1>1 DEF SessionInv
<1>6. LivesInv /\ ToldInv /\ Process' = Process
  BY <1>1 DEF SessionInv, Process
<1>7. \A q : Direct(q)' = Direct(q)
  BY DEF Direct, Nowhere
<1>8. ASSUME NEW q \in Process, NEW n, Lives(q, n) PROVE Lives(q, n)'
  BY <1>1, <1>5, <1>7, <1>8 DEF Lives
<1>9. ASSUME NEW q \in Process, NEW n \in DOMAIN got, Direct(q) \in got[n].sub
      PROVE  Lives(q, n)
  BY <1>2, <1>6, <1>9 DEF LivesInv
<1>10. ASSUME NEW q \in Process
       PROVE  /\ \A n \in Node : Direct(q) \in world'[n].sub => Lives(q, n)'
              /\ \A o \in Process : \A n \in DOMAIN proc'[o].got :
                   Direct(q) \in proc'[o].got[n].sub => Lives(q, n)'
  <2>1. \A n \in Node : Direct(q) \in world'[n].sub => Lives(q, n)'
    BY <1>1, <1>6, <1>8 DEF LivesInv
  <2>2. ASSUME NEW o \in Process, NEW n \in DOMAIN proc'[o].got, Direct(q) \in proc'[o].got[n].sub
        PROVE  Lives(q, n)'
    <3>1. CASE o = p
      BY <1>5, <1>8, <1>9, <2>2, <3>1
    <3>2. CASE o # p
      BY <1>5, <1>6, <1>8, <2>2, <3>2 DEF LivesInv
    <3>. QED BY <3>1, <3>2
  <2>. QED BY <2>1, <2>2
<1>11. LivesInv'
  BY <1>6, <1>7, <1>10 DEF LivesInv
<1>12. ToldInv'
  BY <1>1, <1>5, <1>6, <1>7 DEF ToldInv
<1>. QED BY <1>11, <1>12

\* An answer that is put in, early or late, says of a session what its client was
\* told.
LEMMA PutSession ==
  ASSUME CatalogueInv, SessionInv, NEW p \in Process, NEW n \in Node, Put(p, n)
  PROVE  SessionInv'
<1>1. /\ proc[p].at = "fetch" /\ n \in DOMAIN proc[p].got
      /\ UNCHANGED <<cfg, restarts, told, world, db>> /\ ProcInv
  BY DEF Put, shared, clusterVars, CatalogueInv
<1>2. PICK r : /\ Set(p, r)
               /\ \A m \in DOMAIN r.got : m \in DOMAIN proc[p].got /\ r.got[m] = proc[p].got[m]
  BY PutShape
<1>3. proc'[p] = r /\ \A q \in Process \ {p} : proc'[q] = proc[q]
  BY <1>1, <1>2 DEF ProcInv, Set
<1>4. \A q \in Process : proc[q].at \in {"record", "done"} =>
        proc'[q].at = proc[q].at /\ proc'[q].node = proc[q].node
  BY <1>1, <1>3
<1>5. \A q \in Process : \A m \in DOMAIN proc'[q].got :
        m \in DOMAIN proc[q].got /\ proc'[q].got[m] = proc[q].got[m]
  BY <1>2, <1>3
<1>6. CASE UNCHANGED st
  BY <1>1, <1>4, <1>5, <1>6, SessionFrame
<1>7. CASE st' = PutAnswer(st, n, proc[p].got[n])
  <2>. PICK sub : sub = proc[p].got[n].sub
    OBVIOUS
  <2>1. /\ DOMAIN st'.session = DOMAIN st.session \cup sub
        /\ \A s \in DOMAIN st'.session :
             st'.session[s] = IF s \in sub THEN n ELSE st.session[s]
    BY <1>7 DEF PutAnswer, info_put, stream_put, CatalogueInv, StoreTypes
  <2>. SUFFICES ASSUME restarts = 0 PROVE LivesInv' /\ ToldInv'
    BY <1>1 DEF SessionInv
  <2>2. LivesInv /\ ToldInv /\ Process' = Process
    BY <1>1 DEF SessionInv, Process
  <2>3. \A q : Direct(q)' = Direct(q)
    BY DEF Direct, Nowhere
  <2>4. ASSUME NEW q \in Process, NEW m, Lives(q, m) PROVE Lives(q, m)'
    BY <1>1, <1>4, <2>3, <2>4 DEF Lives
  <2>5. LivesInv'
    BY <1>1, <1>5, <2>2, <2>3, <2>4 DEF LivesInv
  <2>6. ASSUME NEW t \in told
        PROVE  /\ \E q \in Process : t[1] = Direct(q) /\ proc'[q].at = "done"
               /\ t[1] \in DOMAIN st'.session /\ st'.session[t[1]] = t[2]
    <3>1. PICK q \in Process : t[1] = Direct(q) /\ proc[q].at = "done"
      BY <2>2 DEF ToldInv
    <3>2. t[1] \in DOMAIN st.session /\ st.session[t[1]] = t[2]
      BY <2>2 DEF ToldInv
    <3>3. t[1] \in sub => t[2] = n
      BY <1>1, <2>2, <3>1 DEF LivesInv, Lives
    <3>. QED BY <1>4, <2>1, <3>1, <3>2, <3>3
  <2>7. ToldInv'
    BY <1>1, <2>2, <2>3, <2>6 DEF ToldInv
  <2>. QED BY <2>5, <2>7
<1>. QED BY <1>6, <1>7 DEF Put

\* A node makes the session of a request that has none anywhere.
LEMMA ProxySessionSession ==
  ASSUME CatalogueInv, SessionInv, NEW p \in Process, ProxySession(p)
  PROVE  SessionInv'
<1>1. /\ proc[p].at = "proxy" /\ UNCHANGED <<cfg, restarts, told, st, db>> /\ Moves(p)
      /\ ProcInv /\ WorldTypes
  BY ProxyMoves DEF ProxySession, Is, shared, CatalogueInv
<1>2. CASE \A q \in Process : \A m \in Node : Direct(q) \in world'[m].sub => Direct(q) \in world[m].sub
  BY <1>1, <1>2, MovesFrame
<1>3. CASE UNCHANGED world
  BY <1>2, <1>3
<1>. PICK n : n = proc[p].node
  OBVIOUS
<1>4. CASE world' = [world EXCEPT ![n].up = TRUE, ![n].pub = {Direct(p)}]
  <2>1. \A m \in Node : world'[m].sub = world[m].sub
    BY <1>1, <1>4 DEF WorldTypes, NoStream
  <2>. QED BY <1>2, <2>1
<1>5. CASE /\ world' = [world EXCEPT ![n].up = TRUE, ![n].idle = FALSE, ![n].sub = @ \cup {Direct(p)}]
           /\ Goto(p, "record")
  <2>1. \A m \in Node : world'[m].sub = IF m = n THEN world[m].sub \cup {Direct(p)} ELSE world[m].sub
    BY <1>1, <1>5 DEF WorldTypes, NoStream
  <2>2. PICK r : r = [Stale(p) EXCEPT !.at = "record"]
    OBVIOUS
  <2>3. DOMAIN proc[p] = Fields /\ proc'[p] = r /\ \A q \in Process \ {p} : proc'[q] = proc[q]
    BY <1>1, <1>5, <2>2 DEF ProcInv, Sound, Goto, Set
  <2>4. proc'[p].at = "record" /\ proc'[p].node = n /\ proc'[p].got = proc[p].got
    BY <2>2, <2>3, FieldNames DEF Stale
  <2>. SUFFICES ASSUME restarts = 0 PROVE LivesInv' /\ ToldInv'
    BY <1>1 DEF SessionInv
  <2>5. LivesInv /\ ToldInv /\ Process' = Process
    BY <1>1 DEF SessionInv, Process
  <2>6. \A q : Direct(q)' = Direct(q)
    BY DEF Direct, Nowhere
  <2>7. ASSUME NEW q \in Process, NEW m, Lives(q, m) PROVE Lives(q, m)'
    BY <1>1, <2>3, <2>6, <2>7 DEF Lives
  <2>8. Lives(p, n)'
    BY <2>4 DEF Lives
  <2>9. \A q \in Process : Direct(q) = Direct(p) => q = p
    BY DEF Direct
  <2>10. ASSUME NEW q \in Process
         PROVE  /\ \A m \in Node : Direct(q) \in world'[m].sub => Lives(q, m)'
                /\ \A o \in Process : \A m \in DOMAIN proc'[o].got :
                     Direct(q) \in proc'[o].got[m].sub => Lives(q, m)'
    <3>1. ASSUME NEW m \in Node, Direct(q) \in world'[m].sub PROVE Lives(q, m)'
      <4>1. CASE Direct(q) \in world[m].sub
        BY <4>1, <2>5, <2>7 DEF LivesInv
      <4>2. CASE Direct(q) \notin world[m].sub
        BY <4>2, <3>1, <2>1, <2>8, <2>9
      <4>. QED BY <4>1, <4>2
    <3>2. ASSUME NEW o \in Process, NEW m \in DOMAIN proc'[o].got, Direct(q) \in proc'[o].got[m].sub
          PROVE  Lives(q, m)'
      <4>1. proc'[o].got = proc[o].got
        BY <2>3, <2>4
      <4>. QED BY <3>2, <4>1, <2>5, <2>7 DEF LivesInv
    <3>. QED BY <3>1, <3>2
  <2>11. LivesInv'
    BY <2>5, <2>6, <2>10 DEF LivesInv
  <2>12. ToldInv'
    BY <1>1, <2>3, <2>5, <2>6 DEF ToldInv
  <2>. QED BY <2>11, <2>12
<1>. QED BY <1>3, <1>4, <1>5 DEF ProxySession

\* The client is told of its session when the storage has it.
LEMMA KeepSessionSession ==
  ASSUME CatalogueInv, SessionInv, NEW p \in Process, KeepSession(p)
  PROVE  SessionInv'
<1>. PICK n : n = proc[p].node
  OBVIOUS
<1>1. /\ proc[p].at = "record" /\ Op(p) \notin Ticks
      /\ UNCHANGED <<cfg, restarts, world, db>> /\ ProcInv /\ StoreTypes
  BY DEF KeepSession, Is, Ticks, shared, clusterVars, CatalogueInv
<1>2. PICK out : Finish(p, out)
  BY DEF KeepSession
<1>3. PICK r : r = [NewProcess EXCEPT !.at = "done", !.out = out]
  OBVIOUS
<1>4. proc'[p] = r /\ \A q \in Process \ {p} : proc'[q] = proc[q]
  BY <1>1, <1>2, <1>3 DEF ProcInv, Finish
<1>5. proc'[p].at = "done" /\ proc'[p].got = Empty /\ DOMAIN Empty = {}
  BY <1>3, <1>4, NewFields, FieldNames DEF Empty
<1>6. \/ UNCHANGED <<st, told>>
      \/ /\ told' = told \cup {<<Direct(p), n>>}
         /\ st'.session = With(st.session, Direct(p), n)
  BY <1>1 DEF KeepSession, session_put, stream_put, StoreTypes
<1>. SUFFICES ASSUME restarts = 0 PROVE LivesInv' /\ ToldInv'
  BY <1>1 DEF SessionInv
<1>7. LivesInv /\ ToldInv /\ Process' = Process
  BY <1>1 DEF SessionInv, Process
<1>8. \A q : Direct(q)' = Direct(q)
  BY DEF Direct, Nowhere
<1>9. \A q : Direct(q) = Direct(p) => q = p
  BY DEF Direct
<1>10. \A t \in told : t[1] # Direct(p)
  BY <1>1, <1>7, <1>9 DEF ToldInv
<1>11. \A t \in told' : t \in told \/ (t[1] = Direct(p) /\ t[2] = n)
  BY <1>6
<1>12. ASSUME NEW q \in Process, NEW m, Lives(q, m) PROVE Lives(q, m)'
  <2>1. CASE q = p
    <3>1. m = n
      BY <1>1, <1>12, <2>1 DEF Lives
    <3>. QED BY <1>5, <1>8, <1>10, <1>11, <2>1, <3>1 DEF Lives
  <2>2. CASE q # p
    <3>1. \A t \in told' : t[1] = Direct(q) => t \in told
      BY <1>9, <1>11, <2>2
    <3>. QED BY <1>4, <1>8, <1>12, <2>2, <3>1 DEF Lives
  <2>. QED BY <2>1, <2>2
<1>13. ASSUME NEW q \in Process
       PROVE  /\ \A m \in Node : Direct(q) \in world'[m].sub => Lives(q, m)'
              /\ \A o \in Process : \A m \in DOMAIN proc'[o].got :
                   Direct(q) \in proc'[o].got[m].sub => Lives(q, m)'
  BY <1>1, <1>4, <1>5, <1>7, <1>12 DEF LivesInv
<1>14. LivesInv'
  BY <1>7, <1>8, <1>13 DEF LivesInv
<1>15. ASSUME NEW t \in told'
       PROVE  /\ \E q \in Process : t[1] = Direct(q) /\ proc'[q].at = "done"
              /\ t[1] \in DOMAIN st'.session /\ st'.session[t[1]] = t[2]
  <2>1. CASE t \in told
    <3>1. PICK q \in Process : t[1] = Direct(q) /\ proc[q].at = "done"
      BY <2>1, <1>7 DEF ToldInv
    <3>2. t[1] \in DOMAIN st.session /\ st.session[t[1]] = t[2] /\ t[1] # Direct(p)
      BY <2>1, <1>7, <1>10 DEF ToldInv
    <3>3. t[1] \in DOMAIN st'.session /\ st'.session[t[1]] = t[2]
      BY <1>6, <3>2 DEF With
    <3>. QED BY <1>1, <1>4, <3>1, <3>3
  <2>2. CASE t \notin told
    <3>1. t = <<Direct(p), n>> /\ st'.session = With(st.session, Direct(p), n)
      BY <1>6, <2>2
    <3>2. t[1] \in DOMAIN st'.session /\ st'.session[t[1]] = t[2]
      BY <3>1 DEF With
    <3>. QED BY <1>5, <3>1, <3>2
  <2>. QED BY <2>1, <2>2
<1>16. ToldInv'
  BY <1>7, <1>8, <1>15 DEF ToldInv
<1>. QED BY <1>14, <1>16

LEMMA ProcessKeepsSessions ==
  ASSUME CatalogueInv, SessionInv, NEW p \in Process, ProcessStep(p)
  PROVE  SessionInv'
<1>0. WorldTypes /\ StoreTypes /\ DOMAIN NoStream = {"up", "pub", "sub", "idle"} /\ NoStream.sub = {}
  BY DEF CatalogueInv, NoStream
<1>1. ASSUME Moves(p), UNCHANGED <<cfg, restarts, told, st, world>> PROVE SessionInv'
  BY <1>1, MovesFrame
<1>2. CASE Quiet(p)
  <2>1. UNCHANGED <<cfg, restarts, told, st, world>>
    BY <1>2, QuietFrame
  <2>. QED BY <1>1, <1>2, <2>1, RouteMoves, RecordMoves DEF Quiet, RecordStep
<1>3. CASE Update(p) \/ Strategy(p)
  <2>1. \/ st' = ClearStreams(st)
        \/ \E known : \/ st' = ClearStreams(PutStrategy(st, known, cfg.max))
                      \/ st' = PutStrategy(st, known, cfg.max)
    BY <1>3 DEF Update, Strategy
  <2>2. st'.session = st.session
    BY <1>0, <2>1 DEF StoreTypes, ClearStreams, PutStrategy
  <2>3. UNCHANGED <<cfg, restarts, told, world>>
    BY <1>3 DEF Update, Strategy, shared, clusterVars
  <2>. QED BY <1>3, <2>2, <2>3, UpdateMoves, StrategyMoves, MovesFrame
<1>4. CASE ProxyDelete(p)
  <2>1. UNCHANGED <<cfg, restarts, st>> /\ told' \subseteq told
    BY <1>4 DEF ProxyDelete, shared
  <2>2. \A m \in Node : world'[m].sub \subseteq world[m].sub
    BY <1>0, <1>4 DEF ProxyDelete, NodeDelete, WorldTypes, clusterVars
  <2>. QED BY <1>4, <2>1, <2>2, RouteMoves, MovesFrame
<1>5. CASE ProxyCreate(p)
  <2>1. UNCHANGED <<cfg, restarts, st, told>>
    BY <1>5 DEF ProxyCreate, shared
  <2>2. \A m \in Node : world'[m].sub \subseteq world[m].sub
    BY <1>0, <1>5 DEF ProxyCreate, WorldTypes
  <2>. QED BY <1>5, <2>1, <2>2, RouteMoves, MovesFrame
<1>6. CASE ProxyDestroy(p)
  <2>1. UNCHANGED <<cfg, restarts, st, told>>
    BY <1>6 DEF ProxyDestroy, shared
  <2>2. \A m \in Node : world'[m].sub \subseteq world[m].sub
    BY <1>0, <1>6 DEF ProxyDestroy, WorldTypes, clusterVars
  <2>. QED BY <1>6, <2>1, <2>2, RouteMoves, MovesFrame
<1>7. CASE Halt(p)
  <2>1. UNCHANGED <<cfg, restarts, told, st, world>>
    BY <1>7 DEF Halt, shared
  <2>. QED BY <1>1, <1>7, <2>1, RecordMoves DEF RecordStep
<1>8. CASE Post(p)
  <2>1. UNCHANGED <<cfg, restarts, told, st, world>>
    BY <1>8 DEF Post, shared
  <2>. QED BY <1>1, <1>8, <2>1, RecordMoves DEF RecordStep
<1>9. CASE Write(p)
  <2>1. UNCHANGED <<cfg, restarts, told, st, world>>
    BY <1>9 DEF Write, shared, clusterVars
  <2>. QED BY <1>1, <1>9, <2>1, RecordMoves DEF RecordStep
<1>10. CASE Ack(p)
  <2>1. UNCHANGED <<cfg, restarts, told, st, world>>
    BY <1>10 DEF Ack, shared
  <2>. QED BY <1>1, <1>10, <2>1, RecordMoves DEF RecordStep
<1>11. CASE DoCascadeCheck(p)
  <2>1. UNCHANGED <<cfg, restarts, st, told>>
    BY <1>11 DEF DoCascadeCheck, CheckNodes, CheckServers, CheckInfos, CheckDelete, shared
  <2>2. \A m \in Node : world'[m].sub \subseteq world[m].sub
    <3>1. UNCHANGED world \/ \E n, t : SessionDelete(n, t)
      BY <1>11 DEF DoCascadeCheck, CheckNodes, CheckServers, CheckInfos, CheckDelete, clusterVars
    <3>. QED BY <1>0, <3>1, DeleteTypes
  <2>. QED BY <1>11, <2>1, <2>2, RecordMoves, MovesFrame
<1>. QED
  BY <1>2, <1>3, <1>4, <1>5, <1>6, <1>7, <1>8, <1>9, <1>10, <1>11, FetchSession, PutSession,
     ProxySessionSession, KeepSessionSession
  DEF ProcessStep, UpdateStep, RouteStep, RecordStep, Quiet

\* An update of the cascade's task finds the sessions where their clients were told.
LEMMA CloseKeepsSessions ==
  ASSUME CatalogueInv, SessionInv, NEW order, st' = PutAnswers(st, order, world),
         UNCHANGED <<cfg, restarts, told, proc, world>>
  PROVE  SessionInv'
<1>. SUFFICES ASSUME restarts = 0 PROVE LivesInv' /\ ToldInv'
  BY DEF SessionInv
<1>1. LivesInv /\ ToldInv /\ Process' = Process
  BY DEF SessionInv, Process
<1>2. \A q : Direct(q)' = Direct(q)
  BY DEF Direct, Nowhere
<1>3. LivesInv'
  BY <1>1, <1>2 DEF LivesInv, Lives
<1>. PICK subs : subs = UNION {world[n].sub : n \in DOMAIN st.list}
  OBVIOUS
<1>4. /\ DOMAIN st'.session = DOMAIN st.session \cup subs
      /\ \A s \in DOMAIN st'.session : st'.session[s] =
           IF s \in subs THEN CHOOSE n \in DOMAIN st.list : s \in world[n].sub ELSE st.session[s]
  BY DEF PutAnswers, CatalogueInv, StoreTypes
<1>5. ASSUME NEW t \in told
      PROVE  t[1] \in DOMAIN st'.session /\ st'.session[t[1]] = t[2]
  <2>1. /\ t[1] \in DOMAIN st.session /\ st.session[t[1]] = t[2]
        /\ \E q \in Process : t[1] = Direct(q) /\ proc[q].at = "done"
    BY <1>1 DEF ToldInv
  <2>2. CASE t[1] \in subs
    <3>. PICK m : m = CHOOSE n \in DOMAIN st.list : t[1] \in world[n].sub
      OBVIOUS
    <3>1. m \in Node /\ t[1] \in world[m].sub
      BY <2>2 DEF CatalogueInv, StoreTypes, get_cluster
    <3>2. m = t[2]
      BY <1>1, <2>1, <3>1 DEF LivesInv, Lives
    <3>. QED BY <1>4, <2>1, <2>2, <3>2
  <2>3. CASE t[1] \notin subs
    BY <1>4, <2>1, <2>3
  <2>. QED BY <2>2, <2>3
<1>6. ToldInv'
  BY <1>1, <1>2, <1>5 DEF ToldInv
<1>. QED BY <1>3, <1>6

\* A cascade makes and ends sessions of its own, and ends others.
LEMMA CascadesKeepSessions ==
  ASSUME CatalogueInv, SessionInv, NEW p \in Process, CascadeStep(p)
  PROVE  SessionInv'
<1>0. WorldTypes /\ StoreTypes /\ DOMAIN NoStream = {"up", "pub", "sub", "idle"}
  BY DEF CatalogueInv, NoStream
<1>1. UNCHANGED <<cfg, restarts, told, proc>>
  <2>. USE DEF shared
  <2>1. CASE CascadeCall(p) BY <2>1 DEF CascadeCall
  <2>2. CASE CascadeCheck(p) BY <2>2 DEF CascadeCheck
  <2>3. CASE CascadeClose(p) BY <2>3 DEF CascadeClose
  <2>4. CASE CascadeCut(p) BY <2>4 DEF CascadeCut
  <2>. QED BY <2>1, <2>2, <2>3, <2>4 DEF CascadeStep
<1>2. \/ st'.session = st.session
      \/ UNCHANGED world /\ \E order : st' = PutAnswers(st, order, world)
  <2>1. CASE CascadeClose(p)
    <3>1. \/ UNCHANGED st \/ st' = ClearStreams(st)
          \/ \E order : st' = PutAnswers(st, order, world)
      BY <2>1 DEF CascadeClose
    <3>2. UNCHANGED world
      BY <2>1 DEF CascadeClose, clusterVars
    <3>. QED BY <1>0, <3>1, <3>2 DEF StoreTypes, ClearStreams
  <2>2. CASE CascadeCall(p) BY <2>2 DEF CascadeCall
  <2>3. CASE CascadeCheck(p) BY <2>3 DEF CascadeCheck
  <2>4. CASE CascadeCut(p) BY <2>4 DEF CascadeCut
  <2>. QED BY <2>1, <2>2, <2>3, <2>4 DEF CascadeStep
<1>3. ASSUME NEW q \in Process, NEW n \in Node, Direct(q) \in world'[n].sub
      PROVE  Direct(q) \in world[n].sub
  <2>1. CASE CascadeCall(p)
    <3>1. \/ UNCHANGED world
          \/ \E s \in {<<p, "push", Manager>>, <<p, "pull", Nowhere>>} :
               Feeds(p, casc[p].src, casc[p].dst, s)
      BY <2>1 DEF CascadeCall
    <3>2. ASSUME NEW s \in {<<p, "push", Manager>>, <<p, "pull", Nowhere>>},
                 Feeds(p, casc[p].src, casc[p].dst, s)
          PROVE  Direct(q) \in world[n].sub
      <4>1. world'[n].sub \in {world[n].sub, world[n].sub \cup {s}}
        BY <1>0, <3>2 DEF Feeds, WorldTypes
      <4>2. Direct(q) # s
        BY <3>2 DEF Direct
      <4>. QED BY <1>3, <4>1, <4>2
    <3>. QED BY <1>3, <3>1, <3>2
  <2>2. CASE CascadeCheck(p)
    BY <1>3, <2>2 DEF CascadeCheck, clusterVars
  <2>3. CASE CascadeClose(p)
    BY <1>3, <2>3 DEF CascadeClose, clusterVars
  <2>4. CASE CascadeCut(p)
    <3>1. UNCHANGED world \/ \E t : SessionDelete(casc[p].src, t)
      BY <2>4 DEF CascadeCut
    <3>. QED BY <1>0, <1>3, <3>1, DeleteTypes
  <2>. QED BY <2>1, <2>2, <2>3, <2>4 DEF CascadeStep
<1>. QED BY <1>1, <1>2, <1>3, SessionFrame, CloseKeepsSessions

LEMMA NodesKeepSessions ==
  ASSUME CatalogueInv, SessionInv, NEW n \in Node,
         FeedLost(n) \/ Idles(n) \/ Announce(n) \/ StreamEnds(n)
  PROVE  SessionInv'
<1>0. /\ WorldTypes /\ StoreTypes /\ ProcInv
      /\ DOMAIN NoStream = {"up", "pub", "sub", "idle"} /\ NoStream.sub = {}
  BY DEF CatalogueInv, NoStream
<1>1. UNCHANGED <<cfg, restarts, told>>
  BY DEF FeedLost, Idles, Announce, StreamEnds, shared
<1>2. \A m \in Node : world'[m].sub \subseteq world[m].sub
  <2>1. CASE FeedLost(n) BY <1>0, <2>1 DEF FeedLost, WorldTypes
  <2>2. CASE Idles(n) BY <1>0, <2>2 DEF Idles, WorldTypes
  <2>3. CASE Announce(n) BY <2>3 DEF Announce, clusterVars
  <2>4. CASE StreamEnds(n) BY <1>0, <2>4 DEF StreamEnds, WorldTypes
  <2>. QED BY <2>1, <2>2, <2>3, <2>4
<1>3. st'.session = st.session
  <2>1. UNCHANGED st \/ st' = AddNode(st, n) \/ st' = RemoveNode(st, n)
    BY DEF FeedLost, Idles, Announce, StreamEnds
  <2>. QED BY <1>0, <2>1 DEF StoreTypes, AddNode, RemoveNode
<1>4. ASSUME NEW q \in Process
      PROVE  proc'[q].at = proc[q].at /\ proc'[q].node = proc[q].node /\ proc'[q].got = proc[q].got
  <2>1. CASE UNCHANGED proc
    BY <2>1
  <2>2. CASE Announce(n)
    <3>1. PICK P : Shake(P)
      BY <2>2 DEF Announce
    <3>. QED BY <1>0, <3>1, ShakeShape, FieldNames
  <2>. QED BY <2>1, <2>2 DEF FeedLost, Idles, StreamEnds
<1>. QED BY <1>1, <1>2, <1>3, <1>4, SessionFrame

LEMMA SessionInit == Init => SessionInv
<1> SUFFICES ASSUME Init PROVE SessionInv
  OBVIOUS
<1>1. /\ cfg \in Configs /\ world = cfg.world
      /\ \A n \in Node : \A s \in world[n].sub : s[1] \notin Process
  BY LivemanAssumption DEF Init, Process
<1>2. ASSUME NEW p \in Process
      PROVE  /\ \A n \in Node : Direct(p) \notin world[n].sub
             /\ DOMAIN proc[p].got = {}
  <2>1. Direct(p)[1] = p
    BY DEF Direct
  <2>2. proc[p].got = Empty
    BY NewFields DEF Init
  <2>. QED BY <1>1, <2>1, <2>2 DEF Empty
<1>. QED BY <1>2 DEF Init, SessionInv, LivesInv, ToldInv

LEMMA SessionStep == CatalogueInv /\ SessionInv /\ [Next]_vars => SessionInv'
<1> SUFFICES ASSUME CatalogueInv, SessionInv, [Next]_vars PROVE SessionInv'
  OBVIOUS
<1>1. ASSUME UNCHANGED <<cfg, st, proc, world, restarts, told>> PROVE SessionInv'
  BY <1>1, SessionFrame
<1>2. CASE ThreeSeconds
  BY <1>1, <1>2 DEF ThreeSeconds, clusterVars
<1>3. CASE UNCHANGED vars
  BY <1>1, <1>3 DEF vars, clusterVars
<1>4. CASE Restart
  <2>1. restarts \in Nat /\ restarts' = restarts + 1
    BY <1>4 DEF Restart, SessionInv
  <2>. QED BY <2>1 DEF SessionInv
<1>. QED
  BY <1>2, <1>3, <1>4, ProcessKeepsSessions, CascadesKeepSessions, NodesKeepSessions DEF Next

\* For any nodes, requests and interleaving with updates: until Liveman restarts,
\* the session of a WHIP or WHEP client that lives is found by route/proxy.rs on
\* the node that has it; answers of nodes that arrive late do not misplace it.
THEOREM SessionsRouted == Spec => []SessionRouted
<1>1. SessionInv => SessionRouted
  BY DEF SessionInv, ToldInv, SessionRouted
<1>. QED BY <1>1, CatalogueInit, CatalogueStep, SessionInit, SessionStep, PTL DEF Spec

--------------------------------------------------------------------------------
(* Filters.                                                                *)

\* Every set of naturals has a least one.
LEMMA HasLeast ==
  ASSUME NEW T, T \subseteq Nat, T # {}
  PROVE  \E x \in T : \A y \in T : x <= y
<1>1. PICK R : R = StrictSubsetOrdering(Nat)
  OBVIOUS
<1>2. IsWellFoundedOn(R, FiniteSubsetsOf(Nat))
  BY <1>1, FS_StrictSubsetOrderingWellFounded
<1>3. PICK D : D = {0..n : n \in T}
  OBVIOUS
<1>4. D \subseteq FiniteSubsetsOf(Nat) /\ D # {}
  <2>1. \A n \in Nat : IsFiniteSet(0..n)
    BY FS_Interval
  <2>2. \A n \in Nat : 0..n \in SUBSET Nat
    OBVIOUS
  <2> QED
    BY <1>3, <2>1, <2>2 DEF FiniteSubsetsOf
<1>5. PICK d \in D : \A e \in D : ~ (<<e, d>> \in R)
  BY <1>2, <1>4, WFMin
<1>6. PICK x \in T : d = 0..x
  BY <1>3
<1>7. ASSUME NEW y \in T, y < x PROVE FALSE
  <2>1. 0..y \in D /\ 0..y \in SUBSET Nat /\ d \in SUBSET Nat
    BY <1>3, <1>6
  <2>2. 0..y \subseteq d /\ 0..y # d
    <3>1. x \in d /\ x \notin 0..y
      BY <1>6, <1>7
    <3> QED
      BY <1>6, <1>7, <3>1
  <2>3. <<0..y, d>> \in R
    BY <1>1, <2>1, <2>2 DEF StrictSubsetOrdering
  <2> QED
    BY <1>5, <2>1, <2>3
<1>8. \A y \in T : x <= y
  BY <1>7
<1> QED
  BY <1>8

\* Induction, for sets of naturals.
LEMMA NatSetInduction ==
  ASSUME NEW T, 0 \in T, \A n \in Nat : n \in T => n + 1 \in T
  PROVE  Nat \subseteq T
<1>1. SUFFICES ASSUME Nat \ T # {} PROVE FALSE
  OBVIOUS
<1>2. PICK x \in Nat \ T : \A y \in Nat \ T : x <= y
  BY <1>1, HasLeast
<1>3. x # 0 /\ x - 1 \in Nat
  BY <1>2
<1>4. x - 1 \in T
  BY <1>2, <1>3
<1> QED
  BY <1>2, <1>3, <1>4

\* A sequence of whatever elements.
IsSequence(q) == \E X : q \in Seq(X)

\* The prefixes of q, filtered: what the recursive function of Among is.
Filtered(g, q, S, n) ==
  /\ DOMAIN g = 0..n /\ g[0] = <<>>
  /\ \A i \in 1..n : g[i] = IF q[i] \in S THEN Append(g[i - 1], q[i]) ELSE g[i - 1]

LEMMA CanFilter ==
  ASSUME NEW q, NEW S, NEW n \in Nat
  PROVE  \E g : Filtered(g, q, S, n)
<1>. PICK T : T = {m \in Nat : \E g : Filtered(g, q, S, m)}
  OBVIOUS
<1>1. 0 \in T
  <2>. PICK g : g = [i \in 0..0 |-> <<>>]
    OBVIOUS
  <2>1. Filtered(g, q, S, 0)
    BY DEF Filtered
  <2>. QED BY <2>1
<1>2. ASSUME NEW m \in Nat, m \in T PROVE m + 1 \in T
  <2>1. PICK g : Filtered(g, q, S, m)
    BY <1>2
  <2>. PICK last : last = IF q[m + 1] \in S THEN Append(g[m], q[m + 1]) ELSE g[m]
    OBVIOUS
  <2>. PICK h : h = [i \in 0..(m + 1) |-> IF i = m + 1 THEN last ELSE g[i]]
    OBVIOUS
  <2>2. DOMAIN h = 0..(m + 1) /\ h[0] = <<>> /\ h[m + 1] = last /\ \A i \in 0..m : h[i] = g[i]
    BY <2>1 DEF Filtered
  <2>3. ASSUME NEW i \in 1..(m + 1)
        PROVE  h[i] = IF q[i] \in S THEN Append(h[i - 1], q[i]) ELSE h[i - 1]
    <3>1. CASE i = m + 1
      BY <2>2, <3>1
    <3>2. CASE i # m + 1
      <4>1. i \in 1..m /\ i \in 0..m /\ i - 1 \in 0..m
        BY <3>2
      <4>. QED BY <2>1, <2>2, <4>1 DEF Filtered
    <3>. QED BY <3>1, <3>2
  <2>4. Filtered(h, q, S, m + 1)
    BY <2>2, <2>3 DEF Filtered
  <2>. QED BY <2>4
<1>3. Nat \subseteq T
  BY <1>1, <1>2, NatSetInduction
<1>. QED BY <1>3

LEMMA RangeAppended ==
  ASSUME NEW X, NEW q \in Seq(X), NEW x
  PROVE  Range(Append(q, x)) = Range(q) \cup {x}
<1>1. PICK n \in Nat : n = Len(q)
  OBVIOUS
<1>2. DOMAIN q = 1..n /\ DOMAIN Append(q, x) = 1..(n + 1) /\ Append(q, x)[n + 1] = x
      /\ \A i \in 1..n : Append(q, x)[i] = q[i]
  BY <1>1
<1>3. Range(Append(q, x)) \subseteq Range(q) \cup {x}
  <2>1. ASSUME NEW i \in 1..(n + 1) PROVE Append(q, x)[i] \in Range(q) \cup {x}
    <3>1. i \in 1..n \/ i = n + 1
      OBVIOUS
    <3>. QED BY <1>2, <3>1 DEF Range
  <2>. QED BY <1>2, <2>1 DEF Range
<1>4. Range(q) \cup {x} \subseteq Range(Append(q, x))
  <2>1. ASSUME NEW i \in 1..n PROVE q[i] \in Range(Append(q, x))
    <3>1. i \in 1..(n + 1) /\ Append(q, x)[i] = q[i]
      BY <1>2
    <3>. QED BY <1>2, <3>1 DEF Range
  <2>2. x \in Range(Append(q, x))
    BY <1>2 DEF Range
  <2>. QED BY <1>2, <2>1, <2>2 DEF Range
<1>. QED BY <1>3, <1>4

\* Among is the last of the filtered prefixes.
LEMMA AmongFilters ==
  ASSUME NEW q, NEW S, NEW n \in Nat, n = Len(q)
  PROVE  \E f : Filtered(f, q, S, n) /\ Among(q, S) = f[n]
<1>. DEFINE F(g) == [i \in 0..n |-> IF i = 0 THEN <<>>
                                    ELSE IF q[i] \in S THEN Append(g[i - 1], q[i]) ELSE g[i - 1]]
<1>1. PICK g : g = F(g)
  <2>1. PICK g : Filtered(g, q, S, n) /\ g = [i \in 0..n |-> g[i]]
    <3>1. PICK g : Filtered(g, q, S, n)
      BY CanFilter
    <3>. PICK h : h = [i \in 0..n |-> g[i]]
      OBVIOUS
    <3>2. DOMAIN h = 0..n /\ \A i \in 0..n : h[i] = g[i]
      OBVIOUS
    <3>3. Filtered(h, q, S, n)
      <4>1. \A i \in 1..n : i \in 0..n /\ i - 1 \in 0..n
        OBVIOUS
      <4>. QED BY <3>1, <3>2, <4>1 DEF Filtered
    <3>4. h = [i \in 0..n |-> h[i]]
      OBVIOUS
    <3>. QED BY <3>3, <3>4
  <2>2. ASSUME NEW i \in 0..n PROVE g[i] = F(g)[i]
    <3>1. CASE i = 0
      BY <2>1, <3>1 DEF Filtered
    <3>2. CASE i # 0
      <4>1. i \in 1..n
        BY <3>2
      <4>2. F(g)[i] = IF q[i] \in S THEN Append(g[i - 1], q[i]) ELSE g[i - 1]
        BY <4>1
      <4>. QED BY <2>1, <4>1, <4>2 DEF Filtered
    <3>. QED BY <3>1, <3>2
  <2>3. g = F(g)
    BY <2>1, <2>2
  <2>. QED BY <2>3
<1>2. PICK f : f = CHOOSE h : h = F(h)
  OBVIOUS
<1>3. f = F(f)
  BY <1>1, <1>2
<1>4. Among(q, S) = f[n]
  BY <1>2 DEF Among
<1>5. DOMAIN F(f) = 0..n /\ F(f)[0] = <<>>
  OBVIOUS
<1>6. ASSUME NEW i \in 1..n
      PROVE  F(f)[i] = IF q[i] \in S THEN Append(f[i - 1], q[i]) ELSE f[i - 1]
  OBVIOUS
<1>7. Filtered(f, q, S, n)
  <2>. HIDE DEF F
  <2>. QED BY <1>3, <1>5, <1>6 DEF Filtered
<1>. QED BY <1>4, <1>7

\* It is a sequence of elements of q, all of them in S.
LEMMA AmongIn ==
  ASSUME NEW X, NEW q \in Seq(X), NEW S
  PROVE  Among(q, S) \in Seq(X \cap S)
<1>. PICK n \in Nat : n = Len(q)
  OBVIOUS
<1>1. PICK f : Filtered(f, q, S, n) /\ Among(q, S) = f[n]
  BY AmongFilters
<1>. PICK T : T = {m \in Nat : m <= n => f[m] \in Seq(X \cap S)}
  OBVIOUS
<1>2. 0 \in T
  <2>1. f[0] = <<>> /\ <<>> \in Seq(X \cap S)
    BY <1>1 DEF Filtered
  <2>. QED BY <2>1
<1>3. ASSUME NEW m \in Nat, m \in T PROVE m + 1 \in T
  <2>. SUFFICES ASSUME m + 1 <= n PROVE f[m + 1] \in Seq(X \cap S)
    OBVIOUS
  <2>1. f[m] \in Seq(X \cap S) /\ q[m + 1] \in X
    BY <1>3
  <2>2. m + 1 \in 1..n /\ (m + 1) - 1 = m
    OBVIOUS
  <2>3. f[m + 1] = IF q[m + 1] \in S THEN Append(f[m], q[m + 1]) ELSE f[m]
    BY <1>1, <2>2 DEF Filtered
  <2>. QED BY <2>1, <2>3
<1>4. Nat \subseteq T
  BY <1>2, <1>3, NatSetInduction
<1>. QED BY <1>1, <1>4

\* No element of q that is in S is passed over.
LEMMA AmongAll ==
  ASSUME NEW X, NEW q \in Seq(X), NEW S
  PROVE  Range(q) \cap S \subseteq Range(Among(q, S))
<1>. PICK n \in Nat : n = Len(q)
  OBVIOUS
<1>1. PICK f : Filtered(f, q, S, n) /\ Among(q, S) = f[n]
  BY AmongFilters
<1>. PICK T : T = {m \in Nat : m <= n =>
                     /\ f[m] \in Seq(X)
                     /\ \A i \in 1..m : q[i] \in S => q[i] \in Range(f[m])}
  OBVIOUS
<1>2. 0 \in T
  <2>1. f[0] \in Seq(X)
    BY <1>1 DEF Filtered
  <2>2. \A i \in 1..0 : q[i] \in S => q[i] \in Range(f[0])
    OBVIOUS
  <2>. QED BY <2>1, <2>2
<1>3. ASSUME NEW m \in Nat, m \in T PROVE m + 1 \in T
  <2>. SUFFICES ASSUME m + 1 <= n
                PROVE  /\ f[m + 1] \in Seq(X)
                       /\ \A i \in 1..(m + 1) : q[i] \in S => q[i] \in Range(f[m + 1])
    OBVIOUS
  <2>1. /\ f[m] \in Seq(X) /\ q[m + 1] \in X
        /\ \A i \in 1..m : q[i] \in S => q[i] \in Range(f[m])
    BY <1>3
  <2>2. m + 1 \in 1..n /\ (m + 1) - 1 = m
    OBVIOUS
  <2>3. f[m + 1] = IF q[m + 1] \in S THEN Append(f[m], q[m + 1]) ELSE f[m]
    BY <1>1, <2>2 DEF Filtered
  <2>4. Range(f[m]) \subseteq Range(f[m + 1]) /\ (q[m + 1] \in S => q[m + 1] \in Range(f[m + 1]))
    BY <2>1, <2>3, RangeAppended
  <2>5. \A i \in 1..(m + 1) : i \in 1..m \/ i = m + 1
    OBVIOUS
  <2>. QED BY <2>1, <2>3, <2>4, <2>5
<1>4. n \in T
  BY <1>2, <1>3, NatSetInduction
<1>5. \A i \in 1..n : q[i] \in S => q[i] \in Range(Among(q, S))
  BY <1>1, <1>4
<1>. QED BY <1>5 DEF Range

--------------------------------------------------------------------------------
(* Nodes that are gone.                                                    *)

\* The process is at the label, or will be after its update.
Doing(r, label) == r.at = label \/ (r.at \in {"strategy", "fetch"} /\ r.back = label)

\* The nodes that are asked and those whose answers have still to be put in, and the
\* servers that a request keeps, are known nodes, unless one has left since the
\* process began.  do_cascade_check knows its nodes by their URLs, and has the server
\* of every node, unless one has left or come.
Grounded(op, r, nodes) ==
  /\ r.at = "panic" /\ r.out = "node gone" => r.shaken
  /\ r.at \in {"map", "delete"} \/ Doing(r, "infos") =>
       op = "cascade_check" /\ r.urls \subseteq Node
  /\ ~r.shaken =>
       /\ r.at = "fetch" => r.wait \subseteq nodes /\ DOMAIN r.got \subseteq nodes
       /\ Doing(r, "idle") => Aliases(r.servers) \subseteq nodes
       /\ r.at = "map" => r.urls \subseteq nodes
       /\ Doing(r, "infos") => r.urls \subseteq nodes /\ nodes \subseteq r.map
       /\ r.at = "delete" => DOMAIN r.infos \subseteq r.map /\ r.urls \subseteq DOMAIN r.infos

GroundInv ==
  IsSequence(st.stream) /\ \A p \in Process : Grounded(Op(p), proc[p], get_cluster(st))

\* The servers of known nodes.
Known == {Server(st, n) : n \in get_cluster(st)}

LEMMA KnownAliases ==
  ASSUME NEW servers \in Seq(Known), NEW p
  PROVE  Aliases(Only(p, servers)) \subseteq get_cluster(st)
<1>1. ASSUME NEW q \in Seq(Known) PROVE Aliases(q) \subseteq get_cluster(st)
  <2>1. ASSUME NEW i \in DOMAIN q PROVE q[i].alias \in get_cluster(st)
    <3>1. q[i] \in Known
      OBVIOUS
    <3>. QED BY <3>1 DEF Known, Server
  <2>. QED BY <2>1 DEF Aliases
<1>. PICK S : S = {s \in Range(servers) : s.alias \in cfg.calls[p].nodes}
  OBVIOUS
<1>2. Among(servers, S) \in Seq(Known \cap S)
  BY AmongIn
<1>3. Among(servers, S) \in Seq(Known)
  BY <1>2
<1>4. Only(p, servers) \in {servers, Among(servers, S)}
  BY DEF Only
<1>. QED BY <1>1, <1>3, <1>4

\* Nodes in a row give servers in a row.
LEMMA KnownServers ==
  ASSUME NEW q \in Seq(get_cluster(st))
  PROVE  [i \in DOMAIN q |-> Server(st, q[i])] \in Seq(Known)
<1>1. ASSUME NEW i \in DOMAIN q PROVE Server(st, q[i]) \in Known
  BY DEF Known
<1>. PICK f : f = [i \in DOMAIN q |-> Server(st, q[i])]
  OBVIOUS
<1>2. DOMAIN f = 1..Len(q) /\ Len(q) \in Nat /\ \A i \in 1..Len(q) : f[i] \in Known
  BY <1>1
<1>3. f = [i \in 1..Len(q) |-> f[i]]
  BY <1>2
<1>. QED BY <1>2, <1>3

\* stream_get passes over the nodes that have left.
LEMMA StreamServers ==
  ASSUME IsSequence(st.stream)
  PROVE  stream_get(st) \in Seq(Known)
<1>. PICK X : st.stream \in Seq(X)
  BY DEF IsSequence
<1>. PICK here : here = Among(st.stream, DOMAIN st.list)
  OBVIOUS
<1>1. here \in Seq(X \cap get_cluster(st))
  BY AmongIn DEF get_cluster
<1>2. here \in Seq(get_cluster(st))
  BY <1>1
<1>. QED BY <1>2, KnownServers DEF stream_get

\* An order of the nodes.
LEMMA OrderOf ==
  ASSUME NEW S \in SUBSET Node, NEW order \in SetToSeqs(S)
  PROVE  order \in Seq(S)
<1>1. Cardinality(S) \in Nat
  BY LivemanAssumption, FS_Subset, FS_CardinalityType
<1>. QED BY <1>1 DEF SetToSeqs

LEMMA GroundElsewhere ==
  ASSUME NEW p, NEW r, r.at \notin Asks, NEW nodes
  PROVE  Grounded(Op(p), r, nodes)
BY DEF Grounded, Asks, Doing

LEMMA FinishGrounded ==
  ASSUME NEW p, NEW out, Finish(p, out), NEW nodes
  PROVE  \E r : Set(p, r) /\ Grounded(Op(p), r, nodes)
<1>. PICK r : /\ r \in {NewProcess, [NewProcess EXCEPT !.at = "done", !.out = out]}
              /\ Set(p, r)
  BY DEF Finish, Set
<1>1. r.at \in {"new", "done"}
  BY NewFields, FieldNames
<1>. QED BY <1>1 DEF Grounded, Doing

LEMMA PanicGrounded ==
  ASSUME NEW p, NEW why, Panic(p, why), why = "node gone" => proc[p].shaken, NEW nodes
  PROVE  \E r : Set(p, r) /\ Grounded(Op(p), r, nodes)
<1>. PICK r : r = [NewProcess EXCEPT !.at = "panic", !.out = why, !.shaken = proc[p].shaken]
  OBVIOUS
<1>1. Set(p, r)
  BY DEF Panic, Set
<1>2. r.at = "panic" /\ r.out = why /\ r.shaken = proc[p].shaken
  BY NewFields, FieldNames
<1>. QED BY <1>1, <1>2 DEF Grounded, Doing

LEMMA UpdateGrounded ==
  ASSUME CatalogueInv, GroundInv, NEW p \in Process, Update(p)
  PROVE  \E r : Set(p, r) /\ Grounded(Op(p), r, get_cluster(st))
<1>. PICK nodes : nodes = get_cluster(st)
  OBVIOUS
<1>. PICK r : r = [Stale(p) EXCEPT !.at = "strategy", !.back = proc[p].at,
                     !.rounds = proc[p].rounds + 1, !.wait = AskStrategy(st)]
  OBVIOUS
<1>1. Set(p, r) /\ proc[p].at \in Updates
  BY DEF Update
<1>2. DOMAIN proc[p] = Fields /\ Grounded(Op(p), proc[p], nodes)
  BY DEF CatalogueInv, ProcInv, Sound, GroundInv
<1>3. /\ r.at = "strategy" /\ r.back = proc[p].at /\ r.urls = proc[p].urls /\ r.map = proc[p].map
      /\ r.servers = proc[p].servers /\ r.shaken = proc[p].shaken
  BY <1>2, FieldNames DEF Stale
<1>. QED BY <1>1, <1>2, <1>3 DEF Grounded, Doing

LEMMA PollsGrounded ==
  ASSUME CatalogueInv, GroundInv, NEW p \in Process, NEW wait, NEW got, Polls(p, wait, got),
         proc[p].at \in {"strategy", "fetch"},
         ~proc[p].shaken => wait \subseteq get_cluster(st) /\ DOMAIN got \subseteq get_cluster(st)
  PROVE  \E r : Set(p, r) /\ Grounded(Op(p), r, get_cluster(st))
<1>. PICK nodes : nodes = get_cluster(st)
  OBVIOUS
<1>1. DOMAIN proc[p] = Fields /\ proc[p].back \in Updates /\ Grounded(Op(p), proc[p], nodes)
  BY DEF CatalogueInv, ProcInv, Sound, GroundInv
<1>2. CASE wait = {} /\ got = Empty
  <2>. PICK r : r = [proc[p] EXCEPT !.at = proc[p].back, !.back = "new", !.ready = TRUE,
                                    !.wait = {}, !.got = Empty]
    OBVIOUS
  <2>1. Set(p, r)
    BY <1>2 DEF Polls, Set
  <2>2. /\ r.at = proc[p].back /\ r.servers = proc[p].servers /\ r.shaken = proc[p].shaken
        /\ r.urls = proc[p].urls /\ r.map = proc[p].map
    BY <1>1, FieldNames
  <2>. QED BY <1>1, <2>1, <2>2 DEF Grounded, Updates, Doing
<1>3. CASE ~(wait = {} /\ got = Empty)
  <2>. PICK r : r = [Stale(p) EXCEPT !.at = "fetch", !.wait = wait, !.got = got]
    OBVIOUS
  <2>1. Set(p, r)
    BY <1>3 DEF Polls
  <2>2. /\ r.at = "fetch" /\ r.back = proc[p].back /\ r.wait = wait /\ r.got = got
        /\ r.servers = proc[p].servers /\ r.shaken = proc[p].shaken
        /\ r.urls = proc[p].urls /\ r.map = proc[p].map
    BY <1>1, FieldNames DEF Stale
  <2>. QED BY <1>1, <2>1, <2>2 DEF Grounded, Doing
<1>. QED BY <1>2, <1>3

LEMMA StrategyGrounded ==
  ASSUME CatalogueInv, GroundInv, NEW p \in Process, Strategy(p)
  PROVE  \E r : Set(p, r) /\ Grounded(Op(p), r, get_cluster(st))
<1>1. proc[p].at = "strategy" /\ (Polls(p, get_cluster(st), Empty) \/ Panic(p, "body"))
  BY DEF Strategy
<1>2. DOMAIN Empty = {}
  BY DEF Empty
<1>. QED BY <1>1, <1>2, PollsGrounded, PanicGrounded

\* do_cascade_check, read by read.
LEMMA CheckGrounded ==
  ASSUME CatalogueInv, GroundInv, NEW p \in Process, DoCascadeCheck(p)
  PROVE  \E r : Set(p, r) /\ Grounded(Op(p), r, get_cluster(st))
<1>. PICK nodes : nodes = get_cluster(st)
  OBVIOUS
<1>1. DOMAIN proc[p] = Fields /\ Grounded(Op(p), proc[p], nodes) /\ Op(p) = "cascade_check"
  BY DEF CatalogueInv, ProcInv, Sound, GroundInv, DoCascadeCheck, CheckNodes, CheckServers,
         CheckInfos, CheckDelete, Is
<1>2. CASE CheckNodes(p)
  <2>. PICK r : r = [Stale(p) EXCEPT !.at = "map", !.urls = nodes]
    OBVIOUS
  <2>1. Set(p, r)
    BY <1>2 DEF CheckNodes
  <2>2. r.at = "map" /\ r.urls = nodes
    BY <1>1, FieldNames DEF Stale
  <2>3. nodes \subseteq Node
    BY DEF CatalogueInv, StoreTypes
  <2>. QED BY <1>1, <2>1, <2>2, <2>3 DEF Grounded, Doing
<1>3. CASE CheckServers(p)
  <2>. PICK r : r = [Stale(p) EXCEPT !.at = "infos", !.map = nodes]
    OBVIOUS
  <2>1. Set(p, r) /\ proc[p].at = "map"
    BY <1>3 DEF CheckServers, Is
  <2>2. r.at = "infos" /\ r.map = nodes /\ r.urls = proc[p].urls /\ r.shaken = proc[p].shaken
    BY <1>1, FieldNames DEF Stale
  <2>. QED BY <1>1, <2>1, <2>2 DEF Grounded, Doing
<1>4. CASE CheckInfos(p)
  <2>. PICK infos : infos = [n \in nodes |-> st.list[n].info]
    OBVIOUS
  <2>. PICK r : r = [Stale(p) EXCEPT !.at = "delete", !.infos = infos]
    OBVIOUS
  <2>1. Set(p, r) /\ proc[p].at = "infos"
    BY <1>4 DEF CheckInfos, Is
  <2>2. /\ r.at = "delete" /\ DOMAIN r.infos = nodes
        /\ r.map = proc[p].map /\ r.urls = proc[p].urls /\ r.shaken = proc[p].shaken
    BY <1>1, FieldNames DEF Stale
  <2>. QED BY <1>1, <2>1, <2>2 DEF Grounded, Doing
<1>5. CASE CheckDelete(p)
  <2>1. /\ proc[p].at = "delete"
        /\ ~proc[p].shaken =>
             DOMAIN proc[p].infos \subseteq proc[p].map /\ proc[p].urls \subseteq DOMAIN proc[p].infos
    BY <1>1, <1>5 DEF CheckDelete, Is, Grounded
  <2>2. Missing(p) => proc[p].shaken
    BY <2>1 DEF Missing, TargetNode
  <2>3. ASSUME NEW n, NEW s, Set(p, [Stale(p) EXCEPT !.infos[n].sub = @ \ {s}])
        PROVE  \E r : Set(p, r) /\ Grounded(Op(p), r, nodes)
    <3>. PICK r : r = [Stale(p) EXCEPT !.infos[n].sub = @ \ {s}]
      OBVIOUS
    <3>1. /\ r.at = "delete" /\ DOMAIN r.infos = DOMAIN proc[p].infos
          /\ r.map = proc[p].map /\ r.urls = proc[p].urls /\ r.shaken = proc[p].shaken
      BY <1>1, <2>1, FieldNames DEF Stale
    <3>. QED BY <1>1, <2>1, <2>3, <3>1 DEF Grounded, Doing
  <2>4. \/ \E n, s : Set(p, [Stale(p) EXCEPT !.infos[n].sub = @ \ {s}])
        \/ Missing(p) /\ Panic(p, "node gone")
        \/ Finish(p, "ok")
    BY <1>5 DEF CheckDelete
  <2>. QED BY <2>2, <2>3, <2>4, FinishGrounded, PanicGrounded
<1>. QED BY <1>2, <1>3, <1>4, <1>5 DEF DoCascadeCheck

\* The servers of a request are looked up.
LEMMA IdleGrounded ==
  ASSUME CatalogueInv, NEW p \in Process, NEW servers,
         Aliases(servers) \subseteq get_cluster(st),
         Set(p, [Stale(p) EXCEPT !.at = "idle", !.servers = servers])
  PROVE  \E r : Set(p, r) /\ Grounded(Op(p), r, get_cluster(st))
<1>. PICK r : r = [Stale(p) EXCEPT !.at = "idle", !.servers = servers]
  OBVIOUS
<1>1. DOMAIN proc[p] = Fields
  BY DEF CatalogueInv, ProcInv, Sound
<1>2. r.at = "idle" /\ r.servers = servers
  BY <1>1, FieldNames DEF Stale
<1>. QED BY <1>2 DEF Grounded, Doing

LEMMA LooksGrounded ==
  ASSUME CatalogueInv, GroundInv, NEW p \in Process, Looks(p)
  PROVE  \E r : Set(p, r) /\ Grounded(Op(p), r, get_cluster(st))
<1>1. DOMAIN proc[p] = Fields /\ Grounded(Op(p), proc[p], get_cluster(st)) /\ IsSequence(st.stream)
  BY DEF CatalogueInv, ProcInv, Sound, GroundInv
<1>2. ASSUME NEW node, Set(p, [Stale(p) EXCEPT !.at = "proxy", !.node = node])
      PROVE  \E r : Set(p, r) /\ Grounded(Op(p), r, get_cluster(st))
  <2>. PICK r : r = [Stale(p) EXCEPT !.at = "proxy", !.node = node]
    OBVIOUS
  <2>1. r.at = "proxy"
    BY <1>1, FieldNames DEF Stale
  <2>. QED BY <1>2, <2>1 DEF Grounded, Doing
<1>3. CASE Update(p)
  BY <1>3, UpdateGrounded
<1>8. CASE Strategy(p) \/ DoCascadeCheck(p)
  BY <1>8, StrategyGrounded, CheckGrounded
<1>4. CASE WhipNodes(p)
  <2>1. PICK order, servers :
          /\ order \in SetToSeqs(get_cluster(st))
          /\ servers = Only(p, [i \in DOMAIN order |-> Server(st, order[i])])
          /\ \/ Finish(p, "no node")
             \/ Set(p, [Stale(p) EXCEPT !.at = "idle", !.servers = servers])
    BY <1>4 DEF WhipNodes
  <2>2. order \in Seq(get_cluster(st))
    BY <2>1, OrderOf DEF CatalogueInv, StoreTypes
  <2>3. Aliases(servers) \subseteq get_cluster(st)
    BY <2>1, <2>2, KnownServers, KnownAliases
  <2>. QED BY <2>1, <2>3, FinishGrounded, IdleGrounded
<1>5. CASE Whep(p)
  <2>1. PICK servers :
          /\ servers = Only(p, stream_get(st))
          /\ \/ Finish(p, "not found")
             \/ Set(p, [Stale(p) EXCEPT !.at = "idle", !.servers = servers])
    BY <1>5 DEF Whep
  <2>2. Aliases(servers) \subseteq get_cluster(st)
    BY <1>1, <2>1, StreamServers, KnownAliases
  <2>. QED BY <2>1, <2>2, FinishGrounded, IdleGrounded
<1>6. CASE IdleNode(p)
  <2>1. \/ Panic(p, "node gone") /\ ~(Aliases(proc[p].servers) \subseteq get_cluster(st))
        \/ \E node : Set(p, [Stale(p) EXCEPT !.at = "proxy", !.node = node])
        \/ Finish(p, "no node")
        \/ Goto(p, "cascade")
    BY <1>6 DEF IdleNode
  <2>2. proc[p].at = "idle"
    BY <1>6 DEF IdleNode, Is
  <2>3. ~(Aliases(proc[p].servers) \subseteq get_cluster(st)) => proc[p].shaken
    BY <1>1, <2>2 DEF Grounded, Doing
  <2>4. ASSUME Goto(p, "cascade") PROVE \E r : Set(p, r) /\ Grounded(Op(p), r, get_cluster(st))
    <3>. PICK r : r = [Stale(p) EXCEPT !.at = "cascade"]
      OBVIOUS
    <3>1. r.at = "cascade"
      BY <1>1, FieldNames DEF Stale
    <3>. QED BY <2>4, <3>1 DEF Goto, Grounded, Doing
  <2>. QED BY <1>2, <2>1, <2>3, <2>4, FinishGrounded, PanicGrounded
<1>7. CASE CascadeNewNode(p)
  <2>1. \/ Panic(p, "no destination")
        \/ \E node : Set(p, [Stale(p) EXCEPT !.at = "proxy", !.node = node])
    BY <1>7 DEF CascadeNewNode
  <2>. QED BY <1>2, <2>1, PanicGrounded
<1>. QED BY <1>3, <1>4, <1>5, <1>6, <1>7, <1>8 DEF Looks

\* A process does not change which nodes there are.
LEMMA StepsKeepNodes ==
  ASSUME CatalogueInv, IsSequence(st.stream), NEW p \in Process, ProcessStep(p)
  PROVE  get_cluster(st)' = get_cluster(st) /\ IsSequence(st.stream)'
<1>0. StoreTypes
  BY DEF CatalogueInv
<1>1. ASSUME NEW n PROVE IsSequence(Append(st.stream, n)) /\ IsSequence(<<>>)
  <2>1. PICK X : st.stream \in Seq(X)
    BY DEF IsSequence
  <2>2. Append(st.stream, n) \in Seq(X \cup {n}) /\ <<>> \in Seq(X)
    BY <2>1
  <2>. QED BY <2>2 DEF IsSequence
<1>2. CASE UNCHANGED st
  BY <1>2 DEF get_cluster
<1>3. CASE Update(p) \/ Strategy(p)
  <2>1. PICK known : \/ st' = ClearStreams(st)
                     \/ st' = ClearStreams(PutStrategy(st, known, cfg.max))
                     \/ st' = PutStrategy(st, known, cfg.max)
    BY <1>3 DEF Update, Strategy
  <2>2. st'.stream \in {st.stream, <<>>} /\ DOMAIN st'.list = DOMAIN st.list
    BY <1>0, <2>1 DEF StoreTypes, ClearStreams, PutStrategy
  <2>. QED BY <1>1, <2>2 DEF get_cluster
<1>4. ASSUME NEW n \in Node, Put(p, n), ~UNCHANGED st
      PROVE  get_cluster(st)' = get_cluster(st) /\ IsSequence(st.stream)'
  <2>1. st' = PutAnswer(st, n, proc[p].got[n])
    BY <1>4 DEF Put
  <2>2. st'.stream \in {st.stream, Append(st.stream, n)} /\ DOMAIN st'.list = DOMAIN st.list
    BY <1>0, <2>1 DEF StoreTypes, PutAnswer, info_put, stream_put
  <2>. QED BY <1>1, <2>2 DEF get_cluster
<1>5. CASE KeepSession(p) /\ ~UNCHANGED st
  <2>1. PICK n : st'.stream \in {st.stream, Append(st.stream, n)} /\ DOMAIN st'.list = DOMAIN st.list
    BY <1>0, <1>5 DEF KeepSession, StoreTypes, session_put, stream_put
  <2>. QED BY <1>1, <2>1 DEF get_cluster
<1>6. CASE Quiet(p)
  BY <1>2, <1>6, QuietFrame
<1>7. ASSUME \/ (\E n \in Node : Fetch(p, n)) \/ ProxySession(p) \/ ProxyDelete(p) \/ ProxyCreate(p) \/ ProxyDestroy(p)
             \/ Halt(p) \/ Post(p) \/ Write(p) \/ Ack(p) \/ DoCascadeCheck(p)
      PROVE  UNCHANGED st
  BY <1>7 DEF Fetch, ProxySession, ProxyDelete, ProxyCreate, ProxyDestroy, Halt, Post, Write, Ack,
              DoCascadeCheck, CheckNodes, CheckServers, CheckInfos, CheckDelete
<1>. QED
  BY <1>2, <1>3, <1>4, <1>5, <1>6, <1>7
  DEF ProcessStep, UpdateStep, RouteStep, RecordStep, Quiet

LEMMA ProcessKeepsGround ==
  ASSUME CatalogueInv, GroundInv, NEW p \in Process, ProcessStep(p)
  PROVE  GroundInv'
<1>. PICK nodes : nodes = get_cluster(st)
  OBVIOUS
<1>0. /\ ProcInv /\ Grounded(Op(p), proc[p], nodes) /\ cfg' = cfg
      /\ get_cluster(st)' = nodes /\ IsSequence(st.stream)'
  BY StepsStaySound, StepsKeepNodes DEF CatalogueInv, GroundInv
<1>1. \E r : Set(p, r) /\ Grounded(Op(p), r, nodes)
  <2>1. CASE Looks(p)
    BY <2>1, LooksGrounded
  <2>2. CASE Moves(p) /\ ~Looks(p)
    BY <2>2, GroundElsewhere DEF Moves
  <2>3. ASSUME NEW n \in Node, Fetch(p, n) PROVE \E r : Set(p, r) /\ Grounded(Op(p), r, nodes)
    <3>1. /\ proc[p].at = "fetch" /\ n \in proc[p].wait
          /\ ~proc[p].shaken => proc[p].wait \subseteq nodes /\ DOMAIN proc[p].got \subseteq nodes
      BY <1>0, <2>3 DEF Fetch, Grounded
    <3>2. \/ Panic(p, "body")
          \/ Polls(p, proc[p].wait \ {n}, With(proc[p].got, n, world[n]))
          \/ Polls(p, proc[p].wait \ {n}, proc[p].got)
      BY <2>3 DEF Fetch
    <3>3. DOMAIN With(proc[p].got, n, world[n]) = DOMAIN proc[p].got \cup {n}
      BY DEF With
    <3>4. ASSUME NEW got, Polls(p, proc[p].wait \ {n}, got),
                 DOMAIN got \subseteq DOMAIN proc[p].got \cup {n}
          PROVE  \E r : Set(p, r) /\ Grounded(Op(p), r, nodes)
      <4>1. ~proc[p].shaken => proc[p].wait \ {n} \subseteq nodes /\ DOMAIN got \subseteq nodes
        BY <3>1, <3>4
      <4>. QED BY <3>1, <3>4, <4>1, PollsGrounded
    <3>. QED BY <3>2, <3>3, <3>4, PanicGrounded
  <2>4. ASSUME NEW n \in Node, Put(p, n) PROVE \E r : Set(p, r) /\ Grounded(Op(p), r, nodes)
    <3>1. /\ proc[p].at = "fetch" /\ n \in DOMAIN proc[p].got
          /\ ~proc[p].shaken => proc[p].wait \subseteq nodes /\ DOMAIN proc[p].got \subseteq nodes
      BY <1>0, <2>4 DEF Put, Grounded
    <3>3. CASE n \in nodes
      <4>1. PICK got : /\ got = [m \in DOMAIN proc[p].got \ {n} |-> proc[p].got[m]]
                       /\ Polls(p, proc[p].wait, got)
        BY <2>4, <3>3 DEF Put
      <4>2. DOMAIN got \subseteq DOMAIN proc[p].got
        BY <4>1
      <4>. QED BY <3>1, <4>1, <4>2, PollsGrounded
    <3>4. CASE n \notin nodes
      <4>1. Panic(p, "node gone") /\ proc[p].shaken
        BY <2>4, <3>1, <3>4 DEF Put
      <4>. QED BY <4>1, PanicGrounded
    <3>. QED BY <3>3, <3>4
  <2>5. CASE KeepSession(p)
    <3>1. \E out : Finish(p, out)
      BY <2>5 DEF KeepSession
    <3>. QED BY <3>1, FinishGrounded
  <2>. QED
    BY <2>1, <2>2, <2>3, <2>4, <2>5, RouteMoves, RecordMoves, ProxyMoves
    DEF ProcessStep, UpdateStep, RouteStep, Looks
<1>2. PICK r : Set(p, r) /\ Grounded(Op(p), r, nodes)
  BY <1>1
<1>3. ASSUME NEW q \in Process PROVE Grounded(Op(q), proc'[q], nodes)
  BY <1>0, <1>2 DEF ProcInv, Set, GroundInv
<1>4. \A q \in Process' : Grounded(Op(q), proc[q], get_cluster(st))'
  BY <1>0, <1>3 DEF Process, Grounded, Aliases, Op, Doing
<1>. QED BY <1>0, <1>4 DEF GroundInv

LEMMA GroundFrame ==
  ASSUME GroundInv, UNCHANGED <<cfg, proc>>, get_cluster(st)' = get_cluster(st),
         IsSequence(st.stream)'
  PROVE  GroundInv'
<1>. PICK nodes : nodes = get_cluster(st)
  OBVIOUS
<1>1. \A q \in Process : Grounded(Op(q), proc'[q], nodes)
  BY DEF GroundInv
<1>2. \A q \in Process' : Grounded(Op(q), proc[q], get_cluster(st))'
  BY <1>1 DEF Process, Grounded, Aliases, Op, Doing
<1>. QED BY <1>2 DEF GroundInv

LEMMA CascadesKeepGround ==
  ASSUME CatalogueInv, GroundInv, NEW p \in Process, CascadeStep(p)
  PROVE  GroundInv'
<1>0. StoreTypes
  BY DEF CatalogueInv
<1>1. UNCHANGED <<cfg, proc>>
  <2>. USE DEF shared
  <2>1. CASE CascadeCall(p) BY <2>1 DEF CascadeCall
  <2>2. CASE CascadeCheck(p) BY <2>2 DEF CascadeCheck
  <2>3. CASE CascadeClose(p) BY <2>3 DEF CascadeClose
  <2>4. CASE CascadeCut(p) BY <2>4 DEF CascadeCut
  <2>. QED BY <2>1, <2>2, <2>3, <2>4 DEF CascadeStep
<1>2. CASE UNCHANGED st
  BY <1>1, <1>2, GroundFrame DEF GroundInv, get_cluster
<1>3. CASE CascadeClose(p) /\ ~UNCHANGED st
  <2>. PICK S : S = {n \in get_cluster(st) : world[n].up}
    OBVIOUS
  <2>1. st' = ClearStreams(st) \/ \E order \in SetToSeqs(S) : st' = PutAnswers(st, order, world)
    BY <1>3 DEF CascadeClose
  <2>2. \A order \in SetToSeqs(S) : order \in Seq(S)
    BY <1>0, OrderOf DEF StoreTypes
  <2>3. st'.stream = <<>> \/ \E order \in SetToSeqs(S) : st'.stream = order
    <3>1. \A order : PutAnswers(st, order, world).stream = order
      BY <1>0 DEF StoreTypes, PutAnswers
    <3>2. ClearStreams(st).stream = <<>>
      BY <1>0 DEF StoreTypes, ClearStreams
    <3>. QED BY <2>1, <3>1, <3>2
  <2>4. DOMAIN st'.list = DOMAIN st.list
    <3>1. \A order : DOMAIN PutAnswers(st, order, world).list = DOMAIN st.list
      BY <1>0 DEF StoreTypes, PutAnswers
    <3>2. DOMAIN ClearStreams(st).list = DOMAIN st.list
      BY <1>0 DEF StoreTypes, ClearStreams
    <3>. QED BY <2>1, <3>1, <3>2
  <2>5. IsSequence(st.stream)'
    <3>1. <<>> \in Seq(S)
      OBVIOUS
    <3>. QED BY <2>2, <2>3, <3>1 DEF IsSequence
  <2>. QED BY <1>1, <2>4, <2>5, GroundFrame DEF get_cluster
<1>. QED BY <1>2, <1>3 DEF CascadeStep, CascadeCall, CascadeCheck, CascadeCut

\* A node that leaves shakes every process that has begun, one that comes those of
\* do_cascade_check.
LEMMA NodesKeepGround ==
  ASSUME CatalogueInv, GroundInv, NEW n \in Node,
         FeedLost(n) \/ Idles(n) \/ Announce(n) \/ StreamEnds(n)
  PROVE  GroundInv'
<1>0. StoreTypes /\ ProcInv /\ IsSequence(st.stream)
  BY DEF CatalogueInv, GroundInv
<1>1. cfg' = cfg
  BY DEF FeedLost, Idles, Announce, StreamEnds, shared
<1>2. CASE UNCHANGED <<st, proc>>
  BY <1>0, <1>1, <1>2, GroundFrame DEF get_cluster
<1>3. ASSUME NEW P, Shake(P), NEW q \in Process
      PROVE  \A x \in {"at", "out", "back", "wait", "got", "servers", "urls", "map", "infos"} :
               proc'[q][x] = proc[q][x]
  BY <1>0, <1>3, ShakeShape, FieldNames
<1>4. ASSUME st'.stream = st.stream,
             \A q \in Process :
               \A nodes : nodes = get_cluster(st)' => Grounded(Op(q), proc'[q], nodes)
      PROVE  GroundInv'
  <2>1. \A q \in Process' : Grounded(Op(q), proc[q], get_cluster(st))'
    BY <1>1, <1>4 DEF Process, Grounded, Aliases, Op, Doing
  <2>. QED BY <1>0, <1>4, <2>1 DEF GroundInv
<1>5. CASE /\ st' = AddNode(st, n)
           /\ Shake(IF n \in get_cluster(st) THEN {} ELSE {p \in Process : Op(p) = "cascade_check"})
  <2>1. st'.stream = st.stream /\ DOMAIN st'.list = DOMAIN st.list \cup {n}
    BY <1>0, <1>5 DEF StoreTypes, AddNode, With
  <2>2. ASSUME NEW q \in Process, NEW nodes, nodes = get_cluster(st)'
        PROVE  Grounded(Op(q), proc'[q], nodes)
    <3>. PICK old : old = get_cluster(st)
      OBVIOUS
    <3>. PICK P : P = IF n \in old THEN {} ELSE {p \in Process : Op(p) = "cascade_check"}
      OBVIOUS
    <3>0. Shake(P)
      BY <1>5
    <3>1. Grounded(Op(q), proc[q], old) /\ nodes = old \cup {n}
      BY <2>1, <2>2 DEF GroundInv, get_cluster
    <3>2. \A x \in {"at", "out", "back", "wait", "got", "servers", "urls", "map", "infos"} :
            proc'[q][x] = proc[q][x]
      BY <1>3, <3>0
    <3>3. proc'[q].shaken = (proc[q].shaken \/ (q \in P /\ (\/ proc[q].at \notin {"new", "done", "panic"}
                                                           \/ proc[q].ready)))
      BY <1>0, <3>0, ShakeShape
    <3>4. CASE Op(q) = "cascade_check" /\ n \notin old
      BY <3>1, <3>2, <3>3, <3>4 DEF Grounded, Doing
    <3>5. CASE Op(q) # "cascade_check" \/ n \in old
      BY <3>1, <3>2, <3>3, <3>5 DEF Grounded, Doing
    <3>. QED BY <3>4, <3>5
  <2>. QED BY <1>4, <2>1, <2>2
<1>6. CASE st' = RemoveNode(st, n) /\ Shake(Process)
  <2>1. st'.stream = st.stream
    BY <1>0, <1>6 DEF StoreTypes, RemoveNode
  <2>2. ASSUME NEW q \in Process, NEW nodes PROVE Grounded(Op(q), proc'[q], nodes)
    <3>1. Grounded(Op(q), proc[q], get_cluster(st))
      BY DEF GroundInv
    <3>2. \A x \in {"at", "out", "back", "wait", "got", "servers", "urls", "map", "infos"} :
            proc'[q][x] = proc[q][x]
      BY <1>3, <1>6
    <3>3. proc'[q].shaken = (\/ proc[q].shaken \/ proc[q].at \notin {"new", "done", "panic"}
                             \/ proc[q].ready)
      BY <1>0, <1>6, ShakeShape
    <3>. QED BY <3>1, <3>2, <3>3 DEF Grounded, Doing
  <2>. QED BY <1>4, <2>1, <2>2
<1>. QED BY <1>2, <1>5, <1>6 DEF FeedLost, Idles, Announce, StreamEnds

LEMMA NewGrounded ==
  ASSUME NEW p, NEW r, r = NewProcess \/ r = [NewProcess EXCEPT !.at = "done", !.out = "lost"], NEW nodes
  PROVE  Grounded(Op(p), r, nodes)
<1>1. r.at \in {"new", "done"}
  BY NewFields, FieldNames
<1>. QED BY <1>1 DEF Grounded, Doing

LEMMA GroundInit == Init => GroundInv
<1> SUFFICES ASSUME Init PROVE GroundInv
  OBVIOUS
<1>1. IsSequence(st.stream)
  <2>1. st.stream = <<>> /\ <<>> \in Seq({})
    BY DEF Init, NewStorage
  <2>. QED BY <2>1 DEF IsSequence
<1>2. \A p \in Process : proc[p] = NewProcess
  BY DEF Init
<1>. QED BY <1>1, <1>2, NewGrounded DEF GroundInv

LEMMA RestartKeepsGround ==
  ASSUME Restart
  PROVE  GroundInv'
<1>1. IsSequence(st.stream)'
  <2>1. st'.stream = <<>> /\ <<>> \in Seq({})
    BY DEF Restart, NewStorage
  <2>. QED BY <2>1 DEF IsSequence
<1>2. \A p \in Process :
        proc'[p] = NewProcess \/ proc'[p] = [NewProcess EXCEPT !.at = "done", !.out = "lost"]
  BY DEF Restart
<1>3. ASSUME NEW p \in Process, NEW nodes PROVE Grounded(Op(p), proc'[p], nodes)
  BY <1>2, NewGrounded
<1>4. \A p \in Process' : Grounded(Op(p), proc[p], get_cluster(st))'
  BY <1>3 DEF Restart, Process, Grounded, Aliases, Op, Doing
<1>. QED BY <1>1, <1>4 DEF GroundInv

LEMMA GroundStep == CatalogueInv /\ GroundInv /\ [Next]_vars => GroundInv'
<1> SUFFICES ASSUME CatalogueInv, GroundInv, [Next]_vars PROVE GroundInv'
  OBVIOUS
<1>1. ASSUME UNCHANGED <<cfg, st, proc>> PROVE GroundInv'
  BY <1>1, GroundFrame DEF GroundInv, get_cluster
<1>2. CASE ThreeSeconds
  BY <1>1, <1>2 DEF ThreeSeconds
<1>3. CASE UNCHANGED vars
  BY <1>1, <1>3 DEF vars
<1>. QED
  BY <1>2, <1>3, RestartKeepsGround, ProcessKeepsGround, CascadesKeepGround, NodesKeepGround
  DEF Next

\* For any nodes, announcements, requests and interleaving: neither the answers of
\* an update (Storage::update) nor the choice of a node (maximum_idle_node) unwraps
\* a node that is not there, unless one left after the handler began, and
\* do_cascade_check does not unless one has left or come since its tick began.
THEOREM PanicsShaken == Spec => []PanicsOnlyShaken
<1>1. GroundInv => PanicsOnlyShaken
  BY DEF GroundInv, Grounded, PanicsOnlyShaken
<1>. QED BY <1>1, CatalogueInit, CatalogueStep, GroundInit, GroundStep, PTL DEF Spec

--------------------------------------------------------------------------------
(* The places of a process.                                                *)

\* Where a process is that has still to do with the streams of the nodes.
Places == {"strategy", "fetch", "nodes", "idle", "cascade", "proxy"}

\* The process is elsewhere, and what it knows is of no use any more.
Settled(r) == r.at \notin Places /\ ~r.ready /\ (r.at = "new" => r.rounds = 0)

\* The steps that choose what a proxy sends where.
Picks(p) == Whip(p) \/ Session(p) \/ StreamCreate(p) \/ StreamDestroy(p) \/ ProxyDestroy(p)

\* An update goes on.
Hears(p) == Strategy(p) \/ \E n \in Node : Fetch(p, n) \/ Put(p, n)

LEMMA SetFacts ==
  ASSUME ProcInv, NEW p \in Process, NEW r, Set(p, r)
  PROVE  DOMAIN proc' = Process /\ proc'[p] = r /\ \A q \in Process \ {p} : proc'[q] = proc[q]
BY DEF ProcInv, Set

LEMMA NewSettled ==
  NewProcess.ready = FALSE /\ NewProcess.rounds = 0 /\ NewProcess.servers = <<>>
BY DEF NewProcess

LEMMA FinishSettles ==
  ASSUME NEW p, NEW out, Finish(p, out)
  PROVE  \E r : Set(p, r) /\ Settled(r)
<1>. PICK r : r \in {NewProcess, [NewProcess EXCEPT !.at = "done", !.out = out]} /\ Set(p, r)
  BY DEF Finish, Set
<1>1. r.at \in {"new", "done"} /\ ~r.ready /\ r.rounds = 0
  BY NewFields, NewSettled, FieldNames
<1>. QED BY <1>1 DEF Settled, Places

LEMMA PanicSettles ==
  ASSUME NEW p, NEW why, Panic(p, why)
  PROVE  \E r : Set(p, r) /\ Settled(r) /\ r.at = "panic"
<1>. PICK r : r = [NewProcess EXCEPT !.at = "panic", !.out = why, !.shaken = proc[p].shaken]
  OBVIOUS
<1>1. Set(p, r) /\ r.at = "panic" /\ ~r.ready
  BY NewFields, NewSettled, FieldNames DEF Panic, Set
<1>. QED BY <1>1 DEF Settled, Places

LEMMA GotoSettles ==
  ASSUME ProcInv, NEW p \in Process, NEW label, Goto(p, label), label \notin Places \cup {"new"}
  PROVE  \E r : Set(p, r) /\ Settled(r)
<1>. PICK r : r = [Stale(p) EXCEPT !.at = label]
  OBVIOUS
<1>1. DOMAIN proc[p] = Fields
  BY DEF ProcInv, Sound
<1>2. r.at = label /\ ~r.ready
  BY <1>1, FieldNames DEF Stale
<1>. QED BY <1>2 DEF Settled, Goto

LEMMA RouteSettles ==
  ASSUME CatalogueInv, NEW p \in Process,
         \/ ProxySession(p) \/ KeepSession(p) \/ ProxyDelete(p) \/ StreamIndex(p) \/ ProxyCreate(p)
         \/ DoCascadeCheck(p)
  PROVE  \E r : Set(p, r) /\ Settled(r)
<1>1. ProcInv
  BY DEF CatalogueInv
<1>2. CASE StreamIndex(p)
  <2>. PICK r : r = [NewProcess EXCEPT !.at = "done", !.left = Listed(st)]
    OBVIOUS
  <2>1. Set(p, r) /\ r.at = "done" /\ ~r.ready
    BY <1>2, NewFields, NewSettled, FieldNames DEF StreamIndex, Set
  <2>. QED BY <2>1 DEF Settled, Places
<1>3. CASE DoCascadeCheck(p)
  <2>1. DOMAIN proc[p] = Fields
    BY <1>1 DEF ProcInv, Sound
  <2>2. PICK nodes, infos, n, s :
          \/ Set(p, [Stale(p) EXCEPT !.at = "map", !.urls = nodes])
          \/ Set(p, [Stale(p) EXCEPT !.at = "infos", !.map = nodes])
          \/ Set(p, [Stale(p) EXCEPT !.at = "delete", !.infos = infos])
          \/ Set(p, [Stale(p) EXCEPT !.infos[n].sub = @ \ {s}]) /\ proc[p].at = "delete"
          \/ Panic(p, "node gone") \/ Finish(p, "ok")
    BY <1>3 DEF DoCascadeCheck, CheckNodes, CheckServers, CheckInfos, CheckDelete, Is
  <2>3. ASSUME NEW r \in {[Stale(p) EXCEPT !.at = "map", !.urls = nodes],
                          [Stale(p) EXCEPT !.at = "infos", !.map = nodes],
                          [Stale(p) EXCEPT !.at = "delete", !.infos = infos]}
        PROVE  r.at \in {"map", "infos", "delete"} /\ ~r.ready
    BY <2>1, FieldNames DEF Stale
  <2>4. ASSUME NEW r, r = [Stale(p) EXCEPT !.infos[n].sub = @ \ {s}]
        PROVE  r.at = proc[p].at /\ ~r.ready
    BY <2>1, <2>4, FieldNames DEF Stale
  <2>. QED BY <2>2, <2>3, <2>4, FinishSettles, PanicSettles DEF Settled, Places
<1>4. ASSUME ~StreamIndex(p), ~DoCascadeCheck(p) PROVE Goto(p, "record") \/ \E out : Finish(p, out)
  BY <1>4 DEF ProxySession, KeepSession, ProxyDelete, ProxyCreate
<1>. QED BY <1>1, <1>2, <1>3, <1>4, FinishSettles, GotoSettles DEF Places

LEMMA RecordSettles ==
  ASSUME CatalogueInv, NEW p \in Process, RecordStep(p)
  PROVE  \E r : Set(p, r) /\ Settled(r)
<1>1. ProcInv /\ DOMAIN proc[p] = Fields
  BY DEF CatalogueInv, ProcInv, Sound
<1>2. ASSUME NEW r, Set(p, r), r.at \notin Places \cup {"new"}, ~r.ready
      PROVE  \E x : Set(p, x) /\ Settled(x)
  BY <1>2 DEF Settled
<1>. USE DEF Places
<1>3. CASE StartRecord(p)
  <2>1. ASSUME NEW n, Set(p, [Stale(p) EXCEPT !.at = "post", !.node = n])
        PROVE  \E x : Set(p, x) /\ Settled(x)
    <3>. PICK r : r = [Stale(p) EXCEPT !.at = "post", !.node = n]
      OBVIOUS
    <3>1. r.at = "post" /\ ~r.ready
      BY <1>1, FieldNames DEF Stale
    <3>. QED BY <1>2, <2>1, <3>1
  <2>. QED BY <1>3, <2>1, FinishSettles DEF StartRecord
<1>4. CASE RecordNodes(p)
  <2>1. ASSUME NEW here, NEW n, Set(p, [Stale(p) EXCEPT !.at = "status", !.left = here, !.node = n])
        PROVE  \E x : Set(p, x) /\ Settled(x)
    <3>. PICK r : r = [Stale(p) EXCEPT !.at = "status", !.left = here, !.node = n]
      OBVIOUS
    <3>1. r.at = "status" /\ ~r.ready
      BY <1>1, FieldNames DEF Stale
    <3>. QED BY <1>2, <2>1, <3>1
  <2>2. \/ Finish(p, "ok")
        \/ \E here, n : Set(p, [Stale(p) EXCEPT !.at = "status", !.left = here, !.node = n])
    BY <1>4 DEF RecordNodes
  <2>. QED BY <2>1, <2>2, FinishSettles
<1>5. CASE Status(p)
  <2>1. ASSUME Set(p, [Stale(p) EXCEPT !.left = Tail(proc[p].left)]), proc[p].at = "status"
        PROVE  \E x : Set(p, x) /\ Settled(x)
    <3>. PICK r : r = [Stale(p) EXCEPT !.left = Tail(proc[p].left)]
      OBVIOUS
    <3>1. r.at = "status" /\ ~r.ready
      BY <1>1, <2>1, FieldNames DEF Stale
    <3>. QED BY <1>2, <2>1, <3>1
  <2>2. \/ Finish(p, "ok") \/ Goto(p, "halt") \/ Goto(p, "post")
        \/ Set(p, [Stale(p) EXCEPT !.left = Tail(proc[p].left)])
    BY <1>5 DEF Status
  <2>3. proc[p].at = "status"
    BY <1>5 DEF Status
  <2>. QED BY <1>1, <2>1, <2>2, <2>3, FinishSettles, GotoSettles
<1>6. CASE Halt(p)
  <2>. PICK r : r = [Stale(p) EXCEPT !.at = "status", !.left = Tail(proc[p].left)]
    OBVIOUS
  <2>1. Set(p, r) /\ r.at = "status" /\ ~r.ready
    BY <1>1, <1>6, FieldNames DEF Stale, Halt
  <2>. QED BY <1>2, <2>1
<1>7. CASE Post(p)
  <2>1. ASSUME NEW n, Set(p, [Stale(p) EXCEPT !.at = "find", !.record = n])
        PROVE  \E x : Set(p, x) /\ Settled(x)
    <3>. PICK r : r = [Stale(p) EXCEPT !.at = "find", !.record = n]
      OBVIOUS
    <3>1. r.at = "find" /\ ~r.ready
      BY <1>1, FieldNames DEF Stale
    <3>. QED BY <1>2, <2>1, <3>1
  <2>2. Finish(p, "error") \/ \E n : Set(p, [Stale(p) EXCEPT !.at = "find", !.record = n])
    BY <1>7 DEF Post
  <2>. QED BY <2>1, <2>2, FinishSettles
<1>8. CASE Find(p)
  <2>1. ASSUME NEW row, Set(p, [Stale(p) EXCEPT !.at = "write", !.row = row])
        PROVE  \E x : Set(p, x) /\ Settled(x)
    <3>. PICK r : r = [Stale(p) EXCEPT !.at = "write", !.row = row]
      OBVIOUS
    <3>1. r.at = "write" /\ ~r.ready
      BY <1>1, FieldNames DEF Stale
    <3>. QED BY <1>2, <2>1, <3>1
  <2>2. Goto(p, "failed") \/ \E row : Set(p, [Stale(p) EXCEPT !.at = "write", !.row = row])
    BY <1>8 DEF Find, Goto
  <2>. QED BY <1>1, <2>1, <2>2, GotoSettles
<1>9. CASE Write(p)
  <2>1. Goto(p, "failed") \/ Goto(p, "written")
    BY <1>9 DEF Write
  <2>. QED BY <1>1, <2>1, GotoSettles
<1>10. CASE Upserted(p)
  <2>1. ASSUME NEW acks, NextRecord(p, acks) PROVE \E x : Set(p, x) /\ Settled(x)
    <3>1. CASE Set(p, [Stale(p) EXCEPT !.at = "ack", !.acks = acks])
      <4>. PICK r : r = [Stale(p) EXCEPT !.at = "ack", !.acks = acks]
        OBVIOUS
      <4>1. r.at = "ack" /\ ~r.ready
        BY <1>1, FieldNames DEF Stale
      <4>. QED BY <1>2, <3>1, <4>1
    <3>2. CASE Set(p, [Stale(p) EXCEPT !.at = "find", !.acks = acks,
                         !.record = Head(proc[p].records), !.records = Tail(proc[p].records)])
      <4>. PICK r : r = [Stale(p) EXCEPT !.at = "find", !.acks = acks,
                           !.record = Head(proc[p].records), !.records = Tail(proc[p].records)]
        OBVIOUS
      <4>1. r.at = "find" /\ ~r.ready
        BY <1>1, FieldNames DEF Stale
      <4>. QED BY <1>2, <3>2, <4>1
    <3>. QED BY <2>1, <3>1, <3>2 DEF NextRecord
  <2>2. Finish(p, "ok") \/ \E acks : NextRecord(p, acks)
    BY <1>10 DEF Upserted
  <2>. QED BY <2>1, <2>2, FinishSettles
<1>11. CASE RecordSync(p)
  <2>1. PICK order : Set(p, [Stale(p) EXCEPT !.at = "pull", !.left = order])
    BY <1>11 DEF RecordSync
  <2>. PICK r : r = [Stale(p) EXCEPT !.at = "pull", !.left = order]
    OBVIOUS
  <2>2. r.at = "pull" /\ ~r.ready
    BY <1>1, FieldNames DEF Stale
  <2>. QED BY <1>2, <2>1, <2>2
<1>12. CASE Pull(p)
  <2>1. proc[p].at = "pull"
    BY <1>12 DEF Pull
  <2>2. ASSUME Set(p, [Stale(p) EXCEPT !.left = Tail(proc[p].left)])
        PROVE  \E x : Set(p, x) /\ Settled(x)
    <3>. PICK r : r = [Stale(p) EXCEPT !.left = Tail(proc[p].left)]
      OBVIOUS
    <3>1. r.at = "pull" /\ ~r.ready
      BY <1>1, <2>1, FieldNames DEF Stale
    <3>. QED BY <1>2, <2>2, <3>1
  <2>3. ASSUME NEW n, NEW last, NEW one, NEW others,
               Set(p, [Stale(p) EXCEPT !.at = "find", !.node = n, !.left = Tail(proc[p].left),
                         !.acks = {}, !.last = last, !.record = one, !.records = others])
        PROVE  \E x : Set(p, x) /\ Settled(x)
    <3>. PICK r : r = [Stale(p) EXCEPT !.at = "find", !.node = n, !.left = Tail(proc[p].left),
                         !.acks = {}, !.last = last, !.record = one, !.records = others]
      OBVIOUS
    <3>1. r.at = "find" /\ ~r.ready
      BY <1>1, FieldNames DEF Stale
    <3>. QED BY <1>2, <2>3, <3>1
  <2>4. \/ Finish(p, "ok")
        \/ Set(p, [Stale(p) EXCEPT !.left = Tail(proc[p].left)])
        \/ \E n, last, one, others :
             Set(p, [Stale(p) EXCEPT !.at = "find", !.node = n, !.left = Tail(proc[p].left),
                       !.acks = {}, !.last = last, !.record = one, !.records = others])
    BY <1>12 DEF Pull
  <2>. QED BY <2>2, <2>3, <2>4, FinishSettles
<1>13. CASE Ack(p)
  <2>1. Goto(p, "pull")
    BY <1>13 DEF Ack
  <2>. QED BY <1>1, <2>1, GotoSettles
<1>. QED
  BY <1>3, <1>4, <1>5, <1>6, <1>7, <1>8, <1>9, <1>10, <1>11, <1>12, <1>13 DEF RecordStep

\* Every other step leaves its process elsewhere.
LEMMA StepSettles ==
  ASSUME CatalogueInv, NEW p \in Process, ProcessStep(p)
  PROVE  Looks(p) \/ Picks(p) \/ Hears(p) \/ \E r : Set(p, r) /\ Settled(r)
BY RouteSettles, RecordSettles
DEF ProcessStep, UpdateStep, RouteStep, Looks, Picks, Hears

LEMMA UpdateShape ==
  ASSUME ProcInv, NEW p \in Process, Update(p)
  PROVE  \E r : /\ Set(p, r) /\ r.at = "strategy" /\ r.back = proc[p].at /\ r.wait = AskStrategy(st)
                /\ r.servers = proc[p].servers /\ ~r.ready
<1>. PICK nodes : nodes = AskStrategy(st)
  OBVIOUS
<1>. PICK r : r = [Stale(p) EXCEPT !.at = "strategy", !.back = proc[p].at,
                     !.rounds = proc[p].rounds + 1, !.wait = nodes]
  OBVIOUS
<1>1. DOMAIN proc[p] = Fields
  BY DEF ProcInv, Sound
<1>2. Set(p, r) /\ r.at = "strategy" /\ r.back = proc[p].at /\ r.wait = nodes
      /\ r.servers = proc[p].servers /\ ~r.ready
  BY <1>1, FieldNames DEF Stale, Update
<1>. QED BY <1>2

\* Where an update is that has the answers got and waits for the nodes wait.
Polled(p, wait, got, r) ==
  /\ r.servers = proc[p].servers
  /\ wait = {} /\ got = Empty => r.at = proc[p].back /\ r.ready = TRUE
  /\ wait # {} \/ got # Empty =>
       r.at = "fetch" /\ r.back = proc[p].back /\ r.wait = wait /\ r.got = got /\ ~r.ready

LEMMA PollsShape ==
  ASSUME ProcInv, NEW p \in Process, NEW wait, NEW got, Polls(p, wait, got)
  PROVE  \E r : Set(p, r) /\ Polled(p, wait, got, r)
<1>1. DOMAIN proc[p] = Fields
  BY DEF ProcInv, Sound
<1>2. CASE wait = {} /\ got = Empty
  <2>. PICK r : r = [proc[p] EXCEPT !.at = proc[p].back, !.back = "new", !.ready = TRUE,
                                    !.wait = {}, !.got = Empty]
    OBVIOUS
  <2>1. Set(p, r)
    BY <1>2 DEF Polls, Set
  <2>2. r.at = proc[p].back /\ r.servers = proc[p].servers /\ r.ready = TRUE
    BY <1>1, FieldNames
  <2>. QED BY <1>2, <2>1, <2>2 DEF Polled
<1>3. CASE ~(wait = {} /\ got = Empty)
  <2>. PICK r : r = [Stale(p) EXCEPT !.at = "fetch", !.wait = wait, !.got = got]
    OBVIOUS
  <2>1. Set(p, r)
    BY <1>3 DEF Polls
  <2>2. /\ r.at = "fetch" /\ r.back = proc[p].back /\ r.wait = wait /\ r.got = got
        /\ r.servers = proc[p].servers /\ ~r.ready
    BY <1>1, FieldNames DEF Stale
  <2>. QED BY <1>3, <2>1, <2>2 DEF Polled
<1>. QED BY <1>2, <1>3

LEMMA HearsShape ==
  ASSUME NEW p, Hears(p)
  PROVE  /\ proc[p].at \in {"strategy", "fetch"}
         /\ (\E wait, got : Polls(p, wait, got)) \/ (\E out : Panic(p, out))
<1>1. CASE Strategy(p)
  BY <1>1 DEF Strategy
<1>2. ASSUME NEW n \in Node, Fetch(p, n)
      PROVE  proc[p].at = "fetch" /\ ((\E wait, got : Polls(p, wait, got)) \/ \E out : Panic(p, out))
  BY <1>2 DEF Fetch
<1>3. ASSUME NEW n \in Node, Put(p, n)
      PROVE  proc[p].at = "fetch" /\ ((\E wait, got : Polls(p, wait, got)) \/ \E out : Panic(p, out))
  BY <1>3 DEF Put
<1>. QED BY <1>1, <1>2, <1>3 DEF Hears

\* A handler goes on to another place, with servers or with a node.
LEMMA IdleShape ==
  ASSUME ProcInv, NEW p \in Process, NEW servers,
         Set(p, [Stale(p) EXCEPT !.at = "idle", !.servers = servers])
  PROVE  \E r : Set(p, r) /\ r.at = "idle" /\ r.servers = servers /\ ~r.ready
<1>. PICK r : r = [Stale(p) EXCEPT !.at = "idle", !.servers = servers]
  OBVIOUS
<1>1. DOMAIN proc[p] = Fields
  BY DEF ProcInv, Sound
<1>2. r.at = "idle" /\ r.servers = servers /\ ~r.ready
  BY <1>1, FieldNames DEF Stale
<1>. QED BY <1>2

LEMMA ProxyShape ==
  ASSUME ProcInv, NEW p \in Process, NEW node,
         Set(p, [Stale(p) EXCEPT !.at = "proxy", !.node = node])
  PROVE  \E r : Set(p, r) /\ r.at = "proxy" /\ r.node = node /\ ~r.ready
<1>. PICK r : r = [Stale(p) EXCEPT !.at = "proxy", !.node = node]
  OBVIOUS
<1>1. DOMAIN proc[p] = Fields
  BY DEF ProcInv, Sound
<1>2. r.at = "proxy" /\ r.node = node /\ ~r.ready
  BY <1>1, FieldNames DEF Stale
<1>. QED BY <1>2

LEMMA GotoShape ==
  ASSUME ProcInv, NEW p \in Process, NEW label, Goto(p, label)
  PROVE  \E r : Set(p, r) /\ r.at = label /\ r.servers = proc[p].servers /\ ~r.ready
<1>. PICK r : r = [Stale(p) EXCEPT !.at = label]
  OBVIOUS
<1>1. DOMAIN proc[p] = Fields
  BY DEF ProcInv, Sound
<1>2. r.at = label /\ r.servers = proc[p].servers /\ ~r.ready
  BY <1>1, FieldNames DEF Stale
<1>. QED BY <1>2 DEF Goto

\* The rest of Picks.
LEMMA SessionShape ==
  ASSUME ProcInv, NEW p \in Process, NEW t, NEW n,
         Set(p, [Stale(p) EXCEPT !.at = "proxy", !.node = n, !.servers = <<t>>])
  PROVE  \E r : Set(p, r) /\ r.at = "proxy" /\ r.servers = <<t>> /\ ~r.ready
<1>. PICK r : r = [Stale(p) EXCEPT !.at = "proxy", !.node = n, !.servers = <<t>>]
  OBVIOUS
<1>1. DOMAIN proc[p] = Fields
  BY DEF ProcInv, Sound
<1>2. r.at = "proxy" /\ r.servers = <<t>> /\ ~r.ready
  BY <1>1, FieldNames DEF Stale
<1>. QED BY <1>2

LEMMA DestroyShape ==
  ASSUME ProcInv, NEW p \in Process, StreamDestroy(p) \/ ProxyDestroy(p)
  PROVE  \E r : Set(p, r) /\ (Settled(r) \/ r.at = "proxy") /\ ~r.ready
<1>1. DOMAIN proc[p] = Fields
  BY DEF ProcInv, Sound
<1>2. ASSUME NEW order, Set(p, [Stale(p) EXCEPT !.at = "proxy", !.left = order])
      PROVE  \E r : Set(p, r) /\ r.at = "proxy" /\ ~r.ready
  <2>. PICK r : r = [Stale(p) EXCEPT !.at = "proxy", !.left = order]
    OBVIOUS
  <2>1. r.at = "proxy" /\ ~r.ready
    BY <1>1, FieldNames DEF Stale
  <2>. QED BY <1>2, <2>1
<1>3. ASSUME NEW order, proc[p].at = "proxy", Set(p, [Stale(p) EXCEPT !.left = order])
      PROVE  \E r : Set(p, r) /\ r.at = "proxy" /\ ~r.ready
  <2>. PICK r : r = [Stale(p) EXCEPT !.left = order]
    OBVIOUS
  <2>1. r.at = "proxy" /\ ~r.ready
    BY <1>1, <1>3, FieldNames DEF Stale
  <2>. QED BY <1>3, <2>1
<1>4. ASSUME NEW out, Finish(p, out) PROVE \E r : Set(p, r) /\ Settled(r) /\ ~r.ready
  BY <1>4, FinishSettles DEF Settled
<1>5. CASE StreamDestroy(p)
  BY <1>2, <1>5 DEF StreamDestroy
<1>6. CASE ProxyDestroy(p)
  <2>1. proc[p].at = "proxy"
    BY <1>6 DEF ProxyDestroy, Is
  <2>2. \/ \E out : Finish(p, out)
        \/ \E order : Set(p, [Stale(p) EXCEPT !.left = order])
    BY <1>6 DEF ProxyDestroy
  <2>. QED BY <1>3, <1>4, <2>1, <2>2
<1>. QED BY <1>5, <1>6

--------------------------------------------------------------------------------
(* Cascades.                                                               *)

\* Nothing but the cascades themselves ends a stream that is published: the nodes
\* end none, no request destroys one, and the only sessions that are deleted are
\* subscribers'.
Uncut ==
  /\ ~cfg.ends
  /\ \A p \in Process : Op(p) # "destroy"
  /\ \A p, q \in Process : ~(Op(p) = "session" /\ Op(q) = "whip")

\* A request that looks for a node to serve it has servers to choose from.
Served(r) ==
  Doing(r, "idle") \/ Doing(r, "cascade") =>
    IsSequence(r.servers) /\ r.servers # <<>> /\ Aliases(r.servers) \subseteq Node

\* A cascade belongs to a WHEP request that has gone on to its destination, and
\* sends no other cascade away.
Tasked(p) ==
  /\ DOMAIN casc[p] = DOMAIN NoCascade
  /\ casc[p].at # "none" =>
       /\ Op(p) = "whep" /\ proc[p].at \in {"proxy", "record", "done"}
       /\ casc[p].src \in Node /\ casc[p].dst \in Node
  /\ casc[p].cut # {} => casc[p].at \in {"cut", "done"}
  /\ \A s \in casc[p].left : s[2] # "push"

\* Only sessions that clients were told of are deleted.
Deletes(p) ==
  Is(p, "proxy", {"session"}) => \E q \in Process : proc[p].servers[1][1] = Direct(q)

TaskInv ==
  /\ DOMAIN casc = Process
  /\ \A p \in Process : Served(proc[p]) /\ Tasked(p) /\ Deletes(p)
  /\ \A t \in told : \E p \in Process : t[1] = Direct(p)
  /\ \A n \in Node : \A p \in Process : Direct(p) \in world[n].pub => Op(p) = "whip"

\* Both ends of the cascade of p are there.
Fed(p) ==
  /\ <<p, "push", Manager>> \in world[casc[p].src].sub
  /\ world[casc[p].dst].pub = {<<p, "fed", casc[p].src>>}

FedInv ==
  Uncut /\ cfg.mode = "push" =>
    \A p \in Process : casc[p].at \in {"check", "close", "cut"} \/ casc[p].cut # {} => Fed(p)

--------------------------------------------------------------------------------
LEMMA OnlySome ==
  ASSUME NEW servers \in Seq(Known), NEW p
  PROVE  IsSequence(Only(p, servers))
<1>. PICK S : S = {s \in Range(servers) : s.alias \in cfg.calls[p].nodes}
  OBVIOUS
<1>1. Among(servers, S) \in Seq(Known \cap S)
  BY AmongIn
<1>2. Only(p, servers) \in {servers, Among(servers, S)}
  BY DEF Only
<1>. QED BY <1>1, <1>2 DEF IsSequence

\* The steps of an update, and those that look nodes up, keep the servers.
LEMMA LooksServed ==
  ASSUME CatalogueInv, GroundInv, TaskInv, NEW p \in Process, Looks(p) \/ Hears(p)
  PROVE  \E r : Set(p, r) /\ Served(r) /\ (r.at = "proxy" => Op(p) \in {"whip", "whep"})
<1>1. /\ ProcInv /\ get_cluster(st) \subseteq Node /\ Served(proc[p]) /\ IsSequence(st.stream)
      /\ proc[p].back \in Updates
  BY DEF CatalogueInv, StoreTypes, TaskInv, GroundInv, ProcInv, Sound
<1>2. CASE Update(p)
  <2>1. PICK r : /\ Set(p, r) /\ r.at = "strategy" /\ r.back = proc[p].at
                 /\ r.servers = proc[p].servers
    BY <1>1, <1>2, UpdateShape
  <2>. QED BY <1>1, <2>1 DEF Served, Doing
<1>3. ASSUME NEW wait, NEW got, Polls(p, wait, got), proc[p].at \in {"strategy", "fetch"}
      PROVE  \E r : Set(p, r) /\ Served(r) /\ (r.at = "proxy" => Op(p) \in {"whip", "whep"})
  <2>0. ProcInv
    BY <1>1
  <2>1. PICK r : Set(p, r) /\ Polled(p, wait, got, r)
    BY <2>0, <1>3, PollsShape
  <2>2. /\ r.servers = proc[p].servers
        /\ r.at = proc[p].back \/ (r.at = "fetch" /\ r.back = proc[p].back)
    BY <2>1 DEF Polled
  <2>. QED BY <1>1, <1>3, <2>1, <2>2 DEF Served, Doing, Updates
<1>4. ASSUME NEW out, Finish(p, out) \/ Panic(p, out)
      PROVE  \E r : Set(p, r) /\ Served(r) /\ (r.at = "proxy" => Op(p) \in {"whip", "whep"})
  <2>1. PICK r : Set(p, r) /\ Settled(r)
    BY <1>4, FinishSettles, PanicSettles
  <2>. QED BY <2>1 DEF Settled, Served, Doing, Places
<1>5. CASE Hears(p)
  BY <1>3, <1>4, <1>5, HearsShape
<1>6. CASE DoCascadeCheck(p)
  <2>1. PICK r : Set(p, r) /\ Settled(r)
    BY <1>6, RouteSettles
  <2>. QED BY <2>1 DEF Settled, Served, Doing, Places
<1>7. ASSUME NEW servers \in Seq(Known), Only(p, servers) # <<>>,
             Set(p, [Stale(p) EXCEPT !.at = "idle", !.servers = Only(p, servers)])
      PROVE  \E r : Set(p, r) /\ Served(r) /\ (r.at = "proxy" => Op(p) \in {"whip", "whep"})
  <2>. PICK some : some = Only(p, servers)
    OBVIOUS
  <2>1. IsSequence(some) /\ Aliases(some) \subseteq Node /\ some # <<>>
    BY <1>1, <1>7, OnlySome, KnownAliases
  <2>2. PICK r : Set(p, r) /\ r.at = "idle" /\ r.servers = some
    BY <1>1, <1>7, IdleShape
  <2>. QED BY <2>1, <2>2 DEF Served
<1>8. CASE WhipNodes(p)
  <2>1. PICK order, servers :
          /\ order \in SetToSeqs(get_cluster(st))
          /\ servers = [i \in DOMAIN order |-> Server(st, order[i])]
          /\ \/ Finish(p, "no node")
             \/ /\ Only(p, servers) # <<>>
                /\ Set(p, [Stale(p) EXCEPT !.at = "idle", !.servers = Only(p, servers)])
    BY <1>8 DEF WhipNodes
  <2>2. order \in Seq(get_cluster(st))
    BY <1>1, <2>1, OrderOf
  <2>3. servers \in Seq(Known)
    BY <2>1, <2>2, KnownServers
  <2>. QED BY <1>4, <1>7, <2>1, <2>3
<1>9. CASE Whep(p)
  <2>1. \/ Finish(p, "not found")
        \/ /\ Only(p, stream_get(st)) # <<>>
           /\ Set(p, [Stale(p) EXCEPT !.at = "idle", !.servers = Only(p, stream_get(st))])
    BY <1>9 DEF Whep
  <2>. QED BY <1>1, <1>4, <1>7, <2>1, StreamServers
<1>10. ASSUME NEW n, Set(p, [Stale(p) EXCEPT !.at = "proxy", !.node = n]),
              Op(p) \in {"whip", "whep"}
       PROVE  \E r : Set(p, r) /\ Served(r) /\ (r.at = "proxy" => Op(p) \in {"whip", "whep"})
  <2>1. PICK r : Set(p, r) /\ r.at = "proxy"
    BY <1>1, <1>10, ProxyShape
  <2>. QED BY <1>10, <2>1 DEF Served, Doing
<1>11. CASE IdleNode(p)
  <2>1. \/ Panic(p, "node gone") \/ Finish(p, "no node") \/ Goto(p, "cascade")
        \/ \E node : Set(p, [Stale(p) EXCEPT !.at = "proxy", !.node = node])
    BY <1>11 DEF IdleNode
  <2>2. proc[p].at = "idle" /\ Op(p) \in {"whip", "whep"}
    BY <1>11 DEF IdleNode, Is
  <2>3. ASSUME Goto(p, "cascade")
        PROVE  \E r : Set(p, r) /\ Served(r) /\ (r.at = "proxy" => Op(p) \in {"whip", "whep"})
    <3>1. PICK r : Set(p, r) /\ r.at = "cascade" /\ r.servers = proc[p].servers
      BY <1>1, <2>3, GotoShape
    <3>. QED BY <1>1, <2>2, <3>1 DEF Served, Doing
  <2>. QED BY <1>4, <1>10, <2>1, <2>2, <2>3
<1>12. CASE CascadeNewNode(p)
  <2>1. \/ Panic(p, "no destination")
        \/ \E node : Set(p, [Stale(p) EXCEPT !.at = "proxy", !.node = node])
    BY <1>12 DEF CascadeNewNode
  <2>2. Op(p) \in {"whip", "whep"}
    BY <1>12 DEF CascadeNewNode, Is
  <2>. QED BY <1>4, <1>10, <2>1, <2>2
<1>. QED BY <1>2, <1>5, <1>6, <1>8, <1>9, <1>11, <1>12 DEF Looks, Hears

LEMMA PicksServed ==
  ASSUME ProcInv, TaskInv, NEW p \in Process, Picks(p)
  PROVE  \E r : /\ Set(p, r) /\ Served(r)
                /\ r.at = "proxy" /\ Op(p) = "session" =>
                     \E q \in Process : r.servers[1][1] = Direct(q)
<1>. DEFINE Goal == \E r : /\ Set(p, r) /\ Served(r)
                           /\ r.at = "proxy" /\ Op(p) = "session" =>
                                \E q \in Process : r.servers[1][1] = Direct(q)
<1>1. ASSUME NEW r, Set(p, r), r.at \notin {"strategy", "fetch", "idle", "cascade"},
             Op(p) # "session" \/ r.at # "proxy"
      PROVE  Goal
  BY <1>1 DEF Served, Doing
<1>2. ASSUME NEW out, Finish(p, out) PROVE Goal
  BY <1>1, <1>2, FinishSettles DEF Settled, Places
<1>3. ASSUME NEW n, Set(p, [Stale(p) EXCEPT !.at = "proxy", !.node = n]), Op(p) # "session"
      PROVE  Goal
  BY <1>1, <1>3, ProxyShape
<1>. HIDE DEF Goal
<1>4. ASSUME Whip(p) PROVE Goal
  <2>1. \/ \E out : Finish(p, out)
        \/ Goto(p, "nodes")
        \/ \E n : Set(p, [Stale(p) EXCEPT !.at = "proxy", !.node = n])
    BY <1>4 DEF Whip
  <2>2. Op(p) = "whip"
    BY <1>4 DEF Whip, Is
  <2>3. ASSUME Goto(p, "nodes") PROVE Goal
    <3>1. PICK r : Set(p, r) /\ r.at = "nodes"
      BY <2>3, GotoShape
    <3>. QED BY <1>1, <3>1
  <2>. QED BY <1>2, <1>3, <2>1, <2>2, <2>3
<1>5. ASSUME Session(p) PROVE Goal
  <2>1. PICK t \in told :
          \/ Finish(p, "not found")
          \/ Set(p, [Stale(p) EXCEPT !.at = "proxy", !.node = st.session[t[1]], !.servers = <<t>>])
    BY <1>5 DEF Session
  <2>2. ASSUME Set(p, [Stale(p) EXCEPT !.at = "proxy", !.node = st.session[t[1]], !.servers = <<t>>])
        PROVE  Goal
    <3>1. PICK r : Set(p, r) /\ r.at = "proxy" /\ r.servers = <<t>>
      BY <2>2, SessionShape
    <3>2. \E q \in Process : t[1] = Direct(q)
      BY DEF TaskInv
    <3>. QED BY <3>1, <3>2 DEF Goal, Served, Doing
  <2>. QED BY <1>2, <2>1, <2>2
<1>6. ASSUME StreamCreate(p) PROVE Goal
  <2>1. \/ \E out : Finish(p, out)
        \/ \E n : Set(p, [Stale(p) EXCEPT !.at = "proxy", !.node = n])
    BY <1>6 DEF StreamCreate
  <2>2. Op(p) = "create"
    BY <1>6 DEF StreamCreate, Is
  <2>. QED BY <1>2, <1>3, <2>1, <2>2
<1>7. ASSUME StreamDestroy(p) \/ ProxyDestroy(p) PROVE Goal
  <2>1. Op(p) = "destroy"
    BY <1>7 DEF StreamDestroy, ProxyDestroy, Is
  <2>. QED BY <1>1, <1>7, <2>1, DestroyShape DEF Settled, Places
<1>. QED BY <1>4, <1>5, <1>6, <1>7 DEF Picks, Goal

\* Cascades are started by CascadeNewNode only.
LEMMA CascadesStay ==
  ASSUME NEW p \in Process, ProcessStep(p), ~CascadeNewNode(p)
  PROVE  UNCHANGED casc
<1>1. CASE UpdateStep(p)
  BY <1>1 DEF UpdateStep, Update, Strategy, Fetch, Put
<1>2. CASE RouteStep(p)
  BY <1>2 DEF RouteStep, Whip, WhipNodes, Whep, IdleNode, ProxySession, KeepSession, Session,
              ProxyDelete, StreamIndex, StreamCreate, ProxyCreate, StreamDestroy, ProxyDestroy
<1>3. CASE RecordStep(p)
  BY <1>3 DEF RecordStep, StartRecord, RecordNodes, Status, Halt, Post, Find, Write, Upserted,
              RecordSync, Pull, Ack
<1>4. CASE DoCascadeCheck(p)
  BY <1>4 DEF DoCascadeCheck, CheckNodes, CheckServers, CheckInfos, CheckDelete
<1>. QED BY <1>1, <1>2, <1>3, <1>4 DEF ProcessStep

\* A WHEP request that has a node only makes and keeps its session.
LEMMA LateSteps ==
  ASSUME CatalogueInv, NEW p \in Process, ProcessStep(p), Op(p) = "whep",
         proc[p].at \in {"proxy", "record", "done"}
  PROVE  proc'[p].at \in {"record", "done"} /\ (ProxySession(p) \/ KeepSession(p))
<1>1. ProcInv
  BY DEF CatalogueInv
<1>2. ProxySession(p) \/ KeepSession(p)
  <2>1. ~UpdateStep(p)
    BY DEF UpdateStep, Update, Strategy, Fetch, Put, Updates
  <2>2. ~RecordStep(p) /\ ~DoCascadeCheck(p)
    BY DEF RecordStep, StartRecord, RecordNodes, Status, Halt, Post, Find, Write, Upserted,
           RecordSync, Pull, Ack, DoCascadeCheck, CheckNodes, CheckServers, CheckInfos, CheckDelete, Is
  <2>3. CASE RouteStep(p)
    BY <2>3 DEF RouteStep, Whip, WhipNodes, Whep, IdleNode, CascadeNewNode, Session, ProxyDelete,
                StreamIndex, StreamCreate, ProxyCreate, StreamDestroy, ProxyDestroy, Is
  <2>. QED BY <2>1, <2>2, <2>3 DEF ProcessStep
<1>3. Goto(p, "record") \/ \E out : Finish(p, out)
  BY <1>2 DEF ProxySession, KeepSession
<1>4. ASSUME Goto(p, "record") PROVE proc'[p].at = "record"
  BY <1>1, <1>4, GotoShape, SetFacts
<1>5. ASSUME NEW out, Finish(p, out) PROVE proc'[p].at = "done"
  <2>. PICK r : r = [NewProcess EXCEPT !.at = "done", !.out = out]
    OBVIOUS
  <2>1. Set(p, r) /\ r.at = "done"
    BY <1>5, NewFields, FieldNames DEF Finish, Set, Ticks
  <2>. QED BY <1>1, <2>1, SetFacts
<1>. QED BY <1>2, <1>3, <1>4, <1>5

\* What a step of a process can do to the nodes: publishers are added by WHIP.
LEMMA NewPublishers ==
  ASSUME CatalogueInv, NEW p \in Process, ProcessStep(p), NEW n \in Node, NEW q,
         Direct(q) \in world'[n].pub
  PROVE  Direct(q) \in world[n].pub \/ (q = p /\ Op(p) = "whip")
<1>0. WorldTypes /\ DOMAIN NoStream = {"up", "pub", "sub", "idle"} /\ NoStream.pub = {}
  BY DEF CatalogueInv, NoStream
<1>1. CASE UNCHANGED world
  BY <1>1
<1>2. CASE Quiet(p)
  BY <1>1, <1>2, QuietFrame
<1>3. ASSUME \/ UpdateStep(p) \/ KeepSession(p) \/ Halt(p) \/ Post(p) \/ Write(p) \/ Ack(p)
      PROVE  UNCHANGED world
  BY <1>3 DEF UpdateStep, Update, Strategy, Fetch, Put, KeepSession, Halt, Post, Write, Ack, clusterVars
<1>4. CASE ProxySession(p)
  <2>1. world'[n].pub = world[n].pub \/ (world'[n].pub = {Direct(p)} /\ Op(p) = "whip")
    BY <1>0, <1>4 DEF ProxySession, WorldTypes
  <2>2. Direct(q) = Direct(p) => q = p
    BY DEF Direct
  <2>. QED BY <2>1, <2>2
<1>5. CASE ProxyDelete(p)
  BY <1>0, <1>5 DEF ProxyDelete, NodeDelete, WorldTypes, clusterVars
<1>6. CASE ProxyCreate(p)
  BY <1>0, <1>6 DEF ProxyCreate, WorldTypes
<1>7. CASE ProxyDestroy(p)
  BY <1>0, <1>7 DEF ProxyDestroy, WorldTypes, clusterVars
<1>8. CASE DoCascadeCheck(p)
  <2>1. UNCHANGED world \/ \E m, t : SessionDelete(m, t)
    BY <1>8 DEF DoCascadeCheck, CheckNodes, CheckServers, CheckInfos, CheckDelete, clusterVars
  <2>. QED BY <1>0, <1>1, <2>1, DeleteTypes
<1>. QED
  BY <1>1, <1>2, <1>3, <1>4, <1>5, <1>6, <1>7, <1>8
  DEF ProcessStep, RouteStep, RecordStep, Quiet

\* Clients are told of the sessions of their own requests.
LEMMA NewlyTold ==
  ASSUME NEW p \in Process, ProcessStep(p)
  PROVE  told' \subseteq told \cup {<<Direct(p), proc[p].node>>}
<1>1. CASE Quiet(p)
  BY <1>1, QuietFrame
<1>2. CASE KeepSession(p)
  BY <1>2 DEF KeepSession
<1>3. CASE ProxyDelete(p)
  BY <1>3 DEF ProxyDelete
<1>4. ASSUME \/ UpdateStep(p) \/ ProxySession(p) \/ ProxyCreate(p) \/ ProxyDestroy(p)
             \/ Halt(p) \/ Post(p) \/ Write(p) \/ Ack(p) \/ DoCascadeCheck(p)
      PROVE  UNCHANGED told
  BY <1>4 DEF UpdateStep, Update, Strategy, Fetch, Put, ProxySession, ProxyCreate, ProxyDestroy, Halt, Post,
              Write, Ack, DoCascadeCheck, CheckNodes, CheckServers, CheckInfos, CheckDelete
<1>. QED BY <1>1, <1>2, <1>3, <1>4 DEF ProcessStep, RouteStep, RecordStep, Quiet

LEMMA ProcessKeepsTasks ==
  ASSUME CatalogueInv, GroundInv, TaskInv, NEW p \in Process, ProcessStep(p)
  PROVE  TaskInv'
<1>0. ProcInv /\ cfg' = cfg /\ Process' = Process
  BY StepsStaySound DEF CatalogueInv, Process
<1>1. PICK r : /\ Set(p, r) /\ Served(r)
               /\ r.at = "proxy" /\ Op(p) = "session" =>
                    \E q \in Process : r.servers[1][1] = Direct(q)
  <2>1. CASE Looks(p) \/ Hears(p)
    BY <2>1, LooksServed
  <2>2. CASE Picks(p)
    BY <1>0, <2>2, PicksServed
  <2>3. ASSUME NEW r, Set(p, r), Settled(r)
        PROVE  Served(r) /\ r.at # "proxy"
    BY <2>3 DEF Settled, Served, Doing, Places
  <2>. QED BY <2>1, <2>2, <2>3, StepSettles
<1>2. proc'[p] = r /\ \A q \in Process \ {p} : proc'[q] = proc[q]
  BY <1>0, <1>1, SetFacts
<1>3. ASSUME NEW q \in Process PROVE Served(proc'[q])
  BY <1>1, <1>2 DEF TaskInv
<1>4. ASSUME NEW q \in Process PROVE Deletes(q)'
  BY <1>0, <1>1, <1>2 DEF TaskInv, Deletes, Is, Op, Direct
<1>5. ASSUME NEW t \in told' PROVE \E q \in Process : t[1] = Direct(q)
  BY NewlyTold DEF TaskInv
<1>6. ASSUME NEW n \in Node, NEW q \in Process, Direct(q) \in world'[n].pub PROVE Op(q) = "whip"
  BY <1>6, NewPublishers DEF TaskInv
<1>7. DOMAIN casc' = Process /\ \A q \in Process : Tasked(q)'
  <2>1. CASE CascadeNewNode(p) /\ ~UNCHANGED casc
    <3>0. DOMAIN NoCascade = {"at", "src", "dst", "attempts", "cut", "left"}
      BY DEF NoCascade
    <3>1. PICK dst \in get_cluster(st) :
            /\ casc' = [casc EXCEPT ![p] = [@ EXCEPT !.at = "call", !.dst = dst,
                                                     !.src = Head(proc[p].servers).alias]]
            /\ Set(p, [Stale(p) EXCEPT !.at = "proxy", !.node = dst])
      BY <2>1 DEF CascadeNewNode
    <3>2. proc'[p].at = "proxy"
      <4>1. PICK x : Set(p, x) /\ x.at = "proxy"
        BY <1>0, <3>1, ProxyShape
      <4>. QED BY <1>0, <4>1, SetFacts
    <3>3. proc[p].at = "cascade" /\ Op(p) = "whep"
      BY <2>1 DEF CascadeNewNode, Is
    <3>4. Head(proc[p].servers).alias \in Node
      <4>1. IsSequence(proc[p].servers) /\ proc[p].servers # <<>> /\ Aliases(proc[p].servers) \subseteq Node
        BY <3>3 DEF TaskInv, Served, Doing
      <4>2. Head(proc[p].servers) = proc[p].servers[1] /\ 1 \in DOMAIN proc[p].servers
        BY <4>1 DEF IsSequence
      <4>. QED BY <4>1, <4>2 DEF Aliases
    <3>5. dst \in Node
      BY DEF CatalogueInv, StoreTypes
    <3>6. /\ DOMAIN casc[p] = DOMAIN NoCascade /\ casc[p].cut = {}
          /\ \A s \in casc[p].left : s[2] # "push"
      BY <3>3 DEF TaskInv, Tasked
    <3>7. /\ DOMAIN casc'[p] = DOMAIN NoCascade /\ casc'[p].at = "call" /\ casc'[p].cut = {}
          /\ casc'[p].src \in Node /\ casc'[p].dst \in Node /\ casc'[p].left = casc[p].left
      BY <3>0, <3>1, <3>4, <3>5, <3>6 DEF TaskInv
    <3>8. Tasked(p)'
      BY <1>0, <3>2, <3>3, <3>6, <3>7 DEF Tasked, Op
    <3>9. ASSUME NEW q \in Process \ {p} PROVE Tasked(q)'
      <4>1. casc'[q] = casc[q] /\ proc'[q] = proc[q]
        BY <1>2, <3>1 DEF TaskInv
      <4>. QED BY <1>0, <4>1 DEF TaskInv, Tasked, Op
    <3>. QED BY <3>1, <3>8, <3>9 DEF TaskInv
  <2>2. CASE UNCHANGED casc
    <3>1. ASSUME casc[p].at # "none" PROVE proc'[p].at \in {"record", "done"}
      BY <3>1, LateSteps DEF TaskInv, Tasked
    <3>2. ASSUME NEW q \in Process \ {p} PROVE Tasked(q)'
      BY <1>0, <1>2, <2>2 DEF TaskInv, Tasked, Op
    <3>3. Tasked(p)'
      BY <1>0, <2>2, <3>1 DEF TaskInv, Tasked, Op
    <3>. QED BY <2>2, <3>2, <3>3 DEF TaskInv
  <2>. QED BY <2>1, <2>2, CascadesStay
<1>8. \A q \in Process : Served(proc[q])'
  BY <1>3 DEF Served, Doing, Aliases, IsSequence
<1>9. (\A t \in told : \E q \in Process : t[1] = Direct(q))'
  BY <1>0, <1>5 DEF Direct
<1>10. (\A n \in Node : \A q \in Process : Direct(q) \in world[n].pub => Op(q) = "whip")'
  BY <1>0, <1>6 DEF Direct, Op
<1>. QED BY <1>0, <1>4, <1>7, <1>8, <1>9, <1>10 DEF TaskInv

\* Publishers stay, and so do the sessions that Liveman's cascades push.
Untouched(n) ==
  /\ world[n].pub # {} => world'[n].pub = world[n].pub
  /\ \A q : <<q, "push", Manager>> \in world[n].sub => <<q, "push", Manager>> \in world'[n].sub

LEMMA ProcessTouchesNone ==
  ASSUME CatalogueInv, GroundInv, TaskInv, Uncut, NEW p \in Process, ProcessStep(p), NEW n \in Node
  PROVE  Untouched(n)
<1>0. /\ WorldTypes /\ DOMAIN NoStream = {"up", "pub", "sub", "idle"}
      /\ get_cluster(st) \subseteq Node
  BY DEF CatalogueInv, NoStream, StoreTypes
<1>1. ASSUME UNCHANGED world PROVE Untouched(n)
  BY <1>1 DEF Untouched
<1>2. ASSUME Quiet(p) PROVE UNCHANGED world
  BY <1>2, QuietFrame
<1>3. ASSUME \/ UpdateStep(p) \/ KeepSession(p) \/ Halt(p) \/ Post(p) \/ Write(p) \/ Ack(p)
      PROVE  UNCHANGED world
  BY <1>3 DEF UpdateStep, Update, Strategy, Fetch, Put, KeepSession, Halt, Post, Write, Ack, clusterVars
<1>4. CASE ProxySession(p)
  <2>1. /\ world[n].pub # {} => world'[n].pub = world[n].pub
        /\ world[n].sub \subseteq world'[n].sub
    BY <1>0, <1>4 DEF ProxySession, WorldTypes
  <2>. QED BY <2>1 DEF Untouched
<1>5. CASE ProxyDelete(p)
  <2>1. PICK q \in Process : proc[p].servers[1][1] = Direct(q)
    BY <1>5 DEF ProxyDelete, TaskInv, Deletes
  <2>2. Op(p) = "session"
    BY <1>5 DEF ProxyDelete, Is
  <2>3. UNCHANGED world \/ NodeDelete(proc[p].node, Direct(q))
    BY <1>5, <2>1 DEF ProxyDelete, clusterVars
  <2>4. ASSUME NodeDelete(proc[p].node, Direct(q)) PROVE Untouched(n)
    <3>1. n = proc[p].node => Direct(q) \notin world[n].pub
      BY <2>2 DEF TaskInv, Uncut
    <3>2. world'[n].pub = world[n].pub /\ world[n].sub \ {Direct(q)} \subseteq world'[n].sub
      BY <1>0, <2>4, <3>1 DEF NodeDelete, WorldTypes
    <3>3. \A x : <<x, "push", Manager>> # Direct(q)
      BY DEF Direct
    <3>. QED BY <3>2, <3>3 DEF Untouched
  <2>. QED BY <1>1, <2>3, <2>4
<1>6. CASE ProxyCreate(p)
  <2>1. world'[n].pub = world[n].pub /\ world'[n].sub = world[n].sub
    BY <1>0, <1>6 DEF ProxyCreate, WorldTypes
  <2>. QED BY <2>1 DEF Untouched
<1>7. ~ProxyDestroy(p)
  BY DEF ProxyDestroy, Is, Uncut
<1>8. CASE DoCascadeCheck(p)
  <2>1. \/ UNCHANGED world
        \/ Is(p, "delete", {"cascade_check"}) /\ \E m : \E s \in IdleCascades(p, m) : SessionDelete(m, s)
    BY <1>8 DEF DoCascadeCheck, CheckNodes, CheckServers, CheckInfos, CheckDelete, clusterVars
  <2>2. ASSUME NEW m, NEW s \in IdleCascades(p, m), SessionDelete(m, s), proc[p].at = "delete"
        PROVE  Untouched(n)
    <3>1. proc[p].urls \subseteq Node
      BY <2>2 DEF GroundInv, Grounded
    <3>2. s[3] \in Node
      BY <3>1 DEF IdleCascades, TargetNode
    <3>3. \A q : <<q, "push", Manager>> # s
      BY <3>2, LivemanAssumption
    <3>4. world'[n].pub = world[n].pub /\ world[n].sub \ {s} \subseteq world'[n].sub
      BY <1>0, <2>2, DeleteTypes
    <3>. QED BY <3>3, <3>4 DEF Untouched
  <2>. QED BY <1>1, <2>1, <2>2 DEF Is
<1>. QED
  BY <1>1, <1>2, <1>3, <1>4, <1>5, <1>6, <1>7, <1>8
  DEF ProcessStep, RouteStep, RecordStep, Quiet

LEMMA FedStays ==
  ASSUME NEW p, Fed(p), casc'[p].src = casc[p].src, casc'[p].dst = casc[p].dst,
         Untouched(casc[p].src), Untouched(casc[p].dst)
  PROVE  Fed(p)'
BY DEF Fed, Untouched

\* The configuration is what it was.
LEMMA UncutStays ==
  ASSUME cfg' = cfg
  PROVE  Uncut' <=> Uncut
BY DEF Uncut, Op, Process

LEMMA ProcessKeepsFed ==
  ASSUME CatalogueInv, GroundInv, TaskInv, FedInv, NEW p \in Process, ProcessStep(p)
  PROVE  FedInv'
<1>0. ProcInv /\ cfg' = cfg /\ Process' = Process
  BY StepsStaySound DEF CatalogueInv, Process
<1>. SUFFICES ASSUME Uncut, cfg.mode = "push", NEW q \in Process,
                     casc'[q].at \in {"check", "close", "cut"} \/ casc'[q].cut # {}
              PROVE  Fed(q)'
  BY <1>0, UncutStays DEF FedInv
<1>1. ASSUME ~UNCHANGED casc[q] PROVE FALSE
  <2>1. CascadeNewNode(p)
    BY <1>1, CascadesStay
  <2>2. \E dst : casc' = [casc EXCEPT ![p] = [@ EXCEPT !.at = "call", !.dst = dst,
                                                     !.src = Head(proc[p].servers).alias]]
    BY <1>1, <2>1 DEF CascadeNewNode
  <2>3. proc[p].at = "cascade"
    BY <2>1 DEF CascadeNewNode, Is
  <2>4. DOMAIN casc = Process /\ DOMAIN casc[p] = DOMAIN NoCascade /\ casc[p].cut = {}
    BY <2>3 DEF TaskInv, Tasked
  <2>5. q = p /\ casc'[p].at = "call" /\ casc'[p].cut = {}
    BY <1>1, <2>2, <2>4 DEF NoCascade
  <2>. QED BY <2>5
<1>2. Fed(q)
  BY <1>1 DEF FedInv
<1>3. casc[q].src \in Node /\ casc[q].dst \in Node
  BY <1>1 DEF TaskInv, Tasked
<1>. QED BY <1>1, <1>2, <1>3, FedStays, ProcessTouchesNone

\* The task of a cascade: it feeds a node that has no publisher, and what it closes
\* is no cascade.
LEMMA CascadesKeepFed ==
  ASSUME CatalogueInv, TaskInv, FedInv, NEW p \in Process, CascadeStep(p)
  PROVE  FedInv' /\ TaskInv'
<1>0. /\ WorldTypes /\ DOMAIN NoStream = {"up", "pub", "sub", "idle"} /\ ProcInv
      /\ DOMAIN casc = Process /\ DOMAIN casc[p] = {"at", "src", "dst", "attempts", "cut", "left"}
  BY DEF CatalogueInv, NoStream, TaskInv, Tasked, NoCascade
<1>1. UNCHANGED <<cfg, proc, told>> /\ Process' = Process
  <2>. USE DEF shared, Process
  <2>1. CASE CascadeCall(p) BY <2>1 DEF CascadeCall
  <2>2. CASE CascadeCheck(p) BY <2>2 DEF CascadeCheck
  <2>3. CASE CascadeClose(p) BY <2>3 DEF CascadeClose
  <2>4. CASE CascadeCut(p) BY <2>4 DEF CascadeCut
  <2>. QED BY <2>1, <2>2, <2>3, <2>4 DEF CascadeStep
<1>2. /\ casc[p].at \in {"call", "check", "close", "cut"} /\ (casc[p].at # "cut" => casc[p].cut = {})
      /\ \A s \in casc[p].left : s[2] # "push"
      /\ casc[p].src \in Node /\ casc[p].dst \in Node /\ Op(p) = "whep"
      /\ proc[p].at \in {"proxy", "record", "done"}
  BY DEF CascadeStep, CascadeCall, CascadeCheck, CascadeClose, CascadeCut, TaskInv, Tasked
<1>3. PICK at, cut, left :
        /\ DOMAIN casc' = Process /\ \A q \in Process \ {p} : casc'[q] = casc[q]
        /\ DOMAIN casc'[p] = DOMAIN casc[p]
        /\ casc'[p].at = at /\ casc'[p].cut = cut /\ casc'[p].left = left
        /\ at \in {"check", "close", "cut", "done"} /\ (cut # {} => at \in {"cut", "done"})
        /\ \A s \in left : s[2] # "push"
        /\ casc'[p].src = casc[p].src /\ casc'[p].dst = casc[p].dst
  <2>1. CASE CascadeCall(p)
    <3>1. casc[p].at = "call" /\ \E at \in {"check", "done"} : casc' = [casc EXCEPT ![p].at = at]
      BY <2>1 DEF CascadeCall, CascadeTo
    <3>. QED BY <1>0, <1>2, <3>1
  <2>2. CASE CascadeCheck(p)
    <3>1. /\ casc[p].at = "check"
          /\ \/ \E at \in {"check", "close", "done"} : casc' = [casc EXCEPT ![p].at = at]
             \/ casc' = [casc EXCEPT ![p].attempts = @ + 1]
      BY <2>2 DEF CascadeCheck, CascadeTo
    <3>. QED BY <1>0, <1>2, <3>1
  <2>3. CASE CascadeClose(p)
    <3>1. PICK cut : /\ casc[p].at = "close" /\ (cut = {} \/ \E info : cut = Others(info))
                     /\ \/ casc' = [casc EXCEPT ![p].at = "done"]
                        \/ casc' = [casc EXCEPT ![p].at = "cut", ![p].cut = cut, ![p].left = cut]
      BY <2>3 DEF CascadeClose, CascadeTo
    <3>2. \A s \in cut : s[2] # "push"
      BY <3>1 DEF Others
    <3>. QED BY <1>0, <1>2, <3>1, <3>2
  <2>4. CASE CascadeCut(p)
    <3>1. /\ casc[p].at = "cut"
          /\ \/ casc' = [casc EXCEPT ![p].at = "done"]
             \/ \E s : casc' = [casc EXCEPT ![p].left = @ \ {s}]
      BY <2>4 DEF CascadeCut, CascadeTo
    <3>. QED BY <1>0, <1>2, <3>1
  <2>. QED BY <2>1, <2>2, <2>3, <2>4 DEF CascadeStep
<1>4. ASSUME NEW q \in Process PROVE Tasked(q)'
  <2>1. CASE q = p
    BY <1>1, <1>2, <1>3, <2>1, <1>0 DEF Tasked, NoCascade, Op
  <2>2. CASE q # p
    BY <1>1, <1>3, <2>2 DEF TaskInv, Tasked, Op
  <2>. QED BY <2>1, <2>2
<1>5. \/ UNCHANGED world
      \/ /\ CascadeCall(p) /\ world[casc[p].dst].pub = {}
         /\ cfg.mode = "push" => Feeds(p, casc[p].src, casc[p].dst, <<p, "push", Manager>>)
         /\ \E s : Feeds(p, casc[p].src, casc[p].dst, s)
      \/ CascadeCut(p) /\ \E s \in casc[p].left : SessionDelete(casc[p].src, s)
  <2>1. CASE CascadeCall(p)
    BY <2>1, LivemanAssumption DEF CascadeCall
  <2>2. CASE CascadeCheck(p)
    BY <2>2 DEF CascadeCheck, clusterVars
  <2>3. CASE CascadeClose(p)
    BY <2>3 DEF CascadeClose, clusterVars
  <2>4. CASE CascadeCut(p)
    BY <2>4 DEF CascadeCut
  <2>. QED BY <2>1, <2>2, <2>3, <2>4 DEF CascadeStep
<1>6. ASSUME NEW n \in Node, NEW q \in Process, Direct(q) \in world'[n].pub
      PROVE  Direct(q) \in world[n].pub
  <2>1. ASSUME NEW s, Feeds(p, casc[p].src, casc[p].dst, s) PROVE Direct(q) \in world[n].pub
    <3>1. world'[n].pub \in {world[n].pub, {<<p, "fed", casc[p].src>>}}
      BY <1>0, <2>1 DEF Feeds, WorldTypes
    <3>. QED BY <1>6, <3>1 DEF Direct
  <2>2. ASSUME NEW s, SessionDelete(casc[p].src, s) PROVE Direct(q) \in world[n].pub
    BY <1>0, <1>6, <2>2, DeleteTypes
  <2>. QED BY <1>5, <1>6, <2>1, <2>2
<1>7. TaskInv'
  <2>1. \A q \in Process : Served(proc[q])' /\ Deletes(q)'
    BY <1>1 DEF TaskInv, Served, Doing, Aliases, IsSequence, Deletes, Is, Op, Direct
  <2>2. (\A t \in told : \E q \in Process : t[1] = Direct(q))'
    BY <1>1 DEF TaskInv, Direct
  <2>3. (\A n \in Node : \A q \in Process : Direct(q) \in world[n].pub => Op(q) = "whip")'
    BY <1>1, <1>6 DEF TaskInv, Direct, Op
  <2>. QED BY <1>1, <1>3, <1>4, <2>1, <2>2, <2>3 DEF TaskInv
<1>8. ASSUME Uncut, cfg.mode = "push", NEW q \in Process,
             casc'[q].at \in {"check", "close", "cut"} \/ casc'[q].cut # {}
      PROVE  Fed(q)'
  <2>1. casc'[q].src = casc[q].src /\ casc'[q].dst = casc[q].dst
        /\ casc[q].src \in Node /\ casc[q].dst \in Node
    <3>1. casc'[q].src = casc[q].src /\ casc'[q].dst = casc[q].dst
      BY <1>3
    <3>2. Tasked(q)'
      BY <1>4
    <3>3. casc'[q].src \in Node /\ casc'[q].dst \in Node
      BY <1>8, <3>2 DEF Tasked
    <3>. QED BY <3>1, <3>3
  <2>2. CASE UNCHANGED world
    <3>1. Fed(q)
      <4>1. CASE q = p /\ CascadeCall(p)
        <5>1. \/ CascadeTo(p, "done")
              \/ Feeds(p, casc[p].src, casc[p].dst, <<p, "push", Manager>>)
          BY <1>8, <4>1 DEF CascadeCall
        <5>2. CASE CascadeTo(p, "done")
          <6>1. casc'[p].at = "done" /\ casc'[p].cut = {}
            BY <1>0, <1>2, <4>1, <5>2 DEF CascadeTo, CascadeCall
          <6>. QED BY <1>8, <4>1, <6>1
        <5>3. CASE Feeds(p, casc[p].src, casc[p].dst, <<p, "push", Manager>>)
          <6>1. /\ <<p, "push", Manager>> \in world'[casc[p].src].sub
                /\ world'[casc[p].dst].pub = {<<p, "fed", casc[p].src>>}
            BY <1>0, <1>2, <5>3 DEF Feeds, WorldTypes
          <6>. QED BY <2>2, <4>1, <6>1 DEF Fed
        <5>. QED BY <2>2, <5>1, <5>2, <5>3
      <4>2. CASE q = p /\ (CascadeCheck(p) \/ CascadeClose(p) \/ CascadeCut(p))
        <5>1. casc[p].at \in {"check", "close", "cut"}
          BY <4>2 DEF CascadeCheck, CascadeClose, CascadeCut
        <5>. QED BY <1>8, <4>2, <5>1 DEF FedInv
      <4>3. CASE q # p
        BY <1>3, <1>8, <4>3 DEF FedInv
      <4>. QED BY <4>1, <4>2, <4>3 DEF CascadeStep
    <3>. QED BY <2>1, <2>2, <3>1 DEF Fed
  <2>3. CASE CascadeCall(p) /\ world[casc[p].dst].pub = {}
             /\ Feeds(p, casc[p].src, casc[p].dst, <<p, "push", Manager>>)
    <3>1. CASE q = p
      <4>1. /\ <<p, "push", Manager>> \in world'[casc[p].src].sub
            /\ world'[casc[p].dst].pub = {<<p, "fed", casc[p].src>>}
        BY <1>0, <1>2, <2>3 DEF Feeds, WorldTypes
      <4>. QED BY <2>1, <3>1, <4>1 DEF Fed
    <3>2. CASE q # p
      <4>1. Fed(q)
        BY <1>3, <1>8, <3>2 DEF FedInv
      <4>2. casc[q].dst # casc[p].dst
        BY <2>3, <4>1 DEF Fed
      <4>3. ASSUME NEW n \in Node, world[n].pub # {} PROVE Untouched(n)
        <5>1. world'[n].pub = world[n].pub /\ world[n].sub \subseteq world'[n].sub
          BY <1>0, <2>3, <4>3 DEF Feeds, WorldTypes
        <5>. QED BY <5>1 DEF Untouched
      <4>4. world[casc[q].src].sub \subseteq world'[casc[q].src].sub
        BY <1>0, <2>1, <2>3 DEF Feeds, WorldTypes
      <4>. QED BY <2>1, <4>1, <4>3, <4>4 DEF Fed, Untouched
    <3>. QED BY <3>1, <3>2
  <2>4. ASSUME CascadeCut(p), NEW s \in casc[p].left, SessionDelete(casc[p].src, s)
        PROVE  Fed(q)'
    <3>1. Fed(q)
      <4>1. CASE q = p
        BY <1>8, <2>4, <4>1 DEF FedInv, CascadeCut
      <4>2. CASE q # p
        BY <1>3, <1>8, <4>2 DEF FedInv
      <4>. QED BY <4>1, <4>2
    <3>2. ASSUME NEW n \in Node PROVE Untouched(n)
      <4>1. world'[n].pub = world[n].pub /\ world[n].sub \ {s} \subseteq world'[n].sub
        BY <1>0, <2>4, DeleteTypes
      <4>2. \A x : <<x, "push", Manager>> # s
        BY <1>2
      <4>. QED BY <4>1, <4>2 DEF Untouched
    <3>. QED BY <2>1, <3>1, <3>2, FedStays
  <2>. QED BY <1>5, <1>8, <2>2, <2>3, <2>4
<1>. QED BY <1>1, <1>7, <1>8, UncutStays DEF FedInv

LEMMA NodesKeepFed ==
  ASSUME CatalogueInv, TaskInv, FedInv, NEW n \in Node,
         FeedLost(n) \/ Idles(n) \/ Announce(n) \/ StreamEnds(n)
  PROVE  FedInv' /\ TaskInv'
<1>0. /\ WorldTypes /\ ProcInv /\ DOMAIN NoStream = {"up", "pub", "sub", "idle"} /\ NoStream.pub = {}
  BY DEF CatalogueInv, NoStream
<1>1. UNCHANGED <<cfg, casc, told>> /\ Process' = Process
  BY DEF FeedLost, Idles, Announce, StreamEnds, shared, Process
<1>2. ASSUME NEW q \in Process
      PROVE  /\ proc'[q].at = proc[q].at /\ proc'[q].back = proc[q].back
             /\ proc'[q].servers = proc[q].servers
  <2>1. CASE UNCHANGED proc
    BY <2>1
  <2>2. CASE Announce(n) /\ ~UNCHANGED proc
    <3>1. PICK P : Shake(P)
      BY <2>2 DEF Announce
    <3>. QED BY <1>0, <3>1, ShakeShape, FieldNames
  <2>. QED BY <2>1, <2>2 DEF FeedLost, Idles, StreamEnds
<1>3. ASSUME NEW m \in Node PROVE world'[m].pub \subseteq world[m].pub
  <2>1. CASE FeedLost(n) BY <1>0, <2>1 DEF FeedLost, WorldTypes
  <2>2. CASE Idles(n) BY <1>0, <2>2 DEF Idles, WorldTypes
  <2>3. CASE Announce(n) BY <2>3 DEF Announce, clusterVars
  <2>4. CASE StreamEnds(n) BY <1>0, <2>4 DEF StreamEnds, WorldTypes
  <2>. QED BY <2>1, <2>2, <2>3, <2>4
<1>4. TaskInv'
  <2>1. ASSUME NEW q \in Process PROVE Served(proc[q])' /\ Deletes(q)'
    BY <1>1, <1>2 DEF TaskInv, Served, Doing, Aliases, IsSequence, Deletes, Is, Op, Direct
  <2>2. ASSUME NEW q \in Process PROVE Tasked(q)'
    BY <1>1, <1>2 DEF TaskInv, Tasked, Op
  <2>3. (\A t \in told : \E q \in Process : t[1] = Direct(q))'
    BY <1>1 DEF TaskInv, Direct
  <2>4. (\A m \in Node : \A q \in Process : Direct(q) \in world[m].pub => Op(q) = "whip")'
    BY <1>1, <1>3 DEF TaskInv, Direct, Op
  <2>. QED BY <1>1, <2>1, <2>2, <2>3, <2>4 DEF TaskInv
<1>5. ASSUME Uncut, cfg.mode = "push", NEW q \in Process,
             casc[q].at \in {"check", "close", "cut"} \/ casc[q].cut # {}
      PROVE  Fed(q)'
  <2>1. Fed(q) /\ casc[q].src \in Node /\ casc[q].dst \in Node
    BY <1>5 DEF FedInv, TaskInv, Tasked
  <2>2. CASE FeedLost(n)
    <3>1. n # casc[q].dst
      <4>. SUFFICES ASSUME n = casc[q].dst PROVE FALSE
        OBVIOUS
      <4>1. PICK s \in {<<q, "fed", casc[q].src>>} :
              ~\E t \in world[s[3]].sub : t[1] = s[1] /\ t[2] \in {"push", "pull"}
        BY <2>1, <2>2 DEF FeedLost, Fed
      <4>2. s[1] = q /\ s[3] = casc[q].src
        BY <4>1
      <4>. PICK t : t = <<q, "push", Manager>>
        OBVIOUS
      <4>3. t[1] = q /\ t[2] = "push" /\ t \in world[casc[q].src].sub
        BY <2>1 DEF Fed
      <4>. QED BY <4>1, <4>2, <4>3
    <3>2. /\ world'[casc[q].src].sub = world[casc[q].src].sub
          /\ world'[casc[q].dst].pub = world[casc[q].dst].pub
      BY <1>0, <2>1, <2>2, <3>1 DEF FeedLost, WorldTypes
    <3>. QED BY <1>1, <2>1, <3>2 DEF Fed
  <2>3. CASE Idles(n)
    <3>1. /\ world'[casc[q].src].sub = world[casc[q].src].sub
          /\ world'[casc[q].dst].pub = world[casc[q].dst].pub
      BY <1>0, <2>1, <2>3 DEF Idles, WorldTypes
    <3>. QED BY <1>1, <2>1, <3>1 DEF Fed
  <2>4. CASE Announce(n)
    BY <1>1, <2>1, <2>4 DEF Announce, clusterVars, Fed
  <2>5. ~StreamEnds(n)
    BY <1>5 DEF StreamEnds, Uncut
  <2>. QED BY <2>2, <2>3, <2>4, <2>5
<1>. QED BY <1>1, <1>4, <1>5, UncutStays DEF FedInv

LEMMA FedInit == Init => TaskInv /\ FedInv
<1> SUFFICES ASSUME Init PROVE TaskInv /\ FedInv
  OBVIOUS
<1>1. /\ cfg \in Configs /\ world = cfg.world
      /\ \A n \in Node : \A s \in world[n].pub : s[1] \notin Process
  BY LivemanAssumption DEF Init, Process
<1>2. ASSUME NEW p \in Process
      PROVE  /\ Served(proc[p]) /\ Deletes(p) /\ Tasked(p)
             /\ casc[p].at = "none" /\ casc[p].cut = {}
             /\ \A n \in Node : Direct(p) \notin world[n].pub
  <2>1. proc[p].at = "new" /\ casc[p] = NoCascade
    BY NewFields DEF Init
  <2>2. Direct(p)[1] = p
    BY DEF Direct
  <2>. QED BY <1>1, <2>1, <2>2 DEF Served, Doing, Deletes, Is, Tasked, NoCascade
<1>. QED BY <1>2 DEF Init, TaskInv, FedInv

LEMMA RestartKeepsFed ==
  ASSUME CatalogueInv, TaskInv, Restart
  PROVE  TaskInv' /\ FedInv'
<1>1. UNCHANGED <<cfg, told, world>> /\ Process' = Process
  BY DEF Restart, clusterVars, Process
<1>2. ASSUME NEW p \in Process
      PROVE  proc'[p].at \in {"new", "done"} /\ casc'[p] = NoCascade
  <2>1. proc'[p] = NewProcess \/ proc'[p] = [NewProcess EXCEPT !.at = "done", !.out = "lost"]
    BY DEF Restart
  <2>2. proc'[p].at \in {"new", "done"}
    BY <2>1, NewFields, FieldNames
  <2>. QED BY <2>2 DEF Restart
<1>3. ASSUME NEW p \in Process PROVE Served(proc[p])' /\ Deletes(p)' /\ Tasked(p)'
  BY <1>2 DEF Served, Doing, Deletes, Is, Tasked, NoCascade
<1>4. (\A t \in told : \E q \in Process : t[1] = Direct(q))'
  BY <1>1 DEF TaskInv, Direct
<1>5. (\A n \in Node : \A q \in Process : Direct(q) \in world[n].pub => Op(q) = "whip")'
  BY <1>1 DEF TaskInv, Direct, Op
<1>6. TaskInv'
  BY <1>1, <1>3, <1>4, <1>5 DEF TaskInv, Restart
<1>7. FedInv'
  BY <1>1, <1>2 DEF FedInv, NoCascade
<1>. QED BY <1>6, <1>7

LEMMA FedStep ==
  CatalogueInv /\ GroundInv /\ TaskInv /\ FedInv /\ [Next]_vars => TaskInv' /\ FedInv'
<1> SUFFICES ASSUME CatalogueInv, GroundInv, TaskInv, FedInv, [Next]_vars PROVE TaskInv' /\ FedInv'
  OBVIOUS
<1>1. ASSUME UNCHANGED <<cfg, proc, casc, world, told>> PROVE TaskInv' /\ FedInv'
  <2>1. Process' = Process /\ \A p \in Process :
          Served(proc[p])' /\ Deletes(p)' /\ Tasked(p)' /\ (Fed(p) => Fed(p)')
    BY <1>1 DEF TaskInv, Served, Doing, Aliases, IsSequence, Deletes, Is, Op, Direct, Tasked, Fed,
                Process
  <2>2. (\A t \in told : \E q \in Process : t[1] = Direct(q))'
    BY <1>1, <2>1 DEF TaskInv, Direct
  <2>3. (\A m \in Node : \A q \in Process : Direct(q) \in world[m].pub => Op(q) = "whip")'
    BY <1>1, <2>1 DEF TaskInv, Direct, Op
  <2>4. TaskInv'
    BY <1>1, <2>1, <2>2, <2>3 DEF TaskInv
  <2>. QED BY <1>1, <2>1, <2>4, UncutStays DEF FedInv
<1>2. CASE ThreeSeconds
  BY <1>1, <1>2 DEF ThreeSeconds, clusterVars
<1>3. CASE UNCHANGED vars
  BY <1>1, <1>3 DEF vars, clusterVars
<1>. QED
  BY <1>2, <1>3, RestartKeepsFed, ProcessKeepsTasks, ProcessKeepsFed, CascadesKeepFed, NodesKeepFed
  DEF Next

\* For any nodes, requests and interleaving: when cascade_close_other_sub
\* (route/cascade.rs) has begun to send the clients of the source away, the node
\* that the source pushes to is still fed, as long as nothing else ends the stream.
\* Nothing is said of cascades that pull.
THEOREM CascadesFed == Spec => [](Uncut => PushCascadeFed)
<1>1. TaskInv /\ FedInv => (Uncut => PushCascadeFed)
  BY DEF TaskInv, FedInv, PushCascadeFed, Fed
<1>. QED
  BY <1>1, CatalogueInit, CatalogueStep, GroundInit, GroundStep, FedInit, FedStep, PTL DEF Spec

--------------------------------------------------------------------------------
(* One process after the other.                                            *)

NodeShape == \A n \in DOMAIN st.list : DOMAIN st.list[n] = DOMAIN NewNode

\* As long as it is calm, the nodes are the configured ones, one process at a time
\* is at work, and one that begins has not updated yet.
CalmInv ==
  calm =>
    /\ ~early /\ get_cluster(st) = cfg.nodes
    /\ \A p, q \in Process : Busy(p) /\ Busy(q) => p = q
    /\ \A p \in Process : proc[p].at = "new" /\ ~proc[p].ready => proc[p].rounds = 0

LEMMA AtMostOneElement ==
  ASSUME NEW S, IsFiniteSet(S), Cardinality(S) <= 1, NEW a \in S, NEW b \in S
  PROVE  a = b
<1>. SUFFICES ASSUME a # b PROVE FALSE
  OBVIOUS
<1>. PICK A : A = {a}
  OBVIOUS
<1>1. IsFiniteSet(A) /\ Cardinality(A) = 1 /\ b \notin A
  BY FS_Singleton
<1>2. Cardinality(A \cup {b}) = 2
  BY <1>1, FS_AddElement
<1>3. A \cup {b} \in SUBSET S
  OBVIOUS
<1>4. Cardinality(A \cup {b}) <= Cardinality(S)
  BY <1>3, FS_Subset
<1>5. Cardinality(S) \in Nat
  BY FS_CardinalityType
<1>. QED BY <1>2, <1>4, <1>5

LEMMA CalmFacts ==
  ASSUME cfg \in Configs, Calm, calm', cfg' = cfg
  PROVE  /\ calm /\ faults' = faults /\ events' = events /\ ~early'
         /\ \A p, q \in Process : Busy(p)' /\ Busy(q)' => p = q
<1>1. /\ calm /\ faults' = faults /\ events' = events /\ ~early'
      /\ Cardinality({p \in Process : Busy(p)'}) <= 1
  BY DEF Calm
<1>. PICK S : S = {p \in Process : Busy(p)'}
  OBVIOUS
<1>2. IsFiniteSet(Process)
  BY LivemanAssumption DEF Process
<1>3. IsFiniteSet(S)
  BY <1>2, FS_Subset
<1>4. ASSUME NEW p \in Process, NEW q \in Process, Busy(p)', Busy(q)' PROVE p = q
  <2>1. p \in S /\ q \in S
    BY <1>4
  <2>. QED BY <1>1, <1>3, <2>1, AtMostOneElement
<1>. QED BY <1>1, <1>4

\* A process that is not at work can only begin with an update.
LEMMA BeginsWithUpdate ==
  ASSUME CatalogueInv, CalmInv, calm, NEW p \in Process, ProcessStep(p), ~Busy(p)
  PROVE  Update(p)
<1>1. ~proc[p].ready /\ proc[p].at \in {"new", "done", "panic"} /\ ~early
  BY DEF Busy, CalmInv
<1>2. ~Current(p) \/ proc[p].at # "new"
  BY <1>1 DEF CalmInv, Current
<1>3. ~RouteStep(p)
  BY <1>1, <1>2 DEF RouteStep, Whip, WhipNodes, Whep, IdleNode, CascadeNewNode, ProxySession,
     KeepSession, Session, ProxyDelete, StreamIndex, StreamCreate, ProxyCreate, StreamDestroy,
     ProxyDestroy, Is
<1>4. ~RecordStep(p) /\ ~DoCascadeCheck(p)
  BY <1>1, <1>2 DEF RecordStep, StartRecord, RecordNodes, Status, Halt, Post, Find, Write, Upserted,
     RecordSync, Pull, Ack, DoCascadeCheck, CheckNodes, CheckServers, CheckInfos, CheckDelete, Is
<1>. QED BY <1>1, <1>3, <1>4 DEF ProcessStep, UpdateStep, Strategy, Fetch, Put

\* The others do not work while a process does.
LEMMA OthersRest ==
  ASSUME CatalogueInv, TaskInv, CalmInv, NEW p \in Process, ProcessStep(p), Calm, calm',
         NEW q \in Process, q # p
  PROVE  ~Busy(q) /\ ~Busy(q)' /\ proc'[q] = proc[q] /\ casc'[q] = casc[q]
<1>0. ProcInv /\ cfg' = cfg /\ cfg \in Configs
  BY StepsStaySound DEF CatalogueInv
<1>1. calm
  BY <1>0, CalmFacts
<1>2. proc'[q] = proc[q]
  <2>1. PICK r : Set(p, r)
    BY StepsSet
  <2>. QED BY <1>0, <2>1, SetFacts
<1>3. casc'[q] = casc[q]
  <2>1. CASE CascadeNewNode(p)
    <3>1. \/ UNCHANGED casc
          \/ \E dst : casc' = [casc EXCEPT ![p] = [@ EXCEPT !.at = "call", !.dst = dst,
                                                     !.src = Head(proc[p].servers).alias]]
      BY <2>1 DEF CascadeNewNode
    <3>. QED BY <3>1 DEF TaskInv
  <2>. QED BY <2>1, CascadesStay
<1>4. Busy(q)' = Busy(q)
  <2>1. ASSUME Busy(q)' PROVE Busy(q)
    BY <1>2, <1>3, <2>1 DEF Busy
  <2>2. ASSUME Busy(q) PROVE Busy(q)'
    BY <1>2, <1>3, <2>2 DEF Busy
  <2>. QED BY <2>1, <2>2 DEF Busy
<1>5. ASSUME Busy(p) PROVE ~Busy(q)
  BY <1>1, <1>5 DEF CalmInv
<1>6. ASSUME ~Busy(p) PROVE ~Busy(q)
  <2>1. Update(p)
    BY <1>1, <1>6, BeginsWithUpdate
  <2>2. PICK r : Set(p, r) /\ r.at = "strategy"
    BY <1>0, <2>1, UpdateShape
  <2>3. Busy(p)'
    BY <1>0, <2>2, SetFacts DEF Busy
  <2>4. Busy(q)' => q = p
    BY <1>0, <2>3, CalmFacts
  <2>. QED BY <1>4, <2>4
<1>7. ~Busy(q)
  BY <1>5, <1>6
<1>. QED BY <1>2, <1>3, <1>4, <1>7

\* Where a step can lead to, as far as the above is concerned.
LEMMA StepBegins ==
  ASSUME CatalogueInv, NEW p \in Process, ProcessStep(p)
  PROVE  \E r : Set(p, r) /\ (r.at = "new" /\ ~r.ready => r.rounds = 0)
<1>. DEFINE Goal == \E r : Set(p, r) /\ (r.at = "new" /\ ~r.ready => r.rounds = 0)
<1>0. ProcInv /\ proc[p].back \in Updates
  BY DEF CatalogueInv, ProcInv, Sound
<1>1. ASSUME NEW r, Set(p, r), r.at # "new" PROVE Goal
  BY <1>1
<1>2. ASSUME NEW r, Set(p, r), Settled(r) PROVE Goal
  BY <1>2 DEF Settled, Places
<1>3. ASSUME NEW out, Finish(p, out) \/ Panic(p, out) PROVE Goal
  BY <1>2, <1>3, FinishSettles, PanicSettles
<1>4. ASSUME NEW wait, NEW got, Polls(p, wait, got) PROVE Goal
  <2>1. PICK r : Set(p, r) /\ Polled(p, wait, got, r)
    BY <1>0, <1>4, PollsShape
  <2>. QED BY <2>1 DEF Polled
<1>5. ASSUME Update(p) PROVE Goal
  <2>1. PICK r : Set(p, r) /\ r.at = "strategy"
    BY <1>0, <1>5, UpdateShape
  <2>. QED BY <2>1
<1>6. ASSUME NEW n, Set(p, [Stale(p) EXCEPT !.at = "proxy", !.node = n]) PROVE Goal
  <2>1. PICK r : Set(p, r) /\ r.at = "proxy"
    BY <1>0, <1>6, ProxyShape
  <2>. QED BY <1>1, <2>1
<1>7. ASSUME NEW label, Goto(p, label), label \in {"nodes", "cascade"} PROVE Goal
  <2>1. PICK r : Set(p, r) /\ r.at = label
    BY <1>0, <1>7, GotoShape
  <2>. QED BY <1>1, <1>7, <2>1
<1>8. ASSUME NEW servers, Set(p, [Stale(p) EXCEPT !.at = "idle", !.servers = servers]) PROVE Goal
  <2>1. PICK r : Set(p, r) /\ r.at = "idle"
    BY <1>0, <1>8, IdleShape
  <2>. QED BY <1>1, <2>1
<1>9. ASSUME NEW t, NEW n, Set(p, [Stale(p) EXCEPT !.at = "proxy", !.node = n, !.servers = <<t>>])
      PROVE  Goal
  <2>1. PICK r : Set(p, r) /\ r.at = "proxy"
    BY <1>0, <1>9, SessionShape
  <2>. QED BY <1>1, <2>1
<1>10. ASSUME StreamDestroy(p) \/ ProxyDestroy(p) PROVE Goal
  <2>1. PICK r : Set(p, r) /\ (Settled(r) \/ r.at = "proxy")
    BY <1>0, <1>10, DestroyShape
  <2>. QED BY <1>1, <1>2, <2>1
<1>. HIDE DEF Goal
<1>11. ASSUME Hears(p) PROVE Goal
  BY <1>3, <1>4, <1>11, HearsShape
<1>12. ASSUME WhipNodes(p) PROVE Goal
  BY <1>3, <1>8, <1>12 DEF WhipNodes
<1>13. ASSUME Whep(p) PROVE Goal
  BY <1>3, <1>8, <1>13 DEF Whep
<1>14. ASSUME IdleNode(p) PROVE Goal
  BY <1>3, <1>6, <1>7, <1>14 DEF IdleNode
<1>15. ASSUME CascadeNewNode(p) PROVE Goal
  BY <1>3, <1>6, <1>15 DEF CascadeNewNode
<1>16. ASSUME Whip(p) PROVE Goal
  BY <1>3, <1>6, <1>7, <1>16 DEF Whip
<1>17. ASSUME Session(p) PROVE Goal
  BY <1>3, <1>9, <1>17 DEF Session
<1>18. ASSUME StreamCreate(p) PROVE Goal
  BY <1>3, <1>6, <1>18 DEF StreamCreate
<1>20. ASSUME DoCascadeCheck(p) PROVE Goal
  BY <1>2, <1>20, RouteSettles
<1>19. Goal
  BY <1>2, <1>5, <1>10, <1>11, <1>12, <1>13, <1>14, <1>15, <1>16, <1>17, <1>18, <1>20,
     StepSettles
  DEF Looks, Picks, Hears
<1>. QED BY <1>19 DEF Goal

LEMMA ProcessKeepsCalm ==
  ASSUME CatalogueInv, GroundInv, TaskInv, CalmInv, NEW p \in Process, ProcessStep(p), Calm
  PROVE  CalmInv'
<1>. SUFFICES ASSUME calm' PROVE CalmInv'
  BY DEF CalmInv
<1>0. ProcInv /\ cfg' = cfg /\ Process' = Process /\ cfg \in Configs
  BY StepsStaySound DEF CatalogueInv, Process
<1>1. calm /\ ~early' /\ \A q, x \in Process : Busy(q)' /\ Busy(x)' => q = x
  BY <1>0, CalmFacts
<1>2. get_cluster(st)' = get_cluster(st)
  BY StepsKeepNodes DEF GroundInv
<1>3. PICK r : Set(p, r) /\ (r.at = "new" /\ ~r.ready => r.rounds = 0)
  BY StepBegins
<1>4. proc'[p] = r /\ \A q \in Process \ {p} : proc'[q] = proc[q]
  BY <1>0, <1>3, SetFacts
<1>5. ASSUME NEW q \in Process
      PROVE  proc'[q].at = "new" /\ ~proc'[q].ready => proc'[q].rounds = 0
  BY <1>1, <1>2, <1>3, <1>4 DEF CalmInv
<1>6. get_cluster(st)' = cfg'.nodes
  BY <1>0, <1>1, <1>2 DEF CalmInv
<1>. QED BY <1>0, <1>1, <1>5, <1>6 DEF CalmInv

CountInv == faults \in Nat /\ events \in Nat

LEMMA DeleteCounts ==
  ASSUME CountInv, NEW n, NEW s, SessionDelete(n, s)
  PROVE  faults' \in Nat
<1>1. faults' = faults \/ faults' = faults + 1
  BY DEF SessionDelete, Fault, NoFault
<1>. QED BY <1>1 DEF CountInv

LEMMA SilentCount ==
  ASSUME NEW silent, silent \subseteq Node
  PROVE  IsFiniteSet(silent) /\ Cardinality(silent) \in Nat
<1>1. IsFiniteSet(silent)
  BY LivemanAssumption, FS_Subset
<1>. QED BY <1>1, FS_CardinalityType

LEMMA ProcessCounts ==
  ASSUME CatalogueInv, CountInv, NEW p \in Process, ProcessStep(p)
  PROVE  CountInv'
<1>. USE DEF Fault, NoFault, CountInv
<1>1. ASSUME Strategy(p) PROVE CountInv'
  <2>1. proc[p].wait \subseteq Node
    BY DEF CatalogueInv, ProcInv, Sound
  <2>2. \/ faults' = faults + 1
        \/ \E silent \in SUBSET proc[p].wait : faults' = faults + Cardinality(silent)
    BY <1>1 DEF Strategy
  <2>3. events' = events
    BY <1>1 DEF Strategy
  <2>. QED BY <2>1, <2>2, <2>3, SilentCount
<1>2. CASE RouteStep(p)
  <2>1. CASE Whip(p) \/ WhipNodes(p) \/ Whep(p) \/ IdleNode(p) \/ CascadeNewNode(p) \/ Session(p)
    BY <2>1 DEF Whip, WhipNodes, Whep, IdleNode, CascadeNewNode, Session
  <2>2. CASE StreamIndex(p) \/ StreamCreate(p) \/ StreamDestroy(p)
    BY <2>2 DEF StreamIndex, StreamCreate, StreamDestroy
  <2>3. CASE ProxySession(p) BY <2>3 DEF ProxySession
  <2>4. CASE KeepSession(p) BY <2>4 DEF KeepSession
  <2>5. CASE ProxyDelete(p) BY <2>5 DEF ProxyDelete
  <2>6. CASE ProxyCreate(p) BY <2>6 DEF ProxyCreate
  <2>7. CASE ProxyDestroy(p) BY <2>7 DEF ProxyDestroy
  <2>. QED BY <1>2, <2>1, <2>2, <2>3, <2>4, <2>5, <2>6, <2>7 DEF RouteStep
<1>3. CASE RecordStep(p)
  <2>1. CASE StartRecord(p) \/ RecordNodes(p) \/ Upserted(p) \/ RecordSync(p)
    BY <2>1 DEF StartRecord, RecordNodes, Upserted, RecordSync
  <2>2. CASE Status(p) BY <2>2 DEF Status
  <2>3. CASE Halt(p) BY <2>3 DEF Halt
  <2>4. CASE Post(p) BY <2>4 DEF Post
  <2>5. CASE Find(p) BY <2>5 DEF Find
  <2>6. CASE Write(p) BY <2>6 DEF Write
  <2>7. CASE Pull(p) BY <2>7 DEF Pull
  <2>8. CASE Ack(p) BY <2>8 DEF Ack
  <2>. QED BY <1>3, <2>1, <2>2, <2>3, <2>4, <2>5, <2>6, <2>7, <2>8 DEF RecordStep
<1>4. CASE Update(p)
  BY <1>4 DEF Update
<1>5. ASSUME NEW n \in Node, Fetch(p, n) PROVE CountInv'
  <2>1. faults' = faults \/ faults' = faults + 1
    BY <1>5 DEF Fetch
  <2>2. events' = events
    BY <1>5 DEF Fetch
  <2>. QED BY <2>1, <2>2
<1>6. ASSUME NEW n \in Node, Put(p, n) PROVE CountInv'
  <2>1. faults' = faults /\ events' = events
    BY <1>6 DEF Put
  <2>. QED BY <2>1
<1>7. CASE CheckNodes(p) \/ CheckServers(p) \/ CheckInfos(p)
  BY <1>7 DEF CheckNodes, CheckServers, CheckInfos
<1>8. CASE CheckDelete(p)
  <2>1. faults' = faults \/ \E n, s : SessionDelete(n, s)
    BY <1>8 DEF CheckDelete
  <2>2. events' = events
    BY <1>8 DEF CheckDelete
  <2>3. faults' \in Nat
    BY <2>1, DeleteCounts
  <2>. QED BY <2>2, <2>3
<1>. QED
  BY <1>1, <1>2, <1>3, <1>4, <1>5, <1>6, <1>7, <1>8 DEF ProcessStep, UpdateStep, DoCascadeCheck

LEMMA OthersCount ==
  ASSUME CountInv,
         \/ \E p \in Process : CascadeStep(p)
         \/ \E n \in Node : FeedLost(n) \/ Idles(n) \/ Announce(n) \/ StreamEnds(n)
         \/ ThreeSeconds \/ Restart \/ UNCHANGED vars
  PROVE  CountInv'
<1>. USE DEF Fault, NoFault, CountInv
<1>1. ASSUME NEW p \in Process, CascadeStep(p) PROVE CountInv'
  <2>1. CASE CascadeCall(p) BY <2>1 DEF CascadeCall
  <2>2. CASE CascadeCheck(p) BY <2>2 DEF CascadeCheck
  <2>3. CASE CascadeClose(p) BY <2>3 DEF CascadeClose
  <2>4. CASE CascadeCut(p)
    <3>1. faults' = faults \/ \E n, s : SessionDelete(n, s)
      BY <2>4 DEF CascadeCut
    <3>2. events' = events
      BY <2>4 DEF CascadeCut
    <3>3. faults' \in Nat
      BY <3>1, DeleteCounts
    <3>. QED BY <3>2, <3>3
  <2>. QED BY <1>1, <2>1, <2>2, <2>3, <2>4 DEF CascadeStep
<1>2. ASSUME NEW n \in Node, FeedLost(n) \/ Idles(n) \/ Announce(n) \/ StreamEnds(n)
      PROVE  CountInv'
  BY <1>2 DEF FeedLost, Idles, Announce, StreamEnds
<1>. QED BY <1>1, <1>2 DEF ThreeSeconds, Restart, vars

LEMMA OthersKeepCalm ==
  ASSUME CatalogueInv, CountInv, CalmInv,
         \/ \E p \in Process : CascadeStep(p) /\ Calm
         \/ \E n \in Node : (FeedLost(n) \/ Idles(n) \/ Announce(n) \/ StreamEnds(n)) /\ Calm
         \/ (ThreeSeconds /\ Calm) \/ (Restart /\ Calm) \/ UNCHANGED vars
  PROVE  CalmInv'
<1>. SUFFICES ASSUME calm' PROVE CalmInv'
  BY DEF CalmInv
<1>0. ProcInv /\ cfg \in Configs
  BY DEF CatalogueInv
<1>1. ASSUME Calm, cfg' = cfg, UNCHANGED proc, get_cluster(st)' = get_cluster(st) PROVE CalmInv'
  <2>1. calm /\ ~early' /\ \A q, x \in Process : Busy(q)' /\ Busy(x)' => q = x
    BY <1>0, <1>1, CalmFacts
  <2>2. Process' = Process
    BY <1>1 DEF Process
  <2>. QED BY <1>1, <2>1, <2>2 DEF CalmInv
<1>2. ASSUME NEW p \in Process, CascadeStep(p), Calm PROVE CalmInv'
  <2>1. UNCHANGED <<cfg, proc>>
    <3>. USE DEF shared
    <3>1. CASE CascadeCall(p) BY <3>1 DEF CascadeCall
    <3>2. CASE CascadeCheck(p) BY <3>2 DEF CascadeCheck
    <3>3. CASE CascadeClose(p) BY <3>3 DEF CascadeClose
    <3>4. CASE CascadeCut(p) BY <3>4 DEF CascadeCut
    <3>. QED BY <1>2, <3>1, <3>2, <3>3, <3>4 DEF CascadeStep
  <2>2. get_cluster(st)' = get_cluster(st)
    <3>1. CASE CascadeCall(p) BY <3>1 DEF CascadeCall, get_cluster
    <3>2. CASE CascadeCheck(p) BY <3>2 DEF CascadeCheck, get_cluster
    <3>3. ASSUME CascadeClose(p), ~UNCHANGED st PROVE get_cluster(st)' = get_cluster(st)
      <4>1. \/ st' = ClearStreams(st) \/ \E order : st' = PutAnswers(st, order, world)
        BY <3>3 DEF CascadeClose
      <4>2. \A order : DOMAIN PutAnswers(st, order, world).list = DOMAIN st.list
        BY DEF CatalogueInv, StoreTypes, PutAnswers
      <4>3. DOMAIN ClearStreams(st).list = DOMAIN st.list
        BY DEF CatalogueInv, StoreTypes, ClearStreams
      <4>. QED BY <4>1, <4>2, <4>3 DEF get_cluster
    <3>4. CASE CascadeCut(p) BY <3>4 DEF CascadeCut, get_cluster
    <3>. QED BY <1>2, <3>1, <3>2, <3>3, <3>4 DEF CascadeStep, get_cluster
  <2>. QED BY <1>1, <1>2, <2>1, <2>2
<1>3. ASSUME NEW n \in Node, FeedLost(n) \/ Idles(n) \/ StreamEnds(n), Calm PROVE CalmInv'
  <2>1. UNCHANGED <<cfg, st, proc>>
    BY <1>3 DEF FeedLost, Idles, StreamEnds, shared
  <2>. QED BY <1>1, <1>3, <2>1 DEF get_cluster
<1>4. ASSUME NEW n \in Node, Announce(n), Calm PROVE FALSE
  <2>1. events' = events + 1 /\ cfg' = cfg
    BY <1>4 DEF Announce, shared
  <2>2. events' = events
    BY <1>0, <1>4, <2>1, CalmFacts
  <2>. QED BY <2>1, <2>2 DEF CountInv
<1>5. ASSUME ThreeSeconds, Calm PROVE CalmInv'
  BY <1>1, <1>5 DEF ThreeSeconds, get_cluster
<1>6. ASSUME Restart, Calm PROVE FALSE
  <2>1. early' = TRUE /\ cfg' = cfg
    BY <1>6 DEF Restart
  <2>. QED BY <1>0, <1>6, <2>1, CalmFacts
<1>7. ASSUME UNCHANGED vars PROVE CalmInv'
  <2>1. UNCHANGED <<cfg, st, early, proc, casc, calm>>
    BY <1>7 DEF vars
  <2>2. Process' = Process /\ get_cluster(st)' = get_cluster(st) /\ calm /\ ~early'
    BY <2>1 DEF Process, get_cluster, CalmInv
  <2>3. ASSUME NEW p \in Process, NEW q \in Process, Busy(p)', Busy(q)' PROVE p = q
    <3>1. Busy(p) /\ Busy(q)
      BY <2>1, <2>3 DEF Busy
    <3>. QED BY <2>2, <3>1 DEF CalmInv
  <2>4. \A p, q \in Process' : Busy(p)' /\ Busy(q)' => p = q
    BY <2>2, <2>3
  <2>5. \A p \in Process' : proc'[p].at = "new" /\ ~proc'[p].ready => proc'[p].rounds = 0
    BY <2>1, <2>2 DEF CalmInv
  <2>6. get_cluster(st)' = cfg'.nodes
    BY <2>1, <2>2 DEF CalmInv
  <2>. QED BY <2>2, <2>4, <2>5, <2>6 DEF CalmInv
<1>. QED BY <1>2, <1>3, <1>4, <1>5, <1>6, <1>7

LEMMA CalmInit == Init => CountInv /\ CalmInv
<1> SUFFICES ASSUME Init PROVE CountInv /\ CalmInv
  OBVIOUS
<1>1. calm => ~early
  BY DEF Init
<1>2. get_cluster(st) = cfg.nodes
  BY DEF Init, NewStorage, get_cluster
<1>3. ASSUME NEW p \in Process PROVE ~Busy(p) /\ proc[p].at = "new" /\ proc[p].rounds = 0
  <2>1. proc[p] = NewProcess /\ casc[p] = NoCascade
    BY DEF Init
  <2>. QED BY <2>1, NewFields, NewSettled DEF Busy, NoCascade
<1>4. CountInv
  BY DEF Init, CountInv
<1>. QED BY <1>1, <1>2, <1>3, <1>4 DEF CalmInv

--------------------------------------------------------------------------------
(* What the storage has of a node.                                         *)

LEMMA NodeFields ==
  /\ DOMAIN NewNode = {"known", "max", "info"} /\ ~NewNode.known
  /\ DOMAIN NoStream = {"up", "pub", "sub", "idle"}
  /\ NoStream.pub = {} /\ NoStream.sub = {} /\ ~NoStream.up
BY DEF NewNode, NoStream

LEMMA PutFacts ==
  ASSUME NEW s, NEW t, NEW n, NEW info, IsSequence(s.stream),
         DOMAIN s = {"list", "stream", "session"}, n \in DOMAIN s.list,
         DOMAIN s.list[n] = DOMAIN NewNode, t = PutAnswer(s, n, info)
  PROVE  /\ DOMAIN t.list = DOMAIN s.list
         /\ \A m \in DOMAIN s.list \ {n} : t.list[m] = s.list[m]
         /\ DOMAIN t.list[n] = DOMAIN NewNode /\ t.list[n].info = info
         /\ t.list[n].known = s.list[n].known /\ t.list[n].max = s.list[n].max
         /\ info.up => Range(t.stream) = Range(s.stream) \cup {n}
         /\ ~info.up => t.stream = s.stream
<1>1. PICK x : x = [s.list[n] EXCEPT !.info = info]
  OBVIOUS
<1>2. t.list = [s.list EXCEPT ![n] = x]
  BY <1>1 DEF PutAnswer, info_put, stream_put
<1>3. DOMAIN x = DOMAIN NewNode /\ x.info = info /\ x.known = s.list[n].known /\ x.max = s.list[n].max
  BY <1>1, NodeFields
<1>4. t.stream = IF info.up THEN Append(s.stream, n) ELSE s.stream
  BY DEF PutAnswer, info_put, stream_put
<1>5. Range(Append(s.stream, n)) = Range(s.stream) \cup {n}
  BY RangeAppended DEF IsSequence
<1>. QED BY <1>2, <1>3, <1>4, <1>5

\* The strategies of the nodes that are known have been put in.
Heard(s, t, known, max) ==
  /\ DOMAIN t.list = DOMAIN s.list
  /\ \A n \in DOMAIN s.list :
       /\ DOMAIN t.list[n] = DOMAIN NewNode /\ t.list[n].info = s.list[n].info
       /\ n \in known => t.list[n].known /\ t.list[n].max = max
       /\ n \notin known => t.list[n] = s.list[n]

LEMMA StrategyFacts ==
  ASSUME NEW s, NEW t, NEW known, NEW max,
         DOMAIN s = {"list", "stream", "session"},
         \A n \in DOMAIN s.list : DOMAIN s.list[n] = DOMAIN NewNode,
         t \in {PutStrategy(s, known, max), ClearStreams(PutStrategy(s, known, max))}
  PROVE  Heard(s, t, known, max)
<1>1. t.list = [n \in DOMAIN s.list |->
           IF n \in known THEN [s.list[n] EXCEPT !.known = TRUE, !.max = max] ELSE s.list[n]]
  BY DEF ClearStreams, PutStrategy
<1>2. ASSUME NEW n \in DOMAIN s.list, n \in known
      PROVE  /\ DOMAIN t.list[n] = DOMAIN NewNode /\ t.list[n].info = s.list[n].info
             /\ t.list[n].known /\ t.list[n].max = max
  BY <1>1, <1>2, NodeFields
<1>3. ASSUME NEW n \in DOMAIN s.list, n \notin known PROVE t.list[n] = s.list[n]
  BY <1>1, <1>3
<1>4. DOMAIN t.list = DOMAIN s.list
  BY <1>1
<1>. QED BY <1>1, <1>2, <1>3, <1>4 DEF Heard

\* An update of the task of a cascade, in which the nodes answer or the task dies.
LEMMA RefreshFacts ==
  ASSUME CatalogueInv, NodeShape, NEW p, CascadeClose(p)
  PROVE  \/ st'.list = st.list
         \/ /\ DOMAIN st'.list = DOMAIN st.list
            /\ \A n \in DOMAIN st.list :
                 /\ DOMAIN st'.list[n] = DOMAIN NewNode /\ st'.list[n].info = world[n]
                 /\ st'.list[n].known = st.list[n].known /\ st'.list[n].max = st.list[n].max
<1>. SUFFICES ASSUME NEW order, st' = PutAnswers(st, order, world)
     PROVE  /\ DOMAIN st'.list = DOMAIN st.list
            /\ \A n \in DOMAIN st.list :
                 /\ DOMAIN st'.list[n] = DOMAIN NewNode /\ st'.list[n].info = world[n]
                 /\ st'.list[n].known = st.list[n].known /\ st'.list[n].max = st.list[n].max
  <2>1. st' = st \/ st' = ClearStreams(st) \/ \E order : st' = PutAnswers(st, order, world)
    BY DEF CascadeClose
  <2>2. ClearStreams(st).list = st.list
    BY DEF CatalogueInv, StoreTypes, ClearStreams
  <2>. QED BY <2>1, <2>2
<1>1. st'.list = [m \in DOMAIN st.list |-> [st.list[m] EXCEPT !.info = world[m]]]
  BY DEF CatalogueInv, StoreTypes, PutAnswers
<1>. QED BY <1>1, NodeFields DEF NodeShape

\* The steps of a process that change the storage.
LEMMA StoreSteps ==
  ASSUME NEW p \in Process, ProcessStep(p), ~UNCHANGED st
  PROVE  Update(p) \/ Strategy(p) \/ (\E n \in Node : Put(p, n)) \/ KeepSession(p)
<1>1. CASE Quiet(p)
  BY <1>1, QuietFrame
<1>2. ASSUME \/ (\E n \in Node : Fetch(p, n)) \/ ProxySession(p) \/ ProxyDelete(p) \/ ProxyCreate(p) \/ ProxyDestroy(p)
             \/ Halt(p) \/ Post(p) \/ Write(p) \/ Ack(p) \/ DoCascadeCheck(p)
      PROVE  UNCHANGED st
  BY <1>2 DEF Fetch, ProxySession, ProxyDelete, ProxyCreate, ProxyDestroy, Halt, Post, Write, Ack,
              DoCascadeCheck, CheckNodes, CheckServers, CheckInfos, CheckDelete
<1>. QED BY <1>1, <1>2 DEF ProcessStep, UpdateStep, RouteStep, RecordStep, Quiet

LEMMA ProcessKeepsShape ==
  ASSUME CatalogueInv, GroundInv, NodeShape, NEW p \in Process, ProcessStep(p)
  PROVE  NodeShape'
<1>0. DOMAIN st = {"list", "stream", "session"} /\ IsSequence(st.stream)
  BY DEF CatalogueInv, StoreTypes, GroundInv
<1>1. CASE UNCHANGED st
  BY <1>1 DEF NodeShape
<1>5. CASE Update(p)
  <2>1. st'.list = st.list
    BY <1>0, <1>5 DEF Update, ClearStreams
  <2>. QED BY <2>1 DEF NodeShape
<1>2. CASE Strategy(p)
  <2>1. PICK known : st' \in {PutStrategy(st, known, cfg.max),
                              ClearStreams(PutStrategy(st, known, cfg.max))}
    BY <1>2 DEF Strategy
  <2>2. /\ DOMAIN st'.list = DOMAIN st.list
        /\ \A n \in DOMAIN st.list : DOMAIN st'.list[n] = DOMAIN NewNode
    BY <1>0, <2>1, StrategyFacts DEF NodeShape, Heard
  <2>. QED BY <2>2 DEF NodeShape
<1>3. ASSUME NEW n \in Node, Put(p, n), ~UNCHANGED st PROVE NodeShape'
  <2>1. st' = PutAnswer(st, n, proc[p].got[n]) /\ n \in DOMAIN st.list
    BY <1>3 DEF Put, get_cluster
  <2>2. /\ DOMAIN st'.list = DOMAIN st.list
        /\ \A m \in DOMAIN st.list \ {n} : st'.list[m] = st.list[m]
        /\ DOMAIN st'.list[n] = DOMAIN NewNode
    BY <1>0, <2>1, PutFacts DEF NodeShape
  <2>. QED BY <2>2 DEF NodeShape
<1>4. CASE KeepSession(p)
  <2>1. st'.list = st.list
    BY <1>0, <1>4 DEF KeepSession, session_put, stream_put
  <2>. QED BY <2>1 DEF NodeShape
<1>. QED BY <1>1, <1>2, <1>3, <1>4, <1>5, StoreSteps

LEMMA OthersKeepShape ==
  ASSUME CatalogueInv, NodeShape,
         \/ \E p \in Process : CascadeStep(p)
         \/ \E n \in Node : FeedLost(n) \/ Idles(n) \/ Announce(n) \/ StreamEnds(n)
         \/ ThreeSeconds \/ Restart \/ UNCHANGED vars
  PROVE  NodeShape'
<1>1. CASE UNCHANGED st
  BY <1>1 DEF NodeShape
<1>2. ASSUME NEW p \in Process, CascadeStep(p) PROVE NodeShape'
  <2>1. CASE CascadeClose(p)
    BY <1>1, <2>1, RefreshFacts DEF NodeShape
  <2>. QED BY <1>1, <1>2, <2>1 DEF CascadeStep, CascadeCall, CascadeCheck, CascadeCut
<1>3. ASSUME NEW n \in Node, Announce(n) PROVE NodeShape'
  <2>1. \/ st'.list = With(st.list, n, NewNode)
        \/ st'.list = [m \in DOMAIN st.list \ {n} |-> st.list[m]]
    BY <1>3 DEF Announce, AddNode, RemoveNode, CatalogueInv, StoreTypes
  <2>. QED BY <2>1 DEF NodeShape, With
<1>4. CASE Restart
  <2>1. st'.list = [n \in cfg.nodes |-> NewNode]
    BY <1>4 DEF Restart, NewStorage
  <2>. QED BY <2>1 DEF NodeShape
<1>. QED BY <1>1, <1>2, <1>3, <1>4 DEF FeedLost, Idles, StreamEnds, ThreeSeconds, vars

LEMMA ShapeInit == Init => NodeShape
<1> SUFFICES ASSUME Init PROVE NodeShape
  OBVIOUS
<1>1. st.list = [n \in cfg.nodes |-> NewNode]
  BY DEF Init, NewStorage
<1>. QED BY <1>1 DEF NodeShape

--------------------------------------------------------------------------------
(* Servers.                                                                *)

LEMMA StreamAliases ==
  ASSUME IsSequence(st.stream)
  PROVE  Aliases(stream_get(st)) = Range(st.stream) \cap get_cluster(st)
<1>. PICK X : st.stream \in Seq(X)
  BY DEF IsSequence
<1>. PICK here : here = Among(st.stream, DOMAIN st.list)
  OBVIOUS
<1>1. here \in Seq(X \cap get_cluster(st)) /\ Range(st.stream) \cap get_cluster(st) \subseteq Range(here)
  BY AmongIn, AmongAll DEF get_cluster
<1>2. Range(here) \subseteq Range(st.stream) \cap get_cluster(st)
  <2>1. PICK Y : Y = Range(st.stream)
    OBVIOUS
  <2>2. st.stream \in Seq(Y)
    <3>1. st.stream = [i \in 1..Len(st.stream) |-> st.stream[i]] /\ Len(st.stream) \in Nat
      OBVIOUS
    <3>2. \A i \in 1..Len(st.stream) : st.stream[i] \in Y
      BY <2>1 DEF Range
    <3>. QED BY <3>1, <3>2
  <2>3. here \in Seq(Y \cap DOMAIN st.list)
    BY <2>2, AmongIn
  <2>. QED BY <2>1, <2>3 DEF Range, get_cluster
<1>3. Aliases(stream_get(st)) = Range(here)
  <2>1. stream_get(st) = [i \in DOMAIN here |-> Server(st, here[i])]
    BY DEF stream_get
  <2>. QED BY <2>1 DEF Aliases, Server, Range
<1>. QED BY <1>1, <1>2, <1>3

LEMMA OnlyAliases ==
  ASSUME NEW servers \in Seq(Known), NEW p
  PROVE  Aliases(Only(p, servers)) \subseteq Aliases(servers)
<1>. PICK S : S = {s \in Range(servers) : s.alias \in cfg.calls[p].nodes}
  OBVIOUS
<1>1. Among(servers, S) \in Seq(Known \cap S)
  BY AmongIn
<1>2. Only(p, servers) \in {servers, Among(servers, S)}
  BY DEF Only
<1>3. ASSUME NEW i \in DOMAIN Among(servers, S)
      PROVE  Among(servers, S)[i].alias \in Aliases(servers)
  <2>1. Among(servers, S)[i] \in S
    BY <1>1
  <2>2. PICK j \in DOMAIN servers : Among(servers, S)[i] = servers[j]
    BY <2>1 DEF Range
  <2>. QED BY <2>2 DEF Aliases
<1>4. Aliases(Among(servers, S)) \subseteq Aliases(servers)
  BY <1>3 DEF Aliases
<1>. QED BY <1>2, <1>4

LEMMA HeadAlias ==
  ASSUME NEW servers, IsSequence(servers), servers # <<>>
  PROVE  Head(servers).alias \in Aliases(servers)
<1>1. Head(servers) = servers[1] /\ 1 \in DOMAIN servers
  BY DEF IsSequence
<1>. QED BY <1>1 DEF Aliases

LEMMA BestAlias ==
  ASSUME NEW s, NEW servers
  PROVE  maximum_idle_node(s, servers) \subseteq Aliases(servers)
BY DEF maximum_idle_node, Aliases

\* All that is known whatever the configuration.
BaseInv == CatalogueInv /\ GroundInv /\ TaskInv /\ FedInv /\ CountInv /\ CalmInv /\ NodeShape

LEMMA BaseInit == Init => BaseInv
BY CatalogueInit, GroundInit, FedInit, CalmInit, ShapeInit DEF BaseInv

LEMMA BaseStep == BaseInv /\ [Next]_vars => BaseInv'
<1> SUFFICES ASSUME BaseInv, [Next]_vars PROVE BaseInv'
  OBVIOUS
<1>1. CatalogueInv /\ GroundInv /\ TaskInv /\ FedInv /\ CountInv /\ CalmInv /\ NodeShape
  BY DEF BaseInv
<1>2. CatalogueInv' /\ GroundInv' /\ TaskInv' /\ FedInv'
  BY <1>1, CatalogueStep, GroundStep, FedStep
<1>3. ASSUME NEW p \in Process, ProcessStep(p), Calm
      PROVE  CountInv' /\ CalmInv' /\ NodeShape'
  BY <1>1, <1>3, ProcessCounts, ProcessKeepsCalm, ProcessKeepsShape
<1>4. ASSUME ~\E p \in Process : ProcessStep(p) /\ Calm
      PROVE  CountInv' /\ CalmInv' /\ NodeShape'
  BY <1>1, <1>4, OthersCount, OthersKeepCalm, OthersKeepShape DEF Next
<1>. QED BY <1>2, <1>3, <1>4 DEF BaseInv

--------------------------------------------------------------------------------
(* A stream in one piece.                                                  *)

\* To begin with the stream is on one node that Liveman knows, if at all.
Whole ==
  /\ \A n, m \in Node : cfg.world[n].up /\ cfg.world[m].up => n = m
  /\ \A n \in Node : cfg.world[n].up => n \in cfg.nodes
  /\ \A n \in Node : (\E s \in cfg.world[n].pub : s[2] = "direct") => cfg.world[n].up

Up == {n \in Node : world[n].up}
AtMostOne(S) == \A a, b \in S : a = b

\* The nodes whose answer tells of the stream, and those whose last one did.
Telling(got) == {n \in DOMAIN got : got[n].up}
Sees(s) == {n \in DOMAIN s.list : s.list[n].info.up}

\* What a handler knows of the nodes that have the stream.
Aware(op, r, s, up) ==
  /\ r.at = "fetch" =>
       /\ AtMostOne(Range(s.stream) \cup Telling(r.got) \cup up)
       /\ up \subseteq r.wait \cup Telling(r.got) \cup ((Range(s.stream) \cap Sees(s)) \ DOMAIN r.got)
  /\ r.at = "new" /\ r.ready =>
       AtMostOne(Range(s.stream)) /\ up \subseteq Range(s.stream) \cap Sees(s)
  /\ op = "whip" /\ (Doing(r, "nodes") \/ Doing(r, "idle")) => up = {}
  /\ op = "whep" /\ Doing(r, "idle") =>
       AtMostOne(Aliases(r.servers)) /\ up \subseteq Aliases(r.servers)
  /\ op \in {"whip", "whep", "create"} /\ r.at = "proxy" =>
       up \subseteq {r.node} /\ r.node \in DOMAIN s.list

Uncascaded == \A p \in Process : casc[p] = NoCascade

PieceInv ==
  Whole /\ calm /\ Uncascaded =>
    /\ AtMostOne(Up) /\ Up \subseteq cfg.nodes
    /\ \A n \in Node : (\E s \in world[n].pub : s[2] = "direct") => world[n].up
    /\ \A p \in Process : Aware(Op(p), proc[p], st, Up)

LEMMA AtMostOneCounts ==
  ASSUME NEW S, AtMostOne(S)
  PROVE  Cardinality(S) <= 1
<1>1. CASE S = {}
  BY <1>1, FS_EmptySet
<1>2. ASSUME NEW x \in S PROVE Cardinality(S) = 1
  <2>1. S = {x}
    BY DEF AtMostOne
  <2>. QED BY <2>1, FS_Singleton
<1>. QED BY <1>1, <1>2

\* Fewer nodes that have the stream change nothing of that, and a handler that is
\* elsewhere knows nothing.
LEMMA AwareOfFewer ==
  ASSUME NEW op, NEW r, NEW s, NEW up, NEW less, Aware(op, r, s, up), less \subseteq up
  PROVE  Aware(op, r, s, less)
BY DEF Aware, AtMostOne

LEMMA AwareElsewhere ==
  ASSUME NEW op, NEW r, NEW s, NEW up, ~r.ready,
         r.at \notin Places \/ r.at = "cascade" \/ (r.at = "proxy" /\ op \notin {"whip", "whep", "create"})
  PROVE  Aware(op, r, s, up)
BY DEF Aware, Doing, Places

--------------------------------------------------------------------------------
LEMMA CheckDeletes ==
  ASSUME NEW p, DoCascadeCheck(p)
  PROVE  UNCHANGED world \/ \E n, s : SessionDelete(n, s)
<1>1. CASE CheckNodes(p) \/ CheckServers(p) \/ CheckInfos(p)
  BY <1>1 DEF CheckNodes, CheckServers, CheckInfos, clusterVars
<1>2. CASE CheckDelete(p)
  BY <1>2 DEF CheckDelete
<1>. QED BY <1>1, <1>2 DEF DoCascadeCheck

\* The steps of a process that a stream can be new on a node with.
LEMMA NewOnNode ==
  ASSUME CatalogueInv, NEW p \in Process, ProcessStep(p)
  PROVE  \/ Up' \subseteq Up
         \/ /\ ProxySession(p) \/ ProxyCreate(p)
            /\ Op(p) \in {"whip", "whep", "create"} /\ proc[p].at = "proxy"
            /\ Up' \subseteq Up \cup {proc[p].node}
<1>0. WorldTypes
  BY DEF CatalogueInv
<1>1. CASE UNCHANGED world
  BY <1>1 DEF Up
<1>2. CASE Quiet(p)
  BY <1>1, <1>2, QuietFrame
<1>3. ASSUME \/ UpdateStep(p) \/ KeepSession(p) \/ Halt(p) \/ Post(p) \/ Write(p) \/ Ack(p)
      PROVE  UNCHANGED world
  BY <1>3 DEF UpdateStep, Update, Strategy, Fetch, Put, KeepSession, Halt, Post, Write, Ack, clusterVars
<1>4. CASE ProxySession(p)
  <2>1. \A n \in Node \ {proc[p].node} : world'[n] = world[n]
    BY <1>0, <1>4 DEF ProxySession, WorldTypes
  <2>2. Op(p) \in {"whip", "whep", "create"} /\ proc[p].at = "proxy"
    BY <1>4 DEF ProxySession, Is
  <2>. QED BY <1>4, <2>1, <2>2 DEF Up
<1>5. CASE ProxyCreate(p)
  <2>1. \A n \in Node \ {proc[p].node} : world'[n] = world[n]
    BY <1>0, <1>5 DEF ProxyCreate, WorldTypes
  <2>2. Op(p) \in {"whip", "whep", "create"} /\ proc[p].at = "proxy"
    BY <1>5 DEF ProxyCreate, Is
  <2>. QED BY <1>5, <2>1, <2>2 DEF Up
<1>6. ASSUME ProxyDelete(p) \/ ProxyDestroy(p) \/ DoCascadeCheck(p), NEW n \in Node
      PROVE  world'[n].up => world[n].up
  <2>1. CASE ProxyDelete(p)
    BY <1>0, <1>1, <2>1, NodeFields DEF ProxyDelete, NodeDelete, WorldTypes, clusterVars
  <2>2. CASE ProxyDestroy(p)
    BY <1>0, <1>1, <2>2, NodeFields DEF ProxyDestroy, WorldTypes, clusterVars
  <2>3. CASE DoCascadeCheck(p)
    BY <1>0, <1>1, <2>3, CheckDeletes, DeleteTypes
  <2>. QED BY <1>6, <2>1, <2>2, <2>3
<1>7. CASE ProxyDelete(p) \/ ProxyDestroy(p) \/ DoCascadeCheck(p)
  BY <1>6, <1>7 DEF Up
<1>. QED
  BY <1>1, <1>2, <1>3, <1>4, <1>5, <1>7 DEF ProcessStep, RouteStep, RecordStep, Quiet

\* A stream has a publisher only where it is.
LEMMA PublishedUp ==
  ASSUME CatalogueInv, NEW p \in Process, ProcessStep(p), NEW n \in Node,
         (\E s \in world[n].pub : s[2] = "direct") => world[n].up,
         NEW s \in world'[n].pub, s[2] = "direct"
  PROVE  world'[n].up
<1>0. WorldTypes
  BY DEF CatalogueInv
<1>1. CASE UNCHANGED world
  BY <1>1
<1>2. CASE Quiet(p)
  BY <1>1, <1>2, QuietFrame
<1>3. ASSUME \/ UpdateStep(p) \/ KeepSession(p) \/ Halt(p) \/ Post(p) \/ Write(p) \/ Ack(p)
      PROVE  UNCHANGED world
  BY <1>3 DEF UpdateStep, Update, Strategy, Fetch, Put, KeepSession, Halt, Post, Write, Ack, clusterVars
<1>4. CASE ProxySession(p)
  <2>1. world'[n] = world[n] \/ world'[n].up = TRUE
    BY <1>0, <1>4, NodeFields DEF ProxySession, WorldTypes
  <2>. QED BY <2>1
<1>5. CASE ProxyCreate(p)
  <2>1. world'[n] = world[n] \/ world'[n].up = TRUE
    BY <1>0, <1>5, NodeFields DEF ProxyCreate, WorldTypes
  <2>. QED BY <2>1
<1>6. CASE ProxyDelete(p)
  <2>1. world'[n].pub = {} \/ (world'[n].pub = world[n].pub /\ world'[n].up = world[n].up)
    BY <1>0, <1>6, NodeFields DEF ProxyDelete, NodeDelete, WorldTypes, clusterVars
  <2>. QED BY <2>1
<1>7. CASE ProxyDestroy(p)
  <2>1. world'[n].pub = {} \/ (world'[n].pub = world[n].pub /\ world'[n].up = world[n].up)
    BY <1>0, <1>7, NodeFields DEF ProxyDestroy, WorldTypes, clusterVars
  <2>. QED BY <2>1
<1>8. CASE DoCascadeCheck(p)
  <2>1. world'[n].pub = world[n].pub /\ world'[n].up = world[n].up
    BY <1>0, <1>8, CheckDeletes, DeleteTypes
  <2>. QED BY <2>1
<1>. QED
  BY <1>1, <1>2, <1>3, <1>4, <1>5, <1>6, <1>7, <1>8 DEF ProcessStep, RouteStep, RecordStep, Quiet

\* The steps of a handler, and what it knows afterwards.
Learns(p, s, up) == \E r : Set(p, r) /\ Aware(Op(p), r, s, up)

LEMMA SettlesAware ==
  ASSUME NEW p, NEW s, NEW up, \E r : Set(p, r) /\ Settled(r)
  PROVE  Learns(p, s, up)
BY AwareElsewhere DEF Learns, Settled

LEMMA UpdateAware ==
  ASSUME CatalogueInv, NEW p \in Process, Update(p), Aware(Op(p), proc[p], st, Up), NEW s
  PROVE  Learns(p, s, Up)
<1>1. PICK r : /\ Set(p, r) /\ r.at = "strategy" /\ r.back = proc[p].at
               /\ r.servers = proc[p].servers
  BY UpdateShape DEF CatalogueInv
<1>2. Aware(Op(p), r, s, Up)
  BY <1>1 DEF Aware, Doing
<1>. QED BY <1>1, <1>2 DEF Learns

LEMMA PollsAware ==
  ASSUME ProcInv, NEW p \in Process, NEW wait, NEW got, Polls(p, wait, got),
         proc[p].at \in {"strategy", "fetch"},
         Aware(Op(p), proc[p], st, Up), NEW s,
         AtMostOne(Range(s.stream) \cup Telling(got) \cup Up),
         Up \subseteq wait \cup Telling(got) \cup ((Range(s.stream) \cap Sees(s)) \ DOMAIN got)
  PROVE  Learns(p, s, Up)
<1>1. PICK r : Set(p, r) /\ Polled(p, wait, got, r)
  BY PollsShape
<1>2. proc[p].back \in Updates /\ r.servers = proc[p].servers
  BY <1>1 DEF ProcInv, Sound, Polled
<1>3. CASE wait = {} /\ got = Empty
  <2>1. Telling(got) = {}
    BY <1>3 DEF Empty, Telling
  <2>2. AtMostOne(Range(s.stream)) /\ Up \subseteq Range(s.stream) \cap Sees(s)
    BY <1>3, <2>1 DEF AtMostOne
  <2>3. r.at = proc[p].back /\ r.ready = TRUE
    BY <1>1, <1>3 DEF Polled
  <2>4. Aware(Op(p), r, s, Up)
    BY <1>2, <2>2, <2>3 DEF Aware, Doing, Updates
  <2>. QED BY <1>1, <2>4 DEF Learns
<1>4. CASE ~(wait = {} /\ got = Empty)
  <2>1. r.at = "fetch" /\ r.back = proc[p].back /\ r.wait = wait /\ r.got = got /\ ~r.ready
    BY <1>1, <1>4 DEF Polled
  <2>2. Aware(Op(p), r, s, Up)
    BY <1>2, <2>1 DEF Aware, Doing
  <2>. QED BY <1>1, <2>2 DEF Learns
<1>. QED BY <1>3, <1>4

\* While nothing fails, every node tells its strategy, and its stream when asked.
LEMMA StrategyHeard ==
  ASSUME BaseInv, NEW p \in Process, Strategy(p), faults' = faults
  PROVE  /\ st' = ClearStreams(PutStrategy(st, proc[p].wait, cfg.max))
         /\ Polls(p, get_cluster(st), Empty)
<1>1. proc[p].wait \subseteq Node /\ faults \in Nat
  BY DEF BaseInv, CatalogueInv, ProcInv, Sound, CountInv
<1>2. PICK silent \in SUBSET proc[p].wait :
        \/ /\ faults' = faults + Cardinality(silent)
           /\ st' = ClearStreams(PutStrategy(st, proc[p].wait \ silent, cfg.max))
           /\ Polls(p, get_cluster(st), Empty)
        \/ faults' = faults + 1
  BY DEF Strategy, Fault
<1>3. IsFiniteSet(silent) /\ Cardinality(silent) \in Nat
  BY <1>1, SilentCount
<1>4. faults' # faults + 1
  BY <1>1
<1>5. Cardinality(silent) = 0
  BY <1>1, <1>2, <1>3, <1>4
<1>6. silent = {}
  BY <1>3, <1>5, FS_EmptySet
<1>7. proc[p].wait \ silent = proc[p].wait
  BY <1>6
<1>. QED BY <1>2, <1>4, <1>7

LEMMA FetchHeard ==
  ASSUME BaseInv, NEW p \in Process, NEW n, Fetch(p, n), faults' = faults
  PROVE  /\ proc[p].at = "fetch" /\ n \in proc[p].wait
         /\ Polls(p, proc[p].wait \ {n}, With(proc[p].got, n, world[n]))
<1>1. faults' # faults + 1
  BY DEF BaseInv, CountInv
<1>. QED BY <1>1 DEF Fetch, Fault

LEMMA StrategyAware ==
  ASSUME BaseInv, NEW p \in Process, Strategy(p), faults' = faults, calm,
         Aware(Op(p), proc[p], st, Up), AtMostOne(Up), Up \subseteq cfg.nodes
  PROVE  Learns(p, st', Up)
<1>0. /\ ProcInv /\ get_cluster(st) = cfg.nodes /\ proc[p].at = "strategy"
      /\ DOMAIN st = {"list", "stream", "session"}
  BY DEF BaseInv, CatalogueInv, StoreTypes, CalmInv, Strategy
<1>. PICK nodes : nodes = get_cluster(st)
  OBVIOUS
<1>. PICK s : s = st'
  OBVIOUS
<1>1. s = ClearStreams(PutStrategy(st, proc[p].wait, cfg.max)) /\ Polls(p, nodes, Empty)
  BY StrategyHeard
<1>2. s.stream = <<>>
  BY <1>0, <1>1 DEF ClearStreams, PutStrategy
<1>3. Range(s.stream) = {} /\ Telling(Empty) = {}
  BY <1>2 DEF Range, Telling, Empty
<1>4. AtMostOne(Range(s.stream) \cup Telling(Empty) \cup Up)
  BY <1>3 DEF AtMostOne
<1>5. Learns(p, s, Up)
  BY <1>0, <1>1, <1>4, PollsAware
<1>. QED BY <1>5

LEMMA FetchAware ==
  ASSUME BaseInv, NEW p \in Process, NEW n \in Node, Fetch(p, n), faults' = faults,
         Aware(Op(p), proc[p], st, Up)
  PROVE  Learns(p, st, Up)
<1>. PICK got, wait : got = With(proc[p].got, n, world[n]) /\ wait = proc[p].wait \ {n}
  OBVIOUS
<1>0. ProcInv /\ proc[p].at = "fetch" /\ Polls(p, wait, got)
  BY FetchHeard DEF BaseInv, CatalogueInv
<1>1. /\ DOMAIN got = DOMAIN proc[p].got \cup {n} /\ got[n] = world[n]
      /\ \A m \in DOMAIN proc[p].got \ {n} : got[m] = proc[p].got[m]
  BY DEF With
<1>. PICK T : T = Telling(got)
  OBVIOUS
<1>2. /\ n \in Up => n \in T
      /\ \A m \in T : m \in Telling(proc[p].got) \/ m \in Up
      /\ \A m \in Telling(proc[p].got) : m = n \/ m \in T
  BY <1>1 DEF Up, Telling
<1>. PICK R, O : R = Range(st.stream) /\ O = Sees(st)
  OBVIOUS
<1>3. /\ AtMostOne(R \cup Telling(proc[p].got) \cup Up)
      /\ Up \subseteq proc[p].wait \cup Telling(proc[p].got) \cup ((R \cap O) \ DOMAIN proc[p].got)
  BY <1>0 DEF Aware
<1>4. AtMostOne(R \cup T \cup Up)
  BY <1>2, <1>3 DEF AtMostOne
<1>5. ASSUME NEW m \in Up PROVE m \in wait \/ m \in T \/ (m \in R /\ m \in O /\ m \notin DOMAIN got)
  BY <1>1, <1>2, <1>3
<1>6. Up \subseteq wait \cup T \cup ((R \cap O) \ DOMAIN got)
  BY <1>5
<1>. QED BY <1>0, <1>4, <1>6, PollsAware

LEMMA PutAware ==
  ASSUME BaseInv, NEW p \in Process, NEW n \in Node, Put(p, n), Aware(Op(p), proc[p], st, Up)
  PROVE  Learns(p, st', Up)
<1>0. /\ ProcInv /\ proc[p].at = "fetch" /\ n \in DOMAIN proc[p].got
      /\ DOMAIN st = {"list", "stream", "session"} /\ IsSequence(st.stream) /\ NodeShape
  BY DEF BaseInv, CatalogueInv, StoreTypes, GroundInv, Put
<1>1. CASE n \notin get_cluster(st)
  <2>1. Panic(p, "node gone")
    BY <1>1 DEF Put
  <2>. QED BY <2>1, PanicSettles, SettlesAware
<1>2. CASE n \in get_cluster(st)
  <2>. PICK info, wait : info = proc[p].got[n] /\ wait = proc[p].wait
    OBVIOUS
  <2>. PICK got : got = [m \in DOMAIN proc[p].got \ {n} |-> proc[p].got[m]]
    OBVIOUS
  <2>1. st' = PutAnswer(st, n, info) /\ Polls(p, wait, got)
    BY <1>2 DEF Put
  <2>. PICK s : s = st'
    OBVIOUS
  <2>2. /\ DOMAIN s.list = DOMAIN st.list
        /\ \A m \in DOMAIN st.list \ {n} : s.list[m] = st.list[m]
        /\ s.list[n].info = info
        /\ info.up => Range(s.stream) = Range(st.stream) \cup {n}
        /\ ~info.up => s.stream = st.stream
    BY <1>0, <1>2, <2>1, PutFacts DEF NodeShape, get_cluster
  <2>. PICK T : T = Telling(got)
    OBVIOUS
  <2>3. Telling(proc[p].got) = T \cup (IF info.up THEN {n} ELSE {}) /\ n \notin DOMAIN got
    BY <1>0 DEF Telling
  <2>4. Range(s.stream) \cup T = Range(st.stream) \cup Telling(proc[p].got)
    BY <2>2, <2>3
  <2>5. AtMostOne(Range(s.stream) \cup T \cup Up)
    BY <1>0, <2>4 DEF Aware
  <2>6. ASSUME NEW m \in Up, m \notin wait
        PROVE  m \in T \/ (m \in Range(s.stream) /\ m \in Sees(s) /\ m \notin DOMAIN got)
    <3>1. \/ m \in Telling(proc[p].got)
          \/ m \in Range(st.stream) /\ m \in Sees(st) /\ m \notin DOMAIN proc[p].got
      BY <1>0, <2>6 DEF Aware
    <3>2. CASE m = n
      <4>1. info.up
        BY <1>0, <3>1, <3>2 DEF Telling
      <4>. QED BY <1>2, <2>2, <2>3, <3>2, <4>1 DEF Sees, get_cluster
    <3>3. CASE m # n
      <4>1. m \in Telling(proc[p].got) => m \in T
        BY <2>3, <3>3
      <4>2. m \in Range(st.stream) => m \in Range(s.stream)
        BY <2>2
      <4>3. m \in Sees(st) => m \in Sees(s)
        BY <2>2, <3>3 DEF Sees
      <4>4. m \notin DOMAIN proc[p].got => m \notin DOMAIN got
        OBVIOUS
      <4>. QED BY <3>1, <4>1, <4>2, <4>3, <4>4
    <3>. QED BY <3>2, <3>3
  <2>7. Up \subseteq wait \cup T \cup ((Range(s.stream) \cap Sees(s)) \ DOMAIN got)
    BY <2>6
  <2>8. Learns(p, s, Up)
    BY <1>0, <2>5, <2>7, <2>1, PollsAware
  <2>. QED BY <2>8
<1>. QED BY <1>1, <1>2

\* A handler that has not updated yet will.
LEMMA CurrentReady ==
  ASSUME CalmInv, calm, NEW p \in Process, proc[p].at = "new", Current(p)
  PROVE  proc[p].ready
BY DEF CalmInv, Current

\* The node that a request goes to is the one that has the stream.
LEMMA ProxyAware ==
  ASSUME ProcInv, NEW p \in Process, NEW n, Set(p, [Stale(p) EXCEPT !.at = "proxy", !.node = n]),
         n \in get_cluster(st), Up \subseteq {n}
  PROVE  Learns(p, st, Up)
<1>1. PICK r : Set(p, r) /\ r.at = "proxy" /\ r.node = n /\ ~r.ready
  BY ProxyShape
<1>2. Aware(Op(p), r, st, Up)
  BY <1>1 DEF Aware, Doing, get_cluster
<1>. QED BY <1>1, <1>2 DEF Learns

LEMMA IdleAware ==
  ASSUME ProcInv, NEW p \in Process, NEW servers,
         Set(p, [Stale(p) EXCEPT !.at = "idle", !.servers = servers]),
         Op(p) = "whip" => Up = {},
         Op(p) = "whep" => AtMostOne(Aliases(servers)) /\ Up \subseteq Aliases(servers)
  PROVE  Learns(p, st, Up)
<1>1. PICK r : Set(p, r) /\ r.at = "idle" /\ r.servers = servers /\ ~r.ready
  BY IdleShape
<1>2. Aware(Op(p), r, st, Up)
  BY <1>1 DEF Aware, Doing
<1>. QED BY <1>1, <1>2 DEF Learns

LEMMA EndsAware ==
  ASSUME NEW p, NEW out, Finish(p, out) \/ Panic(p, out), NEW s, NEW up
  PROVE  Learns(p, s, up)
BY FinishSettles, PanicSettles, SettlesAware

LEMMA WhipAware ==
  ASSUME BaseInv, calm, NEW p \in Process, Whip(p), Aware(Op(p), proc[p], st, Up),
         Up \subseteq cfg.nodes
  PROVE  Learns(p, st, Up)
<1>0. /\ ProcInv /\ IsSequence(st.stream) /\ proc[p].at = "new" /\ get_cluster(st) = cfg.nodes
      /\ Op(p) = "whip"
  BY DEF BaseInv, CatalogueInv, GroundInv, CalmInv, Whip, Is
<1>1. AtMostOne(Range(st.stream)) /\ Up \subseteq Range(st.stream)
  BY <1>0, CurrentReady DEF BaseInv, Whip, Aware
<1>. PICK known : known = stream_get(st)
  OBVIOUS
<1>2. known \in Seq(Known) /\ Aliases(known) = Range(st.stream) \cap get_cluster(st)
  BY <1>0, StreamServers, StreamAliases
<1>3. \/ known = <<>> /\ Goto(p, "nodes")
      \/ Finish(p, "no node")
      \/ /\ Only(p, known) # <<>>
         /\ Set(p, [Stale(p) EXCEPT !.at = "proxy", !.node = Head(Only(p, known)).alias])
  BY DEF Whip
<1>4. CASE known = <<>> /\ Goto(p, "nodes")
  <2>1. Aliases(known) = {}
    BY <1>4 DEF Aliases
  <2>2. Up = {}
    BY <1>0, <1>1, <1>2, <2>1
  <2>3. PICK r : Set(p, r) /\ r.at = "nodes" /\ ~r.ready
    BY <1>0, <1>4, GotoShape
  <2>4. Aware(Op(p), r, st, Up)
    BY <1>0, <2>2, <2>3 DEF Aware, Doing
  <2>. QED BY <2>3, <2>4 DEF Learns
<1>5. CASE /\ Only(p, known) # <<>>
           /\ Set(p, [Stale(p) EXCEPT !.at = "proxy", !.node = Head(Only(p, known)).alias])
  <2>. PICK n : n = Head(Only(p, known)).alias
    OBVIOUS
  <2>1. n \in Aliases(Only(p, known))
    BY <1>2, <1>5, OnlySome, HeadAlias
  <2>2. n \in Range(st.stream) /\ n \in get_cluster(st)
    BY <1>2, <2>1, OnlyAliases
  <2>3. Up \subseteq {n}
    BY <1>1, <2>2 DEF AtMostOne
  <2>. QED BY <1>0, <1>5, <2>2, <2>3, ProxyAware
<1>. QED BY <1>3, <1>4, <1>5, EndsAware

LEMMA WhipNodesAware ==
  ASSUME BaseInv, NEW p \in Process, WhipNodes(p), Aware(Op(p), proc[p], st, Up)
  PROVE  Learns(p, st, Up)
<1>1. ProcInv /\ Op(p) = "whip" /\ Up = {}
  BY DEF BaseInv, CatalogueInv, WhipNodes, Is, Aware, Doing
<1>2. \/ Finish(p, "no node")
      \/ \E servers : Set(p, [Stale(p) EXCEPT !.at = "idle", !.servers = servers])
  BY DEF WhipNodes
<1>. QED BY <1>1, <1>2, IdleAware, EndsAware

LEMMA WhepAware ==
  ASSUME BaseInv, calm, NEW p \in Process, Whep(p), Aware(Op(p), proc[p], st, Up),
         Up \subseteq cfg.nodes
  PROVE  Learns(p, st, Up)
<1>0. /\ ProcInv /\ IsSequence(st.stream) /\ proc[p].at = "new" /\ Op(p) = "whep"
  BY DEF BaseInv, CatalogueInv, GroundInv, CalmInv, Whep, Is
<1>1. AtMostOne(Range(st.stream)) /\ Up \subseteq Range(st.stream)
  BY <1>0, CurrentReady DEF BaseInv, Whep, Aware
<1>. PICK known : known = stream_get(st)
  OBVIOUS
<1>2. known \in Seq(Known) /\ Aliases(known) \subseteq Range(st.stream)
  BY <1>0, StreamServers, StreamAliases
<1>. PICK servers : servers = Only(p, known)
  OBVIOUS
<1>3. \/ Finish(p, "not found")
      \/ servers # <<>> /\ Set(p, [Stale(p) EXCEPT !.at = "idle", !.servers = servers])
  BY DEF Whep
<1>4. CASE servers # <<>> /\ Set(p, [Stale(p) EXCEPT !.at = "idle", !.servers = servers])
  <2>1. Head(servers).alias \in Aliases(servers)
    BY <1>2, <1>4, OnlySome, HeadAlias
  <2>2. Aliases(servers) \subseteq Range(st.stream)
    BY <1>2, OnlyAliases
  <2>3. AtMostOne(Aliases(servers)) /\ Up \subseteq Aliases(servers)
    BY <1>1, <2>1, <2>2 DEF AtMostOne
  <2>. QED BY <1>0, <1>4, <2>3, IdleAware
<1>. QED BY <1>3, <1>4, EndsAware

LEMMA IdleNodeAware ==
  ASSUME BaseInv, NEW p \in Process, IdleNode(p), Aware(Op(p), proc[p], st, Up)
  PROVE  Learns(p, st, Up)
<1>0. ProcInv /\ proc[p].at = "idle" /\ Op(p) \in {"whip", "whep"}
  BY DEF BaseInv, CatalogueInv, IdleNode, Is
<1>. PICK best : best = maximum_idle_node(st, proc[p].servers)
  OBVIOUS
<1>1. \/ \E out : Finish(p, out) \/ Panic(p, out)
      \/ Goto(p, "cascade")
      \/ /\ Aliases(proc[p].servers) \subseteq get_cluster(st) /\ best # {}
         /\ Set(p, [Stale(p) EXCEPT !.at = "proxy", !.node = CHOOSE n \in best : TRUE])
  BY DEF IdleNode
<1>2. CASE Goto(p, "cascade")
  <2>1. PICK r : Set(p, r) /\ r.at = "cascade" /\ ~r.ready
    BY <1>0, <1>2, GotoShape
  <2>. QED BY <2>1, AwareElsewhere DEF Learns
<1>3. CASE /\ Aliases(proc[p].servers) \subseteq get_cluster(st) /\ best # {}
           /\ Set(p, [Stale(p) EXCEPT !.at = "proxy", !.node = CHOOSE n \in best : TRUE])
  <2>. PICK n : n = CHOOSE m \in best : TRUE
    OBVIOUS
  <2>1. n \in best
    BY <1>3
  <2>2. n \in Aliases(proc[p].servers) /\ n \in get_cluster(st)
    BY <1>3, <2>1, BestAlias
  <2>3. Up \subseteq {n}
    BY <1>0, <2>2 DEF Aware, Doing, AtMostOne
  <2>. QED BY <1>0, <1>3, <2>2, <2>3, ProxyAware
<1>. QED BY <1>1, <1>2, <1>3, EndsAware

LEMMA CreateAware ==
  ASSUME BaseInv, calm, NEW p \in Process, StreamCreate(p), Aware(Op(p), proc[p], st, Up)
  PROVE  Learns(p, st, Up)
<1>0. ProcInv /\ proc[p].at = "new"
  BY DEF BaseInv, CatalogueInv, StreamCreate, Is
<1>1. Up \subseteq Sees(st)
  BY <1>0, CurrentReady DEF BaseInv, StreamCreate, Aware
<1>2. \/ \E out : Finish(p, out)
      \/ /\ ~\E n \in get_cluster(st) : st.list[n].info.up
         /\ \E n \in get_cluster(st) : Set(p, [Stale(p) EXCEPT !.at = "proxy", !.node = n])
  BY DEF StreamCreate
<1>3. ASSUME ~\E n \in get_cluster(st) : st.list[n].info.up PROVE Up = {}
  BY <1>1, <1>3 DEF Sees, get_cluster
<1>. QED BY <1>0, <1>2, <1>3, ProxyAware, EndsAware

LEMMA PicksAware ==
  ASSUME ProcInv, NEW p \in Process, Session(p) \/ StreamDestroy(p) \/ ProxyDestroy(p), NEW s, NEW up
  PROVE  Learns(p, s, up)
<1>1. Op(p) \in {"session", "destroy"}
  BY DEF Session, StreamDestroy, ProxyDestroy, Is
<1>2. ASSUME NEW r, Set(p, r), r.at = "proxy", ~r.ready PROVE Learns(p, s, up)
  BY <1>1, <1>2, AwareElsewhere DEF Learns
<1>3. CASE Session(p)
  <2>1. \/ Finish(p, "not found")
        \/ \E t, n : Set(p, [Stale(p) EXCEPT !.at = "proxy", !.node = n, !.servers = <<t>>])
    BY <1>3 DEF Session
  <2>2. ASSUME NEW t, NEW n, Set(p, [Stale(p) EXCEPT !.at = "proxy", !.node = n, !.servers = <<t>>])
        PROVE  Learns(p, s, up)
    <3>1. PICK r : Set(p, r) /\ r.at = "proxy" /\ ~r.ready
      BY <2>2, SessionShape
    <3>. QED BY <1>2, <3>1
  <2>. QED BY <2>1, <2>2, EndsAware
<1>4. CASE StreamDestroy(p) \/ ProxyDestroy(p)
  <2>1. PICK r : Set(p, r) /\ (Settled(r) \/ r.at = "proxy") /\ ~r.ready
    BY <1>4, DestroyShape
  <2>. QED BY <1>2, <2>1, SettlesAware
<1>. QED BY <1>3, <1>4

LEMMA ProcessLearns ==
  ASSUME BaseInv, calm, NEW p \in Process, ProcessStep(p), faults' = faults, UNCHANGED casc,
         Aware(Op(p), proc[p], st, Up), AtMostOne(Up), Up \subseteq cfg.nodes
  PROVE  Learns(p, st', Up')
<1>0. CatalogueInv /\ NodeShape /\ ProcInv
  BY DEF BaseInv, CatalogueInv
<1>1. ASSUME UNCHANGED <<st, world>>, Learns(p, st, Up) PROVE Learns(p, st', Up')
  <2>1. st' = st /\ Up' = Up
    BY <1>1 DEF Up
  <2>. QED BY <1>1, <2>1
<1>2. ASSUME UNCHANGED world, Learns(p, st', Up) PROVE Learns(p, st', Up')
  <2>1. Up' = Up
    BY <1>2 DEF Up
  <2>. QED BY <1>2, <2>1
<1>3. CASE Update(p)
  BY <1>0, <1>2, <1>3, UpdateAware DEF Update, clusterVars
<1>10. CASE Strategy(p)
  BY <1>2, <1>10, StrategyAware DEF Strategy, clusterVars
<1>4. ASSUME NEW n \in Node, Fetch(p, n) PROVE Learns(p, st', Up')
  BY <1>1, <1>4, FetchAware DEF Fetch, clusterVars
<1>11. CASE DoCascadeCheck(p)
  BY <1>0, <1>11, RouteSettles, SettlesAware
<1>5. ASSUME NEW n \in Node, Put(p, n) PROVE Learns(p, st', Up')
  BY <1>2, <1>5, PutAware DEF Put, clusterVars
<1>6. CASE Whip(p) \/ WhipNodes(p) \/ Whep(p) \/ IdleNode(p) \/ StreamCreate(p)
  <2>1. UNCHANGED <<st, world>>
    BY <1>6, QuietFrame DEF Quiet
  <2>2. Learns(p, st, Up)
    BY <1>6, WhipAware, WhipNodesAware, WhepAware, IdleNodeAware, CreateAware
  <2>. QED BY <1>1, <2>1, <2>2
<1>7. CASE CascadeNewNode(p)
  <2>1. ASSUME NEW dst, casc' = [casc EXCEPT ![p] = [@ EXCEPT !.at = "call", !.dst = dst,
                                                     !.src = Head(proc[p].servers).alias]]
        PROVE  FALSE
    <3>1. DOMAIN casc = Process /\ "at" \in DOMAIN casc[p]
      BY DEF BaseInv, TaskInv, Tasked, NoCascade
    <3>2. casc'[p].at = "call"
      BY <2>1, <3>1
    <3>3. Op(p) = "whep" /\ proc[p].at = "cascade"
      BY <1>7 DEF CascadeNewNode, Is
    <3>4. casc[p].at # "call"
      BY <3>3 DEF BaseInv, TaskInv, Tasked
    <3>. QED BY <3>2, <3>4
  <2>2. Panic(p, "no destination")
    BY <1>7, <2>1 DEF CascadeNewNode
  <2>. QED BY <2>2, EndsAware
<1>8. CASE Session(p) \/ StreamDestroy(p) \/ ProxyDestroy(p)
  BY <1>0, <1>8, PicksAware
<1>9. CASE \E r : Set(p, r) /\ Settled(r)
  BY <1>9, SettlesAware
<1>. QED
  BY <1>0, <1>3, <1>4, <1>5, <1>6, <1>7, <1>8, <1>9, <1>10, <1>11, StepSettles
  DEF Looks, Picks, Hears

LEMMA WholeStays ==
  ASSUME cfg' = cfg
  PROVE  Whole' <=> Whole
BY DEF Whole

\* A cascade that has begun is not forgotten.
LEMMA CascadeSeen ==
  ASSUME TaskInv, NEW p \in Process, ProcessStep(p), cfg' = cfg, Uncascaded'
  PROVE  UNCHANGED casc
<1>1. CASE ~CascadeNewNode(p)
  BY <1>1, CascadesStay
<1>2. ASSUME NEW dst, casc' = [casc EXCEPT ![p] = [@ EXCEPT !.at = "call", !.dst = dst,
                                                   !.src = Head(proc[p].servers).alias]]
      PROVE  FALSE
  <2>1. DOMAIN casc = Process /\ "at" \in DOMAIN casc[p]
    BY DEF TaskInv, Tasked, NoCascade
  <2>2. casc'[p].at = "call"
    BY <1>2, <2>1
  <2>3. casc'[p].at = "none"
    BY DEF Uncascaded, NoCascade, Process
  <2>. QED BY <2>2, <2>3
<1>. QED BY <1>1, <1>2 DEF CascadeNewNode

LEMMA ProcessKeepsPiece ==
  ASSUME BaseInv, PieceInv, NEW p \in Process, ProcessStep(p), Calm
  PROVE  PieceInv'
<1>. SUFFICES ASSUME Whole', calm', Uncascaded' PROVE PieceInv'
  BY DEF PieceInv
<1>0. CatalogueInv /\ CalmInv /\ TaskInv /\ ProcInv /\ cfg \in Configs
  BY DEF BaseInv, CatalogueInv
<1>1. cfg' = cfg /\ Process' = Process
  BY <1>0, StepsStaySound DEF Process
<1>2. calm /\ faults' = faults
  BY <1>0, <1>1, CalmFacts
<1>3. UNCHANGED casc
  BY <1>0, <1>1, CascadeSeen
<1>4. Uncascaded
  BY <1>1, <1>3 DEF Uncascaded
<1>5. /\ AtMostOne(Up) /\ Up \subseteq cfg.nodes
      /\ \A n \in Node : (\E s \in world[n].pub : s[2] = "direct") => world[n].up
      /\ \A q \in Process : Aware(Op(q), proc[q], st, Up)
  BY <1>1, <1>2, <1>4, WholeStays DEF PieceInv
<1>6. AtMostOne(Up') /\ Up' \subseteq cfg.nodes
  <2>1. CASE Up' \subseteq Up
    BY <1>5, <2>1 DEF AtMostOne
  <2>2. ASSUME Op(p) \in {"whip", "whep", "create"}, proc[p].at = "proxy",
               Up' \subseteq Up \cup {proc[p].node}
        PROVE  AtMostOne(Up') /\ Up' \subseteq cfg.nodes
    <3>1. Up \subseteq {proc[p].node} /\ proc[p].node \in DOMAIN st.list
      BY <1>5, <2>2 DEF Aware
    <3>2. DOMAIN st.list = cfg.nodes
      BY <1>0, <1>2 DEF CalmInv, get_cluster
    <3>. QED BY <2>2, <3>1, <3>2 DEF AtMostOne
  <2>. QED BY <1>0, <2>1, <2>2, NewOnNode
<1>7. \A n \in Node : (\E s \in world'[n].pub : s[2] = "direct") => world'[n].up
  BY <1>0, <1>5, PublishedUp
<1>8. ASSUME NEW q \in Process PROVE Aware(Op(q), proc'[q], st', Up')
  <2>1. CASE q = p
    <3>1. Learns(p, st', Up')
      BY <1>2, <1>3, <1>5, ProcessLearns
    <3>2. PICK r : Set(p, r) /\ Aware(Op(p), r, st', Up')
      BY <3>1 DEF Learns
    <3>3. proc'[p] = r
      BY <1>0, <3>2, SetFacts
    <3>. QED BY <2>1, <3>2, <3>3
  <2>2. CASE q # p
    <3>1. ~Busy(q)'
      BY <1>0, <2>2, OthersRest
    <3>2. ~proc'[q].ready /\ proc'[q].at \notin Places
      BY <3>1 DEF Busy, Places
    <3>. QED BY <3>2, AwareElsewhere
  <2>. QED BY <2>1, <2>2
<1>9. (\A q \in Process : Aware(Op(q), proc[q], st, Up))'
  BY <1>1, <1>8 DEF Aware, Doing, AtMostOne, Aliases, Range, Telling, Sees, Op
<1>10. AtMostOne(Up)' /\ (Up \subseteq cfg.nodes)'
  BY <1>1, <1>6 DEF AtMostOne
<1>. QED BY <1>7, <1>9, <1>10 DEF PieceInv

\* The nodes of their own accord take a stream away at most.
LEMMA NodesKeepPiece ==
  ASSUME BaseInv, PieceInv, NEW n \in Node, FeedLost(n) \/ Idles(n) \/ StreamEnds(n), Calm
  PROVE  PieceInv'
<1>. SUFFICES ASSUME Whole', calm', Uncascaded' PROVE PieceInv'
  BY DEF PieceInv
<1>0. WorldTypes /\ cfg \in Configs
  BY DEF BaseInv, CatalogueInv
<1>1. UNCHANGED <<cfg, st, proc, casc>> /\ Process' = Process
  BY DEF FeedLost, Idles, StreamEnds, shared, Process
<1>2. calm /\ Whole /\ Uncascaded
  BY <1>0, <1>1, CalmFacts, WholeStays DEF Uncascaded
<1>3. /\ AtMostOne(Up) /\ Up \subseteq cfg.nodes
      /\ \A m \in Node : (\E s \in world[m].pub : s[2] = "direct") => world[m].up
      /\ \A q \in Process : Aware(Op(q), proc[q], st, Up)
  BY <1>2 DEF PieceInv
<1>4. ASSUME NEW m \in Node
      PROVE  \/ world'[m].pub = {} /\ (world'[m].up => world[m].up)
             \/ world'[m].pub = world[m].pub /\ world'[m].up = world[m].up
  <2>1. CASE FeedLost(n)
    BY <1>0, <2>1, NodeFields DEF FeedLost, WorldTypes
  <2>2. CASE Idles(n)
    BY <1>0, <2>2, NodeFields DEF Idles, WorldTypes
  <2>3. CASE StreamEnds(n)
    BY <1>0, <2>3, NodeFields DEF StreamEnds, WorldTypes
  <2>. QED BY <2>1, <2>2, <2>3
<1>5. Up' \subseteq Up
  BY <1>4 DEF Up
<1>6. \A m \in Node : (\E s \in world'[m].pub : s[2] = "direct") => world'[m].up
  BY <1>3, <1>4
<1>7. ASSUME NEW q \in Process PROVE Aware(Op(q), proc'[q], st', Up')
  <2>1. Aware(Op(q), proc[q], st, Up')
    BY <1>3, <1>5, AwareOfFewer
  <2>. QED BY <1>1, <2>1
<1>8. (\A q \in Process : Aware(Op(q), proc[q], st, Up))'
  BY <1>1, <1>7 DEF Aware, Doing, AtMostOne, Aliases, Range, Telling, Sees, Op
<1>9. AtMostOne(Up)' /\ (Up \subseteq cfg.nodes)'
  BY <1>1, <1>3, <1>5 DEF AtMostOne
<1>. QED BY <1>6, <1>8, <1>9 DEF PieceInv

LEMMA CascadesKeepPiece ==
  ASSUME BaseInv, NEW p \in Process, CascadeStep(p)
  PROVE  PieceInv'
<1>1. DOMAIN casc = Process /\ "at" \in DOMAIN casc[p] /\ cfg' = cfg
  BY CascadesKeepGround DEF BaseInv, TaskInv, Tasked, NoCascade, CascadeStep, CascadeCall,
     CascadeCheck, CascadeClose, CascadeCut, shared
<1>2. casc'[p].at # "none"
  <2>1. CASE CascadeCall(p)
    BY <1>1, <2>1 DEF CascadeCall, CascadeTo
  <2>2. CASE CascadeCheck(p)
    <3>1. \/ \E at \in {"close", "done"} : casc' = [casc EXCEPT ![p].at = at]
          \/ casc' = [casc EXCEPT ![p].attempts = @ + 1] /\ casc[p].at = "check"
      BY <2>2 DEF CascadeCheck, CascadeTo
    <3>. QED BY <1>1, <3>1
  <2>3. CASE CascadeClose(p)
    <3>1. \/ casc' = [casc EXCEPT ![p].at = "done"]
          \/ \E cut : casc' = [casc EXCEPT ![p].at = "cut", ![p].cut = cut, ![p].left = cut]
      BY <2>3 DEF CascadeClose, CascadeTo
    <3>. QED BY <1>1, <3>1
  <2>4. CASE CascadeCut(p)
    <3>1. \/ casc' = [casc EXCEPT ![p].at = "done"]
          \/ casc[p].at = "cut" /\ \E s : casc' = [casc EXCEPT ![p].left = @ \ {s}]
      BY <2>4 DEF CascadeCut, CascadeTo
    <3>. QED BY <1>1, <3>1
  <2>. QED BY <2>1, <2>2, <2>3, <2>4 DEF CascadeStep
<1>3. ~Uncascaded'
  BY <1>1, <1>2 DEF Uncascaded, NoCascade, Process
<1>. QED BY <1>3 DEF PieceInv

LEMMA PieceFrame ==
  ASSUME PieceInv, UNCHANGED <<cfg, st, proc, casc, world>>, calm' => calm
  PROVE  PieceInv'
<1>. SUFFICES ASSUME Whole', calm', Uncascaded' PROVE PieceInv'
  BY DEF PieceInv
<1>1. Whole /\ calm /\ Uncascaded /\ Process' = Process /\ Up' = Up
  BY WholeStays DEF Uncascaded, Process, Up
<1>2. /\ AtMostOne(Up) /\ Up \subseteq cfg.nodes
      /\ \A m \in Node : (\E s \in world[m].pub : s[2] = "direct") => world[m].up
      /\ \A q \in Process : Aware(Op(q), proc[q], st, Up)
  BY <1>1 DEF PieceInv
<1>3. ASSUME NEW q \in Process PROVE Aware(Op(q), proc'[q], st', Up')
  <2>1. Aware(Op(q), proc[q], st, Up)
    BY <1>2
  <2>. QED BY <1>1, <2>1
<1>4. ASSUME NEW q \in Process PROVE Aware(Op(q), proc[q], st, Up)'
  <2>1. Aware(Op(q), proc'[q], st', Up') /\ Op(q)' = Op(q)
    BY <1>3 DEF Op
  <2>. QED BY <2>1 DEF Aware, Doing, AtMostOne, Aliases, Range, Telling, Sees
<1>5. AtMostOne(Up)' /\ (Up \subseteq cfg.nodes)'
  BY <1>1, <1>2 DEF AtMostOne
<1>. QED BY <1>1, <1>2, <1>4, <1>5 DEF PieceInv

LEMMA PieceInit == Init => PieceInv
<1> SUFFICES ASSUME Init, Whole PROVE PieceInv
  BY DEF PieceInv
<1>1. world = cfg.world
  BY DEF Init
<1>2. AtMostOne(Up) /\ Up \subseteq cfg.nodes
  BY <1>1 DEF Up, AtMostOne, Whole
<1>3. ASSUME NEW p \in Process PROVE Aware(Op(p), proc[p], st, Up)
  <2>1. proc[p].at = "new" /\ ~proc[p].ready
    BY NewFields, NewSettled DEF Init
  <2>. QED BY <2>1, AwareElsewhere DEF Places
<1>. QED BY <1>1, <1>2, <1>3 DEF PieceInv, Whole

LEMMA PieceStep == BaseInv /\ PieceInv /\ [Next]_vars => PieceInv'
<1> SUFFICES ASSUME BaseInv, PieceInv, [Next]_vars PROVE PieceInv'
  OBVIOUS
<1>0. cfg \in Configs
  BY DEF BaseInv, CatalogueInv
<1>1. ASSUME NEW n \in Node, Announce(n), Calm PROVE ~calm'
  <2>1. events' = events + 1 /\ cfg' = cfg
    BY <1>1 DEF Announce, shared
  <2>. QED BY <1>0, <1>1, <2>1, CalmFacts DEF BaseInv, CountInv
<1>2. ASSUME Restart, Calm PROVE ~calm'
  <2>1. early' = TRUE /\ cfg' = cfg
    BY <1>2 DEF Restart
  <2>. QED BY <1>0, <1>2, <2>1, CalmFacts
<1>3. CASE ThreeSeconds /\ Calm
  BY <1>0, <1>3, CalmFacts, PieceFrame DEF ThreeSeconds, clusterVars
<1>4. CASE UNCHANGED vars
  BY <1>4, PieceFrame DEF vars, clusterVars
<1>5. ASSUME ~calm' PROVE PieceInv'
  BY <1>5 DEF PieceInv
<1>. QED
  BY <1>1, <1>2, <1>3, <1>4, <1>5, ProcessKeepsPiece, CascadesKeepPiece, NodesKeepPiece DEF Next

\* For any nodes and requests: a stream that is on one node to begin with is
\* published on one node (whip of route/proxy.rs, create of route/stream.rs), as
\* long as no two processes overlap, nothing fails and no cascade was tried.
THEOREM InOnePiece == Spec => [](Whole => OnePublisher)
<1>1. PieceInv => (Whole => OnePublisher)
  <2> SUFFICES ASSUME PieceInv, Whole, calm, Uncascaded
               PROVE  Cardinality({n \in Node : \E s \in world[n].pub : s[2] = "direct"}) <= 1
    BY DEF OnePublisher, Uncascaded
  <2>. PICK S : S = {n \in Node : \E s \in world[n].pub : s[2] = "direct"}
    OBVIOUS
  <2>1. S \subseteq Up /\ AtMostOne(Up)
    BY DEF PieceInv, Up
  <2>2. AtMostOne(S)
    BY <2>1 DEF AtMostOne
  <2>. QED BY <2>2, AtMostOneCounts
<1>. QED BY <1>1, BaseInit, BaseStep, PieceInit, PieceStep, PTL DEF Spec

--------------------------------------------------------------------------------
(* The limits of the nodes.                                                *)

\* An answer tells of at least the subscribers that a node has now.
Tells(info, now) ==
  /\ IsFiniteSet(info.sub) /\ Spectators(now) \subseteq info.sub
  /\ Spectators(now) # {} => info.up

\* The nodes that have still to answer, or whose answer is still to be put in.
Open(r) == IF r.at = "fetch" THEN r.wait \cup DOMAIN r.got ELSE {}

\* What WHEP knows of the subscribers of the nodes.
Counts(op, r, s, w, max) ==
  op = "whep" =>
    /\ r.ready => r.at \in Updates
    /\ r.at = "strategy" => \A n \in DOMAIN s.list : s.list[n].known \/ n \in r.wait
    /\ r.at \in {"fetch", "idle", "cascade"} \/ r.ready =>
         \A n \in DOMAIN s.list : s.list[n].known
    /\ r.at = "fetch" => \A n \in DOMAIN r.got : n \in Node /\ Tells(r.got[n], w[n])
    /\ r.at \in {"fetch", "idle", "cascade"} \/ r.ready =>
         \A n \in DOMAIN s.list \ Open(r) : Tells(s.list[n].info, w[n])
    /\ r.at = "fetch" \/ (r.at = "new" /\ r.ready) =>
         \A n \in DOMAIN s.list \ Open(r) : Spectators(w[n]) # {} => n \in Range(s.stream)
    /\ Doing(r, "idle") \/ Doing(r, "cascade") =>
         /\ \A n \in DOMAIN s.list :
              Spectators(w[n]) # {} => [alias |-> n, max |-> max] \in Range(r.servers)
         /\ \A server \in Range(r.servers) : server.max = max
    /\ r.at = "proxy" => r.node \in Node /\ Cardinality(Spectators(w[r.node])) < max

Limited ==
  \A n \in Node :
    /\ IsFiniteSet(world[n].sub) /\ Cardinality(Spectators(world[n])) <= cfg.max
    /\ Spectators(world[n]) # {} => world[n].up

Told == \A n \in get_cluster(st) : st.list[n].known => st.list[n].max = cfg.max

RoomInv ==
  Roomy /\ calm =>
    Limited /\ Told /\ \A p \in Process : Counts(Op(p), proc[p], st, world, cfg.max)

LEMMA SpectatorsCount ==
  ASSUME NEW info, IsFiniteSet(info.sub), NEW S, S \subseteq info.sub
  PROVE  /\ IsFiniteSet(S) /\ Cardinality(S) \in Nat
         /\ Cardinality(S) <= Cardinality(info.sub) /\ Cardinality(info.sub) \in Nat
BY FS_Subset, FS_CardinalityType

LEMMA CountsElsewhere ==
  ASSUME NEW op, NEW r, NEW s, NEW w, NEW max,
         op # "whep" \/ (~r.ready /\ r.at \notin Places)
  PROVE  Counts(op, r, s, w, max)
BY DEF Counts, Doing, Places

\* Fewer subscribers change nothing of that.
LEMMA CountsOfFewer ==
  ASSUME NEW op, NEW r, NEW s, NEW w, NEW v, NEW max \in Nat, Counts(op, r, s, w, max),
         DOMAIN s.list \subseteq Node,
         \A n \in Node : IsFiniteSet(w[n].sub) /\ Spectators(v[n]) \subseteq Spectators(w[n])
  PROVE  Counts(op, r, s, v, max)
<1>. SUFFICES ASSUME op = "whep" PROVE Counts(op, r, s, v, max)
  BY DEF Counts
<1>1. ASSUME NEW n \in Node, NEW info, Tells(info, w[n]) PROVE Tells(info, v[n])
  BY <1>1 DEF Tells
<1>2. ASSUME NEW n \in Node, Spectators(v[n]) # {} PROVE Spectators(w[n]) # {}
  BY <1>2
<1>3. ASSUME NEW n \in Node, Cardinality(Spectators(w[n])) < max
      PROVE  Cardinality(Spectators(v[n])) < max
  <2>. PICK W, V : W = Spectators(w[n]) /\ V = Spectators(v[n])
    OBVIOUS
  <2>1. V \subseteq W /\ IsFiniteSet(W) /\ Cardinality(W) \in Nat
    BY SpectatorsCount DEF Spectators
  <2>2. Cardinality(V) <= Cardinality(W) /\ Cardinality(V) \in Nat
    BY <2>1, FS_Subset, FS_CardinalityType
  <2>. QED BY <1>3, <2>1, <2>2
<1>4. r.at = "fetch" => \A n \in DOMAIN r.got : n \in Node /\ Tells(r.got[n], v[n])
  BY <1>1 DEF Counts
<1>5. r.at \in {"fetch", "idle", "cascade"} \/ r.ready =>
         \A n \in DOMAIN s.list \ Open(r) : Tells(s.list[n].info, v[n])
  BY <1>1 DEF Counts
<1>6. r.at = "fetch" \/ (r.at = "new" /\ r.ready) =>
         \A n \in DOMAIN s.list \ Open(r) : Spectators(v[n]) # {} => n \in Range(s.stream)
  BY <1>2 DEF Counts
<1>7. Doing(r, "idle") \/ Doing(r, "cascade") =>
         \A n \in DOMAIN s.list :
              Spectators(v[n]) # {} => [alias |-> n, max |-> max] \in Range(r.servers)
  BY <1>2 DEF Counts
<1>8. r.at = "proxy" => r.node \in Node /\ Cardinality(Spectators(v[r.node])) < max
  BY <1>3 DEF Counts
<1>. QED BY <1>4, <1>5, <1>6, <1>7, <1>8 DEF Counts

Counted(p, s, w) == \E r : Set(p, r) /\ Counts(Op(p), r, s, w, cfg.max)

LEMMA SettlesCounted ==
  ASSUME NEW p, NEW s, NEW w, \E r : Set(p, r) /\ Settled(r)
  PROVE  Counted(p, s, w)
BY CountsElsewhere DEF Counted, Settled

LEMMA EndsCounted ==
  ASSUME NEW p, NEW out, Finish(p, out) \/ Panic(p, out), NEW s, NEW w
  PROVE  Counted(p, s, w)
BY FinishSettles, PanicSettles, SettlesCounted

LEMMA UpdateCounted ==
  ASSUME BaseInv, NEW p \in Process, Update(p), Counts(Op(p), proc[p], st, world, cfg.max)
  PROVE  Counted(p, st', world)
<1>0. ProcInv /\ DOMAIN st = {"list", "stream", "session"}
  BY DEF BaseInv, CatalogueInv, StoreTypes
<1>. PICK s : s = st'
  OBVIOUS
<1>1. s.list = st.list
  BY <1>0 DEF Update, ClearStreams
<1>2. PICK r : /\ Set(p, r) /\ r.at = "strategy" /\ r.back = proc[p].at /\ r.wait = AskStrategy(st)
               /\ r.servers = proc[p].servers /\ ~r.ready
  BY <1>0, UpdateShape
<1>3. \A n \in DOMAIN s.list : s.list[n].known \/ n \in r.wait
  BY <1>1, <1>2 DEF AskStrategy
<1>4. Counts(Op(p), r, s, world, cfg.max)
  BY <1>1, <1>2, <1>3 DEF Counts, Doing
<1>. QED BY <1>2, <1>4 DEF Counted

LEMMA PollsCounted ==
  ASSUME ProcInv, NEW p \in Process, NEW wait, NEW got, Polls(p, wait, got),
         proc[p].at \in {"strategy", "fetch"},
         Counts(Op(p), proc[p], st, world, cfg.max), NEW s, DOMAIN s.list = DOMAIN st.list,
         \A n \in DOMAIN s.list : s.list[n].known,
         \A n \in DOMAIN got : n \in Node /\ Tells(got[n], world[n]),
         \A n \in DOMAIN s.list \ (wait \cup DOMAIN got) :
           /\ Tells(s.list[n].info, world[n])
           /\ Spectators(world[n]) # {} => n \in Range(s.stream)
  PROVE  Counted(p, s, world)
<1>1. PICK r : Set(p, r) /\ Polled(p, wait, got, r)
  BY PollsShape
<1>2. proc[p].back \in Updates /\ r.servers = proc[p].servers
  BY <1>1 DEF ProcInv, Sound, Polled
<1>3. ASSUME Op(p) = "whep", Doing(r, "idle") \/ Doing(r, "cascade")
      PROVE  /\ \A n \in DOMAIN s.list :
                  Spectators(world[n]) # {} => [alias |-> n, max |-> cfg.max] \in Range(r.servers)
             /\ \A server \in Range(r.servers) : server.max = cfg.max
  <2>1. proc[p].back = r.at \/ (r.at = "fetch" /\ proc[p].back = r.back)
    BY <1>1 DEF Polled
  <2>2. proc[p].back \in {"idle", "cascade"}
    BY <1>2, <1>3, <2>1 DEF Doing, Updates
  <2>3. Doing(proc[p], "idle") \/ Doing(proc[p], "cascade")
    BY <2>2 DEF Doing
  <2>. QED BY <1>2, <1>3, <2>3 DEF Counts
<1>4. CASE wait = {} /\ got = Empty
  <2>1. DOMAIN got = {} /\ r.at = proc[p].back /\ r.ready = TRUE
    BY <1>1, <1>4 DEF Empty, Polled
  <2>2. Open(r) = {} /\ wait \cup DOMAIN got = {}
    BY <1>2, <1>4, <2>1 DEF Open, Updates
  <2>3. Counts(Op(p), r, s, world, cfg.max)
    BY <1>2, <1>3, <2>1, <2>2 DEF Counts, Updates
  <2>. QED BY <1>1, <2>3 DEF Counted
<1>5. CASE ~(wait = {} /\ got = Empty)
  <2>1. r.at = "fetch" /\ r.wait = wait /\ r.got = got /\ ~r.ready
    BY <1>1, <1>5 DEF Polled
  <2>2. Open(r) = wait \cup DOMAIN got
    BY <2>1 DEF Open
  <2>3. Counts(Op(p), r, s, world, cfg.max)
    BY <1>3, <2>1, <2>2 DEF Counts
  <2>. QED BY <1>1, <2>3 DEF Counted
<1>. QED BY <1>4, <1>5

LEMMA StrategyCounted ==
  ASSUME BaseInv, NEW p \in Process, Strategy(p), faults' = faults, Op(p) = "whep",
         Counts(Op(p), proc[p], st, world, cfg.max)
  PROVE  Counted(p, st', world)
<1>0. /\ ProcInv /\ NodeShape /\ DOMAIN st = {"list", "stream", "session"}
      /\ proc[p].at = "strategy"
  BY DEF BaseInv, CatalogueInv, StoreTypes, Strategy
<1>. PICK nodes : nodes = get_cluster(st)
  OBVIOUS
<1>. PICK s : s = st'
  OBVIOUS
<1>. PICK known, max : known = proc[p].wait /\ max = cfg.max
  OBVIOUS
<1>1. s = ClearStreams(PutStrategy(st, known, max)) /\ Polls(p, nodes, Empty)
  BY StrategyHeard
<1>6. \A n \in DOMAIN st.list : DOMAIN st.list[n] = DOMAIN NewNode
  BY <1>0 DEF NodeShape
<1>2. Heard(st, s, known, max)
  BY <1>0, <1>1, <1>6, StrategyFacts
<1>3. \A n \in DOMAIN s.list : s.list[n].known
  BY <1>0, <1>2 DEF Counts, Heard
<1>4. DOMAIN Empty = {} /\ nodes \cup DOMAIN Empty = DOMAIN s.list
  BY <1>2 DEF Empty, get_cluster, Heard
<1>7. DOMAIN s.list = DOMAIN st.list
  BY <1>2 DEF Heard
<1>5. Counted(p, s, world)
  BY <1>0, <1>1, <1>3, <1>4, <1>7, PollsCounted
<1>. QED BY <1>5

LEMMA FetchCounted ==
  ASSUME BaseInv, NEW p \in Process, NEW n \in Node, Fetch(p, n), faults' = faults, Limited,
         Op(p) = "whep", Counts(Op(p), proc[p], st, world, cfg.max)
  PROVE  Counted(p, st, world)
<1>. PICK got, wait : got = With(proc[p].got, n, world[n]) /\ wait = proc[p].wait \ {n}
  OBVIOUS
<1>0. ProcInv /\ proc[p].at = "fetch" /\ n \in proc[p].wait /\ Polls(p, wait, got)
  BY FetchHeard DEF BaseInv, CatalogueInv
<1>1. /\ DOMAIN got = DOMAIN proc[p].got \cup {n} /\ got[n] = world[n]
      /\ \A m \in DOMAIN proc[p].got \ {n} : got[m] = proc[p].got[m]
  BY DEF With
<1>2. Tells(world[n], world[n])
  BY DEF Limited, Tells, Spectators
<1>3. /\ \A m \in DOMAIN st.list : st.list[m].known
      /\ \A m \in DOMAIN proc[p].got : m \in Node /\ Tells(proc[p].got[m], world[m])
      /\ \A m \in DOMAIN st.list \ (proc[p].wait \cup DOMAIN proc[p].got) :
           /\ Tells(st.list[m].info, world[m])
           /\ Spectators(world[m]) # {} => m \in Range(st.stream)
  BY <1>0 DEF Counts, Open
<1>4. \A m \in DOMAIN got : m \in Node /\ Tells(got[m], world[m])
  BY <1>1, <1>2, <1>3
<1>5. wait \cup DOMAIN got = proc[p].wait \cup DOMAIN proc[p].got
  BY <1>0, <1>1
<1>. QED BY <1>0, <1>3, <1>4, <1>5, PollsCounted

LEMMA PutCounted ==
  ASSUME BaseInv, NEW p \in Process, NEW n \in Node, Put(p, n), Op(p) = "whep",
         Counts(Op(p), proc[p], st, world, cfg.max)
  PROVE  Counted(p, st', world)
<1>0. /\ ProcInv /\ proc[p].at = "fetch" /\ n \in DOMAIN proc[p].got
      /\ DOMAIN st = {"list", "stream", "session"} /\ IsSequence(st.stream) /\ NodeShape
  BY DEF BaseInv, CatalogueInv, StoreTypes, GroundInv, Put
<1>1. CASE n \notin get_cluster(st)
  <2>1. Panic(p, "node gone")
    BY <1>1 DEF Put
  <2>. QED BY <2>1, EndsCounted
<1>2. CASE n \in get_cluster(st)
  <2>. PICK info, wait : info = proc[p].got[n] /\ wait = proc[p].wait
    OBVIOUS
  <2>. PICK got : got = [m \in DOMAIN proc[p].got \ {n} |-> proc[p].got[m]]
    OBVIOUS
  <2>1. st' = PutAnswer(st, n, info) /\ Polls(p, wait, got)
    BY <1>2 DEF Put
  <2>. PICK s : s = st'
    OBVIOUS
  <2>2. /\ DOMAIN s.list = DOMAIN st.list
        /\ \A m \in DOMAIN st.list \ {n} : s.list[m] = st.list[m]
        /\ s.list[n].info = info /\ s.list[n].known = st.list[n].known
        /\ info.up => Range(s.stream) = Range(st.stream) \cup {n}
        /\ ~info.up => s.stream = st.stream
    BY <1>0, <1>2, <2>1, PutFacts DEF NodeShape, get_cluster
  <2>3. /\ \A m \in DOMAIN st.list : st.list[m].known
        /\ \A m \in DOMAIN proc[p].got : m \in Node /\ Tells(proc[p].got[m], world[m])
        /\ \A m \in DOMAIN st.list \ (wait \cup DOMAIN proc[p].got) :
             /\ Tells(st.list[m].info, world[m])
             /\ Spectators(world[m]) # {} => m \in Range(st.stream)
    BY <1>0 DEF Counts, Open
  <2>4. \A m \in DOMAIN s.list : s.list[m].known
    BY <2>2, <2>3
  <2>5. \A m \in DOMAIN got : m \in Node /\ Tells(got[m], world[m])
    BY <2>3
  <2>6. ASSUME NEW m \in DOMAIN s.list \ (wait \cup DOMAIN got)
        PROVE  /\ Tells(s.list[m].info, world[m])
               /\ Spectators(world[m]) # {} => m \in Range(s.stream)
    <3>1. CASE m = n
      <4>1. Tells(info, world[n])
        BY <1>0, <2>3
      <4>. QED BY <2>2, <3>1, <4>1 DEF Tells
    <3>2. CASE m # n
      <4>1. m \notin DOMAIN proc[p].got /\ m \notin wait /\ s.list[m] = st.list[m]
        BY <2>2, <3>2
      <4>. QED BY <2>2, <2>3, <4>1
    <3>. QED BY <3>1, <3>2
  <2>7. Polls(p, wait, got) /\ DOMAIN s.list = DOMAIN st.list
    BY <2>1, <2>2
  <2>8. Counted(p, s, world)
    BY <1>0, <2>4, <2>5, <2>6, <2>7, PollsCounted
  <2>. QED BY <2>8
<1>. QED BY <1>1, <1>2

LEMMA StreamRange ==
  ASSUME IsSequence(st.stream)
  PROVE  Range(stream_get(st)) = {Server(st, n) : n \in Range(st.stream) \cap get_cluster(st)}
<1>. PICK known : known = stream_get(st)
  OBVIOUS
<1>1. known \in Seq(Known) /\ Aliases(known) = Range(st.stream) \cap get_cluster(st)
  BY StreamServers, StreamAliases
<1>2. ASSUME NEW i \in DOMAIN known
      PROVE  known[i] = Server(st, known[i].alias)
  <2>1. known[i] \in Known
    BY <1>1
  <2>. QED BY <2>1 DEF Known, Server
<1>3. ASSUME NEW i \in DOMAIN known
      PROVE  known[i].alias \in Range(st.stream) \cap get_cluster(st)
  BY <1>1, <1>3 DEF Aliases
<1>4. ASSUME NEW n \in Range(st.stream) \cap get_cluster(st)
      PROVE  Server(st, n) \in Range(known)
  <2>1. PICK i \in DOMAIN known : known[i].alias = n
    BY <1>1 DEF Aliases
  <2>. QED BY <1>2, <2>1 DEF Range
<1>. QED BY <1>2, <1>3, <1>4 DEF Range

\* The node that a subscriber goes to has room.
LEMMA ProxyCounted ==
  ASSUME ProcInv, NEW p \in Process, NEW n, Set(p, [Stale(p) EXCEPT !.at = "proxy", !.node = n]),
         n \in Node, Cardinality(Spectators(world[n])) < cfg.max, NEW s
  PROVE  Counted(p, s, world)
<1>1. PICK r : Set(p, r) /\ r.at = "proxy" /\ r.node = n /\ ~r.ready
  BY ProxyShape
<1>2. Counts(Op(p), r, s, world, cfg.max)
  BY <1>1 DEF Counts, Doing
<1>. QED BY <1>1, <1>2 DEF Counted

LEMMA WhepCounted ==
  ASSUME BaseInv, calm, Told, Roomy, NEW p \in Process, Whep(p),
         Counts(Op(p), proc[p], st, world, cfg.max)
  PROVE  Counted(p, st, world)
<1>0. ProcInv /\ IsSequence(st.stream) /\ proc[p].at = "new" /\ Op(p) = "whep"
  BY DEF BaseInv, CatalogueInv, GroundInv, Whep, Is
<1>1. proc[p].ready
  BY <1>0, CurrentReady DEF BaseInv, Whep
<1>2. /\ \A n \in DOMAIN st.list : st.list[n].known
      /\ \A n \in DOMAIN st.list : Tells(st.list[n].info, world[n])
      /\ \A n \in DOMAIN st.list : Spectators(world[n]) # {} => n \in Range(st.stream)
  BY <1>0, <1>1 DEF Counts, Open
<1>. PICK servers : servers = stream_get(st)
  OBVIOUS
<1>3. \/ Finish(p, "not found")
      \/ Set(p, [Stale(p) EXCEPT !.at = "idle", !.servers = servers])
  BY <1>0 DEF Whep, Only, Roomy
<1>4. CASE Set(p, [Stale(p) EXCEPT !.at = "idle", !.servers = servers])
  <2>1. Range(servers) = {Server(st, n) : n \in Range(st.stream) \cap get_cluster(st)}
    BY <1>0, StreamRange
  <2>2. \A n \in DOMAIN st.list : Server(st, n) = [alias |-> n, max |-> cfg.max]
    BY <1>2 DEF Server, Told, get_cluster
  <2>3. \A n \in DOMAIN st.list :
          Spectators(world[n]) # {} => [alias |-> n, max |-> cfg.max] \in Range(servers)
    BY <1>2, <2>1, <2>2 DEF get_cluster
  <2>4. \A server \in Range(servers) : server.max = cfg.max
    BY <2>1, <2>2 DEF get_cluster
  <2>5. PICK r : Set(p, r) /\ r.at = "idle" /\ r.servers = servers /\ ~r.ready
    BY <1>0, <1>4, IdleShape
  <2>6. Counts(Op(p), r, st, world, cfg.max)
    BY <1>2, <2>3, <2>4, <2>5 DEF Counts
  <2>. QED BY <2>5, <2>6 DEF Counted
<1>. QED BY <1>3, <1>4, EndsCounted

LEMMA IdleNodeCounted ==
  ASSUME BaseInv, Roomy, NEW p \in Process, IdleNode(p), Op(p) = "whep",
         Counts(Op(p), proc[p], st, world, cfg.max)
  PROVE  Counted(p, st, world)
<1>0. /\ ProcInv /\ proc[p].at = "idle" /\ cfg.max \in Nat /\ cfg.max > 0
      /\ get_cluster(st) \subseteq Node
  BY LivemanAssumption DEF BaseInv, CatalogueInv, StoreTypes, IdleNode, Is, Roomy
<1>1. /\ \A n \in DOMAIN st.list : st.list[n].known
      /\ \A n \in DOMAIN st.list : Tells(st.list[n].info, world[n])
      /\ \A n \in DOMAIN st.list :
           Spectators(world[n]) # {} => [alias |-> n, max |-> cfg.max] \in Range(proc[p].servers)
      /\ \A server \in Range(proc[p].servers) : server.max = cfg.max
  BY <1>0 DEF Counts, Open, Doing
<1>. PICK best : best = maximum_idle_node(st, proc[p].servers)
  OBVIOUS
<1>2. \/ \E out : Finish(p, out) \/ Panic(p, out)
      \/ Goto(p, "cascade")
      \/ /\ Aliases(proc[p].servers) \subseteq get_cluster(st) /\ best # {}
         /\ Set(p, [Stale(p) EXCEPT !.at = "proxy", !.node = CHOOSE n \in best : TRUE])
  BY DEF IdleNode
<1>3. CASE Goto(p, "cascade")
  <2>1. PICK r : Set(p, r) /\ r.at = "cascade" /\ r.servers = proc[p].servers /\ ~r.ready
    BY <1>0, <1>3, GotoShape
  <2>2. Counts(Op(p), r, st, world, cfg.max)
    BY <1>1, <2>1 DEF Counts
  <2>. QED BY <2>1, <2>2 DEF Counted
<1>4. CASE /\ Aliases(proc[p].servers) \subseteq get_cluster(st) /\ best # {}
           /\ Set(p, [Stale(p) EXCEPT !.at = "proxy", !.node = CHOOSE n \in best : TRUE])
  <2>. PICK n : n = CHOOSE m \in best : TRUE
    OBVIOUS
  <2>1. n \in best
    BY <1>4
  <2>2. PICK i \in DOMAIN proc[p].servers :
          proc[p].servers[i].alias = n /\ Remain(st, proc[p].servers[i]) > 0
    BY <2>1 DEF maximum_idle_node
  <2>3. proc[p].servers[i].max = cfg.max
    BY <1>1 DEF Range
  <2>4. n \in DOMAIN st.list /\ n \in Node
    BY <1>0, <1>4, <2>1, BestAlias DEF get_cluster
  <2>. PICK info, S : info = st.list[n].info /\ S = Spectators(world[n])
    OBVIOUS
  <2>5. IsFiniteSet(info.sub) /\ S \subseteq info.sub /\ (S # {} => info.up)
    BY <1>1, <2>4 DEF Tells
  <2>6. /\ Cardinality(S) \in Nat /\ Cardinality(S) <= Cardinality(info.sub)
        /\ Cardinality(info.sub) \in Nat
    BY <2>5, SpectatorsCount
  <2>7. ASSUME info.up PROVE Cardinality(S) < cfg.max
    <3>1. Remain(st, proc[p].servers[i]) = cfg.max - Cardinality(info.sub)
      BY <2>2, <2>3, <2>7 DEF Remain
    <3>. QED BY <1>0, <2>2, <2>6, <3>1
  <2>8. ASSUME ~info.up PROVE Cardinality(S) < cfg.max
    BY <1>0, <2>5, <2>8, FS_EmptySet
  <2>. QED BY <1>0, <1>4, <2>4, <2>7, <2>8, ProxyCounted
<1>. QED BY <1>2, <1>3, <1>4, EndsCounted

LEMMA CascadeNewNodeCounted ==
  ASSUME BaseInv, Roomy, Told, NEW p \in Process, CascadeNewNode(p),
         Counts(Op(p), proc[p], st, world, cfg.max)
  PROVE  Counted(p, st, world)
<1>0. /\ ProcInv /\ proc[p].at = "cascade" /\ Op(p) = "whep" /\ cfg.max \in Nat /\ cfg.max > 0
      /\ get_cluster(st) \subseteq Node
  BY LivemanAssumption DEF BaseInv, CatalogueInv, StoreTypes, CascadeNewNode, Is, Roomy
<1>1. /\ \A n \in DOMAIN st.list : st.list[n].known
      /\ \A n \in DOMAIN st.list :
           Spectators(world[n]) # {} => [alias |-> n, max |-> cfg.max] \in Range(proc[p].servers)
  BY <1>0 DEF Counts, Doing
<1>2. \/ \E out : Panic(p, out)
      \/ \E dst \in get_cluster(st) :
           /\ Server(st, dst) \notin Range(proc[p].servers)
           /\ Set(p, [Stale(p) EXCEPT !.at = "proxy", !.node = dst])
  BY DEF CascadeNewNode
<1>3. ASSUME NEW dst \in get_cluster(st), Server(st, dst) \notin Range(proc[p].servers),
             Set(p, [Stale(p) EXCEPT !.at = "proxy", !.node = dst])
      PROVE  Counted(p, st, world)
  <2>1. Server(st, dst) = [alias |-> dst, max |-> cfg.max]
    BY <1>1 DEF Server, Told, get_cluster
  <2>2. Spectators(world[dst]) = {}
    BY <1>1, <1>3, <2>1 DEF get_cluster
  <2>3. Cardinality(Spectators(world[dst])) < cfg.max
    BY <1>0, <2>2, FS_EmptySet
  <2>. QED BY <1>0, <1>3, <2>3, ProxyCounted
<1>. QED BY <1>2, <1>3, EndsCounted

LEMMA ProcessCounted ==
  ASSUME BaseInv, calm, Roomy, Told, Limited, NEW p \in Process, ProcessStep(p), faults' = faults,
         Counts(Op(p), proc[p], st, world, cfg.max)
  PROVE  Counted(p, st', world')
<1>0. CatalogueInv /\ ProcInv
  BY DEF BaseInv, CatalogueInv
<1>1. CASE Op(p) # "whep"
  <2>1. PICK r : Set(p, r)
    BY <1>0, StepsSet
  <2>. QED BY <1>1, <2>1, CountsElsewhere DEF Counted
<1>2. CASE Op(p) = "whep"
  <2>1. ASSUME UNCHANGED <<st, world>>, Counted(p, st, world) PROVE Counted(p, st', world')
    BY <2>1
  <2>2. ASSUME UNCHANGED world, Counted(p, st', world) PROVE Counted(p, st', world')
    BY <2>2
  <2>3. CASE Update(p)
    BY <2>2, <2>3, UpdateCounted DEF Update, clusterVars
  <2>10. CASE Strategy(p)
    BY <1>2, <2>2, <2>10, StrategyCounted DEF Strategy, clusterVars
  <2>4. ASSUME NEW n \in Node, Fetch(p, n) PROVE Counted(p, st', world')
    BY <1>2, <2>1, <2>4, FetchCounted DEF Fetch, clusterVars
  <2>5. ASSUME NEW n \in Node, Put(p, n) PROVE Counted(p, st', world')
    BY <1>2, <2>2, <2>5, PutCounted DEF Put, clusterVars
  <2>6. CASE Whep(p) \/ IdleNode(p)
    <3>1. UNCHANGED <<st, world>>
      BY <2>6, QuietFrame DEF Quiet
    <3>. QED BY <1>2, <2>1, <2>6, <3>1, WhepCounted, IdleNodeCounted
  <2>7. CASE CascadeNewNode(p)
    BY <2>1, <2>7, CascadeNewNodeCounted DEF CascadeNewNode, clusterVars
  <2>8. ~WhipNodes(p) /\ ~Picks(p) /\ ~DoCascadeCheck(p)
    BY <1>2 DEF WhipNodes, Picks, Whip, Session, StreamCreate, StreamDestroy, ProxyDestroy, Is,
       DoCascadeCheck, CheckNodes, CheckServers, CheckInfos, CheckDelete
  <2>9. CASE \E r : Set(p, r) /\ Settled(r)
    BY <2>9, SettlesCounted
  <2>. QED
    BY <1>0, <2>3, <2>4, <2>5, <2>6, <2>7, <2>8, <2>9, <2>10, StepSettles DEF Looks, Hears
<1>. QED BY <1>1, <1>2

\* A node keeps at most the spectators it has, and none when its stream goes.
Fewer(n) ==
  /\ IsFiniteSet(world'[n].sub)
  /\ Spectators(world'[n]) \subseteq Spectators(world[n])
  /\ Spectators(world'[n]) # {} => world'[n].up

LEMMA SameSubscribers ==
  ASSUME NEW n \in Node, Limited, world'[n].sub = world[n].sub, world[n].up => world'[n].up
  PROVE  Fewer(n)
BY DEF Fewer, Limited, Spectators

LEMMA FewerSubscribers ==
  ASSUME NEW n \in Node, Limited, world'[n].sub \subseteq world[n].sub, world'[n].up = world[n].up
  PROVE  Fewer(n)
<1>1. IsFiniteSet(world'[n].sub)
  BY FS_Subset DEF Limited
<1>2. Spectators(world'[n]) \subseteq Spectators(world[n])
  BY DEF Spectators
<1>. QED BY <1>1, <1>2 DEF Fewer, Limited

LEMMA NoSubscribers ==
  ASSUME NEW n, world'[n].sub = {}
  PROVE  Fewer(n)
<1>1. Spectators(world'[n]) = {}
  BY DEF Spectators
<1>. QED BY <1>1, FS_EmptySet DEF Fewer

\* Only WHEP adds a subscriber, on the node that it has chosen.
LEMMA ProcessSpectators ==
  ASSUME CatalogueInv, Limited, NEW p \in Process, ProcessStep(p), NEW n \in Node
  PROVE  \/ Fewer(n)
         \/ /\ Op(p) = "whep" /\ proc[p].at = "proxy" /\ n = proc[p].node
            /\ world'[n].up /\ world'[n].sub = world[n].sub \cup {Direct(p)}
<1>0. WorldTypes /\ get_cluster(st) \subseteq Node
  BY DEF CatalogueInv, StoreTypes
<1>1. ASSUME UNCHANGED world PROVE Fewer(n)
  BY <1>1, SameSubscribers
<1>2. ASSUME Quiet(p) PROVE UNCHANGED world
  BY <1>2, QuietFrame
<1>3. ASSUME \/ UpdateStep(p) \/ KeepSession(p) \/ Halt(p) \/ Post(p) \/ Write(p) \/ Ack(p)
      PROVE  UNCHANGED world
  BY <1>3 DEF UpdateStep, Update, Strategy, Fetch, Put, KeepSession, Halt, Post, Write, Ack, clusterVars
<1>4. CASE ProxySession(p)
  <2>1. ASSUME n # proc[p].node PROVE world'[n] = world[n]
    BY <1>0, <1>4, <2>1 DEF ProxySession, WorldTypes
  <2>2. ASSUME n = proc[p].node
        PROVE  \/ world'[n] = world[n]
               \/ world'[n].sub = world[n].sub /\ world'[n].up
               \/ /\ Op(p) = "whep" /\ proc[p].at = "proxy"
                  /\ world'[n].up /\ world'[n].sub = world[n].sub \cup {Direct(p)}
    BY <1>0, <1>4, <2>2, NodeFields DEF ProxySession, WorldTypes, Is
  <2>. QED BY <2>1, <2>2, SameSubscribers
<1>5. CASE ProxyDelete(p)
  <2>1. UNCHANGED world \/ \E s : NodeDelete(proc[p].node, s)
    BY <1>5 DEF ProxyDelete, clusterVars
  <2>2. ASSUME NEW s, NodeDelete(proc[p].node, s) PROVE Fewer(n)
    <3>1. \/ world' = [world EXCEPT ![proc[p].node] = NoStream]
          \/ world' = [world EXCEPT ![proc[p].node].sub = @ \ {s}]
      BY <2>2 DEF NodeDelete
    <3>2. \/ world'[n].sub = {}
          \/ world'[n].sub \subseteq world[n].sub /\ world'[n].up = world[n].up
      BY <1>0, <3>1, NodeFields DEF WorldTypes
    <3>. QED BY <3>2, NoSubscribers, FewerSubscribers
  <2>. QED BY <1>1, <2>1, <2>2
<1>6. CASE ProxyCreate(p)
  <2>1. world'[n].sub = world[n].sub /\ (world[n].up => world'[n].up)
    BY <1>0, <1>6, NodeFields DEF ProxyCreate, WorldTypes
  <2>. QED BY <2>1, SameSubscribers
<1>7. CASE ProxyDestroy(p)
  <2>1. UNCHANGED world \/ \E m : world' = [world EXCEPT ![m] = NoStream]
    BY <1>7 DEF ProxyDestroy, clusterVars
  <2>2. ASSUME NEW m, world' = [world EXCEPT ![m] = NoStream] PROVE Fewer(n)
    <3>1. world'[n].sub = {} \/ world'[n] = world[n]
      BY <1>0, <2>2, NodeFields DEF WorldTypes
    <3>. QED BY <3>1, NoSubscribers, SameSubscribers
  <2>. QED BY <1>1, <2>1, <2>2
<1>8. CASE DoCascadeCheck(p)
  <2>1. world'[n].sub \subseteq world[n].sub /\ world'[n].up = world[n].up
    BY <1>0, <1>8, CheckDeletes, DeleteTypes
  <2>. QED BY <2>1, FewerSubscribers
<1>. QED
  BY <1>1, <1>2, <1>3, <1>4, <1>5, <1>6, <1>7, <1>8
  DEF ProcessStep, RouteStep, RecordStep, Quiet

LEMMA FewerLimited ==
  ASSUME NEW n \in Node, Limited, Fewer(n), cfg.max \in Nat
  PROVE  Cardinality(Spectators(world'[n])) <= cfg.max
<1>. PICK S, T : S = Spectators(world[n]) /\ T = Spectators(world'[n])
  OBVIOUS
<1>1. IsFiniteSet(S) /\ Cardinality(S) \in Nat /\ Cardinality(S) <= cfg.max
  BY SpectatorsCount DEF Limited, Spectators
<1>2. T \subseteq S
  BY DEF Fewer
<1>3. Cardinality(T) \in Nat /\ Cardinality(T) <= Cardinality(S)
  BY <1>1, <1>2, FS_Subset, FS_CardinalityType
<1>. QED BY <1>1, <1>3

LEMMA OneMoreLimited ==
  ASSUME NEW n \in Node, Limited, NEW s, world'[n].sub = world[n].sub \cup {s}, cfg.max \in Nat,
         Cardinality(Spectators(world[n])) < cfg.max
  PROVE  IsFiniteSet(world'[n].sub) /\ Cardinality(Spectators(world'[n])) <= cfg.max
<1>. PICK A, B, S, T : /\ A = world[n].sub /\ B = world'[n].sub
                       /\ S = Spectators(world[n]) /\ T = Spectators(world'[n])
  OBVIOUS
<1>1. IsFiniteSet(B)
  <2>1. IsFiniteSet(A) /\ B = A \cup {s}
    BY DEF Limited
  <2>. QED BY <2>1, FS_AddElement
<1>2. IsFiniteSet(S) /\ Cardinality(S) \in Nat
  BY SpectatorsCount DEF Limited, Spectators
<1>3. T \subseteq S \cup {s}
  BY DEF Spectators
<1>4. /\ IsFiniteSet(S \cup {s})
      /\ Cardinality(S \cup {s}) = Cardinality(S) \/ Cardinality(S \cup {s}) = Cardinality(S) + 1
  BY <1>2, FS_AddElement
<1>5. Cardinality(T) <= Cardinality(S \cup {s}) /\ Cardinality(T) \in Nat
  BY <1>3, <1>4, FS_Subset, FS_CardinalityType
<1>. QED BY <1>1, <1>2, <1>4, <1>5

\* A node's limit is the one it has told.
LEMMA ProcessTold ==
  ASSUME BaseInv, Told, NEW p \in Process, ProcessStep(p), cfg' = cfg
  PROVE  Told'
<1>0. DOMAIN st = {"list", "stream", "session"} /\ IsSequence(st.stream) /\ NodeShape
  BY DEF BaseInv, CatalogueInv, StoreTypes, GroundInv
<1>1. CASE UNCHANGED st
  BY <1>1 DEF Told, get_cluster
<1>5. CASE Update(p)
  <2>1. st'.list = st.list
    BY <1>0, <1>5 DEF Update, ClearStreams
  <2>. QED BY <2>1 DEF Told, get_cluster
<1>2. CASE Strategy(p)
  <2>1. PICK known : st' \in {PutStrategy(st, known, cfg.max),
                              ClearStreams(PutStrategy(st, known, cfg.max))}
    BY <1>2 DEF Strategy
  <2>. PICK s, max : s = st' /\ max = cfg.max
    OBVIOUS
  <2>2. /\ s \in {PutStrategy(st, known, max), ClearStreams(PutStrategy(st, known, max))}
        /\ \A n \in DOMAIN st.list : DOMAIN st.list[n] = DOMAIN NewNode
    BY <1>0, <2>1 DEF NodeShape
  <2>3. Heard(st, s, known, max)
    BY <1>0, <2>2, StrategyFacts
  <2>4. \A n \in DOMAIN st'.list : st'.list[n].known => st'.list[n].max = cfg'.max
    BY <2>3 DEF Told, get_cluster, Heard
  <2>. QED BY <2>4 DEF Told, get_cluster
<1>3. ASSUME NEW n \in Node, Put(p, n), ~UNCHANGED st PROVE Told'
  <2>1. st' = PutAnswer(st, n, proc[p].got[n]) /\ n \in DOMAIN st.list
    BY <1>3 DEF Put, get_cluster
  <2>2. /\ DOMAIN st'.list = DOMAIN st.list
        /\ \A m \in DOMAIN st.list \ {n} : st'.list[m] = st.list[m]
        /\ st'.list[n].known = st.list[n].known /\ st'.list[n].max = st.list[n].max
    BY <1>0, <2>1, PutFacts DEF NodeShape
  <2>. QED BY <2>2 DEF Told, get_cluster
<1>4. CASE KeepSession(p)
  <2>1. st'.list = st.list
    BY <1>0, <1>4 DEF KeepSession, session_put, stream_put
  <2>. QED BY <2>1 DEF Told, get_cluster
<1>. QED BY <1>1, <1>2, <1>3, <1>4, <1>5, StoreSteps

LEMMA RoomyStays ==
  ASSUME cfg' = cfg
  PROVE  Roomy' <=> Roomy
BY DEF Roomy, Op, Process, Spectators

\* The parts of the invariant, put together after a step.
LEMMA RoomJoins ==
  ASSUME cfg' = cfg, Told',
         \A n \in Node : /\ IsFiniteSet(world'[n].sub)
                         /\ Cardinality(Spectators(world'[n])) <= cfg.max
                         /\ Spectators(world'[n]) # {} => world'[n].up,
         \A q \in Process : Counts(Op(q), proc'[q], st', world', cfg.max)
  PROVE  RoomInv'
<1>1. Limited'
  BY DEF Limited, Spectators
<1>2. ASSUME NEW q \in Process PROVE Counts(Op(q), proc[q], st, world, cfg.max)'
  <2>1. Counts(Op(q), proc'[q], st', world', cfg.max) /\ Op(q)' = Op(q) /\ cfg'.max = cfg.max
    BY DEF Op
  <2>. QED BY <2>1 DEF Counts, Tells, Spectators, Open, Doing, Range
<1>3. Process' = Process
  BY DEF Process
<1>. QED BY <1>1, <1>2, <1>3 DEF RoomInv

LEMMA ProcessKeepsRoom ==
  ASSUME BaseInv, RoomInv, NEW p \in Process, ProcessStep(p), Calm
  PROVE  RoomInv'
<1>. SUFFICES ASSUME Roomy', calm' PROVE RoomInv'
  BY DEF RoomInv
<1>0. CatalogueInv /\ CalmInv /\ TaskInv /\ ProcInv /\ cfg \in Configs /\ cfg.max \in Nat
  BY LivemanAssumption DEF BaseInv, CatalogueInv
<1>1. cfg' = cfg
  BY <1>0, StepsStaySound
<1>2. calm /\ faults' = faults /\ Roomy
  BY <1>0, <1>1, CalmFacts, RoomyStays
<1>3. Limited /\ Told /\ \A q \in Process : Counts(Op(q), proc[q], st, world, cfg.max)
  BY <1>2 DEF RoomInv
<1>4. ASSUME NEW n \in Node
      PROVE  /\ IsFiniteSet(world'[n].sub)
             /\ Cardinality(Spectators(world'[n])) <= cfg.max
             /\ Spectators(world'[n]) # {} => world'[n].up
  <2>1. CASE Fewer(n)
    BY <1>0, <1>3, <2>1, FewerLimited DEF Fewer
  <2>2. ASSUME Op(p) = "whep", proc[p].at = "proxy", n = proc[p].node, world'[n].up,
               world'[n].sub = world[n].sub \cup {Direct(p)}
        PROVE  /\ IsFiniteSet(world'[n].sub)
               /\ Cardinality(Spectators(world'[n])) <= cfg.max
               /\ Spectators(world'[n]) # {} => world'[n].up
    <3>1. Cardinality(Spectators(world[n])) < cfg.max
      BY <1>3, <2>2 DEF Counts
    <3>. QED BY <1>0, <1>3, <2>2, <3>1, OneMoreLimited
  <2>. QED BY <1>0, <1>3, <2>1, <2>2, ProcessSpectators
<1>5. ASSUME NEW q \in Process PROVE Counts(Op(q), proc'[q], st', world', cfg.max)
  <2>1. CASE q = p
    <3>1. Counted(p, st', world')
      BY <1>2, <1>3, ProcessCounted
    <3>2. PICK r : Set(p, r) /\ Counts(Op(p), r, st', world', cfg.max)
      BY <3>1 DEF Counted
    <3>3. proc'[p] = r
      BY <1>0, <3>2, SetFacts
    <3>. QED BY <2>1, <3>2, <3>3
  <2>2. CASE q # p
    <3>1. ~Busy(q)'
      BY <1>0, <2>2, OthersRest
    <3>2. ~proc'[q].ready /\ proc'[q].at \notin Places
      BY <3>1 DEF Busy, Places
    <3>. QED BY <3>2, CountsElsewhere
  <2>. QED BY <2>1, <2>2
<1>6. Told'
  BY <1>1, <1>3, ProcessTold
<1>. QED BY <1>1, <1>4, <1>5, <1>6, RoomJoins

\* Steps that no process takes, and that bring no spectators.
LEMMA FewerKeepsRoom ==
  ASSUME BaseInv, Limited, Told', UNCHANGED <<cfg, proc>>, \A n \in Node : Fewer(n),
         \A q \in Process : Counts(Op(q), proc[q], st', world, cfg.max),
         DOMAIN st'.list \subseteq Node
  PROVE  RoomInv'
<1>0. cfg.max \in Nat
  BY LivemanAssumption DEF BaseInv, CatalogueInv
<1>1. \A n \in Node : IsFiniteSet(world[n].sub) /\ Spectators(world'[n]) \subseteq Spectators(world[n])
  BY DEF Limited, Fewer
<1>2. ASSUME NEW n \in Node
      PROVE  /\ IsFiniteSet(world'[n].sub)
             /\ Cardinality(Spectators(world'[n])) <= cfg.max
             /\ Spectators(world'[n]) # {} => world'[n].up
  BY <1>0, FewerLimited DEF Fewer
<1>. PICK s, v : s = st' /\ v = world'
  OBVIOUS
<1>3. ASSUME NEW q \in Process PROVE Counts(Op(q), proc[q], s, v, cfg.max)
  <2>1. Counts(Op(q), proc[q], s, world, cfg.max)
    OBVIOUS
  <2>. QED BY <1>0, <1>1, <2>1, CountsOfFewer
<1>4. \A q \in Process : Counts(Op(q), proc'[q], st', world', cfg.max)
  BY <1>3
<1>. QED BY <1>2, <1>4, RoomJoins

LEMMA NodesKeepRoom ==
  ASSUME BaseInv, RoomInv, NEW n \in Node, FeedLost(n) \/ Idles(n) \/ StreamEnds(n), Calm
  PROVE  RoomInv'
<1>. SUFFICES ASSUME Roomy', calm' PROVE RoomInv'
  BY DEF RoomInv
<1>0. WorldTypes /\ cfg \in Configs /\ DOMAIN st.list \subseteq Node
  BY DEF BaseInv, CatalogueInv, StoreTypes, get_cluster
<1>1. UNCHANGED <<cfg, st, proc>>
  BY DEF FeedLost, Idles, StreamEnds, shared
<1>2. calm /\ Roomy
  BY <1>0, <1>1, CalmFacts, RoomyStays
<1>3. Limited /\ Told /\ \A q \in Process : Counts(Op(q), proc[q], st, world, cfg.max)
  BY <1>2 DEF RoomInv
<1>4. ASSUME NEW m \in Node PROVE Fewer(m)
  <2>1. \/ world'[m].sub = {}
        \/ world'[m].sub = world[m].sub /\ world'[m].up = world[m].up
    <3>1. CASE FeedLost(n)
      BY <1>0, <3>1, NodeFields DEF FeedLost, WorldTypes
    <3>2. CASE Idles(n)
      BY <1>0, <3>2, NodeFields DEF Idles, WorldTypes
    <3>3. CASE StreamEnds(n)
      BY <1>0, <3>3, NodeFields DEF StreamEnds, WorldTypes
    <3>. QED BY <3>1, <3>2, <3>3
  <2>. QED BY <1>3, <2>1, NoSubscribers, SameSubscribers
<1>5. Told'
  BY <1>1, <1>3 DEF Told, get_cluster
<1>6. \A q \in Process : Counts(Op(q), proc[q], st', world, cfg.max)
  BY <1>1, <1>3
<1>7. DOMAIN st'.list \subseteq Node
  BY <1>0, <1>1
<1>. QED BY <1>1, <1>3, <1>4, <1>5, <1>6, <1>7, FewerKeepsRoom

\* The request that a cascade belongs to has chosen its node.
LEMMA CascadesKeepRoom ==
  ASSUME BaseInv, RoomInv, NEW p \in Process, CascadeStep(p), Calm
  PROVE  RoomInv'
<1>. SUFFICES ASSUME Roomy', calm' PROVE RoomInv'
  BY DEF RoomInv
<1>0. /\ CatalogueInv /\ WorldTypes /\ cfg \in Configs /\ DOMAIN st.list \subseteq Node /\ NodeShape
      /\ casc[p].at \in {"call", "check", "close", "cut"}
  BY DEF BaseInv, CatalogueInv, StoreTypes, get_cluster, CascadeStep, CascadeCall, CascadeCheck,
         CascadeClose, CascadeCut
<1>1. UNCHANGED <<cfg, proc>>
  <2>. USE DEF shared
  <2>1. CASE CascadeCall(p) BY <2>1 DEF CascadeCall
  <2>2. CASE CascadeCheck(p) BY <2>2 DEF CascadeCheck
  <2>3. CASE CascadeClose(p) BY <2>3 DEF CascadeClose
  <2>4. CASE CascadeCut(p) BY <2>4 DEF CascadeCut
  <2>. QED BY <2>1, <2>2, <2>3, <2>4 DEF CascadeStep
<1>2. calm /\ Roomy
  BY <1>0, <1>1, CalmFacts, RoomyStays
<1>3. Limited /\ Told /\ \A q \in Process : Counts(Op(q), proc[q], st, world, cfg.max)
  BY <1>2 DEF RoomInv
<1>4. Busy(p) /\ proc[p].at \in {"proxy", "record", "done"}
  BY <1>0 DEF Busy, BaseInv, TaskInv, Tasked
<1>5. \/ UNCHANGED st \/ st'.list = st.list
      \/ /\ DOMAIN st'.list = DOMAIN st.list
         /\ \A n \in DOMAIN st.list :
              st'.list[n].known = st.list[n].known /\ st'.list[n].max = st.list[n].max
  <2>1. CASE CascadeClose(p)
    BY <1>0, <2>1, RefreshFacts
  <2>. QED BY <2>1 DEF CascadeStep, CascadeCall, CascadeCheck, CascadeCut
<1>6. Told' /\ DOMAIN st'.list \subseteq Node
  BY <1>0, <1>1, <1>3, <1>5 DEF Told, get_cluster
<1>7. ASSUME NEW n \in Node PROVE Fewer(n)
  <2>1. ASSUME UNCHANGED world PROVE Fewer(n)
    BY <1>3, <2>1, SameSubscribers
  <2>2. ASSUME NEW src, NEW dst, NEW s, s[2] # "direct", Feeds(p, src, dst, s) PROVE Fewer(n)
    <3>1. /\ world'[n].sub \subseteq world[n].sub \cup {s} /\ (world[n].up => world'[n].up)
      BY <1>0, <2>2, NodeFields DEF Feeds, WorldTypes
    <3>2. Spectators(world'[n]) \subseteq Spectators(world[n])
      BY <2>2, <3>1 DEF Spectators
    <3>3. IsFiniteSet(world'[n].sub)
      <4>. PICK A, B : A = world[n].sub /\ B = world'[n].sub
        OBVIOUS
      <4>1. IsFiniteSet(A) /\ B \subseteq A \cup {s}
        BY <1>3, <3>1 DEF Limited
      <4>2. IsFiniteSet(A \cup {s})
        BY <4>1, FS_AddElement
      <4>. QED BY <4>1, <4>2, FS_Subset
    <3>. QED BY <1>3, <3>1, <3>2, <3>3 DEF Fewer, Limited
  <2>3. CASE CascadeCall(p)
    <3>1. \/ UNCHANGED world
          \/ \E src, dst : \/ Feeds(p, src, dst, <<p, "push", Manager>>)
                           \/ Feeds(p, src, dst, <<p, "pull", Nowhere>>)
      BY <2>3 DEF CascadeCall
    <3>2. <<p, "push", Manager>>[2] # "direct" /\ <<p, "pull", Nowhere>>[2] # "direct"
      OBVIOUS
    <3>. QED BY <2>1, <2>2, <3>1, <3>2
  <2>4. CASE CascadeCheck(p)
    BY <2>1, <2>4 DEF CascadeCheck, clusterVars
  <2>5. CASE CascadeClose(p)
    BY <2>1, <2>5 DEF CascadeClose, clusterVars
  <2>6. CASE CascadeCut(p)
    <3>1. UNCHANGED world \/ \E src, s : SessionDelete(src, s)
      BY <2>6 DEF CascadeCut
    <3>2. ASSUME NEW src, NEW s, SessionDelete(src, s) PROVE Fewer(n)
      <4>1. world'[n].sub \subseteq world[n].sub /\ world'[n].up = world[n].up
        BY <1>0, <3>2, DeleteTypes
      <4>. QED BY <1>3, <4>1, FewerSubscribers
    <3>. QED BY <2>1, <3>1, <3>2
  <2>. QED BY <2>3, <2>4, <2>5, <2>6 DEF CascadeStep
<1>8. ASSUME NEW q \in Process PROVE Counts(Op(q), proc[q], st', world, cfg.max)
  <2>1. CASE q = p
    BY <1>3, <1>4, <2>1 DEF Counts, Doing, Updates
  <2>2. CASE q # p
    <3>1. ~Busy(q)
      BY <1>2, <1>4, <2>2 DEF BaseInv, CalmInv
    <3>2. ~proc[q].ready /\ proc[q].at \notin Places
      BY <3>1 DEF Busy, Places
    <3>. QED BY <3>2, CountsElsewhere
  <2>. QED BY <2>1, <2>2
<1>. QED BY <1>1, <1>3, <1>6, <1>7, <1>8, FewerKeepsRoom

LEMMA RoomFrame ==
  ASSUME RoomInv, UNCHANGED <<cfg, st, proc, world>>, calm' => calm
  PROVE  RoomInv'
<1>. SUFFICES ASSUME Roomy', calm' PROVE RoomInv'
  BY DEF RoomInv
<1>1. Roomy
  BY RoomyStays
<1>2. Limited /\ Told /\ \A q \in Process : Counts(Op(q), proc[q], st, world, cfg.max)
  BY <1>1 DEF RoomInv
<1>3. Told'
  BY <1>2 DEF Told, get_cluster
<1>4. \A n \in Node : /\ IsFiniteSet(world'[n].sub)
                      /\ Cardinality(Spectators(world'[n])) <= cfg.max
                      /\ Spectators(world'[n]) # {} => world'[n].up
  BY <1>2 DEF Limited
<1>5. \A q \in Process : Counts(Op(q), proc'[q], st', world', cfg.max)
  BY <1>2
<1>. QED BY <1>3, <1>4, <1>5, RoomJoins

LEMMA RoomInit == Init => RoomInv
<1> SUFFICES ASSUME Init, Roomy PROVE RoomInv
  BY DEF RoomInv
<1>1. world = cfg.world /\ cfg \in Configs
  BY DEF Init
<1>2. Limited
  BY <1>1, LivemanAssumption DEF Limited, Roomy
<1>3. st.list = [n \in cfg.nodes |-> NewNode]
  BY DEF Init, NewStorage
<1>4. Told
  BY <1>3, NodeFields DEF Told, get_cluster
<1>5. ASSUME NEW p \in Process PROVE Counts(Op(p), proc[p], st, world, cfg.max)
  <2>1. proc[p].at = "new" /\ ~proc[p].ready
    BY NewFields, NewSettled DEF Init
  <2>. QED BY <2>1, CountsElsewhere DEF Places
<1>. QED BY <1>2, <1>4, <1>5 DEF RoomInv

LEMMA RoomStep == BaseInv /\ RoomInv /\ [Next]_vars => RoomInv'
<1> SUFFICES ASSUME BaseInv, RoomInv, [Next]_vars PROVE RoomInv'
  OBVIOUS
<1>0. cfg \in Configs
  BY DEF BaseInv, CatalogueInv
<1>1. ASSUME NEW n \in Node, Announce(n), Calm PROVE ~calm'
  <2>1. events' = events + 1 /\ cfg' = cfg
    BY <1>1 DEF Announce, shared
  <2>. QED BY <1>0, <1>1, <2>1, CalmFacts DEF BaseInv, CountInv
<1>2. ASSUME Restart, Calm PROVE ~calm'
  <2>1. early' = TRUE /\ cfg' = cfg
    BY <1>2 DEF Restart
  <2>. QED BY <1>0, <1>2, <2>1, CalmFacts
<1>3. CASE ThreeSeconds /\ Calm
  BY <1>0, <1>3, CalmFacts, RoomFrame DEF ThreeSeconds, clusterVars
<1>4. CASE UNCHANGED vars
  BY <1>4, RoomFrame DEF vars, clusterVars
<1>5. ASSUME ~calm' PROVE RoomInv'
  BY <1>5 DEF RoomInv
<1>. QED
  BY <1>1, <1>2, <1>3, <1>4, <1>5, ProcessKeepsRoom, CascadesKeepRoom, NodesKeepRoom DEF Next

\* For any nodes and requests: as long as no two processes overlap and nothing
\* fails, no node gets more of Liveman's subscribers than its strategy allows,
\* cascades included (whep, maximum_idle_node and cascade_new_node of
\* route/proxy.rs), in a cluster that is Roomy: the limit is not 0, no subscriber
\* chooses its nodes, and no node is beyond the limit to begin with.
THEOREM LimitsHonoured == Spec => []LimitHonoured
<1>1. RoomInv => LimitHonoured
  BY DEF RoomInv, Limited, LimitHonoured, Spectators
<1>. QED BY <1>1, BaseInit, BaseStep, RoomInit, RoomStep, PTL DEF Spec
================================================================================

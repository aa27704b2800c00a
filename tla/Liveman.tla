-------------------------------- MODULE Liveman --------------------------------
(***************************************************************************)
(* The cluster manager (liveman/src): HTTP handlers and ticks that share   *)
(* one Storage, forward requests to the nodes, start cascades between them *)
(* and keep a catalogue of their recordings in a database.                 *)
(*                                                                         *)
(* A process is a request or a tick.  Every await on the network or on the *)
(* database ends a step, and each call may fail while faults are left.  A  *)
(* node is known by its one stream, its recording and its recording index; *)
(* it does what the routes of liveion do with the calls of this module.    *)
(***************************************************************************)
EXTENDS LivemanStore, RecordIndex

CONSTANTS
  Configs,     \* the configurations and the bounds to explore
  MaxRecord    \* bound: recordings

Nowhere == "nowhere"
Manager == "manager"      \* the public address of Liveman, which no node has
Ticks == {"cascade_check", "auto_record_check", "auto_record_rotate", "record_sync"}

ASSUME LivemanAssumption ==
  /\ Nowhere \notin Node /\ Manager \notin Node /\ IsFiniteSet(Node)
  /\ Unlimited \in Nat /\ MaxRecord \in Nat
  /\ \A c \in Configs :
       /\ {c.max, c.limit, c.faults, c.events, c.restarts, c.refreshes, c.attempts} \subseteq Nat
       /\ {c.close, c.token, c.dbfails, c.ends} \cup c.early \subseteq BOOLEAN
       /\ c.mode \in {"push", "pull"}
       /\ c.nodes \cup c.dynamic \cup c.bare \subseteq Node
       /\ IsFiniteSet(DOMAIN c.calls)
       /\ DOMAIN c.world = Node
       /\ \A n \in Node :
            /\ DOMAIN c.world[n] = DOMAIN NoStream /\ IsFiniteSet(c.world[n].sub)
            /\ \A s \in c.world[n].pub \cup c.world[n].sub : s[1] \notin DOMAIN c.calls

VARIABLES
  cfg,
  st,        \* Storage, shared by all
  early,     \* less than 3 s since the start: no update yet
  proc,      \* the processes
  casc,      \* the task of cascade_new_node that a request has spawned
  world,     \* world[n]: the stream on node n
  recording, \* recording[n]: its recording of the stream, or 0
  index,     \* index[n]: its recording index
  made,      \* made[i]: the node of recording i
  clock,     \* updated_at of the newest entry
  db,        \* the recordings table
  cursor,    \* record_sync_cursor
  faults, events, restarts,    \* failures, announcements and restarts so far
  told,      \* sessions clients hold, <<session, node>>
  calm       \* no two processes have overlapped, nothing has failed

clusterVars == <<world, recording, index, made, clock>>
shared == <<cfg, early, restarts>>
vars == <<cfg, st, early, proc, casc, clusterVars, db, cursor, faults, events, restarts, told, calm>>

Process == DOMAIN cfg.calls

NewProcess ==
  [at |-> "new", ready |-> FALSE, rounds |-> 0, wait |-> {}, got |-> Empty, back |-> "new",
   servers |-> <<>>, node |-> Nowhere, left |-> <<>>, record |-> 0, records |-> <<>>,
   acks |-> {}, last |-> 0, row |-> FALSE, urls |-> {}, map |-> {}, infos |-> Empty,
   out |-> "none", shaken |-> FALSE]

NoCascade ==
  [at |-> "none", src |-> Nowhere, dst |-> Nowhere, attempts |-> 0, cut |-> {}, left |-> {}]

Init ==
  /\ cfg \in Configs
  /\ early \in cfg.early
  /\ st = NewStorage(cfg.nodes)
  /\ proc = [p \in Process |-> NewProcess]
  /\ casc = [p \in Process |-> NoCascade]
  /\ world = cfg.world
  /\ recording = [n \in Node |-> 0]
  /\ index = [n \in Node |-> {}]
  /\ made = <<>> /\ clock = 0
  /\ db = {}
  /\ cursor = [n \in Node |-> 0]
  /\ faults = 0 /\ events = 0 /\ restarts = 0
  /\ told = {}
  /\ calm = ~early

Op(p) == cfg.calls[p].op
Only(p, servers) ==
  LET q == cfg.calls[p].nodes
  IN IF q = {} THEN servers ELSE Among(servers, {s \in Range(servers) : s.alias \in q})

Is(p, label, ops) == proc[p].at = label /\ Op(p) \in ops
\* Any step but an update makes the process' clone of the storage old.
Stale(p) == [proc[p] EXCEPT !.ready = FALSE]
Set(p, r) == proc' = [proc EXCEPT ![p] = r]
Goto(p, label) == Set(p, [Stale(p) EXCEPT !.at = label])

\* A request is answered; a tick waits for its next time.
Finish(p, out) ==
  proc' = [proc EXCEPT ![p] =
    IF Op(p) \in Ticks THEN NewProcess ELSE [NewProcess EXCEPT !.at = "done", !.out = out]]

\* An unwrap of nothing ends the request, and the loop of a tick for good.
Panic(p, why) ==
  proc' = [proc EXCEPT ![p] = [NewProcess EXCEPT !.at = "panic", !.out = why, !.shaken = proc[p].shaken]]

Fault == faults < cfg.faults /\ faults' = faults + 1
NoFault == UNCHANGED faults

--------------------------------------------------------------------------------
(* Storage::update                                                         *)

\* Handlers that begin with an update: at "new", and again before the nodes, the
\* infos or all servers are read.
Updates == {"new", "nodes", "idle", "cascade", "infos"}

\* A clone of the storage that has updated less than 3 s ago does not again.
Current(p) == proc[p].ready \/ early \/ proc[p].rounds > 0

\* The streams are forgotten, and the nodes without a strategy are asked for it.
Update(p) ==
  /\ proc[p].at \in Updates /\ ~proc[p].ready /\ ~early
  /\ proc[p].rounds < cfg.refreshes
  /\ st' = ClearStreams(st)
  /\ Set(p, [Stale(p) EXCEPT !.at = "strategy", !.back = proc[p].at,
             !.rounds = proc[p].rounds + 1, !.wait = AskStrategy(st)])
  /\ UNCHANGED <<shared, casc, clusterVars, db, cursor, faults, events, told>>

\* The update goes on until every node has answered and every answer is put in;
\* then the handler does.
Polls(p, wait, got) ==
  IF wait = {} /\ got = Empty
  THEN proc' = [proc EXCEPT ![p] = [@ EXCEPT !.at = proc[p].back, !.back = "new", !.ready = TRUE,
                                             !.wait = {}, !.got = Empty]]
  ELSE Set(p, [Stale(p) EXCEPT !.at = "fetch", !.wait = wait, !.got = got])

\* The strategies are put in, the streams are forgotten again, and all nodes are
\* asked for theirs.  A body that fails is unwrapped.
Strategy(p) ==
  /\ proc[p].at = "strategy"
  /\ \E silent \in SUBSET proc[p].wait :
       LET heard == PutStrategy(st, proc[p].wait \ silent, cfg.max) IN
       \/ /\ faults + Cardinality(silent) <= cfg.faults
          /\ faults' = faults + Cardinality(silent)
          /\ st' = ClearStreams(heard)
          /\ Polls(p, get_cluster(st), Empty)
       \/ silent # {} /\ Fault /\ st' = heard /\ Panic(p, "body")
  /\ UNCHANGED <<shared, casc, clusterVars, db, cursor, events, told>>

\* A node answers.  One that cannot be reached is passed over; when it fails in the
\* middle of its answer, the body is unwrapped.
Fetch(p, n) ==
  /\ proc[p].at = "fetch" /\ n \in proc[p].wait
  /\ LET rest == proc[p].wait \ {n} IN
     \/ NoFault /\ Polls(p, rest, With(proc[p].got, n, world[n]))
     \/ Fault /\ Polls(p, rest, proc[p].got)
     \/ Fault /\ Panic(p, "body")
  /\ UNCHANGED <<shared, st, casc, clusterVars, db, cursor, events, told>>

\* Its answer is put in, and a node that has left meanwhile is unwrapped.
Put(p, n) ==
  /\ proc[p].at = "fetch" /\ n \in DOMAIN proc[p].got
  /\ IF n \in get_cluster(st)
     THEN /\ st' = PutAnswer(st, n, proc[p].got[n])
          /\ Polls(p, proc[p].wait, [m \in DOMAIN proc[p].got \ {n} |-> proc[p].got[m]])
     ELSE Panic(p, "node gone") /\ UNCHANGED st
  /\ UNCHANGED <<shared, casc, clusterVars, db, cursor, faults, events, told>>

\* In three seconds every clone is stale.
ThreeSeconds ==
  /\ early /\ early' = FALSE
  /\ UNCHANGED <<cfg, st, proc, casc, clusterVars, db, cursor, faults, events, restarts, told>>

--------------------------------------------------------------------------------
(* Nodes.                                                                  *)

Stopped(ix, n) == IF recording[n] = 0 THEN ix ELSE update_status(ix, recording[n], clock')

\* recorder::stop, and the recorder when its stream goes.
StopRecording(n) ==
  /\ clock' = IF recording[n] = 0 THEN clock ELSE clock + 1
  /\ index' = [index EXCEPT ![n] = Stopped(@, n)]
  /\ recording' = [recording EXCEPT ![n] = 0]
  /\ UNCHANGED made

\* DELETE of a session: the stream goes with its publisher.
NodeDelete(n, s) ==
  IF s \in world[n].pub
  THEN world' = [world EXCEPT ![n] = NoStream] /\ StopRecording(n)
  ELSE /\ world' = [world EXCEPT ![n].sub = @ \ {s}]
       /\ UNCHANGED <<recording, index, made, clock>>

\* A publisher whose cascade session has ended on the other node loses its
\* connection.
FeedLost(n) ==
  /\ \E s \in world[n].pub :
       /\ s[2] = "fed"
       /\ ~\E t \in world[s[3]].sub : t[1] = s[1] /\ t[2] \in {"push", "pull"}
  /\ world' = [world EXCEPT ![n].pub = {}]
  /\ UNCHANGED <<shared, st, proc, casc, recording, index, made, clock, db, cursor, faults,
                 events, told>>

\* Nobody has subscribed for maximum_idle_time.
Idles(n) ==
  /\ world[n].up /\ world[n].sub = {} /\ ~world[n].idle
  /\ world' = [world EXCEPT ![n].idle = TRUE]
  /\ UNCHANGED <<shared, st, proc, casc, recording, index, made, clock, db, cursor, faults,
                 events, told>>

\* A ghost: the nodes have changed under the processes P that are at work.
Shake(P) ==
  proc' = [p \in Process |-> [proc[p] EXCEPT !.shaken =
             @ \/ (p \in P /\ (proc[p].at \notin {"new", "done", "panic"} \/ proc[p].ready))]]

\* A node tells net4mqtt that it is there, or the broker that it is not.
Announce(n) ==
  /\ n \in cfg.dynamic /\ events < cfg.events
  /\ events' = events + 1
  /\ \/ /\ st' = AddNode(st, n)
        /\ Shake(IF n \in get_cluster(st) THEN {} ELSE {p \in Process : Op(p) = "cascade_check"})
     \/ /\ n \in get_cluster(st)
        /\ st' = RemoveNode(st, n)
        /\ Shake(Process)
  /\ UNCHANGED <<shared, casc, clusterVars, db, cursor, faults, told>>

--------------------------------------------------------------------------------
(* route/proxy.rs                                                          *)

\* Mutant: whip always takes the node with the most room.
WhipAnywhere(p) ==
  /\ Is(p, "new", {"whip"}) /\ Current(p)
  /\ Goto(p, "nodes")
  /\ UNCHANGED <<shared, st, casc, clusterVars, db, cursor, faults, events, told>>

\* whip: the first node of the stream, or else the node with the most room.
Whip(p) ==
  /\ Is(p, "new", {"whip"}) /\ Current(p)
  /\ LET known == stream_get(st)
         servers == Only(p, known)
     IN IF known = <<>> THEN Goto(p, "nodes")
        ELSE IF servers = <<>> THEN Finish(p, "no node")
        ELSE Set(p, [Stale(p) EXCEPT !.at = "proxy", !.node = Head(servers).alias])
  /\ UNCHANGED <<shared, st, casc, clusterVars, db, cursor, faults, events, told>>

\* All nodes, in whatever order the map has them.
WhipNodes(p) ==
  /\ Is(p, "nodes", {"whip"}) /\ Current(p)
  /\ \E order \in SetToSeqs(get_cluster(st)) :
       LET servers == Only(p, [i \in DOMAIN order |-> Server(st, order[i])])
       IN IF servers = <<>> THEN Finish(p, "no node")
          ELSE Set(p, [Stale(p) EXCEPT !.at = "idle", !.servers = servers])
  /\ UNCHANGED <<shared, st, casc, clusterVars, db, cursor, faults, events, told>>

\* whep: only where the stream is.
Whep(p) ==
  /\ Is(p, "new", {"whep"}) /\ Current(p)
  /\ LET servers == Only(p, stream_get(st))
     IN IF servers = <<>> THEN Finish(p, "not found")
        ELSE Set(p, [Stale(p) EXCEPT !.at = "idle", !.servers = servers])
  /\ UNCHANGED <<shared, st, casc, clusterVars, db, cursor, faults, events, told>>

\* maximum_idle_node; whep falls back on a cascade.
IdleNode(p) ==
  /\ Is(p, "idle", {"whip", "whep"}) /\ Current(p)
  /\ IF ~(Aliases(proc[p].servers) \subseteq get_cluster(st)) THEN Panic(p, "node gone")
     ELSE LET best == maximum_idle_node(st, proc[p].servers)
          IN IF best # {}
             THEN Set(p, [Stale(p) EXCEPT !.at = "proxy", !.node = CHOOSE n \in best : TRUE])
             ELSE IF Op(p) = "whip" THEN Finish(p, "no node") ELSE Goto(p, "cascade")
  /\ UNCHANGED <<shared, st, casc, clusterVars, db, cursor, faults, events, told>>

\* cascade_new_node: a node that is not among the servers of the request, which is
\* unwrapped.  Servers are compared with their limits, so that a node whose
\* strategy has changed meanwhile counts as another.  The cascade itself is left to
\* a task, and the request goes to that node now.
CascadeNewNode(p) ==
  /\ Is(p, "cascade", {"whep"}) /\ Current(p)
  /\ LET rest == {n \in get_cluster(st) : Server(st, n) \notin Range(proc[p].servers)}
     IN \/ rest = {} /\ Panic(p, "no destination") /\ UNCHANGED casc
        \/ \E dst \in rest :
             /\ casc' = [casc EXCEPT ![p] = [@ EXCEPT !.at = "call", !.dst = dst,
                                                      !.src = Head(proc[p].servers).alias]]
             /\ Set(p, [Stale(p) EXCEPT !.at = "proxy", !.node = dst])
  /\ UNCHANGED <<shared, st, clusterVars, db, cursor, faults, events, told>>

Direct(p) == <<p, "direct", Nowhere>>

\* request_proxy: the node sets up the session, refuses it or cannot be reached.
ProxySession(p) ==
  /\ Is(p, "proxy", {"whip", "whep"})
  /\ LET n == proc[p].node IN
     \/ Fault /\ Finish(p, "error") /\ UNCHANGED world
     \/ /\ Op(p) = "whip" /\ world[n].pub # {}
        /\ NoFault /\ Finish(p, "refused") /\ UNCHANGED world
     \/ /\ Op(p) = "whip" /\ world[n].pub = {}
        /\ world' = [world EXCEPT ![n].up = TRUE, ![n].pub = {Direct(p)}]
        /\ NoFault /\ Goto(p, "record")
     \/ /\ Op(p) = "whep"
        /\ world' = [world EXCEPT ![n].up = TRUE, ![n].idle = FALSE, ![n].sub = @ \cup {Direct(p)}]
        /\ NoFault /\ Goto(p, "record")
  /\ UNCHANGED <<shared, st, casc, recording, index, made, clock, db, cursor, events, told>>

\* The rest of whip and whep: extra_ice may fail, and nothing is kept of a session
\* that the node has; otherwise the client learns of its session.
KeepSession(p) ==
  /\ Is(p, "record", {"whip", "whep"})
  /\ LET n == proc[p].node IN
     \/ /\ NoFault
        /\ st' = session_put(IF Op(p) = "whip" THEN stream_put(st, n) ELSE st, Direct(p), n)
        /\ told' = told \cup {<<Direct(p), n>>}
        /\ Finish(p, "ok")
     \/ Fault /\ Finish(p, "error") /\ UNCHANGED <<st, told>>
  /\ UNCHANGED <<shared, casc, clusterVars, db, cursor, events>>

\* session: PATCH, POST and DELETE of a session go to the node that has it.
Session(p) ==
  /\ Is(p, "new", {"session"}) /\ Current(p)
  /\ \E t \in told :
       IF t[1] \in DOMAIN st.session /\ st.session[t[1]] \in get_cluster(st)
       THEN Set(p, [Stale(p) EXCEPT !.at = "proxy", !.node = st.session[t[1]], !.servers = <<t>>])
       ELSE Finish(p, "not found")
  /\ UNCHANGED <<shared, st, casc, clusterVars, db, cursor, faults, events, told>>

ProxyDelete(p) ==
  /\ Is(p, "proxy", {"session"})
  /\ \/ Fault /\ Finish(p, "error") /\ UNCHANGED <<clusterVars, told>>
     \/ /\ NoFault
        /\ NodeDelete(proc[p].node, proc[p].servers[1][1])
        /\ told' = told \ {proc[p].servers[1]}
        /\ Finish(p, "ok")
  /\ UNCHANGED <<shared, st, casc, db, cursor, events>>

--------------------------------------------------------------------------------
(* route/stream.rs                                                         *)

\* index: the streams of the nodes, merged.
StreamIndex(p) ==
  /\ Is(p, "new", {"index"}) /\ Current(p)
  /\ proc' = [proc EXCEPT ![p] = [NewProcess EXCEPT !.at = "done", !.left = Listed(st)]]
  /\ UNCHANGED <<shared, st, casc, clusterVars, db, cursor, faults, events, told>>

\* create: a node is chosen before anything else; no node may have the stream.
StreamCreate(p) ==
  /\ Is(p, "new", {"create"}) /\ Current(p)
  /\ LET q == cfg.calls[p].nodes
         nodes == IF q = {} THEN get_cluster(st) ELSE get_cluster(st) \cap q
     IN IF nodes = {} THEN Finish(p, "no node")
        ELSE IF \E n \in get_cluster(st) : st.list[n].info.up THEN Finish(p, "exists")
        ELSE \E n \in nodes : Set(p, [Stale(p) EXCEPT !.at = "proxy", !.node = n])
  /\ UNCHANGED <<shared, st, casc, clusterVars, db, cursor, faults, events, told>>

\* The node's own refusal is not looked at.
ProxyCreate(p) ==
  /\ Is(p, "proxy", {"create"})
  /\ \/ Fault /\ Finish(p, "error") /\ UNCHANGED world
     \/ /\ NoFault /\ Finish(p, "ok")
        /\ world' = [world EXCEPT ![proc[p].node].up = TRUE]
  /\ UNCHANGED <<shared, st, casc, recording, index, made, clock, db, cursor, events, told>>

\* destroy: every node that has told of the stream, in turn; the first that
\* cannot be reached ends it.
StreamDestroy(p) ==
  /\ Is(p, "new", {"destroy"}) /\ Current(p)
  /\ \E order \in SetToSeqs({n \in get_cluster(st) : st.list[n].info.up}) :
       Set(p, [Stale(p) EXCEPT !.at = "proxy", !.left = order])
  /\ UNCHANGED <<shared, st, casc, clusterVars, db, cursor, faults, events, told>>

ProxyDestroy(p) ==
  /\ Is(p, "proxy", {"destroy"})
  /\ \/ /\ proc[p].left = <<>> /\ Finish(p, "ok")
        /\ NoFault /\ UNCHANGED clusterVars
     \/ /\ proc[p].left # <<>> /\ Fault /\ Finish(p, "error") /\ UNCHANGED clusterVars
     \/ /\ proc[p].left # <<>> /\ NoFault
        /\ world' = [world EXCEPT ![Head(proc[p].left)] = NoStream]
        /\ StopRecording(Head(proc[p].left))
        /\ Set(p, [Stale(p) EXCEPT !.left = Tail(proc[p].left)])
  /\ UNCHANGED <<shared, st, casc, db, cursor, events, told>>

--------------------------------------------------------------------------------
(* route/cascade.rs                                                        *)

CascadeTo(p, label) == casc' = [casc EXCEPT ![p].at = label]

Feeds(p, src, dst, s) ==
  world' = [world EXCEPT ![src].sub = @ \cup {s}, ![src].idle = FALSE,
                         ![dst].up = TRUE, ![dst].pub = {<<p, "fed", src>>}]

\* cascade_push has the source publish to the destination by way of Liveman
\* (api_whip), cascade_pull has the destination subscribe at the source.  Neither
\* sends the node's token.
CascadeCall(p) ==
  LET src == casc[p].src
      dst == casc[p].dst
      free == world[dst].pub = {} /\ ~cfg.token
  IN /\ casc[p].at = "call"
     /\ \/ Fault /\ CascadeTo(p, "done") /\ UNCHANGED world
        \/ /\ NoFault
           /\ IF cfg.mode = "push" /\ free /\ world[src].up /\ dst \in get_cluster(st)
              THEN Feeds(p, src, dst, <<p, "push", Manager>>) /\ CascadeTo(p, "check")
              ELSE IF cfg.mode = "pull" /\ free
              THEN Feeds(p, src, dst, <<p, "pull", Nowhere>>) /\ CascadeTo(p, "check")
              ELSE UNCHANGED world /\ CascadeTo(p, "done")
     /\ UNCHANGED <<shared, st, proc, recording, index, made, clock, db, cursor, events, told>>

\* force_check_times: the destination has a publisher that is connected, or the
\* attempts run out.
CascadeCheck(p) ==
  /\ casc[p].at = "check"
  /\ \/ /\ world[casc[p].dst].pub # {}
        /\ CascadeTo(p, IF cfg.close THEN "close" ELSE "done")
     \/ IF casc[p].attempts + 1 < cfg.attempts
        THEN casc' = [casc EXCEPT ![p].attempts = @ + 1]
        ELSE CascadeTo(p, "done")
  /\ UNCHANGED <<shared, st, proc, clusterVars, db, cursor, faults, events, told>>

\* session_delete of a subscriber sends no token either.
SessionDelete(n, s) ==
  \/ Fault /\ UNCHANGED world
  \/ NoFault /\ world' = IF cfg.token THEN world ELSE [world EXCEPT ![n].sub = @ \ {s}]

\* Mutant: all sessions, the one of the cascade too.
OthersAll(info) == info.sub

\* The sessions at the source that are no cascades.
Others(info) == {s \in info.sub : s[2] # "push"}

\* cascade_close_other_sub looks the source up in what is known, or after another
\* update.  The steps of this one update are one here, in which the nodes answer or
\* the task dies as in Strategy, Fetch and Put.
CascadeClose(p) ==
  /\ casc[p].at = "close"
  /\ \/ /\ NoFault
        /\ \/ st' = st
           \/ \E order \in SetToSeqs({n \in get_cluster(st) : world[n].up}) :
                st' = PutAnswers(st, order, world)
        /\ LET src == casc[p].src
               cut == IF src \in get_cluster(st) THEN Others(st'.list[src].info) ELSE {}
           IN casc' = [casc EXCEPT ![p].at = "cut", ![p].cut = cut, ![p].left = cut]
     \/ /\ Fault \/ (cfg.dynamic # {} /\ NoFault)
        /\ st' = ClearStreams(st) /\ CascadeTo(p, "done")
  /\ UNCHANGED <<shared, proc, clusterVars, db, cursor, events, told>>

\* It deletes them in turn; a failure is logged.
CascadeCut(p) ==
  /\ casc[p].at = "cut"
  /\ \/ \E s \in casc[p].left :
          SessionDelete(casc[p].src, s) /\ casc' = [casc EXCEPT ![p].left = @ \ {s}]
     \/ casc[p].left = {} /\ CascadeTo(p, "done") /\ NoFault /\ UNCHANGED world
  /\ UNCHANGED <<shared, st, proc, recording, index, made, clock, db, cursor, events, told>>

--------------------------------------------------------------------------------
(* tick.rs: do_cascade_check                                               *)

\* The nodes by their URLs, by their names and their streams are read one after
\* the other, while net4mqtt adds and removes nodes.
CheckNodes(p) ==
  /\ Is(p, "new", {"cascade_check"}) /\ proc[p].ready
  /\ Set(p, [Stale(p) EXCEPT !.at = "map", !.urls = get_cluster(st)])
  /\ UNCHANGED <<shared, st, casc, clusterVars, db, cursor, faults, events, told>>

CheckServers(p) ==
  /\ Is(p, "map", {"cascade_check"})
  /\ Set(p, [Stale(p) EXCEPT !.at = "infos", !.map = get_cluster(st)])
  /\ UNCHANGED <<shared, st, casc, clusterVars, db, cursor, faults, events, told>>

CheckInfos(p) ==
  /\ Is(p, "infos", {"cascade_check"}) /\ Current(p)
  /\ Set(p, [Stale(p) EXCEPT !.at = "delete", !.infos = [n \in get_cluster(st) |-> st.list[n].info]])
  /\ UNCHANGED <<shared, st, casc, clusterVars, db, cursor, faults, events, told>>

\* parse_node_and_stream and the map of URLs: the node that a push session goes to,
\* if any.  A URL without a port is an error, and Url::port() tells of none that is
\* the default of the scheme.
TargetNode(p, s) == {n \in proc[p].urls \ cfg.bare : s[2] = "push" /\ s[3] = n}

\* Mutant: a cascade is idle when its source is.
IdleCascadesOfSource(p, n) ==
  {s \in proc[p].infos[n].sub : TargetNode(p, s) # {} /\ proc[p].infos[n].idle}

\* The push sessions of node n whose target is a node that has long had no
\* subscribers.
IdleCascades(p, n) ==
  {s \in proc[p].infos[n].sub :
     \E m \in TargetNode(p, s) \cap DOMAIN proc[p].infos : proc[p].infos[m].up /\ proc[p].infos[m].idle}

\* What is unwrapped and is not there: the server of a node that came after the
\* servers were read, the streams of a target that left before they were.
Missing(p) ==
  LET infos == proc[p].infos
  IN \/ ~(DOMAIN infos \subseteq proc[p].map)
     \/ \E n \in DOMAIN infos : \E s \in infos[n].sub : ~(TargetNode(p, s) \subseteq DOMAIN infos)

\* The idle ones are deleted in turn, in the order of the maps, unless an unwrap
\* comes first; a failure is logged.  Their targets then lose their publishers.
CheckDelete(p) ==
  /\ Is(p, "delete", {"cascade_check"})
  /\ LET idle(n) == IdleCascades(p, n)
         nodes == DOMAIN proc[p].infos
     IN \/ \E n \in nodes \cap proc[p].map : \E s \in idle(n) :
             /\ SessionDelete(n, s)
             /\ Set(p, [Stale(p) EXCEPT !.infos[n].sub = @ \ {s}])
        \/ /\ NoFault /\ UNCHANGED world
           /\ \/ Missing(p) /\ Panic(p, "node gone")
              \/ ~Missing(p) /\ (\A n \in nodes : idle(n) = {}) /\ Finish(p, "ok")
  /\ UNCHANGED <<shared, st, casc, recording, index, made, clock, db, cursor, events, told>>

DoCascadeCheck(p) == CheckNodes(p) \/ CheckServers(p) \/ CheckInfos(p) \/ CheckDelete(p)

--------------------------------------------------------------------------------
(* Recordings: route/recorder.rs, tick.rs.                                 *)

\* start_record: the node asked for, the first node of the stream, or any.
StartRecord(p) ==
  /\ Is(p, "new", {"start"}) /\ Current(p)
  /\ LET q == cfg.calls[p].nodes
         nodes == IF q # {} THEN q
                  ELSE IF st.stream # <<>> THEN {Head(st.stream)} ELSE get_cluster(st)
     IN \/ nodes \cap get_cluster(st) = {} /\ Finish(p, "no node")
        \/ \E n \in nodes \cap get_cluster(st) : Set(p, [Stale(p) EXCEPT !.at = "post", !.node = n])
  /\ UNCHANGED <<shared, st, casc, clusterVars, db, cursor, faults, events, told>>

\* stop_record and do_auto_record_rotate stop the recording on every node of the
\* stream, do_auto_record_check looks at the first.
RecordNodes(p) ==
  /\ Is(p, "new", {"stop", "auto_record_rotate", "auto_record_check"})
  /\ Current(p) /\ (Op(p) \in Ticks => proc[p].ready)
  /\ LET here == Among(st.stream, get_cluster(st))
         first == Head(st.stream)
     IN IF here = <<>> THEN Finish(p, "ok")
        ELSE IF Op(p) = "auto_record_check" /\ first \notin get_cluster(st) THEN Finish(p, "ok")
        ELSE Set(p, [Stale(p) EXCEPT !.at = "status", !.left = here,
                     !.node = IF first \in get_cluster(st) THEN first ELSE Nowhere])
  /\ UNCHANGED <<shared, st, casc, clusterVars, db, cursor, faults, events, told>>

\* GET of the status; a failure reads as not recording.
Status(p) ==
  /\ proc[p].at = "status"
  /\ LET busy == proc[p].left # <<>> /\ recording[Head(proc[p].left)] # 0
     IN \/ /\ proc[p].left # <<>> /\ busy /\ NoFault
           /\ IF Op(p) = "auto_record_check" THEN Finish(p, "ok") ELSE Goto(p, "halt")
        \/ /\ proc[p].left # <<>> /\ (IF busy THEN Fault ELSE NoFault)
           /\ IF Op(p) = "auto_record_check" THEN Goto(p, "post")
              ELSE Set(p, [Stale(p) EXCEPT !.left = Tail(proc[p].left)])
        \/ /\ proc[p].left = <<>> /\ NoFault
           /\ IF Op(p) = "stop" \/ proc[p].node = Nowhere THEN Finish(p, "ok") ELSE Goto(p, "post")
  /\ UNCHANGED <<shared, st, casc, clusterVars, db, cursor, events, told>>

\* DELETE of the recording; a failure is not looked at.
Halt(p) ==
  /\ proc[p].at = "halt"
  /\ \/ Fault /\ UNCHANGED <<recording, index, made, clock>>
     \/ NoFault /\ StopRecording(Head(proc[p].left))
  /\ Set(p, [Stale(p) EXCEPT !.at = "status", !.left = Tail(proc[p].left)])
  /\ UNCHANGED <<shared, st, casc, world, db, cursor, events, told>>

\* POST of a recording: the node answers with the one it has, or starts one.
Post(p) ==
  /\ proc[p].at = "post"
  /\ LET n == proc[p].node IN
     \/ Fault /\ Finish(p, "error") /\ UNCHANGED <<recording, index, made, clock>>
     \/ /\ ~world[n].up /\ NoFault
        /\ Finish(p, "error") /\ UNCHANGED <<recording, index, made, clock>>
     \/ /\ world[n].up /\ recording[n] # 0 /\ NoFault
        /\ Set(p, [Stale(p) EXCEPT !.at = "find", !.record = recording[n]])
        /\ UNCHANGED <<recording, index, made, clock>>
     \/ /\ world[n].up /\ recording[n] = 0 /\ NoFault
        /\ Len(made) < MaxRecord
        /\ made' = Append(made, n) /\ clock' = clock + 1
        /\ recording' = [recording EXCEPT ![n] = Len(made')]
        /\ index' = [index EXCEPT ![n] = upsert(@, Len(made'), clock')]
        /\ Set(p, [Stale(p) EXCEPT !.at = "find", !.record = Len(made')])
  /\ UNCHANGED <<shared, st, casc, world, db, cursor, events, told>>

\* RecordingsIndexService::upsert looks for the row ...
Find(p) ==
  /\ proc[p].at = "find"
  /\ \/ NoFault /\ Set(p, [Stale(p) EXCEPT !.at = "write", !.row = proc[p].record \in db])
     \/ cfg.dbfails /\ Fault /\ Set(p, [Stale(p) EXCEPT !.at = "failed"])
  /\ UNCHANGED <<shared, st, casc, clusterVars, db, cursor, events, told>>

\* ... and updates or inserts it; the unique index refuses a second row.
Write(p) ==
  /\ proc[p].at = "write"
  /\ \/ NoFault /\ db' = db \cup {proc[p].record}
        /\ Goto(p, IF ~proc[p].row /\ proc[p].record \in db THEN "failed" ELSE "written")
     \/ cfg.dbfails /\ Fault /\ UNCHANGED db /\ Goto(p, "failed")
  /\ UNCHANGED <<shared, st, casc, clusterVars, cursor, events, told>>

\* The sync goes on with the next record of the page, or acknowledges.
NextRecord(p, acks) ==
  IF proc[p].records = <<>> THEN Set(p, [Stale(p) EXCEPT !.at = "ack", !.acks = acks])
  ELSE Set(p, [Stale(p) EXCEPT !.at = "find", !.acks = acks, !.record = Head(proc[p].records),
               !.records = Tail(proc[p].records)])

\* Mutant: a recording is acknowledged whether its row was written or not.
UpsertedAlways(p) ==
  /\ proc[p].at \in {"written", "failed"}
  /\ IF Op(p) # "record_sync" THEN Finish(p, "ok")
     ELSE NextRecord(p, proc[p].acks \cup {proc[p].record})
  /\ UNCHANGED <<shared, st, casc, clusterVars, db, cursor, faults, events, told>>

\* After an upsert: a failed one is logged; the sync goes on with the next record
\* and acknowledges those that were written.
Upserted(p) ==
  /\ proc[p].at \in {"written", "failed"}
  /\ IF Op(p) # "record_sync" THEN Finish(p, "ok")
     ELSE NextRecord(p, IF proc[p].at = "written" THEN proc[p].acks \cup {proc[p].record}
                        ELSE proc[p].acks)
  /\ UNCHANGED <<shared, st, casc, clusterVars, db, cursor, faults, events, told>>

\* do_record_sync, over the nodes in the order of the map.
RecordSync(p) ==
  /\ Is(p, "new", {"record_sync"}) /\ proc[p].ready
  /\ \E order \in SetToSeqs(get_cluster(st)) : Set(p, [Stale(p) EXCEPT !.at = "pull", !.left = order])
  /\ UNCHANGED <<shared, st, casc, clusterVars, db, cursor, faults, events, told>>

Pull(p) ==
  /\ proc[p].at = "pull"
  /\ \/ proc[p].left = <<>> /\ NoFault /\ Finish(p, "ok")
     \/ proc[p].left # <<>> /\ Fault /\ Set(p, [Stale(p) EXCEPT !.left = Tail(proc[p].left)])
     \/ /\ proc[p].left # <<>> /\ NoFault
        /\ LET n == Head(proc[p].left)
               page == list_sessions(index[n], cursor[n], cfg.limit)
           IN IF page.sessions = <<>> THEN Set(p, [Stale(p) EXCEPT !.left = Tail(proc[p].left)])
              ELSE Set(p, [Stale(p) EXCEPT !.at = "find", !.node = n, !.left = Tail(proc[p].left),
                             !.acks = {}, !.last = page.last, !.record = Head(page.sessions),
                             !.records = Tail(page.sessions)])
  /\ UNCHANGED <<shared, st, casc, clusterVars, db, cursor, events, told>>

Advance(n, last) == cursor' = [cursor EXCEPT ![n] = last]

\* The DELETE that acknowledges; the cursor moves when it succeeds, or when there
\* is nothing to acknowledge.  When its answer is lost the node has done it.
Ack(p) ==
  /\ proc[p].at = "ack"
  /\ Goto(p, "pull")
  /\ LET n == proc[p].node IN
     \/ proc[p].acks = {} /\ NoFault /\ Advance(n, proc[p].last) /\ UNCHANGED index
     \/ /\ proc[p].acks # {} /\ NoFault
        /\ index' = [index EXCEPT ![n] = ack(@, proc[p].acks)]
        /\ Advance(n, proc[p].last)
     \/ /\ proc[p].acks # {} /\ Fault
        /\ index' \in {index, [index EXCEPT ![n] = ack(@, proc[p].acks)]}
        /\ UNCHANGED cursor
  /\ UNCHANGED <<shared, st, casc, world, recording, made, clock, db, events, told>>

\* The publisher of a recorded stream leaves.
StreamEnds(n) ==
  /\ cfg.ends /\ recording[n] # 0
  /\ world' = [world EXCEPT ![n] = NoStream]
  /\ StopRecording(n)
  /\ UNCHANGED <<shared, st, proc, casc, db, cursor, faults, events, told>>

\* Liveman is restarted: what it keeps in memory is gone, the table stays.
Restart ==
  /\ restarts < cfg.restarts /\ restarts' = restarts + 1
  /\ st' = NewStorage(cfg.nodes) /\ early' = TRUE
  /\ proc' = [p \in Process |-> IF Op(p) \in Ticks THEN NewProcess
                                ELSE [NewProcess EXCEPT !.at = "done", !.out = "lost"]]
  /\ casc' = [p \in Process |-> NoCascade]
  /\ cursor' = [n \in Node |-> 0]
  /\ UNCHANGED <<cfg, clusterVars, db, faults, events, told>>

--------------------------------------------------------------------------------
UpdateStep(p) == Update(p) \/ Strategy(p) \/ \E n \in Node : Fetch(p, n) \/ Put(p, n)

RouteStep(p) ==
  \/ Whip(p) \/ WhipNodes(p) \/ Whep(p) \/ IdleNode(p) \/ CascadeNewNode(p)
  \/ ProxySession(p) \/ KeepSession(p) \/ Session(p) \/ ProxyDelete(p)
  \/ StreamIndex(p) \/ StreamCreate(p) \/ ProxyCreate(p) \/ StreamDestroy(p) \/ ProxyDestroy(p)

RecordStep(p) ==
  \/ StartRecord(p) \/ RecordNodes(p) \/ Status(p) \/ Halt(p) \/ Post(p) \/ Find(p) \/ Write(p)
  \/ Upserted(p) \/ RecordSync(p) \/ Pull(p) \/ Ack(p)

CascadeStep(p) == CascadeCall(p) \/ CascadeCheck(p) \/ CascadeClose(p) \/ CascadeCut(p)

ProcessStep(p) == UpdateStep(p) \/ RouteStep(p) \/ RecordStep(p) \/ DoCascadeCheck(p)

Busy(p) ==
  \/ proc[p].at \notin {"new", "done", "panic"} \/ proc[p].ready
  \/ casc[p].at \notin {"none", "done"}

\* A ghost: the processes have run one after the other so far.
Calm ==
  calm' = (/\ calm /\ faults' = faults /\ events' = events /\ ~early'
           /\ Cardinality({p \in Process : Busy(p)'}) <= 1)

Next ==
  \/ \E p \in Process : (ProcessStep(p) \/ CascadeStep(p)) /\ Calm
  \/ \E n \in Node : (FeedLost(n) \/ Idles(n) \/ Announce(n) \/ StreamEnds(n)) /\ Calm
  \/ ThreeSeconds /\ Calm
  \/ Restart /\ Calm

Spec == Init /\ [][Next]_vars

\* tokio runs a task that can proceed, and a sleep ends: the ticks go on.  The
\* properties need nothing of the other processes.
Fairness ==
  /\ \A p \in {"record_sync", "cascade_check"} :
       WF_vars(p \in Process /\ ProcessStep(p) /\ Calm)
  /\ WF_vars(ThreeSeconds /\ Calm)

FairSpec == Spec /\ Fairness

--------------------------------------------------------------------------------
(* Properties.                                                             *)

\* A session that a client was told of and that lives is found by its path
\* however requests and updates interleave: DELETE and PATCH reach the node that
\* has it, for a publisher too, which no update ever puts back.
SessionRouted ==
  restarts = 0 =>
    \A t \in told :
      t[1] \in world[t[2]].pub \cup world[t[2]].sub =>
        t[1] \in DOMAIN st.session /\ st.session[t[1]] = t[2]

\* Requests that neither overlap nor fail keep a stream in one piece: unless a
\* cascade was tried, it is published on one node.
OnePublisher ==
  calm /\ (\A p \in Process : casc[p] = NoCascade) =>
    Cardinality({n \in Node : \E s \in world[n].pub : s[2] = "direct"}) <= 1

\* The subscribers that Liveman has sent to a node.
Spectators(info) == {s \in info.sub : s[2] = "direct"}

\* A limit that lets subscribers in, subscribers that leave the node to Liveman, and
\* nodes that are within the limit to begin with.
Roomy ==
  /\ cfg.max > 0
  /\ \A p \in Process : Op(p) = "whep" => cfg.calls[p].nodes = {}
  /\ \A n \in Node :
       /\ Cardinality(Spectators(cfg.world[n])) <= cfg.max
       /\ Spectators(cfg.world[n]) # {} => cfg.world[n].up

\* ... and no node gets more of Liveman's subscribers than its strategy allows, a
\* limit that the node itself does not enforce, over updates that find the nodes
\* changed and cascades to nodes that are not looked at.  It is claimed of Roomy
\* clusters only: a subscriber that names full nodes is sent to one that it has not
\* named and that may be as full, and so is one where the limit is 0.
LimitHonoured ==
  calm /\ Roomy => \A n \in Node : Cardinality(Spectators(world[n])) <= cfg.max

\* A handler dies of a node that is not there only when the node left while the
\* handler ran: what an earlier request has kept of it is never unwrapped.
\* do_cascade_check dies of one that came, too, since it reads the servers before
\* the streams.
PanicsOnlyShaken ==
  \A p \in Process : proc[p].at = "panic" /\ proc[p].out = "node gone" => proc[p].shaken

\* When cascade_close_other_sub has begun to send the source's clients away, a push
\* cascade still flows to the other node: both ends of it are there, unless the
\* source's stream was ended or Liveman's session was deleted since.  It does not
\* hold for pull, where the session that feeds the other node is none with cascade
\* information, and is sent away with the clients.
PushCascadeFed ==
  \A p \in Process :
    casc[p].cut # {} /\ cfg.mode = "push" /\ world[casc[p].src].pub # {} =>
      /\ <<p, "push", Manager>> \in world[casc[p].src].sub
      /\ world[casc[p].dst].pub # {}

\* A recording that was started is in the index of its node until it has a row:
\* an upsert that fails, an acknowledgement that gets lost and a restart lose
\* none of them.
RecordNeverLost ==
  \A i \in DOMAIN made : i \in db \/ \E e \in index[made[i]] : e.record = i

\* A tick that has panicked is never started again.
Alive(p) == p \in Process /\ proc[p].at # "panic"

Catalogued == \A i \in DOMAIN made : made[i] \in get_cluster(st) => i \in db

\* Every recording of a node that is known gets its row as long as the loop of
\* record_sync lives, over nodes that cannot be reached, come and leave, and
\* restarts, also when a pull is cut short by its limit.  The database does not
\* fail here, and no two changes of an index have the same time stamp (microseconds
\* of a clock that is not set back): `updated_at > since' would pass the second
\* over.  The loop dies of a node that leaves or fails in the middle of its answer.
CatalogueComplete ==
  (~cfg.dbfails /\ Alive("record_sync") /\ ~Catalogued) ~> (Catalogued \/ ~Alive("record_sync"))

\* A push session between two known nodes, to a URL with a port, that nobody
\* watches at its target.
IdleCascade ==
  \E n \in get_cluster(st) : \E s \in world[n].sub :
    s[2] = "push" /\ s[3] \in get_cluster(st) \ cfg.bare /\ world[s[3]].up /\ world[s[3]].idle

\* Such a cascade is closed as long as the loop of cascade_check lives, over nodes
\* that come and leave and deletions that fail, when the nodes want no token.  The
\* configuration file promises it of every cascade; the tick closes none to a URL
\* without a port, none between nodes that want a token, and none that Liveman has
\* started itself, whose target is Liveman's own address.
IdleCascadeClosed ==
  (~cfg.token /\ Alive("cascade_check") /\ IdleCascade) ~> (~IdleCascade \/ ~Alive("cascade_check"))
================================================================================

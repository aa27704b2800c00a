----------------------------- MODULE LivemanStore ------------------------------
(***************************************************************************)
(* What Liveman knows of its cluster (liveman/src/store.rs): the nodes with *)
(* the strategy and the streams they last told of, the nodes of a stream,  *)
(* and the node of a session.  Storage is a value here; the handlers that  *)
(* share it step by step are in Liveman.                                   *)
(*                                                                         *)
(* One stream is modelled: every map is looked up by one stream name, and  *)
(* the only operation over all of them empties the map.  What a node tells *)
(* of it: whether it exists, its sessions, and whether it has been without *)
(* subscribers for long.  A session is <<who made it, kind, where to>>, and *)
(* only a "push" one carries cascade information.                          *)
(***************************************************************************)
EXTENDS Integers, FiniteSets, Sequences

CONSTANTS
  Node,
  Unlimited    \* u16::MAX, the limit of a node whose strategy is unknown

NoStream == [up |-> FALSE, pub |-> {}, sub |-> {}, idle |-> FALSE]

\* Node::new, and From<(String, Node)> for Server.
NewNode == [known |-> FALSE, max |-> Unlimited, info |-> NoStream]

\* The elements of q that are in S, in their order.
Among(q, S) ==
  LET f[i \in 0..Len(q)] ==
        IF i = 0 THEN <<>> ELSE IF q[i] \in S THEN Append(f[i - 1], q[i]) ELSE f[i - 1]
  IN f[Len(q)]

Empty == [x \in {} |-> x]
With(f, x, y) == [k \in DOMAIN f \cup {x} |-> IF k = x THEN y ELSE f[k]]

NewStorage(nodes) ==
  [list |-> [n \in nodes |-> NewNode], stream |-> <<>>, session |-> Empty]

\* The threads of net4mqtt add and remove nodes; one that announces itself again
\* starts afresh.
AddNode(st, n) == [st EXCEPT !.list = With(@, n, NewNode)]
RemoveNode(st, n) == [st EXCEPT !.list = [m \in DOMAIN @ \ {n} |-> @[m]]]

get_cluster(st) == DOMAIN st.list
Server(st, n) == [alias |-> n, max |-> st.list[n].max]
Aliases(servers) == {servers[i].alias : i \in DOMAIN servers}

stream_put(st, n) == [st EXCEPT !.stream = Append(@, n)]
session_put(st, s, n) == [st EXCEPT !.session = With(@, s, n)]
info_put(st, n, info) == [st EXCEPT !.list[n].info = info]

\* Mutant: the aliases of nodes that have left are served too.
stream_get_blind(st) ==
  [i \in DOMAIN st.stream |-> [alias |-> st.stream[i], max |-> Unlimited]]

\* The servers of the stream; an alias whose node has left is passed over.
stream_get(st) ==
  LET here == Among(st.stream, DOMAIN st.list)
  IN [i \in DOMAIN here |-> Server(st, here[i])]

\* update_strategy_from, for the nodes that have answered; nodes that have a
\* strategy are not asked again.
AskStrategy(st) == {n \in DOMAIN st.list : ~st.list[n].known}
PutStrategy(st, answered, max) ==
  [st EXCEPT !.list = [n \in DOMAIN @ |->
     IF n \in answered THEN [@[n] EXCEPT !.known = TRUE, !.max = max] ELSE @[n]]]

\* Mutant: the sessions go with the streams.
ClearStreamsAndSessions(st) == [st EXCEPT !.stream = <<>>, !.session = Empty]

\* Before the answers are put in; the sessions are kept.
ClearStreams(st) == [st EXCEPT !.stream = <<>>]

\* One node's answer: its streams, and the sessions of their subscribers.
PutAnswer(st, n, info) ==
  LET told == info_put(st, n, info)
      seen == IF info.up THEN stream_put(told, n) ELSE told
  IN [seen EXCEPT !.session =
        [s \in DOMAIN @ \cup info.sub |-> IF s \in info.sub THEN n ELSE @[s]]]

\* A whole update at once: all nodes answer, and those with the stream are put in in
\* the given order.
PutAnswers(st, order, infos) ==
  LET subs == UNION {infos[n].sub : n \in DOMAIN st.list}
  IN [st EXCEPT !.list = [n \in DOMAIN @ |-> [@[n] EXCEPT !.info = infos[n]]],
                !.stream = order,
                !.session = [s \in DOMAIN @ \cup subs |->
                   IF s \in subs THEN CHOOSE n \in DOMAIN st.list : s \in infos[n].sub ELSE @[s]]]

Remain(st, server) ==
  LET info == st.list[server.alias].info
  IN IF info.up THEN server.max - Cardinality(info.sub) ELSE server.max

\* Mutant: a node without room counts.
maximum_idle_node_full(st, servers) ==
  LET best == {i \in DOMAIN servers :
                 /\ Remain(st, servers[i]) >= 0
                 /\ \A j \in DOMAIN servers : Remain(st, servers[j]) <= Remain(st, servers[i])}
  IN {servers[i].alias : i \in {i \in best : \A j \in best : i <= j}}

\* The first server with the most room, if one has room: a set of at most one.
maximum_idle_node(st, servers) ==
  LET best == {i \in DOMAIN servers :
                 /\ Remain(st, servers[i]) > 0
                 /\ \A j \in DOMAIN servers : Remain(st, servers[j]) <= Remain(st, servers[i])}
  IN {servers[i].alias : i \in {i \in best : \A j \in best : i <= j}}

\* stream::index: the nodes whose streams are merged into the listing.
Listed(st) == Among(st.stream, {n \in DOMAIN st.list : st.list[n].info.up})
================================================================================

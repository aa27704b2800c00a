------------------------------- MODULE MCLiveman -------------------------------
(* Instances of Liveman for TLC.                                           *)
EXTENDS Liveman

Call(op) == [op |-> op, nodes |-> {}]
Calls2(a, b) == [p \in {"r1", "r2"} |-> Call(IF p = "r1" THEN a ELSE b)]
Calls3(a, b, c) == [p \in {"r1", "r2", "r3"} |->
                      Call(IF p = "r1" THEN a ELSE IF p = "r2" THEN b ELSE c)]
TickCalls(ticks) == [p \in ticks |-> Call(p)]

Nothing == [n \in Node |-> NoStream]
Stream == [NoStream EXCEPT !.up = TRUE, !.pub = {<<"u", "direct", Nowhere>>}]
Streams == [Nothing EXCEPT !["n1"] = Stream]
Cascaded ==
  [n \in Node |-> IF n = "n1" THEN [Stream EXCEPT !.sub = {<<"u", "push", "n2">>}]
                  ELSE [NoStream EXCEPT !.up = TRUE, !.pub = {<<"u", "fed", "n1">>}]]

Config(calls, start) ==
  [calls |-> calls, nodes |-> Node, dynamic |-> {}, bare |-> {}, world |-> start, max |-> 1,
   limit |-> 1, mode |-> "push", close |-> FALSE, token |-> FALSE, dbfails |-> FALSE, ends |-> FALSE,
   early |-> {FALSE}, attempts |-> 2, faults |-> 0, events |-> 0, restarts |-> 0, refreshes |-> 1]

\* Requests that meet, with a failure, and with a second update in one of them.
RouteConfigs ==
  {[Config(Calls3("whip", "whip", "session"), Nothing) EXCEPT !.faults = 1],
   Config(Calls3("whip", "whep", "index"), Nothing),
   [Config(Calls2("whip", "create"), Nothing) EXCEPT !.refreshes = 2],
   [Config(Calls2("create", "destroy"), Streams) EXCEPT !.faults = 1],
   [Config([Calls2("whip", "whep") EXCEPT !["r1"].nodes = {"n2"}, !["r2"].nodes = {"n1"}], Streams)
      EXCEPT !.faults = 1]}

\* Cascades that requests start.
CascadeConfigs ==
  {[Config(Calls2("whep", "whep"), Streams) EXCEPT !.mode = mode, !.close = TRUE, !.token = token] :
      mode \in {"push", "pull"}, token \in BOOLEAN}

\* The tick that closes cascades: with failures, between nodes with the default port
\* or a token, and with nodes that come and leave.
CheckConfigs ==
  LET Checked == Config(TickCalls({"cascade_check"}), Cascaded)
  IN {[Checked EXCEPT !.calls = ("r1" :> Call("whep")) @@ @],
      [Checked EXCEPT !.faults = 2],
      [Checked EXCEPT !.bare = {"n2"}, !.refreshes = 2],
      [Checked EXCEPT !.token = TRUE],
      [Checked EXCEPT !.dynamic = Node, !.events = 2]}

\* Nodes that net4mqtt adds and removes.
DynamicConfigs ==
  {[Config(Calls2("whip", "whep"), Nothing) EXCEPT !.dynamic = {"n1"}, !.events = 2,
                                                       !.early = BOOLEAN],
   [Config(Calls2("whep", "whep"), Streams) EXCEPT !.dynamic = {"n2"}, !.events = 1,
                                                       !.close = TRUE, !.faults = 1]}

\* Recordings, with one entry in a page: a request that stalls before it has written
\* the row of a recording leaves two of them to the sync.
RecordConfigs ==
  {[Config(Calls2("start", "stop") @@ TickCalls({"record_sync"}), Streams)
      EXCEPT !.nodes = {"n1"}, !.faults = 1, !.restarts = 1],
   [Config(("r1" :> Call("start")) @@ TickCalls({"auto_record_rotate", "record_sync"}), Streams)
      EXCEPT !.nodes = {"n1"}],
   [Config(("r1" :> Call("start")) @@ TickCalls({"record_sync"}), Streams)
      EXCEPT !.nodes = {"n1"}, !.dynamic = {"n1"}, !.events = 2]}

OutageConfigs ==
  {[Config(TickCalls({"auto_record_check", "record_sync"}), Streams)
      EXCEPT !.faults = 1, !.dbfails = TRUE, !.ends = TRUE]}

MCConfigs ==
  RouteConfigs \cup CascadeConfigs \cup CheckConfigs \cup DynamicConfigs \cup RecordConfigs
    \cup OutageConfigs
MCNode == {"n1", "n2"}
================================================================================

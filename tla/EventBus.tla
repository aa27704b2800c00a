-------------------------------- MODULE EventBus -------------------------------
(***************************************************************************)
(* How events travel through a live777 node: a forward's broadcast channel *)
(* (forward/internal.rs send_event), the task that copies it into the      *)
(* manager's channel (manager.rs forward_event_handler), and the two       *)
(* consumers of that one, webhooks (hook/webhook.rs) and SSE clients       *)
(* (manager.rs sse_handler, route/stream.rs sse).                          *)
(*                                                                         *)
(* A tokio broadcast channel keeps its last Capacity values.  A receiver   *)
(* that has fallen further behind gets Err(Lagged) once; every consumer    *)
(* here is a `while let Ok(..) = recv()` loop, so that ends it for good.   *)
(* The SSE task holds a read lock of stream_map while it waits for room in *)
(* its client's queue.                                                     *)
(***************************************************************************)
EXTENDS Integers, Sequences

CONSTANTS
  Hook, Client,      \* webhooks; SSE clients
  Writer,            \* requests that need the write lock of stream_map (WHIP, WHEP)
  ForwardCapacity,   \* capacity of a forward's channel (16 in the code)
  EventCapacity,     \* capacity of the manager's channel (4)
  SseCapacity,       \* capacity of a client's queue (64)
  MaxForwardEvents   \* bound: events of the forward

ASSUME CapacityAssumption ==
  {ForwardCapacity, EventCapacity, SseCapacity} \subseteq Nat \ {0} /\ MaxForwardEvents \in Nat

VARIABLES
  fsent,     \* number of events the forward has sent
  handler,   \* forward_event_handler: [at, next]
  log,       \* everything sent into the manager's channel, in order
  hook,      \* hook[h]: [at, next]
  posted,    \* posted[h]: the events for which h has made its request
  sse,       \* sse[c]: [at, next], the task of an SSE client
  buffered,  \* buffered[c]: snapshots in the queue of client c
  gone,      \* clients that have disconnected
  writer     \* writer[w]: "idle", "waiting" for the lock, "done"

vars == <<fsent, handler, log, hook, posted, sse, buffered, gone, writer>>

ForwardEvent(n) == <<"forward", n>>
StreamUp(w) == <<"stream", w>>
Start == [at |-> "recv", next |-> 1]

Init ==
  /\ fsent = 0
  /\ handler = Start
  /\ log = <<>>
  /\ hook = [h \in Hook |-> Start]
  /\ posted = [h \in Hook |-> <<>>]
  /\ sse = [c \in Client |-> Start]
  /\ buffered = [c \in Client |-> 0]
  /\ gone = {}
  /\ writer = [w \in Writer |-> "idle"]

--------------------------------------------------------------------------------
(* Broadcast channels (tokio, external).                                   *)

\* recv() of the receiver r on a channel that n values were sent into: the
\* next value and the state `then`, or an error, which ends every loop here.
Lagged(r, n, capacity) == n - r.next + 1 > capacity
Recv(r, n, capacity, then) ==
  IF Lagged(r, n, capacity)
  THEN [at |-> "ended", next |-> n - capacity + 1]
  ELSE [at |-> then, next |-> r.next + 1]

--------------------------------------------------------------------------------
\* PeerForwardInternal::send_event.
SendEvent ==
  /\ fsent < MaxForwardEvents
  /\ fsent' = fsent + 1
  /\ UNCHANGED <<handler, log, hook, posted, sse, buffered, gone, writer>>

\* Mutant: a lagging handler carries on with the oldest value left.
ForwardEventHandlerCarriesOn ==
  /\ handler.at = "recv" /\ handler.next <= fsent
  /\ LET n == IF Lagged(handler, fsent, ForwardCapacity)
              THEN fsent - ForwardCapacity + 1 ELSE handler.next
     IN /\ handler' = [handler EXCEPT !.next = n + 1]
        /\ log' = Append(log, ForwardEvent(n))
  /\ UNCHANGED <<fsent, hook, posted, sse, buffered, gone, writer>>

\* Manager::forward_event_handler.
ForwardEventHandler ==
  /\ handler.at = "recv" /\ handler.next <= fsent
  /\ handler' = Recv(handler, fsent, ForwardCapacity, "recv")
  /\ log' = IF handler'.at = "ended" THEN log ELSE Append(log, ForwardEvent(handler.next))
  /\ UNCHANGED <<fsent, hook, posted, sse, buffered, gone, writer>>

\* WebHook::hook: receive, ...
HookRecv(h) ==
  /\ hook[h].at = "recv" /\ hook[h].next <= Len(log)
  /\ hook' = [hook EXCEPT ![h] = Recv(hook[h], Len(log), EventCapacity, "post")]
  /\ UNCHANGED <<fsent, handler, log, posted, sse, buffered, gone, writer>>

\* Mutant: only the events of forwards are posted.
HookPostForwardOnly(h) ==
  /\ hook[h].at = "post"
  /\ hook' = [hook EXCEPT ![h].at = "recv"]
  /\ posted' = IF log[hook[h].next - 1][1] # "forward" THEN posted
               ELSE [posted EXCEPT ![h] = Append(@, log[hook[h].next - 1])]
  /\ UNCHANGED <<fsent, handler, log, sse, buffered, gone, writer>>

\* ... then event_handler; a failed request is not repeated.
HookPost(h) ==
  /\ hook[h].at = "post"
  /\ hook' = [hook EXCEPT ![h].at = "recv"]
  /\ posted' = [posted EXCEPT ![h] = Append(@, log[hook[h].next - 1])]
  /\ UNCHANGED <<fsent, handler, log, sse, buffered, gone, writer>>

--------------------------------------------------------------------------------
(* sse_handler: every event the client asked for becomes a snapshot of the *)
(* streams.                                                                *)

SseRecv(c) ==
  /\ sse[c].at = "recv" /\ sse[c].next <= Len(log)
  /\ \/ sse' = [sse EXCEPT ![c] = Recv(sse[c], Len(log), EventCapacity, "lock")]
     \/ sse' = [sse EXCEPT ![c] = Recv(sse[c], Len(log), EventCapacity, "recv")]
  /\ UNCHANGED <<fsent, handler, log, hook, posted, buffered, gone, writer>>

\* The read lock is fair: it is not given past a waiting writer.
SseLock(c) ==
  /\ sse[c].at = "lock"
  /\ \A w \in Writer : writer[w] # "waiting"
  /\ sse' = [sse EXCEPT ![c].at = "send"]
  /\ UNCHANGED <<fsent, handler, log, hook, posted, buffered, gone, writer>>

\* Mutant: the client's disconnection is not noticed.
SseSendToGone(c) ==
  /\ sse[c].at = "send"
  /\ buffered[c] < SseCapacity
  /\ buffered' = [buffered EXCEPT ![c] = @ + 1]
  /\ sse' = [sse EXCEPT ![c].at = "recv"]
  /\ UNCHANGED <<fsent, handler, log, hook, posted, gone, writer>>

\* send() waits for room; the lock is released after it.  To a client that is
\* gone it fails at once, and the error is ignored.
SseSend(c) ==
  /\ sse[c].at = "send"
  /\ \/ /\ c \notin gone
        /\ buffered[c] < SseCapacity
        /\ buffered' = [buffered EXCEPT ![c] = @ + 1]
     \/ c \in gone /\ UNCHANGED buffered
  /\ sse' = [sse EXCEPT ![c].at = "recv"]
  /\ UNCHANGED <<fsent, handler, log, hook, posted, gone, writer>>

\* The client's HTTP response takes a snapshot out of the queue, or ends.
ClientRead(c) ==
  /\ c \notin gone
  /\ buffered[c] > 0
  /\ buffered' = [buffered EXCEPT ![c] = @ - 1]
  /\ UNCHANGED <<fsent, handler, log, hook, posted, sse, gone, writer>>

ClientGone(c) ==
  /\ c \notin gone
  /\ gone' = gone \cup {c}
  /\ UNCHANGED <<fsent, handler, log, hook, posted, sse, buffered, writer>>

--------------------------------------------------------------------------------
(* A request that creates its stream: Manager::publish and subscribe.      *)

WriterRequest(w) ==
  /\ writer[w] = "idle"
  /\ writer' = [writer EXCEPT ![w] = "waiting"]
  /\ UNCHANGED <<fsent, handler, log, hook, posted, sse, buffered, gone>>

WriterRun(w) ==
  /\ writer[w] = "waiting"
  /\ \A c \in Client : sse[c].at # "send"
  /\ writer' = [writer EXCEPT ![w] = "done"]
  /\ log' = Append(log, StreamUp(w))
  /\ UNCHANGED <<fsent, handler, hook, posted, sse, buffered, gone>>

--------------------------------------------------------------------------------
Next ==
  \/ SendEvent \/ ForwardEventHandler
  \/ \E h \in Hook : HookRecv(h) \/ HookPost(h)
  \/ \E c \in Client : SseRecv(c) \/ SseLock(c) \/ SseSend(c) \/ ClientRead(c) \/ ClientGone(c)
  \/ \E w \in Writer : WriterRequest(w) \/ WriterRun(w)

\* tokio runs every task that can proceed; a webhook request has a timeout.
TaskFairness ==
  /\ WF_vars(ForwardEventHandler)
  /\ \A h \in Hook : WF_vars(HookRecv(h)) /\ WF_vars(HookPost(h))
  /\ \A c \in Client : WF_vars(SseRecv(c)) /\ WF_vars(SseLock(c)) /\ WF_vars(SseSend(c))
  /\ \A w \in Writer : WF_vars(WriterRun(w))

Spec == Init /\ [][Next]_vars /\ TaskFairness

\* As above, with clients that keep reading until they disconnect.
AttentiveSpec == Spec /\ \A c \in Client : WF_vars(ClientRead(c))

--------------------------------------------------------------------------------
(* Properties.                                                             *)

\* The forward's event at i in s has the number after the last one before it.
Follows(s, i) ==
  /\ \A j \in 1..(i - 1) : s[j][1] = "forward" => s[j][2] < s[i][2]
  /\ s[i][2] = 1 \/ \E j \in 1..(i - 1) : s[j] = ForwardEvent(s[i][2] - 1)

Numbered(s) == \A i \in DOMAIN s : s[i][1] = "forward" => Follows(s, i)

\* What a webhook is told of a forward is a prefix of what the forward sent,
\* in order, without gaps or repetitions, through both channels: a consumer
\* that falls behind is cut off, never left with a hole in its view.
HookSeesPrefix == \A h \in Hook : Numbered(posted[h])

\* A webhook that has not been cut off is told of every event.
HookCatchesUp ==
  \A h \in Hook : []<>(hook[h].at = "ended" \/ Len(posted[h]) = Len(log))

\* A request that needs the stream map gets it, as long as every SSE client
\* goes on reading or disconnects.
RequestServed == \A w \in Writer : writer[w] = "waiting" ~> writer[w] = "done"
================================================================================

---------------------------- MODULE EventBusProofs -----------------------------
(***************************************************************************)
(* What a webhook is told is a prefix of what happened, for any number of  *)
(* webhooks, clients and requests, and channels of any capacity.           *)
(***************************************************************************)
EXTENDS EventBus, TLAPS

USE CapacityAssumption

Event == ({"forward"} \X Nat) \cup ({"stream"} \X Writer)
Receiver == [at : {"recv", "post", "ended"}, next : Int]

BusTypes ==
  /\ fsent \in Nat
  /\ handler \in Receiver
  /\ log \in Seq(Event)
  /\ hook \in [Hook -> Receiver]
  /\ posted \in [Hook -> Seq(Event)]

\* The handler has copied the events before its next one, in order, and nobody
\* else sends a forward's events: the manager's channel is numbered, and while
\* the handler runs the last number in it is the one before its next.
LogInv ==
  /\ Numbered(log)
  /\ handler.at = "recv" =>
       /\ handler.next >= 1
       /\ \A i \in DOMAIN log : log[i][1] = "forward" => log[i][2] < handler.next
       /\ handler.next = 1 \/ \E i \in DOMAIN log : log[i] = ForwardEvent(handler.next - 1)

\* A webhook has posted the log up to its position; the event that it holds is
\* the next one.
HookInv(h) ==
  /\ Len(posted[h]) <= Len(log)
  /\ \A i \in 1..Len(posted[h]) : posted[h][i] = log[i]
  /\ hook[h].at = "recv" => hook[h].next = Len(posted[h]) + 1
  /\ hook[h].at = "post" => hook[h].next = Len(posted[h]) + 2 /\ Len(posted[h]) < Len(log)

BusInv == BusTypes /\ LogInv /\ \A h \in Hook : HookInv(h)

--------------------------------------------------------------------------------
\* Whether an event follows depends on the events up to it.
LEMMA FollowsPrefix ==
  ASSUME NEW s, NEW t, NEW i \in Nat \ {0}, \A j \in 1..i : s[j] = t[j], Follows(t, i)
  PROVE  Follows(s, i)
<1>1. s[i] = t[i] /\ \A j \in 1..(i - 1) : s[j] = t[j]
  OBVIOUS
<1>. QED BY <1>1 DEF Follows

\* A prefix of a numbered sequence is numbered.
LEMMA PrefixNumbered ==
  ASSUME NEW s \in Seq(Event), NEW t \in Seq(Event), Numbered(t),
         Len(s) <= Len(t), \A i \in 1..Len(s) : s[i] = t[i]
  PROVE  Numbered(s)
<1> SUFFICES ASSUME NEW i \in 1..Len(s), s[i][1] = "forward" PROVE Follows(s, i)
  BY DEF Numbered
<1>1. /\ i \in Nat \ {0} /\ i \in DOMAIN t /\ s[i] = t[i]
      /\ \A j \in 1..i : s[j] = t[j]
  OBVIOUS
<1>2. Follows(t, i)
  BY <1>1 DEF Numbered
<1>. QED BY <1>1, <1>2, FollowsPrefix

\* A request's own event is not a forward's: it disturbs no numbering.
LEMMA AppendStream ==
  ASSUME NEW s \in Seq(Event), NEW w \in Writer, Numbered(s)
  PROVE  Numbered(Append(s, StreamUp(w)))
<1> DEFINE t == Append(s, StreamUp(w))
<1>1. /\ StreamUp(w) \in Event /\ StreamUp(w)[1] = "stream"
      /\ t \in Seq(Event) /\ Len(t) = Len(s) + 1
      /\ \A i \in 1..Len(s) : t[i] = s[i]
      /\ t[Len(s) + 1] = StreamUp(w)
  BY DEF Event, StreamUp
<1> HIDE DEF t
<1>2. SUFFICES ASSUME NEW i \in 1..Len(t), t[i][1] = "forward" PROVE Follows(t, i)
  BY <1>1 DEF Numbered, t
<1>3. i \in Nat \ {0} /\ i \in DOMAIN s /\ \A j \in 1..i : t[j] = s[j]
  BY <1>1, <1>2
<1>4. Follows(s, i)
  BY <1>2, <1>3 DEF Numbered
<1>. QED BY <1>3, <1>4, FollowsPrefix

\* The event after the last one may follow.
LEMMA AppendForward ==
  ASSUME NEW s \in Seq(Event), NEW n \in Nat, n >= 1, Numbered(s),
         \A i \in DOMAIN s : s[i][1] = "forward" => s[i][2] < n,
         n = 1 \/ \E i \in DOMAIN s : s[i] = ForwardEvent(n - 1)
  PROVE  LET t == Append(s, ForwardEvent(n)) IN
         /\ t \in Seq(Event)
         /\ Numbered(t)
         /\ \A i \in DOMAIN t : t[i][1] = "forward" => t[i][2] < n + 1
         /\ \E i \in DOMAIN t : t[i] = ForwardEvent(n)
<1> DEFINE t == Append(s, ForwardEvent(n))
<1>1. /\ ForwardEvent(n) \in Event /\ ForwardEvent(n)[1] = "forward" /\ ForwardEvent(n)[2] = n
      /\ t \in Seq(Event) /\ Len(t) = Len(s) + 1
      /\ \A i \in 1..Len(s) : t[i] = s[i]
      /\ t[Len(s) + 1] = ForwardEvent(n)
  BY DEF Event, ForwardEvent
<1>2. \A i \in 1..Len(s) : s[i] \in Event
  OBVIOUS
<1> HIDE DEF t
<1>3. \A i \in DOMAIN t : t[i][1] = "forward" => t[i][2] < n + 1
  <2> SUFFICES ASSUME NEW i \in 1..Len(t), t[i][1] = "forward" PROVE t[i][2] < n + 1
    BY <1>1
  <2>1. CASE i = Len(s) + 1 BY <2>1, <1>1
  <2>2. CASE i \in 1..Len(s)
    <3>1. s[i] \in Event /\ t[i] = s[i] /\ i \in DOMAIN s
      BY <2>2, <1>1, <1>2
    <3>2. s[i][2] \in Nat
      BY <3>1 DEF Event
    <3>. QED BY <3>1, <3>2
  <2>. QED BY <1>1, <2>1, <2>2
<1>4. Numbered(t)
  <2> SUFFICES ASSUME NEW i \in 1..Len(t), t[i][1] = "forward" PROVE Follows(t, i)
    BY <1>1 DEF Numbered
  <2>1. CASE i = Len(s) + 1
    <3>1. t[i][2] = n /\ 1..(i - 1) = DOMAIN s /\ \A j \in 1..(i - 1) : t[j] = s[j]
      BY <2>1, <1>1
    <3>. QED BY <3>1 DEF Follows
  <2>2. CASE i \in 1..Len(s)
    <3>1. i \in Nat \ {0} /\ i \in DOMAIN s /\ \A j \in 1..i : t[j] = s[j]
      BY <2>2, <1>1
    <3>2. Follows(s, i)
      BY <3>1 DEF Numbered
    <3>. QED BY <3>1, <3>2, FollowsPrefix
  <2>. QED BY <1>1, <2>1, <2>2
<1>5. \E i \in DOMAIN t : t[i] = ForwardEvent(n)
  <2>1. Len(s) + 1 \in DOMAIN t
    BY <1>1
  <2>. QED BY <2>1, <1>1
<1>. QED BY <1>1, <1>3, <1>4, <1>5 DEF t

--------------------------------------------------------------------------------
\* The log only grows at its end, which disturbs no webhook.
LEMMA LogGrows ==
  ASSUME BusTypes, NEW e \in Event, log' = Append(log, e),
         UNCHANGED <<hook, posted>>, \A h \in Hook : HookInv(h)
  PROVE  \A h \in Hook : HookInv(h)'
<1> SUFFICES ASSUME NEW h \in Hook PROVE HookInv(h)'
  OBVIOUS
<1>1. /\ Len(log') = Len(log) + 1 /\ Len(log) \in Nat
      /\ \A i \in 1..Len(log) : log'[i] = log[i]
  BY DEF BusTypes
<1>2. posted[h] \in Seq(Event) /\ Len(posted[h]) \in Nat /\ hook[h] \in Receiver
  BY DEF BusTypes
<1>. QED BY <1>1, <1>2 DEF HookInv

\* Initially nothing has been sent.
LEMMA BusInit == Init => BusInv
<1> SUFFICES ASSUME Init PROVE BusInv
  OBVIOUS
<1>1. BusTypes
  BY DEF Init, BusTypes, Receiver, Start
<1>2. LogInv
  BY DEF Init, LogInv, Numbered, Start
<1>3. ASSUME NEW h \in Hook PROVE HookInv(h)
  <2>1. /\ posted[h] = <<>> /\ Len(posted[h]) = 0 /\ log = <<>> /\ Len(log) = 0
        /\ hook[h].at = "recv" /\ hook[h].next = 1
    BY DEF Init, Start
  <2>. QED BY <2>1 DEF HookInv
<1>. QED BY <1>1, <1>2, <1>3 DEF BusInv

\* forward_event_handler copies the next event, or ends when it lags.
LEMMA HandlerStep == ASSUME BusInv, ForwardEventHandler PROVE BusInv'
<1> USE DEF BusInv
<1>1. /\ handler \in Receiver /\ handler.next \in Int /\ fsent \in Nat /\ log \in Seq(Event)
      /\ handler.at = "recv" /\ handler.next >= 1 /\ handler.next \in Nat
  BY DEF BusTypes, LogInv, ForwardEventHandler, Receiver
<1>2. CASE Lagged(handler, fsent, ForwardCapacity)
  <2>1. handler' = [at |-> "ended", next |-> fsent - ForwardCapacity + 1] /\ log' = log
    BY <1>2 DEF ForwardEventHandler, Recv
  <2>2. handler' \in Receiver /\ handler'.at # "recv"
    BY <2>1, <1>1 DEF Receiver
  <2>. QED BY <2>1, <2>2 DEF ForwardEventHandler, BusTypes, LogInv, HookInv
<1>3. CASE ~Lagged(handler, fsent, ForwardCapacity)
  <2> DEFINE n == handler.next
  <2>1. /\ handler' = [at |-> "recv", next |-> n + 1]
        /\ log' = Append(log, ForwardEvent(n))
    BY <1>3 DEF ForwardEventHandler, Recv
  <2>2. handler' \in Receiver /\ handler'.next = n + 1 /\ n + 1 >= 1
    BY <2>1, <1>1 DEF Receiver
  <2>3. /\ log' \in Seq(Event) /\ Numbered(log')
        /\ \A i \in DOMAIN log' : log'[i][1] = "forward" => log'[i][2] < n + 1
        /\ \E i \in DOMAIN log' : log'[i] = ForwardEvent(n)
    BY <2>1, <1>1, AppendForward DEF LogInv
  <2>4. LogInv'
    <3>1. (Numbered(log))'
      BY <2>3 DEF Numbered, Follows, ForwardEvent
    <3>2. \E i \in DOMAIN log' : log'[i] = ForwardEvent(handler'.next - 1)
      <4>1. handler'.next - 1 = n
        BY <1>1, <2>2
      <4>. QED BY <4>1, <2>3
    <3>3. \A i \in DOMAIN log' : log'[i][1] = "forward" => log'[i][2] < handler'.next
      BY <2>2, <2>3
    <3>. QED BY <2>2, <3>1, <3>2, <3>3 DEF LogInv, ForwardEvent
  <2>5. ForwardEvent(n) \in Event
    BY <1>1 DEF Event, ForwardEvent
  <2>6. \A h \in Hook : HookInv(h)'
    BY <2>1, <2>5, LogGrows DEF ForwardEventHandler
  <2>7. BusTypes'
    BY <2>2, <2>3 DEF BusTypes, ForwardEventHandler
  <2>. QED BY <2>4, <2>6, <2>7
<1>. QED BY <1>2, <1>3

\* A webhook takes the next event of the log and posts it before it takes
\* another.
LEMMA HookStep == ASSUME BusInv, NEW h \in Hook, HookRecv(h) \/ HookPost(h) PROVE BusInv'
<1> USE DEF BusInv
<1>1. /\ hook[h] \in Receiver /\ hook[h].next \in Int /\ posted[h] \in Seq(Event)
      /\ log \in Seq(Event) /\ Len(log) \in Nat /\ Len(posted[h]) \in Nat
  BY DEF BusTypes, Receiver
<1>2. UNCHANGED <<log, handler, fsent>>
  BY DEF HookRecv, HookPost
<1>3. LogInv'
  BY <1>2 DEF LogInv, Numbered, Follows, ForwardEvent
<1>4. CASE HookRecv(h)
  <2>1. hook'[h] = Recv(hook[h], Len(log), EventCapacity, "post") /\ posted' = posted
    BY <1>4 DEF HookRecv, BusTypes
  <2>2. hook[h].next = Len(posted[h]) + 1 /\ hook[h].next <= Len(log)
    BY <1>4 DEF HookRecv, HookInv
  <2>3. hook'[h] \in Receiver /\ hook' \in [Hook -> Receiver]
    BY <2>1, <1>1, <1>4 DEF Recv, Receiver, BusTypes, HookRecv
  <2>4. \/ hook'[h].at = "ended"
        \/ hook'[h].at = "post" /\ hook'[h].next = Len(posted[h]) + 2
    BY <2>1, <2>2, <1>1 DEF Recv
  <2>5. HookInv(h)'
    BY <2>1, <2>2, <2>4, <1>1, <1>2 DEF HookInv
  <2>6. \A g \in Hook \ {h} : HookInv(g)'
    BY <1>4, <1>2, <2>1 DEF HookInv, HookRecv, BusTypes
  <2>. QED BY <1>2, <1>3, <2>1, <2>3, <2>5, <2>6 DEF BusTypes
<1>5. CASE HookPost(h)
  <2> DEFINE e == log[hook[h].next - 1]
  <2>1. hook[h].next - 1 = Len(posted[h]) + 1 /\ Len(posted[h]) < Len(log)
    BY <1>5, <1>1 DEF HookPost, HookInv
  <2>2. e \in Event
    BY <2>1, <1>1
  <2>3. /\ posted'[h] = Append(posted[h], e)
        /\ hook'[h].at = "recv" /\ hook'[h].next = hook[h].next
        /\ hook'[h] \in Receiver
        /\ \A g \in Hook \ {h} : posted'[g] = posted[g] /\ hook'[g] = hook[g]
    BY <1>5, <1>1 DEF HookPost, BusTypes, Receiver
  <2>4. BusTypes'
    <3>1. posted' \in [Hook -> Seq(Event)]
      BY <1>5, <1>1, <2>2 DEF HookPost, BusTypes
    <3>2. hook' \in [Hook -> Receiver]
      BY <1>5, <2>3 DEF HookPost, BusTypes
    <3>. QED BY <1>2, <3>1, <3>2 DEF BusTypes
  <2>5. HookInv(h)'
    <3>1. /\ Len(posted'[h]) = Len(posted[h]) + 1
          /\ \A i \in 1..Len(posted[h]) : posted'[h][i] = posted[h][i]
          /\ posted'[h][Len(posted[h]) + 1] = log[Len(posted[h]) + 1]
      BY <2>1, <2>2, <2>3, <1>1
    <3>2. \A i \in 1..Len(posted[h]) : posted[h][i] = log[i]
      BY DEF HookInv
    <3>3. \A i \in 1..(Len(posted[h]) + 1) : posted'[h][i] = log[i]
      BY <3>1, <3>2, <1>1
    <3>. QED BY <2>1, <2>3, <3>1, <3>3, <1>1, <1>2 DEF HookInv
  <2>6. ASSUME NEW g \in Hook \ {h} PROVE HookInv(g)'
    <3>1. posted'[g] = posted[g] /\ hook'[g] = hook[g] /\ HookInv(g)
      BY <2>3
    <3>. QED BY <3>1, <1>2 DEF HookInv
  <2>. QED BY <1>3, <2>4, <2>5, <2>6
<1>. QED BY <1>4, <1>5

\* The other tasks write neither the events of a forward nor what a webhook
\* does; a request that creates a stream adds its own event to the log.
LEMMA OtherStep ==
  ASSUME BusInv,
         \/ SendEvent
         \/ \E c \in Client :
              SseRecv(c) \/ SseLock(c) \/ SseSend(c) \/ ClientRead(c) \/ ClientGone(c)
         \/ \E w \in Writer : WriterRequest(w) \/ WriterRun(w)
         \/ UNCHANGED vars
  PROVE  BusInv'
<1> USE DEF BusInv
<1>1. ASSUME UNCHANGED <<handler, log, hook, posted>>, fsent' \in Nat PROVE BusInv'
  BY <1>1 DEF BusTypes, LogInv, Numbered, Follows, ForwardEvent, HookInv
<1>2. CASE SendEvent
  BY <1>1, <1>2 DEF SendEvent, BusTypes
<1>3. ASSUME NEW c \in Client,
             SseRecv(c) \/ SseLock(c) \/ SseSend(c) \/ ClientRead(c) \/ ClientGone(c)
      PROVE  BusInv'
  BY <1>1, <1>3 DEF SseRecv, SseLock, SseSend, ClientRead, ClientGone, BusTypes
<1>4. ASSUME NEW w \in Writer, WriterRequest(w) PROVE BusInv'
  BY <1>1, <1>4 DEF WriterRequest, BusTypes
<1>5. ASSUME NEW w \in Writer, WriterRun(w) PROVE BusInv'
  <2>1. log' = Append(log, StreamUp(w)) /\ UNCHANGED <<fsent, handler, hook, posted>>
    BY <1>5 DEF WriterRun
  <2>2. StreamUp(w) \in Event /\ StreamUp(w)[1] # "forward"
    BY DEF Event, StreamUp
  <2>3. log \in Seq(Event) /\ Numbered(log)
    BY DEF BusTypes, LogInv
  <2>4. log' \in Seq(Event) /\ (Numbered(log))'
    <3>1. log' \in Seq(Event) /\ Numbered(log')
      BY <2>1, <2>2, <2>3, AppendStream
    <3>. QED BY <3>1 DEF Numbered, Follows, ForwardEvent
  <2>5. /\ DOMAIN log = 1..Len(log) /\ DOMAIN log' = 1..(Len(log) + 1) /\ Len(log) \in Nat
        /\ \A i \in 1..Len(log) : log'[i] = log[i]
        /\ log'[Len(log) + 1] = StreamUp(w)
    BY <2>1, <2>2, <2>3
  <2>6. LogInv'
    BY <2>1, <2>2, <2>4, <2>5 DEF LogInv
  <2>7. \A h \in Hook : HookInv(h)'
    BY <2>1, <2>2, LogGrows
  <2>. QED BY <2>1, <2>4, <2>6, <2>7 DEF BusTypes
<1>6. CASE UNCHANGED vars
  BY <1>1, <1>6 DEF vars, BusTypes
<1>. QED BY <1>2, <1>3, <1>4, <1>5, <1>6

\* Every webhook's view is a prefix of the manager's channel, whose share of the
\* forward's events is 1, 2, 3 and so on: what a webhook posts has no hole and
\* no repetition, whichever channel overflows and whoever is cut off.
THEOREM HooksSeePrefixes == Spec => []HookSeesPrefix
<1>1. Init => BusInv
  BY BusInit
<1>2. BusInv /\ [Next]_vars => BusInv'
  BY HandlerStep, HookStep, OtherStep DEF Next
<1>3. BusInv => HookSeesPrefix
  <2> SUFFICES ASSUME BusInv, NEW h \in Hook PROVE Numbered(posted[h])
    BY DEF HookSeesPrefix
  <2>1. posted[h] \in Seq(Event) /\ log \in Seq(Event) /\ Numbered(log) /\ HookInv(h)
    BY DEF BusInv, BusTypes, LogInv
  <2>. QED BY <2>1, PrefixNumbered DEF HookInv
<1>. QED BY <1>1, <1>2, <1>3, PTL DEF Spec
================================================================================

# A verification development for live777

live777 is a WebRTC SFU for live streams: publishers come in over WHIP,
subscribers leave over WHEP, nodes pass streams on to each other (cascade), and
a node can record what it forwards. Liveman joins nodes to a cluster; whipinto
and whepfrom (livetwo) connect it with RTSP and plain RTP. This directory holds
TLA+ models of these parts, the TLC configurations that check them and TLAPS
proofs about the parts of a node and about Liveman.

Paths below are relative to the repository root (`liveion/src/...`).

## 1. Inventory

| component | state it keeps | operations | hard behaviour | what makes it correct |
|---|---|---|---|---|
| **Stream forward** (`liveion/src/forward/mod.rs`, `internal.rs`, `publish.rs`) | publish slot, published tracks, subscriber group, two leave times, one RwLock each | WHIP `set_publish`, WHEP `add_subscribe`, cascade `publish_pull` / `subscribe_push`, `remove_*` from connection callbacks, `remove_peer`, `close`, `info` | every operation is several critical sections; callbacks are spawned tasks that run at any later time; the fair read-write locks are nested | one publisher at a time, evicted only by its own end; leave times, gauges and events agree with the sessions; no lock cycle; failed sessions leave |
| **Media forwarding** (`forward/subscribe.rs`, `track.rs`, `rtcp.rs`) | per sender: bound track, select channel | RTP loop, RTCP loop, layer selection | notifications that race with joins and clears, lagging receivers, a table shared by two loops | no change of the tracks is lost; a medium that is off stays off; RTCP reaches the forwarded track |
| **Stream manager** (`stream/manager.rs`) | `stream_map` | create, look up, delete, DELETE of a session, two auto-delete ticks | a forward is used after the map is unlocked; ticks act on stale names | a tick spares busy streams; each stream's end is announced and counted once |
| **Events, webhooks, SSE** (`manager.rs`, `hook/`, `route/stream.rs`) | two broadcast channels, one bounded queue per SSE client | send, copy, post, snapshot | overflow (capacity 4), a lock held across a bounded send | consumers see gapless prefixes; requests are served |
| **Metrics** (`metrics.rs`) | four gauges | inc, dec | increments far from the state they count | gauges agree with what they count |
| **Recorder control** (`recorder/mod.rs`, `task.rs`) | `TASKS`, the index entries | `start`, `stop`, event loop, rotation | three callers of start and stop; a lock held while waiting for media | no task without an owner; an entry is Active only while it is recorded |
| **Recorder index** (`recorder/index.rs`) | entries, a JSON file | upsert, status, list by page, ack | a page that is cut while entries change; a crash between remove and rename | no entry lost or acknowledged unseen |
| **Recorder media path** (`recorder/task.rs`, `segmenter.rs`, `fmp4.rs`, `pli_backoff.rs`, `codec/`) | receivers, parser buffers, codec configuration, samples, manifest, back-off timers | receive, parse, push frame, cut, flush, key frame request, track change | lost, late and lagging packets, publishers that change, wrapping timestamps, a stop at any time | recorded units are whole; segments are seekable; the manifest is true of the files; nothing gathered is left behind at the end |
| **Liveman** (`liveman/src`) | node store (nodes, streams, sessions), cascades, recordings table, sync cursors | poll of the nodes, WHIP/WHEP/session proxy, stream routes, cascade with its tick, auto-record, rotation, record sync | every await is a window in which the cluster or the store changes; a poll clears what requests have put; lost answers; restarts | sessions are routed to their node; a stream stays in one piece; a cascade is fed before others are sent away and closed when idle; every recording reaches the table |
| **RTSP library** (`libs/rtsp`) | session of a server connection, handshake of a client, buffer of an interleaved reader | ANNOUNCE/DESCRIBE, SETUP, PLAY/RECORD, authentication, read | split and joined reads, guessed media, ports that are promised before they are bound | both sides agree on the transports; frames come out as they went in |
| **livetwo** (`livetwo/src`) | stage of the gateway, transports, tracks, repacketizer, child process, peer | set up, reconnect, forward a packet, repacketize, shut down | reconnection over other ports or another transport, loss, cancellation | media reach the right track or client; frames stay exact; the session ends when its peer or child does |
| **net4mqtt** (`libs/net4mqtt`) | tunnels by key | TCP/UDP over MQTT | duplicated and reordered messages | not modelled; its effect on Liveman is |
| **livecam** (`livecam/src`) | cameras, network settings | start, stop, configure | system tools | not modelled |
| **Others** (`libs/{api,auth,cli,http-log,iceserver,libwish,signal,storage}`, `web`, `src`) | none of their own | conversion, filtering, start-up | none | not modelled |

The HTTP routes call the manager and the recorder. The manager owns the
forwards; a forward talks back through its event channel only, which a task of
the manager copies into the manager's channel; webhooks, SSE clients and the
recorder read that one. The ticks, the recorder's event loop and rotation, and
every webrtc callback are tasks of their own. All of it shares state through
tokio's fair read-write locks. Liveman reaches nodes by their HTTP routes only;
a node pushes a cascade as a WHIP client of another. A gateway of livetwo is a
WHIP or WHEP client of a node.

`PROJECT.json` lists the hazards found while reading, at their lines, with the
properties that cover them.

## 2. Modules and the code they model

| module | models |
|---|---|
| `PublishSlot` | what a stream promises about its publisher (abstract) |
| `PeerForward` | one stream: every session's request, connection, callbacks and removal; implements `PublishSlot` |
| `ForwardLocks` | the locks of a stream and of the map, and the order in which every operation takes them |
| `SubscribeForward` | the RTP loops of one subscriber: track changes, layer and resource requests, RTCP routing |
| `StreamManager` | names, incarnations of streams, deletes, the two ticks |
| `EventBus` | broadcast channels, webhooks, SSE |
| `Recorder` | `TASKS`, `start`, `stop`, event loop, rotation, index status |
| `RtpParser` | the recorder's RTP parsers and codec adapters: packets to frames, and what a frame tells of the configuration |
| `PliBackoff`, `Fmp4`, `Segmenter` | key frame requests, contents of the files, cutting and manifest, as operators on their state |
| `RecordingTask` | the loop of one recording over the four modules above |
| `RtspServer`, `RtspClient`, `TcpStream` | a server connection, the client's handshake, interleaved frames on a byte stream |
| `RePayload` | depacketizing, parameter sets, packetizing |
| `Livetwo` | whipinto and whepfrom over the four modules above |
| `LivemanStore`, `RecordIndex` | Liveman's `Storage`; a node's index of recordings |
| `Liveman` | requests and ticks of the manager over the two modules above and over nodes |
| `MC*` | the instances for TLC |
| `*Proofs` | theorems about the module of that name |

**PeerForward.** `publish`, `publish_tracks`, `publish_leave_at`,
`subscribe_group`, `subscribe_leave_at` are the fields of
`PeerForwardInternal`. A peer is a request, the RTCPeerConnection it makes and
the session it becomes (a session id is made from the connection, so none comes
back). `request[p]` says between which two awaits its handler is, `removal[p]`
the same of its `remove_publish` / `remove_subscribe` task, `closing` and
`track_up` hold the other spawned tasks. One action is one stretch between two
lock acquisitions: `set_publish` is `PublishRequest`, `NewPublishPeer`,
`Negotiate`, `SetPublish`, `SetPublishLeaveAt`, `AnnouncePublish`. The
`publish_lock` is not modelled as a lock because the code does not hold it
(`let _ = ...lock().await` drops the guard at once). `reaping` is the window of
an auto-delete tick between its look at the stream and its `close()`.
A leave time is 0 or "some time in the past", so a timeout may expire at once.
`sent` is a set, as each session sends each event at most once. Abstracted: the
contents of SDP, ICE candidates, data channels, tracks beyond their owner.

**ForwardLocks.** An operation is the sequence of locks it takes and drops, with
the lifetimes Rust gives the guards (a temporary of a tail expression lives to
the end of it, so `info` holds five). The lock is tokio's: first come, first
served, a reader behind a queued writer waits.

**SubscribeForward.** For each kind of media a loop with its bound track
(`track`/`recv` in the code), its entry of `track_binding_publish_rid` and
`pre_rid`. A message (a change of `publish_tracks`, a request of the client) is
handled in one step, since the loop holds both locks from its first look to its
last write. A pending notification is a flag: its handler looks at the tracks as
they are, so a lagging receiver loses nothing. The select channel keeps one
request; a second one becomes Lagged, which ends the loop. What `replace_track`
refuses (a track of the other kind, a codec that was not negotiated) is external
and given by `Refused`. Publishers come and go as in `PeerForward`, reduced to
what touches the tracks: the clear of an old publisher may wipe the tracks of a
new one, and a track may come up after its publisher left.

**StreamManager.** A forward is an incarnation number. Of its sessions the critical
sections are kept that the ticks depend on: `set_publish` takes the slot and then
resets the leave time, `remove_publish` releases the slot and stamps the leave time
later, `add_subscribe` joins the group and then resets, `remove_subscribe` does both
at once. A request holds the forward it found after the map is unlocked. A tick
scans under the read lock, takes the write lock later and keeps it over several
awaits; meanwhile the forwards change but the map does not. `busy` and `overtaken`
are history: when a forward was last in use, and the publishers whose reset the
stamp of an older one has followed.

**EventBus.** `Recv` is `broadcast::Receiver::recv`: the next value, or Lagged
once the receiver is more than a capacity behind, which ends each of the
`while let Ok` loops. The SSE task holds the read lock of the map from `SseLock`
to the end of `SseSend`.

**Recorder.** A process is an API request, the event loop or the rotation. `at`
says where it is in `start` or `stop`; `lock` is the write guard of `TASKS` that
`start` keeps across its awaits. The waiting loop for tracks is an action that
is enabled once the forward has tracks. Record ids are seconds, as in the code.

**RecordingTask.** `Script` gives the packets of a publisher. The network loses a
packet or lets one overtake another; a receiver may lag; publishers leave and
come. A packet carries parts of units and a unit is the sequence of the parts
that a parser has put together, so that a unit joined from two halves is seen as
such. The biased `select!` only orders branches that are ready together, and the
environment decides when each is. Parsers, adapters, segmenter and back-off are
operators from a state to the next; `seg.files` is the sequence of writes handed to
`store_file`, each of which is a detached task. What storage holds is not a
variable: any write may fail or come after a later one, and the properties speak
of every outcome. Bytes, boxes, bit rates and the text of the manifest are
abstracted; sizes are counted in parts, since limits depend on them. `asks` and
`before` are history: the key frame requests since the last start of the back-off,
and those before the first frame, which starts it over.

**Livetwo.** `cfg` is the command line and the habits of the other side (the way
its URIs name media, its SDP, whether it uses TCP). A gateway is its stage
(input or output, peer, codecs, transports, wait, closing) next to the
connections of the RTSP server, the client's handshake, the interleaved streams
and the listeners for UDP. An interleaved stream is bytes that arrive in any cut,
a header of four and a payload that may itself hold a `$`; `swallowed` says that the
answer to PLAY came with the first of them, which the client drops. A description
may leave out the control attribute of a medium, which is then not set up, and a
401 may come without a challenge, which ends the handshake. `RePayload` packetizes
H265 as the code does and the rest as webrtc-rs' payloaders do, which are external:
the one for H264 holds parameter sets back and sends them together. A connection that
comes again sends a port update, which replaces transports as the code does:
the first connection's are not stopped by it. `told` keeps what each client was
answered, as the reference for where media belong.

**Liveman.** A process is a request or a tick; every await on the network or the
database ends a step, and each call may fail, before or after the node has acted,
while faults are left. The poll of the nodes that each handler may start is four
kinds of steps: `Update` (the first clear, and the question for strategies),
`Strategy` (their answers, and the second clear), `Fetch` (the answer of one node,
at a moment of its own) and `Put` (its entry into the store). A node that cannot be
reached is passed over; one that fails in the middle of its answer makes the code
unwrap an error, and the request, or the loop of a tick, is dead (`Panic`). `st` is the
shared `Storage`. A node is its one stream, its recording and its index, and answers
as liveion's routes do. `Announce` is net4mqtt adding and removing a node, at any
time, `shaken` the history of the processes it happened to. `do_cascade_check` reads the
URLs, the servers and the streams in three steps and then deletes one session after
another; `TargetNode` is `parse_node_and_stream`, which fails for a URL without an
explicit port (`cfg.bare`); `SessionDelete` sends no token, so that a node that wants
one (`cfg.token`) refuses it. `cascade_close_other_sub` is `CascadeClose` and, for each
session, `CascadeCut`; the update that may happen inside its `info_get` is one step
there, which puts in all answers or dies after the clear. `calm` is history: no two
processes have overlapped and nothing has failed so far. Abstracted: other streams
(each map is looked up by one name), playback routes, tokens except for the calls
that send none.

## 3. Runs

Passing runs:

| run | instance | shows |
|---|---|---|
| `forward` | any two of a WHIP and a pull publisher, a WHEP and a push subscriber, auto-delete and `cascade_push_close_sub` on, fairness | `SlotSpec`, `GaugesBalance`, `EventsMatchSessions`, `EstablishedNotIdle`, `CascadeReleased`, `FailedPublisherLeaves`, `FailedSubscriberLeaves`, `TypeOK` |
| `locks_ordered` | three tasks, all operations except the three that lock against the order | `NoDeadlock` |
| `manager_tick` | one name, two incarnations, two publishers, a subscriber, a DELETE, both ticks | `TickSparesBusyStreams`, `StreamEventsBalance` |
| `subscriber_media` | two publishers (a refused video, audio; two layers, audio), one subscriber, two requests | `NoLostChange`, `DisabledStaysSilent`, `RtcpReachesSource` |
| `bus` | four forward events, capacities 2, a webhook, an SSE client that reads or leaves, two requests | `HookSeesPrefix`, `HookCatchesUp`, `RequestServed` |
| `recorder_index` | two API calls, event loop and rotation on one stream, a failing storage | `NoOrphanTask`, `ActiveIsRegistered` |
| `recording` | a script for each of H264, H265, VP9 and AV1 with fragments, aggregates, padding and new parameter sets; audio; one or two faults; publishers that leave and come | `UnitsWhole`, `LosslessExact`, `ManifestExact`, `SegmentsSeekable`, `FlushedAtEnd`, `PliBacksOff` |
| `livetwo` | 17 configurations: both gateways as RTSP server (two connections, three ways to name media), RTSP client (UDP, TCP, with short and with empty payloads) and plain RTP (three codecs, with and without parameter sets in the SDP) | `FramesExact`, `RoutedRight`, `HandshakeSound`, `RePayloadExact`, `KeyFramesDecodable`, `SessionEnds` |
| `liveman` | 20 configurations on two nodes: two or three requests that meet, push and pull cascades with and without tokens, the tick that closes cascades with failures, default ports, tokens and nodes that come and go, recordings with syncs, rotation, lost answers, restarts, nodes that leave and a failing database | `SessionRouted`, `OnePublisher`, `LimitHonoured`, `PanicsOnlyShaken`, `PushCascadeFed`, `RecordNeverLost`, `CatalogueComplete`, `IdleCascadeClosed` |

Runs that end in a counterexample, each against a sentence of the repository:

| run | property | what happens |
|---|---|---|
| `locks_delete` | `DeleteAnswered` | `remove_peer`/`close` lock `publish` then `subscribe_group`, `info` the reverse; with a queued writer on each, all wait for ever |
| `recorder_ended` | `EndedTaskForgotten` | a recording that ended by itself stays registered |
| `manager_gauge` | `GaugeCountsStreams` | a tick decrements `metrics::STREAM` (`metrics.rs:5`, "stream number") twice for a stream that it removes, at `manager.rs:102` and `113` (`162` and `173`) |

Some properties leave out a case in which the code does something else. Each says
so in its comment, and section 5 describes what the code does:

- `TickSparesBusyStreams`: a publisher that was overtaken by the leave time of the one
  before.
- `ActiveIsRegistered`: process restarts and handlers whose client hangs up. It says
  nothing of entries whose recording ended by itself and stays registered
  (`recorder_ended`).
- `PliBacksOff`: the back-off starts over at the first frame, so that a publisher that
  never sends a key frame is asked up to twice `max_requests` times.
- `ManifestExact`: a segment whose write failed is listed and not found.
- `FramesExact`: streams whose start came in one read with the answer to PLAY.
- `HandshakeSound`: the SDP of an ANNOUNCE that was repeated with credentials, and
  media without a control attribute.
- `OnePublisher`, `LimitHonoured`: requests that overlap or fail; `LimitHonoured` also
  subscribers that name their nodes and a limit of 0 (`Roomy`).
- `PushCascadeFed`: pull cascades.
- `CatalogueComplete`, `IdleCascadeClosed`: what follows once the loop of the tick has
  died; the latter also cascades that Liveman has started, URLs without a port and
  nodes that want a token.
- `HookSeesPrefix`, `HookCatchesUp`: a POST that fails counts as posted, as in the code.

`RtcpReachesSource` leaves out one state of the code: `RID_ENABLE` sent to a
sender that is not disabled is stored in the table as it is, where it names no
track, so that RTCP is not passed on until the next selection. `NoLostChange`
speaks of clients that have made no request where it says that a loop attaches;
after requests the code may leave a sender without a track (enabling audio
searches the video tracks, `subscribe.rs:242`).

**Bounds.** Two sessions of a kind are enough for every race in `PeerForward`:
its conflicts are between one session that leaves and one that joins; the
theorems lift the safety part to any number. The circular wait of the locks
needs four tasks (two readers, a queued writer each), which `locks_delete` has;
among operations that respect the order three tasks already show every nesting.
Channel capacities 2 (16, 4 in the code) and 1 (64) are exceeded by the events
of the instance, so that lagging and full queues happen. In `StreamManager` the
clock runs over two seconds with timeouts 0, so that a timeout is met before, at
and after its boundary; `FirstTime` keeps times away from 0, which
means "not idle". `Recorder` has two forwards, two recordings and one second to
pass, which includes a stream made again and a rotation. In `SubscribeForward` two
publishers show a replacement and two requests a switch off and on, a change of
layer and a lagging loop. `RecordingTask` has timestamps and sequence numbers that
wrap at 8, a limit of three parts and four units that scripts exceed, segments of
two ticks, so that each script is cut several times, and back-off 1, 2, 2 with
two requests. `Livetwo` reads at most four bytes at once into a buffer of eight and has two ports
to give, so that headers and payloads are split, a payload of one byte may be a
`$`, and ports are taken twice.
`Liveman` has two nodes with room for one subscriber, one entry to a page and one
fault or two; two entries of one node make a page boundary, and a third process
shows what two others have left in the store. The deadlock check is
off where an instance uses up its requests, events or time and stops.

**Fairness.** tokio runs every task that is ready, so stretches of handlers and
spawned callbacks are weakly fair (`FairSpec`, `TaskFairness`). Nothing is
assumed of clients, the network, negotiation, time or the duration of a
recording. `AttentiveSpec` adds that SSE clients go on reading or disconnect. In
`Livetwo` the tasks that watch the peer and the child, the main loop and the time
limit of the shutdown are fair, nothing of the peers. In `Liveman` the ticks of
`record_sync` and `cascade_check` and the three seconds that bound a poll are
fair; faults are finite, since a node that never answers can promise nothing. In `ForwardLocks` fairness of each task is enough since
the lock queues are explicit; every step of a task brings it nearer to its end,
so `NoDeadlock` also says that each operation finishes. A webhook request is fair because the HTTP client
has a timeout (`hook/webhook.rs`).

## 4. Proofs

Each theorem is `Spec => []P` (or `Spec => P` for an action property and the
refinement) for a property `P` that a run checks, by an inductive invariant that
TLC has checked on the instance of the run. The assumptions are the named ones of
the modules; the ones a reader may not expect are given below.

**A stream** (`PeerForwardProofs`), for any finite sets of publishers and
subscribers and every strategy (`PeerAssumption`, `FinitePeers`,
`StrategyAssumption`):

- `TypeCorrect`: `TypeOK`, which is inductive.
- `SubscribersSafe`, `CascadesReleased`: `EstablishedNotIdle` and
  `CascadeReleased`, inductive together with the types. A removal step could not
  tell by itself that a group which it leaves empty has no established member.
- `SlotCorrect`: `SlotSpec`, the refinement of `PublishSlot`. It needs
  `ConnectionInv`: a removal task is only there for a closed connection, so
  that the one who empties the slot is the closed holder; every other step
  leaves the mapped variables alone or closes connections one by one or
  together with a stuttering slot.
- `EventsCorrect`: `EventsMatchSessions`, by `EventInv`, which says for
  each session, at each point of its request and of its removal, which of its
  events have been sent and whether it is registered. A frame lemma (`Same`)
  covers the steps that touch none of that.
- `GaugesCorrect`: `GaugesBalance`, by the same invariant and the
  cardinality lemmas for adding and removing one element.

**Its locks** (`ForwardLocksProofs`), for any finite set of tasks.
`OrderedNeverDeadlock` has the hypothesis `Operation \subseteq Ordered`: of the
seventeen operations, `remove_peer`, `stream_delete` and `check_tick` are left out,
and `locks_delete` shows why. `Rank` is the common order. A lemma for each kind of
operation shows that it takes one lock at a time, above all it holds, and drops
everything (`Respects`). `LockInv` ties this to the state: a task holds exactly
the locks its program says (`HolderInv`), it is queued at most once and for
the lock of its next step (`QueueInv`, `OnceInv`), and a lock with a queue is held
(`BusyInv`). Then the last lock in the order that has a queue is held by a task
that cannot be waiting, as it would wait for a later one.

**A subscriber's loops** (`SubscribeForwardProofs`), for any publishers, layers,
refused codecs and requests: `RtcpFindsSource`, `ChangesReachLoops`,
`DisabledSendersSilent`. `ForwardInv` adds to the types that a bound track has its
rid, or RID_ENABLE, in the table (`BindInv`), and that without a request no
sender is disabled (`AskInv`), without which a sender that was switched off would
look like one that has missed a change.

**The manager** (`StreamManagerProofs`), for any finite set of names and any
clients, forwards and timeouts. `EventsBalance` by `BookInv`: the map
holds each forward under its own name and none that is being deleted, and a stream
that a tick has chosen stays in the map until the tick removes it, since it
holds the lock. `TicksSpareBusyStreams` by `TimeInv`: a leave time that is set
belongs to a forward on which nobody is established, overtaken publishers left
aside, and is no earlier than its last use (`IdleInv`); so what the tick sees under
the lock is enough although its scan may be old. `JoinInv` and `RequestInv` tie the
slot and the group to the requests, which says who is between the two critical
sections of a join. The subscriber's half needs no exception: a leave removes and
stamps under one lock.

**Events** (`EventBusProofs`), for any capacities and any number of hooks, clients
and writers. `HooksSeePrefixes` by `BusInv`: the manager's log has the forward's
events in order, ending with the one before the handler's next while the handler
runs (`LogInv`), and a hook has posted the log up to its position (`HookInv`).

**Recordings** (`RecorderProofs`), for any streams, callers and interleaving:
`TasksStayReachable` and `ActiveEntriesAreLive` by `RecInv`. From its look at `TASKS`
to its entry in the index a start holds the write lock (`StartInv`), so that what
it has seen is still true when it registers its task; a stop that waits knows its
task's stream and second (`StopInv`), which names its index entry. `EventCapacity`
is assumed to be positive, as tokio's channel demands.

**The recording task** (`RecordingTaskProofs`), for every codec, script of packets,
loss, order and limit: `FlushedWhenEnded`, `SegmentsPlayable`, `RequestsBackOff`. For
each operation of the segmenter a lemma says which fields it changes and which
files it adds. `RecordingInv` holds between operations: a track that was not
opened has gathered nothing and the last manifest is up to date (`BufferInv`); the
segment being gathered has the next number and starts with a keyframe already
(`CutInv`), since a cut and the sample that caused it are one operation; there is
no init segment before the configuration is complete (`InitInv`), where AV1,
whose `updated` is any change, needs that a task without a track has seen no
sequence header. `PliInv` carries the schedule of waits: the one that doubles is
extended with every request, which takes the place of an induction over powers
of two. It is kept for the requests since the last start of the back-off and for
those before the first frame, where it starts over.

`OnlyWholeUnits` (`UnitsWhole`) and `ManifestsExact` (`ManifestExact`) rest on
`MediaTaskInv`, which has to be kept beside the first invariant:

- What a parser has gathered for VP9 or AV1 is the beginning of one unit
  (`Gathered`), and the packet whose sequence number comes next, if a unit goes on
  in it, is the one after the packet it has seen last (`Awaits`). After a loss the
  buffer is dropped, and a unit that goes on without its beginning is not taken.
  This is where `ScriptAssumption` is needed: packets are cut as the payload formats
  say (`Packetized`), and no packet that goes on with a unit carries the number
  after that of a packet other than its neighbour (`Unambiguous`). Without the
  latter a loss of exactly a multiple of 2^16 packets would go unnoticed, in the
  code as in the model.
- `TrackInv` relates the segments of a track to the writes handed over, `ExactInv`
  both tracks and every manifest, `WholeInv` the samples. A number is handed over
  once, so that it does not matter in which order storage takes the writes or which
  of them it loses. The length of a segment
  is a sum over its samples; instead of an induction over the sequence, the
  invariant carries the sum of what is gathered so far, which each sample extends
  by one step of the recursive function.

**Liveman** (`LivemanProofs`), for any nodes, processes and configurations that
satisfy `LivemanAssumption`: there are finitely many nodes, requests and initial
subscribers, configured and announced nodes are nodes, and the sessions that the
cluster starts with were not made by the modelled requests.

- `CatalogueSafe`: `RecordNeverLost`. `CatalogueInv` adds the types of store, cluster
  and indexes and, for each process, what it holds (`ProcInv`): what it is about to
  acknowledge is in the table, although a restart, a failed upsert or a lost
  answer may come between any two of its steps.
- `SessionsRouted`: `SessionRouted`. By `SessionInv`, until a restart, a session of
  a request is on one node only, in the cluster and in every answer that a poll
  has still to put in, however old (`LivesInv`); so a poll can only confirm the
  route. A session that was told is that of a finished request and in the store
  (`ToldInv`), as a poll clears the streams of the store, never its sessions.
- `PanicsShaken`: `PanicsOnlyShaken`. By `GroundInv` the nodes that an unshaken process
  waits for, has answers of or has chosen are in the cluster; for `cascade_check`, which
  is shaken by a node that comes as well, the three lists it has read are the same
  nodes. What `stream_get`
  returns is in it because it is filtered: `AmongIn` and `AmongAll` say what the
  filter keeps, by induction over its steps. The induction is stated for a set of
  numbers (`NatSetInduction`, from `HasLeast`), since the library's theorem takes an
  operator.
- `CascadesFed`: `Uncut => PushCascadeFed`. A cascade belongs to one WHEP request that has
  gone on to its destination and had servers to choose from (`TaskInv`); from the
  call until the end both of its ends are there, and the publisher of the
  destination is the cascade's (`FedInv`). `Uncut` says that no request and no node
  ends a published stream. It is needed: a stream that is ended at the source of a
  cascade and published again has a publisher and no cascade.
- `InOnePiece`: `Whole => OnePublisher`. `Whole` says that the stream is up on one
  known node at most to begin with. While it is calm one process at a time is at
  work, and one that begins polls all nodes (`CalmInv`); so nothing changes between
  its poll and its request. `PieceInv` says of each point of a handler (`Aware`) what
  it knows: after a poll the node that has the stream is among those listed, and a
  handler that goes to a node knows that no other has the stream.
- `LimitsHonoured`: `LimitHonoured`, which has `Roomy` as a hypothesis: the limit is not
  0, no subscriber names its nodes and the limit is kept to begin with.
  `RoomInv` has, for each point of a handler (`Counts`), that the limits known are
  the nodes' (`Told`), that the answers tell of at least the subscribers that the
  nodes have now (`Tells`), and that the request goes to a node with room; a node
  that is not among the servers of the request, which a cascade takes, has no
  subscribers of Liveman at all. Without `Roomy` it is false of the code: see
  `cascade.rs:16` in section 5. The run checks `OnePublisher` and `PushCascadeFed`
  without the hypotheses `Whole` and `Uncut`.

Only model-checked:

- the liveness properties (`FailedPublisherLeaves`, `FailedSubscriberLeaves`,
  `HookCatchesUp`, `RequestServed`, `SessionEnds`, `CatalogueComplete`,
  `IdleCascadeClosed`), which rest on fairness and are outside the prover's reach;
- `LosslessExact` of `RecordingTask`: its reference is put together with
  `FlattenSeq`, `SelectSeq` and minima over sets, of which the provers know nothing,
  and it compares whole sequences rather than steps;
- the properties of `Livetwo`: `TcpStream` cuts frames with recursive operators,
  which the prover does not take, and the others are stated over the same module.
  What the interleaved stream returns for every cut would be an induction over the
  bytes received.

## 5. What the models show and no run asserts

These behaviours are in the models, as they are in the code. No property is
stated about them, because none would hold or no document promises one.

- `forward/internal.rs:295`: `remove_publish` releases the slot, clears the tracks
  and stamps the leave time in three critical sections. A quick successor resets
  the stamp before it is made, keeps it, and its stream may be destroyed by the
  automatic deletion while it is live (`conf/live777.toml:92`: "Auto a destroy a
  stream at no pub"). Such a publisher is `overtaken` in `StreamManager`.
- `forward/internal.rs:396`: a track of a publisher can come up after the
  publisher's tracks were cleared, or be wiped with those of the one before.
- `stream/manager.rs:100`, `276`, `333`: a session can join a forward that a tick or
  a DELETE is removing, and a delete by name can hit the next stream of that name;
  `247`: StreamDown can follow the StreamUp of the next stream.
- `stream/manager.rs:464`: an SSE client that neither reads nor leaves keeps the map
  locked, and no WHIP request is answered any more; `RequestServed` assumes that
  there is none.
- `forward/subscribe.rs:53`: two requests in a row make a loop lag and end; `143`:
  a clear and new tracks that reach a loop as one notification leave it on the
  dead track; `242`: enabling audio searches the video tracks.
- `recorder/task.rs:120`: `start` waits for a stream's tracks without limit, in the
  event loop and with `TASKS` locked; one stream without media keeps all others
  from being recorded (`docs/guide/recorder.md:40`: "Record all streams").
- `recorder/task.rs:66`: two recordings of a stream in one second share their
  directory; `recorder/mod.rs:323`: a rotation restarts a stream that a user has
  stopped meanwhile; `task.rs:261`: the codec of the first track is kept for good;
  `codec/av1.rs:339`: a marker on a packet that completes no unit is not seen.
- `recorder/segmenter.rs:841`: files are stored by detached tasks whose failure is
  logged, so that an older manifest can overwrite a newer one and a listed segment
  can be missing; `task.rs:330`: a packet that comes late gives a sample of almost
  2^32 ticks, which the manifest repeats; `segmenter.rs:320`: the first frame, key frame
  or not, starts the back-off over.
- `libs/rtsp/src/client/session.rs:49`: media in one read with the answer to PLAY are
  dropped, and when that cuts a frame, `tcp_stream.rs:131` takes the next `$` at the head
  of its buffer for a header and hands on whatever follows. `session.rs:89`: an ANNOUNCE
  that is repeated with credentials has no body, although credentials in the URL are
  documented (`src/whepfrom.rs:12`). `session.rs:513`: a medium without a
  control attribute is left out without an error.
- `libs/rtsp/src/server/unified_session.rs:510`: only connection 1 hands over its
  media before the gateway starts. When it fails during its handshake, later ones
  are accepted and never served, while line 567 logs "waiting for reconnection...".
- `livetwo/src/whip/mod.rs:109`: a reconnection stops a task that only waits; the
  listeners of the connection before stay bound. `whep/mod.rs:75`: a track that
  comes later than a second after the connection is never sent on.
- `liveman/src/tick.rs:372`: an entry that the database refused is passed over by
  the cursor and not pulled again before a restart; the node keeps it
  (`RecordNeverLost`), and `CatalogueComplete` leaves such failures out.
- `liveman/src/tick.rs:46`: a cascade that Liveman started has the manager's public
  URL as its target (push) or no cascade information (pull), so that the idle
  check never finds it; `tick.rs:94`: a target URL without a port, or with the default
  port of its scheme, matches no node; `utils.rs:112`: the deletion sends no token, and
  a node that wants one refuses it. `conf/liveman.toml:70` promises that idle cascades
  are closed; `IdleCascadeClosed` is about the rest of them.
- `liveman/src/store.rs:316`, `394`: a node that fails in the middle of its answer ends
  the request or, for good, the loop of the tick that polls (`lib.rs:223` spawns it and
  nobody looks at it); `397`, `399`: so does a node that leaves during the poll.
  `tick.rs:40`: a node that comes between two reads of `do_cascade_check` ends its loop.
- `liveman/src/store.rs:380`: requests that meet between the clear and the refill can
  publish a stream on two nodes, and two subscribers can take one free place
  (`route/proxy.rs:320`).
- `recorder/index.rs:127`: of two changes with the same time stamp the second is passed
  over when a page ends between them.
- `liveman/src/route/cascade.rs:16` takes as destination any node that is not among
  the servers of the request: when the request named its nodes, also one that has
  the stream and is full. Servers are compared with their limits, so that one
  whose strategy has changed since counts as another.
- `liveman/src/route/cascade.rs:21` panics when every node already has the stream;
  `cascade.rs:87` closes the feeding session of a pull cascade; `proxy.rs:158` leaves a
  session on the node when a header cannot be built; `stream.rs:131` lets two
  requests create a stream on two nodes; `stream.rs:176` stops at the first node
  that fails; after a restart the sessions of publishers are not known any more.

## 6. Plan

1. Theorems: the handshake and the routing of `Livetwo`, once `TcpStream` is written
   with recursive functions; `LosslessExact` with a reference by position.
2. Modules: `TrackForward`, the loop that reads a published track and the task that
   drains a broadcast channel (`forward/track.rs`, `macro.rs`); the index file with
   crashes; `Net4mqtt`; the camera streams of `livecam`.

## 7. Not modelled

Bytes (RTP payloads, bit streams beyond the kinds of their units, SDP and manifest
text), HTTP parsing and status codes, authentication, configuration files,
logging, the web interface and process start-up keep no state that the properties
depend on. RTCP relays of livetwo race for packets of one sender by webrtc-rs'
rules, and nothing is promised to either. Storage back ends are a layer over an
object store. net4mqtt carries bytes over a broker: what its users see, nodes that
appear and disappear, is in `Liveman`; its tunnels are still to be done. livecam
is mostly text for system tools. `channels.rs`, `transport_manager.rs` and the
session table of `libs/rtsp` have no caller in the gateways. `PROJECT.json` gives
the reason for each component that has no module.

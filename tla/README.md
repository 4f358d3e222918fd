# Verification of the GCM engine and the GPU scheduler

This directory holds TLA+ models of two subsystems, the Google Cloud Messaging
engine (`src/google_apis/gcm/`) and the scheduler of the GPU service with its sync
points (`src/gpu/command_buffer/service/`), the TLC configurations that check them
on small instances, and TLAPS proofs. `engine/` stands for
`src/google_apis/gcm/engine/`, `base/` for `src/google_apis/gcm/base/` and
`service/` for `src/gpu/command_buffer/service/`.

- [1. The system](#1-the-system)
- [2. Modules and how they follow the code](#2-modules-and-how-they-follow-the-code)
- [3. Runs](#3-runs)
- [4. Bounds](#4-bounds)
- [5. Fairness](#5-fairness)
- [6. Proofs](#6-proofs)
- [7. Where code and comments disagree](#7-where-code-and-comments-disagree)
- [8. What is not modelled](#8-what-is-not-modelled)
- [9. Plan](#9-plan)

## 1. The system

The repository is a collection of directories of several products: layers of
Chromium (`content`, `extensions`, `gpu`, `ipc`, `dbus`, `google_apis`,
`crypto`, `gin`, `headless`, `ios`, `fuchsia_web`), the Go program Kiterunner
(`cmd`, `internal`, `pkg`) and the web application Juice Shop (`frontend`,
`lib`, `models`, ...). Two parts are both complete in the repository and hard in
their own right. The GCM engine is a client that keeps a connection to the MCS
server alive, exchanges messages over it with acknowledgements in both directions,
and survives lost connections and restarts. The GPU scheduler runs the tasks of
many clients on a few threads, in an order that their sync tokens constrain, and
must neither lose a wakeup nor wait for ever on what never comes.

### The GCM engine

| Component | State it keeps | Operations | Works with |
|---|---|---|---|
| `ConnectionFactoryImpl` | backoff entries (current, previous), flags (`connecting_`, `waiting_for_backoff_`, `waiting_for_network_online_`, `handshake_in_progress_`), next endpoint, login time | Connect, SignalConnectionReset, OnConnectionChanged, OnConnectDone, ConnectionHandlerCallback, the delayed ConnectWithBackoff | owns the handler; called by MCSClient, HeartbeatManager and the network monitor |
| `ConnectionEventTracker` | the current event, the completed ones (at most 30) | start, succeed, fail, end; write to a login request | called by the factory |
| `ConnectionHandlerImpl` | handshake flag, state of the framing, read timer, socket streams | Init, SendMessage, WaitForData, Reset | calls factory (status) and MCSClient (packets) |
| `SocketInputStream`, `SocketOutputStream` | a buffer with positions, a pending read or flush, the last error | Refresh, Next, BackUp, RebuildBuffer; Next, Flush | owned by the handler |
| `MCSClient` | `to_send_`, `to_resend_`, `collapse_key_map_`, stream ids, acknowledged and unacknowledged server ids | Initialize, Login, SendMessage, HandlePacketFromWire, MaybeSendMessage, ResetStateAndBuildLoginRequest | factory, handler, store, heartbeat, applications |
| `GCMStoreImpl` | counts of messages per application (foreground), LevelDB (background) | Load, Close, Destroy, add/overwrite/remove | called by MCSClient; answers through posted continuations |
| `HeartbeatManager` | timer, `waiting_for_ack_`, intervals | Start, Stop, OnHeartbeatAcked, OnHeartbeatTriggered, OnResume, CheckForMissedHeartbeat | MCSClient sends its pings; it resets the connection |
| check-in, registration and unregistration requests | one HTTP request, its backoff and retries | Start, OnURLLoadComplete | called from outside the engine |
| `GServicesSettings` | settings with defaults | UpdateFromCheckinResponse, UpdateFromLoad | check-in and store |

The engine runs on one sequence, so handlers do not overlap; what interleaves is
the order of handlers: socket callbacks, delayed tasks, posted tasks, network
changes, packets, and the calls of applications. The store adds a second
sequence. What makes this hard:

- delayed tasks and callbacks that fire after the state they were made for is
  gone (backoff tasks, answers of the store after Close);
- packets and acknowledgements lost with a connection, in both directions, where
  a stream id means nothing outside the connection it was used on;
- a queue in memory, its copy in the store that follows later, and a process
  that may stop in between;
- flags that make every path return early, so that nothing restarts the client;
- raw pointers into a queue (`collapse_key_map_`);
- limits enforced on counts that are corrected after the fact.

What makes each part correct:

- *factory*: something is always under way (or the network is gone), there is one
  backoff task at most, only a network change bypasses the backoff, a login that
  fails does not leave the backoff reset, and with a network it connects;
- *event tracker*: events are deleted only when a login request has carried them;
- *heartbeat*: a peer that is gone is noticed in time, through sleeps and changes
  of the interval, and one that answers keeps its connection;
- *handler*: however the bytes are cut into reads, the owner gets whole messages in
  order and one report of a failure at most, and a connection is never left
  without a reader;
- *client, outgoing*: an accepted message is kept, in order, until the server has
  it, it expires, or a later one collapses into it; `SENT` is the truth;
- *client, incoming*: a server message is acknowledged only when it was received,
  is delivered once, and its id is tracked until the server confirms;
- *store*: it follows the queues; its counts follow it; the limit is kept.

### The GPU scheduler

| Component | State it keeps | Operations | Works with |
|---|---|---|---|
| `SyncPointOrderData` | unprocessed order numbers, the current one, order fences | generate, begin, pause, finish; validate a wait; Destroy | one per sequence; used by the task graph |
| `SyncPointClientState` | released count, the client's own count, release callbacks | WaitForRelease, EnsureFenceSyncReleased, EnsureWaitReleased, Destroy | waits of other sequences leave callbacks here |
| `TaskGraph` | sequences with task queues and wait fences, validation timers | AddTask, BeginTask, FinishTask, ContinueTask, DestroySequence, ValidateSequenceTaskFenceDeps | calls the sync points; called back by them |
| `Scheduler` | per thread: running, run_next_task scheduled; per sequence: enabled, running state | ScheduleTask, ContinueTask, Enable/Disable, DestroySequence, RunNextTask | posts itself to the threads' task runners |

Each of these has its own locks. Callbacks run with none of them held, so between
the release of a fence and the removal of the wait fence everything else may run.
What makes this hard: a wait that is checked under one lock and stored under
another, a thread that goes to sleep while it is being unblocked, a sequence that
is destroyed in the middle of a search or of its own task, and waits in a cycle
or for a fence nobody will release, which have to be found and broken without
breaking any other. It is correct when a task starts only after its fences, every
wait has exactly one callback to end it, no thread sleeps on work, only hopeless
waits are broken, and every task is processed in the end.

`PROJECT.json` lists the hazards of both systems with their lines, and the
properties aimed at each. Others are real but not covered, and not listed there:

- `engine/connection_factory_impl.cc:375`: the connect callback is bound to a pipe
  without a disconnect handler; if the network service goes away, `connecting_`
  stays set. The pipe is not in the repository; the model assumes the callback.
- `engine/mcs_client.cc:375` and `:786`: `QUEUED` is reported before the store has
  written, and a server message is acknowledged before the posted callback delivers
  it; a crash in between loses the message. No line promises otherwise.
- `engine/mcs_client.cc:917`: two messages within one microsecond would share an id.
- `engine/gcm_store_impl.cc:1242`: Destroy leaves the counts, so an application
  stays charged for what is gone until the next Close.
- `engine/heartbeat_manager.cc:197`: on Linux each received packet posts another
  chain of polls; `:268`: when the smallest remaining interval is invalid on the
  current network, the removed scope's interval stays in force.
- `engine/connection_handler_impl.cc:143`: a login request with more ids than fit
  the output buffer is cut off; `:202`: the error of a failed input stream is taken
  from the output stream; `:391`: an empty LoginResponse never completes the
  handshake (its required field rules it out).
- `service/task_graph.cc:500`: a task that was registered exactly
  `kMinValidationDelay` before the timer fires is skipped, while a timer with exactly
  that long left is not reset; the model has no clock.

## 2. Modules and how they follow the code

### ConnectionFactory

Models `ConnectionFactoryImpl` and `ConnectionEventTracker`. The C++ methods call
one another (SignalConnectionReset -> Connect -> ConnectWithBackoff ->
ConnectImpl -> StartConnection), so the state is one record `factory` and every
method is an operator from a record to a record with the method's name. An action
is one entry from outside: a call of the client, a socket callback, a delayed
task, a change of the network.

- `handler` stands for `connection_handler_` and the state of its streams;
  `tasks` holds the delays left of the posted ConnectWithBackoff tasks;
  `login_age` is the time since `last_login_time_`; `heartbeat` whether the
  heartbeat manager runs and so may reset the connection.
- `checks` turns FALSE when a CHECK or DCHECK on the way fails.
- `net::BackoffEntry` is not in the repository. It is a failure count and a
  remaining delay that grows with it.
- Both values of the features `kGCMAvoidConnectionWhenNetworkUnavailable` and
  `kGCMDoNotIncreaseBackoffDelayOnNetworkChange` are constants.

### MCSClient and MCSSystem

`MCSClient` has the methods of `MCSClient` as operators on a client record, in
the same way and for the same reason. A queued packet has a body, the persistent
id the client keeps for it, the id inside its protobuf (a collapse gives the store
a message without it) and the stream id of its last sending, which it keeps when
it is queued again.

`MCSSystem` composes it with what surrounds it: the connection (handshake, open,
flushing a packet, down), the wire in both directions, the store (a queue of
operations, executed later and in order), posted tasks, and the process, which
may stop between any two handlers or writes and start with what the store holds.
A login that the client sends and a login that the server answers are separate
steps; a break of the connection loses what was on its way to the client and may
or may not lose what was on its way to the server.

The MCS server is external. It does what the client's code and
`engine/mcs_client_unittest.cc` rely on: it counts packets, puts the count into
what it sends, sends a message again on later connections until the device has
acknowledged it (by stream id or in a login request), and may send a SelectiveAck
with the persistent ids it has, pings, idle notifications, closes and login errors.

The factory appears in `MCSSystem` only as Disconnect and Reconnect: what it
promises (that it goes on connecting) is what `ConnectionFactory` checks.

`ReliableQueue` is the promise to an application: a message with ttl > 0 is refused
at once, or waits and then ends exactly once, as sent (only if the server has it),
expired, or replaced by a later one with its key. `MCSSystem!ImplementsReliableQueue`
maps the statuses reported so far and the queues to it, and TLC checks that every
step of the client, the wire and the server is a step of it. It holds while the
process lives; `mcs_collapse_restart` (section 7) is how a restart breaks it.

### HeartbeatManager and HeartbeatSystem

`HeartbeatManager` has the methods of the class as operators on a record: the timer
(time left, if it runs), `waiting_for_ack_`, the intervals, and for Linux the
`heartbeat_expected_time_` with the polls posted by `CheckForMissedHeartbeat`.
`HeartbeatSystem` composes it with `ConnectionFactory`: MCSClient stops the manager
when it builds a login request, starts it when the login is accepted, counts every
packet as an answer, and drops a ping that cannot be written at once. The peer may
die silently at any time; the machine may go to sleep and wake, with the tick clock
standing still or going on, and with the power notification still to come when the
first timers run. `ImplementsFactory` shows that the composition is a behaviour of
`ConnectionFactory`, whose only assumption about the manager was when it may reset,
so that its theorems carry over.

### ConnectionHandler and MessageStream

`ConnectionHandler` models `ConnectionHandlerImpl` on `SocketInputStream` and
`SocketOutputStream`. The bytes of a connection are numbered; the buffer is three
positions (its first byte, the next to parse, the end of what was read), and what a
byte means follows from the tag, size-packet length and body size of the messages
the server sends. `ReadMore` lets a read end after any number of bytes; a body
beyond `PacketLimit` is collected in chunks, a size packet that is cut is put back.
Reads, flushes, the timer, posted `GetNextMessage` tasks, errors and the owner's
Reset interleave freely, over several connections of one handler.
`MessageStream` is what `connection_handler.h` promises, and
`ImplementsMessageStream` the refinement.

### GCMStore

The outgoing messages of `GCMStoreImpl` on its two sequences. A method counts in
the foreground and posts a task; `BackendStep` executes a task against the
database, where each LevelDB call may fail, and posts an answer; `Continuation`
corrects the counts, unless Close has invalidated its weak pointer (`epoch`). The
store's user follows `MCSClient`: ids are used once, and what is overwritten or
removed is what it believes to be there.

A write may fail, too. When the failed message is later overwritten with success it
is in the database without being counted; `used.revived` remembers that, and the
properties leave out what follows (section 7).

### SyncPointManager and GpuScheduler

`SyncPointManager` has the methods of `SyncPointOrderData` and
`SyncPointClientState` as operators on two records, and no behaviour.
`GpuScheduler` is the behaviour: `TaskGraph` and `Scheduler` with the sync points,
one step per critical section. AddTask holds the graph's lock throughout but lets
go of an order data's lock before it stores the callback, so it is two steps
(`adding`), and whatever needs the locks it holds has to wait. A thread goes through
RunNextTask by `pc`: choose a sequence, begin its task, run it (explicit releases,
a continuation, disabling happen here), finish the order number, end overdue waits,
run the callbacks one by one, finish the task, and look again. Destruction is a chain
of steps beside the threads (`destroying`).

Waits that can never end are found in one of two ways, by a feature flag
(`graph_validation`): order fences that become overdue when a release sequence's
order numbers have passed, or a timer that searches the task graph and releases fences
by force. Both are modelled. The search is the code's, one step of the timer's thread:
`Search` goes through the tasks of the timer's sequence that are old enough and skips
those already validated, `ValidateTaskFenceDeps` validates one task, and for the task
that its wait is waiting for first those before it (`ValidateEach`), from the place
where the last search of that sequence in this validation ended (`next`). `fine` is
FALSE once one of the two CHECKs has failed, that a task is the next of its sequence
and that no other of the sequence is being validated; such a search ends the process,
so the timer's step is only taken if the search is fine, and `GpuChecksHold` says when
it is. `ForcedOnlyIfStuck` compares the search with a reference definition, the least
fixpoint of "can run" (`RunnableTasks`).

Abstractions: a sequence has one client; a task waits for one fence at most and
releases at most one; a token of the task's own sequence is refused at once and left
out; the timer's reset is part of AddTask, and a task that is there when the timer is
reset counts as old enough when it fires; tasks neither yield nor change priorities;
sequences exist from the start.

`MCMCSSystem`, `MCGCMStore`, `MCHeartbeatSystem`, `MCConnectionHandler` and
`MCGpuScheduler` give the instances their messages, keys, platforms, streams, threads
and symmetries. The operators marked *Mutant* are plausible mistakes in the operator
that follows; each makes one property fail in the run named for it in
`PROJECT.json`, which shows that the property depends on that code.

`HeartbeatSystem_proofs`, `ConnectionHandler_proofs`, `GCMStore_proofs`,
`MCSSystem_proofs`, `MCSSystem_outgoing`, `GpuScheduler_proofs` and
`GpuScheduler_checks` extend the modules they are named for with proofs (section 6),
the first of them also `ConnectionFactory`; `GpuScheduler_invariants` has the inductive
invariants and the shapes of the steps that the last two are about, and `Recursions`
the lemmas on induction that the last five share.

## 3. Runs

| Run | Instance | Distinct states | Shows |
|---|---|---|---|
| `factory` | 2 endpoints of which only the second is ever up, 2 failures, delay 2 | 8,100 | all CHECKs hold; one backoff task; never stranded; only events that a login request carried are deleted; only canaries bypass the backoff; a refused login restores it; with a network the client connects again and again |
| `heartbeat` | intervals of 1 and 2 ticks, a custom and a server interval, 3 kinds of platform | 680,000 | a dead peer is noticed within an interval and one wait for an answer of awake time; a live connection is reset only for a dropped ping or a sleep; the interval asked for is respected; on Linux a poll stands behind every expected heartbeat; the composition implements `ConnectionFactory` |
| `handler` | a login and up to 3 messages of every kind of size, or a bad one; 2 connections | 9,200 | CHECKs, one reader, the timeout policy, framing survives every cut, refinement of `MessageStream`, everything is delivered |
| `mcs_outgoing` | 3 messages, 2 with one collapse key, 2 connections, 1 SelectiveAck | 1,700,000 | no dangling pointer, queues ordered by stream id and by persistent id, no stall, refinement of `ReliableQueue` |
| `mcs_restart` | 2 collapsing messages, 2 connections, 1 restart of the process or the machine, 1 expiry, 1 SelectiveAck | 540,000 | the same order and pointers after a restart anywhere; the store, once it has caught up, holds exactly the queues |
| `mcs_incoming` | 2 server messages, 2 connections, 1 ping, close or login error, 1 heartbeat, 1 message too large to send | 1,150,000 | the server forgets only what was received; nothing is delivered twice; ids stay tracked and stored until confirmed |
| `mcs_liveness` | 1 reliable message, 1 with ttl 0, 1 server message, 2 connections, 1 expiry, a send queue that is full with one packet | 160,000 | when connections stop breaking, messages are resolved and server messages delivered |
| `store_counts` | 3 messages of 2 applications, limit 1, 2 closes, restarts or destructions, 1 failure, 1 overwrite | 710,000 | no count below zero, the counts settle on the contents of the database, failed removals stay counted, the limit is never exceeded on disk |
| `gpu_scheduler` | 3 tasks on 2 sequences and 2 threads, waits in every direction, 1 explicit release, continuation, disabling or destruction, both validations | 780,000 | DCHECKs hold, and the CHECKs of the validation but behind a continued task; every wait has one callback; no wakeup is lost; tasks start only after their fences; only hopeless waits are broken; every task finishes |

`handler_small_message`, `mcs_collapse_restart` and `gpu_destroy_elsewhere` end
with a counterexample; section 7 describes them.

Deadlock is checked in the runs of the factory, the heartbeat and the handler. The
others may stop: their bounds run out, and a client or a scheduler with nothing to do
is idle.

## 4. Bounds

- Factory: nothing is capped except by the code's own limits. `MaxFailures` and
  `MaxDelay` replace the exponential policy: two of each tell "first failure",
  "more failures" and "delay not over" apart, and the delay of an entry may be
  longer or shorter than that of the task. `MaxEvents = 1` reaches the discarding
  of events at once. Two endpoints are what the code has; `Up = {1}` makes the
  fallback necessary.
- MCS: two connections are what a message, an acknowledgement or a stream id can
  be carried over from; three messages make a queue in which a prefix can be
  acknowledged while the rest is resent and collapsed. `AckEvery = 2` replaces
  10, so that two server messages force a StreamAck. `BaseTicks` only matters
  where the machine restarts. Applications send each message once, so a status
  belongs to one sending.
- Heartbeat: ticks stand for the code's minutes, and what counts is which interval
  is the shorter. Two default intervals (WiFi, cellular), a custom one between the
  minimum and beyond the maximum, and a server interval reach every comparison; the
  awake time since the peer's death is the only counter, and the property bounds it.
- Handler: `SizeMax = 3` replaces 5 and `PacketLimit = 4` replaces 8 KiB, so that the
  header read may reach two bytes beyond a size of one byte, sizes lie on both sides
  of the limit, and a body takes up to three chunks. `BufferSize = 14` has room for
  the empty messages of the streams: the positions creep with each of them
  (`base/socket_stream.cc:111`), and the code has room for some 4000. The streams of
  the passing run have no body smaller than the header read's overlap
  (`handler_small_message` is about those).
- GPU: three tasks are a cycle of two and a third behind it, or a task whose wait
  is for the later of two; two sequences on two threads give one thread that sleeps
  while the other releases. `MaxCount = 2` tells a release below, at and beyond a
  wait apart. `AnyThread = FALSE` confines destruction to the sequence's own thread.
- The restart run has no server messages and the incoming run no restart: the code
  delivers a server message to the living process only (`engine/mcs_client.cc:786`
  acknowledges it before the posted callback runs).
- Store: limit 1 with two messages of one application reaches the limit and one
  beyond it; a second application shows that counts are not mixed up; two closes
  give answers that arrive after a Close and after the next Load.

Larger instances were checked once, without becoming runs: `mcs_outgoing` with an
expiry (9.3 million states), and three GPU tasks that may also wait for tokens of
their own sequence (2.6 million, safety only).

Two observations need no property. The queue check
(`engine/mcs_client.cc:312`) uses `>`, so the queue may hold
`kMaxSendQueueSize + 1` packets. And a message with ttl 0 is refused while another
packet is being flushed, although the connection is open
(`engine/mcs_client.cc:366`); the model does both as the code does.

## 5. Fairness

- `ConnectionFactory!Fairness`: the first Connect comes (`MCSClient::Login` calls
  it), time passes, a due delayed task runs, a pending connect completes (weak
  fairness: the task runner and the socket's callback). Strong fairness for a
  connect at an endpoint of `Up` and for an accepted login says that a server that
  is tried again and again answers in the end; without it no client could promise
  anything. Nothing is assumed of resets, failures, network changes or the
  heartbeat, which may interfere for ever.
- `MCSSystem!FairSpec`: posted tasks run, flushes complete, packets are read,
  the store executes, the factory reconnects, and the server reads, answers logins,
  sends its messages and acknowledges. No fairness for applications, heartbeats,
  expiry, breaks or the server's SelectiveAcks. `AcceptedIsResolved` and
  `ServerMessagesDelivered` are about behaviours whose last connection stays up
  (`StaysConnected`): with breaks for ever nothing can be promised. Strong
  fairness is not needed.
- `ConnectionHandler!HandlerFairSpec`: a posted task runs, and bytes that have
  arrived wake the watcher of the pipe (weak fairness). The server, the owner and
  the timer owe nothing: `EverythingDelivered` is about connections that last.
- `GpuScheduler!GpuFairSpec`: each thread runs what is posted to it and its tasks
  return; calls that have begun (AddTask, destruction) go on; a disabled sequence is
  enabled again; a validation timer that runs fires. The last is weak fairness of
  `ValidationTimer`, written with the condition under which it is enabled
  (`TimerFires`), since the action always ends `TimerMayFire`. Where a CHECK of the
  search would fail the timer owes nothing, since the process would be gone; the tasks
  of such a behaviour finish all the same, as a continued task has no more to wait
  for. Nothing is assumed of explicit releases or of clients.

## 6. Proofs

The proofs hold for every value of the constants that satisfies the assumption named
in the module that declares them. They are in seven modules, and `Recursions` has
lemmas for them; `PROJECT.json` lists the same theorems.

| Module | Theorem | Statement |
|---|---|---|
| `HeartbeatSystem_proofs` | `TypeCorrect` | `Spec => []TypeOK` |
| | `NoCheckFails` | `Spec => []ChecksHold` |
| | `BackoffTaskUnique` | `Spec => []OneBackoffTask` |
| | `NotStranded` | `Spec => []NeverStranded` |
| | `EventsReported` | `Spec => []ClearedEventsWereReported` |
| | `BackoffBypassedByCanariesOnly` | `Spec => OnlyCanariesBypassBackoff` (of steps) |
| | `RefusedLoginRestoresBackoff` | `Spec => LoginFailureRestoresBackoff` (of steps) |
| | `PollsKeptUp` | `SystemSpec => []SystemSound` |
| | `SilenceBounded` | `SystemSpec => []DeadConnectionNoticed` |
| | `ClientIntervalKept` | `SystemSpec => []IntervalRespected` |
| | `AnsweringPeerKept` | `SystemSpec => LiveConnectionKept` (of steps) |
| | `FactoryImplemented` | `SystemSpec => ImplementsFactory` |
| `ConnectionHandler_proofs` | `InputChecksHold` | `HandlerSpec => []HandlerChecksHold` |
| | `NeverUnread` | `HandlerSpec => []OneReader` |
| | `TimerFollowsPolicy` | `LoginFirst => (HandlerSpec => []TimeoutPolicy)` |
| | `StreamImplemented` | `NoSmallBodies => (HandlerSpec => ImplementsMessageStream)` |
| | `SoundStreamRead` | `NoSmallBodies /\ RoomForMessages => (HandlerSpec => SoundStreamSurvives)` (of steps) |
| `GCMStore_proofs` | `CountsStayNatural` | `Spec => []ChecksHold` |
| | `DatabaseWithinLimit` | `Spec => []LimitEnforced` |
| | `StoreStaysCovered` | `Spec => []CountsCoverStore` |
| | `CountsComeRight` | `Spec => []CountsSettle` |
| `MCSSystem_proofs` | `TypeCorrect` | `Spec => []Typed` |
| | `SendingNeverStalls` | `Spec => []NoStall` |
| | `IncomingStoreFollows` | `Spec => []IncomingStoreInSync` |
| | `ForgottenOnlyWhenReceived` | `Spec => []ForgottenMeansReceived`, if `MaxRestarts = 0` |
| | `TrackedUntilConfirmed` | `Spec => []AcksTrackedUntilConfirmed`, if also `MaxSelectiveAcks = 0` |
| | `AtMostOnce` | `Spec => []DeliveredOnce`, if also `MaxSelectiveAcks = 0` |
| `MCSSystem_outgoing` | `QueuesStaySound` | `Spec => []QueuesSound`, if `Reboots = FALSE` or `MaxRestarts = 0` |
| | `OutgoingStoreFollows` | `Spec => []OutgoingStoreInSync`, if `Reboots = FALSE` or `MaxRestarts = 0` |
| | `PromiseKept` | `Spec => ImplementsReliableQueue`, if `MaxRestarts = 0` |
| | `SentOnlyIfReceived` | `Spec => []SentMeansReceived`, if `MaxRestarts = 0` |
| `GpuScheduler_proofs` | `SchedulerSound` | `GpuSpec => []GpuSound` |
| | `WaitsKeepCallbacks` | `GpuSpec => []NoWaitLost` |
| | `ThreadsAwake` | `GpuSpec => []ThreadAwake` |
| | `StartsHonoured` | `GpuSpec => WaitsHonoured` (of steps) |
| `GpuScheduler_checks` | `AssertionsHold` | `GpuSpec => []GpuChecksHold`, if `~ AnyThread` |

In all of them the methods of a class are operators on a record, and the argument
has the same shape: an invariant that is a predicate of the record, a lemma for each
method (from which records to which), a lemma for each action, and one step that
combines them.

**Factory.** `ConnectWithBackoff` returns early when it finds a handshake or a
reachable endpoint, so `NeverStranded` needs to know that the factory's
`handshake_in_progress_` and the handler agree; the DCHECK of `EndConnectionAttempt`
needs an event to be in progress whenever a connect is pending; the login error's
DCHECK needs the event to be the success that the handshake recorded. The inductive
invariant `IInv == Consistent(factory)` collects this: `Sound` (type, checks so far,
one task for the flag), `Linked` (flags, handler, event and login request agree), and
`UnderWay`. The first action property is about the step in which a connect begins;
`Patient` (a connect under way against the backoff entry is a canary's) follows it
through the calls of one handler.

**Heartbeat.** `SystemIInv` has the factory's `IInv`, `Timed` (the manager by itself:
a stopped manager expects nothing, a poll stands behind every expected heartbeat) and
`Watched`, which bounds silence by the timer: the awake time since the peer's death
and what is left of the timer together never exceed the interval in use, plus one wait
for an answer when a ping is out. `FactoryImplemented` rests on the factory's methods
never touching the field `heartbeat`, which the refinement mapping replaces by the
manager's running timer, so each method commutes with the mapping.

**Handler.** `Settled` is what holds between handlers (positions in the buffer, exactly
one reader, what the pending read expects, who has been greeted), `Parsing` what holds
while one runs, `Progress` what a handler may do to the messages its owner has seen;
the refinement of `MessageStream` follows from `Progress`. `NoSmallBodies` excludes the
streams of `handler_small_message` (section 7), for which the statement is false;
`LoginFirst` is the server's side of the protocol: the handler does not enforce that
the first message is a login response, and for another one the timer stops early. Both
hold in the configuration of the passing run.

`SoundStreamRead` needs to know where in the stream a method is (`Located`): the next byte
is the first of a message, the first of its size packet, or as far into its body as
was read, so that a tag is never read in the wrong place and a message that ends does so
where the next begins. `Kept` says what the buffer still holds: nothing that precedes a run of
empty messages, since every message with a body empties it. `RoomForMessages` is the
condition under which that and the next read fit (in the code 8 KB, against headers of 6
bytes and reads of 4 KB). It cannot be weaker: for the streams of the run it holds for a
`BufferSize` of 12 and not of 11, and TLC finds `SoundStreamSurvives` violated with 11.

**Store.** The counts are corrected after the fact, so the invariant says what they
stand for meanwhile. `Charged` is the set of messages that have to be counted: those
in the database, those on their way to it, and those whose removal or failure is
still to be counted. No message is charged twice, the counts cover what is charged
and stay within the limit (`Covered`), and tasks and answers of an earlier `epoch` are
recognised as such (`Quiet`). All of this is claimed until an overwrite has revived a
message, which is also where the properties themselves end (section 7).

The other two theorems are about counts and databases that do not exist yet.
`SettledDisk`, `RepliedCounts` and `SettledCounts` are recursive functions over the
tasks and the continuations posted so far, so the first step is to show that they have
values at all (`SettledRuns`, `RepliedLemma`). Then:

- The slack, the counts less what they have to cover, is carried through
  (`RepliedSlack`, `SettledLemma`): a continuation takes off the counts exactly what is
  no longer charged, and a task loses at least the messages that its answer takes off
  (`Loses`). Slack never shrinks, so `StoreStaysCovered` follows from `Covered`.
- The slack does not grow either if each task finds the database open and what it
  overwrites or removes in it (`Serves`, `LosesAll`). That this is so is a second
  invariant, `Lined`, of the states without a failure: the counts are exactly what is
  charged (`Exact`), and the databases to come fit what the user of the store knows of
  it (`Foreseen`: a closed store's last database is closed, a loading store's load
  meets a closed one, a loaded store's user believes the last one). From it no
  overwrite revives a message, and `CountsComeRight` follows. TLC checked `Lined` on the
  instance of `store_counts` before it was proved.

**Client.** `Typed` gives every field its type (`Clients`, `Servers`, `Stores`), and with
it a lemma per handler that says what it did in terms a proof can use: `Sent`, `Took`,
`Confirms`, `Opened`, `Reset`, `Handed`, `Restarted`, `Started`. `NoStall` is inductive
with the type. `WithBody` and `After` are recursive functions over a queue; that they
select, and execute, what they should is proved by induction over the length. The
induction is written out for sets in `Recursions` (`Least`, `Induct`, `Recursion`, from
`WFMin`), because the library's induction theorems take an operator.

**Client, incoming.** Four invariants on top of each other:

- `InSync`: the store will hold what the client tracks; an acknowledged id is tracked
  once, so that confirming it is the end of it; and (`Linked`) what is on the wire is
  new to the client, because the server has not forgotten it and the login request
  listed all that the client tracked. The last part is why confirming one id cannot
  remove another copy of it from the store.
- `Agree`, for a process that lives: what the client has counted plus what is on the
  wire is what the server has sent on this connection (`CountUp`), and nothing up to
  that count is still unreceived (`Heard`). After a crash this is false, and so is the
  property: messages acknowledged but not yet handed on by the posted task are gone
  (section 1, `engine/mcs_client.cc:786`).
- `Acks`: the stream id under which an id is kept is that of a packet which
  acknowledges it: one the server has read, one on the wire, or the one being flushed
  (`AckSound`). Hence what `HandleServerConfirmedReceipt` drops has been forgotten by
  the server. A SelectiveAck may confirm by a stream id of an earlier connection
  (section 7), which is why it is excluded here.
- `Once`: deliveries and posted deliveries have no id in common or twice, and
  nothing on the wire was received before: the server sends only what it has
  not forgotten, all of which, if received, is tracked (`Acks`) and then known to the
  server from the login or in its log (`InSync`).

**Client, outgoing.** One invariant, `Out`, about the queues and the store together.

- `Sound`, of the client: both queues are in the order of their persistent ids,
  `to_resend_` before `to_send_`, and no id is ahead of the clock that makes the next
  (`InOrder`); what awaits an acknowledgement is in the order of its stream ids
  (`Awaiting`); every key of `collapse_key_map_` points at a packet of `to_send_`
  (`Points`). A prefix of `to_resend_` that is acknowledged, a packet that expires at
  the head, and a prefix that is queued again are then all pieces of one order.
- `Synced`: the store, after the operations posted so far, has the packets of the two
  queues and nothing else. It is a statement about a store that does not exist yet, so
  each handler needs to know what its operation does to it.
- `Orderly`: an id that is added is greater than all that the store has or that earlier
  operations write. An addition can therefore not meet a message it would leave there,
  and what a restart finds after any number of executed operations is in order.

What a restart restores is sorted
by persistent id, and only expired messages are left out, so `Out` holds of the new
process because `Orderly` held of the old one. Restarts without reboots are needed because
`TimeTicks` is the clock of the machine: after a reboot it starts again below the ids
of the stored messages and, in runs longer than TLC's bounds, comes to one of them once
more. Within the bounds of `mcs_restart`, which has reboots, TLC finds both properties
kept.

**Client, the promise.** For the refinement of `ReliableQueue` the client, both wires
and the server are taken together, in `Faithful`, on top of `Out` and the client's other
invariants:

- `Tells`: for each message, what the application was told agrees with where the
  message is (`Account`): in the queues once and not ended, or ended one way, or refused,
  or replaced by a later one with its key. A persistent id stays with its message once a
  packet has left (`Flies`, on the way; `Landed`, at the server): it is below the clock,
  no collapse key points to it any more, so no later message can take its place, and a
  packet of the queues with that id has that message. This is what a SelectiveAck
  relies on, which names packets by persistent id across connections.
- `Placed`: between the two ends of a connection a stream id is a place in the stream.
  The client's count is the server's count plus what is on the wire and in flush, and
  the packet in `to_resend_` with stream id *n* is the *n*th (`InStream`), so
  a stream ack cannot acknowledge what the server has not read.
- `Honest`: the server's SelectiveAcks name only what it has.

`PromiseNext` maps the steps. What a handler does is reduced to pieces (packets that
expire, packets acknowledged by stream id or by persistent id, packets queued again, one
message submitted), and each piece to what it does to the lives of the messages (`Moves`:
some messages leave the queues and end alike, the others stay as they are; `Comes`: one
message enters; `Supplants`: one takes another's place). Lives only age (`Ages`), so the
pieces of a handler add up to `Resolve`, `Send` or `Replace`; the server's receipt of a
packet is `Arrive`, every other step leaves the lives alone or resolves some.
`SentOnlyIfReceived` adds that only reliable messages are ever reported `SENT`
(`SentReliable`), because only packets with a persistent id are acknowledged.

Both theorems need `MaxRestarts = 0`, a process that lives. After a restart `Flies` is
false: the map of collapse keys is made anew from the store (section 2) and points to
messages that have been on their way, and `mcs_collapse_restart` shows that the promise
and `SentMeansReceived` are then broken.

**Scheduler.** All but the last theorem hold for sequences destroyed anywhere
(`AnyThread`), all of them under both ways of validating waits. `GpuSound` has the
types and `Numbered`: the tasks of a sequence and its unprocessed order numbers ascend
and are the same numbers, but for the one being processed (`NumsMatch`); numbers of
two sequences are disjoint (`Apart`); a wait has its task (`WaitsHaveTasks`); and what
a thread has chosen or begun is its own (`ThreadBound`). The search for the next task
is a recursive function over sequences of decreasing front tasks; `FindSolves` and
`FindsCandidates` show that it has a value and finds only enabled, unblocked sequences
of the thread. The search by force needs nothing but its type here, as it changes no
wait.

`StepLemma` proves that `GpuSound` is inductive and gives every step its shape
(`StepShape`): what changes and what that is made of, without the operators of the
sync points. The other three invariants are followed through the shapes.

- `CallbacksSound`: a callback is in one place (a client's queue, a thread, the
  destruction under way), the one of a wait that is being stored is nowhere yet, and
  every wait fence of a sequence that is still in the map has its callback somewhere.
- `AwakeSound`: a sequence that is ready, but for one that a task is being added to,
  has a running thread; a running sequence is the one its thread is executing. The
  second part is why `TryScheduleSequence` may leave a running sequence alone.
- `WaitsSound`: every wait of a task that is left is a wait fence, is being stored, or is
  excused (`Covered`): its release happened, its sequence is destroyed, or all numbers
  left there come after the task. Callbacks are only queued to run when their task
  is excused (`CallbacksExcused`). For overdue waits this rests on the guards
  (`FencesSound`): a number of the sequence above the guard's is above the waiting
  task's too, which `Min(last number, own number)` guarantees when the guard is made,
  and numbers given out later are greater anyway. A task that starts has no fence that
  blocks it and none being stored, so it is excused from all its waits.
- `ChecksSound`, only when a sequence is destroyed on its own thread (`~ AnyThread`):
  no DCHECK has failed (`checks`), and the four reasons why the next one does not.
  What a sequence releases rises from task to task, above what its client released
  (`ReleasesRise`, for `EnsureFenceSyncReleased`). The sequence a thread is executing
  is in the map, running, and its current release is the task's until the number is
  finished (`SequenceKept`, for `ExecuteSequence` and `FinishProcessingOrderNumber`).
  A sequence leaves the scheduler's map and the task graph in one destruction, whose
  client and order data are still there (`DestroyingKept`). Nothing happens to the
  sequence or the client of a wait between its check and its storing (`AddingKept`).
  Without the hypothesis `SequenceKept` is false: `gpu_destroy_elsewhere` destroys a
  sequence between the choice of it and the start of its task.
- `ValidatedFirst`, for the CHECKs of the validation: in each sequence the validated
  tasks come first, and stay first, except behind a front task that was continued.
  `SearchResult` then follows the search through: from a sequence that is
  `FitForSearch`, a search never comes to a sequence that it is in, and comes to each
  task as the next of its sequence (`LevelSound`, by induction over the depth of the
  search, and over the tasks of a sequence at each depth). Only the root skips tasks,
  and where the validated ones come first the first that it does not skip is the first
  unvalidated one, which is where `GetSequenceValidateState` begins.

`AssertionsHold` says of the CHECKs that they fail at most behind a continued task with
validated and unvalidated tasks in that order (`ContinuedFirst`). There they do fail
(section 7), so the theorem cannot do without the exception.

Only model-checked:

- liveness (`EventuallyConnected`, `AcceptedIsResolved`, `ServerMessagesDelivered`,
  `EverythingDelivered`, `TasksFinish`), which is out of the prover's reach;
- `ForcedOnlyIfStuck`, which compares what two recursive searches of the task graph
  compute. The proofs say of one of them only that it keeps its place.

## 7. Where code and comments disagree

Three runs show one each:

- `handler_small_message`: "if two messages arrive at once, they're treated
  appropriately" (`engine/connection_handler_impl_unittest.cc:496`), but the header
  read takes bytes beyond a short size packet and the parser is given every unread
  byte (`engine/connection_handler_impl.cc:417`): a body of one to three bytes that is
  followed at once by another message is parsed together with its first bytes.
- `mcs_collapse_restart`: `SENT` means "the ACK was received"
  (`engine/mcs_client.h:68`), but after a restart a new message may collapse into
  one that the server already has (`engine/mcs_client.cc:278`), and be reported `SENT`
  and dropped with the acknowledgement of the old one.
- `gpu_destroy_elsewhere`: a "Sequence could be destroyed outside of GPU thread"
  (`service/scheduler.h:111`), but RunNextTask releases the lock between choosing a
  sequence and ExecuteSequence, which asserts that it is still there
  (`service/scheduler.cc:631`).

Others were met on the way and have no run of their own; the passing runs state what
holds instead.

- A backoff task that expires after a canary connected is meant to clean up only
  (`engine/connection_factory_impl.cc:140`), but while a message is being flushed
  `IsEndpointReachable` is false (`:142`) and the task closes the live connection.
- A refused login "will restore the previous backoff" (`:495`), but with a backoff
  task pending `SignalConnectionReset` returns before it does (`:249`).
  `LoginFailureRestoresBackoff` says when it does.
- Ids "must remain tracked until the ack message is itself confirmed"
  (`engine/mcs_client.h:295`), but a SelectiveAck for a packet that was queued again
  uses the stream id of an earlier connection (`engine/mcs_client.cc:858`) and drops
  ids of this one. `mcs_incoming` with a client message and `MaxSelectiveAcks = 1`
  shows it, so that run has no SelectiveAcks.
- Restored messages are ordered "by recency" (`engine/mcs_client.cc:230`, `:261`), by
  persistent ids made of `TimeTicks` (`:917`), which start again with the machine.
  `QueuesOrdered` compares ids only while none is ahead of the clock.
- A message whose write fails is taken off the count, a later overwrite
  (`engine/gcm_store_impl.cc:1333`) stores it uncounted, and its removal takes the
  count below zero, which `:1467` asserts it never is. The properties of
  `store_counts` hold until such an overwrite.
- A custom interval resets the connection if it "is less than the current custom
  heartbeat interval" (`engine/heartbeat_manager.h:86`); the code compares it with the
  interval in force, custom or not (`engine/heartbeat_manager.cc:277`).
- Order fences obey `unprocessed_order_nums_.front() < n <=
  unprocessed_order_nums_.back()` by the comment at
  `service/sync_point_manager.h:173`; the guard of a wait is the smaller of its own
  number and the last unprocessed one (`service/sync_point_manager.cc:180`), which
  with a single number left is the front itself.
- `CHECK(validate_state.next_to_validate == task_iter)` (`service/task_graph.cc:536`)
  aborts after a continuation. Tasks 1 and 2 of a sequence have been validated and task
  3 was added later. Task 1 runs and continues: `ContinueTask` puts an unvalidated task
  in front of task 2 (`:249`), and `FinishTask` starts the timer again. If the timer
  fires before the sequence runs once more, the loop validates the front task, after
  which task 2 is the next, skips task 2 (`:503`), and comes to task 3. With
  `GpuChecksHold` stated without `ContinuedFirst`, TLC finds this in the instance of
  `gpu_scheduler` within seconds. With it, the run and the theorem say that it is the
  only way for the CHECKs to fail.
- `service/scheduler.h:111`: DestroySequence "run[s] any scheduled tasks immediately",
  but the tasks are dropped.
- `WaitFence`'s comparisons (`service/task_graph.h`) compare `release_sequence_id` of
  one operand with itself, so fences that differ only there count as equal; a task has
  one wait for a token at most in the model and does not meet this.

## 8. What is not modelled

Of the modelled components: metrics, recorders, the contents of messages, error
codes, addresses and socket options, which of several applications asked for a custom
heartbeat interval, stored ids that cannot be read, the limit of the output buffer,
and the parts of the store that write one key without keeping state (credentials,
registrations, settings, account mappings, heartbeat intervals, instance ids). Of the
GPU scheduler: creation of sequences and clients while others run, priorities that
change, `ShouldYield`, several waits or clients per task, `BlockingSequenceRunner`.

Not modelled: the check-in, registration and unregistration requests (one HTTP
request at a time, with a backoff entry and nothing that interleaves with it),
`GServicesSettings` (a function of a check-in response), `AccountMapping` (a
conversion). The rest of `gpu` translates commands for drivers that are not in the
repository. The other products (`ipc`, `dbus`, `content` and so on, Kiterunner, Juice
Shop) have nothing to do with these two and are either larger than this project or
depend on code that is not in the repository.

## 9. Plan

Done: the factory, the client with the wire, the server and restarts, the store with
its counts, the heartbeat manager composed with the factory, the connection handler
with its streams, the GPU scheduler with its sync points, three refinements, and
the theorems of section 6. Every safety property and action property that a passing run
checks is proved but for `ForcedOnlyIfStuck`, and so are the three refinements.

Next models: several waits per task, `BlockingSequenceRunner` as an abstraction of the
scheduler, and the requests.

# Looking Glass in TLA+

TLA+ models of the concurrent core of Looking Glass, the TLC instances that
check them and, for eight of them, machine-checked proofs of what they promise.
The reference is the source; every definition that models code names its lines in the map of
`PROJECT.json`. All paths below are relative to `src/`.

Looking Glass shows the screen of a Windows guest on its Linux host through
shared memory (IVSHMEM). In the guest an indirect display driver (`idd/`)
captures frames and hands them to *transports*; the main transport is LGMP, a
message queue library over the shared memory. On the host the client
(`client/`) subscribes to LGMP queues, renders frames and sends input back. A
small *recovery region* beside the LGMP memory works without LGMP and lets a
client switch the guest to a recovery display when everything else fails.

## 1. Inventory

| part | state it keeps | operations | runs on |
|---|---|---|---|
| recovery channel (`transport/lgmp/CRecovery`, `client/transports/LGMP/lgmp.c`) | header, ticket, 16 request slots and a status line in shared memory | Initialize, Process, Sync, SetStatus; the client's request | LGMP timer (10 ms); clients, other processes |
| recovery hub (`transport/CRecoveryHub`) | attached instances, request table, one operation, known state | Attach, Remove, Submit, DispatchFailed, Complete, Tick, TakeDelivery, MarkMonitorReady, ClaimSync | timer, pipe thread, manager |
| frame sink (`transport/lgmp/CLGMPFrameTransport`) | 3 frame buffers, ready and deferred frame, delivery books, 1 shared and 2 owner queues | Prepare, Publish, Abort, Fail, Complete, Republish, RetryPendingDelivery, ProcessFrameDeliveries | capture thread, GPU completion, timer |
| frame scheduler (`capture/CFrameScheduler`) | clients and their clocks, owner, deadline, republish ticket | UpdateSchedule, ElectOwner, GetPublishTarget, FramePublished, FrameRetained... | timer, capture thread |
| frame hub (`transport/CFrameHub`) | bound sinks with their lanes, batches | Bind, Unbind, plan, prepare, publish, commit, complete, fail, OnFrameDone | manager, capture thread, GPU completion, sink threads |
| frame processors (`capture/C*FrameProcessor`) | candidates, damage since the last frame | Submit, Publish, completion callbacks | swap chain thread, publisher thread, GPU completion |
| transport manager (`transport/CTransportManager`) | phase, instances with their state, services, retries, the call in progress | Open, Initialize, Setup, Cfg, Process, Stop, SyncRecovery, GetDirectMemory, Frames | device callbacks, timer, swap chain, monitor thread |
| input hub (`transport/CInputHub`) and LGMP input transport | bound sources, owner of the devices, interaction lease; per instance a worker with streams and the owner's lease | Bind, Unbind, Start, Stop, Claim, Release, the reports, BeginInteraction, RevokeInteraction; reconcile, drain, publish the status | manager, one worker per instance, display side |
| input pipe (`ipc/CInputPipeServer`, `LGInput/CInputPipeClient`, `LGInput/CHIDDevice`) | state number, queue, mouse mode; the pipe; the report queue of the virtual devices | send, resynchronise, invalidate, connect; queue, coalesce, reset a report | hub's callers, pipe threads of two drivers, Windows |
| client input session (`client/transports/LGMP/input.c`) | generation, sequence, pending reports, what is held, last status | claim, release, report, restore, connect, disconnect | client's input threads, session thread |
| control hub (`transport/CControlHub`) and `CLGMPControl` | newest cursor and colour transform with revisions; per sink a worker and what was delivered | SendCursor, SetColorTransform, Add, Remove, OnControlReplay, TakeFailure | capture and device threads, one worker per sink, LGMP timer |
| texture hub (`transport/CTexHub`) | textures offered to sinks | as the frame hub | capture thread |
| clipboard (`CClipboardHub`, `CClipboardChannel`, `CClipboardRing`) | offers, transfers, a shared ring | offer, request, data, cancel | pipes, timer |
| pipes (`CPipeEndpoint`, `CPipeServer`, `CPipeClient`) | connection, state to replay | connect, send, receive | own threads |
| client (`client/src`) | render queue, frame clock, transport in use, keys held, audio clock | see the sources | several threads |
| common library | framebuffer write pointer, ring buffers, rectangles | pure helpers and lock-free buffers | callers |
| kernel module, OBS plugin, legacy host, renderers, display servers | operating system or GPU state | I/O | |

**Interactions.** The capture thread asks the frame hub for a *plan* (which
sinks want a frame now), prepares a *batch* with one buffer per sink, publishes
it, submits the GPU copy and commits. Clients may be reading the buffer while
the copy runs. The GPU completion thread completes or fails the batch; each
buffer then is a *lane* that its sink finishes at once or later through
`OnFrameDone`. The LGMP sink keeps the newest complete frame so that it can be
posted again to a client that missed it. A recovery request goes from a client
through the recovery channel to the LGMP transport, which submits it to the
recovery hub; the hub sends one action at a time over a pipe to the Helper, and
the answer travels back to every request that waited for it. Input goes the
other way: the client numbers its reports and puts them into a stream of its
LGMP instance; the instance's worker claims the devices at the input hub and
passes the reports on; the hub's sink queues them for a pipe to the virtual HID
driver, whose reports Windows reads. The transport manager owns all instances:
it binds their services to the hubs, restarts them when one fails, and tells
them when the monitor has arrived.

**What is hard.** Five threads and several processes share this state; locks
are released around calls into other components; the driver may die at any
point while the shared memory lives on; clients stall or disappear with
buffers in their hands; copies and callbacks finish out of order; serials wrap.
`PROJECT.json` lists these hazards with their lines.

**What makes each part correct.** The recovery channel: a request is taken
unmixed or not at all, is acknowledged before its slot is reused, and the mode
survives the driver. The recovery hub: every request is answered once, honestly
and in order. The frame sink: no buffer changes under a reader, the retained
frame is the newest complete one, a frame owed is delivered. The frame hub:
every buffer ends once with the right result, a sink that is unbound is left
alone, a partial update has the right base. Input: one client owns the devices,
nothing an earlier owner pressed stays pressed, what is sent arrives in order,
and both ends agree on what is held. The control hub: nobody who is subscribed
is left with an old cursor. The manager: an instance is used by one thread at a
time and only while it lives, hears of the monitor once, and can be stopped.

## 2. Modules

### RecoveryHub (`transport/CRecoveryHub.cpp`)

One action per member function, since each holds the hub's lock from start to
end. The one exception follows the code: `OnRecoveryRequest`
(`CTransportManager.cpp:101`) calls `Submit`, then the display side *without*
the lock, then perhaps `DispatchFailed`; so `SubmitStarts` leaves the action in
`dispatching`, and `DispatchSent` or `DispatchFailed` takes it from there.
`Submit` has three outcomes that change state (`SubmitAnswered`, `SubmitJoins`,
`SubmitStarts`); an unattached source and an exact repetition change nothing.
The display side is `sent` (what it accepted) and `Complete`, which may report
any state for any action ever sent, at any time and repeatedly. `Restart` is a
new driver process with a new session. The client's pair (session, serial) is
only compared for equality, so it is one value, `tag`.

### RecoveryChannel (`CRecovery.cpp` and `lgmp_requestRecovery`)

Both sides of the region, one shared memory access per step: slots are read,
judged and reclaimed one at a time, and a client draws its ticket, claims,
writes the request, writes the session, checks the header again and publishes
in separate steps. A stable read (`ReadRequest`, `ReadStatus`) retries until the
serial is the same before and after, so it is one step. `Publish` writes the
status under an odd serial and is one step too; a death inside it leaves
`stable` false. `Crash` is possible between any two steps of the driver,
`Interrupt` between any two of a client. `CrashPoints` says which of the two
delicate windows (inside `Publish`, inside `Initialize`) a run includes.
`Sync` and `SetStatus` take the lock that `Process` holds, so they happen only
between two calls of it. A request value that no client in the tree writes
(answered with UNSUPPORTED) is left out.

### FrameTransport (`CLGMPFrameTransport.cpp`, part of `CFrameScheduler.cpp`)

The buffer pool, the delivery books and the LGMP queues. Each operation holds
`m_framePublishLock` and is one action; `RepublishFrameBuffer` reports to the
scheduler after it has released the lock, so the report is an action of its own
(`FrameRepublished`). LGMP is an empty submodule in this tree: a queue is a
sequence of messages, each with the clients that still hold it; the external
actions `Lgmp...` subscribe, finish and drop clients and retire messages that
nobody holds, oldest first. Of the scheduler there is the owner with its epoch,
and the pair of tickets that makes a republish request; *when* a client is due
is left open (`Due` is any subset of the other subscribers), which covers every
timing. `Plans` includes plans made for an owner that has been replaced.

### FrameHub (`CFrameHub.cpp`, its callers in `CHardwareFrameProcessor.cpp`)

A batch operation runs under the batch's lock and is one action; between them
the capture thread is at a program counter (`capture.pc`), and the submitted
copies are in `gpu`. The lane handlers (`FillLane`, `CancelLane`,
`CompleteLane`, `OnFrameDone`) are split where the code releases `laneLock`
or calls the sink: a thread inside one is a record in `calls`. The counter
`outstanding` and the event `drained` are changed outside the locks and are
steps of their own (`CompleteSub`, `CompleteSet`). The sink may answer a filled
frame at once or with PENDING and call back later (`SinkDone`, external).
History variables (`life`, `told`, `ended`) record what a sink was told about
each buffer; only properties read them.

### InputPipe and InputDelivery (`CInputPipeServer.cpp`, `CInputPipeClient.cpp`, `CHIDDevice.cpp`)

The sink of the input hub, the pipe and the input driver. A report is reduced
to what it holds down; coalescing, the compaction of a full queue, duplicate
suppression, the switch between relative and absolute mouse, the state number
that marks queued items as stale, invalidation, reconnection and the reset of
the devices are all there. `Send` is split where the writer gives the lock up,
so an item may be overtaken by a new connection. `guest` is what Windows has
read. `InputDelivery` is the abstract specification of a sink for the keyboard:
reports arrive in order, may be lost only from the end, and after a loss
nothing arrives before a report without keys. `Delivers` is that specification
under the mapping at the end of `InputPipe` (pending reports are those on their
way through four queues, stale ones left out).

### InputHub (`CInputHub.cpp`, `CLGMPInputTransport.cpp`)

Who owns the devices. Each function of the hub that holds its lock is one
action; where it calls an endpoint with only `m_lifecycleLock` held, the caller
(`mgr` or `disp`) waits at a step of its own while workers go on. A worker
loops over checking its owner's lease, its streams and its messages; its poll
spins after every message (`spin`), and only when it has come to rest does a
pass wait, and see the stop event (`PollIdle`, `WorkerLeaves`). `subs` are
the LGMP subscriptions, which vanish at any time. The sink's connection may
change between any two steps, also inside one function (`CheckState` returns a
set of outcomes).

### InputSession (`client/transports/LGMP/input.c`)

The client's session against what it can tell of the host. Sequence numbers
wrap at a small number, the pending queue and the stream fill, motion is
coalesced or dropped, statuses are latest-value (an older one is overwritten),
the host rebinds its stream, loses its sink, gives the devices to another
client or lets the lease end. The reports that restore what is held after a new
claim are part of the action that claims.

### RingBuffer (`common/src/ringbuffer.c`)

One producer and one consumer, one access to a shared position per step. A
stored value is the position it was written for, so reading a wrong one shows;
and the producer's `memcpy` has a beginning and an end, between which the places
it fills are `Torn`, so that a read that overlaps a write shows too, also when
the same positions are written a second time. The consumer copies one value at a
time. The amounts come from the callers: playback, its room and its slewing
(silence inserted, or the newest values taken back) in `client/src/audio.c`,
recording in `client/src/usb_audio.c`. `heard` is a history of the consumer's
call: the value copied last, and how many of those it found were not taken back
since.

### ControlHub (`CControlHub.cpp`, `CLGMPControl.cpp`)

Revisions of cursor position, cursor shape and transform, the worker of one
sink, and the LGMP queue with its subscribers. The worker copies the state,
chooses a piece of work, calls the sink and books the result in four steps,
between which updates, replays, failures, `Add` and `Remove` happen. The events
`wake` (auto-reset) and `idle` (manual-reset) are variables, so a wake-up that
is consumed too early shows.

### TransportManager (`CTransportManager.cpp`)

The life of one instance. A thread inside a phase (there is one at a time) is
`runner`, a sequence of operations yet to do, each of which takes the entry's
lock once or is one call of the transport or a hub; `SyncRecovery` takes no
phase and is a second thread, `syncer`. What a transport answers (open,
initialise, set up, process; a service added, put off or absent) is a choice.
Retries by time are a choice too. `Program` gives the operations of a phase in
the code's order, `RestartOps` those of `RetryEntry`. `Cfg` is its phase and
call; a wait that fails inside `Stop` is left out.

## 3. Runs

All instances are small enough to be explored completely. No run turns
deadlock checking off. A module `MC...` instantiates; where it holds several
parts, a behaviour is about one of them (`use`), and each part's states are
those it has alone.

| run | question | bounds |
|---|---|---|
| `hub` | competing requests, late answers, answers to a previous hub; does every request leave? | 1 instance with 2 clients, 2 request slots (full, but never rejecting, since a client has one request at a time), 2 admissions and 2 operations per session, 2 sessions, serials modulo 4 (they wrap), fairness |
| `channel` | two writers, one reader, deaths everywhere | 2 clients, 2 slots, 3 sessions, serials modulo 64 starting at 60 (the ticket wraps); after a death inside `Initialize` clients that use the first slot, and no death inside `Publish` |
| `channel_writers` | **violation**, see section 6 | 2 clients, 1 slot |
| `frames` | is a posted frame ever overwritten, is the retained one the newest; books, frames owed | the driver's sizes: 3 buffers, 2 lanes, 2 frames in flight, 1 client, 1 election, 1 republish request; or 2 clients that exchange the ownership (2 elections, 2 republish requests), 2 buffers, 1 lane, 1 frame in flight; 3 frames |
| `frames_live` | do buffers come free, is the owed frame served? | the smaller sizes with 1 client, fairness |
| `frame_hub` | who ends a lane, is the counter right, partial updates; who is left with an old cursor? | frames: 1 sink, 2 lanes, 2 batches, 2 frames (1 content where the sink is unbound) for sinks that answer later and 3 for those that answer at once; control: 1 client, a queue of 2, 1 shape buffer, 2 updates while the sink stays, 1 where it is removed |
| `hubs_live` | stale plans and batches, does Unbind return; vanished owners, does the input hub's lifecycle return; the life of an instance, does Stop return? | frames: the sink is bound twice, 1 lane; input: 1 instance that is not replaced, 1 client; manager: 1 instance, primary, required or optional, 2 services; fairness |
| `input_pipe` | what the guest holds; refinement of `InputDelivery` | queues of 2, 1 and 3, state numbers to 3, 3 messages per connection; keyboard, or both mice with changes of mode; until a mouse report is discarded |
| `input_held` | **violation**, see section 6 | as above, beyond the discard |
| `input_hub` | who owns the devices | two clients of one instance that may be rebound (the cursor moved before that), or two instances with a client each |
| `client` | numbering and held keys of the client; the ring buffer | pending queue of 3 with 1 reserved, a stream of 1, sequence numbers to 3 (they wrap), 2 generations, 1 change of the host (with the mouse) or none (with a key and a button, without motion); ring of 3, positions modulo 14 (3 does not divide it), calls of up to 3 values |
| `ring_takeback` | **violation**, see section 6 | ring of 3, positions modulo 12, calls of up to 3 values |

**Why these bounds are enough.** Every comparison the code makes is between a
thing and one other: its own slot and another's, the current session and an
older one, the newest frame and the one before. Two of each, and a third where
an order of three matters (three frames, three sessions), produce each case;
tables and queues are small enough to be full, counters small enough to wrap.
With one sink in `FrameHub` batches have one target; the hub treats targets one
by one, and sinks share nothing but the batch that is freed with its last
target. The same holds for the slots of `ControlHub` and for the instances of
`TransportManager`, which share the phase and no state. What these bounds leave
out: three or more competing clients and with them a request table that rejects
somebody, two sinks with two batches in flight (the theorems `BufferEndsOnceHolds`
and `LanesAccountedHolds` cover several sinks, for a first binding), and a mouse
and a keyboard in one behaviour of the pipe.

**Properties.** Each property is stated in a comment above its definition.

- hub: `TypeOK`, `WaitersHaveOperation` (no orphaned waiter),
  `OneRequestPerSource`, `KnownIsLatest` (the cached state is not stale),
  `DeliveryOrder`, `HonestResult` (no success without the display side's own
  report), `RequestsLeave`;
- channel: `SlotIntegrityKept`, `AckBeforeReclaim`, `NotOutranked`,
  `AckMovesForward`, `ModeSurvivesRestart`;
- frames: `PostedFrameStays`, `MessagesAccounted`, `ReadyIsNewest`,
  `OwedIsServed` (the frame owed is the newest, and no wake-up for it is lost),
  `BufferComesFree`, `OwedInTheEnd`;
- frame hub: `BufferEndsOnce`, `LanesAccounted`, `PartialFollowsReady`,
  `BatchKeepsToItsSink`, `UnbindReturns`;
- control hub: `NothingForgotten`, `RemovedIsQuiet`;
- input pipe: `Released`, `QuietMatches`, `LinkKept`, `Delivers`;
- input hub: `DevicesFollowOwner`, `OwnerIsServed`, `OneHolder`,
  `VanishedOwnerLeaves`, `LifecycleReturns`;
- client: `InStep` (what is sent is what the host expects next), `HeldAgrees`;
  ring: `RingIntact` (what stays in the ring is copied out whole and from its
  place), `RingThreadSafe` (the same of values taken back: violated);
- manager: `SyncReaches` (told of the monitor, and once), `UsedWhileLive`,
  `StopReturns`.

The constants of `RecoveryChannel` satisfy `8 * (MaxTickets + 1) < SERIAL_MOD`:
`SerialNewer` compares serials by the sign of their difference, so two serials
further apart than half the modulus have no order. A request older than that
would need a client that sleeps while 2^29 requests are posted.

Definitions named `X_Suffix` are mutants of `X`: a plausible slip in that piece
of code, under which the property listed with it in `PROJECT.json` fails.

## 4. Fairness

- *Recovery hub*: the LGMP timer calls `Process` every 10 ms for as long as the
  instance lives, which ticks the hub and drains every instance (`Tick`,
  `TakeDelivery`); the call into the display side returns; time passes
  (`Expire`). That the Helper answers is *not* assumed.
- *Frame sink*: the capture thread publishes or aborts what it prepared, the
  GPU completes or fails what it copies, a client finishes its messages or LGMP
  drops it after its subscription times out, the timer retires messages, queue
  by queue, and scans the books, and the publisher, woken by the ticket, serves
  republish requests. That a client ever subscribes is not assumed.
- *Frame hub*: the capture thread and the thread in Unbind go on; a submitted
  copy ends (Direct3D signals the fences of a removed device); handlers go on
  and sinks return from calls. That a sink raises its callback is *not* assumed.
- *Input hub*: workers go on, look at the lease and at their subscriptions in
  every pass, and threads inside the lifecycle go on. A worker looks at its stop
  event only in a pass that waits, so leaving is weakly fair once the event is
  set *and* the poll is at rest; that the poll comes to rest is not assumed of
  the worker, since every message makes it spin again. `LifecycleReturns` names
  what it needs of the clients, `ClientsPause`: again and again they are silent
  for long enough that the poll rests. Nothing else is assumed of clients.
- *Transport manager*: the thread inside a phase and the one inside
  `SyncRecovery` go on, transports return from calls, and a waiting Stop gets
  the phase once nobody else can begin one. Nothing says that a phase is ever
  begun, or that the monitor arrives.

## 5. Proofs

Eight modules hold theorems about the specification of one component each. They
are proved for every value of the constants that satisfies the assumption named
in the table: TLC's bounds on clients, slots, lanes, queue lengths, frames,
connections and restarts become arbitrary numbers.

| module | theorems (`Spec => []...`) | assumption |
|---|---|---|
| `RecoveryHub_proofs` | `HubInvariant`; `HubTypes`, `HubNoOrphans`, `HubOneRequestPerSource`, `HubHonest`, `HubKnownIsLatest`, `HubDeliveryOrder` | `HubConstants`: positive sizes, 0 is not an identifier, serial width even and at least 4 |
| `RecoveryChannel_proofs` | `ChannelInductive`; `SlotIntegrityHolds`, `AckBeforeReclaimHolds`, `ModeSurvivesRestartHolds`, `NotOutrankedHolds`, `AckMovesForwardHolds` | `ChannelConstants`: serial width divisible by 4 and larger than the serials in use (section 3) |
| `FrameTransport_proofs` | `FrameTransportInductive`; `PostedFrameStaysHolds`, `MessagesAccountedHolds`, `ReadyIsNewestHolds`, `OwedIsServedHolds` | `TransportConstants`: positive sizes, `NoClient` is no client |
| `FrameHub_proofs` | `FrameHubInductive`; `BatchKeepsToItsSinkHolds`, `PartialFollowsReadyHolds` (an action property); `FirstBindingInductive`; `BufferEndsOnceHolds`, `LanesAccountedHolds` (while no sink has been bound twice) | `HubAssumption`: there are sinks, lanes and batches; `LanesFinite`: a sink has finitely many lanes |
| `InputHub_proofs` | `InputHubInductive`; `DevicesFollowOwnerHolds`, `OwnerIsServedHolds`, `OneHolderHolds` | `InputHubConstants`: positive sizes, a source slot for every instance, 0 is not an identifier |
| `InputPipe_proofs` | `InputPipeInductive`; `LinkKeptHolds`, `ReleasedHolds`, `QuietMatchesHolds` | `LengthAssumption`: queues of at least 2 and 3, a pipe of at least 1 |
| `ControlHub_proofs` | `ControlInductive`; `ControlRemovedIsQuiet`, `ControlNothingForgotten` | none |
| `RingBuffer_proofs` | `RingBufferInductive`; `RingIntactHolds` | `RingAssumption`: a length above zero and below half of the even width; the largest count and debt together at most half of it |

None of the properties is inductive as it stands. Each module defines the
invariant that is, as a conjunction of named parts; has one lemma per action
(or per part, where the parts do not depend on each other); and derives the
properties from the invariant. The arguments:

**RecoveryHub.** Whether a report belongs to the operation in flight is decided
by comparing route, session, serial and mode; that the comparison never
confuses two operations follows from `OperationBookkeeping`: routes and
operation ids advance together, the operation carries the newest route of this
session, no action outside the hub has a larger session, or this session and a
route not yet given out, and the action being dispatched is the operation in
flight. The order of results needs `RequestsWellFormed`: sequence numbers in
the table are below the next one. `TableDrops`, `TableFinish` and `TableAdd`
are the three ways in which an action changes the request table.

**RecoveryChannel.** `SlotInv` is about writers: at every step of its request
a client finds its own claim and the words it wrote in its slot, and what
`Process` has read stands until `Process` itself reclaims it. `TicketInv` says
that no ticket is in use twice and that tickets in use lie in a window small
enough for `SerialNewer` to order them; `AckInv`, that what was reclaimed is
what the status answers; `HeaderInv` and `ModeInv` tie header and status to the
driver that is up and to the mode taken last. All of it is `Good`, and the
invariant is that `Good` holds *as long as no driver has died inside
`Initialize`*, since the wipe that follows such a death destroys it (the
finding of section 6). The theorems keep that condition where the properties
need it: `SlotIntegrityKept`, `AckBeforeReclaim` and `ModeSurvivesRestart` carry
their own; `NotOutranked` is proved for behaviours up to such a death, and
`AckMovesForward`, an action property, for drivers that do not die there
(`"init" \notin CrashPoints`). The run `channel` checks both beyond it, on its
instance.

**FrameTransport.** `QueueInv` says what the LGMP queues and the delivery books
say of each other: every message that a client can still hold is accounted for
by the books of its buffer, so that a buffer found free has no reader.
`PoolInv` numbers the publications and bounds which are complete, so that the
retained frame is the newest complete one although copies finish in any order.
`OwedInv` follows the two tickets of a republish request: a frame owed is
deferred and newest, and if it is complete an unanswered request stands. The
three lean on each other only through the types. `NewestFact` and
`OwnerQueueFact` say what the two searches of the code return.

**FrameHub.** `Shape` (an active target belongs to an active batch with a serial
of its own) and the property carry `BatchKeepsToItsSink`: a plan and a batch
name the epoch of the binding they were made for, and every path that follows
one compares it. `EndedInv` relates what the hub remembers of a sink's content
to what the sink has been told, in whatever order the lanes ended; with it every
step satisfies `PartialFollowsReady`. Both hold for any number of bindings, also
after the race of section 6.

`BufferEndsOnce` and `LanesAccounted` do not survive that race, so they are
proved under `BoundOnce` (no sink has been bound a second time), as invariants of
the whole specification: `Spec => [](BoundOnce => ...)`. Unbind and everything
that goes on during it are covered. The invariant, `FirstBinding`, says where the
token of every buffer of a sink is: in no batch yet, in one batch, in one lane,
or gone. A token in a lane is at one of seven stages (to be filled, being filled,
filled, pending, being cancelled, cancelled, being completed), and each stage
says which handlers may be under way, whether the sink can still answer, and
which answer has been taken. That is what decides a race of the callback with
FrameFilled, with CancelFrame and with Unbind: once the hub has taken an answer,
every handler that can still claim the lane carries it. `Owned` gives a busy
lane without a token to one batch target, `Counted` is the sum of
`LanesAccounted`; the one step outside the lock (`CompleteSub`) is why handlers
that have freed a lane are part of it. The handlers share one lemma for what they
leave alone (`HandlerStep`, `Untouched`), publish, abort and fail share one for
the buffers given back (`ReleaseStep`), commit and completion one for the lanes
handed over (`DetachStep`).

**InputHub.** `WorkerInv` and `OwnerInv` place the owner: its binding is in the
table, and its worker is in one of the three places from which it will give the
devices up. That is only true together with `CallInv`, which says how far a
thread inside `Bind`, `Unbind`, `Start` or `Stop` has come, because those
release the hub's lock around the calls to the instances. `HoldsInv` then says
that the sink holds nothing but the owner's reports, except inside `Stop`.
`InterInv` does the same for the interaction lease.

**InputPipe.** `Settles(d, t, h)` says what Windows will see held by reports of
type `t` once it has read the device's queue. Submitting, absorbing,
compacting, reading and resetting are shown to keep it (`SubmitReportFacts`,
`ResetReportsFacts`, `ReadReportFacts`). Reports that have not reached the
device are one sequence, `Stream`, wherever they are (pipe, the sender's hand,
queue): its last report of a type is what the sink was last asked for, and a
mouse reports only after the other one has released its buttons (`Switched`),
which is what the device's own bookkeeping relies on. `RestInv` is the state of
the device between two connections, `SendInv` ties the sender's item to the
state number, `NumberInv` the sequence numbers on the wire. Both mice and the
keyboard are in one behaviour here, which the run's bounds do not allow.

**ControlHub.** Nothing is assumed of clients, queue length, buffers or the number
of revisions. `RemovedIsQuiet` follows from `Slot` (the stages of `Add` and
`Remove` and the flags they leave) and `AtWork`: a work in hand is in the sink
that it was taken for, and as long as it is, `idle` is not set and `Remove`
waits. `NothingForgotten` needs two facts that no step looks at together.
`NoLostWake`: a revision that the worker has not seen is one whose `WakeAll` is
still to come, or the event is set; so a worker that sleeps for good has
recorded every revision. `DeliveredIsTrue`: what the sink has recorded as
delivered is what each subscribed client will show once it has read its queue
(`EndsWith`), except for what the worker has posted and not yet booked, for which
the work in hand says it; a replay that begins in between makes that work
count for nothing, and leaves the record empty. `NoneAhead` bounds all revisions
by the newest, so that a raised one cannot be mistaken for one delivered.
`RetiredEnds` and `ReadByAllIs` say what LGMP may free without changing what a
client ends with.

**RingBuffer.** Everything is said relative to the reader: `At(j)` is the position
`j` places ahead of `readPos`, `Offset` its inverse as long as less than half of
the width is involved (`OffsetFact`, `OffsetIs`, `Shift`). `CountInv` and
`ProducerInv` say what the present calls will leave, so that a count that was
limited before the other side moved on still fits when it is used; `ConsumerInv`
says how far the consumer's call goes; `ValuesInv`, that the values before the
writer, and before the first one the producer is writing, are whole and in place;
`ApartInv`, that the values the consumer's call found and that were not taken
back since lie before the writer, so before every place the producer writes.
Values that a negative slew took back under the consumer are excepted: the
producer does write where they are being copied, which is the violation that
`ring_takeback` shows. Two places less than a ring apart have different indices
(`IndexApart`), except at the wrap when the length does not divide the width,
which is the other exception that `InPlace` names. The bound `MaxDebt` on how far a read may take
the reader past the writer is needed: beyond half of the width the signed
difference of the code changes its sign.

**Only model-checked**, and why:

- every liveness property (`RequestsLeave`, `BufferComesFree`, `OwedInTheEnd`,
  `UnbindReturns`, `VanishedOwnerLeaves`, `LifecycleReturns`, `StopReturns`):
  the prover does not handle fairness;
- `Delivers`, the refinement of `InputDelivery`: the mapping filters sequences,
  and facts about a filter need induction over data;
- `SyncReaches`, `UsedWhileLive`: the only constants of `TransportManager` are the
  services and what an instance may be, both finite in the code, and TLC visits
  every state for two services;
- `InStep`, `HeldAgrees`: not attempted yet (section 7).

## 6. Findings and observations

**Finding (`channel_writers`).** `KVMFRRecovery.h:128` promises: "An
interrupted writer only consumes its own slot and cannot block or corrupt
another writer." A driver that dies inside `Initialize` leaves `ready` at zero;
the next one takes the region for garbage and zeroes all of it
(`CRecovery.cpp:208`), claimed slots and the ticket included. A client that
stalled after its claim then writes into a slot that another client has claimed
since, and the other one publishes a mixed payload. If the driver dies elsewhere
the promise holds (`channel`).

**Finding (`input_held`).** `doc/input.rst:15-16` says: "Disconnecting or
restarting the IDD releases held keys and buttons before ownership changes."
`CHIDDevice::ResetReports` (`LGInput/CHIDDevice.cpp:605`) empties the queue of
reports Windows has not read and releases a mouse only if the report queued last
held a button. A press that Windows has read, followed by a release still in the
queue, ends with the button held. Keys are always released, and buttons whenever
no queued mouse report is discarded (`Released`).

**Finding (`ring_takeback`).** `ringbuffer.h:54-59` allows a negative count "to
seek backwards" and says of `ringbuffer_append`: "This function is thread-safe";
`ringbuffer_consume` (line 67) likewise. A negative count only moves the write
position back (`ringbuffer.c:131`). A consumer that loaded the old position goes
on copying the values taken back, and the next append writes into the same
places meanwhile. Playback does that when it corrects its latency
(`playbackSlewBuffer`, `client/src/audio.c:2594` and `2628`) while the audio
device reads (`1372`); the device may then get frames that are half overwritten.
For values that stay in the ring the claim holds (`RingIntact`).

Observations that no comment or document speaks about, and that are therefore
not violation runs:

- `CFrameHub.cpp:484`: the counter is decremented and the event set without a
  lock. A `PrepareFrameBatch` that counts from 0 to 1 and resets the event
  between the two leaves the event set with a lane outstanding; a later
  `Unbind` does not wait. If the entry is then bound again, the stale batch
  frees or detaches a lane of the new binding. `BufferEndsOnce` and
  `LanesAccounted` therefore are checked and proved for one binding; `UnbindReturns` is
  checked for two, and `BatchKeepsToItsSink` and `PartialFollowsReady` are
  proved for any number.
- `CFrameHub.cpp:523`: a callback that arrives while another thread is about
  to return from `CancelFrame` is kept (`callActive`), but one that had seen
  the lane PENDING may complete it while that thread is still inside the sink;
  `Unbind` may then finish first. No sink in the tree answers PENDING.
- `CLGMPInputTransport.cpp:1005`: a pass that received something goes on without
  a look at the stop event, so a client that never pauses keeps `Stop`, and with
  it the hub's `m_lifecycleLock`, waiting. `LifecycleReturns` fails without
  `ClientsPause`.
- `CRecovery::Publish`: a death between its two serial stores leaves the status
  unreadable, and the next driver starts in normal mode.
- Every client that dies while it writes keeps a slot for good; after sixteen,
  requests time out until the region is wiped.
- `CLGMPFrameTransport.cpp:1251`: a failed copy sets the write pointer to the
  end and then to zero, so a reader that polls may miss it and time out.
- `CLGMPFrameTransport.cpp:1095`: the branch that forgets a deferred frame which
  is neither complete nor in flight is never taken (`DeferredIsNewest`).
- `ringbuffer.c`: positions wrap at 2^32 and are stored modulo the length. A
  length of 48000 does not divide 2^32 (the remainder is 23296), so at the wrap
  the place jumps; `InPlace` excepts the ring's length on either side of it. The
  comment of `ringbuffer.h` that an overrun "will be zeroed in the output" is
  not what `append` does (it advances without writing), but callers clamp first.
- `client/transports/LGMP/input.c`: a status from before a release that is read
  after the next claim keeps the client waiting until the host's lease of 500 ms
  ends; a claim the host ignored, with its status overwritten, leaves the client
  claimed and unconfirmed until it has been idle for 400 ms; at a disconnect the
  thread's last pass may drop the publication, so that no release is sent and
  only the lease frees the devices.
- `CControlHub::Add`: the branch for a sink that is no longer attached cannot be
  taken while the lifecycle lock is held.
- `CTransportManager.cpp:877`: a primary in RETRY that is exposed before the
  delay has passed is never restarted, since `RetryEntry` leaves an exposed
  primary alone; and a required, exposed instance whose control or input service
  has failed stays INITIALIZED, since `AddServices` does not add a failed
  service again, so that a later `Cfg` answers RETRY each time.

## 7. Not modelled, and the plan

Not modelled at all: Direct3D, post-processing, renderers, display servers,
user interfaces, installers, the kernel module (their state is outside the
repository, or there is no protocol), and the data itself (pixels, formats,
colours, timing statistics). `CompleteFrameTarget(..., false)` has no caller.

Left out of modelled parts: the negotiation of a frame graph (`Cfg`,
`CanUseMode`, `CTexHub`), the clock arithmetic of the frame scheduler, the
keyboard LEDs and the absolute pointer of the client's session, the activation
and removal of the virtual HID device (it is active throughout, so the checks of
`SubmitReport`, `ReadReport` and `ResetReports` for a device that is stopping
pass), and `push` and `forEach` of the ring buffer: threads push timings
(`audio.c:2978`, `main.c:663` and `1123`) while the graphs walk over them
(`overlay/graphs.c:366`, `484`), of which the header claims nothing, and a wrong
value shows for one frame of a graph. The clipboard, the audio clock, the client's
rendering and window handling and the legacy host are large, and most of their
lines are calls into Windows, Wayland, X11, OpenGL or PipeWire; the map
therefore covers a small share of the repository's lines, and most of the
driver's recovery, frame, control and input paths.

Next, in this order:

1. `FrameDamage`: candidates and damage of the frame processors composed with
   the content bookkeeping of `FrameHub`; a sink's image equals the newest
   content it was told is ready.
2. `FrameGraph`: `Cfg` with several instances, `CTexHub` and the frame revision.
3. `RecoveryPath`: an abstract specification (a request is pending, then
   answered once) implemented by hub and channel under a refinement mapping.
4. `Framebuffer`: the write pointer that a reader polls.
5. `FrameScheduler`: owner election, deadlines and the limiter for secondaries.
6. `Clipboard`, `HelperPipe`, and on the client `RenderQueue`,
   `TransportSwitch`, `Fallback`.

Proofs, in this order: `SyncReaches` and `UsedWhileLive` of `TransportManager`;
`InStep` and `HeldAgrees` of `InputSession`.

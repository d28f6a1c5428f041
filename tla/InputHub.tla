------------------------------ MODULE InputHub ------------------------------
(***************************************************************************)
(* The ownership of the guest's input devices: the hub (CInputHub), the    *)
(* workers of the LGMP input transports that are bound to it               *)
(* (CLGMPInputTransport), and the transport manager that binds and unbinds *)
(* them and asks the hub before it moves the cursor for a client.          *)
(*                                                                         *)
(* The hub's own lock makes each of its functions one step, except where   *)
(* it calls an endpoint: m_lifecycleLock is then held and m_lock is not.   *)
(* The sink is not under the hub's lock: its connection may change at any  *)
(* point, also between two calls of one function (SinkMoves).  Its state   *)
(* number never repeats, so the hub's copy of it is reduced to whether the *)
(* two differ; the serial of the interaction permits likewise.  A lease is *)
(* reduced to whether its deadline has passed.                             *)
(***************************************************************************)
EXTENDS Integers, FiniteSets

CONSTANTS
  Backends,     \* transport instances of the manager
  Clients,      \* LGMP clients of an instance
  Generations,  \* generations a client draws for its claims
  MAX_SOURCES,  \* slots of the hub (8)
  MaxEpoch      \* bound on the epochs of an instance

ASSUME InputHubConstants ==
  /\ 0 \notin Backends \cup Clients \cup Generations
  /\ MAX_SOURCES \in Nat \ {0} /\ MaxEpoch \in Nat \ {0}
  /\ MAX_SOURCES >= Cardinality(Backends)

Slots == 1..MAX_SOURCES
Keys  == [backend : Backends, epoch : 1..MaxEpoch, client : Clients,
          generation : Generations \cup {0}]
NoKey == [backend |-> 0, epoch |-> 0, client |-> 0, generation |-> 0]

NoSlot   == [backend |-> 0, epoch |-> 0, running |-> FALSE, active |-> FALSE,
             reserved |-> FALSE, failed |-> FALSE, failurePending |-> FALSE]
NoClient == [client |-> 0, generation |-> 0]
NoWorker == [at |-> "none", owner |-> NoClient, live |-> FALSE,
             stop |-> FALSE, failed |-> FALSE, spin |-> FALSE, slot |-> 0]
Idle     == [op |-> "idle"]

VARIABLES
  hub,       \* owner, its lease, interaction owner, its lease, whether the
             \* interaction serial moved since the last permit, m_started,
             \* m_sink, and the sink: available, changed since the hub looked,
             \* and whose reports it has taken since it was last neutral
  m_sources, \* the hub's slots
  worker,    \* per instance: the worker of its input transport; spin: its
             \* passes do not end in a wait
  endpoint,  \* per instance and client: its input stream
  subs,      \* per instance: the clients LGMP knows
  mgr,       \* the manager's thread
  disp,      \* the display side's thread in Start or Stop
  entry      \* per instance: epoch, whether it is open, inputAdded,
             \* inputFailed

vars == <<hub, m_sources, worker, endpoint, subs, mgr, disp, entry>>

Init ==
  /\ hub = [owner |-> NoKey, live |-> FALSE, inter |-> NoKey,
            interLive |-> FALSE, moved |-> TRUE, started |-> FALSE,
            hasSink |-> FALSE,
            sink |-> [avail |-> FALSE, changed |-> FALSE, holds |-> {}]]
  /\ m_sources = [i \in Slots |-> NoSlot]
  /\ worker    = [b \in Backends |-> NoWorker]
  /\ endpoint  = [b \in Backends |-> [c \in Clients |-> "free"]]
  /\ subs      = [b \in Backends |-> {}]
  /\ mgr = Idle /\ disp = Idle
  /\ entry = [b \in Backends |-> [epoch |-> 1, open |-> TRUE,
                                  added |-> FALSE, failed |-> FALSE]]

-----------------------------------------------------------------------------
(* The sink (IInputSink; InputPipe models the one there is)                *)

(* The pipe connects or disconnects; either neutralises the devices.       *)
SinkMoves(s) ==
  {s} \cup [avail : BOOLEAN, changed : {TRUE}, holds : {{}}]

(* Reset and the Send functions, each as the set of results.  An available *)
(* sink that has no room resynchronises: neutral, and with a new state.    *)
SinkReset(s) ==
  UNION {IF m.avail
           THEN {[ok |-> TRUE,  sink |-> [m EXCEPT !.holds = {}]],
                 [ok |-> FALSE, sink |-> [m EXCEPT !.holds = {},
                                                   !.changed = TRUE]]}
           ELSE {[ok |-> FALSE, sink |-> m]} : m \in SinkMoves(s)}

SinkSend(s, k) ==
  UNION {IF m.avail
           THEN {[ok |-> TRUE,  sink |-> [m EXCEPT !.holds = @ \cup {k}]],
                 [ok |-> FALSE, sink |-> [m EXCEPT !.holds = {},
                                                   !.changed = TRUE]]}
           ELSE {[ok |-> FALSE, sink |-> m]} : m \in SinkMoves(s)}

-----------------------------------------------------------------------------
(* The hub's helpers.  Each takes the hub as a record and gives the set of *)
(* records it may leave, since the sink may answer in several ways.        *)

BindingPresent(k) ==
  \E i \in Slots : /\ m_sources[i].active
                   /\ m_sources[i].backend = k.backend
                   /\ m_sources[i].epoch = k.epoch

BindingValid(k) ==
  \E i \in Slots : /\ m_sources[i].active /\ ~m_sources[i].reserved
                   /\ m_sources[i].backend = k.backend
                   /\ m_sources[i].epoch = k.epoch

OwnerValid(h, k) == BindingValid(k) /\ h.owner = k

ClearInteraction(h)      == [h EXCEPT !.inter = NoKey, !.interLive = FALSE]
AdvanceInteraction(h)    == [h EXCEPT !.moved = TRUE]
InvalidateInteraction(h) == AdvanceInteraction(ClearInteraction(h))

NoOwner(h) == [h EXCEPT !.owner = NoKey, !.live = FALSE]

(* The sink is reset and the ownership given up.                           *)
ResetOwner(h) ==
  {NoOwner([h EXCEPT !.sink = r.sink]) : r \in SinkReset(h.sink)}

(* CheckState: ownership and interactions end with a change of the sink's  *)
(* state, and with the owner's lease.  up is what it returns.              *)
CheckState(h) ==
  LET seen == [h EXCEPT !.sink.changed = FALSE]
      hubs == CASE h.sink.changed /\ h.owner # NoKey ->
                     {InvalidateInteraction(r) : r \in ResetOwner(seen)}
                [] h.sink.changed /\ h.owner = NoKey ->
                     {InvalidateInteraction(seen)}
                [] ~h.sink.changed /\ h.owner # NoKey /\ ~h.live ->
                     {InvalidateInteraction(r) : r \in ResetOwner(h)}
                [] OTHER -> {h}
  IN IF ~h.started \/ ~h.hasSink THEN {[hub |-> h, up |-> FALSE]}
     ELSE {[hub |-> r, up |-> h.sink.avail] : r \in hubs}

(* The binding of a source ends: its ownership with a reset, its           *)
(* interaction, and every permit.                                          *)
Detach_NoReset(h, b, e) ==
  LET g == IF h.owner.backend = b /\ h.owner.epoch = e THEN NoOwner(h) ELSE h
  IN {AdvanceInteraction(
        IF g.inter.backend = b /\ g.inter.epoch = e
          THEN ClearInteraction(g) ELSE g)}

Detach(h, b, e) ==
  LET gs == IF h.owner.backend = b /\ h.owner.epoch = e
              THEN IF h.hasSink THEN ResetOwner(h) ELSE {NoOwner(h)}
              ELSE {h}
  IN {AdvanceInteraction(
        IF g.inter.backend = b /\ g.inter.epoch = e
          THEN ClearInteraction(g) ELSE g) : g \in gs}

-----------------------------------------------------------------------------
(* The hub's functions for a source, as the worker of instance b calls     *)
(* them through its slot                                                   *)

Key(b, o) ==
  LET s == m_sources[worker[b].slot]
  IN [backend |-> s.backend, epoch |-> s.epoch,
      client |-> o.client, generation |-> o.generation]

(* Claim: the sink is reset for the new owner.                             *)
Claim(h0, k) ==
  IF ~BindingValid(k) THEN {[hub |-> h0, ok |-> FALSE]}
  ELSE UNION {
    LET h == c.hub IN
    CASE ~c.up -> {[hub |-> h, ok |-> FALSE]}
      [] c.up /\ h.owner # NoKey -> {[hub |-> h, ok |-> h.owner = k]}
      [] OTHER ->
           {IF r.ok /\ ~r.sink.changed
              THEN [hub |-> InvalidateInteraction(
                              [h EXCEPT !.sink = r.sink, !.owner = k,
                                        !.live = TRUE]), ok |-> TRUE]
              ELSE [hub |-> InvalidateInteraction(
                              [h EXCEPT !.sink = [r.sink EXCEPT
                                                    !.changed = FALSE]]),
                    ok |-> FALSE] : r \in SinkReset(h.sink)}
    : c \in CheckState(h0)}

(* Touch, Reset, SendMouseRelative, SendMouseAbsolute and SendKeyboard:    *)
(* what is left of the five after the data is abstracted away.  A sink     *)
(* that refuses ends the ownership.                                        *)
Touched(h) == {[hub |-> [h EXCEPT !.live = TRUE], ok |-> TRUE]}

WasReset(h) ==
  {[hub |-> IF r.ok THEN [h EXCEPT !.sink = r.sink, !.live = TRUE]
            ELSE InvalidateInteraction(NoOwner([h EXCEPT !.sink = r.sink])),
    ok  |-> r.ok] : r \in SinkReset(h.sink)}

Reported(h, k) ==
  UNION {IF r.ok
           THEN {[hub |-> [h EXCEPT !.sink = r.sink, !.live = TRUE],
                  ok  |-> TRUE]}
           ELSE {[hub |-> InvalidateInteraction(g), ok |-> FALSE]
                 : g \in ResetOwner([h EXCEPT !.sink = r.sink])}
         : r \in SinkSend(h.sink, k)}

Owned(h0, k, call) ==
  IF ~BindingValid(k) THEN {[hub |-> h0, ok |-> FALSE]}
  ELSE UNION {
    CASE ~c.up \/ ~OwnerValid(c.hub, k) -> {[hub |-> c.hub, ok |-> FALSE]}
      [] c.up /\ OwnerValid(c.hub, k) ->
           CASE call = "touch"  -> Touched(c.hub)
             [] call = "reset"  -> WasReset(c.hub)
             [] call = "report" -> Reported(c.hub, k)
    : c \in CheckState(h0)}

Release(h, k, reset) ==
  IF ~OwnerValid(h, k) THEN {h}
  ELSE {InvalidateInteraction(g)
        : g \in IF reset /\ h.hasSink THEN ResetOwner(h) ELSE {NoOwner(h)}}

(* GetState; owned is what the source is told about its ownership.         *)
GetState(h, k) ==
  IF ~BindingPresent(k) THEN {[hub |-> h, owned |-> FALSE]}
  ELSE {[hub   |-> c.hub,
         owned |-> c.up /\ BindingValid(k) /\ k.client # 0
                     /\ c.hub.owner = k] : c \in CheckState(h)}

(* Failed: the worker reports that it cannot go on.                        *)
Failed(i) ==
  IF ~m_sources[i].active THEN UNCHANGED <<hub, m_sources>>
  ELSE /\ hub' \in Detach(hub, m_sources[i].backend, m_sources[i].epoch)
       /\ m_sources' = [m_sources EXCEPT ![i].active = FALSE,
                          ![i].failed = TRUE, ![i].failurePending = TRUE]

-----------------------------------------------------------------------------
(* The worker of an LGMP input transport (Thread)                          *)

Loops(b) == worker[b].at = "loop"

CheckOwner_LeaseOnly(b) ==
  LET w == worker[b] IN
  /\ Loops(b)
  /\ \E r \in GetState(hub, Key(b, w.owner)) :
       /\ hub' = r.hub
       /\ worker' = [worker EXCEPT ![b].at =
            CASE w.owner = NoClient -> "loop"
              [] w.owner # NoClient /\ ~r.owned -> "lost"
              [] OTHER -> IF w.live THEN "loop" ELSE "release"]
  /\ UNCHANGED <<m_sources, endpoint, subs, mgr, disp, entry>>

(* CheckOwner: an owner whose stream is gone or draining is released, an   *)
(* ownership the hub has ended is forgotten, a lease that ran out releases *)
CheckOwner(b) ==
  LET w == worker[b] IN
  /\ Loops(b)
  /\ IF w.owner # NoClient /\ endpoint[b][w.owner.client] # "bound"
       THEN /\ worker' = [worker EXCEPT ![b].at = "release"]
            /\ hub' = hub
       ELSE \E r \in GetState(hub, Key(b, w.owner)) :
              /\ hub' = r.hub
              /\ worker' = [worker EXCEPT ![b].at =
                   CASE w.owner = NoClient -> "loop"
                     [] w.owner # NoClient /\ ~r.owned -> "lost"
                     [] OTHER -> IF w.live THEN "loop" ELSE "release"]
  /\ UNCHANGED <<m_sources, endpoint, subs, mgr, disp, entry>>

ReleaseOwner_OnlyInLoop(b) ==
  LET w == worker[b] IN
  /\ w.at \in {"lost", "release", "leave"}
  /\ hub' \in IF w.owner = NoClient \/ w.at = "leave" THEN {hub}
              ELSE Release(hub, Key(b, w.owner), w.at # "lost")
  /\ worker' = [worker EXCEPT ![b].owner = NoClient, ![b].live = FALSE,
                  ![b].at = IF w.at = "leave" THEN "report" ELSE "loop"]
  /\ UNCHANGED <<m_sources, endpoint, subs, mgr, disp, entry>>

(* ReleaseOwner, and the end of the worker's loop, where it comes first.   *)
ReleaseOwner(b) ==
  LET w == worker[b] IN
  /\ w.at \in {"lost", "release", "leave"}
  /\ hub' \in IF w.owner = NoClient THEN {hub}
              ELSE Release(hub, Key(b, w.owner), w.at # "lost")
  /\ worker' = [worker EXCEPT ![b].owner = NoClient, ![b].live = FALSE,
                  ![b].at = IF w.at = "leave" THEN "report" ELSE "loop"]
  /\ UNCHANGED <<m_sources, endpoint, subs, mgr, disp, entry>>

(* ProcessMessage for a stream that is not draining: client c sends a      *)
(* message of a generation.  "bad" stands for a malformed message and for  *)
(* one out of sequence.  The calls of GetState around each message are     *)
(* those of CheckOwner.  After any message the poll spins.                 *)
ProcessMessage(b, c, g, type) ==
  LET w   == worker[b]
      src == [client |-> c, generation |-> g]
  IN /\ Loops(b)
     /\ endpoint[b][c] = "bound"
     /\ \/ /\ type = "claim" /\ w.owner = NoClient
           /\ \E r \in Claim(hub, Key(b, src)) :
                /\ hub' = r.hub
                /\ worker' = IF r.ok
                     THEN [worker EXCEPT ![b].owner = src, ![b].live = TRUE,
                                         ![b].spin = TRUE]
                     ELSE [worker EXCEPT ![b].spin = TRUE]
        \/ /\ type \in {"bad", "release"} /\ w.owner = src
           /\ worker' = [worker EXCEPT ![b].at = "release", ![b].spin = TRUE]
           /\ hub' = hub
        \/ /\ type \in {"touch", "reset", "report"} /\ w.owner = src
           /\ \E r \in Owned(hub, Key(b, src), type) :
                /\ hub' = r.hub
                /\ worker' = IF r.ok
                     THEN [worker EXCEPT ![b].live = TRUE, ![b].spin = TRUE]
                     ELSE [worker EXCEPT ![b].at = "release",
                                         ![b].spin = TRUE]
     /\ UNCHANGED <<m_sources, endpoint, subs, mgr, disp, entry>>

(* DrainStreamMessages takes a message that changes nothing: of a client   *)
(* that is not the owner, or from a stream that drains.                    *)
MessageIgnored(b, c) ==
  /\ Loops(b)
  /\ endpoint[b][c] # "free"
  /\ worker' = [worker EXCEPT ![b].spin = TRUE]
  /\ UNCHANGED <<hub, m_sources, endpoint, subs, mgr, disp, entry>>

(* ReconcileStreams: streams of vanished clients drain until they can be   *)
(* unbound, a new client gets a stream.  busy: the client left a record    *)
(* half written or unread.                                                 *)
ReconcileStreams(b, c, busy) ==
  /\ Loops(b)
  /\ \/ /\ endpoint[b][c] = "free" /\ c \in subs[b] /\ ~busy
        /\ endpoint' = [endpoint EXCEPT ![b][c] = "bound"]
     \/ /\ endpoint[b][c] = "bound" /\ c \notin subs[b]
        /\ endpoint' = [endpoint EXCEPT ![b][c] =
                          IF busy THEN "draining" ELSE "free"]
     \/ /\ endpoint[b][c] = "draining" /\ ~busy
        /\ endpoint' = [endpoint EXCEPT ![b][c] = "free"]
  /\ UNCHANGED <<hub, m_sources, worker, subs, mgr, disp, entry>>

(* The passes found no message for as long as the poll spins: this one     *)
(* ends in the wait, which the stop event ends first.                      *)
PollIdle(b) ==
  /\ Loops(b) /\ worker[b].spin
  /\ worker' = [worker EXCEPT ![b].spin = FALSE,
                  ![b].at = IF worker[b].stop THEN "leave" ELSE "loop"]
  /\ UNCHANGED <<hub, m_sources, endpoint, subs, mgr, disp, entry>>

(* The worker leaves its loop: the stop event, looked at only by a pass    *)
(* that waits, or, in any pass, an error of LGMP, of the timer, or         *)
(* (FlushStatus) of the status queue.                                      *)
WorkerLeaves(b, failed) ==
  /\ Loops(b)
  /\ failed \/ (worker[b].stop /\ ~worker[b].spin)
  /\ worker' = [worker EXCEPT ![b].at = "leave", ![b].failed = failed,
                              ![b].spin = FALSE]
  /\ UNCHANGED <<hub, m_sources, endpoint, subs, mgr, disp, entry>>

WorkerExits(b) ==
  LET w == worker[b] IN
  /\ w.at = "report"
  /\ worker' = [worker EXCEPT ![b].at = "exited"]
  /\ IF w.failed THEN Failed(w.slot) ELSE UNCHANGED <<hub, m_sources>>
  /\ UNCHANGED <<endpoint, subs, mgr, disp, entry>>

-----------------------------------------------------------------------------
(* Start and Stop of an endpoint, as the hub calls them.  Stop waits for   *)
(* the worker, and leaves the streams it cannot unbind draining.           *)

Started(b, i) ==
  worker' = [worker EXCEPT ![b] = [NoWorker EXCEPT !.at = "loop", !.slot = i,
                                                   !.spin = TRUE]]

StopSignal_Owned(b) ==
  worker' = [worker EXCEPT ![b].stop = worker[b].owner # NoClient]
StopSignal(b) == worker' = [worker EXCEPT ![b].stop = TRUE]

Stopped(b) ==
  /\ worker[b].at \in {"none", "exited"}
  /\ worker' = [worker EXCEPT ![b] = NoWorker]
  /\ endpoint' \in {[endpoint EXCEPT ![b] = [c \in Clients |->
                      IF endpoint[b][c] = "free" THEN "free"
                      ELSE IF c \in busy THEN "draining" ELSE "free"]]
                    : busy \in SUBSET Clients}

SlotOf(b, e) ==
  {i \in Slots : /\ m_sources[i].backend = b /\ m_sources[i].epoch = e
                 /\ \/ m_sources[i].active \/ m_sources[i].failed
                    \/ m_sources[i].reserved}

FreeSlots ==
  {i \in Slots : ~(m_sources[i].active \/ m_sources[i].failed
                     \/ m_sources[i].reserved)}

LifecycleFree == mgr.op \in {"idle", "interact"} /\ disp = Idle

-----------------------------------------------------------------------------
(* The manager's thread: Bind, Unbind, interactions                        *)

(* Bind reserves a slot; with the hub started the endpoint is started too. *)
BindBegin(b) ==
  /\ mgr = Idle /\ LifecycleFree
  /\ entry[b].open /\ ~entry[b].added /\ ~entry[b].failed
  /\ SlotOf(b, entry[b].epoch) = {}
  /\ \E i \in FreeSlots :
       /\ \A j \in FreeSlots : i <= j
       /\ m_sources' = [m_sources EXCEPT ![i] =
            [NoSlot EXCEPT !.backend = b, !.epoch = entry[b].epoch,
                           !.active = TRUE, !.reserved = TRUE]]
       /\ mgr' = [op |-> "bind", backend |-> b, slot |-> i,
                  start |-> hub.started,
                  at |-> IF hub.started THEN "start" ELSE "settle"]
  /\ UNCHANGED <<hub, worker, endpoint, subs, disp, entry>>

(* The endpoint's Start asks the hub for the state before it starts its    *)
(* worker; it may fail.                                                    *)
BindStart ==
  /\ mgr.op = "bind" /\ mgr.at = "start"
  /\ \/ /\ \E r \in GetState(hub, [backend |-> mgr.backend,
                               epoch |-> entry[mgr.backend].epoch,
                               client |-> 0, generation |-> 0]) : hub' = r.hub
        /\ Started(mgr.backend, mgr.slot)
        /\ mgr' = [mgr EXCEPT !.at = "settle"]
     \/ /\ StopSignal(mgr.backend)
        /\ hub' = hub
        /\ mgr' = [mgr EXCEPT !.at = "stop"]
  /\ UNCHANGED <<m_sources, endpoint, subs, disp, entry>>

(* A source that failed meanwhile is stopped and taken out again.          *)
BindSettle ==
  /\ mgr.op = "bind" /\ mgr.at = "settle"
  /\ IF m_sources[mgr.slot].failed
       THEN /\ IF mgr.start THEN StopSignal(mgr.backend)
                            ELSE UNCHANGED worker
            /\ mgr' = [mgr EXCEPT !.at = "stop"]
            /\ UNCHANGED <<m_sources, entry>>
       ELSE /\ m_sources' = [m_sources EXCEPT ![mgr.slot].running = mgr.start,
                                              ![mgr.slot].reserved = FALSE]
            /\ entry' = [entry EXCEPT ![mgr.backend].added = TRUE]
            /\ mgr' = Idle
            /\ UNCHANGED worker
  /\ UNCHANGED <<hub, endpoint, subs, disp>>

(* Both error paths of Bind, and the end of Unbind.                        *)
SlotCleared ==
  /\ mgr.op \in {"bind", "unbind"} /\ mgr.at = "stop"
  /\ Stopped(mgr.backend)
  /\ m_sources' = [m_sources EXCEPT ![mgr.slot] = NoSlot]
  /\ mgr' = Idle
  /\ UNCHANGED <<hub, subs, disp, entry>>

(* Unbind takes the source out of the hub, then stops its endpoint.  The   *)
(* callers: RemoveServices, which revokes the interactions first, and the  *)
(* handling of a failure, which sets inputFailed.                          *)
UnbindFrom(h, b, e, i) ==
  /\ hub' \in Detach(h, b, e)
  /\ m_sources' = [m_sources EXCEPT ![i].active = FALSE, ![i].failed = FALSE,
                     ![i].failurePending = FALSE, ![i].reserved = TRUE,
                     ![i].running = FALSE]
  /\ mgr' = [op |-> "unbind", backend |-> b, slot |-> i, at |-> "stop"]
  /\ IF m_sources[i].running THEN StopSignal(b) ELSE UNCHANGED worker

RevokeInteraction(h, b, e) ==
  AdvanceInteraction(IF h.inter.backend = b /\ h.inter.epoch = e
                       THEN ClearInteraction(h) ELSE h)

RemoveServices(b) ==
  /\ mgr = Idle /\ LifecycleFree
  /\ entry[b].open
  /\ \/ /\ entry[b].added
        /\ \E i \in SlotOf(b, entry[b].epoch) :
             UnbindFrom(RevokeInteraction(hub, b, entry[b].epoch), b,
                        entry[b].epoch, i)
     \/ /\ ~entry[b].added
        /\ hub' = RevokeInteraction(hub, b, entry[b].epoch)
        /\ UNCHANGED <<m_sources, worker, mgr>>
  /\ entry' = [entry EXCEPT ![b].open = FALSE, ![b].added = FALSE]
  /\ UNCHANGED <<endpoint, subs, disp>>

(* RetryEntry: a new instance, whose LGMP session has no clients yet.      *)
RetryEntry(b) ==
  /\ mgr = Idle
  /\ ~entry[b].open /\ entry[b].epoch < MaxEpoch
  /\ entry' = [entry EXCEPT ![b] = [epoch |-> @.epoch + 1, open |-> TRUE,
                                    added |-> FALSE, failed |-> FALSE]]
  /\ endpoint' = [endpoint EXCEPT ![b] = [c \in Clients |-> "free"]]
  /\ subs' = [subs EXCEPT ![b] = {}]
  /\ UNCHANGED <<hub, m_sources, worker, mgr, disp>>

(* TakeFailure, and what the manager does with it.                         *)
TakeFailure ==
  /\ mgr = Idle /\ LifecycleFree
  /\ \E i \in Slots :
       /\ m_sources[i].failurePending
       /\ \A j \in Slots : m_sources[j].failurePending => i <= j
       /\ UnbindFrom(hub, m_sources[i].backend, m_sources[i].epoch, i)
       /\ entry' = [entry EXCEPT ![m_sources[i].backend].added = FALSE,
                                 ![m_sources[i].backend].failed = TRUE]
  /\ UNCHANGED <<endpoint, subs, disp>>

(* CheckInteraction for a cursor or resolution message of client c (which  *)
(* carries no generation), the action itself, and CommitInteraction.       *)
SameClient(k, l) ==
  k.backend = l.backend /\ k.epoch = l.epoch /\ k.client = l.client

CheckInteraction(b, c) ==
  LET src == [backend |-> b, epoch |-> entry[b].epoch, client |-> c,
              generation |-> 0]
  IN /\ mgr = Idle /\ entry[b].open
     /\ \E r \in CheckState(hub) :
          LET h    == r.hub
              over == h.owner = NoKey /\ h.inter # NoKey /\ ~h.interLive
              g    == IF over THEN InvalidateInteraction(h) ELSE h
              lord == IF g.owner # NoKey THEN g.owner ELSE g.inter
          IN IF lord # NoKey /\ ~SameClient(lord, src)
               THEN hub' = g /\ mgr' = Idle
               ELSE /\ hub' = [g EXCEPT !.moved = FALSE]
                    /\ mgr' = [op |-> "interact",
                               source |-> [src EXCEPT !.generation =
                                             lord.generation]]
     /\ UNCHANGED <<m_sources, worker, endpoint, subs, disp, entry>>

CommitInteraction_WhileOwned ==
  /\ mgr.op = "interact"
  /\ \E r \in CheckState(hub) : LET h == r.hub IN
       hub' = IF h.moved \/ h.inter # NoKey THEN h
              ELSE AdvanceInteraction([h EXCEPT !.inter = mgr.source,
                                                !.interLive = TRUE])
  /\ mgr' = Idle
  /\ UNCHANGED <<m_sources, worker, endpoint, subs, disp, entry>>

CommitInteraction ==
  /\ mgr.op = "interact"
  /\ \E r \in CheckState(hub) : LET h == r.hub IN
       hub' = IF \/ h.moved \/ h.owner # NoKey
                 \/ h.inter # NoKey /\ ~SameClient(h.inter, mgr.source)
              THEN h
              ELSE AdvanceInteraction([h EXCEPT !.interLive = TRUE,
                     !.inter = IF @ = NoKey THEN mgr.source ELSE @])
  /\ mgr' = Idle
  /\ UNCHANGED <<m_sources, worker, endpoint, subs, disp, entry>>

(* The action was refused, so nothing is committed.                        *)
InteractionRefused ==
  /\ mgr.op = "interact"
  /\ mgr' = Idle
  /\ UNCHANGED <<hub, m_sources, worker, endpoint, subs, disp, entry>>

-----------------------------------------------------------------------------
(* The display side: Start and Stop of the hub                             *)

StartBegin ==
  /\ LifecycleFree /\ ~hub.started
  /\ \E s \in SinkMoves(hub.sink) :
       hub' = InvalidateInteraction([hub EXCEPT !.started = TRUE,
                !.hasSink = TRUE, !.sink = [s EXCEPT !.changed = FALSE]])
  /\ m_sources' = [i \in Slots |-> IF m_sources[i].active
                     THEN [m_sources[i] EXCEPT !.reserved = TRUE]
                     ELSE m_sources[i]]
  /\ disp' = [op |-> "start", at |-> "next",
              todo |-> {i \in Slots : m_sources[i].active}]
  /\ UNCHANGED <<worker, endpoint, subs, mgr, entry>>

First(S) == CHOOSE i \in S : \A j \in S : i <= j
Last(S)  == CHOOSE i \in S : \A j \in S : j <= i

(* The source whose turn it is: Stop goes through them from the end.       *)
Turn(d) == IF d.op = "stop" THEN Last(d.todo) ELSE First(d.todo)

StartEndpoint ==
  /\ disp.op = "start" /\ disp.at = "next" /\ disp.todo # {}
  /\ LET i == Turn(disp)
         k == [backend |-> m_sources[i].backend, epoch |-> m_sources[i].epoch,
               client |-> 0, generation |-> 0]
     IN \/ /\ \E r \in GetState(hub, k) : hub' = r.hub
           /\ Started(k.backend, i)
           /\ disp' = [disp EXCEPT !.at = "started"]
        \/ /\ disp' = [disp EXCEPT !.at = "refused"]
           /\ UNCHANGED <<hub, worker>>
  /\ UNCHANGED <<m_sources, endpoint, subs, mgr, entry>>

StartSettle ==
  /\ disp.op = "start" /\ disp.at \in {"started", "refused"}
  /\ LET i == Turn(disp)
         s == m_sources[i]
     IN IF disp.at = "refused" \/ s.failed \/ ~s.active \/ ~s.reserved
          THEN /\ hub' \in Detach(hub, s.backend, s.epoch)
               /\ m_sources' = [m_sources EXCEPT ![i].active = FALSE,
                    ![i].failed = TRUE, ![i].failurePending = TRUE,
                    ![i].running = FALSE]
               /\ StopSignal(s.backend)
               /\ disp' = [disp EXCEPT !.at = "stop"]
          ELSE /\ m_sources' = [m_sources EXCEPT ![i].reserved = FALSE,
                                                 ![i].running = TRUE]
               /\ disp' = [disp EXCEPT !.at = "next", !.todo = @ \ {i}]
               /\ UNCHANGED <<hub, worker>>
  /\ UNCHANGED <<endpoint, subs, mgr, entry>>

StopBegin ==
  /\ LifecycleFree /\ hub.started
  /\ hub' = InvalidateInteraction(NoOwner([hub EXCEPT !.started = FALSE]))
  /\ m_sources' = [i \in Slots |-> [m_sources[i] EXCEPT !.running = FALSE]]
  /\ disp' = [op |-> "stop", at |-> "next", reset |-> hub.owner # NoKey,
              todo |-> {i \in Slots : m_sources[i].running}]
  /\ UNCHANGED <<worker, endpoint, subs, mgr, entry>>

(* Stop of a hub that is not started ends the interactions all the same.   *)
StopNotStarted ==
  /\ LifecycleFree /\ ~hub.started
  /\ hub' = InvalidateInteraction(hub)
  /\ UNCHANGED <<m_sources, worker, endpoint, subs, mgr, disp, entry>>

StopEndpoint ==
  /\ disp.op = "stop" /\ disp.at = "next" /\ disp.todo # {}
  /\ StopSignal(m_sources[Turn(disp)].backend)
  /\ disp' = [disp EXCEPT !.at = "stop"]
  /\ UNCHANGED <<hub, m_sources, endpoint, subs, mgr, entry>>

EndpointStopped ==
  /\ disp.op \in {"start", "stop"} /\ disp.at = "stop"
  /\ Stopped(m_sources[Turn(disp)].backend)
  /\ disp' = [disp EXCEPT !.at = "next", !.todo = @ \ {Turn(disp)}]
  /\ UNCHANGED <<hub, m_sources, subs, mgr, entry>>

(* Start returns, or Stop after it has reset the sink for the last owner.  *)
StartEnd ==
  /\ disp.op = "start" /\ disp.at = "next" /\ disp.todo = {}
  /\ disp' = Idle
  /\ UNCHANGED <<hub, m_sources, worker, endpoint, subs, mgr, entry>>

StopEnd ==
  /\ disp.op = "stop" /\ disp.at = "next" /\ disp.todo = {}
  /\ \E s \in IF disp.reset THEN {r.sink : r \in SinkReset(hub.sink)}
              ELSE {hub.sink} :
       hub' = [hub EXCEPT !.hasSink = FALSE, !.sink = s]
  /\ disp' = Idle
  /\ UNCHANGED <<m_sources, worker, endpoint, subs, mgr, entry>>

-----------------------------------------------------------------------------
(* The outside: the sink's connection, time, and LGMP's clients            *)

SinkChanges ==
  /\ hub' \in {[hub EXCEPT !.sink = s] : s \in SinkMoves(hub.sink)}
  /\ hub' # hub
  /\ UNCHANGED <<m_sources, worker, endpoint, subs, mgr, disp, entry>>

(* The worker renews its lease right after the hub renewed the owner's,    *)
(* for the same time, so it does not end first.                            *)
TimePasses ==
  /\ \/ /\ hub' \in {[hub EXCEPT !.live = FALSE],
                      [hub EXCEPT !.interLive = FALSE]}
        /\ UNCHANGED worker
     \/ /\ \E b \in Backends :
             /\ worker[b].live
             /\ ~(hub.live /\ hub.owner = Key(b, worker[b].owner))
             /\ worker' = [worker EXCEPT ![b].live = FALSE]
        /\ UNCHANGED hub
  /\ <<hub, worker>>' # <<hub, worker>>
  /\ UNCHANGED <<m_sources, endpoint, subs, mgr, disp, entry>>

LgmpClient(b, c) ==
  /\ subs' = [subs EXCEPT ![b] = IF c \in @ THEN @ \ {c} ELSE @ \cup {c}]
  /\ UNCHANGED <<hub, m_sources, worker, endpoint, mgr, disp, entry>>

MessageTypes == {"claim", "bad", "release", "touch", "reset", "report"}

Worker(b) ==
  \/ CheckOwner(b)
  \/ ReleaseOwner(b)
  \/ \E c \in Clients, g \in Generations, t \in MessageTypes :
       ProcessMessage(b, c, g, t)
  \/ \E c \in Clients : MessageIgnored(b, c)
  \/ \E c \in Clients, busy \in BOOLEAN : ReconcileStreams(b, c, busy)
  \/ PollIdle(b)
  \/ \E failed \in BOOLEAN : WorkerLeaves(b, failed)
  \/ WorkerExits(b)

Manager ==
  \/ \E b \in Backends : BindBegin(b) \/ RemoveServices(b) \/ RetryEntry(b)
  \/ BindStart \/ BindSettle \/ SlotCleared \/ TakeFailure
  \/ \E b \in Backends, c \in Clients : CheckInteraction(b, c)
  \/ CommitInteraction \/ InteractionRefused

Display ==
  \/ StartBegin \/ StartEndpoint \/ StartSettle \/ StartEnd
  \/ StopBegin \/ StopNotStarted \/ StopEndpoint \/ EndpointStopped \/ StopEnd

Next ==
  \/ \E b \in Backends : Worker(b)
  \/ Manager
  \/ Display
  \/ SinkChanges \/ TimePasses
  \/ \E b \in Backends, c \in Clients : LgmpClient(b, c)

Spec == Init /\ [][Next]_vars

(* The worker's loop comes round: it checks the owner, looks after the     *)
(* streams and, once the poll has a wait for it, sees the stop event; a    *)
(* call that is under way goes on.  That the poll comes to rest is up to   *)
(* the clients: nothing is assumed of PollIdle.                            *)
Fairness ==
  /\ \A b \in Backends :
       /\ WF_vars(CheckOwner(b)) /\ WF_vars(ReleaseOwner(b))
       /\ WF_vars(WorkerExits(b))
       /\ WF_vars(worker[b].stop /\ WorkerLeaves(b, FALSE))
       /\ \A c \in Clients :
            WF_vars(/\ endpoint[b][c] = "bound"
                    /\ \E busy \in BOOLEAN : ReconcileStreams(b, c, busy))
  /\ WF_vars(BindStart \/ BindSettle \/ SlotCleared)
  /\ WF_vars(StartEndpoint \/ StartSettle \/ StartEnd \/ StopEndpoint
               \/ EndpointStopped \/ StopEnd)

FairSpec == Spec /\ Fairness

-----------------------------------------------------------------------------
(* Properties                                                              *)

(* What the guest's devices hold down was reported by the present owner:   *)
(* whatever ends an ownership (release, lease, lost stream, failure,       *)
(* Unbind, a sink that refuses) neutralises the devices first, so that no  *)
(* client types on top of another's keys.  Stop does it last, when all     *)
(* workers are gone.                                                       *)
DevicesFollowOwner ==
  hub.sink.holds \subseteq {hub.owner} \/ disp.op = "stop"

(* The owner's binding is in the table, active and not reserved: a source  *)
(* that is being unbound or has failed cannot own the devices, although    *)
(* its worker may still be running and claiming.                           *)
OwnerIsBound ==
  hub.owner # NoKey =>
    \E i \in Slots : /\ m_sources[i].backend = hub.owner.backend
                     /\ m_sources[i].epoch = hub.owner.epoch
                     /\ m_sources[i].active /\ ~m_sources[i].reserved

(* The hub's owner is the client that the worker of its transport takes    *)
(* for the owner; so the worker will release it.                           *)
WorkerKnowsOwner ==
  hub.owner # NoKey =>
    LET w == worker[hub.owner.backend]
    IN /\ w.owner = [client |-> hub.owner.client,
                     generation |-> hub.owner.generation]
       /\ w.at \in {"loop", "lost", "release", "leave"}

(* An owner is somebody who can still act and give the devices up (Unbind, *)
(* Failed, Claim and the worker's last pass on different threads).         *)
OwnerIsServed == OwnerIsBound /\ WorkerKnowsOwner

(* Moving the cursor and typing exclude each other: while a client owns    *)
(* the devices nobody holds the interaction lease, and the lease is held   *)
(* for an instance that is still attached (CommitInteraction, Claim,       *)
(* RevokeInteraction).                                                     *)
OneHolder ==
  /\ hub.owner = NoKey \/ hub.inter = NoKey
  /\ hub.inter # NoKey =>
       /\ entry[hub.inter.backend].open
       /\ entry[hub.inter.backend].epoch = hub.inter.epoch

(* A client that vanishes while it owns the devices loses them, although   *)
(* it sends no release.                                                    *)
VanishedOwnerLeaves ==
  \A b \in Backends, c \in Clients :
    (hub.owner.backend = b /\ hub.owner.client = c /\ c \notin subs[b])
      ~> (hub.owner.client # c \/ hub.owner.backend # b \/ c \in subs[b])

(* Bind, Unbind, Start and Stop return: they hold m_lifecycleLock while    *)
(* they wait for a worker, whose last steps call back into the hub.  The   *)
(* clients have to pause for it, long enough for the worker's poll to come *)
(* to rest: as long as messages keep coming, Thread does not look at its   *)
(* stop event (the continue before the wait).                              *)
ClientsPause == \A b \in Backends : []<>~worker[b].spin

LifecycleReturns ==
  ClientsPause =>
    /\ (mgr.op \in {"bind", "unbind"}) ~> (mgr.op = "idle")
    /\ (disp.op # "idle") ~> (disp.op = "idle")
=============================================================================

--------------------------- MODULE TransportManager ---------------------------
(* The life of a transport instance (CTransportManager): it is opened,       *)
(* initialised and set up in phases, processed by a timer, restarted when it *)
(* or one of its services fails, and stopped; the arrival of the monitor     *)
(* reaches it from a thread of its own (SyncRecovery), which takes no phase. *)
(*                                                                           *)
(* One instance is modelled: instances share the phase and nothing else.     *)
(* Only one thread is inside a phase, so there is one runner, and what it    *)
(* has yet to do is a sequence of operations; each takes the entry's lock    *)
(* once, or is one call of the transport or of a hub.  The deliveries that   *)
(* DrainRecovery takes are RecoveryHub's.  Cfg is its phase and its call;    *)
(* what it negotiates is left out, and so is Stop's answer to a wait that    *)
(* fails.  Attach finds a slot of the recovery hub, since an instance has    *)
(* left before it attaches again.                                            *)
EXTENDS Integers, Sequences

CONSTANTS
  Services,     \* the services the instance is configured for
  Instances     \* what it may be: records of primary and required

VARIABLES
  tm,       \* phase, what has been reached, stopping and stopped
  inst,     \* Entry
  reg,      \* the hubs: the services bound, those that failed, recovery
  object,   \* the ITransport: its life, and how often it was synchronised
  runner,   \* the thread inside the phase: what it has yet to do
  syncer    \* the thread inside SyncRecovery: where it is

managed == <<tm, inst, reg, object, runner, syncer>>

Up == {"INITIALIZED", "READY"}

ManagerInit ==
  /\ tm = [phase |-> "IDLE", opened |-> FALSE, initialized |-> FALSE, setup |-> FALSE,
           stopping |-> FALSE, stopped |-> FALSE]
  /\ \E i \in Instances :
       inst = [primary |-> i.primary, required |-> i.required, state |-> "CLOSED",
               call |-> "IDLE", stopRequested |-> FALSE, syncPending |-> FALSE,
               recoveryAttached |-> FALSE, exposed |-> FALSE, setupDone |-> FALSE,
               added |-> {}, failed |-> {}, absent |-> {}]
  /\ reg = [bound |-> {}, failing |-> {}, attached |-> FALSE, synced |-> FALSE,
            monitorReady |-> FALSE]
  /\ object = [life |-> "none", syncs |-> 0]
  /\ runner = [todo |-> <<>>, syncNow |-> FALSE]
  /\ syncer = "idle"

-----------------------------------------------------------------------------
(* Phases                                                                    *)

EndCall == <<"drain", "endcall">>

\* GetDirectMemory (ACCESS) calls the transport, Frames does not; both are
\* the phase ACCESS in the code.
Program == [
  OPEN       |-> <<"call", "open">> \o EndCall \o <<"endphase">>,
  INITIALIZE |-> <<"call", "init">> \o EndCall \o <<"endphase">>,
  SETUP      |-> <<"call", "setup">> \o EndCall \o <<"endphase">>,
  CFG        |-> <<"call">> \o EndCall \o <<"endphase">>,
  ACCESS     |-> <<"call", "expose">> \o EndCall \o <<"endphase">>,
  FRAMES     |-> <<"expose", "endphase">>,
  PROCESS    |-> <<"failures", "call", "retryentry", "check">> \o EndCall \o <<"endphase">>,
  STOP       |-> <<"reqstop", "waitidle", "detach", "unhub", "remove", "stop", "stopped">>]

\* When the device asks for a phase: it opens the transport until that
\* succeeds, then initialises it and starts the timer, and a swap chain
\* exposes the primary and sets everything up (SetupTransport asks for the
\* frames before it makes sure of the initialisation).
Wanted(kind) ==
  CASE kind = "OPEN"       -> ~tm.opened
    [] kind = "INITIALIZE" -> tm.opened /\ ~tm.initialized
    [] kind = "CFG"        -> tm.setup
    [] kind = "FRAMES"     -> tm.opened /\ inst.primary
    [] kind = "ACCESS"     -> tm.initialized /\ inst.primary
    [] OTHER               -> tm.initialized

MayBegin_WhileStopping == ~tm.stopped
MayBegin == ~tm.stopping /\ ~tm.stopped

BeginPhase(kind) ==
  /\ tm.phase = "IDLE" /\ MayBegin /\ Wanted(kind)
  /\ tm' = [tm EXCEPT !.phase = kind]
  /\ runner' = [runner EXCEPT !.todo = Program[kind]]
  /\ UNCHANGED <<inst, reg, object, syncer>>

Stop ==
  /\ ~tm.stopping /\ ~tm.stopped
  /\ tm' = [tm EXCEPT !.stopping = TRUE]
  /\ UNCHANGED <<inst, reg, object, runner, syncer>>

BeginStop ==
  /\ tm.stopping /\ ~tm.stopped /\ tm.phase = "IDLE"
  /\ tm' = [tm EXCEPT !.phase = "STOP"]
  /\ runner' = [runner EXCEPT !.todo = Program["STOP"]]
  /\ UNCHANGED <<inst, reg, object, syncer>>

At(op) == runner.todo # <<>> /\ Head(runner.todo) = op
Then(ops) == runner' = [runner EXCEPT !.todo = ops \o Tail(@)]

EndPhase ==
  /\ At("endphase") /\ Then(<<>>)
  /\ tm' = [tm EXCEPT !.phase = "IDLE",
       !.opened = @ \/ (tm.phase = "OPEN" /\ (inst.required => inst.state = "OPEN")),
       !.initialized = @ \/ (tm.phase = "INITIALIZE" /\ (inst.required => inst.state \in Up)),
       !.setup = @ \/ tm.phase = "SETUP"]
  /\ UNCHANGED <<inst, reg, object, syncer>>

-----------------------------------------------------------------------------
(* Calls: one thread at a time is inside the transport.                      *)

\* Process does not wait for another call, it leaves the instance out.
BeginCall ==
  /\ At("call")
  /\ \/ inst.call = "IDLE" /\ Then(<<>>) /\ inst' = [inst EXCEPT !.call = tm.phase]
     \/ /\ inst.call # "IDLE" /\ tm.phase = "PROCESS"
        /\ runner' = [runner EXCEPT !.todo = <<"endphase">>]
        /\ UNCHANGED inst
  /\ UNCHANGED <<tm, reg, object, syncer>>

MayDrain == ~inst.stopRequested /\ object.life # "none" /\ inst.state \in Up

DrainRecovery ==
  /\ At("drain")
  /\ inst' = [inst EXCEPT !.syncPending = FALSE]
  /\ Then(IF MayDrain /\ inst.syncPending THEN <<"sync", "drain">> ELSE <<>>)
  /\ UNCHANGED <<tm, reg, object, syncer>>

\* The calls are counted up to two: one is right.
Synced == object' = [object EXCEPT !.syncs = IF @ = 2 THEN 2 ELSE @ + 1]

CallSync ==
  /\ At("sync") /\ Then(<<>>) /\ Synced
  /\ UNCHANGED <<tm, inst, reg, syncer>>

EndCallOp ==
  /\ At("endcall")
  /\ IF inst.syncPending THEN Then(EndCall) /\ UNCHANGED inst
     ELSE Then(<<>>) /\ inst' = [inst EXCEPT !.call = "IDLE"]
  /\ UNCHANGED <<tm, reg, object, syncer>>

-----------------------------------------------------------------------------
(* Open, initialise, set up                                                  *)

OpenEntry ==
  /\ At("open")
  /\ IF inst.state \in {"OPEN"} \cup Up THEN Then(<<>>) /\ UNCHANGED <<inst, object>>
     ELSE \E s \in {"OPEN", "RETRY", "FAILED"} :
            /\ inst' = [inst EXCEPT !.state = s]
            /\ \/ object' = [object EXCEPT !.life = "live"]
               \/ s = "FAILED" /\ object.life = "none" /\ UNCHANGED object
            /\ Then(IF s = "OPEN" /\ tm.phase = "PROCESS" THEN <<"init">> ELSE <<>>)
  /\ UNCHANGED <<tm, reg, syncer>>

\* A required instance that fails before it is up stays so; the retry of an
\* instance is repeated.
FailedAs == IF tm.phase = "PROCESS" \/ ~inst.required THEN "RETRY" ELSE "FAILED"

InitializeEntry ==
  /\ At("init")
  /\ \/ inst.state # "OPEN" /\ Then(<<>>) /\ UNCHANGED inst
     \/ inst.state = "OPEN" /\ Then(<<"attach", "visible", "claim">>) /\ UNCHANGED inst
     \/ /\ inst.state = "OPEN" /\ Then(<<>>)
        /\ inst' = [inst EXCEPT !.state = FailedAs]
  /\ UNCHANGED <<tm, reg, object, syncer>>

Attach ==
  /\ At("attach")
  /\ reg' = [reg EXCEPT !.attached = TRUE, !.synced = IF reg.attached THEN @ ELSE reg.monitorReady]
  /\ runner' = [todo |-> Tail(runner.todo), syncNow |-> ~reg.attached /\ reg.monitorReady]
  /\ UNCHANGED <<tm, inst, object, syncer>>

Visible ==
  /\ At("visible") /\ Then(<<>>)
  /\ \E capless \in BOOLEAN :
       /\ capless => "frame" \in Services /\ ~inst.required
       /\ inst' = [inst EXCEPT !.recoveryAttached = TRUE, !.syncPending = runner.syncNow,
                     !.state = "INITIALIZED",
                     !.absent = IF capless THEN {"frame"} ELSE {}]
  /\ UNCHANGED <<tm, reg, object, syncer>>

\* ClaimSync gives the synchronisation of an instance to one caller.
CanClaim == reg.monitorReady /\ reg.attached /\ ~reg.synced

Claim_Nothing ==
  /\ At("claim") /\ Then(IF tm.phase = "PROCESS" /\ tm.setup THEN <<"setup">> ELSE <<>>)
  /\ UNCHANGED <<tm, inst, reg, object, syncer>>
(* The monitor may have arrived between Attach and Visible.                  *)
Claim ==
  /\ At("claim")
  /\ LET next == IF tm.phase = "PROCESS" /\ tm.setup THEN <<"setup">> ELSE <<>>
     IN IF CanClaim THEN reg' = [reg EXCEPT !.synced = TRUE] /\ Then(<<"mark">> \o next)
        ELSE UNCHANGED reg /\ Then(next)
  /\ UNCHANGED <<tm, inst, object, syncer>>

MarkPending ==
  /\ At("mark") /\ Then(<<>>)
  /\ inst' = [inst EXCEPT !.syncPending = @ \/ inst.recoveryAttached]
  /\ UNCHANGED <<tm, reg, object, syncer>>

SetupEntry ==
  /\ At("setup")
  /\ \/ inst.state \notin Up /\ Then(<<>>) /\ UNCHANGED inst
     \/ inst.state \in Up /\ Then(<<"add">>) /\ inst' = [inst EXCEPT !.setupDone = TRUE]
     \/ /\ inst.state \in Up /\ ~inst.setupDone /\ Then(<<>>)
        /\ inst' = [inst EXCEPT !.state = FailedAs]
  /\ UNCHANGED <<tm, reg, object, syncer>>

(* Each service is bound, put off or found absent; a required instance is    *)
(* not ready before it has all of them.                                      *)
AddServices ==
  /\ At("add") /\ Then(<<>>)
  /\ \E result \in [Services \ (inst.added \cup inst.failed \cup inst.absent)
                      -> {"added", "retry", "absent"}] :
       LET got(r) == {s \in DOMAIN result : result[s] = r}
           added  == inst.added \cup got("added")
       IN /\ "frame" \in got("absent") => ~inst.primary
          /\ reg' = [reg EXCEPT !.bound = @ \cup got("added")]
          /\ inst' = [inst EXCEPT !.added = added, !.absent = @ \cup got("absent"),
                        !.state = IF inst.required => added = Services THEN "READY"
                                  ELSE "INITIALIZED"]
  /\ UNCHANGED <<tm, object, syncer>>

(* Frames and GetDirectMemory hand the primary's interfaces out.             *)
Expose ==
  /\ At("expose") /\ Then(<<>>)
  /\ inst' = [inst EXCEPT !.exposed = TRUE]
  /\ UNCHANGED <<tm, reg, object, syncer>>

-----------------------------------------------------------------------------
(* Failures and restarts                                                     *)

DetachRecovery ==
  /\ At("detach") /\ Then(<<>>)
  /\ inst' = [inst EXCEPT !.recoveryAttached = FALSE, !.syncPending = FALSE]
  /\ UNCHANGED <<tm, reg, object, syncer>>

\* CRecoveryHub::Remove; when nothing was attached there is nothing to remove.
RemoveRecovery ==
  /\ At("unhub") /\ Then(<<>>)
  /\ reg' = [reg EXCEPT !.attached = FALSE, !.synced = FALSE]
  /\ UNCHANGED <<tm, inst, object, syncer>>

RemoveServices ==
  /\ At("remove") /\ Then(<<>>)
  /\ inst' = [inst EXCEPT !.added = {}]
  /\ reg' = [reg EXCEPT !.bound = @ \ inst.added, !.failing = @ \ inst.added]
  /\ UNCHANGED <<tm, object, syncer>>

ScheduleRetry ==
  /\ At("retry") /\ Then(<<>>) /\ inst' = [inst EXCEPT !.state = "RETRY"]
  /\ UNCHANGED <<tm, reg, object, syncer>>

Fail ==
  /\ At("failed") /\ Then(<<>>) /\ inst' = [inst EXCEPT !.state = "FAILED"]
  /\ UNCHANGED <<tm, reg, object, syncer>>

Leave == <<"detach", "unhub", "remove">>

(* HandleServiceFailures, which takes no call of the entry.  It marks the    *)
(* entry under its lock and takes the service out of its hub after that.     *)
HandleServiceFailures ==
  /\ At("failures")
  /\ IF reg.failing = {} THEN Then(<<>>) /\ UNCHANGED <<inst, reg>>
     ELSE \E s \in reg.failing :
       IF s = "frame"
         THEN /\ Then(Leave \o <<IF inst.exposed THEN "failed" ELSE "retry", "failures">>)
              /\ reg' = [reg EXCEPT !.failing = @ \ {s}]
              /\ UNCHANGED inst
         ELSE /\ Then(IF inst.exposed THEN <<"drop", "failures">>
                      ELSE <<"drop", "remove", "retry", "failures">>)
              /\ reg' = [reg EXCEPT !.failing = @ \ {s}]
              /\ inst' = [inst EXCEPT !.added = @ \ {s}, !.failed = @ \cup {s}]
  /\ UNCHANGED <<tm, object, syncer>>

DropFailed ==
  /\ At("drop") /\ Then(<<>>)
  /\ reg' = [reg EXCEPT !.bound = @ \ inst.failed, !.failing = @ \ inst.failed]
  /\ UNCHANGED <<tm, inst, object, syncer>>

RestartOps == Leave \o <<"stop", "reset", "open">>

\* The delay has passed, or it has not.
RetryEntry ==
  /\ At("retryentry")
  /\ \/ Then(<<>>)
     \/ inst.state = "RETRY" /\ ~(inst.primary /\ inst.exposed) /\ Then(RestartOps)
  /\ UNCHANGED <<tm, inst, reg, object, syncer>>

StopTransport ==
  /\ At("stop") /\ Then(<<>>)
  /\ object' = [object EXCEPT !.life = IF @ = "none" THEN @ ELSE "stopped"]
  /\ UNCHANGED <<tm, inst, reg, syncer>>

Reset ==
  /\ At("reset") /\ Then(<<>>)
  /\ object' = [life |-> "none", syncs |-> 0]
  /\ inst' = [inst EXCEPT !.setupDone = FALSE, !.failed = {}, !.absent = {}]
  /\ UNCHANGED <<tm, reg, syncer>>

(* The part of Process that follows RetryEntry.                              *)
Check ==
  /\ At("check")
  /\ Then(IF object.life = "none" \/ inst.state \notin Up THEN <<>>
          ELSE (IF tm.setup /\ ~inst.setupDone THEN <<"drain", "latesetup">>
                ELSE IF tm.setup THEN <<"add">> ELSE <<>>)
               \o <<"drain", "process">>)
  /\ UNCHANGED <<tm, inst, reg, object, syncer>>

LateSetup ==
  /\ At("latesetup")
  /\ \/ Then(<<"add">>) /\ inst' = [inst EXCEPT !.setupDone = TRUE]
     \/ /\ runner' = [runner EXCEPT !.todo = Leave \o <<"failed">> \o EndCall \o <<"endphase">>]
        /\ UNCHANGED inst
  /\ UNCHANGED <<tm, reg, object, syncer>>

Process ==
  /\ At("process")
  /\ \E result \in {"OK", "RETRY", "FAILURE"} :
       Then(<<"drain">> \o
         CASE result = "OK" -> <<>>
           [] result = "RETRY" /\ ~(inst.primary /\ inst.exposed) -> Leave \o <<"retry">>
           [] OTHER -> Leave \o <<"failed">>)
  /\ UNCHANGED <<tm, inst, reg, object, syncer>>

(* A hub reports that a service failed.                                      *)
ServiceFails(s) ==
  /\ s \in reg.bound \ reg.failing
  /\ reg' = [reg EXCEPT !.failing = @ \cup {s}]
  /\ UNCHANGED <<tm, inst, object, runner, syncer>>

-----------------------------------------------------------------------------
(* Stop, inside its phase                                                    *)

RequestStop ==
  /\ At("reqstop") /\ Then(<<>>)
  /\ inst' = [inst EXCEPT !.stopRequested = TRUE, !.syncPending = FALSE]
  /\ UNCHANGED <<tm, reg, object, syncer>>

WaitIdle ==
  /\ At("waitidle") /\ inst.call = "IDLE" /\ Then(<<>>)
  /\ UNCHANGED <<tm, inst, reg, object, syncer>>

Stopped ==
  /\ At("stopped") /\ Then(<<>>)
  /\ inst' = [inst EXCEPT !.state = "STOPPED"]
  /\ tm' = [tm EXCEPT !.phase = "IDLE", !.initialized = FALSE, !.setup = FALSE,
                      !.stopped = TRUE]
  /\ UNCHANGED <<reg, object, syncer>>

-----------------------------------------------------------------------------
(* SyncRecovery: the monitor has arrived                                     *)

SyncBegin ==
  /\ syncer = "idle"
  /\ syncer' = IF tm.stopping \/ tm.stopped THEN "idle" ELSE "mark"
  /\ UNCHANGED <<tm, inst, reg, object, runner>>

MarkMonitorReady ==
  /\ syncer = "mark" /\ syncer' = "visit"
  /\ reg' = [reg EXCEPT !.monitorReady = TRUE]
  /\ UNCHANGED <<tm, inst, object, runner>>

Busy_Never == FALSE
Busy == inst.call # "IDLE"

Visit ==
  /\ syncer = "visit"
  /\ IF MayDrain /\ inst.recoveryAttached /\ CanClaim
       THEN /\ reg' = [reg EXCEPT !.synced = TRUE]
            /\ IF Busy THEN inst' = [inst EXCEPT !.syncPending = TRUE] /\ syncer' = "idle"
               ELSE inst' = [inst EXCEPT !.call = "RECOVERY"] /\ syncer' = "inside"
       ELSE syncer' = "idle" /\ UNCHANGED <<inst, reg>>
  /\ UNCHANGED <<tm, object, runner>>

SyncInside ==
  /\ syncer = "inside" /\ syncer' = "drain" /\ Synced
  /\ UNCHANGED <<tm, inst, reg, runner>>

SyncDrain ==
  /\ syncer = "drain"
  /\ syncer' = IF MayDrain /\ inst.syncPending THEN "inside" ELSE "end"
  /\ inst' = [inst EXCEPT !.syncPending = FALSE]
  /\ UNCHANGED <<tm, reg, object, runner>>

SyncEnd ==
  /\ syncer = "end"
  /\ IF inst.syncPending THEN syncer' = "drain" /\ UNCHANGED inst
     ELSE syncer' = "idle" /\ inst' = [inst EXCEPT !.call = "IDLE"]
  /\ UNCHANGED <<tm, reg, object, runner>>

-----------------------------------------------------------------------------
Runner ==
  \/ EndPhase \/ BeginCall \/ DrainRecovery \/ CallSync \/ EndCallOp
  \/ OpenEntry \/ InitializeEntry \/ Attach \/ Visible \/ Claim \/ MarkPending
  \/ SetupEntry \/ AddServices \/ Expose \/ DetachRecovery \/ RemoveRecovery
  \/ RemoveServices \/ ScheduleRetry \/ Fail \/ HandleServiceFailures \/ DropFailed
  \/ RetryEntry \/ StopTransport \/ Reset \/ Check \/ LateSetup \/ Process
  \/ RequestStop \/ WaitIdle \/ Stopped

Syncer == MarkMonitorReady \/ Visit \/ SyncInside \/ SyncDrain \/ SyncEnd

ManagerNext ==
  \/ \E kind \in DOMAIN Program \ {"STOP"} : BeginPhase(kind)
  \/ Stop \/ BeginStop \/ Runner \/ SyncBegin \/ Syncer
  \/ \E s \in Services : ServiceFails(s)

ManagerSpec == ManagerInit /\ [][ManagerNext]_managed

(* A thread that is inside goes on, and calls of a transport return.         *)
ManagerFairness == WF_managed(Runner) /\ WF_managed(Syncer) /\ WF_managed(BeginStop)

-----------------------------------------------------------------------------
(* Properties                                                                *)

(* An instance that is attached when the monitor arrives, or attaches        *)
(* later, is synchronised, and only once, however its initialisation, its    *)
(* calls and its restarts race with SyncRecovery.                            *)
SyncReaches ==
  /\ object.syncs <= 1
  /\ (/\ reg.monitorReady /\ syncer # "visit"
      /\ inst.state \in Up /\ inst.recoveryAttached
      /\ inst.call = "IDLE" /\ ~inst.stopRequested)
     => object.syncs = 1

InTransport == {"sync", "open", "init", "setup", "latesetup", "process", "stop"}

(* A transport is called by one thread at a time, and by none once it has    *)
(* been stopped.                                                             *)
OneCaller ==
  /\ syncer = "inside" =>
       object.life = "live" /\ \A op \in InTransport : ~At(op)
  /\ \A op \in InTransport \ {"open", "stop"} :
       At(op) => object.life = "live" \/ inst.state \notin {"OPEN"} \cup Up

(* No hub keeps a sink, a source or a route of a transport that is stopped   *)
(* or gone.                                                                  *)
NothingBoundToStopped ==
  object.life # "live" => reg.bound = {} /\ ~reg.attached

(* Only a live transport is in use, by one thread at a time (BeginCall,      *)
(* SyncRecovery, RetryEntry, Stop).                                          *)
UsedWhileLive == OneCaller /\ NothingBoundToStopped

(* Stop returns, whatever the timer, the swap chain and the monitor do.      *)
StopReturns == tm.stopping ~> tm.stopped
=============================================================================

----------------------------- MODULE RecoveryHub -----------------------------
(***************************************************************************)
(* idd/LGIdd/transport/CRecoveryHub: the coordinator that turns the        *)
(* recovery requests of every transport instance into one operation at a   *)
(* time for the display side (CDeviceContext and the Helper process), and  *)
(* hands the result back to every request that waits for it.               *)
(*                                                                         *)
(* Each public method holds m_lock from end to end, so each is one action. *)
(* The part of CTransportManager that drives the hub is included: its      *)
(* Process thread submits, dispatches OUTSIDE the lock, ticks and drains;  *)
(* completions arrive from the pipe thread at any time, for any operation  *)
(* that was ever dispatched, more than once, and even for one of an        *)
(* earlier hub (the Helper outlives a driver restart).                     *)
(*                                                                         *)
(* Abstracted: the millisecond clock becomes "due" (the deadline of the    *)
(* operation in flight has passed); a request's (session, serial) pair,    *)
(* which the hub only compares, becomes one tag; Win32 error numbers       *)
(* become names.                                                           *)
(***************************************************************************)
EXTENDS Integers, FiniteSets

CONSTANTS
  Backends,       \* transport instances (BackendId, never 0)
  Epochs,         \* incarnations of an instance (never 0)
  Clients,        \* client/generation part of a SourceKey
  Tags,           \* (session, serial) correlations a client may use
  MAX_EPOCHS,     \* size of m_epochs   (8 in the code)
  MAX_REQUESTS,   \* size of m_requests (16 in the code)
  SERIAL_MOD,     \* 2^32 in the code: serials wrap and skip zero
  MaxOperation,   \* bound on the operations started by one hub
  MaxSequence,    \* bound on the requests admitted by one hub
  MaxSession      \* bound on the driver restarts

ASSUME HubConstants ==
  /\ 0 \notin Backends /\ 0 \notin Epochs
  /\ MAX_EPOCHS \in Nat \ {0} /\ MAX_REQUESTS \in Nat \ {0}
  /\ SERIAL_MOD \in Nat /\ SERIAL_MOD >= 4 /\ SERIAL_MOD % 2 = 0
  /\ MaxOperation \in Nat /\ MaxSequence \in Nat /\ MaxSession \in Nat

VARIABLES
  m_epochs,         \* attached instances: slot -> Epoch
  m_requests,       \* slot -> Request
  m_operation,      \* the operation in flight, or the last one (LATCHED)
  m_known,          \* last state the display side reported
  m_knownValid,
  m_monitorReady,
  m_session,        \* identity of this hub
  m_nextOperation, m_nextRoute, m_nextSequence, m_nextSerial,
  due,              \* the clock has reached m_operation.action.deadline
  dispatching,      \* action OnRecoveryRequest is handing to the display side
  sent,             \* actions the display side accepted, of every session
  reported          \* those it has reported as reached (ACTIVE or NORMAL)

hubVars == <<m_epochs, m_requests, m_operation, m_known, m_knownValid,
             m_monitorReady, m_session, m_nextOperation, m_nextRoute,
             m_nextSequence, m_nextSerial>>
vars == <<hubVars, due, dispatching, sent, reported>>

counters == <<m_nextOperation, m_nextRoute, m_nextSequence, m_nextSerial>>

-----------------------------------------------------------------------------
EpochSlots   == 1 .. MAX_EPOCHS
RequestSlots == 1 .. MAX_REQUESTS
Modes        == BOOLEAN                     \* TRUE: recovery ACTIVE
States       == {"FAILED", "ACTIVE", "NORMAL"}
Errors       == {"SUCCESS", "FAILURE", "TIMEOUT", "UNAVAILABLE"}

SourceKeys ==
  [backend : Backends, epoch : Epochs, client : Clients]
NoSource == [backend |-> 0, epoch |-> 0, client |-> 0]

Actions == [route : Nat, session : Nat, serial : 0 .. SERIAL_MOD - 1,
            active : Modes]
NoAction == [route |-> 0, session |-> 0, serial |-> 0, active |-> FALSE]

NoEpoch == [backend |-> 0, epoch |-> 0, synced |-> FALSE]
NoRequest ==
  [source |-> NoSource, tag |-> 0, operation |-> 0, sequence |-> 0,
   error |-> "SUCCESS", active |-> FALSE, state |-> "FREE",
   result |-> "FAILED"]
NoOperation == [phase |-> "NONE", action |-> NoAction, id |-> 0]

SameEpoch(source, b, e) == source.backend = b /\ source.epoch = e

SameRequest(request, source, tag, active) ==
  /\ request.source = source
  /\ request.tag = tag
  /\ request.active = active

SuccessMatches(state, active) ==
  \/ state = "ACTIVE" /\ active
  \/ state = "NORMAL" /\ ~active

EpochAttached(source) ==
  \E i \in EpochSlots : SameEpoch(source, m_epochs[i].backend,
                                          m_epochs[i].epoch)

\* The lowest slot that satisfies P, or 0 where the code returns the size.
FirstSlot(S) ==
  IF S = {} THEN 0 ELSE CHOOSE i \in S : \A j \in S : i <= j

FindSource_ReadyOnly(source) ==          \* mutant: misses waiting requests
  FirstSlot({i \in RequestSlots : /\ m_requests[i].state = "READY"
                                  /\ m_requests[i].source = source})

FindSource(source) ==
  FirstSlot({i \in RequestSlots : /\ m_requests[i].state # "FREE"
                                  /\ m_requests[i].source = source})

FindFree == FirstSlot({i \in RequestSlots : m_requests[i].state = "FREE"})

ActionMatches_AnySession(action) ==      \* mutant: session not compared
  /\ m_operation.phase # "NONE"
  /\ action.route   = m_operation.action.route
  /\ action.serial  = m_operation.action.serial
  /\ action.active  = m_operation.action.active

ActionMatches(action) ==
  /\ m_operation.phase # "NONE"
  /\ action.route   = m_operation.action.route
  /\ action.session = m_operation.action.session
  /\ action.serial  = m_operation.action.serial
  /\ action.active  = m_operation.action.active

NextSerial_Zero == m_nextSerial          \* mutant: zero is not skipped

\* NextSerial: steps of two, modulo the width, never zero.
NextSerial == IF m_nextSerial = 0 THEN 2 ELSE m_nextSerial

Waiting_ByTag(source, tag, active, operation) ==  \* mutant: client's order
  [source |-> source, tag |-> tag, operation |-> operation,
   sequence |-> tag, error |-> "SUCCESS", active |-> active,
   state |-> "WAITING", result |-> "FAILED"]

Waiting(source, tag, active, operation) ==
  [source |-> source, tag |-> tag, operation |-> operation,
   sequence |-> m_nextSequence, error |-> "SUCCESS", active |-> active,
   state |-> "WAITING", result |-> "FAILED"]

SetReady(request, state, error) ==
  [source |-> request.source, tag |-> request.tag,
   operation |-> request.operation, sequence |-> request.sequence,
   error |-> error, active |-> request.active, state |-> "READY",
   result |-> state]

FinishWaiters_One(state, error) ==       \* mutant: stops at the first waiter
  LET i == FirstSlot({j \in RequestSlots : m_requests[j].state = "WAITING"})
  IN  m_requests' = IF i = 0 THEN m_requests
                    ELSE [m_requests EXCEPT ![i] = SetReady(@, state, error)]

\* FinishWaitersLocked: every waiter of the current operation gets the result.
FinishWaiters(state, error) ==
  m_requests' = [i \in RequestSlots |->
    IF /\ m_requests[i].state = "WAITING"
       /\ m_requests[i].operation = m_operation.id
      THEN SetReady(m_requests[i], state, error)
      ELSE m_requests[i]]

-----------------------------------------------------------------------------
HubInit ==
  /\ m_epochs = [i \in EpochSlots |-> NoEpoch]
  /\ m_requests = [i \in RequestSlots |-> NoRequest]
  /\ m_operation = NoOperation
  /\ m_known = "FAILED"
  /\ m_knownValid = FALSE
  /\ m_monitorReady = FALSE
  /\ m_nextOperation = 1
  /\ m_nextRoute = 1
  /\ m_nextSequence = 1
  /\ m_nextSerial = 2

Init ==
  /\ HubInit
  /\ m_session = 1
  /\ due = FALSE
  /\ dispatching = NoAction
  /\ sent = {}
  /\ reported = {}

-----------------------------------------------------------------------------
(* Instance lifecycle, called by CTransportManager.                        *)

Attach(b, e) ==
  /\ ~ \E i \in EpochSlots : m_epochs[i].backend = b /\ m_epochs[i].epoch = e
  /\ LET i == FirstSlot({j \in EpochSlots : m_epochs[j].backend = 0})
     IN  /\ i # 0
         /\ m_epochs' = [m_epochs EXCEPT ![i] =
              [backend |-> b, epoch |-> e, synced |-> m_monitorReady]]
  /\ UNCHANGED <<m_requests, m_operation, m_known, m_knownValid,
                 m_monitorReady, m_session, counters, due, dispatching, sent,
                 reported>>

Remove(b, e) ==
  /\ \E i \in EpochSlots : m_epochs[i].backend = b /\ m_epochs[i].epoch = e
  /\ m_epochs' = [i \in EpochSlots |->
       IF m_epochs[i].backend = b /\ m_epochs[i].epoch = e
         THEN NoEpoch ELSE m_epochs[i]]
  /\ m_requests' = [i \in RequestSlots |->
       IF m_requests[i].state # "FREE" /\ SameEpoch(m_requests[i].source, b, e)
         THEN NoRequest ELSE m_requests[i]]
  /\ UNCHANGED <<m_operation, m_known, m_knownValid, m_monitorReady,
                 m_session, counters, due, dispatching, sent, reported>>

-----------------------------------------------------------------------------
(* Submit, as called by CSourceEvents::OnRecoveryRequest on the Process    *)
(* thread.  An unattached or malformed request and an exact repetition of  *)
(* the pending one change nothing.  Any other request first drops what     *)
(* its source had pending, and only then can be refused.                   *)

\* The request table after the source's old request was dropped, and the
\* slot a new request of this source may take (0: none).
Cleared(source) ==
  IF FindSource(source) # 0
    THEN [m_requests EXCEPT ![FindSource(source)] = NoRequest]
    ELSE m_requests
SlotFor(source) ==
  IF FindSource(source) # 0 THEN FindSource(source) ELSE FindFree

Admissible(source, tag, active) ==
  /\ EpochAttached(source)
  /\ ~ \E i \in RequestSlots :
         /\ i = FindSource(source)
         /\ SameRequest(m_requests[i], source, tag, active)

KnownMatches(active) == m_knownValid /\ SuccessMatches(m_known, active)

\* ERROR_BUSY, ERROR_NOT_ENOUGH_QUOTA, or the answer is already known.
SubmitAnswered(source, tag, active) ==
  /\ Admissible(source, tag, active)
  /\ \/ m_operation.phase = "IN_FLIGHT" /\ active # m_operation.action.active
     \/ m_operation.phase # "IN_FLIGHT" /\ KnownMatches(active)
     \/ SlotFor(source) = 0
  /\ m_requests' = Cleared(source)
  /\ UNCHANGED <<m_epochs, m_operation, m_known, m_knownValid,
                 m_monitorReady, m_session, counters, due, dispatching>>

SubmitJoins(source, tag, active) ==
  /\ Admissible(source, tag, active)
  /\ m_operation.phase = "IN_FLIGHT"
  /\ active = m_operation.action.active
  /\ SlotFor(source) # 0
  /\ m_requests' = [Cleared(source) EXCEPT ![SlotFor(source)] =
       Waiting(source, tag, active, m_operation.id)]
  /\ m_nextSequence' = m_nextSequence + 1
  /\ UNCHANGED <<m_epochs, m_operation, m_known, m_knownValid,
                 m_monitorReady, m_session, m_nextOperation, m_nextRoute,
                 m_nextSerial, due, dispatching>>

SubmitStarts(source, tag, active) ==
  /\ Admissible(source, tag, active)
  /\ m_operation.phase # "IN_FLIGHT"
  /\ ~ KnownMatches(active)
  /\ SlotFor(source) # 0
  /\ LET action == [route |-> m_nextRoute, session |-> m_session,
                    serial |-> NextSerial, active |-> active]
     IN  /\ m_operation' = [phase |-> "IN_FLIGHT", action |-> action,
                            id |-> m_nextOperation]
         /\ dispatching' = action
  /\ m_requests' = [Cleared(source) EXCEPT ![SlotFor(source)] =
       Waiting(source, tag, active, m_nextOperation)]
  /\ m_nextOperation' = m_nextOperation + 1
  /\ m_nextRoute' = m_nextRoute + 1
  /\ m_nextSequence' = m_nextSequence + 1
  /\ m_nextSerial' = (NextSerial + 2) % SERIAL_MOD
  /\ due' = FALSE
  /\ UNCHANGED <<m_epochs, m_known, m_knownValid, m_monitorReady, m_session>>

Submit(source, tag, active) ==
  /\ dispatching = NoAction
  /\ m_nextOperation <= MaxOperation /\ m_nextSequence <= MaxSequence
  /\ \/ SubmitAnswered(source, tag, active)
     \/ SubmitJoins(source, tag, active)
     \/ SubmitStarts(source, tag, active)
  /\ UNCHANGED <<sent, reported>>

-----------------------------------------------------------------------------
(* The second half of OnRecoveryRequest: OnRecoveryAction runs without the *)
(* hub's lock; when it refuses, DispatchFailed takes the lock again.       *)

DispatchSent ==
  /\ dispatching # NoAction
  /\ sent' = sent \cup {dispatching}
  /\ dispatching' = NoAction
  /\ UNCHANGED <<hubVars, due, reported>>

DispatchFailed_Forgets ==                \* mutant: the waiters stay behind
  /\ dispatching # NoAction
  /\ dispatching' = NoAction
  /\ m_operation' = NoOperation
  /\ UNCHANGED <<m_epochs, m_requests, m_known, m_knownValid, m_monitorReady,
                 m_session, counters, due, sent, reported>>

DispatchFailed ==
  /\ dispatching # NoAction
  /\ dispatching' = NoAction
  /\ IF ActionMatches(dispatching) /\ m_operation.phase = "IN_FLIGHT"
       THEN /\ FinishWaiters("FAILED", "UNAVAILABLE")
            /\ m_operation' = NoOperation
       ELSE UNCHANGED <<m_requests, m_operation>>
  /\ UNCHANGED <<m_epochs, m_known, m_knownValid, m_monitorReady, m_session,
                 counters, due, sent, reported>>

\* Complete, as called by CTransportManager::RecoveryStatus.
Complete(action, state) ==
  /\ action \in sent
  /\ reported' = IF SuccessMatches(state, action.active)
                   THEN reported \cup {action} ELSE reported
  /\ IF ~ ActionMatches(action)
       THEN UNCHANGED <<m_known, m_knownValid, m_requests, m_operation>>
       ELSE LET ok == SuccessMatches(state, m_operation.action.active)
            IN  /\ m_knownValid' = ok
                /\ m_known' = IF ok THEN state ELSE m_known
                /\ IF m_operation.phase = "LATCHED"
                     THEN UNCHANGED <<m_requests, m_operation>>
                     ELSE /\ FinishWaiters(IF ok THEN state ELSE "FAILED",
                                           IF ok THEN "SUCCESS" ELSE "FAILURE")
                          /\ m_operation' = [m_operation EXCEPT
                                               !.phase = "LATCHED"]
  /\ UNCHANGED <<m_epochs, m_monitorReady, m_session, counters, due,
                 dispatching, sent>>

\* The clock reaches the deadline (now + HELPER_TIMEOUT_MS).
Expire ==
  /\ m_operation.phase = "IN_FLIGHT" /\ ~due
  /\ due' = TRUE
  /\ UNCHANGED <<hubVars, dispatching, sent, reported>>

Tick_KeepsKnown ==                       \* mutant: m_knownValid survives
  /\ dispatching = NoAction
  /\ m_operation.phase = "IN_FLIGHT" /\ due
  /\ FinishWaiters("FAILED", "TIMEOUT")
  /\ m_operation' = [m_operation EXCEPT !.phase = "LATCHED"]
  /\ UNCHANGED <<m_epochs, m_known, m_knownValid, m_monitorReady, m_session,
                 counters, due, dispatching, sent, reported>>

Tick ==
  /\ dispatching = NoAction
  /\ m_operation.phase = "IN_FLIGHT" /\ due
  /\ FinishWaiters("FAILED", "TIMEOUT")
  /\ m_knownValid' = FALSE
  /\ m_operation' = [m_operation EXCEPT !.phase = "LATCHED"]
  /\ UNCHANGED <<m_epochs, m_known, m_monitorReady, m_session, counters, due,
                 dispatching, sent, reported>>

-----------------------------------------------------------------------------
\* The oldest ready request of an instance, or 0.
HasDelivery(b, e) ==
  {i \in RequestSlots : /\ m_requests[i].state = "READY"
                        /\ SameEpoch(m_requests[i].source, b, e)}
Selected(b, e) ==
  CHOOSE i \in HasDelivery(b, e) : \A j \in HasDelivery(b, e) :
    m_requests[i].sequence <= m_requests[j].sequence

TakeDelivery(b, e) ==
  /\ HasDelivery(b, e) # {}
  /\ m_requests' = [m_requests EXCEPT ![Selected(b, e)] = NoRequest]
  /\ UNCHANGED <<m_epochs, m_operation, m_known, m_knownValid,
                 m_monitorReady, m_session, counters, due, dispatching, sent,
                 reported>>

MarkMonitorReady ==
  /\ ~m_monitorReady
  /\ m_monitorReady' = TRUE
  /\ UNCHANGED <<m_epochs, m_requests, m_operation, m_known, m_knownValid,
                 m_session, counters, due, dispatching, sent, reported>>

ClaimSync(b, e) ==
  /\ m_monitorReady
  /\ LET i == FirstSlot({j \in EpochSlots :
                /\ m_epochs[j].backend = b /\ m_epochs[j].epoch = e
                /\ ~ m_epochs[j].synced})
     IN  /\ i # 0
         /\ m_epochs' = [m_epochs EXCEPT ![i].synced = TRUE]
  /\ UNCHANGED <<m_requests, m_operation, m_known, m_knownValid,
                 m_monitorReady, m_session, counters, due, dispatching, sent,
                 reported>>

\* The driver process restarts: a new hub with a new session.  The display
\* side keeps what it was sent and may still answer it.
Restart ==
  /\ m_session < MaxSession
  /\ m_session' = m_session + 1
  /\ m_epochs' = [i \in EpochSlots |-> NoEpoch]
  /\ m_requests' = [i \in RequestSlots |-> NoRequest]
  /\ m_operation' = NoOperation
  /\ m_known' = "FAILED" /\ m_knownValid' = FALSE /\ m_monitorReady' = FALSE
  /\ m_nextOperation' = 1 /\ m_nextRoute' = 1
  /\ m_nextSequence' = 1 /\ m_nextSerial' = 2
  /\ due' = FALSE /\ dispatching' = NoAction
  /\ UNCHANGED <<sent, reported>>

Next ==
  \/ \E b \in Backends, e \in Epochs :
       Attach(b, e) \/ Remove(b, e) \/ TakeDelivery(b, e) \/ ClaimSync(b, e)
  \/ \E source \in SourceKeys, tag \in Tags, active \in Modes :
       Submit(source, tag, active)
  \/ DispatchSent \/ DispatchFailed
  \/ \E action \in sent, state \in States : Complete(action, state)
  \/ Expire \/ Tick \/ MarkMonitorReady \/ Restart

Spec == Init /\ [][Next]_vars

\* The 10 ms transport timer keeps calling Process, which ticks the hub and
\* drains every instance; OnRecoveryAction returns; time passes.
Fairness ==
  /\ WF_vars(DispatchSent \/ DispatchFailed)
  /\ WF_vars(Expire)
  /\ WF_vars(Tick)
  /\ \A b \in Backends, e \in Epochs : WF_vars(TakeDelivery(b, e))
FairSpec == Spec /\ Fairness

-----------------------------------------------------------------------------
(* Properties.                                                             *)

Requests ==
  [source : SourceKeys \cup {NoSource}, tag : Tags \cup {0}, operation : Nat,
   sequence : Nat, error : Errors, active : Modes,
   state : {"FREE", "WAITING", "READY"}, result : States]

\* Every variable has its declared type; serials stay in their width, and an
\* operation never carries the serial zero, which the display side rejects.
TypeOK ==
  /\ m_epochs \in [EpochSlots -> [backend : Backends \cup {0},
                                 epoch : Epochs \cup {0}, synced : BOOLEAN]]
  /\ m_requests \in [RequestSlots -> Requests]
  /\ m_operation \in [phase : {"NONE", "IN_FLIGHT", "LATCHED"},
                      action : Actions, id : Nat]
  /\ m_operation.phase # "NONE" => m_operation.action.serial # 0
  /\ m_known \in States /\ m_knownValid \in BOOLEAN
  /\ m_monitorReady \in BOOLEAN /\ m_session \in Nat
  /\ m_nextOperation \in Nat \ {0} /\ m_nextRoute \in Nat \ {0}
  /\ m_nextSequence \in Nat \ {0} /\ m_nextSerial \in 0 .. SERIAL_MOD - 1
  /\ due \in BOOLEAN /\ dispatching \in Actions
  /\ sent \subseteq Actions
  /\ reported \subseteq Actions

\* No orphans: whatever waits in the table waits for the operation that is in
\* flight, and for the same mode.  A request left WAITING for an operation
\* that ended (dispatch failure, time-out, completion) would never be answered,
\* because FinishWaitersLocked matches the operation id.
WaitersHaveOperation ==
  \A i \in RequestSlots : m_requests[i].state = "WAITING" =>
    /\ m_operation.phase = "IN_FLIGHT"
    /\ m_requests[i].operation = m_operation.id
    /\ m_requests[i].active = m_operation.action.active

\* A source has at most one request in the table, so a client is never
\* answered for a request it has already replaced; and only sources of
\* attached instances have one, so Remove leaves no request that nobody drains.
OneRequestPerSource ==
  /\ \A i, j \in RequestSlots :
       (/\ m_requests[i].state # "FREE" /\ m_requests[j].state # "FREE"
        /\ m_requests[i].source = m_requests[j].source) => i = j
  /\ \A i \in RequestSlots :
       m_requests[i].state # "FREE" => EpochAttached(m_requests[i].source)

\* A request is told that its mode was reached only if the display side
\* reported that mode for the very operation the request waited for: a late,
\* repeated or previous-session report never answers a newer operation.
HonestResult ==
  \A i \in RequestSlots :
    (m_requests[i].state = "READY" /\ m_requests[i].result # "FAILED") =>
      /\ SuccessMatches(m_requests[i].result, m_requests[i].active)
      /\ \E r \in reported : /\ r.session = m_session
                             /\ r.route = m_requests[i].operation
                             /\ r.active = m_requests[i].active

\* The state from which Submit answers without an operation is that of the
\* newest operation the display side ever accepted, leaving out the one still
\* in flight: an operation that was sent and then timed out, failed or was
\* replaced makes the cached state unusable.
KnownIsLatest ==
  m_knownValid => \E r \in reported :
    /\ r.session = m_session
    /\ SuccessMatches(m_known, r.active)
    /\ \A a \in sent :
         (a.session = m_session /\ a.route > r.route) =>
           m_operation.phase = "IN_FLIGHT" /\ a = m_operation.action

\* Results leave in the order in which the requests were admitted: every
\* result that is ready is older than everything that still waits, and
\* TakeDelivery takes the oldest of an instance.
DeliveryOrder ==
  \A i, j \in RequestSlots :
    (m_requests[i].state = "READY" /\ m_requests[j].state = "WAITING") =>
      m_requests[i].sequence < m_requests[j].sequence

\* Some slot still holds the request admitted as number q of this session.
Holds(q) == \E i \in RequestSlots : m_requests[i].sequence = q

\* Every admitted request leaves the table in the end (delivered, replaced by
\* its own client or dropped with its instance), even if the display side
\* never answers and whatever it answers late.
RequestsLeave == \A q \in 1 .. MaxSequence : Holds(q) ~> ~Holds(q)

=============================================================================

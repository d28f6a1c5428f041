------------------------- MODULE RecoveryHub_proofs -------------------------
(***************************************************************************)
(* The safety properties of RecoveryHub, for every value of its constants. *)
(* IInv is the inductive invariant: the properties are not inductive by    *)
(* themselves, because who a report belongs to depends on how routes,      *)
(* operation ids, sessions and the action being dispatched are related     *)
(* (OperationBookkeeping), and the order of results on every sequence      *)
(* number in the table having been taken (RequestsWellFormed).             *)
(***************************************************************************)
EXTENDS RecoveryHub, WellFoundedInduction, TLAPS

\* A non-empty set of naturals has a least element.
LEMMA MinExists ==
  ASSUME NEW S, S \subseteq Nat, S # {}
  PROVE  \E x \in S : \A y \in S : x <= y
<1> DEFINE R == OpToRel(<, Nat)
<1>1. IsWellFoundedOn(R, Nat)
  BY NatLessThanWellFounded
<1>2. PICK x \in S : \A y \in S : ~(<<y, x>> \in R)
  <2> HIDE DEF R
  <2> QED BY <1>1, WFMin
<1>3. ASSUME NEW y \in S PROVE x <= y
  <2>1. ~(<<y, x>> \in R)
    BY <1>2
  <2>2. x \in Nat /\ y \in Nat
    OBVIOUS
  <2>3. ~(y < x)
    BY <2>1, <2>2 DEF OpToRel
  <2> QED BY <2>2, <2>3
<1> QED BY <1>3

\* A slot search (the code's for loops over m_epochs and m_requests) returns
\* a matching slot, and 0 (the code's MAX_...) exactly when there is none.
LEMMA FirstSlotIn ==
  ASSUME NEW S, S \subseteq Nat \ {0}
  PROVE  /\ S = {} <=> FirstSlot(S) = 0
         /\ S # {} => FirstSlot(S) \in S
<1>1. CASE S = {}
  BY <1>1 DEF FirstSlot
<1>2. CASE S # {}
  <2>1. \E x \in S : \A y \in S : x <= y
    BY <1>2, MinExists
  <2>2. FirstSlot(S) = CHOOSE i \in S : \A j \in S : i <= j
    BY <1>2 DEF FirstSlot
  <2>3. FirstSlot(S) \in S
    BY <2>1, <2>2
  <2> QED BY <1>2, <2>3
<1> QED BY <1>1, <1>2

-----------------------------------------------------------------------------
\* How the counters, the operation and the actions outside the hub relate.
OperationBookkeeping ==
  /\ m_nextOperation = m_nextRoute
  /\ m_operation.phase # "NONE" =>
       /\ m_operation.id = m_operation.action.route
       /\ m_operation.action.session = m_session
       /\ m_operation.action.route = m_nextRoute - 1
  /\ \A a \in sent : /\ a.session <= m_session
                     /\ a.session = m_session => a.route < m_nextRoute
  /\ dispatching # NoAction => /\ m_operation.phase = "IN_FLIGHT"
                              /\ dispatching = m_operation.action
                              /\ dispatching \notin sent

\* A slot in use belongs to a real source and has a sequence already taken.
RequestsWellFormed ==
  \A i \in RequestSlots : m_requests[i].state # "FREE" =>
    /\ m_requests[i].source \in SourceKeys
    /\ m_requests[i].sequence < m_nextSequence

IInv ==
  /\ TypeOK
  /\ WaitersHaveOperation
  /\ OneRequestPerSource
  /\ OperationBookkeeping
  /\ RequestsWellFormed
  /\ DeliveryOrder
  /\ HonestResult
  /\ KnownIsLatest

-----------------------------------------------------------------------------
(* The helpers of Submit.                                                  *)

\* The cleared slot (Request {}) is a request.
LEMMA NoRequestType == NoRequest \in Requests
BY DEF NoRequest, Requests, NoSource, Modes, States, Errors

\* The default action is an action.
LEMMA NoActionType == NoAction \in Actions
BY HubConstants DEF NoAction, Actions, Modes

\* SetWaitingLocked writes a request.
LEMMA WaitingType ==
  ASSUME TypeOK, NEW source \in SourceKeys, NEW tag \in Tags,
         NEW active \in Modes, NEW operation \in Nat
  PROVE  Waiting(source, tag, active, operation) \in Requests
BY DEF TypeOK, Waiting, Requests, States, Errors

\* FindSourceLocked finds a slot in use by the source, or there is none.
LEMMA FindSourceFact ==
  ASSUME NEW source
  PROVE  /\ FindSource(source) \in RequestSlots \cup {0}
         /\ FindSource(source) = 0 =>
              \A i \in RequestSlots : m_requests[i].state # "FREE" =>
                                        m_requests[i].source # source
         /\ FindSource(source) # 0 =>
              /\ m_requests[FindSource(source)].state # "FREE"
              /\ m_requests[FindSource(source)].source = source
<1> DEFINE S == {i \in RequestSlots : /\ m_requests[i].state # "FREE"
                                      /\ m_requests[i].source = source}
<1>1. S \subseteq Nat \ {0}
  BY HubConstants DEF RequestSlots
<1>2. (S = {} <=> FirstSlot(S) = 0) /\ (S # {} => FirstSlot(S) \in S)
  BY <1>1, FirstSlotIn
<1>3. FindSource(source) = FirstSlot(S)
  BY DEF FindSource
<1> QED BY <1>2, <1>3

\* FindFreeLocked finds a free slot, or none is left.
LEMMA FindFreeFact ==
  /\ FindFree \in RequestSlots \cup {0}
  /\ FindFree # 0 => m_requests[FindFree].state = "FREE"
<1> DEFINE S == {i \in RequestSlots : m_requests[i].state = "FREE"}
<1>1. S \subseteq Nat \ {0}
  BY HubConstants DEF RequestSlots
<1>2. (S = {} <=> FirstSlot(S) = 0) /\ (S # {} => FirstSlot(S) \in S)
  BY <1>1, FirstSlotIn
<1>3. FindFree = FirstSlot(S)
  BY DEF FindFree
<1> QED BY <1>2, <1>3

\* What is left in the table once the source's old request was dropped.
LEMMA ClearedFact ==
  ASSUME TypeOK, OneRequestPerSource, NEW source
  PROVE  /\ SlotFor(source) \in RequestSlots \cup {0}
         /\ Cleared(source) \in [RequestSlots -> Requests]
         /\ \A i \in RequestSlots : Cleared(source)[i].state # "FREE" =>
              /\ Cleared(source)[i] = m_requests[i]
              /\ m_requests[i].source # source
<1> DEFINE k == FindSource(source)
<1>1. m_requests \in [RequestSlots -> Requests]
  BY DEF TypeOK
<1>2. SlotFor(source) \in RequestSlots \cup {0}
  BY FindSourceFact, FindFreeFact DEF SlotFor
<1>3. CASE k = 0
  BY <1>1, <1>2, <1>3, FindSourceFact DEF Cleared
<1>4. CASE k # 0
  <2>1. k \in RequestSlots
    BY <1>4, FindSourceFact
  <2>2. Cleared(source) = [m_requests EXCEPT ![k] = NoRequest]
    BY <1>4 DEF Cleared
  <2>3. Cleared(source) \in [RequestSlots -> Requests]
    BY <1>1, <2>1, <2>2, NoRequestType
  <2>4. ASSUME NEW i \in RequestSlots, Cleared(source)[i].state # "FREE"
        PROVE  Cleared(source)[i] = m_requests[i] /\ m_requests[i].source # source
    <3>1. i # k
      BY <1>1, <2>1, <2>2, <2>4 DEF NoRequest
    <3>2. Cleared(source)[i] = m_requests[i]
      BY <1>1, <2>1, <2>2, <3>1
    <3>3. m_requests[k].state # "FREE" /\ m_requests[k].source = source
      BY <1>4, FindSourceFact
    <3> QED BY <2>1, <2>4, <3>1, <3>2, <3>3 DEF OneRequestPerSource
  <2> QED BY <1>2, <2>3, <2>4
<1> QED BY <1>3, <1>4

-----------------------------------------------------------------------------
(* Preservation, one lemma per kind of change to the request table.        *)

\* The table parts of the invariant.
TableInv ==
  /\ m_requests \in [RequestSlots -> Requests]
  /\ WaitersHaveOperation
  /\ OneRequestPerSource
  /\ RequestsWellFormed
  /\ DeliveryOrder
  /\ HonestResult

\* Dropping requests keeps the table parts.
LEMMA TableDrops ==
  ASSUME IInv,
         m_requests' \in [RequestSlots -> Requests],
         \A i \in RequestSlots : m_requests[i]'.state # "FREE" =>
           m_requests[i]' = m_requests[i] /\ EpochAttached(m_requests[i].source)',
         UNCHANGED <<m_operation, m_session, m_nextSequence>>,
         reported \subseteq reported'
  PROVE  TableInv'
<1> USE DEF IInv, TableInv
<1>1. WaitersHaveOperation'
  BY DEF WaitersHaveOperation
<1>2. OneRequestPerSource'
  BY DEF OneRequestPerSource
<1>3. RequestsWellFormed'
  BY DEF RequestsWellFormed
<1>4. DeliveryOrder'
  BY DEF DeliveryOrder
<1>5. HonestResult'
  BY DEF HonestResult
<1> QED BY <1>1, <1>2, <1>3, <1>4, <1>5

\* FinishWaitersLocked empties the set of waiters, and what it tells them is
\* honest when the display side reported it for the current operation.
LEMMA TableFinish ==
  ASSUME IInv, NEW st \in States, NEW er \in Errors,
         FinishWaiters(st, er),
         st # "FAILED" =>
           /\ SuccessMatches(st, m_operation.action.active)
           /\ \E r \in reported' : /\ r.session = m_session
                                  /\ r.route = m_operation.id
                                  /\ r.active = m_operation.action.active,
         UNCHANGED <<m_epochs, m_session, m_nextSequence>>,
         reported \subseteq reported'
  PROVE  TableInv'
<1> USE DEF IInv
<1>1. m_requests \in [RequestSlots -> Requests]
  BY DEF TypeOK
<1>2. m_requests' \in [RequestSlots -> Requests]
  BY <1>1 DEF FinishWaiters, SetReady, Requests
<1>3. ASSUME NEW i \in RequestSlots
      PROVE  /\ m_requests'[i].source = m_requests[i].source
             /\ m_requests'[i].sequence = m_requests[i].sequence
             /\ m_requests'[i].operation = m_requests[i].operation
             /\ m_requests'[i].active = m_requests[i].active
             /\ m_requests'[i].state # "WAITING"
             /\ m_requests'[i].state = "FREE" <=> m_requests[i].state = "FREE"
             /\ m_requests[i].state # "WAITING" => m_requests'[i] = m_requests[i]
             /\ m_requests[i].state = "WAITING" => m_requests'[i].result = st
  BY <1>1, <1>3 DEF FinishWaiters, SetReady, WaitersHaveOperation
<1>4. WaitersHaveOperation' /\ DeliveryOrder'
  BY <1>3 DEF WaitersHaveOperation, DeliveryOrder
<1>5. OneRequestPerSource'
  BY <1>3 DEF OneRequestPerSource, EpochAttached, SameEpoch
<1>6. RequestsWellFormed'
  BY <1>3 DEF RequestsWellFormed
<1>7. HonestResult'
  <2> SUFFICES ASSUME NEW i \in RequestSlots,
                      m_requests'[i].state = "READY",
                      m_requests'[i].result # "FAILED"
               PROVE  /\ SuccessMatches(m_requests'[i].result,
                                         m_requests'[i].active)
                      /\ \E r \in reported' :
                            /\ r.session = m_session
                            /\ r.route = m_requests'[i].operation
                            /\ r.active = m_requests'[i].active
    BY DEF HonestResult
  <2>1. CASE m_requests[i].state = "WAITING"
    BY <1>3, <2>1 DEF WaitersHaveOperation
  <2>2. CASE m_requests[i].state # "WAITING"
    BY <1>3, <2>2 DEF HonestResult
  <2> QED BY <2>1, <2>2
<1> QED BY <1>2, <1>4, <1>5, <1>6, <1>7 DEF TableInv

\* A new waiter joins the table: what is ready is older than it.
LEMMA TableAdd ==
  ASSUME IInv, NEW source \in SourceKeys, NEW tag \in Tags,
         NEW active \in Modes, NEW op \in Nat,
         EpochAttached(source), SlotFor(source) # 0,
         m_requests' = [Cleared(source) EXCEPT ![SlotFor(source)] =
                          Waiting(source, tag, active, op)],
         m_nextSequence' = m_nextSequence + 1,
         UNCHANGED <<m_epochs, m_session, reported>>,
         m_operation'.phase = "IN_FLIGHT", m_operation'.id = op,
         m_operation'.action.active = active,
         \A i \in RequestSlots : m_requests[i].state = "WAITING" =>
           op = m_operation.id /\ active = m_operation.action.active
  PROVE  TableInv'
<1> DEFINE k == SlotFor(source)
           w == Waiting(source, tag, active, op)
<1>0. TypeOK /\ OneRequestPerSource /\ WaitersHaveOperation
      /\ RequestsWellFormed /\ DeliveryOrder /\ HonestResult
  BY DEF IInv
<1>1. /\ k \in RequestSlots
      /\ Cleared(source) \in [RequestSlots -> Requests]
      /\ \A i \in RequestSlots : Cleared(source)[i].state # "FREE" =>
           Cleared(source)[i] = m_requests[i] /\ m_requests[i].source # source
  BY <1>0, ClearedFact
<1>2. w \in Requests
  BY <1>0, WaitingType
<1>3. /\ w.state = "WAITING" /\ w.source = source /\ w.operation = op
      /\ w.active = active /\ w.sequence = m_nextSequence
  BY DEF Waiting
<1>4. m_nextSequence \in Nat /\ m_requests \in [RequestSlots -> Requests]
  BY <1>0 DEF TypeOK
<1> HIDE DEF k, w
<1>5. m_requests' = [Cleared(source) EXCEPT ![k] = w]
  BY DEF k, w
<1>6. m_requests' \in [RequestSlots -> Requests]
  BY <1>1, <1>2, <1>5
<1>7. /\ m_requests'[k] = w
      /\ \A i \in RequestSlots \ {k} : m_requests'[i].state # "FREE" =>
           m_requests'[i] = m_requests[i] /\ m_requests[i].source # source
  BY <1>1, <1>5
<1>8. WaitersHaveOperation'
  BY <1>0, <1>1, <1>3, <1>7 DEF WaitersHaveOperation
<1>9. OneRequestPerSource'
  BY <1>0, <1>1, <1>3, <1>7 DEF OneRequestPerSource, EpochAttached, SameEpoch
<1>10. \A i \in RequestSlots : m_requests[i].sequence \in Nat
  BY <1>4 DEF Requests
<1>11. RequestsWellFormed'
  BY <1>0, <1>1, <1>3, <1>4, <1>7, <1>10 DEF RequestsWellFormed
<1>12. DeliveryOrder'
  BY <1>0, <1>1, <1>3, <1>4, <1>7, <1>10 DEF DeliveryOrder, RequestsWellFormed
<1>13. HonestResult'
  BY <1>0, <1>1, <1>3, <1>7 DEF HonestResult
<1> QED BY <1>6, <1>8, <1>9, <1>11, <1>12, <1>13 DEF TableInv

-----------------------------------------------------------------------------
(* The rest of the invariant, once the table parts are known.              *)

\* The parts make the inductive invariant.
LEMMA InvariantParts ==
  ASSUME TableInv, TypeOK, OperationBookkeeping, KnownIsLatest
  PROVE  IInv
BY DEF TableInv, IInv

\* A new hub satisfies the invariant.
LEMMA InitEstablishes == Init => IInv
<1> SUFFICES ASSUME Init PROVE IInv
  OBVIOUS
<1> USE DEF Init, HubInit
<1>1. TypeOK
  <2>1. /\ m_requests \in [RequestSlots -> Requests]
        /\ m_epochs \in [EpochSlots -> [backend : Backends \cup {0},
                             epoch : Epochs \cup {0}, synced : BOOLEAN]]
    BY NoRequestType DEF NoEpoch
  <2>2. m_operation \in [phase : {"NONE", "IN_FLIGHT", "LATCHED"},
                         action : Actions, id : Nat]
    BY NoActionType DEF NoOperation
  <2>3. m_operation.phase = "NONE"
    BY DEF NoOperation
  <2>4. m_nextSerial \in 0 .. SERIAL_MOD - 1
    BY HubConstants
  <2>5. m_knownValid \in BOOLEAN /\ m_monitorReady \in BOOLEAN /\ due \in BOOLEAN
    BY Zenon
  <2>6. /\ m_known \in States /\ dispatching \in Actions
        /\ sent \subseteq Actions /\ reported \subseteq Actions
    BY NoActionType DEF States
  <2>7. /\ m_session \in Nat
        /\ m_nextOperation \in Nat \ {0} /\ m_nextRoute \in Nat \ {0}
        /\ m_nextSequence \in Nat \ {0}
    OBVIOUS
  <2> HIDE DEF Init, HubInit
  <2> QED BY <2>1, <2>2, <2>3, <2>4, <2>5, <2>6, <2>7 DEF TypeOK
<1>2. \A i \in RequestSlots : m_requests[i].state = "FREE"
  BY DEF NoRequest
<1>3. TableInv
  BY <1>1, <1>2 DEF TypeOK, TableInv, WaitersHaveOperation, OneRequestPerSource,
    RequestsWellFormed, DeliveryOrder, HonestResult
<1>4. OperationBookkeeping
  BY DEF OperationBookkeeping, NoOperation
<1>5. KnownIsLatest
  BY DEF KnownIsLatest
<1> QED BY <1>1, <1>3, <1>4, <1>5, InvariantParts

\* Steps that leave the operation, its counters and the outside world alone.
LEMMA QuietStep ==
  ASSUME IInv, TableInv', TypeOK',
         UNCHANGED <<m_operation, m_known, m_knownValid, m_session,
                     m_nextOperation, m_nextRoute, dispatching, sent, reported>>
  PROVE  IInv'
<1>1. OperationBookkeeping'
  BY DEF IInv, OperationBookkeeping
<1>2. KnownIsLatest'
  BY DEF IInv, KnownIsLatest
<1> QED BY <1>1, <1>2 DEF IInv, TableInv

\* FirstSlot over the instance table.
LEMMA EpochFirst ==
  ASSUME NEW S \in SUBSET EpochSlots, FirstSlot(S) # 0
  PROVE  FirstSlot(S) \in S
<1>1. S \subseteq Nat \ {0}
  BY HubConstants DEF EpochSlots
<1> QED BY <1>1, FirstSlotIn

\* Attach takes a free slot, so no attached instance is lost.
LEMMA AttachStep ==
  ASSUME IInv, NEW b \in Backends, NEW e \in Epochs, Attach(b, e)
  PROVE  IInv'
<1> DEFINE S == {j \in EpochSlots : m_epochs[j].backend = 0}
           k == FirstSlot(S)
           E == [backend |-> b, epoch |-> e, synced |-> m_monitorReady]
<1>1. TypeOK /\ OneRequestPerSource
  BY DEF IInv
<1>2. k # 0 /\ m_epochs' = [m_epochs EXCEPT ![k] = E]
  BY DEF Attach
<1>3. k \in S
  BY <1>2, EpochFirst
<1>4. TypeOK'
  BY <1>1, <1>2, <1>3 DEF TypeOK, Attach, counters
<1>6. ASSUME NEW i \in RequestSlots, m_requests[i].state # "FREE"
      PROVE  EpochAttached(m_requests[i].source)'
  <2>1. PICK j \in EpochSlots : SameEpoch(m_requests[i].source,
                                  m_epochs[j].backend, m_epochs[j].epoch)
    BY <1>1, <1>6 DEF OneRequestPerSource, EpochAttached
  <2>2. CASE j # k
    BY <1>1, <1>2, <1>3, <2>1, <2>2 DEF TypeOK, Attach, EpochAttached, SameEpoch
  <2>3. CASE j = k
    <3>1. m_requests[i].source.backend = 0
      BY <1>3, <2>1, <2>3 DEF SameEpoch
    <3>2. m_requests[i].source \in SourceKeys
      BY <1>6 DEF IInv, RequestsWellFormed
    <3> QED BY <3>1, <3>2, HubConstants DEF SourceKeys
  <2> QED BY <2>2, <2>3
<1>7. TableInv'
  BY <1>1, <1>6, TableDrops DEF Attach, counters, TypeOK
<1> QED BY <1>4, <1>7, QuietStep DEF Attach, counters

\* Remove drops the instance together with all its requests.
LEMMA RemoveStep ==
  ASSUME IInv, NEW b \in Backends, NEW e \in Epochs, Remove(b, e)
  PROVE  IInv'
<1>1. TypeOK /\ OneRequestPerSource
  BY DEF IInv
<1>2. m_requests' \in [RequestSlots -> Requests]
  BY <1>1, NoRequestType DEF Remove, TypeOK
<1>3. TypeOK'
  BY <1>1, <1>2 DEF TypeOK, Remove, counters, NoEpoch
<1>4. ASSUME NEW i \in RequestSlots, m_requests'[i].state # "FREE"
      PROVE  m_requests'[i] = m_requests[i] /\ EpochAttached(m_requests[i].source)'
  <2>1. /\ m_requests'[i] = m_requests[i]
        /\ ~ SameEpoch(m_requests[i].source, b, e)
    BY <1>4 DEF Remove, NoRequest
  <2>2. PICK j \in EpochSlots : SameEpoch(m_requests[i].source,
                                  m_epochs[j].backend, m_epochs[j].epoch)
    BY <1>1, <1>4, <2>1 DEF OneRequestPerSource, EpochAttached
  <2>3. m_epochs'[j] = m_epochs[j]
    BY <2>1, <2>2 DEF Remove, SameEpoch
  <2> QED BY <2>1, <2>2, <2>3 DEF EpochAttached, SameEpoch
<1>5. TableInv'
  BY <1>2, <1>4, TableDrops DEF Remove, counters
<1> QED BY <1>3, <1>5, QuietStep DEF Remove, counters

\* TakeDelivery frees one slot.
LEMMA TakeDeliveryStep ==
  ASSUME IInv, NEW b \in Backends, NEW e \in Epochs, TakeDelivery(b, e)
  PROVE  IInv'
<1> DEFINE k == Selected(b, e)
<1>1. TypeOK /\ OneRequestPerSource
  BY DEF IInv
<1>2. m_requests' = [m_requests EXCEPT ![k] = NoRequest]
  BY DEF TakeDelivery
<1>3. m_requests' \in [RequestSlots -> Requests]
  BY <1>1, <1>2, NoRequestType DEF TypeOK
<1>4. TypeOK'
  BY <1>1, <1>3 DEF TypeOK, TakeDelivery, counters
<1>5. ASSUME NEW i \in RequestSlots, m_requests'[i].state # "FREE"
      PROVE  m_requests'[i] = m_requests[i] /\ EpochAttached(m_requests[i].source)'
  <2>1. m_requests'[i] = m_requests[i]
    BY <1>1, <1>2, <1>5 DEF TypeOK, NoRequest
  <2> QED BY <1>1, <1>5, <2>1
          DEF OneRequestPerSource, EpochAttached, SameEpoch, TakeDelivery
<1>6. TableInv'
  BY <1>3, <1>5, TableDrops DEF TakeDelivery, counters
<1> QED BY <1>4, <1>6, QuietStep DEF TakeDelivery, counters

\* ClaimSync leaves the identity of the instances alone.
LEMMA ClaimSyncStep ==
  ASSUME IInv, NEW b \in Backends, NEW e \in Epochs, ClaimSync(b, e)
  PROVE  IInv'
<1> DEFINE S == {j \in EpochSlots :
                   /\ m_epochs[j].backend = b /\ m_epochs[j].epoch = e
                   /\ ~ m_epochs[j].synced}
           k == FirstSlot(S)
<1>1. TypeOK /\ OneRequestPerSource
  BY DEF IInv
<1>2. k # 0 /\ m_epochs' = [m_epochs EXCEPT ![k].synced = TRUE]
  BY DEF ClaimSync
<1>3. k \in EpochSlots
  BY <1>2, EpochFirst
<1>4. TypeOK'
  <2> DEFINE T == [backend : Backends \cup {0}, epoch : Epochs \cup {0},
                   synced : BOOLEAN]
  <2>1. [m_epochs[k] EXCEPT !.synced = TRUE] \in T
    BY <1>1, <1>3, ZenonT(60) DEF TypeOK
  <2>2. m_epochs' \in [EpochSlots -> T]
    BY <1>1, <1>2, <1>3, <2>1 DEF TypeOK
  <2> QED BY <1>1, <2>2 DEF TypeOK, ClaimSync, counters
<1>5. \A j \in EpochSlots : /\ m_epochs'[j].backend = m_epochs[j].backend
                            /\ m_epochs'[j].epoch = m_epochs[j].epoch
  BY <1>1, <1>2, <1>3 DEF TypeOK
<1>6. \A i \in RequestSlots : m_requests[i].state # "FREE" =>
        EpochAttached(m_requests[i].source)'
  BY <1>1, <1>5 DEF OneRequestPerSource, EpochAttached, SameEpoch, ClaimSync
<1>7. TableInv'
  BY <1>1, <1>6, TableDrops DEF ClaimSync, counters, TypeOK
<1> QED BY <1>4, <1>7, QuietStep DEF ClaimSync, counters

\* Steps of the manager and of the clock that touch nothing of the hub.
LEMMA MarkMonitorReadyStep ==
  ASSUME IInv, MarkMonitorReady
  PROVE  IInv'
<1>1. TypeOK'
  BY DEF IInv, TypeOK, MarkMonitorReady, counters
<1>2. TableInv'
  BY TableDrops DEF IInv, TypeOK, OneRequestPerSource, EpochAttached, SameEpoch,
    MarkMonitorReady, counters
<1> QED BY <1>1, <1>2, QuietStep DEF MarkMonitorReady, counters

\* The passing of the deadline alone changes nothing in the hub.
LEMMA ExpireStep ==
  ASSUME IInv, Expire
  PROVE  IInv'
<1>1. TypeOK'
  BY DEF IInv, TypeOK, Expire, hubVars
<1>2. TableInv'
  BY TableDrops DEF IInv, TypeOK, OneRequestPerSource, EpochAttached, SameEpoch,
    Expire, hubVars
<1> QED BY <1>1, <1>2, QuietStep DEF Expire, hubVars

-----------------------------------------------------------------------------
(* Submit and its dispatch.                                                *)

\* A Submit answered at once has only dropped the old request of its source.
LEMMA SubmitAnsweredStep ==
  ASSUME IInv, NEW source \in SourceKeys, NEW tag \in Tags,
         NEW active \in Modes, SubmitAnswered(source, tag, active),
         UNCHANGED <<sent, reported>>
  PROVE  IInv'
<1>1. TypeOK /\ OneRequestPerSource
  BY DEF IInv
<1>2. /\ Cleared(source) \in [RequestSlots -> Requests]
      /\ \A i \in RequestSlots : Cleared(source)[i].state # "FREE" =>
           Cleared(source)[i] = m_requests[i]
  BY <1>1, ClearedFact
<1>3. m_requests' = Cleared(source)
  BY DEF SubmitAnswered
<1>4. TypeOK'
  BY <1>1, <1>2, <1>3 DEF TypeOK, SubmitAnswered, counters
<1>5. TableInv'
  BY <1>1, <1>2, <1>3, TableDrops
  DEF OneRequestPerSource, EpochAttached, SameEpoch, SubmitAnswered, counters
<1> QED BY <1>4, <1>5, QuietStep DEF SubmitAnswered, counters

\* A Submit that joins the operation in flight.
LEMMA SubmitJoinsStep ==
  ASSUME IInv, NEW source \in SourceKeys, NEW tag \in Tags,
         NEW active \in Modes, SubmitJoins(source, tag, active),
         UNCHANGED <<sent, reported>>
  PROVE  IInv'
<1>1. TypeOK /\ WaitersHaveOperation
  BY DEF IInv
<1>2. m_operation.id \in Nat
  BY <1>1 DEF TypeOK
<1>3. TableInv'
  BY <1>1, <1>2, TableAdd
  DEF SubmitJoins, Admissible, WaitersHaveOperation
<1>4. TypeOK'
  BY <1>1, <1>3 DEF TypeOK, TableInv, SubmitJoins
<1> QED BY <1>3, <1>4, QuietStep DEF SubmitJoins

\* NextSerial and the step that follows stay even-sized and in range.
LEMMA SerialType ==
  ASSUME TypeOK
  PROVE  /\ NextSerial \in 1 .. SERIAL_MOD - 1
         /\ (NextSerial + 2) % SERIAL_MOD \in 0 .. SERIAL_MOD - 1
<1>1. NextSerial \in 1 .. SERIAL_MOD - 1
  BY HubConstants DEF TypeOK, NextSerial
<1> QED BY <1>1, HubConstants

\* A Submit that starts an operation: nobody else was waiting.
LEMMA SubmitStartsStep ==
  ASSUME IInv, NEW source \in SourceKeys, NEW tag \in Tags,
         NEW active \in Modes, SubmitStarts(source, tag, active),
         dispatching = NoAction, UNCHANGED <<sent, reported>>
  PROVE  IInv'
<1> DEFINE a == [route |-> m_nextRoute, session |-> m_session,
                 serial |-> NextSerial, active |-> active]
<1>1. TypeOK /\ WaitersHaveOperation /\ OperationBookkeeping /\ KnownIsLatest
  BY DEF IInv
<1>2. /\ m_operation' = [phase |-> "IN_FLIGHT", action |-> a,
                        id |-> m_nextOperation]
      /\ dispatching' = a
  BY DEF SubmitStarts
<1>3. a \in Actions /\ a.serial # 0
  BY <1>1, SerialType DEF TypeOK, Actions
<1>4. \A i \in RequestSlots : m_requests[i].state # "WAITING"
  BY <1>1 DEF WaitersHaveOperation, SubmitStarts
<1>5. /\ m_operation'.phase = "IN_FLIGHT"
      /\ m_operation'.id = m_nextOperation
      /\ m_operation'.action = a
      /\ m_nextOperation \in Nat
  BY <1>1, <1>2 DEF TypeOK
<1>6. TableInv'
  <2>1. m_operation'.action.active = active
    BY <1>5
  <2> HIDE DEF a
  <2> QED BY <1>4, <1>5, <2>1, TableAdd DEF SubmitStarts, Admissible
<1>7. TypeOK'
  <2>1. m_operation' \in [phase : {"NONE", "IN_FLIGHT", "LATCHED"},
                          action : Actions, id : Nat]
    BY <1>2, <1>3, <1>5
  <2>2. m_nextSerial' \in 0 .. SERIAL_MOD - 1
    BY <1>1, SerialType DEF SubmitStarts
  <2>3. due' \in BOOLEAN
    BY Zenon DEF SubmitStarts
  <2>4. dispatching' \in Actions /\ m_operation'.action.serial # 0
    BY <1>2, <1>3, <1>5
  <2>5. m_requests' \in [RequestSlots -> Requests]
    BY <1>6 DEF TableInv
  <2>6. /\ m_nextOperation' \in Nat \ {0} /\ m_nextRoute' \in Nat \ {0}
        /\ m_nextSequence' \in Nat \ {0}
    BY <1>1 DEF TypeOK, SubmitStarts
  <2>7. UNCHANGED <<m_epochs, m_known, m_knownValid, m_monitorReady, m_session,
                    sent, reported>>
    BY DEF SubmitStarts
  <2> QED BY <1>1, <2>1, <2>2, <2>3, <2>4, <2>5, <2>6, <2>7 DEF TypeOK
<1>8. OperationBookkeeping'
  <2>1. \A x \in sent : /\ x \in Actions /\ x.session <= m_session
                        /\ x.session = m_session => x.route < m_nextRoute
    BY <1>1 DEF OperationBookkeeping, TypeOK
  <2>2. /\ m_nextRoute \in Nat /\ m_nextRoute' = m_nextRoute + 1
        /\ m_nextOperation' = m_nextOperation + 1
        /\ m_nextOperation = m_nextRoute /\ m_session' = m_session
    BY <1>1 DEF SubmitStarts, TypeOK, OperationBookkeeping
  <2>3. a \notin sent
    BY <2>1, <2>2
  <2>4. \A x \in sent : x.session = m_session => x.route < m_nextRoute + 1
    BY <2>1, <2>2 DEF Actions
  <2> QED BY <1>2, <1>5, <2>1, <2>2, <2>3, <2>4 DEF OperationBookkeeping
<1>9. KnownIsLatest'
  BY <1>1 DEF KnownIsLatest, SubmitStarts
<1> QED BY <1>6, <1>7, <1>8, <1>9, InvariantParts DEF IInv, TableInv

\* OnRecoveryAction took the action.
LEMMA DispatchSentStep ==
  ASSUME IInv, DispatchSent
  PROVE  IInv'
<1>1. TypeOK /\ OperationBookkeeping /\ KnownIsLatest /\ OneRequestPerSource
  BY DEF IInv
<1>2. TypeOK'
  BY <1>1, NoActionType DEF TypeOK, DispatchSent, hubVars
<1>3. TableInv'
  BY <1>1, TableDrops DEF DispatchSent, hubVars, TypeOK, OneRequestPerSource,
    EpochAttached, SameEpoch
<1>4. /\ m_operation.phase = "IN_FLIGHT" /\ dispatching = m_operation.action
      /\ dispatching.session = m_session
      /\ dispatching.route = m_nextRoute - 1
      /\ m_session \in Nat /\ m_nextRoute \in Nat
  BY <1>1 DEF OperationBookkeeping, DispatchSent, TypeOK
<1>5. OperationBookkeeping'
  BY <1>1, <1>4 DEF OperationBookkeeping, DispatchSent, hubVars
<1>6. KnownIsLatest'
  BY <1>1, <1>4 DEF KnownIsLatest, DispatchSent, hubVars
<1> QED BY <1>2, <1>3, <1>5, <1>6 DEF IInv, TableInv

\* DispatchFailed: the operation in flight is the one that was refused.
LEMMA DispatchFailedStep ==
  ASSUME IInv, DispatchFailed
  PROVE  IInv'
<1>1. TypeOK /\ OperationBookkeeping /\ KnownIsLatest
  BY DEF IInv
<1>2. m_operation.phase = "IN_FLIGHT" /\ dispatching = m_operation.action
      /\ dispatching \notin sent
  BY <1>1 DEF OperationBookkeeping, DispatchFailed
<1>3. FinishWaiters("FAILED", "UNAVAILABLE") /\ m_operation' = NoOperation
  BY <1>2 DEF DispatchFailed, ActionMatches
<1>4. "FAILED" \in States /\ "UNAVAILABLE" \in Errors
  BY DEF States, Errors
<1>5. TableInv'
  BY <1>3, <1>4, TableFinish DEF DispatchFailed, counters
<1>6. /\ m_operation'.phase = "NONE"
      /\ m_operation' \in [phase : {"NONE", "IN_FLIGHT", "LATCHED"},
                           action : Actions, id : Nat]
  BY <1>3, NoActionType DEF NoOperation
<1>7. TypeOK'
  BY <1>1, <1>5, <1>6, NoActionType DEF TypeOK, TableInv, DispatchFailed, counters
<1>8. OperationBookkeeping'
  BY <1>1, <1>6 DEF OperationBookkeeping, DispatchFailed, counters
<1>9. KnownIsLatest'
  BY <1>1, <1>2 DEF KnownIsLatest, DispatchFailed, counters
<1> QED BY <1>5, <1>7, <1>8, <1>9 DEF IInv, TableInv

\* Tick times the operation out.
LEMMA TickStep ==
  ASSUME IInv, Tick
  PROVE  IInv'
<1>1. TypeOK /\ OperationBookkeeping
  BY DEF IInv
<1>2. "FAILED" \in States /\ "TIMEOUT" \in Errors
  BY DEF States, Errors
<1>3. TableInv'
  BY <1>2, TableFinish DEF Tick, counters
<1>4. /\ m_operation'.phase = "LATCHED"
      /\ m_operation'.action = m_operation.action
      /\ m_operation'.id = m_operation.id
      /\ m_operation' \in [phase : {"NONE", "IN_FLIGHT", "LATCHED"},
                           action : Actions, id : Nat]
  BY <1>1 DEF Tick, TypeOK
<1>5. m_knownValid' = FALSE /\ m_knownValid' \in BOOLEAN
  BY Zenon DEF Tick
<1>6. m_operation.phase = "IN_FLIGHT"
  BY DEF Tick
<1>7. TypeOK'
  BY <1>1, <1>3, <1>4, <1>5, <1>6 DEF TypeOK, TableInv, Tick, counters
<1>8. OperationBookkeeping'
  BY <1>1, <1>4, <1>6 DEF OperationBookkeeping, Tick, counters
<1>9. KnownIsLatest'
  BY <1>5 DEF KnownIsLatest
<1> QED BY <1>3, <1>7, <1>8, <1>9 DEF IInv, TableInv

\* A report either does not match and changes only what was reported, or it is
\* about the newest operation ever started.
LEMMA CompleteStep ==
  ASSUME IInv, NEW action \in sent, NEW state \in States,
         Complete(action, state)
  PROVE  IInv'
<1> DEFINE ok == SuccessMatches(state, m_operation.action.active)
<1>1. TypeOK /\ OperationBookkeeping /\ KnownIsLatest /\ OneRequestPerSource
  BY DEF IInv
<1>2. reported \subseteq reported' /\ reported' \subseteq Actions
  BY <1>1 DEF Complete, TypeOK
<1>3. UNCHANGED <<m_epochs, m_monitorReady, m_session, counters, due,
                  dispatching, sent>>
  BY DEF Complete
<1>4. CASE ~ ActionMatches(action)
  <2>1. UNCHANGED <<m_known, m_knownValid, m_requests, m_operation>>
    BY <1>4 DEF Complete
  <2>2. TypeOK'
    BY <1>1, <1>2, <1>3, <2>1 DEF TypeOK, counters
  <2>3. TableInv'
    BY <1>1, <1>2, <1>3, <2>1, TableDrops
    DEF TypeOK, OneRequestPerSource, EpochAttached, SameEpoch, counters
  <2>4. OperationBookkeeping'
    BY <1>1, <1>3, <2>1 DEF OperationBookkeeping, counters
  <2>5. KnownIsLatest'
    BY <1>1, <1>2, <1>3, <2>1 DEF KnownIsLatest, counters
  <2> QED BY <2>2, <2>3, <2>4, <2>5 DEF IInv, TableInv
<1>5. CASE ActionMatches(action)
  <2>1. /\ m_knownValid' = ok
        /\ m_known' = IF ok THEN state ELSE m_known
    BY <1>5 DEF Complete
  <2>2. /\ m_operation.phase # "NONE"
        /\ action.session = m_session
        /\ action.route = m_operation.id
        /\ action.route = m_nextRoute - 1
        /\ action.active = m_operation.action.active
    BY <1>1, <1>5 DEF ActionMatches, OperationBookkeeping
  <2>3. ok => action \in reported'
    BY <2>2 DEF Complete
  <2>4. m_known' \in States
    BY <1>1, <2>1 DEF TypeOK
  <2>5. m_knownValid' \in BOOLEAN
    <3>1. ok \in BOOLEAN
      BY Zenon DEF SuccessMatches
    <3> QED BY <2>1, <3>1, Zenon
  <2>6. KnownIsLatest'
    <3> SUFFICES ASSUME ok
                 PROVE  \E r \in reported' :
                          /\ r.session = m_session
                          /\ SuccessMatches(m_known', r.active)
                          /\ \A a \in sent :
                               ~(a.session = m_session /\ a.route > r.route)
      BY <1>3, <2>1 DEF KnownIsLatest
    <3>1. \A a \in sent : a.session = m_session => /\ a.route < m_nextRoute
                                                  /\ a.route \in Nat
      BY <1>1 DEF OperationBookkeeping, TypeOK, Actions
    <3>2. m_nextRoute \in Nat
      BY <1>1 DEF TypeOK
    <3>3. SuccessMatches(m_known', action.active)
      BY <2>1, <2>2
    <3> QED BY <2>2, <2>3, <3>1, <3>2, <3>3
  <2>7. CASE m_operation.phase = "LATCHED"
    <3>1. UNCHANGED <<m_requests, m_operation>>
      BY <1>5, <2>7 DEF Complete
    <3>2. TypeOK'
      BY <1>1, <1>2, <1>3, <2>4, <2>5, <3>1 DEF TypeOK, counters
    <3>3. TableInv'
      BY <1>1, <1>2, <1>3, <3>1, TableDrops
      DEF TypeOK, OneRequestPerSource, EpochAttached, SameEpoch, counters
    <3>4. OperationBookkeeping'
      BY <1>1, <1>3, <3>1 DEF OperationBookkeeping, counters
    <3> QED BY <2>6, <3>2, <3>3, <3>4 DEF IInv, TableInv
  <2>8. CASE m_operation.phase # "LATCHED"
    <3> DEFINE st == IF ok THEN state ELSE "FAILED"
               er == IF ok THEN "SUCCESS" ELSE "FAILURE"
    <3>1. FinishWaiters(st, er)
          /\ m_operation' = [m_operation EXCEPT !.phase = "LATCHED"]
      BY <1>5, <2>8 DEF Complete
    <3>2. st \in States /\ er \in Errors
      BY DEF States, Errors
    <3>3. TableInv'
      <4>1. st # "FAILED" =>
              /\ SuccessMatches(st, m_operation.action.active)
              /\ \E r \in reported' : /\ r.session = m_session
                                     /\ r.route = m_operation.id
                                     /\ r.active = m_operation.action.active
        BY <2>2, <2>3
      <4> HIDE DEF st, er
      <4> QED BY <1>2, <1>3, <3>1, <3>2, <4>1, TableFinish DEF counters
    <3>4. /\ m_operation'.phase = "LATCHED"
          /\ m_operation'.action = m_operation.action
          /\ m_operation'.id = m_operation.id
          /\ m_operation' \in [phase : {"NONE", "IN_FLIGHT", "LATCHED"},
                               action : Actions, id : Nat]
      BY <1>1, <3>1 DEF TypeOK
    <3>5. TypeOK'
      BY <1>1, <1>2, <1>3, <2>2, <2>4, <2>5, <3>3, <3>4
      DEF TypeOK, TableInv, counters
    <3>6. dispatching = NoAction
      <4>1. action \in Actions /\ m_operation.action \in Actions
        BY <1>1 DEF TypeOK
      <4>2. action = m_operation.action
        BY <1>5, <4>1 DEF ActionMatches, Actions
      <4> QED BY <1>1, <4>2 DEF OperationBookkeeping
    <3>7. OperationBookkeeping'
      BY <1>1, <1>3, <2>2, <3>4, <3>6 DEF OperationBookkeeping, counters
    <3> QED BY <2>6, <3>3, <3>5, <3>7 DEF IInv, TableInv
  <2> QED BY <2>7, <2>8
<1> QED BY <1>4, <1>5

\* A new hub: every action sent so far is of an older session.
LEMMA RestartStep ==
  ASSUME IInv, Restart
  PROVE  IInv'
<1>1. TypeOK /\ OperationBookkeeping
  BY DEF IInv
<1>2. m_requests' \in [RequestSlots -> Requests]
      /\ \A i \in RequestSlots : m_requests'[i].state = "FREE"
  BY NoRequestType DEF Restart, NoRequest
<1>3. TableInv'
  BY <1>2 DEF TableInv, WaitersHaveOperation, OneRequestPerSource,
    RequestsWellFormed, DeliveryOrder, HonestResult
<1>4. /\ m_operation' \in [phase : {"NONE", "IN_FLIGHT", "LATCHED"},
                           action : Actions, id : Nat]
      /\ m_operation'.phase = "NONE" /\ dispatching' = NoAction
  BY NoActionType DEF Restart, NoOperation
<1>5. /\ m_knownValid' = FALSE /\ m_knownValid' \in BOOLEAN
      /\ m_monitorReady' \in BOOLEAN /\ due' \in BOOLEAN
  BY Zenon DEF Restart
<1>6. m_epochs' \in [EpochSlots -> [backend : Backends \cup {0},
                            epoch : Epochs \cup {0}, synced : BOOLEAN]]
  BY DEF Restart, NoEpoch
<1>7. /\ m_session' = m_session + 1 /\ m_session \in Nat
      /\ m_nextOperation' = 1 /\ m_nextRoute' = 1 /\ m_nextSequence' = 1
      /\ m_nextSerial' \in 0 .. SERIAL_MOD - 1
      /\ m_known' \in States /\ sent' = sent /\ reported' = reported
  BY <1>1, HubConstants DEF Restart, TypeOK, States
<1>8. TypeOK'
  BY <1>1, <1>2, <1>4, <1>5, <1>6, <1>7, NoActionType DEF TypeOK
<1>9. OperationBookkeeping'
  <2>1. \A a \in sent : a.session \in Nat /\ a.session <= m_session
    BY <1>1 DEF OperationBookkeeping, TypeOK, Actions
  <2>2. \A a \in sent : a.session <= m_session + 1 /\ a.session # m_session + 1
    BY <1>7, <2>1
  <2> QED BY <1>4, <1>7, <2>2 DEF OperationBookkeeping
<1>10. KnownIsLatest'
  BY <1>5 DEF KnownIsLatest
<1> QED BY <1>3, <1>8, <1>9, <1>10 DEF IInv, TableInv

-----------------------------------------------------------------------------
\* Every step of the hub, of the manager and of the display side preserves
\* the invariant.
LEMMA NextPreserves == IInv /\ [Next]_vars => IInv'
<1> SUFFICES ASSUME IInv, [Next]_vars PROVE IInv'
  OBVIOUS
<1>1. CASE UNCHANGED vars
  BY <1>1 DEF vars, hubVars, IInv, TypeOK, WaitersHaveOperation,
    OneRequestPerSource, EpochAttached, OperationBookkeeping,
    RequestsWellFormed, DeliveryOrder, HonestResult, KnownIsLatest
<1>2. ASSUME NEW b \in Backends, NEW e \in Epochs,
             Attach(b, e) \/ Remove(b, e) \/ TakeDelivery(b, e) \/ ClaimSync(b, e)
      PROVE  IInv'
  BY <1>2, AttachStep, RemoveStep, TakeDeliveryStep, ClaimSyncStep
<1>3. ASSUME NEW source \in SourceKeys, NEW tag \in Tags, NEW active \in Modes,
             Submit(source, tag, active)
      PROVE  IInv'
  BY <1>3, SubmitAnsweredStep, SubmitJoinsStep, SubmitStartsStep DEF Submit
<1>4. CASE DispatchSent
  BY <1>4, DispatchSentStep
<1>5. CASE DispatchFailed
  BY <1>5, DispatchFailedStep
<1>6. ASSUME NEW action \in sent, NEW state \in States, Complete(action, state)
      PROVE  IInv'
  BY <1>6, CompleteStep
<1>7. CASE Expire
  BY <1>7, ExpireStep
<1>8. CASE Tick
  BY <1>8, TickStep
<1>9. CASE MarkMonitorReady
  BY <1>9, MarkMonitorReadyStep
<1>10. CASE Restart
  BY <1>10, RestartStep
<1> QED
  BY <1>1, <1>2, <1>3, <1>4, <1>5, <1>6, <1>7, <1>8, <1>9, <1>10 DEF Next

\* The inductive invariant holds in every behaviour, for any number of
\* instances, clients, slots, operations and restarts.
THEOREM HubInvariant == Spec => []IInv
<1>1. Init => IInv
  BY InitEstablishes
<1>2. IInv /\ [Next]_vars => IInv'
  BY NextPreserves
<1> QED BY <1>1, <1>2, PTL DEF Spec

\* Type correctness; no operation of Submit carries the serial zero, also
\* after NextSerial wrapped.
THEOREM HubTypes == Spec => []TypeOK
<1>1. IInv => TypeOK
  BY DEF IInv
<1> QED BY <1>1, HubInvariant, PTL

\* No request is left waiting for an operation that ended (Submit,
\* DispatchFailed, Complete, Tick).
THEOREM HubNoOrphans == Spec => []WaitersHaveOperation
<1>1. IInv => WaitersHaveOperation
  BY DEF IInv
<1> QED BY <1>1, HubInvariant, PTL

\* One request per source, and none of a detached instance (Submit, Remove).
THEOREM HubOneRequestPerSource == Spec => []OneRequestPerSource
<1>1. IInv => OneRequestPerSource
  BY DEF IInv
<1> QED BY <1>1, HubInvariant, PTL

\* Success is only told on a report for the operation the request waited for
\* (Complete, FinishWaitersLocked), whatever arrives late, twice or from an
\* earlier session.
THEOREM HubHonest == Spec => []HonestResult
<1>1. IInv => HonestResult
  BY DEF IInv
<1> QED BY <1>1, HubInvariant, PTL

\* The state Submit answers from is that of the newest operation sent.
THEOREM HubKnownIsLatest == Spec => []KnownIsLatest
<1>1. IInv => KnownIsLatest
  BY DEF IInv
<1> QED BY <1>1, HubInvariant, PTL

\* TakeDelivery hands out results in the order of admission.
THEOREM HubDeliveryOrder == Spec => []DeliveryOrder
<1>1. IInv => DeliveryOrder
  BY DEF IInv
<1> QED BY <1>1, HubInvariant, PTL

=============================================================================

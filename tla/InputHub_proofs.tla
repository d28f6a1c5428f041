-------------------------- MODULE InputHub_proofs ---------------------------
(***************************************************************************)
(* The safety properties of InputHub, for every number of instances,       *)
(* clients, generations and slots.  HubInv is the inductive invariant:     *)
(*   HubOK       the hub's own record: the sink, the owner, the lease;     *)
(*   SlotInv     which slots are bound, to which instance, and to which    *)
(*               of its epochs;                                            *)
(*   CallInv     what the calls under way (Bind, Unbind, Start, Stop and   *)
(*               an interaction) rely on;                                  *)
(*   WorkerInv   which workers run, through which slot;                    *)
(*   OwnerInv    the owner is bound and its worker knows it;               *)
(*   HoldsInv    whose reports the devices hold.                           *)
(* The helpers that return a set of hubs are first reduced to what they    *)
(* may change (Less, and the facts about CheckState, Detach, Claim, ...).  *)
(***************************************************************************)
EXTENDS InputHub, WellFoundedInduction, TLAPS

-----------------------------------------------------------------------------
(* Types.                                                                  *)

SinkRec   == [avail : BOOLEAN, changed : BOOLEAN, holds : SUBSET Keys]
HubRec    == [owner : Keys \cup {NoKey}, live : BOOLEAN, inter : Keys \cup {NoKey}, interLive : BOOLEAN,
              moved : BOOLEAN, started : BOOLEAN, hasSink : BOOLEAN, sink : SinkRec]
SlotRec   == [backend : Backends \cup {0}, epoch : 0..MaxEpoch, running : BOOLEAN, active : BOOLEAN,
              reserved : BOOLEAN, failed : BOOLEAN, failurePending : BOOLEAN]
ClientRec == [client : Clients, generation : Generations]
Stages    == {"none", "loop", "lost", "release", "leave", "report", "exited"}
WorkerRec == [at : Stages, owner : ClientRec \cup {NoClient}, live : BOOLEAN, stop : BOOLEAN,
              failed : BOOLEAN, spin : BOOLEAN, slot : Slots \cup {0}]
EntryRec  == [epoch : 1..MaxEpoch, open : BOOLEAN, added : BOOLEAN, failed : BOOLEAN]
BindRec     == [op : {"bind"}, backend : Backends, slot : Slots, start : BOOLEAN, at : {"start", "settle", "stop"}]
UnbindRec   == [op : {"unbind"}, backend : Backends, slot : Slots, at : {"stop"}]
InteractRec == [op : {"interact"}, source : Keys]
StartRec    == [op : {"start"}, at : {"next", "started", "refused", "stop"}, todo : SUBSET Slots]
StopRec     == [op : {"stop"}, at : {"next", "stop"}, reset : BOOLEAN, todo : SUBSET Slots]

TypeOK ==
  /\ hub \in HubRec /\ m_sources \in [Slots -> SlotRec] /\ worker \in [Backends -> WorkerRec]
  /\ entry \in [Backends -> EntryRec]
  /\ mgr \in BindRec \cup UnbindRec \cup InteractRec \cup {Idle} /\ disp \in StartRec \cup StopRec \cup {Idle}

-----------------------------------------------------------------------------
(* The invariant.                                                          *)

\* A hub record that the code can leave.
HubOK(h) ==
  /\ h \in HubRec
  /\ ~h.sink.avail => h.sink.holds = {}
  /\ h.owner # NoKey => h.started /\ (h.sink.avail \/ h.sink.changed)
  /\ h.started => h.hasSink
  /\ h.owner = NoKey \/ h.inter = NoKey

Bound(i) == m_sources[i].active \/ m_sources[i].failed \/ m_sources[i].reserved
BackendOf(i) == m_sources[i].backend
Calling == mgr.op \in {"bind", "unbind"}

SlotInv ==
  /\ \A i \in Slots : Bound(i) => BackendOf(i) \in Backends /\ m_sources[i].epoch = entry[BackendOf(i)].epoch
  /\ \A i \in Slots : m_sources[i].failurePending \/ m_sources[i].running => Bound(i)
  /\ \A i, j \in Slots : Bound(i) /\ Bound(j) /\ BackendOf(i) = BackendOf(j) => i = j
  /\ \A i \in Slots : Bound(i) => \/ Calling /\ mgr.slot = i
                                  \/ entry[BackendOf(i)].added /\ entry[BackendOf(i)].open
  /\ ~hub.started => \A i \in Slots : ~m_sources[i].running

MgrInv ==
  /\ mgr.op = "interact" => /\ entry[mgr.source.backend].open
                            /\ entry[mgr.source.backend].epoch = mgr.source.epoch
  /\ Calling => Bound(mgr.slot) /\ mgr.backend = BackendOf(mgr.slot) /\ disp = Idle
  /\ mgr.op = "bind" => /\ m_sources[mgr.slot].active \/ m_sources[mgr.slot].failed
                        /\ mgr.start = hub.started /\ entry[mgr.backend].open
                        /\ mgr.at = "start" => mgr.start
                        /\ mgr.at = "start" \/ ~mgr.start => worker[mgr.backend].at = "none"

DispInv ==
  /\ disp.op \in {"start", "stop"} => /\ disp.at # "next" => disp.todo # {}
                                      /\ \A i \in disp.todo : Bound(i)
                                      /\ hub.started = (disp.op = "start")
  /\ disp.op = "start" =>
       \A i \in disp.todo : disp.at \in {"next", "refused"} \/ i # Turn(disp) =>
         worker[BackendOf(i)].at = "none"

CallInv == MgrInv /\ DispInv

WorkerInv ==
  \A b \in Backends : worker[b].at # "none" =>
    /\ worker[b].slot \in Slots /\ BackendOf(worker[b].slot) = b /\ Bound(worker[b].slot)
    /\ \/ m_sources[worker[b].slot].running
       \/ Calling /\ mgr.backend = b
       \/ disp.op \in {"start", "stop"} /\ worker[b].slot \in disp.todo

OwnerInv ==
  /\ OwnerIsBound
  /\ hub.owner # NoKey =>
       LET w == worker[hub.owner.backend]
       IN  /\ w.at \in {"loop", "release", "leave"} /\ w.owner # NoClient
           /\ hub.owner = Key(hub.owner.backend, w.owner)

InterInv == hub.inter # NoKey => /\ entry[hub.inter.backend].open
                                 /\ entry[hub.inter.backend].epoch = hub.inter.epoch

HoldsInv ==
  /\ disp.op # "stop" => hub.sink.holds \subseteq {hub.owner}
  /\ disp.op = "stop" /\ ~disp.reset => hub.sink.holds = {}

HubInv == /\ TypeOK /\ HubOK(hub) /\ SlotInv /\ CallInv /\ WorkerInv /\ OwnerInv
          /\ InterInv /\ HoldsInv

-----------------------------------------------------------------------------
(* The hub's helpers.                                                      *)

\* No key names the absent instance.
LEMMA KeyFacts ==
  /\ NoKey \notin Keys /\ \A k \in Keys : k.backend \in Backends /\ k.backend # 0
  /\ NoKey.backend = 0 /\ NoKey.client = 0 /\ NoKey.generation = 0 /\ 0 \notin Backends /\ 0 \notin Clients
  /\ \A c \in ClientRec : c # NoClient /\ c.client # 0 /\ c.client \in Clients
BY InputHubConstants DEF Keys, NoKey, ClientRec, NoClient

\* The sink at the time of a call: as it was, or neutral after a change.
LEMMA SinkMovesFact ==
  ASSUME NEW s \in SinkRec, ~s.avail => s.holds = {}, NEW m \in SinkMoves(s)
  PROVE  /\ m \in SinkRec /\ m.holds \subseteq s.holds /\ (~m.avail => m.holds = {})
         /\ m = s \/ (m.changed /\ m.holds = {})
<1>1. CASE m = s
  BY <1>1
<1>2. CASE m \in [avail : BOOLEAN, changed : {TRUE}, holds : {{}}]
  BY <1>2 DEF SinkRec
<1> QED BY <1>1, <1>2 DEF SinkMoves

\* A reset leaves the devices neutral whatever it returns.
LEMMA SinkResetFact ==
  ASSUME NEW s \in SinkRec, ~s.avail => s.holds = {}, NEW r \in SinkReset(s)
  PROVE  /\ r.ok \in BOOLEAN /\ r.sink \in SinkRec /\ r.sink.holds = {}
         /\ r.ok => r.sink.avail
<1>1. PICK m \in SinkMoves(s) :
        r \in IF m.avail
           THEN {[ok |-> TRUE,  sink |-> [m EXCEPT !.holds = {}]],
                 [ok |-> FALSE, sink |-> [m EXCEPT !.holds = {}, !.changed = TRUE]]}
           ELSE {[ok |-> FALSE, sink |-> m]}
  BY DEF SinkReset
<1>2. m \in SinkRec /\ (~m.avail => m.holds = {})
  BY SinkMovesFact
<1>3. CASE m.avail /\ r = [ok |-> TRUE,  sink |-> [m EXCEPT !.holds = {}]]
  BY <1>2, <1>3 DEF SinkRec
<1>4. CASE m.avail /\ r = [ok |-> FALSE, sink |-> [m EXCEPT !.holds = {}, !.changed = TRUE]]
  BY <1>2, <1>4 DEF SinkRec
<1>5. CASE ~m.avail /\ r = [ok |-> FALSE, sink |-> m]
  BY <1>2, <1>5
<1> QED BY <1>1, <1>3, <1>4, <1>5

\* A report adds to what the devices hold, or leaves them neutral.
LEMMA SinkSendFact ==
  ASSUME NEW s \in SinkRec, ~s.avail => s.holds = {}, NEW k \in Keys, NEW r \in SinkSend(s, k)
  PROVE  /\ r.ok \in BOOLEAN /\ r.sink \in SinkRec /\ r.sink.holds \subseteq s.holds \cup {k}
         /\ r.ok => r.sink.avail
         /\ ~r.ok => r.sink.holds = {}
<1>1. PICK m \in SinkMoves(s) :
        r \in IF m.avail
           THEN {[ok |-> TRUE,  sink |-> [m EXCEPT !.holds = @ \cup {k}]],
                 [ok |-> FALSE, sink |-> [m EXCEPT !.holds = {}, !.changed = TRUE]]}
           ELSE {[ok |-> FALSE, sink |-> m]}
  BY DEF SinkSend
<1>2. m \in SinkRec /\ (~m.avail => m.holds = {}) /\ m.holds \subseteq s.holds
  BY SinkMovesFact
<1>3. CASE m.avail /\ r = [ok |-> TRUE,  sink |-> [m EXCEPT !.holds = @ \cup {k}]]
  <2>1. m.holds \cup {k} \in SUBSET Keys
    BY <1>2 DEF SinkRec
  <2> QED BY <1>2, <1>3, <2>1 DEF SinkRec
<1>4. CASE m.avail /\ r = [ok |-> FALSE, sink |-> [m EXCEPT !.holds = {}, !.changed = TRUE]]
  BY <1>2, <1>4 DEF SinkRec
<1>5. CASE ~m.avail /\ r = [ok |-> FALSE, sink |-> m]
  BY <1>2, <1>5
<1> QED BY <1>1, <1>3, <1>4, <1>5

\* The hub g is the hub h, but that something may have ended.
Less(h, g) ==
  /\ HubOK(g)
  /\ g.owner \in {h.owner, NoKey} /\ g.inter \in {h.inter, NoKey}
  /\ g.started = h.started /\ g.hasSink = h.hasSink
  /\ g.sink.holds \subseteq h.sink.holds
  /\ g.owner # h.owner => g.sink.holds = {}

\* The same hub, and the same but for the interaction.
LEMMA LessFact ==
  ASSUME NEW h, HubOK(h)
  PROVE  /\ Less(h, h)
         /\ \A g : Less(h, g) => Less(h, InvalidateInteraction(g))
                                 /\ Less(h, AdvanceInteraction(g)) /\ Less(h, ClearInteraction(g))
                                 /\ InvalidateInteraction(g).owner = g.owner
                                 /\ AdvanceInteraction(g).owner = g.owner /\ AdvanceInteraction(g).inter = g.inter
                                 /\ ClearInteraction(g).owner = g.owner /\ ClearInteraction(g).inter = NoKey
                                 /\ InvalidateInteraction(g).inter = NoKey
<1>1. Less(h, h)
  BY DEF Less
<1>2. ASSUME NEW g, Less(h, g)
      PROVE  /\ Less(h, InvalidateInteraction(g))
             /\ Less(h, AdvanceInteraction(g)) /\ Less(h, ClearInteraction(g))
             /\ InvalidateInteraction(g).owner = g.owner
             /\ AdvanceInteraction(g).owner = g.owner /\ AdvanceInteraction(g).inter = g.inter
             /\ ClearInteraction(g).owner = g.owner /\ ClearInteraction(g).inter = NoKey
             /\ InvalidateInteraction(g).inter = NoKey
  <2>1. g \in HubRec
    BY <1>2 DEF Less, HubOK
  <2> DEFINE c == ClearInteraction(g)
             a == AdvanceInteraction(g)
             i == InvalidateInteraction(g)
  <2>2. /\ c \in HubRec /\ c.owner = g.owner /\ c.inter = NoKey /\ c.started = g.started
        /\ c.hasSink = g.hasSink /\ c.sink = g.sink
    BY <2>1 DEF ClearInteraction, HubRec
  <2>3. /\ a \in HubRec /\ a.owner = g.owner /\ a.inter = g.inter /\ a.started = g.started
        /\ a.hasSink = g.hasSink /\ a.sink = g.sink
    BY <2>1 DEF AdvanceInteraction, HubRec
  <2>4. /\ i \in HubRec /\ i.owner = g.owner /\ i.inter = NoKey /\ i.started = g.started
        /\ i.hasSink = g.hasSink /\ i.sink = g.sink
    BY <2>1 DEF InvalidateInteraction, AdvanceInteraction, ClearInteraction, HubRec
  <2> HIDE DEF c, a, i
  <2>5. Less(h, c) /\ Less(h, a) /\ Less(h, i)
    BY <1>2, <2>2, <2>3, <2>4 DEF Less, HubOK
  <2> QED BY <2>2, <2>3, <2>4, <2>5 DEF c, a, i
<1> QED BY <1>1, <1>2

\* Giving up the ownership, with the sink s.
LEMMA NoOwnerFact ==
  ASSUME NEW h, HubOK(h), NEW s \in SinkRec, s.holds = {}
  PROVE  /\ Less(h, NoOwner([h EXCEPT !.sink = s])) /\ NoOwner([h EXCEPT !.sink = s]).owner = NoKey
         /\ NoOwner([h EXCEPT !.sink = s]).inter = h.inter
<1> DEFINE g == NoOwner([h EXCEPT !.sink = s])
<1>1. h \in HubRec
  BY DEF HubOK
<1>2. /\ g \in HubRec /\ g.owner = NoKey /\ g.inter = h.inter /\ g.started = h.started
      /\ g.hasSink = h.hasSink /\ g.sink = s
  BY <1>1 DEF NoOwner, HubRec
<1> HIDE DEF g
<1>3. Less(h, g)
  BY <1>2 DEF Less, HubOK
<1> QED BY <1>2, <1>3 DEF g

\* ResetOwner ends the ownership, with neutral devices.
LEMMA ResetOwnerFact ==
  ASSUME NEW h, HubOK(h), NEW g \in ResetOwner(h)
  PROVE  Less(h, g) /\ g.owner = NoKey /\ g.inter = h.inter
<1>1. PICK r \in SinkReset(h.sink) : g = NoOwner([h EXCEPT !.sink = r.sink])
  BY DEF ResetOwner
<1>2. h.sink \in SinkRec /\ (~h.sink.avail => h.sink.holds = {})
  BY DEF HubOK, HubRec
<1>3. r.sink \in SinkRec /\ r.sink.holds = {}
  BY <1>2, SinkResetFact
<1> QED BY <1>1, <1>3, NoOwnerFact

\* CheckState may end ownership and interaction; where it finds the sink down,
\* nobody owns the devices.
LEMMA CheckStateFact ==
  ASSUME NEW h, HubOK(h), NEW c \in CheckState(h)
  PROVE  /\ Less(h, c.hub) /\ c.up \in BOOLEAN
         /\ ~c.up => c.hub.owner = NoKey
         /\ c.up => h.started
<1> DEFINE seen == [h EXCEPT !.sink.changed = FALSE]
<1>0. h \in HubRec /\ h.sink \in SinkRec
  BY DEF HubOK, HubRec
<1>1. CASE ~h.started \/ ~h.hasSink
  <2>1. c = [hub |-> h, up |-> FALSE]
    BY <1>1 DEF CheckState
  <2> QED BY <1>1, <2>1, LessFact DEF HubOK
<1>2. CASE h.started /\ h.hasSink
  <2> DEFINE hubs == CASE h.sink.changed /\ h.owner # NoKey ->
                            {InvalidateInteraction(r) : r \in ResetOwner(seen)}
                       [] h.sink.changed /\ h.owner = NoKey ->
                            {InvalidateInteraction(seen)}
                       [] ~h.sink.changed /\ h.owner # NoKey /\ ~h.live ->
                            {InvalidateInteraction(r) : r \in ResetOwner(h)}
                       [] OTHER -> {h}
  <2>0. c \in {[hub |-> r, up |-> h.sink.avail] : r \in hubs}
    BY <1>2, Zenon DEF CheckState
  <2>1. c.up = h.sink.avail /\ c.hub \in hubs
    <3> HIDE DEF hubs
    <3> QED BY <2>0
  <2>2. /\ seen \in HubRec /\ seen.owner = h.owner /\ seen.inter = h.inter /\ seen.started = h.started
        /\ seen.hasSink = h.hasSink /\ seen.sink \in SinkRec /\ seen.sink.avail = h.sink.avail
        /\ seen.sink.holds = h.sink.holds
    BY <1>0 DEF HubRec, SinkRec
  <2>3. c.up \in BOOLEAN
    <3> HIDE DEF hubs
    <3> QED BY <1>0, <2>1 DEF SinkRec
  <2> HIDE DEF seen
  <2>4. CASE h.sink.changed /\ h.owner # NoKey
    <3>1. PICK r \in ResetOwner(seen) : c.hub = InvalidateInteraction(r)
      BY <2>1, <2>4
    <3>2. PICK q \in SinkReset(seen.sink) : r = NoOwner([seen EXCEPT !.sink = q.sink])
      BY DEF ResetOwner
    <3>3. q.sink \in SinkRec /\ q.sink.holds = {}
      BY <2>2, SinkResetFact DEF HubOK
    <3>4. /\ r \in HubRec /\ r.owner = NoKey /\ r.inter = h.inter /\ r.started = h.started
          /\ r.hasSink = h.hasSink /\ r.sink = q.sink
      BY <2>2, <3>2, <3>3 DEF NoOwner, HubRec
    <3>5. Less(h, r)
      BY <3>3, <3>4 DEF Less, HubOK
    <3> QED BY <1>2, <2>3, <3>1, <3>4, <3>5, LessFact
  <2>5. CASE h.sink.changed /\ h.owner = NoKey
    <3>1. c.hub = InvalidateInteraction(seen)
      BY <2>1, <2>5
    <3>2. Less(h, seen)
      BY <2>2, <2>5 DEF Less, HubOK
    <3> QED BY <1>2, <2>2, <2>3, <2>5, <3>1, <3>2, LessFact
  <2>6. CASE ~h.sink.changed /\ h.owner # NoKey /\ ~h.live
    <3>1. PICK r \in ResetOwner(h) : c.hub = InvalidateInteraction(r)
      BY <2>1, <2>6
    <3>2. Less(h, r) /\ r.owner = NoKey
      BY ResetOwnerFact
    <3> QED BY <1>2, <2>3, <3>1, <3>2, LessFact
  <2>7. CASE ~h.sink.changed /\ (h.owner = NoKey \/ h.live)
    <3>1. c.hub = h
      BY <2>1, <2>7
    <3> QED BY <1>2, <2>1, <2>3, <2>7, <3>1, LessFact DEF HubOK
  <2> QED BY <2>4, <2>5, <2>6, <2>7
<1> QED BY <1>1, <1>2

\* GetState is CheckState for a binding that is present; it reports an
\* ownership only to the owner, and never hides it from a valid binding.
LEMMA GetStateFact ==
  ASSUME NEW h, HubOK(h), NEW k, NEW r \in GetState(h, k)
  PROVE  /\ Less(h, r.hub)
         /\ r.hub.owner = k /\ k # NoKey /\ k.client # 0 /\ BindingValid(k) => r.owned
<1>1. CASE ~BindingPresent(k)
  <2>1. r = [hub |-> h, owned |-> FALSE]
    BY <1>1 DEF GetState
  <2>2. ~BindingValid(k)
    BY <1>1 DEF BindingValid, BindingPresent
  <2> QED BY <2>1, <2>2, LessFact
<1>2. CASE BindingPresent(k)
  <2>1. PICK c \in CheckState(h) :
          r = [hub |-> c.hub, owned |-> c.up /\ BindingValid(k) /\ k.client # 0 /\ c.hub.owner = k]
    BY <1>2 DEF GetState
  <2>2. Less(h, c.hub) /\ c.up \in BOOLEAN /\ (~c.up => c.hub.owner = NoKey)
    BY CheckStateFact
  <2> QED BY <2>1, <2>2
<1> QED BY <1>1, <1>2

\* Detach ends what the binding owns.
LEMMA DetachFact ==
  ASSUME NEW h, HubOK(h), NEW b \in Backends, NEW e, NEW g \in Detach(h, b, e)
  PROVE  /\ Less(h, g)
         /\ ~(g.owner.backend = b /\ g.owner.epoch = e)
<1> DEFINE gs == IF h.owner.backend = b /\ h.owner.epoch = e
                   THEN IF h.hasSink THEN ResetOwner(h) ELSE {NoOwner(h)}
                   ELSE {h}
<1>1. PICK f \in gs : g = AdvanceInteraction(IF f.inter.backend = b /\ f.inter.epoch = e
                                               THEN ClearInteraction(f) ELSE f)
  BY DEF Detach
<1>2. Less(h, f) /\ ~(f.owner.backend = b /\ f.owner.epoch = e)
  <2>1. CASE h.owner.backend = b /\ h.owner.epoch = e
    <3>1. h.owner # NoKey /\ h.hasSink
      BY <2>1, KeyFacts DEF HubOK
    <3>2. f \in ResetOwner(h)
      BY <2>1, <3>1
    <3>3. Less(h, f) /\ f.owner = NoKey
      BY <3>2, ResetOwnerFact
    <3> QED BY <3>3, KeyFacts
  <2>2. CASE ~(h.owner.backend = b /\ h.owner.epoch = e)
    BY <2>2, LessFact
  <2> QED BY <2>1, <2>2
<1> HIDE DEF gs
<1>3. Less(h, ClearInteraction(f)) /\ ClearInteraction(f).owner = f.owner
  BY <1>2, LessFact
<1>4. CASE f.inter.backend = b /\ f.inter.epoch = e
  BY <1>1, <1>2, <1>3, <1>4, LessFact
<1>5. CASE ~(f.inter.backend = b /\ f.inter.epoch = e)
  BY <1>1, <1>2, <1>5, LessFact
<1> QED BY <1>4, <1>5

\* RevokeInteraction ends the interaction of the binding.
LEMMA RevokeFact ==
  ASSUME NEW h, HubOK(h), NEW b \in Backends, NEW e
  PROVE  /\ Less(h, RevokeInteraction(h, b, e))
         /\ ~(RevokeInteraction(h, b, e).inter.backend = b /\ RevokeInteraction(h, b, e).inter.epoch = e)
<1>1. Less(h, h) /\ Less(h, ClearInteraction(h)) /\ ClearInteraction(h).inter = NoKey
  BY LessFact
<1>2. CASE h.inter.backend = b /\ h.inter.epoch = e
  BY <1>1, <1>2, LessFact, KeyFacts DEF RevokeInteraction
<1>3. CASE ~(h.inter.backend = b /\ h.inter.epoch = e)
  BY <1>1, <1>3, LessFact DEF RevokeInteraction
<1> QED BY <1>2, <1>3

\* Less is transitive.
LEMMA LessTransitive ==
  ASSUME NEW f, NEW g, NEW h, Less(f, g), Less(g, h)
  PROVE  Less(f, h)
BY DEF Less

\* A claim ends things, or makes the key the owner of neutral devices.
LEMMA ClaimFact ==
  ASSUME NEW h0, HubOK(h0), NEW k \in Keys, NEW r \in Claim(h0, k)
  PROVE  \/ Less(h0, r.hub) /\ (r.ok => r.hub.owner = k)
         \/ /\ HubOK(r.hub) /\ r.hub.owner = k /\ r.hub.inter = NoKey /\ r.hub.sink.holds = {} /\ r.ok
            /\ r.hub.started = h0.started /\ BindingValid(k) /\ h0.started
<1>1. CASE ~BindingValid(k)
  <2>1. r = [hub |-> h0, ok |-> FALSE]
    BY <1>1 DEF Claim
  <2> QED BY <2>1, LessFact
<1>2. CASE BindingValid(k)
  <2> DEFINE won(h, s)  == [hub |-> InvalidateInteraction([h EXCEPT !.sink = s, !.owner = k, !.live = TRUE]),
                            ok |-> TRUE]
             lost(h, s) == [hub |-> InvalidateInteraction([h EXCEPT !.sink = [s EXCEPT !.changed = FALSE]]),
                            ok |-> FALSE]
  <2>1. PICK c \in CheckState(h0) :
          r \in CASE ~c.up -> {[hub |-> c.hub, ok |-> FALSE]}
                  [] c.up /\ c.hub.owner # NoKey -> {[hub |-> c.hub, ok |-> c.hub.owner = k]}
                  [] OTHER -> {IF q.ok /\ ~q.sink.changed THEN won(c.hub, q.sink) ELSE lost(c.hub, q.sink)
                               : q \in SinkReset(c.hub.sink)}
    BY <1>2, Zenon DEF Claim
  <2>2. Less(h0, c.hub) /\ c.up \in BOOLEAN /\ (c.up => h0.started)
    BY CheckStateFact
  <2>3. CASE ~c.up
    <3>1. r = [hub |-> c.hub, ok |-> FALSE]
      BY <2>1, <2>3
    <3> QED BY <2>2, <3>1
  <2>4. CASE c.up /\ c.hub.owner # NoKey
    <3>1. r = [hub |-> c.hub, ok |-> c.hub.owner = k]
      BY <2>1, <2>4
    <3> QED BY <2>2, <3>1
  <2>5. CASE c.up /\ c.hub.owner = NoKey
    <3>1. PICK q \in SinkReset(c.hub.sink) :
            r = IF q.ok /\ ~q.sink.changed THEN won(c.hub, q.sink) ELSE lost(c.hub, q.sink)
      <4>1. r \in {IF q.ok /\ ~q.sink.changed THEN won(c.hub, q.sink) ELSE lost(c.hub, q.sink)
                               : q \in SinkReset(c.hub.sink)}
        <5> HIDE DEF won, lost
        <5> QED BY <2>1, <2>5
      <4> HIDE DEF won, lost
      <4> QED BY <4>1
    <3>2. c.hub \in HubRec /\ c.hub.sink \in SinkRec /\ (~c.hub.sink.avail => c.hub.sink.holds = {}) /\ HubOK(c.hub)
      BY <2>2 DEF Less, HubOK, HubRec
    <3>3. q.sink \in SinkRec /\ q.sink.holds = {} /\ (q.ok => q.sink.avail)
      BY <3>2, SinkResetFact
    <3>4. CASE q.ok /\ ~q.sink.changed
      <4>1. r.hub = InvalidateInteraction([c.hub EXCEPT !.sink = q.sink, !.owner = k, !.live = TRUE]) /\ r.ok
        BY <3>1, <3>4
      <4>2. /\ r.hub \in HubRec /\ r.hub.owner = k /\ r.hub.inter = NoKey /\ r.hub.started = c.hub.started
            /\ r.hub.hasSink = c.hub.hasSink /\ r.hub.sink = q.sink
        BY <3>2, <3>3, <4>1, ZenonT(60) DEF InvalidateInteraction, AdvanceInteraction, ClearInteraction, HubRec
      <4>3. c.hub.started = h0.started /\ h0.started
        BY <2>2, <2>5 DEF Less
      <4>4. HubOK(r.hub)
        BY <3>2, <3>3, <3>4, <4>2, <4>3 DEF HubOK
      <4> QED BY <1>2, <3>3, <4>1, <4>2, <4>3, <4>4
    <3>5. CASE ~(q.ok /\ ~q.sink.changed)
      <4>1. r.hub = InvalidateInteraction([c.hub EXCEPT !.sink = [q.sink EXCEPT !.changed = FALSE]]) /\ ~r.ok
        BY <3>1, <3>5
      <4> DEFINE s == [q.sink EXCEPT !.changed = FALSE]
      <4>2. s \in SinkRec /\ s.holds = {}
        BY <3>3 DEF SinkRec
      <4>6. r.hub = InvalidateInteraction([c.hub EXCEPT !.sink = s])
        BY <4>1
      <4> HIDE DEF s
      <4>3. /\ r.hub \in HubRec /\ r.hub.owner = c.hub.owner /\ r.hub.inter = NoKey /\ r.hub.started = c.hub.started
            /\ r.hub.hasSink = c.hub.hasSink /\ r.hub.sink = s
        BY <3>2, <4>6, <4>2 DEF InvalidateInteraction, AdvanceInteraction, ClearInteraction, HubRec
      <4>4. Less(c.hub, r.hub)
        BY <2>5, <3>2, <4>2, <4>3 DEF Less, HubOK
      <4>5. Less(h0, r.hub)
        BY <2>2, <4>4, LessTransitive
      <4> QED BY <4>1, <4>5
    <3> QED BY <3>4, <3>5
  <2> QED BY <2>2, <2>3, <2>4, <2>5
<1> QED BY <1>1, <1>2

\* A call of the owner may add its own reports to what the devices hold; one
\* that fails has ended the ownership, or was not the owner's.
LEMMA OwnedFact ==
  ASSUME NEW h0, HubOK(h0), NEW k \in Keys, NEW call \in {"touch", "reset", "report"}, NEW r \in Owned(h0, k, call)
  PROVE  \/ Less(h0, r.hub)
         \/ /\ HubOK(r.hub) /\ r.hub.owner = k /\ h0.owner = k /\ r.hub.inter \in {h0.inter, NoKey}
            /\ r.hub.started = h0.started /\ r.hub.sink.holds \subseteq h0.sink.holds \cup {k}
<1>1. CASE ~BindingValid(k)
  <2>1. r = [hub |-> h0, ok |-> FALSE]
    BY <1>1 DEF Owned
  <2> QED BY <2>1, LessFact
<1>2. CASE BindingValid(k)
  <2>1. PICK c \in CheckState(h0) :
          r \in CASE ~c.up \/ ~OwnerValid(c.hub, k) -> {[hub |-> c.hub, ok |-> FALSE]}
                  [] c.up /\ OwnerValid(c.hub, k) ->
                       CASE call = "touch"  -> Touched(c.hub)
                         [] call = "reset"  -> WasReset(c.hub)
                         [] call = "report" -> Reported(c.hub, k)
    BY <1>2, Zenon DEF Owned
  <2>2. Less(h0, c.hub) /\ c.up \in BOOLEAN
    BY CheckStateFact
  <2>3. CASE ~c.up \/ ~OwnerValid(c.hub, k)
    <3>1. r = [hub |-> c.hub, ok |-> FALSE]
      BY <2>1, <2>3
    <3> QED BY <2>2, <3>1
  <2>4. CASE c.up /\ OwnerValid(c.hub, k)
    <3>0. c.hub \in HubRec /\ c.hub.sink \in SinkRec /\ (~c.hub.sink.avail => c.hub.sink.holds = {}) /\ HubOK(c.hub)
          /\ c.hub.owner = k /\ h0.owner = k /\ c.hub.started = h0.started /\ c.hub.inter \in {h0.inter, NoKey}
          /\ c.hub.sink.holds \subseteq h0.sink.holds
      BY <2>2, <2>4, KeyFacts DEF Less, HubOK, HubRec, OwnerValid
    <3>t. ASSUME NEW s \in SinkRec, s.avail, s.holds \subseteq c.hub.sink.holds \cup {k},
                 r.hub = [c.hub EXCEPT !.sink = s, !.live = TRUE]
          PROVE  /\ HubOK(r.hub) /\ r.hub.owner = k /\ h0.owner = k /\ r.hub.inter \in {h0.inter, NoKey}
                 /\ r.hub.started = h0.started /\ r.hub.sink.holds \subseteq h0.sink.holds \cup {k}
      <4>1. /\ r.hub \in HubRec /\ r.hub.owner = c.hub.owner /\ r.hub.inter = c.hub.inter
            /\ r.hub.started = c.hub.started /\ r.hub.hasSink = c.hub.hasSink /\ r.hub.sink = s
        BY <3>0, <3>t DEF HubRec
      <4>2. HubOK(r.hub)
        BY <3>0, <3>t, <4>1 DEF HubOK
      <4>3. s.holds \subseteq h0.sink.holds \cup {k}
        BY <3>0, <3>t
      <4> QED BY <3>0, <4>1, <4>2, <4>3
    <3>1. CASE call = "touch"
      <4>1. r \in Touched(c.hub)
        BY <2>1, <2>4, <3>1
      <4>2. r.hub = [c.hub EXCEPT !.live = TRUE]
        BY <4>1 DEF Touched
      <4>3. /\ r.hub \in HubRec /\ r.hub.owner = c.hub.owner /\ r.hub.inter = c.hub.inter
            /\ r.hub.started = c.hub.started /\ r.hub.hasSink = c.hub.hasSink /\ r.hub.sink = c.hub.sink
        BY <3>0, <4>2 DEF HubRec
      <4>4. HubOK(r.hub)
        BY <3>0, <4>3 DEF HubOK
      <4> QED BY <3>0, <4>3, <4>4
    <3>2. CASE call = "reset"
      <4>1. r \in WasReset(c.hub)
        BY <2>1, <2>4, <3>2
      <4> DEFINE after(q) == IF q.ok THEN [c.hub EXCEPT !.sink = q.sink, !.live = TRUE]
                             ELSE InvalidateInteraction(NoOwner([c.hub EXCEPT !.sink = q.sink]))
      <4>a. r \in {[hub |-> after(q), ok |-> q.ok] : q \in SinkReset(c.hub.sink)}
        BY <4>1, Zenon DEF WasReset
      <4>2. PICK q \in SinkReset(c.hub.sink) : r.hub = after(q)
        <5> HIDE DEF after
        <5> QED BY <4>a
      <4>3. q.sink \in SinkRec /\ q.sink.holds = {} /\ (q.ok => q.sink.avail) /\ q.ok \in BOOLEAN
        BY <3>0, SinkResetFact
      <4>4. CASE q.ok
        <5>1. r.hub = [c.hub EXCEPT !.sink = q.sink, !.live = TRUE]
          BY <4>2, <4>4
        <5>2. q.sink.holds \subseteq c.hub.sink.holds \cup {k} /\ q.sink.avail /\ q.sink \in SinkRec
          BY <4>3, <4>4
        <5> HIDE DEF after
        <5> QED BY <3>t, <5>1, <5>2
      <4>5. CASE ~q.ok
        <5>1. Less(c.hub, NoOwner([c.hub EXCEPT !.sink = q.sink]))
          BY <3>0, <4>3, NoOwnerFact
        <5>2. Less(c.hub, r.hub)
          BY <3>0, <4>2, <4>5, <5>1, LessFact
        <5> QED BY <2>2, <5>2, LessTransitive
      <4> QED BY <4>3, <4>4, <4>5
    <3>3. CASE call = "report"
      <4>1. r \in Reported(c.hub, k)
        BY <2>1, <2>4, <3>3
      <4>2. PICK q \in SinkSend(c.hub.sink, k) :
              r \in IF q.ok
                      THEN {[hub |-> [c.hub EXCEPT !.sink = q.sink, !.live = TRUE], ok  |-> TRUE]}
                      ELSE {[hub |-> InvalidateInteraction(g), ok |-> FALSE]
                            : g \in ResetOwner([c.hub EXCEPT !.sink = q.sink])}
        BY <4>1 DEF Reported
      <4>3. /\ q.ok \in BOOLEAN /\ q.sink \in SinkRec /\ q.sink.holds \subseteq c.hub.sink.holds \cup {k}
            /\ (q.ok => q.sink.avail) /\ (~q.ok => q.sink.holds = {})
        BY <3>0, SinkSendFact
      <4>4. CASE q.ok
        <5>1. r.hub = [c.hub EXCEPT !.sink = q.sink, !.live = TRUE]
          BY <4>2, <4>4
        <5> QED BY <3>t, <4>3, <4>4, <5>1
      <4>5. CASE ~q.ok
        <5>1. PICK g \in ResetOwner([c.hub EXCEPT !.sink = q.sink]) : r.hub = InvalidateInteraction(g)
          BY <4>2, <4>5
        <5>2. PICK p \in SinkReset([c.hub EXCEPT !.sink = q.sink].sink) :
                g = NoOwner([[c.hub EXCEPT !.sink = q.sink] EXCEPT !.sink = p.sink])
          BY DEF ResetOwner
        <5>3. [c.hub EXCEPT !.sink = q.sink].sink = q.sink
          BY <3>0 DEF HubRec
        <5>4. p.sink \in SinkRec /\ p.sink.holds = {}
          BY <4>3, <4>5, <5>3, SinkResetFact
        <5>5. /\ g \in HubRec /\ g.owner = NoKey /\ g.inter = c.hub.inter
              /\ g.started = c.hub.started /\ g.hasSink = c.hub.hasSink /\ g.sink = p.sink
          BY <3>0, <4>3, <5>2, <5>4 DEF NoOwner, HubRec
        <5>6. Less(c.hub, g)
          BY <3>0, <5>4, <5>5 DEF Less, HubOK
        <5>7. Less(c.hub, r.hub)
          BY <3>0, <5>1, <5>6, LessFact
        <5> QED BY <2>2, <5>7, LessTransitive
      <4> QED BY <4>3, <4>4, <4>5
    <3> QED BY <3>1, <3>2, <3>3
  <2> QED BY <2>2, <2>3, <2>4
<1> QED BY <1>1, <1>2

\* Release gives up the ownership of the key, with a reset or, where the hub
\* has ended it already, without.
LEMMA ReleaseFact ==
  ASSUME NEW h, HubOK(h), NEW k \in Keys, NEW reset \in BOOLEAN, NEW g \in Release(h, k, reset),
         reset \/ h.owner # k
  PROVE  Less(h, g) /\ (BindingValid(k) => g.owner # k)
<1>1. CASE ~OwnerValid(h, k)
  <2>1. g = h
    BY <1>1 DEF Release
  <2> QED BY <1>1, <2>1, LessFact DEF OwnerValid
<1>2. CASE OwnerValid(h, k)
  <2>1. h.owner = k /\ h.hasSink /\ reset
    BY <1>2, KeyFacts DEF OwnerValid, HubOK
  <2>2. PICK f \in ResetOwner(h) : g = InvalidateInteraction(f)
    BY <1>2, <2>1 DEF Release
  <2>3. Less(h, f) /\ f.owner = NoKey
    BY ResetOwnerFact
  <2> QED BY <2>2, <2>3, LessFact, KeyFacts
<1> QED BY <1>1, <1>2

-----------------------------------------------------------------------------
(* The initial state, and the parts that many steps leave alone.           *)

\* A set of naturals that is not empty has a least element.
LEMMA LeastExists ==
  ASSUME NEW S, S \subseteq Nat, S # {}
  PROVE  \E x \in S : \A y \in S : x <= y
<1> DEFINE R == OpToRel(<, Nat)
<1>1. IsWellFoundedOn(R, Nat)
  BY NatLessThanWellFounded
<1>2. PICK x \in S : \A y \in S : ~(<<y, x>> \in R)
  <2> HIDE DEF R
  <2> QED BY <1>1, WFMin
<1>3. ASSUME NEW y \in S PROVE x <= y
  <2>1. x \in Nat /\ y \in Nat /\ ~(<<y, x>> \in R)
    BY <1>2
  <2> QED BY <2>1 DEF OpToRel
<1> QED BY <1>3

\* A set of slots that is not empty has a first one.
LEMMA FirstFact ==
  ASSUME NEW S, S \subseteq Slots, S # {}
  PROVE  First(S) \in S
<1>1. S \subseteq Nat
  BY InputHubConstants DEF Slots
<1>2. \E i \in S : \A j \in S : i <= j
  BY <1>1, LeastExists
<1> QED BY <1>2 DEF First

\* And a last one.
LEMMA LastFact ==
  ASSUME NEW S, S \subseteq Slots, S # {}
  PROVE  Last(S) \in S
<1> DEFINE D == {MAX_SOURCES - i : i \in S}
<1>1. /\ MAX_SOURCES \in Nat
      /\ \A i \in S : i \in Nat /\ MAX_SOURCES - i \in Nat
  BY InputHubConstants DEF Slots
<1>2. D \subseteq Nat /\ D # {}
  BY <1>1
<1>3. PICK x \in D : \A y \in D : x <= y
  <2> HIDE DEF D
  <2> QED BY <1>2, LeastExists
<1>4. PICK i \in S : x = MAX_SOURCES - i
  BY <1>3
<1>5. ASSUME NEW j \in S PROVE j <= i
  <2>1. MAX_SOURCES - i <= MAX_SOURCES - j
    BY <1>3, <1>4
  <2> QED BY <1>1, <2>1
<1>6. \E i_1 \in S : \A j \in S : j <= i_1
  BY <1>5
<1> QED BY <1>6 DEF Last

\* Nothing is bound, nobody owns.
LEMMA InitHolds == Init => HubInv
<1> SUFFICES ASSUME Init PROVE HubInv
  OBVIOUS
<1>1. /\ hub \in HubRec /\ hub.owner = NoKey /\ hub.inter = NoKey /\ ~hub.started /\ hub.sink.holds = {}
  BY DEF Init, HubRec, SinkRec
<1>2. m_sources \in [Slots -> SlotRec] /\ \A i \in Slots : ~Bound(i) /\ ~m_sources[i].running /\ ~m_sources[i].failurePending
  <2>1. m_sources = [i \in Slots |-> NoSlot]
    BY DEF Init
  <2>2. 0 \in 0..MaxEpoch
    BY InputHubConstants
  <2>3. NoSlot \in SlotRec /\ ~NoSlot.active /\ ~NoSlot.failed /\ ~NoSlot.reserved /\ ~NoSlot.running /\ ~NoSlot.failurePending
    BY <2>2 DEF NoSlot, SlotRec
  <2> QED BY <2>1, <2>3 DEF Bound
<1>3. worker \in [Backends -> WorkerRec] /\ \A b \in Backends : worker[b].at = "none"
  BY DEF Init, NoWorker, WorkerRec, Stages
<1>4. entry \in [Backends -> EntryRec]
  BY InputHubConstants DEF Init, EntryRec
<1>5. mgr = Idle /\ disp = Idle /\ mgr.op = "idle" /\ disp.op = "idle"
  BY DEF Init, Idle
<1>6. TypeOK /\ HubOK(hub)
  BY <1>1, <1>2, <1>3, <1>4, <1>5 DEF TypeOK, HubOK
<1>7. SlotInv
  BY <1>2 DEF SlotInv
<1>8. CallInv
  BY <1>5 DEF CallInv, MgrInv, DispInv, Calling
<1>9. WorkerInv /\ OwnerInv /\ InterInv /\ HoldsInv
  BY <1>1, <1>3, <1>5 DEF WorkerInv, OwnerInv, OwnerIsBound, InterInv, HoldsInv
<1> QED BY <1>6, <1>7, <1>8, <1>9 DEF HubInv

\* What a call that only ends things leaves true of the devices and of the
\* interaction.
LEMMA LessKeeps ==
  ASSUME HubInv, Less(hub, hub'), disp' = disp
  PROVE  HoldsInv' /\ (entry' = entry => InterInv')
<1>1. HoldsInv'
  BY DEF HubInv, HoldsInv, Less
<1>2. ASSUME entry' = entry PROVE InterInv'
  BY <1>2, ZenonT(60) DEF HubInv, InterInv, Less
<1> QED BY <1>1, <1>2

\* The ownership survives a step that may end it, if the owner's slot and its
\* worker keep what they are.
LEMMA OwnerKept ==
  ASSUME HubInv, Less(hub, hub'),
         hub'.owner # NoKey =>
           /\ \A i \in Slots : BackendOf(i) = hub.owner.backend /\ m_sources[i].epoch = hub.owner.epoch
                               /\ m_sources[i].active /\ ~m_sources[i].reserved =>
                /\ m_sources'[i].backend = m_sources[i].backend /\ m_sources'[i].epoch = m_sources[i].epoch
                /\ m_sources'[i].active /\ ~m_sources'[i].reserved
           /\ LET s == worker[hub.owner.backend].slot
              IN  m_sources'[s].backend = m_sources[s].backend /\ m_sources'[s].epoch = m_sources[s].epoch
           /\ LET v == worker'[hub.owner.backend]
              IN  /\ v.at \in {"loop", "release", "leave"}
                  /\ v.owner = worker[hub.owner.backend].owner /\ v.slot = worker[hub.owner.backend].slot
  PROVE  OwnerInv'
<1> SUFFICES ASSUME hub'.owner # NoKey PROVE OwnerInv'
  BY DEF OwnerInv, OwnerIsBound
<1>1. hub'.owner = hub.owner /\ hub.owner # NoKey /\ OwnerInv
  BY DEF HubInv, Less
<1>2. OwnerIsBound'
  <2>1. PICK i \in Slots : /\ m_sources[i].backend = hub.owner.backend /\ m_sources[i].epoch = hub.owner.epoch
                           /\ m_sources[i].active /\ ~m_sources[i].reserved
    BY <1>1 DEF OwnerInv, OwnerIsBound
  <2>2. /\ m_sources'[i].backend = m_sources[i].backend /\ m_sources'[i].epoch = m_sources[i].epoch
        /\ m_sources'[i].active /\ ~m_sources'[i].reserved
    BY <2>1 DEF BackendOf
  <2> QED BY <1>1, <2>1, <2>2 DEF OwnerIsBound
<1>3. LET w == worker[hub.owner.backend]
      IN  /\ w.at \in {"loop", "release", "leave"} /\ w.owner # NoClient
          /\ hub.owner = Key(hub.owner.backend, w.owner)
  BY <1>1 DEF OwnerInv
<1> QED BY <1>1, <1>2, <1>3 DEF OwnerInv, Key

\* A step of one worker that keeps its slot, and of the hub.
LEMMA WorkerKeeps ==
  ASSUME HubInv, NEW b \in Backends, NEW v \in WorkerRec, worker' = [worker EXCEPT ![b] = v],
         v.at = "none" <=> worker[b].at = "none", v.slot = worker[b].slot,
         UNCHANGED <<m_sources, mgr, disp, entry>>, HubOK(hub'), hub'.started = hub.started
  PROVE  TypeOK' /\ HubOK(hub)' /\ SlotInv' /\ CallInv' /\ WorkerInv'
<1>0. TypeOK /\ SlotInv /\ MgrInv /\ DispInv /\ WorkerInv
  BY DEF HubInv, CallInv
<1>1. worker' \in [Backends -> WorkerRec] /\ hub' \in HubRec
  BY <1>0 DEF TypeOK, HubOK
<1>2. TypeOK'
  BY <1>0, <1>1 DEF TypeOK
<1>3. \A a : worker'[a].at = "none" <=> worker[a].at = "none"
  BY <1>0 DEF TypeOK
<1>4. \A a \in Backends : worker'[a].slot = worker[a].slot
  BY <1>0 DEF TypeOK
<1>5. SlotInv'
  BY <1>0 DEF SlotInv, Bound, BackendOf, Calling
<1>6. MgrInv'
  BY <1>0, <1>3 DEF MgrInv, Bound, BackendOf, Calling
<1>7. DispInv'
  BY <1>0, <1>3 DEF DispInv, Bound, BackendOf
<1>8. WorkerInv'
  BY <1>0, <1>3, <1>4 DEF WorkerInv, Bound, BackendOf, Calling
<1> QED BY <1>2, <1>5, <1>6, <1>7, <1>8 DEF CallInv

-----------------------------------------------------------------------------
(* The steps of a worker.                                                  *)

\* The key under which the worker of an instance speaks, when it runs.
LEMMA KeyOfWorker ==
  ASSUME HubInv, NEW b \in Backends, worker[b].at # "none", NEW o \in ClientRec
  PROVE  /\ Key(b, o) \in Keys /\ Key(b, o).backend = b /\ Key(b, o) # NoKey /\ Key(b, o).client = o.client
         /\ Key(b, o).client # 0 /\ Key(b, o).generation = o.generation
<1> DEFINE s == m_sources[worker[b].slot]
<1>1. worker[b].slot \in Slots /\ s.backend = b /\ s.epoch = entry[b].epoch
  BY DEF HubInv, WorkerInv, SlotInv, BackendOf
<1>2. s.epoch \in 1..MaxEpoch
  BY <1>1 DEF HubInv, TypeOK, EntryRec
<1>3. o.client \in Clients /\ o.generation \in Generations /\ o.client # 0
  BY KeyFacts DEF ClientRec
<1>4. Key(b, o) = [backend |-> b, epoch |-> s.epoch, client |-> o.client, generation |-> o.generation]
  BY <1>1 DEF Key
<1> HIDE DEF s
<1> QED BY <1>2, <1>3, <1>4, KeyFacts DEF Keys

\* The owner, when it is of this instance, is whom its worker takes it for.
LEMMA OwnerOfWorker ==
  ASSUME HubInv, NEW b \in Backends, hub.owner # NoKey, hub.owner.backend = b
  PROVE  /\ worker[b].at \in {"loop", "release", "leave"} /\ worker[b].owner \in ClientRec
         /\ hub.owner = Key(b, worker[b].owner) /\ BindingValid(hub.owner)
<1>1. /\ worker[b].at \in {"loop", "release", "leave"} /\ worker[b].owner # NoClient
      /\ hub.owner = Key(b, worker[b].owner)
  BY DEF HubInv, OwnerInv
<1>2. worker[b].owner \in ClientRec
  BY <1>1 DEF HubInv, TypeOK, WorkerRec
<1>3. BindingValid(hub.owner)
  BY DEF HubInv, OwnerInv, OwnerIsBound, BindingValid
<1> QED BY <1>1, <1>2, <1>3

\* A step of a worker that ends things at most: the ownership of its own
\* client survives only with the worker in its loop.
LEMMA WorkerEnds ==
  ASSUME HubInv, NEW b \in Backends, NEW v \in WorkerRec, worker' = [worker EXCEPT ![b] = v],
         v.at = "none" <=> worker[b].at = "none", v.slot = worker[b].slot,
         UNCHANGED <<m_sources, mgr, disp, entry>>, Less(hub, hub'),
         hub'.owner # NoKey /\ hub.owner.backend = b =>
           v.at \in {"loop", "release", "leave"} /\ v.owner = worker[b].owner
  PROVE  HubInv'
<1>1. HubOK(hub') /\ hub'.started = hub.started /\ hub'.owner \in {hub.owner, NoKey}
  BY DEF Less
<1>2. TypeOK' /\ HubOK(hub)' /\ SlotInv' /\ CallInv' /\ WorkerInv'
  BY <1>1, WorkerKeeps
<1>3. HoldsInv' /\ InterInv'
  BY LessKeeps
<1>4. OwnerInv'
  <2>1. ASSUME hub'.owner # NoKey
        PROVE  LET u == worker'[hub.owner.backend]
               IN  /\ u.at \in {"loop", "release", "leave"}
                   /\ u.owner = worker[hub.owner.backend].owner /\ u.slot = worker[hub.owner.backend].slot
    <3>1. hub.owner # NoKey /\ hub.owner.backend \in Backends
      BY <1>1, <2>1, KeyFacts DEF HubInv, HubOK, HubRec
    <3>2. worker[hub.owner.backend].at \in {"loop", "release", "leave"}
      BY <3>1, OwnerOfWorker
    <3>3. worker'[hub.owner.backend] = IF hub.owner.backend = b THEN v ELSE worker[hub.owner.backend]
      BY <3>1 DEF HubInv, TypeOK
    <3> QED BY <2>1, <3>2, <3>3
  <2> QED BY <2>1, OwnerKept
<1> QED BY <1>2, <1>3, <1>4 DEF HubInv

\* A worker's record after some of its fields are set.
LEMMA WorkerType ==
  ASSUME HubInv, NEW b \in Backends
  PROVE  /\ worker \in [Backends -> WorkerRec] /\ worker[b] \in WorkerRec
         /\ worker = [worker EXCEPT ![b] = worker[b]]
BY DEF HubInv, TypeOK

\* CheckOwner.
LEMMA CheckOwnerStep ==
  ASSUME HubInv, NEW b \in Backends, CheckOwner(b)
  PROVE  HubInv'
<1> DEFINE w == worker[b]
<1>0. w \in WorkerRec /\ w.at = "loop" /\ UNCHANGED <<m_sources, mgr, disp, entry>> /\ HubOK(hub)
  BY WorkerType DEF CheckOwner, Loops, HubInv
<1>1. CASE w.owner # NoClient /\ endpoint[b][w.owner.client] # "bound"
  <2> DEFINE v == [w EXCEPT !.at = "release"]
  <2>1. hub' = hub /\ worker' = [worker EXCEPT ![b] = v]
    BY <1>1 DEF CheckOwner
  <2>2. v \in WorkerRec /\ v.at = "release" /\ v.slot = w.slot /\ v.owner = w.owner
    BY <1>0 DEF WorkerRec, Stages
  <2>3. Less(hub, hub')
    BY <1>0, <2>1, LessFact
  <2> HIDE DEF v
  <2> QED BY <1>0, <2>1, <2>2, <2>3, WorkerEnds
<1>2. CASE ~(w.owner # NoClient /\ endpoint[b][w.owner.client] # "bound")
  <2>1. PICK r \in GetState(hub, Key(b, w.owner)) :
          /\ hub' = r.hub
          /\ worker' = [worker EXCEPT ![b].at =
               CASE w.owner = NoClient -> "loop"
                 [] w.owner # NoClient /\ ~r.owned -> "lost"
                 [] OTHER -> IF w.live THEN "loop" ELSE "release"]
    BY <1>2, Zenon DEF CheckOwner
  <2> DEFINE to == CASE w.owner = NoClient -> "loop"
                     [] w.owner # NoClient /\ ~r.owned -> "lost"
                     [] OTHER -> IF w.live THEN "loop" ELSE "release"
             v  == [w EXCEPT !.at = to]
  <2>2. to \in {"loop", "lost", "release"} /\ (to = "lost" => w.owner # NoClient /\ ~r.owned)
    OBVIOUS
  <2>3. worker' = [worker EXCEPT ![b] = v]
    BY <2>1
  <2> HIDE DEF to
  <2>4. v \in WorkerRec /\ v.at = to /\ v.slot = w.slot /\ v.owner = w.owner
    BY <1>0, <2>2 DEF WorkerRec, Stages
  <2>5. Less(hub, hub')
    BY <1>0, <2>1, GetStateFact
  <2>6. ASSUME hub'.owner # NoKey, hub.owner.backend = b PROVE to # "lost"
    <3>1. hub'.owner = hub.owner
      BY <2>5, <2>6 DEF Less
    <3>2. hub.owner = Key(b, w.owner) /\ BindingValid(hub.owner) /\ w.owner \in ClientRec
      BY <2>6, <3>1, OwnerOfWorker
    <3>3. Key(b, w.owner).client # 0
      BY <1>0, <3>2, KeyOfWorker
    <3>4. r.owned
      BY <1>0, <2>1, <2>6, <3>1, <3>2, <3>3, GetStateFact
    <3> QED BY <2>2, <3>4
  <2> HIDE DEF v
  <2> QED BY <1>0, <2>2, <2>3, <2>4, <2>5, <2>6, WorkerEnds
<1> QED BY <1>1, <1>2

\* ReleaseOwner.
LEMMA ReleaseOwnerStep ==
  ASSUME HubInv, NEW b \in Backends, ReleaseOwner(b)
  PROVE  HubInv'
<1> DEFINE w  == worker[b]
           to == IF w.at = "leave" THEN "report" ELSE "loop"
           v  == [w EXCEPT !.owner = NoClient, !.live = FALSE, !.at = to]
<1>0. /\ w \in WorkerRec /\ w.at \in {"lost", "release", "leave"} /\ UNCHANGED <<m_sources, mgr, disp, entry>>
      /\ HubOK(hub)
  BY WorkerType DEF ReleaseOwner, HubInv
<1>1. worker' = [worker EXCEPT ![b] = v]
  BY WorkerType DEF ReleaseOwner
<1>2. v \in WorkerRec /\ v.at \in {"report", "loop"} /\ v.slot = w.slot
  BY <1>0 DEF WorkerRec, Stages
<1>3. CASE w.owner = NoClient
  <2>1. hub' = hub
    BY <1>3 DEF ReleaseOwner
  <2>2. hub.owner = NoKey \/ hub.owner.backend # b
    BY <1>3, OwnerOfWorker, KeyFacts
  <2>3. Less(hub, hub')
    BY <1>0, <2>1, LessFact
  <2> HIDE DEF v
  <2> QED BY <1>0, <1>1, <1>2, <2>1, <2>2, <2>3, WorkerEnds
<1>4. CASE w.owner # NoClient
  <2>0. w.owner \in ClientRec
    BY <1>0, <1>4 DEF WorkerRec
  <2> DEFINE k == Key(b, w.owner)
  <2>1. hub' \in Release(hub, k, w.at # "lost")
    BY <1>4 DEF ReleaseOwner
  <2>2. k \in Keys /\ k.backend = b /\ k # NoKey
    BY <1>0, <2>0, KeyOfWorker
  <2>3. hub.owner # NoKey /\ hub.owner.backend = b => hub.owner = k /\ w.at # "lost" /\ BindingValid(k)
    BY OwnerOfWorker
  <2> HIDE DEF k
  <2>4. w.at # "lost" \/ hub.owner # k
    BY <2>2, <2>3
  <2>5. (w.at # "lost") \in BOOLEAN
    OBVIOUS
  <2>6. Less(hub, hub') /\ (BindingValid(k) => hub'.owner # k)
    BY <1>0, <2>1, <2>2, <2>4, <2>5, ReleaseFact
  <2>7. hub'.owner = NoKey \/ hub.owner.backend # b
    BY <2>3, <2>6 DEF Less
  <2> HIDE DEF v
  <2> QED BY <1>0, <1>1, <1>2, <2>6, <2>7, WorkerEnds
<1> QED BY <1>3, <1>4

\* A message that claims the devices.
LEMMA ClaimStep ==
  ASSUME HubInv, NEW b \in Backends, worker[b].at = "loop", worker[b].owner = NoClient,
         NEW src \in ClientRec, NEW r \in Claim(hub, Key(b, src)), hub' = r.hub,
         worker' = IF r.ok THEN [worker EXCEPT ![b].owner = src, ![b].live = TRUE, ![b].spin = TRUE]
                   ELSE [worker EXCEPT ![b].spin = TRUE],
         UNCHANGED <<m_sources, mgr, disp, entry>>
  PROVE  HubInv'
<1> DEFINE w == worker[b]
           k == Key(b, src)
           v == IF r.ok THEN [w EXCEPT !.owner = src, !.live = TRUE, !.spin = TRUE]
                ELSE [w EXCEPT !.spin = TRUE]
<1>0. HubOK(hub) /\ w \in WorkerRec
  BY WorkerType DEF HubInv
<1>1. k \in Keys /\ k.backend = b /\ k # NoKey
  BY KeyOfWorker
<1>2. worker' = [worker EXCEPT ![b] = v]
  BY WorkerType
<1>3. /\ v \in WorkerRec /\ v.at = "loop" /\ v.slot = w.slot
      /\ r.ok => v.owner = src
  BY <1>0 DEF WorkerRec, Stages
<1>4. ~(hub.owner # NoKey /\ hub.owner.backend = b)
  BY OwnerOfWorker, KeyFacts
<1>5. CASE Less(hub, hub')
  <2>1. ~(hub'.owner # NoKey /\ hub.owner.backend = b)
    BY <1>4, <1>5 DEF Less
  <2> HIDE DEF v, k
  <2> QED BY <1>2, <1>3, <1>5, <2>1, WorkerEnds
<1>6. CASE ~Less(hub, hub')
  <2>1. /\ HubOK(hub') /\ hub'.owner = k /\ hub'.inter = NoKey /\ hub'.sink.holds = {} /\ r.ok
        /\ hub'.started = hub.started /\ BindingValid(k) /\ hub.started
    BY <1>0, <1>1, <1>6, ClaimFact
  <2>2. TypeOK' /\ HubOK(hub)' /\ SlotInv' /\ CallInv' /\ WorkerInv'
    BY <1>2, <1>3, <2>1, WorkerKeeps
  <2>3. InterInv'
    BY <2>1 DEF InterInv
  <2>4. disp.op # "stop"
    BY <2>1 DEF HubInv, CallInv, DispInv
  <2>5. HoldsInv'
    BY <2>1, <2>4 DEF HoldsInv
  <2>6. OwnerIsBound'
    BY <2>1 DEF OwnerIsBound, BindingValid
  <2>7. worker'[b].at = "loop" /\ worker'[b].owner = src /\ worker'[b].slot = w.slot
    BY <1>0, <1>2, <1>3, <2>1, WorkerType
  <2>8. src # NoClient /\ hub'.owner.backend = b
    BY <1>1, <2>1, KeyFacts, Zenon
  <2>9. OwnerInv'
    BY <2>1, <2>6, <2>7, <2>8, ZenonT(60) DEF OwnerInv, Key
  <2> QED BY <2>2, <2>3, <2>5, <2>9 DEF HubInv
<1> QED BY <1>5, <1>6

\* A call in the name of the owner.
LEMMA OwnedStep ==
  ASSUME HubInv, NEW b \in Backends, worker[b].at = "loop", NEW src \in ClientRec, worker[b].owner = src,
         NEW call \in {"touch", "reset", "report"}, NEW r \in Owned(hub, Key(b, src), call), hub' = r.hub,
         worker' = IF r.ok THEN [worker EXCEPT ![b].live = TRUE, ![b].spin = TRUE]
                   ELSE [worker EXCEPT ![b].at = "release", ![b].spin = TRUE],
         UNCHANGED <<m_sources, mgr, disp, entry>>
  PROVE  HubInv'
<1> DEFINE w == worker[b]
           k == Key(b, src)
           v == IF r.ok THEN [w EXCEPT !.live = TRUE, !.spin = TRUE]
                ELSE [w EXCEPT !.at = "release", !.spin = TRUE]
<1>0. HubOK(hub) /\ w \in WorkerRec
  BY WorkerType DEF HubInv
<1>1. k \in Keys /\ k.backend = b /\ k # NoKey
  BY KeyOfWorker
<1>2. worker' = [worker EXCEPT ![b] = v]
  BY WorkerType
<1>3. v \in WorkerRec /\ v.at \in {"loop", "release"} /\ v.slot = w.slot /\ v.owner = w.owner
  BY <1>0 DEF WorkerRec, Stages
<1> HIDE DEF v, k
<1>4. CASE Less(hub, hub')
  BY <1>2, <1>3, <1>4, WorkerEnds
<1>5. CASE ~Less(hub, hub')
  <2>1. /\ HubOK(hub') /\ hub'.owner = k /\ hub.owner = k /\ hub'.inter \in {hub.inter, NoKey}
        /\ hub'.started = hub.started /\ hub'.sink.holds \subseteq hub.sink.holds \cup {k}
    BY <1>0, <1>1, <1>5, OwnedFact DEF k
  <2>2. TypeOK' /\ HubOK(hub)' /\ SlotInv' /\ CallInv' /\ WorkerInv'
    BY <1>2, <1>3, <2>1, WorkerKeeps
  <2>3. InterInv'
    BY <2>1 DEF HubInv, InterInv
  <2>4. disp.op # "stop"
    BY <1>1, <2>1 DEF HubInv, CallInv, DispInv, HubOK
  <2>5. HoldsInv'
    BY <2>1, <2>4 DEF HubInv, HoldsInv
  <2>6. OwnerIsBound'
    BY <2>1 DEF HubInv, OwnerInv, OwnerIsBound
  <2>7. worker'[b] = v
    BY <1>2, WorkerType
  <2>8. src # NoClient /\ hub'.owner.backend = b
    BY <1>1, <2>1, KeyFacts
  <2>9. hub'.owner = Key(b, src)'
    BY <1>3, <2>1, <2>7 DEF Key, k
  <2>10. OwnerInv'
    BY <1>3, <2>6, <2>7, <2>8, <2>9 DEF OwnerInv
  <2> QED BY <2>2, <2>3, <2>5, <2>10 DEF HubInv
<1> QED BY <1>4, <1>5

\* ProcessMessage.
LEMMA ProcessMessageStep ==
  ASSUME HubInv, NEW b \in Backends, NEW c \in Clients, NEW g \in Generations, NEW type \in MessageTypes,
         ProcessMessage(b, c, g, type)
  PROVE  HubInv'
<1> DEFINE w   == worker[b]
           src == [client |-> c, generation |-> g]
<1>0. /\ w \in WorkerRec /\ w.at = "loop" /\ UNCHANGED <<m_sources, mgr, disp, entry>> /\ HubOK(hub)
      /\ src \in ClientRec
  BY WorkerType DEF ProcessMessage, Loops, HubInv, ClientRec
<1>1. CASE /\ type = "claim" /\ w.owner = NoClient
           /\ \E r \in Claim(hub, Key(b, src)) :
                /\ hub' = r.hub
                /\ worker' = IF r.ok
                     THEN [worker EXCEPT ![b].owner = src, ![b].live = TRUE, ![b].spin = TRUE]
                     ELSE [worker EXCEPT ![b].spin = TRUE]
  <2> HIDE DEF src
  <2> QED BY <1>0, <1>1, ClaimStep
<1>2. CASE /\ type \in {"bad", "release"} /\ w.owner = src
           /\ worker' = [worker EXCEPT ![b].at = "release", ![b].spin = TRUE]
           /\ hub' = hub
  <2> DEFINE v == [w EXCEPT !.at = "release", !.spin = TRUE]
  <2>1. worker' = [worker EXCEPT ![b] = v]
    BY <1>2
  <2>2. v \in WorkerRec /\ v.at = "release" /\ v.slot = w.slot /\ v.owner = w.owner
    BY <1>0 DEF WorkerRec, Stages
  <2>3. Less(hub, hub')
    BY <1>0, <1>2, LessFact
  <2> HIDE DEF v
  <2> QED BY <1>0, <2>1, <2>2, <2>3, WorkerEnds
<1>3. CASE /\ type \in {"touch", "reset", "report"} /\ w.owner = src
           /\ \E r \in Owned(hub, Key(b, src), type) :
                /\ hub' = r.hub
                /\ worker' = IF r.ok
                     THEN [worker EXCEPT ![b].live = TRUE, ![b].spin = TRUE]
                     ELSE [worker EXCEPT ![b].at = "release", ![b].spin = TRUE]
  <2> HIDE DEF src
  <2> QED BY <1>0, <1>3, OwnedStep
<1> QED BY <1>1, <1>2, <1>3 DEF ProcessMessage

\* The worker leaves its loop.
LEMMA WorkerLeavesStep ==
  ASSUME HubInv, NEW b \in Backends, NEW failed \in BOOLEAN, WorkerLeaves(b, failed)
  PROVE  HubInv'
<1> DEFINE w == worker[b]
           v == [w EXCEPT !.at = "leave", !.failed = failed, !.spin = FALSE]
<1>0. /\ w \in WorkerRec /\ w.at = "loop" /\ UNCHANGED <<hub, m_sources, mgr, disp, entry>> /\ HubOK(hub)
  BY WorkerType DEF WorkerLeaves, Loops, HubInv
<1>1. worker' = [worker EXCEPT ![b] = v]
  BY WorkerType DEF WorkerLeaves
<1>2. v \in WorkerRec /\ v.at = "leave" /\ v.slot = w.slot /\ v.owner = w.owner
  BY <1>0 DEF WorkerRec, Stages
<1>3. Less(hub, hub')
  BY <1>0, LessFact
<1> HIDE DEF v
<1> QED BY <1>0, <1>1, <1>2, <1>3, WorkerEnds

\* A message that changes nothing keeps the poll spinning.
LEMMA MessageIgnoredStep ==
  ASSUME HubInv, NEW b \in Backends, NEW c \in Clients, MessageIgnored(b, c)
  PROVE  HubInv'
<1> DEFINE w == worker[b]
           v == [w EXCEPT !.spin = TRUE]
<1>0. /\ w \in WorkerRec /\ w.at = "loop" /\ UNCHANGED <<hub, m_sources, mgr, disp, entry>> /\ HubOK(hub)
  BY WorkerType DEF MessageIgnored, Loops, HubInv
<1>1. worker' = [worker EXCEPT ![b] = v]
  BY WorkerType DEF MessageIgnored
<1>2. v \in WorkerRec /\ v.at = "loop" /\ v.slot = w.slot /\ v.owner = w.owner
  BY <1>0 DEF WorkerRec, Stages
<1>3. Less(hub, hub')
  BY <1>0, LessFact
<1> HIDE DEF v
<1> QED BY <1>0, <1>1, <1>2, <1>3, WorkerEnds

\* The poll comes to rest.
LEMMA PollIdleStep ==
  ASSUME HubInv, NEW b \in Backends, PollIdle(b)
  PROVE  HubInv'
<1> DEFINE w == worker[b]
<1>0. /\ w \in WorkerRec /\ w.at = "loop" /\ UNCHANGED <<hub, m_sources, mgr, disp, entry>> /\ HubOK(hub)
  BY WorkerType DEF PollIdle, Loops, HubInv
<1>1. PICK to \in {"leave", "loop"} : to = IF w.stop THEN "leave" ELSE "loop"
  OBVIOUS
<1> DEFINE v == [w EXCEPT !.spin = FALSE, !.at = to]
<1>2. worker' = [worker EXCEPT ![b] = v]
  BY <1>1, WorkerType DEF PollIdle
<1>3. v \in WorkerRec /\ v.at \in {"loop", "leave"} /\ v.slot = w.slot /\ v.owner = w.owner
  BY <1>0, <1>1 DEF WorkerRec, Stages
<1>4. Less(hub, hub')
  BY <1>0, LessFact
<1> HIDE DEF v
<1> QED BY <1>0, <1>2, <1>3, <1>4, WorkerEnds

-----------------------------------------------------------------------------
(* Steps that change a slot.                                               *)

\* A step that leaves the owner's slot and worker alone.
LEMMA OwnerElsewhere ==
  ASSUME HubInv, NEW i \in Slots, Less(hub, hub'), \A j \in Slots : j # i => m_sources'[j] = m_sources[j],
         hub'.owner # NoKey => ~(/\ hub'.owner.backend = m_sources[i].backend
                                 /\ hub'.owner.epoch = m_sources[i].epoch),
         \A a \in Backends : worker[a].at \in {"loop", "release", "leave"} =>
           worker'[a].at = worker[a].at /\ worker'[a].owner = worker[a].owner /\ worker'[a].slot = worker[a].slot
  PROVE  OwnerInv'
<1>1. ASSUME hub'.owner # NoKey
      PROVE  /\ \A j \in Slots : BackendOf(j) = hub.owner.backend /\ m_sources[j].epoch = hub.owner.epoch
                                 /\ m_sources[j].active /\ ~m_sources[j].reserved =>
                  /\ m_sources'[j].backend = m_sources[j].backend /\ m_sources'[j].epoch = m_sources[j].epoch
                  /\ m_sources'[j].active /\ ~m_sources'[j].reserved
             /\ LET s == worker[hub.owner.backend].slot
                IN  m_sources'[s].backend = m_sources[s].backend /\ m_sources'[s].epoch = m_sources[s].epoch
             /\ LET v == worker'[hub.owner.backend]
                IN  /\ v.at \in {"loop", "release", "leave"}
                    /\ v.owner = worker[hub.owner.backend].owner /\ v.slot = worker[hub.owner.backend].slot
  <2>1. hub.owner = hub'.owner /\ hub.owner # NoKey /\ hub.owner.backend \in Backends
    BY <1>1, KeyFacts DEF Less, HubInv, HubOK, HubRec
  <2> DEFINE b == hub.owner.backend
             s == worker[b].slot
  <2>2. worker[b].at \in {"loop", "release", "leave"} /\ hub.owner = Key(b, worker[b].owner)
    BY <2>1, OwnerOfWorker
  <2>3. s \in Slots
    BY <2>1, <2>2 DEF HubInv, WorkerInv
  <2>4. hub.owner.backend = m_sources[s].backend /\ hub.owner.epoch = m_sources[s].epoch
    <3>1. Key(b, worker[b].owner) = [backend |-> m_sources[s].backend, epoch |-> m_sources[s].epoch,
              client |-> worker[b].owner.client, generation |-> worker[b].owner.generation]
      BY Zenon DEF Key
    <3> HIDE DEF s, b
    <3> QED BY <2>2, <3>1
  <2>5. s # i
    BY <1>1, <2>1, <2>4
  <2>6. ASSUME NEW j \in Slots, BackendOf(j) = hub.owner.backend, m_sources[j].epoch = hub.owner.epoch
        PROVE  m_sources'[j] = m_sources[j]
    BY <1>1, <2>1, <2>6 DEF BackendOf
  <2> QED BY <2>1, <2>2, <2>3, <2>5, <2>6
<1> QED BY <1>1, OwnerKept

\* A bound slot that stays bound to the same instance and does not begin to
\* run.
LEMMA SlotKeeps ==
  ASSUME HubInv, NEW i \in Slots, Bound(i), NEW s \in SlotRec, m_sources' = [m_sources EXCEPT ![i] = s],
         s.backend = m_sources[i].backend, s.epoch = m_sources[i].epoch, s.active \/ s.failed \/ s.reserved,
         hub'.started = hub.started, s.running => m_sources[i].running
  PROVE  /\ m_sources' \in [Slots -> SlotRec]
         /\ \A j \in Slots : Bound(j)' = Bound(j) /\ BackendOf(j)' = BackendOf(j)
         /\ UNCHANGED <<mgr, entry>> => SlotInv'
<1>0. m_sources \in [Slots -> SlotRec] /\ SlotInv
  BY DEF HubInv, TypeOK
<1>1. m_sources' \in [Slots -> SlotRec] /\ m_sources'[i] = s /\ \A j \in Slots : j # i => m_sources'[j] = m_sources[j]
  BY <1>0
<1>2. ASSUME NEW j \in Slots
      PROVE  Bound(j)' = Bound(j) /\ BackendOf(j)' = BackendOf(j) /\ m_sources'[j].epoch = m_sources[j].epoch
             /\ (m_sources'[j].running => m_sources[j].running)
  <2>1. m_sources[j] \in SlotRec
    BY <1>0
  <2>2. m_sources[j].active \in BOOLEAN /\ m_sources[j].failed \in BOOLEAN /\ m_sources[j].reserved \in BOOLEAN
        /\ s.active \in BOOLEAN /\ s.failed \in BOOLEAN /\ s.reserved \in BOOLEAN
    BY <2>1 DEF SlotRec
  <2>3. CASE j = i
    <3>1. Bound(i)' <=> s.active \/ s.failed \/ s.reserved
      BY <1>1 DEF Bound
    <3>2. Bound(i)' = TRUE /\ Bound(i) = TRUE
      BY <3>1, <2>2, <2>3 DEF Bound
    <3> QED BY <1>1, <2>3, <3>2 DEF BackendOf
  <2>4. CASE j # i
    BY <1>1, <2>4 DEF Bound, BackendOf
  <2> QED BY <2>3, <2>4
<1>3. ASSUME UNCHANGED <<mgr, entry>> PROVE SlotInv'
  <2>1. mgr' = mgr /\ entry' = entry /\ Calling' = Calling
    BY <1>3 DEF Calling
  <2>2. \A j \in Slots : Bound(j)' =>
           BackendOf(j)' \in Backends /\ m_sources'[j].epoch = entry'[BackendOf(j)'].epoch
    BY <1>0, <1>2, <2>1 DEF SlotInv
  <2>3. \A j \in Slots : m_sources'[j].failurePending \/ m_sources'[j].running => Bound(j)'
    BY <1>0, <1>1, <1>2, <2>1 DEF SlotInv
  <2>4. \A j, k \in Slots : Bound(j)' /\ Bound(k)' /\ BackendOf(j)' = BackendOf(k)' => j = k
    BY <1>0, <1>2 DEF SlotInv
  <2>5. \A j \in Slots : Bound(j)' => \/ Calling' /\ mgr'.slot = j
                                      \/ entry'[BackendOf(j)'].added /\ entry'[BackendOf(j)'].open
    BY <1>0, <1>2, <2>1 DEF SlotInv
  <2>6. ~hub'.started => \A j \in Slots : ~m_sources'[j].running
    BY <1>0, <1>2 DEF SlotInv
  <2> QED BY <2>2, <2>3, <2>4, <2>5, <2>6 DEF SlotInv
<1> QED BY <1>1, <1>2, <1>3

\* The worker reports its failure, if it has one, and exits.
LEMMA WorkerExitsStep ==
  ASSUME HubInv, NEW b \in Backends, WorkerExits(b)
  PROVE  HubInv'
<1> DEFINE w == worker[b]
           v == [w EXCEPT !.at = "exited"]
           i == w.slot
<1>0. /\ w \in WorkerRec /\ w.at = "report" /\ UNCHANGED <<mgr, disp, entry>> /\ HubOK(hub)
      /\ worker' = [worker EXCEPT ![b] = v] /\ worker \in [Backends -> WorkerRec]
  BY WorkerType DEF WorkerExits, HubInv
<1>1. v \in WorkerRec /\ v.at = "exited" /\ v.slot = w.slot
  BY <1>0 DEF WorkerRec, Stages
<1>2. hub.owner = NoKey \/ hub.owner.backend # b
  BY <1>0, OwnerOfWorker
<1> HIDE DEF v
<1>3. CASE UNCHANGED <<hub, m_sources>>
  <2>1. Less(hub, hub')
    BY <1>0, <1>3, LessFact
  <2> QED BY <1>0, <1>1, <1>2, <1>3, <2>1, WorkerEnds
<1>4. CASE ~UNCHANGED <<hub, m_sources>>
  <2> DEFINE s == [m_sources[i] EXCEPT !.active = FALSE, !.failed = TRUE, !.failurePending = TRUE]
  <2>1. /\ m_sources[i].active /\ hub' \in Detach(hub, m_sources[i].backend, m_sources[i].epoch)
        /\ m_sources' = [m_sources EXCEPT ![i].active = FALSE, ![i].failed = TRUE, ![i].failurePending = TRUE]
    BY <1>4 DEF WorkerExits, Failed
  <2>2. i \in Slots /\ m_sources[i].backend = b /\ Bound(i) /\ m_sources[i] \in SlotRec /\ m_sources \in [Slots -> SlotRec]
    BY <1>0 DEF HubInv, WorkerInv, BackendOf, TypeOK
  <2>3. Less(hub, hub')
    BY <1>0, <2>1, <2>2, DetachFact
  <2>4. m_sources' = [m_sources EXCEPT ![i] = s]
    BY <2>1, <2>2
  <2>5. /\ s \in SlotRec /\ s.backend = m_sources[i].backend /\ s.epoch = m_sources[i].epoch /\ s.failed /\ s.active = FALSE
        /\ s.reserved = m_sources[i].reserved /\ s.running = m_sources[i].running
    BY <2>2 DEF SlotRec
  <2> HIDE DEF s, i
  <2>6. HubOK(hub') /\ hub'.started = hub.started /\ hub'.owner \in {hub.owner, NoKey}
    BY <2>3 DEF Less
  <2>7. /\ m_sources' \in [Slots -> SlotRec] /\ SlotInv'
        /\ \A j \in Slots : Bound(j)' = Bound(j) /\ BackendOf(j)' = BackendOf(j)
    BY <1>0, <2>2, <2>4, <2>5, <2>6, SlotKeeps
  <2>8. m_sources'[i] = s /\ \A j \in Slots : j # i => m_sources'[j] = m_sources[j]
    BY <2>2, <2>4
  <2>9. OwnerInv'
    <3>1. \A a \in Backends : worker[a].at \in {"loop", "release", "leave"} => worker'[a] = worker[a]
      BY <1>0
    <3> QED BY <1>2, <2>2, <2>3, <2>6, <2>8, <3>1, OwnerElsewhere
  <2>10. HoldsInv' /\ InterInv'
    BY <1>0, <2>3, LessKeeps
  <2>11. TypeOK'
    BY <1>0, <1>1, <2>6, <2>7 DEF HubInv, TypeOK, HubOK
  <2>12. \A a \in Backends : (worker'[a].at = "none" <=> worker[a].at = "none") /\ worker'[a].slot = worker[a].slot
    BY <1>0, <1>1
  <2>13. WorkerInv'
    <3>1. \A j \in Slots : m_sources'[j].running = m_sources[j].running
      BY <2>5, <2>8
    <3>2. WorkerInv
      BY DEF HubInv
    <3> QED BY <1>0, <2>7, <2>12, <3>1, <3>2 DEF WorkerInv, Calling
  <2>14. MgrInv'
    <3>1. MgrInv /\ TypeOK
      BY DEF HubInv, CallInv
    <3>2. Calling => mgr.slot \in Slots /\ mgr.backend \in Backends
      BY <3>1 DEF TypeOK, Calling, BindRec, UnbindRec, InteractRec, Idle
    <3>3. \A j \in Slots : m_sources[j].active \/ m_sources[j].failed => m_sources'[j].active \/ m_sources'[j].failed
      BY <2>5, <2>8
    <3> QED BY <1>0, <2>6, <2>7, <2>12, <3>1, <3>2, <3>3 DEF MgrInv, Calling
  <2>15. DispInv'
    <3>1. DispInv /\ TypeOK /\ SlotInv
      BY DEF HubInv, CallInv
    <3>2. disp.op \in {"start", "stop"} => disp.todo \subseteq Slots
      BY <3>1 DEF TypeOK, StartRec, StopRec, Idle
    <3>3. \A j \in disp.todo : disp.op = "start" => BackendOf(j) \in Backends
      BY <3>1, <3>2 DEF DispInv, SlotInv
    <3> QED BY <1>0, <2>6, <2>7, <2>12, <3>1, <3>2, <3>3 DEF DispInv
  <2> QED BY <2>6, <2>7, <2>9, <2>10, <2>11, <2>13, <2>14, <2>15 DEF HubInv, CallInv
<1> QED BY <1>3, <1>4

-----------------------------------------------------------------------------
(* The manager's steps: Bind.                                              *)

\* What the types say about the calls under way.
LEMMA CallTypes ==
  ASSUME TypeOK
  PROVE  /\ mgr.op = "bind" => mgr \in BindRec
         /\ mgr.op = "unbind" => mgr \in UnbindRec
         /\ mgr.op = "interact" => mgr \in InteractRec
         /\ Calling => mgr.slot \in Slots /\ mgr.backend \in Backends
         /\ mgr = Idle => ~Calling /\ mgr.op # "interact" /\ mgr.op # "bind"
         /\ disp.op = "start" => disp \in StartRec
         /\ disp.op = "stop" => disp \in StopRec
         /\ disp.op \in {"start", "stop"} => disp.todo \subseteq Slots
         /\ disp = Idle => disp.op = "idle"
<1>1. mgr \in BindRec \cup UnbindRec \cup InteractRec \cup {Idle} /\ disp \in StartRec \cup StopRec \cup {Idle}
  BY DEF TypeOK
<1>2. /\ mgr.op = "bind" => mgr \in BindRec
      /\ mgr.op = "unbind" => mgr \in UnbindRec
      /\ mgr.op = "interact" => mgr \in InteractRec
      /\ disp.op = "start" => disp \in StartRec
      /\ disp.op = "stop" => disp \in StopRec
  BY <1>1 DEF BindRec, UnbindRec, InteractRec, StartRec, StopRec, Idle
<1>3. Idle.op = "idle"
  BY DEF Idle
<1>4. mgr.op = "bind" => mgr.slot \in Slots /\ mgr.backend \in Backends
  BY <1>2 DEF BindRec
<1>5. mgr.op = "unbind" => mgr.slot \in Slots /\ mgr.backend \in Backends
  BY <1>2 DEF UnbindRec
<1>6. disp.op = "start" => disp.todo \subseteq Slots
  BY <1>2 DEF StartRec
<1>7. disp.op = "stop" => disp.todo \subseteq Slots
  BY <1>2 DEF StopRec
<1> QED BY <1>2, <1>3, <1>4, <1>5, <1>6, <1>7 DEF Calling

\* Bind takes a free slot; no worker of the instance is left.
LEMMA BindBeginStep ==
  ASSUME HubInv, NEW b \in Backends, BindBegin(b)
  PROVE  HubInv'
<1>0. /\ mgr = Idle /\ disp = Idle /\ UNCHANGED <<hub, worker, disp, entry>>
      /\ entry[b].open /\ SlotOf(b, entry[b].epoch) = {}
  BY DEF BindBegin, LifecycleFree
<1> DEFINE s == [NoSlot EXCEPT !.backend = b, !.epoch = entry[b].epoch, !.active = TRUE, !.reserved = TRUE]
<1>1. PICK i \in FreeSlots :
        /\ m_sources' = [m_sources EXCEPT ![i] = s]
        /\ mgr' = [op |-> "bind", backend |-> b, slot |-> i, start |-> hub.started,
                   at |-> IF hub.started THEN "start" ELSE "settle"]
  BY DEF BindBegin
<1>2. i \in Slots /\ ~Bound(i)
  BY DEF FreeSlots, Bound
<1>3. TypeOK /\ SlotInv /\ WorkerInv /\ MgrInv /\ OwnerInv /\ InterInv /\ HoldsInv /\ HubOK(hub)
  BY DEF HubInv, CallInv
<1>4. ~Calling /\ disp.op = "idle"
  BY <1>0, <1>3, CallTypes
<1>5. entry[b].epoch \in 0..MaxEpoch /\ entry[b].epoch \in 1..MaxEpoch
  BY <1>3, InputHubConstants DEF TypeOK, EntryRec
<1>6. /\ s \in SlotRec /\ s.backend = b /\ s.epoch = entry[b].epoch /\ s.active = TRUE /\ s.running = FALSE
      /\ s.failurePending = FALSE
  BY <1>5, InputHubConstants DEF SlotRec, NoSlot
<1> HIDE DEF s
<1>7. m_sources' \in [Slots -> SlotRec] /\ m_sources'[i] = s /\ \A j \in Slots : j # i => m_sources'[j] = m_sources[j]
  BY <1>1, <1>2, <1>3, <1>6 DEF TypeOK
<1>8. ASSUME NEW j \in Slots, Bound(j) PROVE BackendOf(j) # b
  BY <1>0, <1>3, <1>8 DEF SlotInv, SlotOf, Bound, BackendOf
<1>9. worker[b].at = "none"
  BY <1>3, <1>8 DEF WorkerInv
<1>10. /\ mgr' \in BindRec /\ mgr'.op = "bind" /\ mgr'.slot = i /\ mgr'.backend = b /\ mgr'.start = hub.started
       /\ Calling' /\ hub.started \in BOOLEAN /\ (mgr'.at = "start" => mgr'.start)
  <2>1. hub.started \in BOOLEAN
    BY <1>3 DEF HubOK, HubRec
  <2>2. (IF hub.started THEN "start" ELSE "settle") \in {"start", "settle", "stop"}
    OBVIOUS
  <2> QED BY <1>1, <1>2, <2>1, <2>2 DEF BindRec, Calling
<1>11. TypeOK'
  BY <1>0, <1>3, <1>7, <1>10 DEF TypeOK
<1>12. Bound(i)' /\ BackendOf(i)' = b /\ \A j \in Slots : j # i => Bound(j)' = Bound(j) /\ BackendOf(j)' = BackendOf(j)
  BY <1>6, <1>7 DEF Bound, BackendOf
<1>13. SlotInv'
  <2>1. \A j \in Slots : Bound(j)' => BackendOf(j)' \in Backends /\ m_sources'[j].epoch = entry'[BackendOf(j)'].epoch
    BY <1>0, <1>3, <1>6, <1>7, <1>12 DEF SlotInv
  <2>2. \A j \in Slots : m_sources'[j].failurePending \/ m_sources'[j].running => Bound(j)'
    BY <1>3, <1>6, <1>7, <1>12 DEF SlotInv
  <2>3. \A j, k \in Slots : Bound(j)' /\ Bound(k)' /\ BackendOf(j)' = BackendOf(k)' => j = k
    BY <1>3, <1>8, <1>12 DEF SlotInv
  <2>4. \A j \in Slots : Bound(j)' => \/ Calling' /\ mgr'.slot = j
                                      \/ entry'[BackendOf(j)'].added /\ entry'[BackendOf(j)'].open
    BY <1>0, <1>3, <1>4, <1>10, <1>12 DEF SlotInv
  <2>5. ~hub'.started => \A j \in Slots : ~m_sources'[j].running
    BY <1>0, <1>3, <1>6, <1>7 DEF SlotInv
  <2> QED BY <2>1, <2>2, <2>3, <2>4, <2>5 DEF SlotInv
<1>14. MgrInv'
  BY <1>0, <1>6, <1>7, <1>9, <1>10, <1>12 DEF MgrInv
<1>15. DispInv'
  BY <1>0, <1>4 DEF DispInv
<1>16. WorkerInv'
  <2>1. ASSUME NEW a \in Backends, worker[a].at # "none"
        PROVE  worker[a].slot \in Slots /\ worker[a].slot # i /\ BackendOf(worker[a].slot) = a
               /\ Bound(worker[a].slot) /\ m_sources[worker[a].slot].running
    BY <1>2, <1>3, <1>4, <2>1 DEF WorkerInv
  <2> QED BY <1>0, <1>7, <1>12, <2>1 DEF WorkerInv
<1>17. HoldsInv' /\ InterInv' /\ HubOK(hub)'
  BY <1>0, <1>3 DEF HoldsInv, InterInv
<1>18. OwnerInv'
  <2>1. Less(hub, hub')
    BY <1>0, <1>3, LessFact
  <2>2. ASSUME hub.owner # NoKey PROVE worker[hub.owner.backend].slot \in Slots /\ worker[hub.owner.backend].slot # i
    <3>1. hub.owner.backend \in Backends
      BY <1>3, <2>2, KeyFacts DEF HubOK, HubRec
    <3> QED BY <1>2, <1>3, <2>2, <3>1, OwnerOfWorker DEF WorkerInv
  <2>3. \A j \in Slots : m_sources[j].active => j # i
    BY <1>2 DEF Bound
  <2>4. hub.owner # NoKey => worker[hub.owner.backend].at \in {"loop", "release", "leave"}
    BY <1>3 DEF OwnerInv
  <2> QED BY <1>0, <1>7, <2>1, <2>2, <2>3, <2>4, OwnerKept
<1> QED BY <1>11, <1>13, <1>14, <1>15, <1>16, <1>17, <1>18 DEF HubInv, CallInv

\* A call goes on to another stage, with the slots and the workers as they are.
LEMMA CallMoves ==
  ASSUME HubInv, UNCHANGED <<m_sources, entry>>, Less(hub, hub'), mgr \in BindRec, mgr.op = "bind", disp' = disp,
         NEW to \in {"settle", "stop"}, mgr' = [mgr EXCEPT !.at = to],
         NEW v \in WorkerRec, worker' = [worker EXCEPT ![mgr.backend] = v], v.at # "none" => v.slot = mgr.slot,
         worker[mgr.backend].at # "none" => /\ v.at = worker[mgr.backend].at /\ v.owner = worker[mgr.backend].owner
                                            /\ v.slot = worker[mgr.backend].slot,
         v.at # "none" => mgr.start
  PROVE  HubInv'
<1>0. TypeOK /\ SlotInv /\ WorkerInv /\ MgrInv /\ DispInv /\ OwnerInv /\ InterInv /\ HoldsInv /\ HubOK(hub)
  BY DEF HubInv, CallInv
<1>1. HubOK(hub') /\ hub'.started = hub.started /\ hub'.owner \in {hub.owner, NoKey} /\ hub' \in HubRec
  BY DEF Less, HubOK
<1>2. /\ mgr' \in BindRec /\ mgr'.op = "bind" /\ mgr'.slot = mgr.slot /\ mgr'.backend = mgr.backend
      /\ mgr'.start = mgr.start /\ mgr'.at = to /\ mgr.backend \in Backends /\ mgr.slot \in Slots
  BY DEF BindRec
<1>3. Calling /\ Calling'
  BY <1>2 DEF Calling
<1>4. worker' \in [Backends -> WorkerRec] /\ worker'[mgr.backend] = v /\ \A a \in Backends : a # mgr.backend => worker'[a] = worker[a]
  BY <1>0, <1>2 DEF TypeOK
<1>5. TypeOK'
  BY <1>0, <1>1, <1>2, <1>4 DEF TypeOK
<1>6. SlotInv'
  BY <1>0, <1>1, <1>2, <1>3 DEF SlotInv, Bound, BackendOf
<1>7. MgrInv'
  <2>1. ~mgr.start => v.at = "none"
    BY <1>0, <1>2 DEF MgrInv
  <2> QED BY <1>0, <1>1, <1>2, <1>3, <1>4, <2>1 DEF MgrInv, Bound, BackendOf
<1>8. DispInv'
  <2>1. disp = Idle /\ disp.op = "idle"
    BY <1>0, <1>3, CallTypes DEF MgrInv
  <2> QED BY <2>1 DEF DispInv
<1>9. WorkerInv'
  <2>1. Bound(mgr.slot) /\ BackendOf(mgr.slot) = mgr.backend
    BY <1>0, <1>3 DEF MgrInv
  <2>2. ASSUME NEW a \in Backends, worker'[a].at # "none", a # mgr.backend
        PROVE  /\ worker'[a].slot \in Slots /\ BackendOf(worker'[a].slot) = a /\ Bound(worker'[a].slot)
               /\ \/ m_sources[worker'[a].slot].running
                  \/ disp.op \in {"start", "stop"} /\ worker'[a].slot \in disp.todo
    BY <1>0, <1>4, <2>2 DEF WorkerInv
  <2>3. \A j \in Slots : Bound(j)' = Bound(j) /\ BackendOf(j)' = BackendOf(j)
    BY DEF Bound, BackendOf
  <2> QED BY <1>2, <1>3, <1>4, <2>1, <2>2, <2>3 DEF WorkerInv
<1>10. HoldsInv' /\ InterInv'
  BY LessKeeps
<1>11. OwnerInv'
  <2>1. ASSUME hub'.owner # NoKey
        PROVE  LET u == worker'[hub.owner.backend]
               IN  /\ u.at \in {"loop", "release", "leave"}
                   /\ u.owner = worker[hub.owner.backend].owner /\ u.slot = worker[hub.owner.backend].slot
    <3>1. hub.owner # NoKey /\ hub.owner.backend \in Backends
      BY <1>1, <2>1, KeyFacts DEF HubInv, HubOK, HubRec
    <3>2. worker[hub.owner.backend].at \in {"loop", "release", "leave"}
      BY <3>1, OwnerOfWorker
    <3> QED BY <1>4, <2>1, <3>1, <3>2
  <2> QED BY <2>1, OwnerKept
<1> QED BY <1>1, <1>5, <1>6, <1>7, <1>8, <1>9, <1>10, <1>11 DEF HubInv, CallInv

\* The endpoint starts, or does not.
LEMMA BindStartStep ==
  ASSUME HubInv, BindStart
  PROVE  HubInv'
<1>0. TypeOK /\ MgrInv /\ HubOK(hub) /\ mgr.op = "bind" /\ mgr.at = "start" /\ UNCHANGED <<m_sources, disp, entry>>
  BY DEF HubInv, CallInv, BindStart
<1>1. mgr \in BindRec /\ mgr.backend \in Backends /\ mgr.slot \in Slots /\ worker[mgr.backend].at = "none"
  BY <1>0, CallTypes DEF MgrInv, Calling
<1> DEFINE b == mgr.backend
<1>2. worker[b] \in WorkerRec
  BY <1>1, WorkerType
<1>3. CASE /\ \E r \in GetState(hub, [backend |-> mgr.backend, epoch |-> entry[mgr.backend].epoch,
                                      client |-> 0, generation |-> 0]) : hub' = r.hub
           /\ Started(mgr.backend, mgr.slot)
           /\ mgr' = [mgr EXCEPT !.at = "settle"]
  <2> DEFINE v == [NoWorker EXCEPT !.at = "loop", !.slot = mgr.slot, !.spin = TRUE]
  <2>1. Less(hub, hub')
    BY <1>0, <1>3, GetStateFact
  <2>2. worker' = [worker EXCEPT ![b] = v] /\ v \in WorkerRec /\ v.slot = mgr.slot /\ v.at = "loop"
    BY <1>1, <1>3 DEF Started, NoWorker, WorkerRec, Stages
  <2>3. mgr.start
    BY <1>0 DEF MgrInv
  <2> HIDE DEF v
  <2> QED BY <1>0, <1>1, <1>3, <2>1, <2>2, <2>3, CallMoves
<1>4. CASE StopSignal(mgr.backend) /\ hub' = hub /\ mgr' = [mgr EXCEPT !.at = "stop"]
  <2> DEFINE v == [worker[b] EXCEPT !.stop = TRUE]
  <2>1. Less(hub, hub')
    BY <1>0, <1>4, LessFact
  <2>2. worker' = [worker EXCEPT ![b] = v] /\ v \in WorkerRec /\ v.at = "none"
    BY <1>1, <1>2, <1>4 DEF StopSignal, WorkerRec
  <2> HIDE DEF v
  <2> QED BY <1>0, <1>1, <1>4, <2>1, <2>2, CallMoves
<1> QED BY <1>3, <1>4 DEF BindStart

\* Bind comes back, or turns to its error path.
LEMMA BindSettleStep ==
  ASSUME HubInv, BindSettle
  PROVE  HubInv'
<1>0. /\ TypeOK /\ MgrInv /\ SlotInv /\ WorkerInv /\ OwnerInv /\ InterInv /\ HoldsInv /\ HubOK(hub) /\ mgr.op = "bind"
      /\ mgr.at = "settle" /\ UNCHANGED <<hub, disp>>
  BY DEF HubInv, CallInv, BindSettle
<1>a. Calling /\ mgr.slot \in Slots /\ mgr.backend \in Backends
  BY <1>0, CallTypes DEF Calling
<1>b. PICK i \in Slots, b \in Backends : i = mgr.slot /\ b = mgr.backend
  BY <1>a
<1>1. mgr \in BindRec /\ b \in Backends /\ i \in Slots /\ Calling /\ worker[b] \in WorkerRec /\ mgr.start \in BOOLEAN
  BY <1>0, <1>a, CallTypes, WorkerType DEF BindRec
<1>2. Less(hub, hub')
  BY <1>0, LessFact
<1>3. Bound(i) /\ b = BackendOf(i) /\ disp = Idle /\ disp.op = "idle" /\ mgr.start = hub.started /\ entry[b].open
      /\ (~mgr.start => worker[b].at = "none") /\ (m_sources[i].active \/ m_sources[i].failed)
  BY <1>0, <1>1, <1>b, CallTypes DEF MgrInv
<1>w. worker[b].at # "none" => mgr.start /\ worker[b].slot = i
  BY <1>0, <1>1, <1>3 DEF WorkerInv, SlotInv
<1>4. CASE m_sources[i].failed /\ mgr.start
  <2> DEFINE v == [worker[b] EXCEPT !.stop = TRUE]
  <2>1. worker' = [worker EXCEPT ![b] = v] /\ mgr' = [mgr EXCEPT !.at = "stop"] /\ UNCHANGED <<m_sources, entry>>
    BY <1>4, <1>b DEF BindSettle, StopSignal
  <2>2. v \in WorkerRec /\ v.at = worker[b].at /\ v.owner = worker[b].owner /\ v.slot = worker[b].slot
    BY <1>1 DEF WorkerRec
  <2> HIDE DEF v
  <2> QED BY <1>0, <1>1, <1>2, <1>4, <1>w, <2>1, <2>2, <1>b, CallMoves
<1>5. CASE m_sources[i].failed /\ ~mgr.start
  <2>1. worker' = worker /\ mgr' = [mgr EXCEPT !.at = "stop"] /\ UNCHANGED <<m_sources, entry>>
    BY <1>5, <1>b DEF BindSettle
  <2>2. worker' = [worker EXCEPT ![b] = worker[b]]
    BY <1>1, <2>1, WorkerType
  <2> QED BY <1>0, <1>1, <1>2, <1>5, <1>w, <2>1, <2>2, <1>b, CallMoves
<1>6. CASE ~m_sources[i].failed
  <2> DEFINE s == [m_sources[i] EXCEPT !.running = mgr.start, !.reserved = FALSE]
             e == [entry[b] EXCEPT !.added = TRUE]
  <2>1. /\ m_sources' = [m_sources EXCEPT ![i] = s] /\ entry' = [entry EXCEPT ![b] = e] /\ mgr' = Idle
        /\ worker' = worker
    BY <1>6, <1>b DEF BindSettle
  <2>2. m_sources[i] \in SlotRec /\ entry[b] \in EntryRec
    BY <1>0, <1>1 DEF TypeOK
  <2>3. /\ s \in SlotRec /\ s.backend = m_sources[i].backend /\ s.epoch = m_sources[i].epoch
        /\ s.active = m_sources[i].active /\ s.running = mgr.start /\ s.reserved = FALSE
    BY <1>1, <2>2 DEF SlotRec
  <2>4. e \in EntryRec /\ e.epoch = entry[b].epoch /\ e.open = entry[b].open /\ e.added = TRUE
    BY <2>2 DEF EntryRec
  <2> HIDE DEF s, e
  <2>5. m_sources' \in [Slots -> SlotRec] /\ m_sources'[i] = s /\ \A j \in Slots : j # i => m_sources'[j] = m_sources[j]
    BY <1>0, <1>1, <2>1, <2>3 DEF TypeOK
  <2>6. /\ entry' \in [Backends -> EntryRec]
        /\ \A a \in Backends : entry'[a].epoch = entry[a].epoch /\ entry'[a].open = entry[a].open
                               /\ (entry[a].added => entry'[a].added)
        /\ entry'[b].added
    BY <1>0, <1>1, <2>1, <2>4 DEF TypeOK
  <2>7. TypeOK'
    BY <1>0, <2>1, <2>5, <2>6 DEF TypeOK
  <2>8. ~Calling' /\ mgr'.op = "idle"
    BY <2>1 DEF Calling, Idle
  <2>9. s.active
    BY <1>3, <1>6, <2>3
  <2>10. Bound(i)' /\ BackendOf(i)' = b /\ \A j \in Slots : j # i => Bound(j)' = Bound(j) /\ BackendOf(j)' = BackendOf(j)
    BY <1>3, <2>3, <2>5, <2>9 DEF Bound, BackendOf
  <2>11. SlotInv'
    <3>1. \A j \in Slots : Bound(j)' => BackendOf(j)' \in Backends /\ m_sources'[j].epoch = entry'[BackendOf(j)'].epoch
      BY <1>0, <1>1, <1>3, <2>3, <2>5, <2>6, <2>10 DEF SlotInv
    <3>2. \A j \in Slots : m_sources'[j].failurePending \/ m_sources'[j].running => Bound(j)'
      BY <1>0, <2>5, <2>10 DEF SlotInv
    <3>3. \A j, k \in Slots : Bound(j)' /\ Bound(k)' /\ BackendOf(j)' = BackendOf(k)' => j = k
      BY <1>0, <1>3, <2>10 DEF SlotInv
    <3>4. \A j \in Slots : Bound(j)' => entry'[BackendOf(j)'].added /\ entry'[BackendOf(j)'].open
      BY <1>0, <1>1, <1>3, <1>b, <2>6, <2>10 DEF SlotInv
    <3>5. ~hub'.started => \A j \in Slots : ~m_sources'[j].running
      BY <1>0, <1>3, <2>3, <2>5 DEF SlotInv
    <3> QED BY <3>1, <3>2, <3>3, <3>4, <3>5 DEF SlotInv
  <2>12. MgrInv' /\ DispInv'
    BY <1>0, <1>3, <2>8 DEF MgrInv, DispInv
  <2>13. WorkerInv'
    <3>1. ASSUME NEW a \in Backends, worker[a].at # "none", a # b
          PROVE  worker[a].slot \in Slots /\ worker[a].slot # i /\ BackendOf(worker[a].slot) = a
                 /\ Bound(worker[a].slot) /\ m_sources[worker[a].slot].running
      BY <1>0, <1>3, <1>b, <3>1 DEF WorkerInv
    <3>2. worker[b].at # "none" => m_sources'[i].running
      BY <1>w, <2>3, <2>5
    <3> QED BY <1>1, <1>w, <2>1, <2>5, <2>10, <3>1, <3>2 DEF WorkerInv
  <2>14. HoldsInv' /\ HubOK(hub)'
    BY <1>0 DEF HoldsInv
  <2>15. InterInv'
    BY <1>0, <2>6, KeyFacts DEF InterInv, HubOK, HubRec
  <2>16. OwnerInv'
    <3>1. \A j \in Slots : m_sources'[j].backend = m_sources[j].backend /\ m_sources'[j].epoch = m_sources[j].epoch
      BY <2>3, <2>5
    <3>2. \A j \in Slots : m_sources[j].active /\ ~m_sources[j].reserved => m_sources'[j].active /\ ~m_sources'[j].reserved
      BY <2>3, <2>5, <2>9
    <3>3. ASSUME hub.owner # NoKey
          PROVE  worker[hub.owner.backend].slot \in Slots /\ worker[hub.owner.backend].at \in {"loop", "release", "leave"}
      <4>1. hub.owner.backend \in Backends
        BY <1>0, <3>3, KeyFacts DEF HubOK, HubRec
      <4> QED BY <1>0, <3>3, <4>1, OwnerOfWorker DEF WorkerInv
    <3> QED BY <1>0, <1>2, <2>1, <3>1, <3>2, <3>3, OwnerKept
  <2> QED BY <2>7, <2>11, <2>12, <2>13, <2>14, <2>15, <2>16 DEF HubInv, CallInv
<1> QED BY <1>1, <1>4, <1>5, <1>6

\* The slot of a binding that has ended is free again.
LEMMA SlotClearedStep ==
  ASSUME HubInv, SlotCleared
  PROVE  HubInv'
<1>0. /\ TypeOK /\ MgrInv /\ SlotInv /\ WorkerInv /\ OwnerInv /\ InterInv /\ HoldsInv /\ HubOK(hub) /\ Calling
      /\ UNCHANGED <<hub, disp, entry>> /\ mgr' = Idle
  BY DEF HubInv, CallInv, SlotCleared, Calling
<1>1. PICK i \in Slots, b \in Backends : i = mgr.slot /\ b = mgr.backend
  BY <1>0, CallTypes
<1>2. /\ worker[b].at \in {"none", "exited"} /\ worker' = [worker EXCEPT ![b] = NoWorker]
      /\ m_sources' = [m_sources EXCEPT ![i] = NoSlot]
  BY <1>1 DEF SlotCleared, Stopped
<1>3. Bound(i) /\ b = BackendOf(i) /\ disp = Idle /\ disp.op = "idle"
  BY <1>0, <1>1, CallTypes DEF MgrInv
<1>4. /\ NoSlot \in SlotRec /\ ~NoSlot.active /\ ~NoSlot.failed /\ ~NoSlot.reserved /\ ~NoSlot.running /\ ~NoSlot.failurePending
  <2>1. 0 \in 0..MaxEpoch
    BY InputHubConstants
  <2> QED BY <2>1 DEF NoSlot, SlotRec
<1>5. NoWorker \in WorkerRec /\ NoWorker.at = "none"
  BY DEF NoWorker, WorkerRec, Stages
<1>6. m_sources' \in [Slots -> SlotRec] /\ m_sources'[i] = NoSlot /\ \A j \in Slots : j # i => m_sources'[j] = m_sources[j]
  BY <1>0, <1>2, <1>4 DEF TypeOK
<1>7. worker' \in [Backends -> WorkerRec] /\ worker'[b].at = "none" /\ \A a \in Backends : a # b => worker'[a] = worker[a]
  BY <1>0, <1>2, <1>5 DEF TypeOK
<1>8. TypeOK'
  BY <1>0, <1>6, <1>7 DEF TypeOK
<1>9. ~Bound(i)' /\ \A j \in Slots : j # i => Bound(j)' = Bound(j) /\ BackendOf(j)' = BackendOf(j)
  BY <1>4, <1>6 DEF Bound, BackendOf
<1>10. ~Calling' /\ mgr'.op = "idle"
  BY <1>0 DEF Calling, Idle
<1>11. SlotInv'
  <2>1. \A j \in Slots : Bound(j)' => BackendOf(j)' \in Backends /\ m_sources'[j].epoch = entry'[BackendOf(j)'].epoch
    BY <1>0, <1>6, <1>9 DEF SlotInv
  <2>2. \A j \in Slots : m_sources'[j].failurePending \/ m_sources'[j].running => Bound(j)'
    BY <1>0, <1>4, <1>6, <1>9 DEF SlotInv
  <2>3. \A j, k \in Slots : Bound(j)' /\ Bound(k)' /\ BackendOf(j)' = BackendOf(k)' => j = k
    BY <1>0, <1>9 DEF SlotInv
  <2>4. \A j \in Slots : Bound(j)' => entry'[BackendOf(j)'].added /\ entry'[BackendOf(j)'].open
    BY <1>0, <1>1, <1>9 DEF SlotInv
  <2>5. ~hub'.started => \A j \in Slots : ~m_sources'[j].running
    BY <1>0, <1>4, <1>6 DEF SlotInv
  <2> QED BY <2>1, <2>2, <2>3, <2>4, <2>5 DEF SlotInv
<1>12. MgrInv' /\ DispInv'
  BY <1>0, <1>3, <1>10 DEF MgrInv, DispInv
<1>13. WorkerInv'
  <2>1. ASSUME NEW a \in Backends, worker[a].at # "none", a # b
        PROVE  worker[a].slot \in Slots /\ worker[a].slot # i /\ BackendOf(worker[a].slot) = a
               /\ Bound(worker[a].slot) /\ m_sources[worker[a].slot].running
    BY <1>0, <1>1, <1>3, <2>1 DEF WorkerInv
  <2> QED BY <1>6, <1>7, <1>9, <2>1 DEF WorkerInv
<1>14. HoldsInv' /\ InterInv' /\ HubOK(hub)'
  BY <1>0 DEF HoldsInv, InterInv
<1>15. OwnerInv'
  <2>1. Less(hub, hub')
    BY <1>0, LessFact
  <2>2. hub.owner = NoKey \/ hub.owner.backend # b
    BY <1>2, OwnerOfWorker
  <2>3. \A a \in Backends : worker[a].at \in {"loop", "release", "leave"} => worker'[a] = worker[a]
    BY <1>2, <1>7
  <2> QED BY <1>0, <1>3, <1>6, <2>1, <2>2, <2>3, OwnerElsewhere DEF BackendOf
<1> QED BY <1>8, <1>11, <1>12, <1>13, <1>14, <1>15 DEF HubInv, CallInv

-----------------------------------------------------------------------------
(* The manager's steps: Unbind, and what ends an instance.                 *)

\* Unbind takes a source out of the hub.
LEMMA UnbindStep ==
  ASSUME HubInv, NEW b \in Backends, NEW i \in Slots, Bound(i), BackendOf(i) = b, mgr = Idle, disp = Idle, disp' = disp,
         NEW h, Less(hub, h), UnbindFrom(h, b, m_sources[i].epoch, i), entry' \in [Backends -> EntryRec],
         \A a \in Backends : entry'[a].epoch = entry[a].epoch /\ (a # b => entry'[a] = entry[a]),
         Less(hub, hub') => InterInv'
  PROVE  HubInv'
<1>0. TypeOK /\ MgrInv /\ SlotInv /\ WorkerInv /\ OwnerInv /\ InterInv /\ HoldsInv /\ HubOK(hub) /\ HubOK(h)
      /\ m_sources[i] \in SlotRec
  BY DEF HubInv, CallInv, Less, TypeOK
<1> DEFINE s == [m_sources[i] EXCEPT !.active = FALSE, !.failed = FALSE, !.failurePending = FALSE, !.reserved = TRUE,
                                     !.running = FALSE]
<1>1. /\ hub' \in Detach(h, b, m_sources[i].epoch) /\ m_sources' = [m_sources EXCEPT ![i] = s]
      /\ mgr' = [op |-> "unbind", backend |-> b, slot |-> i, at |-> "stop"]
  <2>1. m_sources \in [Slots -> SlotRec]
    BY <1>0 DEF TypeOK
  <2> QED BY <2>1 DEF UnbindFrom
<1>2. Less(h, hub') /\ ~(hub'.owner.backend = b /\ hub'.owner.epoch = m_sources[i].epoch)
  BY <1>0, <1>1, DetachFact
<1>3. Less(hub, hub')
  BY <1>2, LessTransitive
<1>4. HubOK(hub') /\ hub' \in HubRec /\ hub'.started = hub.started
  BY <1>3 DEF Less, HubOK
<1>5. /\ s \in SlotRec /\ s.backend = m_sources[i].backend /\ s.epoch = m_sources[i].epoch /\ s.reserved = TRUE
      /\ s.running = FALSE /\ s.failurePending = FALSE
  BY <1>0 DEF SlotRec
<1> HIDE DEF s
<1>6. m_sources' \in [Slots -> SlotRec] /\ m_sources'[i] = s /\ \A j \in Slots : j # i => m_sources'[j] = m_sources[j]
  BY <1>0, <1>1, <1>5 DEF TypeOK
<1>7. \A j \in Slots : Bound(j)' = Bound(j) /\ BackendOf(j)' = BackendOf(j)
  BY <1>1, <1>4, <1>5, SlotKeeps
<1>8. /\ worker' \in [Backends -> WorkerRec]
      /\ \A a \in Backends : worker'[a].at = worker[a].at /\ worker'[a].owner = worker[a].owner
                             /\ worker'[a].slot = worker[a].slot
  <2>1. worker \in [Backends -> WorkerRec] /\ worker[b] \in WorkerRec
    BY WorkerType
  <2>2. CASE worker' = worker
    BY <2>1, <2>2
  <2>3. CASE worker' = [worker EXCEPT ![b].stop = TRUE]
    <3> DEFINE v == [worker[b] EXCEPT !.stop = TRUE]
    <3>1. v \in WorkerRec /\ v.at = worker[b].at /\ v.owner = worker[b].owner /\ v.slot = worker[b].slot
      BY <2>1 DEF WorkerRec
    <3>2. worker' = [worker EXCEPT ![b] = v]
      BY <2>3
    <3> HIDE DEF v
    <3> QED BY <2>1, <3>1, <3>2
  <2> QED BY <2>2, <2>3 DEF UnbindFrom, StopSignal
<1>9. mgr' \in UnbindRec /\ mgr'.op = "unbind" /\ mgr'.slot = i /\ mgr'.backend = b /\ Calling'
  BY <1>1 DEF UnbindRec, Calling
<1>10. TypeOK'
  BY <1>0, <1>4, <1>6, <1>8, <1>9 DEF TypeOK
<1>11. ~Calling /\ disp.op = "idle"
  BY <1>0, CallTypes
<1>12. SlotInv'
  <2>1. \A j \in Slots : Bound(j)' => BackendOf(j)' \in Backends /\ m_sources'[j].epoch = entry'[BackendOf(j)'].epoch
    BY <1>0, <1>5, <1>6, <1>7 DEF SlotInv
  <2>2. \A j \in Slots : m_sources'[j].failurePending \/ m_sources'[j].running => Bound(j)'
    BY <1>0, <1>5, <1>6, <1>7 DEF SlotInv
  <2>3. \A j, k \in Slots : Bound(j)' /\ Bound(k)' /\ BackendOf(j)' = BackendOf(k)' => j = k
    BY <1>0, <1>7 DEF SlotInv
  <2>4. \A j \in Slots : Bound(j)' => \/ Calling' /\ mgr'.slot = j
                                      \/ entry'[BackendOf(j)'].added /\ entry'[BackendOf(j)'].open
    BY <1>0, <1>7, <1>9, <1>11 DEF SlotInv
  <2>5. ~hub'.started => \A j \in Slots : ~m_sources'[j].running
    BY <1>0, <1>4, <1>5, <1>6 DEF SlotInv
  <2> QED BY <2>1, <2>2, <2>3, <2>4, <2>5 DEF SlotInv
<1>13. MgrInv' /\ DispInv'
  BY <1>7, <1>9, <1>11 DEF MgrInv, DispInv
<1>14. WorkerInv'
  <2>1. ASSUME NEW a \in Backends, worker[a].at # "none"
        PROVE  worker[a].slot \in Slots /\ BackendOf(worker[a].slot) = a
               /\ Bound(worker[a].slot) /\ m_sources[worker[a].slot].running
    BY <1>0, <1>11, <2>1 DEF WorkerInv
  <2>2. ASSUME NEW a \in Backends, worker[a].at # "none", a # b
        PROVE  m_sources'[worker[a].slot].running
    BY <1>6, <2>1, <2>2
  <2> QED BY <1>7, <1>8, <1>9, <2>1, <2>2 DEF WorkerInv
<1>15. HoldsInv' /\ InterInv'
  BY <1>3, LessKeeps
<1>16. OwnerInv'
  BY <1>2, <1>3, <1>6, <1>8, OwnerElsewhere DEF BackendOf
<1> QED BY <1>4, <1>10, <1>12, <1>13, <1>14, <1>15, <1>16 DEF HubInv, CallInv

\* RemoveServices.
LEMMA RemoveServicesStep ==
  ASSUME HubInv, NEW b \in Backends, RemoveServices(b)
  PROVE  HubInv'
<1>0. /\ TypeOK /\ MgrInv /\ DispInv /\ SlotInv /\ WorkerInv /\ OwnerInv /\ InterInv /\ HoldsInv /\ HubOK(hub)
      /\ mgr = Idle /\ disp = Idle /\ disp' = disp
  BY DEF HubInv, CallInv, RemoveServices, LifecycleFree
<1> DEFINE h == RevokeInteraction(hub, b, entry[b].epoch)
           e == [entry[b] EXCEPT !.open = FALSE, !.added = FALSE]
<1>1. Less(hub, h) /\ ~(h.inter.backend = b /\ h.inter.epoch = entry[b].epoch)
  BY <1>0, RevokeFact
<1>2. entry' = [entry EXCEPT ![b] = e] /\ e \in EntryRec /\ e.epoch = entry[b].epoch
  BY <1>0 DEF RemoveServices, TypeOK, EntryRec
<1>h. PICK g : g = h
  OBVIOUS
<1> HIDE DEF e, h
<1>3. entry' \in [Backends -> EntryRec] /\ \A a \in Backends : entry'[a].epoch = entry[a].epoch /\ (a # b => entry'[a] = entry[a])
  BY <1>0, <1>2 DEF TypeOK
<1>4. ASSUME Less(g, hub') PROVE InterInv'
  <2>1. hub'.inter \in {hub.inter, NoKey} /\ hub'.inter \in {g.inter, NoKey}
    BY <1>1, <1>4, <1>h DEF Less
  <2>2. ASSUME hub'.inter # NoKey PROVE hub'.inter = hub.inter /\ hub.inter.backend \in Backends /\ hub.inter.backend # b
    <3>1. hub'.inter = hub.inter /\ hub'.inter = g.inter /\ hub.inter.backend \in Backends
      BY <1>0, <2>1, <2>2, KeyFacts DEF HubOK, HubRec
    <3>2. entry[hub.inter.backend].epoch = hub.inter.epoch
      BY <1>0, <2>2, <3>1 DEF InterInv
    <3> QED BY <1>1, <1>h, <3>1, <3>2
  <2> QED BY <1>0, <1>3, <2>2 DEF InterInv
<1>5. CASE entry[b].added /\ \E i \in SlotOf(b, entry[b].epoch) : UnbindFrom(h, b, entry[b].epoch, i)
  <2>1. PICK i \in Slots : /\ Bound(i) /\ BackendOf(i) = b /\ m_sources[i].epoch = entry[b].epoch
                           /\ UnbindFrom(g, b, m_sources[i].epoch, i)
    BY <1>5, <1>h DEF SlotOf, Bound, BackendOf
  <2>2. Less(g, hub')
    <3>1. hub' \in Detach(g, b, m_sources[i].epoch)
      BY <2>1 DEF UnbindFrom
    <3>2. HubOK(g)
      BY <1>1, <1>h DEF Less
    <3> QED BY <3>1, <3>2, DetachFact
  <2> QED BY <1>0, <1>1, <1>3, <1>4, <1>h, <2>1, <2>2, UnbindStep
<1>6. CASE ~entry[b].added /\ hub' = h /\ UNCHANGED <<m_sources, worker, mgr>>
  <2>1. Less(hub, hub') /\ HubOK(hub') /\ hub'.started = hub.started /\ hub' \in HubRec /\ hub' = g
    BY <1>1, <1>6, <1>h DEF Less, HubOK
  <2>2. TypeOK'
    BY <1>0, <1>3, <1>6, <2>1 DEF TypeOK
  <2>3. ~Calling /\ ~Calling' /\ disp.op = "idle"
    BY <1>0, <1>6, CallTypes DEF Calling
  <2>4. \A j \in Slots : Bound(j) => BackendOf(j) # b
    BY <1>0, <1>6, <2>3 DEF SlotInv
  <2>5. SlotInv'
    BY <1>0, <1>3, <1>6, <2>1, <2>3, <2>4 DEF SlotInv, Bound, BackendOf
  <2>6. MgrInv' /\ DispInv'
    BY <1>0, <1>6, <2>3, CallTypes DEF MgrInv, DispInv, Calling
  <2>7. WorkerInv'
    BY <1>0, <1>6, <2>3 DEF WorkerInv, Bound, BackendOf
  <2>8. HoldsInv'
    BY <1>0, <2>1, LessKeeps
  <2>9. InterInv'
    <3>1. Less(g, hub')
      BY <2>1, LessFact
    <3> QED BY <1>4, <3>1
  <2>10. OwnerInv'
    <3>1. hub.owner # NoKey => worker[hub.owner.backend].at \in {"loop", "release", "leave"}
      BY <1>0 DEF OwnerInv
    <3> QED BY <1>6, <2>1, <3>1, OwnerKept DEF Less
  <2> QED BY <2>1, <2>2, <2>5, <2>6, <2>7, <2>8, <2>9, <2>10 DEF HubInv, CallInv
<1> QED BY <1>5, <1>6 DEF RemoveServices, h

\* TakeFailure.
LEMMA TakeFailureStep ==
  ASSUME HubInv, TakeFailure
  PROVE  HubInv'
<1>0. /\ TypeOK /\ SlotInv /\ InterInv /\ HubOK(hub) /\ mgr = Idle /\ disp = Idle /\ disp' = disp
  BY DEF HubInv, CallInv, TakeFailure, LifecycleFree
<1>1. PICK i \in Slots :
        /\ m_sources[i].failurePending /\ UnbindFrom(hub, m_sources[i].backend, m_sources[i].epoch, i)
        /\ entry' = [entry EXCEPT ![m_sources[i].backend].added = FALSE, ![m_sources[i].backend].failed = TRUE]
  BY DEF TakeFailure
<1>2. Bound(i) /\ BackendOf(i) \in Backends
  BY <1>0, <1>1 DEF SlotInv
<1>3. PICK b \in Backends : b = m_sources[i].backend
  BY <1>2 DEF BackendOf
<1> DEFINE e == [entry[b] EXCEPT !.added = FALSE, !.failed = TRUE]
<1>4. /\ entry' = [entry EXCEPT ![b] = e] /\ e \in EntryRec /\ e.epoch = entry[b].epoch /\ e.open = entry[b].open
  BY <1>0, <1>1, <1>3, ZenonT(60) DEF TypeOK, EntryRec
<1> HIDE DEF e
<1>5. /\ entry' \in [Backends -> EntryRec]
      /\ \A a \in Backends : entry'[a].epoch = entry[a].epoch /\ (a # b => entry'[a] = entry[a])
      /\ \A a \in Backends : entry'[a].open = entry[a].open
  BY <1>0, <1>4 DEF TypeOK
<1>6. ASSUME Less(hub, hub') PROVE InterInv'
  <2>1. hub'.inter # NoKey => hub'.inter = hub.inter /\ hub.inter.backend \in Backends
    BY <1>0, <1>6, KeyFacts DEF Less, HubOK, HubRec
  <2> QED BY <1>0, <1>5, <2>1 DEF InterInv
<1>7. Less(hub, hub) /\ UnbindFrom(hub, b, m_sources[i].epoch, i) /\ BackendOf(i) = b
  BY <1>0, <1>1, <1>3, LessFact DEF BackendOf
<1> QED BY <1>0, <1>2, <1>5, <1>6, <1>7, UnbindStep

\* A step of the hub alone, that ends things at most.
LEMMA HubEnds ==
  ASSUME HubInv, Less(hub, hub'), UNCHANGED <<m_sources, worker, mgr, disp, entry>>
  PROVE  HubInv'
<1>1. HubOK(hub') /\ hub'.started = hub.started /\ hub' \in HubRec /\ hub'.owner \in {hub.owner, NoKey}
  BY DEF Less, HubOK
<1>2. TypeOK' /\ SlotInv' /\ MgrInv' /\ DispInv' /\ WorkerInv'
  BY <1>1 DEF HubInv, TypeOK, SlotInv, MgrInv, DispInv, CallInv, WorkerInv, Bound, BackendOf, Calling
<1>3. HoldsInv' /\ InterInv'
  BY LessKeeps
<1>4. hub.owner # NoKey => worker[hub.owner.backend].at \in {"loop", "release", "leave"}
  BY DEF HubInv, OwnerInv
<1>5. OwnerInv'
  BY <1>1, <1>4, OwnerKept
<1> QED BY <1>1, <1>2, <1>3, <1>5 DEF HubInv, CallInv

\* RetryEntry: nothing of the last epoch is left.
LEMMA RetryEntryStep ==
  ASSUME HubInv, NEW b \in Backends, RetryEntry(b)
  PROVE  HubInv'
<1>0. /\ TypeOK /\ MgrInv /\ DispInv /\ SlotInv /\ WorkerInv /\ OwnerInv /\ InterInv /\ HoldsInv /\ HubOK(hub)
      /\ mgr = Idle /\ ~entry[b].open /\ UNCHANGED <<hub, m_sources, worker, mgr, disp>> /\ entry[b].epoch < MaxEpoch
  BY DEF HubInv, CallInv, RetryEntry
<1> DEFINE e == [epoch |-> entry[b].epoch + 1, open |-> TRUE, added |-> FALSE, failed |-> FALSE]
<1>1. entry' = [entry EXCEPT ![b] = e] /\ e \in EntryRec
  <2>1. entry[b].epoch \in 1..MaxEpoch
    BY <1>0 DEF TypeOK, EntryRec
  <2>2. entry[b].epoch + 1 \in 1..MaxEpoch
    BY <1>0, <2>1, InputHubConstants
  <2>3. e \in EntryRec
    BY <2>2 DEF EntryRec
  <2> QED BY <1>0, <2>3 DEF RetryEntry, TypeOK
<1> HIDE DEF e
<1>2. entry' \in [Backends -> EntryRec] /\ \A a \in Backends : a # b => entry'[a] = entry[a]
  BY <1>0, <1>1 DEF TypeOK
<1>3. ~Calling /\ ~Calling' /\ mgr.op # "interact" /\ mgr.op # "bind"
  BY <1>0, CallTypes DEF Calling
<1>4. \A j \in Slots : Bound(j) => BackendOf(j) # b /\ BackendOf(j) \in Backends
  BY <1>0, <1>3 DEF SlotInv
<1>5. TypeOK'
  BY <1>0, <1>2 DEF TypeOK
<1>6. SlotInv'
  BY <1>0, <1>2, <1>3, <1>4 DEF SlotInv, Bound, BackendOf
<1>7. MgrInv' /\ DispInv' /\ WorkerInv'
  BY <1>0, <1>3 DEF MgrInv, DispInv, WorkerInv, Bound, BackendOf
<1>8. InterInv'
  <2>1. hub.inter # NoKey => hub.inter.backend \in Backends /\ hub.inter.backend # b
    BY <1>0, KeyFacts DEF InterInv, HubOK, HubRec
  <2> QED BY <1>0, <1>2, <2>1 DEF InterInv
<1>9. HoldsInv' /\ OwnerInv' /\ HubOK(hub)'
  BY <1>0 DEF HoldsInv, OwnerInv, OwnerIsBound, Key
<1> QED BY <1>5, <1>6, <1>7, <1>8, <1>9 DEF HubInv, CallInv

\* The manager turns to an interaction, or away from it.
LEMMA MgrTurns ==
  ASSUME HubInv, Less(hub, hub'), UNCHANGED <<m_sources, worker, disp, entry>>, ~Calling, ~Calling',
         mgr' \in InteractRec \cup {Idle},
         mgr'.op = "interact" => entry[mgr'.source.backend].open /\ entry[mgr'.source.backend].epoch = mgr'.source.epoch
  PROVE  HubInv'
<1>1. HubOK(hub') /\ hub'.started = hub.started /\ hub' \in HubRec /\ hub'.owner \in {hub.owner, NoKey}
  BY DEF Less, HubOK
<1>2. mgr'.op \in {"interact", "idle"}
  BY DEF InteractRec, Idle
<1>3. TypeOK' /\ SlotInv' /\ DispInv' /\ WorkerInv'
  BY <1>1 DEF HubInv, TypeOK, SlotInv, DispInv, CallInv, WorkerInv, Bound, BackendOf
<1>4. MgrInv'
  BY <1>2 DEF MgrInv
<1>5. HoldsInv' /\ InterInv'
  BY LessKeeps
<1>6. hub.owner # NoKey => worker[hub.owner.backend].at \in {"loop", "release", "leave"}
  BY DEF HubInv, OwnerInv
<1>7. OwnerInv'
  BY <1>1, <1>6, OwnerKept
<1> QED BY <1>1, <1>3, <1>4, <1>5, <1>7 DEF HubInv, CallInv

\* CheckInteraction.
LEMMA CheckInteractionStep ==
  ASSUME HubInv, NEW b \in Backends, NEW c \in Clients, CheckInteraction(b, c)
  PROVE  HubInv'
<1>0. TypeOK /\ HubOK(hub) /\ mgr = Idle /\ entry[b].open /\ UNCHANGED <<m_sources, worker, disp, entry>>
  BY DEF HubInv, CheckInteraction
<1>1. ~Calling
  BY <1>0, CallTypes
<1> DEFINE src == [backend |-> b, epoch |-> entry[b].epoch, client |-> c, generation |-> 0]
           over(h) == h.owner = NoKey /\ h.inter # NoKey /\ ~h.interLive
           g(h)    == IF over(h) THEN InvalidateInteraction(h) ELSE h
           lord(h) == IF g(h).owner # NoKey THEN g(h).owner ELSE g(h).inter
<1>2. PICK r \in CheckState(hub) :
        IF lord(r.hub) # NoKey /\ ~SameClient(lord(r.hub), src)
          THEN hub' = g(r.hub) /\ mgr' = Idle
          ELSE /\ hub' = [g(r.hub) EXCEPT !.moved = FALSE]
               /\ mgr' = [op |-> "interact", source |-> [src EXCEPT !.generation = lord(r.hub).generation]]
  BY Zenon DEF CheckInteraction
<1>3. Less(hub, r.hub)
  BY <1>0, CheckStateFact
<1>4. PICK f : f = g(r.hub)
  OBVIOUS
<1>5. Less(hub, f)
  BY <1>0, <1>3, <1>4, LessFact
<1>6. PICK l : l = IF f.owner # NoKey THEN f.owner ELSE f.inter
  OBVIOUS
<1>7. IF l # NoKey /\ ~SameClient(l, src)
          THEN hub' = f /\ mgr' = Idle
          ELSE /\ hub' = [f EXCEPT !.moved = FALSE]
               /\ mgr' = [op |-> "interact", source |-> [src EXCEPT !.generation = l.generation]]
  BY <1>2, <1>4, <1>6
<1> HIDE DEF g, lord, over
<1>8. f \in HubRec /\ l \in Keys \cup {NoKey}
  BY <1>5, <1>6 DEF Less, HubOK, HubRec
<1>9. CASE hub' = f /\ mgr' = Idle
  <2>1. mgr'.op = "idle" /\ ~Calling'
    BY <1>9 DEF Idle, Calling
  <2> QED BY <1>0, <1>1, <1>5, <1>9, <2>1, MgrTurns
<1>10. CASE /\ hub' = [f EXCEPT !.moved = FALSE]
            /\ mgr' = [op |-> "interact", source |-> [src EXCEPT !.generation = l.generation]]
  <2>1. /\ hub' \in HubRec /\ hub'.owner = f.owner /\ hub'.inter = f.inter /\ hub'.started = f.started
        /\ hub'.hasSink = f.hasSink /\ hub'.sink = f.sink
    BY <1>8, <1>10 DEF HubRec
  <2>2. Less(hub, hub')
    BY <1>5, <2>1 DEF Less, HubOK
  <2>3. l.generation \in Generations \cup {0} /\ entry[b].epoch \in 1..MaxEpoch
    BY <1>0, <1>8 DEF Keys, NoKey, TypeOK, EntryRec
  <2> DEFINE key == [src EXCEPT !.generation = l.generation]
  <2>4. key \in Keys /\ key.backend = b /\ key.epoch = entry[b].epoch
    BY <2>3 DEF Keys
  <2>5. mgr' = [op |-> "interact", source |-> key]
    BY <1>10
  <2> HIDE DEF key
  <2>6. mgr' \in InteractRec /\ mgr'.op = "interact" /\ mgr'.source = key /\ ~Calling'
    BY <2>4, <2>5 DEF InteractRec, Calling
  <2> QED BY <1>0, <1>1, <2>2, <2>4, <2>6, MgrTurns
<1> QED BY <1>7, <1>9, <1>10

\* CommitInteraction: the lease is for an attached instance, while nobody owns
\* the devices.
LEMMA CommitInteractionStep ==
  ASSUME HubInv, CommitInteraction
  PROVE  HubInv'
<1>0. TypeOK /\ MgrInv /\ HubOK(hub) /\ InterInv /\ mgr.op = "interact" /\ mgr' = Idle /\ UNCHANGED <<m_sources, worker, disp, entry>>
  BY DEF HubInv, CallInv, CommitInteraction
<1>1. ~Calling /\ ~Calling' /\ mgr'.op = "idle"
  BY <1>0 DEF Calling, Idle
<1>2. mgr.source \in Keys /\ entry[mgr.source.backend].open /\ entry[mgr.source.backend].epoch = mgr.source.epoch
  BY <1>0, CallTypes DEF MgrInv, InteractRec
<1>3. PICK r \in CheckState(hub) :
       hub' = IF \/ r.hub.moved \/ r.hub.owner # NoKey
                 \/ r.hub.inter # NoKey /\ ~SameClient(r.hub.inter, mgr.source)
              THEN r.hub
              ELSE AdvanceInteraction([r.hub EXCEPT !.interLive = TRUE,
                     !.inter = IF @ = NoKey THEN mgr.source ELSE @])
  BY DEF CommitInteraction
<1>4. Less(hub, r.hub)
  BY <1>0, CheckStateFact
<1>5. CASE hub' = r.hub
  BY <1>0, <1>1, <1>4, <1>5, MgrTurns
<1>6. CASE /\ r.hub.owner = NoKey
           /\ hub' = AdvanceInteraction([r.hub EXCEPT !.interLive = TRUE, !.inter = IF @ = NoKey THEN mgr.source ELSE @])
  <2> DEFINE k == IF r.hub.inter = NoKey THEN mgr.source ELSE r.hub.inter
  <2>1. r.hub \in HubRec /\ k \in Keys
    BY <1>2, <1>4 DEF Less, HubOK, HubRec
  <2>2. hub' = AdvanceInteraction([r.hub EXCEPT !.interLive = TRUE, !.inter = k])
    BY <1>6
  <2>3. k = mgr.source \/ (k = hub.inter /\ hub.inter # NoKey)
    <3>1. r.hub.inter = hub.inter \/ r.hub.inter = NoKey
      BY <1>4 DEF Less
    <3> QED BY <3>1
  <2>h. PICK q : q = k
    OBVIOUS
  <2> HIDE DEF k
  <2>4. /\ hub' \in HubRec /\ hub'.owner = r.hub.owner /\ hub'.inter = k /\ hub'.started = r.hub.started
        /\ hub'.hasSink = r.hub.hasSink /\ hub'.sink = r.hub.sink
    BY <2>1, <2>2 DEF AdvanceInteraction, HubRec
  <2>5. HubOK(hub') /\ hub'.started = hub.started /\ hub'.owner = NoKey
    BY <1>4, <1>6, <2>4 DEF Less, HubOK
  <2>6. InterInv'
    <3>1. hub'.inter = q /\ (q = mgr.source \/ (q = hub.inter /\ hub.inter # NoKey))
      BY <2>3, <2>4, <2>h
    <3>2. entry[q.backend].open /\ entry[q.backend].epoch = q.epoch
      BY <1>0, <1>2, <3>1, Zenon DEF InterInv
    <3> QED BY <1>0, <3>1, <3>2 DEF InterInv
  <2>7. TypeOK' /\ SlotInv' /\ DispInv' /\ WorkerInv' /\ MgrInv'
    BY <1>0, <1>1, <2>4, <2>5 DEF HubInv, TypeOK, SlotInv, DispInv, CallInv, WorkerInv, Bound, BackendOf, MgrInv
  <2>8. OwnerInv'
    BY <2>5 DEF OwnerInv, OwnerIsBound
  <2>9. HoldsInv'
    <3>1. hub'.sink.holds \subseteq hub.sink.holds /\ (hub.owner # NoKey => hub'.sink.holds = {})
      BY <1>4, <1>6, <2>4 DEF Less
    <3> QED BY <1>0, <2>5, <3>1 DEF HubInv, HoldsInv
  <2> QED BY <2>5, <2>6, <2>7, <2>8, <2>9 DEF HubInv, CallInv
<1> QED BY <1>3, <1>5, <1>6

\* InteractionRefused.
LEMMA InteractionRefusedStep ==
  ASSUME HubInv, InteractionRefused
  PROVE  HubInv'
<1>1. HubOK(hub) /\ mgr.op = "interact" /\ mgr' = Idle /\ UNCHANGED <<hub, m_sources, worker, disp, entry>>
  BY DEF HubInv, InteractionRefused
<1>2. ~Calling /\ ~Calling' /\ mgr'.op = "idle"
  BY <1>1 DEF Calling, Idle
<1>3. Less(hub, hub')
  BY <1>1, LessFact
<1> QED BY <1>1, <1>2, <1>3, MgrTurns

-----------------------------------------------------------------------------
(* The display side's steps.                                               *)

\* Start: no worker runs yet.
LEMMA StartBeginStep ==
  ASSUME HubInv, StartBegin
  PROVE  HubInv'
<1>0. /\ TypeOK /\ MgrInv /\ DispInv /\ SlotInv /\ WorkerInv /\ OwnerInv /\ InterInv /\ HoldsInv /\ HubOK(hub)
      /\ ~hub.started /\ mgr.op \in {"idle", "interact"} /\ disp = Idle /\ UNCHANGED <<worker, mgr, entry>>
  BY DEF HubInv, CallInv, StartBegin, LifecycleFree
<1>1. PICK s0 \in SinkMoves(hub.sink) :
        hub' = InvalidateInteraction([hub EXCEPT !.started = TRUE, !.hasSink = TRUE, !.sink = [s0 EXCEPT !.changed = FALSE]])
  BY DEF StartBegin
<1>2. hub \in HubRec /\ hub.sink \in SinkRec /\ hub.owner = NoKey /\ disp.op = "idle" /\ ~Calling /\ ~Calling'
  BY <1>0, CallTypes DEF HubOK, HubRec, Calling
<1>3. hub.sink.holds = {}
  <2>1. hub.sink.holds \subseteq {NoKey} /\ hub.sink.holds \subseteq Keys
    BY <1>0, <1>2 DEF HoldsInv, SinkRec
  <2> QED BY <2>1, KeyFacts
<1>4. s0 \in SinkRec /\ s0.holds = {}
  <2>1. s0 \in SinkRec /\ s0.holds \subseteq hub.sink.holds
    BY <1>0, <1>2, SinkMovesFact DEF HubOK
  <2> QED BY <1>3, <2>1
<1> DEFINE s == [s0 EXCEPT !.changed = FALSE]
<1>5. s \in SinkRec /\ s.holds = {}
  BY <1>4 DEF SinkRec
<1>6. hub' = InvalidateInteraction([hub EXCEPT !.started = TRUE, !.hasSink = TRUE, !.sink = s])
  BY <1>1
<1> HIDE DEF s
<1>7. /\ hub' \in HubRec /\ hub'.owner = NoKey /\ hub'.inter = NoKey /\ hub'.started = TRUE /\ hub'.hasSink = TRUE
      /\ hub'.sink = s
  BY <1>2, <1>5, <1>6 DEF InvalidateInteraction, AdvanceInteraction, ClearInteraction, HubRec
<1>8. HubOK(hub)'
  BY <1>5, <1>7 DEF HubOK
<1>9. /\ m_sources' \in [Slots -> SlotRec]
      /\ \A j \in Slots : /\ m_sources'[j].backend = m_sources[j].backend /\ m_sources'[j].epoch = m_sources[j].epoch
                          /\ m_sources'[j].running = m_sources[j].running
                          /\ m_sources'[j].failurePending = m_sources[j].failurePending
                          /\ Bound(j)' <=> Bound(j)
  <2>1. m_sources' = [j \in Slots |-> IF m_sources[j].active THEN [m_sources[j] EXCEPT !.reserved = TRUE] ELSE m_sources[j]]
    BY DEF StartBegin
  <2>2. ASSUME NEW j \in Slots
        PROVE  /\ m_sources'[j] \in SlotRec
               /\ m_sources'[j].backend = m_sources[j].backend /\ m_sources'[j].epoch = m_sources[j].epoch
               /\ m_sources'[j].running = m_sources[j].running
               /\ m_sources'[j].failurePending = m_sources[j].failurePending
               /\ Bound(j)' <=> Bound(j)
    <3>1. m_sources[j] \in SlotRec
      BY <1>0 DEF TypeOK
    <3>2. CASE m_sources[j].active
      <4> DEFINE t == [m_sources[j] EXCEPT !.reserved = TRUE]
      <4>1. /\ t \in SlotRec /\ t.backend = m_sources[j].backend /\ t.epoch = m_sources[j].epoch
            /\ t.running = m_sources[j].running /\ t.failurePending = m_sources[j].failurePending /\ t.reserved = TRUE
        BY <3>1 DEF SlotRec
      <4>2. m_sources'[j] = t
        BY <2>1, <3>2
      <4> HIDE DEF t
      <4> QED BY <3>2, <4>1, <4>2 DEF Bound
    <3>3. CASE ~m_sources[j].active
      <4>1. m_sources'[j] = m_sources[j]
        BY <2>1, <3>3
      <4> QED BY <3>1, <4>1 DEF Bound
    <3> QED BY <3>2, <3>3
  <2>3. m_sources' = [j \in Slots |-> m_sources'[j]]
    BY <2>1
  <2> QED BY <2>2, <2>3
<1>10. /\ disp' = [op |-> "start", at |-> "next", todo |-> {i \in Slots : m_sources[i].active}]
  BY DEF StartBegin
<1>11. disp' \in StartRec /\ disp'.op = "start" /\ disp'.at = "next" /\ disp'.todo = {i \in Slots : m_sources[i].active}
  <2> DEFINE T == {i \in Slots : m_sources[i].active}
  <2>1. T \subseteq Slots
    OBVIOUS
  <2>2. disp' = [op |-> "start", at |-> "next", todo |-> T]
    BY <1>10
  <2> HIDE DEF T
  <2>3. disp' \in StartRec /\ disp'.op = "start" /\ disp'.at = "next" /\ disp'.todo = T
    BY <2>1, <2>2 DEF StartRec
  <2> QED BY <2>3 DEF T
<1>12. TypeOK'
  BY <1>0, <1>7, <1>9, <1>11 DEF TypeOK
<1>13. SlotInv'
  BY <1>0, <1>2, <1>7, <1>9 DEF SlotInv, BackendOf
<1>14. \A a \in Backends : worker[a].at = "none"
  BY <1>0, <1>2 DEF WorkerInv, SlotInv
<1>15. MgrInv'
  BY <1>0, <1>2 DEF MgrInv
<1>16. DispInv'
  <2>1. \A j \in disp'.todo : j \in Slots /\ Bound(j)'
    BY <1>9, <1>11 DEF Bound
  <2>2. \A j \in disp'.todo : BackendOf(j)' \in Backends
    BY <1>13, <2>1 DEF SlotInv
  <2> QED BY <1>0, <1>7, <1>11, <1>14, <2>1, <2>2 DEF DispInv
<1>17. WorkerInv' /\ OwnerInv' /\ InterInv'
  BY <1>0, <1>7, <1>14 DEF WorkerInv, OwnerInv, OwnerIsBound, InterInv
<1>18. HoldsInv'
  BY <1>5, <1>7, <1>11 DEF HoldsInv
<1> QED BY <1>8, <1>12, <1>13, <1>15, <1>16, <1>17, <1>18 DEF HubInv, CallInv

\* The slot whose turn it is, and its instance.
LEMMA TodoFact ==
  ASSUME HubInv, disp.op \in {"start", "stop"}, disp.todo # {}
  PROVE  /\ Turn(disp) \in disp.todo /\ Turn(disp) \in Slots /\ Bound(Turn(disp))
         /\ BackendOf(Turn(disp)) \in Backends /\ m_sources[Turn(disp)] \in SlotRec
         /\ disp.todo \subseteq Slots /\ \A j \in disp.todo : Bound(j) /\ BackendOf(j) \in Backends
         /\ ~Calling
<1>0. TypeOK /\ MgrInv /\ DispInv /\ SlotInv
  BY DEF HubInv, CallInv
<1>1. disp.todo \subseteq Slots /\ disp # Idle
  BY <1>0, CallTypes
<1>2. Turn(disp) \in disp.todo
  BY <1>1, FirstFact, LastFact DEF Turn
<1>3. \A j \in disp.todo : Bound(j) /\ BackendOf(j) \in Backends
  BY <1>0, <1>1 DEF DispInv, SlotInv
<1>4. ~Calling
  BY <1>0, <1>1 DEF MgrInv
<1> QED BY <1>0, <1>1, <1>2, <1>3, <1>4 DEF TypeOK

\* A step of Start or Stop that concerns the worker whose turn it is.
LEMMA DispMoves ==
  ASSUME HubInv, UNCHANGED <<m_sources, mgr, entry>>, Less(hub, hub'), disp.op \in {"start", "stop"}, disp.todo # {},
         NEW i, i = Turn(disp), NEW b \in Backends, b = BackendOf(i),
         NEW v \in WorkerRec, worker' = [worker EXCEPT ![b] = v],
         disp' \in StartRec \cup StopRec, disp'.op = disp.op, disp.op = "stop" => disp'.reset = disp.reset,
         \/ disp'.todo = disp.todo /\ (v.at # "none" => v.slot = i)
            /\ (worker[b].at = "none" /\ v.at # "none" => disp'.at \notin {"next", "refused"})
            /\ (worker[b].at # "none" => disp'.at \notin {"next", "refused"} \/ disp.op = "stop")
         \/ disp'.todo = disp.todo \ {i} /\ v.at = "none" /\ disp'.at = "next" /\ disp.at = "stop",
         worker[b].at \in {"loop", "release", "leave"} =>
           v.at = worker[b].at /\ v.owner = worker[b].owner /\ v.slot = worker[b].slot
  PROVE  HubInv'
<1>0. TypeOK /\ MgrInv /\ DispInv /\ SlotInv /\ WorkerInv /\ OwnerInv /\ InterInv /\ HoldsInv
  BY DEF HubInv, CallInv
<1>1. HubOK(hub') /\ hub'.started = hub.started /\ hub' \in HubRec /\ hub'.owner \in {hub.owner, NoKey}
  BY DEF Less, HubOK
<1>2. i \in disp.todo /\ i \in Slots /\ Bound(i) /\ disp.todo \subseteq Slots /\ ~Calling /\ ~Calling'
      /\ \A j \in disp.todo : Bound(j) /\ BackendOf(j) \in Backends
  BY TodoFact DEF Calling
<1>3. worker' \in [Backends -> WorkerRec] /\ worker'[b] = v /\ \A a \in Backends : a # b => worker'[a] = worker[a]
  BY <1>0 DEF TypeOK
<1>4. TypeOK'
  BY <1>0, <1>1, <1>3, ZenonT(60) DEF TypeOK
<1>5. SlotInv'
  BY <1>0, <1>1 DEF SlotInv, Bound, BackendOf, Calling
<1>6. MgrInv'
  BY <1>0, <1>2 DEF MgrInv, Calling
<1>7. \A j \in Slots : Bound(j)' = Bound(j) /\ BackendOf(j)' = BackendOf(j)
  BY DEF Bound, BackendOf
<1>8. \A j \in disp.todo : j # i => BackendOf(j) # b
  BY <1>0, <1>2 DEF SlotInv
<1>9. DispInv'
  <2>1. disp'.at # "next" => disp'.todo # {}
    BY <1>2
  <2>2. \A j \in disp'.todo : Bound(j)'
    BY <1>2, <1>7
  <2>3. hub'.started = (disp'.op = "start")
    BY <1>0, <1>1 DEF DispInv
  <2>4. ASSUME disp'.op = "start", NEW j \in disp'.todo, disp'.at \in {"next", "refused"} \/ j # Turn(disp')
        PROVE  worker'[BackendOf(j)'].at = "none"
    <3>1. j \in disp.todo /\ BackendOf(j)' = BackendOf(j) /\ BackendOf(j) \in Backends
      BY <1>2, <1>7
    <3>2. CASE j # i
      BY <1>0, <1>3, <1>8, <2>4, <3>1, <3>2 DEF DispInv
    <3>3. CASE j = i
      <4>1. disp'.todo = disp.todo /\ disp'.at \in {"next", "refused"}
        BY <2>4, <3>3 DEF Turn
      <4> QED BY <1>3, <2>4, <3>1, <3>3, <4>1
    <3> QED BY <3>2, <3>3
  <2> QED BY <2>1, <2>2, <2>3, <2>4 DEF DispInv
<1>10. WorkerInv'
  <2>1. ASSUME NEW a \in Backends, worker'[a].at # "none", a # b
        PROVE  /\ worker'[a].slot \in Slots /\ BackendOf(worker'[a].slot) = a /\ Bound(worker'[a].slot)
               /\ m_sources[worker'[a].slot].running \/ worker'[a].slot \in disp'.todo
    BY <1>0, <1>2, <1>3, <2>1 DEF WorkerInv
  <2>2. v.at # "none" => v.slot = i /\ i \in disp'.todo
    BY <1>2
  <2> QED BY <1>2, <1>3, <1>7, <2>1, <2>2 DEF WorkerInv
<1>11. HoldsInv'
  BY <1>0 DEF HoldsInv, Less
<1>12. InterInv'
  BY <1>0 DEF InterInv, Less
<1>13. OwnerInv'
  <2>1. ASSUME hub'.owner # NoKey
        PROVE  LET u == worker'[hub.owner.backend]
               IN  /\ u.at \in {"loop", "release", "leave"}
                   /\ u.owner = worker[hub.owner.backend].owner /\ u.slot = worker[hub.owner.backend].slot
    <3>1. hub.owner # NoKey /\ hub.owner.backend \in Backends
      BY <1>1, <2>1, KeyFacts DEF HubInv, HubOK, HubRec
    <3>2. worker[hub.owner.backend].at \in {"loop", "release", "leave"}
      BY <3>1, OwnerOfWorker
    <3> QED BY <1>3, <2>1, <3>1, <3>2
  <2> QED BY <2>1, OwnerKept
<1> QED BY <1>1, <1>4, <1>5, <1>6, <1>9, <1>10, <1>11, <1>12, <1>13 DEF HubInv, CallInv

\* The worker of a bound slot's instance, if there is one, is the slot's.
LEMMA WorkersSlot ==
  ASSUME HubInv, NEW i \in Slots, Bound(i), NEW b \in Backends, b = BackendOf(i), worker[b].at # "none"
  PROVE  worker[b].slot = i
BY DEF HubInv, WorkerInv, SlotInv

\* A stage of Start or Stop.
LEMMA StageOnly ==
  ASSUME HubInv, disp.op \in {"start", "stop"}, NEW to \in {"next", "started", "refused", "stop"},
         disp.op = "stop" => to \in {"next", "stop"}
  PROVE  LET d == [disp EXCEPT !.at = to]
         IN  /\ d \in StartRec \cup StopRec /\ d.op = disp.op /\ (disp.op = "stop" => d.reset = disp.reset)
             /\ d.at = to /\ d.todo = disp.todo
<1>0. TypeOK
  BY DEF HubInv
<1>1. CASE disp.op = "start"
  <2>1. disp \in StartRec
    BY <1>0, <1>1, CallTypes
  <2> QED BY <1>1, <2>1 DEF StartRec
<1>2. CASE disp.op = "stop"
  <2>1. disp \in StopRec
    BY <1>0, <1>2, CallTypes
  <2> QED BY <1>2, <2>1 DEF StopRec
<1> QED BY <1>1, <1>2

\* Start asks an endpoint to start.
LEMMA StartEndpointStep ==
  ASSUME HubInv, StartEndpoint
  PROVE  HubInv'
<1>0. /\ DispInv /\ HubOK(hub) /\ disp.op = "start" /\ disp.at = "next" /\ disp.todo # {} /\ UNCHANGED <<m_sources, mgr, entry>>
  BY DEF HubInv, CallInv, StartEndpoint
<1>1. PICK i \in Slots : i = Turn(disp) /\ i \in disp.todo /\ Bound(i) /\ BackendOf(i) \in Backends
  BY <1>0, TodoFact
<1>2. PICK b \in Backends : b = BackendOf(i)
  BY <1>1
<1>3. worker[b].at = "none" /\ worker[b] \in WorkerRec /\ worker = [worker EXCEPT ![b] = worker[b]]
  BY <1>0, <1>1, <1>2, WorkerType DEF DispInv
<1> DEFINE k == [backend |-> m_sources[i].backend, epoch |-> m_sources[i].epoch, client |-> 0, generation |-> 0]
<1>4. CASE /\ \E r \in GetState(hub, k) : hub' = r.hub
           /\ Started(k.backend, i)
           /\ disp' = [disp EXCEPT !.at = "started"]
  <2> DEFINE v == [NoWorker EXCEPT !.at = "loop", !.slot = i, !.spin = TRUE]
  <2>1. Less(hub, hub')
    BY <1>0, <1>4, GetStateFact
  <2>2. worker' = [worker EXCEPT ![b] = v]
    BY <1>2, <1>4 DEF Started, BackendOf
  <2>3. v \in WorkerRec /\ v.slot = i /\ v.at = "loop"
    BY DEF NoWorker, WorkerRec, Stages
  <2>4. disp' \in StartRec \cup StopRec /\ disp'.op = "start" /\ disp'.at = "started" /\ disp'.todo = disp.todo
    BY <1>0, <1>4, StageOnly
  <2> HIDE DEF v, k
  <2> QED BY <1>0, <1>1, <1>2, <1>3, <2>1, <2>2, <2>3, <2>4, DispMoves
<1>5. CASE disp' = [disp EXCEPT !.at = "refused"] /\ UNCHANGED <<hub, worker>>
  <2>1. Less(hub, hub')
    BY <1>0, <1>5, LessFact
  <2>2. disp' \in StartRec \cup StopRec /\ disp'.op = "start" /\ disp'.at = "refused" /\ disp'.todo = disp.todo
    BY <1>0, <1>5, StageOnly
  <2>3. worker' = [worker EXCEPT ![b] = worker[b]]
    BY <1>3, <1>5
  <2>4. PICK v \in WorkerRec : v = worker[b]
    BY <1>3
  <2>5. v.at = "none" /\ worker' = [worker EXCEPT ![b] = v]
    BY <1>3, <2>3, <2>4
  <2>6. /\ disp'.todo = disp.todo /\ (v.at # "none" => v.slot = i)
        /\ worker[b].at = "none" /\ v.at # "none" => disp'.at \notin {"next", "refused"}
        /\ worker[b].at # "none" => disp'.at \notin {"next", "refused"} \/ disp.op = "stop"
        /\ disp'.op = disp.op /\ (disp.op = "stop" => disp'.reset = disp.reset)
        /\ disp.op \in {"start", "stop"} /\ disp.todo # {}
    BY <1>0, <1>3, <2>2, <2>5
  <2>7. worker[b].at \in {"loop", "release", "leave"} =>
           v.at = worker[b].at /\ v.owner = worker[b].owner /\ v.slot = worker[b].slot
    BY <2>4
  <2> QED BY <1>0, <1>1, <1>2, <2>1, <2>2, <2>5, <2>6, <2>7, DispMoves
<1> QED BY <1>1, <1>4, <1>5 DEF StartEndpoint

\* Stop of a hub that is not started.
LEMMA StopNotStartedStep ==
  ASSUME HubInv, StopNotStarted
  PROVE  HubInv'
<1>0. HubOK(hub) /\ hub \in HubRec /\ UNCHANGED <<m_sources, worker, mgr, disp, entry>>
  BY DEF HubInv, StopNotStarted, HubOK
<1>1. /\ hub' \in HubRec /\ hub'.owner = hub.owner /\ hub'.inter = NoKey /\ hub'.started = hub.started
      /\ hub'.hasSink = hub.hasSink /\ hub'.sink = hub.sink
  BY <1>0 DEF StopNotStarted, InvalidateInteraction, AdvanceInteraction, ClearInteraction, HubRec
<1>2. Less(hub, hub')
  BY <1>0, <1>1 DEF Less, HubOK
<1> QED BY <1>0, <1>2, HubEnds

\* Stop asks an endpoint to stop.
LEMMA StopEndpointStep ==
  ASSUME HubInv, StopEndpoint
  PROVE  HubInv'
<1>0. /\ HubOK(hub) /\ disp.op = "stop" /\ disp.at = "next" /\ disp.todo # {} /\ UNCHANGED <<hub, m_sources, mgr, entry>>
      /\ disp' = [disp EXCEPT !.at = "stop"]
  BY DEF HubInv, StopEndpoint
<1>1. PICK i \in Slots : i = Turn(disp) /\ i \in disp.todo /\ Bound(i) /\ BackendOf(i) \in Backends
  BY <1>0, TodoFact
<1>2. PICK b \in Backends : b = BackendOf(i)
  BY <1>1
<1> DEFINE v == [worker[b] EXCEPT !.stop = TRUE]
<1>3. worker' = [worker EXCEPT ![b] = v]
  BY <1>1, <1>2 DEF StopEndpoint, StopSignal, BackendOf
<1>4. v \in WorkerRec /\ v.at = worker[b].at /\ v.owner = worker[b].owner /\ v.slot = worker[b].slot
  BY WorkerType DEF WorkerRec
<1>5. Less(hub, hub')
  BY <1>0, LessFact
<1>6. disp' \in StartRec \cup StopRec /\ disp'.op = "stop" /\ disp'.at = "stop" /\ disp'.todo = disp.todo /\ disp'.reset = disp.reset
  BY <1>0, StageOnly
<1>7. v.at # "none" => v.slot = i
  BY <1>1, <1>2, <1>4, WorkersSlot
<1> HIDE DEF v
<1> QED BY <1>0, <1>1, <1>2, <1>3, <1>4, <1>5, <1>6, <1>7, DispMoves

\* The endpoint has stopped.
LEMMA EndpointStoppedStep ==
  ASSUME HubInv, EndpointStopped
  PROVE  HubInv'
<1>0. /\ HubOK(hub) /\ disp.op \in {"start", "stop"} /\ disp.at = "stop" /\ UNCHANGED <<hub, m_sources, mgr, entry>>
      /\ disp' = [disp EXCEPT !.at = "next", !.todo = @ \ {Turn(disp)}] /\ DispInv
  BY DEF HubInv, CallInv, EndpointStopped
<1>1. disp.todo # {}
  BY <1>0 DEF DispInv
<1>2. PICK i \in Slots : i = Turn(disp) /\ i \in disp.todo /\ Bound(i) /\ BackendOf(i) \in Backends
  BY <1>0, <1>1, TodoFact
<1>3. PICK b \in Backends : b = BackendOf(i)
  BY <1>2
<1>4. worker[b].at \in {"none", "exited"} /\ worker' = [worker EXCEPT ![b] = NoWorker]
  BY <1>2, <1>3 DEF EndpointStopped, Stopped, BackendOf
<1>5. NoWorker \in WorkerRec /\ NoWorker.at = "none"
  BY DEF NoWorker, WorkerRec, Stages
<1>6. Less(hub, hub')
  BY <1>0, LessFact
<1>7. /\ disp' \in StartRec \cup StopRec /\ disp'.op = disp.op /\ disp'.at = "next" /\ disp'.todo = disp.todo \ {i}
      /\ (disp.op = "stop" => disp'.reset = disp.reset)
  <2>0. PICK T : T = disp.todo \ {i}
    OBVIOUS
  <2>1. T \subseteq Slots
    BY <1>0, <1>1, <2>0, TodoFact
  <2>2. disp' = [disp EXCEPT !.at = "next", !.todo = T]
    BY <1>0, <1>2, <2>0
  <2>3. /\ disp' \in StartRec \cup StopRec /\ disp'.op = disp.op /\ disp'.at = "next" /\ disp'.todo = T
        /\ (disp.op = "stop" => disp'.reset = disp.reset)
    <3>1. TypeOK
      BY DEF HubInv
    <3>2. CASE disp.op = "start"
      <4>1. disp \in StartRec
        BY <3>1, <3>2, CallTypes
      <4> QED BY <2>1, <2>2, <3>2, <4>1 DEF StartRec
    <3>3. CASE disp.op = "stop"
      <4>1. disp \in StopRec
        BY <3>1, <3>3, CallTypes
      <4> QED BY <2>1, <2>2, <3>3, <4>1 DEF StopRec
    <3> QED BY <1>0, <3>2, <3>3
  <2> QED BY <2>0, <2>3
<1> QED BY <1>0, <1>1, <1>2, <1>3, <1>4, <1>5, <1>6, <1>7, DispMoves

\* Start has the endpoint running, or gives it up.
LEMMA StartSettleStep ==
  ASSUME HubInv, StartSettle
  PROVE  HubInv'
<1>0. /\ TypeOK /\ MgrInv /\ DispInv /\ SlotInv /\ WorkerInv /\ OwnerInv /\ InterInv /\ HoldsInv /\ HubOK(hub)
      /\ disp.op = "start" /\ disp.at \in {"started", "refused"} /\ UNCHANGED <<mgr, entry>>
  BY DEF HubInv, CallInv, StartSettle
<1>1. disp.todo # {} /\ hub.started
  BY <1>0 DEF DispInv
<1>2. PICK i \in Slots : i = Turn(disp) /\ i \in disp.todo /\ Bound(i) /\ BackendOf(i) \in Backends /\ m_sources[i] \in SlotRec
  BY <1>0, <1>1, TodoFact
<1>3. PICK b \in Backends : b = BackendOf(i)
  BY <1>2
<1>4. /\ disp.todo \subseteq Slots /\ ~Calling /\ ~Calling' /\ \A j \in disp.todo : Bound(j) /\ BackendOf(j) \in Backends
      /\ worker \in [Backends -> WorkerRec] /\ worker[b] \in WorkerRec /\ m_sources \in [Slots -> SlotRec]
  BY <1>0, <1>1, TodoFact DEF TypeOK, Calling
<1>5. \A j \in disp.todo : j # i => BackendOf(j) # b /\ worker[BackendOf(j)].at = "none"
  BY <1>0, <1>2, <1>3, <1>4 DEF SlotInv, DispInv
<1>6. CASE disp.at = "refused" \/ m_sources[i].failed \/ ~m_sources[i].active \/ ~m_sources[i].reserved
  <2> DEFINE s == [m_sources[i] EXCEPT !.active = FALSE, !.failed = TRUE, !.failurePending = TRUE, !.running = FALSE]
             v == [worker[b] EXCEPT !.stop = TRUE]
  <2>1. /\ hub' \in Detach(hub, b, m_sources[i].epoch) /\ m_sources' = [m_sources EXCEPT ![i] = s]
        /\ worker' = [worker EXCEPT ![b] = v] /\ disp' = [disp EXCEPT !.at = "stop"]
    BY <1>2, <1>3, <1>4, <1>6 DEF StartSettle, StopSignal, BackendOf
  <2>2. Less(hub, hub') /\ ~(hub'.owner.backend = b /\ hub'.owner.epoch = m_sources[i].epoch)
    BY <1>0, <2>1, DetachFact
  <2>3. /\ s \in SlotRec /\ s.backend = m_sources[i].backend /\ s.epoch = m_sources[i].epoch /\ s.failed = TRUE
        /\ s.running = FALSE
    BY <1>2 DEF SlotRec
  <2>4. v \in WorkerRec /\ v.at = worker[b].at /\ v.owner = worker[b].owner /\ v.slot = worker[b].slot
    BY <1>4 DEF WorkerRec
  <2>5. disp' \in StartRec \cup StopRec /\ disp'.op = "start" /\ disp'.at = "stop" /\ disp'.todo = disp.todo
    BY <1>0, <2>1, StageOnly
  <2> HIDE DEF s, v
  <2>6. HubOK(hub') /\ hub'.started = hub.started /\ hub' \in HubRec
    BY <2>2 DEF Less, HubOK
  <2>7. /\ m_sources' \in [Slots -> SlotRec] /\ SlotInv'
        /\ \A j \in Slots : Bound(j)' = Bound(j) /\ BackendOf(j)' = BackendOf(j)
    BY <1>0, <1>2, <2>1, <2>3, <2>6, SlotKeeps
  <2>8. m_sources'[i] = s /\ \A j \in Slots : j # i => m_sources'[j] = m_sources[j]
    BY <1>2, <1>4, <2>1
  <2>9. /\ worker' \in [Backends -> WorkerRec]
        /\ \A a \in Backends : worker'[a].at = worker[a].at /\ worker'[a].owner = worker[a].owner
                               /\ worker'[a].slot = worker[a].slot
    BY <1>4, <2>1, <2>4
  <2>10. TypeOK'
    BY <1>0, <2>5, <2>6, <2>7, <2>9 DEF TypeOK
  <2>11. MgrInv'
    BY <1>0, <1>4 DEF MgrInv, Calling
  <2>12. DispInv'
    <3>1. \A j \in disp'.todo : Bound(j)' /\ BackendOf(j)' = BackendOf(j) /\ BackendOf(j) \in Backends
      BY <1>4, <2>5, <2>7
    <3>2. Turn(disp') = i
      BY <1>0, <1>2, <2>5 DEF Turn
    <3> QED BY <1>1, <1>5, <2>5, <2>6, <2>9, <3>1, <3>2, ZenonT(60) DEF DispInv
  <2>13. WorkerInv'
    <3>1. ASSUME NEW a \in Backends, worker[a].at # "none"
          PROVE  /\ worker[a].slot \in Slots /\ BackendOf(worker[a].slot) = a /\ Bound(worker[a].slot)
                 /\ m_sources'[worker[a].slot].running \/ worker[a].slot \in disp.todo
      <4>1. /\ worker[a].slot \in Slots /\ BackendOf(worker[a].slot) = a /\ Bound(worker[a].slot)
            /\ m_sources[worker[a].slot].running \/ worker[a].slot \in disp.todo
        BY <1>0, <1>4, <3>1 DEF WorkerInv
      <4> QED BY <1>2, <2>8, <4>1
    <3> QED BY <2>5, <2>7, <2>9, <3>1 DEF WorkerInv
  <2>14. HoldsInv' /\ InterInv'
    BY <1>0, <2>2, <2>5 DEF HoldsInv, InterInv, Less
  <2>15. OwnerInv'
    BY <1>2, <1>3, <2>2, <2>8, <2>9, OwnerElsewhere DEF BackendOf
  <2> QED BY <2>6, <2>7, <2>10, <2>11, <2>12, <2>13, <2>14, <2>15 DEF HubInv, CallInv
<1>7. CASE ~(disp.at = "refused" \/ m_sources[i].failed \/ ~m_sources[i].active \/ ~m_sources[i].reserved)
  <2> DEFINE s == [m_sources[i] EXCEPT !.reserved = FALSE, !.running = TRUE]
  <2>1. /\ m_sources' = [m_sources EXCEPT ![i] = s] /\ UNCHANGED <<hub, worker>>
        /\ disp' = [disp EXCEPT !.at = "next", !.todo = disp.todo \ {i}]
    BY <1>2, <1>4, <1>7 DEF StartSettle
  <2>2. /\ s \in SlotRec /\ s.backend = m_sources[i].backend /\ s.epoch = m_sources[i].epoch /\ s.active = m_sources[i].active
        /\ s.running = TRUE /\ s.reserved = FALSE
    BY <1>2 DEF SlotRec
  <2> HIDE DEF s
  <2>3. disp' \in StartRec /\ disp'.op = "start" /\ disp'.at = "next" /\ disp'.todo = disp.todo \ {i}
    <3>1. PICK T : T = disp.todo \ {i}
      OBVIOUS
    <3>2. disp \in StartRec /\ T \subseteq Slots /\ disp' = [disp EXCEPT !.at = "next", !.todo = T]
      BY <1>0, <1>4, <2>1, <3>1, CallTypes
    <3>3. disp' \in StartRec /\ disp'.op = "start" /\ disp'.at = "next" /\ disp'.todo = T
      BY <1>0, <3>2 DEF StartRec
    <3> QED BY <3>1, <3>3
  <2>4. m_sources' \in [Slots -> SlotRec] /\ m_sources'[i] = s /\ \A j \in Slots : j # i => m_sources'[j] = m_sources[j]
    BY <1>2, <1>4, <2>1, <2>2
  <2>5. TypeOK'
    BY <1>0, <2>1, <2>3, <2>4 DEF TypeOK
  <2>6. s.active /\ disp.at = "started"
    BY <1>0, <1>7, <2>2
  <2>7. Bound(i)' /\ BackendOf(i)' = b /\ \A j \in Slots : j # i => Bound(j)' = Bound(j) /\ BackendOf(j)' = BackendOf(j)
    BY <1>3, <2>2, <2>4, <2>6 DEF Bound, BackendOf
  <2>8. SlotInv'
    <3>1. \A j \in Slots : Bound(j)' => BackendOf(j)' \in Backends /\ m_sources'[j].epoch = entry'[BackendOf(j)'].epoch
      BY <1>0, <1>2, <1>3, <2>2, <2>4, <2>7 DEF SlotInv
    <3>2. \A j \in Slots : m_sources'[j].failurePending \/ m_sources'[j].running => Bound(j)'
      BY <1>0, <2>4, <2>7 DEF SlotInv
    <3>3. \A j, k \in Slots : Bound(j)' /\ Bound(k)' /\ BackendOf(j)' = BackendOf(k)' => j = k
      BY <1>0, <1>2, <1>3, <2>7 DEF SlotInv
    <3>4. \A j \in Slots : Bound(j)' => entry'[BackendOf(j)'].added /\ entry'[BackendOf(j)'].open
      BY <1>0, <1>2, <1>3, <1>4, <2>7 DEF SlotInv
    <3>5. hub'.started
      BY <1>1, <2>1
    <3> QED BY <3>1, <3>2, <3>3, <3>4, <3>5 DEF SlotInv
  <2>9. MgrInv'
    BY <1>0, <1>4 DEF MgrInv, Calling
  <2>10. DispInv'
    <3>1. \A j \in disp'.todo : j \in disp.todo /\ j # i /\ Bound(j)' /\ BackendOf(j)' = BackendOf(j)
      BY <1>4, <2>3, <2>7
    <3> QED BY <1>1, <1>5, <2>1, <2>3, <3>1 DEF DispInv
  <2>11. WorkerInv'
    <3>1. ASSUME NEW a \in Backends, worker[a].at # "none"
          PROVE  /\ worker[a].slot \in Slots /\ BackendOf(worker[a].slot)' = a /\ Bound(worker[a].slot)'
                 /\ m_sources'[worker[a].slot].running \/ worker[a].slot \in disp'.todo
      <4>1. /\ worker[a].slot \in Slots /\ BackendOf(worker[a].slot) = a /\ Bound(worker[a].slot)
            /\ m_sources[worker[a].slot].running \/ worker[a].slot \in disp.todo
        BY <1>0, <1>4, <3>1 DEF WorkerInv
      <4>2. worker[a].slot = worker'[a].slot
        BY <2>1
      <4> QED BY <1>3, <2>2, <2>3, <2>4, <2>7, <4>1, <4>2
    <3> QED BY <2>1, <2>3, <3>1 DEF WorkerInv
  <2>12. HoldsInv' /\ InterInv' /\ HubOK(hub)'
    BY <1>0, <2>1, <2>3 DEF HoldsInv, InterInv
  <2>13. OwnerInv'
    <3>1. \A j \in Slots : m_sources'[j].backend = m_sources[j].backend /\ m_sources'[j].epoch = m_sources[j].epoch
      BY <2>2, <2>4
    <3>2. \A j \in Slots : m_sources[j].active /\ ~m_sources[j].reserved => m_sources'[j].active /\ ~m_sources'[j].reserved
      BY <2>2, <2>4, <2>6
    <3>3. ASSUME hub.owner # NoKey
          PROVE  worker[hub.owner.backend].slot \in Slots /\ worker[hub.owner.backend].at \in {"loop", "release", "leave"}
      <4>1. hub.owner.backend \in Backends
        BY <1>0, <3>3, KeyFacts DEF HubOK, HubRec
      <4> QED BY <1>0, <3>3, <4>1, OwnerOfWorker DEF WorkerInv
    <3>4. Less(hub, hub')
      BY <1>0, <2>1, LessFact
    <3> QED BY <1>0, <2>1, <3>1, <3>2, <3>3, <3>4, OwnerKept
  <2> QED BY <2>5, <2>8, <2>9, <2>10, <2>11, <2>12, <2>13 DEF HubInv, CallInv
<1> QED BY <1>6, <1>7

\* Start returns.
LEMMA StartEndStep ==
  ASSUME HubInv, StartEnd
  PROVE  HubInv'
<1>0. /\ TypeOK /\ MgrInv /\ SlotInv /\ WorkerInv /\ OwnerInv /\ InterInv /\ HoldsInv /\ HubOK(hub)
      /\ disp.op = "start" /\ disp.todo = {} /\ disp' = Idle /\ UNCHANGED <<hub, m_sources, worker, mgr, entry>>
  BY DEF HubInv, CallInv, StartEnd
<1>1. disp'.op = "idle"
  BY <1>0 DEF Idle
<1>2. TypeOK' /\ SlotInv' /\ MgrInv'
  BY <1>0 DEF TypeOK, SlotInv, MgrInv, Bound, BackendOf, Calling
<1>3. DispInv' /\ WorkerInv'
  BY <1>0, <1>1 DEF DispInv, WorkerInv, Bound, BackendOf, Calling
<1>4. OwnerInv' /\ InterInv' /\ HoldsInv' /\ HubOK(hub)'
  BY <1>0, <1>1 DEF OwnerInv, OwnerIsBound, Key, InterInv, HoldsInv
<1> QED BY <1>2, <1>3, <1>4 DEF HubInv, CallInv

\* Stop: the ownership ends at once, the reset waits for the workers.
LEMMA StopBeginStep ==
  ASSUME HubInv, StopBegin
  PROVE  HubInv'
<1>0. /\ TypeOK /\ MgrInv /\ SlotInv /\ WorkerInv /\ OwnerInv /\ InterInv /\ HoldsInv /\ HubOK(hub)
      /\ mgr.op \in {"idle", "interact"} /\ disp = Idle /\ UNCHANGED <<worker, mgr, entry>>
      /\ hub' = InvalidateInteraction(NoOwner([hub EXCEPT !.started = FALSE]))
      /\ m_sources' = [i \in Slots |-> [m_sources[i] EXCEPT !.running = FALSE]]
  BY DEF HubInv, CallInv, StopBegin, LifecycleFree
<1>1. hub \in HubRec /\ ~Calling /\ ~Calling' /\ disp.op = "idle"
  BY <1>0, CallTypes DEF HubOK, Calling
<1>2. /\ hub' \in HubRec /\ hub'.owner = NoKey /\ hub'.inter = NoKey /\ hub'.started = FALSE /\ hub'.hasSink = hub.hasSink
      /\ hub'.sink = hub.sink
  BY <1>0, <1>1 DEF InvalidateInteraction, AdvanceInteraction, ClearInteraction, NoOwner, HubRec
<1>3. HubOK(hub)'
  BY <1>0, <1>2 DEF HubOK
<1>4. PICK T : T = {i \in Slots : m_sources[i].running}
  OBVIOUS
<1>5. disp' = [op |-> "stop", at |-> "next", reset |-> hub.owner # NoKey, todo |-> T]
  BY <1>4 DEF StopBegin
<1>6. /\ disp' \in StopRec /\ disp'.op = "stop" /\ disp'.at = "next" /\ disp'.todo = T
      /\ disp'.reset <=> hub.owner # NoKey
  <2>1. T \subseteq Slots
    BY <1>4
  <2>2. (hub.owner # NoKey) \in BOOLEAN
    OBVIOUS
  <2>3. PICK q \in BOOLEAN : q = (hub.owner # NoKey)
    BY <2>2
  <2>4. disp' = [op |-> "stop", at |-> "next", reset |-> q, todo |-> T]
    BY <1>5, <2>3
  <2> QED BY <2>1, <2>3, <2>4 DEF StopRec
<1>7. /\ m_sources' \in [Slots -> SlotRec]
      /\ \A j \in Slots : /\ m_sources'[j].backend = m_sources[j].backend /\ m_sources'[j].epoch = m_sources[j].epoch
                          /\ ~m_sources'[j].running
                          /\ m_sources'[j].failurePending = m_sources[j].failurePending
                          /\ Bound(j)' <=> Bound(j)
  <2>1. ASSUME NEW j \in Slots
        PROVE  /\ m_sources'[j] \in SlotRec
               /\ m_sources'[j].backend = m_sources[j].backend /\ m_sources'[j].epoch = m_sources[j].epoch
               /\ ~m_sources'[j].running
               /\ m_sources'[j].failurePending = m_sources[j].failurePending
               /\ Bound(j)' <=> Bound(j)
    <3>1. m_sources[j] \in SlotRec
      BY <1>0 DEF TypeOK
    <3> DEFINE t == [m_sources[j] EXCEPT !.running = FALSE]
    <3>2. /\ t \in SlotRec /\ t.backend = m_sources[j].backend /\ t.epoch = m_sources[j].epoch
          /\ t.running = FALSE /\ t.failurePending = m_sources[j].failurePending /\ t.reserved = m_sources[j].reserved
          /\ t.active = m_sources[j].active /\ t.failed = m_sources[j].failed
      BY <3>1 DEF SlotRec
    <3>3. m_sources'[j] = t
      BY <1>0
    <3> HIDE DEF t
    <3> QED BY <3>2, <3>3 DEF Bound
  <2>2. m_sources' = [j \in Slots |-> m_sources'[j]]
    BY <1>0
  <2> QED BY <2>1, <2>2
<1>8. TypeOK'
  BY <1>0, <1>2, <1>6, <1>7 DEF TypeOK
<1>9. SlotInv'
  <2>0. entry' = entry /\ SlotInv
    BY <1>0
  <2>1. \A j \in Slots : Bound(j)' => BackendOf(j)' \in Backends /\ m_sources'[j].epoch = entry'[BackendOf(j)'].epoch
    BY <1>7, <2>0 DEF SlotInv, BackendOf
  <2>2. \A j \in Slots : m_sources'[j].failurePending \/ m_sources'[j].running => Bound(j)'
    BY <1>7, <2>0 DEF SlotInv
  <2>3. \A j, k \in Slots : Bound(j)' /\ Bound(k)' /\ BackendOf(j)' = BackendOf(k)' => j = k
    BY <1>7, <2>0 DEF SlotInv, BackendOf
  <2>4. \A j \in Slots : Bound(j)' => entry'[BackendOf(j)'].added /\ entry'[BackendOf(j)'].open
    BY <1>1, <1>7, <2>0 DEF SlotInv, BackendOf
  <2> QED BY <1>7, <2>1, <2>2, <2>3, <2>4 DEF SlotInv
<1>10. MgrInv'
  BY <1>0, <1>1 DEF MgrInv
<1>11. DispInv'
  <2>1. \A j \in disp'.todo : j \in Slots /\ Bound(j)'
    BY <1>0, <1>4, <1>6, <1>7 DEF SlotInv
  <2> QED BY <1>2, <1>6, <2>1 DEF DispInv
<1>12. WorkerInv'
  <2>1. ASSUME NEW a \in Backends, worker[a].at # "none"
        PROVE  /\ worker[a].slot \in Slots /\ BackendOf(worker[a].slot) = a /\ Bound(worker[a].slot)
               /\ worker[a].slot \in disp'.todo
    BY <1>0, <1>1, <1>4, <1>6, <2>1 DEF WorkerInv
  <2>2. \A j \in Slots : BackendOf(j)' = BackendOf(j)
    BY <1>7 DEF BackendOf
  <2> QED BY <1>0, <1>6, <1>7, <2>1, <2>2 DEF WorkerInv
<1>13. OwnerInv' /\ InterInv'
  BY <1>2 DEF OwnerInv, OwnerIsBound, InterInv
<1>14. HoldsInv'
  <2>1. hub.owner = NoKey => hub.sink.holds = {}
    <3>1. hub.sink.holds \subseteq {hub.owner} /\ hub.sink.holds \subseteq Keys
      BY <1>0, <1>1 DEF HoldsInv, HubRec, SinkRec
    <3> QED BY <3>1, KeyFacts
  <2> QED BY <1>2, <1>6, <2>1 DEF HoldsInv
<1> QED BY <1>3, <1>8, <1>9, <1>10, <1>11, <1>12, <1>13, <1>14 DEF HubInv, CallInv

\* Stop resets the sink for the owner that it found, and returns.
LEMMA StopEndStep ==
  ASSUME HubInv, StopEnd
  PROVE  HubInv'
<1>0. /\ TypeOK /\ MgrInv /\ DispInv /\ SlotInv /\ WorkerInv /\ OwnerInv /\ InterInv /\ HoldsInv /\ HubOK(hub)
      /\ disp.op = "stop" /\ disp.todo = {} /\ disp' = Idle /\ UNCHANGED <<m_sources, worker, mgr, entry>>
  BY DEF HubInv, CallInv, StopEnd
<1>1. ~hub.started /\ hub.owner = NoKey /\ hub \in HubRec /\ hub.sink \in SinkRec /\ (~hub.sink.avail => hub.sink.holds = {})
  BY <1>0 DEF DispInv, HubOK, HubRec
<1>2. PICK s \in IF disp.reset THEN {r.sink : r \in SinkReset(hub.sink)} ELSE {hub.sink} :
        hub' = [hub EXCEPT !.hasSink = FALSE, !.sink = s]
  BY DEF StopEnd
<1>3. s \in SinkRec /\ s.holds = {}
  <2>1. CASE disp.reset
    <3>1. PICK r \in SinkReset(hub.sink) : s = r.sink
      BY <1>2, <2>1
    <3> QED BY <1>1, <3>1, SinkResetFact
  <2>2. CASE ~disp.reset
    BY <1>0, <1>1, <1>2, <2>2 DEF HoldsInv
  <2> QED BY <2>1, <2>2
<1>4. /\ hub' \in HubRec /\ hub'.owner = NoKey /\ hub'.inter = hub.inter /\ hub'.started = hub.started /\ hub'.sink = s
  BY <1>1, <1>2, <1>3 DEF HubRec
<1>5. HubOK(hub)'
  BY <1>0, <1>1, <1>3, <1>4 DEF HubOK
<1>6. disp'.op = "idle"
  BY <1>0 DEF Idle
<1>7. TypeOK' /\ SlotInv' /\ MgrInv'
  BY <1>0, <1>4 DEF TypeOK, SlotInv, MgrInv, Bound, BackendOf, Calling
<1>8. DispInv' /\ WorkerInv'
  BY <1>0, <1>6 DEF DispInv, WorkerInv, Bound, BackendOf, Calling
<1>9. OwnerInv' /\ InterInv' /\ HoldsInv'
  BY <1>0, <1>3, <1>4, <1>6 DEF OwnerInv, OwnerIsBound, InterInv, HoldsInv
<1> QED BY <1>5, <1>7, <1>8, <1>9 DEF HubInv, CallInv

-----------------------------------------------------------------------------
(* The outside, and the theorems.                                          *)

\* The pipe connects or disconnects.
LEMMA SinkChangesStep ==
  ASSUME HubInv, SinkChanges
  PROVE  HubInv'
<1>0. HubOK(hub) /\ hub \in HubRec /\ hub.sink \in SinkRec /\ UNCHANGED <<m_sources, worker, mgr, disp, entry>>
  BY DEF HubInv, SinkChanges, HubOK, HubRec
<1>1. PICK s \in SinkMoves(hub.sink) : hub' = [hub EXCEPT !.sink = s]
  BY DEF SinkChanges
<1>2. /\ s \in SinkRec /\ s.holds \subseteq hub.sink.holds /\ (~s.avail => s.holds = {})
      /\ s = hub.sink \/ (s.changed /\ s.holds = {})
  BY <1>0, SinkMovesFact DEF HubOK
<1>3. /\ hub' \in HubRec /\ hub'.owner = hub.owner /\ hub'.inter = hub.inter /\ hub'.started = hub.started
      /\ hub'.hasSink = hub.hasSink /\ hub'.sink = s
  BY <1>0, <1>1, <1>2 DEF HubRec
<1>4. Less(hub, hub')
  BY <1>0, <1>2, <1>3 DEF Less, HubOK
<1> QED BY <1>0, <1>4, HubEnds

\* A lease runs out.
LEMMA TimePassesStep ==
  ASSUME HubInv, TimePasses
  PROVE  HubInv'
<1>0. HubOK(hub) /\ hub \in HubRec /\ UNCHANGED <<m_sources, mgr, disp, entry>>
  BY DEF HubInv, TimePasses, HubOK
<1>1. CASE hub' \in {[hub EXCEPT !.live = FALSE], [hub EXCEPT !.interLive = FALSE]} /\ UNCHANGED worker
  <2>1. /\ hub' \in HubRec /\ hub'.owner = hub.owner /\ hub'.inter = hub.inter /\ hub'.started = hub.started
        /\ hub'.hasSink = hub.hasSink /\ hub'.sink = hub.sink
    BY <1>0, <1>1 DEF HubRec
  <2>2. Less(hub, hub')
    BY <1>0, <2>1 DEF Less, HubOK
  <2> QED BY <1>0, <1>1, <2>2, HubEnds
<1>2. CASE (\E b \in Backends : worker' = [worker EXCEPT ![b].live = FALSE]) /\ UNCHANGED hub
  <2>1. PICK b \in Backends : worker' = [worker EXCEPT ![b].live = FALSE]
    BY <1>2
  <2> DEFINE v == [worker[b] EXCEPT !.live = FALSE]
  <2>2. v \in WorkerRec /\ v.at = worker[b].at /\ v.owner = worker[b].owner /\ v.slot = worker[b].slot
    BY WorkerType DEF WorkerRec
  <2>3. worker' = [worker EXCEPT ![b] = v]
    BY <2>1
  <2>4. Less(hub, hub')
    BY <1>0, <1>2, LessFact
  <2>5. hub'.owner # NoKey /\ hub.owner.backend = b => v.at \in {"loop", "release", "leave"}
    BY <1>2, <2>2, OwnerOfWorker
  <2> HIDE DEF v
  <2> QED BY <1>0, <2>2, <2>3, <2>4, <2>5, WorkerEnds
<1> QED BY <1>1, <1>2 DEF TimePasses

\* Every step keeps the invariant.
LEMMA NextKeeps ==
  ASSUME HubInv, [Next]_vars
  PROVE  HubInv'
<1>u. ASSUME UNCHANGED <<hub, m_sources, worker, mgr, disp, entry>> PROVE HubInv'
  <2>1. HubOK(hub)
    BY DEF HubInv
  <2>2. Less(hub, hub')
    BY <1>u, <2>1, LessFact
  <2> QED BY <1>u, <2>2, HubEnds
<1>1. CASE UNCHANGED vars
  BY <1>u, <1>1 DEF vars
<1>2. ASSUME NEW b \in Backends, Worker(b) PROVE HubInv'
  <2>1. CASE CheckOwner(b)
    BY <2>1, CheckOwnerStep
  <2>2. CASE ReleaseOwner(b)
    BY <2>2, ReleaseOwnerStep
  <2>3. CASE \E c \in Clients, g \in Generations, t \in MessageTypes : ProcessMessage(b, c, g, t)
    BY <2>3, ProcessMessageStep
  <2>4. CASE \E c \in Clients, busy \in BOOLEAN : ReconcileStreams(b, c, busy)
    BY <1>u, <2>4 DEF ReconcileStreams
  <2>5. CASE \E failed \in BOOLEAN : WorkerLeaves(b, failed)
    BY <2>5, WorkerLeavesStep
  <2>6. CASE WorkerExits(b)
    BY <2>6, WorkerExitsStep
  <2>7. CASE PollIdle(b) \/ \E c \in Clients : MessageIgnored(b, c)
    BY <2>7, PollIdleStep, MessageIgnoredStep
  <2> QED BY <1>2, <2>1, <2>2, <2>3, <2>4, <2>5, <2>6, <2>7 DEF Worker
<1>3. CASE Manager
  <2>1. CASE \E b \in Backends : BindBegin(b) \/ RemoveServices(b) \/ RetryEntry(b)
    BY <2>1, BindBeginStep, RemoveServicesStep, RetryEntryStep
  <2>2. CASE BindStart \/ BindSettle \/ SlotCleared \/ TakeFailure
    BY <2>2, BindStartStep, BindSettleStep, SlotClearedStep, TakeFailureStep
  <2>3. CASE \E b \in Backends, c \in Clients : CheckInteraction(b, c)
    BY <2>3, CheckInteractionStep
  <2>4. CASE CommitInteraction \/ InteractionRefused
    BY <2>4, CommitInteractionStep, InteractionRefusedStep
  <2> QED BY <1>3, <2>1, <2>2, <2>3, <2>4 DEF Manager
<1>4. CASE Display
  <2>1. CASE StartBegin \/ StartEndpoint \/ StartSettle \/ StartEnd
    BY <2>1, StartBeginStep, StartEndpointStep, StartSettleStep, StartEndStep
  <2>2. CASE StopBegin \/ StopNotStarted \/ StopEndpoint \/ EndpointStopped \/ StopEnd
    BY <2>2, StopBeginStep, StopNotStartedStep, StopEndpointStep, EndpointStoppedStep, StopEndStep
  <2> QED BY <1>4, <2>1, <2>2 DEF Display
<1>5. CASE SinkChanges \/ TimePasses
  BY <1>5, SinkChangesStep, TimePassesStep
<1>6. CASE \E b \in Backends, c \in Clients : LgmpClient(b, c)
  BY <1>u, <1>6 DEF LgmpClient
<1> QED BY <1>1, <1>2, <1>3, <1>4, <1>5, <1>6 DEF Next

\* The invariant holds in every reachable state, for any number of instances,
\* clients, generations, slots and epochs (CInputHub with the workers of
\* CLGMPInputTransport and the manager that binds them).
THEOREM InputHubInductive == Spec => []HubInv
<1>1. Init => HubInv
  BY InitHolds
<1>2. HubInv /\ [Next]_vars => HubInv'
  BY NextKeeps
<1> QED BY <1>1, <1>2, PTL DEF Spec

\* What the devices hold was reported by the present owner, but for the end of
\* Stop: release, lease, lost stream, failure, Unbind and a refusing sink all
\* neutralise the devices before the ownership passes on.
THEOREM DevicesFollowOwnerHolds == Spec => []DevicesFollowOwner
<1>1. HubInv => DevicesFollowOwner
  BY DEF HubInv, HoldsInv, DevicesFollowOwner
<1> QED BY <1>1, InputHubInductive, PTL

\* The owner's binding is active and not reserved, and the worker of its
\* instance runs and takes the same client for the owner.
THEOREM OwnerIsServedHolds == Spec => []OwnerIsServed
<1>1. HubInv => OwnerIsServed
  <2> SUFFICES ASSUME HubInv PROVE OwnerIsServed
    OBVIOUS
  <2>1. OwnerIsBound
    BY Zenon DEF HubInv, OwnerInv
  <2>2. WorkerKnowsOwner
    <3> SUFFICES ASSUME hub.owner # NoKey
                 PROVE  /\ worker[hub.owner.backend].owner = [client |-> hub.owner.client, generation |-> hub.owner.generation]
                        /\ worker[hub.owner.backend].at \in {"loop", "lost", "release", "leave"}
      BY DEF WorkerKnowsOwner
    <3>1. PICK b \in Backends : b = hub.owner.backend
      BY KeyFacts DEF HubInv, HubOK, HubRec
    <3>2. /\ worker[b].at \in {"loop", "release", "leave"} /\ worker[b].owner \in ClientRec
          /\ hub.owner = Key(b, worker[b].owner)
      BY <3>1, OwnerOfWorker
    <3>3. Key(b, worker[b].owner).client = worker[b].owner.client
          /\ Key(b, worker[b].owner).generation = worker[b].owner.generation
      BY <3>2, KeyOfWorker
    <3>4. worker[b].owner = [client |-> hub.owner.client, generation |-> hub.owner.generation]
      BY <3>2, <3>3 DEF ClientRec
    <3> QED BY <3>1, <3>2, <3>4, Zenon
  <2> QED BY <2>1, <2>2 DEF OwnerIsServed
<1> QED BY <1>1, InputHubInductive, PTL

\* While a client owns the devices nobody holds the interaction lease, and the
\* lease is held for an instance that is still attached, in its present epoch.
THEOREM OneHolderHolds == Spec => []OneHolder
<1>1. HubInv => OneHolder
  BY DEF HubInv, HubOK, InterInv, OneHolder
<1> QED BY <1>1, InputHubInductive, PTL
=============================================================================

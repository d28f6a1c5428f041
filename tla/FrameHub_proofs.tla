-------------------------- MODULE FrameHub_proofs ---------------------------
(***************************************************************************)
(* What FrameHub keeps to for every number of sinks, lanes, batches and    *)
(* bindings of a sink.  HubInv is the inductive invariant:                 *)
(*   TypeOK     the types, and the shape of batches and lanes: an active   *)
(*              target belongs to an active batch with a serial of its own;*)
(*   EndedInv   what a sink has been told of ended frames, against what    *)
(*              the hub remembers of its content;                          *)
(*   BatchKeepsToItsSink   the property itself.                            *)
(* OnceInv adds what holds of a sink until it is bound a second time:      *)
(*   Unpublished   the capture thread's batch is published as a whole;     *)
(*   FirstBinding  the token of every buffer is in one place (in no batch  *)
(*              yet, in one batch, in one lane at a stage of its handlers, *)
(*              or gone), a busy lane has one owner, and the counter counts*)
(*              the busy lanes and the handlers that have freed one.       *)
(* Every handler is first reduced to a lemma on the state it changes       *)
(* (Prepared, PublishEffect, EndBatchEffect, CommitEffect, ...), because   *)
(* several actions run the same code of CFrameHub.  The parts were         *)
(* model-checked on the configuration of the run before.                   *)
(***************************************************************************)
EXTENDS FrameHub, TLAPS, FiniteSetTheorems

-----------------------------------------------------------------------------
(* Types.                                                                  *)

LaneRec    == [busy : BOOLEAN, phase : Phases, n : 0..MaxSerial, callActive : BOOLEAN,
               cancelRequested : BOOLEAN, result : Results \cup {"none"}]
TargetRec  == [active : BOOLEAN, epoch : Nat, lane : Lanes \cup {"none"}, full : BOOLEAN,
               published : BOOLEAN, committed : BOOLEAN, completionPending : BOOLEAN]
BatchRec   == [active : BOOLEAN, n : 0..MaxSerial, targets : [Sinks -> TargetRec]]
CallPcs    == {"fill", "filled", "cancel", "canceled", "complete", "call", "settle", "sub",
               "set", "done"}
CallRec    == [by : {"capture", "gpu", "unbind", "sink"}, pc : CallPcs, s : Sinks, l : Lanes,
               n : Serials, epoch : Nat, result : Results \cup {"none"}]
HeldRec    == [s : Sinks, l : Lanes, n : Serials, epoch : Nat]
CopyRec    == [n : 0..MaxSerial, todo : SUBSET Sinks, started : BOOLEAN]
CaptureRec == [pc : {"idle", "planned", "prepared", "published"}, plan : [Sinks -> Nat],
               b : 0..NBatches]
ContentRec == [needsFull : BOOLEAN, last : Nat, terminal : Nat]
EndedRec   == [newest : Nat, ready : BOOLEAN]
Lives      == {"none", "prepared", "published", "over", "broken", "denied", "astray"}

SinkType ==
  /\ active \in [Sinks -> BOOLEAN] /\ target \in [Sinks -> BOOLEAN]
  /\ epoch \in [Sinks -> Nat] /\ bound \in [Sinks -> Nat]
  /\ outstanding \in [Sinks -> Int] /\ drained \in [Sinks -> BOOLEAN]
  /\ unbind \in [Sinks -> {"no", "scan", "wait"}]
ContentType ==
  /\ content \in [Sinks -> ContentRec] /\ ended \in [Sinks -> EndedRec]
LaneType == lane \in [Sinks -> [Lanes -> LaneRec]]
BatchType ==
  /\ batch \in [Batches -> BatchRec] /\ gpu \in [Batches -> CopyRec]
  /\ contentOf \in [Serials -> Nat] /\ serial \in 0..MaxSerial
CaptureType == capture \in CaptureRec /\ (capture.pc \in {"prepared", "published"} => capture.b \in Batches)
CallType == calls \subseteq CallRec /\ held \subseteq HeldRec
HistoryType ==
  /\ life \in [Sinks -> [Serials -> Lives]]
  /\ told \in [Sinks -> [Serials -> Results \cup {"none"}]]
Types == SinkType /\ ContentType /\ LaneType /\ BatchType /\ CaptureType /\ CallType /\ HistoryType

\* An active target belongs to an active batch, which has a serial of its own,
\* and a lane that the handlers have has a token.
Shape ==
  /\ \A b \in Batches : batch[b].active => batch[b].n \in 1..serial
  /\ \A b \in Batches, s \in Sinks : batch[b].targets[s].active =>
       batch[b].active /\ batch[b].targets[s].lane \in Lanes
  /\ \A a, b \in Batches : a # b /\ batch[a].active /\ batch[b].active => batch[a].n # batch[b].n
  /\ \A s \in Sinks, l \in Lanes : lane[s][l].n = 0 => lane[s][l].phase = "IDLE"

TypeOK == Types /\ Shape

\* What the resets of the code assign is well typed.
LEMMA DefaultsType ==
  /\ NoLane \in LaneRec /\ NoTarget \in TargetRec /\ NoBatch \in BatchRec /\ NoCopy \in CopyRec
  /\ Idle \in CaptureRec /\ Idle.pc = "idle" /\ FreshContent \in ContentRec /\ NothingEnded \in EndedRec
BY HubAssumption
DEF NoLane, NoTarget, NoBatch, NoCopy, Idle, FreshContent, NothingEnded, LaneRec, TargetRec,
    BatchRec, CopyRec, CaptureRec, ContentRec, EndedRec, Phases, Results

\* The types hold at first.
LEMMA TypeInit == Init => TypeOK
<1> SUFFICES ASSUME Init PROVE TypeOK
  OBVIOUS
<1>1. SinkType /\ ContentType /\ LaneType /\ BatchType /\ CaptureType /\ CallType /\ HistoryType
  BY DefaultsType, HubAssumption
  DEF Init, SinkType, ContentType, LaneType, BatchType, CaptureType, CallType, HistoryType, Lives
<1>2. Shape
  BY DEF Init, Shape, NoBatch, NoTarget, NoLane
<1> QED BY <1>1, <1>2 DEF TypeOK, Types

-----------------------------------------------------------------------------
(* Batches.  Every step but PrepareFrameBatch only narrows one: targets    *)
(* become inactive, and a batch that has none left is free.                *)

Narrowed ==
  /\ batch' \in [Batches -> BatchRec]
  /\ \A a \in Batches : batch'[a].active => batch[a].active /\ batch'[a].n = batch[a].n
  /\ \A a \in Batches, s \in Sinks : batch'[a].targets[s].active =>
       /\ batch[a].targets[s].active /\ batch'[a].active
       /\ batch'[a].targets[s].lane = batch[a].targets[s].lane
       /\ batch'[a].targets[s].epoch = batch[a].targets[s].epoch

\* A narrowed batch keeps its shape.
LEMMA NarrowedShape ==
  ASSUME TypeOK, Narrowed, serial' = serial, NEW s \in Sinks
  PROVE  /\ \A b \in Batches : batch'[b].active => batch'[b].n \in 1..serial'
         /\ \A b \in Batches : batch'[b].targets[s].active =>
              batch'[b].active /\ batch'[b].targets[s].lane \in Lanes
         /\ \A a, b \in Batches : a # b /\ batch'[a].active /\ batch'[b].active =>
              batch'[a].n # batch'[b].n
BY DEF TypeOK, Shape, Narrowed

\* What WithTargets makes of batch b with the targets ts.
LEMMA WithTargetsFact ==
  ASSUME TypeOK, NEW b \in Batches, NEW ts \in [Sinks -> TargetRec],
         \A s \in Sinks : ts[s].active =>
           /\ batch[b].targets[s].active
           /\ ts[s].lane = batch[b].targets[s].lane
           /\ ts[s].epoch = batch[b].targets[s].epoch,
         batch' = [batch EXCEPT ![b] = WithTargets(b, ts)]
  PROVE  /\ Narrowed
         /\ \A a \in Batches : a # b => batch'[a] = batch[a]
         /\ \A s \in Sinks : /\ batch'[b].targets[s].active = ts[s].active
                             /\ ts[s].active => batch'[b].targets[s] = ts[s] /\ batch'[b].n = batch[b].n
<1>1. batch \in [Batches -> BatchRec]
  BY DEF TypeOK, Types, BatchType
<1>2. CASE \E s \in Sinks : ts[s].active
  <2>1. batch' = [batch EXCEPT ![b] = [batch[b] EXCEPT !.targets = ts]]
    BY <1>2 DEF WithTargets
  <2>2. batch'[b] = [batch[b] EXCEPT !.targets = ts] /\ \A a \in Batches : a # b => batch'[a] = batch[a]
    BY <1>1, <2>1
  <2>3. /\ batch'[b] \in BatchRec /\ batch'[b].targets = ts
        /\ batch'[b].active = batch[b].active /\ batch'[b].n = batch[b].n
    BY <1>1, <2>2 DEF BatchRec
  <2>4. batch' \in [Batches -> BatchRec]
    BY <1>1, <2>1, <2>2, <2>3
  <2>5. batch[b].active
    BY <1>2 DEF TypeOK, Shape
  <2>6. \A a \in Batches, s \in Sinks : batch[a].targets[s].active => batch[a].active
    BY DEF TypeOK, Shape
  <2>7. ASSUME NEW a \in Batches
        PROVE  /\ batch'[a].active => batch[a].active /\ batch'[a].n = batch[a].n
               /\ \A s \in Sinks : batch'[a].targets[s].active =>
                    /\ batch[a].targets[s].active /\ batch'[a].active
                    /\ batch'[a].targets[s].lane = batch[a].targets[s].lane
                    /\ batch'[a].targets[s].epoch = batch[a].targets[s].epoch
    <3>1. CASE a = b
      BY <2>3, <2>5, <3>1, ZenonT(60)
    <3>2. CASE a # b
      BY <2>2, <2>6, <3>2
    <3> QED BY <3>1, <3>2
  <2>8. Narrowed
    BY <2>4, <2>7 DEF Narrowed
  <2> QED BY <2>2, <2>3, <2>8
<1>3. CASE ~\E s \in Sinks : ts[s].active
  <2>1. batch' = [batch EXCEPT ![b] = NoBatch]
    BY <1>3 DEF WithTargets
  <2>2. batch'[b] = NoBatch /\ \A a \in Batches : a # b => batch'[a] = batch[a]
    BY <1>1, <2>1
  <2>3. batch' \in [Batches -> BatchRec]
    BY <1>1, <2>1, DefaultsType
  <2>4. ~NoBatch.active /\ \A s \in Sinks : NoBatch.targets[s].active = FALSE
    BY DEF NoBatch, NoTarget
  <2>5. \A s \in Sinks : ts[s].active = FALSE
    BY <1>3 DEF TargetRec
  <2> QED BY <1>3, <2>2, <2>3, <2>4, <2>5, ZenonT(60) DEF TypeOK, Shape, Narrowed
<1> QED BY <1>2, <1>3

\* The targets left when S are given up.
LEMMA InactiveFact ==
  ASSUME NEW ts \in [Sinks -> TargetRec], NEW S
  PROVE  /\ Inactive(ts, S) \in [Sinks -> TargetRec]
         /\ \A s \in Sinks : /\ s \in S => Inactive(ts, S)[s].active = FALSE
                             /\ s \notin S => Inactive(ts, S)[s] = ts[s]
BY Zenon DEF Inactive, TargetRec

\* A step that writes one lane.
LaneSet(s, l, v) == lane' = [lane EXCEPT ![s][l] = v]

\* Writing one lane keeps the types and the other lanes.
LEMMA LaneSetFact ==
  ASSUME LaneType, NEW s \in Sinks, NEW l \in Lanes, NEW v \in LaneRec, LaneSet(s, l, v)
  PROVE  /\ LaneType' /\ lane'[s][l] = v
         /\ \A r \in Sinks, k \in Lanes : r # s \/ k # l => lane'[r][k] = lane[r][k]
BY DEF LaneType, LaneSet

\* A handler that goes on, with a typed place and result.
LEMMA MovesType ==
  ASSUME CallType, NEW c \in calls, NEW pc \in CallPcs, NEW r \in Results \cup {"none"},
         Moves(c, pc, r)
  PROVE  calls' \subseteq CallRec
<1>1. [c EXCEPT !.pc = pc, !.result = r] \in CallRec
  BY DEF CallType, CallRec
<1> QED BY <1>1 DEF Moves, CallType

\* A call is about a lane of a sink.
LEMMA CallFields ==
  ASSUME CallType, NEW c \in calls
  PROVE  /\ c.s \in Sinks /\ c.l \in Lanes /\ c.n \in Serials /\ c.epoch \in Nat
         /\ c.result \in Results \cup {"none"} /\ c.pc \in CallPcs /\ c.n # 0
         /\ c.by \in {"capture", "gpu", "unbind", "sink"}
BY HubAssumption DEF CallType, CallRec, Serials

\* A lane that has just been detached from batch b.
FilledLane(b) == [NoLane EXCEPT !.busy = TRUE, !.phase = "FILLING", !.n = batch[b].n]

\* Fields of an updated lane.
LEMMA LaneFields ==
  ASSUME NEW ln \in LaneRec
  PROVE  /\ [ln EXCEPT !.busy = FALSE] \in LaneRec
         /\ [ln EXCEPT !.busy = FALSE].phase = ln.phase
         /\ [ln EXCEPT !.busy = FALSE].n = ln.n
         /\ [ln EXCEPT !.busy = FALSE].busy = FALSE
BY DEF LaneRec

\* The fields of a lane that has just been detached.
LEMMA FilledLaneFields ==
  ASSUME NEW b, batch[b].n \in 0..MaxSerial
  PROVE  /\ FilledLane(b) \in LaneRec
         /\ FilledLane(b).busy /\ FilledLane(b).phase = "FILLING" /\ FilledLane(b).n = batch[b].n
         /\ FilledLane(b).callActive = FALSE /\ FilledLane(b).result = "none"
<1>2. NoLane.callActive = FALSE /\ NoLane.result = "none"
  BY DEF NoLane
<1>3. PICK ln \in LaneRec : ln = NoLane
  BY DefaultsType
<1>4. PICK v : v = FilledLane(b)
  OBVIOUS
<1>5. v = [ln EXCEPT !.busy = TRUE, !.phase = "FILLING", !.n = batch[b].n]
  BY <1>3, <1>4 DEF FilledLane
<1>6. /\ v \in LaneRec /\ v.busy /\ v.phase = "FILLING" /\ v.n = batch[b].n
      /\ v.callActive = ln.callActive /\ v.result = ln.result
  BY <1>5 DEF LaneRec, Phases
<1> QED BY <1>2, <1>3, <1>4, <1>6

\* ReleaseTarget writes the busy flag of the lanes it gives back, and no more.
LEMMA ReleasedFact ==
  ASSUME Types, NEW b \in Batches, NEW R \in SUBSET Sinks, Released(b, R)
  PROVE  /\ LaneType'
         /\ outstanding' \in [Sinks -> Int] /\ drained' \in [Sinks -> BOOLEAN]
         /\ content' \in [Sinks -> ContentRec]
         /\ \A s \in Sinks, l \in Lanes :
              lane'[s][l] = IF s \in R /\ l = batch[b].targets[s].lane
                              THEN [lane[s][l] EXCEPT !.busy = FALSE] ELSE lane[s][l]
         /\ \A s \in Sinks, l \in Lanes :
              lane'[s][l].phase = lane[s][l].phase /\ lane'[s][l].n = lane[s][l].n
         /\ \A s \in Sinks :
              /\ outstanding'[s] = IF s \in R THEN outstanding[s] - 1 ELSE outstanding[s]
              /\ content'[s] = IF s \in R THEN [content[s] EXCEPT !.needsFull = TRUE] ELSE content[s]
<1>1. ASSUME NEW s \in Sinks, NEW l \in Lanes
      PROVE  /\ lane[s][l] \in LaneRec /\ [lane[s][l] EXCEPT !.busy = FALSE] \in LaneRec
             /\ [lane[s][l] EXCEPT !.busy = FALSE].phase = lane[s][l].phase
             /\ [lane[s][l] EXCEPT !.busy = FALSE].n = lane[s][l].n
  BY LaneFields DEF Types, LaneType
<1>2. \A s \in Sinks, l \in Lanes :
        lane'[s][l] = IF s \in R /\ l = batch[b].targets[s].lane
                        THEN [lane[s][l] EXCEPT !.busy = FALSE] ELSE lane[s][l]
  BY DEF Released
<1>3. LaneType'
  BY <1>1 DEF Released, LaneType
<1>4. \A s \in Sinks, l \in Lanes :
        lane'[s][l].phase = lane[s][l].phase /\ lane'[s][l].n = lane[s][l].n
  <2> TAKE s \in Sinks, l \in Lanes
  <2>1. CASE s \in R /\ l = batch[b].targets[s].lane
    <3>1. lane'[s][l] = [lane[s][l] EXCEPT !.busy = FALSE]
      BY <1>2, <2>1
    <3> QED BY <1>1, <3>1, SMT
  <2>2. CASE ~(s \in R /\ l = batch[b].targets[s].lane)
    BY <1>2, <2>2
  <2> QED BY <2>1, <2>2
<1>5. content' \in [Sinks -> ContentRec]
  BY DEF Released, Types, ContentType, ContentRec
<1>6. outstanding' \in [Sinks -> Int] /\ drained' \in [Sinks -> BOOLEAN]
  BY DEF Released, Types, SinkType
<1>7. \A s \in Sinks :
        /\ outstanding'[s] = IF s \in R THEN outstanding[s] - 1 ELSE outstanding[s]
        /\ content'[s] = IF s \in R THEN [content[s] EXCEPT !.needsFull = TRUE] ELSE content[s]
  BY DEF Released
<1> QED BY <1>2, <1>3, <1>4, <1>5, <1>6, <1>7

\* DetachTarget gives the lanes of the targets D to the handlers.
LEMMA DetachedFact ==
  ASSUME TypeOK, NEW b \in Batches, NEW D \in SUBSET ActiveTargets(b), NEW who \in {"capture", "gpu"},
         Detached(b, D), calls' = calls \cup FillCalls(b, D, who)
  PROVE  /\ LaneType' /\ calls' \subseteq CallRec
         /\ \A s \in Sinks, l \in Lanes :
              lane'[s][l] = IF s \in D /\ l = batch[b].targets[s].lane
                              THEN FilledLane(b) ELSE lane[s][l]
         /\ \A s \in Sinks, l \in Lanes : lane'[s][l].n = 0 => lane'[s][l].phase = "IDLE"
<1>1. ASSUME NEW s \in D
      PROVE  batch[b].active /\ batch[b].n \in Serials /\ batch[b].targets[s].lane \in Lanes
             /\ batch[b].targets[s].epoch \in Nat /\ s \in Sinks
  <2>1. s \in Sinks /\ batch[b].targets[s].active
    BY DEF ActiveTargets
  <2>2. batch[b].active /\ batch[b].n \in 1..serial /\ batch[b].targets[s].lane \in Lanes
    BY <2>1 DEF TypeOK, Shape
  <2>3. serial \in 0..MaxSerial /\ batch[b].targets \in [Sinks -> TargetRec]
    BY DEF TypeOK, Types, BatchType, BatchRec
  <2> QED BY <2>1, <2>2, <2>3, HubAssumption DEF Serials, TargetRec
<1>2. D # {} => /\ FilledLane(b) \in LaneRec /\ FilledLane(b).phase = "FILLING"
               /\ FilledLane(b).n = batch[b].n /\ batch[b].n # 0
  <2> SUFFICES ASSUME D # {} PROVE /\ FilledLane(b) \in LaneRec /\ FilledLane(b).phase = "FILLING"
                                   /\ FilledLane(b).n = batch[b].n /\ batch[b].n # 0
    OBVIOUS
  <2>1. batch[b].n \in Serials /\ batch[b].n \in 0..MaxSerial /\ batch[b].n # 0
    BY <1>1, HubAssumption DEF Serials
  <2> QED BY <2>1, FilledLaneFields
<1>3. \A s \in Sinks, l \in Lanes :
        lane'[s][l] = IF s \in D /\ l = batch[b].targets[s].lane THEN FilledLane(b) ELSE lane[s][l]
  BY DEF Detached, FilledLane
<1>4. LaneType'
  <2>1. \A s \in Sinks, l \in Lanes : lane'[s][l] \in LaneRec
    BY <1>2, <1>3 DEF TypeOK, Types, LaneType
  <2>2. lane' = [s \in Sinks |-> [l \in Lanes |-> lane'[s][l]]]
    BY DEF Detached
  <2> QED BY <2>1, <2>2 DEF LaneType
<1>5. \A s \in Sinks, l \in Lanes : lane'[s][l].n = 0 => lane'[s][l].phase = "IDLE"
  BY <1>2, <1>3 DEF TypeOK, Shape
<1>6. FillCalls(b, D, who) \subseteq CallRec
  BY <1>1 DEF FillCalls, CallRec, CallPcs, Results
<1> QED BY <1>3, <1>4, <1>5, <1>6 DEF TypeOK, Types, CallType

-----------------------------------------------------------------------------
(* What each handler does to its lane, for every call c.                   *)

\* The lane of a call, and the lanes a step of it leaves alone.
LaneOf(c) == lane[c.s][c.l]
OthersKept(c) == \A s \in Sinks, l \in Lanes : s # c.s \/ l # c.l => lane'[s][l] = lane[s][l]

\* FillLane up to the call of FrameFilled, field by field.
LEMMA FillBeginEffect ==
  ASSUME Types, NEW c \in calls, FillBegin(c)
  PROVE  /\ LaneType' /\ OthersKept(c) /\ calls' \subseteq CallRec /\ held' \subseteq HeldRec
         /\ UNCHANGED <<active, target, epoch, unbind, bound, outstanding, drained, content, batch,
                        contentOf, serial, capture, gpu, life, told, ended>>
         /\ c.pc = "fill"
         /\ \/ /\ LaneOf(c).phase = "FILLING" /\ LaneOf(c).n = c.n
               /\ LaneOf(c)'.phase = "FILLING" /\ LaneOf(c)'.n = c.n
               /\ LaneOf(c)'.busy = LaneOf(c).busy /\ LaneOf(c)'.result = LaneOf(c).result
               /\ LaneOf(c)'.callActive = TRUE
               /\ Moves(c, "filled", "none")
               /\ \/ held' = held \cup {[s |-> c.s, l |-> c.l, n |-> c.n, epoch |-> c.epoch]}
                  \/ held' = held
            \/ /\ ~(LaneOf(c).phase = "FILLING" /\ LaneOf(c).n = c.n)
               /\ Returns(c) /\ lane' = lane /\ held' = held
<1>1. c.s \in Sinks /\ c.l \in Lanes /\ c.n \in Serials /\ c.epoch \in Nat
  BY CallFields DEF Types
<1>2. PICK ln \in LaneRec : ln = LaneOf(c)
  BY <1>1 DEF Types, LaneType, LaneOf
<1>3. /\ UNCHANGED <<active, target, epoch, unbind, bound, outstanding, drained, content, batch,
                     contentOf, serial, capture, gpu, life, told, ended>>
      /\ c.pc = "fill"
  BY DEF FillBegin, sinkVars, history
<1>4. CASE ln.phase = "FILLING" /\ ln.n = c.n
  <2> DEFINE v == [ln EXCEPT !.callActive = TRUE]
  <2>1. LaneSet(c.s, c.l, v)
    BY <1>1, <1>2, <1>4 DEF FillBegin, LaneOf, LaneSet, TokenMatches, Types, LaneType
  <2>2. v \in LaneRec /\ v.phase = ln.phase /\ v.n = ln.n /\ v.busy = ln.busy
        /\ v.result = ln.result /\ v.callActive = TRUE
    BY DEF LaneRec
  <2> HIDE DEF v
  <2>3. LaneType' /\ LaneOf(c)' = v /\ OthersKept(c)
    BY <1>1, <2>1, <2>2, LaneSetFact DEF LaneOf, OthersKept, Types
  <2>4. /\ Moves(c, "filled", "none")
        /\ \/ held' = held \cup {[s |-> c.s, l |-> c.l, n |-> c.n, epoch |-> c.epoch]}
           \/ held' = held
    BY <1>2, <1>4 DEF FillBegin, LaneOf, TokenMatches
  <2>5. calls' \subseteq CallRec
    BY <2>4, MovesType DEF Types, CallPcs
  <2>6. held' \subseteq HeldRec
    BY <1>1, <2>4 DEF Types, CallType, HeldRec
  <2> QED BY <1>2, <1>3, <1>4, <2>2, <2>3, <2>4, <2>5, <2>6
<1>5. CASE ~(ln.phase = "FILLING" /\ ln.n = c.n)
  <2>1. Returns(c) /\ lane' = lane /\ held' = held
    BY <1>2, <1>5 DEF FillBegin, LaneOf, TokenMatches
  <2> QED BY <1>2, <1>3, <1>5, <2>1 DEF Types, LaneType, CallType, Returns, OthersKept
<1> QED BY <1>4, <1>5

\* FillLane after FrameFilled: an earlier callback, the answer, or a lane left pending.
LEMMA FillEndEffect ==
  ASSUME Types, NEW c \in calls, NEW fill \in {"READY", "PENDING", "REJECTED"}, FillEnd(c, fill)
  PROVE  LET answer == IF fill = "READY" THEN "READY" ELSE "FAILED" IN
         /\ LaneType' /\ OthersKept(c) /\ calls' \subseteq CallRec /\ held' \subseteq held
         /\ UNCHANGED <<active, target, epoch, unbind, bound, outstanding, drained, content, batch,
                        contentOf, serial, capture, gpu, life, ended>>
         /\ c.pc = "filled"
         /\ \/ /\ LaneOf(c).phase = "FILLING" /\ LaneOf(c).n = c.n
               /\ LaneOf(c)'.n = c.n /\ LaneOf(c)'.busy = LaneOf(c).busy
               /\ LaneOf(c)'.callActive = FALSE
               /\ \/ /\ LaneOf(c).result # "none" /\ LaneOf(c)'.phase = "FILLING"
                     /\ LaneOf(c)'.result = "none"
                     /\ Moves(c, "complete", LaneOf(c).result) /\ told' = told
                  \/ /\ LaneOf(c).result = "none" /\ LaneOf(c)'.phase = "FILLING"
                     /\ LaneOf(c)'.result = "none"
                     /\ Moves(c, "complete", answer) /\ HearFrom(c.s, c.n, answer)
                  \/ /\ LaneOf(c).result = "none" /\ LaneOf(c)'.phase = "PENDING"
                     /\ LaneOf(c)'.result = "none"
                     /\ Moves(c, "cancel", "none") \/ Returns(c)
                     /\ told' = told
            \/ /\ ~(LaneOf(c).phase = "FILLING" /\ LaneOf(c).n = c.n)
               /\ Returns(c) /\ lane' = lane /\ told' = told
<1> DEFINE answer == IF fill = "READY" THEN "READY" ELSE "FAILED"
<1>1. c.s \in Sinks /\ c.l \in Lanes /\ c.n \in Serials
  BY CallFields DEF Types
<1>2. PICK ln \in LaneRec : ln = LaneOf(c)
  BY <1>1 DEF Types, LaneType, LaneOf
<1>3. /\ UNCHANGED <<active, target, epoch, unbind, bound, outstanding, drained, content, batch,
                     contentOf, serial, capture, gpu, life, ended>>
      /\ c.pc = "filled" /\ held' \subseteq held
  BY DEF FillEnd, sinkVars
<1>4. answer \in Results /\ ln.result \in Results \cup {"none"}
  BY DEF Results, LaneRec
<1>5. CASE ~(ln.phase = "FILLING" /\ ln.n = c.n)
  <2>1. Returns(c) /\ lane' = lane /\ told' = told
    BY <1>2, <1>5 DEF FillEnd, LaneOf, TokenMatches
  <2> QED BY <1>2, <1>3, <1>5, <2>1, ZenonT(60) DEF Types, LaneType, CallType, Returns, OthersKept
<1>6. CASE ln.phase = "FILLING" /\ ln.n = c.n /\ ln.result # "none"
  <2> DEFINE v == [ln EXCEPT !.callActive = FALSE, !.result = "none"]
  <2>0. /\ lane' = [lane EXCEPT ![c.s][c.l].callActive = FALSE, ![c.s][c.l].result = "none"]
        /\ Moves(c, "complete", ln.result) /\ told' = told
    BY <1>2, <1>6, ZenonT(60) DEF FillEnd, LaneOf, TokenMatches
  <2>1. LaneSet(c.s, c.l, v) /\ Moves(c, "complete", ln.result) /\ told' = told
    BY <1>1, <1>2, <2>0 DEF LaneOf, LaneSet, Types, LaneType
  <2>2. v \in LaneRec /\ v.phase = ln.phase /\ v.n = ln.n /\ v.busy = ln.busy
        /\ v.result = "none" /\ v.callActive = FALSE
    BY DEF LaneRec
  <2> HIDE DEF v
  <2>3. LaneType' /\ LaneOf(c)' = v /\ OthersKept(c)
    BY <1>1, <2>1, <2>2, LaneSetFact DEF LaneOf, OthersKept, Types
  <2>4. calls' \subseteq CallRec
    BY <1>4, <2>1, MovesType DEF Types, CallPcs
  <2> QED BY <1>2, <1>3, <1>6, <2>1, <2>2, <2>3, <2>4
<1>7. CASE ln.phase = "FILLING" /\ ln.n = c.n /\ ln.result = "none" /\ fill # "PENDING"
  <2> DEFINE v == [ln EXCEPT !.callActive = FALSE]
  <2>1. LaneSet(c.s, c.l, v) /\ Moves(c, "complete", answer) /\ HearFrom(c.s, c.n, answer)
    BY <1>1, <1>2, <1>7 DEF FillEnd, LaneOf, LaneSet, TokenMatches, Types, LaneType
  <2>2. v \in LaneRec /\ v.phase = ln.phase /\ v.n = ln.n /\ v.busy = ln.busy
        /\ v.result = ln.result /\ v.callActive = FALSE
    BY DEF LaneRec
  <2> HIDE DEF v, answer
  <2>3. LaneType' /\ LaneOf(c)' = v /\ OthersKept(c)
    BY <1>1, <2>1, <2>2, LaneSetFact DEF LaneOf, OthersKept, Types
  <2>4. calls' \subseteq CallRec
    BY <1>4, <2>1, MovesType DEF Types, CallPcs
  <2> QED BY <1>2, <1>3, <1>7, <2>1, <2>2, <2>3, <2>4 DEF answer
<1>8. CASE ln.phase = "FILLING" /\ ln.n = c.n /\ ln.result = "none" /\ fill = "PENDING"
  <2> DEFINE v == [ln EXCEPT !.callActive = FALSE, !.phase = "PENDING"]
  <2>0. /\ lane' = [lane EXCEPT ![c.s][c.l].callActive = FALSE, ![c.s][c.l].phase = "PENDING"]
        /\ (Moves(c, "cancel", "none") \/ Returns(c)) /\ told' = told
    BY <1>2, <1>8 DEF FillEnd, LaneOf, TokenMatches
  <2>1. LaneSet(c.s, c.l, v) /\ (Moves(c, "cancel", "none") \/ Returns(c)) /\ told' = told
    BY <1>1, <1>2, <2>0 DEF LaneOf, LaneSet, Types, LaneType
  <2>2. v \in LaneRec /\ v.phase = "PENDING" /\ v.n = ln.n /\ v.busy = ln.busy
        /\ v.result = ln.result /\ v.callActive = FALSE
    BY DEF LaneRec, Phases
  <2> HIDE DEF v
  <2>3. LaneType' /\ LaneOf(c)' = v /\ OthersKept(c)
    BY <1>1, <2>1, <2>2, LaneSetFact DEF LaneOf, OthersKept, Types
  <2>4. calls' \subseteq CallRec
    BY <2>1, MovesType DEF Types, CallPcs, Returns, CallType
  <2> QED BY <1>2, <1>3, <1>8, <2>1, <2>2, <2>3, <2>4
<1> QED BY <1>5, <1>6, <1>7, <1>8

\* CancelLane up to the call of CancelFrame, field by field.
LEMMA CancelBeginEffect ==
  ASSUME Types, NEW c \in calls, CancelBegin(c)
  PROVE  /\ LaneType' /\ OthersKept(c) /\ calls' \subseteq CallRec
         /\ UNCHANGED <<active, target, epoch, unbind, bound, outstanding, drained, content, batch,
                        contentOf, serial, capture, gpu, held, life, told, ended>>
         /\ c.pc = "cancel"
         /\ \/ /\ LaneOf(c).phase = "PENDING" /\ LaneOf(c).n = c.n
               /\ LaneOf(c)'.phase = "CANCELING" /\ LaneOf(c)'.n = c.n
               /\ LaneOf(c)'.busy = LaneOf(c).busy /\ LaneOf(c)'.result = LaneOf(c).result
               /\ LaneOf(c)'.callActive = TRUE
               /\ Moves(c, "canceled", "none")
            \/ Returns(c) /\ lane' = lane
<1>1. c.s \in Sinks /\ c.l \in Lanes /\ c.n \in Serials
  BY CallFields DEF Types
<1>2. PICK ln \in LaneRec : ln = LaneOf(c)
  BY <1>1 DEF Types, LaneType, LaneOf
<1>3. /\ UNCHANGED <<active, target, epoch, unbind, bound, outstanding, drained, content, batch,
                     contentOf, serial, capture, gpu, held, life, told, ended>>
      /\ c.pc = "cancel"
  BY DEF CancelBegin, sinkVars, history
<1>4. CASE ln.phase = "PENDING" /\ ln.n = c.n
  <2> DEFINE v == [ln EXCEPT !.phase = "CANCELING", !.callActive = TRUE]
  <2>1. LaneSet(c.s, c.l, v) /\ Moves(c, "canceled", "none")
    BY <1>1, <1>2, <1>4, ZenonT(60) DEF CancelBegin, LaneOf, LaneSet, TokenMatches, Types, LaneType
  <2>2. v \in LaneRec /\ v.phase = "CANCELING" /\ v.n = ln.n /\ v.busy = ln.busy
        /\ v.result = ln.result /\ v.callActive = TRUE
    BY DEF LaneRec, Phases
  <2> HIDE DEF v
  <2>3. LaneType' /\ LaneOf(c)' = v /\ OthersKept(c)
    BY <1>1, <2>1, <2>2, LaneSetFact DEF LaneOf, OthersKept, Types
  <2>4. calls' \subseteq CallRec
    BY <2>1, MovesType DEF Types, CallPcs
  <2> QED BY <1>2, <1>3, <1>4, <2>1, <2>2, <2>3, <2>4
<1>5. CASE ~(ln.phase = "PENDING" /\ ln.n = c.n)
  <2>1. Returns(c) /\ lane' = lane
    BY <1>2, <1>5 DEF CancelBegin, LaneOf, TokenMatches
  <2> QED BY <1>3, <2>1 DEF Types, LaneType, CallType, Returns, OthersKept
<1> QED BY <1>4, <1>5

\* CancelLane after CancelFrame: what it completes the lane with.
LEMMA CancelEndEffect ==
  ASSUME Types, NEW c \in calls, CancelEnd(c)
  PROVE  /\ LaneType' /\ OthersKept(c) /\ calls' \subseteq CallRec /\ held' \subseteq held
         /\ UNCHANGED <<active, target, epoch, unbind, bound, outstanding, drained, content, batch,
                        contentOf, serial, capture, gpu, life, told, ended>>
         /\ c.pc = "canceled"
         /\ \/ /\ LaneOf(c).phase = "CANCELING" /\ LaneOf(c).n = c.n
               /\ LaneOf(c)'.phase = "CANCELING" /\ LaneOf(c)'.n = c.n
               /\ LaneOf(c)'.busy = LaneOf(c).busy /\ LaneOf(c)'.result = "none"
               /\ LaneOf(c)'.callActive = FALSE
               /\ \E r \in Results : /\ Moves(c, "complete", r)
                                     /\ LaneOf(c).result \in {"none", r}
            \/ /\ ~(LaneOf(c).phase = "CANCELING" /\ LaneOf(c).n = c.n)
               /\ Returns(c) /\ lane' = lane
<1>1. c.s \in Sinks /\ c.l \in Lanes /\ c.n \in Serials
  BY CallFields DEF Types
<1>2. PICK ln \in LaneRec : ln = LaneOf(c)
  BY <1>1 DEF Types, LaneType, LaneOf
<1>3. /\ UNCHANGED <<active, target, epoch, unbind, bound, outstanding, drained, content, batch,
                     contentOf, serial, capture, gpu, life, told, ended>>
      /\ c.pc = "canceled" /\ held' \subseteq held
  BY DEF CancelEnd, sinkVars, history
<1>4. CASE ln.phase = "CANCELING" /\ ln.n = c.n
  <2> DEFINE v == [ln EXCEPT !.callActive = FALSE, !.result = "none"]
  <2>1. LaneSet(c.s, c.l, v) /\ Moves(c, "complete", CancelResult(ln))
    BY <1>1, <1>2, <1>4, ZenonT(60) DEF CancelEnd, LaneOf, LaneSet, TokenMatches, Types, LaneType
  <2>2. v \in LaneRec /\ v.phase = ln.phase /\ v.n = ln.n /\ v.busy = ln.busy
        /\ v.result = "none" /\ v.callActive = FALSE
    BY DEF LaneRec
  <2> HIDE DEF v
  <2>3. LaneType' /\ LaneOf(c)' = v /\ OthersKept(c)
    BY <1>1, <2>1, <2>2, LaneSetFact DEF LaneOf, OthersKept, Types
  <2>4. CancelResult(ln) \in Results /\ ln.result \in {"none", CancelResult(ln)}
    BY DEF CancelResult, LaneRec, Results
  <2>5. calls' \subseteq CallRec
    BY <2>1, <2>4, MovesType DEF Types, CallPcs
  <2> QED BY <1>2, <1>3, <1>4, <2>1, <2>2, <2>3, <2>4, <2>5
<1>5. CASE ~(ln.phase = "CANCELING" /\ ln.n = c.n)
  <2>1. Returns(c) /\ lane' = lane
    BY <1>2, <1>5 DEF CancelEnd, LaneOf, TokenMatches
  <2> QED BY <1>2, <1>3, <1>5, <2>1 DEF Types, LaneType, CallType, Returns, OthersKept
<1> QED BY <1>4, <1>5

\* CompleteLane takes a lane that is busy and not taken yet.
LEMMA CompleteClaimEffect ==
  ASSUME Types, NEW c \in calls, CompleteClaim(c)
  PROVE  /\ LaneType' /\ OthersKept(c) /\ calls' \subseteq CallRec
         /\ UNCHANGED <<active, target, epoch, unbind, bound, outstanding, drained, content, batch,
                        contentOf, serial, capture, gpu, held, life, told, ended>>
         /\ c.pc = "complete"
         /\ \/ /\ LaneOf(c).phase \in {"FILLING", "PENDING", "CANCELING"} /\ LaneOf(c).n = c.n
               /\ LaneOf(c)'.phase = "COMPLETING" /\ LaneOf(c)'.n = c.n
               /\ LaneOf(c)'.busy = LaneOf(c).busy
               /\ Moves(c, "call", c.result)
            \/ /\ ~(Claimable(LaneOf(c)) /\ LaneOf(c).n = c.n)
               /\ Returns(c) /\ lane' = lane
<1>1. c.s \in Sinks /\ c.l \in Lanes /\ c.n \in Serials /\ c.result \in Results \cup {"none"}
  BY CallFields DEF Types
<1>2. PICK ln \in LaneRec : ln = LaneOf(c)
  BY <1>1 DEF Types, LaneType, LaneOf
<1>3. /\ UNCHANGED <<active, target, epoch, unbind, bound, outstanding, drained, content, batch,
                     contentOf, serial, capture, gpu, held, life, told, ended>>
      /\ c.pc = "complete"
  BY DEF CompleteClaim, sinkVars, history
<1>4. CASE Claimable(ln) /\ ln.n = c.n
  <2> DEFINE v == [ln EXCEPT !.phase = "COMPLETING"]
  <2>1. LaneSet(c.s, c.l, v) /\ Moves(c, "call", c.result)
    BY <1>1, <1>2, <1>4 DEF CompleteClaim, LaneOf, LaneSet, TokenMatches, Types, LaneType
  <2>2. v \in LaneRec /\ v.phase = "COMPLETING" /\ v.n = ln.n /\ v.busy = ln.busy
    BY DEF LaneRec, Phases
  <2> HIDE DEF v
  <2>3. LaneType' /\ LaneOf(c)' = v /\ OthersKept(c)
    BY <1>1, <2>1, <2>2, LaneSetFact DEF LaneOf, OthersKept, Types
  <2>4. calls' \subseteq CallRec
    BY <1>1, <2>1, MovesType DEF Types, CallPcs
  <2>5. ln.phase \in {"FILLING", "PENDING", "CANCELING"}
    BY <1>4 DEF Claimable, LaneRec, Phases
  <2> QED BY <1>2, <1>3, <1>4, <2>1, <2>2, <2>3, <2>4, <2>5
<1>5. CASE ~(Claimable(ln) /\ ln.n = c.n)
  <2>1. Returns(c) /\ lane' = lane
    BY <1>2, <1>5 DEF CompleteClaim, LaneOf, TokenMatches
  <2> QED BY <1>2, <1>3, <1>5, <2>1 DEF Types, LaneType, CallType, Returns, OthersKept
<1> QED BY <1>4, <1>5

\* CompleteLane frees the lane it took.
LEMMA CompleteSettleEffect ==
  ASSUME Types, NEW c \in calls, CompleteSettle(c)
  PROVE  /\ LaneType' /\ OthersKept(c) /\ calls' \subseteq CallRec
         /\ UNCHANGED <<active, target, epoch, unbind, bound, outstanding, drained, batch,
                        contentOf, serial, capture, gpu, held, life, told>>
         /\ c.pc = "settle" /\ Moves(c, "sub", "none")
         /\ IF LaneOf(c).phase = "COMPLETING" /\ LaneOf(c).n = c.n
              THEN LaneOf(c)' = NoLane ELSE lane' = lane
<1>1. c.s \in Sinks /\ c.l \in Lanes /\ c.n \in Serials
  BY CallFields DEF Types
<1>2. /\ UNCHANGED <<active, target, epoch, unbind, bound, outstanding, drained, batch,
                     contentOf, serial, capture, gpu, held, life, told>>
      /\ c.pc = "settle" /\ Moves(c, "sub", "none")
  BY DEF CompleteSettle, sinkVars
<1>3. calls' \subseteq CallRec
  BY <1>2, MovesType DEF Types, CallPcs
<1>4. CASE LaneOf(c).phase = "COMPLETING" /\ LaneOf(c).n = c.n
  <2>1. LaneSet(c.s, c.l, NoLane)
    BY <1>4 DEF CompleteSettle, LaneSet, LaneOf, TokenMatches
  <2>2. LaneType' /\ LaneOf(c)' = NoLane /\ OthersKept(c)
    BY <1>1, <2>1, LaneSetFact, DefaultsType DEF LaneOf, OthersKept, Types
  <2> QED BY <1>2, <1>3, <1>4, <2>2
<1>5. CASE ~(LaneOf(c).phase = "COMPLETING" /\ LaneOf(c).n = c.n)
  <2>1. lane' = lane
    BY <1>5 DEF CompleteSettle, LaneOf, TokenMatches
  <2> QED BY <1>2, <1>3, <1>5, <2>1 DEF Types, LaneType, OthersKept
<1> QED BY <1>4, <1>5

\* OnFrameDone leaves the answer to the running call, or completes the lane.
LEMMA OnFrameDoneEffect ==
  ASSUME Types, NEW c \in calls, OnFrameDone(c)
  PROVE  /\ LaneType' /\ OthersKept(c) /\ calls' \subseteq CallRec
         /\ UNCHANGED <<active, target, epoch, unbind, bound, outstanding, drained, content, batch,
                        contentOf, serial, capture, gpu, held, life, ended>>
         /\ c.pc = "done"
         /\ \/ /\ LaneOf(c).phase \in {"FILLING", "PENDING", "CANCELING"} /\ LaneOf(c).n = c.n
               /\ LaneOf(c).callActive /\ LaneOf(c)'.callActive
               /\ LaneOf(c)'.phase = LaneOf(c).phase /\ LaneOf(c)'.n = c.n
               /\ LaneOf(c)'.busy = LaneOf(c).busy
               /\ LaneOf(c)'.result = IF LaneOf(c).result = "none" THEN c.result ELSE LaneOf(c).result
               /\ HearFrom(c.s, c.n, c.result) /\ Returns(c)
            \/ /\ LaneOf(c).phase \in {"PENDING", "CANCELING"} /\ LaneOf(c).n = c.n
               /\ ~LaneOf(c).callActive
               /\ Moves(c, "complete", c.result) /\ lane' = lane /\ told' = told
            \/ Returns(c) /\ lane' = lane /\ told' = told
<1>1. c.s \in Sinks /\ c.l \in Lanes /\ c.n \in Serials /\ c.result \in Results \cup {"none"}
  BY CallFields DEF Types
<1>2. PICK ln \in LaneRec : ln = LaneOf(c)
  BY <1>1 DEF Types, LaneType, LaneOf
<1>3. /\ UNCHANGED <<active, target, epoch, unbind, bound, outstanding, drained, content, batch,
                     contentOf, serial, capture, gpu, held, life, ended>>
      /\ c.pc = "done"
  BY DEF OnFrameDone, sinkVars
<1> DEFINE found == epoch[c.s] = c.epoch /\ ln.n = c.n /\ Claimable(ln)
<1>4. found => ln.phase \in {"FILLING", "PENDING", "CANCELING"}
  BY DEF Claimable, LaneRec, Phases
<1>5. CASE found /\ ln.callActive
  <2> DEFINE v == [ln EXCEPT !.result = IF ln.result = "none" THEN c.result ELSE ln.result]
  <2>1. LaneSet(c.s, c.l, v) /\ HearFrom(c.s, c.n, c.result) /\ Returns(c)
    BY <1>1, <1>2, <1>5 DEF OnFrameDone, LaneOf, LaneSet, TokenMatches, Types, LaneType
  <2>2. v \in LaneRec /\ v.phase = ln.phase /\ v.n = ln.n /\ v.busy = ln.busy
        /\ v.callActive = ln.callActive /\ v.result = IF ln.result = "none" THEN c.result ELSE ln.result
    BY <1>1 DEF LaneRec
  <2> HIDE DEF v
  <2>3. LaneType' /\ LaneOf(c)' = v /\ OthersKept(c)
    BY <1>1, <2>1, <2>2, LaneSetFact DEF LaneOf, OthersKept, Types
  <2>4. calls' \subseteq CallRec
    BY <2>1 DEF Types, CallType, Returns
  <2> QED BY <1>2, <1>3, <1>4, <1>5, <2>1, <2>2, <2>3, <2>4
<1>6. CASE found /\ ~ln.callActive /\ ln.phase \in {"PENDING", "CANCELING"}
  <2>1. Moves(c, "complete", c.result) /\ lane' = lane /\ told' = told
    BY <1>2, <1>6 DEF OnFrameDone, LaneOf, TokenMatches
  <2>2. calls' \subseteq CallRec
    BY <1>1, <2>1, MovesType DEF Types, CallPcs
  <2> QED BY <1>2, <1>3, <1>6, <2>1, <2>2 DEF Types, LaneType, OthersKept
<1>7. CASE ~(found /\ ln.callActive) /\ ~(found /\ ~ln.callActive /\ ln.phase \in {"PENDING", "CANCELING"})
  <2>1. Returns(c) /\ lane' = lane /\ told' = told
    BY <1>2, <1>7 DEF OnFrameDone, LaneOf, TokenMatches
  <2> QED BY <1>3, <2>1 DEF Types, LaneType, CallType, Returns, OthersKept
<1> QED BY <1>5, <1>6, <1>7

\* What Settled makes of a sink's record of content.
LEMMA SettledType ==
  ASSUME NEW k \in ContentRec, NEW d \in Nat, NEW r
  PROVE  Settled(k, d, r) \in ContentRec
BY DEF Settled, ContentRec

-----------------------------------------------------------------------------
(* The types are kept by every action.                                     *)

\* A handler changes no batch, no binding and nothing of the capture thread.
LEMMA HandlerType ==
  ASSUME TypeOK, LaneType', calls' \subseteq CallRec, held' \subseteq HeldRec, ContentType',
         HistoryType', outstanding' \in [Sinks -> Int], drained' \in [Sinks -> BOOLEAN],
         UNCHANGED <<active, target, epoch, unbind, bound, batch, contentOf, serial, capture, gpu>>,
         \A s \in Sinks, l \in Lanes : lane'[s][l].n = 0 => lane'[s][l].phase = "IDLE"
  PROVE  TypeOK'
<1>1. SinkType' /\ BatchType' /\ CaptureType' /\ CallType'
  BY DEF TypeOK, Types, SinkType, BatchType, CaptureType, CallType
<1>2. Shape'
  BY DEF TypeOK, Shape
<1> QED BY <1>1, <1>2 DEF TypeOK, Types

\* Phase and token of the lanes when only the lane of c is written.
LEMMA PhaseOthers ==
  ASSUME TypeOK, NEW c \in calls, OthersKept(c), LaneOf(c)'.n = 0 => LaneOf(c)'.phase = "IDLE"
  PROVE  \A s \in Sinks, l \in Lanes : lane'[s][l].n = 0 => lane'[s][l].phase = "IDLE"
<1> TAKE s \in Sinks, l \in Lanes
<1>1. CASE s = c.s /\ l = c.l
  BY <1>1 DEF LaneOf
<1>2. CASE ~(s = c.s /\ l = c.l)
  BY <1>2 DEF OthersKept, TypeOK, Shape
<1> QED BY <1>1, <1>2

\* What HearFrom records.
LEMMA HearFromType ==
  ASSUME HistoryType, NEW s \in Sinks, NEW n \in Serials, NEW r \in Results \cup {"none"},
         HearFrom(s, n, r), life' = life
  PROVE  HistoryType'
BY DEF HearFrom, HistoryType

\* FillLane up to the call of FrameFilled keeps the types.
LEMMA FillBeginType == ASSUME TypeOK, NEW c \in calls, FillBegin(c) PROVE TypeOK'
<1>1. Types /\ c.n # 0
  BY CallFields DEF TypeOK, Types
<1>2. ContentType' /\ HistoryType' /\ outstanding' \in [Sinks -> Int] /\ drained' \in [Sinks -> BOOLEAN]
  BY <1>1, FillBeginEffect DEF Types, SinkType, ContentType, HistoryType
<1>3. lane' = lane \/ (LaneOf(c)'.phase = "FILLING" /\ LaneOf(c)'.n = c.n)
  BY <1>1, FillBeginEffect
<1>4. \A s \in Sinks, l \in Lanes : lane'[s][l].n = 0 => lane'[s][l].phase = "IDLE"
  <2>1. CASE lane' = lane
    BY <2>1 DEF TypeOK, Shape
  <2>2. CASE LaneOf(c)'.phase = "FILLING" /\ LaneOf(c)'.n = c.n
    BY <1>1, <2>2, PhaseOthers, FillBeginEffect
  <2> QED BY <1>3, <2>1, <2>2
<1> QED BY <1>1, <1>2, <1>4, FillBeginEffect, HandlerType

\* FillLane after FrameFilled keeps the types.
LEMMA FillEndType ==
  ASSUME TypeOK, NEW c \in calls, NEW fill \in {"READY", "PENDING", "REJECTED"}, FillEnd(c, fill)
  PROVE  TypeOK'
<1>1. Types /\ c.n # 0 /\ c.s \in Sinks /\ c.n \in Serials
  BY CallFields DEF TypeOK, Types
<1> DEFINE answer == IF fill = "READY" THEN "READY" ELSE "FAILED"
<1>2. answer \in Results \cup {"none"}
  BY DEF Results
<1>3. told' = told \/ HearFrom(c.s, c.n, answer)
  BY <1>1, FillEndEffect
<1> HIDE DEF answer
<1>4. life' = life
  BY <1>1, FillEndEffect
<1>5. HistoryType'
  <2>1. CASE told' = told
    BY <1>1, <1>4, <2>1 DEF Types, HistoryType
  <2>2. CASE HearFrom(c.s, c.n, answer)
    BY <1>1, <1>2, <1>4, <2>2, HearFromType DEF Types
  <2> QED BY <1>3, <2>1, <2>2
<1>6. ContentType' /\ outstanding' \in [Sinks -> Int] /\ drained' \in [Sinks -> BOOLEAN]
      /\ held' \subseteq HeldRec
  BY <1>1, FillEndEffect DEF Types, SinkType, ContentType, CallType
<1>7. lane' = lane \/ (LaneOf(c)'.phase \in {"FILLING", "PENDING"} /\ LaneOf(c)'.n = c.n)
  BY <1>1, FillEndEffect
<1>8. \A s \in Sinks, l \in Lanes : lane'[s][l].n = 0 => lane'[s][l].phase = "IDLE"
  <2>1. CASE lane' = lane
    BY <2>1 DEF TypeOK, Shape
  <2>2. CASE LaneOf(c)'.phase \in {"FILLING", "PENDING"} /\ LaneOf(c)'.n = c.n
    <3>1. OthersKept(c)
      BY <1>1, FillEndEffect
    <3> QED BY <1>1, <2>2, <3>1, PhaseOthers
  <2> QED BY <1>7, <2>1, <2>2
<1>9. LaneType' /\ calls' \subseteq CallRec
      /\ UNCHANGED <<active, target, epoch, unbind, bound, batch, contentOf, serial, capture, gpu>>
  BY <1>1, FillEndEffect
<1> QED BY <1>5, <1>6, <1>8, <1>9, HandlerType

\* CancelLane up to the call of CancelFrame keeps the types.
LEMMA CancelBeginType == ASSUME TypeOK, NEW c \in calls, CancelBegin(c) PROVE TypeOK'
<1>1. Types /\ c.n # 0
  BY CallFields DEF TypeOK, Types
<1>2. ContentType' /\ HistoryType' /\ outstanding' \in [Sinks -> Int] /\ drained' \in [Sinks -> BOOLEAN]
      /\ held' \subseteq HeldRec
  BY <1>1, CancelBeginEffect DEF Types, SinkType, ContentType, HistoryType, CallType
<1>3. lane' = lane \/ (LaneOf(c)'.phase = "CANCELING" /\ LaneOf(c)'.n = c.n)
  BY <1>1, CancelBeginEffect
<1>4. \A s \in Sinks, l \in Lanes : lane'[s][l].n = 0 => lane'[s][l].phase = "IDLE"
  <2>1. CASE lane' = lane
    BY <2>1 DEF TypeOK, Shape
  <2>2. CASE LaneOf(c)'.phase = "CANCELING" /\ LaneOf(c)'.n = c.n
    BY <1>1, <2>2, PhaseOthers, CancelBeginEffect
  <2> QED BY <1>3, <2>1, <2>2
<1> QED BY <1>1, <1>2, <1>4, CancelBeginEffect, HandlerType

\* CancelLane after CancelFrame keeps the types.
LEMMA CancelEndType == ASSUME TypeOK, NEW c \in calls, CancelEnd(c) PROVE TypeOK'
<1>1. Types /\ c.n # 0
  BY CallFields DEF TypeOK, Types
<1>2. ContentType' /\ HistoryType' /\ outstanding' \in [Sinks -> Int] /\ drained' \in [Sinks -> BOOLEAN]
      /\ held' \subseteq HeldRec
  BY <1>1, CancelEndEffect DEF Types, SinkType, ContentType, HistoryType, CallType
<1>3. lane' = lane \/ (LaneOf(c)'.phase = "CANCELING" /\ LaneOf(c)'.n = c.n)
  BY <1>1, CancelEndEffect
<1>4. \A s \in Sinks, l \in Lanes : lane'[s][l].n = 0 => lane'[s][l].phase = "IDLE"
  <2>1. CASE lane' = lane
    BY <2>1 DEF TypeOK, Shape
  <2>2. CASE LaneOf(c)'.phase = "CANCELING" /\ LaneOf(c)'.n = c.n
    BY <1>1, <2>2, PhaseOthers, CancelEndEffect
  <2> QED BY <1>3, <2>1, <2>2
<1> QED BY <1>1, <1>2, <1>4, CancelEndEffect, HandlerType

\* The claim of CompleteLane keeps the types.
LEMMA CompleteClaimType == ASSUME TypeOK, NEW c \in calls, CompleteClaim(c) PROVE TypeOK'
<1>1. Types /\ c.n # 0
  BY CallFields DEF TypeOK, Types
<1>2. ContentType' /\ HistoryType' /\ outstanding' \in [Sinks -> Int] /\ drained' \in [Sinks -> BOOLEAN]
      /\ held' \subseteq HeldRec
  BY <1>1, CompleteClaimEffect DEF Types, SinkType, ContentType, HistoryType, CallType
<1>3. lane' = lane \/ (LaneOf(c)'.phase = "COMPLETING" /\ LaneOf(c)'.n = c.n)
  BY <1>1, CompleteClaimEffect
<1>4. \A s \in Sinks, l \in Lanes : lane'[s][l].n = 0 => lane'[s][l].phase = "IDLE"
  <2>1. CASE lane' = lane
    BY <2>1 DEF TypeOK, Shape
  <2>2. CASE LaneOf(c)'.phase = "COMPLETING" /\ LaneOf(c)'.n = c.n
    BY <1>1, <2>2, PhaseOthers, CompleteClaimEffect
  <2> QED BY <1>3, <2>1, <2>2
<1> QED BY <1>1, <1>2, <1>4, CompleteClaimEffect, HandlerType

\* The last locked stretch of CompleteLane keeps the types.
LEMMA CompleteSettleType == ASSUME TypeOK, NEW c \in calls, CompleteSettle(c) PROVE TypeOK'
<1>1. Types /\ c.s \in Sinks /\ contentOf[c.n] \in Nat
  BY CallFields DEF TypeOK, Types, BatchType
<1>2. content' \in [Sinks -> ContentRec]
  BY <1>1, SettledType DEF CompleteSettle, Types, ContentType
<1>3. ended' \in [Sinks -> EndedRec]
  BY <1>1, ZenonT(60) DEF CompleteSettle, Types, ContentType, EndedRec
<1>4. HistoryType' /\ outstanding' \in [Sinks -> Int] /\ drained' \in [Sinks -> BOOLEAN]
      /\ held' \subseteq HeldRec
  BY <1>1, CompleteSettleEffect DEF Types, SinkType, HistoryType, CallType
<1>5. \A s \in Sinks, l \in Lanes : lane'[s][l].n = 0 => lane'[s][l].phase = "IDLE"
  <2>1. CASE lane' = lane
    BY <2>1 DEF TypeOK, Shape
  <2>2. CASE LaneOf(c)' = NoLane
    <3>1. NoLane.phase = "IDLE" /\ NoLane.n = 0
      BY DEF NoLane
    <3> QED BY <1>1, <2>2, <3>1, PhaseOthers, CompleteSettleEffect
  <2> QED BY <1>1, CompleteSettleEffect, <2>1, <2>2
<1> QED BY <1>1, <1>2, <1>3, <1>4, <1>5, CompleteSettleEffect, HandlerType DEF ContentType

\* OnFrameDone keeps the types.
LEMMA OnFrameDoneType == ASSUME TypeOK, NEW c \in calls, OnFrameDone(c) PROVE TypeOK'
<1>1. Types /\ c.n # 0 /\ c.s \in Sinks /\ c.n \in Serials /\ c.result \in Results \cup {"none"}
  BY CallFields DEF TypeOK, Types
<1>2. life' = life /\ (told' = told \/ HearFrom(c.s, c.n, c.result))
  BY <1>1, OnFrameDoneEffect
<1>3. HistoryType'
  <2>1. CASE told' = told
    BY <1>1, <1>2, <2>1 DEF Types, HistoryType
  <2>2. CASE HearFrom(c.s, c.n, c.result)
    BY <1>1, <1>2, <2>2, HearFromType DEF Types
  <2> QED BY <1>2, <2>1, <2>2
<1>4. ContentType' /\ outstanding' \in [Sinks -> Int] /\ drained' \in [Sinks -> BOOLEAN]
      /\ held' \subseteq HeldRec
  BY <1>1, OnFrameDoneEffect DEF Types, SinkType, ContentType, CallType
<1>5. lane' = lane \/ (LaneOf(c)'.phase \in {"FILLING", "PENDING", "CANCELING"} /\ LaneOf(c)'.n = c.n)
  BY <1>1, OnFrameDoneEffect
<1>6. \A s \in Sinks, l \in Lanes : lane'[s][l].n = 0 => lane'[s][l].phase = "IDLE"
  <2>1. CASE lane' = lane
    BY <2>1 DEF TypeOK, Shape
  <2>2. CASE LaneOf(c)'.phase \in {"FILLING", "PENDING", "CANCELING"} /\ LaneOf(c)'.n = c.n
    <3>1. OthersKept(c)
      BY <1>1, OnFrameDoneEffect
    <3> QED BY <1>1, <2>2, <3>1, PhaseOthers
  <2> QED BY <1>5, <2>1, <2>2
<1>7. LaneType' /\ calls' \subseteq CallRec
      /\ UNCHANGED <<active, target, epoch, unbind, bound, batch, contentOf, serial, capture, gpu>>
  BY <1>1, OnFrameDoneEffect
<1> QED BY <1>3, <1>4, <1>6, <1>7, HandlerType

\* The call of CompleteFrameBuffer keeps the types.
LEMMA CompleteCallType == ASSUME TypeOK, NEW c \in calls, CompleteCall(c) PROVE TypeOK'
<1>1. Types /\ c.s \in Sinks /\ c.n \in Serials /\ c.result \in Results \cup {"none"}
  BY CallFields DEF TypeOK, Types
<1>2. /\ UNCHANGED <<active, target, epoch, unbind, bound, outstanding, drained, content, lane, batch,
                     contentOf, serial, capture, gpu, held, ended>>
      /\ Moves(c, "settle", c.result)
  BY DEF CompleteCall, hubVars
<1>3. life' \in [Sinks -> [Serials -> Lives]]
  <2>1. \A v \in Lives : [life EXCEPT ![c.s][c.n] = v] \in [Sinks -> [Serials -> Lives]]
    BY <1>1 DEF Types, HistoryType
  <2> DEFINE v == CASE epoch[c.s] # c.epoch -> "broken"
                    [] told[c.s][c.n] \notin {"none", c.result} -> "denied"
                    [] OTHER -> Told(c.s, c.n, "published", "over")
  <2>2. v \in Lives
    <3>1. Told(c.s, c.n, "published", "over") \in Lives
      BY DEF Told, Lives
    <3> QED BY <3>1 DEF Lives
  <2>3. life' = IF target[c.s] THEN [life EXCEPT ![c.s][c.n] = v] ELSE life
    BY DEF CompleteCall
  <2> HIDE DEF v
  <2> QED BY <1>1, <2>1, <2>2, <2>3 DEF Types, HistoryType
<1>4. told' \in [Sinks -> [Serials -> Results \cup {"none"}]]
  BY <1>1 DEF CompleteCall, Types, HistoryType
<1>5. calls' \subseteq CallRec
  BY <1>1, <1>2, MovesType DEF Types, CallPcs
<1>6. ContentType' /\ outstanding' \in [Sinks -> Int] /\ drained' \in [Sinks -> BOOLEAN]
      /\ held' \subseteq HeldRec /\ LaneType'
  BY <1>1, <1>2 DEF Types, SinkType, ContentType, CallType, LaneType
<1>7. \A s \in Sinks, l \in Lanes : lane'[s][l].n = 0 => lane'[s][l].phase = "IDLE"
  BY <1>2 DEF TypeOK, Shape
<1> QED BY <1>2, <1>3, <1>4, <1>5, <1>6, <1>7, HandlerType DEF HistoryType

\* Counting a lane down keeps the types.
LEMMA CompleteSubType == ASSUME TypeOK, NEW c \in calls, CompleteSub(c) PROVE TypeOK'
<1>1. Types /\ c.s \in Sinks
  BY CallFields DEF TypeOK, Types
<1>2. /\ UNCHANGED <<active, target, epoch, unbind, bound, drained, content, lane, batch,
                     contentOf, serial, capture, gpu, held, life, told, ended>>
      /\ outstanding' = [outstanding EXCEPT ![c.s] = @ - 1]
      /\ Moves(c, "set", "none") \/ Returns(c)
  BY DEF CompleteSub, sinkVars, history
<1>3. calls' \subseteq CallRec
  <2>1. CASE Returns(c)
    BY <1>1, <2>1 DEF Types, CallType, Returns
  <2>2. CASE Moves(c, "set", "none")
    BY <1>1, <2>2, MovesType DEF Types, CallPcs
  <2> QED BY <1>2, <2>1, <2>2
<1>4. ContentType' /\ outstanding' \in [Sinks -> Int] /\ drained' \in [Sinks -> BOOLEAN]
      /\ held' \subseteq HeldRec /\ LaneType' /\ HistoryType'
  BY <1>1, <1>2 DEF Types, SinkType, ContentType, CallType, LaneType, HistoryType
<1>5. \A s \in Sinks, l \in Lanes : lane'[s][l].n = 0 => lane'[s][l].phase = "IDLE"
  BY <1>2 DEF TypeOK, Shape
<1> QED BY <1>2, <1>3, <1>4, <1>5, HandlerType

\* Setting the event keeps the types.
LEMMA CompleteSetType == ASSUME TypeOK, NEW c \in calls, CompleteSet(c) PROVE TypeOK'
<1>1. Types /\ c.s \in Sinks
  BY CallFields DEF TypeOK, Types
<1>2. /\ UNCHANGED <<active, target, epoch, unbind, bound, outstanding, content, lane, batch,
                     contentOf, serial, capture, gpu, held, life, told, ended>>
      /\ drained' = [drained EXCEPT ![c.s] = TRUE] /\ Returns(c)
  BY DEF CompleteSet, sinkVars, history
<1>3. ContentType' /\ outstanding' \in [Sinks -> Int] /\ drained' \in [Sinks -> BOOLEAN]
      /\ held' \subseteq HeldRec /\ LaneType' /\ HistoryType' /\ calls' \subseteq CallRec
  BY <1>1, <1>2 DEF Types, SinkType, ContentType, CallType, LaneType, HistoryType, Returns
<1>4. \A s \in Sinks, l \in Lanes : lane'[s][l].n = 0 => lane'[s][l].phase = "IDLE"
  BY <1>2 DEF TypeOK, Shape
<1> QED BY <1>2, <1>3, <1>4, HandlerType

\* A callback of the sink keeps the types.
LEMMA SinkDoneType ==
  ASSUME TypeOK, NEW h \in held, NEW r \in {"READY", "FAILED"}, SinkDone(h, r)
  PROVE  TypeOK'
<1>1. h.s \in Sinks /\ h.l \in Lanes /\ h.n \in Serials /\ h.epoch \in Nat
  BY DEF TypeOK, Types, CallType, HeldRec
<1>2. [by |-> "sink", pc |-> "done", s |-> h.s, l |-> h.l, n |-> h.n, epoch |-> h.epoch,
       result |-> r] \in CallRec
  BY <1>1 DEF CallRec, CallPcs, Results
<1>3. /\ UNCHANGED <<active, target, epoch, unbind, bound, outstanding, drained, content, lane, batch,
                     contentOf, serial, capture, gpu, life, told, ended>>
      /\ calls' \subseteq CallRec /\ held' \subseteq held
  BY <1>2 DEF SinkDone, hubVars, history, TypeOK, Types, CallType
<1>4. ContentType' /\ outstanding' \in [Sinks -> Int] /\ drained' \in [Sinks -> BOOLEAN]
      /\ held' \subseteq HeldRec /\ LaneType' /\ HistoryType'
  BY <1>3 DEF TypeOK, Types, SinkType, ContentType, CallType, LaneType, HistoryType
<1>5. \A s \in Sinks, l \in Lanes : lane'[s][l].n = 0 => lane'[s][l].phase = "IDLE"
  BY <1>3 DEF TypeOK, Shape
<1> QED BY <1>3, <1>4, <1>5, HandlerType

\* A step of the capture thread or of a copy that narrows a batch.
LEMMA BatchStepType ==
  ASSUME TypeOK, Narrowed, SinkType', content' \in [Sinks -> ContentRec], LaneType',
         gpu' \in [Batches -> CopyRec], CaptureType', calls' \subseteq CallRec, HistoryType',
         UNCHANGED <<contentOf, serial, held, ended>>,
         \A s \in Sinks, l \in Lanes : lane'[s][l].n = 0 => lane'[s][l].phase = "IDLE"
  PROVE  TypeOK'
<1>1. ContentType' /\ BatchType' /\ CallType'
  BY DEF TypeOK, Types, ContentType, BatchType, CallType, Narrowed
<1>2. Shape'
  <2>1. PICK s \in Sinks : TRUE
    BY HubAssumption
  <2>2. /\ \A b \in Batches : batch'[b].active => batch'[b].n \in 1..serial'
        /\ \A a, b \in Batches : a # b /\ batch'[a].active /\ batch'[b].active =>
             batch'[a].n # batch'[b].n
    BY NarrowedShape, <2>1
  <2>3. \A r \in Sinks, b \in Batches : batch'[b].targets[r].active =>
          batch'[b].active /\ batch'[b].targets[r].lane \in Lanes
    BY NarrowedShape
  <2> QED BY <2>2, <2>3 DEF Shape
<1> QED BY <1>1, <1>2 DEF TypeOK, Types

\* What the sink is told of a buffer is one of the Lives.
LEMMA ToldType ==
  ASSUME NEW s, NEW n, NEW e, NEW from, NEW to \in Lives
  PROVE  /\ Told(s, n, from, to) \in {to, "broken"}
         /\ BatchTold(s, n, e, from, to) \in Lives
         /\ epoch[s] = e => BatchTold(s, n, e, from, to) = Told(s, n, from, to)
BY DEF Told, BatchTold, Lives

\* Writing what is told of one serial keeps the others.
LEMMA LifeSetType ==
  ASSUME NEW f \in [Serials -> Lives], NEW n, NEW v \in Lives
  PROVE  /\ [f EXCEPT ![n] = v] \in [Serials -> Lives]
         /\ \A m \in Serials : [f EXCEPT ![n] = v][m] = IF m = n THEN v ELSE f[m]
OBVIOUS

\* A cleared batch has no active target.
LEMMA NoBatchFact ==
  /\ NoBatch.active = FALSE
  /\ \A s \in Sinks : NoBatch.targets[s].active = FALSE
BY DEF NoBatch, NoTarget

\* PublishFrameBatch: the accepted targets A stay, the others are given up.
LEMMA PublishEffect ==
  ASSUME TypeOK, NEW A \in SUBSET Sinks, PublishFrameBatch(A)
  PROVE  LET b == capture.b
             ts == batch[b].targets IN
         /\ b \in Batches /\ A \subseteq ActiveTargets(b) /\ \A s \in A : TargetValid(ts[s], s)
         /\ Released(b, ActiveTargets(b) \ A) /\ Narrowed
         /\ \A a \in Batches : a # b => batch'[a] = batch[a]
         /\ \A s \in Sinks : batch'[b].targets[s].active <=> s \in A
         /\ \A s \in A : /\ batch'[b].targets[s].published
                         /\ batch'[b].n = batch[b].n
         /\ \A s \in Sinks : LET t == ts[s] IN
              /\ s \in A => life'[s] = [life[s] EXCEPT ![batch[b].n] =
                   BatchTold(s, batch[b].n, t.epoch, "prepared", "published")]
              /\ s \in ActiveTargets(b) \ A /\ TargetValid(t, s) => life'[s] = [life[s] EXCEPT ![batch[b].n] =
                   BatchTold(s, batch[b].n, t.epoch, "prepared", "over")]
              /\ ~(s \in ActiveTargets(b) /\ TargetValid(t, s)) => life'[s] = life[s]
         /\ life' = [s \in Sinks |-> life'[s]]
         /\ UNCHANGED <<active, target, epoch, unbind, bound, contentOf, serial, calls, held, told, ended>>
<1> DEFINE b == capture.b
           ts == batch[b].targets
           V == {s \in ActiveTargets(b) : TargetValid(ts[s], s)}
           R == ActiveTargets(b) \ A
           us == [s \in Sinks |-> IF s \in A THEN [ts[s] EXCEPT !.published = TRUE] ELSE Inactive(ts, R)[s]]
<1>1. b \in Batches
  BY DEF PublishFrameBatch, CaptureAt, TypeOK, Types, CaptureType
<1>2. A \subseteq V /\ Released(b, R) /\ batch' = [batch EXCEPT ![b] = WithTargets(b, us)]
  BY DEF PublishFrameBatch
<1>3. ts \in [Sinks -> TargetRec]
  BY <1>1 DEF TypeOK, Types, BatchType, BatchRec
<1>4. \A s \in Sinks : ts[s].active <=> s \in ActiveTargets(b)
  BY <1>3, ZenonT(60) DEF ActiveTargets
<1>5. ASSUME NEW s \in Sinks
      PROVE  /\ us[s] \in TargetRec
             /\ us[s].active <=> s \in A
             /\ s \in A => us[s].lane = ts[s].lane /\ us[s].epoch = ts[s].epoch /\ us[s].published
  <2>1. PICK t \in TargetRec : t = ts[s]
    BY <1>3
  <2>2. CASE s \in A
    <3>1. us[s] = [t EXCEPT !.published = TRUE]
      BY <2>1, <2>2
    <3>2. t.active
      BY <1>2, <1>4, <2>1, <2>2
    <3>3. [t EXCEPT !.published = TRUE] \in TargetRec /\ [t EXCEPT !.published = TRUE].active
          /\ [t EXCEPT !.published = TRUE].lane = t.lane /\ [t EXCEPT !.published = TRUE].epoch = t.epoch
          /\ [t EXCEPT !.published = TRUE].published
      BY <3>2 DEF TargetRec
    <3> QED BY <2>1, <2>2, <3>1, <3>3
  <2>3. CASE s \notin A
    <3>1. us[s] = Inactive(ts, R)[s]
      BY <2>3
    <3>2. Inactive(ts, R)[s] \in TargetRec /\ (s \in R => Inactive(ts, R)[s].active = FALSE)
          /\ (s \notin R => Inactive(ts, R)[s] = ts[s])
      <4> HIDE DEF ts, R
      <4> QED BY <1>3, InactiveFact, ZenonT(60)
    <3>3. Inactive(ts, R)[s].active = FALSE
      BY <1>3, <1>4, <2>3, <3>2 DEF TargetRec
    <3> QED BY <2>3, <3>1, <3>2, <3>3
  <2> QED BY <2>2, <2>3
<1>6. us \in [Sinks -> TargetRec]
  BY <1>5
<1> HIDE DEF us
<1>7. \A s \in Sinks : us[s].active => /\ batch[b].targets[s].active
                                       /\ us[s].lane = batch[b].targets[s].lane
                                       /\ us[s].epoch = batch[b].targets[s].epoch
  BY <1>2, <1>4, <1>5
<1>8. /\ Narrowed /\ \A a \in Batches : a # b => batch'[a] = batch[a]
      /\ \A s \in Sinks : batch'[b].targets[s].active = us[s].active
      /\ \A s \in Sinks : us[s].active => batch'[b].targets[s] = us[s] /\ batch'[b].n = batch[b].n
  <2> HIDE DEF b
  <2> QED BY <1>1, <1>2, <1>6, <1>7, WithTargetsFact, ZenonT(60)
<1>9. /\ \A s \in Sinks : batch'[b].targets[s].active <=> s \in A
      /\ \A s \in A : batch'[b].targets[s].published /\ batch'[b].n = batch[b].n
  BY <1>5, <1>8
<1>10. life' = [s \in Sinks |-> CASE
       s \in A       -> [life[s] EXCEPT ![batch[b].n] =
                           BatchTold(s, batch[b].n, ts[s].epoch, "prepared", "published")]
    [] s \in V \ A   -> [life[s] EXCEPT ![batch[b].n] =
                           BatchTold(s, batch[b].n, ts[s].epoch, "prepared", "over")]
    [] OTHER         -> life[s]]
  BY DEF PublishFrameBatch
<1>11. ASSUME NEW s \in Sinks
       PROVE  /\ s \in A => life'[s] = [life[s] EXCEPT ![batch[b].n] =
                   BatchTold(s, batch[b].n, ts[s].epoch, "prepared", "published")]
              /\ s \in ActiveTargets(b) \ A /\ TargetValid(ts[s], s) => life'[s] = [life[s] EXCEPT ![batch[b].n] =
                   BatchTold(s, batch[b].n, ts[s].epoch, "prepared", "over")]
              /\ ~(s \in ActiveTargets(b) /\ TargetValid(ts[s], s)) => life'[s] = life[s]
  <2>1. s \in V <=> s \in ActiveTargets(b) /\ TargetValid(ts[s], s)
    OBVIOUS
  <2> HIDE DEF V, ts, b
  <2> QED BY <1>2, <1>10, <2>1
<1>12. life' = [s \in Sinks |-> life'[s]]
  BY <1>10
<1>13. UNCHANGED <<active, target, epoch, unbind, bound, contentOf, serial, calls, held, told, ended>>
  BY DEF PublishFrameBatch
<1>14. A \subseteq ActiveTargets(b) /\ \A s \in A : TargetValid(ts[s], s)
  BY <1>2
<1> QED BY <1>1, <1>2, <1>8, <1>9, <1>11, <1>12, <1>13, <1>14

\* PublishFrameBatch keeps the types.
LEMMA PublishType == ASSUME TypeOK, NEW A \in SUBSET Sinks, PublishFrameBatch(A) PROVE TypeOK'
<1> DEFINE b == capture.b
<1>1. b \in Batches /\ Released(b, ActiveTargets(b) \ A) /\ Narrowed
      /\ UNCHANGED <<active, target, epoch, unbind, bound, contentOf, serial, calls, held, told, ended>>
  BY PublishEffect
<1>2. ActiveTargets(b) \ A \in SUBSET Sinks
  BY DEF ActiveTargets
<1>3. /\ LaneType' /\ outstanding' \in [Sinks -> Int] /\ drained' \in [Sinks -> BOOLEAN]
      /\ content' \in [Sinks -> ContentRec]
      /\ \A s \in Sinks, l \in Lanes :
           lane'[s][l].phase = lane[s][l].phase /\ lane'[s][l].n = lane[s][l].n
  <2> HIDE DEF b
  <2> QED BY <1>1, <1>2, ReleasedFact DEF TypeOK
<1>4. SinkType'
  BY <1>1, <1>3 DEF TypeOK, Types, SinkType
<1>5. gpu' \in [Batches -> CopyRec]
  <2>1. batch[b].n \in 0..MaxSerial
    BY <1>1 DEF TypeOK, Types, BatchType, BatchRec
  <2>2. [NoCopy EXCEPT !.n = batch[b].n, !.todo = A] \in CopyRec
    BY <2>1, DefaultsType DEF CopyRec
  <2>3. gpu' = [gpu EXCEPT ![b] = IF A = {} THEN @ ELSE [NoCopy EXCEPT !.n = batch[b].n, !.todo = A]]
    BY DEF PublishFrameBatch
  <2> QED BY <1>1, <2>2, <2>3 DEF TypeOK, Types, BatchType
<1>6. CaptureType'
  <2>1. capture' = IF A = {} THEN Idle ELSE [capture EXCEPT !.pc = "published"]
    BY DEF PublishFrameBatch
  <2>2. capture \in CaptureRec
    BY DEF TypeOK, Types, CaptureType
  <2>3. [capture EXCEPT !.pc = "published"] \in CaptureRec /\ [capture EXCEPT !.pc = "published"].b = b
    BY <2>2 DEF CaptureRec
  <2> QED BY <1>1, <2>1, <2>3, DefaultsType DEF CaptureType
<1>7. HistoryType'
  <2>1. ASSUME NEW s \in Sinks PROVE life'[s] \in [Serials -> Lives]
    <3>1. life[s] \in [Serials -> Lives]
      BY DEF TypeOK, Types, HistoryType
    <3>2. \A to \in {"published", "over"} : \A e : BatchTold(s, batch[b].n, e, "prepared", to) \in Lives
      BY ToldType DEF Lives
    <3>3. \/ life'[s] = life[s]
          \/ \E to \in {"published", "over"}, e \in {batch[b].targets[s].epoch} :
               life'[s] = [life[s] EXCEPT ![batch[b].n] = BatchTold(s, batch[b].n, e, "prepared", to)]
      BY PublishEffect
    <3>4. CASE \E to \in {"published", "over"}, e \in {batch[b].targets[s].epoch} :
                 life'[s] = [life[s] EXCEPT ![batch[b].n] = BatchTold(s, batch[b].n, e, "prepared", to)]
      <4>1. PICK v \in Lives : life'[s] = [life[s] EXCEPT ![batch[b].n] = v]
        BY <3>2, <3>4
      <4> QED BY <3>1, <4>1, LifeSetType
    <3> QED BY <3>1, <3>3, <3>4
  <2>2. life' = [s \in Sinks |-> life'[s]]
    BY PublishEffect
  <2>3. life' \in [Sinks -> [Serials -> Lives]]
    BY <2>1, <2>2
  <2> QED BY <1>1, <2>3 DEF TypeOK, Types, HistoryType
<1>8. \A s \in Sinks, l \in Lanes : lane'[s][l].n = 0 => lane'[s][l].phase = "IDLE"
  BY <1>3 DEF TypeOK, Shape
<1>9. calls' \subseteq CallRec
  BY <1>1 DEF TypeOK, Types, CallType
<1> QED BY <1>1, <1>3, <1>4, <1>5, <1>6, <1>7, <1>8, <1>9, BatchStepType

\* EndBatch: every target is given up, or the batch is left alone.
LEMMA EndBatchEffect ==
  ASSUME TypeOK, NEW b \in Batches, NEW n, serial' = serial, EndBatch(b, n)
  PROVE  /\ Narrowed
         /\ \A a \in Batches : a # b => batch'[a] = batch[a]
         /\ \/ /\ batch[b].active /\ batch[b].n = n
               /\ Released(b, ActiveTargets(b))
               /\ \A s \in Sinks : ~batch'[b].targets[s].active
               /\ life' = [s \in Sinks |-> life'[s]]
               /\ \A s \in Sinks : LET t == batch[b].targets[s] IN
                    /\ s \in ActiveTargets(b) /\ TargetValid(t, s) =>
                         life'[s] = [life[s] EXCEPT ![n] =
                           IF t.published THEN BatchTold(s, n, t.epoch, "published", "over")
                                          ELSE BatchTold(s, n, t.epoch, "prepared", "over")]
                    /\ ~(s \in ActiveTargets(b) /\ TargetValid(t, s)) => life'[s] = life[s]
            \/ UNCHANGED <<lane, outstanding, drained, content, batch, life>>
<1>1. CASE batch[b].active /\ batch[b].n = n
  <2> DEFINE ts == batch[b].targets
             R == ActiveTargets(b)
             us == Inactive(ts, R)
  <2>1. Released(b, R) /\ batch' = [batch EXCEPT ![b] = WithTargets(b, us)]
    BY <1>1 DEF EndBatch
  <2>2. life' = [s \in Sinks |->
            IF s \in R /\ TargetValid(ts[s], s)
            THEN [life[s] EXCEPT ![n] =
                   IF ts[s].published
                   THEN BatchTold(s, n, ts[s].epoch, "published", "over")
                   ELSE BatchTold(s, n, ts[s].epoch, "prepared", "over")]
            ELSE life[s]]
    BY <1>1 DEF EndBatch
  <2>3. ts \in [Sinks -> TargetRec]
    BY DEF TypeOK, Types, BatchType, BatchRec
  <2>4. \A s \in Sinks : ts[s].active <=> s \in R
    BY <2>3 DEF ActiveTargets
  <2>5. us \in [Sinks -> TargetRec] /\ \A s \in Sinks : us[s].active = FALSE
    <3>1. /\ Inactive(ts, R) \in [Sinks -> TargetRec]
          /\ \A s \in Sinks : /\ s \in R => Inactive(ts, R)[s].active = FALSE
                              /\ s \notin R => Inactive(ts, R)[s] = ts[s]
      <4> HIDE DEF ts, R
      <4> QED BY <2>3, InactiveFact
    <3> HIDE DEF ts, R
    <3> QED BY <2>3, <2>4, <3>1 DEF TargetRec
  <2> HIDE DEF us
  <2>6. /\ Narrowed /\ \A a \in Batches : a # b => batch'[a] = batch[a]
        /\ \A s \in Sinks : batch'[b].targets[s].active = us[s].active
    BY <2>1, <2>5, WithTargetsFact
  <2>7. \A s \in Sinks : ~batch'[b].targets[s].active
    BY <2>5, <2>6
  <2>8. life' = [s \in Sinks |-> life'[s]]
    BY <2>2
  <2>9. \A s \in Sinks : LET t == batch[b].targets[s] IN
          /\ s \in ActiveTargets(b) /\ TargetValid(t, s) =>
               life'[s] = [life[s] EXCEPT ![n] =
                 IF t.published THEN BatchTold(s, n, t.epoch, "published", "over")
                                ELSE BatchTold(s, n, t.epoch, "prepared", "over")]
          /\ ~(s \in ActiveTargets(b) /\ TargetValid(t, s)) => life'[s] = life[s]
    BY <2>2
  <2> QED BY <1>1, <2>1, <2>6, <2>7, <2>8, <2>9
<1>2. CASE ~(batch[b].active /\ batch[b].n = n)
  <2>1. UNCHANGED <<lane, outstanding, drained, content, batch, life>>
    BY <1>2 DEF EndBatch
  <2>2. Narrowed
    BY <2>1 DEF Narrowed, TypeOK, Types, BatchType, Shape
  <2> QED BY <2>1, <2>2
<1> QED BY <1>1, <1>2

\* The part of the types that EndBatch could disturb.
LEMMA EndBatchType ==
  ASSUME TypeOK, NEW b \in Batches, NEW n, EndBatch(b, n), capture' \in {Idle, capture},
         gpu' \in {gpu, [gpu EXCEPT ![b] = NoCopy]},
         UNCHANGED <<active, target, epoch, unbind, bound, contentOf, serial, calls, held, told, ended>>
  PROVE  TypeOK'
<1>1. Narrowed
  BY EndBatchEffect
<1>2. gpu' \in [Batches -> CopyRec]
  BY DefaultsType DEF TypeOK, Types, BatchType
<1>3. CaptureType'
  BY DefaultsType DEF TypeOK, Types, CaptureType
<1>4. calls' \subseteq CallRec
  BY DEF TypeOK, Types, CallType
<1>5. CASE UNCHANGED <<lane, outstanding, drained, content, batch, life>>
  <2>1. SinkType' /\ content' \in [Sinks -> ContentRec] /\ LaneType' /\ HistoryType'
    BY <1>5 DEF TypeOK, Types, SinkType, ContentType, LaneType, HistoryType
  <2>2. \A s \in Sinks, l \in Lanes : lane'[s][l].n = 0 => lane'[s][l].phase = "IDLE"
    BY <1>5 DEF TypeOK, Shape
  <2> QED BY <1>1, <1>2, <1>3, <1>4, <2>1, <2>2, BatchStepType
<1>6. CASE ~UNCHANGED <<lane, outstanding, drained, content, batch, life>>
  <2>1. Released(b, ActiveTargets(b)) /\ life' = [s \in Sinks |-> life'[s]]
    BY <1>6, EndBatchEffect
  <2>2. ActiveTargets(b) \in SUBSET Sinks
    BY DEF ActiveTargets
  <2>3. /\ LaneType' /\ outstanding' \in [Sinks -> Int] /\ drained' \in [Sinks -> BOOLEAN]
        /\ content' \in [Sinks -> ContentRec]
        /\ \A s \in Sinks, l \in Lanes :
             lane'[s][l].phase = lane[s][l].phase /\ lane'[s][l].n = lane[s][l].n
    BY <2>1, <2>2, ReleasedFact DEF TypeOK
  <2>4. SinkType'
    BY <2>3 DEF TypeOK, Types, SinkType
  <2>5. ASSUME NEW s \in Sinks PROVE life'[s] \in [Serials -> Lives]
    <3>1. life[s] \in [Serials -> Lives]
      BY DEF TypeOK, Types, HistoryType
    <3>2. \A from, e : BatchTold(s, n, e, from, "over") \in Lives
      BY ToldType DEF Lives
    <3>3. \/ life'[s] = life[s]
          \/ \E v \in Lives : life'[s] = [life[s] EXCEPT ![n] = v]
      BY <1>6, <3>2, EndBatchEffect
    <3>4. CASE \E v \in Lives : life'[s] = [life[s] EXCEPT ![n] = v]
      <4>1. PICK v \in Lives : life'[s] = [life[s] EXCEPT ![n] = v]
        BY <3>4
      <4> QED BY <3>1, <4>1, LifeSetType
    <3> QED BY <3>1, <3>3, <3>4
  <2>6. HistoryType'
    <3>1. life' \in [Sinks -> [Serials -> Lives]]
      BY <2>1, <2>5
    <3> QED BY <3>1 DEF TypeOK, Types, HistoryType
  <2>7. \A s \in Sinks, l \in Lanes : lane'[s][l].n = 0 => lane'[s][l].phase = "IDLE"
    BY <2>3 DEF TypeOK, Shape
  <2> QED BY <1>1, <1>2, <1>3, <1>4, <2>3, <2>4, <2>6, <2>7, BatchStepType
<1> QED BY <1>5, <1>6

\* The capture thread's batch.
LEMMA CaptureBatch ==
  ASSUME TypeOK, capture.pc \in {"prepared", "published"}
  PROVE  capture.b \in Batches
BY DEF TypeOK, Types, CaptureType

\* AbortFrameBatch keeps the types.
LEMMA AbortType == ASSUME TypeOK, AbortFrameBatch PROVE TypeOK'
<1> DEFINE b == capture.b
<1>1. b \in Batches
  BY CaptureBatch DEF AbortFrameBatch, CaptureAt
<1>2. /\ EndBatch(b, batch[b].n) /\ capture' = Idle
      /\ UNCHANGED <<active, target, epoch, unbind, bound, contentOf, serial, gpu, calls, held, told, ended>>
  BY DEF AbortFrameBatch
<1> HIDE DEF b
<1> QED BY <1>1, <1>2, EndBatchType

\* A copy that is not submitted keeps the types.
LEMMA SubmitFailedType == ASSUME TypeOK, SubmitFailed PROVE TypeOK'
<1> DEFINE b == capture.b
<1>1. b \in Batches
  BY CaptureBatch DEF SubmitFailed, CaptureAt
<1>2. /\ EndBatch(b, gpu[b].n) /\ capture' = Idle /\ gpu' = [gpu EXCEPT ![b] = NoCopy]
      /\ UNCHANGED <<active, target, epoch, unbind, bound, contentOf, serial, calls, held, told, ended>>
  BY DEF SubmitFailed
<1> HIDE DEF b
<1> QED BY <1>1, <1>2, EndBatchType

\* FailFrameBatch keeps the types.
LEMMA FailType == ASSUME TypeOK, NEW b \in Batches, FailFrameBatch(b) PROVE TypeOK'
<1>1. /\ EndBatch(b, gpu[b].n) /\ capture' = capture /\ gpu' = [gpu EXCEPT ![b] = NoCopy]
      /\ UNCHANGED <<active, target, epoch, unbind, bound, contentOf, serial, calls, held, told, ended>>
  BY DEF FailFrameBatch
<1> QED BY <1>1, EndBatchType

\* CommitFrameBatch and CompleteFrameTarget hand the lanes of some targets D of
\* batch b to the handlers; the other targets stay, and are prepared, published
\* or not, as before.
DetachStep(b, D, who) ==
  /\ D \subseteq ActiveTargets(b) /\ \A s \in D : Detachable(b, s)
  /\ Detached(b, D) /\ calls' = calls \cup FillCalls(b, D, who)
  /\ Narrowed
  /\ \A a \in Batches : a # b => batch'[a] = batch[a]
  /\ \A s \in Sinks : batch'[b].targets[s].active <=> s \in ActiveTargets(b) \ D
  /\ \A s \in ActiveTargets(b) \ D :
       batch'[b].targets[s].published = batch[b].targets[s].published
  /\ UNCHANGED <<active, target, epoch, outstanding, drained, content, unbind, bound, contentOf,
                 serial, held, life, told, ended>>

\* A batch that is not changed is narrowed.
LEMMA SameNarrowed == ASSUME TypeOK, batch' = batch PROVE Narrowed
BY DEF Narrowed, TypeOK, Types, BatchType, Shape

\* The targets of a batch that is free.
LEMMA FreeBatch ==
  ASSUME TypeOK, NEW b \in Batches
  PROVE  /\ ~batch[b].active => ActiveTargets(b) = {}
         /\ \A s \in Sinks : batch[b].targets[s].active <=> s \in ActiveTargets(b)
BY DEF TypeOK, Shape, ActiveTargets

\* CommitFrameBatch hands over the targets whose copy is complete.
LEMMA CommitEffect ==
  ASSUME TypeOK, CommitFrameBatch
  PROVE  \E D \in SUBSET ActiveTargets(capture.b) :
           /\ capture.b \in Batches /\ capture.pc = "published" /\ capture' = Idle /\ gpu' = gpu
           /\ DetachStep(capture.b, D, "capture")
           /\ \A s \in D : batch[capture.b].targets[s].published
           /\ \A s \in ActiveTargets(capture.b) \ D :
                \/ batch'[capture.b].targets[s] = batch[capture.b].targets[s]
                \/ /\ batch[capture.b].targets[s].published
                   /\ batch'[capture.b].targets[s].completionPending =
                        batch[capture.b].targets[s].completionPending
<1> DEFINE b == capture.b
           ts == batch[b].targets
           P == {s \in Sinks : ts[s].active /\ ts[s].published}
           D == {s \in P : ts[s].completionPending /\ Detachable(b, s)}
           cs == [s \in Sinks |-> IF s \in P THEN [ts[s] EXCEPT !.committed = TRUE] ELSE ts[s]]
           us == Inactive(cs, D)
<1>1. b \in Batches /\ capture.pc = "published"
  BY CaptureBatch, ZenonT(60) DEF CommitFrameBatch, CaptureAt
<1>2. /\ capture' = Idle /\ Detached(b, D) /\ calls' = calls \cup FillCalls(b, D, "capture")
      /\ batch' = [batch EXCEPT ![b] = IF ~batch[b].active THEN @ ELSE WithTargets(b, us)]
      /\ UNCHANGED <<active, target, epoch, outstanding, drained, content, unbind,
                     bound, contentOf, serial, gpu, held, history>>
  BY DEF CommitFrameBatch
<1>3. ts \in [Sinks -> TargetRec] /\ batch \in [Batches -> BatchRec]
  BY <1>1 DEF TypeOK, Types, BatchType, BatchRec
<1>4. D \subseteq ActiveTargets(b) /\ \A s \in D : Detachable(b, s) /\ ts[s].published
  BY DEF ActiveTargets
<1>5. CASE ~batch[b].active
  <2>1. batch' = batch
    BY <1>2, <1>3, <1>5
  <2>2. ActiveTargets(b) = {} /\ D = {}
    BY <1>1, <1>4, <1>5, FreeBatch
  <2>3. \A s \in Sinks : ~batch'[b].targets[s].active
    BY <1>1, <2>1, <2>2, FreeBatch, Zenon
  <2> HIDE DEF D
  <2>4. DetachStep(b, D, "capture")
    BY <1>2, <1>4, <2>1, <2>2, <2>3, SameNarrowed, Zenon DEF DetachStep, history
  <2> QED BY <1>1, <1>2, <1>4, <2>2, <2>4, ZenonT(60)
<1>6. CASE batch[b].active
  <2>1. batch' = [batch EXCEPT ![b] = WithTargets(b, us)]
    BY <1>2, <1>6, ZenonT(60)
  <2>2. ASSUME NEW s \in Sinks
        PROVE  /\ cs[s] \in TargetRec /\ cs[s].active = ts[s].active /\ cs[s].lane = ts[s].lane
               /\ cs[s].epoch = ts[s].epoch /\ cs[s].published = ts[s].published
               /\ cs[s].completionPending = ts[s].completionPending
               /\ cs[s] = ts[s] \/ ts[s].published
    <3>1. PICK t \in TargetRec : t = ts[s]
      BY <1>3, ZenonT(60)
    <3>2. CASE s \in P
      <4>1. cs[s] = [t EXCEPT !.committed = TRUE]
        BY <3>1, <3>2
      <4>2. LET u == [t EXCEPT !.committed = TRUE] IN
              /\ u \in TargetRec /\ u.active = t.active /\ u.lane = t.lane /\ u.epoch = t.epoch
              /\ u.published = t.published /\ u.completionPending = t.completionPending
        BY DEF TargetRec
      <4> QED BY <3>1, <3>2, <4>1, <4>2
    <3>3. CASE s \notin P
      BY <3>1, <3>3
    <3> QED BY <3>2, <3>3
  <2>3. cs \in [Sinks -> TargetRec]
    BY <2>2
  <2>4. /\ us \in [Sinks -> TargetRec]
        /\ \A s \in Sinks : /\ s \in D => us[s].active = FALSE
                            /\ s \notin D => us[s] = cs[s]
    <3> HIDE DEF cs, D
    <3> QED BY <2>3, InactiveFact
  <2>5. \A s \in Sinks : us[s].active =>
           /\ batch[b].targets[s].active
           /\ us[s].lane = batch[b].targets[s].lane
           /\ us[s].epoch = batch[b].targets[s].epoch
    <3> HIDE DEF us, cs, D
    <3> QED BY <2>2, <2>4
  <2>6. /\ Narrowed /\ \A a \in Batches : a # b => batch'[a] = batch[a]
        /\ \A s \in Sinks : batch'[b].targets[s].active = us[s].active
        /\ \A s \in Sinks : us[s].active => batch'[b].targets[s] = us[s]
    <3> HIDE DEF us, b
    <3>1. /\ Narrowed
          /\ \A a \in Batches : a # b => batch'[a] = batch[a]
          /\ \A s \in Sinks : /\ batch'[b].targets[s].active = us[s].active
                              /\ us[s].active => batch'[b].targets[s] = us[s] /\ batch'[b].n = batch[b].n
      BY <1>1, <2>1, <2>4, <2>5, WithTargetsFact
    <3> QED BY <3>1
  <2>7. \A s \in Sinks : ts[s].active <=> s \in ActiveTargets(b)
    BY <1>1, FreeBatch
  <2>8. \A s \in Sinks : us[s].active <=> s \in ActiveTargets(b) \ D
    <3> HIDE DEF us, cs, D, ts, b
    <3> QED BY <2>2, <2>4, <2>7
  <2>9. \A s \in ActiveTargets(b) \ D :
          /\ batch'[b].targets[s] = us[s] /\ us[s] = cs[s]
    <3>1. ActiveTargets(b) \subseteq Sinks
      BY DEF ActiveTargets
    <3> HIDE DEF us, cs, D, ts, b
    <3> QED BY <2>4, <2>6, <2>8, <3>1
  <2>10. \A s \in ActiveTargets(b) \ D :
           /\ batch'[b].targets[s].published = ts[s].published
           /\ \/ batch'[b].targets[s] = ts[s]
              \/ ts[s].published /\ batch'[b].targets[s].completionPending = ts[s].completionPending
    <3>1. ActiveTargets(b) \subseteq Sinks
      BY DEF ActiveTargets
    <3> HIDE DEF us, cs, D, ts, b
    <3> QED BY <2>2, <2>9, <3>1, SMT
  <2>11. \A s \in Sinks : batch'[b].targets[s].active <=> s \in ActiveTargets(b) \ D
    BY <2>6, <2>8, Zenon
  <2> HIDE DEF us, cs, D
  <2>12. DetachStep(b, D, "capture")
    BY <1>2, <1>4, <2>6, <2>10, <2>11 DEF DetachStep, history
  <2> QED BY <1>1, <1>2, <1>4, <2>10, <2>12, SMT
<1> QED BY <1>5, <1>6, Zenon

\* CompleteFrameTarget hands over a committed target, and marks another one.
LEMMA CompleteTargetEffect ==
  ASSUME TypeOK, NEW b \in Batches, NEW r \in Sinks, CompleteFrameTarget(b, r)
  PROVE  \E D \in SUBSET ActiveTargets(b) :
           /\ DetachStep(b, D, "gpu") /\ capture' = capture /\ gpu' \in [Batches -> CopyRec]
           /\ \A s \in D : batch[b].targets[s].committed
           /\ \A s \in ActiveTargets(b) \ D :
                \/ batch'[b].targets[s] = batch[b].targets[s]
                \/ s = r /\ batch[b].n = gpu[b].n
                   /\ batch'[b].targets[s].committed = batch[b].targets[s].committed
           /\ r \in gpu[b].todo
           /\ \A a \in Batches : a # b => gpu'[a] = gpu[a]
           /\ gpu'[b].todo \subseteq gpu[b].todo /\ r \notin gpu'[b].todo
           /\ gpu'[b].todo # {} => gpu'[b].n = gpu[b].n
<1> DEFINE ts == batch[b].targets
           t == ts[r]
           valid == batch[b].active /\ batch[b].n = gpu[b].n /\ t.active
           D == IF valid /\ t.committed /\ Detachable(b, r) THEN {r} ELSE {}
           us == Inactive(ts, D)
           g == IF gpu[b].todo = {r} THEN NoCopy ELSE [gpu[b] EXCEPT !.todo = @ \ {r}, !.started = TRUE]
<1>1. /\ capture' = capture /\ r \in gpu[b].todo
      /\ UNCHANGED <<active, target, epoch, outstanding, drained, content, unbind,
                     bound, contentOf, serial, held, life, told, ended>>
      /\ Detached(b, D) /\ calls' = calls \cup FillCalls(b, D, "gpu")
  BY DEF CompleteFrameTarget, history
<1>2. gpu' = [gpu EXCEPT ![b] = g]
  BY DEF CompleteFrameTarget
<1>3. ts \in [Sinks -> TargetRec] /\ batch \in [Batches -> BatchRec] /\ gpu \in [Batches -> CopyRec]
  BY DEF TypeOK, Types, BatchType, BatchRec
<1>4. D \subseteq ActiveTargets(b) /\ \A s \in D : Detachable(b, s) /\ ts[s].committed
  BY DEF ActiveTargets
<1>5. \A s \in Sinks : ts[s].active <=> s \in ActiveTargets(b)
  BY FreeBatch
<1>6. g \in CopyRec /\ g.todo \subseteq gpu[b].todo /\ r \notin g.todo /\ (g.todo # {} => g.n = gpu[b].n)
  <2>1. PICK x \in CopyRec : x = gpu[b]
    BY <1>3
  <2>2. CASE x.todo = {r}
    <3>1. NoCopy.todo = {}
      BY DEF NoCopy
    <3> QED BY <2>1, <2>2, <3>1, DefaultsType
  <2>3. CASE x.todo # {r}
    <3>1. g = [x EXCEPT !.todo = x.todo \ {r}, !.started = TRUE]
      BY <2>1, <2>3
    <3>2. /\ [x EXCEPT !.todo = x.todo \ {r}, !.started = TRUE] \in CopyRec
          /\ [x EXCEPT !.todo = x.todo \ {r}, !.started = TRUE].todo = x.todo \ {r}
          /\ [x EXCEPT !.todo = x.todo \ {r}, !.started = TRUE].n = x.n
      BY DEF CopyRec
    <3> QED BY <2>1, <3>1, <3>2
  <2> QED BY <2>2, <2>3
<1>7. /\ gpu' \in [Batches -> CopyRec] /\ \A a \in Batches : a # b => gpu'[a] = gpu[a]
      /\ gpu'[b].todo \subseteq gpu[b].todo /\ r \notin gpu'[b].todo
      /\ gpu'[b].todo # {} => gpu'[b].n = gpu[b].n
  <2> HIDE DEF g
  <2> QED BY <1>2, <1>3, <1>6
<1>8. CASE valid /\ ~t.committed
  <2>1. D = {}
    BY <1>8
  <2>2. batch' = [batch EXCEPT ![b].targets[r].completionPending = TRUE]
    BY <1>8 DEF CompleteFrameTarget
  <2>3. \A a \in Batches : a # b => batch'[a] = batch[a]
    BY <1>3, <2>2
  <2> DEFINE tr == [t EXCEPT !.completionPending = TRUE]
             tt == [ts EXCEPT ![r] = tr]
  <2>4. batch'[b] = [batch[b] EXCEPT !.targets = tt]
    BY <1>3, <2>2
  <2>5. /\ tr \in TargetRec /\ tr.active = t.active /\ tr.lane = t.lane /\ tr.epoch = t.epoch
        /\ tr.published = t.published /\ tr.committed = t.committed
    <3>1. PICK x \in TargetRec : x = t
      BY <1>3
    <3> QED BY <3>1 DEF TargetRec
  <2> HIDE DEF tr
  <2>6. tt \in [Sinks -> TargetRec] /\ \A s \in Sinks : tt[s] = IF s = r THEN tr ELSE ts[s]
    BY <1>3, <2>5
  <2> HIDE DEF tt
  <2>7. batch'[b] \in BatchRec /\ batch'[b].targets = tt /\ batch'[b].active = batch[b].active
        /\ batch'[b].n = batch[b].n
    <3>1. PICK x \in BatchRec : x = batch[b]
      BY <1>3
    <3> QED BY <2>4, <2>6, <3>1 DEF BatchRec
  <2>8. batch' \in [Batches -> BatchRec]
    BY <1>3, <2>2, <2>3, <2>7
  <2>9. \A s \in Sinks : /\ batch'[b].targets[s].active = ts[s].active
                         /\ batch'[b].targets[s].lane = ts[s].lane /\ batch'[b].targets[s].epoch = ts[s].epoch
                         /\ batch'[b].targets[s].published = ts[s].published
                         /\ \/ batch'[b].targets[s] = ts[s]
                            \/ /\ s = r /\ batch[b].n = gpu[b].n
                               /\ batch'[b].targets[s].committed = ts[s].committed
    BY <1>8, <2>5, <2>6, <2>7
  <2>10. Narrowed
    <3>1. \A a \in Batches, s \in Sinks : batch[a].targets[s].active => batch[a].active
      BY DEF TypeOK, Shape
    <3> HIDE DEF ts
    <3>2. ASSUME NEW a \in Batches
          PROVE  /\ batch'[a].active => batch[a].active /\ batch'[a].n = batch[a].n
                 /\ \A s \in Sinks : batch'[a].targets[s].active =>
                      /\ batch[a].targets[s].active /\ batch'[a].active
                      /\ batch'[a].targets[s].lane = batch[a].targets[s].lane
                      /\ batch'[a].targets[s].epoch = batch[a].targets[s].epoch
      <4>1. CASE a = b
        BY <2>7, <2>9, <3>1, <4>1 DEF ts
      <4>2. CASE a # b
        BY <2>3, <3>1, <4>2
      <4> QED BY <4>1, <4>2
    <3> QED BY <2>8, <3>2 DEF Narrowed
  <2> HIDE DEF D
  <2>11. ActiveTargets(b) \subseteq Sinks
    BY DEF ActiveTargets
  <2>12. DetachStep(b, D, "gpu")
    BY <1>1, <1>4, <1>5, <2>1, <2>3, <2>9, <2>10, <2>11, Zenon DEF DetachStep
  <2> QED BY <1>1, <1>4, <1>7, <2>9, <2>11, <2>12
<1>9. CASE ~(valid /\ ~t.committed) /\ D = {}
  <2>1. batch' = batch
    BY <1>3, <1>9 DEF CompleteFrameTarget
  <2> HIDE DEF D
  <2>2. DetachStep(b, D, "gpu")
    BY <1>1, <1>4, <1>5, <1>9, <2>1, SameNarrowed DEF DetachStep
  <2> QED BY <1>1, <1>4, <1>7, <2>1, <2>2, SMTT(60)
<1>10. CASE ~(valid /\ ~t.committed) /\ D # {}
  <2>1. batch' = [batch EXCEPT ![b] = WithTargets(b, us)]
    BY <1>10 DEF CompleteFrameTarget
  <2>2. /\ us \in [Sinks -> TargetRec]
        /\ \A s \in Sinks : /\ s \in D => us[s].active = FALSE
                            /\ s \notin D => us[s] = ts[s]
    <3> HIDE DEF ts, D
    <3> QED BY <1>3, InactiveFact
  <2> HIDE DEF us, D
  <2>3. \A s \in Sinks : us[s].active =>
           /\ batch[b].targets[s].active
           /\ us[s].lane = batch[b].targets[s].lane
           /\ us[s].epoch = batch[b].targets[s].epoch
    BY <2>2
  <2>4. /\ Narrowed /\ \A a \in Batches : a # b => batch'[a] = batch[a]
        /\ \A s \in Sinks : batch'[b].targets[s].active = us[s].active
        /\ \A s \in Sinks : us[s].active => batch'[b].targets[s] = us[s]
    <3>1. /\ Narrowed
          /\ \A a \in Batches : a # b => batch'[a] = batch[a]
          /\ \A s \in Sinks : /\ batch'[b].targets[s].active = us[s].active
                              /\ us[s].active => batch'[b].targets[s] = us[s] /\ batch'[b].n = batch[b].n
      BY <2>1, <2>2, <2>3, WithTargetsFact
    <3> QED BY <3>1
  <2>5. \A s \in Sinks : batch'[b].targets[s].active <=> s \in ActiveTargets(b) \ D
    BY <1>5, <2>2, <2>4
  <2>6. \A s \in ActiveTargets(b) \ D : batch'[b].targets[s] = ts[s]
    <3>1. ActiveTargets(b) \subseteq Sinks
      BY DEF ActiveTargets
    <3> QED BY <2>2, <2>4, <2>5, <3>1
  <2>7. DetachStep(b, D, "gpu")
    BY <1>1, <1>4, <2>4, <2>5, <2>6 DEF DetachStep
  <2> QED BY <1>1, <1>4, <1>7, <2>6, <2>7, SMTT(60)
<1> QED BY <1>8, <1>9, <1>10

\* Handing lanes over keeps the types.
LEMMA DetachStepType ==
  ASSUME TypeOK, NEW b \in Batches, NEW D \in SUBSET ActiveTargets(b), NEW who \in {"capture", "gpu"},
         DetachStep(b, D, who), capture' \in {Idle, capture}, gpu' \in [Batches -> CopyRec]
  PROVE  TypeOK'
<1>1. LaneType' /\ calls' \subseteq CallRec
      /\ \A s \in Sinks, l \in Lanes : lane'[s][l].n = 0 => lane'[s][l].phase = "IDLE"
  BY DetachedFact DEF DetachStep
<1>2. CaptureType'
  BY DefaultsType DEF TypeOK, Types, CaptureType
<1>3. SinkType' /\ content' \in [Sinks -> ContentRec] /\ HistoryType'
  BY DEF DetachStep, TypeOK, Types, SinkType, ContentType, HistoryType
<1>4. Narrowed /\ UNCHANGED <<contentOf, serial, held, ended>>
  BY DEF DetachStep
<1> QED BY <1>1, <1>2, <1>3, <1>4, BatchStepType

\* CommitFrameBatch keeps the types.
LEMMA CommitType == ASSUME TypeOK, CommitFrameBatch PROVE TypeOK'
<1>1. PICK D \in SUBSET ActiveTargets(capture.b) :
           /\ capture.b \in Batches /\ capture' = Idle /\ gpu' = gpu
           /\ DetachStep(capture.b, D, "capture")
  BY CommitEffect
<1>2. gpu' \in [Batches -> CopyRec]
  BY <1>1 DEF TypeOK, Types, BatchType
<1> QED BY <1>1, <1>2, DetachStepType

\* CompleteFrameTarget keeps the types.
LEMMA CompleteTargetType ==
  ASSUME TypeOK, NEW b \in Batches, NEW s \in Sinks, CompleteFrameTarget(b, s) PROVE TypeOK'
<1>1. PICK D \in SUBSET ActiveTargets(b) :
           DetachStep(b, D, "gpu") /\ capture' = capture /\ gpu' \in [Batches -> CopyRec]
  BY CompleteTargetEffect
<1> QED BY <1>1, DetachStepType

\* A step that leaves the batches alone.
LEMMA SinkStepType ==
  ASSUME TypeOK, SinkType', ContentType', LaneType', CaptureType', CallType', HistoryType',
         UNCHANGED <<batch, gpu, contentOf, serial>>,
         \A s \in Sinks, l \in Lanes : lane'[s][l].n = 0 => lane'[s][l].phase = "IDLE"
  PROVE  TypeOK'
<1>1. BatchType'
  BY DEF TypeOK, Types, BatchType
<1>2. Shape'
  BY DEF TypeOK, Shape
<1> QED BY <1>1, <1>2 DEF TypeOK, Types

\* Bind keeps the types.
LEMMA BindType == ASSUME TypeOK, NEW s \in Sinks, Bind(s) PROVE TypeOK'
<1>1. SinkType'
  <2>1. bound[s] + 1 \in Nat /\ bound'[s] = bound[s] + 1
    BY DEF Bind, TypeOK, Types, SinkType
  <2> QED BY <2>1 DEF Bind, TypeOK, Types, SinkType
<1>2. ContentType'
  BY DefaultsType DEF Bind, TypeOK, Types, ContentType
<1>3. [l \in Lanes |-> NoLane] \in [Lanes -> LaneRec]
  BY DefaultsType
<1>4. LaneType'
  BY <1>3 DEF Bind, TypeOK, Types, LaneType
<1>5. CaptureType' /\ CallType' /\ HistoryType' /\ UNCHANGED <<batch, gpu, contentOf, serial>>
  BY DEF Bind, TypeOK, Types, CaptureType, CallType, HistoryType
<1>6. ASSUME NEW r \in Sinks, NEW l \in Lanes PROVE lane'[r][l].n = 0 => lane'[r][l].phase = "IDLE"
  <2>1. NoLane.phase = "IDLE" /\ NoLane.n = 0
    BY DEF NoLane
  <2>2. lane'[r][l] = IF r = s THEN NoLane ELSE lane[r][l]
    BY DEF Bind, TypeOK, Types, LaneType
  <2> QED BY <2>1, <2>2 DEF TypeOK, Shape
<1> QED BY <1>1, <1>2, <1>4, <1>5, <1>6, SinkStepType

\* The first step of Unbind keeps the types.
LEMMA UnbindBeginType == ASSUME TypeOK, NEW s \in Sinks, UnbindBegin(s) PROVE TypeOK'
<1>1. SinkType' /\ ContentType' /\ LaneType' /\ CaptureType' /\ CallType' /\ HistoryType'
      /\ UNCHANGED <<batch, gpu, contentOf, serial>>
  BY DEF UnbindBegin, TypeOK, Types, SinkType, ContentType, LaneType, CaptureType, CallType, HistoryType,
         history
<1>2. \A r \in Sinks, l \in Lanes : lane'[r][l].n = 0 => lane'[r][l].phase = "IDLE"
  BY DEF UnbindBegin, TypeOK, Shape
<1> QED BY <1>1, <1>2, SinkStepType

\* UnbindScan marks lanes and keeps what else they hold.
LEMMA UnbindScanEffect ==
  ASSUME TypeOK, NEW s \in Sinks, UnbindScan(s)
  PROVE  /\ LaneType'
         /\ \A r \in Sinks, l \in Lanes :
              /\ lane'[r][l].phase = lane[r][l].phase /\ lane'[r][l].n = lane[r][l].n
              /\ lane'[r][l].busy = lane[r][l].busy /\ lane'[r][l].result = lane[r][l].result
              /\ lane'[r][l].callActive = lane[r][l].callActive
<1>1. ASSUME NEW ln \in LaneRec
      PROVE  LET v == [ln EXCEPT !.cancelRequested = TRUE] IN
             /\ v \in LaneRec /\ v.phase = ln.phase /\ v.n = ln.n /\ v.busy = ln.busy
             /\ v.result = ln.result /\ v.callActive = ln.callActive
  BY DEF LaneRec
<1> DEFINE mark(l) == IF lane[s][l].phase = "FILLING"
                        THEN [lane[s][l] EXCEPT !.cancelRequested = TRUE] ELSE lane[s][l]
<1>2. lane' = [lane EXCEPT ![s] = [l \in Lanes |-> mark(l)]]
  BY DEF UnbindScan
<1>3. lane \in [Sinks -> [Lanes -> LaneRec]]
  BY DEF TypeOK, Types, LaneType
<1>4. ASSUME NEW l \in Lanes
      PROVE  /\ mark(l) \in LaneRec /\ mark(l).phase = lane[s][l].phase /\ mark(l).n = lane[s][l].n
             /\ mark(l).busy = lane[s][l].busy /\ mark(l).result = lane[s][l].result
             /\ mark(l).callActive = lane[s][l].callActive
  <2>1. lane[s][l] \in LaneRec
    BY <1>3
  <2> QED BY <1>1, <2>1
<1> HIDE DEF mark
<1>5. LaneType'
  BY <1>2, <1>3, <1>4 DEF LaneType
<1>6. \A r \in Sinks, l \in Lanes : lane'[r][l] = IF r = s THEN mark(l) ELSE lane[r][l]
  BY <1>2, <1>3
<1> QED BY <1>4, <1>5, <1>6

\* The scan of Unbind keeps the types.
LEMMA UnbindScanType == ASSUME TypeOK, NEW s \in Sinks, UnbindScan(s) PROVE TypeOK'
<1>1. SinkType' /\ ContentType' /\ CaptureType' /\ HistoryType' /\ held' = held
      /\ UNCHANGED <<batch, gpu, contentOf, serial>>
  BY DEF UnbindScan, TypeOK, Types, SinkType, ContentType, CaptureType, HistoryType, history
<1>2. LaneType' /\ \A r \in Sinks, l \in Lanes : lane'[r][l].n = 0 => lane'[r][l].phase = "IDLE"
  BY UnbindScanEffect DEF TypeOK, Shape
<1>3. \A l \in Lanes : lane[s][l].phase = "PENDING" => lane[s][l].n \in Serials
  <2>1. \A l \in Lanes : lane[s][l] \in LaneRec
    BY DEF TypeOK, Types, LaneType
  <2>2. \A l \in Lanes : lane[s][l].n \in 0..MaxSerial
    BY <2>1 DEF LaneRec
  <2>3. \A l \in Lanes : lane[s][l].phase = "PENDING" => lane[s][l].n # 0
    BY DEF TypeOK, Shape
  <2> QED BY <2>2, <2>3, HubAssumption DEF Serials
<1>4. epoch[s] \in Nat
  BY DEF TypeOK, Types, SinkType
<1>5. \A l \in Lanes : lane[s][l].phase = "PENDING" =>
        [by |-> "unbind", pc |-> "cancel", s |-> s, l |-> l, n |-> lane[s][l].n,
         epoch |-> epoch[s], result |-> "none"] \in CallRec
  BY <1>3, <1>4 DEF CallRec, CallPcs
<1>6. calls' = calls \cup
       {[by |-> "unbind", pc |-> "cancel", s |-> s, l |-> l, n |-> lane[s][l].n,
         epoch |-> epoch[s], result |-> "none"] :
          l \in {k \in Lanes : lane[s][k].phase = "PENDING"}}
  BY DEF UnbindScan
<1>7. CallType'
  BY <1>1, <1>5, <1>6 DEF TypeOK, Types, CallType
<1> QED BY <1>1, <1>2, <1>7, SinkStepType

\* The last step of Unbind keeps the types.
LEMMA UnbindFinishType == ASSUME TypeOK, NEW s \in Sinks, UnbindFinish(s) PROVE TypeOK'
<1>1. SinkType' /\ CaptureType' /\ HistoryType' /\ CallType' /\ UNCHANGED <<batch, gpu, contentOf, serial>>
  BY DEF UnbindFinish, TypeOK, Types, SinkType, CaptureType, HistoryType, CallType, history
<1>2. ContentType'
  BY DefaultsType DEF UnbindFinish, TypeOK, Types, ContentType, history
<1>3. [l \in Lanes |-> NoLane] \in [Lanes -> LaneRec]
  BY DefaultsType
<1>4. LaneType'
  BY <1>3 DEF UnbindFinish, TypeOK, Types, LaneType
<1>5. ASSUME NEW r \in Sinks, NEW l \in Lanes PROVE lane'[r][l].n = 0 => lane'[r][l].phase = "IDLE"
  <2>1. NoLane.phase = "IDLE" /\ NoLane.n = 0
    BY DEF NoLane
  <2>2. lane'[r][l] = IF r = s THEN NoLane ELSE lane[r][l]
    BY DEF UnbindFinish, TypeOK, Types, LaneType
  <2> QED BY <2>1, <2>2 DEF TypeOK, Shape
<1> QED BY <1>1, <1>2, <1>4, <1>5, SinkStepType

\* Planning changes the capture thread's place only.
LEMMA PlanType == ASSUME TypeOK, GetFramePlan \/ PrepareFailed PROVE TypeOK'
<1>1. CASE PrepareFailed
  <2>1. SinkType' /\ ContentType' /\ LaneType' /\ CallType' /\ HistoryType'
        /\ UNCHANGED <<batch, gpu, contentOf, serial, lane>>
    BY <1>1 DEF PrepareFailed, hubVars, history, TypeOK, Types, SinkType, ContentType, LaneType, CallType,
                HistoryType
  <2>2. CaptureType'
    BY <1>1, DefaultsType, ZenonT(60) DEF PrepareFailed, CaptureType
  <2> QED BY <2>1, <2>2, SinkStepType DEF TypeOK, Shape
<1>2. CASE GetFramePlan
  <2>1. SinkType' /\ ContentType' /\ LaneType' /\ CallType' /\ HistoryType'
        /\ UNCHANGED <<batch, gpu, contentOf, serial, lane>>
    BY <1>2 DEF GetFramePlan, hubVars, history, TypeOK, Types, SinkType, ContentType, LaneType, CallType,
                HistoryType
  <2>2. CaptureType'
    <3>1. PICK S \in SUBSET Sinks : capture' = IF S = {} THEN capture
            ELSE [capture EXCEPT !.pc = "planned",
                    !.plan = [s \in Sinks |-> IF s \in S THEN epoch[s] ELSE 0]]
      BY <1>2 DEF GetFramePlan
    <3>2. [s \in Sinks |-> IF s \in S THEN epoch[s] ELSE 0] \in [Sinks -> Nat]
      BY DEF TypeOK, Types, SinkType
    <3>3. capture \in CaptureRec
      BY DEF TypeOK, Types, CaptureType
    <3> DEFINE v == [capture EXCEPT !.pc = "planned",
                       !.plan = [s \in Sinks |-> IF s \in S THEN epoch[s] ELSE 0]]
    <3>4. v \in CaptureRec /\ v.pc = "planned"
      BY <3>2, <3>3 DEF CaptureRec
    <3> HIDE DEF v
    <3> QED BY <3>1, <3>4, ZenonT(60) DEF CaptureType, TypeOK, Types, v
  <2> QED BY <2>1, <2>2, SinkStepType DEF TypeOK, Shape
<1> QED BY <1>1, <1>2

\* What PrepareFrameBatch does to the sinks S.
Prepared(b, S, lanes, d) ==
  /\ capture.pc = "planned" /\ capture' \in CaptureRec /\ capture'.pc = "prepared" /\ capture'.b = b
  /\ serial' = serial + 1 /\ serial' \in Serials /\ ~batch[b].active
  /\ contentOf' = [contentOf EXCEPT ![serial'] = d]
  /\ \A s \in S : active[s] /\ target[s] /\ epoch[s] = capture.plan[s] /\ ~lane[s][lanes[s]].busy
  /\ batch' \in [Batches -> BatchRec]
  /\ \A a \in Batches : a # b => batch'[a] = batch[a]
  /\ batch'[b].active /\ batch'[b].n = serial'
  /\ \A s \in Sinks : batch'[b].targets[s].active <=> s \in S
  /\ \A s \in S : LET t == batch'[b].targets[s] IN
       /\ t.epoch = epoch[s] /\ t.lane = lanes[s] /\ t.full = ForceFull(s, d)
       /\ ~t.published /\ ~t.committed /\ ~t.completionPending
  /\ LaneType'
  /\ \A s \in Sinks, l \in Lanes :
       /\ s \in S /\ l = lanes[s] =>
            /\ lane'[s][l].busy /\ lane'[s][l].phase = "IDLE" /\ lane'[s][l].n = lane[s][l].n
       /\ ~(s \in S /\ l = lanes[s]) => lane'[s][l] = lane[s][l]
  /\ outstanding' \in [Sinks -> Int] /\ drained' \in [Sinks -> BOOLEAN]
  /\ \A s \in Sinks : outstanding'[s] = IF s \in S THEN outstanding[s] + 1 ELSE outstanding[s]
  /\ life' \in [Sinks -> [Serials -> Lives]]
  /\ \A s \in Sinks, n \in Serials :
       /\ s \in S /\ n = serial' => life'[s][n] = Told(s, n, "none", "prepared")
       /\ ~(s \in S /\ n = serial') => life'[s][n] = life[s][n]
  /\ UNCHANGED <<active, target, epoch, content, unbind, bound, gpu, calls, held, told, ended>>

\* PrepareFrameBatch does to the sinks what Prepared says.
LEMMA PrepareEffect ==
  ASSUME TypeOK, NEW b \in Batches, NEW S \in SUBSET Sinks, NEW lanes \in [Sinks -> Lanes], NEW d \in Nat,
         PrepareFrameBatch(b, S, lanes, d)
  PROVE  Prepared(b, S, lanes, d)
<1>1. /\ capture.pc = "planned" /\ serial < MaxSerial /\ serial' = serial + 1 /\ ~batch[b].active
      /\ contentOf' = [contentOf EXCEPT ![serial'] = d]
      /\ UNCHANGED <<active, target, epoch, content, unbind, bound, gpu, calls, held, told, ended>>
      /\ \A s \in S : active[s] /\ target[s] /\ epoch[s] = capture.plan[s] /\ ~lane[s][lanes[s]].busy
  BY DEF PrepareFrameBatch, CaptureAt, PlanValid
<1>2. serial' \in Serials /\ serial' \in 0..MaxSerial
  BY <1>1, HubAssumption DEF TypeOK, Types, BatchType, Serials
<1>3. capture' \in CaptureRec /\ capture'.pc = "prepared" /\ capture'.b = b
  <2>1. b \in 0..NBatches
    BY HubAssumption DEF Batches
  <2>2. PICK x \in CaptureRec : x = Idle
    BY DefaultsType
  <2>3. capture' = [x EXCEPT !.pc = "prepared", !.b = b]
    BY <2>2 DEF PrepareFrameBatch
  <2> QED BY <2>1, <2>3 DEF CaptureRec
<1> DEFINE tt(s) == [NoTarget EXCEPT !.active = TRUE, !.epoch = capture.plan[s],
                       !.lane = lanes[s], !.full = ForceFull(s, d)]
           ts == [s \in Sinks |-> IF s \in S THEN tt(s) ELSE NoTarget]
           bt == [active |-> TRUE, n |-> serial', targets |-> ts]
<1>4. batch' = [batch EXCEPT ![b] = bt]
  BY DEF PrepareFrameBatch
<1>5. ASSUME NEW s \in S
      PROVE  /\ tt(s) \in TargetRec /\ tt(s).active /\ tt(s).epoch = epoch[s] /\ tt(s).lane = lanes[s]
             /\ tt(s).full = ForceFull(s, d) /\ ~tt(s).published /\ ~tt(s).committed
             /\ ~tt(s).completionPending
  <2>1. PICK x \in TargetRec : x = NoTarget
    BY DefaultsType
  <2>2. ~x.published /\ ~x.committed /\ ~x.completionPending
    BY <2>1 DEF NoTarget
  <2>3. capture.plan[s] = epoch[s] /\ epoch[s] \in Nat
    BY <1>1 DEF TypeOK, Types, SinkType
  <2>4. ForceFull(s, d) \in BOOLEAN
    BY DEF ForceFull, TypeOK, Types, ContentType, ContentRec
  <2>5. tt(s) = [x EXCEPT !.active = TRUE, !.epoch = epoch[s], !.lane = lanes[s], !.full = ForceFull(s, d)]
    BY <2>1, <2>3
  <2> HIDE DEF tt
  <2>6. lanes[s] \in Lanes
    OBVIOUS
  <2> QED BY <2>2, <2>3, <2>4, <2>5, <2>6 DEF TargetRec
<1>6. ~NoTarget.active
  BY DEF NoTarget
<1> HIDE DEF tt
<1>7. ts \in [Sinks -> TargetRec] /\ \A s \in Sinks : ts[s] = IF s \in S THEN tt(s) ELSE NoTarget
  BY <1>5, DefaultsType
<1> HIDE DEF ts
<1>8. bt \in BatchRec /\ bt.active /\ bt.n = serial' /\ bt.targets = ts
  BY <1>2, <1>7 DEF BatchRec
<1> HIDE DEF bt
<1>9. /\ batch' \in [Batches -> BatchRec] /\ batch'[b] = bt
      /\ \A a \in Batches : a # b => batch'[a] = batch[a]
  BY <1>4, <1>8 DEF TypeOK, Types, BatchType
<1>10. \A s \in Sinks : batch'[b].targets[s].active <=> s \in S
  BY <1>5, <1>6, <1>7, <1>8, <1>9
<1>11. \A s \in S : LET t == batch'[b].targets[s] IN
              /\ t.epoch = epoch[s] /\ t.lane = lanes[s] /\ t.full = ForceFull(s, d)
              /\ ~t.published /\ ~t.committed /\ ~t.completionPending
  BY <1>5, <1>7, <1>8, <1>9
<1>12. lane' = [s \in Sinks |-> [l \in Lanes |->
       IF s \in S /\ l = lanes[s]
         THEN [lane[s][l] EXCEPT !.busy = TRUE, !.phase = "IDLE"]
         ELSE lane[s][l]]]
  BY DEF PrepareFrameBatch
<1>13. ASSUME NEW s \in Sinks, NEW l \in Lanes
       PROVE  /\ lane'[s][l] \in LaneRec
              /\ s \in S /\ l = lanes[s] =>
                   /\ lane'[s][l].busy /\ lane'[s][l].phase = "IDLE" /\ lane'[s][l].n = lane[s][l].n
              /\ ~(s \in S /\ l = lanes[s]) => lane'[s][l] = lane[s][l]
  <2>1. PICK ln \in LaneRec : ln = lane[s][l]
    BY DEF TypeOK, Types, LaneType
  <2> DEFINE v == [ln EXCEPT !.busy = TRUE, !.phase = "IDLE"]
  <2>2. lane'[s][l] = IF s \in S /\ l = lanes[s] THEN v ELSE ln
    BY <1>12, <2>1
  <2>3. v \in LaneRec /\ v.busy /\ v.phase = "IDLE" /\ v.n = ln.n
    BY DEF LaneRec, Phases
  <2> HIDE DEF v
  <2> QED BY <2>1, <2>2, <2>3
<1>14. LaneType'
  <2>1. lane' = [s \in Sinks |-> [l \in Lanes |-> lane'[s][l]]]
    BY <1>12
  <2> QED BY <1>13, <2>1 DEF LaneType
<1>15. /\ outstanding' \in [Sinks -> Int] /\ drained' \in [Sinks -> BOOLEAN]
       /\ \A s \in Sinks : outstanding'[s] = IF s \in S THEN outstanding[s] + 1 ELSE outstanding[s]
  <2>1. /\ outstanding' = [s \in Sinks |-> IF s \in S THEN outstanding[s] + 1 ELSE outstanding[s]]
        /\ drained' = [s \in Sinks |-> drained[s] /\ ~(s \in S /\ outstanding[s] = 0)]
    BY DEF PrepareFrameBatch
  <2> QED BY <2>1 DEF TypeOK, Types, SinkType
<1>16. life' = [s \in Sinks |-> IF s \in S
       THEN [life[s] EXCEPT ![serial'] =
               BatchTold(s, serial', capture.plan[s], "none", "prepared")]
       ELSE life[s]]
  BY DEF PrepareFrameBatch
<1>17. ASSUME NEW s \in Sinks
       PROVE  /\ life'[s] \in [Serials -> Lives]
              /\ \A n \in Serials :
                   /\ s \in S /\ n = serial' => life'[s][n] = Told(s, n, "none", "prepared")
                   /\ ~(s \in S /\ n = serial') => life'[s][n] = life[s][n]
  <2>1. life[s] \in [Serials -> Lives]
    BY DEF TypeOK, Types, HistoryType
  <2>2. CASE s \in S
    <3>1. BatchTold(s, serial', capture.plan[s], "none", "prepared") \in Lives
      BY ToldType DEF Lives
    <3>2. BatchTold(s, serial', capture.plan[s], "none", "prepared") = Told(s, serial', "none", "prepared")
      BY <1>1, <2>2 DEF BatchTold
    <3>3. life'[s] = [life[s] EXCEPT ![serial'] = BatchTold(s, serial', capture.plan[s], "none", "prepared")]
      BY <1>16, <2>2
    <3> QED BY <2>1, <2>2, <3>1, <3>2, <3>3, LifeSetType
  <2>3. CASE s \notin S
    BY <1>16, <2>1, <2>3
  <2> QED BY <2>2, <2>3
<1>18. life' \in [Sinks -> [Serials -> Lives]]
  <2>1. life' = [s \in Sinks |-> life'[s]]
    BY <1>16
  <2> QED BY <1>17, <2>1
<1>19. batch'[b].active /\ batch'[b].n = serial'
  BY <1>8, <1>9
<1> QED BY <1>1, <1>2, <1>3, <1>9, <1>10, <1>11, <1>13, <1>14, <1>15, <1>17, <1>18, <1>19 DEF Prepared

\* PrepareFrameBatch keeps the types.
LEMMA PrepareType ==
  ASSUME TypeOK, NEW b \in Batches, NEW S \in SUBSET Sinks, NEW lanes \in [Sinks -> Lanes], NEW d \in Nat,
         PrepareFrameBatch(b, S, lanes, d)
  PROVE  TypeOK'
<1>0. Prepared(b, S, lanes, d)
  BY PrepareEffect
<1>1. /\ batch' \in [Batches -> BatchRec] /\ \A a \in Batches : a # b => batch'[a] = batch[a]
      /\ batch'[b].active /\ batch'[b].n = serial' /\ serial' = serial + 1 /\ serial' \in Serials
      /\ \A s \in Sinks : batch'[b].targets[s].active <=> s \in S
      /\ \A s \in S : batch'[b].targets[s].lane = lanes[s]
  BY <1>0 DEF Prepared
<1>2. UNCHANGED <<active, target, epoch, content, unbind, bound, gpu, calls, held, told, ended>>
  BY <1>0 DEF Prepared
<1>3. LaneType' /\ CaptureType'
  BY <1>0 DEF Prepared, CaptureType
<1>4. SinkType'
  <2>1. outstanding' \in [Sinks -> Int] /\ drained' \in [Sinks -> BOOLEAN]
    BY <1>0 DEF Prepared
  <2> QED BY <1>2, <2>1 DEF TypeOK, Types, SinkType
<1>5. HistoryType'
  <2>1. life' \in [Sinks -> [Serials -> Lives]]
    BY <1>0 DEF Prepared
  <2> QED BY <1>2, <2>1 DEF TypeOK, Types, HistoryType
<1>6. ContentType' /\ CallType'
  BY <1>2 DEF TypeOK, Types, ContentType, CallType
<1>7. BatchType'
  <2>1. contentOf' = [contentOf EXCEPT ![serial'] = d]
    BY <1>0 DEF Prepared
  <2>2. contentOf' \in [Serials -> Nat]
    BY <2>1 DEF TypeOK, Types, BatchType
  <2>3. serial' \in 0..MaxSerial
    BY <1>1, HubAssumption DEF Serials
  <2> QED BY <1>1, <1>2, <2>2, <2>3 DEF TypeOK, Types, BatchType
<1>8. serial \in Nat /\ \A a \in Batches : batch[a].active => batch[a].n \in 1..serial
  BY HubAssumption DEF TypeOK, Types, BatchType, Shape
<1>9. \A a \in Batches : batch'[a].active => batch'[a].n \in 1..serial'
  BY <1>1, <1>8
<1>10. \A a \in Batches, s \in Sinks : batch'[a].targets[s].active =>
         batch'[a].active /\ batch'[a].targets[s].lane \in Lanes
  <2> TAKE a \in Batches, s \in Sinks
  <2>1. CASE a = b
    BY <1>1, <2>1
  <2>2. CASE a # b
    BY <1>1, <2>2 DEF TypeOK, Shape
  <2> QED BY <2>1, <2>2
<1>11. ASSUME NEW x \in Batches, NEW y \in Batches, x # y, batch'[x].active, batch'[y].active
       PROVE  batch'[x].n # batch'[y].n
  <2>1. CASE x # b /\ y # b
    BY <1>1, <1>11, <2>1 DEF TypeOK, Shape
  <2>2. CASE x = b
    BY <1>1, <1>8, <1>11, <2>2
  <2>3. CASE y = b
    BY <1>1, <1>8, <1>11, <2>3
  <2> QED BY <2>1, <2>2, <2>3
<1>12. \A s \in Sinks, l \in Lanes : lane'[s][l].n = 0 => lane'[s][l].phase = "IDLE"
  BY <1>0, SMTT(60) DEF Prepared, TypeOK, Shape
<1> QED BY <1>3, <1>4, <1>5, <1>6, <1>7, <1>9, <1>10, <1>11, <1>12 DEF TypeOK, Types, Shape

\* The types are an invariant.
LEMMA TypeStep == ASSUME TypeOK, [Next]_vars PROVE TypeOK'
<1>1. CASE UNCHANGED vars
  BY <1>1 DEF vars, moving, hubVars, history, TypeOK, Types, Shape, SinkType, ContentType, LaneType, BatchType,
              CaptureType, CallType, HistoryType
<1>2. ASSUME NEW s \in Sinks, Bind(s) \/ UnbindBegin(s) \/ UnbindStep(s) PROVE TypeOK'
  BY <1>2, BindType, UnbindBeginType, UnbindScanType, UnbindFinishType DEF UnbindStep
<1>3. CASE Capture
  <2>1. CASE Prepare
    <3>1. NewestContent \in Nat
      BY HubAssumption DEF NewestContent, TypeOK, Types, BatchType, Serials
    <3>2. \A d \in NewestContent..MaxContent : d \in Nat
      BY <3>1
    <3> QED BY <2>1, <3>2, PrepareType DEF Prepare
  <2> QED BY <1>3, <2>1, PlanType, PublishType, AbortType, SubmitFailedType, CommitType DEF Capture, Publish
<1>4. ASSUME NEW b \in Batches, Copy(b) PROVE TypeOK'
  BY <1>4, CompleteTargetType, FailType DEF Copy
<1>5. ASSUME NEW c \in calls, Handler(c) PROVE TypeOK'
  BY <1>5, FillBeginType, FillEndType, CancelBeginType, CancelEndType, CompleteClaimType, CompleteCallType,
     CompleteSettleType, CompleteSubType, CompleteSetType, OnFrameDoneType DEF Handler
<1>6. ASSUME NEW h \in held, NEW r \in {"READY", "FAILED"}, SinkDone(h, r) PROVE TypeOK'
  BY <1>6, SinkDoneType
<1> QED BY <1>1, <1>2, <1>3, <1>4, <1>5, <1>6 DEF Next

-----------------------------------------------------------------------------
(* The content of a sink.                                                  *)

\* The hub's record of the content of a sink agrees with the newest content that
\* has ended on it: partial frames are on offer only while the last READY content
\* is the newest one that ended.
EndedInv ==
  \A s \in Sinks : target[s] =>
    /\ content[s].terminal = ended[s].newest /\ content[s].last <= content[s].terminal
    /\ ~content[s].needsFull => content[s].last = content[s].terminal /\ ended[s].ready

\* What the history of CompleteSettle records of a content d ended with r.
EndedWith(e, d, r) ==
  CASE d > e.newest -> [newest |-> d, ready |-> r = "READY"]
    [] d = e.newest -> [e EXCEPT !.ready = @ \/ r = "READY"]
    [] OTHER -> e

\* Settled keeps the record in agreement, in whatever order contents end.
LEMMA SettledAgrees ==
  ASSUME NEW k \in ContentRec, NEW e \in EndedRec, NEW d \in Nat, NEW r,
         k.terminal = e.newest, k.last <= k.terminal,
         ~k.needsFull => k.last = k.terminal /\ e.ready
  PROVE  LET q == Settled(k, d, r)
             f == EndedWith(e, d, r) IN
         /\ q.terminal = f.newest /\ q.last <= q.terminal
         /\ ~q.needsFull => q.last = q.terminal /\ f.ready
<1> DEFINE q == Settled(k, d, r)
           f == EndedWith(e, d, r)
<1>1. k.last \in Nat /\ k.terminal \in Nat /\ e.newest \in Nat /\ k.needsFull \in BOOLEAN /\ e.ready \in BOOLEAN
  BY DEF ContentRec, EndedRec
<1>2. CASE d > k.terminal /\ r = "READY"
  <2>0. ContentAfter(d, k.terminal) /\ ContentAfter(d, k.last) /\ d > e.newest
    BY <1>1, <1>2 DEF ContentAfter
  <2>1. q = [needsFull |-> FALSE, last |-> d, terminal |-> d]
    BY <1>2, <2>0 DEF Settled
  <2>2. f = [newest |-> d, ready |-> r = "READY"]
    BY <2>0 DEF EndedWith
  <2> HIDE DEF q, f
  <2>3. q.needsFull = FALSE /\ q.last = d /\ q.terminal = d /\ f.newest = d /\ f.ready = TRUE
    BY <1>2, <2>1, <2>2
  <2> QED BY <2>3 DEF q, f
<1>3. CASE d > k.terminal /\ r # "READY"
  <2>0. ContentAfter(d, k.terminal) /\ d > e.newest
    BY <1>1, <1>3 DEF ContentAfter
  <2>1. q = [k EXCEPT !.terminal = d, !.needsFull = k.needsFull \/ TRUE]
    BY <1>3, <2>0 DEF Settled
  <2>2. f = [newest |-> d, ready |-> r = "READY"]
    BY <2>0 DEF EndedWith
  <2> HIDE DEF q, f
  <2>3. q.needsFull = TRUE /\ q.last = k.last /\ q.terminal = d /\ f.newest = d
    BY <2>1, <2>2 DEF ContentRec
  <2> QED BY <1>1, <1>3, <2>3 DEF q, f
<1>4. CASE ~(d > k.terminal)
  <2>1. ~ContentAfter(d, k.terminal)
    BY <1>1, <1>4 DEF ContentAfter
  <2>2. CASE d = k.terminal
    <3>1. f = [e EXCEPT !.ready = e.ready \/ r = "READY"]
      BY <1>1, <2>2 DEF EndedWith
    <3> HIDE DEF f
    <3>2. f.newest = e.newest /\ f.ready = (e.ready \/ r = "READY")
      BY <3>1 DEF EndedRec
    <3>3. CASE r = "READY" /\ ContentAfter(d, k.last)
      <4>1. q = [needsFull |-> FALSE, last |-> d, terminal |-> d]
        BY <2>1, <2>2, <3>3 DEF Settled
      <4> HIDE DEF q
      <4>2. q.needsFull = FALSE /\ q.last = d /\ q.terminal = d
        BY <4>1
      <4> QED BY <1>1, <2>2, <3>2, <3>3, <4>2 DEF q, f
    <3>4. CASE r = "READY" /\ ~ContentAfter(d, k.last)
      <4>1. q = [k EXCEPT !.terminal = k.terminal]
        BY <2>1, <2>2, <3>4 DEF Settled
      <4> HIDE DEF q
      <4>2. q.needsFull = k.needsFull /\ q.last = k.last /\ q.terminal = k.terminal
        BY <4>1 DEF ContentRec
      <4> QED BY <1>1, <3>2, <3>4, <4>2 DEF q, f
    <3>5. CASE r # "READY"
      <4>1. q = [k EXCEPT !.terminal = k.terminal, !.needsFull = k.needsFull \/ FALSE]
        BY <2>1, <3>5 DEF Settled
      <4> HIDE DEF q
      <4>2. q.needsFull = k.needsFull /\ q.last = k.last /\ q.terminal = k.terminal
        BY <1>1, <4>1 DEF ContentRec
      <4> QED BY <1>1, <3>2, <3>5, <4>2 DEF q, f
    <3> QED BY <3>3, <3>4, <3>5
  <2>3. CASE d # k.terminal
    <3>1. f = e
      BY <1>1, <1>4, <2>3 DEF EndedWith
    <3>2. q = [k EXCEPT !.terminal = k.terminal, !.needsFull = k.needsFull \/ FALSE]
      BY <2>1, <2>3 DEF Settled
    <3> HIDE DEF q, f
    <3>3. q.needsFull = k.needsFull /\ q.last = k.last /\ q.terminal = k.terminal
      BY <1>1, <3>2 DEF ContentRec
    <3> QED BY <1>1, <3>1, <3>3 DEF q, f
  <2> QED BY <2>2, <2>3
<1> QED BY <1>1, <1>2, <1>3, <1>4

\* ReleaseTarget only ever asks for a full frame.
LEMMA ReleasedEnded ==
  ASSUME TypeOK, EndedInv, NEW b \in Batches, NEW R \in SUBSET Sinks, Released(b, R),
         target' = target, ended' = ended
  PROVE  EndedInv'
<1> SUFFICES ASSUME NEW s \in Sinks, target[s]
             PROVE  /\ content'[s].terminal = ended[s].newest /\ content'[s].last <= content'[s].terminal
                    /\ ~content'[s].needsFull => content'[s].last = content'[s].terminal /\ ended[s].ready
  BY DEF EndedInv
<1>1. content'[s] = IF s \in R THEN [content[s] EXCEPT !.needsFull = TRUE] ELSE content[s]
  BY ReleasedFact DEF TypeOK
<1>2. PICK k \in ContentRec : k = content[s]
  BY DEF TypeOK, Types, ContentType
<1>3. /\ [k EXCEPT !.needsFull = TRUE].terminal = k.terminal /\ [k EXCEPT !.needsFull = TRUE].last = k.last
      /\ [k EXCEPT !.needsFull = TRUE].needsFull = TRUE
  BY DEF ContentRec
<1>4. content'[s].terminal = k.terminal /\ content'[s].last = k.last
      /\ (content'[s].needsFull = TRUE \/ content'[s].needsFull = k.needsFull)
  BY <1>1, <1>2, <1>3
<1> QED BY <1>2, <1>4 DEF EndedInv

\* AbortFrameBatch and FailFrameBatch keep the record of content in agreement.
LEMMA EndBatchEnded ==
  ASSUME TypeOK, EndedInv, NEW b \in Batches, NEW n, EndBatch(b, n), serial' = serial,
         target' = target, ended' = ended
  PROVE  EndedInv'
<1>1. CASE UNCHANGED <<lane, outstanding, drained, content, batch, life>>
  BY <1>1 DEF EndedInv
<1>2. CASE ~UNCHANGED <<lane, outstanding, drained, content, batch, life>>
  <2>1. Released(b, ActiveTargets(b)) /\ ActiveTargets(b) \in SUBSET Sinks
    BY <1>2, EndBatchEffect DEF ActiveTargets
  <2> QED BY <2>1, ReleasedEnded
<1> QED BY <1>1, <1>2

\* CompleteLane keeps the record of content in agreement.
LEMMA SettleEnded ==
  ASSUME TypeOK, EndedInv, NEW c \in calls, CompleteSettle(c)
  PROVE  EndedInv'
<1>1. c.s \in Sinks /\ c.n \in Serials /\ contentOf[c.n] \in Nat
  BY CallFields DEF TypeOK, Types, BatchType
<1> DEFINE d == contentOf[c.n]
<1>2. /\ target' = target
      /\ content' = [content EXCEPT ![c.s] = Settled(content[c.s], d, c.result)]
      /\ ended' = [ended EXCEPT ![c.s] = EndedWith(ended[c.s], d, c.result)]
  BY DEF CompleteSettle, EndedWith, sinkVars
<1> HIDE DEF d
<1>3. content \in [Sinks -> ContentRec] /\ ended \in [Sinks -> EndedRec] /\ d \in Nat
  BY <1>1 DEF TypeOK, Types, ContentType, d
<1> SUFFICES ASSUME NEW s \in Sinks, target[s]
             PROVE  /\ content'[s].terminal = ended'[s].newest /\ content'[s].last <= content'[s].terminal
                    /\ ~content'[s].needsFull => content'[s].last = content'[s].terminal /\ ended'[s].ready
  BY <1>2 DEF EndedInv
<1>4. CASE s = c.s
  <2>1. content'[s] = Settled(content[s], d, c.result) /\ ended'[s] = EndedWith(ended[s], d, c.result)
    BY <1>2, <1>3, <1>4
  <2>2. /\ content[s] \in ContentRec /\ ended[s] \in EndedRec
        /\ content[s].terminal = ended[s].newest /\ content[s].last <= content[s].terminal
        /\ ~content[s].needsFull => content[s].last = content[s].terminal /\ ended[s].ready
    BY <1>3 DEF EndedInv
  <2>3. LET q == Settled(content[s], d, c.result)
            f == EndedWith(ended[s], d, c.result) IN
         /\ q.terminal = f.newest /\ q.last <= q.terminal
         /\ ~q.needsFull => q.last = q.terminal /\ f.ready
    BY <1>3, <2>2, SettledAgrees
  <2> QED BY <2>1, <2>3
<1>5. CASE s # c.s
  BY <1>2, <1>3, <1>5 DEF EndedInv
<1> QED BY <1>4, <1>5

\* Bind and UnbindFinish start a sink's record anew or give it up.
LEMMA BindEnded == ASSUME TypeOK, EndedInv, NEW s \in Sinks, Bind(s) PROVE EndedInv'
<1>1. FreshContent.terminal = NothingEnded.newest /\ FreshContent.last <= FreshContent.terminal
      /\ FreshContent.needsFull
  BY DEF FreshContent, NothingEnded
<1>2. \A r \in Sinks : IF r = s THEN content'[r] = FreshContent /\ ended'[r] = NothingEnded
                       ELSE content'[r] = content[r] /\ ended'[r] = ended[r] /\ target'[r] = target[r]
  BY DEF Bind, TypeOK, Types, ContentType, SinkType
<1> QED BY <1>1, <1>2 DEF EndedInv

\* Unbind gives the record of content up.
LEMMA UnbindFinishEnded == ASSUME TypeOK, EndedInv, NEW s \in Sinks, UnbindFinish(s) PROVE EndedInv'
<1>1. \A r \in Sinks : IF r = s THEN target'[r] = FALSE
                       ELSE content'[r] = content[r] /\ ended'[r] = ended[r] /\ target'[r] = target[r]
  BY DEF UnbindFinish, TypeOK, Types, ContentType, SinkType, history
<1> QED BY <1>1 DEF EndedInv

\* The steps that leave the record of content alone.
LEMMA SameEnded == ASSUME EndedInv, UNCHANGED <<target, content, ended>> PROVE EndedInv'
BY DEF EndedInv

\* Every step keeps the record of content in agreement.
LEMMA EndedStep == ASSUME TypeOK, EndedInv, [Next]_vars PROVE EndedInv'
<1>1. CASE UNCHANGED vars
  BY <1>1, SameEnded DEF vars, moving, hubVars, history
<1>2. ASSUME NEW s \in Sinks, Bind(s) \/ UnbindBegin(s) \/ UnbindStep(s) PROVE EndedInv'
  BY <1>2, BindEnded, UnbindFinishEnded, SameEnded DEF UnbindStep, UnbindBegin, UnbindScan, history
<1>3. CASE Capture
  <2>1. CASE GetFramePlan \/ PrepareFailed \/ Prepare \/ CommitFrameBatch
    BY <2>1, SameEnded, ZenonT(60) DEF GetFramePlan, PrepareFailed, Prepare, PrepareFrameBatch, CommitFrameBatch, hubVars,
                           history
  <2>2. CASE Publish
    <3>1. PICK A \in SUBSET Sinks : PublishFrameBatch(A)
      BY <2>2 DEF Publish
    <3> DEFINE b == capture.b
               R == ActiveTargets(b) \ A
    <3>2. b \in Batches /\ Released(b, R) /\ target' = target /\ ended' = ended
      BY <3>1, PublishEffect
    <3>3. R \in SUBSET Sinks
      BY DEF ActiveTargets
    <3> HIDE DEF b, R
    <3> QED BY <3>2, <3>3, ReleasedEnded
  <2>3. CASE AbortFrameBatch
    <3> DEFINE b == capture.b
    <3>1. b \in Batches /\ EndBatch(b, batch[b].n) /\ serial' = serial /\ target' = target /\ ended' = ended
      BY <2>3, CaptureBatch DEF AbortFrameBatch, CaptureAt
    <3> HIDE DEF b
    <3> QED BY <3>1, EndBatchEnded
  <2>4. CASE SubmitFailed
    <3> DEFINE b == capture.b
    <3>1. b \in Batches /\ EndBatch(b, gpu[b].n) /\ serial' = serial /\ target' = target /\ ended' = ended
      BY <2>4, CaptureBatch DEF SubmitFailed, CaptureAt
    <3> HIDE DEF b
    <3> QED BY <3>1, EndBatchEnded
  <2> QED BY <1>3, <2>1, <2>2, <2>3, <2>4, Zenon DEF Capture
<1>4. ASSUME NEW b \in Batches, Copy(b) PROVE EndedInv'
  <2>1. CASE FailFrameBatch(b)
    BY <2>1, EndBatchEnded DEF FailFrameBatch
  <2>2. ASSUME NEW s \in Sinks, CompleteFrameTarget(b, s) PROVE EndedInv'
    BY <2>2, SameEnded DEF CompleteFrameTarget, history
  <2> QED BY <1>4, <2>1, <2>2 DEF Copy
<1>5. ASSUME NEW c \in calls, Handler(c) PROVE EndedInv'
  <2>1. CASE CompleteSettle(c)
    BY <2>1, SettleEnded
  <2>2. CASE FillBegin(c) \/ CancelBegin(c) \/ CancelEnd(c) \/ CompleteClaim(c) \/ CompleteCall(c)
             \/ CompleteSub(c) \/ CompleteSet(c) \/ OnFrameDone(c)
    BY <2>2, SameEnded, Zenon DEF FillBegin, CancelBegin, CancelEnd, CompleteClaim, CompleteCall, CompleteSub,
                           CompleteSet, OnFrameDone, sinkVars, hubVars, history
  <2>3. ASSUME NEW fill \in {"READY", "PENDING", "REJECTED"}, FillEnd(c, fill) PROVE EndedInv'
    BY <2>3, SameEnded DEF FillEnd, sinkVars
  <2> QED BY <1>5, <2>1, <2>2, <2>3 DEF Handler
<1>6. ASSUME NEW h \in held, NEW r \in {"READY", "FAILED"}, SinkDone(h, r) PROVE EndedInv'
  BY <1>6, SameEnded DEF SinkDone, hubVars, history
<1> QED BY <1>1, <1>2, <1>3, <1>4, <1>5, <1>6 DEF Next

-----------------------------------------------------------------------------
(* A buffer is never given to another binding than its own.                *)

\* What the calls of a batch make of the life of a buffer: the checks of the
\* binding come first.
LEMMA LifeCases ==
  ASSUME TypeOK, NEW s \in Sinks, NEW m, NEW v \in Lives, v # "astray",
         \A n \in Serials : life[s][n] # "astray",
         life'[s] = [life[s] EXCEPT ![m] = v] \/ life'[s] = life[s]
  PROVE  \A n \in Serials : life'[s][n] # "astray"
<1>1. life[s] \in [Serials -> Lives]
  BY DEF TypeOK, Types, HistoryType
<1> QED BY <1>1

\* PublishFrameBatch checks the binding before it calls the sink.
LEMMA PublishAstray ==
  ASSUME TypeOK, BatchKeepsToItsSink, NEW A \in SUBSET Sinks, PublishFrameBatch(A)
  PROVE  BatchKeepsToItsSink'
<1> SUFFICES ASSUME NEW s \in Sinks PROVE \A n \in Serials : life'[s][n] # "astray"
  BY DEF BatchKeepsToItsSink
<1> DEFINE b == capture.b
           m == batch[b].n
           t == batch[b].targets[s]
<1>1. \A to \in {"published", "over"} : TargetValid(t, s) =>
        BatchTold(s, m, t.epoch, "prepared", to) \in {to, "broken"}
  BY DEF TargetValid, BatchTold, Told
<1>2. \/ life'[s] = life[s]
      \/ /\ TargetValid(t, s)
         /\ \E to \in {"published", "over"} :
              life'[s] = [life[s] EXCEPT ![m] = BatchTold(s, m, t.epoch, "prepared", to)]
  BY PublishEffect
<1>3. \E v \in {"published", "over", "broken"} : life'[s] = [life[s] EXCEPT ![m] = v] \/ life'[s] = life[s]
  BY <1>1, <1>2
<1> QED BY <1>3, LifeCases DEF BatchKeepsToItsSink, Lives

\* AbortFrameBatch and FailFrameBatch check the binding before they call the sink.
LEMMA EndBatchAstray ==
  ASSUME TypeOK, BatchKeepsToItsSink, NEW b \in Batches, NEW m, EndBatch(b, m), serial' = serial
  PROVE  BatchKeepsToItsSink'
<1> SUFFICES ASSUME NEW s \in Sinks PROVE \A n \in Serials : life'[s][n] # "astray"
  BY DEF BatchKeepsToItsSink
<1> DEFINE t == batch[b].targets[s]
<1>1. \A from : TargetValid(t, s) => BatchTold(s, m, t.epoch, from, "over") \in {"over", "broken"}
  BY DEF TargetValid, BatchTold, Told
<1>2. \/ life'[s] = life[s]
      \/ /\ TargetValid(t, s)
         /\ \E from \in {"published", "prepared"} :
              life'[s] = [life[s] EXCEPT ![m] = BatchTold(s, m, t.epoch, from, "over")]
  BY EndBatchEffect
<1>3. \E v \in {"over", "broken"} : life'[s] = [life[s] EXCEPT ![m] = v] \/ life'[s] = life[s]
  BY <1>1, <1>2
<1> QED BY <1>3, LifeCases DEF BatchKeepsToItsSink, Lives

\* CompleteLane is no call of a batch.
LEMMA CompleteCallAstray ==
  ASSUME TypeOK, BatchKeepsToItsSink, NEW c \in calls, CompleteCall(c)
  PROVE  BatchKeepsToItsSink'
<1>1. life \in [Sinks -> [Serials -> Lives]] /\ c.s \in Sinks
  BY CallFields DEF TypeOK, Types, HistoryType
<1> DEFINE v == CASE epoch[c.s] # c.epoch -> "broken"
                  [] told[c.s][c.n] \notin {"none", c.result} -> "denied"
                  [] OTHER -> Told(c.s, c.n, "published", "over")
<1>2. v # "astray"
  <2>1. Told(c.s, c.n, "published", "over") # "astray"
    BY DEF Told
  <2> QED BY <2>1
<1>3. life' = IF target[c.s] THEN [life EXCEPT ![c.s][c.n] = v] ELSE life
  BY DEF CompleteCall
<1> HIDE DEF v
<1> QED BY <1>1, <1>2, <1>3 DEF BatchKeepsToItsSink

\* The steps that tell the sink nothing.
LEMMA SameLife == ASSUME BatchKeepsToItsSink, life' = life PROVE BatchKeepsToItsSink'
BY DEF BatchKeepsToItsSink

\* PrepareFrameBatch checks the plan before it calls the sink.
LEMMA PrepareAstray == ASSUME TypeOK, BatchKeepsToItsSink, Prepare PROVE BatchKeepsToItsSink'
<1>1. NewestContent \in Nat
  BY HubAssumption DEF NewestContent, TypeOK, Types, BatchType, Serials
<1>2. PICK b \in Batches, S \in SUBSET Sinks, lanes \in [Sinks -> Lanes], d \in Nat : Prepared(b, S, lanes, d)
  BY <1>1, PrepareEffect DEF Prepare
<1>3. \A s \in Sinks, n \in Serials : Told(s, n, "none", "prepared") # "astray"
  BY DEF Told
<1> QED BY <1>2, <1>3 DEF BatchKeepsToItsSink, Prepared

\* No step gives a buffer to another binding.
LEMMA AstrayStep == ASSUME TypeOK, BatchKeepsToItsSink, [Next]_vars PROVE BatchKeepsToItsSink'
<1>1. CASE UNCHANGED vars
  BY <1>1, SameLife DEF vars, moving, history
<1>2. ASSUME NEW s \in Sinks, Bind(s) \/ UnbindBegin(s) \/ UnbindStep(s) PROVE BatchKeepsToItsSink'
  BY <1>2, SameLife DEF Bind, UnbindStep, UnbindBegin, UnbindScan, UnbindFinish, history
<1>3. CASE Capture
  <2>1. CASE GetFramePlan \/ PrepareFailed \/ CommitFrameBatch
    BY <2>1, SameLife, Zenon DEF GetFramePlan, PrepareFailed, CommitFrameBatch, history
  <2>2. CASE Publish
    BY <2>2, PublishAstray DEF Publish
  <2>3. CASE AbortFrameBatch
    <3> DEFINE b == capture.b
    <3>1. b \in Batches /\ EndBatch(b, batch[b].n) /\ serial' = serial
      BY <2>3, CaptureBatch DEF AbortFrameBatch, CaptureAt
    <3> HIDE DEF b
    <3> QED BY <3>1, EndBatchAstray
  <2>4. CASE SubmitFailed
    <3> DEFINE b == capture.b
    <3>1. b \in Batches /\ EndBatch(b, gpu[b].n) /\ serial' = serial
      BY <2>4, CaptureBatch DEF SubmitFailed, CaptureAt
    <3> HIDE DEF b
    <3> QED BY <3>1, EndBatchAstray
  <2> QED BY <1>3, <2>1, <2>2, <2>3, <2>4, PrepareAstray, Zenon DEF Capture
<1>4. ASSUME NEW b \in Batches, Copy(b) PROVE BatchKeepsToItsSink'
  <2>1. CASE FailFrameBatch(b)
    BY <2>1, EndBatchAstray DEF FailFrameBatch
  <2>2. ASSUME NEW s \in Sinks, CompleteFrameTarget(b, s) PROVE BatchKeepsToItsSink'
    BY <2>2, SameLife DEF CompleteFrameTarget, history
  <2> QED BY <1>4, <2>1, <2>2 DEF Copy
<1>5. ASSUME NEW c \in calls, Handler(c) PROVE BatchKeepsToItsSink'
  <2>1. CASE FillBegin(c) \/ CancelBegin(c) \/ CancelEnd(c) \/ CompleteClaim(c) \/ CompleteSettle(c)
             \/ CompleteSub(c) \/ CompleteSet(c) \/ OnFrameDone(c)
    BY <2>1, SameLife, Zenon DEF FillBegin, CancelBegin, CancelEnd, CompleteClaim, CompleteSettle, CompleteSub,
                          CompleteSet, OnFrameDone, history
  <2>2. ASSUME NEW fill \in {"READY", "PENDING", "REJECTED"}, FillEnd(c, fill) PROVE BatchKeepsToItsSink'
    BY <2>2, SameLife DEF FillEnd
  <2> QED BY <1>5, <2>1, <2>2, CompleteCallAstray, SMT DEF Handler
<1>6. ASSUME NEW h \in held, NEW r \in {"READY", "FAILED"}, SinkDone(h, r) PROVE BatchKeepsToItsSink'
  BY <1>6, SameLife DEF SinkDone, history
<1> QED BY <1>1, <1>2, <1>3, <1>4, <1>5, <1>6 DEF Next

-----------------------------------------------------------------------------
(* Only PrepareFrameBatch takes a batch into use.                          *)

\* Every other step narrows the batches.
LEMMA StepNarrows ==
  ASSUME TypeOK, [Next]_vars
  PROVE  Narrowed \/ \E b \in Batches, S \in SUBSET Sinks, lanes \in [Sinks -> Lanes], d \in Nat :
                       Prepared(b, S, lanes, d)
<1>1. CASE UNCHANGED vars
  BY <1>1, SameNarrowed DEF vars, moving, hubVars
<1>2. ASSUME NEW s \in Sinks, Bind(s) \/ UnbindBegin(s) \/ UnbindStep(s) PROVE Narrowed
  BY <1>2, SameNarrowed DEF Bind, UnbindStep, UnbindBegin, UnbindScan, UnbindFinish
<1>3. ASSUME NEW b \in Batches, NEW n, EndBatch(b, n), serial' = serial PROVE Narrowed
  BY <1>3, EndBatchEffect
<1>4. CASE Capture
  <2>1. CASE GetFramePlan \/ PrepareFailed
    BY <2>1, SameNarrowed DEF GetFramePlan, PrepareFailed, hubVars
  <2>2. CASE Publish
    BY <2>2, PublishEffect DEF Publish
  <2>3. CASE AbortFrameBatch
    BY <1>3, <2>3, CaptureBatch DEF AbortFrameBatch, CaptureAt
  <2>4. CASE SubmitFailed
    BY <1>3, <2>4, CaptureBatch DEF SubmitFailed, CaptureAt
  <2>5. CASE CommitFrameBatch
    BY <2>5, CommitEffect DEF DetachStep
  <2>6. CASE Prepare
    <3>1. NewestContent \in Nat
      BY HubAssumption DEF NewestContent, TypeOK, Types, BatchType, Serials
    <3> QED BY <2>6, <3>1, PrepareEffect DEF Prepare
  <2> QED BY <1>4, <2>1, <2>2, <2>3, <2>4, <2>5, <2>6 DEF Capture
<1>5. ASSUME NEW b \in Batches, Copy(b) PROVE Narrowed
  <2>1. CASE FailFrameBatch(b)
    BY <1>3, <2>1 DEF FailFrameBatch
  <2>2. ASSUME NEW s \in Sinks, CompleteFrameTarget(b, s) PROVE Narrowed
    BY <2>2, CompleteTargetEffect DEF DetachStep
  <2> QED BY <1>5, <2>1, <2>2 DEF Copy
<1>6. ASSUME NEW c \in calls, Handler(c) PROVE Narrowed
  <2>1. CASE FillBegin(c) \/ CancelBegin(c) \/ CancelEnd(c) \/ CompleteClaim(c) \/ CompleteCall(c)
             \/ CompleteSettle(c) \/ CompleteSub(c) \/ CompleteSet(c) \/ OnFrameDone(c)
    BY <2>1, SameNarrowed, Zenon DEF FillBegin, CancelBegin, CancelEnd, CompleteClaim, CompleteCall, CompleteSettle,
                              CompleteSub, CompleteSet, OnFrameDone, hubVars
  <2>2. ASSUME NEW fill \in {"READY", "PENDING", "REJECTED"}, FillEnd(c, fill) PROVE Narrowed
    BY <2>2, SameNarrowed DEF FillEnd
  <2> QED BY <1>6, <2>1, <2>2, Zenon DEF Handler
<1>7. ASSUME NEW h \in held, NEW r \in {"READY", "FAILED"}, SinkDone(h, r) PROVE Narrowed
  BY <1>7, SameNarrowed DEF SinkDone, hubVars
<1> QED BY <1>1, <1>2, <1>4, <1>5, <1>6, <1>7 DEF Next

\* Damage rectangles are planned for the sink's newest finished content only.
LEMMA PartialStep ==
  ASSUME TypeOK, EndedInv, [Next]_vars, NEW b \in Batches, NEW s \in Sinks,
         batch'[b].n # batch[b].n, batch'[b].targets[s].active, ~batch'[b].targets[s].full
  PROVE  ended[s] = [newest |-> contentOf'[batch'[b].n] - 1, ready |-> TRUE]
<1>1. ~Narrowed
  BY DEF Narrowed
<1>2. PICK a \in Batches, S \in SUBSET Sinks, lanes \in [Sinks -> Lanes], d \in Nat : Prepared(a, S, lanes, d)
  BY <1>1, StepNarrows
<1>3. a = b /\ s \in S
  BY <1>2 DEF Prepared
<1>4. /\ batch'[b].targets[s].full = ForceFull(s, d) /\ target[s] /\ batch'[b].n = serial'
      /\ contentOf' = [contentOf EXCEPT ![serial'] = d] /\ serial' \in Serials
  BY <1>2, <1>3 DEF Prepared
<1>5. ~content[s].needsFull /\ content[s].last + 1 = d
  BY <1>4 DEF ForceFull
<1>6. contentOf'[batch'[b].n] = d
  BY <1>4 DEF TypeOK, Types, BatchType
<1>7. ended[s].newest = content[s].last /\ ended[s].ready
  BY <1>4, <1>5 DEF EndedInv
<1>8. content[s].last \in Nat
  BY DEF TypeOK, Types, ContentType, ContentRec
<1>9. ended[s].newest = d - 1
  BY <1>5, <1>7, <1>8
<1>10. PICK e \in EndedRec : e = ended[s]
  BY DEF TypeOK, Types, ContentType
<1>11. e = [newest |-> e.newest, ready |-> e.ready] /\ e.ready \in BOOLEAN
  BY DEF EndedRec
<1> QED BY <1>6, <1>7, <1>9, <1>10, <1>11

\* The conjuncts that hold for every number of bindings.
HubInv == TypeOK /\ EndedInv /\ BatchKeepsToItsSink

\* HubInv is an invariant of the hub.
THEOREM FrameHubInductive == Spec => []HubInv
<1>1. Init => HubInv
  <2>1. Init => EndedInv
    BY DEF Init, EndedInv
  <2>2. Init => BatchKeepsToItsSink
    BY DEF Init, BatchKeepsToItsSink
  <2> QED BY <2>1, <2>2, TypeInit DEF HubInv
<1>2. HubInv /\ [Next]_vars => HubInv'
  BY TypeStep, EndedStep, AstrayStep DEF HubInv
<1> QED BY <1>1, <1>2, PTL DEF Spec

\* A plan or a batch of an earlier binding of a sink never reaches the sink that
\* is bound in its place, however Bind and Unbind fall between the steps of the
\* capture thread and of the copy.
THEOREM BatchKeepsToItsSinkHolds == Spec => []BatchKeepsToItsSink
<1>1. HubInv => BatchKeepsToItsSink
  BY DEF HubInv
<1> QED BY <1>1, FrameHubInductive, PTL

\* PrepareFrameBatch asks for a part of a frame only when the content before it
\* is the newest that ended on the sink, and ended READY.
THEOREM PartialFollowsReadyHolds == Spec => PartialFollowsReady
<1>1. HubInv /\ [Next]_vars =>
        [\A b \in Batches, s \in Sinks :
           LET t == batch'[b].targets[s]
               c == contentOf'[batch'[b].n] IN
           batch'[b].n # batch[b].n /\ t.active /\ ~t.full =>
             ended[s] = [newest |-> c - 1, ready |-> TRUE]]_vars
  BY PartialStep DEF HubInv
<1> QED BY <1>1, FrameHubInductive, PTL DEF Spec, PartialFollowsReady

-----------------------------------------------------------------------------
(* A buffer's way through the hub, while its sink is bound for the first   *)
(* time.  What the hub knows of the buffer of serial n of sink s is where  *)
(* its token is: in no batch yet, in a batch, in a lane, or gone.          *)

CallsOf(s, n) == {c \in calls : c.s = s /\ c.n = n}
HeldOf(s, n)  == {h \in held : h.s = s /\ h.n = n}

Taken(b, s, n) == batch[b].targets[s].active /\ batch[b].n = n
Free(s, n)     == \A b \in Batches : ~Taken(b, s, n)
NoLaneHas(s, n) == \A l \in Lanes : lane[s][l].n # n

Future(s, n) ==
  /\ n > serial /\ Free(s, n) /\ NoLaneHas(s, n)
  /\ life[s][n] = "none" /\ told[s][n] = "none"
  /\ CallsOf(s, n) = {} /\ HeldOf(s, n) = {}

InBatch(s, n, b) ==
  LET t == batch[b].targets[s] IN
  /\ Taken(b, s, n) /\ NoLaneHas(s, n) /\ t.epoch = epoch[s]
  /\ life[s][n] = (IF t.published THEN "published" ELSE "prepared")
  /\ t.committed => t.published
  /\ told[s][n] = "none" /\ CallsOf(s, n) = {} /\ HeldOf(s, n) = {}

\* The stages of a token in a lane: p, a and r are the lane's phase, callActive
\* and result, C the calls and H the held tokens of it, f its life, t what the
\* hub took as the sink's answer.  The sink answers once.
AnswersOnce(C, H) ==
  /\ \A c, d \in C : c.by = "sink" /\ d.by = "sink" => c = d
  /\ \A h, g \in H : h = g
  /\ H # {} => \A c \in C : c.by # "sink"
NoAnswer(C, H) == H = {} /\ \A c \in C : c.by # "sink"
FromSink(c) == c.by = "sink" /\ c.pc \in {"done", "complete"}
Waiting(c)  == c.by # "sink" /\ c.pc = "cancel"

ToFill(p, a, r, C, H, f, t) ==
  /\ p = "FILLING" /\ ~a /\ r = "none" /\ t = "none" /\ f = "published"
  /\ \E c \in C : C = {c} /\ c.pc = "fill" /\ c.by # "sink"
  /\ H = {}
Filling(p, a, r, C, H, f, t) ==
  /\ p = "FILLING" /\ a /\ r = t /\ f = "published"
  /\ \E c \in C : /\ c.pc = "filled" /\ c.by # "sink"
                  /\ \A d \in C : d = c \/ (d.by = "sink" /\ d.pc = "done")
  /\ AnswersOnce(C, H)
Filled(p, a, r, C, H, f, t) ==
  /\ p = "FILLING" /\ ~a /\ r = "none" /\ f = "published"
  /\ \E c \in C : /\ c.pc = "complete" /\ c.result = t
                  /\ \A d \in C : d = c \/ d.pc = "done"
Pending(p, a, r, C, H, f, t) ==
  /\ p = "PENDING" /\ ~a /\ r = "none" /\ t = "none" /\ f = "published"
  /\ \A c \in C : Waiting(c) \/ FromSink(c)
  /\ AnswersOnce(C, H)
Canceling(p, a, r, C, H, f, t) ==
  /\ p = "CANCELING" /\ a /\ r = t /\ f = "published"
  /\ \E c \in C : /\ c.pc = "canceled" /\ c.by # "sink"
                  /\ \A d \in C : d = c \/ Waiting(d) \/ FromSink(d)
  /\ AnswersOnce(C, H)
  /\ t # "none" => NoAnswer(C, H)
Canceled(p, a, r, C, H, f, t) ==
  /\ p = "CANCELING" /\ ~a /\ r = "none" /\ f = "published"
  /\ \A c \in C : \/ Waiting(c) \/ FromSink(c)
                  \/ c.by # "sink" /\ c.pc = "complete" /\ t \in {"none", c.result}
  /\ t # "none" => NoAnswer(C, H)
Claims(c) == c.pc \in {"call", "settle"}
Completing(p, a, r, C, H, f, t) ==
  /\ p = "COMPLETING"
  /\ \E c \in C : /\ Claims(c)
                  /\ c.pc = "call" => f = "published" /\ t \in {"none", c.result}
                  /\ \A d \in C : d = c \/ (~Claims(d) /\ d.pc # "sub")
Stage(p, a, r, C, H, f, t) ==
  \/ ToFill(p, a, r, C, H, f, t) \/ Filling(p, a, r, C, H, f, t) \/ Filled(p, a, r, C, H, f, t)
  \/ Pending(p, a, r, C, H, f, t) \/ Canceling(p, a, r, C, H, f, t)
  \/ Canceled(p, a, r, C, H, f, t) \/ Completing(p, a, r, C, H, f, t)

InLane(s, n, l) ==
  LET ln == lane[s][l] IN
  /\ n <= serial /\ Free(s, n) /\ ln.n = n /\ \A k \in Lanes : lane[s][k].n = n => k = l
  /\ ln.busy
  /\ \A c \in CallsOf(s, n) : c.l = l /\ c.epoch = epoch[s]
  /\ \A h \in HeldOf(s, n) : h.l = l /\ h.epoch = epoch[s]
  /\ Stage(ln.phase, ln.callActive, ln.result, CallsOf(s, n), HeldOf(s, n), life[s][n], told[s][n])

\* The lane has been freed; one handler counts it down.
Gone(s, n) ==
  /\ n <= serial /\ Free(s, n) /\ NoLaneHas(s, n)
  /\ \A c \in CallsOf(s, n) : ~Claims(c)
  /\ \A c, d \in CallsOf(s, n) : c.pc = "sub" /\ d.pc = "sub" => c = d

Token(s, n) ==
  \/ Future(s, n)
  \/ \E b \in Batches : InBatch(s, n, b)
  \/ \E l \in Lanes : InLane(s, n, l)
  \/ Gone(s, n)

\* A busy lane without a token belongs to one target.
Has(b, s, l) == batch[b].targets[s].active /\ batch[b].targets[s].lane = l
Owned(s) ==
  \A l \in Lanes :
    /\ \A b \in Batches : Has(b, s, l) => lane[s][l].busy /\ lane[s][l].n = 0
    /\ \A a, b \in Batches : Has(a, s, l) /\ Has(b, s, l) => a = b
    /\ lane[s][l].busy /\ lane[s][l].n = 0 => \E b \in Batches : Has(b, s, l)

Busy(s)     == {l \in Lanes : lane[s][l].busy}
Counting(s) == {c \in calls : c.s = s /\ c.pc = "sub"}
Counted(s) ==
  /\ IsFiniteSet(Counting(s))
  /\ outstanding[s] = Cardinality(Busy(s)) + Cardinality(Counting(s))

Unborn(s) ==
  /\ ~target[s] /\ ~active[s] /\ unbind[s] = "no"
  /\ \A c \in calls : c.s # s
  /\ \A h \in held : h.s # s
  /\ \A b \in Batches : ~batch[b].targets[s].active
  /\ \A n \in Serials : life[s][n] = "none" /\ told[s][n] = "none"

EndsOnce(s) == \A n \in Serials : life[s][n] \notin {"broken", "denied"}
Live(s)  == (\A n \in Serials : Token(s, n)) /\ Owned(s) /\ Counted(s)
Once(s) ==
  bound[s] <= 1 =>
    /\ EndsOnce(s)
    /\ bound[s] = 0 => Unborn(s)
    /\ target[s] => Live(s)
FirstBinding == \A s \in Sinks : Once(s)

-----------------------------------------------------------------------------
(* What a step leaves of the tokens it is not about.                       *)

\* The tokens of sink s of serial n are where they were.
Untouched(s, n) ==
  /\ (n > serial' <=> n > serial) /\ (n <= serial' <=> n <= serial)
  /\ epoch'[s] = epoch[s] /\ life'[s][n] = life[s][n] /\ told'[s][n] = told[s][n]
  /\ CallsOf(s, n)' = CallsOf(s, n) /\ HeldOf(s, n)' = HeldOf(s, n)
  /\ \A l \in Lanes :
       /\ lane'[s][l].n = n <=> lane[s][l].n = n
       /\ lane[s][l].n = n => /\ lane'[s][l].busy = lane[s][l].busy
                              /\ lane'[s][l].phase = lane[s][l].phase
                              /\ lane'[s][l].callActive = lane[s][l].callActive
                              /\ lane'[s][l].result = lane[s][l].result
  /\ \A b \in Batches :
       /\ Taken(b, s, n)' <=> Taken(b, s, n)
       /\ Taken(b, s, n) =>
            /\ batch'[b].targets[s].epoch = batch[b].targets[s].epoch
            /\ batch'[b].targets[s].published = batch[b].targets[s].published
            /\ (batch[b].targets[s].committed => batch[b].targets[s].published) =>
                 (batch'[b].targets[s].committed => batch'[b].targets[s].published)

\* A token that a step leaves alone stays where it is.
LEMMA TokenStays ==
  ASSUME NEW s \in Sinks, NEW n \in Serials, Untouched(s, n), Token(s, n)
  PROVE  Token(s, n)'
<1>1. CASE Future(s, n)
  <2>1. Future(s, n)'
    BY <1>1 DEF Future, Untouched, Free, NoLaneHas
  <2> QED BY <2>1 DEF Token
<1>2. ASSUME NEW b \in Batches, InBatch(s, n, b) PROVE Token(s, n)'
  <2>1. InBatch(s, n, b)'
    BY <1>2 DEF InBatch, Untouched, NoLaneHas
  <2> QED BY <2>1 DEF Token
<1>3. ASSUME NEW l \in Lanes, InLane(s, n, l) PROVE Token(s, n)'
  <2>1. lane'[s][l].busy /\ lane'[s][l].n = n /\ \A k \in Lanes : lane'[s][k].n = n => k = l
    BY <1>3 DEF InLane, Untouched
  <2>2. Free(s, n)' /\ n <= serial'
    BY <1>3 DEF InLane, Untouched, Free
  <2>3. /\ \A c \in CallsOf(s, n)' : c.l = l /\ c.epoch = epoch'[s]
        /\ \A h \in HeldOf(s, n)' : h.l = l /\ h.epoch = epoch'[s]
    BY <1>3 DEF InLane, Untouched
  <2>4. Stage(lane[s][l].phase, lane[s][l].callActive, lane[s][l].result, CallsOf(s, n),
              HeldOf(s, n), life[s][n], told[s][n])'
    BY <1>3, Zenon DEF InLane, Untouched
  <2>5. InLane(s, n, l)'
    BY <2>1, <2>2, <2>3, <2>4, Zenon DEF InLane
  <2> QED BY <2>5 DEF Token
<1>4. CASE Gone(s, n)
  <2>1. Gone(s, n)'
    BY <1>4 DEF Gone, Untouched, Free, NoLaneHas
  <2> QED BY <2>1 DEF Token
<1> QED BY <1>1, <1>2, <1>3, <1>4 DEF Token

\* A handler that goes on is the same thread about the same lane.
LEMMA CallsMoved ==
  ASSUME CallType, NEW c \in calls, NEW pc, NEW r, Moves(c, pc, r)
  PROVE  \E d : /\ d.by = c.by /\ d.s = c.s /\ d.l = c.l /\ d.n = c.n /\ d.epoch = c.epoch
                /\ d.pc = pc /\ d.result = r /\ calls' = (calls \ {c}) \cup {d}
                /\ CallsOf(c.s, c.n)' = (CallsOf(c.s, c.n) \ {c}) \cup {d}
                /\ \A s, n : s # c.s \/ n # c.n => CallsOf(s, n)' = CallsOf(s, n)
<1>1. c \in CallRec
  BY DEF CallType
<1>2. PICK d : d = [c EXCEPT !.pc = pc, !.result = r]
  OBVIOUS
<1>3. /\ d.by = c.by /\ d.s = c.s /\ d.l = c.l /\ d.n = c.n /\ d.epoch = c.epoch
      /\ d.pc = pc /\ d.result = r
  BY <1>1, <1>2 DEF CallRec
<1>4. calls' = (calls \ {c}) \cup {d}
  BY <1>2 DEF Moves
<1>5. /\ CallsOf(c.s, c.n)' = (CallsOf(c.s, c.n) \ {c}) \cup {d}
      /\ \A s, n : s # c.s \/ n # c.n => CallsOf(s, n)' = CallsOf(s, n)
  BY <1>3, <1>4, Zenon DEF CallsOf
<1> QED BY <1>3, <1>4, <1>5

\* A handler that returns.
LEMMA CallsReturned ==
  ASSUME NEW c \in calls, Returns(c)
  PROVE  /\ CallsOf(c.s, c.n)' = CallsOf(c.s, c.n) \ {c}
         /\ \A s, n : s # c.s \/ n # c.n => CallsOf(s, n)' = CallsOf(s, n)
BY Zenon DEF Returns, CallsOf

-----------------------------------------------------------------------------
(* The handlers: a step of one is about the lane and the token of its call. *)

HandlerStep(c) ==
  /\ UNCHANGED <<active, target, epoch, unbind, bound, batch, serial>>
  /\ OthersKept(c)
  /\ \/ lane' = lane
     \/ LaneOf(c).n = c.n /\ (LaneOf(c)'.n = c.n \/ (LaneOf(c)'.n = 0 /\ ~LaneOf(c)'.busy))
  /\ (\E pc, r : Moves(c, pc, r)) \/ Returns(c)
  /\ \A h : ~(h.s = c.s /\ h.n = c.n) => (h \in held' <=> h \in held)
  /\ \A s \in Sinks, n \in Serials : s # c.s \/ n # c.n =>
       life'[s][n] = life[s][n] /\ told'[s][n] = told[s][n]

\* The tokens a handler is not about stay where they are.
LEMMA HandlerOthers ==
  ASSUME Types, NEW c \in calls, HandlerStep(c), NEW s \in Sinks, NEW n \in Serials,
         s # c.s \/ n # c.n
  PROVE  Token(s, n) => Token(s, n)'
<1>1. c.s \in Sinks /\ c.l \in Lanes /\ c.n \in Serials /\ c.n # 0 /\ n # 0
  BY CallFields, HubAssumption DEF Types, Serials
<1>2. CallsOf(s, n)' = CallsOf(s, n)
  <2>1. CASE Returns(c)
    BY <2>1, CallsReturned
  <2>2. ASSUME NEW pc, NEW r, Moves(c, pc, r) PROVE CallsOf(s, n)' = CallsOf(s, n)
    BY <2>2, CallsMoved DEF Types
  <2> QED BY <2>1, <2>2 DEF HandlerStep
<1>3. HeldOf(s, n)' = HeldOf(s, n)
  BY DEF HeldOf, HandlerStep
<1>4. \A l \in Lanes : \/ lane'[s][l] = lane[s][l]
                       \/ lane[s][l].n # n /\ lane'[s][l].n # n
  BY <1>1 DEF HandlerStep, OthersKept, LaneOf
<1>5. /\ epoch' = epoch /\ serial' = serial /\ batch' = batch
      /\ life'[s][n] = life[s][n] /\ told'[s][n] = told[s][n]
  BY DEF HandlerStep
<1>6. \A b \in Batches :
        /\ Taken(b, s, n)' <=> Taken(b, s, n)
        /\ batch'[b] = batch[b]
  BY <1>5 DEF Taken
<1>7. Untouched(s, n)
  BY <1>2, <1>3, <1>4, <1>5, <1>6 DEF Untouched
<1> QED BY <1>7, TokenStays

\* The lanes that belong to targets stay theirs.
LEMMA HandlerOwned ==
  ASSUME TypeOK, NEW c \in calls, HandlerStep(c), NEW s \in Sinks, Owned(s)
  PROVE  Owned(s)'
<1>1. c.s \in Sinks /\ c.l \in Lanes /\ c.n # 0
  BY CallFields DEF TypeOK, Types
<1>2. \A l \in Lanes : \/ lane'[s][l] = lane[s][l]
                       \/ lane[s][l].n # 0 /\ (lane'[s][l].n # 0 \/ ~lane'[s][l].busy)
  BY <1>1 DEF HandlerStep, OthersKept, LaneOf
<1>3. \A b \in Batches, l \in Lanes : Has(b, s, l)' <=> Has(b, s, l)
  BY DEF HandlerStep, Has
<1> SUFFICES ASSUME NEW l \in Lanes
             PROVE  /\ \A b \in Batches : Has(b, s, l)' => lane'[s][l].busy /\ lane'[s][l].n = 0
                    /\ \A a, b \in Batches : Has(a, s, l)' /\ Has(b, s, l)' => a = b
                    /\ lane'[s][l].busy /\ lane'[s][l].n = 0 => \E b \in Batches : Has(b, s, l)'
  BY DEF Owned
<1>4. /\ \A b \in Batches : Has(b, s, l) => lane[s][l].busy /\ lane[s][l].n = 0
      /\ \A a, b \in Batches : Has(a, s, l) /\ Has(b, s, l) => a = b
      /\ lane[s][l].busy /\ lane[s][l].n = 0 => \E b \in Batches : Has(b, s, l)
  BY DEF Owned
<1> QED BY <1>2, <1>3, <1>4

\* A sink that was never bound has no handler.
LEMMA HandlerUnborn ==
  ASSUME TypeOK, NEW c \in calls, HandlerStep(c), NEW s \in Sinks, Unborn(s)
  PROVE  s # c.s /\ Unborn(s)'
<1>1. c.s # s
  BY DEF Unborn
<1>2. \A d \in calls' : d.s # s
  <2>1. CASE Returns(c)
    BY <2>1 DEF Unborn, Returns
  <2>2. ASSUME NEW pc, NEW r, Moves(c, pc, r) PROVE \A d \in calls' : d.s # s
    <3>1. PICK d : d.s = c.s /\ calls' = (calls \ {c}) \cup {d}
      BY <2>2, CallsMoved DEF TypeOK, Types
    <3> QED BY <1>1, <3>1 DEF Unborn
  <2> QED BY <2>1, <2>2 DEF HandlerStep
<1>3. \A h \in held' : h.s # s
  BY <1>1 DEF Unborn, HandlerStep
<1>4. \A n \in Serials : life'[s][n] = "none" /\ told'[s][n] = "none"
  BY <1>1 DEF Unborn, HandlerStep
<1>5. UNCHANGED <<active, target, unbind, batch>>
  BY DEF HandlerStep
<1> QED BY <1>1, <1>2, <1>3, <1>4, <1>5, Zenon DEF Unborn

\* What is left to show of a handler: its own token, the count, and the sink's history.
LEMMA HandlerKeeps ==
  ASSUME TypeOK, FirstBinding, NEW c \in calls, HandlerStep(c),
         bound[c.s] <= 1 /\ target[c.s] => Token(c.s, c.n)',
         bound[c.s] <= 1 => EndsOnce(c.s)',
         \A s \in Sinks : bound[s] <= 1 /\ target[s] => Counted(s)'
  PROVE  FirstBinding'
<1>1. UNCHANGED <<active, target, unbind, bound>>
  BY DEF HandlerStep
<1>2. ASSUME NEW s \in Sinks, bound[s] <= 1 PROVE Once(s)'
  <2>1. EndsOnce(s)'
    <3>1. CASE s = c.s
      BY <1>2, <3>1
    <3>2. CASE s # c.s
      <4>1. \A n \in Serials : life'[s][n] = life[s][n]
        BY <3>2 DEF HandlerStep
      <4>2. EndsOnce(s)
        BY <1>2 DEF FirstBinding, Once
      <4> QED BY <4>1, <4>2 DEF EndsOnce
    <3> QED BY <3>1, <3>2
  <2>2. bound[s] = 0 => Unborn(s)'
    BY <1>2, HandlerUnborn DEF FirstBinding, Once
  <2>3. ASSUME target[s] PROVE Live(s)'
    <3>1. (\A n \in Serials : Token(s, n)) /\ Owned(s)
      BY <1>2, <2>3 DEF FirstBinding, Once, Live
    <3>2. Owned(s)' /\ Counted(s)'
      BY <1>2, <2>3, <3>1, HandlerOwned
    <3>3. ASSUME NEW n \in Serials PROVE Token(s, n)'
      <4>1. CASE s = c.s /\ n = c.n
        BY <1>2, <2>3, <4>1
      <4>2. CASE s # c.s \/ n # c.n
        BY <3>1, <4>2, HandlerOthers DEF TypeOK
      <4> QED BY <4>1, <4>2
    <3> QED BY <3>2, <3>3 DEF Live
  <2> QED BY <1>1, <2>1, <2>2, <2>3 DEF Once
<1> QED BY <1>1, <1>2 DEF FirstBinding, Once

\* The count when no lane and no handler begins or ends to count.
LEMMA HandlerCounts ==
  ASSUME TypeOK, FirstBinding, NEW c \in calls, HandlerStep(c), outstanding' = outstanding,
         LaneOf(c)'.busy = LaneOf(c).busy \/ lane' = lane,
         c.pc # "sub", Returns(c) \/ \E pc, r : pc # "sub" /\ Moves(c, pc, r)
  PROVE  \A s \in Sinks : bound[s] <= 1 /\ target[s] => Counted(s)'
<1> SUFFICES ASSUME NEW s \in Sinks, bound[s] <= 1, target[s] PROVE Counted(s)'
  OBVIOUS
<1>1. Counted(s)
  BY DEF FirstBinding, Once, Live
<1>2. Busy(s)' = Busy(s)
  BY DEF Busy, HandlerStep, OthersKept, LaneOf
<1>3. Counting(s)' = Counting(s)
  <2>1. CASE Returns(c)
    BY <2>1 DEF Counting, Returns
  <2>2. ASSUME NEW pc, NEW r, pc # "sub", Moves(c, pc, r) PROVE Counting(s)' = Counting(s)
    <3>1. PICK d : d.pc = pc /\ calls' = (calls \ {c}) \cup {d}
      BY <2>2, CallsMoved DEF TypeOK, Types
    <3> QED BY <2>2, <3>1 DEF Counting
  <2> QED BY <2>1, <2>2
<1> QED BY <1>1, <1>2, <1>3 DEF Counted

\* Where the token of a handler's call can be.
LEMMA CallPlace ==
  ASSUME TypeOK, FirstBinding, NEW c \in calls, bound[c.s] <= 1, target[c.s]
  PROVE  InLane(c.s, c.n, c.l) \/ Gone(c.s, c.n)
<1>1. c.s \in Sinks /\ c.n \in Serials /\ c \in CallsOf(c.s, c.n)
  BY CallFields DEF TypeOK, Types, CallsOf
<1>2. Token(c.s, c.n)
  BY <1>1 DEF FirstBinding, Once, Live
<1>3. ~Future(c.s, c.n) /\ \A b \in Batches : ~InBatch(c.s, c.n, b)
  BY <1>1 DEF Future, InBatch
<1>4. ASSUME NEW l \in Lanes, InLane(c.s, c.n, l) PROVE InLane(c.s, c.n, c.l)
  BY <1>1, <1>4 DEF InLane
<1> QED BY <1>2, <1>3, <1>4 DEF Token

\* What is left to show of a token that stays in its lane is its stage.
LEMMA LaneStays ==
  ASSUME TypeOK, NEW c \in calls, HandlerStep(c), InLane(c.s, c.n, c.l),
         LaneOf(c)'.n = c.n, LaneOf(c)'.busy = LaneOf(c).busy,
         \A h \in HeldOf(c.s, c.n)' : h \in HeldOf(c.s, c.n) \/ (h.l = c.l /\ h.epoch = c.epoch),
         Stage(LaneOf(c).phase, LaneOf(c).callActive, LaneOf(c).result, CallsOf(c.s, c.n),
               HeldOf(c.s, c.n), life[c.s][c.n], told[c.s][c.n])'
  PROVE  Token(c.s, c.n)'
<1>1. c.s \in Sinks /\ c.l \in Lanes /\ c.n \in Serials /\ c \in CallsOf(c.s, c.n)
  BY CallFields DEF TypeOK, Types, CallsOf
<1>2. UNCHANGED <<epoch, batch, serial>>
  BY DEF HandlerStep
<1>3. c.n <= serial' /\ Free(c.s, c.n)' /\ c.epoch = epoch[c.s]
  BY <1>1, <1>2 DEF InLane, Free, Taken
<1>4. \A k \in Lanes : lane'[c.s][k].n = c.n => k = c.l
  BY <1>1 DEF InLane, HandlerStep, OthersKept
<1>5. \A d \in CallsOf(c.s, c.n)' : d.l = c.l /\ d.epoch = epoch'[c.s]
  <2>1. \A d \in CallsOf(c.s, c.n) : d.l = c.l /\ d.epoch = epoch'[c.s]
    BY <1>2 DEF InLane
  <2>2. CASE Returns(c)
    BY <2>1, <2>2, CallsReturned
  <2>3. ASSUME NEW pc, NEW r, Moves(c, pc, r)
        PROVE  \A d \in CallsOf(c.s, c.n)' : d.l = c.l /\ d.epoch = epoch'[c.s]
    <3>1. PICK e : /\ e.l = c.l /\ e.epoch = c.epoch
                   /\ CallsOf(c.s, c.n)' = (CallsOf(c.s, c.n) \ {c}) \cup {e}
      BY <2>3, CallsMoved DEF TypeOK, Types
    <3> QED BY <1>2, <1>3, <2>1, <3>1
  <2> QED BY <2>2, <2>3 DEF HandlerStep
<1>6. \A h \in HeldOf(c.s, c.n)' : h.l = c.l /\ h.epoch = epoch'[c.s]
  BY <1>2, <1>3 DEF InLane
<1>7. InLane(c.s, c.n, c.l)'
  BY <1>3, <1>4, <1>5, <1>6, Zenon DEF InLane, LaneOf
<1> QED BY <1>1, <1>7 DEF Token

\* A handler that finds its lane freed changes nothing.
LEMMA GoneStays ==
  ASSUME TypeOK, NEW c \in calls, HandlerStep(c), Gone(c.s, c.n), lane' = lane,
         Returns(c) \/ \E pc, r : pc \notin {"call", "settle", "sub"} /\ Moves(c, pc, r)
  PROVE  Token(c.s, c.n)'
<1>1. UNCHANGED <<batch, serial>>
  BY DEF HandlerStep
<1>2. c.n <= serial' /\ Free(c.s, c.n)' /\ NoLaneHas(c.s, c.n)'
  BY <1>1 DEF Gone, Free, Taken, NoLaneHas
<1>3. \A d \in CallsOf(c.s, c.n)' : d \in CallsOf(c.s, c.n) \/ (~Claims(d) /\ d.pc # "sub")
  <2>1. CASE Returns(c)
    BY <2>1, CallsReturned
  <2>2. ASSUME NEW pc, NEW r, pc \notin {"call", "settle", "sub"}, Moves(c, pc, r)
        PROVE  \A d \in CallsOf(c.s, c.n)' : d \in CallsOf(c.s, c.n) \/ (~Claims(d) /\ d.pc # "sub")
    BY <2>2, CallsMoved DEF TypeOK, Types, Claims
  <2> QED BY <2>1, <2>2
<1>4. Gone(c.s, c.n)'
  BY <1>2, <1>3 DEF Gone
<1> QED BY <1>4 DEF Token

\* Nor does one that finds its lane claimed by another.
LEMMA ClaimedStays ==
  ASSUME TypeOK, NEW c \in calls, HandlerStep(c), InLane(c.s, c.n, c.l), lane' = lane,
         LaneOf(c).phase = "COMPLETING", ~Claims(c), Returns(c), held' \subseteq held,
         life'[c.s][c.n] = life[c.s][c.n], told'[c.s][c.n] = told[c.s][c.n]
  PROVE  Token(c.s, c.n)'
<1> DEFINE C == CallsOf(c.s, c.n)
<1>1. C' = C \ {c}
  BY CallsReturned
<1>2. \E d \in C : /\ Claims(d)
                   /\ d.pc = "call" => life[c.s][c.n] = "published" /\ told[c.s][c.n] \in {"none", d.result}
                   /\ \A e \in C : e = d \/ (~Claims(e) /\ e.pc # "sub")
  BY DEF InLane, Stage, ToFill, Filling, Filled, Pending, Canceling, Canceled, Completing, LaneOf
<1>3. \E d \in C' : /\ Claims(d)
                    /\ d.pc = "call" => life'[c.s][c.n] = "published" /\ told'[c.s][c.n] \in {"none", d.result}
                    /\ \A e \in C' : e = d \/ (~Claims(e) /\ e.pc # "sub")
  BY <1>1, <1>2
<1>4. LaneOf(c)' = LaneOf(c) /\ LaneOf(c).n = c.n
  BY DEF LaneOf, InLane
<1>5. HeldOf(c.s, c.n)' \subseteq HeldOf(c.s, c.n)
  BY DEF HeldOf
<1>6. Stage(LaneOf(c).phase, LaneOf(c).callActive, LaneOf(c).result, CallsOf(c.s, c.n),
               HeldOf(c.s, c.n), life[c.s][c.n], told[c.s][c.n])'
  BY <1>3, <1>4 DEF Stage, Completing
<1> QED BY <1>4, <1>5, <1>6, LaneStays

\* FillLane up to the call of FrameFilled.
LEMMA FillBeginOnce ==
  ASSUME TypeOK, FirstBinding, NEW c \in calls, FillBegin(c) PROVE FirstBinding'
<1> DEFINE C == CallsOf(c.s, c.n)
           H == HeldOf(c.s, c.n)
           acts == /\ LaneOf(c).phase = "FILLING" /\ LaneOf(c).n = c.n
                   /\ LaneOf(c)'.phase = "FILLING" /\ LaneOf(c)'.n = c.n
                   /\ LaneOf(c)'.busy = LaneOf(c).busy /\ LaneOf(c)'.result = LaneOf(c).result
                   /\ LaneOf(c)'.callActive = TRUE
                   /\ Moves(c, "filled", "none")
                   /\ \/ held' = held \cup {[s |-> c.s, l |-> c.l, n |-> c.n, epoch |-> c.epoch]}
                      \/ held' = held
           rests == /\ ~(LaneOf(c).phase = "FILLING" /\ LaneOf(c).n = c.n)
                    /\ Returns(c) /\ lane' = lane /\ held' = held
<1>0. Types
  BY DEF TypeOK
<1>1. /\ OthersKept(c) /\ c.pc = "fill" /\ (acts \/ rests)
      /\ UNCHANGED <<active, target, epoch, unbind, bound, outstanding, batch, serial, life, told>>
  BY <1>0, FillBeginEffect
<1>2. c.s \in Sinks /\ c.l \in Lanes /\ c.n \in Serials /\ c \in C
  BY <1>0, CallFields DEF Types, CallsOf
<1>3. HandlerStep(c)
  <2>1. \A h : ~(h.s = c.s /\ h.n = c.n) => (h \in held' <=> h \in held)
    BY <1>1
  <2>2. \/ lane' = lane
        \/ LaneOf(c).n = c.n /\ LaneOf(c)'.n = c.n
    BY <1>1
  <2>3. (\E pc, r : Moves(c, pc, r)) \/ Returns(c)
    BY <1>1
  <2> QED BY <1>1, <2>1, <2>2, <2>3 DEF HandlerStep
<1>4. ASSUME bound[c.s] <= 1, target[c.s] PROVE Token(c.s, c.n)'
  <2>1. CASE Gone(c.s, c.n)
    <3>1. LaneOf(c).n # c.n
      BY <1>2, <2>1 DEF Gone, NoLaneHas, LaneOf
    <3> QED BY <1>1, <1>3, <2>1, <3>1, GoneStays
  <2>2. CASE InLane(c.s, c.n, c.l)
    <3>1. \/ LaneOf(c).phase = "COMPLETING"
          \/ ToFill(LaneOf(c).phase, LaneOf(c).callActive, LaneOf(c).result, C, H,
                    life[c.s][c.n], told[c.s][c.n])
      BY <1>1, <1>2, <2>2
      DEF InLane, Stage, Filling, Filled, Pending, Canceling, Canceled, Completing, LaneOf, Waiting, FromSink
    <3>2. CASE LaneOf(c).phase = "COMPLETING"
      BY <1>1, <1>3, <2>2, <3>2, ClaimedStays DEF Claims
    <3>3. CASE ToFill(LaneOf(c).phase, LaneOf(c).callActive, LaneOf(c).result, C, H,
                    life[c.s][c.n], told[c.s][c.n])
      <4>1. acts
        <5>1. LaneOf(c).phase = "FILLING" /\ LaneOf(c).n = c.n
          BY <2>2, <3>3 DEF ToFill, InLane, LaneOf
        <5> QED BY <1>1, <5>1
      <4>2. PICK d : d.by = c.by /\ d.pc = "filled" /\ C' = (C \ {c}) \cup {d}
        BY <4>1, <1>0, CallsMoved DEF Types
      <4>3. C = {c} /\ c.by # "sink" /\ H = {}
        BY <1>2, <3>3 DEF ToFill
      <4>4. C' = {d}
        BY <4>2, <4>3
      <4>5. H' \subseteq {[s |-> c.s, l |-> c.l, n |-> c.n, epoch |-> c.epoch]}
        BY <4>1, <4>3 DEF HeldOf
      <4>6. Filling(LaneOf(c).phase, LaneOf(c).callActive, LaneOf(c).result, C, H,
                    life[c.s][c.n], told[c.s][c.n])'
        <5>1. AnswersOnce(C', H')
          BY <4>2, <4>3, <4>4, <4>5 DEF AnswersOnce
        <5> QED BY <1>1, <3>3, <4>1, <4>2, <4>3, <4>4, <5>1 DEF ToFill, Filling
      <4>7. \A h \in H' : h.l = c.l /\ h.epoch = c.epoch
        BY <4>5
      <4> QED BY <1>3, <2>2, <4>1, <4>6, <4>7, LaneStays, Zenon DEF Stage
    <3> QED BY <3>1, <3>2, <3>3, ZenonT(60)
  <2> QED BY <1>4, <2>1, <2>2, CallPlace
<1>5. bound[c.s] <= 1 => EndsOnce(c.s)'
  BY <1>1, <1>2 DEF FirstBinding, Once, EndsOnce
<1>6. \A s \in Sinks : bound[s] <= 1 /\ target[s] => Counted(s)'
  <2>1. LaneOf(c)'.busy = LaneOf(c).busy \/ lane' = lane
    BY <1>1
  <2>2. c.pc # "sub" /\ (Returns(c) \/ \E pc, r : pc # "sub" /\ Moves(c, pc, r))
    BY <1>1
  <2> QED BY <1>1, <1>3, <2>1, <2>2, HandlerCounts
<1> QED BY <1>3, <1>4, <1>5, <1>6, HandlerKeeps

\* The sink still answers once when calls and held tokens go.
LEMMA AnswersOnceLess ==
  ASSUME NEW C, NEW H, NEW C2, NEW H2, AnswersOnce(C, H), H2 \subseteq H,
         \A c \in C2 : c \in C \/ c.by # "sink"
  PROVE  AnswersOnce(C2, H2)
BY DEF AnswersOnce

\* What the hub hears of the sink.
LEMMA HearFromFact ==
  ASSUME HistoryType, NEW s \in Sinks, NEW n \in Serials, NEW r, HearFrom(s, n, r)
  PROVE  /\ told'[s][n] = IF told[s][n] = "none" THEN r ELSE told[s][n]
         /\ \A q \in Sinks, m \in Serials : q # s \/ m # n => told'[q][m] = told[q][m]
BY DEF HistoryType, HearFrom

\* FillLane after FrameFilled.
LEMMA FillEndOnce ==
  ASSUME TypeOK, FirstBinding, NEW c \in calls, NEW fill \in {"READY", "PENDING", "REJECTED"},
         FillEnd(c, fill)
  PROVE  FirstBinding'
<1> DEFINE C == CallsOf(c.s, c.n)
           H == HeldOf(c.s, c.n)
           answer == IF fill = "READY" THEN "READY" ELSE "FAILED"
           kept == /\ LaneOf(c).result # "none" /\ LaneOf(c)'.phase = "FILLING"
                   /\ LaneOf(c)'.result = "none"
                   /\ Moves(c, "complete", LaneOf(c).result) /\ told' = told
           answered == /\ LaneOf(c).result = "none" /\ LaneOf(c)'.phase = "FILLING"
                       /\ LaneOf(c)'.result = "none"
                       /\ Moves(c, "complete", answer) /\ HearFrom(c.s, c.n, answer)
           left == /\ LaneOf(c).result = "none" /\ LaneOf(c)'.phase = "PENDING"
                   /\ LaneOf(c)'.result = "none"
                   /\ Moves(c, "cancel", "none") \/ Returns(c)
                   /\ told' = told
           acts == /\ LaneOf(c).phase = "FILLING" /\ LaneOf(c).n = c.n
                   /\ LaneOf(c)'.n = c.n /\ LaneOf(c)'.busy = LaneOf(c).busy
                   /\ LaneOf(c)'.callActive = FALSE
                   /\ kept \/ answered \/ left
           rests == /\ ~(LaneOf(c).phase = "FILLING" /\ LaneOf(c).n = c.n)
                    /\ Returns(c) /\ lane' = lane /\ told' = told
<1>0. Types /\ HistoryType
  BY DEF TypeOK, Types
<1>1. /\ OthersKept(c) /\ c.pc = "filled" /\ (acts \/ rests) /\ held' \subseteq held
      /\ UNCHANGED <<active, target, epoch, unbind, bound, outstanding, batch, serial, life>>
  BY <1>0, FillEndEffect, Zenon
<1>2. c.s \in Sinks /\ c.l \in Lanes /\ c.n \in Serials /\ c \in C
  BY <1>0, CallFields DEF Types, CallsOf
<1>3. HandlerStep(c)
  <2>1. \A h : ~(h.s = c.s /\ h.n = c.n) => (h \in held' <=> h \in held)
    BY DEF FillEnd
  <2>2. \/ lane' = lane
        \/ LaneOf(c).n = c.n /\ LaneOf(c)'.n = c.n
    BY <1>1
  <2>3. (\E pc, r : Moves(c, pc, r)) \/ Returns(c)
    BY <1>1, Zenon
  <2>4. \A s \in Sinks, n \in Serials : s # c.s \/ n # c.n =>
          life'[s][n] = life[s][n] /\ told'[s][n] = told[s][n]
    <3>1. CASE answered
      BY <1>0, <1>1, <1>2, <3>1, HearFromFact
    <3>2. CASE told' = told
      BY <1>1, <3>2
    <3> QED BY <1>1, <3>1, <3>2
  <2> QED BY <1>1, <2>1, <2>2, <2>3, <2>4 DEF HandlerStep
<1>4. ASSUME bound[c.s] <= 1, target[c.s] PROVE Token(c.s, c.n)'
  <2>1. CASE Gone(c.s, c.n)
    <3>1. LaneOf(c).n # c.n
      BY <1>2, <2>1 DEF Gone, NoLaneHas, LaneOf
    <3> QED BY <1>1, <1>3, <2>1, <3>1, GoneStays
  <2>2. CASE InLane(c.s, c.n, c.l)
    <3>1. \/ LaneOf(c).phase = "COMPLETING"
          \/ Filling(LaneOf(c).phase, LaneOf(c).callActive, LaneOf(c).result, C, H,
                     life[c.s][c.n], told[c.s][c.n])
      BY <1>1, <1>2, <2>2
      DEF InLane, Stage, ToFill, Filled, Pending, Canceling, Canceled, Completing, LaneOf, Waiting, FromSink
    <3>2. CASE LaneOf(c).phase = "COMPLETING"
      BY <1>1, <1>3, <2>2, <3>2, ClaimedStays DEF Claims
    <3>3. CASE Filling(LaneOf(c).phase, LaneOf(c).callActive, LaneOf(c).result, C, H,
                       life[c.s][c.n], told[c.s][c.n])
      <4>1. acts
        <5>1. LaneOf(c).phase = "FILLING" /\ LaneOf(c).n = c.n
          BY <2>2, <3>3 DEF Filling, InLane, LaneOf
        <5> QED BY <1>1, <5>1
      <4>2. /\ LaneOf(c).result = told[c.s][c.n] /\ life[c.s][c.n] = "published" /\ AnswersOnce(C, H)
            /\ c.by # "sink" /\ \A d \in C : d = c \/ (d.by = "sink" /\ d.pc = "done")
        BY <1>1, <1>2, <3>3 DEF Filling
      <4>3. H' \subseteq H /\ life' = life
        BY <1>1 DEF HeldOf
      <4>4. ASSUME NEW r, Moves(c, "complete", r), r = told'[c.s][c.n], LaneOf(c)'.phase = "FILLING",
                   LaneOf(c)'.result = "none"
            PROVE  Stage(LaneOf(c).phase, LaneOf(c).callActive, LaneOf(c).result, C, H,
                          life[c.s][c.n], told[c.s][c.n])'
        <5>1. PICK d : d.pc = "complete" /\ d.result = r /\ C' = (C \ {c}) \cup {d}
          BY <4>4, <1>0, CallsMoved DEF Types
        <5>2. \E e \in C' : /\ e.pc = "complete" /\ e.result = told'[c.s][c.n]
                            /\ \A g \in C' : g = e \/ g.pc = "done"
          BY <4>2, <4>4, <5>1
        <5> QED BY <4>1, <4>2, <4>3, <4>4, <5>2, Zenon DEF Stage, Filled
      <4>5. Stage(LaneOf(c).phase, LaneOf(c).callActive, LaneOf(c).result, C, H,
                  life[c.s][c.n], told[c.s][c.n])'
        <5>1. CASE kept
          <6>1. told'[c.s][c.n] = LaneOf(c).result
            BY <4>2, <5>1
          <6> QED BY <4>4, <5>1, <6>1, Zenon
        <5>2. CASE answered
          <6>1. told'[c.s][c.n] = answer
            BY <1>0, <1>2, <4>2, <5>2, HearFromFact, ZenonT(60)
          <6> QED BY <4>4, <5>2, <6>1, Zenon
        <5>3. CASE left
          <6>1. \A d \in C' : Waiting(d) \/ d \in C \ {c}
            <7>1. CASE Returns(c)
              BY <7>1, CallsReturned
            <7>2. CASE Moves(c, "cancel", "none")
              BY <1>0, <4>2, <7>2, CallsMoved DEF Types, Waiting
            <7> QED BY <5>3, <7>1, <7>2
          <6>2. \A d \in C' : Waiting(d) \/ FromSink(d)
            BY <4>2, <6>1 DEF FromSink
          <6>3. AnswersOnce(C', H')
            BY <4>2, <4>3, <6>1, AnswersOnceLess DEF Waiting
          <6>4. told'[c.s][c.n] = "none" /\ life'[c.s][c.n] = "published"
            BY <4>2, <4>3, <5>3
          <6> QED BY <4>1, <5>3, <6>2, <6>3, <6>4, Zenon DEF Stage, Pending
        <5> QED BY <4>1, <5>1, <5>2, <5>3, Zenon
      <4> QED BY <1>3, <2>2, <4>1, <4>3, <4>5, LaneStays, Zenon
    <3> QED BY <3>1, <3>2, <3>3, ZenonT(60)
  <2> QED BY <1>4, <2>1, <2>2, CallPlace
<1>5. bound[c.s] <= 1 => EndsOnce(c.s)'
  BY <1>1, <1>2 DEF FirstBinding, Once, EndsOnce
<1>6. \A s \in Sinks : bound[s] <= 1 /\ target[s] => Counted(s)'
  <2>1. LaneOf(c)'.busy = LaneOf(c).busy \/ lane' = lane
    BY <1>1
  <2>2. c.pc # "sub" /\ (Returns(c) \/ \E pc, r : pc # "sub" /\ Moves(c, pc, r))
    BY <1>1, Zenon
  <2> QED BY <1>1, <1>3, <2>1, <2>2, HandlerCounts
<1> QED BY <1>3, <1>4, <1>5, <1>6, HandlerKeeps

\* A handler that has nothing to do returns: a cancellation or a callback.
LEMMA DropStays ==
  ASSUME TypeOK, NEW c \in calls, HandlerStep(c), InLane(c.s, c.n, c.l) \/ Gone(c.s, c.n), lane' = lane,
         c.pc \in {"cancel", "done"}, Returns(c), held' = held,
         life'[c.s][c.n] = life[c.s][c.n], told'[c.s][c.n] = told[c.s][c.n]
  PROVE  Token(c.s, c.n)'
<1> DEFINE C == CallsOf(c.s, c.n)
           H == HeldOf(c.s, c.n)
<1>1. CASE Gone(c.s, c.n)
  BY <1>1, GoneStays
<1>2. CASE InLane(c.s, c.n, c.l)
  <2>1. C' = C \ {c} /\ c \in C
    BY CallsReturned, ZenonT(60) DEF CallsOf
  <2>2. LaneOf(c)' = LaneOf(c) /\ LaneOf(c).n = c.n /\ H' = H
    BY <1>2 DEF LaneOf, InLane, HeldOf
  <2>3. PICK D, G, p, a, r, f, t :
          /\ D = C /\ G = H /\ p = LaneOf(c).phase /\ a = LaneOf(c).callActive
          /\ r = LaneOf(c).result /\ f = life[c.s][c.n] /\ t = told[c.s][c.n]
    OBVIOUS
  <2>4. Stage(p, a, r, D, G, f, t)
    BY <1>2, <2>3, Zenon DEF InLane, LaneOf
  <2>5. Stage(p, a, r, D \ {c}, G, f, t)
    <3>1. c \in D
      BY <2>1, <2>3
    <3>2. ~ToFill(p, a, r, D, G, f, t)
      BY <3>1 DEF ToFill
    <3>3. CASE Filling(p, a, r, D, G, f, t)
      BY <3>1, <3>3 DEF Stage, Filling, AnswersOnce
    <3>4. CASE Filled(p, a, r, D, G, f, t)
      BY <3>1, <3>4 DEF Stage, Filled
    <3>5. CASE Pending(p, a, r, D, G, f, t)
      BY <3>1, <3>5 DEF Stage, Pending, AnswersOnce
    <3>6. CASE Canceling(p, a, r, D, G, f, t)
      BY <3>1, <3>6 DEF Stage, Canceling, AnswersOnce, NoAnswer
    <3>7. CASE Canceled(p, a, r, D, G, f, t)
      BY <3>1, <3>7 DEF Stage, Canceled, NoAnswer
    <3>8. CASE Completing(p, a, r, D, G, f, t)
      BY <3>1, <3>8 DEF Stage, Completing, Claims
    <3> QED BY <2>4, <3>2, <3>3, <3>4, <3>5, <3>6, <3>7, <3>8 DEF Stage
  <2>6. Stage(LaneOf(c).phase, LaneOf(c).callActive, LaneOf(c).result, CallsOf(c.s, c.n),
               HeldOf(c.s, c.n), life[c.s][c.n], told[c.s][c.n])'
    BY <2>1, <2>2, <2>3, <2>5, Zenon
  <2> QED BY <1>2, <2>2, <2>6, LaneStays
<1> QED BY <1>1, <1>2

\* CancelLane up to the call of CancelFrame.
LEMMA CancelBeginOnce ==
  ASSUME TypeOK, FirstBinding, NEW c \in calls, CancelBegin(c) PROVE FirstBinding'
<1> DEFINE C == CallsOf(c.s, c.n)
           H == HeldOf(c.s, c.n)
           acts == /\ LaneOf(c).phase = "PENDING" /\ LaneOf(c).n = c.n
                   /\ LaneOf(c)'.phase = "CANCELING" /\ LaneOf(c)'.n = c.n
                   /\ LaneOf(c)'.busy = LaneOf(c).busy /\ LaneOf(c)'.result = LaneOf(c).result
                   /\ LaneOf(c)'.callActive = TRUE
                   /\ Moves(c, "canceled", "none")
<1>0. Types
  BY DEF TypeOK
<1>1. /\ OthersKept(c) /\ c.pc = "cancel" /\ (acts \/ (Returns(c) /\ lane' = lane))
      /\ UNCHANGED <<active, target, epoch, unbind, bound, outstanding, batch, serial, held, life, told>>
  BY <1>0, CancelBeginEffect
<1>2. c.s \in Sinks /\ c.l \in Lanes /\ c.n \in Serials /\ c \in C
  BY <1>0, CallFields DEF Types, CallsOf
<1>3. HandlerStep(c)
  <2>1. \/ lane' = lane
        \/ LaneOf(c).n = c.n /\ LaneOf(c)'.n = c.n
    BY <1>1
  <2>2. (\E pc, r : Moves(c, pc, r)) \/ Returns(c)
    BY <1>1
  <2> QED BY <1>1, <2>1, <2>2 DEF HandlerStep
<1>4. ASSUME bound[c.s] <= 1, target[c.s] PROVE Token(c.s, c.n)'
  <2>1. CASE Returns(c) /\ lane' = lane
    BY <1>1, <1>3, <1>4, <2>1, CallPlace, DropStays
  <2>2. CASE acts
    <3>1. InLane(c.s, c.n, c.l)
      BY <1>2, <1>4, <2>2, CallPlace DEF Gone, NoLaneHas, LaneOf
    <3>2. Pending(LaneOf(c).phase, LaneOf(c).callActive, LaneOf(c).result, C, H,
                  life[c.s][c.n], told[c.s][c.n])
      BY <2>2, <3>1
      DEF InLane, Stage, ToFill, Filling, Filled, Canceling, Canceled, Completing, LaneOf
    <3>3. /\ LaneOf(c).result = "none" /\ told[c.s][c.n] = "none" /\ life[c.s][c.n] = "published"
          /\ AnswersOnce(C, H) /\ c.by # "sink" /\ \A d \in C : Waiting(d) \/ FromSink(d)
      BY <1>1, <1>2, <3>2 DEF Pending, FromSink, Waiting
    <3>4. PICK d : d.by = c.by /\ d.pc = "canceled" /\ C' = (C \ {c}) \cup {d}
      BY <2>2, <1>0, CallsMoved DEF Types
    <3>5. H' = H /\ life' = life /\ told' = told
      BY <1>1 DEF HeldOf
    <3>6. AnswersOnce(C', H')
      BY <3>3, <3>4, <3>5, AnswersOnceLess
    <3>7. \E e \in C' : /\ e.pc = "canceled" /\ e.by # "sink"
                        /\ \A g \in C' : g = e \/ Waiting(g) \/ FromSink(g)
      BY <3>3, <3>4
    <3>8. Stage(LaneOf(c).phase, LaneOf(c).callActive, LaneOf(c).result, C, H,
                life[c.s][c.n], told[c.s][c.n])'
      BY <2>2, <3>3, <3>5, <3>6, <3>7, Zenon DEF Stage, Canceling
    <3> QED BY <1>3, <2>2, <3>1, <3>5, <3>8, LaneStays, Zenon
  <2> QED BY <1>1, <2>1, <2>2
<1>5. bound[c.s] <= 1 => EndsOnce(c.s)'
  BY <1>1, <1>2 DEF FirstBinding, Once, EndsOnce
<1>6. \A s \in Sinks : bound[s] <= 1 /\ target[s] => Counted(s)'
  <2>1. LaneOf(c)'.busy = LaneOf(c).busy \/ lane' = lane
    BY <1>1
  <2>2. c.pc # "sub" /\ (Returns(c) \/ \E pc, r : pc # "sub" /\ Moves(c, pc, r))
    BY <1>1
  <2> QED BY <1>1, <1>3, <2>1, <2>2, HandlerCounts
<1> QED BY <1>3, <1>4, <1>5, <1>6, HandlerKeeps

\* CancelLane after CancelFrame.
LEMMA CancelEndOnce ==
  ASSUME TypeOK, FirstBinding, NEW c \in calls, CancelEnd(c) PROVE FirstBinding'
<1> DEFINE C == CallsOf(c.s, c.n)
           H == HeldOf(c.s, c.n)
           acts == /\ LaneOf(c).phase = "CANCELING" /\ LaneOf(c).n = c.n
                   /\ LaneOf(c)'.phase = "CANCELING" /\ LaneOf(c)'.n = c.n
                   /\ LaneOf(c)'.busy = LaneOf(c).busy /\ LaneOf(c)'.result = "none"
                   /\ LaneOf(c)'.callActive = FALSE
                   /\ \E r \in Results : /\ Moves(c, "complete", r)
                                         /\ LaneOf(c).result \in {"none", r}
           rests == /\ ~(LaneOf(c).phase = "CANCELING" /\ LaneOf(c).n = c.n)
                    /\ Returns(c) /\ lane' = lane
<1>0. Types
  BY DEF TypeOK
<1>1. /\ OthersKept(c) /\ c.pc = "canceled" /\ (acts \/ rests) /\ held' \subseteq held
      /\ UNCHANGED <<active, target, epoch, unbind, bound, outstanding, batch, serial, life, told>>
  BY <1>0, CancelEndEffect
<1>2. c.s \in Sinks /\ c.l \in Lanes /\ c.n \in Serials /\ c \in C
  BY <1>0, CallFields DEF Types, CallsOf
<1>3. HandlerStep(c)
  <2>1. \A h : ~(h.s = c.s /\ h.n = c.n) => (h \in held' <=> h \in held)
    BY DEF CancelEnd
  <2>2. \/ lane' = lane
        \/ LaneOf(c).n = c.n /\ LaneOf(c)'.n = c.n
    BY <1>1
  <2>3. (\E pc, r : Moves(c, pc, r)) \/ Returns(c)
    BY <1>1
  <2> QED BY <1>1, <2>1, <2>2, <2>3 DEF HandlerStep
<1>4. ASSUME bound[c.s] <= 1, target[c.s] PROVE Token(c.s, c.n)'
  <2>1. CASE Gone(c.s, c.n)
    <3>1. LaneOf(c).n # c.n
      BY <1>2, <2>1 DEF Gone, NoLaneHas, LaneOf
    <3> QED BY <1>1, <1>3, <2>1, <3>1, GoneStays, ZenonT(60)
  <2>2. CASE InLane(c.s, c.n, c.l)
    <3>1. \/ LaneOf(c).phase = "COMPLETING"
          \/ Canceling(LaneOf(c).phase, LaneOf(c).callActive, LaneOf(c).result, C, H,
                       life[c.s][c.n], told[c.s][c.n])
      BY <1>1, <1>2, <2>2
      DEF InLane, Stage, ToFill, Filling, Filled, Pending, Canceled, Completing, LaneOf, Waiting, FromSink
    <3>2. CASE LaneOf(c).phase = "COMPLETING"
      BY <1>1, <1>3, <2>2, <3>2, ClaimedStays DEF Claims
    <3>3. CASE Canceling(LaneOf(c).phase, LaneOf(c).callActive, LaneOf(c).result, C, H,
                         life[c.s][c.n], told[c.s][c.n])
      <4>1. acts
        <5>1. LaneOf(c).phase = "CANCELING" /\ LaneOf(c).n = c.n
          BY <2>2, <3>3 DEF Canceling, InLane, LaneOf
        <5> QED BY <1>1, <5>1
      <4>2. /\ LaneOf(c).result = told[c.s][c.n] /\ life[c.s][c.n] = "published"
            /\ c.by # "sink" /\ \A d \in C : d = c \/ Waiting(d) \/ FromSink(d)
            /\ told[c.s][c.n] # "none" => NoAnswer(C, H)
        BY <1>1, <1>2, <3>3 DEF Canceling, FromSink, Waiting
      <4>3. PICK r : Moves(c, "complete", r) /\ told[c.s][c.n] \in {"none", r}
        BY <4>1, <4>2
      <4>4. PICK d : d.by = c.by /\ d.pc = "complete" /\ d.result = r /\ C' = (C \ {c}) \cup {d}
        BY <4>3, <1>0, CallsMoved DEF Types
      <4>5. H' \subseteq H /\ life' = life /\ told' = told
        BY <1>1 DEF HeldOf
      <4>6. told'[c.s][c.n] # "none" => NoAnswer(C', H')
        BY <4>2, <4>4, <4>5 DEF NoAnswer
      <4>7. \A e \in C' : \/ Waiting(e) \/ FromSink(e)
                          \/ e.by # "sink" /\ e.pc = "complete" /\ told'[c.s][c.n] \in {"none", e.result}
        BY <4>2, <4>3, <4>4, <4>5
      <4>8. Stage(LaneOf(c).phase, LaneOf(c).callActive, LaneOf(c).result, C, H,
                  life[c.s][c.n], told[c.s][c.n])'
        BY <4>1, <4>2, <4>5, <4>6, <4>7, Zenon DEF Stage, Canceled
      <4> QED BY <1>3, <2>2, <4>1, <4>5, <4>8, LaneStays, Zenon
    <3> QED BY <3>1, <3>2, <3>3
  <2> QED BY <1>4, <2>1, <2>2, CallPlace
<1>5. bound[c.s] <= 1 => EndsOnce(c.s)'
  BY <1>1, <1>2 DEF FirstBinding, Once, EndsOnce
<1>6. \A s \in Sinks : bound[s] <= 1 /\ target[s] => Counted(s)'
  <2>1. LaneOf(c)'.busy = LaneOf(c).busy \/ lane' = lane
    BY <1>1
  <2>2. c.pc # "sub" /\ (Returns(c) \/ \E pc, r : pc # "sub" /\ Moves(c, pc, r))
    BY <1>1
  <2> QED BY <1>1, <1>3, <2>1, <2>2, HandlerCounts
<1> QED BY <1>3, <1>4, <1>5, <1>6, HandlerKeeps

\* CompleteLane's claim: what it completes with is what the sink answered.
LEMMA CompleteClaimOnce ==
  ASSUME TypeOK, FirstBinding, NEW c \in calls, CompleteClaim(c) PROVE FirstBinding'
<1> DEFINE C == CallsOf(c.s, c.n)
           H == HeldOf(c.s, c.n)
           acts == /\ LaneOf(c).phase \in {"FILLING", "PENDING", "CANCELING"} /\ LaneOf(c).n = c.n
                   /\ LaneOf(c)'.phase = "COMPLETING" /\ LaneOf(c)'.n = c.n
                   /\ LaneOf(c)'.busy = LaneOf(c).busy
                   /\ Moves(c, "call", c.result)
           rests == /\ ~(Claimable(LaneOf(c)) /\ LaneOf(c).n = c.n)
                    /\ Returns(c) /\ lane' = lane
<1>0. Types
  BY DEF TypeOK
<1>1. /\ OthersKept(c) /\ c.pc = "complete" /\ (acts \/ rests)
      /\ UNCHANGED <<active, target, epoch, unbind, bound, outstanding, batch, serial, held, life, told>>
  BY <1>0, CompleteClaimEffect
<1>2. c.s \in Sinks /\ c.l \in Lanes /\ c.n \in Serials /\ c \in C
  BY <1>0, CallFields DEF Types, CallsOf
<1>3. HandlerStep(c)
  <2>1. \/ lane' = lane
        \/ LaneOf(c).n = c.n /\ LaneOf(c)'.n = c.n
    BY <1>1
  <2>2. (\E pc, r : Moves(c, pc, r)) \/ Returns(c)
    BY <1>1
  <2> QED BY <1>1, <2>1, <2>2 DEF HandlerStep
<1>4. ASSUME bound[c.s] <= 1, target[c.s] PROVE Token(c.s, c.n)'
  <2>1. CASE Gone(c.s, c.n)
    <3>1. LaneOf(c).n # c.n
      BY <1>2, <2>1 DEF Gone, NoLaneHas, LaneOf
    <3> QED BY <1>1, <1>3, <2>1, <3>1, GoneStays
  <2>2. CASE InLane(c.s, c.n, c.l)
    <3>1. CASE LaneOf(c).phase = "COMPLETING"
      BY <1>1, <1>3, <2>2, <3>1, ClaimedStays DEF Claims
    <3>2. CASE LaneOf(c).phase # "COMPLETING"
      <4>1. PICK D, G, p, a, r, f, t :
              /\ D = C /\ G = H /\ p = LaneOf(c).phase /\ a = LaneOf(c).callActive
              /\ r = LaneOf(c).result /\ f = life[c.s][c.n] /\ t = told[c.s][c.n]
        OBVIOUS
      <4>2. Stage(p, a, r, D, G, f, t) /\ c \in D /\ p # "COMPLETING"
        BY <1>2, <2>2, <3>2, <4>1, Zenon DEF InLane, LaneOf
      <4>3. /\ p \in {"FILLING", "PENDING", "CANCELING"} /\ f = "published" /\ t \in {"none", c.result}
            /\ \A d \in D : ~Claims(d) /\ d.pc # "sub"
        <5>1. ~ToFill(p, a, r, D, G, f, t) /\ ~Filling(p, a, r, D, G, f, t) /\ ~Completing(p, a, r, D, G, f, t)
          BY <1>1, <4>2 DEF ToFill, Filling, Completing
        <5>2. CASE Filled(p, a, r, D, G, f, t)
          BY <1>1, <4>2, <5>2 DEF Filled, Claims
        <5>3. CASE Pending(p, a, r, D, G, f, t)
          BY <1>1, <4>2, <5>3 DEF Pending, Claims, Waiting, FromSink
        <5>4. CASE Canceling(p, a, r, D, G, f, t)
          BY <1>1, <4>2, <5>4 DEF Canceling, Claims, Waiting, FromSink, NoAnswer
        <5>5. CASE Canceled(p, a, r, D, G, f, t)
          BY <1>1, <4>2, <5>5 DEF Canceled, Claims, Waiting, FromSink, NoAnswer
        <5> QED BY <4>2, <5>1, <5>2, <5>3, <5>4, <5>5 DEF Stage
      <4>4. acts
        <5>1. Claimable(LaneOf(c)) /\ LaneOf(c).n = c.n
          BY <2>2, <4>1, <4>3 DEF InLane, LaneOf, Claimable
        <5> QED BY <1>1, <5>1
      <4>5. PICK d : d.pc = "call" /\ d.result = c.result /\ C' = (C \ {c}) \cup {d}
        BY <4>4, <1>0, CallsMoved DEF Types
      <4>6. H' = H /\ life' = life /\ told' = told
        BY <1>1 DEF HeldOf
      <4>7. \E e \in C' : /\ Claims(e)
                          /\ e.pc = "call" => life'[c.s][c.n] = "published" /\ told'[c.s][c.n] \in {"none", e.result}
                          /\ \A g \in C' : g = e \/ (~Claims(g) /\ g.pc # "sub")
        BY <4>1, <4>3, <4>5, <4>6 DEF Claims
      <4>8. Stage(LaneOf(c).phase, LaneOf(c).callActive, LaneOf(c).result, C, H,
                  life[c.s][c.n], told[c.s][c.n])'
        BY <4>4, <4>7, Zenon DEF Stage, Completing
      <4> QED BY <1>3, <2>2, <4>4, <4>6, <4>8, LaneStays, Zenon
    <3> QED BY <3>1, <3>2
  <2> QED BY <1>4, <2>1, <2>2, CallPlace
<1>5. bound[c.s] <= 1 => EndsOnce(c.s)'
  BY <1>1, <1>2 DEF FirstBinding, Once, EndsOnce
<1>6. \A s \in Sinks : bound[s] <= 1 /\ target[s] => Counted(s)'
  <2>1. LaneOf(c)'.busy = LaneOf(c).busy \/ lane' = lane
    BY <1>1
  <2>2. c.pc # "sub" /\ (Returns(c) \/ \E pc, r : pc # "sub" /\ Moves(c, pc, r))
    BY <1>1
  <2> QED BY <1>1, <1>3, <2>1, <2>2, HandlerCounts
<1> QED BY <1>3, <1>4, <1>5, <1>6, HandlerKeeps

\* OnFrameDone, kept for the call that is running.
LEMMA DoneKept ==
  ASSUME NEW p, NEW a, NEW r, NEW C, NEW H, NEW f, NEW t, NEW c \in C, c.pc = "done",
         Stage(p, a, r, C, H, f, t), a, p # "COMPLETING"
  PROVE  Stage(p, a, IF r = "none" THEN c.result ELSE r, C \ {c}, H, f, IF t = "none" THEN c.result ELSE t)
<1>1. CASE Filling(p, a, r, C, H, f, t)
  BY <1>1 DEF Filling, Stage, AnswersOnce
<1>2. CASE Canceling(p, a, r, C, H, f, t)
  <2>1. c.by = "sink" /\ AnswersOnce(C, H)
    BY <1>2 DEF Canceling, FromSink, Waiting
  <2>2. NoAnswer(C \ {c}, H) /\ AnswersOnce(C \ {c}, H)
    BY <2>1 DEF AnswersOnce, NoAnswer
  <2> QED BY <1>2, <2>2 DEF Canceling, Stage
<1>3. ~ToFill(p, a, r, C, H, f, t) /\ ~Filled(p, a, r, C, H, f, t) /\ ~Pending(p, a, r, C, H, f, t)
      /\ ~Canceled(p, a, r, C, H, f, t) /\ ~Completing(p, a, r, C, H, f, t)
  BY DEF ToFill, Filled, Pending, Canceled, Completing
<1> QED BY <1>1, <1>2, <1>3 DEF Stage

\* OnFrameDone, completed by the callback itself.
LEMMA DoneMoves ==
  ASSUME NEW p, NEW a, NEW r, NEW C, NEW H, NEW f, NEW t, NEW c \in C, c.pc = "done",
         NEW d, d.by = c.by, d.pc = "complete",
         Stage(p, a, r, C, H, f, t), ~a, p \in {"PENDING", "CANCELING"}
  PROVE  Stage(p, a, r, (C \ {c}) \cup {d}, H, f, t)
<1>1. CASE Pending(p, a, r, C, H, f, t)
  <2>1. c.by = "sink" /\ AnswersOnce(C, H)
    BY <1>1 DEF Pending, FromSink, Waiting
  <2>2. AnswersOnce((C \ {c}) \cup {d}, H)
    BY <2>1 DEF AnswersOnce
  <2> QED BY <1>1, <2>1, <2>2 DEF Pending, Stage, FromSink
<1>2. CASE Canceled(p, a, r, C, H, f, t)
  <2>1. c.by = "sink" /\ t = "none"
    BY <1>2 DEF Canceled, FromSink, Waiting, NoAnswer
  <2> QED BY <1>2, <2>1 DEF Canceled, Stage, FromSink
<1>3. ~ToFill(p, a, r, C, H, f, t) /\ ~Filling(p, a, r, C, H, f, t) /\ ~Filled(p, a, r, C, H, f, t)
      /\ ~Canceling(p, a, r, C, H, f, t) /\ ~Completing(p, a, r, C, H, f, t)
  BY DEF ToFill, Filling, Filled, Canceling, Completing
<1> QED BY <1>1, <1>2, <1>3 DEF Stage

\* OnFrameDone, the sink's callback.
LEMMA OnFrameDoneOnce ==
  ASSUME TypeOK, FirstBinding, NEW c \in calls, OnFrameDone(c) PROVE FirstBinding'
<1> DEFINE C == CallsOf(c.s, c.n)
           H == HeldOf(c.s, c.n)
           kept == /\ LaneOf(c).phase \in {"FILLING", "PENDING", "CANCELING"} /\ LaneOf(c).n = c.n
                   /\ LaneOf(c).callActive /\ LaneOf(c)'.callActive
                   /\ LaneOf(c)'.phase = LaneOf(c).phase /\ LaneOf(c)'.n = c.n
                   /\ LaneOf(c)'.busy = LaneOf(c).busy
                   /\ LaneOf(c)'.result = IF LaneOf(c).result = "none" THEN c.result ELSE LaneOf(c).result
                   /\ HearFrom(c.s, c.n, c.result) /\ Returns(c)
           moves == /\ LaneOf(c).phase \in {"PENDING", "CANCELING"} /\ LaneOf(c).n = c.n
                    /\ ~LaneOf(c).callActive
                    /\ Moves(c, "complete", c.result) /\ lane' = lane /\ told' = told
           rests == Returns(c) /\ lane' = lane /\ told' = told
<1>0. Types /\ HistoryType /\ LaneType
  BY DEF TypeOK, Types
<1>1. /\ OthersKept(c) /\ c.pc = "done" /\ (kept \/ moves \/ rests)
      /\ UNCHANGED <<active, target, epoch, unbind, bound, outstanding, batch, serial, held, life>>
  BY <1>0, OnFrameDoneEffect
<1>2. c.s \in Sinks /\ c.l \in Lanes /\ c.n \in Serials /\ c \in C
  BY <1>0, CallFields DEF Types, CallsOf
<1>3. HandlerStep(c)
  <2>1. \/ lane' = lane
        \/ LaneOf(c).n = c.n /\ LaneOf(c)'.n = c.n
    BY <1>1
  <2>2. (\E pc, r : Moves(c, pc, r)) \/ Returns(c)
    BY <1>1
  <2>3. \A s \in Sinks, n \in Serials : s # c.s \/ n # c.n =>
          life'[s][n] = life[s][n] /\ told'[s][n] = told[s][n]
    <3>1. CASE kept
      BY <1>0, <1>1, <1>2, <3>1, HearFromFact
    <3>2. CASE told' = told
      BY <1>1, <3>2
    <3> QED BY <1>1, <3>1, <3>2
  <2> QED BY <1>1, <2>1, <2>2, <2>3 DEF HandlerStep
<1>4. ASSUME bound[c.s] <= 1, target[c.s] PROVE Token(c.s, c.n)'
  <2>1. CASE rests
    BY <1>1, <1>3, <1>4, <2>1, CallPlace, DropStays
  <2>2. CASE kept \/ moves
    <3>1. InLane(c.s, c.n, c.l)
      BY <1>2, <1>4, <2>2, CallPlace DEF Gone, NoLaneHas, LaneOf
    <3>2. PICK D, G, p, a, r, f, t :
            /\ D = C /\ G = H /\ p = LaneOf(c).phase /\ a = LaneOf(c).callActive
            /\ r = LaneOf(c).result /\ f = life[c.s][c.n] /\ t = told[c.s][c.n]
      OBVIOUS
    <3>3. Stage(p, a, r, D, G, f, t) /\ c \in D
      BY <1>2, <3>1, <3>2, Zenon DEF InLane, LaneOf
    <3>4. H' = H /\ life' = life
      BY <1>1 DEF HeldOf
    <3>5. LaneOf(c).callActive \in BOOLEAN
      BY <1>0, <1>2 DEF LaneType, LaneRec, LaneOf
    <3>6. CASE kept
      <4>1. C' = C \ {c} /\ told'[c.s][c.n] = IF t = "none" THEN c.result ELSE t
        BY <1>0, <1>2, <3>2, <3>6, CallsReturned, HearFromFact
      <4>2. LaneOf(c)'.callActive = a /\ a /\ p # "COMPLETING"
        <5>1. LaneOf(c)'.callActive \in BOOLEAN
          BY <1>0, <1>2, OnFrameDoneEffect DEF LaneType, LaneRec, LaneOf
        <5> QED BY <3>2, <3>5, <3>6, <5>1
      <4>3. Stage(p, a, IF r = "none" THEN c.result ELSE r, D \ {c}, G, f, IF t = "none" THEN c.result ELSE t)
        BY <1>1, <3>3, <4>2, DoneKept
      <4>4. LaneOf(c)'.phase = p /\ LaneOf(c)'.result = IF r = "none" THEN c.result ELSE r
        BY <3>2, <3>6
      <4>5. Stage(LaneOf(c).phase, LaneOf(c).callActive, LaneOf(c).result, C, H,
                  life[c.s][c.n], told[c.s][c.n])'
        BY <3>2, <3>4, <4>1, <4>2, <4>3, <4>4, Zenon
      <4> QED BY <1>3, <3>1, <3>4, <3>6, <4>5, LaneStays, Zenon
    <3>7. CASE moves
      <4>1. PICK d : d.by = c.by /\ d.pc = "complete" /\ C' = (C \ {c}) \cup {d}
        BY <1>0, <3>7, CallsMoved DEF Types
      <4>2. Stage(p, a, r, (D \ {c}) \cup {d}, G, f, t)
        BY <1>1, <3>2, <3>3, <3>7, <4>1, DoneMoves
      <4>3. LaneOf(c)' = LaneOf(c) /\ told' = told
        BY <3>7 DEF LaneOf
      <4>4. Stage(LaneOf(c).phase, LaneOf(c).callActive, LaneOf(c).result, C, H,
                  life[c.s][c.n], told[c.s][c.n])'
        BY <3>2, <3>4, <4>1, <4>2, <4>3, Zenon
      <4> QED BY <1>3, <3>1, <3>4, <3>7, <4>3, <4>4, LaneStays, Zenon
    <3> QED BY <2>2, <3>6, <3>7
  <2> QED BY <1>1, <2>1, <2>2
<1>5. bound[c.s] <= 1 => EndsOnce(c.s)'
  BY <1>1, <1>2 DEF FirstBinding, Once, EndsOnce
<1>6. \A s \in Sinks : bound[s] <= 1 /\ target[s] => Counted(s)'
  <2>1. LaneOf(c)'.busy = LaneOf(c).busy \/ lane' = lane
    BY <1>1
  <2>2. c.pc # "sub" /\ (Returns(c) \/ \E pc, r : pc # "sub" /\ Moves(c, pc, r))
    BY <1>1
  <2> QED BY <1>1, <1>3, <2>1, <2>2, HandlerCounts
<1> QED BY <1>3, <1>4, <1>5, <1>6, HandlerKeeps

\* The handler that has claimed a lane holds its token.
LEMMA ClaimPlace ==
  ASSUME TypeOK, FirstBinding, NEW c \in calls, Claims(c), bound[c.s] <= 1, target[c.s]
  PROVE  /\ InLane(c.s, c.n, c.l) /\ LaneOf(c).phase = "COMPLETING" /\ LaneOf(c).n = c.n
         /\ c.epoch = epoch[c.s]
         /\ c.pc = "call" => life[c.s][c.n] = "published" /\ told[c.s][c.n] \in {"none", c.result}
         /\ \A d \in CallsOf(c.s, c.n) : d = c \/ (~Claims(d) /\ d.pc # "sub")
<1>1. c.s \in Sinks /\ c.n \in Serials /\ c \in CallsOf(c.s, c.n)
  BY CallFields DEF TypeOK, Types, CallsOf
<1>2. InLane(c.s, c.n, c.l)
  BY <1>1, CallPlace DEF Gone
<1>3. LaneOf(c).n = c.n /\ c.epoch = epoch[c.s]
  BY <1>1, <1>2, ZenonT(60) DEF InLane, LaneOf
<1>4. Completing(LaneOf(c).phase, LaneOf(c).callActive, LaneOf(c).result, CallsOf(c.s, c.n),
                 HeldOf(c.s, c.n), life[c.s][c.n], told[c.s][c.n])
  BY <1>1, <1>2
  DEF InLane, Stage, ToFill, Filling, Filled, Pending, Canceling, Canceled, LaneOf, Waiting, FromSink, Claims
<1> QED BY <1>1, <1>2, <1>3, <1>4 DEF Completing

\* CompleteLane's call of CompleteFrameBuffer: the one end of the buffer.
LEMMA CompleteCallOnce ==
  ASSUME TypeOK, FirstBinding, NEW c \in calls, CompleteCall(c) PROVE FirstBinding'
<1> DEFINE C == CallsOf(c.s, c.n)
           H == HeldOf(c.s, c.n)
           v == CASE epoch[c.s] # c.epoch                     -> "broken"
                  [] told[c.s][c.n] \notin {"none", c.result} -> "denied"
                  [] OTHER -> Told(c.s, c.n, "published", "over")
<1>0. Types /\ HistoryType
  BY DEF TypeOK, Types
<1>1. /\ c.pc = "call" /\ Moves(c, "settle", c.result) /\ lane' = lane
      /\ UNCHANGED <<active, target, epoch, unbind, bound, outstanding, batch, serial, held>>
      /\ told' = [told EXCEPT ![c.s][c.n] = "none"]
  BY DEF CompleteCall, hubVars
<1>2. c.s \in Sinks /\ c.l \in Lanes /\ c.n \in Serials /\ c \in C
  BY <1>0, CallFields DEF Types, CallsOf
<1>3. life' = IF target[c.s] THEN [life EXCEPT ![c.s][c.n] = v] ELSE life
  BY DEF CompleteCall
<1>4. /\ \A s \in Sinks, n \in Serials : s # c.s \/ n # c.n =>
          life'[s][n] = life[s][n] /\ told'[s][n] = told[s][n]
      /\ target[c.s] => life'[c.s][c.n] = v
      /\ ~target[c.s] => life' = life
      /\ told'[c.s][c.n] = "none"
  <2> HIDE DEF v
  <2> QED BY <1>0, <1>1, <1>2, <1>3 DEF HistoryType
<1>5. HandlerStep(c)
  <2>1. (\E pc, r : Moves(c, pc, r)) \/ Returns(c)
    BY <1>1
  <2> QED BY <1>1, <1>4, <2>1 DEF HandlerStep, OthersKept
<1>6. ASSUME bound[c.s] <= 1, target[c.s] PROVE life'[c.s][c.n] = "over"
  <2>1. /\ c.epoch = epoch[c.s] /\ life[c.s][c.n] = "published"
        /\ told[c.s][c.n] \in {"none", c.result}
    BY <1>1, <1>6, ClaimPlace DEF Claims
  <2>2. v = "over"
    BY <2>1 DEF Told
  <2> HIDE DEF v
  <2> QED BY <1>4, <1>6, <2>2
<1>7. ASSUME bound[c.s] <= 1, target[c.s] PROVE Token(c.s, c.n)'
  <2>1. /\ InLane(c.s, c.n, c.l) /\ LaneOf(c).phase = "COMPLETING" /\ LaneOf(c).n = c.n
        /\ \A d \in C : d = c \/ (~Claims(d) /\ d.pc # "sub")
    BY <1>1, <1>7, ClaimPlace DEF Claims
  <2>2. PICK d : d.pc = "settle" /\ C' = (C \ {c}) \cup {d}
    BY <1>0, <1>1, CallsMoved DEF Types
  <2>3. H' = H /\ LaneOf(c)' = LaneOf(c)
    BY <1>1 DEF HeldOf, LaneOf
  <2>4. \E e \in C' : /\ Claims(e)
                      /\ e.pc = "call" => life'[c.s][c.n] = "published" /\ told'[c.s][c.n] \in {"none", e.result}
                      /\ \A g \in C' : g = e \/ (~Claims(g) /\ g.pc # "sub")
    BY <2>1, <2>2 DEF Claims
  <2>5. Stage(LaneOf(c).phase, LaneOf(c).callActive, LaneOf(c).result, C, H,
              life[c.s][c.n], told[c.s][c.n])'
    BY <2>1, <2>3, <2>4, Zenon DEF Stage, Completing
  <2> QED BY <1>5, <2>1, <2>3, <2>5, LaneStays, Zenon
<1>8. ASSUME bound[c.s] <= 1 PROVE EndsOnce(c.s)'
  <2>1. EndsOnce(c.s)
    BY <1>2, <1>8 DEF FirstBinding, Once
  <2>2. \A n \in Serials : life'[c.s][n] = life[c.s][n] \/ life'[c.s][n] = "over"
    BY <1>2, <1>4, <1>6, <1>8
  <2> QED BY <2>1, <2>2 DEF EndsOnce
<1>9. \A s \in Sinks : bound[s] <= 1 /\ target[s] => Counted(s)'
  <2>1. c.pc # "sub" /\ (Returns(c) \/ \E pc, r : pc # "sub" /\ Moves(c, pc, r))
    BY <1>1
  <2> QED BY <1>1, <1>5, <2>1, HandlerCounts
<1> QED BY <1>5, <1>7, <1>8, <1>9, HandlerKeeps

\* CompleteLane frees the lane and has yet to count it down.
LEMMA CompleteSettleOnce ==
  ASSUME TypeOK, FirstBinding, NEW c \in calls, CompleteSettle(c) PROVE FirstBinding'
<1> DEFINE C == CallsOf(c.s, c.n)
<1>0. Types /\ LaneType
  BY DEF TypeOK, Types
<1>1. /\ c.pc = "settle" /\ Moves(c, "sub", "none") /\ OthersKept(c)
      /\ UNCHANGED <<active, target, epoch, unbind, bound, outstanding, batch, serial, held, life, told>>
      /\ IF LaneOf(c).phase = "COMPLETING" /\ LaneOf(c).n = c.n THEN LaneOf(c)' = NoLane ELSE lane' = lane
  BY <1>0, CompleteSettleEffect
<1>2. c.s \in Sinks /\ c.l \in Lanes /\ c.n \in Serials /\ c.n # 0 /\ c \in C
  BY <1>0, CallFields DEF Types, CallsOf
<1>3. NoLane.n = 0 /\ NoLane.busy = FALSE
  BY DEF NoLane
<1>4. HandlerStep(c)
  <2>1. \/ lane' = lane
        \/ LaneOf(c).n = c.n /\ LaneOf(c)'.n = 0 /\ ~LaneOf(c)'.busy
    BY <1>1, <1>3
  <2>2. (\E pc, r : Moves(c, pc, r)) \/ Returns(c)
    BY <1>1
  <2> QED BY <1>1, <2>1, <2>2 DEF HandlerStep
<1>5. PICK d : /\ d.s = c.s /\ d.n = c.n /\ d.pc = "sub" /\ calls' = (calls \ {c}) \cup {d}
               /\ C' = (C \ {c}) \cup {d}
  BY <1>0, <1>1, CallsMoved DEF Types
<1>6. ASSUME bound[c.s] <= 1, target[c.s]
      PROVE  /\ Token(c.s, c.n)' /\ d \notin calls
             /\ InLane(c.s, c.n, c.l) /\ LaneOf(c)' = NoLane
  <2>1. /\ InLane(c.s, c.n, c.l) /\ LaneOf(c).phase = "COMPLETING" /\ LaneOf(c).n = c.n
        /\ \A e \in C : e = c \/ (~Claims(e) /\ e.pc # "sub")
    BY <1>1, <1>6, ClaimPlace DEF Claims
  <2>2. LaneOf(c)' = NoLane
    BY <1>1, <2>1
  <2>3. NoLaneHas(c.s, c.n)'
    BY <1>1, <1>2, <1>3, <2>1, <2>2 DEF NoLaneHas, InLane, OthersKept, LaneOf
  <2>4. c.n <= serial' /\ Free(c.s, c.n)'
    BY <1>1, <2>1 DEF InLane, Free, Taken
  <2>5. /\ \A e \in C' : ~Claims(e)
        /\ \A e, g \in C' : e.pc = "sub" /\ g.pc = "sub" => e = g
    BY <1>1, <1>5, <2>1 DEF Claims
  <2>6. Token(c.s, c.n)'
    BY <2>3, <2>4, <2>5 DEF Token, Gone
  <2>7. d \notin calls
    BY <1>1, <1>5, <2>1 DEF CallsOf
  <2> QED BY <2>1, <2>2, <2>6, <2>7
<1>7. bound[c.s] <= 1 => EndsOnce(c.s)'
  BY <1>1, <1>2 DEF FirstBinding, Once, EndsOnce
<1>8. ASSUME NEW s \in Sinks, bound[s] <= 1, target[s] PROVE Counted(s)'
  <2>1. Counted(s)
    BY <1>8 DEF FirstBinding, Once, Live
  <2>2. CASE s # c.s
    <3>1. Busy(s)' = Busy(s)
      BY <1>1, <2>2 DEF Busy, OthersKept
    <3>2. Counting(s)' = Counting(s)
      BY <1>5, <2>2 DEF Counting
    <3> QED BY <1>1, <2>1, <3>1, <3>2 DEF Counted
  <2>3. CASE s = c.s
    <3>1. d \notin calls /\ InLane(c.s, c.n, c.l) /\ LaneOf(c)' = NoLane
      BY <1>6, <1>8, <2>3
    <3>2. Busy(s)' = Busy(s) \ {c.l} /\ c.l \in Busy(s)
      BY <1>1, <1>2, <1>3, <2>3, <3>1 DEF Busy, OthersKept, LaneOf, InLane
    <3>3. Counting(s)' = Counting(s) \cup {d} /\ d \notin Counting(s)
      BY <1>1, <1>5, <2>3, <3>1 DEF Counting
    <3>4. IsFiniteSet(Busy(s))
      BY LanesFinite, FS_Subset DEF Busy
    <3>5. Cardinality(Busy(s)') = Cardinality(Busy(s)) - 1 /\ Cardinality(Busy(s)) \in Nat
      BY <3>2, <3>4, FS_RemoveElement, FS_CardinalityType
    <3>6. /\ Cardinality(Counting(s)') = Cardinality(Counting(s)) + 1 /\ IsFiniteSet(Counting(s)')
          /\ Cardinality(Counting(s)) \in Nat
      BY <2>1, <3>3, FS_AddElement, FS_CardinalityType DEF Counted
    <3>7. outstanding'[s] = outstanding[s]
      BY <1>1
    <3> QED BY <2>1, <3>5, <3>6, <3>7 DEF Counted
  <2> QED BY <2>2, <2>3
<1> QED BY <1>4, <1>6, <1>7, <1>8, HandlerKeeps

\* The counter is counted down, with no lock held.
LEMMA CompleteSubOnce ==
  ASSUME TypeOK, FirstBinding, NEW c \in calls, CompleteSub(c) PROVE FirstBinding'
<1> DEFINE C == CallsOf(c.s, c.n)
<1>0. Types /\ outstanding \in [Sinks -> Int]
  BY DEF TypeOK, Types, SinkType
<1>1. /\ c.pc = "sub" /\ (Moves(c, "set", "none") \/ Returns(c)) /\ lane' = lane
      /\ UNCHANGED <<active, target, epoch, unbind, bound, batch, serial, held, life, told>>
      /\ outstanding' = [outstanding EXCEPT ![c.s] = @ - 1]
  BY DEF CompleteSub, sinkVars, history
<1>2. c.s \in Sinks /\ c.l \in Lanes /\ c.n \in Serials /\ c \in C
  BY <1>0, CallFields DEF Types, CallsOf
<1>3. HandlerStep(c)
  <2>1. (\E pc, r : Moves(c, pc, r)) \/ Returns(c)
    BY <1>1
  <2> QED BY <1>1, <2>1 DEF HandlerStep, OthersKept
<1>4. ASSUME bound[c.s] <= 1, target[c.s] PROVE Token(c.s, c.n)'
  <2>1. ~InLane(c.s, c.n, c.l)
    BY <1>1, <1>2 DEF InLane, Stage, ToFill, Filling, Filled, Pending, Canceling, Canceled, Completing,
                      Waiting, FromSink, Claims
  <2>2. Returns(c) \/ \E pc, r : pc \notin {"call", "settle", "sub"} /\ Moves(c, pc, r)
    BY <1>1
  <2> QED BY <1>1, <1>3, <1>4, <2>1, <2>2, CallPlace, GoneStays
<1>5. bound[c.s] <= 1 => EndsOnce(c.s)'
  BY <1>1, <1>2 DEF FirstBinding, Once, EndsOnce
<1>6. ASSUME NEW s \in Sinks, bound[s] <= 1, target[s] PROVE Counted(s)'
  <2>1. Counted(s)
    BY <1>6 DEF FirstBinding, Once, Live
  <2>2. Counting(s)' = Counting(s) \ {c} /\ Busy(s)' = Busy(s)
    <3>1. CASE Returns(c)
      BY <1>1, <3>1 DEF Counting, Busy, Returns
    <3>2. CASE Moves(c, "set", "none")
      <4>1. PICK d : d.pc = "set" /\ calls' = (calls \ {c}) \cup {d}
        BY <1>0, <3>2, CallsMoved DEF Types
      <4> QED BY <1>1, <4>1 DEF Counting, Busy
    <3> QED BY <1>1, <3>1, <3>2
  <2>3. CASE s # c.s
    <3>1. c \notin Counting(s)
      BY <2>3 DEF Counting
    <3>2. Counting(s)' = Counting(s) /\ outstanding'[s] = outstanding[s]
      BY <1>0, <1>1, <2>2, <2>3, <3>1
    <3> QED BY <2>1, <2>2, <3>2 DEF Counted
  <2>4. CASE s = c.s
    <3>1. c \in Counting(s) /\ outstanding'[s] = outstanding[s] - 1
      BY <1>0, <1>1, <2>4 DEF Counting
    <3>2. IsFiniteSet(Busy(s))
      BY LanesFinite, FS_Subset DEF Busy
    <3>3. Cardinality(Busy(s)) \in Nat
      BY <3>2, FS_CardinalityType
    <3>4. /\ Cardinality(Counting(s)') = Cardinality(Counting(s)) - 1 /\ IsFiniteSet(Counting(s)')
          /\ Cardinality(Counting(s)) \in Nat
      BY <2>1, <2>2, <3>1, FS_RemoveElement, FS_CardinalityType DEF Counted
    <3> QED BY <2>1, <2>2, <3>1, <3>3, <3>4 DEF Counted
  <2> QED BY <2>3, <2>4
<1> QED BY <1>3, <1>4, <1>5, <1>6, HandlerKeeps

\* The event is set.
LEMMA CompleteSetOnce ==
  ASSUME TypeOK, FirstBinding, NEW c \in calls, CompleteSet(c) PROVE FirstBinding'
<1>0. Types
  BY DEF TypeOK
<1>1. /\ c.pc = "set" /\ Returns(c) /\ lane' = lane
      /\ UNCHANGED <<active, target, epoch, unbind, bound, outstanding, batch, serial, held, life, told>>
  BY DEF CompleteSet, sinkVars, history
<1>2. c.s \in Sinks /\ c.l \in Lanes /\ c.n \in Serials /\ c \in CallsOf(c.s, c.n)
  BY <1>0, CallFields DEF Types, CallsOf
<1>3. HandlerStep(c)
  BY <1>1 DEF HandlerStep, OthersKept
<1>4. ASSUME bound[c.s] <= 1, target[c.s] PROVE Token(c.s, c.n)'
  <2>1. CASE InLane(c.s, c.n, c.l)
    <3>1. LaneOf(c).phase = "COMPLETING"
      BY <1>1, <1>2, <2>1 DEF InLane, Stage, ToFill, Filling, Filled, Pending, Canceling, Canceled,
                              Completing, Waiting, FromSink, LaneOf
    <3> QED BY <1>1, <1>3, <2>1, <3>1, ClaimedStays, ZenonT(60) DEF Claims
  <2>2. CASE Gone(c.s, c.n)
    BY <1>1, <1>3, <2>2, GoneStays
  <2> QED BY <1>4, <2>1, <2>2, CallPlace
<1>5. bound[c.s] <= 1 => EndsOnce(c.s)'
  BY <1>1, <1>2 DEF FirstBinding, Once, EndsOnce
<1>6. \A s \in Sinks : bound[s] <= 1 /\ target[s] => Counted(s)'
  <2>1. c.pc # "sub"
    BY <1>1
  <2> QED BY <1>1, <1>3, <2>1, HandlerCounts
<1> QED BY <1>3, <1>4, <1>5, <1>6, HandlerKeeps

-----------------------------------------------------------------------------
(* The sink's callback, and the steps of Bind and Unbind.                  *)

\* The sink answers: a held token becomes a call.
LEMMA AnswerStage ==
  ASSUME NEW p, NEW a, NEW r, NEW C, NEW H, NEW f, NEW t, NEW h \in H,
         NEW d, d.by = "sink", d.pc = "done", Stage(p, a, r, C, H, f, t)
  PROVE  Stage(p, a, r, C \cup {d}, H \ {h}, f, t)
<1>1. ~ToFill(p, a, r, C, H, f, t)
  BY DEF ToFill
<1>2. CASE Filling(p, a, r, C, H, f, t)
  <2>1. AnswersOnce(C \cup {d}, H \ {h})
    BY <1>2 DEF Filling, AnswersOnce
  <2> QED BY <1>2, <2>1 DEF Filling, Stage
<1>3. CASE Filled(p, a, r, C, H, f, t)
  BY <1>3 DEF Filled, Stage
<1>4. CASE Pending(p, a, r, C, H, f, t)
  <2>1. AnswersOnce(C \cup {d}, H \ {h})
    BY <1>4 DEF Pending, AnswersOnce
  <2> QED BY <1>4, <2>1 DEF Pending, Stage, FromSink
<1>5. CASE Canceling(p, a, r, C, H, f, t)
  <2>1. AnswersOnce(C \cup {d}, H \ {h}) /\ t = "none"
    BY <1>5 DEF Canceling, AnswersOnce, NoAnswer
  <2> QED BY <1>5, <2>1 DEF Canceling, Stage, FromSink
<1>6. CASE Canceled(p, a, r, C, H, f, t)
  <2>1. t = "none"
    BY <1>6 DEF Canceled, NoAnswer
  <2> QED BY <1>6, <2>1 DEF Canceled, Stage, FromSink
<1>7. CASE Completing(p, a, r, C, H, f, t)
  BY <1>7 DEF Completing, Stage, Claims
<1> QED BY <1>1, <1>2, <1>3, <1>4, <1>5, <1>6, <1>7 DEF Stage

\* The sink raises the callback of a frame it works on.
LEMMA SinkDoneOnce ==
  ASSUME TypeOK, FirstBinding, NEW h \in held, NEW r \in {"READY", "FAILED"}, SinkDone(h, r)
  PROVE  FirstBinding'
<1>1. /\ UNCHANGED <<active, target, epoch, unbind, bound, outstanding, lane, batch, serial, life, told>>
      /\ held' = held \ {h}
  BY DEF SinkDone, hubVars, history
<1>2. PICK d : /\ d = [by |-> "sink", pc |-> "done", s |-> h.s, l |-> h.l, n |-> h.n,
                       epoch |-> h.epoch, result |-> r]
               /\ calls' = calls \cup {d}
  BY DEF SinkDone
<1>3. d.by = "sink" /\ d.pc = "done" /\ d.s = h.s /\ d.l = h.l /\ d.n = h.n /\ d.epoch = h.epoch
  BY <1>2
<1>4. h.s \in Sinks /\ h.n \in Serials /\ h.l \in Lanes /\ h \in HeldOf(h.s, h.n)
  BY DEF TypeOK, Types, CallType, HeldRec, HeldOf
<1>5. \A s, n : /\ s # h.s \/ n # h.n => /\ CallsOf(s, n)' = CallsOf(s, n)
                                         /\ HeldOf(s, n)' = HeldOf(s, n)
                /\ s = h.s /\ n = h.n => /\ CallsOf(s, n)' = CallsOf(s, n) \cup {d}
                                         /\ HeldOf(s, n)' = HeldOf(s, n) \ {h}
  BY <1>1, <1>2, <1>3 DEF CallsOf, HeldOf
<1>6. ASSUME NEW s \in Sinks, NEW n \in Serials, Token(s, n) PROVE Token(s, n)'
  <2>1. CASE s # h.s \/ n # h.n
    <3>1. Untouched(s, n)
      BY <1>1, <1>5, <2>1 DEF Untouched, Taken
    <3> QED BY <1>6, <3>1, TokenStays
  <2>2. CASE s = h.s /\ n = h.n
    <3>1. ~Future(s, n) /\ \A b \in Batches : ~InBatch(s, n, b)
      BY <1>4, <2>2 DEF Future, InBatch
    <3>2. n <= serial' <=> n <= serial
      BY <1>1
    <3>3. Free(s, n)' <=> Free(s, n)
      BY <1>1 DEF Free, Taken
    <3>4. ASSUME NEW l \in Lanes, InLane(s, n, l) PROVE InLane(s, n, l)'
      <4>1. h.l = l /\ h.epoch = epoch[s]
        BY <1>4, <2>2, <3>4 DEF InLane
      <4>2. /\ \A c \in CallsOf(s, n)' : c.l = l /\ c.epoch = epoch'[s]
            /\ \A g \in HeldOf(s, n)' : g.l = l /\ g.epoch = epoch'[s]
        BY <1>1, <1>3, <1>5, <2>2, <3>4, <4>1 DEF InLane
      <4>3. PICK C, H, p, a, q, f, t :
              /\ C = CallsOf(s, n) /\ H = HeldOf(s, n) /\ p = lane[s][l].phase
              /\ a = lane[s][l].callActive /\ q = lane[s][l].result
              /\ f = life[s][n] /\ t = told[s][n]
        OBVIOUS
      <4>4. Stage(p, a, q, C, H, f, t) /\ h \in H
        BY <1>4, <2>2, <3>4, <4>3, Zenon DEF InLane
      <4>5. Stage(p, a, q, C \cup {d}, H \ {h}, f, t)
        BY <1>3, <4>4, AnswerStage
      <4>6. CallsOf(s, n)' = C \cup {d} /\ HeldOf(s, n)' = H \ {h}
        BY <1>5, <2>2, <4>3
      <4>7. Stage(lane[s][l].phase, lane[s][l].callActive, lane[s][l].result, CallsOf(s, n),
                  HeldOf(s, n), life[s][n], told[s][n])'
        BY <1>1, <4>3, <4>5, <4>6, Zenon
      <4>8. lane'[s][l].n = n /\ lane'[s][l].busy /\ \A k \in Lanes : lane'[s][k].n = n => k = l
        BY <1>1, <3>4 DEF InLane
      <4>9. n <= serial' /\ Free(s, n)'
        BY <3>2, <3>3, <3>4 DEF InLane
      <4> QED BY <4>2, <4>7, <4>8, <4>9, Zenon DEF InLane
    <3>5. Gone(s, n) => Gone(s, n)'
      BY <1>1, <1>3, <1>5, <2>2, <3>2, <3>3 DEF Gone, NoLaneHas, Claims
    <3> QED BY <1>6, <3>1, <3>4, <3>5 DEF Token
  <2> QED BY <2>1, <2>2
<1>7. ASSUME NEW s \in Sinks PROVE (Owned(s) => Owned(s)') /\ (Counted(s) => Counted(s)')
  <2>1. Counting(s)' = Counting(s) /\ Busy(s)' = Busy(s)
    BY <1>1, <1>2, <1>3 DEF Counting, Busy
  <2> QED BY <1>1, <2>1 DEF Owned, Has, Counted
<1>8. ASSUME NEW s \in Sinks PROVE (Unborn(s) => Unborn(s)') /\ (EndsOnce(s) => EndsOnce(s)')
  BY <1>1, <1>2, <1>3 DEF Unborn, EndsOnce
<1> QED BY <1>1, <1>6, <1>7, <1>8 DEF FirstBinding, Once, Live

\* A step that is about another sink, and about no batch.
LEMMA OtherSink ==
  ASSUME NEW s \in Sinks, Once(s), UNCHANGED <<batch, serial, life, told>>,
         active'[s] = active[s], target'[s] = target[s], epoch'[s] = epoch[s], unbind'[s] = unbind[s],
         bound'[s] = bound[s], outstanding'[s] = outstanding[s], lane'[s] = lane[s],
         \A c : c.s = s => (c \in calls' <=> c \in calls),
         \A h : h.s = s => (h \in held' <=> h \in held)
  PROVE  Once(s)'
<1>1. \A n : CallsOf(s, n)' = CallsOf(s, n) /\ HeldOf(s, n)' = HeldOf(s, n)
  BY DEF CallsOf, HeldOf
<1>2. ASSUME NEW n \in Serials, Token(s, n) PROVE Token(s, n)'
  <2>1. Untouched(s, n)
    BY <1>1 DEF Untouched, Taken
  <2> QED BY <1>2, <2>1, TokenStays
<1>3. Owned(s) => Owned(s)'
  BY DEF Owned, Has
<1>4. Counting(s)' = Counting(s) /\ Busy(s)' = Busy(s)
  BY DEF Counting, Busy
<1>5. Counted(s) => Counted(s)'
  BY <1>4 DEF Counted
<1>6. (Unborn(s) => Unborn(s)') /\ (EndsOnce(s) => EndsOnce(s)')
  BY DEF Unborn, EndsOnce
<1> QED BY <1>2, <1>3, <1>5, <1>6 DEF Once, Live

\* Bind makes a sink that was never bound live.
LEMMA BindOnce ==
  ASSUME TypeOK, FirstBinding, NEW r \in Sinks, Bind(r) PROVE FirstBinding'
<1>1. /\ UNCHANGED <<batch, serial, life, told, calls, held, unbind>>
      /\ bound' = [bound EXCEPT ![r] = @ + 1] /\ target' = [target EXCEPT ![r] = TRUE]
      /\ outstanding' = [outstanding EXCEPT ![r] = 0] /\ active' = [active EXCEPT ![r] = TRUE]
      /\ lane' = [lane EXCEPT ![r] = [l \in Lanes |-> NoLane]]
      /\ epoch' = [epoch EXCEPT ![r] = bound'[r]]
  BY DEF Bind
<1>2. SinkType /\ LaneType /\ serial \in Nat
  BY HubAssumption DEF TypeOK, Types, BatchType
<1>3. ASSUME NEW s \in Sinks PROVE Once(s)'
  <2>1. CASE s # r
    <3>1. /\ active'[s] = active[s] /\ target'[s] = target[s] /\ epoch'[s] = epoch[s]
          /\ bound'[s] = bound[s] /\ outstanding'[s] = outstanding[s] /\ lane'[s] = lane[s]
      BY <1>1, <1>2, <2>1 DEF SinkType, LaneType
    <3>2. Once(s)
      BY DEF FirstBinding
    <3> QED BY <1>1, <3>1, <3>2, OtherSink
  <2>2. CASE s = r
    <3>1. bound'[s] = bound[s] + 1 /\ bound[s] \in Nat
      BY <1>1, <1>2, <2>2 DEF SinkType
    <3>2. ASSUME bound'[s] <= 1 PROVE EndsOnce(s)' /\ Live(s)'
      <4>1. bound[s] = 0
        BY <3>1, <3>2
      <4>2. Unborn(s)
        BY <4>1 DEF FirstBinding, Once
      <4>3. \A l \in Lanes : lane'[s][l] = NoLane /\ NoLane.n = 0 /\ ~NoLane.busy
        BY <1>1, <1>2, <2>2 DEF LaneType, NoLane
      <4>4. EndsOnce(s)'
        BY <1>1, <4>2 DEF Unborn, EndsOnce
      <4>5. ASSUME NEW n \in Serials PROVE Token(s, n)'
        <5>1. CallsOf(s, n)' = {} /\ HeldOf(s, n)' = {}
          BY <1>1, <4>2 DEF Unborn, CallsOf, HeldOf
        <5>2. Free(s, n)' /\ NoLaneHas(s, n)'
          <6>1. n # 0
            BY HubAssumption DEF Serials
          <6> QED BY <1>1, <4>2, <4>3, <6>1 DEF Unborn, Free, Taken, NoLaneHas
        <5>3. life'[s][n] = "none" /\ told'[s][n] = "none"
          BY <1>1, <4>2 DEF Unborn
        <5>4. CASE n > serial
          BY <1>1, <5>1, <5>2, <5>3, <5>4 DEF Token, Future
        <5>5. CASE n <= serial
          BY <1>1, <5>1, <5>2, <5>5 DEF Token, Gone
        <5> QED BY <1>2, <5>4, <5>5, HubAssumption DEF Serials
      <4>6. Owned(s)'
        BY <1>1, <4>2, <4>3 DEF Owned, Has, Unborn
      <4>7. Busy(s)' = {} /\ Counting(s)' = {} /\ outstanding'[s] = 0
        BY <1>1, <1>2, <2>2, <4>2, <4>3 DEF Busy, Counting, Unborn, SinkType
      <4>8. Counted(s)'
        <5>1. IsFiniteSet({}) /\ Cardinality({}) = 0
          BY FS_EmptySet
        <5>2. IsFiniteSet(Counting(s)') /\ outstanding'[s] = Cardinality(Busy(s)') + Cardinality(Counting(s)')
          BY <4>7, <5>1
        <5> QED BY <5>2 DEF Counted
      <4> QED BY <4>4, <4>5, <4>6, <4>8 DEF Live
    <3>3. bound'[s] # 0
      BY <3>1
    <3> QED BY <3>2, <3>3 DEF Once
  <2> QED BY <2>1, <2>2
<1> QED BY <1>3 DEF FirstBinding

\* Unbind begins with a bound sink.
LEMMA UnbindBeginOnce ==
  ASSUME TypeOK, FirstBinding, NEW r \in Sinks, UnbindBegin(r) PROVE FirstBinding'
<1>1. /\ UNCHANGED <<target, epoch, outstanding, lane, batch, serial, bound, calls, held, life, told>>
      /\ active[r] /\ active' = [active EXCEPT ![r] = FALSE] /\ unbind' = [unbind EXCEPT ![r] = "scan"]
  BY DEF UnbindBegin, history
<1>2. SinkType
  BY DEF TypeOK, Types
<1>3. ASSUME NEW s \in Sinks PROVE Once(s)'
  <2>1. CASE s # r
    <3>1. active'[s] = active[s] /\ unbind'[s] = unbind[s]
      BY <1>1, <1>2, <2>1 DEF SinkType
    <3>2. Once(s)
      BY DEF FirstBinding
    <3> QED BY <1>1, <3>1, <3>2, OtherSink
  <2>2. CASE s = r
    <3>1. ~Unborn(s)
      BY <1>1, <2>2 DEF Unborn
    <3>2. ASSUME NEW n \in Serials, Token(s, n) PROVE Token(s, n)'
      <4>1. Untouched(s, n)
        BY <1>1 DEF Untouched, Taken, CallsOf, HeldOf
      <4> QED BY <3>2, <4>1, TokenStays
    <3>3. (Owned(s) => Owned(s)') /\ (EndsOnce(s) => EndsOnce(s)')
      BY <1>1 DEF Owned, Has, EndsOnce
    <3>4. Counting(s)' = Counting(s) /\ Busy(s)' = Busy(s)
      BY <1>1 DEF Counting, Busy
    <3>5. Counted(s) => Counted(s)'
      BY <1>1, <3>4 DEF Counted
    <3> QED BY <1>1, <3>1, <3>2, <3>3, <3>5 DEF FirstBinding, Once, Live
  <2> QED BY <2>1, <2>2
<1> QED BY <1>3 DEF FirstBinding

\* Unbind is done with a sink: of its first binding only the history is left.
LEMMA UnbindFinishOnce ==
  ASSUME TypeOK, FirstBinding, NEW r \in Sinks, UnbindFinish(r) PROVE FirstBinding'
<1>1. /\ UNCHANGED <<active, outstanding, batch, serial, bound, calls, life, told>>
      /\ unbind[r] = "wait" /\ unbind' = [unbind EXCEPT ![r] = "no"]
      /\ target' = [target EXCEPT ![r] = FALSE] /\ epoch' = [epoch EXCEPT ![r] = 0]
      /\ lane' = [lane EXCEPT ![r] = [l \in Lanes |-> NoLane]]
      /\ held' = {h \in held : h.s # r}
  BY DEF UnbindFinish, history
<1>2. SinkType /\ LaneType
  BY DEF TypeOK, Types
<1>3. ASSUME NEW s \in Sinks PROVE Once(s)'
  <2>1. CASE s # r
    <3>1. target'[s] = target[s] /\ epoch'[s] = epoch[s] /\ unbind'[s] = unbind[s] /\ lane'[s] = lane[s]
      BY <1>1, <1>2, <2>1 DEF SinkType, LaneType
    <3>2. Once(s)
      BY DEF FirstBinding
    <3>3. \A h : h.s = s => (h \in held' <=> h \in held)
      BY <1>1, <2>1
    <3> QED BY <1>1, <3>1, <3>2, <3>3, OtherSink
  <2>2. CASE s = r
    <3>1. ~Unborn(s)
      BY <1>1, <2>2 DEF Unborn
    <3>2. ~target'[s]
      BY <1>1, <1>2, <2>2 DEF SinkType
    <3>3. EndsOnce(s) => EndsOnce(s)'
      BY <1>1 DEF EndsOnce
    <3> QED BY <1>1, <3>1, <3>2, <3>3 DEF FirstBinding, Once
  <2> QED BY <2>1, <2>2
<1> QED BY <1>3 DEF FirstBinding

\* A pending lane is given a handler that is to cancel it.
LEMMA WaitStage ==
  ASSUME NEW a, NEW r, NEW C, NEW H, NEW f, NEW t, NEW d, d.by = "unbind", d.pc = "cancel",
         Stage("PENDING", a, r, C, H, f, t)
  PROVE  Stage("PENDING", a, r, C \cup {d}, H, f, t)
<1>1. Pending("PENDING", a, r, C, H, f, t)
  BY DEF Stage, ToFill, Filling, Filled, Canceling, Canceled, Completing
<1>2. AnswersOnce(C \cup {d}, H)
  BY <1>1 DEF Pending, AnswersOnce
<1>3. Pending("PENDING", a, r, C \cup {d}, H, f, t)
  BY <1>1, <1>2 DEF Pending, Waiting
<1> QED BY <1>3 DEF Stage

\* Unbind looks for the lanes to cancel.
LEMMA UnbindScanOnce ==
  ASSUME TypeOK, FirstBinding, NEW r \in Sinks, UnbindScan(r) PROVE FirstBinding'
<1>1. /\ UNCHANGED <<active, target, epoch, outstanding, batch, serial, bound, held, life, told>>
      /\ unbind[r] = "scan" /\ unbind' = [unbind EXCEPT ![r] = "wait"]
      /\ lane' = [lane EXCEPT ![r] = [l \in Lanes |->
           IF lane[r][l].phase = "FILLING"
             THEN [lane[r][l] EXCEPT !.cancelRequested = TRUE] ELSE lane[r][l]]]
  BY DEF UnbindScan, history
<1> DEFINE Call(l) == [by |-> "unbind", pc |-> "cancel", s |-> r, l |-> l, n |-> lane[r][l].n,
                       epoch |-> epoch[r], result |-> "none"]
           K == {l \in Lanes : lane[r][l].phase = "PENDING"}
<1>2. calls' = calls \cup {Call(l) : l \in K}
  BY DEF UnbindScan
<1>3. \A l : /\ Call(l).by = "unbind" /\ Call(l).pc = "cancel" /\ Call(l).s = r /\ Call(l).l = l
             /\ Call(l).n = lane[r][l].n /\ Call(l).epoch = epoch[r]
  OBVIOUS
<1> HIDE DEF Call
<1>4. SinkType /\ LaneType
  BY DEF TypeOK, Types
<1>5. \A s \in Sinks, l \in Lanes :
        /\ lane'[s][l].phase = lane[s][l].phase /\ lane'[s][l].n = lane[s][l].n
        /\ lane'[s][l].busy = lane[s][l].busy /\ lane'[s][l].result = lane[s][l].result
        /\ lane'[s][l].callActive = lane[s][l].callActive
  BY UnbindScanEffect
<1>6. ASSUME NEW s \in Sinks PROVE Once(s)'
  <2>1. CASE s # r
    <3>1. unbind'[s] = unbind[s] /\ lane'[s] = lane[s]
      BY <1>1, <1>4, <2>1 DEF SinkType, LaneType
    <3>2. Once(s)
      BY DEF FirstBinding
    <3>3. \A c : c.s = s => (c \in calls' <=> c \in calls)
      BY <1>2, <1>3, <2>1
    <3> QED BY <1>1, <3>1, <3>2, <3>3, OtherSink
  <2>2. CASE s = r
    <3>1. ~Unborn(s)
      BY <1>1, <2>2 DEF Unborn
    <3>2. ASSUME NEW n \in Serials, Token(s, n) PROVE Token(s, n)'
      <4>1. CASE \A k \in K : lane[r][k].n # n
        <5>1. CallsOf(s, n)' = CallsOf(s, n)
          BY <1>2, <1>3, <4>1 DEF CallsOf
        <5>2. HeldOf(s, n)' = HeldOf(s, n)
          BY <1>1 DEF HeldOf
        <5>3. Untouched(s, n)
          BY <1>1, <1>5, <5>1, <5>2 DEF Untouched, Taken
        <5> QED BY <3>2, <5>3, TokenStays
      <4>2. ASSUME NEW k \in K, lane[r][k].n = n PROVE Token(s, n)'
        <5>1. InLane(s, n, k)
          BY <2>2, <3>2, <4>2 DEF Token, Future, InBatch, Gone, NoLaneHas, InLane
        <5>2. \A l \in K : lane[r][l].n = n => l = k
          BY <2>2, <5>1 DEF InLane
        <5>3. CallsOf(s, n)' = CallsOf(s, n) \cup {Call(k)}
          BY <1>2, <1>3, <2>2, <4>2, <5>2 DEF CallsOf
        <5>4. HeldOf(s, n)' = HeldOf(s, n)
          BY <1>1 DEF HeldOf
        <5>5. PICK C, H, a, q, f, t :
                /\ C = CallsOf(s, n) /\ H = HeldOf(s, n) /\ a = lane[s][k].callActive
                /\ q = lane[s][k].result /\ f = life[s][n] /\ t = told[s][n]
          OBVIOUS
        <5>6. Stage("PENDING", a, q, C, H, f, t)
          BY <2>2, <4>2, <5>1, <5>5, Zenon DEF InLane
        <5>7. Stage("PENDING", a, q, C \cup {Call(k)}, H, f, t)
          BY <1>3, <5>6, WaitStage
        <5>8. /\ lane'[s][k].phase = "PENDING" /\ lane'[s][k].callActive = a /\ lane'[s][k].result = q
              /\ lane'[s][k].busy /\ lane'[s][k].n = n /\ \A l \in Lanes : lane'[s][l].n = n => l = k
          BY <1>5, <2>2, <4>2, <5>1, <5>5 DEF InLane
        <5>9. Stage(lane[s][k].phase, lane[s][k].callActive, lane[s][k].result, CallsOf(s, n),
                    HeldOf(s, n), life[s][n], told[s][n])'
          BY <1>1, <5>3, <5>4, <5>5, <5>7, <5>8, Zenon
        <5>10. /\ \A c \in CallsOf(s, n)' : c.l = k /\ c.epoch = epoch'[s]
               /\ \A g \in HeldOf(s, n)' : g.l = k /\ g.epoch = epoch'[s]
          BY <1>1, <1>3, <2>2, <5>1, <5>3, <5>4 DEF InLane
        <5>11. n <= serial' /\ Free(s, n)'
          BY <1>1, <5>1 DEF InLane, Free, Taken
        <5>12. InLane(s, n, k)'
          BY <5>8, <5>9, <5>10, <5>11, Zenon DEF InLane
        <5> QED BY <5>12 DEF Token
      <4> QED BY <4>1, <4>2
    <3>3. (Owned(s) => Owned(s)') /\ (EndsOnce(s) => EndsOnce(s)')
      BY <1>1, <1>5 DEF Owned, Has, EndsOnce
    <3>4. Counting(s)' = Counting(s) /\ Busy(s)' = Busy(s)
      BY <1>2, <1>3, <1>5 DEF Counting, Busy
    <3>5. Counted(s) => Counted(s)'
      BY <1>1, <3>4 DEF Counted
    <3> QED BY <1>1, <3>1, <3>2, <3>3, <3>5 DEF FirstBinding, Once, Live
  <2> QED BY <2>1, <2>2
<1> QED BY <1>6 DEF FirstBinding

\* A step of nothing that the tokens are about.
LEMMA SameOnce ==
  ASSUME FirstBinding,
         UNCHANGED <<active, target, epoch, unbind, bound, outstanding, lane, batch, serial, calls, held,
                     life, told>>
  PROVE  FirstBinding'
<1>1. ASSUME NEW s \in Sinks PROVE Once(s)'
  <2>1. Once(s)
    BY DEF FirstBinding
  <2> QED BY <2>1, OtherSink
<1> QED BY <1>1 DEF FirstBinding

-----------------------------------------------------------------------------
(* The steps of batches.                                                   *)

\* A lane with a token is the one its token is in.
LEMMA LaneToken ==
  ASSUME TypeOK, NEW s \in Sinks, Live(s), NEW l \in Lanes, lane[s][l].n # 0
  PROVE  lane[s][l].n \in Serials /\ InLane(s, lane[s][l].n, l)
<1>1. lane[s][l] \in LaneRec
  BY DEF TypeOK, Types, LaneType
<1>2. lane[s][l].n \in Serials
  BY <1>1, HubAssumption DEF LaneRec, Serials
<1>3. PICK n \in Serials : n = lane[s][l].n
  BY <1>2
<1>4. Token(s, n)
  BY ZenonT(60) DEF Live
<1>5. InLane(s, n, l)
  BY <1>3, <1>4 DEF Token, Future, InBatch, Gone, NoLaneHas, InLane
<1> QED BY <1>3, <1>5

\* A target's buffer is in its batch.
LEMMA TargetToken ==
  ASSUME TypeOK, NEW s \in Sinks, Live(s), NEW b \in Batches, batch[b].targets[s].active
  PROVE  /\ batch[b].n \in Serials /\ batch[b].n <= serial /\ InBatch(s, batch[b].n, b)
         /\ \A a \in Batches : Taken(a, s, batch[b].n) => a = b
         /\ batch[b].targets[s].lane \in Lanes
         /\ lane[s][batch[b].targets[s].lane].busy /\ lane[s][batch[b].targets[s].lane].n = 0
<1>1. batch[b].active /\ batch[b].n \in 1..serial /\ serial \in 0..MaxSerial /\ batch[b].targets[s].lane \in Lanes
  BY DEF TypeOK, Shape, Types, BatchType
<1>2. batch[b].n \in Serials /\ batch[b].n <= serial
  BY <1>1, HubAssumption DEF Serials
<1>3. PICK n \in Serials : n = batch[b].n
  BY <1>2
<1>4. \A a \in Batches : Taken(a, s, n) => a = b
  BY <1>1, <1>3 DEF TypeOK, Shape, Taken
<1>5. Token(s, n) /\ Taken(b, s, n)
  BY <1>3 DEF Live, Taken
<1>6. InBatch(s, n, b)
  BY <1>4, <1>5 DEF Token, Future, InLane, Gone, Free, InBatch
<1>7. Has(b, s, batch[b].targets[s].lane)
  BY DEF Has
<1>8. /\ lane[s][batch[b].targets[s].lane].busy
      /\ lane[s][batch[b].targets[s].lane].n = 0
  BY <1>1, <1>7 DEF Live, Owned
<1> QED BY <1>1, <1>2, <1>3, <1>4, <1>6, <1>8

\* Lanes are finite, so one more or one less busy lane counts.
LEMMA BusyCounts ==
  ASSUME NEW s \in Sinks, NEW l \in Lanes
  PROVE  /\ Busy(s)' = Busy(s) \cup {l} /\ l \notin Busy(s) =>
              Cardinality(Busy(s)') = Cardinality(Busy(s)) + 1
         /\ Busy(s)' = Busy(s) \ {l} /\ l \in Busy(s) =>
              Cardinality(Busy(s)') = Cardinality(Busy(s)) - 1
         /\ Cardinality(Busy(s)) \in Nat
<1>1. IsFiniteSet(Busy(s))
  BY LanesFinite, FS_Subset DEF Busy
<1> QED BY <1>1, FS_AddElement, FS_RemoveElement, FS_CardinalityType

\* The next serial is not in use.
LEMMA NextSerial ==
  ASSUME TypeOK, NEW s \in Sinks, NEW n \in Serials, n = serial + 1, Token(s, n)
  PROVE  Future(s, n)
<1>1. serial \in 0..MaxSerial
  BY DEF TypeOK, Types, BatchType
<1>2. ~(n <= serial)
  BY <1>1, HubAssumption
<1>3. \A b \in Batches : ~Taken(b, s, n)
  BY <1>2 DEF TypeOK, Shape, Taken
<1> QED BY <1>2, <1>3 DEF Token, InBatch, InLane, Gone

\* PrepareFrameBatch gives buffers to the batch b.
LEMMA PreparedOnce ==
  ASSUME TypeOK, FirstBinding, NEW b \in Batches, NEW S \in SUBSET Sinks, NEW lanes \in [Sinks -> Lanes],
         NEW d \in Nat, Prepared(b, S, lanes, d)
  PROVE  FirstBinding'
<1>1. UNCHANGED <<active, target, epoch, unbind, bound, calls, held, told>>
  BY DEF Prepared
<1>2. serial' = serial + 1 /\ serial' \in Serials /\ serial \in Nat
  BY HubAssumption DEF Prepared, TypeOK, Types, BatchType
<1>3. \A a \in Batches : a # b => batch'[a] = batch[a]
  BY DEF Prepared
<1>4. ~batch[b].active /\ batch'[b].n = serial' /\ \A s \in Sinks : ~batch[b].targets[s].active
  BY DEF Prepared, TypeOK, Shape
<1>5. ASSUME NEW s \in Sinks
      PROVE  /\ batch'[b].targets[s].active <=> s \in S
             /\ \A l \in Lanes : lane'[s][l].n = lane[s][l].n
             /\ s \notin S => /\ lane'[s] = lane[s] /\ outstanding'[s] = outstanding[s]
                              /\ \A n \in Serials : life'[s][n] = life[s][n]
             /\ s \in S => /\ active[s] /\ target[s] /\ ~lane[s][lanes[s]].busy
                           /\ batch'[b].targets[s].epoch = epoch[s] /\ batch'[b].targets[s].lane = lanes[s]
                           /\ ~batch'[b].targets[s].published /\ ~batch'[b].targets[s].committed
                           /\ lanes[s] \in Lanes
                           /\ \A l \in Lanes : l # lanes[s] => lane'[s][l] = lane[s][l]
                           /\ lane'[s][lanes[s]].busy
                           /\ outstanding'[s] = outstanding[s] + 1
                           /\ \A n \in Serials :
                                /\ n = serial' => life'[s][n] = Told(s, n, "none", "prepared")
                                /\ n # serial' => life'[s][n] = life[s][n]
  <2>1. lane[s] \in [Lanes -> LaneRec] /\ lane'[s] \in [Lanes -> LaneRec]
    BY DEF Prepared, TypeOK, Types, LaneType
  <2>2. s \notin S => lane'[s] = lane[s]
    BY <2>1 DEF Prepared
  <2> QED BY <2>2 DEF Prepared
<1>6. ASSUME NEW s \in Sinks PROVE Once(s)'
  <2>0. Once(s)
    BY DEF FirstBinding
  <2>1. Unborn(s) => Unborn(s)'
    BY <1>1, <1>3, <1>5 DEF Unborn
  <2>2. ASSUME NEW n \in Serials, n = serial', s \in S, bound[s] <= 1
        PROVE  Future(s, n) /\ life'[s][n] = "prepared"
    <3>1. Token(s, n)
      BY <1>5, <2>0, <2>2 DEF Once, Live
    <3>2. Future(s, n)
      BY <1>2, <2>2, <3>1, NextSerial
    <3> QED BY <1>5, <2>2, <3>2 DEF Future, Told
  <2>3. bound[s] <= 1 => EndsOnce(s)'
    BY <1>5, <2>0, <2>2 DEF Once, EndsOnce
  <2>4. ASSUME bound[s] <= 1, target[s] PROVE Live(s)'
    <3>1. Live(s)
      BY <2>0, <2>4 DEF Once
    <3>2. ASSUME s \in S PROVE lane[s][lanes[s]].n = 0 /\ \A a \in Batches : ~Has(a, s, lanes[s])
      BY <1>5, <3>1, <3>2, LaneToken DEF InLane, Live, Owned
    <3>3. ASSUME NEW n \in Serials PROVE Token(s, n)'
      <4>0. Token(s, n)
        BY <3>1 DEF Live
      <4>1. CallsOf(s, n)' = CallsOf(s, n) /\ HeldOf(s, n)' = HeldOf(s, n)
        BY <1>1 DEF CallsOf, HeldOf
      <4>2. NoLaneHas(s, n)' <=> NoLaneHas(s, n)
        BY <1>5 DEF NoLaneHas
      <4>3. CASE s \in S /\ n = serial'
        <5>1. Future(s, n) /\ life'[s][n] = "prepared"
          BY <2>2, <2>4, <4>3
        <5>2. InBatch(s, n, b)'
          BY <1>1, <1>4, <1>5, <4>1, <4>2, <4>3, <5>1 DEF InBatch, Taken, Future
        <5> QED BY <5>2 DEF Token
      <4>4. CASE ~(s \in S /\ n = serial')
        <5>1. \A a \in Batches : Taken(a, s, n)' <=> Taken(a, s, n)
          BY <1>3, <1>4, <1>5, <4>4 DEF Taken
        <5>2. CASE n = serial'
          <6>1. Future(s, n)
            BY <1>2, <4>0, <5>2, NextSerial
          <6>2. n <= serial'
            BY <1>2, <5>2
          <6>3. Gone(s, n)'
            BY <4>1, <4>2, <5>1, <6>1, <6>2 DEF Gone, Future, Free
          <6> QED BY <6>3 DEF Token
        <5>3. CASE n # serial'
          <6>1. (n > serial' <=> n > serial) /\ (n <= serial' <=> n <= serial)
            BY <1>2, <5>3, HubAssumption DEF Serials
          <6>2. life'[s][n] = life[s][n]
            BY <1>5, <5>3
          <6>3. \A l \in Lanes : /\ lane'[s][l].n = n <=> lane[s][l].n = n
                                 /\ lane[s][l].n = n => lane'[s][l] = lane[s][l]
            BY <1>5, <3>2, HubAssumption DEF Serials
          <6>4. \A a \in Batches : Taken(a, s, n) => batch'[a] = batch[a]
            BY <1>3, <1>4 DEF Taken
          <6>5. Untouched(s, n)
            BY <1>1, <4>1, <5>1, <6>1, <6>2, <6>3, <6>4 DEF Untouched
          <6> QED BY <4>0, <6>5, TokenStays
        <5> QED BY <5>2, <5>3
      <4> QED BY <4>3, <4>4
    <3>4. Owned(s)'
      <4>1. Owned(s)
        BY <3>1 DEF Live
      <4>2. \A a \in Batches, l \in Lanes :
              Has(a, s, l)' <=> Has(a, s, l) \/ (a = b /\ s \in S /\ l = lanes[s])
        BY <1>3, <1>4, <1>5 DEF Has
      <4>3. CASE s \in S
        BY <1>5, <3>2, <4>1, <4>2, <4>3 DEF Owned
      <4>4. CASE s \notin S
        BY <1>5, <4>1, <4>2, <4>4 DEF Owned
      <4> QED BY <4>3, <4>4
    <3>5. Counted(s)'
      <4>1. Counted(s) /\ Counting(s)' = Counting(s)
        BY <1>1, <3>1 DEF Live, Counting
      <4>2. CASE s \in S
        <5>1. Busy(s)' = Busy(s) \cup {lanes[s]} /\ lanes[s] \notin Busy(s)
          BY <1>5, <4>2 DEF Busy
        <5>2. Cardinality(Busy(s)') = Cardinality(Busy(s)) + 1 /\ Cardinality(Busy(s)) \in Nat
          BY <1>5, <4>2, <5>1, BusyCounts
        <5>3. Cardinality(Counting(s)) \in Nat /\ outstanding'[s] = outstanding[s] + 1
          BY <1>5, <4>1, <4>2, FS_CardinalityType DEF Counted
        <5> QED BY <4>1, <5>2, <5>3 DEF Counted
      <4>3. CASE s \notin S
        <5>1. Busy(s)' = Busy(s) /\ outstanding'[s] = outstanding[s]
          BY <1>5, <4>3 DEF Busy
        <5> QED BY <4>1, <5>1 DEF Counted
      <4> QED BY <4>2, <4>3
    <3> QED BY <3>3, <3>4, <3>5 DEF Live
  <2> QED BY <1>1, <2>0, <2>1, <2>3, <2>4 DEF Once
<1> QED BY <1>6 DEF FirstBinding

\* The targets R of batch b are given back, the others published: what is common
\* to PublishFrameBatch, AbortFrameBatch and FailFrameBatch.
ReleaseStep(b, R) ==
  /\ R \subseteq ActiveTargets(b) /\ Released(b, R) /\ Narrowed
  /\ \A a \in Batches : a # b => batch'[a] = batch[a]
  /\ \A s \in Sinks : batch'[b].targets[s].active <=> s \in ActiveTargets(b) \ R
  /\ \A s \in Sinks :
       LET t == batch[b].targets[s]
           m == batch[b].n IN
       /\ s \in ActiveTargets(b) \ R =>
            /\ ~t.published /\ batch'[b].targets[s].published
            /\ life'[s] = [life[s] EXCEPT ![m] = BatchTold(s, m, t.epoch, "prepared", "published")]
       /\ s \in R /\ TargetValid(t, s) =>
            life'[s] = [life[s] EXCEPT ![m] =
              IF t.published THEN BatchTold(s, m, t.epoch, "published", "over")
                             ELSE BatchTold(s, m, t.epoch, "prepared", "over")]
       /\ ~(s \in ActiveTargets(b) /\ TargetValid(t, s)) => life'[s] = life[s]
  /\ UNCHANGED <<active, target, epoch, unbind, bound, serial, calls, held, told>>

\* A buffer that is given back is gone.
LEMMA ReleaseOnce ==
  ASSUME TypeOK, FirstBinding, NEW b \in Batches, NEW R \in SUBSET Sinks, ReleaseStep(b, R)
  PROVE  FirstBinding'
<1>1. UNCHANGED <<active, target, epoch, unbind, bound, serial, calls, held, told>>
  BY DEF ReleaseStep
<1>2. /\ R \subseteq ActiveTargets(b) /\ Narrowed
      /\ \A a \in Batches : a # b => batch'[a] = batch[a]
      /\ \A s \in Sinks : batch'[b].targets[s].active <=> s \in ActiveTargets(b) \ R
      /\ \A s \in Sinks : batch[b].targets[s].active <=> s \in ActiveTargets(b)
  BY FreeBatch DEF ReleaseStep
<1>3. ASSUME NEW s \in Sinks
      PROVE  /\ outstanding'[s] = IF s \in R THEN outstanding[s] - 1 ELSE outstanding[s]
             /\ \A l \in Lanes : /\ lane'[s][l].n = lane[s][l].n
                                 /\ s \in R /\ l = batch[b].targets[s].lane => ~lane'[s][l].busy
                                 /\ ~(s \in R /\ l = batch[b].targets[s].lane) => lane'[s][l] = lane[s][l]
  <2>1. Released(b, R) /\ Types
    BY DEF ReleaseStep, TypeOK
  <2>2. ASSUME NEW l \in Lanes
        PROVE  /\ lane'[s][l].n = lane[s][l].n
               /\ s \in R /\ l = batch[b].targets[s].lane => ~lane'[s][l].busy
               /\ ~(s \in R /\ l = batch[b].targets[s].lane) => lane'[s][l] = lane[s][l]
    <3>1. [lane[s][l] EXCEPT !.busy = FALSE].busy = FALSE
      BY <2>1, LaneFields DEF Types, LaneType
    <3>2. /\ lane'[s][l] = IF s \in R /\ l = batch[b].targets[s].lane
                              THEN [lane[s][l] EXCEPT !.busy = FALSE] ELSE lane[s][l]
          /\ lane'[s][l].n = lane[s][l].n
      BY <2>1, ReleasedFact
    <3> QED BY <3>1, <3>2
  <2>3. outstanding'[s] = IF s \in R THEN outstanding[s] - 1 ELSE outstanding[s]
    BY <2>1, ReleasedFact, ZenonT(60)
  <2> QED BY <2>2, <2>3
<1>4. ASSUME NEW s \in Sinks PROVE Once(s)'
  <2> DEFINE m == batch[b].n
             t == batch[b].targets[s]
  <2>0. Once(s) /\ life[s] \in [Serials -> Lives]
    BY DEF FirstBinding, TypeOK, Types, HistoryType
  <2>1. /\ s \in ActiveTargets(b) \ R =>
             /\ ~t.published /\ batch'[b].targets[s].published
             /\ life'[s] = [life[s] EXCEPT ![m] = BatchTold(s, m, t.epoch, "prepared", "published")]
        /\ s \in R /\ TargetValid(t, s) =>
             life'[s] = [life[s] EXCEPT ![m] =
               IF t.published THEN BatchTold(s, m, t.epoch, "published", "over")
                              ELSE BatchTold(s, m, t.epoch, "prepared", "over")]
        /\ ~(s \in ActiveTargets(b) /\ TargetValid(t, s)) => life'[s] = life[s]
    BY DEF ReleaseStep
  <2>2. Unborn(s) => Unborn(s)'
    <3>1. ASSUME Unborn(s) PROVE Unborn(s)'
      <4>1. s \notin ActiveTargets(b)
        BY <1>2, <3>1 DEF Unborn
      <4>2. life'[s] = life[s] /\ \A a \in Batches : ~batch'[a].targets[s].active
        BY <1>2, <2>1, <3>1, <4>1 DEF Unborn, Narrowed
      <4> QED BY <1>1, <3>1, <4>2 DEF Unborn
    <3> QED BY <3>1
  <2>3. ASSUME bound[s] <= 1, target[s], s \in ActiveTargets(b)
        PROVE  /\ m \in Serials /\ m <= serial /\ InBatch(s, m, b) /\ t.lane \in Lanes
               /\ lane[s][t.lane].busy /\ lane[s][t.lane].n = 0
               /\ \A a \in Batches : Taken(a, s, m) => a = b
               /\ life'[s][m] = IF s \in R THEN "over" ELSE "published"
               /\ \A n \in Serials : n # m => life'[s][n] = life[s][n]
    <3>1. Live(s)
      BY <2>0, <2>3 DEF Once
    <3>2. /\ m \in Serials /\ m <= serial /\ InBatch(s, m, b) /\ t.lane \in Lanes
          /\ lane[s][t.lane].busy /\ lane[s][t.lane].n = 0
          /\ \A a \in Batches : Taken(a, s, m) => a = b
      BY <1>2, <2>3, <3>1, TargetToken
    <3>3. TargetValid(t, s) /\ epoch[s] = t.epoch
      BY <2>3, <3>2 DEF TargetValid, InBatch
    <3>4. life[s][m] = IF t.published THEN "published" ELSE "prepared"
      BY <3>2 DEF InBatch
    <3>5. /\ ~t.published => BatchTold(s, m, t.epoch, "prepared", "published") = "published"
          /\ ~t.published => BatchTold(s, m, t.epoch, "prepared", "over") = "over"
          /\ t.published => BatchTold(s, m, t.epoch, "published", "over") = "over"
      BY <3>3, <3>4 DEF BatchTold, Told
    <3>6. life'[s] = [life[s] EXCEPT ![m] = IF s \in R THEN "over" ELSE "published"]
      BY <1>2, <2>1, <2>3, <3>3, <3>5
    <3> QED BY <2>0, <3>2, <3>6
  <2> HIDE DEF m, t
  <2>4. ASSUME bound[s] <= 1 PROVE EndsOnce(s)'
    <3>1. EndsOnce(s)
      BY <2>0, <2>4 DEF Once
    <3>2. CASE target[s] /\ s \in ActiveTargets(b)
      BY <2>3, <2>4, <3>1, <3>2 DEF EndsOnce
    <3>3. CASE ~(target[s] /\ s \in ActiveTargets(b))
      BY <2>1, <3>1, <3>3 DEF EndsOnce, TargetValid
    <3> QED BY <3>2, <3>3
  <2>5. ASSUME bound[s] <= 1, target[s] PROVE Live(s)'
    <3>1. Live(s)
      BY <2>0, <2>5 DEF Once
    <3>2. s \in R => s \in ActiveTargets(b)
      BY <1>2
    <3>3. ASSUME NEW n \in Serials PROVE Token(s, n)'
      <4>0. Token(s, n)
        BY <3>1 DEF Live
      <4>1. CallsOf(s, n)' = CallsOf(s, n) /\ HeldOf(s, n)' = HeldOf(s, n)
        BY <1>1 DEF CallsOf, HeldOf
      <4>2. NoLaneHas(s, n)' <=> NoLaneHas(s, n)
        BY <1>3 DEF NoLaneHas
      <4>3. CASE s \in R /\ n = m
        <5>1. InBatch(s, n, b) /\ n <= serial' /\ \A a \in Batches : Taken(a, s, n) => a = b
          BY <1>1, <2>3, <2>5, <3>2, <4>3
        <5>2. Free(s, n)'
          BY <1>2, <4>3, <5>1 DEF Free, Taken
        <5>3. Gone(s, n)'
          BY <4>1, <4>2, <5>1, <5>2 DEF Gone, InBatch
        <5> QED BY <5>3 DEF Token
      <4>4. CASE s \in ActiveTargets(b) \ R /\ n = m
        <5>1. InBatch(s, n, b) /\ life'[s][n] = "published" /\ batch'[b].targets[s].published
          BY <2>1, <2>3, <2>5, <4>4
        <5>2. /\ batch'[b].targets[s].active /\ batch'[b].n = batch[b].n
              /\ batch'[b].targets[s].epoch = batch[b].targets[s].epoch
          BY <1>2, <4>4 DEF Narrowed
        <5>3. InBatch(s, n, b)'
          BY <1>1, <4>1, <4>2, <5>1, <5>2 DEF InBatch, Taken
        <5> QED BY <5>3 DEF Token
      <4>5. CASE s \notin ActiveTargets(b) \/ n # m
        <5>1. life'[s][n] = life[s][n]
          BY <2>1, <2>3, <2>5, <4>5
        <5>2. \A a \in Batches : /\ Taken(a, s, n)' <=> Taken(a, s, n)
                                 /\ Taken(a, s, n) => batch'[a] = batch[a]
          BY <1>2, <4>5 DEF Taken, Narrowed, m
        <5>3. \A l \in Lanes : /\ lane'[s][l].n = n <=> lane[s][l].n = n
                               /\ lane[s][l].n = n => lane'[s][l] = lane[s][l]
          <6>1. n # 0
            BY HubAssumption DEF Serials
          <6>2. s \in R => lane[s][batch[b].targets[s].lane].n = 0
            BY <2>3, <2>5, <3>2 DEF t
          <6> QED BY <1>3, <6>1, <6>2
        <5>4. Untouched(s, n)
          BY <1>1, <4>1, <5>1, <5>2, <5>3 DEF Untouched
        <5> QED BY <4>0, <5>4, TokenStays
      <4> QED BY <3>2, <4>3, <4>4, <4>5
    <3>4. Owned(s)'
      <4>1. Owned(s)
        BY <3>1 DEF Live
      <4>2. \A a \in Batches, l \in Lanes : Has(a, s, l)' <=> Has(a, s, l) /\ ~(a = b /\ s \in R)
        BY <1>2 DEF Has, Narrowed
      <4>3. CASE s \in R
        <5>1. Has(b, s, t.lane) /\ \A l \in Lanes : Has(b, s, l) => l = t.lane
          BY <1>2, <3>2, <4>3 DEF Has, t
        <5> QED BY <1>3, <4>1, <4>2, <4>3, <5>1 DEF Owned, t
      <4>4. CASE s \notin R
        BY <1>3, <4>1, <4>2, <4>4 DEF Owned
      <4> QED BY <4>3, <4>4
    <3>5. Counted(s)'
      <4>1. Counted(s) /\ Counting(s)' = Counting(s)
        BY <1>1, <3>1 DEF Live, Counting
      <4>2. CASE s \in R
        <5>1. t.lane \in Lanes /\ Busy(s)' = Busy(s) \ {t.lane} /\ t.lane \in Busy(s)
          BY <1>3, <2>3, <2>5, <3>2, <4>2 DEF Busy, t
        <5>2. Cardinality(Busy(s)') = Cardinality(Busy(s)) - 1 /\ Cardinality(Busy(s)) \in Nat
          BY <5>1, BusyCounts
        <5>3. Cardinality(Counting(s)) \in Nat /\ outstanding'[s] = outstanding[s] - 1
          BY <1>3, <4>1, <4>2, FS_CardinalityType DEF Counted
        <5> QED BY <4>1, <5>2, <5>3 DEF Counted
      <4>3. CASE s \notin R
        <5>1. Busy(s)' = Busy(s) /\ outstanding'[s] = outstanding[s]
          BY <1>3, <4>3 DEF Busy
        <5> QED BY <4>1, <5>1 DEF Counted
      <4> QED BY <4>2, <4>3
    <3> QED BY <3>3, <3>4, <3>5 DEF Live
  <2> QED BY <1>1, <2>0, <2>2, <2>4, <2>5 DEF Once
<1> QED BY <1>4 DEF FirstBinding

\* Before PublishFrameBatch no target of the capture thread's batch is published.
Unpublished ==
  capture.pc = "prepared" =>
    \A s \in Sinks : batch[capture.b].targets[s].active => ~batch[capture.b].targets[s].published

\* Only PublishFrameBatch publishes.
LEMMA UnpublishedStep == ASSUME TypeOK, Unpublished, [Next]_vars PROVE Unpublished'
<1>1. CASE UNCHANGED <<batch, capture>>
  BY <1>1 DEF Unpublished
<1>2. CASE capture'.pc # "prepared"
  BY <1>2 DEF Unpublished
<1>3. ASSUME capture' = capture, NEW b \in Batches,
             \A a \in Batches : a # b => batch'[a] = batch[a],
             \A s \in Sinks : batch'[b].targets[s].active =>
               /\ batch[b].targets[s].active
               /\ batch'[b].targets[s].published = batch[b].targets[s].published
      PROVE  Unpublished'
  <2>1. capture.pc = "prepared" => capture.b \in Batches
    BY DEF TypeOK, Types, CaptureType
  <2> QED BY <1>3, <2>1 DEF Unpublished
<1>4. CASE Capture
  <2>1. CASE GetFramePlan
    <3>1. capture.pc = "idle" /\ capture \in CaptureRec
      BY <2>1 DEF GetFramePlan, CaptureAt, TypeOK, Types, CaptureType
    <3>2. capture' = capture \/ \E p : capture' = [capture EXCEPT !.pc = "planned", !.plan = p]
      BY <2>1, Zenon DEF GetFramePlan
    <3>3. capture'.pc # "prepared"
      BY <3>1, <3>2 DEF CaptureRec
    <3> QED BY <1>2, <3>3
  <2>2. CASE PrepareFailed \/ AbortFrameBatch \/ SubmitFailed \/ CommitFrameBatch
    <3>1. capture' = Idle
      BY <2>2 DEF PrepareFailed, AbortFrameBatch, SubmitFailed, CommitFrameBatch
    <3> QED BY <1>2, <3>1, DefaultsType, ZenonT(60)
  <2>3. CASE Prepare
    <3>1. NewestContent \in Nat
      BY HubAssumption DEF NewestContent, TypeOK, Types, BatchType, Serials
    <3>2. PICK b \in Batches, S \in SUBSET Sinks, lanes \in [Sinks -> Lanes], d \in Nat :
            Prepared(b, S, lanes, d)
      BY <2>3, <3>1, PrepareEffect DEF Prepare
    <3> QED BY <3>2 DEF Prepared, Unpublished
  <2>4. CASE Publish
    <3>1. capture' = Idle \/ capture' = [capture EXCEPT !.pc = "published"]
      BY <2>4 DEF Publish, PublishFrameBatch
    <3>2. capture'.pc # "prepared"
      BY <3>1, DefaultsType DEF TypeOK, Types, CaptureType, CaptureRec
    <3> QED BY <1>2, <3>2
  <2> QED BY <1>4, <2>1, <2>2, <2>3, <2>4 DEF Capture
<1>5. ASSUME NEW b \in Batches, Copy(b) PROVE Unpublished'
  <2>1. ASSUME NEW r \in Sinks, CompleteFrameTarget(b, r) PROVE Unpublished'
    <3>1. PICK D \in SUBSET ActiveTargets(b) : DetachStep(b, D, "gpu") /\ capture' = capture
      BY <2>1, CompleteTargetEffect
    <3>2. \A s \in Sinks : batch[b].targets[s].active <=> s \in ActiveTargets(b)
      BY FreeBatch
    <3> QED BY <1>3, <3>1, <3>2 DEF DetachStep
  <2>2. CASE FailFrameBatch(b)
    <3>1. EndBatch(b, gpu[b].n) /\ capture' = capture /\ serial' = serial
      BY <2>2 DEF FailFrameBatch
    <3>2. /\ \A a \in Batches : a # b => batch'[a] = batch[a]
          /\ batch' = batch \/ \A s \in Sinks : ~batch'[b].targets[s].active
      BY <3>1, EndBatchEffect
    <3> QED BY <1>3, <3>1, <3>2
  <2> QED BY <1>5, <2>1, <2>2 DEF Copy
<1>6. ASSUME NEW s \in Sinks, Bind(s) \/ UnbindBegin(s) \/ UnbindStep(s) PROVE Unpublished'
  BY <1>1, <1>6 DEF Bind, UnbindBegin, UnbindStep, UnbindScan, UnbindFinish
<1>7. ASSUME NEW c \in calls, Handler(c) PROVE Unpublished'
  <2>1. UNCHANGED <<batch, capture>>
    BY <1>7, Zenon DEF Handler, FillBegin, FillEnd, CancelBegin, CancelEnd, CompleteClaim, CompleteCall,
                CompleteSettle, CompleteSub, CompleteSet, OnFrameDone, hubVars
  <2> QED BY <1>1, <2>1, Zenon
<1>8. ASSUME NEW h \in held, NEW r \in {"READY", "FAILED"}, SinkDone(h, r) PROVE Unpublished'
  BY <1>1, <1>8 DEF SinkDone, hubVars
<1>9. CASE UNCHANGED vars
  BY <1>1, <1>9 DEF vars, moving, hubVars
<1> QED BY <1>4, <1>5, <1>6, <1>7, <1>8, <1>9 DEF Next

\* PublishFrameBatch publishes the accepted buffers and gives back the others.
LEMMA PublishOnce ==
  ASSUME TypeOK, FirstBinding, Unpublished, NEW A \in SUBSET Sinks, PublishFrameBatch(A)
  PROVE  FirstBinding'
<1> DEFINE b == capture.b
           ts == batch[b].targets
           R == ActiveTargets(b) \ A
<1>1. /\ b \in Batches /\ A \subseteq ActiveTargets(b) /\ \A s \in A : TargetValid(ts[s], s)
      /\ Released(b, ActiveTargets(b) \ A) /\ Narrowed
      /\ \A a \in Batches : a # b => batch'[a] = batch[a]
      /\ \A s \in Sinks : batch'[b].targets[s].active <=> s \in A
      /\ \A s \in A : batch'[b].targets[s].published
      /\ UNCHANGED <<active, target, epoch, unbind, bound, contentOf, serial, calls, held, told, ended>>
  BY PublishEffect
<1>2. \A s \in Sinks :
        /\ s \in A => life'[s] = [life[s] EXCEPT ![batch[b].n] =
             BatchTold(s, batch[b].n, ts[s].epoch, "prepared", "published")]
        /\ s \in R /\ TargetValid(ts[s], s) => life'[s] = [life[s] EXCEPT ![batch[b].n] =
             BatchTold(s, batch[b].n, ts[s].epoch, "prepared", "over")]
        /\ ~(s \in ActiveTargets(b) /\ TargetValid(ts[s], s)) => life'[s] = life[s]
  BY PublishEffect
<1>3. \A s \in ActiveTargets(b) : ~ts[s].published
  BY DEF PublishFrameBatch, CaptureAt, Unpublished, ActiveTargets
<1>4. A = ActiveTargets(b) \ R /\ R \in SUBSET Sinks
  BY <1>1 DEF ActiveTargets
<1>5. ReleaseStep(b, R)
  BY <1>1, <1>2, <1>3, <1>4 DEF ReleaseStep
<1> QED BY <1>1, <1>4, <1>5, ReleaseOnce

\* AbortFrameBatch and FailFrameBatch give back all buffers of a batch.
LEMMA EndBatchOnce ==
  ASSUME TypeOK, FirstBinding, NEW b \in Batches, NEW n, EndBatch(b, n),
         UNCHANGED <<active, target, epoch, unbind, bound, serial, calls, held, told>>
  PROVE  FirstBinding'
<1> DEFINE R == ActiveTargets(b)
<1>1. CASE UNCHANGED <<lane, outstanding, batch, life>>
  BY <1>1, SameOnce
<1>2. ASSUME /\ batch[b].active /\ batch[b].n = n
             /\ Released(b, R)
             /\ \A s \in Sinks : ~batch'[b].targets[s].active
             /\ \A s \in Sinks : LET t == batch[b].targets[s] IN
                  /\ s \in R /\ TargetValid(t, s) =>
                       life'[s] = [life[s] EXCEPT ![n] =
                         IF t.published THEN BatchTold(s, n, t.epoch, "published", "over")
                                        ELSE BatchTold(s, n, t.epoch, "prepared", "over")]
                  /\ ~(s \in R /\ TargetValid(t, s)) => life'[s] = life[s]
      PROVE  FirstBinding'
  <2>1. Narrowed /\ \A a \in Batches : a # b => batch'[a] = batch[a]
    BY EndBatchEffect
  <2>2. R \in SUBSET Sinks /\ R \ R = {}
    BY DEF ActiveTargets
  <2>3. ReleaseStep(b, R)
    BY <1>2, <2>1, <2>2 DEF ReleaseStep
  <2> QED BY <2>2, <2>3, ReleaseOnce
<1> QED BY <1>1, <1>2, EndBatchEffect

\* CommitFrameBatch and CompleteFrameTarget: published buffers go from the batch to
\* their lanes.
LEMMA DetachOnce ==
  ASSUME TypeOK, FirstBinding, NEW b \in Batches, NEW D \in SUBSET ActiveTargets(b),
         NEW who \in {"capture", "gpu"}, DetachStep(b, D, who),
         \A s \in D : batch[b].targets[s].published \/ batch[b].targets[s].committed,
         \A s \in ActiveTargets(b) \ D :
           \/ batch'[b].targets[s] = batch[b].targets[s]
           \/ batch[b].targets[s].published
           \/ batch'[b].targets[s].committed = batch[b].targets[s].committed
  PROVE  FirstBinding'
<1>1. UNCHANGED <<active, target, epoch, unbind, bound, outstanding, serial, held, life, told>>
  BY DEF DetachStep
<1>2. /\ Narrowed /\ \A a \in Batches : a # b => batch'[a] = batch[a]
      /\ \A s \in Sinks : batch'[b].targets[s].active <=> s \in ActiveTargets(b) \ D
      /\ \A s \in Sinks : batch[b].targets[s].active <=> s \in ActiveTargets(b)
      /\ \A s \in ActiveTargets(b) \ D :
           batch'[b].targets[s].published = batch[b].targets[s].published
  BY FreeBatch DEF DetachStep
<1> DEFINE Call(s) == [by |-> who, pc |-> "fill", s |-> s, l |-> batch[b].targets[s].lane,
                       n |-> batch[b].n, epoch |-> batch[b].targets[s].epoch, result |-> "none"]
<1>3. calls' = calls \cup {Call(s) : s \in D}
  BY DEF DetachStep, FillCalls
<1>4. \A s : /\ Call(s).by # "sink" /\ Call(s).pc = "fill" /\ Call(s).s = s
             /\ Call(s).l = batch[b].targets[s].lane /\ Call(s).n = batch[b].n
             /\ Call(s).epoch = batch[b].targets[s].epoch
  OBVIOUS
<1> HIDE DEF Call
<1>5. \A s \in Sinks, l \in Lanes :
        lane'[s][l] = IF s \in D /\ l = batch[b].targets[s].lane THEN FilledLane(b) ELSE lane[s][l]
  BY DetachedFact DEF DetachStep
<1>6. /\ FilledLane(b).busy /\ FilledLane(b).phase = "FILLING" /\ FilledLane(b).n = batch[b].n
      /\ FilledLane(b).callActive = FALSE /\ FilledLane(b).result = "none"
  <2>1. batch[b].n \in 0..MaxSerial
    BY DEF TypeOK, Types, BatchType, BatchRec
  <2> QED BY <2>1, FilledLaneFields
<1>7. ASSUME NEW s \in Sinks PROVE Once(s)'
  <2> DEFINE m == batch[b].n
             t == batch[b].targets[s]
  <2>0. Once(s) /\ (s \in D => s \in ActiveTargets(b))
    BY DEF FirstBinding
  <2>1. (EndsOnce(s) => EndsOnce(s)') /\ (Unborn(s) => Unborn(s)')
    <3>1. EndsOnce(s) => EndsOnce(s)'
      BY <1>1 DEF EndsOnce
    <3>2. ASSUME Unborn(s) PROVE Unborn(s)'
      <4>1. s \notin D /\ \A a \in Batches : ~batch'[a].targets[s].active
        BY <1>2, <2>0, <3>2 DEF Unborn, Narrowed
      <4>2. \A c \in calls' : c.s # s
        BY <1>3, <1>4, <3>2, <4>1 DEF Unborn
      <4> QED BY <1>1, <3>2, <4>1, <4>2 DEF Unborn
    <3> QED BY <3>1, <3>2
  <2>2. ASSUME bound[s] <= 1, target[s] PROVE Live(s)'
    <3>1. Live(s)
      BY <2>0, <2>2 DEF Once
    <3>2. ASSUME s \in ActiveTargets(b)
          PROVE  /\ m \in Serials /\ m <= serial /\ InBatch(s, m, b) /\ t.lane \in Lanes
                 /\ lane[s][t.lane].busy /\ lane[s][t.lane].n = 0
                 /\ \A a \in Batches : Taken(a, s, m) => a = b
      BY <1>2, <3>1, <3>2, TargetToken
    <3> HIDE DEF m, t
    <3>3. ASSUME NEW n \in Serials PROVE Token(s, n)'
      <4>0. Token(s, n) /\ n # 0
        BY <3>1, HubAssumption DEF Live, Serials
      <4>1. HeldOf(s, n)' = HeldOf(s, n)
        BY <1>1 DEF HeldOf
      <4>2. CASE s \in D /\ n = m
        <5>1. /\ InBatch(s, n, b) /\ n <= serial /\ t.lane \in Lanes
              /\ \A a \in Batches : Taken(a, s, n) => a = b
          BY <2>0, <3>2, <4>2
        <5>2. CallsOf(s, n)' = {Call(s)}
          BY <1>3, <1>4, <4>2, <5>1 DEF CallsOf, InBatch, m
        <5>3. HeldOf(s, n)' = {} /\ told'[s][n] = "none" /\ life'[s][n] = "published" /\ t.epoch = epoch[s]
          BY <1>1, <4>1, <4>2, <5>1 DEF InBatch, t
        <5>4. /\ lane'[s][t.lane] = FilledLane(b)
              /\ \A k \in Lanes : lane'[s][k].n = n => k = t.lane
          BY <1>5, <4>2, <5>1 DEF InBatch, NoLaneHas, t
        <5>5. n <= serial' /\ Free(s, n)'
          BY <1>1, <1>2, <4>2, <5>1 DEF Free, Taken
        <5>6. ToFill("FILLING", FALSE, "none", {Call(s)}, {}, "published", "none")
          BY <1>4 DEF ToFill
        <5>7. Stage("FILLING", FALSE, "none", {Call(s)}, {}, "published", "none")
          BY <5>6 DEF Stage
        <5>8. PICK l \in Lanes : l = t.lane
          BY <5>1
        <5>9. /\ lane'[s][l].phase = "FILLING" /\ lane'[s][l].callActive = FALSE
              /\ lane'[s][l].result = "none" /\ lane'[s][l].busy /\ lane'[s][l].n = n
              /\ \A k \in Lanes : lane'[s][k].n = n => k = l
          BY <1>6, <4>2, <5>4, <5>8 DEF m
        <5>10. Stage(lane[s][l].phase, lane[s][l].callActive, lane[s][l].result, CallsOf(s, n),
                     HeldOf(s, n), life[s][n], told[s][n])'
          BY <5>2, <5>3, <5>7, <5>9, Zenon
        <5>11. /\ \A c \in CallsOf(s, n)' : c.l = l /\ c.epoch = epoch'[s]
               /\ \A h \in HeldOf(s, n)' : h.l = l /\ h.epoch = epoch'[s]
          BY <1>1, <1>4, <5>2, <5>3, <5>8 DEF t
        <5>12. InLane(s, n, l)'
          BY <5>5, <5>9, <5>10, <5>11, Zenon DEF InLane
        <5> QED BY <5>12 DEF Token
      <4>3. CASE ~(s \in D /\ n = m)
        <5>1. CallsOf(s, n)' = CallsOf(s, n)
          BY <1>3, <1>4, <4>3 DEF CallsOf, m
        <5>2. \A l \in Lanes : /\ lane'[s][l].n = n <=> lane[s][l].n = n
                               /\ lane[s][l].n = n => lane'[s][l] = lane[s][l]
          <6>1. CASE s \in D
            <7>1. lane[s][batch[b].targets[s].lane].n = 0
              BY <2>0, <3>2, <6>1 DEF t
            <7> QED BY <1>5, <1>6, <4>0, <4>3, <6>1, <7>1 DEF m
          <6>2. CASE s \notin D
            BY <1>5, <6>2
          <6> QED BY <6>1, <6>2
        <5>3. \A a \in Batches :
                /\ Taken(a, s, n)' <=> Taken(a, s, n)
                /\ Taken(a, s, n) =>
                     /\ batch'[a].targets[s].epoch = batch[a].targets[s].epoch
                     /\ batch'[a].targets[s].published = batch[a].targets[s].published
                     /\ (batch[a].targets[s].committed => batch[a].targets[s].published) =>
                          (batch'[a].targets[s].committed => batch'[a].targets[s].published)
          <6>1. ASSUME NEW a \in Batches, a # b
                PROVE  batch'[a] = batch[a]
            BY <1>2, <6>1
          <6>2. CASE s \in ActiveTargets(b) \ D
            <7>1. /\ batch'[b].targets[s].active /\ batch[b].targets[s].active /\ batch'[b].n = batch[b].n
                  /\ batch'[b].targets[s].epoch = batch[b].targets[s].epoch
                  /\ batch'[b].targets[s].published = batch[b].targets[s].published
              BY <1>2, <6>2 DEF Narrowed
            <7>2. (batch[b].targets[s].committed => batch[b].targets[s].published) =>
                    (batch'[b].targets[s].committed => batch'[b].targets[s].published)
              BY <6>2, <7>1
            <7> QED BY <6>1, <7>1, <7>2 DEF Taken
          <6>3. CASE s \notin ActiveTargets(b) \ D
            <7>1. ~Taken(b, s, n) /\ ~Taken(b, s, n)'
              BY <1>2, <4>3, <6>3 DEF Taken, m
            <7> QED BY <6>1, <7>1 DEF Taken
          <6> QED BY <6>2, <6>3
        <5>4. Untouched(s, n)
          BY <1>1, <4>1, <5>1, <5>2, <5>3 DEF Untouched
        <5> QED BY <4>0, <5>4, TokenStays
      <4> QED BY <4>2, <4>3
    <3>4. Owned(s)'
      <4>1. Owned(s)
        BY <3>1 DEF Live
      <4>2. \A a \in Batches, l \in Lanes : Has(a, s, l)' <=> Has(a, s, l) /\ ~(a = b /\ s \in D)
        BY <1>2 DEF Has, Narrowed
      <4>3. CASE s \in D
        <5>1. /\ Has(b, s, t.lane) /\ \A l \in Lanes : Has(b, s, l) => l = t.lane
              /\ m # 0 /\ t.lane \in Lanes
          BY <1>2, <2>0, <3>2, <4>3, HubAssumption DEF Has, t, Serials
        <5> QED BY <1>5, <1>6, <4>1, <4>2, <4>3, <5>1 DEF Owned, t, m
      <4>4. CASE s \notin D
        BY <1>5, <4>1, <4>2, <4>4 DEF Owned
      <4> QED BY <4>3, <4>4
    <3>5. Counted(s)'
      <4>1. Counting(s)' = Counting(s)
        BY <1>3, <1>4 DEF Counting
      <4>2. Busy(s)' = Busy(s)
        BY <1>5, <1>6, <2>0, <3>2 DEF Busy, t
      <4> QED BY <1>1, <3>1, <4>1, <4>2 DEF Live, Counted
    <3> QED BY <3>3, <3>4, <3>5 DEF Live
  <2> QED BY <1>1, <2>0, <2>1, <2>2 DEF Once
<1> QED BY <1>7 DEF FirstBinding

-----------------------------------------------------------------------------
(* The first binding of every sink.                                        *)

\* What holds of the tokens and the lanes of a sink until it is bound again.
OnceInv == HubInv /\ Unpublished /\ FirstBinding

\* FirstBinding holds at first: no sink was ever bound.
LEMMA OnceInit == Init => Unpublished /\ FirstBinding
<1> SUFFICES ASSUME Init PROVE Unpublished /\ FirstBinding
  OBVIOUS
<1>1. Unpublished
  BY DEF Init, Unpublished, Idle
<1>2. ASSUME NEW s \in Sinks PROVE Once(s)
  <2>1. ~target[s] /\ EndsOnce(s)
    BY DEF Init, EndsOnce
  <2>2. Unborn(s)
    BY NoBatchFact DEF Init, Unborn
  <2> QED BY <2>1, <2>2 DEF Once
<1> QED BY <1>1, <1>2 DEF FirstBinding

\* FirstBinding is kept by every step.
LEMMA OnceStep == ASSUME TypeOK, Unpublished, FirstBinding, [Next]_vars PROVE FirstBinding'
<1>1. CASE UNCHANGED vars
  BY <1>1, SameOnce DEF vars, moving, hubVars, history
<1>2. ASSUME NEW s \in Sinks, Bind(s) \/ UnbindBegin(s) \/ UnbindStep(s) PROVE FirstBinding'
  BY <1>2, BindOnce, UnbindBeginOnce, UnbindScanOnce, UnbindFinishOnce DEF UnbindStep
<1>3. CASE Capture
  <2>1. CASE GetFramePlan \/ PrepareFailed
    BY <2>1, SameOnce DEF GetFramePlan, PrepareFailed, hubVars, history
  <2>2. CASE Prepare
    <3>1. NewestContent \in Nat
      BY HubAssumption DEF NewestContent, TypeOK, Types, BatchType, Serials
    <3>2. PICK b \in Batches, S \in SUBSET Sinks, lanes \in [Sinks -> Lanes], d \in Nat :
            Prepared(b, S, lanes, d)
      BY <2>2, <3>1, PrepareEffect DEF Prepare
    <3> QED BY <3>2, PreparedOnce
  <2>3. CASE Publish
    BY <2>3, PublishOnce DEF Publish
  <2>4. CASE AbortFrameBatch
    <3>1. capture.b \in Batches
      BY <2>4 DEF AbortFrameBatch, CaptureAt, TypeOK, Types, CaptureType
    <3> QED BY <2>4, <3>1, EndBatchOnce DEF AbortFrameBatch
  <2>5. CASE SubmitFailed
    <3>1. capture.b \in Batches
      BY <2>5 DEF SubmitFailed, CaptureAt, TypeOK, Types, CaptureType
    <3> QED BY <2>5, <3>1, EndBatchOnce DEF SubmitFailed
  <2>6. CASE CommitFrameBatch
    <3>1. PICK b \in Batches : b = capture.b
      BY <2>6, CommitEffect
    <3>2. PICK D \in SUBSET ActiveTargets(b) :
            /\ DetachStep(b, D, "capture") /\ \A s \in D : batch[b].targets[s].published
            /\ \A s \in ActiveTargets(b) \ D :
                 batch'[b].targets[s] = batch[b].targets[s] \/ batch[b].targets[s].published
      BY <2>6, <3>1, CommitEffect
    <3> QED BY <3>2, DetachOnce
  <2> QED BY <1>3, <2>1, <2>2, <2>3, <2>4, <2>5, <2>6 DEF Capture
<1>4. ASSUME NEW b \in Batches, Copy(b) PROVE FirstBinding'
  <2>1. ASSUME NEW r \in Sinks, CompleteFrameTarget(b, r) PROVE FirstBinding'
    <3>1. PICK D \in SUBSET ActiveTargets(b) :
            /\ DetachStep(b, D, "gpu") /\ \A s \in D : batch[b].targets[s].committed
            /\ \A s \in ActiveTargets(b) \ D :
                 \/ batch'[b].targets[s] = batch[b].targets[s]
                 \/ batch'[b].targets[s].committed = batch[b].targets[s].committed
      BY <2>1, CompleteTargetEffect
    <3> QED BY <3>1, DetachOnce
  <2>2. CASE FailFrameBatch(b)
    BY <2>2, EndBatchOnce DEF FailFrameBatch
  <2> QED BY <1>4, <2>1, <2>2 DEF Copy
<1>5. ASSUME NEW c \in calls, Handler(c) PROVE FirstBinding'
  BY <1>5, FillBeginOnce, FillEndOnce, CancelBeginOnce, CancelEndOnce, CompleteClaimOnce, CompleteCallOnce,
     CompleteSettleOnce, CompleteSubOnce, CompleteSetOnce, OnFrameDoneOnce DEF Handler
<1>6. ASSUME NEW h \in held, NEW r \in {"READY", "FAILED"}, SinkDone(h, r) PROVE FirstBinding'
  BY <1>6, SinkDoneOnce
<1> QED BY <1>1, <1>2, <1>3, <1>4, <1>5, <1>6 DEF Next

\* No sink has been bound a second time.
BoundOnce == \A s \in Sinks : bound[s] <= 1

\* A bound sink of a first binding has its lanes accounted for.
LEMMA LiveAccounted == ASSUME TypeOK, FirstBinding, BoundOnce PROVE LanesAccounted
<1> SUFFICES ASSUME NEW s \in Sinks, target[s]
             PROVE  /\ outstanding[s] = Cardinality({l \in Lanes : lane[s][l].busy})
                         + Cardinality({c \in calls : c.s = s /\ c.pc = "sub"})
                    /\ \A l \in Lanes : lane[s][l].phase # "IDLE" => lane[s][l].busy
                    /\ \A l \in Lanes :
                         LET owners == {b \in Batches : /\ batch[b].targets[s].active
                                                        /\ batch[b].targets[s].lane = l} IN
                         IF lane[s][l].busy /\ lane[s][l].phase = "IDLE"
                           THEN Cardinality(owners) = 1 ELSE owners = {}
  BY DEF LanesAccounted
<1>1. Live(s)
  BY DEF FirstBinding, Once, BoundOnce
<1>2. outstanding[s] = Cardinality({l \in Lanes : lane[s][l].busy})
        + Cardinality({c \in calls : c.s = s /\ c.pc = "sub"})
  BY <1>1 DEF Live, Counted, Busy, Counting
<1>3. ASSUME NEW l \in Lanes
      PROVE  /\ lane[s][l].n = 0 => lane[s][l].phase = "IDLE"
             /\ lane[s][l].n # 0 => lane[s][l].phase # "IDLE" /\ lane[s][l].busy
  <2>1. lane[s][l].n = 0 => lane[s][l].phase = "IDLE"
    BY DEF TypeOK, Shape
  <2>2. ASSUME lane[s][l].n # 0 PROVE lane[s][l].phase # "IDLE" /\ lane[s][l].busy
    <3>1. InLane(s, lane[s][l].n, l)
      BY <1>1, <2>2, LaneToken
    <3> QED BY <3>1 DEF InLane, Stage, ToFill, Filling, Filled, Pending, Canceling, Canceled, Completing
  <2> QED BY <2>1, <2>2
<1>4. ASSUME NEW l \in Lanes
      PROVE  LET owners == {b \in Batches : /\ batch[b].targets[s].active
                                            /\ batch[b].targets[s].lane = l} IN
             IF lane[s][l].busy /\ lane[s][l].phase = "IDLE"
               THEN Cardinality(owners) = 1 ELSE owners = {}
  <2> DEFINE owners == {b \in Batches : batch[b].targets[s].active /\ batch[b].targets[s].lane = l}
  <2>1. owners = {b \in Batches : Has(b, s, l)}
    BY DEF Has
  <2>2. /\ \A b \in Batches : Has(b, s, l) => lane[s][l].busy /\ lane[s][l].n = 0
        /\ \A a, b \in Batches : Has(a, s, l) /\ Has(b, s, l) => a = b
        /\ lane[s][l].busy /\ lane[s][l].n = 0 => \E b \in Batches : Has(b, s, l)
    BY <1>1 DEF Live, Owned
  <2>3. CASE lane[s][l].busy /\ lane[s][l].phase = "IDLE"
    <3>1. PICK b \in Batches : Has(b, s, l)
      BY <1>3, <2>2, <2>3
    <3>2. owners = {b}
      BY <2>1, <2>2, <3>1
    <3>3. Cardinality(owners) = 1
      BY <3>2, FS_Singleton
    <3> QED BY <2>3, <3>3
  <2>4. CASE ~(lane[s][l].busy /\ lane[s][l].phase = "IDLE")
    <3>1. owners = {}
      BY <1>3, <2>1, <2>2, <2>4
    <3> QED BY <2>4, <3>1
  <2> QED BY <2>3, <2>4
<1> QED BY <1>2, <1>3, <1>4

\* OnceInv is an invariant of the hub.
THEOREM FirstBindingInductive == Spec => []OnceInv
<1>1. Init => OnceInv
  <2>1. Init => EndedInv /\ BatchKeepsToItsSink
    BY DEF Init, EndedInv, BatchKeepsToItsSink
  <2> QED BY <2>1, TypeInit, OnceInit DEF OnceInv, HubInv
<1>2. OnceInv /\ [Next]_vars => OnceInv'
  BY TypeStep, EndedStep, AstrayStep, UnpublishedStep, OnceStep DEF OnceInv, HubInv
<1> QED BY <1>1, <1>2, PTL DEF Spec

\* As long as no sink has been bound a second time, every buffer a sink gave out
\* comes back to it once and with the answer the hub took, whatever the threads
\* of the capture, of the copy, of the sink and of Unbind do to one another.  After
\* a second binding a batch left over from the first can refute it.
THEOREM BufferEndsOnceHolds == Spec => [](BoundOnce => BufferEndsOnce)
<1>1. OnceInv => (BoundOnce => BufferEndsOnce)
  BY DEF OnceInv, BoundOnce, FirstBinding, Once, EndsOnce, BufferEndsOnce
<1> QED BY <1>1, FirstBindingInductive, PTL

\* As long as no sink has been bound a second time, the counter Unbind waits for
\* is the number of busy lanes and of handlers about to count one down, and every
\* busy lane is one batch's or the handlers'.
THEOREM LanesAccountedHolds == Spec => [](BoundOnce => LanesAccounted)
<1>1. OnceInv => (BoundOnce => LanesAccounted)
  BY LiveAccounted DEF OnceInv, HubInv
<1> QED BY <1>1, FirstBindingInductive, PTL
=============================================================================

------------------------------ MODULE FrameHub ------------------------------
(***************************************************************************)
(* CFrameHub (idd/LGIdd/transport/CFrameHub.cpp): the fan-out of captured  *)
(* frames to the bound frame sinks.                                        *)
(*                                                                         *)
(* The capture thread plans, prepares, publishes and commits a batch of    *)
(* one buffer per sink; the GPU's completion thread completes or fails it; *)
(* a completed buffer is detached from its batch and becomes a lane that   *)
(* the sink may finish at once or later, by a callback on a thread of its  *)
(* own; the transport manager binds and unbinds sinks under all of this.   *)
(* Every stretch that a lock of the code protects is one step; what the    *)
(* code does between two locks (calls into the sink, the counter and the   *)
(* event of a finished lane) is a step of its own.  A thread that is       *)
(* inside FillLane, CancelLane, CompleteLane or OnFrameDone is a record of *)
(* `calls': who runs it, where it is, for which lane and which token.      *)
(*                                                                         *)
(* The serial of a batch is unique, so a token is a serial and the epoch   *)
(* of the sink it was prepared on.  Which buffer, pitch and format a lane  *)
(* holds, timing, blockedContent and the wake event are left out: no other *)
(* state depends on them.  `outstanding' is compared with 0 and 1 only, so *)
(* the unsigned counter is an integer here.                                *)
(***************************************************************************)
EXTENDS Integers, FiniteSets

CONSTANTS
  Sinks,        \* the entries of m_sinks
  Lanes,        \* the lanes of one sink (FRAME_SINK_BUFFERS)
  NBatches,     \* the entries of m_batches (FRAME_BATCHES)
  SinkKinds,    \* per kind of sink, what its FrameFilled may answer
  MaxEpoch,     \* bound: how often a sink is bound
  MaxSerial,    \* bound: how many batches are prepared
  MaxContent    \* bound: how many frames are captured

ASSUME HubAssumption ==
  /\ Sinks # {} /\ Lanes # {} /\ NBatches \in Nat \ {0}
  /\ SinkKinds # {}
  /\ SinkKinds \subseteq (SUBSET {"READY", "PENDING", "REJECTED"}) \ {{}}
  /\ MaxEpoch \in Nat /\ MaxSerial \in Nat /\ MaxContent \in Nat

ASSUME LanesFinite == IsFiniteSet(Lanes)

Batches == 1..NBatches
Serials == 1..MaxSerial
Results == {"READY", "FAILED", "SUPERSEDED"}
Phases  == {"IDLE", "FILLING", "PENDING", "CANCELING", "COMPLETING"}

\* ResourceLane after `lane = {}'; n is the serial of its token.
NoLane == [busy |-> FALSE, phase |-> "IDLE", n |-> 0, callActive |-> FALSE,
           cancelRequested |-> FALSE, result |-> "none"]

\* BatchTarget after `target = {}'.
NoTarget == [active |-> FALSE, epoch |-> 0, lane |-> "none",
             full |-> TRUE, published |-> FALSE, committed |-> FALSE,
             completionPending |-> FALSE]

VARIABLES
  active,       \* Sink::active
  target,       \* Sink::target # nullptr
  epoch,        \* Sink::backend and Sink::epoch, 0 when unbound
  outstanding,  \* Sink::outstanding
  drained,      \* the manual-reset event Sink::drained
  content,      \* needsFullCopy, lastContent, lastTerminalContent of a sink
  lane,         \* Sink::lanes
  unbind,       \* how far Unbind is with a sink: "no", "scan", "wait"
  batch,        \* m_batches
  contentOf,    \* BatchTarget::content, by the serial of the batch
  serial,       \* m_nextSerial
  capture,      \* the capture thread: where it is, its plan, its batch
  gpu,          \* the copies submitted to the GPU: batch serial and targets
  calls,        \* the threads inside a lane's handlers
  fills,        \* external: the answers of the sinks of this behaviour
  held,         \* external: the tokens a sink is working on
  bound,        \* how often each sink has been bound
  \* History, read by the properties only
  life,         \* what the sink was told of the buffer of a serial
  told,         \* the first terminal answer the hub took from the sink
  ended         \* the newest content a binding finished, and if it was READY

hubVars  == <<active, target, epoch, outstanding, drained, content, lane,
              unbind, batch, contentOf, serial, bound>>
history  == <<life, told, ended>>
moving   == <<hubVars, capture, gpu, calls, held, history>>
vars     == <<moving, fills>>

FreshContent == [needsFull |-> TRUE, last |-> 0, terminal |-> 0]
NothingEnded == [newest |-> 0, ready |-> FALSE]
NoBatch      == [active |-> FALSE, n |-> 0, targets |-> [s \in Sinks |-> NoTarget]]
NoCopy       == [n |-> 0, todo |-> {}, started |-> FALSE]
Idle         == [pc |-> "idle", plan |-> [s \in Sinks |-> 0],
                 b |-> 0]

Init ==
  /\ fills \in SinkKinds
  /\ active      = [s \in Sinks |-> FALSE]
  /\ target      = [s \in Sinks |-> FALSE]
  /\ epoch       = [s \in Sinks |-> 0]
  /\ outstanding = [s \in Sinks |-> 0]
  /\ drained     = [s \in Sinks |-> TRUE]
  /\ content     = [s \in Sinks |-> FreshContent]
  /\ lane        = [s \in Sinks |-> [l \in Lanes |-> NoLane]]
  /\ unbind      = [s \in Sinks |-> "no"]
  /\ batch       = [b \in Batches |-> NoBatch]
  /\ contentOf   = [n \in Serials |-> 0]
  /\ serial      = 0
  /\ capture     = Idle
  /\ gpu         = [b \in Batches |-> NoCopy]
  /\ calls       = {}
  /\ held        = {}
  /\ bound       = [s \in Sinks |-> 0]
  /\ life        = [s \in Sinks |-> [n \in Serials |-> "none"]]
  /\ told        = [s \in Sinks |-> [n \in Serials |-> "none"]]
  /\ ended       = [s \in Sinks |-> NothingEnded]

-----------------------------------------------------------------------------
(* What the sink sees of the buffer of serial n: prepared, published, and  *)
(* "over" once it is aborted unpublished or failed or completed published. *)
(* A call out of that order is "broken"; a batch's call on another binding *)
(* than the one the buffer came from is "astray"; a completion that denies *)
(* the answer taken from the sink is "denied".                             *)

Told(s, n, from, to) ==
  IF life[s][n] = from THEN to ELSE "broken"

BatchTold(s, n, e, from, to) ==
  IF epoch[s] = e THEN Told(s, n, from, to) ELSE "astray"

\* The answer the hub takes first stands.
HearFrom(s, n, r) ==
  told' = IF told[s][n] = "none" THEN [told EXCEPT ![s][n] = r] ELSE told

-----------------------------------------------------------------------------
(* Helpers of the code.                                                    *)

\* The three checks every batch operation makes under callLock.
TargetValid(t, s) == target[s] /\ epoch[s] = t.epoch

\* A planned sink that is still the one the plan was made for.
PlanValid_Bound(s) == active[s] /\ target[s] /\ capture.plan[s] # 0
PlanValid(s) == active[s] /\ target[s] /\ epoch[s] = capture.plan[s]

\* ContentAfter: 0 is `none', as an argument never after anything.
ContentAfter(value, current) == value # 0 /\ (current = 0 \/ value > current)

\* The lane a call is about still holds the call's token.
TokenMatches(c) == lane[c.s][c.l].n = c.n

\* CallBy(who): the thread is still inside a lane's handlers.
CallBy(who, s) == \E c \in calls : c.by = who /\ c.s = s

\* ReleaseTarget for the sinks R of batch b, with the needsFullCopy that each
\* of its callers sets first.
Released(b, R) ==
  /\ lane' = [s \in Sinks |-> [l \in Lanes |->
       IF s \in R /\ l = batch[b].targets[s].lane
         THEN [lane[s][l] EXCEPT !.busy = FALSE] ELSE lane[s][l]]]
  /\ outstanding' = [s \in Sinks |->
       IF s \in R THEN outstanding[s] - 1 ELSE outstanding[s]]
  /\ drained' = [s \in Sinks |->
       drained[s] \/ (s \in R /\ outstanding[s] = 1)]
  /\ content' = [s \in Sinks |->
       IF s \in R THEN [content[s] EXCEPT !.needsFull = TRUE] ELSE content[s]]

\* The batch once the targets are ts: free when none is active any more, and
\* then nobody reads it until PrepareFrameBatch clears it.
WithTargets(b, ts) ==
  IF \E s \in Sinks : ts[s].active THEN [batch[b] EXCEPT !.targets = ts] ELSE NoBatch

\* DetachTarget can hand over the lane of this target.
Detachable(b, s) ==
  LET t == batch[b].targets[s] IN
  t.active /\ lane[s][t.lane].busy /\ lane[s][t.lane].phase = "IDLE"

\* DetachTarget's lane, and the call of FillLane that follows it.
Detached(b, D) ==
  lane' = [s \in Sinks |-> [l \in Lanes |->
    IF s \in D /\ l = batch[b].targets[s].lane
      THEN [NoLane EXCEPT !.busy = TRUE, !.phase = "FILLING", !.n = batch[b].n]
      ELSE lane[s][l]]]

FillCalls(b, D, who) ==
  {[by |-> who, pc |-> "fill", s |-> s, l |-> batch[b].targets[s].lane,
    n |-> batch[b].n, epoch |-> batch[b].targets[s].epoch, result |-> "none"] :
     s \in D}

\* The targets S given up, by ReleaseTarget or DetachTarget.
Inactive_LaneOnly(ts, S) == ts
Inactive(ts, S) ==
  [s \in Sinks |-> IF s \in S THEN [ts[s] EXCEPT !.active = FALSE] ELSE ts[s]]

ActiveTargets(b) == {s \in Sinks : batch[b].targets[s].active}

-----------------------------------------------------------------------------
(* Bind and Unbind, on the transport manager's thread.                     *)

\* Bind: nobody sees the sink before active is set, so it is one step.
Bind(s) ==
  /\ ~active[s] /\ unbind[s] = "no" /\ bound[s] < MaxEpoch
  /\ bound'       = [bound EXCEPT ![s] = @ + 1]
  /\ epoch'       = [epoch EXCEPT ![s] = bound'[s]]
  /\ target'      = [target EXCEPT ![s] = TRUE]
  /\ outstanding' = [outstanding EXCEPT ![s] = 0]
  /\ drained'     = [drained EXCEPT ![s] = TRUE]
  /\ content'     = [content EXCEPT ![s] = FreshContent]
  /\ lane'        = [lane EXCEPT ![s] = [l \in Lanes |-> NoLane]]
  /\ active'      = [active EXCEPT ![s] = TRUE]
  /\ ended'       = [ended EXCEPT ![s] = NothingEnded]
  /\ UNCHANGED <<unbind, batch, contentOf, serial, capture, gpu, calls, held,
                 life, told>>

UnbindBegin(s) ==
  /\ active[s]
  /\ active' = [active EXCEPT ![s] = FALSE]
  /\ unbind' = [unbind EXCEPT ![s] = "scan"]
  /\ UNCHANGED <<target, epoch, outstanding, drained, content, lane, batch,
                 contentOf, serial, bound, capture, gpu, calls, held, history>>

\* A pending lane is cancelled by this thread, a filling one is marked.
UnbindScan(s) ==
  /\ unbind[s] = "scan"
  /\ unbind' = [unbind EXCEPT ![s] = "wait"]
  /\ lane' = [lane EXCEPT ![s] = [l \in Lanes |->
       IF lane[s][l].phase = "FILLING"
         THEN [lane[s][l] EXCEPT !.cancelRequested = TRUE] ELSE lane[s][l]]]
  /\ calls' = calls \cup
       {[by |-> "unbind", pc |-> "cancel", s |-> s, l |-> l, n |-> lane[s][l].n,
         epoch |-> epoch[s], result |-> "none"] :
          l \in {k \in Lanes : lane[s][k].phase = "PENDING"}}
  /\ UNCHANGED <<active, target, epoch, outstanding, drained, content, batch,
                 contentOf, serial, bound, capture, gpu, held, history>>

\* The wait for the event, SetFrameEvents(nullptr), which waits for the
\* callbacks of the sink, and the reset of the entry.
UnbindFinish(s) ==
  /\ unbind[s] = "wait" /\ drained[s]
  /\ ~CallBy("unbind", s) /\ ~CallBy("sink", s)
  /\ unbind'  = [unbind EXCEPT ![s] = "no"]
  /\ target'  = [target EXCEPT ![s] = FALSE]
  /\ epoch'   = [epoch EXCEPT ![s] = 0]
  /\ content' = [content EXCEPT ![s] = FreshContent]
  /\ lane'    = [lane EXCEPT ![s] = [l \in Lanes |-> NoLane]]
  /\ held'    = {h \in held : h.s # s}
  /\ UNCHANGED <<active, outstanding, drained, batch, contentOf, serial, bound,
                 capture, gpu, calls, history>>

-----------------------------------------------------------------------------
(* The capture thread (CHardwareFrameProcessor::Publish and its software   *)
(* twin): plan, prepare, publish, submit the copy, commit.                 *)

CaptureAt(pc) == capture.pc = pc /\ \A s \in Sinks : ~CallBy("capture", s)

\* Each sink asks for a frame or not; the plan may be empty.
GetFramePlan ==
  /\ CaptureAt("idle")
  /\ \E S \in SUBSET {s \in Sinks : active[s] /\ target[s]} :
       capture' = IF S = {} THEN capture
         ELSE [capture EXCEPT !.pc = "planned",
                 !.plan = [s \in Sinks |-> IF s \in S THEN epoch[s] ELSE 0]]
  /\ UNCHANGED <<hubVars, gpu, calls, held, history>>

\* PrepareFrameBatch's test whether the sink needs the whole frame.
ForceFull(s, c) == content[s].needsFull \/ content[s].last + 1 # c

\* No batch is free, or no planned sink gives a buffer.
PrepareFailed ==
  /\ CaptureAt("planned")
  /\ capture' = Idle
  /\ UNCHANGED <<hubVars, gpu, calls, held, history>>

\* S: the planned sinks that have a buffer and a lane for it.  The frame is
\* the one published last (retained) or a newer one; a frame that a newer one
\* superseded before it was published leaves a gap in the contents.
PrepareFrameBatch(b, S, lanes, c) ==
  /\ CaptureAt("planned") /\ serial < MaxSerial
  /\ ~batch[b].active /\ \A k \in 1..(b - 1) : batch[k].active
  /\ S # {}
  /\ \A s \in S : PlanValid(s) /\ ~lane[s][lanes[s]].busy
  /\ serial'    = serial + 1
  /\ contentOf' = [contentOf EXCEPT ![serial'] = c]
  /\ batch' = [batch EXCEPT ![b] =
       [active |-> TRUE, n |-> serial', targets |-> [s \in Sinks |->
          IF s \in S THEN [NoTarget EXCEPT !.active = TRUE, !.epoch = capture.plan[s],
                             !.lane = lanes[s], !.full = ForceFull(s, c)]
                     ELSE NoTarget]]]
  /\ lane' = [s \in Sinks |-> [l \in Lanes |->
       IF s \in S /\ l = lanes[s]
         THEN [lane[s][l] EXCEPT !.busy = TRUE, !.phase = "IDLE"]
         ELSE lane[s][l]]]
  /\ outstanding' = [s \in Sinks |->
       IF s \in S THEN outstanding[s] + 1 ELSE outstanding[s]]
  /\ drained' = [s \in Sinks |->
       drained[s] /\ ~(s \in S /\ outstanding[s] = 0)]
  /\ capture' = [Idle EXCEPT !.pc = "prepared", !.b = b]
  /\ life' = [s \in Sinks |-> IF s \in S
       THEN [life[s] EXCEPT ![serial'] =
               BatchTold(s, serial', capture.plan[s], "none", "prepared")]
       ELSE life[s]]
  /\ UNCHANGED <<active, target, epoch, content, unbind, bound, gpu, calls,
                 held, told, ended>>

\* A: the sinks that accept the buffer.  An accepted one is being read from
\* now on and the copy is submitted; the others are aborted and released.
PublishFrameBatch(A) ==
  LET b  == capture.b
      ts == batch[b].targets
      V  == {s \in ActiveTargets(b) : TargetValid(ts[s], s)}
      R  == ActiveTargets(b) \ A IN
  /\ CaptureAt("prepared")
  /\ A \subseteq V
  /\ Released(b, R)
  /\ batch' = [batch EXCEPT ![b] = WithTargets(b, [s \in Sinks |->
       IF s \in A THEN [ts[s] EXCEPT !.published = TRUE] ELSE Inactive(ts, R)[s]])]
  /\ capture' = IF A = {} THEN Idle ELSE [capture EXCEPT !.pc = "published"]
  /\ gpu'  = [gpu EXCEPT ![b] = IF A = {} THEN @ ELSE [NoCopy EXCEPT !.n = batch[b].n, !.todo = A]]
  /\ life' = [s \in Sinks |-> CASE
       s \in A       -> [life[s] EXCEPT ![batch[b].n] =
                           BatchTold(s, batch[b].n, ts[s].epoch, "prepared", "published")]
    [] s \in V \ A   -> [life[s] EXCEPT ![batch[b].n] =
                           BatchTold(s, batch[b].n, ts[s].epoch, "prepared", "over")]
    [] OTHER         -> life[s]]
  /\ UNCHANGED <<active, target, epoch, unbind, bound, contentOf, serial, calls,
                 held, told, ended>>

\* AbortFrameBatch and FailFrameBatch: a published target is failed, another
\* one aborted.  A batch that is no longer the caller's is left alone
\* (BatchValid).
EndBatch(b, n) ==
  IF batch[b].active /\ batch[b].n = n
  THEN LET ts == batch[b].targets
           R  == ActiveTargets(b) IN
       /\ Released(b, R)
       /\ batch' = [batch EXCEPT ![b] = WithTargets(b, Inactive(ts, R))]
       /\ life' = [s \in Sinks |->
            IF s \in R /\ TargetValid(ts[s], s)
            THEN [life[s] EXCEPT ![n] =
                   IF ts[s].published
                   THEN BatchTold(s, n, ts[s].epoch, "published", "over")
                   ELSE BatchTold(s, n, ts[s].epoch, "prepared", "over")]
            ELSE life[s]]
  ELSE UNCHANGED <<lane, outstanding, drained, content, batch, life>>

\* No copy slot, no resource for a target: nothing was published yet.
AbortFrameBatch ==
  /\ CaptureAt("prepared")
  /\ EndBatch(capture.b, batch[capture.b].n)
  /\ capture' = Idle
  /\ UNCHANGED <<active, target, epoch, unbind, bound, contentOf, serial, gpu,
                 calls, held, told, ended>>

\* The copy could not be submitted: no completion will follow.
SubmitFailed ==
  /\ CaptureAt("published") /\ gpu[capture.b].todo # {} /\ ~gpu[capture.b].started
  /\ EndBatch(capture.b, gpu[capture.b].n)
  /\ capture' = Idle
  /\ gpu' = [gpu EXCEPT ![capture.b] = NoCopy]
  /\ UNCHANGED <<active, target, epoch, unbind, bound, contentOf, serial,
                 calls, held, told, ended>>

\* Targets whose copy is complete already are filled by this thread.
CommitFrameBatch ==
  LET b  == capture.b
      ts == batch[b].targets
      P  == {s \in Sinks : ts[s].active /\ ts[s].published}
      D  == {s \in P : ts[s].completionPending /\ Detachable(b, s)} IN
  /\ CaptureAt("published")
  /\ capture' = Idle
  /\ batch' = [batch EXCEPT ![b] = IF ~batch[b].active THEN @ ELSE
       WithTargets(b, Inactive([s \in Sinks |->
         IF s \in P THEN [ts[s] EXCEPT !.committed = TRUE] ELSE ts[s]], D))]
  /\ Detached(b, D)
  /\ calls' = calls \cup FillCalls(b, D, "capture")
  /\ UNCHANGED <<active, target, epoch, outstanding, drained, content, unbind,
                 bound, contentOf, serial, gpu, held, history>>

-----------------------------------------------------------------------------
(* The completion callback of the GPU copy.                                *)

\* The copy of one target after the other is complete.
CompleteFrameTarget(b, s) ==
  LET t == batch[b].targets[s]
      valid == batch[b].active /\ batch[b].n = gpu[b].n /\ t.active
      D == IF valid /\ t.committed /\ Detachable(b, s) THEN {s} ELSE {} IN
  /\ s \in gpu[b].todo
  /\ ~\E c \in calls : c.by = "gpu" /\ c.n = gpu[b].n
  /\ gpu' = [gpu EXCEPT ![b] = IF gpu[b].todo = {s} THEN NoCopy
                     ELSE [gpu[b] EXCEPT !.todo = @ \ {s}, !.started = TRUE]]
  /\ batch' = [batch EXCEPT ![b] =
       IF valid /\ ~t.committed
         THEN [@ EXCEPT !.targets[s].completionPending = TRUE]
         ELSE IF D = {} THEN @
         ELSE WithTargets(b, Inactive(batch[b].targets, D))]
  /\ Detached(b, D)
  /\ calls' = calls \cup FillCalls(b, D, "gpu")
  /\ UNCHANGED <<active, target, epoch, outstanding, drained, content, unbind,
                 bound, contentOf, serial, capture, held, history>>

\* The GPU reports the copy as failed: the whole batch fails.
FailFrameBatch(b) ==
  /\ gpu[b].todo # {} /\ ~gpu[b].started
  /\ EndBatch(b, gpu[b].n)
  /\ gpu' = [gpu EXCEPT ![b] = NoCopy]
  /\ UNCHANGED <<active, target, epoch, unbind, bound, contentOf, serial,
                 capture, calls, held, told, ended>>

-----------------------------------------------------------------------------
(* The lane's handlers.  A call c goes through                             *)
(*   fill -> filled -> complete | cancel,    cancel -> canceled -> complete *)
(*   done -> complete,    complete -> call -> settle -> sub -> set         *)
(* and leaves `calls' where the code returns.                              *)

Moves(c, pc, r) == calls' = (calls \ {c}) \cup {[c EXCEPT !.pc = pc, !.result = r]}
Returns(c)      == calls' = calls \ {c}

sinkVars == <<active, target, epoch, unbind, bound>>

\* FillLane up to the call of FrameFilled.  A sink that may answer PENDING may
\* raise the callback from then on.
FillBegin(c) ==
  LET ln == lane[c.s][c.l] IN
  /\ c.pc = "fill"
  /\ IF ln.phase = "FILLING" /\ TokenMatches(c)
     THEN /\ lane' = [lane EXCEPT ![c.s][c.l].callActive = TRUE]
          /\ Moves(c, "filled", "none")
          /\ held' = IF target[c.s] /\ "PENDING" \in fills
                       THEN held \cup {[s |-> c.s, l |-> c.l, n |-> c.n, epoch |-> c.epoch]}
                       ELSE held
     ELSE Returns(c) /\ UNCHANGED <<lane, held>>
  /\ UNCHANGED <<sinkVars, outstanding, drained, content, batch, contentOf,
                 serial, capture, gpu, history>>

\* The answers FrameFilled can give; REJECTED without a sink.
Answers(c) == IF target[c.s] THEN fills ELSE {"REJECTED"}

\* A lane left PENDING is cancelled at once when Unbind is under way.
CancelWanted_Marked(s, ln) == ln.cancelRequested
CancelWanted(s, ln) == ln.cancelRequested \/ ~active[s]

\* FillLane after FrameFilled: a callback that came meanwhile wins.
FillEnd(c, fill) ==
  LET ln == lane[c.s][c.l]
      answer == IF fill = "READY" THEN "READY" ELSE "FAILED" IN
  /\ c.pc = "filled" /\ fill \in Answers(c)
  /\ held' = IF fill = "PENDING" THEN held
             ELSE {h \in held : ~(h.s = c.s /\ h.n = c.n)}
  /\ IF ln.phase # "FILLING" \/ ~TokenMatches(c)
     THEN Returns(c) /\ UNCHANGED <<lane, told>>
     ELSE IF ln.result # "none"
     THEN /\ lane' = [lane EXCEPT ![c.s][c.l].callActive = FALSE,
                                  ![c.s][c.l].result = "none"]
          /\ Moves(c, "complete", ln.result) /\ UNCHANGED told
     ELSE IF fill # "PENDING"
     THEN /\ lane' = [lane EXCEPT ![c.s][c.l].callActive = FALSE]
          /\ Moves(c, "complete", answer) /\ HearFrom(c.s, c.n, answer)
     ELSE /\ lane' = [lane EXCEPT ![c.s][c.l].callActive = FALSE,
                                  ![c.s][c.l].phase = "PENDING"]
          /\ IF CancelWanted(c.s, ln)
             THEN Moves(c, "cancel", "none") ELSE Returns(c)
          /\ UNCHANGED told
  /\ UNCHANGED <<sinkVars, outstanding, drained, content, batch, contentOf,
                 serial, capture, gpu, life, ended>>

\* CancelLane up to the call of CancelFrame.
CancelBegin(c) ==
  LET ln == lane[c.s][c.l] IN
  /\ c.pc = "cancel"
  /\ IF ln.phase = "PENDING" /\ TokenMatches(c)
     THEN /\ lane' = [lane EXCEPT ![c.s][c.l].phase = "CANCELING",
                                  ![c.s][c.l].callActive = TRUE]
          /\ Moves(c, "canceled", "none")
     ELSE Returns(c) /\ UNCHANGED lane
  /\ UNCHANGED <<sinkVars, outstanding, drained, content, batch, contentOf,
                 serial, capture, gpu, held, history>>

\* The result CancelLane completes the lane with.
CancelResult(ln) == IF ln.result # "none" THEN ln.result ELSE "SUPERSEDED"

\* CancelLane after CancelFrame, from where on the sink leaves the frame alone.
CancelEnd(c) ==
  LET ln == lane[c.s][c.l] IN
  /\ c.pc = "canceled"
  /\ held' = {h \in held : ~(h.s = c.s /\ h.n = c.n)}
  /\ IF ln.phase = "CANCELING" /\ TokenMatches(c)
     THEN /\ lane' = [lane EXCEPT ![c.s][c.l].callActive = FALSE,
                                  ![c.s][c.l].result = "none"]
          /\ Moves(c, "complete", CancelResult(ln))
     ELSE Returns(c) /\ UNCHANGED lane
  /\ UNCHANGED <<sinkVars, outstanding, drained, content, batch, contentOf,
                 serial, capture, gpu, history>>

\* A lane that no other caller of CompleteLane has taken.
Claimable_Twice(ln) == ln.busy /\ ln.phase # "IDLE"
Claimable(ln) == ln.busy /\ ln.phase \notin {"IDLE", "COMPLETING"}

\* CompleteLane's claim of the lane: one of several callers gets it.
CompleteClaim(c) ==
  LET ln == lane[c.s][c.l] IN
  /\ c.pc = "complete"
  /\ IF Claimable(ln) /\ TokenMatches(c)
     THEN /\ lane' = [lane EXCEPT ![c.s][c.l].phase = "COMPLETING"]
          /\ Moves(c, "call", c.result)
     ELSE Returns(c) /\ UNCHANGED lane
  /\ UNCHANGED <<sinkVars, outstanding, drained, content, batch, contentOf,
                 serial, capture, gpu, held, history>>

\* CompleteLane's call of CompleteFrameBuffer, on the sink bound now.
CompleteCall(c) ==
  /\ c.pc = "call"
  /\ Moves(c, "settle", c.result)
  /\ life' = IF target[c.s]
       THEN [life EXCEPT ![c.s][c.n] =
               CASE epoch[c.s] # c.epoch                     -> "broken"
                 [] told[c.s][c.n] \notin {"none", c.result} -> "denied"
                 [] OTHER -> Told(c.s, c.n, "published", "over")]
       ELSE life
  /\ told' = [told EXCEPT ![c.s][c.n] = "none"]
  /\ UNCHANGED <<hubVars, capture, gpu, held, ended>>

Settled_NoTerminal(k, d, r) ==
  IF r = "READY"
  THEN IF ContentAfter(d, k.last)
         THEN [needsFull |-> FALSE, last |-> d, terminal |-> d] ELSE k
  ELSE [k EXCEPT !.needsFull = TRUE]

\* The sink's record of content once a frame of content d ended with r.
Settled(k, d, r) ==
  LET newest == ContentAfter(d, k.terminal)
      term   == IF newest THEN d ELSE k.terminal IN
  IF r = "READY" /\ d = term
  THEN IF ContentAfter(d, k.last)
         THEN [needsFull |-> FALSE, last |-> d, terminal |-> term]
         ELSE [k EXCEPT !.terminal = term]
  ELSE [k EXCEPT !.terminal = term, !.needsFull = @ \/ newest]

\* CompleteLane's last stretch under laneLock: the lane is free again.
CompleteSettle(c) ==
  /\ c.pc = "settle"
  /\ content' = [content EXCEPT ![c.s] = Settled(@, contentOf[c.n], c.result)]
  /\ ended' = [ended EXCEPT ![c.s] =
       CASE contentOf[c.n] > @.newest ->
              [newest |-> contentOf[c.n], ready |-> c.result = "READY"]
         [] contentOf[c.n] = @.newest -> [@ EXCEPT !.ready = @ \/ c.result = "READY"]
         [] OTHER -> @]
  /\ lane' = IF lane[c.s][c.l].phase = "COMPLETING" /\ TokenMatches(c)
             THEN [lane EXCEPT ![c.s][c.l] = NoLane] ELSE lane
  /\ Moves(c, "sub", "none")
  /\ UNCHANGED <<sinkVars, outstanding, drained, batch, contentOf, serial,
                 capture, gpu, held, life, told>>

\* The counter and the event, with no lock held.
CompleteSub(c) ==
  /\ c.pc = "sub"
  /\ outstanding' = [outstanding EXCEPT ![c.s] = @ - 1]
  /\ IF outstanding[c.s] = 1 THEN Moves(c, "set", "none") ELSE Returns(c)
  /\ UNCHANGED <<sinkVars, drained, content, lane, batch, contentOf, serial,
                 capture, gpu, held, history>>

CompleteSet(c) ==
  /\ c.pc = "set"
  /\ drained' = [drained EXCEPT ![c.s] = TRUE]
  /\ Returns(c)
  /\ UNCHANGED <<sinkVars, outstanding, content, lane, batch, contentOf, serial,
                 capture, gpu, held, history>>

\* External: the sink raises the terminal callback of a frame it works on.
SinkDone(h, r) ==
  /\ h \in held
  /\ held'  = held \ {h}
  /\ calls' = calls \cup {[by |-> "sink", pc |-> "done", s |-> h.s, l |-> h.l,
                           n |-> h.n, epoch |-> h.epoch, result |-> r]}
  /\ UNCHANGED <<hubVars, capture, gpu, history>>

\* OnFrameDone: kept for the call that is running, or completed.
OnFrameDone(c) ==
  LET ln == lane[c.s][c.l]
      found == epoch[c.s] = c.epoch /\ TokenMatches(c) /\ Claimable(ln) IN
  /\ c.pc = "done"
  /\ CASE found /\ ln.callActive ->
            /\ lane' = [lane EXCEPT ![c.s][c.l].result =
                          IF @ = "none" THEN c.result ELSE @]
            /\ HearFrom(c.s, c.n, c.result)
            /\ Returns(c)
       [] found /\ ~ln.callActive /\ ln.phase \in {"PENDING", "CANCELING"} ->
            Moves(c, "complete", c.result) /\ UNCHANGED <<lane, told>>
       [] OTHER -> Returns(c) /\ UNCHANGED <<lane, told>>
  /\ UNCHANGED <<sinkVars, outstanding, drained, content, batch, contentOf,
                 serial, capture, gpu, held, life, ended>>

-----------------------------------------------------------------------------
NewestContent == IF serial = 0 THEN 0 ELSE contentOf[serial]

Prepare ==
  \E b \in Batches, S \in SUBSET Sinks, lanes \in [Sinks -> Lanes],
     c \in NewestContent..MaxContent :
    c # 0 /\ PrepareFrameBatch(b, S, lanes, c)

Publish == \E A \in SUBSET Sinks : PublishFrameBatch(A)

Capture ==
  \/ GetFramePlan
  \/ PrepareFailed
  \/ Prepare
  \/ Publish
  \/ AbortFrameBatch
  \/ SubmitFailed
  \/ CommitFrameBatch

Copy(b) ==
  \/ \E s \in Sinks : CompleteFrameTarget(b, s)
  \/ FailFrameBatch(b)

Handler(c) ==
  \/ FillBegin(c)
  \/ \E fill \in {"READY", "PENDING", "REJECTED"} : FillEnd(c, fill)
  \/ CancelBegin(c)
  \/ CancelEnd(c)
  \/ CompleteClaim(c)
  \/ CompleteCall(c)
  \/ CompleteSettle(c)
  \/ CompleteSub(c)
  \/ CompleteSet(c)
  \/ OnFrameDone(c)

UnbindStep(s) == UnbindScan(s) \/ UnbindFinish(s)

Next ==
  /\ \/ \E s \in Sinks : Bind(s) \/ UnbindBegin(s) \/ UnbindStep(s)
     \/ Capture
     \/ \E b \in Batches : Copy(b)
     \/ \E c \in calls : Handler(c)
     \/ \E h \in held, r \in {"READY", "FAILED"} : SinkDone(h, r)
  /\ UNCHANGED fills

Spec == Init /\ [][Next]_vars

\* A batch in the capture thread's hands leaves them; a submitted copy ends
\* (a removed device completes its copies as failed); a thread inside a
\* handler goes on, and the sink returns from a call; Unbind goes on.  That
\* a sink ever raises a callback is not assumed.
Fairness ==
  /\ WF_moving(Publish \/ AbortFrameBatch) /\ WF_moving(CommitFrameBatch \/ SubmitFailed)
  /\ WF_moving(PrepareFailed)
  /\ \A b \in Batches : WF_moving(Copy(b))
  /\ \A s \in Sinks : WF_moving(UnbindStep(s))
  /\ WF_moving(\E c \in calls : Handler(c))

FairSpec == Spec /\ Fairness

-----------------------------------------------------------------------------
(* Properties.                                                             *)

\* Every buffer a sink gives out comes back to it once: aborted before it was
\* published, or failed or completed after (AbortFrameBuffer, FailFrameBuffer
\* and CompleteFrameBuffer), whichever of the threads gets there first; and a
\* terminal answer the hub takes from the sink while one of the lane's calls is
\* running is the result it is completed with, not what the call returns
\* afterwards and not the cancellation (FillLane, CancelLane, OnFrameDone).
BufferEndsOnce ==
  \A s \in Sinks, n \in Serials : life[s][n] \notin {"broken", "denied"}

\* The counter Unbind waits for: as long as a sink is bound, `outstanding' is
\* the number of its busy lanes and of the threads that have freed a lane and
\* not yet counted it down; a busy lane is in the hands of one batch, or of
\* the handlers, never of both and never of none.
LanesAccounted ==
  \A s \in Sinks : target[s] =>
    /\ outstanding[s] = Cardinality({l \in Lanes : lane[s][l].busy})
         + Cardinality({c \in calls : c.s = s /\ c.pc = "sub"})
    /\ \A l \in Lanes : lane[s][l].phase # "IDLE" => lane[s][l].busy
    /\ \A l \in Lanes :
         LET owners == {b \in Batches : /\ batch[b].targets[s].active
                                        /\ batch[b].targets[s].lane = l} IN
         IF lane[s][l].busy /\ lane[s][l].phase = "IDLE"
           THEN Cardinality(owners) = 1 ELSE owners = {}

\* Damage rectangles are handed to a sink only for the content that follows
\* the newest content it has finished with, and only when that one was READY:
\* completions out of order, failures and aborted batches in between do not
\* let a sink miss an area (needsFullCopy, lastContent, lastTerminalContent).
PartialFollowsReady ==
  [][\A b \in Batches, s \in Sinks :
       LET t == batch'[b].targets[s]
           c == contentOf'[batch'[b].n] IN
       batch'[b].n # batch[b].n /\ t.active /\ ~t.full =>
         ended[s] = [newest |-> c - 1, ready |-> TRUE]]_vars

\* A plan made before a sink was unbound or replaced, and a batch prepared on
\* it, never reach the sink bound in its place (the backend and epoch checks
\* of PrepareFrameBatch, PublishFrameBatch, AbortFrameBatch and FailFrameBatch).
BatchKeepsToItsSink == \A s \in Sinks, n \in Serials : life[s][n] # "astray"

\* Unbind returns: no lane that turns PENDING while Unbind looks for lanes to
\* cancel is missed, and the event is set when the last lane is done.
UnbindReturns == \A s \in Sinks : unbind[s] = "scan" ~> unbind[s] = "no"
=============================================================================

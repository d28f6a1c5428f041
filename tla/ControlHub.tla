----------------------------- MODULE ControlHub -----------------------------
(* The cursor and the colour transform on their way to the clients: the    *)
(* hub keeps the newest of each with a revision (CControlHub), a worker    *)
(* per sink delivers what the sink has not had, and the LGMP sink          *)
(* (CLGMPControl) posts it to the clients subscribed in that moment.  A    *)
(* client that subscribes later is served by a replay.                     *)
(*                                                                         *)
(* One slot of the hub is modelled: slots share the state and the locks    *)
(* only.  A revision stands for the position, shape or transform that it   *)
(* counts.  Add cannot find its slot taken away, since the lifecycle lock  *)
(* is held: that branch of it is left out.  The hub only compares the      *)
(* serials of the work in hand with the sink's: they are two facts about   *)
(* the work, that its binding is still the sink's and that no replay has   *)
(* begun since.                                                            *)
EXTENDS Integers, Sequences, FiniteSets

CONSTANTS
  Viewers,        \* LGMP clients
  QueueLen,       \* LGMP_Q_POINTER_LEN
  ShapeBuffers,   \* POINTER_SHAPE_BUFFERS and COLOR_TRANSFORM_BUFFERS
  MaxUpdates      \* bound: how many revisions follow the first

POSITION  == 0
SHAPE     == 1
TRANSFORM == 2
Kinds     == {POSITION, SHAPE, TRANSFORM}

VARIABLES
  state,     \* m_state: the newest revision of each kind
  waking,    \* the kinds whose WakeAll is still to come
  sink,      \* Sink: whether it has a target, delivered, the kinds whose
             \* retryAt is ahead, nextWork, and its flags
  wake,      \* the auto-reset event Sink::wake
  idle,      \* the manual-reset event Sink::idle
  hand,      \* Worker: where it is, its wait, the state it copied, its work
  manager,   \* the thread in Add or Remove: where it is
  events,    \* m_events of the LGMP sink is set, with the sink's token
  posted,    \* the LGMP queue: kind, content, who has yet to read it
  viewer,    \* per client: subscribed, and what it shows
  newSubs    \* lgmpHostQueueNewSubs would report someone

hubState    == <<state, waking>>
control     == <<hubState, sink, wake, idle, hand, manager, events, posted, viewer,
                 newSubs>>

None == [k \in Kinds |-> 0]
Empty == [bound |-> FALSE, delivered |-> None, retry |-> {}, nextWork |-> 0,
          active |-> FALSE, failed |-> FALSE, failurePending |-> FALSE,
          reserved |-> FALSE]
NoWork == [kind |-> POSITION, bound |-> FALSE, fresh |-> FALSE]

\* What a message of kind k tells: a shape carries the position along.
Part(k) == IF k = SHAPE THEN {POSITION, SHAPE} ELSE {k}
Carried(k, content) == [j \in Kinds |-> IF j \in Part(k) THEN content[j] ELSE 0]
Merge(k, new, old) == [j \in Kinds |-> IF j \in Part(k) THEN new[j] ELSE old[j]]

ControlInit ==
  /\ state = [None EXCEPT ![TRANSFORM] = 1]   \* transformRevision = 1
  /\ waking = {}
  /\ sink = Empty /\ wake = FALSE /\ idle = TRUE
  /\ hand = [at |-> "wait", wait |-> "infinite", copy |-> None, work |-> NoWork,
             result |-> "none"]
  /\ manager = "idle" /\ events = FALSE
  /\ posted = <<>>
  /\ viewer = [c \in Viewers |-> [sub |-> FALSE, shows |-> None]]
  /\ newSubs = FALSE

-----------------------------------------------------------------------------
(* Updates                                                                 *)

\* The transform begins with revision 1.
MayUpdate(n) == state[POSITION] + state[SHAPE] + state[TRANSFORM] + n <= 1 + MaxUpdates

(* A cursor, with or without a new shape; each has a revision of its own.  *)
SendCursor(shape) ==
  /\ waking \cap {POSITION, SHAPE} = {}
  /\ MayUpdate(IF shape THEN 2 ELSE 1)
  /\ state' = [state EXCEPT ![POSITION] = @ + 1,
                            ![SHAPE] = IF shape THEN @ + 1 ELSE @]
  /\ waking' = waking \cup (IF shape THEN {POSITION, SHAPE} ELSE {POSITION})
  /\ UNCHANGED <<sink, wake, idle, hand, manager, events, posted, viewer, newSubs>>

SetColorTransform ==
  /\ TRANSFORM \notin waking /\ MayUpdate(1)
  /\ state' = [state EXCEPT ![TRANSFORM] = @ + 1]
  /\ waking' = waking \cup {TRANSFORM}
  /\ UNCHANGED <<sink, wake, idle, hand, manager, events, posted, viewer, newSubs>>

(* The revision is raised first and the workers are woken afterwards.      *)
WakeAll(k) ==
  /\ k \in waking /\ (k = SHAPE => POSITION \notin waking)
  /\ waking' = waking \ {k}
  /\ sink' = IF sink.active THEN [sink EXCEPT !.retry = @ \ {k}] ELSE sink
  /\ wake' = (wake \/ sink.active)
  /\ UNCHANGED <<state, idle, hand, manager, events, posted, viewer, newSubs>>

-----------------------------------------------------------------------------
(* The sink's worker                                                       *)

Woken ==
  /\ hand.at = "wait" /\ (wake \/ hand.wait = "timeout")
  /\ wake' = FALSE
  /\ hand' = [hand EXCEPT !.at = "copy"]
  /\ UNCHANGED <<hubState, sink, idle, manager, events, posted, viewer, newSubs>>

(* BeginWork copies the state under the state's lock...                    *)
CopyState ==
  /\ hand.at = "copy"
  /\ hand' = [hand EXCEPT !.at = "begin", !.copy = state]
  /\ UNCHANGED <<hubState, sink, wake, idle, manager, events, posted, viewer, newSubs>>

(* ...and takes the sink's lock to see what of it the sink has not had:    *)
(* the first kind, from the one after the last, that is not to wait.       *)
Pending == {k \in Kinds : hand.copy[k] # sink.delivered[k]}
Turn(k) == (k - sink.nextWork) % 3
Due     == {k \in Pending \ sink.retry : \A j \in Pending \ sink.retry : Turn(k) <= Turn(j)}

BeginWork ==
  /\ hand.at = "begin"
  /\ IF sink.active /\ Due # {}
       THEN \E k \in Due :
              /\ sink' = [sink EXCEPT !.nextWork = (k + 1) % 3]
              /\ idle' = FALSE
              /\ hand' = [hand EXCEPT !.at = "call", !.copy = Carried(k, @),
                            !.work = [kind |-> k, bound |-> TRUE, fresh |-> TRUE]]
       ELSE /\ hand' = [hand EXCEPT !.at = "wait", !.copy = None,
                          !.wait = IF sink.active /\ Pending # {} THEN "timeout"
                                   ELSE "infinite"]
            /\ UNCHANGED <<sink, idle>>
  /\ UNCHANGED <<hubState, wake, manager, events, posted, viewer, newSubs>>

(* The sink posts a copy in a buffer that no client is to read any more.   *)
Room(k) ==
  /\ Len(posted) < QueueLen
  /\ k # POSITION =>
       Cardinality({i \in DOMAIN posted : posted[i].kind = k}) < ShapeBuffers

Subscribed == {c \in Viewers : viewer[c].sub}
Message == [kind |-> hand.work.kind, content |-> hand.copy, to |-> Subscribed]

Post ==
  /\ hand.at = "call" /\ Room(hand.work.kind)
  /\ posted' = IF Subscribed = {} THEN posted ELSE Append(posted, Message)
  /\ hand' = [hand EXCEPT !.at = "done", !.result = "APPLIED"]
  /\ UNCHANGED <<hubState, sink, wake, idle, manager, events, viewer, newSubs>>

NoPost ==
  /\ hand.at = "call"
  /\ \E r \in {"RETRY", "FAILED"} :
       /\ r = "RETRY" => ~Room(hand.work.kind)
       /\ hand' = [hand EXCEPT !.at = "done", !.result = r]
  /\ UNCHANGED <<hubState, sink, wake, idle, manager, events, posted, viewer, newSubs>>

Delivered(s, k, copy) ==
  [s EXCEPT !.retry = @ \ {k}, !.delivered = Merge(k, copy, @)]

Counts_AnyReplay(work) == TRUE
\* replaySerial is still what it was when the work was taken.
Counts(work) == work.fresh

CompleteWork ==
  LET s       == sink
      work    == hand.work
      current == s.bound /\ work.bound
      done    == current /\ s.active
      failed  == hand.result = "FAILED"
      retry   == hand.result = "RETRY"
  IN /\ hand.at = "done"
     /\ sink' = CASE ~done -> s
                  [] done /\ failed -> [s EXCEPT !.active = FALSE, !.failed = TRUE,
                                                 !.failurePending = TRUE]
                  [] done /\ ~failed /\ ~Counts(work) -> s
                  [] done /\ retry /\ Counts(work) ->
                       [s EXCEPT !.retry = @ \cup {work.kind}]
                  [] OTHER -> Delivered(s, work.kind, hand.copy)
     /\ idle' = (idle \/ current)
     /\ wake' = (wake \/ (done /\ ~retry))
     /\ hand' = [hand EXCEPT !.at = "wait", !.copy = None, !.work = NoWork,
                   !.result = "none",
                   !.wait = IF done THEN "timeout" ELSE "infinite"]
     /\ UNCHANGED <<hubState, manager, events, posted, viewer, newSubs>>

(* RETRY_MS have passed.                                                   *)
RetryDue(k) ==
  /\ k \in sink.retry
  /\ sink' = [sink EXCEPT !.retry = @ \ {k}]
  /\ UNCHANGED <<hubState, wake, idle, hand, manager, events, posted, viewer, newSubs>>

-----------------------------------------------------------------------------
(* Add and Remove, called by the manager.  A sink that is added again is   *)
(* one of a new instance: the clients have to subscribe to it anew.  What  *)
(* Remove leaves in the slot is not read before Add writes it again.       *)

AddBegin ==
  /\ manager = "idle" /\ ~sink.active /\ ~sink.failed /\ ~sink.reserved
  /\ sink' = [Empty EXCEPT !.reserved = TRUE, !.bound = TRUE]
  /\ hand' = [hand EXCEPT !.work = [@ EXCEPT !.bound = FALSE, !.fresh = FALSE]]
  /\ manager' = "add"
  /\ UNCHANGED <<hubState, wake, idle, events, posted, viewer, newSubs>>

AddEvents ==
  /\ manager = "add"
  /\ events' = TRUE
  /\ manager' = "attach"
  /\ UNCHANGED <<hubState, sink, wake, idle, hand, posted, viewer, newSubs>>

AddAttach ==
  /\ manager = "attach"
  /\ sink' = [sink EXCEPT !.active = TRUE, !.reserved = FALSE]
  /\ hand' = [hand EXCEPT !.work.fresh = FALSE]
  /\ manager' = "wake"
  /\ UNCHANGED <<hubState, wake, idle, events, posted, viewer, newSubs>>

AddEnd ==
  /\ manager = "wake"
  /\ wake' = TRUE
  /\ manager' = "idle"
  /\ UNCHANGED <<hubState, sink, idle, hand, events, posted, viewer, newSubs>>

(* The instance is going away, or the manager took a failure.              *)
RemoveBegin ==
  /\ manager = "idle" /\ (sink.active \/ sink.failed)
  /\ sink' = [sink EXCEPT !.active = FALSE, !.failed = FALSE,
                          !.failurePending = FALSE, !.reserved = TRUE]
  /\ manager' = "remove"
  /\ UNCHANGED <<hubState, wake, idle, hand, events, posted, viewer, newSubs>>

RemoveWakes ==
  /\ manager = "remove"
  /\ wake' = TRUE
  /\ manager' = "quiet"
  /\ UNCHANGED <<hubState, sink, idle, hand, events, posted, viewer, newSubs>>

Quiesced_Signalled == TRUE
\* WaitForSingleObject(idle)
Quiesced == idle

RemoveQuiet ==
  /\ manager = "quiet" /\ Quiesced
  /\ events' = FALSE
  /\ manager' = "clear"
  /\ UNCHANGED <<hubState, sink, wake, idle, hand, posted, viewer, newSubs>>

RemoveEnd ==
  /\ manager = "clear"
  /\ sink' = Empty
  /\ manager' = "idle"
  /\ posted' = <<>> /\ newSubs' = FALSE
  /\ viewer' = [c \in Viewers |-> [sub |-> FALSE, shows |-> None]]
  /\ UNCHANGED <<hubState, wake, idle, hand, events>>

(* TakeFailure leaves the Remove to its caller.                            *)
TakeFailure ==
  /\ manager = "idle" /\ sink.failurePending
  /\ sink' = [sink EXCEPT !.failurePending = FALSE]
  /\ UNCHANGED <<hubState, wake, idle, hand, manager, events, posted, viewer, newSubs>>

-----------------------------------------------------------------------------
(* The LGMP side                                                           *)

(* CLGMPTransport::Process: new subscribers are served by a replay.        *)
RequestReplay ==
  /\ newSubs
  /\ newSubs' = FALSE
  /\ IF events /\ (sink.active \/ sink.reserved)
       THEN /\ sink' = [sink EXCEPT !.delivered = None, !.retry = {}]
            /\ hand' = [hand EXCEPT !.work.fresh = FALSE]
            /\ wake' = TRUE
       ELSE UNCHANGED <<sink, hand, wake>>
  /\ UNCHANGED <<hubState, idle, manager, events, posted, viewer>>

(* LGMP frees its oldest messages, up to one that a client has yet to read. *)
(* No message is read by all before an older one is.                       *)
ReadByAll(q) ==
  CHOOSE n \in 0..Len(q) :
    /\ \A i \in 1..n : q[i].to = {}
    /\ n < Len(q) => q[n + 1].to # {}
Retired(q) == SubSeq(q, ReadByAll(q) + 1, Len(q))

Subscribe(c) ==
  /\ ~viewer[c].sub
  /\ viewer' = [viewer EXCEPT ![c] = [sub |-> TRUE, shows |-> None]]
  /\ newSubs' = TRUE
  /\ UNCHANGED <<hubState, sink, wake, idle, hand, manager, events, posted>>

(* The client leaves, or LGMP drops it.                                    *)
Leave(c) ==
  /\ viewer[c].sub
  /\ viewer' = [viewer EXCEPT ![c] = [sub |-> FALSE, shows |-> None]]
  /\ posted' = Retired([i \in DOMAIN posted |-> [posted[i] EXCEPT !.to = @ \ {c}]])
  /\ UNCHANGED <<hubState, sink, wake, idle, hand, manager, events, newSubs>>

(* The client shows its next message.                                      *)
Show(c) ==
  /\ \E i \in DOMAIN posted :
       LET m == posted[i] IN
       /\ c \in m.to /\ \A j \in 1..(i - 1) : c \notin posted[j].to
       /\ viewer' = [viewer EXCEPT ![c].shows = Merge(m.kind, m.content, @)]
       /\ posted' = Retired([posted EXCEPT ![i].to = @ \ {c}])
  /\ UNCHANGED <<hubState, sink, wake, idle, hand, manager, events, newSubs>>

Update  == (\E shape \in BOOLEAN : SendCursor(shape)) \/ SetColorTransform
Worker  == Woken \/ CopyState \/ BeginWork \/ Post \/ NoPost \/ CompleteWork
Manager == \/ AddBegin \/ AddEvents \/ AddAttach \/ AddEnd
           \/ RemoveBegin \/ RemoveWakes \/ RemoveQuiet \/ RemoveEnd \/ TakeFailure

ControlNext ==
  \/ Update \/ Worker \/ Manager \/ RequestReplay
  \/ \E k \in Kinds : WakeAll(k) \/ RetryDue(k)
  \/ \E c \in Viewers : Subscribe(c) \/ Leave(c) \/ Show(c)

ControlSpec == ControlInit /\ [][ControlNext]_control

-----------------------------------------------------------------------------
(* Properties                                                              *)

ToRead(c) == \E i \in DOMAIN posted : c \in posted[i].to

(* A worker that sleeps without a timeout owes nothing: whoever is         *)
(* subscribed shows, or has in its queue, the newest position, shape and   *)
(* transform, whatever updates, replays and retries raced with the last    *)
(* delivery.                                                               *)
NothingForgotten ==
  (/\ sink.active /\ manager = "idle" /\ waking = {} /\ ~newSubs
   /\ hand.at = "wait" /\ hand.wait = "infinite" /\ ~wake)
  => \A c \in Subscribed : ~ToRead(c) => viewer[c].shows = state

(* Once Remove has returned its caller may destroy the sink: the worker is *)
(* not inside a call of it and cannot enter one.                           *)
RemovedIsQuiet ==
  (~sink.bound \/ manager = "clear") => hand.at \notin {"call", "done"}
=============================================================================

--------------------------- MODULE FrameTransport ---------------------------
(***************************************************************************)
(* The frame sink of the LGMP transport                                    *)
(* (idd/LGIdd/transport/lgmp/CLGMPFrameTransport.cpp): a pool of frame     *)
(* buffers in shared memory that are prepared, posted to clients while the *)
(* copy into them is still under way, retained, posted again and reused.   *)
(*                                                                         *)
(* A buffer is shared by three parties that run at their own pace: the     *)
(* capture pipeline (Prepare, Publish, Abort, Fail, Complete), the LGMP    *)
(* timer (ProcessFrameDeliveries) and the clients, which hold a message    *)
(* until they have read the buffer or LGMP drops them.  One client, the    *)
(* owner of the frame clock, is served through queues of its own; the      *)
(* others share one queue.                                                 *)
(*                                                                         *)
(* LGMP itself (Lgmp... actions) is a library outside the repository,      *)
(* modelled as the code uses it.  Of CFrameScheduler, which elects the     *)
(* owner and keeps the republish request, only what the sink reads and     *)
(* reports is here: who is due for a frame, and when, is left open.        *)
(* Pixel data, formats, damage and timing fields are abstracted; a frame   *)
(* is its frameSerial.                                                     *)
(***************************************************************************)
EXTENDS Integers, Sequences, FiniteSets

CONSTANTS
  Clients,        \* LGMP client IDs
  BUFFER_LEN,     \* LGMP_Q_FRAME_BUFFER_LEN, 3
  Q_LEN,          \* LGMP_Q_FRAME_LEN, 2: owner queues and messages per queue
  Pipeline,       \* CAPTURE_PIPELINE_SLOTS, 2: frames in flight
  MaxFrames,      \* bound on the frames prepared
  MaxEpoch,       \* bound on the owner elections
  MaxTicket       \* bound on the republish requests

NoClient == 0

ASSUME TransportConstants ==
  /\ BUFFER_LEN \in Nat \ {0} /\ Q_LEN \in Nat \ {0} /\ Pipeline \in Nat \ {0}
  /\ MaxFrames \in Nat /\ MaxEpoch \in Nat /\ MaxTicket \in Nat
  /\ NoClient \notin Clients

VARIABLES
  (* the buffers; 0 is "no buffer" (-1 in the code) *)
  frameSerial,    \* m_frameSerial: the last one given out
  frame,          \* frameSerial in the header of each buffer
  phase,          \* where the pipeline is with a buffer: "prepared",
                  \* "published" (both in flight) or "idle"
  completed,      \* m_frameCompleted
  ready,          \* m_readyFrameIndex
  deferred,       \* m_deferredOwnerFrameIndex
  publishSeq, readySeq,     \* m_framePublishSequence, m_frameReadySequence
  lastSeq,        \* m_frameLastPublishSequence
  schedule,       \* schedule each buffer was prepared, then published with
  delivered,      \* m_frameDelivered
  (* bookkeeping of what clients may be reading *)
  ownerQueueMask, sharedPending,   \* m_frameDelivery[b]
  sharedOwner,    \* m_frameDelivery[b].sharedOwner*: NoDelivery or client, token
  ownerDelivery,  \* m_ownerDelivery[q]: NoDelivery or client, token, buffer
  (* CFrameScheduler, as far as the sink sees it *)
  owner, epoch, requestTicket, ackTicket,
  acking,         \* schedule Republish has yet to report (after its unlock)
  (* LGMP *)
  sharedQueue, ownerQueue,
  subs,           \* subscribers of the shared queue
  ownerSubs       \* of them, those subscribed to all owner queues

pool      == <<frameSerial, frame, phase, completed, ready, deferred,
               publishSeq, readySeq, lastSeq, schedule, delivered>>
books     == <<ownerQueueMask, sharedPending, sharedOwner, ownerDelivery>>
scheduler == <<owner, epoch, requestTicket, ackTicket, acking>>
lgmp      == <<sharedQueue, ownerQueue, subs, ownerSubs>>
vars      == <<pool, books, scheduler, lgmp>>

-----------------------------------------------------------------------------
Buffers    == 1 .. BUFFER_LEN
Queues     == 1 .. Q_LEN
NoDelivery == [client |-> NoClient, token |-> <<0, 0>>, buffer |-> 0]
NoSchedule == [client |-> NoClient, epoch |-> 0, deadline |-> 0, ticket |-> 0]

InFlight(b) == phase[b] # "idle"                    \* m_frameInFlight
Token(s)    == <<s.epoch, s.deadline>>              \* FrameScheduleToken

\* lgmpHostQueuePayloadPending: a message for the buffer is still queued.
PayloadPending(queue, b) == \E i \in DOMAIN queue : queue[i].buffer = b
MessagePending(queue, b, token) ==
  \E i \in DOMAIN queue : queue[i].buffer = b /\ queue[i].token = token

Message(b, token, clients) ==
  [buffer |-> b, token |-> token, clients |-> clients, serial |-> frame[b]]

-----------------------------------------------------------------------------
(* What the sink decides from its bookkeeping.                             *)

CountOwnerDeliveries(c) ==
  Cardinality({q \in Queues : ownerDelivery[q] # NoDelivery
                              /\ ownerDelivery[q].client = c})
  + Cardinality({b \in Buffers : sharedOwner[b] # NoDelivery
                                 /\ sharedOwner[b].client = c})

HasMatchingOwnerDelivery(c, b, token) ==
  \/ \E q \in Queues : ownerDelivery[q] =
                         [client |-> c, token |-> token, buffer |-> b]
  \/ sharedOwner[b] = [client |-> c, token |-> token, buffer |-> b]

FreeOwnerQueues ==
  {q \in Queues : ownerDelivery[q] = NoDelivery /\ ownerQueue[q] = <<>>}

\* The first free owner queue, counting from the buffer's own; 0 if none.
FindAvailableOwnerQueue(preferred) ==
  IF FreeOwnerQueues = {} THEN 0
  ELSE LET distance(q) == (q - preferred) % Q_LEN
       IN  CHOOSE q \in FreeOwnerQueues :
             \A p \in FreeOwnerQueues : distance(q) <= distance(p)

FrameBufferReferenced_OwnerOnly(b) ==     \* mutant: the shared queue is forgotten
  \/ ownerQueueMask[b] # {}
  \/ \E q \in Queues : PayloadPending(ownerQueue[q], b)

FrameBufferReferenced(b) ==
  \/ ownerQueueMask[b] # {} \/ sharedPending[b] \/ sharedOwner[b] # NoDelivery
  \/ PayloadPending(sharedQueue, b)
  \/ \E q \in Queues : PayloadPending(ownerQueue[q], b)

\* Of a set of buffers the one published last, the lowest on a tie; 0 if none.
NewestPublished(S) ==
  IF S = {} THEN 0
  ELSE CHOOSE b \in S :
         \A a \in S : lastSeq[a] < lastSeq[b] \/ (lastSeq[a] = lastSeq[b] /\ b <= a)

Reusable(b) == ~InFlight(b) /\ ~FrameBufferReferenced(b)

\* A buffer nobody uses; the retained frame's own only as a last resort.
FindAvailableFrameBuffer(allowReady) ==
  LET free == {b \in Buffers \ {ready} : Reusable(b)}
  IN  IF free # {} THEN NewestPublished(free)
      ELSE IF allowReady /\ ready # 0 /\ Reusable(ready) THEN ready
      ELSE 0

FindNewestCompletedFrame(exclude) ==
  NewestPublished({b \in Buffers \ {exclude} : completed[b] /\ ~InFlight(b)})

AllowReady(c, allowReplacement) ==
  /\ allowReplacement /\ c # NoClient
  /\ CountOwnerDeliveries(c) >= Q_LEN \/ FindAvailableOwnerQueue(1) = 0

\* The schedule is still the elected one (FrameScheduleMatches; without an
\* owner both sides must say so).
ScheduleCurrent(s) == s.client = owner /\ (owner # NoClient => s.epoch = epoch)

-----------------------------------------------------------------------------
Init ==
  /\ frameSerial = 0 /\ frame = [b \in Buffers |-> 0]
  /\ phase = [b \in Buffers |-> "idle"]
  /\ completed = [b \in Buffers |-> FALSE]
  /\ ready = 0 /\ deferred = 0 /\ publishSeq = 0 /\ readySeq = 0
  /\ lastSeq = [b \in Buffers |-> 0]
  /\ schedule = [b \in Buffers |-> NoSchedule]
  /\ delivered = [b \in Buffers |-> FALSE]
  /\ ownerQueueMask = [b \in Buffers |-> {}]
  /\ sharedPending = [b \in Buffers |-> FALSE]
  /\ sharedOwner = [b \in Buffers |-> NoDelivery]
  /\ ownerDelivery = [q \in Queues |-> NoDelivery]
  /\ owner = NoClient /\ epoch = 0 /\ requestTicket = 0 /\ ackTicket = 0
  /\ acking = NoSchedule
  /\ sharedQueue = <<>> /\ ownerQueue = [q \in Queues |-> <<>>]
  /\ subs = {} /\ ownerSubs = {}

-----------------------------------------------------------------------------
(* CFrameScheduler.                                                        *)

\* ElectOwner: a new schedule identity (another owner, or the same one with a
\* new generation or after its reset); it asks for a republish, and the end of
\* scheduling drops what was asked.
ElectOwner(c) ==
  /\ {c, owner} # {NoClient} /\ owner' = c
  /\ IF c = NoClient
       THEN /\ ackTicket' = requestTicket /\ UNCHANGED <<epoch, requestTicket>>
       ELSE /\ epoch < MaxEpoch /\ requestTicket < MaxTicket
            /\ epoch' = epoch + 1 /\ requestTicket' = requestTicket + 1
            /\ UNCHANGED ackTicket
  /\ UNCHANGED <<pool, books, acking, lgmp>>

\* RequestRepublish (an owner queue has a new subscriber).
RequestRepublish ==
  /\ owner # NoClient /\ requestTicket = ackTicket
  /\ requestTicket < MaxTicket
  /\ requestTicket' = requestTicket + 1
  /\ UNCHANGED <<pool, books, owner, epoch, ackTicket, acking, lgmp>>

RepublishRequested == requestTicket # ackTicket

AckedBy(s) == IF ScheduleCurrent(s) /\ owner # NoClient /\ s.ticket > ackTicket
                THEN s.ticket ELSE ackTicket

-----------------------------------------------------------------------------
(* The capture pipeline.                                                   *)

\* PrepareFrameBuffer, after FrameBufferAvailable, for a plan s.
PrepareFrameBuffer(s, allowReplacement) ==
  LET b == FindAvailableFrameBuffer(AllowReady(s.client, allowReplacement)) IN
  /\ acking = NoSchedule
  /\ Cardinality({x \in Buffers : InFlight(x)}) < Pipeline
  /\ frameSerial < MaxFrames
  /\ s.client = NoClient => sharedQueue = <<>>
  /\ b # 0
  /\ phase' = [phase EXCEPT ![b] = "prepared"]
  /\ ready' = IF b = ready THEN FindNewestCompletedFrame(b) ELSE ready
  /\ completed' = [completed EXCEPT ![b] = FALSE]
  /\ ownerQueueMask' = [ownerQueueMask EXCEPT ![b] = {}]
  /\ sharedPending' = [sharedPending EXCEPT ![b] = FALSE]
  /\ sharedOwner' = [sharedOwner EXCEPT ![b] = NoDelivery]
  /\ frameSerial' = frameSerial + 1
  /\ frame' = [frame EXCEPT ![b] = frameSerial + 1]
  /\ schedule' = [schedule EXCEPT ![b] = s]
  /\ UNCHANGED <<deferred, publishSeq, readySeq, lastSeq, delivered,
                 ownerDelivery, scheduler, lgmp>>

\* The plans the hub may hold: the elected schedule with the deadline it is
\* meant for (0 when it is served at once) or one that has been replaced.
Plans ==
  {[client |-> owner, epoch |-> IF owner = NoClient THEN 0 ELSE epoch,
    deadline |-> d, ticket |-> requestTicket] :
     d \in IF owner = NoClient \/ (RepublishRequested /\ ready # 0) THEN {0}
           ELSE {0, frameSerial + 1}}
  \cup {[client |-> c, epoch |-> 0, deadline |-> 0, ticket |-> 0] :
          c \in Clients \ {owner}}

\* PostSharedFrame to the secondaries that are due: the queue must be empty,
\* and clients with an owner delivery under way are left out.
SharedTargets(exclude, due) ==
  {c \in due : c # exclude /\ \A q \in Queues : ownerDelivery[q].client # c}

PostSharedFrame(b, exclude, due) ==
  IF sharedQueue # <<>>
    THEN UNCHANGED <<sharedQueue, sharedPending, sharedOwner>>
    ELSE LET targets == SharedTargets(exclude, due) IN
         /\ sharedQueue' = IF targets = {} THEN <<>>
                           ELSE <<Message(b, <<0, 0>>, targets)>>
         /\ sharedPending' = [sharedPending EXCEPT ![b] = targets # {}]
         /\ sharedOwner' = [sharedOwner EXCEPT ![b] = NoDelivery]

\* PostSharedOwnerFrame: the shared queue as a stand-in for an owner queue.
CanPostSharedOwner(b, s) ==
  /\ s.client # NoClient /\ sharedOwner[b] = NoDelivery
  /\ Len(sharedQueue) < Q_LEN /\ s.client \in subs

PostSharedOwnerFrame_TokenOnly(b, s) ==   \* mutant: sharedPending is not set
  /\ sharedQueue' = Append(sharedQueue, Message(b, Token(s), {s.client}))
  /\ sharedOwner' = [sharedOwner EXCEPT ![b] =
                       [client |-> s.client, token |-> Token(s), buffer |-> b]]
  /\ UNCHANGED sharedPending

PostSharedOwnerFrame(b, s) ==
  /\ sharedQueue' = Append(sharedQueue, Message(b, Token(s), {s.client}))
  /\ sharedPending' = [sharedPending EXCEPT ![b] = TRUE]
  /\ sharedOwner' = [sharedOwner EXCEPT ![b] =
                       [client |-> s.client, token |-> Token(s), buffer |-> b]]

PostOwnerFrame(q, b, s) ==
  /\ ownerQueue' = [ownerQueue EXCEPT ![q] =
                      Append(@, Message(b, Token(s), {s.client}))]
  /\ ownerDelivery' = [ownerDelivery EXCEPT ![q] =
                         [client |-> s.client, token |-> Token(s), buffer |-> b]]
  /\ ownerQueueMask' = [ownerQueueMask EXCEPT ![b] = @ \cup {q}]

NoOwnerPost == UNCHANGED <<ownerQueue, ownerDelivery, ownerQueueMask>>

\* What PublishFrameBuffer records of a published frame.
Published(b, toOwner) ==
  /\ phase' = [phase EXCEPT ![b] = "published"]
  /\ publishSeq' = publishSeq + 1
  /\ lastSeq' = [lastSeq EXCEPT ![b] = publishSeq + 1]
  /\ delivered' = [delivered EXCEPT ![b] = toOwner]
  /\ deferred' = IF schedule[b].client # NoClient /\ ~toOwner THEN b ELSE 0
  /\ UNCHANGED <<frameSerial, frame, completed, ready, readySeq, schedule>>

\* Both owner lanes hold older frames: retain this one for the owner.
PublishRetained(b, due) ==
  /\ schedule[b].client # NoClient
  /\ CountOwnerDeliveries(owner) >= Q_LEN
  /\ PostSharedFrame(b, owner, due) /\ NoOwnerPost
  /\ Published(b, FALSE)

\* No owner queue is free: the shared queue instead, or retain.
PublishFallback(b, due) ==
  /\ schedule[b].client # NoClient
  /\ CountOwnerDeliveries(owner) < Q_LEN /\ FreeOwnerQueues = {}
  /\ IF CanPostSharedOwner(b, schedule[b])
       THEN PostSharedOwnerFrame(b, schedule[b])
       ELSE PostSharedFrame(b, owner, due)
  /\ NoOwnerPost
  /\ Published(b, CanPostSharedOwner(b, schedule[b]))

PublishToOwner(b, due) ==
  /\ schedule[b].client # NoClient
  /\ CountOwnerDeliveries(owner) < Q_LEN /\ FreeOwnerQueues # {}
  /\ owner \in ownerSubs
  /\ PostOwnerFrame(FindAvailableOwnerQueue(b), b, schedule[b])
  /\ PostSharedFrame(b, owner, due)
  /\ Published(b, TRUE)

\* Nobody owns the frame clock: push to whoever is due.
PublishPushed(b, due) ==
  /\ schedule[b].client = NoClient /\ sharedQueue = <<>>
  /\ PostSharedFrame(b, NoClient, due) /\ NoOwnerPost
  /\ Published(b, TRUE)

\* PublishFrameBuffer; where it returns false it changes nothing.
PublishFrameBuffer(b, due) ==
  /\ phase[b] = "prepared" /\ acking = NoSchedule
  /\ ScheduleCurrent(schedule[b])
  /\ \/ PublishRetained(b, due) \/ PublishFallback(b, due)
     \/ PublishToOwner(b, due) \/ PublishPushed(b, due)
  /\ UNCHANGED <<scheduler, subs, ownerSubs>>

\* A buffer's schedule has been read for the last time (the code leaves it,
\* and overwrites it before it reads it again).
ScheduleDone(b) ==
  /\ schedule' = [schedule EXCEPT ![b] = NoSchedule]
  /\ delivered' = [delivered EXCEPT ![b] = FALSE]

\* Give the buffer back: nothing of it is a frame any more.
Dropped(b) ==
  /\ completed' = [completed EXCEPT ![b] = FALSE]
  /\ deferred' = IF deferred = b THEN 0 ELSE deferred
  /\ phase' = [phase EXCEPT ![b] = "idle"] /\ ScheduleDone(b)
  /\ UNCHANGED <<frameSerial, frame, ready, publishSeq, readySeq, lastSeq,
                 books, scheduler, lgmp>>

\* AbortFrameBuffer: not published, or PublishFrameBuffer refused it.
AbortFrameBuffer(b) == phase[b] = "prepared" /\ Dropped(b)

\* FailFrameBuffer: the copy failed after the frame was posted.
FailFrameBuffer(b) == phase[b] = "published" /\ Dropped(b)

TicketAfterRetaining_Same(b) == requestTicket   \* mutant: nobody asks for it

\* FrameRetained: one republish request stays pending until the owner gets it.
TicketAfterRetaining(b) ==
  IF /\ owner # NoClient /\ ScheduleCurrent(schedule[b])
     /\ requestTicket = ackTicket
    THEN requestTicket + 1 ELSE requestTicket

CompleteFrameBuffer_Latest(b, succeeded) ==  \* mutant: the last to complete wins
  /\ phase[b] = "published"
  /\ completed' = [completed EXCEPT ![b] = succeeded]
  /\ deferred' = IF ~succeeded /\ deferred = b THEN 0 ELSE deferred
  /\ ready' = IF succeeded THEN b ELSE ready
  /\ phase' = [phase EXCEPT ![b] = "idle"] /\ ScheduleDone(b)
  /\ UNCHANGED <<frameSerial, frame, publishSeq, readySeq, lastSeq, books,
                 scheduler, lgmp>>

\* The copy is done.  Completions may come out of order.
CompleteFrameBuffer(b, succeeded) ==
  LET newerThanReady == lastSeq[b] > readySeq IN
  /\ phase[b] = "published"
  /\ completed' = [completed EXCEPT ![b] = succeeded]
  /\ deferred' = IF ~succeeded /\ deferred = b THEN 0 ELSE deferred
  /\ ready' = IF succeeded /\ (ready = 0 \/ lastSeq[b] > lastSeq[ready])
                THEN b ELSE ready
  /\ phase' = [phase EXCEPT ![b] = "idle"] /\ ScheduleDone(b)
  /\ readySeq' = IF succeeded /\ newerThanReady THEN lastSeq[b] ELSE readySeq
  \* FramePublished or FrameRetained.
  /\ ackTicket' = IF succeeded /\ newerThanReady /\ delivered[b]
                    THEN AckedBy(schedule[b]) ELSE ackTicket
  /\ requestTicket' =
       IF succeeded /\ newerThanReady /\ ~delivered[b]
         THEN TicketAfterRetaining(b) ELSE requestTicket
  /\ UNCHANGED <<frameSerial, frame, publishSeq, lastSeq, books, owner,
                 epoch, acking, lgmp>>

-----------------------------------------------------------------------------
(* Serving a retained frame.                                               *)

FrameToRepublish_Ready == ready            \* mutant: ignores the frame owed

\* The frame owed to the owner, else the newest complete one.  (The code also
\* forgets a deferred frame that is neither; DeferredIsNewest: there is none.)
FrameToRepublish ==
  IF deferred # 0 /\ (completed[deferred] \/ InFlight(deferred))
    THEN deferred ELSE ready

\* RepublishFrameBuffer, called while a republish is requested and a frame is
\* ready.  The report to the scheduler comes after the lock is released.
RepublishFrameBuffer ==
  LET b == FrameToRepublish
      s == [client |-> owner, epoch |-> epoch, deadline |-> 0,
            ticket |-> requestTicket]
      q == FindAvailableOwnerQueue(b)
  IN
  /\ acking = NoSchedule /\ owner # NoClient /\ RepublishRequested
  /\ ready # 0 /\ b # 0 /\ ~InFlight(b)
  /\ \/ /\ HasMatchingOwnerDelivery(owner, b, Token(s))
        /\ NoOwnerPost /\ UNCHANGED <<sharedQueue, sharedPending, sharedOwner>>
     \/ /\ ~HasMatchingOwnerDelivery(owner, b, Token(s))
        /\ CountOwnerDeliveries(owner) < Q_LEN
        /\ \/ /\ q = 0 /\ CanPostSharedOwner(b, s)
              /\ PostSharedOwnerFrame(b, s) /\ NoOwnerPost
           \/ /\ q # 0 /\ owner \in ownerSubs
              /\ PostOwnerFrame(q, b, s)
              /\ UNCHANGED <<sharedQueue, sharedPending, sharedOwner>>
  /\ deferred' = IF deferred = b THEN 0 ELSE deferred
  /\ acking' = s
  /\ UNCHANGED <<frameSerial, frame, phase, completed, ready, publishSeq,
                 readySeq, lastSeq, schedule, delivered, owner, epoch,
                 requestTicket, ackTicket, subs, ownerSubs>>

FrameRepublished ==
  /\ acking # NoSchedule
  /\ ackTicket' = AckedBy(acking)
  /\ acking' = NoSchedule
  /\ UNCHANGED <<pool, books, owner, epoch, requestTicket, lgmp>>

\* RetryPendingDelivery: secondaries that have not had the ready frame.
RetryPendingDelivery(due) ==
  /\ acking = NoSchedule
  /\ ready # 0 /\ ~InFlight(ready) /\ sharedQueue = <<>>
  /\ PostSharedFrame(ready, NoClient, due)
  /\ UNCHANGED <<pool, ownerQueueMask, ownerDelivery, scheduler, ownerQueue,
                 subs, ownerSubs>>

ProcessFrameDeliveries_OwnerOnly ==       \* mutant: shared references stay
  LET gone == {q \in Queues :
                 /\ ownerDelivery[q] # NoDelivery
                 /\ ~PayloadPending(ownerQueue[q], ownerDelivery[q].buffer)}
  IN
  /\ ownerQueueMask' = [b \in Buffers |->
       {q \in ownerQueueMask[b] : ~(q \in gone /\ ownerDelivery[q].buffer = b)}]
  /\ ownerDelivery' = [q \in Queues |->
       IF q \in gone THEN NoDelivery ELSE ownerDelivery[q]]
  /\ UNCHANGED <<pool, sharedPending, sharedOwner, scheduler, lgmp>>

\* Forget the references whose messages have left the queues.
ProcessFrameDeliveries ==
  LET gone == {q \in Queues :
                 /\ ownerDelivery[q] # NoDelivery
                 /\ ~PayloadPending(ownerQueue[q], ownerDelivery[q].buffer)}
  IN
  /\ sharedOwner' = [b \in Buffers |->
       IF MessagePending(sharedQueue, b, sharedOwner[b].token)
         THEN sharedOwner[b] ELSE NoDelivery]
  /\ sharedPending' = [b \in Buffers |->
       sharedPending[b] /\ PayloadPending(sharedQueue, b)]
  /\ ownerQueueMask' = [b \in Buffers |->
       {q \in ownerQueueMask[b] : ~(q \in gone /\ ownerDelivery[q].buffer = b)}]
  /\ ownerDelivery' = [q \in Queues |->
       IF q \in gone THEN NoDelivery ELSE ownerDelivery[q]]
  /\ UNCHANGED <<pool, scheduler, lgmp>>

\* DeInit and a later Initialize and Setup; the hub has drained the sink.
Restart ==
  /\ \A b \in Buffers : ~InFlight(b)
  /\ acking = NoSchedule
  /\ completed' = [b \in Buffers |-> FALSE]
  /\ ready' = 0 /\ deferred' = 0 /\ publishSeq' = 0 /\ readySeq' = 0
  /\ lastSeq' = [b \in Buffers |-> 0]
  /\ ownerQueueMask' = [b \in Buffers |-> {}]
  /\ sharedPending' = [b \in Buffers |-> FALSE]
  /\ sharedOwner' = [b \in Buffers |-> NoDelivery]
  /\ ownerDelivery' = [q \in Queues |-> NoDelivery]
  /\ owner' = NoClient /\ epoch' = 0 /\ ackTicket' = requestTicket
  /\ sharedQueue' = <<>> /\ ownerQueue' = [q \in Queues |-> <<>>]
  /\ subs' = {} /\ ownerSubs' = {}
  /\ UNCHANGED <<frameSerial, frame, phase, schedule, delivered,
                 requestTicket, acking>>

-----------------------------------------------------------------------------
(* LGMP: subscribers, their messages and the retirement of messages.       *)

Without(queue, c) ==
  [i \in DOMAIN queue |-> [queue[i] EXCEPT !.clients = @ \ {c}]]

LgmpSubscribe(c, all) ==
  /\ c \notin subs
  /\ subs' = subs \cup {c}
  /\ ownerSubs' = IF all THEN ownerSubs \cup {c} ELSE ownerSubs
  /\ UNCHANGED <<pool, books, scheduler, sharedQueue, ownerQueue>>

\* lgmpClientMessageDone: a client is done with the oldest message it holds.
FirstOf(queue, c) ==
  {i \in DOMAIN queue : /\ c \in queue[i].clients
                        /\ \A j \in 1 .. i - 1 : c \notin queue[j].clients}

LgmpDoneShared(c) ==
  \E i \in FirstOf(sharedQueue, c) :
    /\ sharedQueue' = [sharedQueue EXCEPT ![i].clients = @ \ {c}]
    /\ UNCHANGED <<pool, books, scheduler, ownerQueue, subs, ownerSubs>>

LgmpDoneOwner(c, q) ==
  \E i \in FirstOf(ownerQueue[q], c) :
    /\ ownerQueue' = [ownerQueue EXCEPT ![q][i].clients = @ \ {c}]
    /\ UNCHANGED <<pool, books, scheduler, sharedQueue, subs, ownerSubs>>

\* A client leaves, or LGMP drops it after subTimeout.
LgmpDrop(c) ==
  /\ c \in subs
  /\ subs' = subs \ {c} /\ ownerSubs' = ownerSubs \ {c}
  /\ sharedQueue' = Without(sharedQueue, c)
  /\ ownerQueue' = [q \in Queues |-> Without(ownerQueue[q], c)]
  /\ UNCHANGED <<pool, books, scheduler>>

\* lgmpHostProcess retires messages that nobody holds, oldest first.
LgmpRetireShared ==
  /\ sharedQueue # <<>> /\ Head(sharedQueue).clients = {}
  /\ sharedQueue' = Tail(sharedQueue)
  /\ UNCHANGED <<pool, books, scheduler, ownerQueue, subs, ownerSubs>>

LgmpRetireOwner(q) ==
  /\ ownerQueue[q] # <<>> /\ Head(ownerQueue[q]).clients = {}
  /\ ownerQueue' = [ownerQueue EXCEPT ![q] = Tail(@)]
  /\ UNCHANGED <<pool, books, scheduler, sharedQueue, subs, ownerSubs>>

-----------------------------------------------------------------------------
Due == SUBSET (subs \ {owner})     \* whom GetSecondaryRecipients may return

Publish == \E b \in Buffers : \E due \in Due : PublishFrameBuffer(b, due)
Complete == \E b \in Buffers, ok \in BOOLEAN : CompleteFrameBuffer(b, ok)
Done == \E c \in Clients : LgmpDoneShared(c) \/ \E q \in Queues : LgmpDoneOwner(c, q)
Retire == LgmpRetireShared \/ \E q \in Queues : LgmpRetireOwner(q)

Next ==
  \/ \E c \in ownerSubs \cup {NoClient} : ElectOwner(c)
  \/ RequestRepublish
  \/ \E s \in Plans, allow \in BOOLEAN : PrepareFrameBuffer(s, allow)
  \/ Publish
  \/ \E b \in Buffers : AbortFrameBuffer(b) \/ FailFrameBuffer(b)
  \/ Complete
  \/ RepublishFrameBuffer
  \/ FrameRepublished
  \/ \E due \in Due : RetryPendingDelivery(due)
  \/ ProcessFrameDeliveries
  \/ Restart
  \/ \E c \in Clients, all \in BOOLEAN : LgmpSubscribe(c, all)
  \/ Done
  \/ \E c \in Clients : LgmpDrop(c)
  \/ Retire

Spec == Init /\ [][Next]_vars

\* The pipeline ends what it has begun; a client gives its messages back or
\* LGMP drops it after a second; the LGMP timer and the publisher keep running.
FairSpec ==
  /\ Spec
  /\ \A b \in Buffers :
       /\ WF_vars((\E due \in Due : PublishFrameBuffer(b, due)) \/ AbortFrameBuffer(b))
       /\ WF_vars(FailFrameBuffer(b) \/ \E ok \in BOOLEAN : CompleteFrameBuffer(b, ok))
  /\ \A c \in Clients :
       /\ WF_vars(LgmpDoneShared(c) \/ (FirstOf(sharedQueue, c) # {} /\ LgmpDrop(c)))
       /\ \A q \in Queues :
            WF_vars(LgmpDoneOwner(c, q)
                    \/ (FirstOf(ownerQueue[q], c) # {} /\ LgmpDrop(c)))
  /\ WF_vars(LgmpRetireShared) /\ \A q \in Queues : WF_vars(LgmpRetireOwner(q))
  /\ WF_vars(ProcessFrameDeliveries)
  /\ WF_vars(RepublishFrameBuffer) /\ WF_vars(FrameRepublished)

-----------------------------------------------------------------------------
(* Properties.                                                             *)

AllMessages ==
  {sharedQueue[i] : i \in DOMAIN sharedQueue}
  \cup UNION {{ownerQueue[q][i] : i \in DOMAIN ownerQueue[q]} :
                q \in DOMAIN ownerQueue}

\* A buffer is never taken for another frame while a client may still read the
\* frame that was posted in it, whichever queue the post went through and
\* however often it was posted again.
PostedFrameStays ==
  \A m \in AllMessages : m.clients # {} => frame[m.buffer] = m.serial

\* The bookkeeping covers every message LGMP still holds: an owner queue's one
\* message is the delivery recorded for it, and a buffer in the shared queue
\* is marked so, with the owner's token when it stands in for an owner queue.
MessagesAccounted ==
  /\ \A q \in DOMAIN ownerQueue : ownerQueue[q] # <<>> =>
       /\ ownerDelivery[q].buffer = Head(ownerQueue[q]).buffer
       /\ q \in ownerQueueMask[ownerDelivery[q].buffer]
  /\ \A i \in DOMAIN sharedQueue :
       /\ sharedPending[sharedQueue[i].buffer]
       /\ sharedQueue[i].token # <<0, 0>> =>
            sharedOwner[sharedQueue[i].buffer].token = sharedQueue[i].token

\* The retained frame is the newest whose copy is complete, in whatever order
\* copies complete, fail and have their buffers taken back.
ReadyIsNewest ==
  ready = NewestPublished({b \in DOMAIN completed : completed[b] /\ ~InFlight(b)})

\* A frame owed to the owner is being copied or is the retained one; it is
\* never an aborted, failed or outdated buffer.
DeferredIsNewest ==
  deferred # 0 =>
    /\ lastSeq[deferred] = publishSeq
    /\ InFlight(deferred) \/ (completed[deferred] /\ ready = deferred)

\* No lost wake-up: as long as a complete frame is owed to the owner, a
\* republish is requested, whatever completion or report came in between.
OwedIsRequested ==
  (deferred # 0 /\ ~InFlight(deferred) /\ owner # NoClient) =>
    RepublishRequested

\* The frame owed to the owner: always the newest one, and always asked for
\* (PublishFrameBuffer, CompleteFrameBuffer, FrameRepublished).
OwedIsServed == DeferredIsNewest /\ OwedIsRequested

\* A publisher that finds every buffer taken finds one in the end: references
\* do not outlive the messages they stand for.
BufferComesFree ==
  (FindAvailableFrameBuffer(TRUE) = 0) ~> (FindAvailableFrameBuffer(TRUE) # 0)

\* The owner gets the frame it is owed, or a newer one, unless it loses the
\* ownership or its subscription first.
OwedInTheEnd ==
  \A c \in Clients :
    (deferred # 0 /\ owner = c /\ c \in ownerSubs) ~>
      (deferred = 0 \/ owner # c \/ c \notin ownerSubs)

=============================================================================

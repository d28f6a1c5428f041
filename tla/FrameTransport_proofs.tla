----------------------- MODULE FrameTransport_proofs ------------------------
(***************************************************************************)
(* The safety properties of FrameTransport, for every number of buffers,   *)
(* queues, pipeline slots and clients.  IInv is the inductive invariant,   *)
(* in three parts that hold one another up only through the types:         *)
(*   QueueInv  what the queues and the bookkeeping say of each other;      *)
(*   PoolInv   how publications are numbered and which are complete;       *)
(*   OwedInv   for whom a frame was published and which requests stand.    *)
(* Its parts were model-checked on the configurations of the runs before.  *)
(***************************************************************************)
EXTENDS FrameTransport, WellFoundedInduction, SequenceTheorems, TLAPS

Schedules  == [client : Clients \cup {NoClient}, epoch : Nat, deadline : Nat,
               ticket : Nat]
Deliveries == [client : Clients \cup {NoClient}, token : Nat \X Nat,
               buffer : 0 .. BUFFER_LEN]
Messages   == [buffer : Buffers, token : Nat \X Nat, clients : SUBSET Clients,
               serial : Nat]

PoolType ==
  /\ frameSerial \in Nat /\ frame \in [Buffers -> Nat]
  /\ phase \in [Buffers -> {"idle", "prepared", "published"}]
  /\ completed \in [Buffers -> BOOLEAN] /\ delivered \in [Buffers -> BOOLEAN]
  /\ ready \in 0 .. BUFFER_LEN /\ deferred \in 0 .. BUFFER_LEN
  /\ publishSeq \in Nat /\ readySeq \in Nat /\ lastSeq \in [Buffers -> Nat]
  /\ schedule \in [Buffers -> Schedules]

BooksType ==
  /\ ownerQueueMask \in [Buffers -> SUBSET Queues]
  /\ sharedPending \in [Buffers -> BOOLEAN]
  /\ sharedOwner \in [Buffers -> Deliveries]
  /\ ownerDelivery \in [Queues -> Deliveries]

SchedulerType ==
  /\ owner \in Clients \cup {NoClient}
  /\ epoch \in Nat /\ requestTicket \in Nat /\ ackTicket \in Nat
  /\ acking \in Schedules

LgmpType ==
  /\ sharedQueue \in Seq(Messages)
  /\ ownerQueue \in [Queues -> Seq(Messages)]
  /\ subs \in SUBSET Clients /\ ownerSubs \in SUBSET Clients

TypeOK == PoolType /\ BooksType /\ SchedulerType /\ LgmpType

\* A non-empty set of naturals has a least element.
LEMMA LeastExists ==
  ASSUME NEW S, S \subseteq Nat, S # {}
  PROVE  \E x \in S : \A y \in S : x <= y
<1> DEFINE R == OpToRel(<, Nat)
<1>1. IsWellFoundedOn(R, Nat)
  BY NatLessThanWellFounded
<1>2. PICK x \in S : \A y \in S : ~(<<y, x>> \in R)
  <2> HIDE DEF R
  <2> QED BY <1>1, WFMin
<1>3. ASSUME NEW y \in S PROVE x <= y
  <2>1. x \in Nat /\ y \in Nat /\ ~(<<y, x>> \in R)
    BY <1>2
  <2> QED BY <2>1 DEF OpToRel
<1> QED BY <1>3

\* No buffer counts as published later than the newest publication.
Bounded == \A b \in Buffers : lastSeq[b] <= publishSeq

NewerIn(b, S) ==
  \A a \in S : lastSeq[a] < lastSeq[b] \/ (lastSeq[a] = lastSeq[b] /\ b <= a)

\* NewestPublished returns a member of a non-empty set, and every other member
\* was published earlier or has a higher index; it is the only such member.
LEMMA NewestFact ==
  ASSUME PoolType, Bounded, NEW S, S \subseteq Buffers, S # {}
  PROVE  /\ NewestPublished(S) \in S
         /\ NewerIn(NewestPublished(S), S)
         /\ \A b \in S : NewerIn(b, S) => b = NewestPublished(S)
<1>1. \A b \in S : b \in Nat /\ lastSeq[b] \in Nat /\ lastSeq[b] <= publishSeq
  BY TransportConstants DEF PoolType, Bounded, Buffers
<1>2. publishSeq \in Nat
  BY DEF PoolType
<1>3. PICK m \in S : \A a \in S : lastSeq[a] <= lastSeq[m]
  <2> DEFINE T == {publishSeq - lastSeq[a] : a \in S}
  <2>1. T \subseteq Nat /\ T # {}
    BY <1>1, <1>2
  <2>2. PICK t \in T : \A y \in T : t <= y
    BY <2>1, LeastExists
  <2>3. PICK m \in S : t = publishSeq - lastSeq[m]
    OBVIOUS
  <2>4. \A a \in S : publishSeq - lastSeq[m] <= publishSeq - lastSeq[a]
    BY <2>2, <2>3
  <2> QED BY <1>1, <1>2, <2>4
<1>4. PICK b \in S : NewerIn(b, S)
  <2> DEFINE T == {a \in S : lastSeq[a] = lastSeq[m]}
  <2>1. T \subseteq Nat /\ T # {}
    BY <1>1
  <2>2. PICK b \in T : \A a \in T : b <= a
    BY <2>1, LeastExists
  <2> QED BY <1>1, <1>3, <2>2 DEF NewerIn
<1>5. NewestPublished(S) = CHOOSE x \in S : NewerIn(x, S)
  BY DEF NewestPublished, NewerIn
<1>6. NewestPublished(S) \in S /\ NewerIn(NewestPublished(S), S)
  BY <1>4, <1>5
<1>7. ASSUME NEW x \in S, NEW y \in S, NewerIn(x, S), NewerIn(y, S) PROVE x = y
  BY <1>1, <1>7 DEF NewerIn
<1> QED BY <1>6, <1>7

\* The buffer that Prepare takes is idle and nothing refers to it.
LEMMA AvailableFact ==
  ASSUME PoolType, Bounded, NEW allowReady, FindAvailableFrameBuffer(allowReady) # 0
  PROVE  LET b == FindAvailableFrameBuffer(allowReady)
         IN b \in Buffers /\ Reusable(b)
<1> DEFINE free == {b \in Buffers \ {ready} : Reusable(b)}
<1>1. CASE free # {}
  <2>1. FindAvailableFrameBuffer(allowReady) = NewestPublished(free)
    BY <1>1 DEF FindAvailableFrameBuffer
  <2> QED BY <1>1, <2>1, NewestFact
<1>2. CASE free = {}
  <2>1. FindAvailableFrameBuffer(allowReady) = ready /\ ready # 0 /\ Reusable(ready)
    BY <1>2 DEF FindAvailableFrameBuffer
  <2> QED BY <2>1, TransportConstants DEF PoolType, Buffers
<1> QED BY <1>1, <1>2

\* An owner queue that is found is free.
LEMMA OwnerQueueFact ==
  ASSUME NEW b \in Buffers, FreeOwnerQueues # {}
  PROVE  FindAvailableOwnerQueue(b) \in FreeOwnerQueues
<1> DEFINE distance(q) == (q - b) % Q_LEN
           T == {distance(q) : q \in FreeOwnerQueues}
<1>1. FreeOwnerQueues \subseteq Int /\ b \in Int /\ Q_LEN \in Nat \ {0}
  BY TransportConstants DEF FreeOwnerQueues, Queues, Buffers
<1>2. T \subseteq Nat /\ T # {}
  <2>1. \A q \in Int : distance(q) \in 0 .. Q_LEN - 1
    BY <1>1
  <2> HIDE DEF distance
  <2>2. \A q \in FreeOwnerQueues : distance(q) \in Nat
    BY <1>1, <2>1
  <2> QED BY <2>2
<1>3. PICK t \in T : \A u \in T : t <= u
  BY <1>2, LeastExists
<1>4. PICK q \in FreeOwnerQueues : t = distance(q)
  OBVIOUS
<1>5. \A p \in FreeOwnerQueues : distance(q) <= distance(p)
  BY <1>3, <1>4
<1>6. FindAvailableOwnerQueue(b) =
        CHOOSE x \in FreeOwnerQueues : \A p \in FreeOwnerQueues : distance(x) <= distance(p)
  BY DEF FindAvailableOwnerQueue
<1> HIDE DEF distance
<1> QED BY <1>5, <1>6

\* The frame that is retained when its buffer's own is given up is complete.
LEMMA NewestCompletedFact ==
  ASSUME PoolType, Bounded, NEW x
  PROVE  FindNewestCompletedFrame(x) \in 0 .. BUFFER_LEN
<1> DEFINE S == {b \in Buffers \ {x} : completed[b] /\ ~InFlight(b)}
<1>1. FindNewestCompletedFrame(x) = NewestPublished(S)
  BY DEF FindNewestCompletedFrame
<1>2. CASE S = {}
  BY <1>1, <1>2, TransportConstants DEF NewestPublished
<1>3. CASE S # {}
  <2>1. NewestPublished(S) \in S
    BY <1>3, NewestFact
  <2> QED BY <1>1, <2>1, TransportConstants DEF Buffers
<1> QED BY <1>2, <1>3

\* The empty delivery and the empty schedule are well typed.
LEMMA DefaultsType == NoDelivery \in Deliveries /\ NoSchedule \in Schedules
BY TransportConstants DEF NoDelivery, NoSchedule, Deliveries, Schedules

\* A plan is a schedule.
LEMMA PlansType ==
  ASSUME TypeOK PROVE Plans \subseteq Schedules
BY DEF TypeOK, PoolType, SchedulerType, Plans, Schedules

\* What a post puts into a queue is a message.
LEMMA MessageType ==
  ASSUME PoolType, NEW b \in Buffers, NEW token \in Nat \X Nat, NEW cs \in SUBSET Clients
  PROVE  Message(b, token, cs) \in Messages
BY DEF PoolType, Message, Messages

\* A client's leave from a queue changes its messages only in who holds them.
LEMMA WithoutFact ==
  ASSUME NEW queue \in Seq(Messages), NEW c
  PROVE  /\ Without(queue, c) \in Seq(Messages)
         /\ Len(Without(queue, c)) = Len(queue)
         /\ DOMAIN Without(queue, c) = DOMAIN queue
         /\ \A i \in DOMAIN queue :
              /\ Without(queue, c)[i].buffer = queue[i].buffer
              /\ Without(queue, c)[i].token = queue[i].token
              /\ Without(queue, c)[i].serial = queue[i].serial
<1>1. DOMAIN queue = 1 .. Len(queue) /\ Len(queue) \in Nat
      /\ \A i \in DOMAIN queue : queue[i] \in Messages
  BY LenProperties, ElementOfSeq
<1>2. ASSUME NEW i \in DOMAIN queue
      PROVE  /\ Without(queue, c)[i] \in Messages
             /\ Without(queue, c)[i].buffer = queue[i].buffer
             /\ Without(queue, c)[i].token = queue[i].token
             /\ Without(queue, c)[i].serial = queue[i].serial
  BY <1>1 DEF Without, Messages
<1>3. Without(queue, c) = [i \in 1 .. Len(queue) |-> Without(queue, c)[i]]
  BY <1>1 DEF Without
<1>4. Without(queue, c) \in [1 .. Len(queue) -> Messages]
  BY <1>1, <1>2, <1>3
<1>5. Without(queue, c) \in Seq(Messages) /\ Len(Without(queue, c)) = Len(queue)
  BY <1>1, <1>4, IsASeq, LenProperties
<1> QED BY <1>1, <1>2, <1>5, LenProperties

\* The queue once a client is done with one of its messages.
DoneWith(queue, i, c) == [queue EXCEPT ![i].clients = @ \ {c}]

\* A client that is done with a message changes only who holds it.
LEMMA DoneFact ==
  ASSUME NEW queue \in Seq(Messages), NEW c, NEW i \in DOMAIN queue
  PROVE  /\ DoneWith(queue, i, c) \in Seq(Messages)
         /\ Len(DoneWith(queue, i, c)) = Len(queue)
         /\ DOMAIN DoneWith(queue, i, c) = DOMAIN queue
         /\ \A j \in DOMAIN queue :
              /\ DoneWith(queue, i, c)[j].buffer = queue[j].buffer
              /\ DoneWith(queue, i, c)[j].token = queue[j].token
              /\ DoneWith(queue, i, c)[j].serial = queue[j].serial
<1>1. DOMAIN queue = 1 .. Len(queue) /\ Len(queue) \in Nat
      /\ \A j \in DOMAIN queue : queue[j] \in Messages
  BY LenProperties, ElementOfSeq
<1>2. ASSUME NEW j \in DOMAIN queue
      PROVE  /\ DoneWith(queue, i, c)[j] \in Messages
             /\ DoneWith(queue, i, c)[j].buffer = queue[j].buffer
             /\ DoneWith(queue, i, c)[j].token = queue[j].token
             /\ DoneWith(queue, i, c)[j].serial = queue[j].serial
  BY <1>1 DEF DoneWith, Messages
<1>3. DoneWith(queue, i, c) \in [1 .. Len(queue) -> Messages]
  BY <1>1, <1>2 DEF DoneWith
<1>4. DoneWith(queue, i, c) \in Seq(Messages) /\ Len(DoneWith(queue, i, c)) = Len(queue)
  BY <1>1, <1>3, IsASeq, LenProperties
<1> QED BY <1>1, <1>2, <1>4, LenProperties

\* A post to the secondaries keeps the types of the shared queue and its books.
LEMMA PostSharedType ==
  ASSUME TypeOK, NEW b \in Buffers, NEW exclude, NEW due \in SUBSET Clients,
         PostSharedFrame(b, exclude, due)
  PROVE  /\ sharedQueue' \in Seq(Messages)
         /\ sharedPending' \in [Buffers -> BOOLEAN]
         /\ sharedOwner' \in [Buffers -> Deliveries]
<1>1. CASE sharedQueue # <<>>
  BY <1>1 DEF PostSharedFrame, TypeOK, BooksType, LgmpType
<1>2. CASE sharedQueue = <<>>
  <2> DEFINE targets == SharedTargets(exclude, due)
  <2>1. targets \in SUBSET Clients
    BY DEF SharedTargets
  <2>2. Message(b, <<0, 0>>, targets) \in Messages
    BY <2>1, MessageType DEF TypeOK
  <2>3. /\ sharedQueue' = IF targets = {} THEN <<>> ELSE <<Message(b, <<0, 0>>, targets)>>
        /\ sharedPending' = [sharedPending EXCEPT ![b] = targets # {}]
        /\ sharedOwner' = [sharedOwner EXCEPT ![b] = NoDelivery]
    BY <1>2 DEF PostSharedFrame
  <2> HIDE DEF targets
  <2>4. sharedQueue' \in Seq(Messages)
    BY <2>2, <2>3
  <2>5. sharedPending' \in [Buffers -> BOOLEAN]
    BY <2>3 DEF TypeOK, BooksType
  <2>6. sharedOwner' \in [Buffers -> Deliveries]
    BY <2>3, DefaultsType DEF TypeOK, BooksType
  <2> QED BY <2>4, <2>5, <2>6
<1> QED BY <1>1, <1>2

\* A post to the owner through the shared queue.
LEMMA PostSharedOwnerType ==
  ASSUME TypeOK, NEW b \in Buffers, NEW s \in Schedules, s.client # NoClient,
         PostSharedOwnerFrame(b, s)
  PROVE  /\ sharedQueue' \in Seq(Messages)
         /\ sharedPending' \in [Buffers -> BOOLEAN]
         /\ sharedOwner' \in [Buffers -> Deliveries]
<1>1. Token(s) \in Nat \X Nat /\ s.client \in Clients
  BY DEF Schedules, Token
<1>2. Message(b, Token(s), {s.client}) \in Messages
  BY <1>1, MessageType DEF TypeOK
<1>3. [client |-> s.client, token |-> Token(s), buffer |-> b] \in Deliveries
  BY <1>1, TransportConstants DEF Deliveries, Buffers
<1>4. sharedQueue' \in Seq(Messages)
  BY <1>2 DEF PostSharedOwnerFrame, TypeOK, LgmpType
<1> QED BY <1>3, <1>4 DEF PostSharedOwnerFrame, TypeOK, BooksType

\* A post to the owner through one of its own queues.
LEMMA PostOwnerType ==
  ASSUME TypeOK, NEW q \in Queues, NEW b \in Buffers, NEW s \in Schedules,
         s.client # NoClient, PostOwnerFrame(q, b, s)
  PROVE  /\ ownerQueue' \in [Queues -> Seq(Messages)]
         /\ ownerDelivery' \in [Queues -> Deliveries]
         /\ ownerQueueMask' \in [Buffers -> SUBSET Queues]
<1>1. Token(s) \in Nat \X Nat /\ s.client \in Clients
  BY DEF Schedules, Token
<1>2. Message(b, Token(s), {s.client}) \in Messages
  BY <1>1, MessageType DEF TypeOK
<1>3. [client |-> s.client, token |-> Token(s), buffer |-> b] \in Deliveries
  BY <1>1, TransportConstants DEF Deliveries, Buffers
<1>4. ownerQueue' \in [Queues -> Seq(Messages)]
  BY <1>2 DEF PostOwnerFrame, TypeOK, LgmpType
<1> QED BY <1>3, <1>4 DEF PostOwnerFrame, TypeOK, BooksType

\* Whom a frame is pushed to are clients.
LEMMA DueClients == ASSUME TypeOK PROVE Due \subseteq SUBSET Clients
BY DEF Due, TypeOK, LgmpType

\* A queue number other than 0 is a free queue.
LEMMA QueueFound ==
  ASSUME NEW b \in Buffers, FindAvailableOwnerQueue(b) # 0
  PROVE  FindAvailableOwnerQueue(b) \in FreeOwnerQueues
<1>1. FreeOwnerQueues # {}
  BY DEF FindAvailableOwnerQueue
<1> QED BY <1>1, OwnerQueueFact

\* What RepublishFrameBuffer posts is a buffer of the pool.
LEMMA RepublishedBuffer ==
  ASSUME PoolType, FrameToRepublish # 0 PROVE FrameToRepublish \in Buffers
BY TransportConstants DEF PoolType, FrameToRepublish, Buffers

\* The types hold at first.
LEMMA TypeInit == Init => TypeOK
BY TransportConstants, DefaultsType
DEF Init, TypeOK, PoolType, BooksType, SchedulerType, LgmpType

\* PrepareFrameBuffer keeps the types.
LEMMA PrepareType ==
  ASSUME TypeOK, Bounded, NEW s \in Plans, NEW allow \in BOOLEAN,
         PrepareFrameBuffer(s, allow)
  PROVE  TypeOK'
<1> DEFINE b == FindAvailableFrameBuffer(AllowReady(s.client, allow))
<1>1. b \in Buffers
  BY AvailableFact DEF TypeOK, PrepareFrameBuffer
<1>2. FindNewestCompletedFrame(b) \in 0 .. BUFFER_LEN
  BY NewestCompletedFact DEF TypeOK
<1>3. s \in Schedules
  BY PlansType
<1>4. /\ phase' = [phase EXCEPT ![b] = "prepared"]
      /\ ready' = IF b = ready THEN FindNewestCompletedFrame(b) ELSE ready
      /\ completed' = [completed EXCEPT ![b] = FALSE]
      /\ ownerQueueMask' = [ownerQueueMask EXCEPT ![b] = {}]
      /\ sharedPending' = [sharedPending EXCEPT ![b] = FALSE]
      /\ sharedOwner' = [sharedOwner EXCEPT ![b] = NoDelivery]
      /\ frameSerial' = frameSerial + 1
      /\ frame' = [frame EXCEPT ![b] = frameSerial + 1]
      /\ schedule' = [schedule EXCEPT ![b] = s]
      /\ UNCHANGED <<deferred, publishSeq, readySeq, lastSeq, delivered,
                     ownerDelivery, scheduler, lgmp>>
  BY DEF PrepareFrameBuffer
<1> HIDE DEF b
<1>5. PoolType'
  BY <1>1, <1>2, <1>3, <1>4 DEF TypeOK, PoolType
<1>6. BooksType'
  BY <1>1, <1>4, DefaultsType DEF TypeOK, BooksType
<1>7. SchedulerType' /\ LgmpType'
  BY <1>4 DEF TypeOK, SchedulerType, LgmpType, scheduler, lgmp
<1> QED BY <1>5, <1>6, <1>7 DEF TypeOK

\* What publishing leaves alone, and that it records a publication.
LEMMA PublishPool ==
  ASSUME TypeOK, NEW b \in Buffers, NEW due \in Due, PublishFrameBuffer(b, due)
  PROVE  /\ Published(b, FALSE) \/ Published(b, TRUE)
         /\ UNCHANGED <<owner, epoch, requestTicket, ackTicket, acking, subs, ownerSubs>>
<1>1. CanPostSharedOwner(b, schedule[b]) \in BOOLEAN
  BY DEF CanPostSharedOwner
<1>2. Published(b, FALSE) \/ Published(b, TRUE)
  BY <1>1 DEF PublishFrameBuffer, PublishRetained, PublishFallback, PublishToOwner, PublishPushed
<1> QED BY <1>2 DEF PublishFrameBuffer, scheduler

\* PublishFrameBuffer keeps the types, whichever way it posts.
LEMMA PublishType ==
  ASSUME TypeOK, NEW b \in Buffers, NEW due \in Due, PublishFrameBuffer(b, due)
  PROVE  TypeOK'
<1> DEFINE s == schedule[b]
<1>1. due \in SUBSET Clients /\ s \in Schedules
  BY DueClients DEF TypeOK, PoolType
<1>2. PoolType'
  <2>1. ASSUME NEW toOwner \in BOOLEAN, Published(b, toOwner) PROVE PoolType'
    BY <2>1, TransportConstants DEF TypeOK, PoolType, Published, Buffers
  <2> QED BY <2>1, PublishPool
<1>3. SchedulerType' /\ subs' \in SUBSET Clients /\ ownerSubs' \in SUBSET Clients
  BY PublishPool DEF TypeOK, SchedulerType, LgmpType
<1>4. /\ sharedQueue' \in Seq(Messages)
      /\ sharedPending' \in [Buffers -> BOOLEAN]
      /\ sharedOwner' \in [Buffers -> Deliveries]
  BY <1>1, PostSharedType, PostSharedOwnerType
  DEF PublishFrameBuffer, PublishRetained, PublishFallback, PublishToOwner, PublishPushed
<1>5. /\ ownerQueue' \in [Queues -> Seq(Messages)]
      /\ ownerDelivery' \in [Queues -> Deliveries]
      /\ ownerQueueMask' \in [Buffers -> SUBSET Queues]
  <2>1. CASE PublishToOwner(b, due)
    <3>1. FindAvailableOwnerQueue(b) \in Queues
      BY <2>1, OwnerQueueFact DEF PublishToOwner, FreeOwnerQueues
    <3> QED BY <1>1, <2>1, <3>1, PostOwnerType DEF PublishToOwner
  <2>2. CASE NoOwnerPost
    BY <2>2 DEF NoOwnerPost, TypeOK, BooksType, LgmpType
  <2> QED BY <2>1, <2>2 DEF PublishFrameBuffer, PublishRetained, PublishFallback, PublishPushed
<1> QED BY <1>2, <1>3, <1>4, <1>5 DEF TypeOK, BooksType, LgmpType

\* CompleteFrameBuffer keeps the types.
LEMMA CompleteType ==
  ASSUME TypeOK, NEW b \in Buffers, NEW ok \in BOOLEAN, CompleteFrameBuffer(b, ok)
  PROVE  TypeOK'
<1>1. PoolType'
  BY TransportConstants, DefaultsType, SMTT(60)
  DEF TypeOK, PoolType, CompleteFrameBuffer, ScheduleDone, Buffers
<1>2. SchedulerType'
  BY DEF TypeOK, PoolType, SchedulerType, CompleteFrameBuffer, AckedBy,
         TicketAfterRetaining, Schedules
<1> QED BY <1>1, <1>2 DEF TypeOK, CompleteFrameBuffer, BooksType, LgmpType, books, lgmp

\* RepublishFrameBuffer keeps the types, whichever way it posts.
LEMMA RepublishType ==
  ASSUME TypeOK, RepublishFrameBuffer
  PROVE  TypeOK'
<1> DEFINE b == FrameToRepublish
           s == [client |-> owner, epoch |-> epoch, deadline |-> 0, ticket |-> requestTicket]
           q == FindAvailableOwnerQueue(b)
<1>1. b \in Buffers
  BY RepublishedBuffer DEF TypeOK, RepublishFrameBuffer
<1>2. s \in Schedules /\ s.client # NoClient
  BY DEF TypeOK, SchedulerType, Schedules, RepublishFrameBuffer
<1>3. q # 0 => q \in Queues
  BY <1>1, QueueFound DEF FreeOwnerQueues
<1>4. /\ \/ NoOwnerPost /\ UNCHANGED <<sharedQueue, sharedPending, sharedOwner>>
         \/ PostSharedOwnerFrame(b, s) /\ NoOwnerPost
         \/ /\ q # 0 /\ PostOwnerFrame(q, b, s)
            /\ UNCHANGED <<sharedQueue, sharedPending, sharedOwner>>
      /\ deferred' = IF deferred = b THEN 0 ELSE deferred
      /\ acking' = s
      /\ UNCHANGED <<frameSerial, frame, phase, completed, ready, publishSeq,
                     readySeq, lastSeq, schedule, delivered, owner, epoch,
                     requestTicket, ackTicket, subs, ownerSubs>>
  BY DEF RepublishFrameBuffer
<1> HIDE DEF b, s, q
<1>5. PoolType'
  BY <1>4, TransportConstants DEF TypeOK, PoolType
<1>6. SchedulerType'
  BY <1>2, <1>4 DEF TypeOK, SchedulerType
<1>7. BooksType' /\ LgmpType'
  <2>1. CASE NoOwnerPost /\ UNCHANGED <<sharedQueue, sharedPending, sharedOwner>>
    BY <1>4, <2>1 DEF TypeOK, BooksType, LgmpType, NoOwnerPost
  <2>2. CASE PostSharedOwnerFrame(b, s) /\ NoOwnerPost
    BY <1>1, <1>2, <1>4, <2>2, PostSharedOwnerType DEF TypeOK, BooksType, LgmpType, NoOwnerPost
  <2>3. CASE /\ q # 0 /\ PostOwnerFrame(q, b, s)
             /\ UNCHANGED <<sharedQueue, sharedPending, sharedOwner>>
    BY <1>1, <1>2, <1>3, <1>4, <2>3, PostOwnerType DEF TypeOK, BooksType, LgmpType
  <2> QED BY <1>4, <2>1, <2>2, <2>3
<1> QED BY <1>5, <1>6, <1>7 DEF TypeOK

\* ProcessFrameDeliveries keeps the types.
LEMMA DeliveriesType ==
  ASSUME TypeOK, ProcessFrameDeliveries PROVE TypeOK'
<1>1. BooksType'
  BY DefaultsType DEF TypeOK, BooksType, ProcessFrameDeliveries
<1> QED BY <1>1
    DEF TypeOK, PoolType, SchedulerType, LgmpType, ProcessFrameDeliveries, pool, scheduler, lgmp

\* What LGMP and its clients do keeps the types.
LEMMA LgmpStepType ==
  ASSUME TypeOK,
         \/ \E c \in Clients, all \in BOOLEAN : LgmpSubscribe(c, all)
         \/ Done
         \/ \E c \in Clients : LgmpDrop(c)
         \/ Retire
  PROVE  TypeOK'
<1>1. PoolType' /\ BooksType' /\ SchedulerType'
  BY DEF TypeOK, PoolType, BooksType, SchedulerType, pool, books, scheduler, Done, Retire,
         LgmpSubscribe, LgmpDoneShared, LgmpDoneOwner, LgmpDrop, LgmpRetireShared, LgmpRetireOwner
<1>2. LgmpType'
  <2>1. CASE \E c \in Clients, all \in BOOLEAN : LgmpSubscribe(c, all)
    BY <2>1 DEF TypeOK, LgmpType, LgmpSubscribe
  <2>2. ASSUME NEW c \in Clients, LgmpDoneShared(c) PROVE LgmpType'
    <3>1. PICK i \in DOMAIN sharedQueue :
            /\ sharedQueue' = DoneWith(sharedQueue, i, c)
            /\ UNCHANGED <<ownerQueue, subs, ownerSubs>>
      BY <2>2 DEF LgmpDoneShared, FirstOf, DoneWith
    <3>2. sharedQueue' \in Seq(Messages)
      BY <3>1, DoneFact DEF TypeOK, LgmpType
    <3> QED BY <3>1, <3>2 DEF TypeOK, LgmpType
  <2>3. ASSUME NEW c \in Clients, NEW q \in Queues, LgmpDoneOwner(c, q) PROVE LgmpType'
    <3>1. PICK i \in DOMAIN ownerQueue[q] :
            /\ ownerQueue' = [ownerQueue EXCEPT ![q] = DoneWith(ownerQueue[q], i, c)]
            /\ UNCHANGED <<sharedQueue, subs, ownerSubs>>
      BY <2>3 DEF LgmpDoneOwner, FirstOf, DoneWith
    <3>2. DoneWith(ownerQueue[q], i, c) \in Seq(Messages)
      BY DoneFact DEF TypeOK, LgmpType
    <3> QED BY <3>1, <3>2 DEF TypeOK, LgmpType
  <2>4. ASSUME NEW c \in Clients, LgmpDrop(c) PROVE LgmpType'
    BY <2>4, WithoutFact DEF TypeOK, LgmpType, LgmpDrop
  <2>5. CASE LgmpRetireShared
    <3>1. Tail(sharedQueue) \in Seq(Messages)
      BY <2>5, HeadTailProperties DEF TypeOK, LgmpType, LgmpRetireShared
    <3> QED BY <2>5, <3>1 DEF TypeOK, LgmpType, LgmpRetireShared
  <2>6. ASSUME NEW q \in Queues, LgmpRetireOwner(q) PROVE LgmpType'
    <3>1. Tail(ownerQueue[q]) \in Seq(Messages)
      BY <2>6, HeadTailProperties DEF TypeOK, LgmpType, LgmpRetireOwner
    <3> QED BY <2>6, <3>1 DEF TypeOK, LgmpType, LgmpRetireOwner
  <2> QED BY <2>1, <2>2, <2>3, <2>4, <2>5, <2>6 DEF Done, Retire
<1> QED BY <1>1, <1>2 DEF TypeOK

\* Every step keeps the types.
LEMMA TypeStep ==
  ASSUME TypeOK, Bounded, [Next]_vars PROVE TypeOK'
<1>1. CASE \E c \in ownerSubs \cup {NoClient} : ElectOwner(c)
  BY <1>1, SMTT(60) DEF ElectOwner, TypeOK, PoolType, BooksType, SchedulerType, LgmpType, pool, books, lgmp
<1>2. CASE RequestRepublish
  BY <1>2 DEF RequestRepublish, TypeOK, PoolType, BooksType, SchedulerType, LgmpType,
              pool, books, lgmp
<1>3. CASE \E s \in Plans, allow \in BOOLEAN : PrepareFrameBuffer(s, allow)
  BY <1>3, PrepareType
<1>4. CASE Publish
  BY <1>4, PublishType DEF Publish
<1>5. CASE \E b \in Buffers : AbortFrameBuffer(b) \/ FailFrameBuffer(b)
  <2>1. PICK b \in Buffers : Dropped(b)
    BY <1>5 DEF AbortFrameBuffer, FailFrameBuffer
  <2>2. PoolType'
    BY <2>1, TransportConstants, DefaultsType DEF Dropped, ScheduleDone, TypeOK, PoolType
  <2> QED BY <2>1, <2>2 DEF Dropped, TypeOK, BooksType, SchedulerType, LgmpType,
                            books, scheduler, lgmp
<1>6. CASE Complete
  BY <1>6, CompleteType DEF Complete
<1>7. CASE RepublishFrameBuffer
  BY <1>7, RepublishType
<1>8. CASE FrameRepublished
  BY <1>8, DefaultsType DEF FrameRepublished, AckedBy, Schedules, TypeOK, PoolType, BooksType,
       SchedulerType, LgmpType, pool, books, lgmp
<1>9. ASSUME NEW due \in Due, RetryPendingDelivery(due) PROVE TypeOK'
  <2>1. due \in SUBSET Clients /\ ready \in Buffers
    BY <1>9, DueClients, TransportConstants DEF RetryPendingDelivery, TypeOK, PoolType, Buffers
  <2>2. /\ sharedQueue' \in Seq(Messages)
        /\ sharedPending' \in [Buffers -> BOOLEAN]
        /\ sharedOwner' \in [Buffers -> Deliveries]
    BY <1>9, <2>1, PostSharedType DEF RetryPendingDelivery
  <2> QED BY <1>9, <2>2 DEF RetryPendingDelivery, TypeOK, PoolType, BooksType, SchedulerType,
            LgmpType, pool, scheduler
<1>10. CASE ProcessFrameDeliveries
  BY <1>10, DeliveriesType
<1>11. CASE Restart
  BY <1>11, DefaultsType, TransportConstants
  DEF Restart, TypeOK, PoolType, BooksType, SchedulerType, LgmpType
<1>12. CASE \/ \E c \in Clients, all \in BOOLEAN : LgmpSubscribe(c, all)
            \/ Done
            \/ \E c \in Clients : LgmpDrop(c)
            \/ Retire
  BY <1>12, LgmpStepType
<1>13. CASE UNCHANGED vars
  BY <1>13 DEF vars, pool, books, scheduler, lgmp, TypeOK, PoolType, BooksType, SchedulerType,
               LgmpType
<1> QED BY <1>1, <1>2, <1>3, <1>4, <1>5, <1>6, <1>7, <1>8, <1>9, <1>10, <1>11, <1>12, <1>13
    DEF Next

-----------------------------------------------------------------------------
(* The queues and the bookkeeping.  A buffer is taken only when no queued  *)
(* message names it, so a message's frame stays in its buffer until LGMP   *)
(* retires the message; that no message escapes the check rests on an      *)
(* owner queue holding at most one and on the books covering every one.    *)

SharedSound ==
  \A i \in DOMAIN sharedQueue :
    /\ frame[sharedQueue[i].buffer] = sharedQueue[i].serial
    /\ sharedPending[sharedQueue[i].buffer]
    /\ sharedQueue[i].token # <<0, 0>> =>
         sharedOwner[sharedQueue[i].buffer].token = sharedQueue[i].token

OwnerSound ==
  \A q \in Queues :
    /\ Len(ownerQueue[q]) <= 1
    /\ ownerQueue[q] # <<>> =>
         /\ frame[ownerQueue[q][1].buffer] = ownerQueue[q][1].serial
         /\ ownerDelivery[q].buffer = ownerQueue[q][1].buffer
         /\ q \in ownerQueueMask[ownerQueue[q][1].buffer]

QueueInv == SharedSound /\ OwnerSound

\* A queue of at most one message is empty or has just its first.
LEMMA ShortQueue ==
  ASSUME NEW queue \in Seq(Messages), Len(queue) <= 1
  PROVE  /\ queue = <<>> => DOMAIN queue = {}
         /\ queue # <<>> => DOMAIN queue = {1} /\ Head(queue) = queue[1]
                            /\ queue[1] \in Messages /\ Tail(queue) = <<>> /\ Len(queue) = 1
<1>1. Len(queue) \in Nat /\ DOMAIN queue = 1 .. Len(queue)
  BY LenProperties
<1>2. queue = <<>> <=> Len(queue) = 0
  BY EmptySeq
<1>3. ASSUME queue # <<>> PROVE Tail(queue) = <<>>
  <2>1. Tail(queue) \in Seq(Messages) /\ Len(Tail(queue)) = Len(queue) - 1
    BY <1>3, HeadTailProperties
  <2> QED BY <1>1, <1>2, <1>3, <2>1, EmptySeq
<1>4. ASSUME queue # <<>> PROVE Len(queue) = 1 /\ DOMAIN queue = {1}
  BY <1>1, <1>2, <1>4
<1> QED BY <1>1, <1>2, <1>3, <1>4, ElementOfSeq

\* The messages of the shared queue name buffers.
LEMMA SharedElements ==
  ASSUME TypeOK, NEW i \in DOMAIN sharedQueue
  PROVE  sharedQueue[i] \in Messages /\ sharedQueue[i].buffer \in Buffers
<1>1. sharedQueue[i] \in Messages
  BY ElementOfSeq, LenProperties DEF TypeOK, LgmpType
<1> QED BY <1>1 DEF Messages

\* So does the first message of an owner queue that is not empty.
LEMMA OwnerElements ==
  ASSUME TypeOK, OwnerSound, NEW q \in Queues, ownerQueue[q] # <<>>
  PROVE  /\ 1 \in DOMAIN ownerQueue[q] /\ ownerQueue[q][1] \in Messages
         /\ ownerQueue[q][1].buffer \in Buffers
<1>1. ownerQueue[q] \in Seq(Messages) /\ Len(ownerQueue[q]) <= 1
  BY DEF TypeOK, LgmpType, OwnerSound
<1>2. 1 \in DOMAIN ownerQueue[q] /\ ownerQueue[q][1] \in Messages
  BY <1>1, ShortQueue
<1> QED BY <1>2 DEF Messages

\* The invariant says more than the two properties.
LEMMA QueueInvImplies ==
  ASSUME TypeOK, QueueInv PROVE PostedFrameStays /\ MessagesAccounted
<1>1. ASSUME NEW q \in Queues, NEW i \in DOMAIN ownerQueue[q]
      PROVE  frame[ownerQueue[q][i].buffer] = ownerQueue[q][i].serial
  <2>1. ownerQueue[q] \in Seq(Messages) /\ Len(ownerQueue[q]) <= 1
    BY DEF TypeOK, LgmpType, QueueInv, OwnerSound
  <2>2. i = 1 /\ ownerQueue[q] # <<>>
    BY <2>1, ShortQueue
  <2> QED BY <2>2 DEF QueueInv, OwnerSound
<1>2. PostedFrameStays
  <2>1. DOMAIN ownerQueue = Queues
    BY DEF TypeOK, LgmpType
  <2> QED BY <1>1, <2>1 DEF PostedFrameStays, AllMessages, QueueInv, SharedSound
<1>3. MessagesAccounted
  BY ShortQueue DEF MessagesAccounted, QueueInv, SharedSound, OwnerSound, TypeOK, LgmpType
<1> QED BY <1>2, <1>3

\* At first every queue is empty.
LEMMA QueueInit == Init => QueueInv
BY DEF Init, QueueInv, SharedSound, OwnerSound

\* PrepareFrameBuffer writes a frame into a buffer that no message names.
LEMMA PrepareQueues ==
  ASSUME TypeOK, Bounded, QueueInv, NEW s \in Plans, NEW allow \in BOOLEAN,
         PrepareFrameBuffer(s, allow)
  PROVE  QueueInv'
<1> DEFINE b == FindAvailableFrameBuffer(AllowReady(s.client, allow))
<1>1. b \in Buffers /\ ~FrameBufferReferenced(b)
  BY AvailableFact DEF TypeOK, PrepareFrameBuffer, Reusable
<1>2. /\ frame' = [frame EXCEPT ![b] = frameSerial + 1]
      /\ ownerQueueMask' = [ownerQueueMask EXCEPT ![b] = {}]
      /\ sharedPending' = [sharedPending EXCEPT ![b] = FALSE]
      /\ sharedOwner' = [sharedOwner EXCEPT ![b] = NoDelivery]
      /\ UNCHANGED <<ownerDelivery, sharedQueue, ownerQueue>>
  BY DEF PrepareFrameBuffer, lgmp
<1> HIDE DEF b
<1>3. \A i \in DOMAIN sharedQueue : sharedQueue[i].buffer # b /\ sharedQueue[i].buffer \in Buffers
  BY <1>1, SharedElements DEF FrameBufferReferenced, PayloadPending
<1>4. SharedSound'
  BY <1>1, <1>2, <1>3 DEF QueueInv, SharedSound, TypeOK, PoolType, BooksType
<1>5. ASSUME NEW q \in Queues, ownerQueue[q] # <<>>
      PROVE  ownerQueue[q][1].buffer # b /\ ownerQueue[q][1].buffer \in Buffers
  BY <1>1, <1>5, OwnerElements DEF FrameBufferReferenced, PayloadPending, QueueInv
<1>6. OwnerSound'
  BY <1>1, <1>2, <1>5 DEF QueueInv, OwnerSound, TypeOK, PoolType, BooksType
<1> QED BY <1>4, <1>6 DEF QueueInv

\* A post to the secondaries goes into an empty queue.
LEMMA PostSharedSound ==
  ASSUME TypeOK, SharedSound, NEW b \in Buffers, NEW exclude, NEW due,
         PostSharedFrame(b, exclude, due), frame' = frame
  PROVE  SharedSound'
<1>1. CASE sharedQueue # <<>>
  BY <1>1 DEF PostSharedFrame, SharedSound
<1>2. CASE sharedQueue = <<>>
  <2> DEFINE targets == SharedTargets(exclude, due)
             m == Message(b, <<0, 0>>, targets)
  <2>1. /\ sharedQueue' = IF targets = {} THEN <<>> ELSE <<m>>
        /\ sharedPending' = [sharedPending EXCEPT ![b] = targets # {}]
    BY <1>2 DEF PostSharedFrame
  <2>2. m.buffer = b /\ m.serial = frame[b] /\ m.token = <<0, 0>>
    BY DEF Message
  <2> HIDE DEF targets, m
  <2>3. CASE targets = {}
    BY <2>1, <2>3 DEF SharedSound
  <2>4. CASE targets # {}
    <3>1. sharedQueue' = <<m>> /\ sharedPending'[b]
      BY <2>1, <2>4 DEF TypeOK, BooksType
    <3>2. \A i \in DOMAIN sharedQueue' : sharedQueue'[i] = m
      BY <3>1
    <3> QED BY <2>2, <3>1, <3>2 DEF SharedSound
  <2> QED BY <2>3, <2>4
<1> QED BY <1>1, <1>2

\* The stand-in for an owner queue is posted with its token on record; an
\* earlier message for the same buffer went to secondaries, without a token.
LEMMA PostSharedOwnerSound ==
  ASSUME TypeOK, SharedSound, NEW b \in Buffers, NEW s \in Schedules, CanPostSharedOwner(b, s),
         PostSharedOwnerFrame(b, s), frame' = frame
  PROVE  SharedSound'
<1> DEFINE m == Message(b, Token(s), {s.client})
           d == [client |-> s.client, token |-> Token(s), buffer |-> b]
<1>1. /\ sharedQueue' = Append(sharedQueue, m)
      /\ sharedPending' = [sharedPending EXCEPT ![b] = TRUE]
      /\ sharedOwner' = [sharedOwner EXCEPT ![b] = d]
  BY DEF PostSharedOwnerFrame
<1>2. m.buffer = b /\ m.serial = frame[b] /\ m.token = Token(s) /\ d.token = Token(s)
  BY DEF Message
<1>3. sharedQueue \in Seq(Messages) /\ m \in Messages
  BY MessageType DEF TypeOK, LgmpType, Schedules, Token, CanPostSharedOwner
<1> HIDE DEF m, d
<1>4. \A i \in DOMAIN sharedQueue : sharedQueue[i] \in Messages
  BY <1>3, ElementOfSeq, LenProperties
<1>5. \A i \in DOMAIN sharedQueue' :
        sharedQueue'[i] = m \/ (i \in DOMAIN sharedQueue /\ sharedQueue'[i] = sharedQueue[i])
  BY <1>1, <1>3, AppendProperties, LenProperties
<1>6. sharedOwner[b].token = <<0, 0>>
  BY DEF CanPostSharedOwner, NoDelivery
<1>7. ASSUME NEW i \in DOMAIN sharedQueue, sharedQueue'[i] = sharedQueue[i]
      PROVE  /\ sharedPending'[sharedQueue[i].buffer]
             /\ sharedQueue[i].token # <<0, 0>> =>
                  sharedOwner'[sharedQueue[i].buffer].token = sharedQueue[i].token
  BY <1>1, <1>4, <1>6, <1>7 DEF SharedSound, TypeOK, BooksType, Messages
<1>8. sharedPending'[b] /\ sharedOwner'[b] = d
  BY <1>1 DEF TypeOK, BooksType
<1> QED BY <1>2, <1>5, <1>7, <1>8 DEF SharedSound

\* A free owner queue is empty, so it holds one message after the post.
LEMMA PostOwnerSound ==
  ASSUME TypeOK, OwnerSound, NEW b \in Buffers, NEW s \in Schedules, s.client # NoClient,
         NEW q \in FreeOwnerQueues, PostOwnerFrame(q, b, s), frame' = frame
  PROVE  OwnerSound'
<1> DEFINE m == Message(b, Token(s), {s.client})
           d == [client |-> s.client, token |-> Token(s), buffer |-> b]
<1>1. /\ ownerQueue' = [ownerQueue EXCEPT ![q] = Append(@, m)]
      /\ ownerDelivery' = [ownerDelivery EXCEPT ![q] = d]
      /\ ownerQueueMask' = [ownerQueueMask EXCEPT ![b] = @ \cup {q}]
  BY DEF PostOwnerFrame
<1>2. m.buffer = b /\ m.serial = frame[b] /\ d.buffer = b
  BY DEF Message
<1>3. q \in Queues /\ ownerQueue[q] = <<>>
  BY DEF FreeOwnerQueues
<1> HIDE DEF m, d
<1>4. ownerQueue'[q] = <<m>>
  BY <1>1, <1>3 DEF TypeOK, LgmpType
<1>5. Len(ownerQueue'[q]) <= 1 /\ ownerQueue'[q][1] = m
      /\ ownerDelivery'[q] = d /\ q \in ownerQueueMask'[b]
  BY <1>1, <1>3, <1>4 DEF TypeOK, BooksType
<1>6. ASSUME NEW p \in Queues, p # q
      PROVE  /\ Len(ownerQueue'[p]) <= 1
             /\ ownerQueue'[p] # <<>> =>
                  /\ frame[ownerQueue'[p][1].buffer] = ownerQueue'[p][1].serial
                  /\ ownerDelivery'[p].buffer = ownerQueue'[p][1].buffer
                  /\ p \in ownerQueueMask'[ownerQueue'[p][1].buffer]
  <2>1. ownerQueue'[p] = ownerQueue[p] /\ ownerDelivery'[p] = ownerDelivery[p]
    BY <1>1, <1>6 DEF TypeOK, BooksType, LgmpType
  <2>2. \A a \in Buffers : ownerQueueMask[a] \subseteq ownerQueueMask'[a]
    BY <1>1 DEF TypeOK, BooksType
  <2>3. ownerQueue[p] # <<>> => ownerQueue[p][1].buffer \in Buffers
    BY OwnerElements
  <2> QED BY <2>1, <2>2, <2>3 DEF OwnerSound
<1> QED BY <1>2, <1>5, <1>6 DEF OwnerSound

\* PublishFrameBuffer keeps the queues and the books together.
LEMMA PublishQueues ==
  ASSUME TypeOK, QueueInv, NEW b \in Buffers, NEW due \in Due, PublishFrameBuffer(b, due)
  PROVE  QueueInv'
<1>1. schedule[b] \in Schedules /\ frame' = frame
  BY PublishPool DEF TypeOK, PoolType, Published
<1>2. SharedSound'
  BY <1>1, PostSharedSound, PostSharedOwnerSound
  DEF QueueInv, PublishFrameBuffer, PublishRetained, PublishFallback, PublishToOwner, PublishPushed
<1>3. OwnerSound'
  <2>1. CASE PublishToOwner(b, due)
    <3>1. FindAvailableOwnerQueue(b) \in FreeOwnerQueues
      BY <2>1, OwnerQueueFact DEF PublishToOwner
    <3> QED BY <1>1, <2>1, <3>1, PostOwnerSound DEF PublishToOwner, QueueInv
  <2>2. CASE NoOwnerPost
    BY <1>1, <2>2 DEF NoOwnerPost, QueueInv, OwnerSound
  <2> QED BY <2>1, <2>2 DEF PublishFrameBuffer, PublishRetained, PublishFallback, PublishPushed
<1> QED BY <1>2, <1>3 DEF QueueInv

\* RepublishFrameBuffer keeps them together: it posts what is in the buffer.
LEMMA RepublishQueues ==
  ASSUME TypeOK, QueueInv, RepublishFrameBuffer
  PROVE  QueueInv'
<1> DEFINE b == FrameToRepublish
           s == [client |-> owner, epoch |-> epoch, deadline |-> 0, ticket |-> requestTicket]
           q == FindAvailableOwnerQueue(b)
<1>1. b \in Buffers
  BY RepublishedBuffer DEF TypeOK, RepublishFrameBuffer
<1>2. s \in Schedules /\ s.client # NoClient
  BY DEF TypeOK, SchedulerType, Schedules, RepublishFrameBuffer
<1>3. q # 0 => q \in FreeOwnerQueues
  BY <1>1, QueueFound
<1>4. /\ \/ NoOwnerPost /\ UNCHANGED <<sharedQueue, sharedPending, sharedOwner>>
         \/ CanPostSharedOwner(b, s) /\ PostSharedOwnerFrame(b, s) /\ NoOwnerPost
         \/ /\ q # 0 /\ PostOwnerFrame(q, b, s)
            /\ UNCHANGED <<sharedQueue, sharedPending, sharedOwner>>
      /\ frame' = frame
  BY DEF RepublishFrameBuffer
<1> HIDE DEF b, s, q
<1>5. SharedSound'
  <2>1. CASE UNCHANGED <<sharedQueue, sharedPending, sharedOwner>>
    BY <1>4, <2>1 DEF QueueInv, SharedSound
  <2> QED BY <1>1, <1>2, <1>4, <2>1, PostSharedOwnerSound DEF QueueInv
<1>6. OwnerSound'
  <2>1. CASE NoOwnerPost
    BY <1>4, <2>1 DEF QueueInv, OwnerSound, NoOwnerPost
  <2> QED BY <1>1, <1>2, <1>3, <1>4, <2>1, PostOwnerSound DEF QueueInv
<1> QED BY <1>5, <1>6 DEF QueueInv

\* ProcessFrameDeliveries forgets only what no queue holds any more.
LEMMA DeliveriesQueues ==
  ASSUME TypeOK, QueueInv, ProcessFrameDeliveries
  PROVE  QueueInv'
<1> DEFINE gone == {q \in Queues :
                     /\ ownerDelivery[q] # NoDelivery
                     /\ ~PayloadPending(ownerQueue[q], ownerDelivery[q].buffer)}
<1>1. /\ sharedOwner' = [b \in Buffers |->
           IF MessagePending(sharedQueue, b, sharedOwner[b].token)
             THEN sharedOwner[b] ELSE NoDelivery]
      /\ sharedPending' = [b \in Buffers |->
           sharedPending[b] /\ PayloadPending(sharedQueue, b)]
      /\ ownerQueueMask' = [b \in Buffers |->
           {q \in ownerQueueMask[b] : ~(q \in gone /\ ownerDelivery[q].buffer = b)}]
      /\ ownerDelivery' = [q \in Queues |->
           IF q \in gone THEN NoDelivery ELSE ownerDelivery[q]]
      /\ UNCHANGED <<frame, sharedQueue, ownerQueue>>
  BY DEF ProcessFrameDeliveries, pool, lgmp
<1>2. SharedSound'
  <2>1. ASSUME NEW i \in DOMAIN sharedQueue
        PROVE  /\ sharedPending'[sharedQueue[i].buffer]
               /\ sharedQueue[i].token # <<0, 0>> =>
                    sharedOwner'[sharedQueue[i].buffer].token = sharedQueue[i].token
    <3>1. sharedQueue[i].buffer \in Buffers /\ PayloadPending(sharedQueue, sharedQueue[i].buffer)
      BY SharedElements DEF PayloadPending
    <3>2. MessagePending(sharedQueue, sharedQueue[i].buffer, sharedQueue[i].token)
      BY DEF MessagePending
    <3> QED BY <1>1, <3>1, <3>2 DEF QueueInv, SharedSound
  <2> QED BY <1>1, <2>1 DEF QueueInv, SharedSound
<1>3. ASSUME NEW q \in Queues, ownerQueue[q] # <<>>
      PROVE  q \notin gone /\ ownerQueue[q][1].buffer \in Buffers
  BY <1>3, OwnerElements DEF PayloadPending, QueueInv, OwnerSound
<1> HIDE DEF gone
<1>4. OwnerSound'
  BY <1>1, <1>3 DEF QueueInv, OwnerSound
<1> QED BY <1>2, <1>4 DEF QueueInv

\* A step of LGMP that only takes clients or the oldest message from the
\* shared queue, or from one of the owner queues.
LEMMA SharedThinned ==
  ASSUME TypeOK, SharedSound, NEW c,
         \/ sharedQueue' = Without(sharedQueue, c)
         \/ \E i \in DOMAIN sharedQueue : sharedQueue' = DoneWith(sharedQueue, i, c)
         \/ sharedQueue # <<>> /\ sharedQueue' = Tail(sharedQueue),
         UNCHANGED <<frame, sharedPending, sharedOwner>>
  PROVE  SharedSound'
<1>1. sharedQueue \in Seq(Messages)
  BY DEF TypeOK, LgmpType
<1>2. ASSUME /\ DOMAIN sharedQueue' = DOMAIN sharedQueue
             /\ \A i \in DOMAIN sharedQueue : /\ sharedQueue'[i].buffer = sharedQueue[i].buffer
                                              /\ sharedQueue'[i].token = sharedQueue[i].token
                                              /\ sharedQueue'[i].serial = sharedQueue[i].serial
      PROVE  SharedSound'
  BY <1>2 DEF SharedSound
<1>3. CASE sharedQueue' = Without(sharedQueue, c)
  BY <1>1, <1>2, <1>3, WithoutFact
<1>4. CASE \E i \in DOMAIN sharedQueue : sharedQueue' = DoneWith(sharedQueue, i, c)
  BY <1>1, <1>2, <1>4, DoneFact
<1>5. CASE sharedQueue # <<>> /\ sharedQueue' = Tail(sharedQueue)
  <2>1. \A i \in DOMAIN sharedQueue' : i + 1 \in DOMAIN sharedQueue /\ sharedQueue'[i] = sharedQueue[i + 1]
    BY <1>1, <1>5, HeadTailProperties, LenProperties, EmptySeq
  <2> QED BY <1>5, <2>1 DEF SharedSound
<1> QED BY <1>3, <1>4, <1>5

\* The same for the owner queues.
LEMMA OwnerThinned ==
  ASSUME TypeOK, OwnerSound, UNCHANGED <<frame, ownerDelivery, ownerQueueMask>>,
         \A q \in Queues :
           \/ ownerQueue'[q] = <<>>
           \/ /\ ownerQueue'[q] \in Seq(Messages) /\ Len(ownerQueue'[q]) = Len(ownerQueue[q])
              /\ \A i \in DOMAIN ownerQueue[q] :
                   /\ ownerQueue'[q][i].buffer = ownerQueue[q][i].buffer
                   /\ ownerQueue'[q][i].serial = ownerQueue[q][i].serial
  PROVE  OwnerSound'
<1> SUFFICES ASSUME NEW q \in Queues
             PROVE  /\ Len(ownerQueue'[q]) <= 1
                    /\ ownerQueue'[q] # <<>> =>
                         /\ frame[ownerQueue'[q][1].buffer] = ownerQueue'[q][1].serial
                         /\ ownerDelivery[q].buffer = ownerQueue'[q][1].buffer
                         /\ q \in ownerQueueMask[ownerQueue'[q][1].buffer]
  BY DEF OwnerSound
<1>1. CASE ownerQueue'[q] = <<>>
  BY <1>1
<1>2. CASE ownerQueue'[q] # <<>>
  <2>1. ownerQueue[q] # <<>>
    BY <1>2, EmptySeq
  <2>2. 1 \in DOMAIN ownerQueue[q]
    BY <2>1, OwnerElements
  <2> QED BY <1>2, <2>1, <2>2 DEF OwnerSound
<1> QED BY <1>1, <1>2

\* What LGMP and its clients do only takes from the queues.
LEMMA LgmpQueues ==
  ASSUME TypeOK, QueueInv,
         \/ \E c \in Clients, all \in BOOLEAN : LgmpSubscribe(c, all)
         \/ Done
         \/ \E c \in Clients : LgmpDrop(c)
         \/ Retire
  PROVE  QueueInv'
<1>1. UNCHANGED <<frame, ownerDelivery, ownerQueueMask, sharedPending, sharedOwner>>
  BY DEF pool, books, Done, Retire, LgmpSubscribe, LgmpDoneShared, LgmpDoneOwner, LgmpDrop,
         LgmpRetireShared, LgmpRetireOwner
<1>2. sharedQueue \in Seq(Messages) /\ ownerQueue \in [Queues -> Seq(Messages)]
  BY DEF TypeOK, LgmpType
<1>3. ASSUME UNCHANGED sharedQueue PROVE SharedSound'
  BY <1>1, <1>3 DEF QueueInv, SharedSound
<1>4. ASSUME UNCHANGED ownerQueue PROVE OwnerSound'
  BY <1>1, <1>4 DEF QueueInv, OwnerSound
<1>5. CASE \E c \in Clients, all \in BOOLEAN : LgmpSubscribe(c, all)
  BY <1>3, <1>4, <1>5 DEF LgmpSubscribe, QueueInv
<1>6. ASSUME NEW c \in Clients, LgmpDoneShared(c) PROVE QueueInv'
  <2>1. PICK i \in DOMAIN sharedQueue : sharedQueue' = DoneWith(sharedQueue, i, c)
    BY <1>6 DEF LgmpDoneShared, FirstOf, DoneWith
  <2> QED BY <1>1, <1>4, <1>6, <2>1, SharedThinned DEF LgmpDoneShared, QueueInv
<1>7. ASSUME NEW c \in Clients, NEW q \in Queues, LgmpDoneOwner(c, q) PROVE QueueInv'
  <2>1. PICK i \in DOMAIN ownerQueue[q] :
          /\ ownerQueue' = [ownerQueue EXCEPT ![q] = DoneWith(ownerQueue[q], i, c)]
          /\ UNCHANGED sharedQueue
    BY <1>7 DEF LgmpDoneOwner, FirstOf, DoneWith
  <2>2. OwnerSound'
    BY <1>1, <1>2, <2>1, DoneFact, OwnerThinned DEF QueueInv
  <2> QED BY <1>3, <2>1, <2>2 DEF QueueInv
<1>8. ASSUME NEW c \in Clients, LgmpDrop(c) PROVE QueueInv'
  <2>1. SharedSound'
    BY <1>1, <1>8, SharedThinned DEF LgmpDrop, QueueInv
  <2>2. OwnerSound'
    BY <1>1, <1>2, <1>8, WithoutFact, OwnerThinned DEF LgmpDrop, QueueInv
  <2> QED BY <2>1, <2>2 DEF QueueInv
<1>9. CASE LgmpRetireShared
  BY <1>1, <1>4, <1>9, SharedThinned DEF LgmpRetireShared, QueueInv
<1>10. ASSUME NEW q \in Queues, LgmpRetireOwner(q) PROVE QueueInv'
  <2>1. Tail(ownerQueue[q]) = <<>>
    BY <1>2, <1>10, ShortQueue DEF LgmpRetireOwner, QueueInv, OwnerSound
  <2>2. OwnerSound'
    BY <1>1, <1>2, <1>10, <2>1, OwnerThinned DEF LgmpRetireOwner, QueueInv
  <2> QED BY <1>3, <1>10, <2>2 DEF LgmpRetireOwner, QueueInv
<1> QED BY <1>5, <1>6, <1>7, <1>8, <1>9, <1>10 DEF Done, Retire

\* Every step keeps the queues and the books together.
LEMMA QueueStep ==
  ASSUME TypeOK, Bounded, QueueInv, [Next]_vars PROVE QueueInv'
<1>1. ASSUME UNCHANGED <<frame, ownerDelivery, ownerQueueMask, sharedPending, sharedOwner,
                         sharedQueue, ownerQueue>>
      PROVE  QueueInv'
  BY <1>1 DEF QueueInv, SharedSound, OwnerSound
<1>2. CASE \/ \E c \in ownerSubs \cup {NoClient} : ElectOwner(c)
           \/ RequestRepublish
           \/ \E b \in Buffers : AbortFrameBuffer(b) \/ FailFrameBuffer(b)
           \/ Complete
           \/ FrameRepublished
           \/ UNCHANGED vars
  BY <1>1, <1>2 DEF ElectOwner, RequestRepublish, AbortFrameBuffer, FailFrameBuffer, Dropped,
       Complete, CompleteFrameBuffer, FrameRepublished, vars, pool, books, lgmp
<1>3. CASE \E s \in Plans, allow \in BOOLEAN : PrepareFrameBuffer(s, allow)
  BY <1>3, PrepareQueues
<1>4. CASE Publish
  BY <1>4, PublishQueues DEF Publish
<1>5. CASE RepublishFrameBuffer
  BY <1>5, RepublishQueues
<1>6. ASSUME NEW due \in Due, RetryPendingDelivery(due) PROVE QueueInv'
  <2>1. ready \in Buffers /\ frame' = frame
    BY <1>6, TransportConstants DEF RetryPendingDelivery, TypeOK, PoolType, Buffers, pool
  <2>2. SharedSound'
    BY <1>6, <2>1, PostSharedSound DEF RetryPendingDelivery, QueueInv
  <2> QED BY <1>6, <2>1, <2>2 DEF RetryPendingDelivery, QueueInv, OwnerSound
<1>7. CASE ProcessFrameDeliveries
  BY <1>7, DeliveriesQueues
<1>8. CASE Restart
  BY <1>8 DEF Restart, QueueInv, SharedSound, OwnerSound
<1>9. CASE \/ \E c \in Clients, all \in BOOLEAN : LgmpSubscribe(c, all)
           \/ Done
           \/ \E c \in Clients : LgmpDrop(c)
           \/ Retire
  BY <1>9, LgmpQueues
<1> QED BY <1>2, <1>3, <1>4, <1>5, <1>6, <1>7, <1>8, <1>9 DEF Next

-----------------------------------------------------------------------------
(* The pool.  Publications are numbered, no two live buffers share a       *)
(* number, and readySeq bounds the complete ones: so completions that come *)
(* out of order, failures and a retained buffer taken back all leave the   *)
(* retained frame the newest complete one.                                 *)

Distinct ==
  /\ readySeq <= publishSeq
  /\ \A b \in Buffers :
       /\ lastSeq[b] <= publishSeq
       /\ completed[b] => phase[b] = "idle" /\ lastSeq[b] > 0 /\ lastSeq[b] <= readySeq
       /\ phase[b] = "published" => lastSeq[b] > 0 /\ lastSeq[b] # readySeq
       /\ \A a \in Buffers : a # b /\ lastSeq[a] = lastSeq[b] => lastSeq[a] = 0

ReadyTop ==
  IF ready = 0 THEN \A b \in Buffers : ~completed[b]
  ELSE completed[ready] /\ \A b \in Buffers : completed[b] => lastSeq[b] <= lastSeq[ready]

PoolInv == Distinct /\ ReadyTop

\* The bound the search for the newest buffer needs.
LEMMA PoolBounded == ASSUME Distinct PROVE Bounded
BY DEF Distinct, Bounded

\* The invariant determines the retained frame.
LEMMA PoolInvImplies ==
  ASSUME PoolType, PoolInv PROVE ReadyIsNewest
<1> DEFINE S == {b \in Buffers : completed[b] /\ ~InFlight(b)}
<1>0. DOMAIN completed = Buffers
  BY DEF PoolType
<1>1. CASE ready = 0
  <2>1. S = {}
    BY <1>1 DEF PoolInv, ReadyTop
  <2> QED BY <1>0, <1>1, <2>1 DEF ReadyIsNewest, NewestPublished
<1>2. CASE ready # 0
  <2>1. ready \in Buffers
    BY <1>2, TransportConstants DEF PoolType, Buffers
  <2>2. ready \in S
    BY <1>2, <2>1 DEF PoolInv, ReadyTop, Distinct, InFlight
  <2>3. NewerIn(ready, S)
    <3> SUFFICES ASSUME NEW a \in S, a # ready PROVE lastSeq[a] < lastSeq[ready]
      BY <2>1, TransportConstants DEF NewerIn, Buffers
    <3>1. lastSeq[a] \in Nat /\ lastSeq[ready] \in Nat /\ lastSeq[a] <= lastSeq[ready] /\ lastSeq[a] > 0
      BY <1>2, <2>1 DEF PoolType, PoolInv, ReadyTop, Distinct
    <3>2. lastSeq[a] # lastSeq[ready]
      BY <2>1, <3>1 DEF PoolInv, Distinct
    <3> QED BY <3>1, <3>2
  <2>4. ready = NewestPublished(S)
    <3>1. S \subseteq Buffers /\ S # {}
      BY <2>2
    <3> HIDE DEF S
    <3> QED BY <2>2, <2>3, <3>1, NewestFact, PoolBounded DEF PoolInv
  <2> QED BY <1>0, <2>4 DEF ReadyIsNewest
<1> QED BY <1>1, <1>2

\* At first nothing is published or complete.
LEMMA PoolInit == Init => PoolInv
BY DEF Init, PoolInv, Distinct, ReadyTop

\* PrepareFrameBuffer: when it takes the retained frame's buffer as a last
\* resort, the next newest complete frame is retained.
LEMMA PreparePool ==
  ASSUME TypeOK, PoolInv, NEW s \in Plans, NEW allow \in BOOLEAN,
         PrepareFrameBuffer(s, allow)
  PROVE  PoolInv'
<1> DEFINE b == FindAvailableFrameBuffer(AllowReady(s.client, allow))
           S == {a \in Buffers \ {b} : completed[a] /\ ~InFlight(a)}
<1>1. b \in Buffers /\ phase[b] = "idle"
  BY AvailableFact, PoolBounded DEF TypeOK, PrepareFrameBuffer, Reusable, InFlight, PoolInv
<1>2. /\ phase' = [phase EXCEPT ![b] = "prepared"]
      /\ ready' = IF b = ready THEN FindNewestCompletedFrame(b) ELSE ready
      /\ completed' = [completed EXCEPT ![b] = FALSE]
      /\ UNCHANGED <<publishSeq, readySeq, lastSeq>>
  BY DEF PrepareFrameBuffer
<1>3. FindNewestCompletedFrame(b) = NewestPublished(S)
  BY DEF FindNewestCompletedFrame
<1> HIDE DEF b
<1>4. Distinct'
  BY <1>1, <1>2 DEF PoolInv, Distinct, TypeOK, PoolType
<1>5. CASE b # ready
  BY <1>1, <1>2, <1>4, <1>5, TransportConstants DEF PoolInv, ReadyTop, TypeOK, PoolType, Buffers
<1>6. CASE b = ready /\ S = {}
  <2>1. ready' = 0
    BY <1>2, <1>3, <1>6 DEF NewestPublished
  <2>2. \A a \in Buffers : ~completed'[a]
    BY <1>1, <1>2, <1>6 DEF PoolInv, Distinct, InFlight, TypeOK, PoolType
  <2> QED BY <1>4, <2>1, <2>2 DEF PoolInv, ReadyTop
<1>7. CASE b = ready /\ S # {}
  <2>1. ready' \in S /\ NewerIn(ready', S)
    <3>1. S \subseteq Buffers /\ ready' = NewestPublished(S)
      BY <1>2, <1>3, <1>7
    <3> HIDE DEF S
    <3> QED BY <1>7, <3>1, NewestFact, PoolBounded DEF TypeOK, PoolInv
  <2>2. ready' # 0 /\ completed'[ready']
    BY <1>1, <1>2, <2>1, TransportConstants DEF Buffers, TypeOK, PoolType
  <2>3. ASSUME NEW a \in Buffers, completed'[a] PROVE lastSeq[a] <= lastSeq[ready']
    <3>1. a \in S
      BY <1>1, <1>2, <2>3 DEF PoolInv, Distinct, InFlight, TypeOK, PoolType
    <3> QED BY <2>1, <3>1 DEF NewerIn, TypeOK, PoolType
  <2> QED BY <1>2, <1>4, <2>2, <2>3 DEF PoolInv, ReadyTop
<1> QED BY <1>5, <1>6, <1>7

\* A publication takes a number above all others.
LEMMA PublishPoolInv ==
  ASSUME TypeOK, PoolInv, NEW b \in Buffers, NEW toOwner, phase[b] = "prepared",
         Published(b, toOwner)
  PROVE  PoolInv'
<1>1. /\ phase' = [phase EXCEPT ![b] = "published"]
      /\ publishSeq' = publishSeq + 1
      /\ lastSeq' = [lastSeq EXCEPT ![b] = publishSeq + 1]
      /\ UNCHANGED <<completed, ready, readySeq>>
  BY DEF Published
<1>2. publishSeq \in Nat /\ readySeq \in Nat /\ readySeq <= publishSeq
      /\ \A a \in Buffers : lastSeq[a] \in Nat /\ lastSeq[a] <= publishSeq
  BY DEF TypeOK, PoolType, PoolInv, Distinct
<1>3. Distinct'
  <2>1. ASSUME NEW a \in Buffers, a # b
        PROVE lastSeq'[a] = lastSeq[a] /\ phase'[a] = phase[a]
    BY <1>1, <2>1 DEF TypeOK, PoolType
  <2>2. lastSeq'[b] = publishSeq + 1 /\ phase'[b] = "published" /\ ~completed[b]
    BY <1>1 DEF TypeOK, PoolType, PoolInv, Distinct
  <2> QED BY <1>1, <1>2, <2>1, <2>2 DEF PoolInv, Distinct
<1>4. ~completed[b]
  BY DEF PoolInv, Distinct
<1>5. ready # 0 => ready \in Buffers /\ ready # b
  BY <1>4, TransportConstants DEF TypeOK, PoolType, Buffers, PoolInv, ReadyTop
<1>6. ReadyTop'
  BY <1>1, <1>4, <1>5 DEF TypeOK, PoolType, PoolInv, ReadyTop
<1> QED BY <1>3, <1>6 DEF PoolInv

\* AbortFrameBuffer and FailFrameBuffer: the buffer was not complete.
LEMMA DroppedPool ==
  ASSUME TypeOK, PoolInv, NEW b \in Buffers, phase[b] # "idle", Dropped(b)
  PROVE  PoolInv'
<1>1. /\ completed' = [completed EXCEPT ![b] = FALSE]
      /\ phase' = [phase EXCEPT ![b] = "idle"]
      /\ UNCHANGED <<ready, publishSeq, readySeq, lastSeq>>
  BY DEF Dropped
<1>2. ~completed[b]
  BY DEF PoolInv, Distinct
<1>3. ready # 0 => ready \in Buffers /\ ready # b
  BY <1>2, TransportConstants DEF TypeOK, PoolType, Buffers, PoolInv, ReadyTop
<1>4. Distinct'
  BY <1>1 DEF PoolInv, Distinct, TypeOK, PoolType
<1>5. ReadyTop'
  BY <1>1, <1>2, <1>3 DEF PoolInv, ReadyTop, TypeOK, PoolType
<1> QED BY <1>4, <1>5 DEF PoolInv

\* CompleteFrameBuffer: a completion that comes late retains nothing older.
LEMMA CompletePool ==
  ASSUME TypeOK, PoolInv, NEW b \in Buffers, NEW ok \in BOOLEAN, CompleteFrameBuffer(b, ok)
  PROVE  PoolInv'
<1>1. /\ completed' = [completed EXCEPT ![b] = ok]
      /\ phase' = [phase EXCEPT ![b] = "idle"]
      /\ ready' = IF ok /\ (ready = 0 \/ lastSeq[b] > lastSeq[ready]) THEN b ELSE ready
      /\ readySeq' = IF ok /\ lastSeq[b] > readySeq THEN lastSeq[b] ELSE readySeq
      /\ UNCHANGED <<publishSeq, lastSeq>>
      /\ phase[b] = "published"
  BY DEF CompleteFrameBuffer
<1>2. /\ publishSeq \in Nat /\ readySeq \in Nat /\ readySeq <= publishSeq
      /\ \A a \in Buffers : lastSeq[a] \in Nat /\ lastSeq[a] <= publishSeq
      /\ ~completed[b] /\ lastSeq[b] > 0
  BY <1>1 DEF TypeOK, PoolType, PoolInv, Distinct
<1>3. ready # 0 => ready \in Buffers /\ ready # b
  BY <1>2, TransportConstants DEF TypeOK, PoolType, Buffers, PoolInv, ReadyTop
<1>4. ASSUME NEW a \in Buffers, a # b PROVE completed'[a] = completed[a] /\ phase'[a] = phase[a]
  BY <1>1, <1>4 DEF TypeOK, PoolType
<1>5. completed'[b] = ok /\ phase'[b] = "idle"
  BY <1>1 DEF TypeOK, PoolType
<1>6. Distinct'
  <2>1. readySeq' \in Nat /\ readySeq <= readySeq' /\ readySeq' <= publishSeq
    BY <1>1, <1>2
  <2>2. ASSUME NEW a \in Buffers, phase'[a] = "published" PROVE lastSeq[a] > 0 /\ lastSeq[a] # readySeq'
    BY <1>1, <1>2, <1>4, <1>5, <2>2 DEF PoolInv, Distinct
  <2>3. ASSUME NEW a \in Buffers, completed'[a]
        PROVE  phase'[a] = "idle" /\ lastSeq[a] > 0 /\ lastSeq[a] <= readySeq'
    BY <1>1, <1>2, <1>4, <1>5, <2>1, <2>3 DEF PoolInv, Distinct
  <2> QED BY <1>1, <2>1, <2>2, <2>3 DEF PoolInv, Distinct
<1>7. ReadyTop'
  <2>1. CASE ok /\ (ready = 0 \/ lastSeq[b] > lastSeq[ready])
    <3>1. ready' = b /\ b # 0
      BY <1>1, <2>1, TransportConstants DEF Buffers
    <3>2. ASSUME NEW a \in Buffers, completed'[a] PROVE lastSeq[a] <= lastSeq[b]
      <4>1. a # b => completed[a] /\ ready # 0 /\ lastSeq[a] <= lastSeq[ready]
        BY <1>4, <3>2 DEF PoolInv, ReadyTop
      <4> QED BY <1>2, <1>3, <2>1, <4>1
    <3> QED BY <1>1, <1>5, <2>1, <3>1, <3>2 DEF ReadyTop
  <2>2. CASE ~(ok /\ (ready = 0 \/ lastSeq[b] > lastSeq[ready]))
    <3>1. ready' = ready
      BY <1>1, <2>2
    <3> QED BY <1>1, <1>2, <1>3, <1>4, <1>5, <2>2, <3>1 DEF PoolInv, ReadyTop
  <2> QED BY <2>1, <2>2
<1> QED BY <1>6, <1>7 DEF PoolInv

\* Every step keeps the pool's numbering and its retained frame.
LEMMA PoolStep ==
  ASSUME TypeOK, PoolInv, [Next]_vars PROVE PoolInv'
<1>1. ASSUME UNCHANGED <<phase, completed, ready, publishSeq, readySeq, lastSeq>> PROVE PoolInv'
  BY <1>1 DEF PoolInv, Distinct, ReadyTop
<1>2. CASE \/ \E c \in ownerSubs \cup {NoClient} : ElectOwner(c)
           \/ RequestRepublish
           \/ RepublishFrameBuffer
           \/ FrameRepublished
           \/ \E due \in Due : RetryPendingDelivery(due)
           \/ ProcessFrameDeliveries
           \/ \E c \in Clients, all \in BOOLEAN : LgmpSubscribe(c, all)
           \/ Done
           \/ \E c \in Clients : LgmpDrop(c)
           \/ Retire
           \/ UNCHANGED vars
  BY <1>1, <1>2 DEF ElectOwner, RequestRepublish, RepublishFrameBuffer, FrameRepublished,
       RetryPendingDelivery, ProcessFrameDeliveries, LgmpSubscribe, Done, LgmpDoneShared,
       LgmpDoneOwner, LgmpDrop, Retire, LgmpRetireShared, LgmpRetireOwner, vars, pool
<1>3. CASE \E s \in Plans, allow \in BOOLEAN : PrepareFrameBuffer(s, allow)
  BY <1>3, PreparePool
<1>4. CASE Publish
  <2>1. PICK b \in Buffers, due \in Due : PublishFrameBuffer(b, due)
    BY <1>4 DEF Publish
  <2>2. phase[b] = "prepared"
    BY <2>1 DEF PublishFrameBuffer
  <2> QED BY <2>1, <2>2, PublishPool, PublishPoolInv
<1>5. CASE \E b \in Buffers : AbortFrameBuffer(b) \/ FailFrameBuffer(b)
  BY <1>5, DroppedPool DEF AbortFrameBuffer, FailFrameBuffer
<1>6. CASE Complete
  BY <1>6, CompletePool DEF Complete
<1>7. CASE Restart
  BY <1>7 DEF Restart, PoolInv, Distinct, ReadyTop, InFlight
<1> QED BY <1>2, <1>3, <1>4, <1>5, <1>6, <1>7 DEF Next

-----------------------------------------------------------------------------
(* The frame owed to the owner.  A republish request stays pending while   *)
(* the owed frame is complete, because the only reports that settle a      *)
(* request are those of a frame at least as new, published for the same    *)
(* schedule, and RepublishFrameBuffer serves the owed frame first.         *)

Tickets ==
  /\ ackTicket <= requestTicket
  /\ acking.ticket <= requestTicket
  /\ \A b \in Buffers : phase[b] # "idle" => schedule[b].ticket <= requestTicket

\* A frame published for an owner was published for this one or an earlier.
PublishedFor ==
  /\ \A b \in Buffers :
       phase[b] = "published" /\ schedule[b].client # NoClient =>
         /\ schedule[b].epoch <= epoch
         /\ schedule[b].epoch = epoch /\ owner # NoClient => schedule[b].client = owner
  /\ owner # NoClient => epoch > 0

DeferredFor ==
  /\ acking # NoSchedule => deferred = 0
  /\ deferred # 0 /\ phase[deferred] = "published" =>
       /\ ~delivered[deferred] /\ schedule[deferred].client # NoClient
       /\ \A b \in Buffers : phase[b] = "published" /\ schedule[b].client # NoClient =>
            schedule[b].epoch <= schedule[deferred].epoch
       /\ owner # NoClient /\ ~ScheduleCurrent(schedule[deferred]) => RepublishRequested

OwedInv == Tickets /\ PublishedFor /\ DeferredFor /\ OwedIsServed

\* At first nothing is owed.
LEMMA OwedInit == Init => OwedInv
BY DEF Init, OwedInv, Tickets, PublishedFor, DeferredFor, OwedIsServed, DeferredIsNewest,
       OwedIsRequested, NoSchedule

\* The frame owed is in a buffer.
LEMMA DeferredType == ASSUME TypeOK, deferred # 0 PROVE deferred \in Buffers
BY TransportConstants DEF TypeOK, PoolType, Buffers

\* ElectOwner: a new owner comes with a request of its own.
LEMMA ElectOwed ==
  ASSUME TypeOK, OwedInv, NEW c \in ownerSubs \cup {NoClient}, ElectOwner(c)
  PROVE  OwedInv'
<1>1. /\ owner' = c /\ UNCHANGED acking
      /\ c = NoClient => ackTicket' = requestTicket /\ UNCHANGED <<epoch, requestTicket>>
      /\ c # NoClient => epoch' = epoch + 1 /\ requestTicket' = requestTicket + 1
                         /\ UNCHANGED ackTicket
      /\ UNCHANGED <<phase, completed, ready, deferred, publishSeq, readySeq, lastSeq, schedule,
                     delivered>>
  BY DEF ElectOwner, pool
<1>2. /\ epoch \in Nat /\ requestTicket \in Nat /\ ackTicket \in Nat /\ ackTicket <= requestTicket
      /\ acking.ticket \in Nat
      /\ \A b \in Buffers : schedule[b].epoch \in Nat /\ schedule[b].ticket \in Nat
  BY DEF TypeOK, SchedulerType, PoolType, Schedules, OwedInv, Tickets
<1>3. Tickets'
  BY <1>1, <1>2 DEF OwedInv, Tickets
<1>4. PublishedFor'
  BY <1>1, <1>2 DEF OwedInv, PublishedFor
<1>5. c # NoClient => RepublishRequested'
  BY <1>1, <1>2 DEF RepublishRequested
<1>6. DeferredFor'
  BY <1>1, <1>5 DEF OwedInv, DeferredFor
<1>7. OwedIsServed'
  BY <1>1, <1>5 DEF OwedInv, OwedIsServed, DeferredIsNewest, OwedIsRequested, InFlight
<1> QED BY <1>3, <1>4, <1>6, <1>7 DEF OwedInv

\* RequestRepublish: one request more.
LEMMA RequestOwed ==
  ASSUME TypeOK, OwedInv, RequestRepublish
  PROVE  OwedInv'
<1>1. /\ requestTicket' = requestTicket + 1
      /\ UNCHANGED <<phase, completed, ready, deferred, publishSeq, readySeq, lastSeq, schedule,
                     delivered, owner, epoch, ackTicket, acking>>
  BY DEF RequestRepublish, pool
<1>2. /\ requestTicket \in Nat /\ ackTicket \in Nat /\ ackTicket <= requestTicket
      /\ acking.ticket \in Nat
      /\ \A b \in Buffers : schedule[b].ticket \in Nat
  BY DEF TypeOK, SchedulerType, PoolType, Schedules, OwedInv, Tickets
<1>3. Tickets'
  BY <1>1, <1>2 DEF OwedInv, Tickets
<1>4. PublishedFor'
  BY <1>1 DEF OwedInv, PublishedFor
<1>5. RepublishRequested'
  BY <1>1, <1>2 DEF RepublishRequested
<1>6. DeferredFor'
  BY <1>1, <1>5 DEF OwedInv, DeferredFor, ScheduleCurrent
<1>7. OwedIsServed'
  BY <1>1, <1>5 DEF OwedInv, OwedIsServed, DeferredIsNewest, OwedIsRequested, InFlight
<1> QED BY <1>3, <1>4, <1>6, <1>7 DEF OwedInv

\* PrepareFrameBuffer: a frame owed whose buffer is taken is in flight again.
LEMMA PrepareOwed ==
  ASSUME TypeOK, PoolInv, OwedInv, NEW s \in Plans, NEW allow \in BOOLEAN,
         PrepareFrameBuffer(s, allow)
  PROVE  OwedInv'
<1> DEFINE b == FindAvailableFrameBuffer(AllowReady(s.client, allow))
<1>1. b \in Buffers /\ phase[b] = "idle"
  BY AvailableFact, PoolBounded DEF TypeOK, PrepareFrameBuffer, Reusable, InFlight, PoolInv
<1>2. /\ phase' = [phase EXCEPT ![b] = "prepared"]
      /\ b # ready => ready' = ready
      /\ completed' = [completed EXCEPT ![b] = FALSE]
      /\ schedule' = [schedule EXCEPT ![b] = s]
      /\ UNCHANGED <<deferred, publishSeq, readySeq, lastSeq, delivered, owner, epoch,
                     requestTicket, ackTicket, acking>>
  BY DEF PrepareFrameBuffer, scheduler
<1> HIDE DEF b
<1>3. s \in Schedules /\ s.ticket <= requestTicket
  BY PlansType DEF TypeOK, SchedulerType, Plans
<1>4. phase'[b] = "prepared" /\ schedule'[b] = s
  BY <1>1, <1>2 DEF TypeOK, PoolType
<1>5. ASSUME NEW a \in Buffers, a # b
      PROVE phase'[a] = phase[a] /\ schedule'[a] = schedule[a] /\ completed'[a] = completed[a]
  BY <1>2, <1>5 DEF TypeOK, PoolType
<1>6. Tickets'
  BY <1>2, <1>3, <1>4, <1>5 DEF OwedInv, Tickets
<1>7. PublishedFor'
  BY <1>2, <1>4, <1>5 DEF OwedInv, PublishedFor
<1>8. DeferredFor'
  BY <1>2, <1>4, <1>5, DeferredType DEF OwedInv, DeferredFor, ScheduleCurrent, RepublishRequested
<1>9. OwedIsServed'
  BY <1>2, <1>4, <1>5, DeferredType
  DEF OwedInv, OwedIsServed, DeferredIsNewest, OwedIsRequested, InFlight, RepublishRequested
<1> QED BY <1>6, <1>7, <1>8, <1>9 DEF OwedInv

\* PublishFrameBuffer: a frame retained for the owner is the newest one.
LEMMA PublishOwed ==
  ASSUME TypeOK, PoolInv, OwedInv, NEW b \in Buffers, NEW toOwner \in BOOLEAN,
         phase[b] = "prepared", acking = NoSchedule, ScheduleCurrent(schedule[b]),
         Published(b, toOwner),
         UNCHANGED <<owner, epoch, requestTicket, ackTicket, acking>>
  PROVE  OwedInv'
<1>1. /\ phase' = [phase EXCEPT ![b] = "published"]
      /\ publishSeq' = publishSeq + 1
      /\ lastSeq' = [lastSeq EXCEPT ![b] = publishSeq + 1]
      /\ delivered' = [delivered EXCEPT ![b] = toOwner]
      /\ deferred' = IF schedule[b].client # NoClient /\ ~toOwner THEN b ELSE 0
      /\ UNCHANGED <<completed, ready, readySeq, schedule>>
  BY DEF Published
<1>2. phase'[b] = "published" /\ lastSeq'[b] = publishSeq' /\ delivered'[b] = toOwner
  BY <1>1 DEF TypeOK, PoolType
<1>3. ASSUME NEW a \in Buffers, a # b PROVE phase'[a] = phase[a]
  BY <1>1, <1>3 DEF TypeOK, PoolType
<1>4. schedule[b].client = owner /\ (owner # NoClient => schedule[b].epoch = epoch)
  BY DEF ScheduleCurrent
<1>5. Tickets'
  BY <1>1, <1>2, <1>3 DEF OwedInv, Tickets
<1>6. PublishedFor'
  BY <1>1, <1>2, <1>3, <1>4 DEF OwedInv, PublishedFor, TypeOK, SchedulerType
<1>7. DeferredFor'
  <2>1. ASSUME deferred' # 0
        PROVE  deferred' = b /\ toOwner = FALSE /\ owner # NoClient
    BY <1>1, <1>4, <2>1
  <2>2. ScheduleCurrent(schedule[b])'
    BY <1>1 DEF ScheduleCurrent
  <2> QED BY <1>1, <1>2, <1>4, <1>6, <2>1, <2>2 DEF DeferredFor, PublishedFor
<1>8. OwedIsServed'
  BY <1>1, <1>2 DEF OwedIsServed, DeferredIsNewest, OwedIsRequested, InFlight
<1> QED BY <1>5, <1>6, <1>7, <1>8 DEF OwedInv

\* AbortFrameBuffer and FailFrameBuffer: a dropped frame is owed no more.
LEMMA DroppedOwed ==
  ASSUME TypeOK, PoolInv, OwedInv, NEW b \in Buffers, phase[b] # "idle", Dropped(b)
  PROVE  OwedInv'
<1>1. /\ completed' = [completed EXCEPT ![b] = FALSE]
      /\ deferred' = IF deferred = b THEN 0 ELSE deferred
      /\ phase' = [phase EXCEPT ![b] = "idle"]
      /\ schedule' = [schedule EXCEPT ![b] = NoSchedule]
      /\ delivered' = [delivered EXCEPT ![b] = FALSE]
      /\ UNCHANGED <<ready, publishSeq, readySeq, lastSeq, owner, epoch, requestTicket, ackTicket,
                     acking>>
  BY DEF Dropped, ScheduleDone, scheduler
<1>2. phase'[b] = "idle"
  BY <1>1 DEF TypeOK, PoolType
<1>3. ASSUME NEW a \in Buffers, a # b
      PROVE  /\ phase'[a] = phase[a] /\ schedule'[a] = schedule[a]
             /\ completed'[a] = completed[a] /\ delivered'[a] = delivered[a]
  BY <1>1, <1>3 DEF TypeOK, PoolType
<1>4. Tickets' /\ PublishedFor'
  BY <1>1, <1>2, <1>3 DEF OwedInv, Tickets, PublishedFor
<1>5. DeferredFor'
  BY <1>1, <1>2, <1>3, DeferredType DEF OwedInv, DeferredFor, ScheduleCurrent, RepublishRequested
<1>6. OwedIsServed'
  BY <1>1, <1>2, <1>3, DeferredType
  DEF OwedInv, OwedIsServed, DeferredIsNewest, OwedIsRequested, InFlight, RepublishRequested
<1> QED BY <1>4, <1>5, <1>6 DEF OwedInv

\* CompleteFrameBuffer: the frame owed completes and is asked for; another one
\* that completes is older, and settles a request only of the same owner.
LEMMA CompleteOwed ==
  ASSUME TypeOK, PoolInv, OwedInv, NEW b \in Buffers, NEW ok \in BOOLEAN,
         CompleteFrameBuffer(b, ok)
  PROVE  OwedInv'
<1> DEFINE newer == lastSeq[b] > readySeq
<1>1. /\ phase[b] = "published"
      /\ completed' = [completed EXCEPT ![b] = ok]
      /\ deferred' = IF ~ok /\ deferred = b THEN 0 ELSE deferred
      /\ ready' = IF ok /\ (ready = 0 \/ lastSeq[b] > lastSeq[ready]) THEN b ELSE ready
      /\ phase' = [phase EXCEPT ![b] = "idle"]
      /\ schedule' = [schedule EXCEPT ![b] = NoSchedule]
      /\ delivered' = [delivered EXCEPT ![b] = FALSE]
      /\ ackTicket' = IF ok /\ newer /\ delivered[b] THEN AckedBy(schedule[b]) ELSE ackTicket
      /\ requestTicket' = IF ok /\ newer /\ ~delivered[b]
                            THEN TicketAfterRetaining(b) ELSE requestTicket
      /\ UNCHANGED <<publishSeq, lastSeq, owner, epoch, acking>>
  BY DEF CompleteFrameBuffer, ScheduleDone
<1>2. phase'[b] = "idle" /\ completed'[b] = ok
  BY <1>1 DEF TypeOK, PoolType
<1>3. ASSUME NEW a \in Buffers, a # b
      PROVE  /\ phase'[a] = phase[a] /\ schedule'[a] = schedule[a]
             /\ completed'[a] = completed[a] /\ delivered'[a] = delivered[a]
  BY <1>1, <1>3 DEF TypeOK, PoolType
<1>4. /\ requestTicket \in Nat /\ ackTicket \in Nat /\ ackTicket <= requestTicket
      /\ schedule[b].ticket \in Nat /\ schedule[b].ticket <= requestTicket
      /\ acking.ticket \in Nat /\ epoch \in Nat
      /\ \A a \in Buffers : schedule[a].ticket \in Nat /\ schedule[a].epoch \in Nat
  BY <1>1 DEF TypeOK, SchedulerType, PoolType, Schedules, OwedInv, Tickets
<1>5. /\ ackTicket' \in Nat /\ ackTicket' <= requestTicket
      /\ requestTicket' \in Nat /\ requestTicket <= requestTicket'
  BY <1>1, <1>4 DEF AckedBy, TicketAfterRetaining
<1>6. Tickets'
  BY <1>1, <1>2, <1>3, <1>4, <1>5 DEF OwedInv, Tickets
<1>7. PublishedFor'
  BY <1>1, <1>2, <1>3 DEF OwedInv, PublishedFor
<1>8. /\ publishSeq \in Nat /\ readySeq \in Nat /\ readySeq <= publishSeq
      /\ lastSeq[b] \in Nat /\ lastSeq[b] > 0 /\ lastSeq[b] <= publishSeq /\ lastSeq[b] # readySeq
      /\ ~completed[b]
  BY <1>1 DEF TypeOK, PoolType, PoolInv, Distinct
<1>9. CASE deferred = 0
  <2>1. deferred' = 0
    BY <1>1, <1>9
  <2> QED BY <1>6, <1>7, <2>1
      DEF OwedInv, DeferredFor, OwedIsServed, DeferredIsNewest, OwedIsRequested
<1>10. CASE deferred = b /\ ~ok
  <2>1. deferred' = 0
    BY <1>1, <1>10
  <2> QED BY <1>6, <1>7, <2>1
      DEF OwedInv, DeferredFor, OwedIsServed, DeferredIsNewest, OwedIsRequested
<1>11. CASE deferred = b /\ ok
  <2>1. deferred' = b /\ b # 0 /\ acking' = NoSchedule /\ lastSeq[b] = publishSeq
        /\ ~delivered[b] /\ (owner # NoClient /\ ~ScheduleCurrent(schedule[b]) => RepublishRequested)
    BY <1>1, <1>11, TransportConstants
    DEF OwedInv, DeferredFor, OwedIsServed, DeferredIsNewest, Buffers
  <2>2. ready = 0 \/ lastSeq[b] > lastSeq[ready]
    <3> SUFFICES ASSUME ready # 0 PROVE lastSeq[b] > lastSeq[ready]
      OBVIOUS
    <3>1. ready \in Buffers /\ completed[ready]
      BY TransportConstants DEF TypeOK, PoolType, Buffers, PoolInv, ReadyTop
    <3>2. ready # b /\ lastSeq[ready] \in Nat /\ lastSeq[ready] <= publishSeq
          /\ lastSeq[ready] # lastSeq[b]
      BY <1>8, <3>1 DEF TypeOK, PoolType, PoolInv, Distinct
    <3> QED BY <1>8, <2>1, <3>2
  <2>3. ready' = b /\ newer
    BY <1>1, <1>8, <1>11, <2>1, <2>2
  <2>4. ackTicket' = ackTicket /\ requestTicket' = TicketAfterRetaining(b)
    BY <1>1, <1>11, <2>1, <2>3
  <2>5. owner # NoClient => RepublishRequested'
    BY <1>4, <2>1, <2>4 DEF RepublishRequested, TicketAfterRetaining
  <2>6. DeferredFor'
    BY <1>2, <2>1 DEF DeferredFor
  <2>7. OwedIsServed'
    BY <1>1, <1>2, <1>11, <2>1, <2>3, <2>5 DEF OwedIsServed, DeferredIsNewest, OwedIsRequested
  <2> QED BY <1>6, <1>7, <2>6, <2>7 DEF OwedInv
<1>12. CASE deferred # 0 /\ deferred # b
  <2>1. /\ deferred' = deferred /\ deferred \in Buffers
        /\ phase'[deferred] = phase[deferred] /\ schedule'[deferred] = schedule[deferred]
        /\ completed'[deferred] = completed[deferred] /\ delivered'[deferred] = delivered[deferred]
    BY <1>1, <1>3, <1>12, DeferredType
  <2>2. /\ acking' = NoSchedule /\ lastSeq[deferred] = publishSeq
        /\ InFlight(deferred) \/ (completed[deferred] /\ ready = deferred)
    BY <1>1, <1>12 DEF OwedInv, DeferredFor, OwedIsServed, DeferredIsNewest
  <2>3. ASSUME ~InFlight(deferred)
        PROVE  ready' = deferred /\ requestTicket' = requestTicket /\ ackTicket' = ackTicket
    <3>1. completed[deferred] /\ ready = deferred /\ publishSeq <= readySeq
      BY <2>1, <2>2, <2>3 DEF PoolInv, Distinct
    <3>2. ~(lastSeq[b] > readySeq) /\ ~(lastSeq[b] > lastSeq[ready])
      BY <1>8, <2>2, <3>1
    <3> QED BY <1>1, <1>12, <3>1, <3>2
  <2>4. OwedIsServed'
    BY <1>1, <1>12, <2>1, <2>2, <2>3
    DEF OwedInv, OwedIsServed, DeferredIsNewest, OwedIsRequested, InFlight, RepublishRequested
  <2>5. ASSUME phase[deferred] = "published", owner # NoClient, ~ScheduleCurrent(schedule[deferred])
        PROVE  RepublishRequested'
    <3>1. RepublishRequested
      BY <1>12, <2>5 DEF OwedInv, DeferredFor
    <3>2. ~ScheduleCurrent(schedule[b])
      <4> SUFFICES ASSUME ScheduleCurrent(schedule[b]) PROVE FALSE
        OBVIOUS
      <4>1. schedule[b].client = owner /\ schedule[b].epoch = epoch
        BY <2>5 DEF ScheduleCurrent
      <4>2. epoch <= schedule[deferred].epoch /\ schedule[deferred].client # NoClient
        BY <1>1, <1>12, <2>5, <4>1 DEF OwedInv, DeferredFor
      <4>3. schedule[deferred].epoch = epoch /\ schedule[deferred].client = owner
        BY <1>4, <2>1, <2>5, <4>2 DEF OwedInv, PublishedFor
      <4> QED BY <2>5, <4>3 DEF ScheduleCurrent
    <3>3. ackTicket' = ackTicket /\ requestTicket' = requestTicket
      BY <1>1, <3>1, <3>2 DEF AckedBy, TicketAfterRetaining
    <3> QED BY <3>1, <3>3 DEF RepublishRequested
  <2>6. DeferredFor'
    <3>1. ScheduleCurrent(schedule[deferred])' = ScheduleCurrent(schedule[deferred])
      BY <1>1, <2>1 DEF ScheduleCurrent
    <3>2. ASSUME NEW a \in Buffers, phase'[a] = "published"
          PROVE  phase[a] = "published" /\ schedule'[a] = schedule[a]
      BY <1>2, <1>3, <3>2
    <3> QED BY <1>1, <1>12, <2>1, <2>2, <2>5, <3>1, <3>2 DEF OwedInv, DeferredFor
  <2> QED BY <1>6, <1>7, <2>4, <2>6 DEF OwedInv
<1> QED BY <1>9, <1>10, <1>11, <1>12

\* RepublishFrameBuffer serves the frame owed first.
LEMMA RepublishOwed ==
  ASSUME TypeOK, OwedInv, RepublishFrameBuffer
  PROVE  OwedInv'
<1>1. /\ deferred' = IF deferred = FrameToRepublish THEN 0 ELSE deferred
      /\ acking' = [client |-> owner, epoch |-> epoch, deadline |-> 0, ticket |-> requestTicket]
      /\ UNCHANGED <<phase, completed, ready, publishSeq, readySeq, lastSeq, schedule, delivered,
                     owner, epoch, requestTicket, ackTicket>>
  BY DEF RepublishFrameBuffer
<1>2. deferred' = 0
  BY <1>1 DEF OwedInv, OwedIsServed, DeferredIsNewest, FrameToRepublish
<1>3. Tickets'
  BY <1>1 DEF OwedInv, Tickets, TypeOK, SchedulerType
<1>4. PublishedFor'
  BY <1>1 DEF OwedInv, PublishedFor
<1> QED BY <1>2, <1>3, <1>4
    DEF OwedInv, DeferredFor, OwedIsServed, DeferredIsNewest, OwedIsRequested

\* FrameRepublished: nothing was deferred since the post it reports.
LEMMA ReportOwed ==
  ASSUME TypeOK, OwedInv, FrameRepublished
  PROVE  OwedInv'
<1>1. /\ ackTicket' = AckedBy(acking) /\ acking' = NoSchedule /\ deferred' = 0
      /\ UNCHANGED <<phase, completed, ready, publishSeq, readySeq, lastSeq, schedule, delivered,
                     owner, epoch, requestTicket>>
  BY DEF FrameRepublished, pool, OwedInv, DeferredFor
<1>2. Tickets'
  BY <1>1 DEF OwedInv, Tickets, AckedBy, NoSchedule, TypeOK, SchedulerType
<1>3. PublishedFor'
  BY <1>1 DEF OwedInv, PublishedFor
<1> QED BY <1>1, <1>2, <1>3
    DEF OwedInv, DeferredFor, OwedIsServed, DeferredIsNewest, OwedIsRequested

\* Every step keeps the frame owed the newest one, and asked for.
LEMMA OwedStep ==
  ASSUME TypeOK, PoolInv, OwedInv, [Next]_vars PROVE OwedInv'
<1>1. ASSUME UNCHANGED <<phase, completed, ready, deferred, publishSeq, readySeq, lastSeq, schedule,
                         delivered, owner, epoch, requestTicket, ackTicket, acking>>
      PROVE  OwedInv'
  BY <1>1 DEF OwedInv, Tickets, PublishedFor, DeferredFor, OwedIsServed, DeferredIsNewest,
       OwedIsRequested, ScheduleCurrent, RepublishRequested, InFlight
<1>2. CASE \/ \E due \in Due : RetryPendingDelivery(due)
           \/ ProcessFrameDeliveries
           \/ \E c \in Clients, all \in BOOLEAN : LgmpSubscribe(c, all)
           \/ Done
           \/ \E c \in Clients : LgmpDrop(c)
           \/ Retire
           \/ UNCHANGED vars
  BY <1>1, <1>2 DEF RetryPendingDelivery, ProcessFrameDeliveries, LgmpSubscribe, Done,
       LgmpDoneShared, LgmpDoneOwner, LgmpDrop, Retire, LgmpRetireShared, LgmpRetireOwner, vars,
       pool, scheduler
<1>3. CASE \E c \in ownerSubs \cup {NoClient} : ElectOwner(c)
  BY <1>3, ElectOwed
<1>4. CASE RequestRepublish
  BY <1>4, RequestOwed
<1>5. CASE \E s \in Plans, allow \in BOOLEAN : PrepareFrameBuffer(s, allow)
  BY <1>5, PrepareOwed
<1>6. CASE Publish
  <2>1. PICK b \in Buffers, due \in Due : PublishFrameBuffer(b, due)
    BY <1>6 DEF Publish
  <2>2. phase[b] = "prepared" /\ acking = NoSchedule /\ ScheduleCurrent(schedule[b])
    BY <2>1 DEF PublishFrameBuffer
  <2> QED BY <2>1, <2>2, PublishPool, PublishOwed
<1>7. CASE \E b \in Buffers : AbortFrameBuffer(b) \/ FailFrameBuffer(b)
  BY <1>7, DroppedOwed DEF AbortFrameBuffer, FailFrameBuffer
<1>8. CASE Complete
  BY <1>8, CompleteOwed DEF Complete
<1>9. CASE RepublishFrameBuffer
  BY <1>9, RepublishOwed
<1>10. CASE FrameRepublished
  BY <1>10, ReportOwed
<1>11. CASE Restart
  BY <1>11 DEF Restart, InFlight, OwedInv, Tickets, PublishedFor, DeferredFor, OwedIsServed,
       DeferredIsNewest, OwedIsRequested, TypeOK, SchedulerType
<1> QED BY <1>2, <1>3, <1>4, <1>5, <1>6, <1>7, <1>8, <1>9, <1>10, <1>11 DEF Next

-----------------------------------------------------------------------------
(* The theorems.                                                           *)

IInv == TypeOK /\ QueueInv /\ PoolInv /\ OwedInv

\* The invariant is inductive: it holds at first, and whatever the pipeline,
\* the LGMP timer or a client does next keeps it.
THEOREM FrameTransportInductive == Spec => []IInv
<1>1. Init => IInv
  BY TypeInit, QueueInit, PoolInit, OwedInit DEF IInv
<1>2. IInv /\ [Next]_vars => IInv'
  BY TypeStep, QueueStep, PoolStep, OwedStep, PoolBounded DEF IInv, PoolInv
<1> QED BY <1>1, <1>2, PTL DEF Spec

\* However long a client keeps a message, the buffer it names still holds the
\* frame that was posted (PrepareFrameBuffer takes no referenced buffer).
THEOREM PostedFrameStaysHolds == Spec => []PostedFrameStays
<1>1. IInv => PostedFrameStays
  BY QueueInvImplies DEF IInv
<1> QED BY <1>1, FrameTransportInductive, PTL

\* m_frameDelivery and m_ownerDelivery cover every message LGMP still holds.
THEOREM MessagesAccountedHolds == Spec => []MessagesAccounted
<1>1. IInv => MessagesAccounted
  BY QueueInvImplies DEF IInv
<1> QED BY <1>1, FrameTransportInductive, PTL

\* m_readyFrameIndex is always the newest complete frame.
THEOREM ReadyIsNewestHolds == Spec => []ReadyIsNewest
<1>1. IInv => ReadyIsNewest
  BY PoolInvImplies DEF IInv, TypeOK
<1> QED BY <1>1, FrameTransportInductive, PTL

\* The frame owed to the owner is the newest one and is asked for: no report
\* that races with its completion loses the request.
THEOREM OwedIsServedHolds == Spec => []OwedIsServed
<1>1. IInv => OwedIsServed
  BY DEF IInv, OwedInv
<1> QED BY <1>1, FrameTransportInductive, PTL
=============================================================================

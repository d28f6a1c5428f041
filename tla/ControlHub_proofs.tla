-------------------------- MODULE ControlHub_proofs --------------------------
(* ControlHub for every set of clients, every length of its queue and any     *)
(* number of revisions.  ControlInv is the inductive invariant:               *)
(*   Slot      the stages of Add and Remove and the flags of the slot;        *)
(*   AtWork    a work in hand is in a sink that Remove still waits for;       *)
(*   NoneAhead nothing shown, posted or recorded is newer than the state;     *)
(*   DeliveredIsTrue   what the sink has recorded as delivered is what every  *)
(*             subscribed client ends with once it has read its queue;        *)
(*   NoLostWake        a revision that the worker has not seen wakes it.      *)
(* NothingForgotten needs the last three together: the sleeping worker has    *)
(* recorded all revisions, and the record is true.                            *)
EXTENDS ControlHub, SequenceTheorems, WellFoundedInduction, TLAPS

-----------------------------------------------------------------------------
(* The inductive invariant                                                   *)

Revisions == [Kinds -> Nat]
Works     == [kind : Kinds, bound : BOOLEAN, fresh : BOOLEAN]
Messages  == [kind : Kinds, content : Revisions, to : SUBSET Viewers]
Shown     == [sub : BOOLEAN, shows : Revisions]

Slots     == [bound : BOOLEAN, delivered : Revisions, retry : SUBSET Kinds,
              nextWork : Kinds, active : BOOLEAN, failed : BOOLEAN,
              failurePending : BOOLEAN, reserved : BOOLEAN]
Hands == [at : {"wait", "copy", "begin", "call", "done"}, wait : {"infinite", "timeout"},
          copy : Revisions, work : Works, result : {"none", "APPLIED", "RETRY", "FAILED"}]
Stages == {"idle", "add", "attach", "wake", "remove", "quiet", "clear"}

ControlTypeOK ==
  /\ state \in Revisions /\ waking \subseteq Kinds
  /\ sink \in Slots /\ wake \in BOOLEAN /\ idle \in BOOLEAN
  /\ hand \in Hands /\ manager \in Stages /\ events \in BOOLEAN
  /\ posted \in Seq(Messages)
  /\ viewer \in [Viewers -> Shown]
  /\ newSubs \in BOOLEAN

InSink == hand.at \in {"call", "done"}

\* The stages of Add and Remove and the flags they leave in the slot.
Slot ==
  /\ sink.active => sink.bound /\ ~sink.reserved /\ ~sink.failed /\ events
  /\ sink.failed => sink.bound /\ ~sink.reserved
  /\ sink.reserved <=> manager \in {"add", "attach", "remove", "quiet", "clear"}
  /\ sink.reserved => sink.bound
  /\ manager \in {"add", "attach"} => sink.delivered = None
  /\ manager = "attach" => events

\* A work is in the sink that it was taken for, and Remove cannot find idle.
AtWork ==
  InSink => /\ ~idle /\ sink.bound /\ hand.work.bound
            /\ sink.active \/ manager \in {"remove", "quiet"}
            /\ ~hand.work.fresh => sink.delivered = None
            /\ hand.at = "done" => hand.result # "none"

\* Nothing is ahead of the newest revision.
Below(r, newest) == \A k \in Kinds : r[k] <= newest[k]
NoneAhead ==
  /\ Below(sink.delivered, state) /\ Below(hand.copy, state)
  /\ \A i \in 1..Len(posted) : Below(posted[i].content, state)
  /\ \A c \in Viewers : Below(viewer[c].shows, state)

\* c, which shows old, will show v as its k once it has read all of q.
Tells(m, c, k) == c \in m.to /\ k \in Part(m.kind)
EndsWith(q, old, c, k, v) ==
  \/ /\ old = v
     /\ \A j \in 1..Len(q) : ~Tells(q[j], c, k)
  \/ \E i \in 1..Len(q) :
       /\ Tells(q[i], c, k) /\ q[i].content[k] = v
       /\ \A j \in 1..Len(q) : j > i => ~Tells(q[j], c, k)

Applied(k) == hand.at = "done" /\ hand.result = "APPLIED" /\ k \in Part(hand.work.kind)

\* The sink's record of what it delivered is true of every client, except
\* for what the worker has posted and not yet recorded.
Ends(c, k, v) == EndsWith(posted, viewer[c].shows[k], c, k, v)
Recorded(c, k) ==
  /\ sink.delivered[k] # 0 /\ ~Applied(k) => Ends(c, k, sink.delivered[k])
  /\ Applied(k) /\ hand.work.fresh => Ends(c, k, hand.copy[k])
DeliveredIsTrue ==
  sink.active /\ ~newSubs => \A c \in Subscribed, k \in Kinds : Recorded(c, k)

\* A revision the worker has not seen wakes it.
Seen(seen) == \A k \in Kinds : seen[k] = state[k] \/ k \in waking \/ wake
NoLostWake ==
  sink.active /\ manager # "wake" =>
    /\ hand.at = "begin" => Seen(hand.copy)
    /\ hand.at = "wait" /\ hand.wait = "infinite" => Seen(sink.delivered)

ControlInv ==
  ControlTypeOK /\ Slot /\ AtWork /\ NoneAhead /\ DeliveredIsTrue /\ NoLostWake

-----------------------------------------------------------------------------
(* The operators                                                             *)

\* A non-empty set of naturals has a least element.
LEMMA LeastExists ==
  ASSUME NEW S, S \subseteq Nat, S # {}
  PROVE  \E x \in S : \A y \in S : x <= y
<1> DEFINE R == OpToRel(<, Nat)
<1>1. IsWellFoundedOn(R, Nat)
  BY NatLessThanWellFounded
<1>2. PICK x \in S : \A y \in S : ~(<<y, x>> \in R)
  <2> HIDE DEF R
  <2> QED BY <1>1, WFMin
<1>3. ASSUME NEW y \in S PROVE x <= y
  <2>1. ~(<<y, x>> \in R)
    BY <1>2
  <2>2. x \in Nat /\ y \in Nat
    OBVIOUS
  <2>3. ~(y < x)
    BY <2>1, <2>2 DEF OpToRel
  <2> QED BY <2>2, <2>3
<1> QED BY <1>3

\* What LGMP frees are messages that everyone has read, at the front.
LEMMA ReadByAllIs ==
  ASSUME NEW q \in Seq(Messages)
  PROVE  /\ ReadByAll(q) \in 0..Len(q)
         /\ \A i \in 1..ReadByAll(q) : q[i].to = {}
<1> DEFINE P(n) == (\A i \in 1..n : q[i].to = {}) /\ (n < Len(q) => q[n + 1].to # {})
           S == {n \in 0..Len(q) : n < Len(q) => q[n + 1].to # {}}
<1>1. Len(q) \in Nat
  OBVIOUS
<1>2. Len(q) \in S /\ S \subseteq Nat
  BY <1>1
<1>3. PICK x \in S : \A y \in S : x <= y
  <2> HIDE DEF S
  <2> QED BY <1>2, LeastExists
<1>4. ASSUME NEW i \in 1..x PROVE q[i].to = {}
  <2>1. i - 1 \in 0..Len(q) /\ i - 1 < Len(q) /\ (i - 1) + 1 = i /\ ~(x <= i - 1)
    BY <1>1, <1>3
  <2>2. i - 1 \notin S
    BY <1>3, <2>1
  <2> QED BY <2>1, <2>2
<1>5. x \in 0..Len(q) /\ P(x)
  BY <1>3, <1>4
<1>6. ReadByAll(q) \in 0..Len(q) /\ P(ReadByAll(q))
  <2>1. \E n \in 0..Len(q) : P(n)
    BY <1>5
  <2>2. ReadByAll(q) = CHOOSE n \in 0..Len(q) : P(n)
    BY DEF ReadByAll
  <2> HIDE DEF P
  <2> QED BY <2>1, <2>2
<1> QED BY <1>6

\* So what is left of a queue is its end, and what is gone told nobody.
LEMMA RetiredIs ==
  ASSUME NEW q \in Seq(Messages)
  PROVE  /\ Retired(q) \in Seq(Messages)
         /\ \E n \in 0..Len(q) :
              /\ Len(Retired(q)) = Len(q) - n
              /\ \A i \in 1..(Len(q) - n) : Retired(q)[i] = q[i + n]
              /\ \A i \in 1..n : q[i].to = {}
<1>1. PICK n : n = ReadByAll(q)
  OBVIOUS
<1>2. n \in 0..Len(q) /\ \A i \in 1..n : q[i].to = {}
  BY <1>1, ReadByAllIs
<1>3. Len(q) \in Nat /\ n + 1 \in 1..(Len(q) + 1) /\ Len(q) \in (n + 1) - 1 .. Len(q)
  BY <1>2
<1>4. PICK r : r = SubSeq(q, n + 1, Len(q))
  OBVIOUS
<1>5. /\ r \in Seq(Messages)
      /\ Len(r) = IF n + 1 <= Len(q) THEN Len(q) - (n + 1) + 1 ELSE 0
      /\ \A i \in 1 .. (Len(q) - (n + 1) + 1) : r[i] = q[(n + 1) + i - 1]
  BY <1>3, <1>4, SubSeqProperties
<1>6. Len(r) = Len(q) - n
  BY <1>2, <1>3, <1>5
<1>7. ASSUME NEW i \in 1..(Len(q) - n) PROVE r[i] = q[i + n]
  <2>1. i \in 1 .. (Len(q) - (n + 1) + 1) /\ (n + 1) + i - 1 = i + n
    BY <1>2, <1>3
  <2> QED BY <1>5, <2>1
<1>8. Retired(q) = r
  BY <1>1, <1>4 DEF Retired
<1> QED BY <1>2, <1>5, <1>6, <1>7, <1>8

\* Freeing messages that everyone has read changes what nobody ends with.
LEMMA RetiredEnds ==
  ASSUME NEW q \in Seq(Messages), NEW old, NEW c, NEW k, NEW v,
         EndsWith(q, old, c, k, v)
  PROVE  EndsWith(Retired(q), old, c, k, v)
<1>1. PICK r : r = Retired(q)
  OBVIOUS
<1>2. PICK n \in 0..Len(q) :
        /\ Len(r) = Len(q) - n
        /\ \A i \in 1..(Len(q) - n) : r[i] = q[i + n]
        /\ \A i \in 1..n : q[i].to = {}
  BY <1>1, RetiredIs
<1>3. Len(q) \in Nat /\ n \in Nat
  OBVIOUS
<1>4. ASSUME NEW j \in 1..Len(r)
      PROVE  j + n \in 1..Len(q) /\ r[j] = q[j + n]
  BY <1>2, <1>3
<1>5. CASE old = v /\ \A j \in 1..Len(q) : ~Tells(q[j], c, k)
  <2>1. ASSUME NEW j \in 1..Len(r) PROVE ~Tells(r[j], c, k)
    BY <1>4, <1>5
  <2> QED BY <1>1, <1>5, <2>1 DEF EndsWith
<1>6. CASE \E i \in 1..Len(q) :
             /\ Tells(q[i], c, k) /\ q[i].content[k] = v
             /\ \A j \in 1..Len(q) : j > i => ~Tells(q[j], c, k)
  <2>1. PICK i \in 1..Len(q) :
             /\ Tells(q[i], c, k) /\ q[i].content[k] = v
             /\ \A j \in 1..Len(q) : j > i => ~Tells(q[j], c, k)
    BY <1>6
  <2>2. i \notin 1..n
    BY <1>2, <2>1 DEF Tells
  <2>3. PICK h : h = i - n
    OBVIOUS
  <2>4. h \in 1..Len(r) /\ h + n = i
    BY <1>2, <1>3, <2>2, <2>3
  <2>5. Tells(r[h], c, k) /\ r[h].content[k] = v
    BY <1>4, <2>1, <2>4
  <2>6. ASSUME NEW j \in 1..Len(r), j > h PROVE ~Tells(r[j], c, k)
    <3>1. j + n > i
      BY <1>3, <2>4, <2>6
    <3> QED BY <1>4, <2>1, <3>1
  <2> QED BY <1>1, <2>4, <2>5, <2>6 DEF EndsWith
<1> QED BY <1>5, <1>6 DEF EndsWith

\* A message that tells c of k makes c end with it...
LEMMA AppendTells ==
  ASSUME NEW q \in Seq(Messages), NEW m \in Messages, NEW old, NEW c, NEW k,
         Tells(m, c, k)
  PROVE  EndsWith(Append(q, m), old, c, k, m.content[k])
<1>1. Len(q) \in Nat /\ Len(Append(q, m)) = Len(q) + 1 /\ Append(q, m)[Len(q) + 1] = m
  OBVIOUS
<1>2. PICK i : i = Len(q) + 1
  OBVIOUS
<1>3. PICK r : r = Append(q, m)
  OBVIOUS
<1>4. i \in 1..Len(r) /\ r[i] = m /\ \A j \in 1..Len(r) : ~(j > i)
  BY <1>1, <1>2, <1>3
<1> QED BY <1>3, <1>4 DEF EndsWith

\* ...and one that does not leaves what c ends with.
LEMMA AppendSilent ==
  ASSUME NEW q \in Seq(Messages), NEW m \in Messages, NEW old, NEW c, NEW k, NEW v,
         ~Tells(m, c, k), EndsWith(q, old, c, k, v)
  PROVE  EndsWith(Append(q, m), old, c, k, v)
<1>1. PICK r : r = Append(q, m)
  OBVIOUS
<1>2. /\ Len(q) \in Nat /\ Len(r) = Len(q) + 1 /\ r[Len(q) + 1] = m
      /\ \A j \in 1..Len(q) : r[j] = q[j]
  BY <1>1
<1>3. ASSUME NEW j \in 1..Len(r) PROVE j \in 1..Len(q) \/ j = Len(q) + 1
  BY <1>2
<1>4. CASE old = v /\ \A j \in 1..Len(q) : ~Tells(q[j], c, k)
  <2>1. ASSUME NEW j \in 1..Len(r) PROVE ~Tells(r[j], c, k)
    BY <1>2, <1>3, <1>4
  <2> QED BY <1>1, <1>4, <2>1 DEF EndsWith
<1>5. CASE \E i \in 1..Len(q) :
             /\ Tells(q[i], c, k) /\ q[i].content[k] = v
             /\ \A j \in 1..Len(q) : j > i => ~Tells(q[j], c, k)
  <2>1. PICK i \in 1..Len(q) :
             /\ Tells(q[i], c, k) /\ q[i].content[k] = v
             /\ \A j \in 1..Len(q) : j > i => ~Tells(q[j], c, k)
    BY <1>5
  <2>2. i \in 1..Len(r) /\ r[i] = q[i]
    BY <1>2
  <2>3. ASSUME NEW j \in 1..Len(r), j > i PROVE ~Tells(r[j], c, k)
    BY <1>2, <1>3, <2>1, <2>3
  <2> QED BY <1>1, <2>1, <2>2, <2>3 DEF EndsWith
<1> QED BY <1>4, <1>5 DEF EndsWith

\* Whom a queue tells what decides what c ends with.
LEMMA SameEnds ==
  ASSUME NEW q \in Seq(Messages), NEW r \in Seq(Messages), Len(r) = Len(q),
         NEW old, NEW c, NEW k, NEW v,
         \A i \in 1..Len(q) : /\ Tells(r[i], c, k) <=> Tells(q[i], c, k)
                              /\ r[i].content = q[i].content,
         EndsWith(q, old, c, k, v)
  PROVE  EndsWith(r, old, c, k, v)
BY DEF EndsWith

\* The queue and the client once c has shown the first message it had to read.
LEMMA ShowEnds ==
  ASSUME NEW q \in Seq(Messages), NEW r \in Seq(Messages), Len(r) = Len(q),
         NEW c, NEW k \in Kinds, NEW v, NEW old, NEW i \in 1..Len(q),
         c \in q[i].to, \A j \in 1..(i - 1) : c \notin q[j].to,
         c \notin r[i].to,
         \A j \in 1..Len(q) : j # i => r[j] = q[j],
         EndsWith(q, old[k], c, k, v)
  PROVE  EndsWith(r, Merge(q[i].kind, q[i].content, old)[k], c, k, v)
<1>1. PICK new : new = Merge(q[i].kind, q[i].content, old)[k]
  OBVIOUS
<1>2. new = IF k \in Part(q[i].kind) THEN q[i].content[k] ELSE old[k]
  BY <1>1 DEF Merge
<1>3. ASSUME NEW j \in 1..Len(q), Tells(r[j], c, k) PROVE j > i /\ Tells(q[j], c, k)
  BY <1>3 DEF Tells
<1>4. CASE old[k] = v /\ \A j \in 1..Len(q) : ~Tells(q[j], c, k)
  <2>1. new = v
    BY <1>2, <1>4 DEF Tells
  <2> QED BY <1>1, <1>3, <1>4, <2>1 DEF EndsWith
<1>5. CASE \E h \in 1..Len(q) :
             /\ Tells(q[h], c, k) /\ q[h].content[k] = v
             /\ \A j \in 1..Len(q) : j > h => ~Tells(q[j], c, k)
  <2>1. PICK h \in 1..Len(q) :
             /\ Tells(q[h], c, k) /\ q[h].content[k] = v
             /\ \A j \in 1..Len(q) : j > h => ~Tells(q[j], c, k)
    BY <1>5
  <2>2. CASE h = i
    <3>1. new = v
      BY <1>2, <2>1, <2>2 DEF Tells
    <3>2. ASSUME NEW j \in 1..Len(r) PROVE ~Tells(r[j], c, k)
      BY <1>3, <2>1, <2>2
    <3> QED BY <1>1, <3>1, <3>2 DEF EndsWith
  <2>3. CASE h # i
    <3>1. r[h] = q[h]
      BY <2>3
    <3>2. ASSUME NEW j \in 1..Len(r), j > h PROVE ~Tells(r[j], c, k)
      BY <1>3, <2>1, <3>2
    <3> QED BY <1>1, <2>1, <3>1, <3>2 DEF EndsWith
  <2> QED BY <2>2, <2>3
<1> QED BY <1>1, <1>4, <1>5 DEF EndsWith

\* The contents that are built of others.
LEMMA BuiltOf ==
  ASSUME NEW k \in Kinds, NEW a \in Revisions, NEW b \in Revisions
  PROVE  /\ Carried(k, a) \in Revisions /\ Merge(k, a, b) \in Revisions /\ None \in Revisions
         /\ \A j \in Kinds : /\ Carried(k, a)[j] \in {0, a[j]}
                             /\ Merge(k, a, b)[j] \in {a[j], b[j]}
                             /\ j \in Part(k) => Carried(k, a)[j] = a[j]
                                                 /\ Merge(k, a, b)[j] = a[j]
                             /\ j \notin Part(k) => Merge(k, a, b)[j] = b[j]
                             /\ None[j] = 0
BY DEF Carried, Merge, None, Revisions

-----------------------------------------------------------------------------
(* Types                                                                     *)

\* The kind that is looked at first comes after the last one.
LEMMA TurnIn ==
  ASSUME NEW k \in Kinds PROVE (k + 1) % 3 \in Kinds
BY DEF Kinds, POSITION, SHAPE, TRANSFORM

\* The types hold at first.
LEMMA InitTyped == ControlInit => ControlTypeOK
<1>1. None \in Revisions /\ NoWork \in Works /\ Empty \in Slots
  BY DEF None, Revisions, NoWork, Works, Empty, Slots, Kinds, POSITION, SHAPE, TRANSFORM
<1> SUFFICES ASSUME ControlInit PROVE ControlTypeOK
  OBVIOUS
<1>2. state \in Revisions
  BY <1>1 DEF ControlInit, Revisions
<1>3. hand \in Hands
  BY <1>1 DEF ControlInit, Hands
<1>4. viewer \in [Viewers -> Shown]
  BY <1>1 DEF ControlInit, Shown
<1>5. waking \subseteq Kinds /\ manager \in Stages /\ posted \in Seq(Messages)
  BY DEF ControlInit, Stages
<1> QED BY <1>1, <1>2, <1>3, <1>4, <1>5 DEF ControlInit, ControlTypeOK

\* Updates and their wakes.
LEMMA UpdateTyped ==
  ASSUME ControlTypeOK, Update PROVE ControlTypeOK'
<1>1. ASSUME NEW shape \in BOOLEAN, SendCursor(shape) PROVE ControlTypeOK'
  BY <1>1 DEF SendCursor, ControlTypeOK, Revisions, Kinds, POSITION, SHAPE, TRANSFORM
<1>2. ASSUME SetColorTransform PROVE ControlTypeOK'
  BY <1>2 DEF SetColorTransform, ControlTypeOK, Revisions, Kinds, POSITION, SHAPE, TRANSFORM
<1> QED BY <1>1, <1>2 DEF Update

\* A wake, or a retry that has become due.
LEMMA WakeTyped ==
  ASSUME ControlTypeOK, NEW k \in Kinds, WakeAll(k) \/ RetryDue(k) PROVE ControlTypeOK'
<1>1. ASSUME WakeAll(k) PROVE ControlTypeOK'
  <2>1. sink' \in Slots
    BY <1>1 DEF WakeAll, ControlTypeOK, Slots
  <2>2. wake' \in BOOLEAN
    BY <1>1, Zenon DEF WakeAll, ControlTypeOK
  <2> QED BY <1>1, <2>1, <2>2 DEF WakeAll, ControlTypeOK
<1>2. ASSUME RetryDue(k) PROVE ControlTypeOK'
  BY <1>2 DEF RetryDue, hubState, ControlTypeOK, Slots
<1> QED BY <1>1, <1>2

\* The worker's steps.
LEMMA WorkerTyped ==
  ASSUME ControlTypeOK, Worker PROVE ControlTypeOK'
<1>0. None \in Revisions /\ NoWork \in Works
  BY DEF None, Revisions, NoWork, Works, Kinds
<1>1. ASSUME Woken PROVE ControlTypeOK'
  BY <1>1 DEF Woken, hubState, ControlTypeOK, Hands
<1>2. ASSUME CopyState PROVE ControlTypeOK'
  BY <1>2 DEF CopyState, hubState, ControlTypeOK, Hands
<1>3. ASSUME BeginWork PROVE ControlTypeOK'
  <2>1. CASE sink.active /\ Due # {}
    <3>1. PICK k \in Due :
            /\ sink' = [sink EXCEPT !.nextWork = (k + 1) % 3]
            /\ idle' = FALSE
            /\ hand' = [hand EXCEPT !.at = "call", !.copy = Carried(k, @),
                          !.work = [kind |-> k, bound |-> TRUE, fresh |-> TRUE]]
      BY <1>3, <2>1 DEF BeginWork
    <3>2. k \in Kinds
      BY DEF Due, Pending
    <3>3. sink' \in Slots
      BY <3>1, <3>2, TurnIn DEF ControlTypeOK, Slots
    <3>4. Carried(k, hand.copy) \in Revisions
      BY <3>2, BuiltOf DEF ControlTypeOK, Hands
    <3>5. hand' \in Hands
      BY <3>1, <3>2, <3>4 DEF ControlTypeOK, Hands, Works
    <3> QED BY <1>3, <3>1, <3>3, <3>5 DEF BeginWork, hubState, ControlTypeOK
  <2>2. CASE ~(sink.active /\ Due # {})
    <3>1. sink' = sink /\ idle' = idle
      BY <1>3, <2>2 DEF BeginWork
    <3>2. hand' \in Hands
      BY <1>0, <1>3, <2>2 DEF BeginWork, ControlTypeOK, Hands
    <3> QED BY <1>3, <3>1, <3>2 DEF BeginWork, hubState, ControlTypeOK
  <2> QED BY <2>1, <2>2
<1>4. ASSUME Post PROVE ControlTypeOK'
  <2>1. Message \in Messages
    BY DEF Message, Messages, Subscribed, ControlTypeOK, Hands, Works
  <2>2. posted' \in Seq(Messages)
    BY <1>4, <2>1 DEF Post, ControlTypeOK
  <2>3. hand' \in Hands
    BY <1>4 DEF Post, ControlTypeOK, Hands
  <2> QED BY <1>4, <2>2, <2>3 DEF Post, hubState, ControlTypeOK
<1>5. ASSUME NoPost PROVE ControlTypeOK'
  BY <1>5 DEF NoPost, hubState, ControlTypeOK, Hands
<1>6. ASSUME CompleteWork PROVE ControlTypeOK'
  <2>1. Merge(hand.work.kind, hand.copy, sink.delivered) \in Revisions
    BY BuiltOf DEF ControlTypeOK, Hands, Works, Slots
  <2>2. sink' \in Slots
    <3>1. Delivered(sink, hand.work.kind, hand.copy) \in Slots
      BY <2>1 DEF Delivered, ControlTypeOK, Slots
    <3>2. [sink EXCEPT !.active = FALSE, !.failed = TRUE, !.failurePending = TRUE] \in Slots
      BY DEF ControlTypeOK, Slots
    <3>3. [sink EXCEPT !.retry = @ \cup {hand.work.kind}] \in Slots
      BY DEF ControlTypeOK, Slots, Hands, Works
    <3>4. sink \in Slots
      BY DEF ControlTypeOK
    <3> QED BY <1>6, <3>1, <3>2, <3>3, <3>4 DEF CompleteWork
  <2>3. hand' \in Hands
    BY <1>0, <1>6 DEF CompleteWork, ControlTypeOK, Hands
  <2>4. wake' \in BOOLEAN /\ idle' \in BOOLEAN
    BY <1>6, Zenon DEF CompleteWork
  <2> QED BY <1>6, <2>2, <2>3, <2>4 DEF CompleteWork, hubState, ControlTypeOK
<1> QED BY <1>1, <1>2, <1>3, <1>4, <1>5, <1>6 DEF Worker

\* The manager's steps in Add and Remove.
LEMMA ManagerTyped ==
  ASSUME ControlTypeOK, Manager PROVE ControlTypeOK'
<1>0. Empty \in Slots /\ None \in Revisions
  BY DEF None, Revisions, Empty, Slots, Kinds, POSITION, SHAPE, TRANSFORM
<1> USE DEF Stages
<1>1. ASSUME AddBegin PROVE ControlTypeOK'
  <2>1. sink' \in Slots
    BY <1>0, <1>1 DEF AddBegin, Slots
  <2>2. hand' \in Hands
    BY <1>1 DEF AddBegin, ControlTypeOK, Hands, Works
  <2> QED BY <1>1, <2>1, <2>2 DEF AddBegin, hubState, ControlTypeOK
<1>2. ASSUME AddEvents PROVE ControlTypeOK'
  BY <1>2 DEF AddEvents, hubState, ControlTypeOK
<1>3. ASSUME AddAttach PROVE ControlTypeOK'
  <2>1. sink' \in Slots
    BY <1>3 DEF AddAttach, ControlTypeOK, Slots
  <2>2. hand' \in Hands
    BY <1>3 DEF AddAttach, ControlTypeOK, Hands, Works
  <2> QED BY <1>3, <2>1, <2>2 DEF AddAttach, hubState, ControlTypeOK
<1>4. ASSUME AddEnd PROVE ControlTypeOK'
  BY <1>4 DEF AddEnd, hubState, ControlTypeOK
<1>5. ASSUME RemoveBegin PROVE ControlTypeOK'
  <2>1. sink' \in Slots
    BY <1>5 DEF RemoveBegin, ControlTypeOK, Slots
  <2> QED BY <1>5, <2>1 DEF RemoveBegin, hubState, ControlTypeOK
<1>6. ASSUME RemoveWakes PROVE ControlTypeOK'
  BY <1>6 DEF RemoveWakes, hubState, ControlTypeOK
<1>7. ASSUME RemoveQuiet PROVE ControlTypeOK'
  BY <1>7 DEF RemoveQuiet, hubState, ControlTypeOK
<1>8. ASSUME RemoveEnd PROVE ControlTypeOK'
  <2>1. viewer' \in [Viewers -> Shown]
    BY <1>0, <1>8 DEF RemoveEnd, Shown
  <2>2. posted' \in Seq(Messages)
    BY <1>8, EmptySeq DEF RemoveEnd
  <2>3. sink' \in Slots
    BY <1>0, <1>8 DEF RemoveEnd
  <2> QED BY <1>8, <2>1, <2>2, <2>3 DEF RemoveEnd, hubState, ControlTypeOK
<1>9. ASSUME TakeFailure PROVE ControlTypeOK'
  <2>1. sink' \in Slots
    BY <1>9 DEF TakeFailure, ControlTypeOK, Slots
  <2> QED BY <1>9, <2>1 DEF TakeFailure, hubState, ControlTypeOK
<1> QED BY <1>1, <1>2, <1>3, <1>4, <1>5, <1>6, <1>7, <1>8, <1>9 DEF Manager

\* The queue that c has read one message of, or left.
LEMMA WithoutTyped ==
  ASSUME NEW q \in Seq(Messages), NEW c
  PROVE  /\ [i \in DOMAIN q |-> [q[i] EXCEPT !.to = @ \ {c}]] \in Seq(Messages)
         /\ Len([i \in DOMAIN q |-> [q[i] EXCEPT !.to = @ \ {c}]]) = Len(q)
         /\ \A i \in 1..Len(q) : [q EXCEPT ![i].to = @ \ {c}] \in Seq(Messages)
                                 /\ Len([q EXCEPT ![i].to = @ \ {c}]) = Len(q)
<1>1. Len(q) \in Nat /\ DOMAIN q = 1..Len(q)
  OBVIOUS
<1>2. ASSUME NEW i \in 1..Len(q) PROVE [q[i] EXCEPT !.to = @ \ {c}] \in Messages
  <2>1. q[i] \in Messages
    OBVIOUS
  <2> QED BY <2>1 DEF Messages
<1>3. [i \in DOMAIN q |-> [q[i] EXCEPT !.to = @ \ {c}]] \in [1..Len(q) -> Messages]
  BY <1>1, <1>2
<1>4. PICK r : r = [i \in DOMAIN q |-> [q[i] EXCEPT !.to = @ \ {c}]]
  OBVIOUS
<1>5. r \in Seq(Messages) /\ Len(r) = Len(q)
  BY <1>1, <1>3, <1>4
<1>6. ASSUME NEW i \in 1..Len(q)
      PROVE  [q EXCEPT ![i].to = @ \ {c}] \in Seq(Messages)
             /\ Len([q EXCEPT ![i].to = @ \ {c}]) = Len(q)
  <2>1. [q EXCEPT ![i].to = @ \ {c}] = [q EXCEPT ![i] = [q[i] EXCEPT !.to = @ \ {c}]]
    OBVIOUS
  <2> QED BY <1>1, <1>2, <2>1, ExceptSeq
<1> QED BY <1>4, <1>5, <1>6

\* The clients' steps and the replay.
LEMMA ClientTyped ==
  ASSUME ControlTypeOK, NEW c \in Viewers, Subscribe(c) \/ Leave(c) \/ Show(c)
  PROVE  ControlTypeOK'
<1>0. None \in Revisions
  BY DEF None, Revisions, Kinds
<1>1. ASSUME Subscribe(c) PROVE ControlTypeOK'
  <2>1. viewer' \in [Viewers -> Shown]
    BY <1>0, <1>1 DEF Subscribe, ControlTypeOK, Shown
  <2> QED BY <1>1, <2>1 DEF Subscribe, hubState, ControlTypeOK
<1>2. ASSUME Leave(c) PROVE ControlTypeOK'
  <2>1. viewer' \in [Viewers -> Shown]
    BY <1>0, <1>2 DEF Leave, ControlTypeOK, Shown
  <2>2. PICK r : r = [i \in DOMAIN posted |-> [posted[i] EXCEPT !.to = @ \ {c}]]
    OBVIOUS
  <2>3. r \in Seq(Messages)
    BY <2>2, WithoutTyped DEF ControlTypeOK
  <2>4. posted' \in Seq(Messages)
    BY <1>2, <2>2, <2>3, RetiredIs DEF Leave
  <2> QED BY <1>2, <2>1, <2>4 DEF Leave, hubState, ControlTypeOK
<1>3. ASSUME Show(c) PROVE ControlTypeOK'
  <2>1. PICK i \in DOMAIN posted :
          /\ viewer' = [viewer EXCEPT ![c].shows =
                          Merge(posted[i].kind, posted[i].content, @)]
          /\ posted' = Retired([posted EXCEPT ![i].to = @ \ {c}])
    BY <1>3 DEF Show
  <2>2. i \in 1..Len(posted) /\ posted[i] \in Messages
    BY DEF ControlTypeOK
  <2>3. viewer[c] \in Shown
    BY DEF ControlTypeOK
  <2>4. PICK m : m = Merge(posted[i].kind, posted[i].content, viewer[c].shows)
    OBVIOUS
  <2>5. m \in Revisions
    BY <2>2, <2>3, <2>4, BuiltOf DEF Messages, Shown
  <2>6. viewer' = [viewer EXCEPT ![c] = [viewer[c] EXCEPT !.shows = m]]
    BY <2>1, <2>4 DEF ControlTypeOK
  <2>7. viewer' \in [Viewers -> Shown]
    BY <2>3, <2>5, <2>6 DEF ControlTypeOK, Shown
  <2>8. PICK r : r = [posted EXCEPT ![i].to = @ \ {c}]
    OBVIOUS
  <2>9. r \in Seq(Messages)
    BY <2>2, <2>8, WithoutTyped DEF ControlTypeOK
  <2>10. posted' \in Seq(Messages)
    BY <2>1, <2>8, <2>9, RetiredIs
  <2> QED BY <1>3, <2>7, <2>10 DEF Show, hubState, ControlTypeOK
<1> QED BY <1>1, <1>2, <1>3

\* A replay.
LEMMA ReplayTyped ==
  ASSUME ControlTypeOK, RequestReplay PROVE ControlTypeOK'
<1>0. None \in Revisions
  BY DEF None, Revisions, Kinds
<1>1. sink' \in Slots
  BY <1>0 DEF RequestReplay, ControlTypeOK, Slots
<1>2. hand' \in Hands
  <2>1. CASE events /\ (sink.active \/ sink.reserved)
    <3>1. hand' = [hand EXCEPT !.work = [hand.work EXCEPT !.fresh = FALSE]]
      BY <2>1 DEF RequestReplay, ControlTypeOK, Hands
    <3> QED BY <3>1 DEF ControlTypeOK, Hands, Works
  <2>2. CASE ~(events /\ (sink.active \/ sink.reserved))
    BY <2>2 DEF RequestReplay, ControlTypeOK
  <2> QED BY <2>1, <2>2
<1>3. wake' \in BOOLEAN
  BY DEF RequestReplay, ControlTypeOK
<1> QED BY <1>1, <1>2, <1>3 DEF RequestReplay, hubState, ControlTypeOK

\* Every step keeps the types.
LEMMA StepTyped ==
  ASSUME ControlTypeOK, [ControlNext]_control PROVE ControlTypeOK'
<1>1. CASE UNCHANGED control
  BY <1>1 DEF control, hubState, ControlTypeOK
<1> QED BY <1>1, UpdateTyped, WakeTyped, WorkerTyped, ManagerTyped, ClientTyped, ReplayTyped
      DEF ControlNext

-----------------------------------------------------------------------------
(* Add, Remove and the work in hand                                          *)

\* Add and Remove go through their stages under the manager's lock only; a
\* failure of the sink leaves the slot to Remove.
LEMMA SlotStep ==
  ASSUME ControlTypeOK, Slot, AtWork, [ControlNext]_control PROVE Slot'
<1>1. ASSUME NEW shape \in BOOLEAN, SendCursor(shape) PROVE Slot'
  BY <1>1 DEF SendCursor, Slot
<1>2. ASSUME SetColorTransform PROVE Slot'
  BY <1>2 DEF SetColorTransform, Slot
<1>3. ASSUME NEW k \in Kinds, WakeAll(k) PROVE Slot'
  BY <1>3 DEF WakeAll, Slot
<1>4. ASSUME NEW k \in Kinds, RetryDue(k) PROVE Slot'
  BY <1>4 DEF RetryDue, Slot
<1>5. ASSUME Woken PROVE Slot'
  BY <1>5 DEF Woken, Slot
<1>6. ASSUME CopyState PROVE Slot'
  BY <1>6 DEF CopyState, Slot
<1>7. ASSUME BeginWork PROVE Slot'
  <2>1. /\ sink'.active = sink.active /\ sink'.bound = sink.bound
        /\ sink'.reserved = sink.reserved /\ sink'.failed = sink.failed
        /\ sink'.delivered = sink.delivered
    BY <1>7 DEF BeginWork, ControlTypeOK, Slots
  <2> QED BY <1>7, <2>1 DEF BeginWork, Slot
<1>8. ASSUME Post PROVE Slot'
  BY <1>8 DEF Post, Slot
<1>9. ASSUME NoPost PROVE Slot'
  BY <1>9 DEF NoPost, Slot
<1>10. ASSUME CompleteWork PROVE Slot'
  BY <1>10 DEF CompleteWork, Slot, Delivered
<1>11. ASSUME AddBegin PROVE Slot'
  BY <1>11 DEF AddBegin, Slot, Empty
<1>12. ASSUME AddEvents PROVE Slot'
  BY <1>12 DEF AddEvents, Slot
<1>13. ASSUME AddAttach PROVE Slot'
  BY <1>13 DEF AddAttach, Slot
<1>14. ASSUME AddEnd PROVE Slot'
  BY <1>14 DEF AddEnd, Slot
<1>15. ASSUME RemoveBegin PROVE Slot'
  BY <1>15 DEF RemoveBegin, Slot
<1>16. ASSUME RemoveWakes PROVE Slot'
  BY <1>16 DEF RemoveWakes, Slot
<1>17. ASSUME RemoveQuiet PROVE Slot'
  BY <1>17 DEF RemoveQuiet, Slot
<1>18. ASSUME RemoveEnd PROVE Slot'
  BY <1>18 DEF RemoveEnd, Slot, Empty
<1>19. ASSUME TakeFailure PROVE Slot'
  BY <1>19 DEF TakeFailure, Slot
<1>20. ASSUME RequestReplay PROVE Slot'
  <2>1. /\ sink'.active = sink.active /\ sink'.bound = sink.bound
        /\ sink'.reserved = sink.reserved /\ sink'.failed = sink.failed
        /\ sink'.delivered \in {sink.delivered, None}
    BY <1>20 DEF RequestReplay, ControlTypeOK, Slots
  <2> QED BY <1>20, <2>1 DEF RequestReplay, Slot
<1>21. ASSUME NEW c \in Viewers, Subscribe(c) PROVE Slot'
  BY <1>21 DEF Subscribe, Slot
<1>22. ASSUME NEW c \in Viewers, Leave(c) PROVE Slot'
  BY <1>22 DEF Leave, Slot
<1>23. ASSUME NEW c \in Viewers, Show(c) PROVE Slot'
  BY <1>23 DEF Show, Slot
<1>24. CASE UNCHANGED control
  BY <1>24 DEF control, Slot
<1> QED
  BY <1>1, <1>2, <1>3, <1>4, <1>5, <1>6, <1>7, <1>8, <1>9, <1>10, <1>11, <1>12, <1>13,
     <1>14, <1>15, <1>16, <1>17, <1>18, <1>19, <1>20, <1>21, <1>22, <1>23, <1>24
  DEF ControlNext, Update, Worker, Manager

\* A work is taken from an active sink and given back before Remove goes on.
LEMMA AtWorkStep ==
  ASSUME ControlTypeOK, Slot, AtWork, [ControlNext]_control PROVE AtWork'
<1>1. ASSUME NEW shape \in BOOLEAN, SendCursor(shape) PROVE AtWork'
  BY <1>1 DEF SendCursor, AtWork, InSink
<1>2. ASSUME SetColorTransform PROVE AtWork'
  BY <1>2 DEF SetColorTransform, AtWork, InSink
<1>3. ASSUME NEW k \in Kinds, WakeAll(k) PROVE AtWork'
  BY <1>3 DEF WakeAll, AtWork, InSink
<1>4. ASSUME NEW k \in Kinds, RetryDue(k) PROVE AtWork'
  BY <1>4 DEF RetryDue, AtWork, InSink
<1>5. ASSUME Woken PROVE AtWork'
  BY <1>5 DEF Woken, AtWork, InSink
<1>6. ASSUME CopyState PROVE AtWork'
  BY <1>6 DEF CopyState, AtWork, InSink
<1>7. ASSUME BeginWork PROVE AtWork'
  <2>1. CASE sink.active /\ Due # {}
    <3>1. PICK k \in Due :
            /\ sink' = [sink EXCEPT !.nextWork = (k + 1) % 3]
            /\ idle' = FALSE
            /\ hand' = [hand EXCEPT !.at = "call", !.copy = Carried(k, @),
                          !.work = [kind |-> k, bound |-> TRUE, fresh |-> TRUE]]
      BY <1>7, <2>1 DEF BeginWork
    <3>2. sink'.bound = sink.bound /\ sink'.active = sink.active
      BY <3>1
    <3>3. hand'.work.bound /\ hand'.work.fresh /\ hand'.at = "call"
      BY <3>1
    <3> QED BY <2>1, <3>1, <3>2, <3>3 DEF AtWork, Slot
  <2>2. CASE ~(sink.active /\ Due # {})
    <3>1. hand'.at = "wait"
      BY <1>7, <2>2 DEF BeginWork, ControlTypeOK, Hands
    <3> QED BY <3>1 DEF AtWork, InSink
  <2> QED BY <2>1, <2>2
<1>8. ASSUME Post PROVE AtWork'
  BY <1>8 DEF Post, AtWork, InSink
<1>9. ASSUME NoPost PROVE AtWork'
  BY <1>9 DEF NoPost, AtWork, InSink
<1>10. ASSUME CompleteWork PROVE AtWork'
  BY <1>10 DEF CompleteWork, AtWork, InSink
<1>11. ASSUME AddBegin PROVE AtWork'
  BY <1>11 DEF AddBegin, AtWork, InSink
<1>12. ASSUME AddEvents PROVE AtWork'
  BY <1>12 DEF AddEvents, AtWork, InSink
<1>13. ASSUME AddAttach PROVE AtWork'
  BY <1>13 DEF AddAttach, Slot, AtWork, InSink
<1>14. ASSUME AddEnd PROVE AtWork'
  BY <1>14 DEF AddEnd, AtWork, InSink
<1>15. ASSUME RemoveBegin PROVE AtWork'
  BY <1>15 DEF RemoveBegin, AtWork, InSink
<1>16. ASSUME RemoveWakes PROVE AtWork'
  BY <1>16 DEF RemoveWakes, AtWork, InSink
<1>17. ASSUME RemoveQuiet PROVE AtWork'
  BY <1>17 DEF RemoveQuiet, AtWork, InSink, Quiesced
<1>18. ASSUME RemoveEnd PROVE AtWork'
  BY <1>18 DEF RemoveEnd, Slot, AtWork, InSink
<1>19. ASSUME TakeFailure PROVE AtWork'
  BY <1>19 DEF TakeFailure, AtWork, InSink
<1>20. ASSUME RequestReplay PROVE AtWork'
  <2>1. CASE events /\ (sink.active \/ sink.reserved)
    <3>1. /\ sink'.bound = sink.bound /\ sink'.active = sink.active
          /\ sink'.delivered = None
      BY <1>20, <2>1 DEF RequestReplay, ControlTypeOK, Slots
    <3>2. hand' = [hand EXCEPT !.work = [hand.work EXCEPT !.fresh = FALSE]]
      BY <1>20, <2>1 DEF RequestReplay
    <3>3. /\ hand'.at = hand.at /\ hand'.work.bound = hand.work.bound
          /\ hand'.result = hand.result
      BY <3>2 DEF ControlTypeOK, Hands, Works
    <3> QED BY <1>20, <3>1, <3>3 DEF RequestReplay, AtWork, InSink
  <2>2. CASE ~(events /\ (sink.active \/ sink.reserved))
    BY <1>20, <2>2 DEF RequestReplay, AtWork, InSink
  <2> QED BY <2>1, <2>2
<1>21. ASSUME NEW c \in Viewers, Subscribe(c) PROVE AtWork'
  BY <1>21 DEF Subscribe, AtWork, InSink
<1>22. ASSUME NEW c \in Viewers, Leave(c) PROVE AtWork'
  BY <1>22 DEF Leave, AtWork, InSink
<1>23. ASSUME NEW c \in Viewers, Show(c) PROVE AtWork'
  BY <1>23 DEF Show, AtWork, InSink
<1>24. CASE UNCHANGED control
  BY <1>24 DEF control, AtWork, InSink
<1> QED
  BY <1>1, <1>2, <1>3, <1>4, <1>5, <1>6, <1>7, <1>8, <1>9, <1>10, <1>11, <1>12, <1>13,
     <1>14, <1>15, <1>16, <1>17, <1>18, <1>19, <1>20, <1>21, <1>22, <1>23, <1>24
  DEF ControlNext, Update, Worker, Manager

-----------------------------------------------------------------------------
(* Revisions                                                                 *)

\* The newest revisions only grow.
LEMMA StateGrows ==
  ASSUME ControlTypeOK, [ControlNext]_control
  PROVE  \A k \in Kinds : state[k] <= state'[k]
<1>1. ASSUME NEW shape \in BOOLEAN, SendCursor(shape) PROVE \A k \in Kinds : state[k] <= state'[k]
  BY <1>1 DEF SendCursor, ControlTypeOK, Revisions, Kinds, POSITION, SHAPE, TRANSFORM
<1>2. ASSUME SetColorTransform PROVE \A k \in Kinds : state[k] <= state'[k]
  BY <1>2 DEF SetColorTransform, ControlTypeOK, Revisions, Kinds, POSITION, SHAPE, TRANSFORM
<1>3. ASSUME state' = state PROVE \A k \in Kinds : state[k] <= state'[k]
  BY <1>3 DEF ControlTypeOK, Revisions
<1> QED BY <1>1, <1>2, <1>3 DEF ControlNext, Update, Worker, Manager, control, hubState,
      WakeAll, RetryDue, Woken, CopyState, BeginWork, Post, NoPost, CompleteWork, AddBegin,
      AddEvents, AddAttach, AddEnd, RemoveBegin, RemoveWakes, RemoveQuiet, RemoveEnd,
      TakeFailure, RequestReplay, Subscribe, Leave, Show

\* What is not ahead stays so.
LEMMA BelowStays ==
  ASSUME ControlTypeOK, ControlTypeOK', [ControlNext]_control,
         NEW r \in Revisions, Below(r, state)
  PROVE  Below(r, state')
BY StateGrows DEF Below, ControlTypeOK, Revisions

\* The record of what was delivered is kept, cleared or brought up to the
\* work in hand.
LEMMA DeliveredStep ==
  ASSUME ControlTypeOK, [ControlNext]_control
  PROVE  sink'.delivered \in
           {sink.delivered, None, Merge(hand.work.kind, hand.copy, sink.delivered)}
<1> DEFINE P == sink'.delivered \in
           {sink.delivered, None, Merge(hand.work.kind, hand.copy, sink.delivered)}
<1>1. ASSUME sink' = sink PROVE P
  BY <1>1
<1>2. ASSUME NEW k \in Kinds, WakeAll(k) \/ RetryDue(k) PROVE P
  BY <1>2 DEF WakeAll, RetryDue, ControlTypeOK, Slots
<1>3. ASSUME BeginWork PROVE P
  BY <1>3 DEF BeginWork, ControlTypeOK, Slots
<1>4. ASSUME CompleteWork PROVE P
  BY <1>4 DEF CompleteWork, Delivered, ControlTypeOK, Slots
<1>5. ASSUME AddBegin \/ RemoveEnd PROVE P
  <2>1. [Empty EXCEPT !.reserved = TRUE, !.bound = TRUE].delivered = None
    BY DEF Empty
  <2>2. Empty.delivered = None
    BY DEF Empty
  <2> QED BY <1>5, <2>1, <2>2 DEF AddBegin, RemoveEnd
<1>6. ASSUME AddAttach \/ RemoveBegin \/ TakeFailure PROVE P
  BY <1>6 DEF AddAttach, RemoveBegin, TakeFailure, ControlTypeOK, Slots
<1>7. ASSUME RequestReplay PROVE P
  BY <1>7 DEF RequestReplay, ControlTypeOK, Slots
<1> HIDE DEF P
<1>8. P
  BY <1>1, <1>2, <1>3, <1>4, <1>5, <1>6, <1>7 DEF ControlNext, Update, Worker, Manager, control,
     hubState, SendCursor, SetColorTransform, Woken, CopyState, Post, NoPost, AddEvents,
     AddEnd, RemoveWakes, RemoveQuiet, Subscribe, Leave, Show
<1> QED BY <1>8 DEF P

\* The copy in hand is kept, cleared, taken anew or cut to its work.
LEMMA CopyStep ==
  ASSUME ControlTypeOK, [ControlNext]_control
  PROVE  \/ hand'.copy \in {hand.copy, None, state}
         \/ \E k \in Kinds : hand'.copy = Carried(k, hand.copy)
<1> DEFINE P == \/ hand'.copy \in {hand.copy, None, state}
                \/ \E k \in Kinds : hand'.copy = Carried(k, hand.copy)
<1>1. ASSUME hand' = hand PROVE P
  BY <1>1
<1>2. ASSUME Woken \/ Post \/ NoPost PROVE P
  BY <1>2 DEF Woken, Post, NoPost, ControlTypeOK, Hands
<1>3. ASSUME CopyState \/ CompleteWork PROVE P
  BY <1>3 DEF CopyState, CompleteWork, ControlTypeOK, Hands
<1>4. ASSUME BeginWork PROVE P
  BY <1>4 DEF BeginWork, ControlTypeOK, Hands, Due, Pending
<1>5. ASSUME AddBegin \/ AddAttach \/ RequestReplay PROVE P
  BY <1>5 DEF AddBegin, AddAttach, RequestReplay, ControlTypeOK, Hands
<1> HIDE DEF P
<1>8. P
  BY <1>1, <1>2, <1>3, <1>4, <1>5 DEF ControlNext, Update, Worker, Manager, control,
     hubState, SendCursor, SetColorTransform, WakeAll, RetryDue, AddEvents, AddEnd,
     RemoveBegin, RemoveWakes, RemoveQuiet, RemoveEnd, TakeFailure, Subscribe, Leave, Show
<1> QED BY <1>8 DEF P

\* What Retired leaves was there before.
LEMMA RetiredFrom ==
  ASSUME NEW q \in Seq(Messages), NEW i \in 1..Len(Retired(q))
  PROVE  \E j \in 1..Len(q) : Retired(q)[i] = q[j]
<1>1. PICK r : r = Retired(q)
  OBVIOUS
<1>2. PICK n \in 0..Len(q) :
        /\ Len(r) = Len(q) - n
        /\ \A h \in 1..(Len(q) - n) : r[h] = q[h + n]
  BY <1>1, RetiredIs
<1>3. i \in 1..(Len(q) - n) /\ i + n \in 1..Len(q)
  BY <1>1, <1>2
<1> QED BY <1>1, <1>2, <1>3

\* A message in the queue was there before, or is of the work in hand.
LEMMA PostedStep ==
  ASSUME ControlTypeOK, [ControlNext]_control, NEW i \in 1..Len(posted')
  PROVE  \/ \E j \in 1..Len(posted) : posted'[i].content = posted[j].content
         \/ posted'[i].content = hand.copy
<1> DEFINE P == \/ \E j \in 1..Len(posted) : posted'[i].content = posted[j].content
                \/ posted'[i].content = hand.copy
<1>1. ASSUME posted' = posted PROVE P
  BY <1>1
<1>2. ASSUME Post PROVE P
  <2>1. Message \in Messages
    BY DEF Message, Messages, Subscribed, ControlTypeOK, Hands, Works
  <2>2. CASE posted' = Append(posted, Message)
    <3>1. /\ Len(posted) \in Nat /\ Len(posted') = Len(posted) + 1
          /\ posted'[Len(posted) + 1] = Message
          /\ \A j \in 1..Len(posted) : posted'[j] = posted[j]
      BY <2>1, <2>2 DEF ControlTypeOK
    <3>2. i \in 1..Len(posted) \/ i = Len(posted) + 1
      BY <3>1
    <3> QED BY <3>1, <3>2 DEF Message
  <2> QED BY <1>1, <1>2, <2>2 DEF Post
<1>3. ASSUME RemoveEnd PROVE P
  <2>1. Len(posted') = 0
    BY <1>3 DEF RemoveEnd
  <2> QED BY <2>1
<1>4. ASSUME NEW c \in Viewers, Leave(c) PROVE P
  <2>1. PICK r : r = [j \in DOMAIN posted |-> [posted[j] EXCEPT !.to = @ \ {c}]]
    OBVIOUS
  <2>2. r \in Seq(Messages) /\ Len(r) = Len(posted)
    BY <2>1, WithoutTyped DEF ControlTypeOK
  <2>3. PICK j \in 1..Len(r) : posted'[i] = r[j]
    <3>1. posted' = Retired(r)
      BY <1>4, <2>1 DEF Leave
    <3> QED BY <2>2, <3>1, RetiredFrom
  <2>4. posted[j] \in Messages /\ r[j] = [posted[j] EXCEPT !.to = @ \ {c}]
    <3>1. DOMAIN posted = 1..Len(posted) /\ j \in 1..Len(posted)
      BY <2>2 DEF ControlTypeOK
    <3>2. posted[j] \in Messages
      BY <3>1, ElementOfSeq DEF ControlTypeOK
    <3> QED BY <2>1, <3>1, <3>2
  <2>5. r[j].content = posted[j].content
    BY <2>4 DEF Messages
  <2> QED BY <2>2, <2>3, <2>5
<1>5. ASSUME NEW c \in Viewers, Show(c) PROVE P
  <2>1. PICK h \in DOMAIN posted : posted' = Retired([posted EXCEPT ![h].to = @ \ {c}])
    BY <1>5 DEF Show
  <2>2. PICK r : r = [posted EXCEPT ![h].to = @ \ {c}]
    OBVIOUS
  <2>3. h \in 1..Len(posted)
    BY DEF ControlTypeOK
  <2>4. r \in Seq(Messages) /\ Len(r) = Len(posted)
    BY <2>2, <2>3, WithoutTyped DEF ControlTypeOK
  <2>5. PICK j \in 1..Len(r) : posted'[i] = r[j]
    BY <2>1, <2>2, <2>4, RetiredFrom, ZenonT(60)
  <2>6. posted[j] \in Messages /\ posted[h] \in Messages
    BY <2>3, <2>4 DEF ControlTypeOK
  <2>7. r[j].content = posted[j].content
    BY <2>2, <2>3, <2>4, <2>6, SMTT(60) DEF ControlTypeOK, Messages
  <2> QED BY <2>4, <2>5, <2>7
<1> HIDE DEF P
<1>8. P
  BY <1>1, <1>2, <1>3, <1>4, <1>5 DEF ControlNext, Update, Worker, Manager, control,
     hubState, SendCursor, SetColorTransform, WakeAll, RetryDue, Woken, CopyState, BeginWork,
     NoPost, CompleteWork, AddBegin, AddEvents, AddAttach, AddEnd,
     RemoveBegin, RemoveWakes, RemoveQuiet, TakeFailure, RequestReplay, Subscribe
<1> QED BY <1>8 DEF P

\* A client shows what it showed, nothing, or a message of its queue.
LEMMA ShowsStep ==
  ASSUME ControlTypeOK, [ControlNext]_control, NEW c \in Viewers
  PROVE  \/ viewer'[c].shows \in {viewer[c].shows, None}
         \/ \E j \in 1..Len(posted) : viewer'[c].shows =
              Merge(posted[j].kind, posted[j].content, viewer[c].shows)
<1> DEFINE P == \/ viewer'[c].shows \in {viewer[c].shows, None}
                \/ \E j \in 1..Len(posted) : viewer'[c].shows =
                     Merge(posted[j].kind, posted[j].content, viewer[c].shows)
<1>1. ASSUME viewer' = viewer PROVE P
  BY <1>1
<1>2. ASSUME RemoveEnd PROVE P
  BY <1>2 DEF RemoveEnd
<1>3. ASSUME NEW d \in Viewers, Subscribe(d) \/ Leave(d) PROVE P
  BY <1>3 DEF Subscribe, Leave, ControlTypeOK
<1>4. ASSUME NEW d \in Viewers, Show(d) PROVE P
  <2>1. PICK i \in DOMAIN posted : viewer' = [viewer EXCEPT ![d].shows =
                          Merge(posted[i].kind, posted[i].content, @)]
    BY <1>4 DEF Show
  <2>2. i \in 1..Len(posted)
    BY DEF ControlTypeOK
  <2>3. CASE c = d
    <3>1. viewer[c] \in Shown
      BY DEF ControlTypeOK
    <3>2. viewer'[c] = [viewer[c] EXCEPT !.shows =
            Merge(posted[i].kind, posted[i].content, viewer[c].shows)]
      BY <2>1, <2>3 DEF ControlTypeOK
    <3>3. viewer'[c].shows = Merge(posted[i].kind, posted[i].content, viewer[c].shows)
      BY <3>1, <3>2 DEF Shown
    <3> QED BY <2>2, <3>3
  <2>4. CASE c # d
    BY <2>1, <2>4 DEF ControlTypeOK
  <2> QED BY <2>3, <2>4
<1> HIDE DEF P
<1>8. P
  BY <1>1, <1>2, <1>3, <1>4 DEF ControlNext, Update, Worker, Manager, control,
     hubState, SendCursor, SetColorTransform, WakeAll, RetryDue, Woken, CopyState, BeginWork,
     Post, NoPost, CompleteWork, AddBegin, AddEvents, AddAttach, AddEnd,
     RemoveBegin, RemoveWakes, RemoveQuiet, TakeFailure, RequestReplay
<1> QED BY <1>8 DEF P

\* Nothing is known at first.
LEMMA NoneAheadInit == ControlInit => NoneAhead
<1> SUFFICES ASSUME ControlInit PROVE NoneAhead
  OBVIOUS
<1>1. Below(None, state)
  BY DEF ControlInit, Below, None
<1>2. sink.delivered = None /\ hand.copy = None /\ Len(posted) = 0
  BY DEF ControlInit, Empty
<1>3. ASSUME NEW c \in Viewers PROVE viewer[c].shows = None
  BY DEF ControlInit
<1> QED BY <1>1, <1>2, <1>3 DEF NoneAhead

\* Whatever is copied, posted, recorded or shown was the newest once.
LEMMA NoneAheadStep ==
  ASSUME ControlTypeOK, ControlTypeOK', NoneAhead, [ControlNext]_control PROVE NoneAhead'
<1>1. ASSUME NEW k \in Kinds, NEW a \in Revisions, NEW b \in Revisions,
             Below(a, state), Below(b, state)
      PROVE  /\ Merge(k, a, b) \in Revisions /\ Below(Merge(k, a, b), state)
             /\ Carried(k, a) \in Revisions /\ Below(Carried(k, a), state)
             /\ None \in Revisions /\ Below(None, state)
             /\ state \in Revisions /\ Below(state, state)
  <2>1. state \in Revisions /\ Below(state, state)
    BY DEF ControlTypeOK, Below, Revisions
  <2>2. Below(Merge(k, a, b), state)
    BY <1>1, BuiltOf DEF Below
  <2>3. Below(Carried(k, a), state) /\ Below(None, state)
    BY <1>1, <2>1, BuiltOf DEF Below, Revisions
  <2> QED BY <2>1, <2>2, <2>3, BuiltOf
<1>2. /\ sink.delivered \in Revisions /\ Below(sink.delivered, state)
      /\ hand.copy \in Revisions /\ Below(hand.copy, state) /\ hand.work.kind \in Kinds
  BY DEF ControlTypeOK, Slots, Hands, Works, NoneAhead
<1>3. Below(sink'.delivered, state')
  <2>1. sink'.delivered \in Revisions /\ Below(sink'.delivered, state)
    BY <1>1, <1>2, DeliveredStep
  <2> QED BY <2>1, BelowStays
<1>4. Below(hand'.copy, state')
  <2>1. hand'.copy \in Revisions /\ Below(hand'.copy, state)
    BY <1>1, <1>2, CopyStep
  <2> QED BY <2>1, BelowStays
<1>5. ASSUME NEW j \in 1..Len(posted)
      PROVE  /\ posted[j].kind \in Kinds
             /\ posted[j].content \in Revisions /\ Below(posted[j].content, state)
  <2>1. posted[j] \in Messages
    BY DEF ControlTypeOK
  <2> QED BY <2>1 DEF Messages, NoneAhead
<1>6. ASSUME NEW i \in 1..Len(posted') PROVE Below(posted'[i].content, state')
  <2>1. posted'[i].content \in Revisions /\ Below(posted'[i].content, state)
    BY <1>2, <1>5, PostedStep
  <2> QED BY <2>1, BelowStays
<1>7. ASSUME NEW c \in Viewers PROVE Below(viewer'[c].shows, state')
  <2>1. viewer[c].shows \in Revisions /\ Below(viewer[c].shows, state)
    BY DEF ControlTypeOK, Shown, NoneAhead
  <2>2. viewer'[c].shows \in Revisions /\ Below(viewer'[c].shows, state)
    <3>1. CASE viewer'[c].shows \in {viewer[c].shows, None}
      <4>1. None \in Revisions /\ Below(None, state)
        BY <1>1, <1>2
      <4> QED BY <2>1, <3>1, <4>1
    <3>2. ASSUME NEW j \in 1..Len(posted),
                 viewer'[c].shows = Merge(posted[j].kind, posted[j].content, viewer[c].shows)
          PROVE  viewer'[c].shows \in Revisions /\ Below(viewer'[c].shows, state)
      BY <1>1, <1>5, <2>1, <3>2, ZenonT(60)
    <3> QED BY <3>1, <3>2, ShowsStep
  <2> QED BY <2>2, BelowStays
<1> QED BY <1>3, <1>4, <1>6, <1>7 DEF NoneAhead

-----------------------------------------------------------------------------
(* The wake                                                                  *)

\* A revision is raised before its wake, and a replay, an Add and a completed
\* work wake the worker themselves.
LEMMA WakeStep ==
  ASSUME ControlTypeOK, ControlTypeOK', Slot, AtWork, NoLostWake, [ControlNext]_control
  PROVE  NoLostWake'
<1>1. ASSUME NEW shape \in BOOLEAN, SendCursor(shape) PROVE NoLostWake'
  <2>1. UNCHANGED <<sink, wake, hand, manager>>
    BY <1>1 DEF SendCursor
  <2>2. ASSUME NEW k \in Kinds
        PROVE  (state'[k] = state[k] \/ k \in waking') /\ (k \in waking => k \in waking')
    BY <1>1 DEF SendCursor, ControlTypeOK, Revisions
  <2> QED BY <2>1, <2>2 DEF NoLostWake, Seen
<1>2. ASSUME SetColorTransform PROVE NoLostWake'
  BY <1>2 DEF SetColorTransform, NoLostWake, Seen
<1>3. ASSUME NEW k \in Kinds, WakeAll(k) PROVE NoLostWake'
  BY <1>3 DEF WakeAll, NoLostWake, Seen
<1>4. ASSUME NEW k \in Kinds, RetryDue(k) PROVE NoLostWake'
  BY <1>4 DEF RetryDue, hubState, NoLostWake, Seen
<1>5. ASSUME Woken PROVE NoLostWake'
  BY <1>5 DEF Woken, NoLostWake
<1>6. ASSUME CopyState PROVE NoLostWake'
  BY <1>6 DEF CopyState, hubState, NoLostWake, Seen
<1>7. ASSUME BeginWork PROVE NoLostWake'
  <2>1. CASE sink.active /\ Due # {}
    <3>1. hand'.at = "call"
      BY <1>7, <2>1 DEF BeginWork, ControlTypeOK, Hands
    <3> QED BY <3>1 DEF NoLostWake
  <2>2. CASE ~(sink.active /\ Due # {})
    <3>1. /\ UNCHANGED <<state, waking, wake, manager, sink>> /\ hand'.at = "wait"
          /\ hand'.wait = "infinite" => ~(sink.active /\ Pending # {})
      BY <1>7, <2>2 DEF BeginWork, hubState, ControlTypeOK, Hands
    <3>2. Pending = {} => \A k \in Kinds : hand.copy[k] = sink.delivered[k]
      BY DEF Pending
    <3>3. hand.at = "begin"
      BY <1>7 DEF BeginWork
    <3> QED BY <3>1, <3>2, <3>3 DEF NoLostWake, Seen
  <2> QED BY <2>1, <2>2
<1>8. ASSUME Post PROVE NoLostWake'
  BY <1>8 DEF Post, NoLostWake
<1>9. ASSUME NoPost PROVE NoLostWake'
  BY <1>9 DEF NoPost, NoLostWake
<1>10. ASSUME CompleteWork PROVE NoLostWake'
  BY <1>10 DEF CompleteWork, AtWork, InSink, NoLostWake
<1>11. ASSUME AddBegin PROVE NoLostWake'
  <2>1. ~sink'.active
    BY <1>11 DEF AddBegin, Empty
  <2> QED BY <2>1 DEF NoLostWake
<1>12. ASSUME AddEvents PROVE NoLostWake'
  BY <1>12 DEF AddEvents, Slot, NoLostWake
<1>13. ASSUME AddAttach PROVE NoLostWake'
  BY <1>13 DEF AddAttach, NoLostWake
<1>14. ASSUME AddEnd PROVE NoLostWake'
  BY <1>14 DEF AddEnd, NoLostWake, Seen
<1>15. ASSUME RemoveBegin PROVE NoLostWake'
  BY <1>15 DEF RemoveBegin, NoLostWake
<1>16. ASSUME RemoveWakes PROVE NoLostWake'
  BY <1>16 DEF RemoveWakes, Slot, NoLostWake
<1>17. ASSUME RemoveQuiet PROVE NoLostWake'
  BY <1>17 DEF RemoveQuiet, Slot, NoLostWake
<1>18. ASSUME RemoveEnd PROVE NoLostWake'
  <2>1. ~sink'.active
    BY <1>18 DEF RemoveEnd, Empty
  <2> QED BY <2>1 DEF NoLostWake
<1>19. ASSUME TakeFailure PROVE NoLostWake'
  BY <1>19 DEF TakeFailure, hubState, NoLostWake, Seen
<1>20. ASSUME RequestReplay PROVE NoLostWake'
  BY <1>20 DEF RequestReplay, hubState, NoLostWake, Seen
<1>21. ASSUME NEW c \in Viewers, Subscribe(c) PROVE NoLostWake'
  BY <1>21 DEF Subscribe, hubState, NoLostWake, Seen
<1>22. ASSUME NEW c \in Viewers, Leave(c) PROVE NoLostWake'
  BY <1>22 DEF Leave, hubState, NoLostWake, Seen
<1>23. ASSUME NEW c \in Viewers, Show(c) PROVE NoLostWake'
  BY <1>23 DEF Show, hubState, NoLostWake, Seen
<1>24. CASE UNCHANGED control
  BY <1>24 DEF control, hubState, NoLostWake, Seen
<1> QED
  BY <1>1, <1>2, <1>3, <1>4, <1>5, <1>6, <1>7, <1>8, <1>9, <1>10, <1>11, <1>12, <1>13,
     <1>14, <1>15, <1>16, <1>17, <1>18, <1>19, <1>20, <1>21, <1>22, <1>23, <1>24
  DEF ControlNext, Update, Worker, Manager

-----------------------------------------------------------------------------
(* What the clients end with                                                 *)

\* A client that reads its next message ends with what it would have ended
\* with, and so does everyone else.
LEMMA ShowKeeps ==
  ASSUME ControlTypeOK, NEW c \in Viewers, Show(c),
         NEW d \in Viewers, NEW k \in Kinds, NEW v,
         EndsWith(posted, viewer[d].shows[k], d, k, v)
  PROVE  EndsWith(posted', viewer'[d].shows[k], d, k, v)
<1>1. PICK i \in DOMAIN posted :
        /\ c \in posted[i].to /\ \A j \in 1..(i - 1) : c \notin posted[j].to
        /\ viewer' = [viewer EXCEPT ![c].shows =
                        Merge(posted[i].kind, posted[i].content, @)]
        /\ posted' = Retired([posted EXCEPT ![i].to = @ \ {c}])
  BY DEF Show
<1>2. PICK r : r = [posted EXCEPT ![i].to = @ \ {c}]
  OBVIOUS
<1>3. /\ posted \in Seq(Messages) /\ i \in 1..Len(posted) /\ Len(posted) \in Nat
      /\ DOMAIN posted = 1..Len(posted)
  BY DEF ControlTypeOK
<1>4. r \in Seq(Messages) /\ Len(r) = Len(posted)
  BY <1>2, <1>3, WithoutTyped
<1>5. ASSUME NEW j \in 1..Len(posted), j # i PROVE r[j] = posted[j]
  BY <1>2, <1>3, <1>5
<1>6. posted[i] \in Messages /\ r[i] = [posted[i] EXCEPT !.to = @ \ {c}]
  <2>1. posted[i] \in Messages
    BY <1>3, ElementOfSeq
  <2> QED BY <1>2, <1>3, <2>1
<1>7. r[i].to = posted[i].to \ {c} /\ r[i].kind = posted[i].kind
      /\ r[i].content = posted[i].content
  BY <1>6 DEF Messages
<1>8. EndsWith(r, viewer'[d].shows[k], d, k, v)
  <2>1. CASE d = c
    <3>1. viewer[c] \in Shown
      BY DEF ControlTypeOK
    <3>2. viewer'[c] = [viewer[c] EXCEPT !.shows =
            Merge(posted[i].kind, posted[i].content, viewer[c].shows)]
      BY <1>1 DEF ControlTypeOK
    <3>3. viewer'[c].shows = Merge(posted[i].kind, posted[i].content, viewer[c].shows)
      BY <3>1, <3>2 DEF Shown
    <3>4. PICK old : old = viewer[c].shows
      OBVIOUS
    <3>5. PICK q : q = posted
      OBVIOUS
    <3>6. EndsWith(r, Merge(q[i].kind, q[i].content, old)[k], c, k, v)
      BY <1>1, <1>3, <1>4, <1>5, <1>7, <2>1, <3>4, <3>5, ShowEnds
    <3> QED BY <2>1, <3>3, <3>4, <3>5, <3>6
  <2>2. CASE d # c
    <3>1. viewer'[d].shows = viewer[d].shows
      BY <1>1, <2>2 DEF ControlTypeOK
    <3>2. ASSUME NEW j \in 1..Len(posted)
          PROVE  (Tells(r[j], d, k) <=> Tells(posted[j], d, k))
                 /\ r[j].content = posted[j].content
      <4>1. CASE j = i
        BY <1>7, <2>2, <4>1 DEF Tells
      <4>2. CASE j # i
        BY <1>5, <4>2
      <4> QED BY <4>1, <4>2
    <3> QED BY <1>3, <1>4, <3>1, <3>2, SameEnds
  <2> QED BY <2>1, <2>2
<1> QED BY <1>1, <1>2, <1>4, <1>8, RetiredEnds

\* A client that leaves takes nothing from the others.
LEMMA LeaveKeeps ==
  ASSUME ControlTypeOK, NEW c \in Viewers, Leave(c),
         NEW d \in Viewers, d # c, NEW k \in Kinds, NEW v,
         EndsWith(posted, viewer[d].shows[k], d, k, v)
  PROVE  EndsWith(posted', viewer'[d].shows[k], d, k, v)
<1>1. PICK r : r = [i \in DOMAIN posted |-> [posted[i] EXCEPT !.to = @ \ {c}]]
  OBVIOUS
<1>2. r \in Seq(Messages) /\ Len(r) = Len(posted)
  BY <1>1, WithoutTyped DEF ControlTypeOK
<1>3. posted \in Seq(Messages) /\ DOMAIN posted = 1..Len(posted)
  BY DEF ControlTypeOK
<1>4. ASSUME NEW j \in 1..Len(posted)
      PROVE  (Tells(r[j], d, k) <=> Tells(posted[j], d, k))
             /\ r[j].content = posted[j].content
  <2>1. posted[j] \in Messages
    BY <1>3, ElementOfSeq
  <2>2. r[j] = [posted[j] EXCEPT !.to = @ \ {c}]
    BY <1>1, <1>3, <2>1
  <2>3. r[j].to = posted[j].to \ {c} /\ r[j].kind = posted[j].kind
        /\ r[j].content = posted[j].content
    BY <2>1, <2>2 DEF Messages
  <2> QED BY <2>3 DEF Tells
<1>5. viewer'[d].shows = viewer[d].shows
  BY DEF Leave, ControlTypeOK
<1>6. EndsWith(r, viewer'[d].shows[k], d, k, v)
  BY <1>2, <1>3, <1>4, <1>5, SameEnds
<1> QED BY <1>1, <1>2, <1>6, RetiredEnds DEF Leave

\* Steps that do not touch what the clients have, the record and the post.
LEMMA QuietStep ==
  ASSUME ControlTypeOK, DeliveredIsTrue, UNCHANGED <<posted, viewer, newSubs>>,
         sink'.active => sink.active, sink'.delivered = sink.delivered,
         \/ hand' = hand
         \/ hand.at # "done" /\ ~(hand'.at = "done" /\ hand'.result = "APPLIED")
  PROVE  DeliveredIsTrue'
<1> SUFFICES ASSUME sink.active, ~newSubs, NEW c \in Subscribed, NEW k \in Kinds
             PROVE  Recorded(c, k)'
  BY DEF DeliveredIsTrue, Subscribed
<1>1. Recorded(c, k)
  BY DEF DeliveredIsTrue
<1> QED BY <1>1 DEF Recorded, Applied, Ends

\* What is posted is what its clients end with until something else is.
LEMMA PostTrue ==
  ASSUME ControlTypeOK, DeliveredIsTrue, Post PROVE DeliveredIsTrue'
<1> SUFFICES ASSUME sink.active, ~newSubs, NEW c \in Subscribed, NEW k \in Kinds
             PROVE  Recorded(c, k)'
  BY DEF DeliveredIsTrue, Subscribed, Post
<1>1. Recorded(c, k)
  BY DEF DeliveredIsTrue
<1>2. /\ posted' = Append(posted, Message) /\ hand.at = "call"
      /\ UNCHANGED <<sink, viewer>>
  BY DEF Post
<1>3. Message \in Messages /\ posted \in Seq(Messages)
  BY DEF Message, Messages, Subscribed, ControlTypeOK, Hands, Works
<1>4. /\ hand'.copy = hand.copy /\ hand'.at = "done" /\ hand'.result = "APPLIED"
      /\ hand'.work = hand.work
  BY DEF Post, ControlTypeOK, Hands
<1>5. Tells(Message, c, k) <=> k \in Part(hand.work.kind)
  BY DEF Tells, Message
<1>6. CASE k \in Part(hand.work.kind)
  <2>1. EndsWith(posted', viewer[c].shows[k], c, k, Message.content[k])
    BY <1>2, <1>3, <1>5, <1>6, AppendTells
  <2>2. Message.content[k] = hand'.copy[k]
    BY <1>4 DEF Message
  <2> QED BY <1>2, <1>4, <1>6, <2>1, <2>2 DEF Recorded, Applied, Ends
<1>7. CASE k \notin Part(hand.work.kind)
  <2>1. ~Applied(k) /\ ~Applied(k)'
    BY <1>2, <1>4, <1>7 DEF Applied
  <2>2. ASSUME sink.delivered[k] # 0
        PROVE  EndsWith(posted', viewer[c].shows[k], c, k, sink.delivered[k])
    <3>1. EndsWith(posted, viewer[c].shows[k], c, k, sink.delivered[k])
      BY <1>1, <2>1, <2>2 DEF Recorded, Ends
    <3> QED BY <1>2, <1>3, <1>5, <1>7, <3>1, AppendSilent
  <2> QED BY <1>2, <2>1, <2>2 DEF Recorded, Ends
<1> QED BY <1>6, <1>7

\* CompleteWork records what it posted, unless a replay has begun since.
LEMMA CompleteTrue ==
  ASSUME ControlTypeOK, Slot, AtWork, DeliveredIsTrue, CompleteWork PROVE DeliveredIsTrue'
<1>1. UNCHANGED <<posted, viewer, newSubs>> /\ hand.at = "done" /\ hand'.at = "wait"
  BY DEF CompleteWork, ControlTypeOK, Hands
<1>2. ~Applied(POSITION)' /\ \A k \in Kinds : ~Applied(k)'
  BY <1>1 DEF Applied
<1> SUFFICES ASSUME sink'.active, ~newSubs, NEW c \in Subscribed, NEW k \in Kinds,
                    sink'.delivered[k] # 0
             PROVE  EndsWith(posted, viewer[c].shows[k], c, k, sink'.delivered[k])
  BY <1>1, <1>2 DEF DeliveredIsTrue, Subscribed, Recorded, Ends
<1>3. sink.active /\ (hand.result # "FAILED")
  BY <1>1 DEF CompleteWork, AtWork, InSink, Slot, ControlTypeOK, Slots, Delivered
<1>4. Recorded(c, k)
  BY <1>3 DEF DeliveredIsTrue
<1>5. sink.bound /\ hand.work.bound /\ hand.result \in {"APPLIED", "RETRY"}
  BY <1>1, <1>3 DEF AtWork, InSink, ControlTypeOK, Hands
<1>6. CASE ~hand.work.fresh
  <2>1. sink' = sink /\ sink.delivered = None
    BY <1>1, <1>3, <1>5, <1>6 DEF CompleteWork, Counts, AtWork, InSink
  <2> QED BY <2>1 DEF None
<1>7. CASE hand.work.fresh /\ hand.result = "RETRY"
  <2>1. sink'.delivered = sink.delivered
    BY <1>3, <1>5, <1>7 DEF CompleteWork, Counts, ControlTypeOK, Slots
  <2>2. ~Applied(k)
    BY <1>7 DEF Applied
  <2> QED BY <1>4, <2>1, <2>2 DEF Recorded, Ends
<1>8. CASE hand.work.fresh /\ hand.result = "APPLIED"
  <2>1. sink' = Delivered(sink, hand.work.kind, hand.copy)
    BY <1>3, <1>5, <1>8 DEF CompleteWork, Counts
  <2>2. sink'.delivered = Merge(hand.work.kind, hand.copy, sink.delivered)
    BY <2>1 DEF Delivered, ControlTypeOK, Slots
  <2>3. CASE k \in Part(hand.work.kind)
    <3>1. sink'.delivered[k] = hand.copy[k]
      BY <2>2, <2>3 DEF Merge
    <3> QED BY <1>1, <1>4, <1>8, <2>3, <3>1 DEF Recorded, Applied, Ends
  <2>4. CASE k \notin Part(hand.work.kind)
    <3>1. sink'.delivered[k] = sink.delivered[k]
      BY <2>2, <2>4 DEF Merge
    <3> QED BY <1>4, <2>4, <3>1 DEF Recorded, Applied, Ends
  <2> QED BY <2>3, <2>4
<1> QED BY <1>5, <1>6, <1>7, <1>8

\* A replay starts the record anew, and an inactive sink has none.
LEMMA ReplayTrue ==
  ASSUME ControlTypeOK, Slot, AtWork, DeliveredIsTrue, RequestReplay PROVE DeliveredIsTrue'
<1>1. CASE events /\ (sink.active \/ sink.reserved)
  <2>1. sink'.delivered = None
    BY <1>1 DEF RequestReplay, ControlTypeOK, Slots
  <2>2. hand' = [hand EXCEPT !.work = [hand.work EXCEPT !.fresh = FALSE]]
    BY <1>1 DEF RequestReplay, ControlTypeOK, Hands
  <2>3. ~hand'.work.fresh
    BY <2>2 DEF ControlTypeOK, Hands, Works
  <2>4. ASSUME NEW c \in Viewers, NEW k \in Kinds PROVE Recorded(c, k)'
    BY <2>1, <2>3 DEF Recorded, None
  <2> QED BY <2>4 DEF DeliveredIsTrue, Subscribed
<1>2. CASE ~(events /\ (sink.active \/ sink.reserved))
  <2>1. ~sink'.active
    BY <1>2 DEF RequestReplay, Slot
  <2> QED BY <2>1 DEF DeliveredIsTrue
<1> QED BY <1>1, <1>2

\* So does Add: the sink that is attached has been told nothing.
LEMMA AttachTrue ==
  ASSUME ControlTypeOK, Slot, AtWork, AddAttach PROVE DeliveredIsTrue'
<1>1. sink'.delivered = None /\ ~InSink /\ hand'.at = hand.at
  BY DEF AddAttach, Slot, AtWork, ControlTypeOK, Slots, Hands
<1>2. ASSUME NEW c \in Viewers, NEW k \in Kinds PROVE Recorded(c, k)'
  BY <1>1 DEF Recorded, None, Applied, InSink
<1> QED BY <1>2 DEF DeliveredIsTrue, Subscribed

\* What every client ends with is what the sink recorded, after every step.
LEMMA TrueStep ==
  ASSUME ControlTypeOK, Slot, AtWork, DeliveredIsTrue, [ControlNext]_control
  PROVE  DeliveredIsTrue'
<1>1. ASSUME NEW c \in Viewers, Show(c) \/ Leave(c) PROVE DeliveredIsTrue'
  <2> SUFFICES ASSUME sink.active, ~newSubs, NEW d \in Viewers, viewer'[d].sub, NEW k \in Kinds
               PROVE  Recorded(d, k)'
    BY <1>1 DEF DeliveredIsTrue, Subscribed, Show, Leave
  <2>1. viewer[d].sub /\ (Leave(c) => d # c)
    <3>1. viewer[c] \in Shown /\ viewer[d] \in Shown
      BY DEF ControlTypeOK
    <3>2. CASE Leave(c)
      BY <3>1, <3>2 DEF Leave, ControlTypeOK
    <3>3. CASE Show(c)
      <4>1. PICK s : viewer' = [viewer EXCEPT ![c] = [viewer[c] EXCEPT !.shows = s]]
        BY <3>3 DEF Show, ControlTypeOK
      <4>2. viewer'[d].sub = viewer[d].sub
        BY <3>1, <4>1 DEF ControlTypeOK, Shown
      <4>3. CASE d = c
        <5>1. ~Leave(c) \/ d # c
          BY <3>3, <4>2, <4>3 DEF Leave, ControlTypeOK
        <5> QED BY <4>2, <5>1
      <4> QED BY <4>2, <4>3
    <3> QED BY <1>1, <3>2, <3>3
  <2>2. Recorded(d, k)
    BY <2>1 DEF DeliveredIsTrue, Subscribed
  <2>3. UNCHANGED <<sink, hand>>
    BY <1>1 DEF Show, Leave
  <2>4. ASSUME NEW v, EndsWith(posted, viewer[d].shows[k], d, k, v)
        PROVE  EndsWith(posted', viewer'[d].shows[k], d, k, v)
    BY <1>1, <2>1, <2>4, ShowKeeps, LeaveKeeps
  <2> QED BY <2>2, <2>3, <2>4 DEF Recorded, Applied, Ends
<1>2. ASSUME \/ \E shape \in BOOLEAN : SendCursor(shape)
             \/ SetColorTransform \/ AddEvents \/ AddEnd \/ RemoveWakes \/ RemoveQuiet
             \/ UNCHANGED control
      PROVE  DeliveredIsTrue'
  <2>1. UNCHANGED <<sink, hand, posted, viewer, newSubs>>
    BY <1>2 DEF SendCursor, SetColorTransform, AddEvents, AddEnd, RemoveWakes, RemoveQuiet,
      control, hubState
  <2> QED BY <2>1, QuietStep
<1>3. ASSUME \/ \E k \in Kinds : WakeAll(k) \/ RetryDue(k)
             \/ RemoveBegin \/ TakeFailure
      PROVE  DeliveredIsTrue'
  <2>1. UNCHANGED <<hand, posted, viewer, newSubs>>
    BY <1>3 DEF WakeAll, RetryDue, RemoveBegin, TakeFailure
  <2>2. (sink'.active => sink.active) /\ sink'.delivered = sink.delivered
    BY <1>3 DEF WakeAll, RetryDue, RemoveBegin, TakeFailure, ControlTypeOK, Slots
  <2> QED BY <2>1, <2>2, QuietStep
<1>4. ASSUME Woken \/ CopyState \/ NoPost PROVE DeliveredIsTrue'
  <2>1. UNCHANGED <<sink, posted, viewer, newSubs>>
    BY <1>4 DEF Woken, CopyState, NoPost
  <2>2. hand.at # "done" /\ ~(hand'.at = "done" /\ hand'.result = "APPLIED")
    BY <1>4 DEF Woken, CopyState, NoPost, ControlTypeOK, Hands
  <2> QED BY <2>1, <2>2, QuietStep
<1>5. ASSUME BeginWork PROVE DeliveredIsTrue'
  <2>1. UNCHANGED <<posted, viewer, newSubs>> /\ hand.at = "begin"
    BY <1>5 DEF BeginWork
  <2>2. hand'.at # "done"
    BY <1>5 DEF BeginWork, ControlTypeOK, Hands
  <2>3. (sink'.active => sink.active) /\ sink'.delivered = sink.delivered
    BY <1>5 DEF BeginWork, ControlTypeOK, Slots
  <2> QED BY <2>1, <2>2, <2>3, QuietStep
<1>6. ASSUME AddBegin \/ RemoveEnd PROVE DeliveredIsTrue'
  <2>1. ~[Empty EXCEPT !.reserved = TRUE, !.bound = TRUE].active /\ ~Empty.active
    BY DEF Empty
  <2>2. ~sink'.active
    BY <1>6, <2>1 DEF AddBegin, RemoveEnd
  <2> QED BY <2>2 DEF DeliveredIsTrue
<1>7. ASSUME NEW c \in Viewers, Subscribe(c) PROVE DeliveredIsTrue'
  BY <1>7 DEF Subscribe, DeliveredIsTrue
<1> QED BY <1>1, <1>2, <1>3, <1>4, <1>5, <1>6, <1>7, PostTrue, CompleteTrue, ReplayTrue, AttachTrue
      DEF ControlNext, Update, Worker, Manager

-----------------------------------------------------------------------------
(* The theorems                                                              *)

\* The invariant holds at first.
LEMMA InvInit == ControlInit => ControlInv
<1> SUFFICES ASSUME ControlInit PROVE ControlInv
  OBVIOUS
<1>1. ~sink.active /\ ~sink.failed /\ ~sink.reserved
  BY DEF ControlInit, Empty
<1>2. Slot /\ AtWork
  BY <1>1 DEF ControlInit, Slot, AtWork, InSink
<1>3. DeliveredIsTrue /\ NoLostWake
  BY <1>1 DEF DeliveredIsTrue, NoLostWake
<1> QED BY <1>2, <1>3, InitTyped, NoneAheadInit DEF ControlInv

\* Every step keeps the invariant.
LEMMA InvStep == ControlInv /\ [ControlNext]_control => ControlInv'
BY StepTyped, SlotStep, AtWorkStep, NoneAheadStep, TrueStep, WakeStep DEF ControlInv

\* The hub keeps its types, its stages and its record at every step of
\* CControlHub, CLGMPControl and their clients.
THEOREM ControlInductive == ControlSpec => []ControlInv
BY InvInit, InvStep, PTL DEF ControlSpec

\* Once CControlHub::Remove has waited for idle, the worker is not in the sink
\* that its caller destroys, and cannot enter it.
THEOREM ControlRemovedIsQuiet == ControlSpec => []RemovedIsQuiet
<1>1. ControlInv => RemovedIsQuiet
  BY DEF ControlInv, Slot, AtWork, InSink, RemovedIsQuiet
<1> QED BY <1>1, ControlInductive, PTL

\* A client that has read everything shows what the sink recorded, and a
\* kind that was never delivered was never sent.
LEMMA SleepingOwesNothing == ControlInv => NothingForgotten
<1> SUFFICES ASSUME ControlInv, sink.active, manager = "idle", waking = {}, ~newSubs,
                    hand.at = "wait", hand.wait = "infinite", ~wake,
                    NEW c \in Subscribed, ~ToRead(c)
             PROVE  viewer[c].shows = state
  BY DEF NothingForgotten
<1>1. c \in Viewers /\ viewer[c].shows \in Revisions /\ state \in Revisions
  BY DEF Subscribed, ControlInv, ControlTypeOK, Shown
<1>2. ASSUME NEW k \in Kinds PROVE viewer[c].shows[k] = state[k]
  <2>1. sink.delivered[k] = state[k]
    BY DEF ControlInv, NoLostWake, Seen
  <2>2. viewer[c].shows[k] <= state[k] /\ viewer[c].shows[k] \in Nat /\ state[k] \in Nat
    BY <1>1 DEF ControlInv, NoneAhead, Below, Revisions
  <2>3. CASE state[k] = 0
    BY <2>2, <2>3
  <2>4. CASE state[k] # 0
    <3>1. EndsWith(posted, viewer[c].shows[k], c, k, state[k])
      BY <2>1, <2>4 DEF ControlInv, DeliveredIsTrue, Recorded, Applied, Ends
    <3>2. ASSUME NEW i \in 1..Len(posted) PROVE ~Tells(posted[i], c, k)
      <4>1. i \in DOMAIN posted
        BY DEF ControlInv, ControlTypeOK
      <4> QED BY <4>1 DEF ToRead, Tells
    <3> QED BY <3>1, <3>2 DEF EndsWith
  <2> QED BY <2>3, <2>4
<1> QED BY <1>1, <1>2 DEF Revisions

\* Whenever CControlHub's worker sleeps without a timeout, whoever is
\* subscribed shows, or has in its queue, the newest position, shape and
\* transform: for any number of clients and revisions.
THEOREM ControlNothingForgotten == ControlSpec => []NothingForgotten
BY SleepingOwesNothing, ControlInductive, PTL
=============================================================================

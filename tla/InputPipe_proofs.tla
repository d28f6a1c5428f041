-------------------------- MODULE InputPipe_proofs --------------------------
(***************************************************************************)
(* For every length of the two queues and of the pipe, and with both mice  *)
(* and the keyboard in use at once: a connection is not ended by the late  *)
(* failure of an earlier one nor by a gap in the sequence (LinkKept), what *)
(* was held is released when the connection is lost (Released), and once   *)
(* nothing is under way the guest holds what the sink was last asked for   *)
(* (QuietMatches).                                                         *)
(*                                                                         *)
(* The argument follows a report on its way.  Settles says what Windows    *)
(* will see held by one kind of report once it has read what the device    *)
(* has queued; submitting, absorbing, compacting and reading keep it.  The *)
(* reports between the sink and the device are one sequence, Stream,       *)
(* whichever of the pipe, the sender's hand and the queue they are in: its *)
(* last report of a kind is what the sink was last asked for, and a mouse  *)
(* reports only after the other one has released its buttons.              *)
(***************************************************************************)
EXTENDS InputPipe, SequenceTheorems, WellFoundedInduction, TLAPS

Modes == MouseTypes \cup {"none"}
Keys  == {"key", "media", "button", "unknown"}
Kinds == MouseTypes \cup {"keyboard"}

Items    == [type : Kinds, held : SUBSET Keys, motion : BOOLEAN, state : Nat]
Messages == [type : Kinds, held : SUBSET Keys, sequence : Nat]
Reports  == [type : ReportTypes, held : SUBSET Keys, motion : BOOLEAN]
Notes    == [type : Kinds, held : SUBSET Keys]
Devices  == [reports : Seq(Reports), mouseMode : Modes,
             buttons : [MouseTypes -> SUBSET Keys], consumerUsage : SUBSET Keys,
             overflow : BOOLEAN, readPending : BOOLEAN,
             guest : [ReportTypes -> SUBSET Keys], cut : BOOLEAN]

\* What the variables range over.
TypeInv ==
  /\ m_state \in Nat
  /\ m_queue \in Seq(Items)
  /\ m_mouseMode \in Modes
  /\ m_buttons \in [MouseTypes -> SUBSET Keys]
  /\ m_sequence \in Nat
  /\ sending \in Items \cup {None} \cup [type : {"failed"}, state : Nat]
  /\ m_connected \in BOOLEAN
  /\ reading \in BOOLEAN
  /\ link \in {"listen", "up", "serverGone", "clientGone"}
  /\ wire \in Seq(Messages)
  /\ running \in BOOLEAN
  /\ m_lastSequence \in Nat
  /\ dev \in Devices
  /\ asked \in SUBSET Keys
  /\ cut \in BOOLEAN

-----------------------------------------------------------------------------
(* The invariant                                                           *)

\* No report of s is of type t; the last one of type t in s holds h.
NoneIn(s, t) == \A i \in 1..Len(s) : s[i].type # t

LastIs(s, t, h) ==
  \E i \in 1..Len(s) : /\ s[i].type = t
                       /\ s[i].held = h
                       /\ \A j \in 1..Len(s) : j > i => s[j].type # t

\* What the reports of type t come to, if they come to h before s begins
\* exactly when base holds.
FinalIs(s, t, h, base) == LastIs(s, t, h) \/ (NoneIn(s, t) /\ base)

\* Windows will see h held by type t once it has read the device's queue.
Settles(d, t, h) == FinalIs(d.reports, t, h, d.guest[t] = h)

ReadOK(d) == d.readPending => d.reports = << >>

\* A mouse is known by its last report, and only the one in use holds a button.
MouseOK(d) ==
  \A t \in MouseTypes : /\ Settles(d, t, d.buttons[t])
                        /\ d.mouseMode # t => d.buttons[t] = {}

KeysAre(d, h) == /\ Settles(d, "keyboard", h \ {"media"})
                 /\ Settles(d, "consumer", h \cap {"media"})

Uncut == ~cut /\ ~dev.cut

DevInv ==
  /\ ReadOK(dev)
  /\ ~dev.overflow
  /\ Settles(dev, "consumer", dev.consumerUsage)
  /\ Uncut => MouseOK(dev)

\* The device between two connections.
Parted == link \notin {"up", "serverGone"} \/ (link = "up" /\ ~reading)

RestInv ==
  Parted => /\ KeysAre(dev, {})
            /\ Uncut => \A t \in MouseTypes : dev.buttons[t] = {}

\* The two ends of the pipe agree on whether there is a connection.
PipeInv ==
  /\ reading => link \in {"up", "clientGone"}
  /\ m_connected => reading
  /\ wire # << >> => reading /\ link = "up"
  /\ link = "up" => running
  /\ link = "up" /\ ~reading => m_lastSequence = 0

\* The sender's item is not of a later state than the sink's, and one that
\* failed in the present state has ended the connection.
SendInv ==
  /\ \A i \in 1..Len(m_queue) : m_queue[i].state = m_state
  /\ sending # None => sending.state <= m_state
  /\ sending.type = "failed" /\ sending.state = m_state => ~m_connected
  /\ m_connected => Odd(m_state)

\* The numbers on the wire.
NumberInv ==
  /\ \A i \in 1..Len(wire) : wire[i].sequence = wire[1].sequence + i - 1
  /\ wire # << >> => m_lastSequence = 0 \/ wire[1].sequence = m_lastSequence + 1
  /\ link = "up" /\ m_connected =>
       IF wire = << >> THEN m_lastSequence \in {0, m_sequence}
                       ELSE wire[Len(wire)].sequence = m_sequence

Note(x) == [type |-> x.type, held |-> x.held]
NotesOf(s) == [i \in 1..Len(s) |-> Note(s[i])]

InHand == IF sending # None /\ sending.type # "failed" /\ sending.state = m_state
            THEN <<Note(sending)>> ELSE << >>

\* What the device has still to be given, in order.
Stream == NotesOf(wire) \o (IF Attached THEN InHand \o NotesOf(m_queue) ELSE << >>)

\* A mouse that reports after the other one held a button reports after the
\* other one's next report, too: the last of the other's holds nothing.
Switched(s, buttons) ==
  \A i \in 1..Len(s) : s[i].type \in MouseTypes =>
    /\ buttons[Other(s[i].type)] # {} =>
         \E k \in 1..Len(s) : k < i /\ s[k].type = Other(s[i].type)
    /\ \A j \in 1..Len(s) :
         j < i /\ s[j].type = Other(s[i].type) /\ s[j].held # {} =>
           \E k \in 1..Len(s) : j < k /\ k < i /\ s[k].type = Other(s[i].type)

StreamInv ==
  /\ Attached => FinalIs(Stream, "keyboard", asked, KeysAre(dev, asked))
  /\ \A t \in MouseTypes : m_mouseMode # t => m_buttons[t] = {}
  /\ Uncut =>
       /\ Switched(Stream, dev.buttons)
       /\ Attached => \A t \in MouseTypes :
            FinalIs(Stream, t, m_buttons[t], dev.buttons[t] = m_buttons[t])

IInv ==
  /\ TypeInv /\ DevInv /\ RestInv /\ PipeInv /\ SendInv /\ NumberInv /\ StreamInv

-----------------------------------------------------------------------------
(* Sequences of reports                                                    *)

\* What appending a report does to the last one of each type.
LEMMA AppendFinal ==
  ASSUME NEW S, NEW s \in Seq(S), NEW x \in S, NEW t, NEW h, NEW base
  PROVE  /\ x.type = t /\ x.held = h => LastIs(Append(s, x), t, h)
         /\ x.type # t /\ FinalIs(s, t, h, base) => FinalIs(Append(s, x), t, h, base)
         /\ x.type # t /\ NoneIn(s, t) => NoneIn(Append(s, x), t)
<1> DEFINE a == Append(s, x)
<1>1. Len(a) = Len(s) + 1 /\ a[Len(s) + 1] = x /\ \A i \in 1..Len(s) : a[i] = s[i]
  BY AppendProperties
<1>2. Len(s) \in Nat
  BY LenProperties
<1> HIDE DEF a
<1>3. x.type = t /\ x.held = h => LastIs(a, t, h)
  <2> SUFFICES ASSUME x.type = t, x.held = h PROVE LastIs(a, t, h)
    OBVIOUS
  <2>1. Len(s) + 1 \in 1..Len(a)
    BY <1>1, <1>2
  <2> QED BY <2>1, <1>1, <1>2 DEF LastIs
<1>4. x.type # t /\ NoneIn(s, t) => NoneIn(a, t)
  BY <1>1, <1>2 DEF NoneIn
<1>5. x.type # t /\ LastIs(s, t, h) => LastIs(a, t, h)
  <2> SUFFICES ASSUME x.type # t, LastIs(s, t, h) PROVE LastIs(a, t, h)
    OBVIOUS
  <2>1. PICK i \in 1..Len(s) : s[i].type = t /\ s[i].held = h
                               /\ \A j \in 1..Len(s) : j > i => s[j].type # t
    BY DEF LastIs
  <2>2. i \in 1..Len(a) /\ a[i].type = t /\ a[i].held = h
    BY <2>1, <1>1, <1>2
  <2>3. \A j \in 1..Len(a) : j > i => a[j].type # t
    BY <2>1, <1>1, <1>2
  <2> QED BY <2>2, <2>3 DEF LastIs
<1> QED BY <1>3, <1>4, <1>5 DEF a, FinalIs

\* What removing the first report does.
LEMMA TailFinal ==
  ASSUME NEW S, NEW s \in Seq(S), s # << >>, NEW t, NEW h, NEW base, FinalIs(s, t, h, base)
  PROVE  /\ s[1].type # t => FinalIs(Tail(s), t, h, base)
         /\ s[1].type = t => FinalIs(Tail(s), t, h, s[1].held = h)
<1> DEFINE r == Tail(s)
<1>1. Len(r) = Len(s) - 1 /\ \A i \in 1..Len(r) : r[i] = s[i + 1]
  BY HeadTailProperties
<1>2. Len(s) \in Nat /\ Len(s) > 0
  BY LenProperties, EmptySeq
<1> HIDE DEF r
<1>3. CASE NoneIn(s, t)
  <2>1. NoneIn(r, t) /\ s[1].type # t
    BY <1>3, <1>1, <1>2 DEF NoneIn
  <2>2. base
    <3>1. ~LastIs(s, t, h)
      BY <1>3 DEF NoneIn, LastIs
    <3> QED BY <3>1 DEF FinalIs
  <2> QED BY <2>1, <2>2 DEF r, FinalIs
<1>4. CASE LastIs(s, t, h)
  <2>1. PICK i \in 1..Len(s) : s[i].type = t /\ s[i].held = h
                               /\ \A j \in 1..Len(s) : j > i => s[j].type # t
    BY <1>4 DEF LastIs
  <2>2. CASE i = 1
    <3>1. NoneIn(r, t)
      BY <2>1, <2>2, <1>1, <1>2 DEF NoneIn
    <3> QED BY <3>1, <2>1, <2>2 DEF r, FinalIs
  <2>3. CASE i # 1
    <3>1. i - 1 \in 1..Len(r) /\ r[i - 1] = s[i]
      BY <2>3, <1>1, <1>2
    <3>2. \A j \in 1..Len(r) : j > i - 1 => r[j].type # t
      BY <2>1, <1>1, <1>2
    <3>3. LastIs(r, t, h)
      BY <3>1, <3>2, <2>1 DEF LastIs
    <3> QED BY <3>3 DEF r, FinalIs
  <2> QED BY <2>2, <2>3
<1> QED BY <1>3, <1>4 DEF FinalIs

\* A suffix without the type does not matter.
LEMMA PrefixFinal ==
  ASSUME NEW S, NEW a \in Seq(S), NEW b \in Seq(S), NEW t, NEW h, NEW base,
         NoneIn(b, t), FinalIs(a \o b, t, h, base)
  PROVE  FinalIs(a, t, h, base)
<1> DEFINE c == a \o b
<1>1. /\ Len(c) = Len(a) + Len(b)
      /\ \A i \in 1..Len(c) : c[i] = IF i <= Len(a) THEN a[i] ELSE b[i - Len(a)]
  BY ConcatProperties
<1>2. Len(a) \in Nat /\ Len(b) \in Nat
  BY LenProperties
<1>0. FinalIs(c, t, h, base)
  OBVIOUS
<1> HIDE DEF c
<1>3. CASE NoneIn(c, t)
  <2>1. NoneIn(a, t)
    BY <1>3, <1>1, <1>2 DEF NoneIn
  <2>2. ~LastIs(c, t, h)
    BY <1>3 DEF NoneIn, LastIs
  <2> QED BY <2>1, <2>2, <1>0 DEF FinalIs
<1>4. CASE LastIs(c, t, h)
  <2>1. PICK i \in 1..Len(c) : c[i].type = t /\ c[i].held = h
                               /\ \A j \in 1..Len(c) : j > i => c[j].type # t
    BY <1>4 DEF LastIs
  <2>2. i <= Len(a)
    <3> SUFFICES ASSUME i > Len(a) PROVE FALSE
      BY <1>2
    <3>1. c[i] = b[i - Len(a)] /\ i - Len(a) \in 1..Len(b)
      BY <1>1, <1>2
    <3> QED BY <3>1, <2>1 DEF NoneIn
  <2>3. a[i].type = t /\ a[i].held = h /\ i \in 1..Len(a)
    BY <2>1, <2>2, <1>1, <1>2
  <2>4. \A j \in 1..Len(a) : j > i => a[j].type # t
    BY <2>1, <1>1, <1>2
  <2>5. LastIs(a, t, h)
    BY <2>3, <2>4 DEF LastIs
  <2> QED BY <2>5 DEF FinalIs
<1> QED BY <1>0, <1>3, <1>4 DEF FinalIs

\* A sequence that ends with a report of the type ends in what it holds.
LEMMA LastFinal ==
  ASSUME NEW S, NEW s \in Seq(S), s # << >>
  PROVE  LastIs(s, s[Len(s)].type, s[Len(s)].held)
<1>1. Len(s) \in Nat /\ Len(s) > 0
  BY LenProperties, EmptySeq
<1>2. Len(s) \in 1..Len(s) /\ \A j \in 1..Len(s) : ~(j > Len(s))
  BY <1>1
<1> QED BY <1>2 DEF LastIs

\* What is left when a report is taken out.
LEMMA RemoveAtFacts ==
  ASSUME NEW S, NEW s \in Seq(S), NEW n \in 1..Len(s)
  PROVE  /\ RemoveAt(s, n) \in Seq(S)
         /\ Len(RemoveAt(s, n)) = Len(s) - 1
         /\ \A i \in 1..Len(s) - 1 : RemoveAt(s, n)[i] = IF i < n THEN s[i] ELSE s[i + 1]
<1> DEFINE r == RemoveAt(s, n)
           a == SubSeq(s, 1, n - 1)
           b == SubSeq(s, n + 1, Len(s))
<1>1. Len(s) \in Nat
  BY LenProperties
<1>2. a \in Seq(S) /\ Len(a) = n - 1 /\ \A i \in 1..n - 1 : a[i] = s[i]
  BY <1>1, SubSeqProperties
<1>3. b \in Seq(S) /\ Len(b) = Len(s) - n /\ \A i \in 1..Len(s) - n : b[i] = s[n + i]
  <2>1. CASE n = Len(s)
    <3>1. b = << >>
      BY <2>1, <1>1, SubSeqEmpty
    <3> QED BY <3>1, <2>1, <1>1
  <2>2. CASE n < Len(s)
    <3>1. n + 1 \in 1..Len(s) + 1 /\ Len(s) \in n + 1 - 1..Len(s)
      BY <2>2, <1>1
    <3>2. b \in Seq(S)
      BY <3>1, <1>1, SubSeqProperties
    <3>3. Len(b) = Len(s) - (n + 1) + 1 /\ \A i \in 1..Len(s) - (n + 1) + 1 : b[i] = s[n + 1 + i - 1]
      BY <3>1, <2>2, <1>1, SubSeqProperties
    <3>5. Len(b) = Len(s) - n
      BY <3>3, <1>1
    <3>6. ASSUME NEW i \in 1..Len(s) - n PROVE b[i] = s[n + i]
      <4>1. i \in 1..Len(s) - (n + 1) + 1 /\ n + 1 + i - 1 = n + i
        BY <1>1
      <4>2. b[i] = s[n + 1 + i - 1]
        BY <4>1, <3>3
      <4> QED BY <4>1, <4>2
    <3> QED BY <3>2, <3>5, <3>6
  <2> QED BY <2>1, <2>2, <1>1
<1>4. r = a \o b
  BY DEF RemoveAt
<1> HIDE DEF r, a, b
<1>5. /\ r \in Seq(S) /\ Len(r) = Len(s) - 1
      /\ \A i \in 1..Len(s) - 1 : r[i] = IF i < n THEN s[i] ELSE s[i + 1]
  <2>1. /\ r \in Seq(S)
        /\ Len(r) = Len(a) + Len(b)
        /\ \A i \in 1..Len(a) + Len(b) : r[i] = IF i <= Len(a) THEN a[i] ELSE b[i - Len(a)]
    BY <1>2, <1>3, <1>4, ConcatProperties
  <2>2. Len(r) = Len(s) - 1
    BY <2>1, <1>1, <1>2, <1>3
  <2>3. ASSUME NEW i \in 1..Len(s) - 1 PROVE r[i] = IF i < n THEN s[i] ELSE s[i + 1]
    <3>1. CASE i < n
      <4>1. i \in 1..Len(a) + Len(b) /\ i <= Len(a) /\ i \in 1..n - 1
        BY <3>1, <1>1, <1>2, <1>3
      <4>2. r[i] = a[i]
        BY <4>1, <2>1
      <4> QED BY <4>1, <4>2, <1>2, <3>1
    <3>2. CASE ~(i < n)
      <4>0. i \in 1..Len(a) + Len(b) /\ ~(i <= Len(a)) /\ Len(a) = n - 1
        BY <3>2, <1>1, <1>2, <1>3
      <4>1. r[i] = b[i - (n - 1)]
        BY <4>0, <2>1
      <4>2. i - (n - 1) \in 1..Len(s) - n /\ n + (i - (n - 1)) = i + 1
        BY <3>2, <1>1
      <4> QED BY <4>1, <4>2, <1>3, <3>2
    <3> QED BY <3>1, <3>2
  <2> QED BY <2>1, <2>2, <2>3
<1> QED BY <1>5 DEF r

\* Taking a report out does not matter for a type it is not of, nor when a
\* later one of its type is left.
LEMMA RemoveFinal ==
  ASSUME NEW S, NEW s \in Seq(S), NEW n \in 1..Len(s), NEW t, NEW h, NEW base,
         FinalIs(s, t, h, base),
         s[n].type # t \/ \E j \in n + 1..Len(s) : s[j].type = t
  PROVE  FinalIs(RemoveAt(s, n), t, h, base)
<1> DEFINE r == RemoveAt(s, n)
<1>1. Len(s) \in Nat
  BY LenProperties
<1>5. /\ r \in Seq(S) /\ Len(r) = Len(s) - 1
      /\ \A i \in 1..Len(s) - 1 : r[i] = IF i < n THEN s[i] ELSE s[i + 1]
  BY RemoveAtFacts
<1> HIDE DEF r
<1>6. CASE NoneIn(s, t)
  <2>1. NoneIn(r, t)
    BY <1>6, <1>5, <1>1 DEF NoneIn
  <2>2. ~LastIs(s, t, h)
    BY <1>6 DEF NoneIn, LastIs
  <2> QED BY <2>1, <2>2, <1>5 DEF FinalIs, r
<1>7. CASE LastIs(s, t, h)
  <2>1. PICK i \in 1..Len(s) : s[i].type = t /\ s[i].held = h
                               /\ \A j \in 1..Len(s) : j > i => s[j].type # t
    BY <1>7 DEF LastIs
  <2>2. i # n
    BY <2>1, <1>1
  <2>3. CASE i < n
    <3>1. i \in 1..Len(r) /\ r[i] = s[i]
      BY <2>3, <1>5, <1>1
    <3>2. \A j \in 1..Len(r) : j > i => r[j].type # t
      BY <2>1, <2>3, <1>5, <1>1
    <3>3. LastIs(r, t, h)
      BY <3>1, <3>2, <2>1 DEF LastIs
    <3> QED BY <3>3, <1>5 DEF FinalIs, r
  <2>4. CASE i > n
    <3>1. i - 1 \in 1..Len(r) /\ r[i - 1] = s[i]
      BY <2>4, <1>5, <1>1
    <3>2. \A j \in 1..Len(r) : j > i - 1 => r[j].type # t
      BY <2>1, <2>4, <1>5, <1>1, SMTT(60)
    <3>3. LastIs(r, t, h)
      BY <3>1, <3>2, <2>1 DEF LastIs
    <3> QED BY <3>3, <1>5 DEF FinalIs, r
  <2> QED BY <2>2, <2>3, <2>4, <1>1
<1> QED BY <1>6, <1>7 DEF FinalIs

\* A non-empty set of naturals has a least element.
LEMMA MinExists ==
  ASSUME NEW S, S \subseteq Nat, S # {}
  PROVE  \E x \in S : \A y \in S : x <= y
<1> DEFINE R == OpToRel(<, Nat)
<1>1. IsWellFoundedOn(R, Nat)
  BY NatLessThanWellFounded
<1>2. PICK x \in S : \A y \in S : ~(<<y, x>> \in R)
  <2> HIDE DEF R
  <2> QED BY <1>1, WFMin
<1>3. ASSUME NEW y \in S PROVE x <= y
  <2>1. ~(<<y, x>> \in R)
    BY <1>2
  <2>2. x \in Nat /\ y \in Nat
    OBVIOUS
  <2>3. ~(y < x)
    BY <2>1, <2>2 DEF OpToRel
  <2> QED BY <2>2, <2>3
<1> QED BY <1>3

\* CompactStaleMotion takes the first stale motion.
LEMMA FirstStale ==
  ASSUME NEW q \in Seq(Reports), NEW type, Stale(q, type) # {}
  PROVE  First(Stale(q, type)) \in Stale(q, type)
<1>1. Stale(q, type) \subseteq Nat
  BY LenProperties DEF Stale
<1>2. PICK n \in Stale(q, type) : \A m \in Stale(q, type) : n <= m
  BY <1>1, MinExists
<1> QED BY <1>2 DEF First

\* There are two mice.
LEMMA OtherFacts ==
  /\ Other("relative") = "absolute"
  /\ Other("absolute") = "relative"
  /\ \A t \in MouseTypes : Other(t) \in MouseTypes /\ Other(t) # t /\ Other(Other(t)) = t
<1>1. Other("relative") = "absolute"
  BY DEF Other, MouseTypes
<1>2. Other("absolute") = "relative"
  BY DEF Other, MouseTypes
<1> QED BY <1>1, <1>2 DEF MouseTypes

\* A mouse may report once the other one has come to hold nothing.
LEMMA AppendSwitched ==
  ASSUME NEW S, NEW s \in Seq(S), NEW x \in S, NEW buttons,
         Switched(s, buttons),
         x.type \in MouseTypes =>
           FinalIs(s, Other(x.type), {}, buttons[Other(x.type)] = {})
  PROVE  Switched(Append(s, x), buttons)
<1> DEFINE a == Append(s, x)
<1>1. Len(a) = Len(s) + 1 /\ a[Len(s) + 1] = x /\ \A i \in 1..Len(s) : a[i] = s[i]
  BY AppendProperties
<1>2. Len(s) \in Nat
  BY LenProperties
<1> HIDE DEF a
<1> SUFFICES ASSUME NEW i \in 1..Len(a), a[i].type \in MouseTypes
             PROVE  /\ buttons[Other(a[i].type)] # {} =>
                         \E k \in 1..Len(a) : k < i /\ a[k].type = Other(a[i].type)
                    /\ \A j \in 1..Len(a) :
                         j < i /\ a[j].type = Other(a[i].type) /\ a[j].held # {} =>
                           \E k \in 1..Len(a) : j < k /\ k < i /\ a[k].type = Other(a[i].type)
  BY DEF Switched, a
<1>3. CASE i \in 1..Len(s)
  <2>1. a[i] = s[i]
    BY <1>1, <1>3
  <2>2. ASSUME buttons[Other(a[i].type)] # {}
        PROVE  \E k \in 1..Len(a) : k < i /\ a[k].type = Other(a[i].type)
    <3>1. PICK k \in 1..Len(s) : k < i /\ s[k].type = Other(s[i].type)
      BY <2>1, <2>2, <1>3 DEF Switched
    <3>2. k \in 1..Len(a) /\ a[k] = s[k]
      BY <1>1, <1>2
    <3> QED BY <3>1, <3>2, <2>1
  <2>3. ASSUME NEW j \in 1..Len(a), j < i, a[j].type = Other(a[i].type), a[j].held # {}
        PROVE  \E k \in 1..Len(a) : j < k /\ k < i /\ a[k].type = Other(a[i].type)
    <3>1. j \in 1..Len(s) /\ a[j] = s[j]
      BY <2>3, <1>1, <1>2, <1>3
    <3>2. PICK k \in 1..Len(s) : j < k /\ k < i /\ s[k].type = Other(s[i].type)
      BY <3>1, <2>1, <2>3, <1>3 DEF Switched
    <3>3. k \in 1..Len(a) /\ a[k] = s[k]
      BY <1>1, <1>2
    <3> QED BY <3>2, <3>3, <2>1
  <2> QED BY <2>2, <2>3
<1>4. CASE i = Len(s) + 1
  <2>0. a[i] = x
    BY <1>4, <1>1
  <2> DEFINE o == Other(x.type)
  <2>1. FinalIs(s, o, {}, buttons[o] = {})
    BY <2>0
  <2> HIDE DEF o
  <2>2. CASE LastIs(s, o, {})
    <3>1. PICK n \in 1..Len(s) : s[n].type = o /\ s[n].held = {}
                                 /\ \A j \in 1..Len(s) : j > n => s[j].type # o
      BY <2>2 DEF LastIs
    <3>2. n \in 1..Len(a) /\ n < i /\ a[n] = s[n]
      BY <1>1, <1>2, <1>4
    <3>3. ASSUME NEW j \in 1..Len(a), j < i, a[j].type = o, a[j].held # {}
          PROVE  j < n
      <4>1. j \in 1..Len(s) /\ a[j] = s[j]
        BY <3>3, <1>1, <1>2, <1>4
      <4>2. ~(j > n) /\ j # n
        BY <4>1, <3>1, <3>3
      <4> QED BY <4>2
    <3> QED BY <3>1, <3>2, <3>3, <2>0 DEF o
  <2>3. CASE NoneIn(s, o) /\ buttons[o] = {}
    <3>1. \A j \in 1..Len(a) : j < i => a[j].type # o
      BY <2>3, <1>1, <1>2, <1>4 DEF NoneIn
    <3> QED BY <3>1, <2>3, <2>0 DEF o
  <2> QED BY <2>1, <2>2, <2>3 DEF FinalIs
<1> QED BY <1>1, <1>2, <1>3, <1>4

\* A part that is dropped at the end does not matter.
LEMMA PrefixSwitched ==
  ASSUME NEW S, NEW a \in Seq(S), NEW b \in Seq(S), NEW buttons, Switched(a \o b, buttons)
  PROVE  Switched(a, buttons)
<1> DEFINE c == a \o b
<1>1. Len(c) = Len(a) + Len(b) /\ \A i \in 1..Len(a) : c[i] = a[i]
  <2>1. /\ Len(c) = Len(a) + Len(b)
        /\ \A i \in 1..Len(a) + Len(b) : c[i] = IF i <= Len(a) THEN a[i] ELSE b[i - Len(a)]
    BY ConcatProperties
  <2> QED BY <2>1, LenProperties
<1>2. Len(a) \in Nat /\ Len(b) \in Nat
  BY LenProperties
<1>0. Switched(c, buttons)
  OBVIOUS
<1> HIDE DEF c
<1> SUFFICES ASSUME NEW i \in 1..Len(a), a[i].type \in MouseTypes
             PROVE  /\ buttons[Other(a[i].type)] # {} =>
                         \E k \in 1..Len(a) : k < i /\ a[k].type = Other(a[i].type)
                    /\ \A j \in 1..Len(a) :
                         j < i /\ a[j].type = Other(a[i].type) /\ a[j].held # {} =>
                           \E k \in 1..Len(a) : j < k /\ k < i /\ a[k].type = Other(a[i].type)
  BY DEF Switched
<1>3. i \in 1..Len(c) /\ c[i] = a[i]
  BY <1>1, <1>2
<1>4. \A k \in 1..Len(c) : k < i => k \in 1..Len(a) /\ c[k] = a[k]
  BY <1>1, <1>2
<1>5. buttons[Other(a[i].type)] # {} =>
        \E k \in 1..Len(a) : k < i /\ a[k].type = Other(a[i].type)
  BY <1>0, <1>3, <1>4, ZenonT(60) DEF Switched
<1>6. ASSUME NEW j \in 1..Len(a), j < i, a[j].type = Other(a[i].type), a[j].held # {}
      PROVE  \E k \in 1..Len(a) : j < k /\ k < i /\ a[k].type = Other(a[i].type)
  <2>1. j \in 1..Len(c) /\ c[j] = a[j]
    BY <1>1, <1>2
  <2>2. PICK k \in 1..Len(c) : j < k /\ k < i /\ c[k].type = Other(c[i].type)
    BY <1>0, <1>3, <1>6, <2>1 DEF Switched
  <2> QED BY <2>2, <1>3, <1>4
<1> QED BY <1>5, <1>6

\* The device is given the first report of the stream.
LEMMA TailSwitched ==
  ASSUME NEW S, NEW s \in Seq(S), s # << >>,
         NEW buttons, NEW next, Switched(s, buttons),
         s[1].type \notin MouseTypes => next = buttons,
         s[1].type \in MouseTypes =>
           /\ next[s[1].type] = s[1].held
           /\ next[Other(s[1].type)] = buttons[Other(s[1].type)]
  PROVE  /\ Switched(Tail(s), next)
         /\ s[1].type \in MouseTypes => buttons[Other(s[1].type)] = {}
<1> DEFINE r == Tail(s)
<1>1. Len(r) = Len(s) - 1 /\ \A i \in 1..Len(r) : r[i] = s[i + 1]
  BY HeadTailProperties
<1>2. Len(s) \in Nat /\ Len(s) > 0
  BY LenProperties, EmptySeq
<1> HIDE DEF r
<1>3. s[1].type \in MouseTypes => buttons[Other(s[1].type)] = {}
  BY <1>2, SMTT(60) DEF Switched
<1>4. ASSUME NEW i \in 1..Len(r), r[i].type \in MouseTypes, next[Other(r[i].type)] # {}
      PROVE  \E k \in 1..Len(r) : k < i /\ r[k].type = Other(r[i].type)
  <2>0. i + 1 \in 1..Len(s) /\ r[i] = s[i + 1] /\ 1 \in 1..Len(s) /\ 1 < i + 1
    BY <1>1, <1>2
  <2>1. \E k \in 1..Len(s) : 1 < k /\ k < i + 1 /\ s[k].type = Other(s[i + 1].type)
    <3>1. CASE s[1].type = Other(s[i + 1].type)
      <4>1. s[1].held # {}
        BY <3>1, <2>0, <1>4, OtherFacts
      <4> QED BY <4>1, <3>1, <2>0, <1>4 DEF Switched
    <3>2. CASE s[1].type # Other(s[i + 1].type)
      <4>1. buttons[Other(s[i + 1].type)] # {}
        <5>1. CASE s[1].type \notin MouseTypes
          BY <5>1, <2>0, <1>4
        <5>2. CASE s[1].type \in MouseTypes
          <6>1. s[i + 1].type = s[1].type
            BY <5>2, <3>2, <2>0, <1>4, OtherFacts DEF MouseTypes
          <6> QED BY <6>1, <5>2, <2>0, <1>4
        <5> QED BY <5>1, <5>2
      <4>2. PICK k \in 1..Len(s) : k < i + 1 /\ s[k].type = Other(s[i + 1].type)
        BY <4>1, <2>0, <1>4 DEF Switched
      <4>3. 1 < k
        BY <4>2, <3>2
      <4> QED BY <4>2, <4>3
    <3> QED BY <3>1, <3>2
  <2>2. PICK k \in 1..Len(s) : 1 < k /\ k < i + 1 /\ s[k].type = Other(s[i + 1].type)
    BY <2>1
  <2>3. k - 1 \in 1..Len(r) /\ k - 1 < i /\ r[k - 1] = s[k]
    BY <2>2, <1>1, <1>2
  <2> QED BY <2>0, <2>2, <2>3
<1>5. ASSUME NEW i \in 1..Len(r), r[i].type \in MouseTypes,
             NEW j \in 1..Len(r), j < i, r[j].type = Other(r[i].type), r[j].held # {}
      PROVE  \E k \in 1..Len(r) : j < k /\ k < i /\ r[k].type = Other(r[i].type)
  <2>0. /\ i + 1 \in 1..Len(s) /\ r[i] = s[i + 1]
        /\ j + 1 \in 1..Len(s) /\ r[j] = s[j + 1] /\ j + 1 < i + 1
    BY <1>1, <1>2, <1>5
  <2>1. PICK k \in 1..Len(s) : j + 1 < k /\ k < i + 1 /\ s[k].type = Other(s[i + 1].type)
    BY <2>0, <1>5 DEF Switched
  <2>2. k - 1 \in 1..Len(r) /\ j < k - 1 /\ k - 1 < i /\ r[k - 1] = s[k]
    BY <2>1, <1>1, <1>2
  <2> QED BY <2>0, <2>1, <2>2
<1>6. Switched(r, next)
  BY <1>4, <1>5 DEF Switched
<1> QED BY <1>3, <1>6 DEF r

-----------------------------------------------------------------------------
(* The HID device                                                          *)

\* What a submission that the device takes, or refuses, does to it.
Took(d, e, type, held) ==
  /\ e \in Devices /\ ReadOK(e) /\ e.cut = d.cut
  /\ \A t \in ReportTypes, h \in SUBSET Keys :
       (t # type \/ e.overflow) /\ Settles(d, t, h) => Settles(e, t, h)
  /\ d.overflow => e.overflow
  /\ ~e.overflow =>
       /\ Settles(e, type, held)
       /\ IF type \in MouseTypes
            THEN e.mouseMode = type /\ e.buttons = [d.buttons EXCEPT ![type] = held]
            ELSE e.mouseMode = d.mouseMode /\ e.buttons = d.buttons
       /\ e.consumerUsage = IF type = "consumer" THEN held ELSE d.consumerUsage
  /\ e.overflow => /\ e.mouseMode = d.mouseMode /\ e.buttons = d.buttons
                   /\ e.consumerUsage = d.consumerUsage
  /\ Len(e.reports) <= Len(d.reports) + 1
  /\ ~d.overflow /\ Len(d.reports) < REPORT_QUEUE_LENGTH => ~e.overflow

Queued(d, e, r) ==
  /\ e \in Devices
  /\ e.mouseMode = d.mouseMode /\ e.buttons = d.buttons /\ e.cut = d.cut
  /\ e.consumerUsage = d.consumerUsage /\ e.guest = d.guest
  /\ e.readPending = d.readPending
  /\ \A t \in ReportTypes, h \in SUBSET Keys :
       (t # r.type \/ e.overflow) /\ Settles(d, t, h) => Settles(e, t, h)
  /\ ~e.overflow => Settles(e, r.type, r.held)
  /\ Len(e.reports) <= Len(d.reports) + 1
  /\ Len(d.reports) < REPORT_QUEUE_LENGTH => ~e.overflow

\* QueueReport: the type the report is of comes to what it holds, and no other
\* type changes, whether it is absorbed, queued, or makes room for itself.
LEMMA QueueReportFacts ==
  ASSUME NEW d \in Devices, NEW r \in Reports, NEW fits \in BOOLEAN, ~d.overflow,
         ~d.readPending
  PROVE  Queued(d, QueueReport(d, r, fits), r)
<1> DEFINE q == d.reports
           e == QueueReport(d, r, fits)
<1>0. q \in Seq(Reports) /\ Len(q) \in Nat
  BY LenProperties DEF Devices
<1>1. CASE Absorbed(q, r, fits)
  <2>1. e = d
    BY <1>1 DEF QueueReport
  <2>2. q # << >> /\ q[Len(q)].type = r.type /\ q[Len(q)].held = r.held
    BY <1>1 DEF Absorbed, Last
  <2>3. LastIs(q, r.type, r.held)
    BY <2>2, <1>0, LastFinal
  <2>4. Settles(d, r.type, r.held)
    BY <2>3 DEF Settles, FinalIs
  <2> QED BY <2>1, <2>4, <1>0 DEF Queued
<1>2. ASSUME NEW p \in Seq(Reports), e = [d EXCEPT !.reports = Append(p, r)],
             Len(p) <= Len(q),
             \A t \in ReportTypes, h \in SUBSET Keys :
               t # r.type /\ Settles(d, t, h) => FinalIs(p, t, h, d.guest[t] = h)
      PROVE  Queued(d, e, r)
  <2> DEFINE a == Append(p, r)
  <2>1. a \in Seq(Reports) /\ Len(a) = Len(p) + 1
    BY AppendProperties
  <2>2. LastIs(a, r.type, r.held)
    BY AppendFinal
  <2>3. \A t \in ReportTypes, h \in SUBSET Keys :
          t # r.type /\ Settles(d, t, h) => FinalIs(a, t, h, d.guest[t] = h)
    BY <1>2, AppendFinal
  <2> HIDE DEF e
  <2>4. e = [d EXCEPT !.reports = a]
    BY <1>2
  <2> HIDE DEF a
  <2>5. /\ e \in Devices /\ e.reports = a
        /\ e.mouseMode = d.mouseMode /\ e.buttons = d.buttons /\ e.cut = d.cut
        /\ e.consumerUsage = d.consumerUsage /\ e.guest = d.guest
        /\ e.readPending = d.readPending /\ e.overflow = d.overflow
    BY <2>1, <2>4 DEF Devices
  <2>6. Settles(e, r.type, r.held)
    BY <2>2, <2>5 DEF Settles, FinalIs
  <2>7. \A t \in ReportTypes, h \in SUBSET Keys :
          t # r.type /\ Settles(d, t, h) => Settles(e, t, h)
    BY <2>3, <2>5 DEF Settles
  <2>8. Len(e.reports) <= Len(d.reports) + 1
    BY <2>1, <2>5, <1>0, <1>2, LenProperties
  <2> QED BY <2>5, <2>6, <2>7, <2>8 DEF Queued
<1>3. CASE ~Absorbed(q, r, fits) /\ Len(q) < REPORT_QUEUE_LENGTH
  <2>1. e = [d EXCEPT !.reports = Append(q, r)]
    BY <1>3 DEF QueueReport
  <2>2. \A t \in ReportTypes, h \in SUBSET Keys :
          t # r.type /\ Settles(d, t, h) => FinalIs(q, t, h, d.guest[t] = h)
    BY DEF Settles
  <2>3. Len(q) <= Len(q)
    BY <1>0
  <2>4. Queued(d, e, r)
    <3> HIDE DEF q, e
    <3> QED BY <2>1, <2>2, <2>3, <1>0, <1>2
  <2> QED BY <2>4
<1>4. CASE ~Absorbed(q, r, fits) /\ ~(Len(q) < REPORT_QUEUE_LENGTH)
           /\ Stale(q, r.type) # {}
  <2> DEFINE n == First(Stale(q, r.type))
             p == RemoveAt(q, n)
  <2>1. e = [d EXCEPT !.reports = Append(p, r)]
    BY <1>4 DEF QueueReport
  <2>2. n \in Stale(q, r.type)
    BY <1>0, <1>4, FirstStale, SMT
  <2>3. /\ n \in 1..Len(q) /\ q[n].type = "absolute"
        /\ r.type = "absolute" \/ \E j \in n + 1..Len(q) : q[j].type = "absolute"
    BY <2>2 DEF Stale
  <2> HIDE DEF n, p
  <2>4. ASSUME NEW t \in ReportTypes, NEW h \in SUBSET Keys, t # r.type, Settles(d, t, h)
        PROVE  FinalIs(p, t, h, d.guest[t] = h)
    <3>1. FinalIs(q, t, h, d.guest[t] = h)
      BY <2>4 DEF Settles
    <3>2. q[n].type # t \/ \E j \in n + 1..Len(q) : q[j].type = t
      BY <2>3, <2>4
    <3> QED BY <3>1, <3>2, <2>3, <1>0, RemoveFinal DEF p
  <2>5. p \in Seq(Reports) /\ Len(p) = Len(q) - 1
    BY <2>3, <1>0, RemoveAtFacts DEF p
  <2>6. Len(p) <= Len(q)
    BY <2>5, <1>0
  <2> QED BY <2>1, <2>4, <2>5, <2>6, <1>2
<1>5. CASE ~Absorbed(q, r, fits) /\ ~(Len(q) < REPORT_QUEUE_LENGTH)
           /\ Stale(q, r.type) = {}
  <2>1. e = [d EXCEPT !.overflow = TRUE]
    BY <1>5 DEF QueueReport
  <2> HIDE DEF e
  <2>2. /\ e \in Devices /\ e.reports = d.reports /\ e.overflow
        /\ e.mouseMode = d.mouseMode /\ e.buttons = d.buttons /\ e.cut = d.cut
        /\ e.consumerUsage = d.consumerUsage /\ e.guest = d.guest
        /\ e.readPending = d.readPending
    BY <2>1 DEF Devices
  <2>3. \A t, h : Settles(d, t, h) => Settles(e, t, h)
    BY <2>2 DEF Settles
  <2> QED BY <2>2, <2>3, <1>0, <1>5 DEF e, Queued
<1> QED BY <1>1, <1>3, <1>4, <1>5

\* SubmitReport: a waiting read takes the report, else it is queued.
LEMMA SubmitReportFacts ==
  ASSUME NEW d \in Devices, ReadOK(d), NEW type \in ReportTypes, NEW held \in SUBSET Keys,
         NEW motion \in BOOLEAN, NEW fits \in BOOLEAN,
         type = "consumer" /\ d.consumerUsage = held => Settles(d, "consumer", held)
  PROVE  Took(d, SubmitReport(d, type, held, motion, fits), type, held)
<1> DEFINE pure == motion /\ type = d.mouseMode /\ held = d.buttons[type]
           r == Report(type, held, pure)
           s == SubmitReport(d, type, held, motion, fits)
<1>0. d.reports \in Seq(Reports) /\ Len(d.reports) \in Nat
  BY LenProperties DEF Devices
<1>1. r \in Reports /\ r.type = type /\ r.held = held
  BY DEF Report, Reports
<1>2. CASE d.overflow \/ (type = "consumer" /\ d.consumerUsage = held)
  <2>1. s = d
    BY <1>2 DEF SubmitReport
  <2>2. ~d.overflow => type = "consumer" /\ d.consumerUsage = held /\ type \notin MouseTypes
    BY <1>2 DEF MouseTypes
  <2> HIDE DEF s
  <2> QED BY <2>1, <2>2, <1>0 DEF Took, s
<1>3. ASSUME ~d.overflow, ~(type = "consumer" /\ d.consumerUsage = held),
             NEW e \in Devices, ReadOK(e), e.cut = d.cut,
             e.mouseMode = d.mouseMode, e.buttons = d.buttons,
             e.consumerUsage = d.consumerUsage,
             \A t \in ReportTypes, h \in SUBSET Keys :
               (t # type \/ e.overflow) /\ Settles(d, t, h) => Settles(e, t, h),
             ~e.overflow => Settles(e, type, held),
             Len(e.reports) <= Len(d.reports) + 1,
             Len(d.reports) < REPORT_QUEUE_LENGTH => ~e.overflow
      PROVE  Took(d, Recorded(e, r), type, held)
  <2> DEFINE f == Recorded(e, r)
  <2> HIDE DEF r
  <2>1. CASE e.overflow
    <3>1. f = e
      BY <2>1 DEF Recorded
    <3> QED BY <3>1, <2>1, <1>3 DEF Took
  <2>2. CASE ~e.overflow /\ type \in MouseTypes
    <3>1. f = [e EXCEPT !.mouseMode = type, !.buttons[type] = held]
      BY <2>2, <1>1 DEF Recorded
    <3>2. [e.buttons EXCEPT ![type] = held] \in [MouseTypes -> SUBSET Keys]
      BY <2>2 DEF Devices
    <3> HIDE DEF f
    <3>3. /\ f \in Devices /\ f.reports = e.reports /\ f.guest = e.guest /\ f.cut = e.cut
          /\ f.readPending = e.readPending /\ f.overflow = e.overflow
          /\ f.consumerUsage = e.consumerUsage /\ f.mouseMode = type
          /\ f.buttons = [e.buttons EXCEPT ![type] = held]
      BY <3>1, <3>2, <2>2 DEF Devices, Modes
    <3>4. \A t, h : Settles(e, t, h) <=> Settles(f, t, h)
      BY <3>3 DEF Settles
    <3>5. type # "consumer"
      BY <2>2 DEF MouseTypes
    <3>6. Took(d, f, type, held)
      BY <3>3, <3>4, <3>5, <2>2, <1>3 DEF Took, ReadOK
    <3> QED BY <3>6 DEF f
  <2>3. CASE ~e.overflow /\ type = "consumer"
    <3>1. f = [e EXCEPT !.consumerUsage = held]
      BY <2>3, <1>1 DEF Recorded, MouseTypes
    <3> HIDE DEF f
    <3>3. /\ f \in Devices /\ f.reports = e.reports /\ f.guest = e.guest /\ f.cut = e.cut
          /\ f.readPending = e.readPending /\ f.overflow = e.overflow
          /\ f.consumerUsage = held /\ f.mouseMode = e.mouseMode
          /\ f.buttons = e.buttons
      BY <3>1 DEF Devices
    <3>4. \A t, h : Settles(e, t, h) <=> Settles(f, t, h)
      BY <3>3 DEF Settles
    <3>5. type \notin MouseTypes
      BY <2>3 DEF MouseTypes
    <3>6. Took(d, f, type, held)
      BY <3>3, <3>4, <3>5, <2>3, <1>3 DEF Took, ReadOK
    <3> QED BY <3>6 DEF f
  <2>4. CASE ~e.overflow /\ type \notin MouseTypes /\ type # "consumer"
    <3>1. f = e
      BY <2>4, <1>1 DEF Recorded
    <3> QED BY <3>1, <2>4, <1>3 DEF Took
  <2> QED BY <2>1, <2>2, <2>3, <2>4
<1>4. CASE ~d.overflow /\ ~(type = "consumer" /\ d.consumerUsage = held) /\ d.readPending
  <2> DEFINE e == [d EXCEPT !.readPending = FALSE, !.guest[type] = held]
  <2>1. s = Recorded(e, r)
    BY <1>4 DEF SubmitReport
  <2>2. [d.guest EXCEPT ![type] = held] \in [ReportTypes -> SUBSET Keys]
    BY DEF Devices
  <2>3. /\ e \in Devices /\ e.reports = d.reports /\ e.cut = d.cut /\ ~e.readPending
        /\ e.mouseMode = d.mouseMode /\ e.buttons = d.buttons /\ e.overflow = d.overflow
        /\ e.consumerUsage = d.consumerUsage /\ e.guest = [d.guest EXCEPT ![type] = held]
    BY <2>2 DEF Devices
  <2> HIDE DEF e, s, r
  <2>4. d.reports = << >> /\ d.guest \in [ReportTypes -> SUBSET Keys]
    BY <1>4 DEF ReadOK, Devices
  <2>5. NoneIn(d.reports, type) /\ Len(d.reports) = 0
    BY <2>4 DEF NoneIn
  <2>6. Settles(e, type, held)
    BY <2>3, <2>4, <2>5 DEF Settles, FinalIs
  <2>7. ASSUME NEW t \in ReportTypes, t # type PROVE e.guest[t] = d.guest[t]
    BY <2>3, <2>4, <2>7
  <2>8. \A t \in ReportTypes, h \in SUBSET Keys :
          (t # type \/ e.overflow) /\ Settles(d, t, h) => Settles(e, t, h)
    BY <2>3, <2>7, <1>4 DEF Settles
  <2>9. Took(d, Recorded(e, r), type, held)
    BY <2>3, <2>6, <2>8, <1>0, <1>3, <1>4 DEF ReadOK
  <2> QED BY <2>1, <2>9 DEF s
<1>5. CASE ~d.overflow /\ ~(type = "consumer" /\ d.consumerUsage = held) /\ ~d.readPending
  <2> DEFINE e == QueueReport(d, r, fits)
  <2>1. s = Recorded(e, r)
    BY <1>5 DEF SubmitReport
  <2> HIDE DEF r
  <2>2. Queued(d, e, r)
    BY <1>1, <1>5, QueueReportFacts
  <2> HIDE DEF e, s
  <2>3. Took(d, Recorded(e, r), type, held)
    BY <2>2, <1>1, <1>3, <1>5 DEF Queued, ReadOK
  <2> QED BY <2>1, <2>3 DEF s
<1> QED BY <1>2, <1>4, <1>5 DEF Devices

\* The device as it is given a report: what it relies on from one to the next.
Sound(d) == d \in Devices /\ ReadOK(d) /\ Settles(d, "consumer", d.consumerUsage)

\* Submit is a SubmitReport without motion.
LEMMA SubmitFacts ==
  ASSUME NEW d \in Devices, ReadOK(d), NEW type \in ReportTypes, NEW held \in SUBSET Keys,
         type = "consumer" /\ d.consumerUsage = held => Settles(d, "consumer", held)
  PROVE  Took(d, Submit(d, type, held), type, held)
<1>1. FALSE \in BOOLEAN
  OBVIOUS
<1>2. Took(d, SubmitReport(d, type, held, FALSE, FALSE), type, held)
  BY <1>1, SubmitReportFacts
<1> QED BY <1>2 DEF Submit

\* A device that took a report is sound again, and a mouse report leaves the
\* mice in order if the other one holds nothing.
LEMMA TookSound ==
  ASSUME NEW d, NEW e, NEW type \in ReportTypes, NEW held \in SUBSET Keys,
         Sound(d), Took(d, e, type, held)
  PROVE  /\ Sound(e)
         /\ type \notin MouseTypes /\ MouseOK(d) => MouseOK(e)
         /\ type \in MouseTypes /\ MouseOK(d) /\ d.buttons[Other(type)] = {} =>
              MouseOK(e) /\ e.buttons[Other(type)] = {}
<1>0. /\ e \in Devices /\ ReadOK(e) /\ d \in Devices
      /\ d.consumerUsage \in SUBSET Keys /\ "consumer" \in ReportTypes
      /\ d.buttons \in [MouseTypes -> SUBSET Keys] /\ MouseTypes \subseteq ReportTypes
  BY DEF Sound, Took, Devices, ReportTypes
<1>1. Settles(e, "consumer", e.consumerUsage)
  BY <1>0 DEF Sound, Took
<1>2. ASSUME type \notin MouseTypes, MouseOK(d) PROVE MouseOK(e)
  <2>1. e.mouseMode = d.mouseMode /\ e.buttons = d.buttons
    BY <1>2 DEF Took
  <2>2. ASSUME NEW t \in MouseTypes PROVE Settles(e, t, e.buttons[t])
    BY <2>1, <1>0, <1>2 DEF Took, MouseOK
  <2> QED BY <2>1, <2>2, <1>2 DEF MouseOK
<1>3. ASSUME type \in MouseTypes, MouseOK(d), d.buttons[Other(type)] = {}
      PROVE  MouseOK(e) /\ e.buttons[Other(type)] = {}
  <2>1. CASE e.overflow
    <3>1. e.mouseMode = d.mouseMode /\ e.buttons = d.buttons
      BY <2>1 DEF Took
    <3>2. ASSUME NEW t \in MouseTypes PROVE Settles(e, t, e.buttons[t])
      BY <3>1, <2>1, <1>0, <1>3 DEF Took, MouseOK
    <3> QED BY <3>1, <3>2, <1>3 DEF MouseOK
  <2>2. CASE ~e.overflow
    <3>1. /\ e.mouseMode = type /\ e.buttons = [d.buttons EXCEPT ![type] = held]
          /\ Settles(e, type, held)
      BY <2>2, <1>3 DEF Took
    <3>2. e.buttons[type] = held /\ \A t \in MouseTypes : t # type => e.buttons[t] = d.buttons[t]
      BY <3>1, <1>0, <1>3
    <3>3. \A t \in MouseTypes : t # type => t = Other(type)
      BY <1>3, OtherFacts DEF MouseTypes
    <3>4. ASSUME NEW t \in MouseTypes, t # type PROVE Settles(e, t, e.buttons[t])
      BY <3>2, <3>4, <1>0, <1>3 DEF Took, MouseOK
    <3>5. e.buttons[Other(type)] = {}
      BY <3>2, <1>3, OtherFacts
    <3>6. ASSUME NEW t \in MouseTypes
          PROVE  Settles(e, t, e.buttons[t]) /\ (e.mouseMode # t => e.buttons[t] = {})
      BY <3>1, <3>2, <3>3, <3>4, <3>5
    <3> QED BY <3>5, <3>6 DEF MouseOK
  <2> QED BY <2>1, <2>2
<1> QED BY <1>0, <1>1, <1>2, <1>3 DEF Sound

\* The device e after d was given a keyboard message, a mouse message.
KeysTaken(d, e, held) ==
  /\ Sound(e) /\ e.cut = d.cut
  /\ MouseOK(d) => MouseOK(e)
  /\ ~e.overflow => KeysAre(e, held) /\ e.buttons = d.buttons

MouseTaken(d, e, type, held) ==
  /\ Sound(e) /\ e.cut = d.cut
  /\ MouseOK(d) /\ d.buttons[Other(type)] = {} => MouseOK(e)
  /\ ~e.overflow =>
       /\ e.buttons = [d.buttons EXCEPT ![type] = held]
       /\ \A h : KeysAre(d, h) /\ h \in SUBSET Keys => KeysAre(e, h)

\* HandleKeyboard splits a report in two.
LEMMA HandleKeyboardFacts ==
  ASSUME NEW d, Sound(d), ~d.overflow, NEW m, m.held \in SUBSET Keys
  PROVE  KeysTaken(d, HandleKeyboard(d, m), m.held)
<1> DEFINE kb == m.held \ {"media"}
           cu == m.held \cap {"media"}
           f == Submit(d, "keyboard", kb)
           e == Submit(f, "consumer", cu)
<1>0. e = HandleKeyboard(d, m)
  BY DEF HandleKeyboard
<1>1. kb \in SUBSET Keys /\ cu \in SUBSET Keys
      /\ "keyboard" \in ReportTypes /\ "consumer" \in ReportTypes
      /\ "keyboard" \notin MouseTypes /\ "consumer" \notin MouseTypes
  BY DEF ReportTypes, MouseTypes
<1>2. Took(d, f, "keyboard", kb)
  BY <1>1, SubmitFacts DEF Sound
<1>3. Sound(f) /\ (MouseOK(d) => MouseOK(f))
  <2> HIDE DEF f, kb
  <2> QED BY <1>1, <1>2, TookSound
<1>4. Took(f, e, "consumer", cu)
  <2>1. f.consumerUsage = cu => Settles(f, "consumer", cu)
    BY <1>3 DEF Sound
  <2> HIDE DEF f, kb, cu
  <2> QED BY <1>1, <1>3, <2>1, SubmitFacts DEF Sound
<1>5. Sound(e) /\ (MouseOK(f) => MouseOK(e))
  <2> HIDE DEF f, e, kb, cu
  <2> QED BY <1>1, <1>3, <1>4, TookSound
<1>6. e.cut = d.cut
  BY <1>2, <1>4 DEF Took
<1>7. ASSUME ~e.overflow PROVE KeysAre(e, m.held) /\ e.buttons = d.buttons
  <2> HIDE DEF f, e
  <2>1. ~f.overflow
    BY <1>4, <1>7 DEF Took
  <2>2. Settles(f, "keyboard", kb) /\ f.buttons = d.buttons
    BY <2>1, <1>1, <1>2 DEF Took
  <2>3. Settles(e, "keyboard", kb) /\ Settles(e, "consumer", cu) /\ e.buttons = f.buttons
    BY <2>2, <1>1, <1>4, <1>7 DEF Took
  <2> QED BY <2>2, <2>3 DEF KeysAre
<1>8. KeysTaken(d, e, m.held)
  <2> HIDE DEF e, f
  <2> QED BY <1>3, <1>5, <1>6, <1>7 DEF KeysTaken
<1> QED BY <1>0, <1>8

\* HandleMouse submits one report or two.
LEMMA HandleMouseFacts ==
  ASSUME NEW d, Sound(d), ~d.overflow, NEW m, m.type \in MouseTypes, m.held \in SUBSET Keys,
         NEW motion \in BOOLEAN, NEW fits \in BOOLEAN, NEW n
  PROVE  MouseTaken(d, HandleMouse(d, m, motion, fits, n), m.type, m.held)
<1> DEFINE once == SubmitReport(d, m.type, m.held, motion, fits)
           twice == SubmitReport(once, m.type, m.held, motion, fits)
           e == HandleMouse(d, m, motion, fits, n)
<1>0. e = IF n = 1 THEN once ELSE twice
  BY DEF HandleMouse
<1>1. m.type \in ReportTypes /\ m.type # "keyboard" /\ m.type # "consumer"
      /\ "keyboard" \in ReportTypes /\ "consumer" \in ReportTypes
  BY DEF ReportTypes, MouseTypes
<1>2. Took(d, once, m.type, m.held)
  BY <1>1, SubmitReportFacts DEF Sound
<1>3. /\ Sound(once)
      /\ MouseOK(d) /\ d.buttons[Other(m.type)] = {} =>
           MouseOK(once) /\ once.buttons[Other(m.type)] = {}
  <2> HIDE DEF once
  <2> QED BY <1>1, <1>2, TookSound
<1>4. Took(once, twice, m.type, m.held)
  <2> HIDE DEF once
  <2> QED BY <1>1, <1>3, SubmitReportFacts DEF Sound
<1>5. /\ Sound(twice)
      /\ MouseOK(once) /\ once.buttons[Other(m.type)] = {} => MouseOK(twice)
  <2> HIDE DEF once, twice
  <2> QED BY <1>1, <1>3, <1>4, TookSound
<1>6. d.buttons \in [MouseTypes -> SUBSET Keys]
  BY DEF Sound, Devices
<1> HIDE DEF once, twice, e
<1>7. Sound(e) /\ e.cut = d.cut
  BY <1>0, <1>2, <1>3, <1>4, <1>5 DEF Took
<1>8. MouseOK(d) /\ d.buttons[Other(m.type)] = {} => MouseOK(e)
  BY <1>0, <1>3, <1>5
<1>9. ~once.overflow => /\ once.buttons = [d.buttons EXCEPT ![m.type] = m.held]
                        /\ \A h : KeysAre(d, h) /\ h \in SUBSET Keys => KeysAre(once, h)
  <2>1. \A h : h \in SUBSET Keys => h \ {"media"} \in SUBSET Keys /\ h \cap {"media"} \in SUBSET Keys
    OBVIOUS
  <2> QED BY <2>1, <1>1, <1>2 DEF Took, KeysAre
<1>10. ~twice.overflow => /\ ~once.overflow
                          /\ twice.buttons = [once.buttons EXCEPT ![m.type] = m.held]
                          /\ \A h : KeysAre(once, h) /\ h \in SUBSET Keys => KeysAre(twice, h)
  <2>1. \A h : h \in SUBSET Keys => h \ {"media"} \in SUBSET Keys /\ h \cap {"media"} \in SUBSET Keys
    OBVIOUS
  <2> QED BY <2>1, <1>1, <1>4 DEF Took, KeysAre
<1>11. [[d.buttons EXCEPT ![m.type] = m.held] EXCEPT ![m.type] = m.held]
         = [d.buttons EXCEPT ![m.type] = m.held]
  BY <1>6
<1>12. ~e.overflow => /\ e.buttons = [d.buttons EXCEPT ![m.type] = m.held]
                      /\ \A h : KeysAre(d, h) /\ h \in SUBSET Keys => KeysAre(e, h)
  BY <1>0, <1>9, <1>10, <1>11
<1>13. MouseTaken(d, e, m.type, m.held)
  BY <1>7, <1>8, <1>12 DEF MouseTaken
<1> QED BY <1>13 DEF e

\* The device r after the reports of d were reset.
WasReset(d, r) ==
  /\ Sound(r) /\ ~r.overflow
  /\ KeysAre(r, {})
  /\ r.cut <=> d.cut \/ HasMouse(d.reports)
  /\ ~r.cut /\ MouseOK(d) => MouseOK(r) /\ \A t \in MouseTypes : r.buttons[t] = {}

\* ResetReports releases the keyboard and the consumer control whatever was
\* queued, and both mice unless a mouse report was dropped.
LEMMA ResetReportsFacts ==
  ASSUME NEW d \in Devices, ReadOK(d)
  PROVE  WasReset(d, ResetReports(d))
<1> DEFINE held == d.mouseMode \in MouseTypes /\ d.buttons[d.mouseMode] # {}
           none == [t \in MouseTypes |-> {}]
           empty == [d EXCEPT !.reports = << >>, !.mouseMode = "none",
                       !.buttons = none, !.consumerUsage = {"unknown"}, !.overflow = FALSE,
                       !.cut = @ \/ HasMouse(d.reports)]
           mouse == IF held THEN Submit(empty, d.mouseMode, {}) ELSE empty
           kb == Submit(mouse, "keyboard", {})
           r == Submit(kb, "consumer", {})
<1>0. r = ResetReports(d)
  BY DEF ResetReports
<1>1. none \in [MouseTypes -> SUBSET Keys] /\ \A t \in MouseTypes : none[t] = {}
  OBVIOUS
<1> HIDE DEF none
<1>2. /\ empty \in Devices /\ empty.reports = << >> /\ empty.mouseMode = "none"
      /\ empty.buttons = none /\ empty.consumerUsage = {"unknown"} /\ ~empty.overflow
      /\ empty.cut = (d.cut \/ HasMouse(d.reports)) /\ empty.guest = d.guest
  <2>1. << >> \in Seq(Reports) /\ {"unknown"} \in SUBSET Keys /\ "none" \in Modes
        /\ (d.cut \/ HasMouse(d.reports)) \in BOOLEAN
    BY DEF Keys, Modes
  <2> QED BY <1>1, <2>1 DEF Devices
<1> HIDE DEF empty
<1>3. ReadOK(empty) /\ Len(empty.reports) = 0 /\ d.guest \in [ReportTypes -> SUBSET Keys]
      /\ d.buttons \in [MouseTypes -> SUBSET Keys]
  BY <1>2 DEF ReadOK, Devices
<1>4. {} \in SUBSET Keys /\ {} # {"unknown"}
      /\ "keyboard" \in ReportTypes /\ "consumer" \in ReportTypes /\ MouseTypes \subseteq ReportTypes
      /\ "keyboard" \notin MouseTypes /\ "consumer" \notin MouseTypes
  BY DEF ReportTypes, MouseTypes
<1>5. REPORT_QUEUE_LENGTH \in Nat /\ REPORT_QUEUE_LENGTH >= 3
  BY LengthAssumption
<1>6. held => Took(empty, mouse, d.mouseMode, {})
  <2>1. ASSUME held PROVE d.mouseMode \in ReportTypes /\ d.mouseMode # "consumer"
    BY <1>4, <2>1
  <2>2. held => mouse = Submit(empty, d.mouseMode, {})
    OBVIOUS
  <2> HIDE DEF held, mouse
  <2> QED BY <2>1, <2>2, <1>2, <1>3, <1>4, SubmitFacts
<1>7. ~held => mouse = empty
  OBVIOUS
<1>8. /\ mouse \in Devices /\ ReadOK(mouse) /\ ~mouse.overflow
      /\ mouse.consumerUsage = {"unknown"} /\ Len(mouse.reports) <= 1
      /\ mouse.cut = (d.cut \/ HasMouse(d.reports))
      /\ \A t \in MouseTypes : mouse.buttons[t] = {}
  <2>1. CASE ~held
    <3> HIDE DEF held, mouse
    <3> QED BY <2>1, <1>1, <1>2, <1>3, <1>7
  <2>2. CASE held
    <3>0. d.mouseMode \in MouseTypes
      BY <2>2
    <3> HIDE DEF held, mouse
    <3>1. Took(empty, mouse, d.mouseMode, {})
      BY <2>2, <1>6
    <3>2. ~mouse.overflow
      BY <3>1, <1>2, <1>3, <1>5 DEF Took
    <3>3. mouse.buttons = [none EXCEPT ![d.mouseMode] = {}] /\ mouse.consumerUsage = {"unknown"}
      BY <3>0, <3>1, <3>2, <1>2, <1>4 DEF Took
    <3>4. \A t \in MouseTypes : mouse.buttons[t] = {}
      BY <3>3, <1>1
    <3>5. mouse \in Devices /\ ReadOK(mouse) /\ mouse.cut = empty.cut
          /\ Len(mouse.reports) <= Len(empty.reports) + 1
      BY <3>1 DEF Took
    <3> QED BY <3>2, <3>3, <3>4, <3>5, <1>2, <1>3
  <2> QED BY <2>1, <2>2
<1>9. ~HasMouse(d.reports) /\ MouseOK(d) => \A t \in MouseTypes : Settles(mouse, t, {})
  <2> SUFFICES ASSUME ~HasMouse(d.reports), MouseOK(d), NEW t \in MouseTypes
               PROVE  Settles(mouse, t, {})
    OBVIOUS
  <2>1. NoneIn(d.reports, t)
    BY DEF HasMouse, NoneIn
  <2>2. d.guest[t] = d.buttons[t]
    <3>1. Settles(d, t, d.buttons[t])
      BY DEF MouseOK
    <3> QED BY <3>1, <2>1 DEF Settles, FinalIs, LastIs, NoneIn
  <2>3. NoneIn(empty.reports, t)
    BY <1>3 DEF NoneIn
  <2>4. d.buttons[t] = {} => Settles(empty, t, {})
    BY <2>2, <2>3, <1>2 DEF Settles, FinalIs
  <2>5. CASE held /\ t = d.mouseMode
    <3> HIDE DEF mouse
    <3> QED BY <2>5, <1>6, <1>8 DEF Took
  <2>6. CASE held /\ t # d.mouseMode
    <3>1. d.buttons[t] = {}
      BY <2>6 DEF MouseOK
    <3> HIDE DEF mouse, held
    <3> QED BY <3>1, <2>4, <2>6, <1>4, <1>6 DEF Took
  <2>7. CASE ~held
    <3>1. d.buttons[t] = {}
      BY <2>7 DEF MouseOK
    <3> HIDE DEF mouse, held
    <3> QED BY <3>1, <2>4, <2>7, <1>7
  <2> QED BY <2>5, <2>6, <2>7
<1> HIDE DEF mouse, held
<1>10. Took(mouse, kb, "keyboard", {})
  BY <1>4, <1>8, SubmitFacts
<1> HIDE DEF kb
<1>11. /\ kb \in Devices /\ ReadOK(kb) /\ ~kb.overflow /\ kb.consumerUsage = {"unknown"}
       /\ Len(kb.reports) <= 2 /\ Settles(kb, "keyboard", {}) /\ kb.cut = mouse.cut
       /\ kb.buttons = mouse.buttons
  <2>1. ~kb.overflow /\ Len(kb.reports) <= 2
    <3>1. mouse.reports \in Seq(Reports) /\ kb.reports \in Seq(Reports)
      BY <1>8, <1>10 DEF Took, Devices
    <3>2. Len(mouse.reports) \in Nat /\ Len(kb.reports) \in Nat
      BY <3>1, LenProperties
    <3> QED BY <3>2, <1>5, <1>8, <1>10 DEF Took
  <2> QED BY <2>1, <1>4, <1>8, <1>10 DEF Took
<1>12. Took(kb, r, "consumer", {})
  BY <1>4, <1>11, SubmitFacts
<1> HIDE DEF r
<1>13. ~r.overflow
  <2>1. Len(kb.reports) \in Nat
    BY <1>11, LenProperties DEF Devices
  <2> QED BY <2>1, <1>5, <1>11, <1>12 DEF Took
<1>14. /\ r \in Devices /\ ReadOK(r) /\ Settles(r, "consumer", {}) /\ r.consumerUsage = {}
       /\ Settles(r, "keyboard", {}) /\ r.buttons = mouse.buttons /\ r.cut = mouse.cut
  BY <1>4, <1>11, <1>12, <1>13 DEF Took
<1>15. {} \ {"media"} = {} /\ {} \cap {"media"} = {}
  OBVIOUS
<1>16. Sound(r) /\ KeysAre(r, {})
  BY <1>14, <1>15 DEF Sound, KeysAre
<1>17. ASSUME ~HasMouse(d.reports), MouseOK(d) PROVE MouseOK(r)
  <2>1. ASSUME NEW t \in MouseTypes PROVE Settles(r, t, {})
    <3>1. Settles(mouse, t, {})
      BY <1>9, <1>17
    <3>2. t # "keyboard" /\ t # "consumer" /\ t \in ReportTypes
      BY <1>4
    <3>3. Settles(kb, t, {})
      BY <3>1, <3>2, <1>4, <1>10 DEF Took
    <3> QED BY <3>2, <3>3, <1>4, <1>12 DEF Took
  <2> QED BY <2>1, <1>8, <1>14 DEF MouseOK
<1>18. \A t \in MouseTypes : r.buttons[t] = {}
  BY <1>8, <1>14
<1>19. r.cut <=> d.cut \/ HasMouse(d.reports)
  BY <1>8, <1>14
<1>20. WasReset(d, r)
  BY <1>13, <1>16, <1>17, <1>18, <1>19 DEF WasReset
<1> QED BY <1>0, <1>20

\* The device e after Windows read a report of d.
WasRead(d, e) ==
  /\ e \in Devices /\ ReadOK(e)
  /\ e.cut = d.cut /\ e.overflow = d.overflow /\ e.buttons = d.buttons
  /\ e.mouseMode = d.mouseMode /\ e.consumerUsage = d.consumerUsage
  /\ \A t \in ReportTypes : \A h : Settles(d, t, h) => Settles(e, t, h)

\* IOCTL_HID_READ_REPORT: reading does not change what the reports come to.
LEMMA ReadReportFacts ==
  ASSUME NEW d \in Devices, ReadOK(d), ~d.readPending,
         NEW e, e = IF d.reports = << >> THEN [d EXCEPT !.readPending = TRUE]
                    ELSE [d EXCEPT !.reports = Tail(@),
                            !.guest[Head(d.reports).type] = Head(d.reports).held]
  PROVE  WasRead(d, e)
<1>1. CASE d.reports = << >>
  <2>1. e = [d EXCEPT !.readPending = TRUE]
    BY <1>1
  <2>2. /\ e \in Devices /\ e.reports = d.reports /\ e.guest = d.guest
        /\ e.cut = d.cut /\ e.overflow = d.overflow /\ e.buttons = d.buttons
        /\ e.mouseMode = d.mouseMode /\ e.consumerUsage = d.consumerUsage
    BY <2>1 DEF Devices
  <2> QED BY <2>2, <1>1 DEF WasRead, ReadOK, Settles
<1>2. CASE d.reports # << >>
  <2> DEFINE q == d.reports
             g == [d.guest EXCEPT ![Head(q).type] = Head(q).held]
  <2>1. q \in Seq(Reports) /\ d.guest \in [ReportTypes -> SUBSET Keys]
    BY DEF Devices
  <2>2. Head(q) = q[1] /\ q[1] \in Reports /\ Tail(q) \in Seq(Reports)
    BY <2>1, <1>2, HeadTailProperties, ElementOfSeq
  <2>3. g \in [ReportTypes -> SUBSET Keys]
        /\ g[q[1].type] = q[1].held /\ \A t \in ReportTypes : t # q[1].type => g[t] = d.guest[t]
    BY <2>1, <2>2 DEF Reports
  <2>4. e = [d EXCEPT !.reports = Tail(q), !.guest = g]
    BY <1>2, <2>1 DEF Devices
  <2> HIDE DEF g
  <2>5. /\ e \in Devices /\ e.reports = Tail(q) /\ e.guest = g /\ e.readPending = d.readPending
        /\ e.cut = d.cut /\ e.overflow = d.overflow /\ e.buttons = d.buttons
        /\ e.mouseMode = d.mouseMode /\ e.consumerUsage = d.consumerUsage
    BY <2>2, <2>3, <2>4 DEF Devices
  <2>6. ASSUME NEW t \in ReportTypes, NEW h, Settles(d, t, h) PROVE Settles(e, t, h)
    <3>1. FinalIs(q, t, h, d.guest[t] = h)
      BY <2>6 DEF Settles
    <3>2. /\ q[1].type # t => FinalIs(Tail(q), t, h, d.guest[t] = h)
          /\ q[1].type = t => FinalIs(Tail(q), t, h, q[1].held = h)
      <4> HIDE DEF q
      <4> QED BY <3>1, <2>1, <1>2, TailFinal DEF q
    <3>3. FinalIs(Tail(q), t, h, g[t] = h)
      BY <3>2, <2>3
    <3> QED BY <3>3, <2>5 DEF Settles
  <2> QED BY <2>5, <2>6 DEF WasRead, ReadOK
<1> QED BY <1>1, <1>2

-----------------------------------------------------------------------------
(* The queue and the stream                                                *)

\* The fields of an item and of its note.
LEMMA ItemFacts ==
  ASSUME NEW type \in Kinds, NEW held \in SUBSET Keys, NEW motion \in BOOLEAN, NEW state \in Nat
  PROVE  /\ Item(type, held, motion, state) \in Items
         /\ Item(type, held, motion, state).type = type
         /\ Item(type, held, motion, state).held = held
         /\ Item(type, held, motion, state).state = state
BY DEF Item, Items

\* A note says the type and what is held.
LEMMA NoteFields == \A x : Note(x).type = x.type /\ Note(x).held = x.held
BY DEF Note

\* The notes of a sequence are a sequence of notes.
LEMMA NotesOfFacts ==
  ASSUME NEW s \in Seq(Items) \cup Seq(Messages)
  PROVE  /\ NotesOf(s) \in Seq(Notes)
         /\ Len(NotesOf(s)) = Len(s)
         /\ \A i \in 1..Len(s) : NotesOf(s)[i] = Note(s[i]) /\ Note(s[i]) \in Notes
         /\ NotesOf(<< >>) = << >>
<1>1. Len(s) \in Nat
  BY LenProperties
<1>2. ASSUME NEW i \in 1..Len(s) PROVE Note(s[i]) \in Notes
  <2>1. s[i] \in Items \/ s[i] \in Messages
    BY ElementOfSeq
  <2> QED BY <2>1 DEF Items, Messages, Notes, Note
<1>3. NotesOf(s) \in Seq(Notes)
  BY <1>1, <1>2, IsASeq DEF NotesOf
<1>4. Len(NotesOf(s)) = Len(s)
  <2>1. DOMAIN NotesOf(s) = 1..Len(s)
    BY DEF NotesOf
  <2>2. DOMAIN NotesOf(s) = 1..Len(NotesOf(s)) /\ Len(NotesOf(s)) \in Nat
    BY <1>3, LenProperties
  <2> QED BY <2>1, <2>2, <1>1, <1>3
<1>5. NotesOf(<< >>) = << >>
  <2>1. NotesOf(<< >>) \in Seq(Notes) /\ DOMAIN NotesOf(<< >>) = {}
    <3>1. NotesOf(<< >>) = [i \in 1..0 |-> Note(<< >>[i])]
      BY DEF NotesOf
    <3>2. \A i \in 1..0 : Note(<< >>[i]) \in Notes
      OBVIOUS
    <3>3. [i \in 1..0 |-> Note(<< >>[i])] \in Seq(Notes)
      BY <3>2, IsASeq
    <3>4. DOMAIN [i \in 1..0 |-> Note(<< >>[i])] = {}
      OBVIOUS
    <3> QED BY <3>1, <3>3, <3>4
  <2>2. Len(NotesOf(<< >>)) = 0
    <3> DEFINE z == NotesOf(<< >>)
    <3>1. z \in Seq(Notes) /\ DOMAIN z = {}
      BY <2>1
    <3> HIDE DEF z
    <3>2. DOMAIN z = 1..Len(z) /\ Len(z) \in Nat
      BY <3>1, LenProperties
    <3>3. Len(z) = 0
      BY <3>1, <3>2
    <3> QED BY <3>3 DEF z
  <2> QED BY <2>1, <2>2, EmptySeq
<1> QED BY <1>2, <1>3, <1>4, <1>5 DEF NotesOf

\* Appending to the queue appends to the stream.
LEMMA NotesAppend ==
  ASSUME NEW a \in Seq(Notes), NEW s \in Seq(Items), NEW x \in Items
  PROVE  a \o NotesOf(Append(s, x)) = Append(a \o NotesOf(s), Note(x))
<1>1. Append(s, x) \in Seq(Items) /\ Len(Append(s, x)) = Len(s) + 1 /\ Append(s, x)[Len(s) + 1] = x
      /\ \A i \in 1..Len(s) : Append(s, x)[i] = s[i]
  BY AppendProperties
<1>2. /\ NotesOf(s) \in Seq(Notes) /\ Len(NotesOf(s)) = Len(s) /\ Len(s) \in Nat
      /\ \A i \in 1..Len(s) : NotesOf(s)[i] = Note(s[i])
  BY NotesOfFacts, LenProperties
<1>3. /\ NotesOf(Append(s, x)) \in Seq(Notes) /\ Len(NotesOf(Append(s, x))) = Len(s) + 1
      /\ \A i \in 1..Len(s) + 1 : NotesOf(Append(s, x))[i] = Note(Append(s, x)[i])
  BY <1>1, NotesOfFacts
<1>4. Note(x) \in Notes
  BY DEF Note, Notes, Items
<1>5. NotesOf(Append(s, x)) = Append(NotesOf(s), Note(x))
  <2> DEFINE l == NotesOf(Append(s, x))
             r == Append(NotesOf(s), Note(x))
  <2>1. r \in Seq(Notes) /\ Len(r) = Len(s) + 1 /\ r[Len(s) + 1] = Note(x)
        /\ \A i \in 1..Len(s) : r[i] = NotesOf(s)[i]
    BY <1>2, <1>4, AppendProperties
  <2>2. \A i \in 1..Len(s) + 1 : l[i] = r[i]
    BY <2>1, <1>1, <1>2, <1>3
  <2> HIDE DEF l, r
  <2>3. l \in Seq(Notes) /\ Len(l) = Len(s) + 1
    BY <1>3 DEF l
  <2>4. l = r
    BY <2>1, <2>2, <2>3, SeqEqual
  <2> QED BY <2>4 DEF l, r
<1>6. a \o Append(NotesOf(s), Note(x)) = Append(a \o NotesOf(s), Note(x))
  <2> DEFINE b == NotesOf(s)
             y == Note(x)
  <2>0. b \in Seq(Notes) /\ y \in Notes
    BY <1>2, <1>4
  <2> HIDE DEF b, y
  <2>1. Append(b, y) = b \o <<y>> /\ <<y>> \in Seq(Notes) /\ a \o b \in Seq(Notes)
    BY <2>0, AppendIsConcat, ConcatProperties
  <2>2. a \o (b \o <<y>>) = (a \o b) \o <<y>>
    BY <2>0, <2>1, ConcatAssociative
  <2>3. Append(a \o b, y) = (a \o b) \o <<y>>
    BY <2>0, <2>1, AppendIsConcat
  <2> QED BY <2>1, <2>2, <2>3 DEF b, y
<1> QED BY <1>5, <1>6

\* QueueLocked appends, or merges with a tail that says the same.
LEMMA QueueLockedFacts ==
  ASSUME NEW q \in Seq(Items), NEW x \in Items, NEW queue \in QueueLocked(q, x)
  PROVE  \/ queue = Append(q, x)
         \/ /\ queue = q /\ q # << >>
            /\ q[Len(q)].type = x.type /\ q[Len(q)].held = x.held
BY DEF QueueLocked, Last

\* What Reset and ResyncLocked queue, item by item.
LEMMA ResetItemsFacts ==
  ASSUME NEW q \in Seq(Items), NEW state \in Nat, m_mouseMode \in Modes
  PROVE  LET x == Item(m_mouseMode, {}, FALSE, state)
             y == Item("keyboard", {}, FALSE, state)
             held == m_mouseMode \in MouseTypes /\ m_buttons[m_mouseMode] # {} IN
         /\ held => x \in Items
         /\ y \in Items
         /\ ResetItems(state) \in Seq(Items)
         /\ q \o ResetItems(state) = IF held THEN Append(Append(q, x), y) ELSE Append(q, y)
         /\ \A i \in 1..Len(ResetItems(state)) : ResetItems(state)[i].state = state
<1> DEFINE x == Item(m_mouseMode, {}, FALSE, state)
           y == Item("keyboard", {}, FALSE, state)
           held == m_mouseMode \in MouseTypes /\ m_buttons[m_mouseMode] # {}
<1>1. (held => x \in Items /\ x.state = state) /\ y \in Items /\ y.state = state
  <2>1. {} \in SUBSET Keys /\ FALSE \in BOOLEAN /\ "keyboard" \in Kinds
    BY DEF Kinds
  <2>2. held => m_mouseMode \in Kinds
    BY DEF Kinds
  <2>3. y \in Items /\ y.state = state
    BY <2>1 DEF Item, Items
  <2>4. held => x \in Items /\ x.state = state
    BY <2>1, <2>2 DEF Item, Items
  <2> QED BY <2>3, <2>4
<1>2. ResetItems(state) = (IF held THEN <<x>> ELSE << >>) \o <<y>>
  BY DEF ResetItems
<1> HIDE DEF x, y
<1>3. CASE held
  <2>1. ResetItems(state) = <<x>> \o <<y>>
    BY <1>2, <1>3
  <2>2. <<x>> \in Seq(Items) /\ <<y>> \in Seq(Items)
    BY <1>1, <1>3
  <2>3. q \o (<<x>> \o <<y>>) = (q \o <<x>>) \o <<y>>
    BY <2>2, ConcatAssociative
  <2>4. Append(q, x) = q \o <<x>> /\ Append(q, x) \in Seq(Items)
    BY <1>1, <1>3, AppendIsConcat, AppendProperties
  <2>5. Append(Append(q, x), y) = Append(q, x) \o <<y>>
    BY <2>4, <1>1, AppendIsConcat
  <2> DEFINE c == <<x>> \o <<y>>
  <2>6. /\ c \in Seq(Items)
        /\ Len(c) = Len(<<x>>) + Len(<<y>>)
        /\ \A i \in 1..Len(<<x>>) + Len(<<y>>) :
             c[i] = IF i <= Len(<<x>>) THEN <<x>>[i] ELSE <<y>>[i - Len(<<x>>)]
    BY <2>2, ConcatProperties
  <2>7. Len(<<x>>) = 1 /\ Len(<<y>>) = 1 /\ <<x>>[1] = x /\ <<y>>[1] = y
    OBVIOUS
  <2> HIDE DEF c
  <2>8. ASSUME NEW i \in 1..Len(c) PROVE c[i].state = state
    <3>1. i = 1 \/ i = 2
      BY <2>6, <2>7
    <3>2. c[1] = x /\ c[2] = y
      BY <2>6, <2>7
    <3> QED BY <3>1, <3>2, <1>1, <1>3
  <2>9. ResetItems(state) = c /\ q \o c = Append(Append(q, x), y)
    BY <2>1, <2>3, <2>4, <2>5 DEF c
  <2> QED BY <2>6, <2>8, <2>9, <1>1, <1>3 DEF x, y
<1>4. CASE ~held
  <2>1. ResetItems(state) = <<y>>
    <3>1. <<y>> \in Seq(Items)
      BY <1>1
    <3>2. ResetItems(state) = << >> \o <<y>>
      BY <1>2, <1>4
    <3> QED BY <3>1, <3>2, ConcatEmptySeq
  <2>2. q \o <<y>> = Append(q, y)
    BY <1>1, AppendIsConcat
  <2>3. <<y>> \in Seq(Items) /\ Len(<<y>>) = 1 /\ <<y>>[1] = y
    BY <1>1
  <2>4. \A i \in 1..1 : <<y>>[i].state = state
    BY <2>3, <1>1
  <2> QED BY <2>1, <2>2, <2>3, <2>4, <1>1, <1>4 DEF x, y
<1> QED BY <1>3, <1>4

\* A stream that ends in the keys k; one that switches mice properly and ends in
\* the buttons b.
KeyGood(s, k) == FinalIs(s, "keyboard", k, KeysAre(dev, k))
MouseGood(s, b) ==
  /\ Switched(s, dev.buttons)
  /\ \A t \in MouseTypes : FinalIs(s, t, b[t], dev.buttons[t] = b[t])

\* A keyboard report at the end of the stream.
LEMMA PushKey ==
  ASSUME NEW s \in Seq(Notes), NEW x \in Notes, x.type = "keyboard"
  PROVE  /\ KeyGood(Append(s, x), x.held)
         /\ \A b : MouseGood(s, b) => MouseGood(Append(s, x), b)
<1>1. KeyGood(Append(s, x), x.held)
  BY AppendFinal DEF KeyGood, FinalIs
<1>2. ASSUME NEW b, MouseGood(s, b) PROVE MouseGood(Append(s, x), b)
  <2>1. x.type \notin MouseTypes
    BY DEF MouseTypes
  <2>2. Switched(Append(s, x), dev.buttons)
    BY <2>1, <1>2, AppendSwitched DEF MouseGood
  <2>3. ASSUME NEW t \in MouseTypes
        PROVE  FinalIs(Append(s, x), t, b[t], dev.buttons[t] = b[t])
    <3>1. x.type # t /\ FinalIs(s, t, b[t], dev.buttons[t] = b[t])
      BY <2>1, <1>2 DEF MouseGood
    <3> QED BY <3>1, AppendFinal
  <2> QED BY <2>2, <2>3 DEF MouseGood
<1> QED BY <1>1, <1>2

\* A mouse report at the end of the stream.
LEMMA PushMouse ==
  ASSUME NEW s \in Seq(Notes), NEW x \in Notes, x.type \in MouseTypes
  PROVE  /\ \A k : KeyGood(s, k) => KeyGood(Append(s, x), k)
         /\ \A b, c : /\ MouseGood(s, b)
                      /\ b[Other(x.type)] = {}
                      /\ c[x.type] = x.held /\ c[Other(x.type)] = {}
                      => MouseGood(Append(s, x), c)
<1>1. ASSUME NEW k, KeyGood(s, k) PROVE KeyGood(Append(s, x), k)
  <2>1. x.type # "keyboard"
    BY DEF MouseTypes
  <2> QED BY <2>1, <1>1, AppendFinal DEF KeyGood
<1>2. ASSUME NEW b, NEW c, MouseGood(s, b), b[Other(x.type)] = {}, c[x.type] = x.held,
             c[Other(x.type)] = {}
      PROVE  MouseGood(Append(s, x), c)
  <2>0. PICK o \in MouseTypes : o = Other(x.type)
    BY OtherFacts
  <2>1. FinalIs(s, o, {}, dev.buttons[o] = {})
    BY <2>0, <1>2 DEF MouseGood
  <2>2. Switched(Append(s, x), dev.buttons)
    BY <2>0, <2>1, <1>2, AppendSwitched DEF MouseGood
  <2>3. FinalIs(Append(s, x), o, {}, dev.buttons[o] = {})
    <3>1. x.type # o
      BY <2>0, OtherFacts
    <3> QED BY <2>1, <3>1, AppendFinal
  <2>4. LastIs(Append(s, x), x.type, x.held)
    BY AppendFinal
  <2>5. ASSUME NEW t \in MouseTypes
        PROVE  FinalIs(Append(s, x), t, c[t], dev.buttons[t] = c[t])
    <3>1. t = x.type \/ t = o
      BY <2>0, OtherFacts DEF MouseTypes
    <3>2. CASE t = x.type
      BY <3>2, <2>4, <1>2 DEF FinalIs
    <3>3. CASE t = o
      BY <3>3, <2>0, <2>3, <1>2
    <3> QED BY <3>1, <3>2, <3>3
  <2> QED BY <2>2, <2>5 DEF MouseGood
<1> QED BY <1>1, <1>2

\* What Reset and ResyncLocked queue ends every key and every button.
LEMMA PushReset ==
  ASSUME TypeInv, NEW a \in Seq(Notes), NEW q \in Seq(Items), NEW state \in Nat,
         \A t \in MouseTypes : m_mouseMode # t => m_buttons[t] = {}
  PROVE  LET s == a \o NotesOf(q \o ResetItems(state)) IN
         /\ KeyGood(s, {})
         /\ MouseGood(a \o NotesOf(q), m_buttons) => MouseGood(s, [t \in MouseTypes |-> {}])
<1> DEFINE x == Item(m_mouseMode, {}, FALSE, state)
           y == Item("keyboard", {}, FALSE, state)
           held == m_mouseMode \in MouseTypes /\ m_buttons[m_mouseMode] # {}
           n == a \o NotesOf(q)
           none == [t \in MouseTypes |-> {}]
<1>0. /\ held => x \in Items
      /\ y \in Items
      /\ q \o ResetItems(state) = IF held THEN Append(Append(q, x), y) ELSE Append(q, y)
  <2>1. m_mouseMode \in Modes
    BY DEF TypeInv
  <2> QED BY <2>1, ResetItemsFacts
<1>1. n \in Seq(Notes)
  BY NotesOfFacts, ConcatProperties
<1>2. Note(y) \in Notes /\ Note(y).type = "keyboard" /\ Note(y).held = {}
  BY DEF Note, Notes, Item, Kinds
<1>3. held => Note(x) \in Notes /\ Note(x).type = m_mouseMode /\ Note(x).held = {}
  BY DEF Note, Notes, Item, Kinds
<1>4. \A t \in MouseTypes : none[t] = {}
  OBVIOUS
<1> HIDE DEF x, y, none
<1>5. CASE ~held
  <2>1. a \o NotesOf(q \o ResetItems(state)) = Append(n, Note(y))
    BY <1>0, <1>5, NotesAppend, Zenon
  <2>2. \A t \in MouseTypes : m_buttons[t] = {}
    BY <1>5
  <2>3. MouseGood(n, m_buttons) => MouseGood(n, none)
    BY <2>2, <1>4 DEF MouseGood
  <2> HIDE DEF n
  <2> QED BY <2>1, <2>3, <1>1, <1>2, PushKey DEF none, n
<1>6. CASE held
  <2>1. a \o NotesOf(q \o ResetItems(state)) = Append(a \o NotesOf(Append(q, x)), Note(y))
    <3>1. Append(q, x) \in Seq(Items)
      BY <1>0, <1>6, AppendProperties
    <3> QED BY <3>1, <1>0, <1>6, NotesAppend, ZenonT(60)
  <2>2. a \o NotesOf(Append(q, x)) = Append(n, Note(x))
    BY <1>0, <1>6, NotesAppend
  <2> DEFINE w == Append(n, Note(x))
  <2>3. w \in Seq(Notes)
    BY <1>1, <1>3, <1>6, AppendProperties
  <2>4. m_buttons[Other(m_mouseMode)] = {} /\ Other(m_mouseMode) \in MouseTypes
    BY <1>6, OtherFacts
  <2> HIDE DEF n, w
  <2>5. MouseGood(n, m_buttons) => MouseGood(w, none)
    BY <2>4, <1>1, <1>3, <1>4, <1>6, PushMouse, ZenonT(60) DEF w
  <2>6. a \o NotesOf(q \o ResetItems(state)) = Append(w, Note(y))
    BY <2>1, <2>2 DEF w
  <2> QED BY <2>3, <2>5, <2>6, <1>2, PushKey DEF none, n
<1> QED BY <1>5, <1>6

-----------------------------------------------------------------------------
(* The steps                                                               *)

\* Each kind's reports hold what is known to the device.
LEMMA HeldByKeys ==
  \A type \in Kinds : \A held \in HeldBy(type) : held \in SUBSET Keys
BY DEF HeldBy, Keys

\* The queue a mouse report makes: the release of the other mouse, then the
\* report itself unless it is merged.
MouseQueued(type, held, motion, queue) ==
  LET z == Item(Other(type), {}, FALSE, m_state)
      x == Item(type, held, motion, m_state)
      released == m_mouseMode = Other(type) /\ m_buttons[Other(type)] # {}
      q == IF released THEN Append(m_queue, z) ELSE m_queue
  IN /\ z \in Items /\ x \in Items /\ q \in Seq(Items)
     /\ z.state = m_state /\ x.state = m_state
     /\ Note(z) \in Notes /\ Note(z).type = Other(type) /\ Note(z).held = {}
     /\ Note(x) \in Notes /\ Note(x).type = type /\ Note(x).held = held
     /\ \/ queue = Append(q, x)
        \/ queue = q /\ q # << >> /\ q[Len(q)].type = type /\ q[Len(q)].held = held

\* SendMouseRelative and SendMouseAbsolute make that queue.
LEMMA MouseQueue ==
  ASSUME TypeInv, NEW type \in MouseTypes, NEW held \in SUBSET Keys, NEW motion \in BOOLEAN,
         NEW queue \in QueueLocked(m_queue \o Switch(type), Item(type, held, motion, m_state))
  PROVE  MouseQueued(type, held, motion, queue)
<1> DEFINE z == Item(Other(type), {}, FALSE, m_state)
           x == Item(type, held, motion, m_state)
           released == m_mouseMode = Other(type) /\ m_buttons[Other(type)] # {}
           q == IF released THEN Append(m_queue, z) ELSE m_queue
<1>1. m_state \in Nat /\ m_queue \in Seq(Items) /\ Other(type) \in Kinds /\ type \in Kinds
  BY OtherFacts DEF TypeInv, Kinds
<1>2. /\ z \in Items /\ x \in Items /\ z.state = m_state /\ x.state = m_state
      /\ x.type = type /\ x.held = held
      /\ Note(z) \in Notes /\ Note(z).type = Other(type) /\ Note(z).held = {}
      /\ Note(x) \in Notes /\ Note(x).type = type /\ Note(x).held = held
  BY <1>1 DEF Item, Items, Note, Notes
<1> HIDE DEF z, x
<1>3. m_queue \o Switch(type) = q
  <2>1. CASE released
    BY <2>1, <1>1, <1>2, AppendIsConcat, Zenon DEF Switch, z
  <2>2. CASE ~released
    BY <2>2, <1>1, ConcatEmptySeq DEF Switch
  <2> QED BY <2>1, <2>2
<1>4. q \in Seq(Items)
  BY <1>1, <1>2, AppendProperties
<1>5. queue \in QueueLocked(q, x)
  BY <1>3 DEF x
<1> HIDE DEF q
<1>6. \/ queue = Append(q, x)
      \/ queue = q /\ q # << >> /\ q[Len(q)].type = x.type /\ q[Len(q)].held = x.held
  BY <1>2, <1>4, <1>5, QueueLockedFacts
<1> QED BY <1>2, <1>4, <1>6 DEF q, x, z, MouseQueued

\* What is on its way before the queue.
Ahead == NotesOf(wire) \o InHand

\* The stream and its parts.
LEMMA StreamFacts ==
  ASSUME TypeInv
  PROVE  /\ NotesOf(wire) \in Seq(Notes) /\ NotesOf(m_queue) \in Seq(Notes)
         /\ InHand \in Seq(Notes) /\ Ahead \in Seq(Notes) /\ Stream \in Seq(Notes)
         /\ Attached => Stream = Ahead \o NotesOf(m_queue)
         /\ Attached => Stream = NotesOf(wire) \o (InHand \o NotesOf(m_queue))
         /\ InHand \o NotesOf(m_queue) \in Seq(Notes)
         /\ ~Attached => Stream = NotesOf(wire)
<1>1. NotesOf(wire) \in Seq(Notes) /\ NotesOf(m_queue) \in Seq(Notes)
  BY NotesOfFacts DEF TypeInv
<1>2. InHand \in Seq(Notes)
  <2>1. ASSUME sending # None, sending.type # "failed" PROVE Note(sending) \in Notes
    <3>1. sending \in Items
      BY <2>1 DEF TypeInv
    <3> QED BY <3>1 DEF Items, Note, Notes
  <2> QED BY <2>1 DEF InHand
<1>3. Ahead \in Seq(Notes)
  BY <1>1, <1>2, ConcatProperties DEF Ahead
<1>4. InHand \o NotesOf(m_queue) \in Seq(Notes)
  BY <1>1, <1>2, ConcatProperties
<1>5. CASE Attached
  <2>1. Stream = NotesOf(wire) \o (InHand \o NotesOf(m_queue))
    BY <1>5 DEF Stream
  <2>2. Stream = Ahead \o NotesOf(m_queue)
    BY <2>1, <1>1, <1>2, ConcatAssociative, SMTT(60) DEF Ahead
  <2>3. Stream \in Seq(Notes)
    BY <2>1, <1>1, <1>4, ConcatProperties
  <2> QED BY <2>1, <2>2, <2>3, <1>1, <1>2, <1>3, <1>4, <1>5
<1>6. CASE ~Attached
  <2>1. Stream = NotesOf(wire) \o << >>
    BY <1>6 DEF Stream
  <2>2. Stream = NotesOf(wire)
    BY <2>1, <1>1, ConcatEmptySeq
  <2> QED BY <2>2, <1>1, <1>2, <1>3, <1>4, <1>6
<1> QED BY <1>5, <1>6

\* What the sink's own steps leave alone.
LEMMA SinkStep ==
  ASSUME IInv, UNCHANGED <<m_sequence, pipe, running, m_lastSequence, dev>>, cut => cut'
  PROVE  /\ DevInv' /\ RestInv' /\ PipeInv' /\ NumberInv'
         /\ Uncut' => Uncut
<1>1. Uncut' => Uncut
  BY DEF Uncut
<1>2. /\ dev' = dev /\ link' = link /\ reading' = reading /\ wire' = wire /\ m_connected' = m_connected
      /\ running' = running /\ m_lastSequence' = m_lastSequence /\ m_sequence' = m_sequence
  BY DEF pipe
<1>3. DevInv'
  BY <1>1, <1>2 DEF IInv, DevInv
<1>4. RestInv'
  BY <1>1, <1>2 DEF IInv, RestInv, Parted
<1>5. PipeInv'
  BY <1>2 DEF IInv, PipeInv
<1>6. NumberInv'
  BY <1>2 DEF IInv, NumberInv
<1> QED BY <1>1, <1>3, <1>4, <1>5, <1>6

\* The parity of a generation.
LEMMA OddFacts ==
  ASSUME NEW n \in Nat
  PROVE  Odd(n + 2) = Odd(n) /\ (Odd(n) => ~Odd(n + 1)) /\ (~Odd(n) => Odd(n + 1))
BY DEF Odd

\* ResyncLocked keeps the invariant.
LEMMA ResyncStep ==
  ASSUME IInv, ResyncLocked, Odd(m_state),
         UNCHANGED <<m_sequence, sending, pipe, running, m_lastSequence, dev>>
  PROVE  IInv'
<1>0. /\ m_state' = m_state + 2 /\ m_queue' = ResetItems(m_state') /\ asked' = {}
      /\ m_mouseMode' = "none" /\ m_buttons' = [t \in MouseTypes |-> {}]
      /\ cut' = (cut \/ HasMouse(m_queue) \/ sending.type \in MouseTypes)
      /\ sending' = sending /\ dev' = dev /\ link' = link /\ reading' = reading /\ wire' = wire
      /\ m_connected' = m_connected /\ running' = running /\ m_lastSequence' = m_lastSequence
      /\ m_sequence' = m_sequence
  BY DEF ResyncLocked, Neutralised, pipe
<1>1. m_state \in Nat /\ m_state' \in Nat /\ m_mouseMode \in Modes /\ TypeInv
  BY <1>0 DEF IInv, TypeInv
<1>2. ResetItems(m_state') \in Seq(Items)
      /\ \A i \in 1..Len(ResetItems(m_state')) : ResetItems(m_state')[i].state = m_state'
  <2>1. << >> \in Seq(Items)
    OBVIOUS
  <2> QED BY <2>1, <1>1, ResetItemsFacts
<1>3. TypeInv'
  <2>1. {} \in SUBSET Keys /\ "none" \in Modes
        /\ [t \in MouseTypes |-> {}] \in [MouseTypes -> SUBSET Keys]
    BY DEF Modes
  <2>2. cut' \in BOOLEAN
    BY <1>0
  <2> QED BY <2>1, <2>2, <1>0, <1>1, <1>2 DEF TypeInv
<1>4. DevInv' /\ RestInv' /\ PipeInv' /\ NumberInv' /\ (Uncut' => Uncut)
  BY <1>0, SinkStep
<1>5. SendInv'
  <2>1. sending # None => sending.state \in Nat
    BY <1>1 DEF TypeInv, Items
  <2>2. sending # None => sending.state < m_state'
    BY <2>1, <1>0, <1>1 DEF IInv, SendInv
  <2>3. None.type # "failed"
    BY DEF None
  <2>4. Odd(m_state')
    BY <1>0, <1>1, OddFacts
  <2>5. ~(sending.type = "failed" /\ sending.state = m_state')
    BY <2>1, <2>2, <2>3, <1>1
  <2>6. sending # None => sending.state <= m_state'
    BY <2>1, <2>2, <1>1
  <2> QED BY <2>4, <2>5, <2>6, <1>0, <1>2 DEF SendInv
<1>6. StreamInv'
  <2>0. Attached' = Attached
    BY <1>0, <1>1, OddFacts DEF Attached
  <2>1. InHand' = << >>
    <3>1. sending # None => sending.state \in Nat /\ sending.state <= m_state
      BY <1>1 DEF TypeInv, Items, IInv, SendInv
    <3>2. ~(sending # None /\ sending.type # "failed" /\ sending.state = m_state')
      BY <3>1, <1>0, <1>1
    <3> QED BY <3>2, <1>0 DEF InHand
  <2> DEFINE a == NotesOf(wire)
  <2>2. a \in Seq(Notes)
    BY <1>1, StreamFacts
  <2>3. Attached' => Stream' = a \o NotesOf(<< >> \o ResetItems(m_state'))
    <3> SUFFICES ASSUME Attached' PROVE Stream' = a \o NotesOf(<< >> \o ResetItems(m_state'))
      OBVIOUS
    <3>1. Stream' = NotesOf(wire)' \o (InHand' \o NotesOf(m_queue)')
      BY <1>3 DEF Stream
    <3>2. NotesOf(wire)' = a /\ NotesOf(m_queue)' = NotesOf(ResetItems(m_state'))
      BY <1>0 DEF NotesOf
    <3>3. NotesOf(ResetItems(m_state')) \in Seq(Notes)
      BY <1>2, NotesOfFacts
    <3>4. InHand' \o NotesOf(m_queue)' = NotesOf(ResetItems(m_state'))
      BY <2>1, <3>2, <3>3, ConcatEmptySeq
    <3>5. << >> \o ResetItems(m_state') = ResetItems(m_state')
      BY <1>2, ConcatEmptySeq
    <3> QED BY <3>1, <3>2, <3>4, <3>5
  <2>4. a \o NotesOf(<< >>) = a /\ << >> \in Seq(Items)
    <3>1. << >> \in Seq(Items)
      OBVIOUS
    <3>2. NotesOf(<< >>) = << >>
      BY <3>1, NotesOfFacts
    <3>3. a \o << >> = a
      BY <2>2, ConcatEmptySeq
    <3> QED BY <3>1, <3>2, <3>3
  <2>5. \A t \in MouseTypes : m_mouseMode # t => m_buttons[t] = {}
    BY DEF IInv, StreamInv
  <2> HIDE DEF a
  <2>6. Attached' => KeyGood(Stream', {})
    BY <2>2, <2>3, <2>4, <2>5, <1>1, PushReset
  <2>7. ASSUME Uncut'
        PROVE  /\ Attached => MouseGood(a, m_buttons)
               /\ Switched(a, dev.buttons)
    <3>1. ~HasMouse(m_queue) /\ sending.type \notin MouseTypes /\ Uncut
      BY <2>7, <1>0, <1>4 DEF Uncut
    <3>2. CASE Attached
      <4> DEFINE b == InHand \o NotesOf(m_queue)
      <4>1. b \in Seq(Notes) /\ Stream = a \o b
        BY <3>2, <1>1, StreamFacts DEF a
      <4>2. ASSUME NEW t \in MouseTypes PROVE NoneIn(b, t)
        <5>1. NoneIn(NotesOf(m_queue), t)
          <6>1. /\ Len(NotesOf(m_queue)) = Len(m_queue)
                /\ \A i \in 1..Len(m_queue) : NotesOf(m_queue)[i] = Note(m_queue[i])
            BY <1>1, NotesOfFacts DEF TypeInv
          <6>2. ASSUME NEW i \in 1..Len(m_queue) PROVE NotesOf(m_queue)[i].type # t
            <7>1. NotesOf(m_queue)[i].type = m_queue[i].type
              BY <6>1, NoteFields
            <7>2. m_queue[i].type \notin MouseTypes
              BY <3>1 DEF HasMouse
            <7> QED BY <7>1, <7>2
          <6> QED BY <6>1, <6>2 DEF NoneIn
        <5>2. NoneIn(InHand, t)
          <6>1. InHand = << >> \/ InHand = <<Note(sending)>>
            BY DEF InHand
          <6>2. Note(sending).type # t
            BY <3>1 DEF Note
          <6> QED BY <6>1, <6>2 DEF NoneIn
        <5>3. /\ Len(b) = Len(InHand) + Len(NotesOf(m_queue))
              /\ \A i \in 1..Len(InHand) + Len(NotesOf(m_queue)) :
                   b[i] = IF i <= Len(InHand) THEN InHand[i] ELSE NotesOf(m_queue)[i - Len(InHand)]
          BY <1>1, StreamFacts, ConcatProperties
        <5>4. Len(InHand) \in Nat /\ Len(NotesOf(m_queue)) \in Nat
          BY <1>1, StreamFacts, LenProperties
        <5> HIDE DEF b
        <5>5. ASSUME NEW i \in 1..Len(b) PROVE b[i].type # t
          <6>1. CASE i <= Len(InHand)
            <7>1. b[i] = InHand[i] /\ i \in 1..Len(InHand)
              BY <6>1, <5>3, <5>4
            <7> QED BY <7>1, <5>2 DEF NoneIn
          <6>2. CASE ~(i <= Len(InHand))
            <7>1. b[i] = NotesOf(m_queue)[i - Len(InHand)] /\ i - Len(InHand) \in 1..Len(NotesOf(m_queue))
              BY <6>2, <5>3, <5>4
            <7> QED BY <7>1, <5>1 DEF NoneIn
          <6> QED BY <6>1, <6>2
        <5> QED BY <5>5 DEF NoneIn
      <4>3. Switched(a \o b, dev.buttons)
            /\ \A t \in MouseTypes : FinalIs(a \o b, t, m_buttons[t], dev.buttons[t] = m_buttons[t])
        BY <4>1, <3>1, <3>2 DEF IInv, StreamInv
      <4> HIDE DEF b
      <4>4. Switched(a, dev.buttons)
        BY <4>1, <4>3, <2>2, PrefixSwitched
      <4>5. ASSUME NEW t \in MouseTypes PROVE FinalIs(a, t, m_buttons[t], dev.buttons[t] = m_buttons[t])
        BY <4>1, <4>2, <4>3, <2>2, PrefixFinal
      <4> QED BY <4>4, <4>5 DEF MouseGood
    <3>3. CASE ~Attached
      <4>1. Stream = a
        BY <3>3, <1>1, StreamFacts DEF a
      <4> QED BY <4>1, <3>1, <3>3 DEF IInv, StreamInv
    <3> QED BY <3>2, <3>3
  <2>8. Uncut' /\ Attached' => MouseGood(Stream', [t \in MouseTypes |-> {}])
    BY <2>0, <2>2, <2>3, <2>4, <2>5, <2>7, <1>1, PushReset
  <2>9. ~Attached' => Stream' = a
    <3>1. NotesOf(wire)' = a
      BY <1>0 DEF NotesOf, a
    <3> QED BY <3>1, <1>3, <2>2, ConcatEmptySeq DEF Stream
  <2>10. Uncut' => Switched(Stream', dev'.buttons)
    BY <2>7, <2>8, <2>9, <1>0 DEF MouseGood
  <2>11. Uncut' /\ Attached' => \A t \in MouseTypes :
           FinalIs(Stream', t, m_buttons'[t], dev'.buttons[t] = m_buttons'[t])
    BY <2>8, <1>0 DEF MouseGood
  <2>12. Attached' => FinalIs(Stream', "keyboard", asked', KeysAre(dev', asked'))
    BY <2>6, <1>0 DEF KeyGood
  <2>13. \A t \in MouseTypes : m_mouseMode' # t => m_buttons'[t] = {}
    BY <1>0
  <2> QED BY <2>10, <2>11, <2>12, <2>13 DEF StreamInv
<1> QED BY <1>3, <1>4, <1>5, <1>6 DEF IInv

\* A step that only queues: it is enough to look at the stream it makes.
LEMMA QueueStep ==
  ASSUME IInv, UNCHANGED <<m_state, m_sequence, sending, pipe, running, m_lastSequence, dev, cut>>,
         NEW q \in Seq(Items), m_queue' = q, \A i \in 1..Len(q) : q[i].state = m_state,
         m_mouseMode' \in Modes, m_buttons' \in [MouseTypes -> SUBSET Keys],
         asked' \in SUBSET Keys,
         \A t \in MouseTypes : m_mouseMode' # t => m_buttons'[t] = {},
         Attached => KeyGood(Ahead \o NotesOf(q), asked'),
         Attached /\ Uncut => MouseGood(Ahead \o NotesOf(q), m_buttons')
  PROVE  IInv'
<1>0. /\ m_state' = m_state /\ cut' = cut
      /\ sending' = sending /\ dev' = dev /\ link' = link /\ reading' = reading /\ wire' = wire
      /\ m_connected' = m_connected /\ running' = running /\ m_lastSequence' = m_lastSequence
      /\ m_sequence' = m_sequence
  BY DEF pipe
<1>1. TypeInv /\ TypeInv'
  BY <1>0 DEF IInv, TypeInv
<1>2. DevInv' /\ RestInv' /\ PipeInv' /\ NumberInv' /\ Uncut' = Uncut
  <2>1. Uncut' = Uncut
    BY <1>0 DEF Uncut
  <2> QED BY <2>1, <1>0, SinkStep
<1>3. SendInv'
  BY <1>0 DEF IInv, SendInv
<1>4. StreamInv'
  <2>1. Attached' = Attached /\ NotesOf(wire)' = NotesOf(wire) /\ InHand' = InHand
        /\ NotesOf(m_queue)' = NotesOf(q)
    BY <1>0 DEF Attached, NotesOf, InHand
  <2>2. /\ NotesOf(wire) \in Seq(Notes) /\ InHand \in Seq(Notes) /\ NotesOf(q) \in Seq(Notes)
        /\ ~Attached => Stream = NotesOf(wire)
    BY <1>1, StreamFacts, NotesOfFacts
  <2>3. Attached => Stream' = Ahead \o NotesOf(q)
    <3> SUFFICES ASSUME Attached PROVE Stream' = Ahead \o NotesOf(q)
      OBVIOUS
    <3>1. Stream' = NotesOf(wire) \o (InHand \o NotesOf(q))
      BY <2>1 DEF Stream
    <3> QED BY <3>1, <2>2, ConcatAssociative, SMTT(60) DEF Ahead
  <2>4. ~Attached => Stream' = NotesOf(wire)
    <3> SUFFICES ASSUME ~Attached PROVE Stream' = NotesOf(wire)
      OBVIOUS
    <3>1. Stream' = NotesOf(wire) \o << >>
      BY <2>1 DEF Stream
    <3> QED BY <3>1, <2>2, ConcatEmptySeq
  <2>5. Attached' => FinalIs(Stream', "keyboard", asked', KeysAre(dev', asked'))
    BY <2>1, <2>3, <1>0 DEF KeyGood
  <2>6. Uncut' /\ Attached' =>
          /\ Switched(Stream', dev'.buttons)
          /\ \A t \in MouseTypes : FinalIs(Stream', t, m_buttons'[t], dev'.buttons[t] = m_buttons'[t])
    BY <2>1, <2>3, <1>0, <1>2 DEF MouseGood
  <2>7. Uncut' /\ ~Attached' => Switched(Stream', dev'.buttons)
    BY <2>1, <2>2, <2>4, <1>0, <1>2 DEF IInv, StreamInv
  <2> QED BY <2>5, <2>6, <2>7 DEF StreamInv
<1> QED BY <1>1, <1>2, <1>3, <1>4 DEF IInv

\* The stream as it is before the step.
LEMMA StreamGood ==
  ASSUME IInv, Attached
  PROVE  /\ KeyGood(Ahead \o NotesOf(m_queue), asked)
         /\ Uncut => MouseGood(Ahead \o NotesOf(m_queue), m_buttons)
<1>1. Stream = Ahead \o NotesOf(m_queue)
  BY StreamFacts DEF IInv
<1> QED BY <1>1 DEF IInv, StreamInv, KeyGood, MouseGood

\* A queue stays of one state when an item of that state is added.
LEMMA AppendState ==
  ASSUME NEW q \in Seq(Items), NEW x \in Items, NEW n,
         \A i \in 1..Len(q) : q[i].state = n, x.state = n
  PROVE  Append(q, x) \in Seq(Items) /\ \A i \in 1..Len(Append(q, x)) : Append(q, x)[i].state = n
<1> DEFINE a == Append(q, x)
<1>1. a \in Seq(Items) /\ Len(a) = Len(q) + 1 /\ a[Len(q) + 1] = x /\ \A i \in 1..Len(q) : a[i] = q[i]
  BY AppendProperties
<1>2. Len(q) \in Nat
  BY LenProperties
<1> HIDE DEF a
<1>3. ASSUME NEW i \in 1..Len(a) PROVE a[i].state = n
  <2>1. i \in 1..Len(q) \/ i = Len(q) + 1
    BY <1>1, <1>2
  <2> QED BY <2>1, <1>1
<1> QED BY <1>1, <1>3 DEF a

\* SendKeyboard
LEMMA SendKeyboardStep ==
  ASSUME IInv, NEW held \in HeldBy("keyboard"), SendKeyboard(held) PROVE IInv'
<1>0. Odd(m_state) /\ UNCHANGED <<m_sequence, sending, pipe, running, m_lastSequence, dev>>
      /\ held \in SUBSET Keys /\ TypeInv
  BY HeldByKeys DEF SendKeyboard, IInv, Kinds
<1>1. CASE ResyncLocked
  BY <1>0, <1>1, ResyncStep
<1>2. CASE /\ m_queue' = Append(m_queue, Item("keyboard", held, FALSE, m_state))
           /\ asked' = held
           /\ UNCHANGED <<m_state, m_mouseMode, m_buttons, cut>>
  <2> DEFINE x == Item("keyboard", held, FALSE, m_state)
             q == Append(m_queue, x)
  <2>1. x \in Items /\ x.state = m_state /\ Note(x) \in Notes /\ Note(x).type = "keyboard"
        /\ Note(x).held = held
    BY <1>0 DEF TypeInv, Item, Items, Note, Notes, Kinds
  <2> HIDE DEF x
  <2>2. m_queue \in Seq(Items) /\ \A i \in 1..Len(m_queue) : m_queue[i].state = m_state
    BY DEF IInv, TypeInv, SendInv
  <2>3. q \in Seq(Items) /\ \A i \in 1..Len(q) : q[i].state = m_state
    BY <2>1, <2>2, AppendState
  <2>4. Ahead \o NotesOf(q) = Append(Ahead \o NotesOf(m_queue), Note(x))
        /\ Ahead \o NotesOf(m_queue) \in Seq(Notes)
    BY <2>1, <2>2, <1>0, NotesAppend, StreamFacts, ConcatProperties
  <2>5. KeyGood(Ahead \o NotesOf(q), held)
    BY <2>1, <2>4, PushKey
  <2>6. Attached /\ Uncut => MouseGood(Ahead \o NotesOf(q), m_buttons)
    BY <2>1, <2>4, PushKey, StreamGood
  <2> HIDE DEF q
  <2>7. m_queue' = q
    BY <1>2 DEF q, x
  <2>8. /\ m_mouseMode' \in Modes /\ m_buttons' \in [MouseTypes -> SUBSET Keys]
        /\ \A t \in MouseTypes : m_mouseMode' # t => m_buttons'[t] = {}
    BY <1>2 DEF IInv, TypeInv, StreamInv
  <2> QED BY <2>3, <2>5, <2>6, <2>7, <2>8, <1>0, <1>2, QueueStep
<1> QED BY <1>1, <1>2 DEF SendKeyboard

\* Reset
LEMMA ResetStep ==
  ASSUME IInv, Reset PROVE IInv'
<1>0. Odd(m_state) /\ UNCHANGED <<m_sequence, sending, pipe, running, m_lastSequence, dev>>
      /\ TypeInv
  BY DEF Reset, IInv
<1>1. CASE ResyncLocked
  BY <1>0, <1>1, ResyncStep
<1>2. CASE /\ m_queue' = m_queue \o ResetItems(m_state)
           /\ asked' = {} /\ Neutralised
           /\ UNCHANGED <<m_state, cut>>
  <2> DEFINE q == m_queue \o ResetItems(m_state)
             none == [t \in MouseTypes |-> {}]
  <2>1. m_queue \in Seq(Items) /\ m_state \in Nat /\ m_mouseMode \in Modes
        /\ \A i \in 1..Len(m_queue) : m_queue[i].state = m_state
    BY DEF IInv, TypeInv, SendInv
  <2>2. q \in Seq(Items) /\ \A i \in 1..Len(q) : q[i].state = m_state
    <3> DEFINE x == Item(m_mouseMode, {}, FALSE, m_state)
               y == Item("keyboard", {}, FALSE, m_state)
    <3>1. y \in Items /\ y.state = m_state
      BY <2>1 DEF Item, Items, Kinds
    <3>2. m_mouseMode \in MouseTypes => x \in Items /\ x.state = m_state
      BY <2>1 DEF Item, Items, Kinds
    <3>3. \/ q = Append(m_queue, y)
          \/ m_mouseMode \in MouseTypes /\ q = Append(Append(m_queue, x), y)
      BY <2>1, ResetItemsFacts
    <3> HIDE DEF x, y, q
    <3>4. CASE q = Append(m_queue, y)
      BY <3>1, <3>4, <2>1, AppendState
    <3>5. CASE m_mouseMode \in MouseTypes /\ q = Append(Append(m_queue, x), y)
      <4>1. /\ Append(m_queue, x) \in Seq(Items)
            /\ \A i \in 1..Len(Append(m_queue, x)) : Append(m_queue, x)[i].state = m_state
        BY <3>2, <3>5, <2>1, AppendState
      <4> QED BY <4>1, <3>1, <3>5, AppendState
    <3> QED BY <3>3, <3>4, <3>5
  <2>3. Ahead \in Seq(Notes) /\ \A t \in MouseTypes : m_mouseMode # t => m_buttons[t] = {}
    BY <1>0, StreamFacts DEF IInv, StreamInv
  <2>4. /\ KeyGood(Ahead \o NotesOf(q), {})
        /\ MouseGood(Ahead \o NotesOf(m_queue), m_buttons) => MouseGood(Ahead \o NotesOf(q), none)
    BY <2>1, <2>3, <1>0, PushReset
  <2>5. Attached /\ Uncut => MouseGood(Ahead \o NotesOf(q), none)
    BY <2>4, StreamGood
  <2>6. none \in [MouseTypes -> SUBSET Keys] /\ (\A t \in MouseTypes : none[t] = {})
        /\ "none" \in Modes /\ {} \in SUBSET Keys
    BY DEF Modes
  <2>7. m_mouseMode' = "none" /\ m_buttons' = none /\ m_queue' = q
    BY <1>2 DEF Neutralised
  <2> HIDE DEF q, none
  <2> QED BY <2>2, <2>4, <2>5, <2>6, <2>7, <1>0, <1>2, QueueStep
<1> QED BY <1>1, <1>2 DEF Reset

\* SendMouseRelative and SendMouseAbsolute
LEMMA SendMouseStep ==
  ASSUME IInv, NEW type \in MouseTypes, NEW held \in HeldBy(type), NEW motion \in BOOLEAN,
         SendMouse(type, held, motion)
  PROVE  IInv'
<1>0. Odd(m_state) /\ UNCHANGED <<m_sequence, sending, pipe, running, m_lastSequence, dev>>
      /\ held \in SUBSET Keys /\ TypeInv
  BY HeldByKeys DEF SendMouse, IInv, Kinds
<1>1. CASE ResyncLocked
  BY <1>0, <1>1, ResyncStep
<1>2. ASSUME NEW queue \in QueueLocked(m_queue \o Switch(type), Item(type, held, motion, m_state)),
             m_queue' = queue, m_mouseMode' = type,
             m_buttons' = [m_buttons EXCEPT ![type] = held,
                 ![Other(type)] = IF m_mouseMode = Other(type) THEN {} ELSE @],
             UNCHANGED <<m_state, asked, cut>>
      PROVE  IInv'
  <2>0. PICK o \in MouseTypes : o = Other(type) /\ o # type /\ Other(o) = type
    BY OtherFacts
  <2> DEFINE z == Item(o, {}, FALSE, m_state)
             x == Item(type, held, motion, m_state)
             released == m_mouseMode = o /\ m_buttons[o] # {}
             q == IF released THEN Append(m_queue, z) ELSE m_queue
  <2>1. /\ z \in Items /\ x \in Items /\ q \in Seq(Items)
        /\ z.state = m_state /\ x.state = m_state
        /\ Note(z) \in Notes /\ Note(z).type = o /\ Note(z).held = {}
        /\ Note(x) \in Notes /\ Note(x).type = type /\ Note(x).held = held
        /\ \/ queue = Append(q, x)
           \/ queue = q /\ q # << >> /\ q[Len(q)].type = type /\ q[Len(q)].held = held
    <3>1. MouseQueued(type, held, motion, queue)
      BY <1>0, <1>2, MouseQueue
    <3> HIDE DEF x
    <3> QED BY <3>1, <2>0 DEF MouseQueued, x
  <2>2. m_buttons \in [MouseTypes -> SUBSET Keys] /\ m_mouseMode \in Modes /\ m_queue \in Seq(Items)
        /\ m_state \in Nat
    BY <1>0 DEF TypeInv
  <2>3. \A t \in MouseTypes : m_mouseMode # t => m_buttons[t] = {}
    BY DEF IInv, StreamInv
  <2>4. \A t \in MouseTypes : t = type \/ t = o
    BY <2>0 DEF MouseTypes
  <2>5. /\ m_buttons' \in [MouseTypes -> SUBSET Keys]
        /\ m_buttons'[type] = held /\ m_buttons'[o] = {}
    <3>1. m_buttons' = [m_buttons EXCEPT ![type] = held,
                 ![o] = IF m_mouseMode = o THEN {} ELSE @]
      BY <2>0, <1>2
    <3>2. m_buttons' \in [MouseTypes -> SUBSET Keys] /\ m_buttons'[type] = held
          /\ m_buttons'[o] = IF m_mouseMode = o THEN {} ELSE m_buttons[o]
      BY <3>1, <2>0, <2>2, <1>0
    <3> QED BY <3>2, <2>0, <2>3
  <2> HIDE DEF z, x
  <2>6. \A i \in 1..Len(m_queue) : m_queue[i].state = m_state
    BY DEF IInv, SendInv
  <2>7. \A i \in 1..Len(q) : q[i].state = m_state
    BY <2>1, <2>2, <2>6, AppendState
  <2>8. queue \in Seq(Items) /\ \A i \in 1..Len(queue) : queue[i].state = m_state
    <3> HIDE DEF q
    <3> QED BY <2>1, <2>7, AppendState, ZenonT(60)
  <2>9. Ahead \in Seq(Notes)
    BY <1>0, StreamFacts
  <2> DEFINE n == Ahead \o NotesOf(m_queue)
             w == Ahead \o NotesOf(q)
             s == Ahead \o NotesOf(queue)
  <2>10. n \in Seq(Notes) /\ w \in Seq(Notes)
    <3>1. NotesOf(m_queue) \in Seq(Notes) /\ NotesOf(q) \in Seq(Notes)
      <4> HIDE DEF q
      <4> QED BY <2>1, <2>2, NotesOfFacts
    <3> QED BY <3>1, <2>9, ConcatProperties
  <2>11. ASSUME Attached
         PROVE  /\ KeyGood(w, asked)
                /\ Uncut => \E b : MouseGood(w, b) /\ b[o] = {}
    <3>1. KeyGood(n, asked) /\ (Uncut => MouseGood(n, m_buttons))
      BY <2>11, StreamGood
    <3>2. CASE released
      <4>1. w = Append(n, Note(z))
        BY <3>2, <2>1, <2>2, <2>9, NotesAppend
      <4>2. m_buttons[type] = {}
        BY <3>2, <2>0, <2>3
      <4> DEFINE none == [t \in MouseTypes |-> {}]
      <4>3. none[o] = {} /\ none[Other(o)] = {} /\ none[type] = {}
        BY <2>0
      <4> HIDE DEF n, w, none
      <4>4. KeyGood(w, asked) /\ (Uncut => MouseGood(w, none))
        BY <4>1, <4>2, <4>3, <3>1, <2>0, <2>1, <2>10, PushMouse
      <4> QED BY <4>3, <4>4
    <3>3. CASE ~released
      <4>1. w = n /\ m_buttons[o] = {}
        BY <3>3, <2>3
      <4> HIDE DEF n, w
      <4> QED BY <4>1, <3>1
    <3> QED BY <3>2, <3>3
  <2>12. ASSUME Attached
         PROVE  KeyGood(s, asked) /\ (Uncut => MouseGood(s, m_buttons'))
    <3>1. CASE queue = Append(q, x)
      <4>1. s = Append(w, Note(x))
        <5> HIDE DEF q
        <5> QED BY <3>1, <2>1, <2>9, NotesAppend
      <4> HIDE DEF w, s, q
      <4>2. KeyGood(s, asked)
        BY <4>1, <2>1, <2>10, <2>11, <2>12, PushMouse
      <4>3. ASSUME Uncut PROVE MouseGood(s, m_buttons')
        <5>1. PICK b : MouseGood(w, b) /\ b[o] = {}
          BY <4>3, <2>11, <2>12
        <5> QED BY <5>1, <4>1, <2>0, <2>1, <2>5, <2>10, PushMouse
      <4> QED BY <4>2, <4>3
    <3>2. CASE queue = q /\ q # << >> /\ q[Len(q)].type = type /\ q[Len(q)].held = held
      <4>1. s = w
        BY <3>2
      <4>2. LastIs(w, type, held)
        <5> DEFINE m == NotesOf(q)
        <5>0. Len(q) \in Nat /\ Len(q) > 0 /\ q \in Seq(Items)
          <6> HIDE DEF q
          <6> QED BY <3>2, <2>1, LenProperties, EmptySeq
        <5> HIDE DEF q
        <5>1. m \in Seq(Notes) /\ Len(m) = Len(q) /\ m[Len(q)] = Note(q[Len(q)])
          BY <5>0, NotesOfFacts
        <5>2. m[Len(q)].type = type /\ m[Len(q)].held = held
          BY <5>1, <3>2, NoteFields
        <5> HIDE DEF m
        <5>3. w = Ahead \o m
          BY DEF m
        <5> HIDE DEF w
        <5>4. Len(Ahead) \in Nat
          BY <2>9, LenProperties
        <5>5. /\ Len(w) = Len(Ahead) + Len(m)
              /\ \A i \in 1..Len(Ahead) + Len(m) :
                   w[i] = IF i <= Len(Ahead) THEN Ahead[i] ELSE m[i - Len(Ahead)]
          <6>1. m \in Seq(Notes) /\ Ahead \in Seq(Notes)
            BY <5>1, <2>9
          <6>2. /\ Len(Ahead \o m) = Len(Ahead) + Len(m)
                /\ \A i \in 1..Len(Ahead) + Len(m) :
                     (Ahead \o m)[i] = IF i <= Len(Ahead) THEN Ahead[i] ELSE m[i - Len(Ahead)]
            BY <6>1, ConcatProperties
          <6> QED BY <6>2, <5>3
        <5>6. w[Len(w)] = m[Len(q)] /\ Len(w) > 0
          BY <5>0, <5>1, <5>4, <5>5
        <5>7. w # << >>
          BY <5>6, <2>10, EmptySeq
        <5> QED BY <5>2, <5>6, <5>7, <2>10, LastFinal
      <4> HIDE DEF w, s
      <4>3. ASSUME Uncut PROVE MouseGood(w, m_buttons')
        <5>1. PICK b : MouseGood(w, b) /\ b[o] = {}
          BY <4>3, <2>11, <2>12
        <5>2. FinalIs(w, type, m_buttons'[type], dev.buttons[type] = m_buttons'[type])
          BY <4>2, <2>5 DEF FinalIs
        <5>3. FinalIs(w, o, m_buttons'[o], dev.buttons[o] = m_buttons'[o])
          BY <5>1, <2>5 DEF MouseGood
        <5>4. \A t \in MouseTypes : FinalIs(w, t, m_buttons'[t], dev.buttons[t] = m_buttons'[t])
          BY <5>2, <5>3, <2>4
        <5> QED BY <5>1, <5>4 DEF MouseGood
      <4> QED BY <4>1, <4>3, <2>11, <2>12
    <3> QED BY <3>1, <3>2, <2>1
  <2>13. m_mouseMode' \in Modes /\ \A t \in MouseTypes : m_mouseMode' # t => m_buttons'[t] = {}
    BY <2>4, <2>5, <1>2 DEF Modes
  <2>14. asked' = asked /\ asked \in SUBSET Keys
    BY <1>0, <1>2 DEF TypeInv
  <2> HIDE DEF q
  <2> QED BY <2>5, <2>8, <2>12, <2>13, <2>14, <1>0, <1>2, QueueStep
<1> QED BY <1>1, <1>2 DEF SendMouse

\* Pop: the item goes from the queue into the sender's hand.
LEMMA PopStep ==
  ASSUME IInv, Pop PROVE IInv'
<1>0. /\ sending = None /\ m_queue # << >> /\ sending' = Head(m_queue) /\ m_queue' = Tail(m_queue)
      /\ UNCHANGED <<m_state, m_mouseMode, m_buttons, m_sequence, pipe, running,
                     m_lastSequence, dev, asked, cut>>
  BY DEF Pop
<1>1. /\ m_state' = m_state /\ m_mouseMode' = m_mouseMode /\ m_buttons' = m_buttons
      /\ asked' = asked /\ cut' = cut
      /\ dev' = dev /\ link' = link /\ reading' = reading /\ wire' = wire
      /\ m_connected' = m_connected /\ running' = running /\ m_lastSequence' = m_lastSequence
      /\ m_sequence' = m_sequence
  BY <1>0 DEF pipe
<1>2. TypeInv /\ m_queue \in Seq(Items) /\ m_state \in Nat
      /\ \A i \in 1..Len(m_queue) : m_queue[i].state = m_state
  BY DEF IInv, TypeInv, SendInv
<1> DEFINE h == Head(m_queue)
           r == Tail(m_queue)
<1>3. /\ h \in Items /\ r \in Seq(Items) /\ h = m_queue[1] /\ Len(r) = Len(m_queue) - 1
      /\ \A i \in 1..Len(r) : r[i] = m_queue[i + 1]
  BY <1>0, <1>2, HeadTailProperties, ElementOfSeq
<1>4. Len(m_queue) \in Nat /\ Len(m_queue) > 0
  BY <1>0, <1>2, LenProperties, EmptySeq
<1> HIDE DEF h, r
<1>5. h.state = m_state /\ \A i \in 1..Len(r) : r[i].state = m_state
  BY <1>2, <1>3, <1>4
<1>6. h.type \in Kinds /\ h # None /\ h.type # "failed"
  BY <1>3 DEF Items, Kinds, None, MouseTypes
<1>7. m_queue' = r /\ sending' = h
  BY <1>0 DEF h, r
<1>8. TypeInv'
  BY <1>1, <1>2, <1>3, <1>7 DEF TypeInv
<1>9. DevInv' /\ RestInv' /\ PipeInv' /\ NumberInv' /\ (Uncut' => Uncut)
  BY <1>0, SinkStep
<1>10. SendInv'
  <2>1. sending' # None => sending'.state <= m_state'
    BY <1>1, <1>2, <1>5, <1>7
  <2>2. m_connected' => Odd(m_state')
    BY <1>1 DEF IInv, SendInv
  <2> QED BY <2>1, <2>2, <1>1, <1>5, <1>6, <1>7 DEF SendInv
<1>11. Stream' = Stream
  <2>1. Attached' = Attached /\ NotesOf(wire)' = NotesOf(wire)
    BY <1>1 DEF Attached, NotesOf
  <2>2. InHand = << >> /\ InHand' = <<Note(h)>>
    BY <1>0, <1>1, <1>5, <1>6, <1>7 DEF InHand
  <2>3. NotesOf(m_queue)' = NotesOf(r)
    BY <1>7 DEF NotesOf
  <2>4. /\ NotesOf(r) \in Seq(Notes) /\ Len(NotesOf(r)) = Len(r)
        /\ \A i \in 1..Len(r) : NotesOf(r)[i] = Note(r[i])
    BY <1>3, NotesOfFacts
  <2>5. /\ NotesOf(m_queue) \in Seq(Notes) /\ Len(NotesOf(m_queue)) = Len(m_queue)
        /\ \A i \in 1..Len(m_queue) : NotesOf(m_queue)[i] = Note(m_queue[i])
    BY <1>2, NotesOfFacts
  <2>6. Note(h) \in Notes
    BY <1>3 DEF Items, Note, Notes
  <2> DEFINE c == <<Note(h)>> \o NotesOf(r)
  <2>7. c = NotesOf(m_queue)
    <3>0. <<Note(h)>> \in Seq(Notes) /\ Len(<<Note(h)>>) = 1 /\ <<Note(h)>>[1] = Note(h)
      BY <2>6
    <3>1. /\ c \in Seq(Notes) /\ Len(c) = Len(<<Note(h)>>) + Len(NotesOf(r))
          /\ \A i \in 1..Len(<<Note(h)>>) + Len(NotesOf(r)) :
               c[i] = IF i <= Len(<<Note(h)>>) THEN <<Note(h)>>[i] ELSE NotesOf(r)[i - Len(<<Note(h)>>)]
      BY <3>0, <2>4, ConcatProperties
    <3>2. c \in Seq(Notes) /\ Len(c) = Len(m_queue)
      BY <3>0, <3>1, <2>4, <1>3, <1>4
    <3>3. ASSUME NEW i \in 1..Len(m_queue) PROVE c[i] = NotesOf(m_queue)[i]
      <4>1. CASE i = 1
        <5>1. c[1] = Note(h)
          BY <3>0, <3>1, <2>4, <1>3, <1>4
        <5> QED BY <5>1, <4>1, <2>5, <1>3
      <4>2. CASE i # 1
        <5>1. c[i] = NotesOf(r)[i - 1] /\ i - 1 \in 1..Len(r)
          BY <4>2, <3>0, <3>1, <2>4, <1>3, <1>4
        <5>2. r[i - 1] = m_queue[i]
          BY <5>1, <1>3
        <5> QED BY <5>1, <5>2, <2>4, <2>5
      <4> QED BY <4>1, <4>2
    <3> HIDE DEF c
    <3> QED BY <3>2, <3>3, <2>5, SeqEqual
  <2>8. << >> \o NotesOf(m_queue) = NotesOf(m_queue)
    BY <2>5, ConcatEmptySeq
  <2>9. InHand' \o NotesOf(m_queue)' = InHand \o NotesOf(m_queue)
    BY <2>2, <2>3, <2>7, <2>8
  <2> QED BY <2>1, <2>9 DEF Stream
<1>12. StreamInv'
  <2>1. Attached' = Attached /\ Uncut' = Uncut
    BY <1>1 DEF Attached, Uncut
  <2> QED BY <2>1, <1>1, <1>11 DEF IInv, StreamInv
<1> QED BY <1>8, <1>9, <1>10, <1>12 DEF IInv

\* The stream ends where the pipe does when the sink is detached from it.
LEMMA Detach ==
  ASSUME IInv, dev' = dev, Uncut' = Uncut, wire' = wire \/ wire' = << >>, ~Attached',
         m_mouseMode' = m_mouseMode, m_buttons' = m_buttons
  PROVE  StreamInv'
<1>0. TypeInv /\ wire \in Seq(Messages)
  BY DEF IInv, TypeInv
<1>1. wire' \in Seq(Messages)
  <2>1. << >> \in Seq(Messages)
    OBVIOUS
  <2> QED BY <2>1, <1>0
<1>2. Stream' = NotesOf(wire')
  <2>1. NotesOf(wire') \in Seq(Notes)
    BY <1>1, NotesOfFacts
  <2>2. Stream' = NotesOf(wire') \o << >>
    BY DEF Stream
  <2> QED BY <2>1, <2>2, ConcatEmptySeq
<1>3. ASSUME Uncut PROVE Switched(Stream', dev.buttons)
  <2>1. CASE wire' = << >>
    <3>1. Stream' = << >>
      BY <2>1, <1>2, <1>1, NotesOfFacts
    <3> QED BY <3>1 DEF Switched
  <2>2. CASE wire' = wire
    <3>0. Switched(Stream, dev.buttons)
      BY <1>3 DEF IInv, StreamInv
    <3>1. CASE Attached
      <4> DEFINE b == InHand \o NotesOf(m_queue)
      <4>1. Stream = NotesOf(wire) \o b /\ b \in Seq(Notes) /\ NotesOf(wire) \in Seq(Notes)
        BY <3>1, <1>0, StreamFacts
      <4> HIDE DEF b
      <4> QED BY <4>1, <3>0, <2>2, <1>2, PrefixSwitched
    <3>2. CASE ~Attached
      BY <3>0, <3>2, <2>2, <1>0, <1>2, StreamFacts
    <3> QED BY <3>1, <3>2
  <2> QED BY <2>1, <2>2
<1>4. \A t \in MouseTypes : m_mouseMode' # t => m_buttons'[t] = {}
  BY DEF IInv, StreamInv
<1> QED BY <1>3, <1>4 DEF StreamInv

\* Send
LEMMA SendStep ==
  ASSUME IInv, Send PROVE IInv'
<1>0. /\ sending.type \notin {"none", "failed"}
      /\ m_state' = m_state /\ m_queue' = m_queue /\ m_mouseMode' = m_mouseMode
      /\ m_buttons' = m_buttons /\ reading' = reading /\ link' = link /\ running' = running
      /\ m_lastSequence' = m_lastSequence /\ dev' = dev /\ asked' = asked /\ cut' = cut
  BY DEF Send, server
<1>1. sending \in Items /\ TypeInv /\ m_sequence \in Nat /\ wire \in Seq(Messages) /\ m_state \in Nat
  BY <1>0 DEF IInv, TypeInv, None
<1>2. Uncut' = Uncut
  BY <1>0 DEF Uncut
<1>3. DevInv' /\ RestInv'
  BY <1>0, <1>2 DEF IInv, DevInv, RestInv, Parted
<1>n. sending.state \in Nat /\ sending.state <= m_state /\ sending # None /\ None.type = "none"
  BY <1>0, <1>1 DEF Items, IInv, SendInv, None
<1>4. CASE ~Current(sending) /\ sending' = None /\ UNCHANGED <<m_sequence, m_connected, wire>>
  <2>1. TypeInv'
    BY <1>0, <1>1, <1>4 DEF TypeInv
  <2>2. PipeInv' /\ NumberInv'
    BY <1>0, <1>4 DEF IInv, PipeInv, NumberInv
  <2>3. SendInv'
    BY <1>0, <1>4, <1>n DEF IInv, SendInv
  <2>4. Attached' = Attached /\ NotesOf(wire)' = NotesOf(wire) /\ NotesOf(m_queue)' = NotesOf(m_queue)
    BY <1>0, <1>4 DEF Attached, NotesOf
  <2>5. Attached => InHand' = InHand
    <3> SUFFICES ASSUME Attached PROVE InHand' = InHand
      OBVIOUS
    <3>1. sending.state # m_state
      BY <1>4 DEF Attached, Current
    <3>2. InHand = << >> /\ InHand' = << >>
      BY <3>1, <1>4 DEF InHand
    <3> QED BY <3>2
  <2>6. Stream' = Stream
    BY <2>4, <2>5 DEF Stream
  <2>7. StreamInv'
    BY <2>4, <2>6, <1>0, <1>2 DEF IInv, StreamInv
  <2> QED BY <2>1, <2>2, <2>3, <2>7, <1>3 DEF IInv
<1>5. CASE /\ Current(sending)
           /\ m_sequence' = m_sequence + 1
           /\ m_connected /\ link = "up"
           /\ wire'    = Append(wire, Message(sending, m_sequence'))
           /\ sending' = None
           /\ UNCHANGED m_connected
  <2> DEFINE m == Message(sending, m_sequence')
  <2>1. m \in Messages /\ m.sequence = m_sequence + 1 /\ Note(m) = Note(sending)
        /\ Note(m) \in Notes
    BY <1>1, <1>5 DEF Message, Messages, Items, Note, Notes
  <2>2. wire' = Append(wire, m)
    BY <1>5
  <2> HIDE DEF m
  <2>3. /\ wire' \in Seq(Messages) /\ Len(wire') = Len(wire) + 1 /\ wire'[Len(wire) + 1] = m
        /\ \A i \in 1..Len(wire) : wire'[i] = wire[i]
    BY <2>1, <2>2, <1>1, AppendProperties
  <2>4. Len(wire) \in Nat
    BY <1>1, LenProperties
  <2>5. TypeInv'
    BY <2>3, <1>0, <1>1, <1>5 DEF TypeInv
  <2>6. reading /\ running
    BY <1>5 DEF IInv, PipeInv
  <2>7. PipeInv'
    BY <2>6, <1>0, <1>5 DEF IInv, PipeInv
  <2>8. SendInv'
    BY <1>0, <1>5, <1>n DEF IInv, SendInv
  <2>9. NumberInv'
    <3>0. \A i \in 1..Len(wire) : wire[i] \in Messages /\ wire[i].sequence \in Nat
      <4> SUFFICES ASSUME NEW i \in 1..Len(wire)
                   PROVE  wire[i] \in Messages /\ wire[i].sequence \in Nat
        OBVIOUS
      <4>1. wire[i] \in Messages
        BY <1>1, ElementOfSeq
      <4> QED BY <4>1 DEF Messages
    <3>1. CASE wire = << >>
      <4>1. Len(wire) = 0
        BY <3>1
      <4>2. Len(wire') = 1 /\ wire'[1] = m /\ wire' # << >>
        BY <4>1, <2>3
      <4>3. m_lastSequence \in {0, m_sequence}
        BY <3>1, <1>5 DEF IInv, NumberInv
      <4>4. \A i \in 1..Len(wire') : wire'[i].sequence = wire'[1].sequence + i - 1
        BY <4>2, <2>1, <1>1
      <4>5. m_lastSequence' = 0 \/ wire'[1].sequence = m_lastSequence' + 1
        BY <4>2, <4>3, <2>1, <1>0
      <4> QED BY <4>2, <4>4, <4>5, <2>1, <1>5 DEF NumberInv
    <3>2. CASE wire # << >>
      <4>0. Len(wire) > 0 /\ wire' # << >>
        BY <3>2, <2>3, <2>4, <1>1, EmptySeq
      <4>1. /\ wire[Len(wire)].sequence = m_sequence
            /\ \A i \in 1..Len(wire) : wire[i].sequence = wire[1].sequence + i - 1
            /\ m_lastSequence = 0 \/ wire[1].sequence = m_lastSequence + 1
        BY <3>2, <1>5 DEF IInv, NumberInv
      <4>2. wire'[1] = wire[1] /\ wire[1].sequence \in Nat
        BY <4>0, <3>0, <2>3, <2>4
      <4>3. m_sequence = wire[1].sequence + Len(wire) - 1
        BY <4>0, <4>1, <2>4
      <4>4. ASSUME NEW i \in 1..Len(wire')
            PROVE  wire'[i].sequence = wire'[1].sequence + i - 1
        <5>1. CASE i \in 1..Len(wire)
          BY <5>1, <4>1, <4>2, <2>3
        <5>2. CASE i = Len(wire) + 1
          <6>1. wire'[i].sequence = m_sequence + 1
            BY <5>2, <2>1, <2>3
          <6> QED BY <6>1, <5>2, <4>2, <4>3, <2>4, <1>1
        <5> QED BY <5>1, <5>2, <2>3, <2>4
      <4>5. wire'[Len(wire')].sequence = m_sequence'
        BY <2>1, <2>3, <1>5
      <4> QED BY <4>0, <4>1, <4>2, <4>4, <4>5, <1>0 DEF NumberInv
    <3> QED BY <3>1, <3>2
  <2>10. Attached /\ Attached'
    BY <1>0, <1>5 DEF Attached, Current
  <2>11. Stream' = Stream
    <3> DEFINE n == NotesOf(wire)
    <3>1. InHand = <<Note(sending)>> /\ InHand' = << >>
      BY <1>0, <1>5, <1>n DEF InHand, Current
    <3>2. NotesOf(m_queue)' = NotesOf(m_queue) /\ NotesOf(wire)' = NotesOf(Append(wire, m))
      BY <2>2, <1>0 DEF NotesOf
    <3>3. /\ n \in Seq(Notes) /\ Len(n) = Len(wire) /\ NotesOf(m_queue) \in Seq(Notes)
          /\ \A i \in 1..Len(wire) : n[i] = Note(wire[i])
      BY <1>1, NotesOfFacts DEF TypeInv
    <3> DEFINE l == NotesOf(Append(wire, m))
               r == Append(n, Note(m))
    <3>4. /\ l \in Seq(Notes) /\ Len(l) = Len(wire) + 1
          /\ \A i \in 1..Len(wire) + 1 : l[i] = Note(wire'[i])
      BY <2>2, <2>3, NotesOfFacts
    <3> HIDE DEF n
    <3>5. /\ r \in Seq(Notes) /\ Len(r) = Len(wire) + 1 /\ r[Len(wire) + 1] = Note(m)
          /\ \A i \in 1..Len(wire) : r[i] = n[i]
      BY <3>3, <2>1, AppendProperties
    <3> HIDE DEF l, r
    <3>6. ASSUME NEW i \in 1..Len(wire) + 1 PROVE l[i] = r[i]
      <4>1. CASE i \in 1..Len(wire)
        BY <4>1, <3>3, <3>4, <3>5, <2>3
      <4>2. CASE i = Len(wire) + 1
        BY <4>2, <3>4, <3>5, <2>3, <2>4
      <4> QED BY <4>1, <4>2, <2>4
    <3>7. l = r
      BY <3>4, <3>5, <3>6, SeqEqual
    <3>8. r = n \o <<Note(m)>>
      BY <3>3, <2>1, AppendIsConcat DEF r
    <3> DEFINE u == NotesOf(m_queue)
               y == Note(m)
    <3>9. Stream = n \o (<<y>> \o u)
      BY <2>1, <2>10, <3>1 DEF Stream, n
    <3>10. Stream' = (n \o <<y>>) \o (<< >> \o u)
      BY <2>10, <3>1, <3>2, <3>7, <3>8 DEF Stream, l
    <3>11. u \in Seq(Notes) /\ y \in Notes /\ <<y>> \in Seq(Notes)
      BY <2>1, <3>3
    <3> HIDE DEF u, y
    <3>12. << >> \o u = u
      BY <3>11, ConcatEmptySeq
    <3>13. (n \o <<y>>) \o u = n \o (<<y>> \o u)
      BY <3>3, <3>11, ConcatAssociative, SMTT(60)
    <3> QED BY <3>9, <3>10, <3>12, <3>13
  <2>12. StreamInv'
    BY <2>10, <2>11, <1>0, <1>2 DEF IInv, StreamInv
  <2> QED BY <2>5, <2>7, <2>8, <2>9, <2>12, <1>3 DEF IInv
<1>6. CASE /\ Current(sending)
           /\ m_sequence'  = m_sequence + 1
           /\ m_connected' = FALSE
           /\ sending' = [type |-> "failed", state |-> sending.state]
           /\ UNCHANGED wire
  <2>1. TypeInv'
    <3>1. sending' \in [type : {"failed"}, state : Nat]
      BY <1>6, <1>n
    <3>2. m_sequence' \in Nat /\ wire' = wire
      BY <1>1, <1>6
    <3>3. m_connected' \in BOOLEAN
      BY <1>6, Zenon
    <3> QED BY <3>1, <3>2, <3>3, <1>0, <1>1 DEF TypeInv
  <2>2. PipeInv' /\ NumberInv'
    BY <1>0, <1>6 DEF IInv, PipeInv, NumberInv
  <2>3. SendInv'
    BY <1>0, <1>6, <1>n DEF IInv, SendInv
  <2>4. ~Attached'
    BY <1>6 DEF Attached
  <2>5. StreamInv'
    BY <2>4, <1>0, <1>2, <1>6, Detach
  <2> QED BY <2>1, <2>2, <2>3, <2>5, <1>3 DEF IInv
<1> QED BY <1>4, <1>5, <1>6 DEF Send

\* SendFailed: Invalidate(state, true).
LEMMA SendFailedStep ==
  ASSUME IInv, SendFailed PROVE IInv'
<1>0. /\ sending.type = "failed" /\ sending' = None /\ Invalidate(sending.state)
      /\ m_mouseMode' = m_mouseMode /\ m_buttons' = m_buttons /\ m_sequence' = m_sequence
      /\ m_connected' = m_connected /\ reading' = reading /\ link' = link /\ wire' = wire
      /\ running' = running /\ m_lastSequence' = m_lastSequence /\ dev' = dev /\ asked' = asked
      /\ cut' = cut
  BY DEF SendFailed, pipe
<1>1. TypeInv /\ m_state \in Nat /\ m_queue \in Seq(Items) /\ None.type = "none"
  BY DEF IInv, TypeInv, None
<1>2. Uncut' = Uncut
  BY <1>0 DEF Uncut
<1>3. DevInv' /\ RestInv' /\ PipeInv' /\ NumberInv'
  BY <1>0, SinkStep DEF pipe
<1>4. CASE Odd(m_state) /\ sending.state = m_state
  <2>1. m_state' = m_state + 1 /\ m_queue' = << >> /\ ~m_connected
    BY <1>0, <1>4 DEF Invalidate, InvalidateState, IInv, SendInv
  <2>2. TypeInv'
    <3>1. m_state' \in Nat /\ m_queue' \in Seq(Items) /\ sending' \in {None}
      BY <2>1, <1>0, <1>1
    <3> QED BY <3>1, <1>0, <1>1 DEF TypeInv
  <2>3. SendInv'
    BY <2>1, <1>0, <1>1 DEF SendInv
  <2>4. ~Attached'
    BY <2>1, <1>0 DEF Attached
  <2>5. StreamInv'
    BY <2>4, <1>0, <1>2, Detach
  <2> QED BY <2>2, <2>3, <2>5, <1>3 DEF IInv
<1>5. CASE ~(Odd(m_state) /\ sending.state = m_state)
  <2>1. m_state' = m_state /\ m_queue' = m_queue
    BY <1>0, <1>5 DEF Invalidate
  <2>2. TypeInv'
    <3>1. sending' \in {None}
      BY <1>0
    <3> QED BY <3>1, <2>1, <1>0, <1>1 DEF TypeInv
  <2>3. SendInv'
    BY <2>1, <1>0, <1>1 DEF IInv, SendInv
  <2>4. Attached' = Attached /\ NotesOf(wire)' = NotesOf(wire) /\ NotesOf(m_queue)' = NotesOf(m_queue)
    BY <2>1, <1>0 DEF Attached, NotesOf
  <2>5. InHand = << >> /\ InHand' = << >>
    BY <1>0 DEF InHand
  <2>6. Stream' = Stream
    BY <2>4, <2>5 DEF Stream
  <2>7. StreamInv'
    BY <2>4, <2>6, <1>0, <1>2 DEF IInv, StreamInv
  <2> QED BY <2>2, <2>3, <2>7, <1>3 DEF IInv
<1> QED BY <1>4, <1>5

\* A new connection: OnPipeConnected at the sink.
LEMMA ServerConnectedStep ==
  ASSUME IInv, ServerConnected PROVE IInv'
<1>0. /\ ~reading /\ link \in {"up", "clientGone"} /\ m_connected' = TRUE /\ reading' = TRUE
      /\ m_state' = NewState /\ m_queue' = <<Item("keyboard", {}, FALSE, NewState)>>
      /\ m_sequence' = 0 /\ asked' = {} /\ m_mouseMode' = "none"
      /\ m_buttons' = [t \in MouseTypes |-> {}]
      /\ sending' = sending /\ link' = link /\ wire' = wire /\ running' = running
      /\ m_lastSequence' = m_lastSequence /\ dev' = dev /\ cut' = cut
  BY DEF ServerConnected, Neutralised
<1>1. TypeInv /\ m_state \in Nat /\ wire = << >>
  BY <1>0 DEF IInv, TypeInv, PipeInv
<1>2. m_state' \in Nat /\ m_state' > m_state /\ Odd(m_state')
  <2>1. CASE Odd(m_state)
    BY <2>1, <1>0, <1>1, OddFacts DEF NewState
  <2>2. CASE ~Odd(m_state)
    BY <2>2, <1>0, <1>1, OddFacts DEF NewState
  <2> QED BY <2>1, <2>2
<1> DEFINE y == Item("keyboard", {}, FALSE, m_state')
<1>3. y \in Items /\ y.state = m_state' /\ Note(y) \in Notes /\ Note(y).type = "keyboard"
      /\ Note(y).held = {}
  BY <1>2 DEF Item, Items, Note, Notes, Kinds
<1>4. m_queue' = <<y>>
  BY <1>0
<1> HIDE DEF y
<1>5. m_queue' \in Seq(Items) /\ Len(m_queue') = 1 /\ m_queue'[1] = y
  BY <1>3, <1>4
<1>6. TypeInv'
  <2>1. "none" \in Modes /\ [t \in MouseTypes |-> {}] \in [MouseTypes -> SUBSET Keys]
        /\ {} \in SUBSET Keys /\ TRUE \in BOOLEAN /\ 0 \in Nat
    BY DEF Modes
  <2> QED BY <2>1, <1>0, <1>1, <1>2, <1>5 DEF TypeInv
<1>7. Uncut' = Uncut
  BY <1>0 DEF Uncut
<1>8. DevInv'
  BY <1>0, <1>7 DEF IInv, DevInv
<1>9. Parted
  BY <1>0 DEF Parted
<1>10. RestInv'
  BY <1>0, <1>7, <1>9 DEF IInv, RestInv
<1>11. PipeInv'
  BY <1>0, <1>1 DEF IInv, PipeInv
<1>12. SendInv'
  <2>1. sending # None => sending.state \in Nat /\ sending.state <= m_state
    BY <1>1 DEF TypeInv, Items, IInv, SendInv
  <2>2. sending # None => sending.state < m_state'
    BY <2>1, <1>1, <1>2
  <2>3. sending # None => sending.state <= m_state' /\ sending.state # m_state'
    BY <2>1, <2>2, <1>2
  <2>4. None.type # "failed"
    BY DEF None
  <2>5. \A i \in 1..Len(m_queue') : m_queue'[i].state = m_state'
    BY <1>3, <1>5
  <2> QED BY <2>3, <2>4, <2>5, <1>0, <1>2 DEF SendInv
<1>13. NumberInv'
  <2>1. link = "up" => m_lastSequence = 0
    BY <1>0 DEF IInv, PipeInv
  <2>2. Len(wire') = 0 /\ wire' = << >>
    BY <1>0, <1>1
  <2>3. \A i \in 1..Len(wire') : FALSE
    BY <2>2
  <2> QED BY <2>1, <2>2, <2>3, <1>0 DEF NumberInv
<1>14. StreamInv'
  <2>1. CASE link = "up"
    <3>1. Attached'
      BY <2>1, <1>0, <1>2 DEF Attached
    <3>2. InHand' = << >>
      <4>1. sending # None => sending.state \in Nat /\ sending.state <= m_state
        BY <1>1 DEF TypeInv, Items, IInv, SendInv
      <4>2. ~(sending # None /\ sending.type # "failed" /\ sending.state = m_state')
        BY <4>1, <1>1, <1>2
      <4> QED BY <4>2, <1>0 DEF InHand
    <3>3. NotesOf(wire)' = << >>
      <4>1. << >> \in Seq(Messages)
        OBVIOUS
      <4>2. NotesOf(<< >>) = << >>
        BY <4>1, NotesOfFacts
      <4> QED BY <4>2, <1>0, <1>1
    <3> DEFINE u == NotesOf(m_queue')
    <3>4. u \in Seq(Notes) /\ Len(u) = 1 /\ u[1] = Note(y)
      BY <1>5, NotesOfFacts
    <3>5. Stream' = << >> \o (<< >> \o u)
      BY <3>1, <3>2, <3>3 DEF Stream
    <3> HIDE DEF u
    <3>6. Stream' = u
      BY <3>4, <3>5, ConcatEmptySeq
    <3>7. LastIs(u, "keyboard", {})
      BY <3>4, <1>3 DEF LastIs
    <3>8. \A i \in 1..Len(u) : u[i].type \notin MouseTypes
      BY <3>4, <1>3 DEF MouseTypes
    <3>9. Switched(u, dev'.buttons) /\ \A t \in MouseTypes : NoneIn(u, t)
      BY <3>8 DEF Switched, NoneIn
    <3>10. Uncut => \A t \in MouseTypes : dev.buttons[t] = {}
      BY <1>9 DEF IInv, RestInv
    <3>11. \A t \in MouseTypes : m_buttons'[t] = {}
      BY <1>0
    <3>12. Uncut' => \A t \in MouseTypes :
             FinalIs(u, t, m_buttons'[t], dev'.buttons[t] = m_buttons'[t])
      BY <3>9, <3>10, <3>11, <1>0, <1>7 DEF FinalIs
    <3>13. FinalIs(u, "keyboard", asked', KeysAre(dev', asked'))
      BY <3>7, <1>0 DEF FinalIs
    <3> QED BY <3>6, <3>9, <3>11, <3>12, <3>13 DEF StreamInv
  <2>2. CASE link # "up"
    <3>1. ~Attached'
      BY <2>2, <1>0 DEF Attached
    <3>2. Stream' = NotesOf(wire')
      <4>1. NotesOf(wire') \in Seq(Notes)
        BY <1>6, NotesOfFacts DEF TypeInv
      <4> QED BY <3>1, <4>1, ConcatEmptySeq DEF Stream
    <3>3. Stream' = << >>
      <4>1. << >> \in Seq(Messages)
        OBVIOUS
      <4> QED BY <4>1, <3>2, <1>0, <1>1, NotesOfFacts
    <3>4. Switched(Stream', dev'.buttons)
      BY <3>3 DEF Switched
    <3>5. \A t \in MouseTypes : m_buttons'[t] = {}
      BY <1>0
    <3> QED BY <3>1, <3>4, <3>5 DEF StreamInv
  <2> QED BY <2>1, <2>2
<1> QED BY <1>6, <1>8, <1>10, <1>11, <1>12, <1>13, <1>14 DEF IInv

\* Nothing is on its way once the pipe is empty and the sink detached.
LEMMA EmptyStream ==
  ASSUME wire' = << >>, ~Attached',
         \A t \in MouseTypes : m_mouseMode' # t => m_buttons'[t] = {}
  PROVE  StreamInv'
<1>1. << >> \in Seq(Messages)
  OBVIOUS
<1>2. NotesOf(wire') = << >>
  BY <1>1, NotesOfFacts
<1>3. Stream' = << >> \o << >>
  BY <1>2 DEF Stream
<1>4. Stream' = << >>
  <2>1. << >> \in Seq(Notes)
    OBVIOUS
  <2> QED BY <2>1, <1>3, ConcatEmptySeq
<1>5. Switched(Stream', dev'.buttons)
  BY <1>4 DEF Switched
<1> QED BY <1>5 DEF StreamInv

\* The server's end is closed.
LEMMA ServerDisconnectedStep ==
  ASSUME IInv, ServerDisconnected PROVE IInv'
<1>0. /\ reading /\ reading' = FALSE /\ m_connected' = FALSE
      /\ link' = IF link = "up" THEN "serverGone" ELSE "listen"
      /\ wire' = << >>
      /\ IF Odd(m_state) THEN m_state' = m_state + 1 /\ m_queue' = << >>
                         ELSE m_state' = m_state /\ m_queue' = m_queue
      /\ m_mouseMode' = m_mouseMode /\ m_buttons' = m_buttons /\ m_sequence' = m_sequence
      /\ sending' = sending /\ running' = running
      /\ m_lastSequence' = m_lastSequence /\ dev' = dev /\ asked' = asked /\ cut' = cut
  BY DEF ServerDisconnected, InvalidateState
<1>1. TypeInv /\ m_state \in Nat /\ m_queue \in Seq(Items) /\ link \in {"up", "clientGone"}
  BY <1>0 DEF IInv, TypeInv, PipeInv
<1>2. TypeInv'
  <2>1. << >> \in Seq(Items) /\ << >> \in Seq(Messages)
    OBVIOUS
  <2>2. reading' \in BOOLEAN /\ m_connected' \in BOOLEAN
    BY <1>0, Zenon
  <2>3. m_state' \in Nat /\ m_queue' \in Seq(Items)
    <3>1. CASE Odd(m_state)
      BY <3>1, <2>1, <1>0, <1>1
    <3>2. CASE ~Odd(m_state)
      BY <3>2, <1>0, <1>1
    <3> QED BY <3>1, <3>2
  <2> QED BY <2>1, <2>2, <2>3, <1>0, <1>1 DEF TypeInv
<1>3. Uncut' = Uncut
  BY <1>0 DEF Uncut
<1>4. DevInv'
  BY <1>0, <1>3 DEF IInv, DevInv
<1>5. Parted' => Parted
  BY <1>0, <1>1 DEF Parted
<1>6. RestInv'
  BY <1>0, <1>3, <1>5 DEF IInv, RestInv
<1>7. PipeInv'
  BY <1>0, <1>1 DEF PipeInv
<1>8. SendInv'
  <2>1. sending # None => sending.state \in Nat /\ sending.state <= m_state
    BY <1>1 DEF TypeInv, Items, IInv, SendInv
  <2>2. sending' # None => sending'.state <= m_state'
    BY <2>1, <1>0, <1>1
  <2>3. \A i \in 1..Len(m_queue') : m_queue'[i].state = m_state'
    BY <1>0 DEF IInv, SendInv
  <2> QED BY <2>2, <2>3, <1>0 DEF SendInv
<1>9. NumberInv'
  BY <1>0 DEF NumberInv
<1>10. StreamInv'
  <2>1. ~Attached'
    BY <1>0 DEF Attached
  <2>2. \A t \in MouseTypes : m_mouseMode' # t => m_buttons'[t] = {}
    BY <1>0 DEF IInv, StreamInv
  <2> QED BY <2>1, <2>2, <1>0, EmptyStream
<1> QED BY <1>2, <1>4, <1>6, <1>7, <1>8, <1>9, <1>10 DEF IInv

\* The display driver is restarted.
LEMMA ServerRestartsStep ==
  ASSUME IInv, ServerRestarts PROVE IInv'
<1>0. /\ reading' = FALSE /\ m_connected' = FALSE
      /\ link' = IF link \in {"up", "serverGone"} THEN "serverGone" ELSE "listen"
      /\ wire' = << >> /\ m_state' = 0 /\ m_queue' = << >> /\ sending' = None /\ asked' = {}
      /\ m_mouseMode' = "none" /\ m_buttons' = [t \in MouseTypes |-> {}]
      /\ m_sequence' = m_sequence /\ running' = running
      /\ m_lastSequence' = m_lastSequence /\ dev' = dev /\ cut' = cut
  BY DEF ServerRestarts, Neutralised
<1>1. TypeInv /\ None.type # "failed"
  BY DEF IInv, None
<1>2. TypeInv'
  <2>1. << >> \in Seq(Items) /\ << >> \in Seq(Messages) /\ "none" \in Modes
        /\ [t \in MouseTypes |-> {}] \in [MouseTypes -> SUBSET Keys] /\ {} \in SUBSET Keys
    BY DEF Modes
  <2>2. reading' \in BOOLEAN /\ m_connected' \in BOOLEAN
    BY <1>0, Zenon
  <2>3. sending' \in {None} /\ m_state' \in Nat
    BY <1>0
  <2> QED BY <2>1, <2>2, <2>3, <1>0, <1>1 DEF TypeInv
<1>3. Uncut' = Uncut
  BY <1>0 DEF Uncut
<1>4. DevInv'
  BY <1>0, <1>3 DEF IInv, DevInv
<1>5. Parted' => Parted
  BY <1>0 DEF Parted
<1>6. RestInv'
  BY <1>0, <1>3, <1>5 DEF IInv, RestInv
<1>7. PipeInv'
  BY <1>0 DEF PipeInv
<1>8. SendInv'
  BY <1>0, <1>1 DEF SendInv
<1>9. NumberInv'
  BY <1>0 DEF NumberInv
<1>10. StreamInv'
  <2>1. ~Attached'
    BY <1>0 DEF Attached
  <2>2. \A t \in MouseTypes : m_mouseMode' # t => m_buttons'[t] = {}
    BY <1>0
  <2> QED BY <2>1, <2>2, <1>0, EmptyStream
<1> QED BY <1>2, <1>4, <1>6, <1>7, <1>8, <1>9, <1>10 DEF IInv

\* Windows reads a report.
LEMMA ReadReportStep ==
  ASSUME IInv, ReadReport PROVE IInv'
<1>0. /\ ~dev.readPending
      /\ dev' = IF dev.reports = << >> THEN [dev EXCEPT !.readPending = TRUE]
                ELSE [dev EXCEPT !.reports = Tail(@),
                        !.guest[Head(dev.reports).type] = Head(dev.reports).held]
      /\ m_state' = m_state /\ m_queue' = m_queue /\ m_mouseMode' = m_mouseMode
      /\ m_buttons' = m_buttons /\ m_sequence' = m_sequence /\ sending' = sending
      /\ m_connected' = m_connected /\ reading' = reading /\ link' = link /\ wire' = wire
      /\ running' = running /\ m_lastSequence' = m_lastSequence /\ asked' = asked /\ cut' = cut
  BY DEF ReadReport, server, pipe
<1>1. dev \in Devices /\ ReadOK(dev) /\ TypeInv
  BY DEF IInv, TypeInv, DevInv
<1>2. PICK e : e = dev'
  OBVIOUS
<1>3. /\ e \in Devices /\ ReadOK(e)
      /\ e.cut = dev.cut /\ e.overflow = dev.overflow /\ e.buttons = dev.buttons
      /\ e.mouseMode = dev.mouseMode /\ e.consumerUsage = dev.consumerUsage
      /\ \A t \in ReportTypes : \A h : Settles(dev, t, h) => Settles(e, t, h)
  <2>1. e = IF dev.reports = << >> THEN [dev EXCEPT !.readPending = TRUE]
            ELSE [dev EXCEPT !.reports = Tail(@),
                    !.guest[Head(dev.reports).type] = Head(dev.reports).held]
    BY <1>0, <1>2
  <2>2. WasRead(dev, e)
    BY <2>1, <1>0, <1>1, ReadReportFacts
  <2> QED BY <2>2 DEF WasRead
<1>4. "keyboard" \in ReportTypes /\ "consumer" \in ReportTypes /\ MouseTypes \subseteq ReportTypes
  BY DEF ReportTypes
<1>5. Uncut' = Uncut
  BY <1>0, <1>2, <1>3 DEF Uncut
<1>6. \A h : KeysAre(dev, h) => KeysAre(e, h)
  BY <1>3, <1>4 DEF KeysAre
<1>7. MouseOK(dev) => MouseOK(e)
  BY <1>3, <1>4 DEF MouseOK
<1>8. TypeInv'
  BY <1>0, <1>1, <1>2, <1>3 DEF TypeInv
<1>9. DevInv'
  <2>1. ReadOK(e) /\ ~e.overflow /\ Settles(e, "consumer", e.consumerUsage)
        /\ (Uncut => MouseOK(e))
    BY <1>3, <1>4, <1>7 DEF IInv, DevInv
  <2> QED BY <2>1, <1>2, <1>5 DEF DevInv
<1>10. RestInv'
  <2>1. Parted' = Parted
    BY <1>0 DEF Parted
  <2>2. Parted => KeysAre(e, {}) /\ (Uncut => \A t \in MouseTypes : e.buttons[t] = {})
    BY <1>3, <1>6 DEF IInv, RestInv
  <2> QED BY <2>1, <2>2, <1>2, <1>5 DEF RestInv
<1>11. PipeInv' /\ SendInv' /\ NumberInv'
  BY <1>0 DEF IInv, PipeInv, SendInv, NumberInv
<1>12. StreamInv'
  <2>1. Attached' = Attached /\ InHand' = InHand /\ NotesOf(wire)' = NotesOf(wire)
        /\ NotesOf(m_queue)' = NotesOf(m_queue)
    BY <1>0 DEF Attached, InHand, NotesOf
  <2>2. Stream' = Stream
    BY <2>1 DEF Stream
  <2>3. Attached => FinalIs(Stream, "keyboard", asked, KeysAre(e, asked))
    BY <1>6 DEF IInv, StreamInv, FinalIs
  <2>4. Uncut => /\ Switched(Stream, e.buttons)
                 /\ Attached => \A t \in MouseTypes :
                      FinalIs(Stream, t, m_buttons[t], e.buttons[t] = m_buttons[t])
    BY <1>3 DEF IInv, StreamInv
  <2>5. \A t \in MouseTypes : m_mouseMode' # t => m_buttons'[t] = {}
    BY <1>0 DEF IInv, StreamInv
  <2> QED BY <2>1, <2>2, <2>3, <2>4, <2>5, <1>0, <1>2, <1>5 DEF StreamInv
<1> QED BY <1>8, <1>9, <1>10, <1>11, <1>12 DEF IInv

\* The client's end opens the pipe.
LEMMA ClientConnectedStep ==
  ASSUME IInv, ClientConnected PROVE IInv'
<1>0. /\ running /\ link = "listen" /\ link' = "up" /\ m_lastSequence' = 0
      /\ m_state' = m_state /\ m_queue' = m_queue /\ m_mouseMode' = m_mouseMode
      /\ m_buttons' = m_buttons /\ m_sequence' = m_sequence /\ sending' = sending
      /\ m_connected' = m_connected /\ reading' = reading /\ wire' = wire
      /\ running' = running /\ dev' = dev /\ asked' = asked /\ cut' = cut
  BY DEF ClientConnected, server
<1>1. TypeInv /\ ~reading /\ ~m_connected /\ wire = << >>
  BY <1>0 DEF IInv, PipeInv
<1>2. TypeInv'
  <2>1. m_lastSequence' \in Nat
    BY <1>0
  <2> QED BY <2>1, <1>0, <1>1 DEF TypeInv
<1>3. Uncut' = Uncut
  BY <1>0 DEF Uncut
<1>4. DevInv'
  BY <1>0, <1>3 DEF IInv, DevInv
<1>5. Parted
  BY <1>0 DEF Parted
<1>6. RestInv'
  BY <1>0, <1>3, <1>5 DEF IInv, RestInv
<1>7. PipeInv' /\ SendInv' /\ NumberInv'
  BY <1>0, <1>1 DEF IInv, PipeInv, SendInv, NumberInv
<1>8. StreamInv'
  <2>1. ~Attached' /\ wire' = << >>
    BY <1>0, <1>1 DEF Attached
  <2>2. \A t \in MouseTypes : m_mouseMode' # t => m_buttons'[t] = {}
    BY <1>0 DEF IInv, StreamInv
  <2> QED BY <2>1, <2>2, EmptyStream
<1> QED BY <1>2, <1>4, <1>6, <1>7, <1>8 DEF IInv

\* The input driver's endpoint is started.
LEMMA ClientStartsStep ==
  ASSUME IInv, ClientStarts PROVE IInv'
<1>0. /\ ~running /\ running' = TRUE /\ m_lastSequence' = 0
      /\ m_state' = m_state /\ m_queue' = m_queue /\ m_mouseMode' = m_mouseMode
      /\ m_buttons' = m_buttons /\ m_sequence' = m_sequence /\ sending' = sending
      /\ m_connected' = m_connected /\ reading' = reading /\ link' = link /\ wire' = wire
      /\ dev' = dev /\ asked' = asked /\ cut' = cut
  BY DEF ClientStarts, server, pipe
<1>1. TypeInv /\ link # "up" /\ wire = << >>
  BY <1>0 DEF IInv, PipeInv
<1>2. TypeInv'
  <2>1. m_lastSequence' \in Nat
    BY <1>0
  <2>2. running' \in BOOLEAN
    BY <1>0, Zenon
  <2> QED BY <2>1, <2>2, <1>0, <1>1 DEF TypeInv
<1>3. Uncut' = Uncut
  BY <1>0 DEF Uncut
<1>4. DevInv'
  BY <1>0, <1>3 DEF IInv, DevInv
<1>6. RestInv'
  BY <1>0, <1>3 DEF IInv, RestInv, Parted
<1>7. PipeInv' /\ SendInv' /\ NumberInv'
  BY <1>0, <1>1 DEF IInv, PipeInv, SendInv, NumberInv
<1>8. StreamInv'
  <2>1. ~Attached' /\ wire' = << >>
    BY <1>0, <1>1 DEF Attached
  <2>2. \A t \in MouseTypes : m_mouseMode' # t => m_buttons'[t] = {}
    BY <1>0 DEF IInv, StreamInv
  <2> QED BY <2>1, <2>2, EmptyStream
<1> QED BY <1>2, <1>4, <1>6, <1>7, <1>8 DEF IInv

\* The input driver's end of the pipe is closed and the device is reset.
LEMMA DeviceResetStep ==
  ASSUME IInv, NEW d \in Devices, ReadOK(d), ~cut /\ ~d.cut => MouseOK(d),
         dev' = ResetReports(d), wire' = << >>, m_lastSequence' = 0,
         link' \in {"listen", "clientGone"}, reading => link' = "clientGone",
         running' \in BOOLEAN,
         UNCHANGED <<server, m_sequence, sending, m_connected, reading, asked, cut>>
  PROVE  IInv'
<1>0. /\ m_state' = m_state /\ m_queue' = m_queue /\ m_mouseMode' = m_mouseMode
      /\ m_buttons' = m_buttons /\ m_sequence' = m_sequence /\ sending' = sending
      /\ m_connected' = m_connected /\ reading' = reading /\ asked' = asked /\ cut' = cut
  BY DEF server
<1>1. PICK r : r = ResetReports(d)
  OBVIOUS
<1>2. /\ Sound(r) /\ ~r.overflow /\ KeysAre(r, {})
      /\ r.cut <=> d.cut \/ HasMouse(d.reports)
      /\ ~r.cut /\ MouseOK(d) => MouseOK(r) /\ \A t \in MouseTypes : r.buttons[t] = {}
  <2>1. WasReset(d, r)
    BY <1>1, ResetReportsFacts
  <2> QED BY <2>1 DEF WasReset
<1>3. dev' = r
  BY <1>1
<1>4. r \in Devices /\ ReadOK(r) /\ Settles(r, "consumer", r.consumerUsage)
  BY <1>2 DEF Sound
<1>5. TypeInv'
  <2>1. m_lastSequence' \in Nat /\ wire' \in Seq(Messages) /\ dev' \in Devices
    BY <1>3, <1>4
  <2> QED BY <2>1, <1>0 DEF IInv, TypeInv
<1>6. Uncut' => MouseOK(r) /\ \A t \in MouseTypes : r.buttons[t] = {}
  BY <1>0, <1>2, <1>3 DEF Uncut
<1>7. DevInv'
  BY <1>2, <1>3, <1>4, <1>6 DEF DevInv
<1>8. RestInv'
  BY <1>2, <1>3, <1>6 DEF RestInv
<1>9. PipeInv'
  BY <1>0 DEF IInv, PipeInv
<1>10. SendInv'
  BY <1>0 DEF IInv, SendInv
<1>11. NumberInv'
  BY DEF NumberInv
<1>12. StreamInv'
  <2>1. ~Attached'
    BY DEF Attached
  <2>2. \A t \in MouseTypes : m_mouseMode' # t => m_buttons'[t] = {}
    BY <1>0 DEF IInv, StreamInv
  <2> QED BY <2>1, <2>2, EmptyStream
<1> QED BY <1>5, <1>7, <1>8, <1>9, <1>10, <1>11, <1>12 DEF IInv

\* OnPipeDisconnected of the input driver, for any sound state of the device.
LEMMA DisconnectStep ==
  ASSUME IInv, NEW d \in Devices, ReadOK(d), ~cut /\ ~d.cut => MouseOK(d),
         link \in {"up", "serverGone"}, Disconnect(d), running' \in BOOLEAN,
         UNCHANGED <<server, m_sequence, sending, m_connected, reading, asked, cut>>
  PROVE  IInv'
<1>1. /\ link' = IF link = "up" THEN "clientGone" ELSE "listen"
      /\ wire' = << >> /\ m_lastSequence' = 0 /\ dev' = ResetReports(d)
  BY DEF Disconnect
<1>2. link' \in {"listen", "clientGone"} /\ (reading => link' = "clientGone")
  BY <1>1 DEF IInv, PipeInv
<1> QED BY <1>1, <1>2, DeviceResetStep

\* The client's read loop ends.
LEMMA ClientDisconnectedStep ==
  ASSUME IInv, ClientDisconnected PROVE IInv'
<1>1. dev \in Devices /\ ReadOK(dev) /\ (~cut /\ ~dev.cut => MouseOK(dev)) /\ running \in BOOLEAN
  BY DEF IInv, TypeInv, DevInv, Uncut
<1>2. /\ link \in {"up", "serverGone"} /\ Disconnect(dev) /\ running' = running
      /\ UNCHANGED <<server, m_sequence, sending, m_connected, reading, asked, cut>>
  BY DEF ClientDisconnected
<1>3. running' \in BOOLEAN
  BY <1>1, <1>2
<1> QED BY <1>1, <1>2, <1>3, DisconnectStep

\* A device that was reset is sound for another reset.
LEMMA ResetAgain ==
  ASSUME NEW d \in Devices, ReadOK(d), ~cut /\ ~d.cut => MouseOK(d)
  PROVE  /\ ResetReports(d) \in Devices /\ ReadOK(ResetReports(d))
         /\ ~cut /\ ~ResetReports(d).cut => MouseOK(ResetReports(d))
<1>1. PICK r : r = ResetReports(d)
  OBVIOUS
<1>2. WasReset(d, r)
  BY <1>1, ResetReportsFacts
<1>3. r \in Devices /\ ReadOK(r)
  BY <1>2 DEF WasReset, Sound
<1>4. ~cut /\ ~r.cut => MouseOK(r)
  BY <1>2 DEF WasReset
<1> QED BY <1>1, <1>3, <1>4

\* The input driver's endpoint is stopped.
LEMMA ClientStopsStep ==
  ASSUME IInv, ClientStops PROVE IInv'
<1>1. dev \in Devices /\ ReadOK(dev) /\ (~cut /\ ~dev.cut => MouseOK(dev))
  BY DEF IInv, TypeInv, DevInv, Uncut
<1>2. running' \in BOOLEAN
  BY Zenon DEF ClientStops
<1>3. UNCHANGED <<server, m_sequence, sending, m_connected, reading, asked, cut>>
  BY DEF ClientStops
<1>4. CASE link \in {"up", "serverGone"}
  <2>1. Disconnect(ResetReports(dev))
    BY <1>4 DEF ClientStops
  <2>2. PICK d : d = ResetReports(dev)
    OBVIOUS
  <2>3. d \in Devices /\ ReadOK(d) /\ (~cut /\ ~d.cut => MouseOK(d))
    BY <2>2, <1>1, ResetAgain
  <2>4. Disconnect(d)
    BY <2>1, <2>2
  <2> QED BY <2>3, <2>4, <1>2, <1>3, <1>4, DisconnectStep
<1>5. CASE link \notin {"up", "serverGone"}
  <2>1. dev' = ResetReports(dev) /\ m_lastSequence' = 0 /\ link' = link /\ wire' = wire
    BY <1>5 DEF ClientStops
  <2>2. wire' = << >>
    BY <2>1, <1>5 DEF IInv, PipeInv
  <2>3. link' \in {"listen", "clientGone"} /\ (reading => link' = "clientGone")
    BY <2>1, <1>5 DEF IInv, TypeInv, PipeInv
  <2> QED BY <2>1, <2>2, <2>3, <1>1, <1>2, <1>3, DeviceResetStep
<1> QED BY <1>4, <1>5

\* A message that leaves the pipe is the first of the stream.
LEMMA NotesTail ==
  ASSUME NEW s \in Seq(Messages), s # << >>, NEW x \in Seq(Notes)
  PROVE  /\ NotesOf(s) \o x # << >>
         /\ (NotesOf(s) \o x)[1] = Note(s[1])
         /\ NotesOf(Tail(s)) \o x = Tail(NotesOf(s) \o x)
<1>1. Len(s) \in Nat /\ Len(s) > 0 /\ Len(x) \in Nat
  BY LenProperties, EmptySeq
<1>2. Tail(s) \in Seq(Messages) /\ Len(Tail(s)) = Len(s) - 1
      /\ \A i \in 1..Len(Tail(s)) : Tail(s)[i] = s[i + 1]
  BY HeadTailProperties
<1>3. /\ NotesOf(s) \in Seq(Notes) /\ Len(NotesOf(s)) = Len(s)
      /\ \A i \in 1..Len(s) : NotesOf(s)[i] = Note(s[i])
  BY NotesOfFacts
<1>4. /\ NotesOf(Tail(s)) \in Seq(Notes) /\ Len(NotesOf(Tail(s))) = Len(s) - 1
      /\ \A i \in 1..Len(s) - 1 : NotesOf(Tail(s))[i] = Note(s[i + 1])
  <2>1. PICK t \in Seq(Messages) : t = Tail(s)
    BY <1>2
  <2>2. /\ NotesOf(t) \in Seq(Notes) /\ Len(NotesOf(t)) = Len(t)
        /\ \A i \in 1..Len(t) : NotesOf(t)[i] = Note(t[i])
    BY NotesOfFacts
  <2>3. Len(t) = Len(s) - 1 /\ \A i \in 1..Len(t) : t[i] = s[i + 1]
    BY <2>1, <1>2
  <2>4. \A i \in 1..Len(t) : NotesOf(t)[i] = Note(s[i + 1])
    BY <2>2, <2>3
  <2> QED BY <2>1, <2>2, <2>3, <2>4
<1> DEFINE a == NotesOf(s)
           b == NotesOf(Tail(s))
<1>5. a \in Seq(Notes) /\ b \in Seq(Notes) /\ Len(a) = Len(s) /\ Len(b) = Len(s) - 1
      /\ (\A i \in 1..Len(s) : a[i] = Note(s[i]))
      /\ (\A i \in 1..Len(s) - 1 : b[i] = Note(s[i + 1]))
  BY <1>3, <1>4
<1> HIDE DEF a, b
<1>6. PICK c : c = a \o x
  OBVIOUS
<1>7. PICK e : e = b \o x
  OBVIOUS
<1>8. /\ c \in Seq(Notes) /\ Len(c) = Len(s) + Len(x)
      /\ \A i \in 1..Len(s) + Len(x) : c[i] = IF i <= Len(s) THEN a[i] ELSE x[i - Len(s)]
  <2>1. /\ c \in Seq(Notes) /\ Len(c) = Len(a) + Len(x)
        /\ \A i \in 1..Len(a) + Len(x) : c[i] = IF i <= Len(a) THEN a[i] ELSE x[i - Len(a)]
    <3>1. a \in Seq(Notes) /\ x \in Seq(Notes)
      BY <1>5
    <3> QED BY <3>1, <1>6, ConcatProperties
  <2> QED BY <2>1, <1>5
<1>9. /\ e \in Seq(Notes) /\ Len(e) = (Len(s) - 1) + Len(x)
      /\ \A i \in 1..(Len(s) - 1) + Len(x) :
           e[i] = IF i <= Len(s) - 1 THEN b[i] ELSE x[i - (Len(s) - 1)]
  <2>1. /\ e \in Seq(Notes) /\ Len(e) = Len(b) + Len(x)
        /\ \A i \in 1..Len(b) + Len(x) : e[i] = IF i <= Len(b) THEN b[i] ELSE x[i - Len(b)]
    <3>1. b \in Seq(Notes) /\ x \in Seq(Notes)
      BY <1>5
    <3> QED BY <3>1, <1>7, ConcatProperties
  <2> QED BY <2>1, <1>5
<1>10. c # << >> /\ c[1] = Note(s[1])
  <2>1. 1 \in 1..Len(s) + Len(x) /\ 1 <= Len(s) /\ 1 \in 1..Len(s)
    BY <1>1
  <2>2. Len(c) > 0
    BY <1>8, <1>1
  <2>3. c # << >>
    BY <2>2
  <2> QED BY <2>1, <2>3, <1>5, <1>8
<1>11. /\ Tail(c) \in Seq(Notes) /\ Len(Tail(c)) = Len(c) - 1
       /\ \A i \in 1..Len(Tail(c)) : Tail(c)[i] = c[i + 1]
  BY <1>8, <1>10, HeadTailProperties
<1>12. ASSUME NEW i \in 1..Len(e) PROVE e[i] = Tail(c)[i]
  <2>1. i \in 1..Len(Tail(c)) /\ i + 1 \in 1..Len(s) + Len(x) /\ i \in 1..(Len(s) - 1) + Len(x)
    BY <1>1, <1>8, <1>9, <1>11
  <2>2. Tail(c)[i] = c[i + 1]
    BY <2>1, <1>11
  <2>3. CASE i <= Len(s) - 1
    <3>1. e[i] = b[i] /\ b[i] = Note(s[i + 1])
      BY <2>1, <2>3, <1>1, <1>5, <1>9
    <3>2. c[i + 1] = a[i + 1] /\ a[i + 1] = Note(s[i + 1])
      BY <2>1, <2>3, <1>1, <1>5, <1>8
    <3> QED BY <3>1, <3>2, <2>2
  <2>4. CASE ~(i <= Len(s) - 1)
    <3>1. e[i] = x[i - (Len(s) - 1)]
      BY <2>1, <2>4, <1>9
    <3>2. ~(i + 1 <= Len(s)) /\ i + 1 - Len(s) = i - (Len(s) - 1)
      BY <2>4, <1>1
    <3>3. c[i + 1] = x[i + 1 - Len(s)]
      BY <2>1, <3>2, <1>8
    <3> QED BY <3>1, <3>2, <3>3, <2>2
  <2> QED BY <2>3, <2>4
<1>13. e = Tail(c)
  <2>1. Len(e) = Len(Tail(c))
    BY <1>1, <1>8, <1>9, <1>11
  <2>2. PICK f : f = Tail(c)
    OBVIOUS
  <2> QED BY <2>1, <2>2, <1>9, <1>11, <1>12, SeqEqual
<1> QED BY <1>6, <1>7, <1>10, <1>13 DEF a, b

\* The numbers on the wire when its first message is taken.
LEMMA NumberTail ==
  ASSUME IInv, link = "up", wire # << >>, wire' = Tail(wire), link' = link,
         m_lastSequence' = wire[1].sequence, m_connected' = m_connected,
         m_sequence' = m_sequence
  PROVE  NumberInv'
<1>0. wire \in Seq(Messages)
  BY DEF IInv, TypeInv
<1>1. Len(wire) \in Nat /\ Len(wire) > 0
  BY <1>0, LenProperties, EmptySeq
<1>2. wire' \in Seq(Messages) /\ Len(wire') = Len(wire) - 1
      /\ \A i \in 1..Len(wire') : wire'[i] = wire[i + 1]
  BY <1>0, HeadTailProperties
<1>3. wire[1].sequence \in Nat
  <2>1. wire[1] \in Messages
    BY <1>0, <1>1, ElementOfSeq
  <2> QED BY <2>1 DEF Messages
<1>4. \A i \in 1..Len(wire) : wire[i].sequence = wire[1].sequence + i - 1
  BY DEF IInv, NumberInv
<1>5. ASSUME NEW i \in 1..Len(wire') PROVE wire'[i].sequence = wire[1].sequence + i
  <2>1. i + 1 \in 1..Len(wire)
    BY <1>1, <1>2
  <2> QED BY <2>1, <1>2, <1>3, <1>4
<1>6. wire' # << >> => Len(wire') \in Nat /\ Len(wire') > 0
  BY <1>2, LenProperties, EmptySeq
<1>7. wire' # << >> => wire'[1].sequence = wire[1].sequence + 1
  BY <1>5, <1>6
<1>8. \A i \in 1..Len(wire') : wire'[i].sequence = wire'[1].sequence + i - 1
  <2> SUFFICES ASSUME NEW i \in 1..Len(wire')
               PROVE  wire'[i].sequence = wire'[1].sequence + i - 1
    OBVIOUS
  <2>1. 1 \in 1..Len(wire')
    BY <1>1, <1>2
  <2>2. wire'[1].sequence = wire[1].sequence + 1
    BY <2>1, <1>5
  <2>3. wire'[i].sequence = wire[1].sequence + i /\ i \in Nat
    BY <1>1, <1>2, <1>5
  <2>4. PICK n \in Nat : n = wire[1].sequence
    BY <1>3
  <2>5. wire'[i].sequence = n + i /\ wire'[1].sequence = n + 1 /\ i \in Nat
    BY <2>2, <2>3, <2>4
  <2>6. n + i = (n + 1) + i - 1
    BY <2>5
  <2> QED BY <2>5, <2>6
<1>9. m_connected => wire[Len(wire)].sequence = m_sequence
  BY DEF IInv, NumberInv
<1>10. ASSUME m_connected
       PROVE  IF wire' = << >> THEN m_lastSequence' \in {0, m_sequence'}
                               ELSE wire'[Len(wire')].sequence = m_sequence'
  <2>1. CASE wire' = << >>
    <3>0. Len(wire') = 0
      BY <2>1, <1>2, EmptySeq
    <3>1. Len(wire) = 1
      BY <3>0, <1>1, <1>2
    <3> QED BY <3>1, <2>1, <1>9, <1>10
  <2>2. CASE wire' # << >>
    <3>1. Len(wire') \in 1..Len(wire') /\ Len(wire') + 1 = Len(wire)
      BY <2>2, <1>1, <1>2, <1>6
    <3>2. wire'[Len(wire')] = wire[Len(wire)]
      BY <3>1, <1>2
    <3> QED BY <3>2, <2>2, <1>9, <1>10
  <2> QED BY <2>1, <2>2
<1> QED BY <1>7, <1>8, <1>10 DEF NumberInv

\* The device d after OnPipeMessage handled the message m.
Handled(m, d) ==
  /\ Sound(d) /\ d.cut = dev.cut
  /\ Uncut => MouseOK(d)
  /\ ~d.overflow =>
       /\ m.type \notin MouseTypes => KeysAre(d, m.held) /\ d.buttons = dev.buttons
       /\ m.type \in MouseTypes =>
            /\ d.buttons = [dev.buttons EXCEPT ![m.type] = m.held]
            /\ \A h : KeysAre(dev, h) /\ h \in SUBSET Keys => KeysAre(d, h)

\* What remains of the stream once its first message was handled.
LEMMA StreamTail ==
  ASSUME IInv, link = "up", wire # << >>
  PROVE  /\ Stream \in Seq(Notes) /\ Stream # << >> /\ Stream[1] = Note(wire[1])
         /\ \A s : s = Tail(wire) =>
              Tail(Stream) = NotesOf(s) \o (IF Attached THEN InHand \o NotesOf(m_queue) ELSE << >>)
<1>1. TypeInv /\ wire \in Seq(Messages)
  BY DEF IInv, TypeInv
<1>2. PICK x : x = IF Attached THEN InHand \o NotesOf(m_queue) ELSE << >>
  OBVIOUS
<1>3. x \in Seq(Notes)
  <2>1. << >> \in Seq(Notes)
    OBVIOUS
  <2> QED BY <2>1, <1>1, <1>2, StreamFacts
<1>4. Stream = NotesOf(wire) \o x
  BY <1>2 DEF Stream
<1>5. Stream # << >> /\ Stream[1] = Note(wire[1]) /\ Tail(Stream) = NotesOf(Tail(wire)) \o x
  BY <1>1, <1>3, <1>4, NotesTail
<1> QED BY <1>1, <1>2, <1>5, StreamFacts

\* The device takes a message, and a mouse in order.
LEMMA HandledFacts ==
  ASSUME IInv, link = "up", wire # << >>, NEW motion \in BOOLEAN, NEW fits \in BOOLEAN, NEW n,
         NEW m, m = wire[1],
         NEW d, d = IF m.type = "keyboard" THEN HandleKeyboard(dev, m)
                                           ELSE HandleMouse(dev, m, motion, fits, n)
  PROVE  m \in Messages /\ Handled(m, d)
<1>1. wire \in Seq(Messages) /\ dev \in Devices
  BY DEF IInv, TypeInv
<1>2. m \in Messages
  <2>1. Len(wire) \in Nat /\ Len(wire) > 0
    BY <1>1, EmptySeq, LenProperties
  <2> QED BY <2>1, <1>1, ElementOfSeq
<1>3. m.held \in SUBSET Keys /\ m.type \in MouseTypes \cup {"keyboard"}
      /\ "keyboard" \notin MouseTypes
  BY <1>2 DEF Messages, Kinds, MouseTypes
<1>4. Sound(dev) /\ ~dev.overflow /\ (Uncut => MouseOK(dev))
  BY <1>1 DEF IInv, DevInv, Sound
<1>5. CASE m.type = "keyboard"
  <2>1. d = HandleKeyboard(dev, m)
    BY <1>5
  <2>2. KeysTaken(dev, d, m.held)
    BY <2>1, <1>3, <1>4, HandleKeyboardFacts
  <2> QED BY <2>2, <1>2, <1>3, <1>4, <1>5 DEF KeysTaken, Handled
<1>6. CASE m.type \in MouseTypes
  <2>1. d = HandleMouse(dev, m, motion, fits, n)
    BY <1>3, <1>6
  <2>2. MouseTaken(dev, d, m.type, m.held)
    BY <2>1, <1>3, <1>4, <1>6, HandleMouseFacts
  <2>3. Uncut => dev.buttons[Other(m.type)] = {}
    <3> SUFFICES ASSUME Uncut PROVE dev.buttons[Other(m.type)] = {}
      OBVIOUS
    <3>1. Switched(Stream, dev.buttons)
      BY DEF IInv, StreamInv
    <3>2. Stream \in Seq(Notes) /\ Stream # << >> /\ Stream[1] = Note(wire[1])
      BY StreamTail
    <3>3. Stream[1].type = m.type /\ Stream[1].held = m.held
      BY <3>2, NoteFields
    <3>4. PICK next : next = [dev.buttons EXCEPT ![m.type] = m.held]
      OBVIOUS
    <3>5. dev.buttons \in [MouseTypes -> SUBSET Keys]
      BY <1>1 DEF Devices
    <3>6. next[m.type] = m.held /\ next[Other(m.type)] = dev.buttons[Other(m.type)]
      BY <3>4, <3>5, <1>6, OtherFacts
    <3>7. PICK s : s = Stream
      OBVIOUS
    <3>8. PICK b : b = dev.buttons
      OBVIOUS
    <3>9. s \in Seq(Notes) /\ s # << >> /\ Switched(s, b) /\ s[1].type \in MouseTypes
          /\ next[s[1].type] = s[1].held /\ next[Other(s[1].type)] = b[Other(s[1].type)]
      BY <3>1, <3>2, <3>3, <3>6, <3>7, <3>8, <1>6
    <3>10. b[Other(s[1].type)] = {}
      BY <3>9, TailSwitched
    <3> QED BY <3>3, <3>7, <3>8, <3>10
  <2> QED BY <2>2, <2>3, <1>2, <1>3, <1>4, <1>6 DEF MouseTaken, Handled
<1> QED BY <1>3, <1>5, <1>6

\* The first message of the pipe is delivered to the device.
LEMMA TakenStep ==
  ASSUME IInv, link = "up", wire # << >>, NEW m \in Messages, m = wire[1],
         NEW d, Handled(m, d), ~d.overflow, dev' = d, wire' = Tail(wire),
         m_lastSequence' = m.sequence, link' = link,
         UNCHANGED <<server, m_sequence, sending, m_connected, reading, running, asked, cut>>
  PROVE  IInv'
<1>0. /\ m_state' = m_state /\ m_queue' = m_queue /\ m_mouseMode' = m_mouseMode
      /\ m_buttons' = m_buttons /\ m_sequence' = m_sequence /\ sending' = sending
      /\ m_connected' = m_connected /\ reading' = reading /\ running' = running
      /\ asked' = asked /\ cut' = cut
  BY DEF server
<1>1. TypeInv /\ wire \in Seq(Messages) /\ dev.buttons \in [MouseTypes -> SUBSET Keys]
      /\ asked \in SUBSET Keys /\ m.sequence \in Nat /\ m.type \in MouseTypes \cup {"keyboard"}
      /\ "keyboard" \notin MouseTypes /\ m.held \in SUBSET Keys
  BY DEF IInv, TypeInv, Devices, Messages, Kinds, MouseTypes
<1>2. d \in Devices /\ ReadOK(d) /\ Settles(d, "consumer", d.consumerUsage)
      /\ d.cut = dev.cut /\ (Uncut => MouseOK(d))
  BY DEF Handled, Sound
<1>3. reading
  BY DEF IInv, PipeInv
<1>4. Uncut' = Uncut
  BY <1>0, <1>2 DEF Uncut
<1>5. TypeInv'
  <2>1. Tail(wire) \in Seq(Messages)
    BY <1>1, HeadTailProperties
  <2> QED BY <2>1, <1>0, <1>1, <1>2 DEF TypeInv
<1>6. DevInv'
  BY <1>2, <1>4 DEF DevInv
<1>7. RestInv'
  BY <1>0, <1>3 DEF RestInv, Parted
<1>8. PipeInv'
  BY <1>0, <1>3 DEF IInv, PipeInv
<1>9. SendInv'
  BY <1>0 DEF IInv, SendInv
<1>10. NumberInv'
  BY <1>0, NumberTail
<1>11. StreamInv'
  <2>1. Attached' = Attached /\ InHand' = InHand /\ NotesOf(m_queue)' = NotesOf(m_queue)
    BY <1>0 DEF Attached, InHand, NotesOf
  <2>2. Stream \in Seq(Notes) /\ Stream # << >> /\ Stream[1] = Note(wire[1])
        /\ Stream' = Tail(Stream)
    <3>1. Tail(Stream) = NotesOf(wire') \o (IF Attached THEN InHand \o NotesOf(m_queue) ELSE << >>)
      BY StreamTail
    <3>2. Stream' = NotesOf(wire') \o (IF Attached THEN InHand \o NotesOf(m_queue) ELSE << >>)
      BY <2>1 DEF Stream
    <3> QED BY <3>1, <3>2, StreamTail
  <2>3. Stream[1].type = m.type /\ Stream[1].held = m.held
    BY <2>2, NoteFields
  <2>4. PICK s : s = Stream
    OBVIOUS
  <2>5. s \in Seq(Notes) /\ s # << >> /\ s[1].type = m.type /\ s[1].held = m.held
        /\ Stream' = Tail(s)
    BY <2>2, <2>3, <2>4
  <2>6. ASSUME Attached PROVE FinalIs(Tail(s), "keyboard", asked, KeysAre(d, asked))
    <3>1. FinalIs(s, "keyboard", asked, KeysAre(dev, asked))
      BY <2>4, <2>6 DEF IInv, StreamInv
    <3>2. CASE m.type = "keyboard"
      <4>1. FinalIs(Tail(s), "keyboard", asked, s[1].held = asked)
        BY <3>1, <3>2, <2>5, TailFinal
      <4>2. KeysAre(d, m.held)
        BY <3>2, <1>1 DEF Handled
      <4> QED BY <4>1, <4>2, <2>5 DEF FinalIs
    <3>3. CASE m.type \in MouseTypes
      <4>1. FinalIs(Tail(s), "keyboard", asked, KeysAre(dev, asked))
        BY <3>1, <3>3, <2>5, <1>1, TailFinal
      <4>2. KeysAre(dev, asked) => KeysAre(d, asked)
        BY <3>3, <1>1 DEF Handled
      <4> QED BY <4>1, <4>2 DEF FinalIs
    <3> QED BY <3>2, <3>3, <1>1
  <2>7. m.type \notin MouseTypes => d.buttons = dev.buttons
    BY DEF Handled
  <2>8. m.type \in MouseTypes =>
          /\ d.buttons[m.type] = m.held
          /\ \A t \in MouseTypes : t # m.type => d.buttons[t] = dev.buttons[t]
    BY <1>1 DEF Handled
  <2>9. Uncut => Switched(Tail(s), d.buttons)
    <3> SUFFICES ASSUME Uncut PROVE Switched(Tail(s), d.buttons)
      OBVIOUS
    <3>1. Switched(s, dev.buttons)
      BY <2>4 DEF IInv, StreamInv
    <3>2. s[1].type \notin MouseTypes => d.buttons = dev.buttons
      BY <2>5, <2>7
    <3>3. s[1].type \in MouseTypes =>
            /\ d.buttons[s[1].type] = s[1].held
            /\ d.buttons[Other(s[1].type)] = dev.buttons[Other(s[1].type)]
      BY <2>5, <2>8, OtherFacts
    <3> QED BY <3>1, <3>2, <3>3, <2>5, TailSwitched
  <2>10. ASSUME Uncut, Attached, NEW t \in MouseTypes
         PROVE  FinalIs(Tail(s), t, m_buttons[t], d.buttons[t] = m_buttons[t])
    <3>1. FinalIs(s, t, m_buttons[t], dev.buttons[t] = m_buttons[t])
      BY <2>4, <2>10 DEF IInv, StreamInv
    <3>2. CASE m.type = t
      <4>1. FinalIs(Tail(s), t, m_buttons[t], s[1].held = m_buttons[t])
        BY <3>1, <3>2, <2>5, TailFinal
      <4> QED BY <4>1, <3>2, <2>5, <2>8 DEF FinalIs
    <3>3. CASE m.type # t
      <4>1. FinalIs(Tail(s), t, m_buttons[t], dev.buttons[t] = m_buttons[t])
        BY <3>1, <3>3, <2>5, TailFinal
      <4>2. d.buttons[t] = dev.buttons[t]
        BY <3>3, <2>7, <2>8
      <4> QED BY <4>1, <4>2 DEF FinalIs
    <3> QED BY <3>2, <3>3
  <2>11. \A t \in MouseTypes : m_mouseMode' # t => m_buttons'[t] = {}
    BY <1>0 DEF IInv, StreamInv
  <2> QED BY <2>1, <2>5, <2>6, <2>9, <2>10, <2>11, <1>0, <1>4 DEF StreamInv
<1> QED BY <1>5, <1>6, <1>7, <1>8, <1>9, <1>10, <1>11 DEF IInv

\* OnPipeMessage: the number is always the one expected.
LEMMA OnPipeMessageStep ==
  ASSUME IInv, NEW motion \in BOOLEAN, NEW fits \in BOOLEAN, NEW n,
         OnPipeMessage(motion, fits, n)
  PROVE  IInv'
<1>1. /\ link = "up" /\ wire # << >>
      /\ UNCHANGED <<server, m_sequence, sending, m_connected, reading, running, asked, cut>>
  BY DEF OnPipeMessage
<1>2. PICK m : m = wire[1]
  OBVIOUS
<1>3. Head(wire) = m
  <2>1. wire \in Seq(Messages)
    BY DEF IInv, TypeInv
  <2> QED BY <2>1, <1>1, <1>2, HeadTailProperties
<1>4. m_lastSequence = 0 \/ m.sequence = m_lastSequence + 1
  BY <1>1, <1>2 DEF IInv, NumberInv
<1>5. PICK d : d = IF m.type = "keyboard" THEN HandleKeyboard(dev, m)
                                          ELSE HandleMouse(dev, m, motion, fits, n)
  OBVIOUS
<1>6. m \in Messages /\ Handled(m, d)
  BY <1>1, <1>2, <1>5, HandledFacts
<1>7. IF ~d.overflow
        THEN dev' = d /\ wire' = Tail(wire) /\ m_lastSequence' = m.sequence /\ link' = link
        ELSE Disconnect(ResetReports(d))
  BY <1>3, <1>4, <1>5 DEF OnPipeMessage
<1>8. CASE ~d.overflow
  BY <1>1, <1>2, <1>6, <1>7, <1>8, TakenStep
<1>9. CASE d.overflow
  <2>1. d \in Devices /\ ReadOK(d) /\ (~cut /\ ~d.cut => MouseOK(d))
    BY <1>6 DEF Handled, Sound, Uncut
  <2>2. PICK r : r = ResetReports(d)
    OBVIOUS
  <2>3. r \in Devices /\ ReadOK(r) /\ (~cut /\ ~r.cut => MouseOK(r))
    BY <2>1, <2>2, ResetAgain
  <2>4. Disconnect(r)
    BY <1>7, <1>9, <2>2
  <2>5. running' \in BOOLEAN
    BY <1>1 DEF IInv, TypeInv
  <2> QED BY <2>3, <2>4, <2>5, <1>1, DisconnectStep
<1> QED BY <1>8, <1>9

-----------------------------------------------------------------------------
(* The theorems                                                            *)

\* The first state.
LEMMA InitHolds == Init => IInv
<1> SUFFICES ASSUME Init PROVE IInv
  OBVIOUS
<1>1. /\ m_state = 0 /\ m_queue = << >> /\ m_mouseMode = "none"
      /\ m_buttons = [t \in MouseTypes |-> {}] /\ m_sequence = 0 /\ sending = None
      /\ m_connected = FALSE /\ reading = FALSE /\ link = "listen" /\ wire = << >>
      /\ running = TRUE /\ m_lastSequence = 0 /\ asked = {} /\ cut = FALSE
  BY DEF Init
<1>2. dev = [reports |-> << >>, mouseMode |-> "none",
            buttons |-> [t \in MouseTypes |-> {}], consumerUsage |-> {},
            overflow |-> FALSE, readPending |-> FALSE,
            guest |-> [t \in ReportTypes |-> {}], cut |-> FALSE]
  BY DEF Init
<1>3. /\ dev.reports = << >> /\ dev.mouseMode = "none" /\ dev.buttons = [t \in MouseTypes |-> {}]
      /\ dev.consumerUsage = {} /\ ~dev.overflow /\ ~dev.readPending
      /\ dev.guest = [t \in ReportTypes |-> {}]
  BY <1>2
<1>4. << >> \in Seq(Items) /\ << >> \in Seq(Messages) /\ << >> \in Seq(Reports)
      /\ << >> \in Seq(Notes) /\ "none" \in Modes
      /\ [t \in MouseTypes |-> {}] \in [MouseTypes -> SUBSET Keys]
      /\ [t \in ReportTypes |-> {}] \in [ReportTypes -> SUBSET Keys] /\ {} \in SUBSET Keys
  BY DEF Modes
<1>5. TypeInv
  <2>1. dev \in Devices
    BY <1>2, <1>4 DEF Devices
  <2>2. sending \in {None} /\ m_connected \in BOOLEAN /\ reading \in BOOLEAN
        /\ running \in BOOLEAN /\ cut \in BOOLEAN
    BY <1>1, Zenon
  <2> QED BY <2>1, <2>2, <1>1, <1>4 DEF TypeInv
<1>6. ASSUME NEW t \in ReportTypes PROVE Settles(dev, t, {})
  BY <1>3 DEF Settles, FinalIs, NoneIn
<1>7. "keyboard" \in ReportTypes /\ "consumer" \in ReportTypes /\ MouseTypes \subseteq ReportTypes
  BY DEF ReportTypes
<1>8. \A t \in MouseTypes : dev.buttons[t] = {}
  BY <1>3
<1>9. MouseOK(dev) /\ KeysAre(dev, {})
  <2>1. {} \ {"media"} = {} /\ {} \cap {"media"} = {}
    OBVIOUS
  <2> QED BY <2>1, <1>6, <1>7, <1>8 DEF MouseOK, KeysAre
<1>10. DevInv
  BY <1>3, <1>6, <1>7, <1>9 DEF DevInv, ReadOK
<1>11. RestInv
  BY <1>8, <1>9 DEF RestInv
<1>12. PipeInv /\ SendInv /\ NumberInv
  BY <1>1 DEF PipeInv, SendInv, NumberInv, None
<1>13. StreamInv
  <2>1. ~Attached
    BY <1>1 DEF Attached
  <2>2. Stream = << >>
    <3>1. Stream = NotesOf(wire)
      BY <2>1, <1>5, StreamFacts
    <3> QED BY <3>1, <1>1, <1>4, NotesOfFacts
  <2> QED BY <2>1, <2>2, <1>1 DEF StreamInv, Switched
<1> QED BY <1>5, <1>10, <1>11, <1>12, <1>13 DEF IInv

\* Every step keeps the invariant.
LEMMA NextKeeps == IInv /\ [Next]_vars => IInv'
<1> SUFFICES ASSUME IInv, [Next]_vars PROVE IInv'
  OBVIOUS
<1>1. CASE UNCHANGED vars
  <2>1. /\ m_state' = m_state /\ m_queue' = m_queue /\ m_mouseMode' = m_mouseMode
        /\ m_buttons' = m_buttons /\ m_sequence' = m_sequence /\ sending' = sending
        /\ m_connected' = m_connected /\ reading' = reading /\ link' = link /\ wire' = wire
        /\ running' = running /\ m_lastSequence' = m_lastSequence /\ dev' = dev
        /\ asked' = asked /\ cut' = cut
    BY <1>1 DEF vars, server, pipe
  <2>2. TypeInv' /\ DevInv' /\ RestInv' /\ PipeInv' /\ SendInv' /\ NumberInv'
    BY <2>1 DEF IInv, TypeInv, DevInv, RestInv, PipeInv, SendInv, NumberInv, Uncut, Parted
  <2>3. Attached' = Attached /\ InHand' = InHand /\ Uncut' = Uncut
        /\ NotesOf(wire)' = NotesOf(wire) /\ NotesOf(m_queue)' = NotesOf(m_queue)
    BY <2>1 DEF Attached, InHand, Uncut, NotesOf
  <2>4. Stream' = Stream
    BY <2>3 DEF Stream
  <2>5. StreamInv'
    BY <2>1, <2>3, <2>4 DEF IInv, StreamInv
  <2> QED BY <2>2, <2>5 DEF IInv
<1>2. ASSUME NEW type \in MouseTypes, NEW held \in HeldBy(type), NEW motion \in BOOLEAN,
             SendMouse(type, held, motion)
      PROVE  IInv'
  BY <1>2, SendMouseStep
<1>3. ASSUME NEW held \in HeldBy("keyboard"), SendKeyboard(held) PROVE IInv'
  BY <1>3, SendKeyboardStep
<1>4. ASSUME Reset PROVE IInv'
  BY <1>4, ResetStep
<1>5. ASSUME Pop PROVE IInv'
  BY <1>5, PopStep
<1>6. ASSUME Send PROVE IInv'
  BY <1>6, SendStep
<1>7. ASSUME SendFailed PROVE IInv'
  BY <1>7, SendFailedStep
<1>8. ASSUME ServerConnected PROVE IInv'
  BY <1>8, ServerConnectedStep
<1>9. ASSUME ServerDisconnected PROVE IInv'
  BY <1>9, ServerDisconnectedStep
<1>10. ASSUME ServerRestarts PROVE IInv'
  BY <1>10, ServerRestartsStep
<1>11. ASSUME ReadReport PROVE IInv'
  BY <1>11, ReadReportStep
<1>12. ASSUME ClientConnected PROVE IInv'
  BY <1>12, ClientConnectedStep
<1>13. ASSUME ClientDisconnected PROVE IInv'
  BY <1>13, ClientDisconnectedStep
<1>14. ASSUME ClientStops PROVE IInv'
  BY <1>14, ClientStopsStep
<1>15. ASSUME ClientStarts PROVE IInv'
  BY <1>15, ClientStartsStep
<1>16. ASSUME NEW motion \in BOOLEAN, NEW fits \in BOOLEAN, NEW n \in 1..2,
              OnPipeMessage(motion, fits, n)
       PROVE  IInv'
  BY <1>16, OnPipeMessageStep
<1> QED BY <1>1, <1>2, <1>3, <1>4, <1>5, <1>6, <1>7, <1>8, <1>9, <1>10, <1>11, <1>12, <1>13,
           <1>14, <1>15, <1>16 DEF Next

\* The inductive invariant holds in every reachable state.
THEOREM InputPipeInductive == Spec => []IInv
BY InitHolds, NextKeeps, PTL DEF Spec

\* Nothing but a fault of the pipe ends a connection: neither the failure of
\* an earlier one (Invalidate), nor a number that was used and not sent (Send).
THEOREM LinkKeptHolds == Spec => []LinkKept
<1>1. IInv => LinkKept
  <2> SUFFICES ASSUME IInv PROVE LinkKept
    OBVIOUS
  <2>1. ConnectedIsAvailable
    BY DEF IInv, SendInv, ConnectedIsAvailable
  <2>2. wire # << >> => Head(wire) = wire[1]
    BY HeadTailProperties DEF IInv, TypeInv
  <2>3. SequenceUnbroken
    BY <2>2 DEF IInv, NumberInv, SequenceUnbroken
  <2> QED BY <2>1, <2>3 DEF LinkKept
<1> QED BY <1>1, InputPipeInductive, PTL

\* What the reports of an empty queue come to is what Windows sees.
LEMMA SettledGuest ==
  ASSUME dev.reports = << >>, NEW t, NEW h, Settles(dev, t, h)
  PROVE  dev.guest[t] = h
<1>1. Len(dev.reports) = 0
  OBVIOUS
<1>2. ~LastIs(dev.reports, t, h)
  BY <1>1 DEF LastIs
<1> QED BY <1>2 DEF Settles, FinalIs

\* Once the connection is lost and the device's queue is read, nothing is
\* held (ResetReports), the mouse's buttons only if no mouse report was
\* dropped from a queue.
THEOREM ReleasedHolds == Spec => []Released
<1>1. IInv => Released
  <2> SUFFICES ASSUME IInv, Detached PROVE KeysReleased /\ ButtonsReleased
    BY DEF Released, KeysReleased, ButtonsReleased
  <2>1. Parted /\ dev.reports = << >>
    BY DEF Detached, Parted
  <2>2. KeysAre(dev, {}) /\ (Uncut => \A t \in MouseTypes : dev.buttons[t] = {})
    BY <2>1 DEF IInv, RestInv
  <2>3. {} \ {"media"} = {} /\ {} \cap {"media"} = {}
    OBVIOUS
  <2>4. Settles(dev, "keyboard", {}) /\ Settles(dev, "consumer", {})
    BY <2>2, <2>3 DEF KeysAre
  <2>5. dev.guest["keyboard"] = {} /\ dev.guest["consumer"] = {}
    BY <2>1, <2>4, SettledGuest
  <2>6. ASSUME Uncut, NEW t \in MouseTypes PROVE dev.guest[t] = {}
    <3>1. Settles(dev, t, {})
      BY <2>2, <2>6 DEF IInv, DevInv, MouseOK
    <3> QED BY <3>1, <2>1, SettledGuest
  <2> QED BY <2>5, <2>6 DEF KeysReleased, ButtonsReleased, Uncut
<1> QED BY <1>1, InputPipeInductive, PTL

\* Once nothing is under way on a live connection, Windows sees held what the
\* sink was last asked for, whatever was coalesced, compacted, absorbed or
\* resynchronised on the way.
THEOREM QuietMatchesHolds == Spec => []QuietMatches
<1>1. IInv => QuietMatches
  <2> SUFFICES ASSUME IInv, Quiet
               PROVE  /\ dev.guest["keyboard"] = asked \ {"media"}
                      /\ dev.guest["consumer"] = asked \cap {"media"}
                      /\ ~cut /\ ~dev.cut => \A t \in MouseTypes : dev.guest[t] = m_buttons[t]
    BY DEF QuietMatches
  <2>1. Attached /\ m_queue = << >> /\ sending = None /\ wire = << >> /\ dev.reports = << >>
    BY DEF Quiet, Attached
  <2>2. Stream = << >>
    <3>1. << >> \in Seq(Messages) /\ << >> \in Seq(Notes)
      OBVIOUS
    <3>2. NotesOf(<< >>) = << >>
      BY <3>1, NotesOfFacts
    <3>3. InHand = << >>
      BY <2>1 DEF InHand
    <3>4. Stream = << >> \o (<< >> \o << >>)
      BY <3>2, <3>3, <2>1 DEF Stream
    <3> QED BY <3>1, <3>4, ConcatEmptySeq
  <2>3. Len(Stream) = 0
    BY <2>2
  <2>4. \A t, h : ~LastIs(Stream, t, h)
    BY <2>3 DEF LastIs
  <2>5. KeysAre(dev, asked)
    BY <2>1, <2>4 DEF IInv, StreamInv, FinalIs
  <2>6. dev.guest["keyboard"] = asked \ {"media"} /\ dev.guest["consumer"] = asked \cap {"media"}
    BY <2>1, <2>5, SettledGuest DEF KeysAre
  <2>7. ASSUME Uncut, NEW t \in MouseTypes PROVE dev.guest[t] = m_buttons[t]
    <3>1. dev.buttons[t] = m_buttons[t]
      BY <2>1, <2>4, <2>7 DEF IInv, StreamInv, FinalIs
    <3>2. Settles(dev, t, dev.buttons[t])
      BY <2>7 DEF IInv, DevInv, MouseOK
    <3> QED BY <3>1, <3>2, <2>1, SettledGuest
  <2> QED BY <2>6, <2>7 DEF Uncut
<1> QED BY <1>1, InputPipeInductive, PTL

=============================================================================

------------------------- MODULE RingBuffer_proofs --------------------------
(***************************************************************************)
(* What the ring buffer guarantees without a lock, for every length of the *)
(* ring, every width of its positions and every count: RingSpec =>         *)
(* []RingIntact.  The values readable when the consumer loads the write    *)
(* position, and not taken back while it copies (heard.kept of them), are  *)
(* never under the producer's memcpy.                                      *)
(*                                                                         *)
(* Everything is said relative to the reader: At(j) is the position j      *)
(* places ahead of readPos.  What the counters wrap around is large enough *)
(* that no two positions in use are half of it apart, so a position and    *)
(* its distance from the reader determine each other (OffsetFact), and the *)
(* places a call of one side touches can be compared with those of a call  *)
(* of the other, however far the reader has moved since they were loaded.  *)
(***************************************************************************)
EXTENDS RingBuffer, TLAPS

Indices == 0..(Length - 1)
Calls(Nexts) == [at : {"idle", "load", "copy", "store"}, count : Int, next : Nexts,
                 left : Nat, new : Positions]

TypeInv ==
  /\ ring \in [unbounded : BOOLEAN, readPos : Positions, writePos : Positions,
               values : [Indices -> Int]]
  /\ producer \in Calls(Positions)
  /\ consumer \in Calls(Nat) /\ consumer.at \in {"idle", "copy"}
  /\ heard \in [want : Positions, got : Int, kept : Nat]

-----------------------------------------------------------------------------
(* The invariant                                                           *)

\* The index of p is not shared with a position less than a ring away.
Safe(p) == Wrap % Length = 0 \/ (Length <= p /\ p < Wrap - Length)
Valid(p) == Safe(p) => ring.values[p % Length] = p

At(j) == (ring.readPos + j) % Wrap
Count == ringbuffer_getCount

\* How far the reader is behind the writer at most.
Debt == MaxDebt + MaxCount

\* The consumer's call: how far it will take the reader.
Advance == Offset(consumer.new, ring.readPos)
Taking  == IF consumer.at = "copy" THEN Advance ELSE 0

\* The producer's call: the count it will leave, and the first place it writes.
Appending == producer.at \in {"copy", "store"}
Result == IF producer.at = "load" THEN Count + producer.count
          ELSE IF Appending THEN Offset(producer.new, ring.readPos)
          ELSE Count
Frontier == Result - producer.left

CountInv ==
  /\ Count <= Length /\ -Debt <= Count - Taking
  /\ ~ring.unbounded => 0 <= Count - Taking

ProducerInv ==
  /\ producer.at = "load" /\ ring.unbounded =>
       /\ -MaxCount <= producer.count /\ producer.count <= MaxCount
       /\ Result <= Length /\ -Debt <= Result - Taking
  /\ producer.at = "load" /\ ~ring.unbounded =>
       0 <= producer.count /\ producer.count <= Length
  /\ Appending =>
       /\ Result <= Length /\ -Debt <= Result - Taking
       /\ Count - MaxCount <= Result /\ producer.left <= Length
       /\ ~ring.unbounded => Count <= Result
       /\ producer.left > 0 => Count <= Frontier /\ producer.next = At(Frontier)

ConsumerInv ==
  /\ consumer.at = "idle" => heard = Nothing
  /\ consumer.at = "copy" =>
       /\ 0 <= Advance /\ Advance <= MaxCount
       /\ consumer.left > 0 => consumer.next + consumer.left <= Length

\* The values before the writer, and before the first one it writes, are whole
\* and in place.
ValuesInv ==
  \A j \in 0..Length :
    j < Count \/ (Appending /\ j < Frontier) => Valid(At(j))

\* What the consumer's call found and was not taken back lies before the
\* writer, so before every place the producer writes.
ApartInv == heard.kept > 0 => heard.kept <= Count

RingInv ==
  /\ TypeInv /\ CountInv /\ ProducerInv /\ ConsumerInv /\ ValuesInv /\ ApartInv
  /\ InPlace

-----------------------------------------------------------------------------
(* Arithmetic                                                              *)

\* What the sizes are.
LEMMA Sizes ==
  /\ Length \in Nat /\ Length > 0 /\ Wrap \in Nat /\ Wrap > 0 /\ MaxCount \in Nat /\ MaxDebt \in Nat
  /\ Debt \in Nat /\ 2 * Length < Wrap /\ 2 * Debt <= Wrap /\ MaxCount <= Debt /\ MaxDebt <= Debt
BY RingAssumption DEF Debt

\* The remainder of a number that is off by at most one lap.
LEMMA ModSmall ==
  ASSUME NEW x \in Int, -Wrap <= x, x < 2 * Wrap
  PROVE  x % Wrap = IF x < 0 THEN x + Wrap ELSE IF x < Wrap THEN x ELSE x - Wrap
BY Sizes

\* The index of a position.
LEMMA ModForm ==
  ASSUME NEW x \in Int, NEW m \in Nat, m > 0
  PROVE  \E q \in Int : x = m * q + (x % m) /\ x % m \in 0..(m - 1)
OBVIOUS

\* Two numbers less than m apart have different remainders.
LEMMA ModApart ==
  ASSUME NEW m \in Nat, m > 0, NEW x \in Int, NEW y \in Int, x < y, y - x < m
  PROVE  x % m # y % m
<1> SUFFICES ASSUME x % m = y % m PROVE FALSE
  OBVIOUS
<1>1. PICK q \in Int : x = m * q + (x % m) /\ x % m \in 0..(m - 1)
  BY ModForm
<1>2. PICK p \in Int : y = m * p + (y % m)
  BY ModForm
<1>3. PICK r \in Int : r = x % m
  BY <1>1
<1>4. x = m * q + r /\ y = m * p + r
  BY <1>1, <1>2, <1>3
<1>5. CASE p <= q
  <2>1. m * p <= m * q
    BY <1>5
  <2> QED BY <2>1, <1>4
<1>6. CASE q + 1 <= p
  <2>1. m * (q + 1) <= m * p
    BY <1>6
  <2>2. m * (q + 1) = m * q + m
    OBVIOUS
  <2>3. m * q \in Int /\ m * p \in Int
    OBVIOUS
  <2> QED BY <2>1, <2>2, <2>3, <1>4
<1> QED BY <1>5, <1>6

\* A position and its distance from another determine each other.
LEMMA OffsetFact ==
  ASSUME NEW p \in Positions, NEW r \in Positions
  PROVE  /\ Offset(p, r) \in Int
         /\ -Wrap <= 2 * Offset(p, r) /\ 2 * Offset(p, r) < Wrap
         /\ p = (r + Offset(p, r)) % Wrap
<1>1. p \in Int /\ r \in Int /\ 0 <= p /\ p < Wrap /\ 0 <= r /\ r < Wrap
  BY Sizes DEF Positions
<1>2. PICK d \in Int : d = (p - r) % Wrap
  BY <1>1, Sizes
<1>3. d = IF p - r < 0 THEN p - r + Wrap ELSE p - r
  BY <1>1, <1>2, ModSmall, Sizes
<1>4. Offset(p, r) = IF 2 * d >= Wrap THEN d - Wrap ELSE d
  BY <1>2 DEF Offset
<1>5. PICK k \in Int : k = Offset(p, r)
  BY <1>4, Sizes
<1>6. -Wrap <= 2 * k /\ 2 * k < Wrap /\ (k = p - r \/ k = p - r + Wrap \/ k = p - r - Wrap)
  BY <1>1, <1>3, <1>4, <1>5, Sizes
<1>7. p = (r + k) % Wrap
  BY <1>1, <1>6, ModSmall, Sizes
<1> QED BY <1>5, <1>6, <1>7

\* The same the other way.
LEMMA OffsetIs ==
  ASSUME NEW r \in Positions, NEW k \in Int, -Wrap <= 2 * k, 2 * k < Wrap
  PROVE  (r + k) % Wrap \in Positions /\ Offset((r + k) % Wrap, r) = k
<1>1. r \in Int /\ 0 <= r /\ r < Wrap
  BY Sizes DEF Positions
<1>2. PICK p \in Int : p = (r + k) % Wrap
  BY <1>1, Sizes
<1>3. p = IF r + k < 0 THEN r + k + Wrap ELSE IF r + k < Wrap THEN r + k ELSE r + k - Wrap
  BY <1>1, <1>2, ModSmall, Sizes
<1>4. p \in Positions
  BY <1>1, <1>3, Sizes DEF Positions
<1>5. PICK d \in Int : d = (p - r) % Wrap
  BY <1>1, Sizes
<1>6. d = IF p - r < 0 THEN p - r + Wrap ELSE p - r
  BY <1>1, <1>3, <1>5, ModSmall, Sizes
<1>7. Offset(p, r) = IF 2 * d >= Wrap THEN d - Wrap ELSE d
  BY <1>5 DEF Offset
<1>8. Offset(p, r) = k
  BY <1>1, <1>3, <1>6, <1>7, Sizes
<1> QED BY <1>2, <1>4, <1>8

\* Going on from a position, or from another reader.
LEMMA Shift ==
  ASSUME NEW r \in Positions, NEW a \in Int, NEW b \in Int,
         -Wrap <= a, a < Wrap, -Wrap <= a + b, a + b < Wrap, -Wrap <= b, b <= Wrap
  PROVE  (((r + a) % Wrap) + b) % Wrap = (r + (a + b)) % Wrap
<1>1. r \in Int /\ 0 <= r /\ r < Wrap
  BY Sizes DEF Positions
<1>2. PICK p \in Int : p = (r + a) % Wrap
  BY <1>1, Sizes
<1>3. p = IF r + a < 0 THEN r + a + Wrap ELSE IF r + a < Wrap THEN r + a ELSE r + a - Wrap
  BY <1>1, <1>2, ModSmall, Sizes
<1>4. (p + b) % Wrap = IF p + b < 0 THEN p + b + Wrap ELSE IF p + b < Wrap THEN p + b ELSE p + b - Wrap
  BY <1>1, <1>3, ModSmall, Sizes
<1>5. PICK c \in Int : c = a + b
  OBVIOUS
<1>6. (r + c) % Wrap = IF r + c < 0 THEN r + c + Wrap ELSE IF r + c < Wrap THEN r + c ELSE r + c - Wrap
  BY <1>1, <1>5, ModSmall, Sizes
<1>7. (p + b) % Wrap = (r + c) % Wrap
  BY <1>1, <1>3, <1>4, <1>5, <1>6, Sizes
<1> QED BY <1>2, <1>5, <1>7

\* Whole turns of the storage do not change an index.
LEMMA ModTurns ==
  ASSUME NEW m \in Nat, m > 0, NEW x \in Int, NEW q \in Int
  PROVE  (m * q + x) % m = x % m
<1>1. PICK a \in Int : x = m * a + (x % m) /\ x % m \in 0..(m - 1)
  BY ModForm
<1>2. PICK e \in Int : e = x % m
  BY <1>1
<1>3. m * q + x = m * (a + q) + e
  BY <1>1, <1>2
<1>4. (m * (a + q) + e) % m = e
  BY <1>1, <1>2
<1> QED BY <1>2, <1>3, <1>4

\* The index of a value reached by going round from the first one of a call is
\* that of its position, unless the index jumps at the wrap near it.
LEMMA RoundIndex ==
  ASSUME NEW x \in Positions, NEW k \in Int, 0 <= k, k < Length,
         NEW p, p = (x + k) % Wrap, Safe(p)
  PROVE  (x + k) % Length = p % Length
<1>1. x \in Int /\ 0 <= x /\ x < Wrap
  BY Sizes DEF Positions
<1>2. p = IF x + k < Wrap THEN x + k ELSE x + k - Wrap
  BY <1>1, ModSmall, Sizes
<1>3. CASE p = x + k
  BY <1>3
<1>4. CASE p # x + k
  <2>1. p = x + k - Wrap /\ Wrap % Length = 0
    BY <1>1, <1>2, <1>4, Sizes DEF Safe
  <2>2. PICK n \in Int : Wrap = Length * n
    BY <2>1, ModForm, Sizes
  <2>3. p \in Int /\ x + k = Length * n + p
    BY <2>1, <2>2, <1>1, Sizes
  <2>4. (Length * n + p) % Length = p % Length
    BY <2>3, ModTurns, Sizes
  <2> QED BY <2>3, <2>4
<1> QED BY <1>3, <1>4

\* A place before the first one of a call of the producer is not written.
LEMMA PlaceBefore ==
  ASSUME NEW r \in Positions, NEW f \in Int, NEW l \in Nat, f + l <= Length,
         NEW x \in Positions, x = (r + f) % Wrap,
         NEW j \in Int, 0 <= j, j < f, NEW p, p = (r + j) % Wrap, Safe(p)
  PROVE  ~(((p % Length) - x) % Length < l)
<1>1. r \in Int /\ 0 <= r /\ r < Wrap /\ x \in Int
  BY Sizes DEF Positions
<1>2. p = IF r + j < Wrap THEN r + j ELSE r + j - Wrap
  BY <1>1, ModSmall, Sizes
<1>3. x = IF r + f < Wrap THEN r + f ELSE r + f - Wrap
  BY <1>1, ModSmall, Sizes
<1>4. p \in Int
  BY <1>1, <1>2, Sizes
<1>5. PICK i \in Int : i = p % Length
  BY <1>4, Sizes
<1>6. PICK k \in Int : k = (i - x) % Length
  BY <1>1, <1>5, Sizes
<1>7. SUFFICES ASSUME k < l PROVE FALSE
  BY <1>5, <1>6
<1>8. 0 <= k
  BY <1>1, <1>5, <1>6, Sizes
<1>9. (x + k) % Length = p % Length
  <2>0. PICK d \in Int : d = i - x
    BY <1>1
  <2>1. PICK q \in Int : d = Length * q + k
    BY <2>0, <1>6, ModForm, Sizes
  <2>2. PICK b \in Int : p = Length * b + i
    BY <1>4, <1>5, ModForm, Sizes
  <2>3. PICK y \in Int, c \in Int : y = x + k /\ c = b + q
    BY <1>1
  <2>4. p = Length * c + y
    BY <2>0, <2>1, <2>2, <2>3, <1>1, Sizes
  <2>5. (Length * c + y) % Length = y % Length
    BY ModTurns, Sizes
  <2> QED BY <2>3, <2>4, <2>5
<1>10. CASE x + k - p = f + k - j
  <2>1. p < x + k /\ (x + k) - p < Length /\ x + k \in Int
    BY <1>1, <1>4, <1>7, <1>8, <1>10, Sizes
  <2> QED BY <2>1, <1>4, <1>9, ModApart, Sizes
<1>11. CASE x + k - p # f + k - j
  <2>1. x + k - p = f + k - j - Wrap /\ Wrap - Length <= p
    BY <1>1, <1>2, <1>3, <1>11, Sizes
  <2>2. Wrap % Length = 0
    BY <2>1, <1>4, Sizes DEF Safe
  <2>3. PICK n \in Int : Wrap = Length * n
    BY <2>2, ModForm, Sizes
  <2>4. PICK y \in Int, u \in Int : y = x + k /\ u = Length * n + y
    BY <2>3, <1>1, Sizes
  <2>5. u % Length = p % Length
    <3>1. (Length * n + y) % Length = y % Length
      BY ModTurns, Sizes
    <3> QED BY <3>1, <2>4, <1>9
  <2>6. p < u /\ u - p < Length
    BY <2>1, <2>3, <2>4, <1>1, <1>4, <1>7, <1>8, Sizes
  <2> QED BY <2>5, <2>6, <1>4, ModApart, Sizes
<1> QED BY <1>10, <1>11

\* Where a place of a call of the producer is found again.
LEMMA PlaceWritten ==
  ASSUME NEW r \in Positions, NEW f \in Int, NEW l \in Nat, f + l <= Length, l <= Length, -Wrap <= f,
         NEW x \in Positions, x = (r + f) % Wrap,
         NEW j \in Int, 0 <= j, f <= j, j < f + l, NEW p, p = (r + j) % Wrap, Safe(p)
  PROVE  ((p % Length) - x) % Length = j - f
<1>1. r \in Int /\ 0 <= r /\ r < Wrap /\ x \in Int
  BY Sizes DEF Positions
<1>2. PICK k \in Int : k = j - f
  OBVIOUS
<1>3. 0 <= k /\ k < Length
  BY <1>2, Sizes
<1>4. (x + k) % Wrap = p
  <2>1. f < Wrap /\ -Wrap <= f + k /\ f + k < Wrap /\ -Wrap <= k /\ k <= Wrap
    BY <1>2, <1>3, Sizes
  <2>2. (((r + f) % Wrap) + k) % Wrap = (r + (f + k)) % Wrap
    BY <2>1, Shift
  <2>3. f + k = j
    BY <1>2
  <2> QED BY <2>2, <2>3
<1>5. (x + k) % Length = p % Length
  BY <1>3, <1>4, RoundIndex
<1>6. PICK i \in Int : i = p % Length
  BY <1>1, <1>5, Sizes
<1>7. PICK q \in Int : x + k = Length * q + i
  BY <1>1, <1>5, <1>6, ModForm, Sizes
<1>8. i - x = Length * (-q) + k
  BY <1>1, <1>7, Sizes
<1>9. (i - x) % Length = k % Length
  <2>1. PICK c \in Int : c = -q
    OBVIOUS
  <2>2. (Length * c + k) % Length = k % Length
    BY ModTurns, Sizes
  <2> QED BY <2>1, <2>2, <1>8
<1>10. k % Length = k
  BY <1>3, Sizes
<1> QED BY <1>2, <1>6, <1>9, <1>10

-----------------------------------------------------------------------------
(* What the parts of a state are                                           *)

\* The fields of the two calls and of the ring.
LEMMA Fields ==
  ASSUME TypeInv
  PROVE  /\ ring.unbounded \in BOOLEAN /\ ring.readPos \in Positions /\ ring.writePos \in Positions
         /\ ring.values \in [Indices -> Int]
         /\ producer.at \in {"idle", "load", "copy", "store"} /\ producer.count \in Int
         /\ producer.next \in Positions /\ producer.left \in Nat /\ producer.new \in Positions
         /\ consumer.at \in {"idle", "copy"}
         /\ consumer.next \in Nat /\ consumer.left \in Nat /\ consumer.new \in Positions
         /\ heard.want \in Positions /\ heard.got \in Int /\ heard.kept \in Nat
BY DEF TypeInv, Calls

\* The distances are integers.
LEMMA Distances ==
  ASSUME TypeInv
  PROVE  /\ Count \in Int /\ Advance \in Int /\ Taking \in Int
         /\ Result \in Int /\ Frontier \in Int
<1>1. Count \in Int
  BY Fields, OffsetFact DEF Count, ringbuffer_getCount
<1>2. Advance \in Int
  BY Fields, OffsetFact DEF Advance
<1>3. Taking \in Int
  BY <1>2 DEF Taking
<1>4. Offset(producer.new, ring.readPos) \in Int
  BY Fields, OffsetFact
<1>5. Result \in Int
  BY <1>1, <1>4, Fields DEF Result
<1>6. Frontier \in Int
  BY <1>5, Fields DEF Frontier
<1> QED BY <1>1, <1>2, <1>3, <1>5, <1>6

\* The writer is Count places ahead of the reader, and the places in use are
\* less than half of the width away.
LEMMA Places ==
  ASSUME TypeInv
  PROVE  /\ ring.writePos = At(Count) /\ consumer.new = At(Advance)
         /\ Appending => producer.new = At(Result)
         /\ -Wrap <= 2 * Count /\ 2 * Count < Wrap
<1>1. ring.writePos = At(Count) /\ -Wrap <= 2 * Count /\ 2 * Count < Wrap
  BY Fields, OffsetFact DEF Count, ringbuffer_getCount, At
<1>2. consumer.new = At(Advance)
  BY Fields, OffsetFact DEF Advance, At
<1>3. Appending => producer.new = At(Result)
  BY Fields, OffsetFact DEF Result, Appending, At
<1> QED BY <1>1, <1>2, <1>3

\* What a call of the consumer takes is not negative.
LEMMA TakingFact ==
  ASSUME TypeInv, ConsumerInv
  PROVE  0 <= Taking /\ Taking <= MaxCount
BY Distances, Sizes DEF ConsumerInv, Taking

\* A step that leaves the ring alone leaves the count alone.
LEMMA SameRing ==
  ASSUME ring' = ring
  PROVE  Count' = Count
BY DEF Count, ringbuffer_getCount

\* And what is in place.
LEMMA SameValid ==
  ASSUME ring' = ring
  PROVE  \A j \in Int : Valid(At(j))' = Valid(At(j))
BY DEF At, Valid, Safe

-----------------------------------------------------------------------------
(* The steps of the producer                                               *)

\* A caller asks for c values, or takes -c back: c fits when it is asked for.
LEMMA BeginCall ==
  ASSUME RingInv, producer.at = "idle", NEW c \in Int, producer' = Call(c),
         UNCHANGED <<ring, consumer, heard>>,
         ring.unbounded => /\ -MaxCount <= c /\ c <= MaxCount
                           /\ Count + c <= Length /\ -Debt <= Count + c - Taking,
         ~ring.unbounded => 0 <= c /\ c <= Length
  PROVE  RingInv'
<1>0. TypeInv /\ CountInv /\ ProducerInv /\ ConsumerInv /\ ValuesInv /\ ApartInv /\ InPlace
  BY DEF RingInv
<1>1. producer' = [at |-> "load", count |-> c, next |-> 0, left |-> 0, new |-> 0]
  BY DEF Call, Resting
<1>2. producer'.at = "load" /\ producer'.count = c /\ producer'.left = 0
  BY <1>1
<1>3. TypeInv'
  BY <1>0, <1>1, Sizes DEF TypeInv, Calls, Positions
<1>4. Count' = Count /\ Advance' = Advance /\ Taking' = Taking
  BY SameRing DEF Advance, Taking
<1>5. Result' = Count + c
  BY <1>2, <1>4 DEF Result
<1>6. CountInv'
  BY <1>0, <1>4 DEF CountInv
<1>7. ProducerInv'
  <2>1. CASE ring.unbounded
    <3>1. Result' <= Length /\ -Debt <= Result' - Taking'
      BY <2>1, <1>0, <1>4, <1>5, Distances, Sizes
    <3> QED BY <2>1, <3>1, <1>2 DEF ProducerInv, Debt, Appending
  <2>2. CASE ~ring.unbounded
    BY <2>2, <1>2 DEF ProducerInv, Appending
  <2> QED BY <2>1, <2>2
<1>8. ConsumerInv'
  BY <1>0, <1>4 DEF ConsumerInv
<1>9. ValuesInv'
  BY <1>0, <1>2, <1>4, SameValid DEF ValuesInv, Appending
<1>10. ApartInv' /\ InPlace'
  BY <1>0, <1>4 DEF ApartInv, InPlace, TakenBack, NearWrap
<1> QED BY <1>3, <1>6, <1>7, <1>8, <1>9, <1>10 DEF RingInv

\* The step of playbackAppendFrames.
LEMMA AppendFramesStep ==
  ASSUME RingInv, NEW n \in 1..MaxCount, playbackAppendFrames(n)
  PROVE  RingInv'
<1>0. TypeInv /\ CountInv /\ ConsumerInv
  BY DEF RingInv
<1>1. Count \in Int /\ Taking \in Int /\ 0 <= Taking /\ Count <= Length /\ -Debt <= Count - Taking
  BY <1>0, Distances, TakingFact DEF CountInv
<1>2. PICK c \in Int : c = PlaybackRoom(n)
  BY <1>1, Sizes, SMTT(60) DEF PlaybackRoom, Clamp, Most, Least, Count
<1>3. c = Clamp(n, 0, Most(0, Length - Count))
  BY <1>2 DEF PlaybackRoom, Count
<1>4. 0 <= c /\ c <= n /\ c <= Length - Count
  BY <1>1, <1>3, Sizes DEF Clamp, Most, Least
<1>5. -MaxCount <= c /\ c <= MaxCount /\ Count + c <= Length /\ -Debt <= Count + c - Taking
  BY <1>1, <1>4, Sizes
<1>6. producer.at = "idle" /\ producer' = Call(c) /\ UNCHANGED <<ring, consumer, heard>> /\ ring.unbounded
  BY <1>2 DEF playbackAppendFrames
<1> QED BY <1>5, <1>6, BeginCall

\* The step of playbackSlewBuffer: values are taken back only where there are
\* some, so the reader is not moved further behind than its own call did.
LEMMA SlewStep ==
  ASSUME RingInv, NEW n \in (-MaxCount)..MaxCount, playbackSlewBuffer(n)
  PROVE  RingInv'
<1>0. TypeInv /\ CountInv /\ ConsumerInv
  BY DEF RingInv
<1>1. Count \in Int /\ Taking \in Int /\ 0 <= Taking /\ Taking <= MaxCount
      /\ Count <= Length /\ -Debt <= Count - Taking
  BY <1>0, Distances, TakingFact DEF CountInv
<1>2. PICK c \in Int : c = Clamp(n, -Most(Count, 0), Length - Count)
  <2>1. Most(Count, 0) \in Int
    BY <1>1 DEF Most
  <2>2. PICK m \in Int : m = -Most(Count, 0)
    BY <2>1
  <2>3. Clamp(n, m, Length - Count) \in Int
    BY <1>1, Sizes DEF Clamp, Most, Least
  <2> QED BY <2>2, <2>3
<1>3. /\ -MaxCount <= c /\ c <= MaxCount /\ c <= Length - Count
      /\ 0 < Count => 0 <= Count + c
      /\ Count <= 0 => 0 <= c
  BY <1>1, <1>2, Sizes DEF Clamp, Most, Least
<1>4. Count + c <= Length /\ -Debt <= Count + c - Taking
  BY <1>1, <1>3, Sizes
<1>5. producer.at = "idle" /\ producer' = Call(c) /\ UNCHANGED <<ring, consumer, heard>> /\ ring.unbounded
  BY <1>2 DEF playbackSlewBuffer, Count
<1> QED BY <1>3, <1>4, <1>5, BeginCall

\* The step of lgUsbAudio_recordData.
LEMMA RecordStep ==
  ASSUME RingInv, NEW n \in 1..MaxCount, lgUsbAudio_recordData(n)
  PROVE  RingInv'
<1>1. PICK c \in Int : c = Least(n, Length)
  BY Sizes DEF Least
<1>2. 0 <= c /\ c <= Length
  BY <1>1, Sizes DEF Least
<1>3. producer.at = "idle" /\ producer' = Call(c) /\ UNCHANGED <<ring, consumer, heard>> /\ ~ring.unbounded
  BY <1>1 DEF lgUsbAudio_recordData
<1> QED BY <1>2, <1>3, BeginCall

\* The producer has loaded the reader's position: it will write l values and
\* leave e, from the writer's place or, when it was behind, the reader's on.
LEMMA Loaded ==
  ASSUME RingInv, producer.at = "load", UNCHANGED <<ring, consumer, heard>>,
         NEW e \in Int, NEW l \in Nat, NEW x \in Positions, NEW y, y = At(e),
         producer' = [at |-> "copy", count |-> 0, next |-> x, left |-> l, new |-> y],
         e <= Length, -Debt <= e - Taking, Count - MaxCount <= e, ~ring.unbounded => Count <= e,
         l > 0 => Count <= e - l /\ 0 <= e - l /\ x = At(e - l),
         e - l <= 0 \/ e - l <= Count
  PROVE  RingInv'
<1>0. TypeInv /\ CountInv /\ ProducerInv /\ ConsumerInv /\ ValuesInv /\ ApartInv /\ InPlace
  BY DEF RingInv
<1>1. /\ producer'.at = "copy" /\ producer'.next = x /\ producer'.left = l /\ producer'.new = y
      /\ producer'.count = 0
  OBVIOUS
<1>2. Count \in Int /\ Taking \in Int /\ 0 <= Taking /\ ring.readPos \in Positions
  BY <1>0, Distances, TakingFact, Fields
<1>3. -Wrap <= 2 * e /\ 2 * e < Wrap
  BY <1>2, Sizes
<1>4. y \in Positions /\ Offset(y, ring.readPos) = e
  BY <1>2, <1>3, OffsetIs DEF At
<1>5. TypeInv'
  BY <1>0, <1>4, Sizes DEF TypeInv, Calls
<1>6. Count' = Count /\ Advance' = Advance /\ Taking' = Taking
  BY SameRing DEF Advance, Taking
<1>7. Result' = e
  BY <1>1, <1>4 DEF Result, Appending
<1>8. Frontier' = e - l
  BY <1>1, <1>7 DEF Frontier
<1>9. CountInv'
  BY <1>0, <1>6 DEF CountInv
<1>10. ProducerInv'
  <2>1. Result' <= Length /\ -Debt <= Result' - Taking' /\ Count' - MaxCount <= Result'
        /\ producer'.left <= Length
    BY <1>1, <1>2, <1>6, <1>7, Sizes
  <2>2. ~ring'.unbounded => Count' <= Result'
    BY <1>6, <1>7
  <2>3. producer'.left > 0 => Count' <= Frontier' /\ producer'.next = At(Frontier)'
    BY <1>1, <1>6, <1>8 DEF At
  <2> QED BY <1>1, <2>1, <2>2, <2>3 DEF ProducerInv
<1>11. ConsumerInv'
  BY <1>0, <1>6 DEF ConsumerInv
<1>12. ValuesInv'
  <2> SUFFICES ASSUME NEW j \in 0..Length, j < Count' \/ j < Frontier'
               PROVE  Valid(At(j))'
    BY DEF ValuesInv
  <2>1. j < Count
    BY <1>2, <1>6, <1>8
  <2>2. Valid(At(j))
    BY <2>1, <1>0 DEF ValuesInv
  <2> QED BY <2>2, SameValid
<1>13. ApartInv'
  BY <1>0, <1>6 DEF ApartInv
<1>14. InPlace'
  BY <1>0 DEF InPlace, TakenBack, NearWrap
<1> QED BY <1>5, <1>9, <1>10, <1>11, <1>12, <1>13, <1>14 DEF RingInv

\* The step of AppendLoad.
LEMMA AppendLoadStep ==
  ASSUME RingInv, AppendLoad
  PROVE  RingInv'
<1>0. TypeInv /\ CountInv /\ ProducerInv /\ ConsumerInv
  BY DEF RingInv
<1>1. producer.at = "load" /\ UNCHANGED <<ring, consumer, heard>>
  BY DEF AppendLoad
<1>2. /\ Taking \in Int /\ 0 <= Taking /\ ring.readPos \in Positions /\ Count \in Int
      /\ ring.writePos = At(Count) /\ producer.count \in Int
      /\ Count <= Length /\ -Debt <= Count - Taking /\ -Debt <= Count
      /\ ~ring.unbounded => 0 <= Count /\ 0 <= Count - Taking
  BY <1>0, Distances, TakingFact, Fields, Places, Sizes DEF CountInv
<1>3. PICK a \in Int : a = Count
  BY <1>2
<1>4. PICK c \in Int : c = producer.count
  BY <1>2
<1>5. PICK w \in Positions : w = ring.writePos
  BY <1>0, Fields
<1>6. w = (ring.readPos + a) % Wrap
  BY <1>2, <1>3, <1>5 DEF At
<1>7. ring.unbounded => /\ -MaxCount <= c /\ c <= MaxCount /\ a + c <= Length
                        /\ -Debt <= a + c - Taking
  <2>1. Result = a + c
    BY <1>1, <1>3, <1>4 DEF Result
  <2> QED BY <2>1, <1>0, <1>1, <1>2, <1>4, Sizes DEF ProducerInv
<1>8. ~ring.unbounded => 0 <= c /\ c <= Length
  BY <1>0, <1>1, <1>4 DEF ProducerInv
<1>9. \A k \in Int : -Debt <= a + k /\ a + k <= Length /\ -Wrap <= k /\ k <= Wrap
                       => (w + k) % Wrap = At(a + k)
  <2> SUFFICES ASSUME NEW k \in Int, -Debt <= a + k, a + k <= Length, -Wrap <= k, k <= Wrap
               PROVE  (w + k) % Wrap = At(a + k)
    OBVIOUS
  <2>1. -Wrap <= a /\ a < Wrap /\ -Wrap <= a + k /\ a + k < Wrap
    BY <1>2, <1>3, Sizes
  <2> QED BY <2>1, <1>2, <1>6, Shift, ZenonT(60) DEF At
<1>10. CASE c < 0
  <2>1. ring.unbounded
    BY <1>8, <1>10
  <2>2. PICK y : y = (w + c) % Wrap
    OBVIOUS
  <2>3. producer' = [at |-> "copy", count |-> 0, next |-> 0, left |-> 0, new |-> y]
    BY <1>4, <1>5, <1>10, <2>2 DEF AppendLoad, Resting
  <2>4. PICK e \in Int : e = a + c
    OBVIOUS
  <2>5. y = At(e)
    BY <2>1, <2>2, <2>4, <1>2, <1>7, <1>9, Sizes
  <2>6. 0 \in Positions /\ 0 \in Nat
    BY Sizes DEF Positions
  <2>7. /\ e <= Length /\ -Debt <= e - Taking /\ Count - MaxCount <= e /\ e - 0 <= Count
        /\ ~ring.unbounded => Count <= e
    BY <2>1, <2>4, <1>2, <1>3, <1>7, <1>10, Sizes
  <2> QED BY <2>3, <2>5, <2>6, <2>7, <1>1, Loaded
<1>11. CASE 0 <= c
  <2>1. Offset(ring.writePos, ring.readPos) = a
    BY <1>3 DEF Count, ringbuffer_getCount
  <2>2. PICK s \in Int : s = IF a < 0 THEN Least(-a, c) ELSE 0
    BY DEF Least
  <2>3. PICK m \in Int : m = Most(0, Length - (a + s))
    BY Sizes DEF Most
  <2>4. PICK l \in Int : l = Least(c - s, m)
    BY DEF Least
  <2>5. PICK t \in Int : t = IF ring.unbounded THEN c ELSE s + l
    OBVIOUS
  <2>6. /\ 0 <= s /\ s <= c /\ 0 <= l /\ l <= c - s
        /\ (a < 0 /\ s = -a) \/ (a < 0 /\ s = c /\ a + s <= 0) \/ (0 <= a /\ s = 0)
        /\ a + c <= Length => l = c - s
        /\ a + s <= Length => a + s + l <= Length
    BY <1>11, <2>2, <2>3, <2>4, Sizes DEF Least, Most
  <2>7. t = s + l /\ a + t <= Length /\ 0 <= t /\ t <= Wrap /\ -Debt <= a + t - Taking
    <3>1. CASE ring.unbounded
      BY <3>1, <1>2, <1>3, <1>7, <2>5, <2>6, Sizes
    <3>2. CASE ~ring.unbounded
      BY <3>2, <1>2, <1>3, <1>8, <2>5, <2>6, Sizes
    <3> QED BY <3>1, <3>2
  <2>8. PICK x : x = (w + s) % Wrap
    OBVIOUS
  <2>9. PICK y : y = (w + t) % Wrap
    OBVIOUS
  <2>10. Written(c, ring.readPos) = [next |-> x, left |-> l, new |-> y]
    BY <1>5, <2>1, <2>2, <2>3, <2>4, <2>5, <2>8, <2>9 DEF Written
  <2>11. producer' = [at |-> "copy", count |-> 0, next |-> x, left |-> l, new |-> y]
    <3>1. ~(producer.count < 0)
      BY <1>4, <1>11
    <3>2. PICK u : u = Written(producer.count, ring.readPos)
      OBVIOUS
    <3>3. u = [next |-> x, left |-> l, new |-> y]
      BY <3>2, <1>4, <2>10
    <3>4. producer' = [Resting EXCEPT !.at = "copy", !.next = u.next, !.left = u.left, !.new = u.new]
      BY <3>1, <3>2 DEF AppendLoad
    <3> QED BY <3>3, <3>4 DEF Resting
  <2>12. PICK e \in Int : e = a + t
    OBVIOUS
  <2>13. y = At(e)
    BY <2>7, <2>9, <2>12, <1>2, <1>9, Sizes
  <2>14. a + s <= Length /\ -Debt <= a + s /\ -Wrap <= s /\ s <= Wrap
    BY <2>6, <2>7, <1>2, <1>3, Sizes
  <2>15. x = At(a + s) /\ e - l = a + s
    BY <2>7, <2>8, <2>12, <2>14, <1>9
  <2>16. x = At(e - l)
    BY <2>15
  <2>17. x \in Positions
    <3>1. -Wrap <= 2 * (a + s) /\ 2 * (a + s) < Wrap
      BY <2>14, Sizes
    <3> QED BY <3>1, <2>15, <1>2, OffsetIs DEF At
  <2>18. /\ e <= Length /\ -Debt <= e - Taking /\ Count - MaxCount <= e
         /\ ~ring.unbounded => Count <= e
    BY <2>7, <2>12, <1>2, <1>3, Sizes
  <2>19. /\ l > 0 => Count <= e - l /\ 0 <= e - l
         /\ e - l <= 0 \/ e - l <= Count
    <3>1. l > 0 => a <= a + s /\ 0 <= a + s
      BY <2>6
    <3>2. a + s <= 0 \/ a + s <= a
      BY <2>6
    <3> QED BY <3>1, <3>2, <2>15, <1>3
  <2>20. l \in Nat
    BY <2>6
  <2> QED BY <2>11, <2>13, <2>16, <2>17, <2>18, <2>19, <2>20, <1>1, Loaded
<1> QED BY <1>2, <1>4, <1>10, <1>11

\* The first place of an append with something to write.
LEMMA AppendingFact ==
  ASSUME RingInv, Appending
  PROVE  /\ Frontier \in Int /\ producer.left \in Nat /\ Result \in Int /\ Result = Frontier + producer.left
         /\ Result <= Length /\ producer.left <= Length
         /\ Count \in Int /\ ring.readPos \in Positions /\ producer.next \in Positions
         /\ Result = Offset(producer.new, ring.readPos)
         /\ producer.left > 0 => producer.next = At(Frontier) /\ Count <= Frontier /\ -Debt <= Frontier
<1>1. TypeInv /\ ProducerInv /\ CountInv /\ ConsumerInv
  BY DEF RingInv
<1>2. Frontier \in Int /\ producer.left \in Nat /\ Result \in Int /\ Count \in Int
      /\ ring.readPos \in Positions /\ producer.next \in Positions
  BY <1>1, Distances, Fields
<1>3. Result = Frontier + producer.left
  BY <1>2 DEF Frontier
<1>4. Result = Offset(producer.new, ring.readPos)
  BY DEF Result, Appending
<1>5. -Debt <= Count
  BY <1>1, <1>2, Distances, TakingFact, Sizes DEF CountInv
<1>6. Result <= Length /\ producer.left <= Length
      /\ (producer.left > 0 => Count <= Frontier /\ producer.next = At(Frontier))
  BY <1>1 DEF ProducerInv
<1>7. producer.left > 0 => -Debt <= Frontier
  BY <1>2, <1>5, <1>6, Sizes
<1> QED BY <1>2, <1>3, <1>4, <1>6, <1>7

\* What lies before the first place of an append stays in place.
LEMMA BeforeStays ==
  ASSUME RingInv, Appending, ring'.readPos = ring.readPos,
         \A i \in Indices : ~((i - producer.next) % Length < producer.left)
                               => ring'.values[i] = ring.values[i],
         NEW j \in 0..Length, j < Frontier \/ producer.left = 0, Valid(At(j))
  PROVE  Valid(At(j))'
<1>1. PICK f \in Int, l \in Nat, x \in Positions, r \in Positions :
        f = Frontier /\ l = producer.left /\ x = producer.next /\ r = ring.readPos
  BY AppendingFact
<1>2. PICK p : p = At(j)
  OBVIOUS
<1>3. p = (r + j) % Wrap
  BY <1>1, <1>2 DEF At
<1>4. p \in Positions
  BY <1>3, OffsetIs, Sizes
<1>5. p \in Int /\ p % Length \in Indices
  BY <1>4, Sizes DEF Positions, Indices
<1>6. At(j)' = p
  BY <1>2 DEF At
<1>7. SUFFICES ASSUME Safe(p) PROVE ring'.values[p % Length] = p
  BY <1>6 DEF Valid, Safe
<1>8. ring.values[p % Length] = p
  BY <1>2, <1>7 DEF Valid
<1>9. ~(((p % Length) - x) % Length < l)
  <2>1. CASE l = 0
    <3>1. PICK i \in Int : i = p % Length
      BY <1>5, Sizes
    <3>2. x \in Int
      BY Sizes DEF Positions
    <3>3. 0 <= (i - x) % Length
      BY <3>2, Sizes
    <3>4. (i - x) % Length \in Int
      BY <3>2, Sizes
    <3> QED BY <2>1, <3>1, <3>3, <3>4
  <2>2. CASE l # 0
    <3>1. l > 0
      BY <2>2
    <3>2. x = (r + f) % Wrap /\ f + l <= Length
      BY <3>1, <1>1, AppendingFact DEF At
    <3>3. j < f /\ 0 <= j /\ j \in Int
      BY <2>2, <1>1
    <3> QED BY <3>2, <3>3, <1>3, <1>7, PlaceBefore
  <2> QED BY <2>1, <2>2
<1>10. ring'.values[p % Length] = ring.values[p % Length]
  BY <1>1, <1>5, <1>9
<1> QED BY <1>8, <1>10

\* The places of an append hold the values of their positions when it ends.
LEMMA AppendedInPlace ==
  ASSUME RingInv, Appending, ring'.readPos = ring.readPos,
         \A i \in Indices : (i - producer.next) % Length < producer.left
            => ring'.values[i] = (producer.next + ((i - producer.next) % Length)) % Wrap,
         NEW j \in 0..Length, Frontier <= j, j < Result
  PROVE  Valid(At(j))'
<1>1. PICK f \in Int, l \in Nat, x \in Positions, r \in Positions :
        f = Frontier /\ l = producer.left /\ x = producer.next /\ r = ring.readPos
  BY AppendingFact
<1>2. Result = f + l /\ Result <= Length
  BY <1>1, AppendingFact
<1>3. l > 0 /\ f <= j /\ j < f + l /\ f + l <= Length /\ -Wrap <= f
  BY <1>1, <1>2, AppendingFact, Sizes
<1>4. x = (r + f) % Wrap
  BY <1>1, <1>3, AppendingFact DEF At
<1>5. PICK p : p = At(j)
  OBVIOUS
<1>6. p = (r + j) % Wrap
  BY <1>1, <1>5 DEF At
<1>7. p \in Positions
  BY <1>6, OffsetIs, Sizes
<1>8. p % Length \in Indices
  BY <1>7, Sizes DEF Positions, Indices
<1>9. At(j)' = p
  BY <1>5 DEF At
<1>10. SUFFICES ASSUME Safe(p) PROVE ring'.values[p % Length] = p
  BY <1>9 DEF Valid, Safe
<1>11. ((p % Length) - x) % Length = j - f /\ (x + (j - f)) % Wrap = p
  <2>1. j \in Int /\ 0 <= j /\ l <= Length
    BY <1>1, AppendingFact
  <2>2. Safe(p) /\ f <= j /\ j < f + l /\ f + l <= Length /\ -Wrap <= f
    BY <1>3, <1>10
  <2>3. ((p % Length) - x) % Length = j - f
    BY <2>1, <2>2, <1>4, <1>6, PlaceWritten
  <2>4. (x + (j - f)) % Wrap = p
    <3>1. PICK k \in Int : k = j - f
      BY <2>1
    <3>2. f < Wrap /\ -Wrap <= f + k /\ f + k < Wrap /\ -Wrap <= k /\ k <= Wrap /\ f + k = j
      BY <2>1, <2>2, <3>1, Sizes
    <3>3. (((r + f) % Wrap) + k) % Wrap = (r + (f + k)) % Wrap
      BY <2>2, <3>2, Shift
    <3> QED BY <3>1, <3>2, <3>3, <1>4, <1>6
  <2> QED BY <2>3, <2>4
<1>12. j - f < l
  BY <1>3
<1>13. ring'.values[p % Length] = (x + (((p % Length) - x) % Length)) % Wrap
  BY <1>1, <1>8, <1>11, <1>12
<1> QED BY <1>11, <1>13

\* The step of AppendCopy: the values before the first place of the call are
\* not touched.
LEMMA AppendCopyStep ==
  ASSUME RingInv, AppendCopy
  PROVE  RingInv'
<1>0. TypeInv /\ CountInv /\ ProducerInv /\ ConsumerInv /\ ValuesInv /\ ApartInv /\ InPlace
  BY DEF RingInv
<1>1. /\ producer.at = "copy" /\ producer' = [producer EXCEPT !.at = "store"]
      /\ consumer' = consumer /\ heard' = heard
  BY DEF AppendCopy
<1>2. Appending
  BY <1>1 DEF Appending
<1>3. PICK v : v = [i \in Indices |-> IF (i - producer.next) % Length < producer.left
                                        THEN Torn ELSE ring.values[i]]
  OBVIOUS
<1>4. ring' = [ring EXCEPT !.values = v]
  <2>1. DOMAIN ring.values = Indices
    BY <1>0, Fields
  <2> QED BY <2>1, <1>3 DEF AppendCopy, Filled
<1>5. v \in [Indices -> Int]
  BY <1>0, <1>3, Fields DEF Torn
<1>6. /\ ring'.unbounded = ring.unbounded /\ ring'.readPos = ring.readPos
      /\ ring'.writePos = ring.writePos /\ ring'.values = v
  BY <1>0, <1>4 DEF TypeInv
<1>7. /\ producer'.at = "store" /\ producer'.count = producer.count /\ producer'.next = producer.next
      /\ producer'.left = producer.left /\ producer'.new = producer.new
  BY <1>0, <1>1 DEF TypeInv, Calls
<1>8. TypeInv'
  BY <1>0, <1>1, <1>4, <1>5 DEF TypeInv, Calls
<1>9. Count' = Count /\ Advance' = Advance /\ Taking' = Taking
  BY <1>1, <1>6 DEF Count, ringbuffer_getCount, Advance, Taking
<1>10. Appending'
  BY <1>7 DEF Appending
<1>11. Result' = Result
  BY <1>1, <1>6, <1>7 DEF Result, Appending
<1>12. Frontier' = Frontier
  BY <1>7, <1>11 DEF Frontier
<1>13. CountInv'
  BY <1>0, <1>6, <1>9 DEF CountInv
<1>14. ProducerInv'
  <2>1. At(Frontier)' = At(Frontier)
    BY <1>6, <1>12 DEF At
  <2> QED BY <2>1, <1>0, <1>2, <1>6, <1>7, <1>9, <1>10, <1>11, <1>12 DEF ProducerInv
<1>15. ConsumerInv'
  BY <1>0, <1>1, <1>9 DEF ConsumerInv
<1>16. ValuesInv'
  <2> SUFFICES ASSUME NEW j \in 0..Length, j < Count' \/ j < Frontier'
               PROVE  Valid(At(j))'
    BY DEF ValuesInv
  <2>1. Valid(At(j))
    BY <1>0, <1>2, <1>9, <1>12 DEF ValuesInv
  <2>2. j < Frontier \/ producer.left = 0
    BY <1>2, <1>9, <1>12, AppendingFact
  <2>3. \A i \in Indices : ~((i - producer.next) % Length < producer.left)
                              => ring'.values[i] = ring.values[i]
    BY <1>3, <1>6
  <2> QED BY <2>1, <2>2, <2>3, <1>2, <1>6, BeforeStays
<1>17. ApartInv'
  BY <1>0, <1>1, <1>9 DEF ApartInv
<1>18. InPlace'
  BY <1>0, <1>1, <1>6 DEF InPlace, TakenBack, NearWrap
<1> QED BY <1>8, <1>13, <1>14, <1>15, <1>16, <1>17, <1>18 DEF RingInv

\* The step of AppendStore: what was appended is in place, and what the
\* consumer still counts on is before the new end.
LEMMA AppendStoreStep ==
  ASSUME RingInv, AppendStore
  PROVE  RingInv'
<1>0. TypeInv /\ CountInv /\ ProducerInv /\ ConsumerInv /\ ValuesInv /\ ApartInv /\ InPlace
  BY DEF RingInv
<1>1. /\ producer.at = "store" /\ producer' = Resting /\ consumer' = consumer
      /\ heard' = [heard EXCEPT !.kept = Most(0, Least(heard.kept, Offset(producer.new, ring.readPos)))]
  BY DEF AppendStore
<1>2. Appending
  BY <1>1 DEF Appending
<1>3. PICK v : v = [i \in Indices |->
                     IF (i - producer.next) % Length < producer.left
                     THEN (producer.next + ((i - producer.next) % Length)) % Wrap
                     ELSE ring.values[i]]
  OBVIOUS
<1>4. ring' = [ring EXCEPT !.values = v, !.writePos = producer.new]
  <2>1. DOMAIN ring.values = Indices
    BY <1>0, Fields
  <2> QED BY <2>1, <1>3 DEF AppendStore, Filled
<1>5. v \in [Indices -> Int]
  <2>1. producer.next \in Int
    BY <1>0, Fields, Sizes DEF Positions
  <2>2. ASSUME NEW i \in Indices PROVE v[i] \in Int
    <3>1. (producer.next + ((i - producer.next) % Length)) % Wrap \in Int
      BY <2>1, Sizes DEF Indices
    <3> QED BY <3>1, <1>0, <1>3, Fields
  <2> QED BY <2>2, <1>3
<1>6. /\ ring'.unbounded = ring.unbounded /\ ring'.readPos = ring.readPos
      /\ ring'.writePos = producer.new /\ ring'.values = v
  BY <1>0, <1>4 DEF TypeInv
<1>7. producer' = [at |-> "idle", count |-> 0, next |-> 0, left |-> 0, new |-> 0]
  BY <1>1 DEF Resting
<1>8. producer'.at = "idle" /\ producer'.left = 0
  BY <1>7
<1>9. Count' = Result
  BY <1>2, <1>6, AppendingFact DEF Count, ringbuffer_getCount
<1>10. Advance' = Advance /\ Taking' = Taking
  BY <1>1, <1>6 DEF Advance, Taking
<1>11. PICK k \in Nat : k = heard.kept
  BY <1>0, Fields
<1>12. PICK e \in Int : e = Result
  BY <1>2, AppendingFact
<1>13. PICK m : m = Most(0, Least(k, e))
  OBVIOUS
<1>14. m \in Nat /\ m <= k /\ (m > 0 => m <= e)
  BY <1>13 DEF Most, Least
<1>15. heard' = [heard EXCEPT !.kept = m]
  BY <1>1, <1>2, <1>11, <1>12, <1>13, AppendingFact
<1>16. heard'.kept = m /\ heard'.want = heard.want /\ heard'.got = heard.got
  BY <1>0, <1>15 DEF TypeInv
<1>17. TypeInv'
  <2>1. heard' \in [want : Positions, got : Int, kept : Nat]
    BY <1>0, <1>14, <1>15 DEF TypeInv
  <2>2. producer' \in Calls(Positions)
    BY <1>7, Sizes DEF Calls, Positions
  <2>3. ring' \in [unbounded : BOOLEAN, readPos : Positions, writePos : Positions, values : [Indices -> Int]]
    BY <1>0, <1>4, <1>5, Fields DEF TypeInv
  <2> QED BY <2>1, <2>2, <2>3, <1>0, <1>1 DEF TypeInv
<1>18. CountInv'
  <2>1. Result <= Length /\ -Debt <= Result - Taking
    BY <1>0, <1>2 DEF ProducerInv
  <2>2. ~ring.unbounded => 0 <= Result - Taking
    BY <1>0, <1>2, Distances DEF ProducerInv, CountInv
  <2> QED BY <2>1, <2>2, <1>6, <1>9, <1>10 DEF CountInv
<1>19. ProducerInv'
  BY <1>8 DEF ProducerInv, Appending
<1>20. ConsumerInv'
  <2>1. consumer.at = "idle" => heard' = Nothing
    <3> SUFFICES ASSUME consumer.at = "idle" PROVE heard' = Nothing
      OBVIOUS
    <3>1. heard = [want |-> 0, got |-> 0, kept |-> 0]
      BY <1>0 DEF ConsumerInv, Nothing
    <3>2. m = 0
      BY <3>1, <1>11, <1>14
    <3> QED BY <3>1, <3>2, <1>15 DEF Nothing
  <2> QED BY <2>1, <1>0, <1>1, <1>10 DEF ConsumerInv
<1>21. ValuesInv'
  <2> SUFFICES ASSUME NEW j \in 0..Length, j < Count'
               PROVE  Valid(At(j))'
    BY <1>8 DEF ValuesInv, Appending
  <2>1. j < Result
    BY <1>9
  <2>2. CASE j < Frontier
    <3>1. Valid(At(j))
      BY <2>2, <1>0, <1>2 DEF ValuesInv
    <3>2. \A i \in Indices : ~((i - producer.next) % Length < producer.left)
                                => ring'.values[i] = ring.values[i]
      BY <1>3, <1>6
    <3> QED BY <2>2, <3>1, <3>2, <1>2, <1>6, BeforeStays
  <2>3. CASE Frontier <= j
    <3>1. \A i \in Indices : (i - producer.next) % Length < producer.left
             => ring'.values[i] = (producer.next + ((i - producer.next) % Length)) % Wrap
      BY <1>3, <1>6
    <3> QED BY <2>1, <2>3, <3>1, <1>2, <1>6, AppendedInPlace
  <2>4. Frontier \in Int
    BY <1>2, AppendingFact
  <2> QED BY <2>2, <2>3, <2>4
<1>22. ApartInv'
  BY <1>9, <1>12, <1>14, <1>16 DEF ApartInv
<1>23. InPlace'
  <2>1. Offset(heard.want, ring.readPos) \in Int
    BY <1>0, Fields, OffsetFact
  <2>2. TakenBack => TakenBack'
    BY <2>1, <1>6, <1>11, <1>14, <1>16 DEF TakenBack
  <2> QED BY <2>2, <1>0, <1>16 DEF InPlace, NearWrap
<1> QED BY <1>17, <1>18, <1>19, <1>20, <1>21, <1>22, <1>23 DEF RingInv

-----------------------------------------------------------------------------
(* The steps of the consumer                                               *)

\* The step of ringbuffer_consume.
LEMMA ConsumeStep ==
  ASSUME RingInv, NEW n \in 1..MaxCount, NEW drop \in BOOLEAN, ringbuffer_consume(n, drop)
  PROVE  RingInv'
<1>0. TypeInv /\ CountInv /\ ProducerInv /\ ConsumerInv /\ ValuesInv /\ ApartInv /\ InPlace
  BY DEF RingInv
<1>1. /\ consumer.at = "idle" /\ ring' = ring /\ producer' = producer
      /\ ring.unbounded => n - Count <= MaxDebt
  BY DEF ringbuffer_consume, Count
<1>2. /\ Count \in Int /\ ring.readPos \in Positions /\ Taking = 0
      /\ Count <= Length /\ (~ring.unbounded => 0 <= Count)
  BY <1>0, <1>1, Distances, Fields DEF CountInv, Taking
<1>3. Readable(ring.writePos) = Most(0, Least(Count, Length))
  BY DEF Readable, Count, ringbuffer_getCount
<1>4. PICK len \in Int : len = Least(n, Readable(ring.writePos))
  BY <1>2, <1>3, Sizes DEF Least, Most
<1>5. 0 <= len /\ len <= n /\ len <= Length /\ (len > 0 => len <= Count) /\ (0 <= Count => len <= Count)
  BY <1>2, <1>3, <1>4, Sizes DEF Least, Most
<1>6. PICK l \in Nat : l = IF drop THEN 0 ELSE len
  BY <1>5
<1>7. PICK t \in Int : t = IF ring.unbounded THEN n ELSE len
  OBVIOUS
<1>8. PICK r \in Positions : r = ring.readPos
  BY <1>2
<1>9. PICK y : y = (r + t) % Wrap
  OBVIOUS
<1>10. consumer' = [at |-> "copy", count |-> 0, next |-> 0, left |-> l, new |-> y]
  BY <1>4, <1>6, <1>7, <1>8, <1>9 DEF ringbuffer_consume, Resting
<1>11. consumer'.at = "copy" /\ consumer'.next = 0 /\ consumer'.left = l /\ consumer'.new = y
  BY <1>10
<1>12. /\ 0 <= t /\ t <= MaxCount /\ 2 * t < Wrap /\ -MaxDebt <= Count - t
       /\ ~ring.unbounded => 0 <= Count - t
  <2>1. CASE ring.unbounded
    <3>1. t = n /\ n - Count <= MaxDebt
      BY <2>1, <1>1, <1>7
    <3>2. 2 * n < Wrap
      <4>1. CASE MaxDebt = 0
        BY <4>1, <3>1, <1>2, Sizes
      <4>2. CASE MaxDebt > 0
        BY <4>2, RingAssumption
      <4> QED BY <4>1, <4>2, Sizes
    <3> QED BY <3>1, <3>2, <2>1, <1>2, Sizes
  <2>2. CASE ~ring.unbounded
    BY <2>2, <1>2, <1>5, <1>7, Sizes
  <2> QED BY <2>1, <2>2
<1>13. y \in Positions /\ Offset(y, r) = t
  BY <1>9, <1>12, OffsetIs, Sizes
<1>14. heard' = [want |-> 0, got |-> 0, kept |-> len]
  BY <1>4 DEF ringbuffer_consume, Nothing
<1>15. TypeInv'
  <2>1. consumer' \in Calls(Nat) /\ consumer'.at \in {"idle", "copy"}
    BY <1>10, <1>13 DEF Calls
  <2>2. heard' \in [want : Positions, got : Int, kept : Nat]
    BY <1>5, <1>14, Sizes DEF Positions
  <2> QED BY <2>1, <2>2, <1>0, <1>1 DEF TypeInv
<1>16. Count' = Count /\ Result' = Result /\ Frontier' = Frontier /\ Appending' = Appending
  BY <1>1 DEF Count, ringbuffer_getCount, Result, Frontier, Appending
<1>17. Advance' = t /\ Taking' = t
  BY <1>1, <1>8, <1>11, <1>13 DEF Advance, Taking
<1>18. \A j \in Int : Valid(At(j))' = Valid(At(j))
  BY <1>1, SameValid
<1>19. CountInv'
  BY <1>1, <1>2, <1>12, <1>16, <1>17, Sizes DEF CountInv
<1>20. ProducerInv'
  <2>1. producer.at = "load" /\ ring.unbounded =>
           /\ -MaxCount <= producer.count /\ producer.count <= MaxCount
           /\ Result <= Length /\ -Debt <= Result - t
    <3> SUFFICES ASSUME producer.at = "load", ring.unbounded
                 PROVE  /\ -MaxCount <= producer.count /\ producer.count <= MaxCount
                        /\ Result <= Length /\ -Debt <= Result - t
      OBVIOUS
    <3>1. Result = Count + producer.count
      BY DEF Result
    <3>2. -MaxCount <= producer.count /\ producer.count <= MaxCount /\ Result <= Length
      BY <1>0 DEF ProducerInv
    <3> QED BY <3>1, <3>2, <1>0, <1>2, <1>12, Fields, Sizes DEF Debt
  <2>2. Appending => Result <= Length /\ -Debt <= Result - t
    <3> SUFFICES ASSUME Appending PROVE Result <= Length /\ -Debt <= Result - t
      OBVIOUS
    <3>1. Count - MaxCount <= Result /\ Result <= Length
      BY <1>0 DEF ProducerInv
    <3> QED BY <3>1, <1>0, <1>2, <1>12, Distances, Sizes DEF Debt
  <2>3. producer.at = "load" /\ ~ring.unbounded => 0 <= producer.count /\ producer.count <= Length
    BY <1>0 DEF ProducerInv
  <2>4. Appending =>
          /\ Count - MaxCount <= Result /\ producer.left <= Length
          /\ ~ring.unbounded => Count <= Result
          /\ producer.left > 0 => Count <= Frontier /\ producer.next = At(Frontier)
    BY <1>0 DEF ProducerInv
  <2>5. At(Frontier)' = At(Frontier)
    BY <1>1, <1>16 DEF At
  <2> QED BY <2>1, <2>2, <2>3, <2>4, <2>5, <1>1, <1>16, <1>17 DEF ProducerInv
<1>21. ConsumerInv'
  <2>1. l > 0 => 0 + l <= Length
    BY <1>5, <1>6
  <2> QED BY <2>1, <1>11, <1>12, <1>17 DEF ConsumerInv
<1>22. ValuesInv'
  BY <1>0, <1>1, <1>16, <1>18 DEF ValuesInv
<1>23. ApartInv'
  BY <1>5, <1>14, <1>16 DEF ApartInv
<1>24. InPlace'
  BY <1>14 DEF InPlace
<1> QED BY <1>15, <1>19, <1>20, <1>21, <1>22, <1>23, <1>24 DEF RingInv

\* The step of ConsumeCopy: the place read was taken back, or is one whose
\* value is in place.
LEMMA ConsumeCopyStep ==
  ASSUME RingInv, ConsumeCopy
  PROVE  RingInv'
<1>0. TypeInv /\ CountInv /\ ProducerInv /\ ConsumerInv /\ ValuesInv /\ ApartInv /\ InPlace
  BY DEF RingInv
<1>1. PICK k \in Nat, l \in Nat, r \in Positions, q \in Nat :
        k = consumer.next /\ l = consumer.left /\ r = ring.readPos /\ q = heard.kept
  BY <1>0, Fields
<1>2. PICK x, g : x = (r + k) % Wrap /\ g = ring.values[(r + k) % Length]
  OBVIOUS
<1>3. /\ consumer.at = "copy" /\ l > 0
      /\ heard' = [heard EXCEPT !.want = x, !.got = g]
      /\ consumer' = [consumer EXCEPT !.next = k + 1, !.left = l - 1]
      /\ ring' = ring /\ producer' = producer
  BY <1>1, <1>2 DEF ConsumeCopy
<1>4. k + l <= Length
  BY <1>0, <1>1, <1>3 DEF ConsumerInv
<1>5. k < Length /\ 0 <= k /\ -Wrap <= 2 * k /\ 2 * k < Wrap
  BY <1>3, <1>4, Sizes
<1>6. x \in Positions /\ Offset(x, r) = k
  BY <1>2, <1>5, OffsetIs
<1>7. (r + k) % Length \in Indices
  BY Sizes DEF Positions, Indices
<1>8. /\ consumer'.at = "copy" /\ consumer'.next = k + 1 /\ consumer'.left = l - 1
      /\ consumer'.new = consumer.new
  BY <1>0, <1>3 DEF TypeInv, Calls
<1>9. heard'.want = x /\ heard'.got = g /\ heard'.kept = q
  BY <1>0, <1>1, <1>3 DEF TypeInv
<1>10. TypeInv'
  <2>1. l - 1 \in Nat /\ k + 1 \in Nat
    BY <1>3
  <2>2. consumer' \in Calls(Nat)
    BY <2>1, <1>0, <1>3 DEF TypeInv, Calls
  <2>3. g \in Int
    BY <1>0, <1>2, <1>7, Fields
  <2>4. heard' \in [want : Positions, got : Int, kept : Nat]
    BY <2>3, <1>0, <1>3, <1>6 DEF TypeInv
  <2> QED BY <2>2, <2>4, <1>0, <1>3, <1>8 DEF TypeInv
<1>11. Count' = Count /\ Result' = Result /\ Frontier' = Frontier /\ Appending' = Appending
  BY <1>3 DEF Count, ringbuffer_getCount, Result, Frontier, Appending
<1>12. Advance' = Advance /\ Taking' = Taking
  BY <1>3, <1>8 DEF Advance, Taking
<1>13. \A j \in Int : Valid(At(j))' = Valid(At(j))
  BY <1>3, SameValid
<1>14. CountInv'
  BY <1>0, <1>3, <1>11, <1>12 DEF CountInv
<1>15. ProducerInv'
  <2>1. At(Frontier)' = At(Frontier)
    BY <1>3, <1>11 DEF At
  <2> QED BY <2>1, <1>0, <1>3, <1>11, <1>12 DEF ProducerInv
<1>16. ConsumerInv'
  <2>1. 0 <= Advance' /\ Advance' <= MaxCount
    BY <1>0, <1>3, <1>12 DEF ConsumerInv
  <2>2. (k + 1) + (l - 1) <= Length
    BY <1>4
  <2> QED BY <2>1, <2>2, <1>8 DEF ConsumerInv
<1>17. ValuesInv'
  BY <1>0, <1>3, <1>11, <1>13 DEF ValuesInv
<1>18. ApartInv'
  BY <1>0, <1>1, <1>9, <1>11 DEF ApartInv
<1>19. InPlace'
  <2>1. CASE ~Safe(x)
    <3>1. x \in Int
      BY <1>6, Sizes DEF Positions
    <3> QED BY <2>1, <3>1, <1>9, Sizes DEF Safe, InPlace, NearWrap
  <2>2. CASE q <= k
    BY <2>2, <1>1, <1>3, <1>6, <1>9 DEF InPlace, TakenBack
  <2>3. CASE Safe(x) /\ k < q
    <3>1. k < Count
      BY <2>3, <1>0, <1>1, Distances DEF ApartInv
    <3>2. Valid(At(k))
      <4>1. k \in 0..Length
        BY <1>5, Sizes
      <4> QED BY <4>1, <3>1, <1>0 DEF ValuesInv
    <3>3. ring.values[x % Length] = x
      BY <3>2, <2>3, <1>1, <1>2 DEF Valid, At
    <3>4. (r + k) % Length = x % Length
      BY <2>3, <1>2, <1>5, RoundIndex
    <3> QED BY <3>3, <3>4, <1>2, <1>9 DEF InPlace
  <2> QED BY <2>1, <2>2, <2>3
<1> QED BY <1>10, <1>14, <1>15, <1>16, <1>17, <1>18, <1>19 DEF RingInv

\* The step of ConsumeStore: the reader moves on by n, and every place is n
\* places nearer.
LEMMA ConsumeStoreStep ==
  ASSUME RingInv, ConsumeStore
  PROVE  RingInv'
<1>0. TypeInv /\ CountInv /\ ProducerInv /\ ConsumerInv /\ ValuesInv
  BY DEF RingInv
<1>1. /\ consumer.at = "copy" /\ ring' = [ring EXCEPT !.readPos = consumer.new]
      /\ consumer' = Resting /\ heard' = Nothing /\ producer' = producer
  BY DEF ConsumeStore
<1>2. PICK n \in Int : n = Advance
  BY <1>0, Distances
<1>3. PICK r \in Positions : r = ring.readPos
  BY <1>0, Fields
<1>4. PICK s \in Positions : s = consumer.new
  BY <1>0, Fields
<1>5. /\ 0 <= n /\ n <= MaxCount /\ Taking = n /\ s = (r + n) % Wrap /\ 2 * n < Wrap
      /\ Count \in Int /\ Result \in Int /\ Frontier \in Int
      /\ Count <= Length /\ -Debt <= Count - n /\ (~ring.unbounded => 0 <= Count - n)
  <2>1. 0 <= n /\ n <= MaxCount /\ Taking = n
    BY <1>0, <1>1, <1>2 DEF ConsumerInv, Taking
  <2>2. s = (r + n) % Wrap /\ 2 * n < Wrap
    BY <1>0, <1>2, <1>3, <1>4, Fields, OffsetFact DEF Advance
  <2>3. Count \in Int /\ Result \in Int /\ Frontier \in Int
    BY <1>0, Distances
  <2>4. Count <= Length /\ -Debt <= Count - n /\ (~ring.unbounded => 0 <= Count - n)
    BY <2>1, <1>0 DEF CountInv
  <2> QED BY <2>1, <2>2, <2>3, <2>4
<1>6. /\ ring'.unbounded = ring.unbounded /\ ring'.readPos = s
      /\ ring'.writePos = ring.writePos /\ ring'.values = ring.values
  BY <1>0, <1>1, <1>4 DEF TypeInv
<1>7. consumer' = [at |-> "idle", count |-> 0, next |-> 0, left |-> 0, new |-> 0]
  BY <1>1 DEF Resting
<1>8. consumer'.at = "idle" /\ consumer'.left = 0
  BY <1>7
<1>9. TypeInv'
  <2>1. heard' \in [want : Positions, got : Int, kept : Nat]
    BY <1>1, Sizes DEF Nothing, Positions
  <2>2. consumer' \in Calls(Nat)
    BY <1>7, Sizes DEF Calls, Positions
  <2>3. ring' \in [unbounded : BOOLEAN, readPos : Positions, writePos : Positions, values : [Indices -> Int]]
    BY <1>0, <1>1, <1>4 DEF TypeInv
  <2> QED BY <2>1, <2>2, <2>3, <1>0, <1>1, <1>8 DEF TypeInv
<1>10. \A j \in Int : -Wrap <= 2 * j /\ 2 * j <= Wrap /\ -Wrap <= 2 * (j + n) /\ 2 * (j + n) < Wrap
                        => At(j)' = At(j + n)
  <2> SUFFICES ASSUME NEW j \in Int, -Wrap <= 2 * j, 2 * j <= Wrap,
                      -Wrap <= 2 * (j + n), 2 * (j + n) < Wrap
               PROVE  At(j)' = At(j + n)
    OBVIOUS
  <2>1. -Wrap <= n /\ n < Wrap /\ -Wrap <= n + j /\ n + j < Wrap /\ -Wrap <= j /\ j <= Wrap
    BY <1>5, Sizes
  <2>2. (((r + n) % Wrap) + j) % Wrap = (r + (n + j)) % Wrap
    BY <2>1, <1>5, Shift
  <2>3. n + j = j + n
    BY <1>5
  <2> QED BY <2>2, <2>3, <1>3, <1>5, <1>6 DEF At
<1>11. \A p \in Positions, k \in Int :
          k = Offset(p, r) /\ -Debt <= k - n /\ k <= Length => Offset(p, s) = k - n
  <2> SUFFICES ASSUME NEW p \in Positions, NEW k \in Int, k = Offset(p, r), -Debt <= k - n, k <= Length
               PROVE  Offset(p, s) = k - n
    OBVIOUS
  <2>1. p = (r + k) % Wrap /\ -Wrap <= 2 * k /\ 2 * k < Wrap
    BY OffsetFact
  <2>2. PICK m \in Int : m = k - n
    BY <1>5
  <2>3. -Wrap <= 2 * m /\ 2 * m < Wrap /\ n + m = k
    BY <2>2, <1>5, Sizes
  <2>4. (((r + n) % Wrap) + m) % Wrap = (r + (n + m)) % Wrap
    BY <2>1, <2>3, <1>5, Shift, Sizes
  <2>5. p = (s + m) % Wrap
    BY <2>1, <2>3, <2>4, <1>5
  <2> QED BY <2>2, <2>3, <2>5, OffsetIs
<1>12. Count' = Count - n
  BY <1>0, <1>3, <1>5, <1>6, <1>11, Fields DEF Count, ringbuffer_getCount
<1>13. Taking' = 0
  BY <1>8 DEF Taking
<1>14. Appending => Result <= Length /\ -Debt <= Result - n
  BY <1>0, <1>5 DEF ProducerInv
<1>15. Result' = Result - n
  <2>1. CASE Appending
    <3>1. Result = Offset(producer.new, r)
      BY <2>1, <1>3 DEF Result, Appending
    <3>2. Offset(producer.new, s) = Result - n
      BY <2>1, <3>1, <1>0, <1>5, <1>11, <1>14, Fields
    <3> QED BY <2>1, <3>2, <1>1, <1>6 DEF Result, Appending
  <2>2. CASE producer.at = "load"
    BY <2>2, <1>0, <1>1, <1>5, <1>12, Fields DEF Result, Appending
  <2>3. CASE producer.at = "idle"
    BY <2>3, <1>1, <1>12 DEF Result, Appending
  <2> QED BY <2>1, <2>2, <2>3, <1>0, Fields DEF Appending
<1>16. Frontier' = Frontier - n
  BY <1>0, <1>1, <1>5, <1>15, Fields DEF Frontier
<1>17. CountInv'
  BY <1>5, <1>6, <1>12, <1>13, Sizes DEF CountInv
<1>18. ProducerInv'
  <2>1. producer.at = "load" /\ ring.unbounded =>
          /\ -MaxCount <= producer.count /\ producer.count <= MaxCount
          /\ Result' <= Length /\ -Debt <= Result' - Taking'
    <3> SUFFICES ASSUME producer.at = "load", ring.unbounded
                 PROVE  /\ -MaxCount <= producer.count /\ producer.count <= MaxCount
                        /\ Result' <= Length /\ -Debt <= Result' - Taking'
      OBVIOUS
    <3>1. /\ -MaxCount <= producer.count /\ producer.count <= MaxCount
          /\ Result <= Length /\ -Debt <= Result - n
      BY <1>0, <1>5 DEF ProducerInv
    <3> QED BY <3>1, <1>5, <1>13, <1>15, Sizes
  <2>2. producer.at = "load" /\ ~ring.unbounded => 0 <= producer.count /\ producer.count <= Length
    BY <1>0 DEF ProducerInv
  <2>3. ASSUME Appending
        PROVE  /\ Result' <= Length /\ -Debt <= Result' - Taking'
               /\ Count' - MaxCount <= Result' /\ producer.left <= Length
               /\ ~ring.unbounded => Count' <= Result'
    <3>1. Count - MaxCount <= Result /\ producer.left <= Length /\ (~ring.unbounded => Count <= Result)
      BY <2>3, <1>0 DEF ProducerInv
    <3> QED BY <2>3, <3>1, <1>5, <1>12, <1>13, <1>14, <1>15, Sizes
  <2>4. ASSUME Appending, producer.left > 0
        PROVE  Count' <= Frontier' /\ producer.next = At(Frontier)'
    <3>1. Count <= Frontier /\ producer.next = At(Frontier)
      BY <2>4, <1>0 DEF ProducerInv
    <3>2. PICK m \in Int : m = Frontier - n
      BY <1>5
    <3>3. Frontier <= Result
      BY <1>0, <1>5, Fields DEF Frontier
    <3>4. -Wrap <= 2 * m /\ 2 * m <= Wrap /\ -Wrap <= 2 * (m + n) /\ 2 * (m + n) < Wrap /\ m + n = Frontier
      BY <2>4, <3>1, <3>2, <3>3, <1>5, <1>14, Sizes
    <3>5. At(m)' = At(Frontier)
      BY <3>4, <1>10
    <3>6. At(Frontier)' = At(m)'
      BY <3>2, <1>16 DEF At
    <3> QED BY <3>1, <3>5, <3>6, <1>5, <1>12, <1>16
  <2> QED BY <2>1, <2>2, <2>3, <2>4, <1>1, <1>6 DEF ProducerInv, Appending
<1>19. ConsumerInv' /\ ApartInv'
  BY <1>1, <1>8 DEF ConsumerInv, ApartInv, Nothing
<1>20. ValuesInv'
  <2> SUFFICES ASSUME NEW j \in 0..Length, j < Count' \/ (Appending /\ j < Frontier')
               PROVE  Valid(At(j))'
    BY <1>1 DEF ValuesInv, Appending
  <2>1. PICK i \in Int : i = j + n
    BY <1>5
  <2>2. i < Count \/ (Appending /\ i < Frontier)
    BY <2>1, <1>5, <1>12, <1>16
  <2>3. Appending => Frontier <= Length
    BY <1>0, <1>5, <1>14, Fields, Sizes DEF Frontier
  <2>4. i \in 0..Length
    BY <2>1, <2>2, <2>3, <1>5, Sizes
  <2>5. Valid(At(i))
    BY <2>2, <2>4, <1>0 DEF ValuesInv
  <2>6. -Wrap <= 2 * j /\ 2 * j <= Wrap /\ -Wrap <= 2 * (j + n) /\ 2 * (j + n) < Wrap
    BY <2>1, <2>4, <1>5, Sizes
  <2>7. At(j)' = At(i)
    BY <2>1, <2>6, <1>10
  <2> QED BY <2>5, <2>7, <1>6 DEF Valid, Safe
<1>21. InPlace'
  BY <1>1 DEF InPlace, Nothing
<1> QED BY <1>9, <1>17, <1>18, <1>19, <1>20, <1>21 DEF RingInv

\* The step of ringbuffer_reset, with neither side in a call.
LEMMA ResetStep ==
  ASSUME RingInv, ringbuffer_reset
  PROVE  RingInv'
<1>0. TypeInv /\ ConsumerInv
  BY DEF RingInv
<1>1. /\ producer.at = "idle" /\ consumer.at = "idle"
      /\ ring' = [ring EXCEPT !.readPos = 0, !.writePos = 0]
      /\ producer' = producer /\ consumer' = consumer /\ heard' = heard
  BY DEF ringbuffer_reset
<1>2. ring'.readPos = 0 /\ ring'.writePos = 0
  BY <1>0, <1>1 DEF TypeInv
<1>3. 0 \in Positions
  BY Sizes DEF Positions
<1>4. TypeInv'
  BY <1>0, <1>1, <1>3 DEF TypeInv
<1>5. Offset(0, 0) = 0
  <2>1. (0 + 0) % Wrap = 0
    BY ModSmall, Sizes
  <2> QED BY <2>1, <1>3, OffsetIs, Sizes
<1>6. Count' = 0 /\ Taking' = 0
  BY <1>1, <1>2, <1>5 DEF Count, ringbuffer_getCount, Taking
<1>7. CountInv'
  BY <1>6, Sizes DEF CountInv
<1>8. heard = [want |-> 0, got |-> 0, kept |-> 0]
  BY <1>0, <1>1 DEF ConsumerInv, Nothing
<1>9. ProducerInv' /\ ConsumerInv' /\ ApartInv'
  BY <1>0, <1>1, <1>8 DEF ProducerInv, Appending, ConsumerInv, ApartInv
<1>10. ValuesInv'
  BY <1>1, <1>6 DEF ValuesInv, Appending
<1>11. InPlace'
  BY <1>1, <1>8 DEF InPlace
<1> QED BY <1>4, <1>7, <1>9, <1>10, <1>11 DEF RingInv

-----------------------------------------------------------------------------
(* The theorems                                                            *)

\* The invariant holds of a new ring.
LEMMA InitHolds ==
  ASSUME RingInit
  PROVE  RingInv
<1>1. PICK unbounded \in BOOLEAN :
        ring = [unbounded |-> unbounded, readPos |-> 0, writePos |-> 0,
                values |-> [i \in 0..(Length - 1) |-> Unwritten]]
  BY DEF RingInit
<1>2. ring.readPos = 0 /\ ring.writePos = 0
  BY <1>1
<1>3. /\ producer = [at |-> "idle", count |-> 0, next |-> 0, left |-> 0, new |-> 0]
      /\ consumer = [at |-> "idle", count |-> 0, next |-> 0, left |-> 0, new |-> 0]
      /\ heard = [want |-> 0, got |-> 0, kept |-> 0]
  BY DEF RingInit, Resting, Nothing
<1>4. producer.at = "idle" /\ consumer.at = "idle"
  BY <1>3
<1>5. 0 \in Positions
  BY Sizes DEF Positions
<1>6. TypeInv
  <2>1. [i \in 0..(Length - 1) |-> Unwritten] \in [Indices -> Int]
    BY Sizes DEF Indices, Unwritten
  <2>2. ring \in [unbounded : BOOLEAN, readPos : Positions, writePos : Positions, values : [Indices -> Int]]
    BY <2>1, <1>1, <1>5
  <2>3. producer \in Calls(Positions) /\ consumer \in Calls(Nat) /\ consumer.at \in {"idle", "copy"}
    BY <1>3, <1>5 DEF Calls
  <2> QED BY <2>2, <2>3, <1>3, <1>5 DEF TypeInv
<1>7. Offset(0, 0) = 0
  <2>1. (0 + 0) % Wrap = 0
    BY ModSmall, Sizes
  <2> QED BY <2>1, <1>5, OffsetIs, Sizes
<1>8. Count = 0 /\ Taking = 0
  BY <1>2, <1>4, <1>7 DEF Count, ringbuffer_getCount, Taking
<1>9. CountInv
  BY <1>8, Sizes DEF CountInv
<1>10. ProducerInv /\ ConsumerInv /\ ApartInv
  BY <1>3, <1>4 DEF ProducerInv, Appending, ConsumerInv, Nothing, ApartInv
<1>11. ValuesInv
  BY <1>4, <1>8 DEF ValuesInv, Appending
<1>12. InPlace
  BY <1>3 DEF InPlace
<1> QED BY <1>6, <1>9, <1>10, <1>11, <1>12 DEF RingInv

\* Every step, and none, keeps the invariant.
LEMMA StepKeeps ==
  ASSUME RingInv, [RingNext]_ringVars
  PROVE  RingInv'
<1>1. CASE \E n \in 1..MaxCount : playbackAppendFrames(n) \/ lgUsbAudio_recordData(n)
  BY <1>1, AppendFramesStep, RecordStep
<1>2. CASE \E n \in (-MaxCount)..MaxCount : playbackSlewBuffer(n)
  BY <1>2, SlewStep
<1>3. CASE AppendLoad \/ AppendCopy \/ AppendStore
  BY <1>3, AppendLoadStep, AppendCopyStep, AppendStoreStep
<1>4. CASE \E n \in 1..MaxCount, drop \in BOOLEAN : ringbuffer_consume(n, drop)
  BY <1>4, ConsumeStep
<1>5. CASE ConsumeCopy \/ ConsumeStore \/ ringbuffer_reset
  BY <1>5, ConsumeCopyStep, ConsumeStoreStep, ResetStep
<1>6. CASE UNCHANGED ringVars
  <2>1. ring' = ring /\ producer' = producer /\ consumer' = consumer /\ heard' = heard
    BY <1>6 DEF ringVars
  <2>2. TypeInv' /\ InPlace'
    BY <2>1 DEF RingInv, TypeInv, InPlace, TakenBack, NearWrap
  <2>3. /\ Count' = Count /\ Result' = Result /\ Frontier' = Frontier
        /\ Advance' = Advance /\ Taking' = Taking /\ Appending' = Appending
    BY <2>1 DEF Count, ringbuffer_getCount, Result, Frontier, Advance, Taking, Appending
  <2>4. CountInv' /\ ApartInv'
    BY <2>1, <2>3 DEF RingInv, CountInv, ApartInv
  <2>5. ProducerInv'
    <3>1. At(Frontier)' = At(Frontier)
      BY <2>1, <2>3 DEF At
    <3> QED BY <3>1, <2>1, <2>3 DEF RingInv, ProducerInv
  <2>6. ConsumerInv' /\ ValuesInv'
    BY <2>1, <2>3, SameValid DEF RingInv, ConsumerInv, ValuesInv
  <2> QED BY <2>2, <2>4, <2>5, <2>6 DEF RingInv
<1> QED BY <1>1, <1>2, <1>3, <1>4, <1>5, <1>6 DEF RingNext

\* The invariant says what RingIntact does: what a call takes is not negative,
\* so the count stays within the storage.
LEMMA InvIsIntact ==
  ASSUME RingInv
  PROVE  RingIntact
<1>1. Count \in Int /\ Taking \in Int /\ 0 <= Taking
  BY Distances, TakingFact DEF RingInv
<1>2. Count <= Length /\ (~ring.unbounded => 0 <= Count)
  BY <1>1 DEF RingInv, CountInv
<1>3. CountWithinStorage
  BY <1>1, <1>2 DEF CountWithinStorage, Count
<1> QED BY <1>3 DEF RingInv, RingIntact

\* The invariant holds in every state: the distances of both calls from the
\* reader, the values whole and in place before the writer and before the
\* producer's call, and what the consumer's call still counts on before both.
THEOREM RingBufferInductive == RingSpec => []RingInv
<1>1. RingInit => RingInv
  BY InitHolds
<1>2. RingInv /\ [RingNext]_ringVars => RingInv'
  BY StepKeeps
<1> QED BY <1>1, <1>2, PTL DEF RingSpec

\* ringbuffer_append and ringbuffer_consume without a lock: what is copied out
\* for a position was written for it and whole, unless it was taken back after
\* the consumer loaded the write position or lies at the jump of the index at
\* the wrap; the writer stays within the storage, and in a bounded ring the
\* reader never passes it.
THEOREM RingIntactHolds == RingSpec => []RingIntact
<1>1. RingInv => RingIntact
  BY InvIsIntact
<1> QED BY <1>1, RingBufferInductive, PTL

=============================================================================

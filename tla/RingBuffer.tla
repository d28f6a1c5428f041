----------------------------- MODULE RingBuffer -----------------------------
(* The ring buffer of the common library (common/src/ringbuffer.c) between *)
(* one producer and one consumer that take no lock, as the audio client    *)
(* uses it: the unbounded ring for playback (client/src/audio.c) and the   *)
(* bounded one for recording (client/src/usb_audio.c).                     *)
(*                                                                         *)
(* Positions count values modulo 2^32 (Wrap).  A call computes the index   *)
(* (position % length) of its first value only and goes round the storage  *)
(* from there.  What is stored is modelled by the position it was written  *)
(* for; silence counts as the value of its position.  While the producer's *)
(* memcpy runs, each place it fills is Torn: what a read finds there is    *)
(* the old value, the new one or a part of each.  A call loads the other   *)
(* side's position first and stores its own last; the consumer copies      *)
(* value by value.                                                         *)
EXTENDS Integers

CONSTANTS Length,     \* rb->length
          Wrap,       \* 2^32: positions are uint32_t
          MaxCount,   \* bound: the largest count of a call
          MaxDebt     \* bound: how far a read may take the reader past the writer

ASSUME RingAssumption ==
  /\ Length \in Nat \ {0} /\ MaxCount \in Nat /\ MaxDebt \in Nat
  /\ Wrap \in Nat /\ Wrap % 2 = 0
  /\ 2 * Length < Wrap /\ 2 * (MaxDebt + MaxCount) <= Wrap

VARIABLES ring,       \* struct RingBuffer
          producer,   \* the thread inside ringbuffer_append
          consumer,   \* the thread inside ringbuffer_consume
          heard       \* history of the consumer's call: the value it copied
                      \* last (the position it was wanted for and what was
                      \* got), and how many of the values readable when it
                      \* loaded the write position were not taken back since

ringVars == <<ring, producer, consumer, heard>>

Positions == 0..(Wrap - 1)
Unwritten == -1                 \* calloc'ed storage
Torn == -2                      \* being written: no value in particular

Least(a, b) == IF a < b THEN a ELSE b
Most(a, b) == IF a > b THEN a ELSE b
Clamp(n, low, high) == Most(low, Least(n, high))

(* int32_t writeOffset = writePos - readPos *)
Offset(w, r) ==
  LET d == (w - r) % Wrap IN IF 2 * d >= Wrap THEN d - Wrap ELSE d

ringbuffer_getCount == Offset(ring.writePos, ring.readPos)

\* A call: the count asked for, and once the other position is loaded the
\* next position to copy, how many are left and the position to store.
Resting == [at |-> "idle", count |-> 0, next |-> 0, left |-> 0, new |-> 0]
Call(count) == [Resting EXCEPT !.at = "load", !.count = count]
Nothing == [want |-> 0, got |-> 0, kept |-> 0]

RingInit ==
  /\ \E unbounded \in BOOLEAN :
       ring = [unbounded |-> unbounded, readPos |-> 0, writePos |-> 0,
               values |-> [i \in 0..(Length - 1) |-> Unwritten]]
  /\ producer = Resting
  /\ consumer = Resting
  /\ heard = Nothing

-----------------------------------------------------------------------------
(* The producer.  Each caller looks at the count first and limits what it  *)
(* asks for; the consumer may move on in between.                          *)

PlaybackRoom(n) == Clamp(n, 0, Most(0, Length - ringbuffer_getCount))

playbackAppendFrames(n) ==
  /\ ring.unbounded /\ producer.at = "idle"
  /\ PlaybackRoom(n) # 0
  /\ producer' = Call(PlaybackRoom(n))
  /\ UNCHANGED <<ring, consumer, heard>>

\* Silence is inserted, or the newest values are taken back.
playbackSlewBuffer(n) ==
  /\ ring.unbounded /\ producer.at = "idle"
  /\ LET slew == Clamp(n, -Most(ringbuffer_getCount, 0),
                       Length - ringbuffer_getCount)
     IN slew # 0 /\ producer' = Call(slew)
  /\ UNCHANGED <<ring, consumer, heard>>

lgUsbAudio_recordData(n) ==
  /\ ~ring.unbounded /\ producer.at = "idle"
  /\ producer' = Call(Least(n, Length))
  /\ UNCHANGED <<ring, consumer, heard>>

\* Values for places the reader has passed are skipped; of the rest as many
\* are written as there is room for.  An unbounded ring moves on by count.
Written(count, r) ==
  LET ahead == Offset(ring.writePos, r)
      skip  == IF ahead < 0 THEN Least(-ahead, count) ELSE 0
      room  == Most(0, Length - (ahead + skip))
      left  == Least(count - skip, room)
  IN [next |-> (ring.writePos + skip) % Wrap, left |-> left,
      new |-> (ring.writePos + (IF ring.unbounded THEN count ELSE skip + left))
                % Wrap]

AppendLoad ==
  /\ producer.at = "load"
  /\ producer' =
       IF producer.count < 0
       THEN [Resting EXCEPT !.at = "copy",
                            !.new = (ring.writePos + producer.count) % Wrap]
       ELSE LET w == Written(producer.count, ring.readPos)
            IN [Resting EXCEPT !.at = "copy", !.next = w.next,
                               !.left = w.left, !.new = w.new]
  /\ UNCHANGED <<ring, consumer, heard>>

\* The storage while the producer's call fills its places (writeLen values from
\* the index of the first one on), and once it has.
Filled(done) ==
  [i \in DOMAIN ring.values |->
     LET k == (i - producer.next) % Length
     IN IF k < producer.left
        THEN IF done THEN (producer.next + k) % Wrap ELSE Torn
        ELSE ring.values[i]]

\* Mutant: writePos is stored before the values are in place.
AppendCopy_Publishes ==
  /\ producer.at = "copy"
  /\ ring' = [ring EXCEPT !.values = Filled(FALSE), !.writePos = producer.new]
  /\ producer' = [producer EXCEPT !.at = "store"]
  /\ UNCHANGED <<consumer, heard>>

\* The memcpy (or memset) begins.  A seek backwards copies nothing.
AppendCopy ==
  /\ producer.at = "copy"
  /\ ring' = [ring EXCEPT !.values = Filled(FALSE)]
  /\ producer' = [producer EXCEPT !.at = "store"]
  /\ UNCHANGED <<consumer, heard>>

\* The memcpy has ended and writePos is stored.  What is then left of the
\* values the consumer's call found is history.
AppendStore ==
  /\ producer.at = "store"
  /\ ring' = [ring EXCEPT !.values = Filled(TRUE), !.writePos = producer.new]
  /\ producer' = Resting
  /\ heard' = [heard EXCEPT !.kept =
                 Most(0, Least(@, Offset(producer.new, ring.readPos)))]
  /\ UNCHANGED consumer

-----------------------------------------------------------------------------
(* The consumer                                                            *)

\* What the ring has for the reader; the rest of an unbounded read is zeros.
Readable(w) == Most(0, Least(Offset(w, ring.readPos), Length))

\* Values are copied out, or dropped (values is NULL).
ringbuffer_consume(n, drop) ==
  /\ consumer.at = "idle"
  /\ ring.unbounded => n - ringbuffer_getCount <= MaxDebt
  /\ LET len == Least(n, Readable(ring.writePos))
     IN /\ consumer' = [Resting EXCEPT
                          !.at   = "copy",
                          !.left = IF drop THEN 0 ELSE len,
                          !.new  = (ring.readPos
                                      + (IF ring.unbounded THEN n ELSE len)) % Wrap]
        /\ heard' = [Nothing EXCEPT !.kept = len]
  /\ UNCHANGED <<ring, producer>>

ConsumeCopy ==
  /\ consumer.at = "copy" /\ consumer.left > 0
  /\ heard' = [heard EXCEPT
                 !.want = (ring.readPos + consumer.next) % Wrap,
                 !.got  = ring.values[(ring.readPos + consumer.next) % Length]]
  /\ consumer' = [consumer EXCEPT !.next = @ + 1, !.left = @ - 1]
  /\ UNCHANGED <<ring, producer>>

ConsumeStore ==
  /\ consumer.at = "copy" /\ consumer.left = 0
  /\ ring' = [ring EXCEPT !.readPos = consumer.new]
  /\ consumer' = Resting
  /\ heard' = Nothing
  /\ UNCHANGED producer

\* The recording side resets the ring when input is disabled and the last
\* callback has left (recordWaitForInput), in the thread that reads.
ringbuffer_reset ==
  /\ ~ring.unbounded /\ producer.at = "idle" /\ consumer.at = "idle"
  /\ ring' = [ring EXCEPT !.readPos = 0, !.writePos = 0]
  /\ UNCHANGED <<producer, consumer, heard>>

RingNext ==
  \/ \E n \in 1..MaxCount : playbackAppendFrames(n) \/ lgUsbAudio_recordData(n)
  \/ \E n \in (-MaxCount)..MaxCount : playbackSlewBuffer(n)
  \/ AppendLoad \/ AppendCopy \/ AppendStore
  \/ \E n \in 1..MaxCount, drop \in BOOLEAN : ringbuffer_consume(n, drop)
  \/ ConsumeCopy \/ ConsumeStore
  \/ ringbuffer_reset

RingSpec == RingInit /\ [][RingNext]_ringVars

-----------------------------------------------------------------------------
(* Properties                                                              *)

\* The value last copied out was taken back (playbackSlewBuffer with a
\* negative count) after the consumer loaded the write position.
TakenBack == heard.kept <= Offset(heard.want, ring.readPos)

\* Its position is so close to the wrap of the positions that the index jumps:
\* a length that does not divide 2^32 (48000 does not).  Two positions on
\* either side of the wrap less than a ring apart then share an index.
NearWrap ==
  /\ Wrap % Length # 0
  /\ heard.want >= Wrap - Length \/ heard.want < Length

\* What the consumer copies out for a position was written for that position,
\* whoever is ahead: it is neither a value of an earlier lap nor one that the
\* producer is writing meanwhile.  Not so for values taken back under the
\* consumer, whose places the next append fills again, nor near the wrap.
InPlace == heard.got = heard.want \/ TakenBack \/ NearWrap

\* The same without the exception for values taken back: ringbuffer.h says of
\* ringbuffer_append, which "may be negative in unbounded mode to seek
\* backwards", and of ringbuffer_consume "This function is thread-safe".
RingThreadSafe == heard.got = heard.want \/ NearWrap

\* The writer never gets beyond the storage, where a positive count would
\* refer to overwritten values (the reason playbackAppendFrames gives for its
\* limit); in a bounded ring the reader never passes the writer (the
\* assertions of ringbuffer_append and ringbuffer_consume).
CountWithinStorage ==
  /\ ringbuffer_getCount <= Length
  /\ ring.unbounded \/ ringbuffer_getCount >= 0

\* ringbuffer_append and ringbuffer_consume run together without a lock, and
\* the values that stay in the ring while the consumer copies them out are
\* copied out whole and from their places.
RingIntact == InPlace /\ CountWithinStorage
=============================================================================

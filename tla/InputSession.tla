---------------------------- MODULE InputSession ----------------------------
(* The client's end of LGMP input (client/transports/LGMP/input.c) and the *)
(* protocol it speaks with the host's input transport: reports go through  *)
(* a bounded stream, numbered within a generation that begins with a claim *)
(* and ends with a release; the answer is the status the host publishes,   *)
(* of which the client reads the latest only.                              *)
(*                                                                         *)
(* One key and one mouse button stand for what a user can hold.  InputHub  *)
(* models the host's side in detail; here it is what a client can tell of  *)
(* it.  The projection of the keyboard LEDs is left out.                   *)
EXTENDS Integers, Sequences

CONSTANTS
  PENDING_LENGTH,    \* INPUT_PENDING_LENGTH
  PENDING_RESERVED,  \* INPUT_PENDING_RESERVED
  COALESCE,          \* INPUT_MOTION_COALESCE_THRESHOLD
  STREAM_SLOTS,      \* the slots of the stream
  MaxGeneration,     \* bound: claims of one connection
  SEQUENCE_MAX,      \* UINT32_MAX; a sequence number after it is 1
  MaxChanges         \* bound: rebindings and sink changes the host goes through

ASSUME SessionAssumption ==
  /\ PENDING_LENGTH \in Nat /\ PENDING_LENGTH >= 3   \* restoreInputState fits
  /\ PENDING_RESERVED \in 0..PENDING_LENGTH
  /\ COALESCE \in 1..PENDING_LENGTH /\ STREAM_SLOTS \in Nat \ {0}
  /\ MaxGeneration \in Nat /\ SEQUENCE_MAX \in Nat \ {0}
  /\ MaxChanges \in Nat

VARIABLES
  input,    \* struct LGMPInput
  stream,   \* the records in the stream
  host,     \* the host: owner, its sequence, what the devices hold, the
            \* binding of the stream, and whether a status is due
  status    \* the latest status, until the client reads it

sessionVars == <<input, stream, host, status>>

MayChange == host.endpoint + host.epoch <= MaxChanges + 1

Held == {"key", "button"}
\* The generation that owns the devices: none, another client, or ours.
Nobody == 0
Another == -1

Disconnected ==
  [at |-> "down", claimed |-> FALSE, available |-> FALSE, blocked |-> FALSE,
   confirmed |-> FALSE, epoch |-> 0, statusValid |-> FALSE, endpoint |-> 0,
   generation |-> 0, sequence |-> 0, pubGeneration |-> 0, pubSequence |-> 0,
   pubClaimed |-> FALSE, pending |-> <<>>, held |-> {}]

After(n, max)  == (n % max) + 1
Before(n, max) == IF n = 1 THEN max ELSE n - 1

Connected(i) == i.at = "up"

Status(h) == [available |-> h.available, endpoint |-> h.endpoint,
              owner |-> h.owner, epoch |-> IF h.bound = "bound" THEN h.epoch ELSE 0]

SessionInit ==
  /\ input = Disconnected
  /\ stream = <<>>
  /\ host = [owner |-> Nobody, sequence |-> 0, held |-> {}, available |-> TRUE,
             endpoint |-> 1, bound |-> "free", epoch |-> 0, dirty |-> FALSE,
             outOfStep |-> FALSE]
  /\ status = <<>>

-----------------------------------------------------------------------------
(* Helpers of the client.  Each maps a pair of the input and the stream to *)
(* such a pair, with what the C function returns where that is used.       *)

State == [i |-> input, q |-> stream]
Is(s, ok) == [i |-> s.i, q |-> s.q, ok |-> ok]
With(s, i) == [i |-> i, q |-> s.q]
The(S) == CHOOSE x \in S : TRUE     \* gives a value a name

published(i, m) ==
  [i EXCEPT !.pubGeneration = m.generation, !.pubSequence = m.sequence,
            !.pubClaimed = (@ \/ m.type = "claim") /\ m.type # "release"]

discardProtocolState(i) ==
  [i EXCEPT !.pending = <<>>, !.claimed = FALSE, !.sequence = 0,
            !.pubGeneration = 0, !.pubSequence = 0, !.pubClaimed = FALSE,
            !.confirmed = FALSE]

trySend(i, q) ==
  CASE i.epoch = 0 \/ host.bound = "free" \/ host.epoch # i.epoch -> "lost"
    [] Len(q) = STREAM_SLOTS -> "full"
    [] OTHER -> "ok"

\* sendFailed on a binding that was lost.
sendFailed(i) ==
  [discardProtocolState(i) EXCEPT !.epoch = 0, !.available = FALSE]

\* coalesceMotion: a motion that says the same of the buttons joins the last.
CanCoalesce(i, m) ==
  /\ Len(i.pending) >= COALESCE
  /\ LET tail == i.pending[Len(i.pending)]
     IN tail.pure /\ tail.generation = i.generation /\ tail.down = m.down

Motions(i) == {n \in DOMAIN i.pending : i.pending[n].pure}

\* The messages behind the motion keep their numbers.
discardPendingMotion_KeepNumbers(i) ==
  LET n == CHOOSE k \in Motions(i) : \A j \in Motions(i) : j <= k
  IN [i EXCEPT !.pending = [k \in 1..(Len(i.pending) - 1) |->
                              IF k < n THEN i.pending[k] ELSE i.pending[k + 1]]]

\* The newest motion goes, and the messages after it move up.
discardPendingMotion(i) ==
  LET n == CHOOSE k \in Motions(i) : \A j \in Motions(i) : j <= k
      g == i.pending[n].generation
      up(m) == IF m.generation = g THEN [m EXCEPT !.sequence = Before(@, SEQUENCE_MAX)]
               ELSE m
  IN [i EXCEPT
        !.pending = [k \in 1..(Len(i.pending) - 1) |->
                       IF k < n THEN i.pending[k] ELSE up(i.pending[k + 1])],
        !.sequence = IF g = i.generation THEN Before(@, SEQUENCE_MAX) ELSE @]

\* type, the state of the device it reports, and whether it is pure motion.
Submitted(s, type, down, pure) ==
  LET full == Len(s.i.pending) = PENDING_LENGTH
      i    == IF ~pure /\ full /\ Motions(s.i) # {}
                THEN discardPendingMotion(s.i) ELSE s.i
      m    == [type |-> type, generation |-> i.generation,
               sequence |-> After(i.sequence, SEQUENCE_MAX), down |-> down, pure |-> pure]
      sent == trySend(i, s.q)
  IN CASE ~Connected(s.i) \/ s.i.epoch = 0 -> Is(s, FALSE)
       [] OTHER ->
     CASE pure /\ CanCoalesce(s.i, m) -> Is(s, TRUE)
       [] pure /\ ~CanCoalesce(s.i, m)
            /\ Len(s.i.pending) >= PENDING_LENGTH - PENDING_RESERVED -> Is(s, FALSE)
       [] ~pure /\ full /\ Motions(s.i) = {} -> Is(s, FALSE)
       [] OTHER ->
     CASE i.pending = <<>> /\ sent = "ok" ->
            Is([i |-> published([i EXCEPT !.sequence = m.sequence], m),
                q |-> Append(s.q, m)], TRUE)
       [] i.pending = <<>> /\ sent = "lost" -> Is(With(s, sendFailed(i)), FALSE)
       [] OTHER ->
            Is(With(s, [i EXCEPT !.sequence = m.sequence,
                                 !.pending = Append(@, m)]), TRUE)

submitPayload(before, type, down, pure) ==
  The({Submitted(s, type, down, pure) : s \in {before}})

claim(s) ==
  IF s.i.claimed THEN Is(s, TRUE)
  ELSE IF ~s.i.available \/ s.i.blocked \/ s.i.epoch = 0 THEN Is(s, FALSE)
  ELSE The({[r EXCEPT !.i.claimed = @ /\ r.ok] : r \in
              {submitPayload(With(s, [s.i EXCEPT !.generation = @ + 1,
                                                 !.sequence = 0, !.claimed = TRUE,
                                                 !.confirmed = FALSE]),
                             "claim", FALSE, FALSE)}})

release(s) ==
  LET i == [s.i EXCEPT !.pending = <<>>, !.claimed = FALSE, !.held = {}]
  IN IF ~i.pubClaimed THEN Is(With(s, i), TRUE)
     ELSE submitPayload(With(s, [i EXCEPT !.generation = i.pubGeneration,
                                          !.sequence = i.pubSequence]),
                        "release", FALSE, FALSE)

\* The keys are reported anew, the buttons are forgotten.
restoreInputState_KeysOnly(s) ==
  IF s.i.held = {} THEN Is(s, TRUE)
  ELSE The({IF "key" \in s.i.held /\ c.ok THEN submitPayload(c, "key", TRUE, FALSE)
            ELSE c : c \in {claim(s)}})

\* What the user holds is claimed for and reported anew.
RestoreOne(r, held, type) ==
  IF r.ok /\ held THEN submitPayload(r, type, TRUE, FALSE) ELSE r

restoreInputState(s) ==
  IF s.i.held = {} THEN Is(s, TRUE)
  ELSE The({RestoreOne(key, "button" \in s.i.held, "mouse") : key \in
         {RestoreOne(c, "key" \in s.i.held, "key") : c \in {claim(s)}}})

-----------------------------------------------------------------------------
(* The calls of the user interface, each in the session's lock             *)

Take(after) ==
  \E s \in {after} :
    s.i.generation <= MaxGeneration /\ input' = s.i /\ stream' = s.q
Quiet == UNCHANGED <<host, status>>

\* A key goes down or up.  A key that cannot be reported up resets all.
updateKey(pressed) ==
  LET now == [input EXCEPT !.held = IF pressed THEN @ \cup {"key"}
                                    ELSE @ \ {"key"}]
      back(r) == [r EXCEPT !.i.held = (@ \ {"key"}) \cup (input.held \cap {"key"})]
  IN /\ Connected(input) /\ input.available
     /\ \/ input.blocked /\ Take(With(State, now))
        \/ /\ ~input.blocked
           /\ \E c \in {claim(With(State, now))} :
                IF ~c.ok THEN Take(back(c))
                ELSE \E r \in {submitPayload(c, "key", pressed, FALSE)} :
                       Take(CASE r.ok            -> r
                              [] ~r.ok /\ pressed -> back(r)
                              [] OTHER           -> release(r))
     /\ Quiet

updateMouseButton(pressed) ==
  LET held == IF pressed THEN input.held \cup {"button"}
              ELSE input.held \ {"button"}
  IN /\ Connected(input)
     /\ \/ /\ input.available /\ input.blocked
           /\ Take(With(State, [input EXCEPT !.held = held]))
        \/ /\ ~input.available
           /\ Take(IF pressed THEN State ELSE release(State))
        \/ /\ input.available /\ ~input.blocked
           /\ \E c \in {claim(State)} :
                \E r \in {IF c.ok THEN submitPayload(c, "mouse", pressed, FALSE) ELSE c} :
                  Take(CASE r.ok            -> [r EXCEPT !.i.held = held]
                         [] ~r.ok /\ pressed -> r
                         [] OTHER           -> release(r))
     /\ Quiet

inputMouseMotion ==
  /\ Connected(input) /\ input.available /\ ~input.blocked
  /\ \E c \in {claim(State)} :
       Take(IF c.ok THEN submitPayload(c, "mouse", "button" \in input.held, TRUE) ELSE c)
  /\ Quiet

inputReset ==
  /\ Take(IF Connected(input) THEN release(State)
          ELSE With(State, [input EXCEPT !.held = {}]))
  /\ Quiet

-----------------------------------------------------------------------------
(* The session's thread                                                    *)

\* reconcileInputStream: the stream the status names is attached if it is
\* still bound as the status says.
Attached(s) ==
  IF s.epoch # 0 /\ host.bound # "free" /\ host.epoch = s.epoch THEN s.epoch ELSE 0

\* Nobody owns the devices, and somebody, or the client itself, did before.
StatusEnds(i) == i.blocked \/ (i.claimed /\ i.confirmed)

StatusOwner(i, owner) ==
  CASE owner = Nobody ->
         [(IF StatusEnds(i) THEN discardProtocolState(i) ELSE i) EXCEPT !.blocked = FALSE]
    [] i.claimed /\ owner = i.generation ->
         [i EXCEPT !.blocked = FALSE, !.confirmed = TRUE]
    [] OTHER -> [discardProtocolState(i) EXCEPT !.blocked = TRUE]

Restored(st) ==
  The({IF r.ok THEN With(r, r.i) ELSE With(r, discardProtocolState(r.i)) :
         r \in {restoreInputState(st)}})

applyInputStatus(st, s) ==
  LET old     == st.i
      changed == old.statusValid /\ old.endpoint # s.endpoint
      epoch   == Attached(s)
      moved   == IF epoch = 0 THEN old.epoch # 0 ELSE old.epoch # epoch
      up      == s.available /\ epoch # 0
      drop    == changed \/ ~up \/ moved
      known   == [old EXCEPT !.statusValid = TRUE, !.endpoint = s.endpoint,
                             !.epoch = epoch, !.available = up]
      restore(i) == up /\ IF s.owner = Nobody THEN drop \/ StatusEnds(i)
                          ELSE i.claimed /\ s.owner = i.generation /\ drop
  IN The({IF restore(i) THEN Restored(With(st, StatusOwner(i, s.owner)))
          ELSE With(st, StatusOwner(i, s.owner)) :
            i \in {IF drop THEN discardProtocolState(known) ELSE known}})

\* flushPending: as many as the stream takes.
flushPending(st) ==
  LET i == st.i
      n == IF STREAM_SLOTS - Len(st.q) < Len(i.pending)
             THEN STREAM_SLOTS - Len(st.q) ELSE Len(i.pending)
      claims == {k \in 1..n : i.pending[k].type \in {"claim", "release"}}
      last   == CHOOSE k \in claims : \A j \in claims : j <= k
      sent   == [published(i, i.pending[n]) EXCEPT
                   !.pending = SubSeq(@, n + 1, Len(@)),
                   !.pubClaimed = IF claims = {} THEN i.pubClaimed
                                  ELSE i.pending[last].type = "claim"]
  IN CASE i.pending = <<>> \/ trySend(i, st.q) = "full" -> st
       [] i.pending # <<>> /\ trySend(i, st.q) = "lost" -> With(st, sendFailed(i))
       [] OTHER -> [i |-> sent, q |-> st.q \o SubSeq(i.pending, 1, n)]

\* Nothing held or queued for INPUT_IDLE_RELEASE_US: the devices are given
\* back.  Nothing sent for INPUT_KEEPALIVE_US: the lease is renewed.
Settled(i) ==
  i.claimed /\ i.pending = <<>> /\ i.pubGeneration = i.generation

AfterTime(st, idle, late) ==
  CASE idle /\ Settled(st.i) /\ st.i.held = {} -> release(st)
    [] late /\ Settled(st.i) /\ st.i.pubClaimed
         /\ ~(idle /\ st.i.held = {}) ->
         submitPayload(st, "keepalive", FALSE, FALSE)
    [] OTHER -> st

inputThread(idle, late) ==
  /\ Connected(input)
  /\ \E st \in {IF status # <<>> THEN applyInputStatus(State, status[1]) ELSE State} :
       \E flushed \in {flushPending(st)} : Take(AfterTime(flushed, idle, late))
  /\ status' = <<>>
  /\ UNCHANGED host

-----------------------------------------------------------------------------
(* The connection                                                          *)

\* A new LGMP session, so a new client to the host.
lgmpInput_connect ==
  /\ input.at = "down" /\ MayChange
  /\ input' = [Disconnected EXCEPT !.at = "up"]
  /\ stream' = <<>>
  /\ host' = [host EXCEPT !.owner = IF @ = Nobody THEN Nobody ELSE Another,
                          !.bound = "free", !.dirty = TRUE]
  /\ status' = <<>>

\* connectionFailed, on an error of LGMP.
connectionFailed ==
  /\ Connected(input)
  /\ input' = [Disconnected EXCEPT !.at = "failed"]
  /\ UNCHANGED <<stream, host, status>>

\* lgmpInput_disconnect takes the state down, waits for the thread, and then
\* tries to give the devices back.
DisconnectBegin ==
  /\ input.at \in {"up", "failed"}
  /\ input' = [Disconnected EXCEPT
                 !.at = "leaving",
                 !.epoch = input.epoch, !.pubGeneration = input.pubGeneration,
                 !.pubSequence = input.pubSequence,
                 !.pubClaimed = input.pubClaimed]
  /\ UNCHANGED <<stream, host, status>>

releaseOnDisconnect(inTime) ==
  LET m == [type |-> "release", generation |-> input.pubGeneration,
            sequence |-> After(input.pubSequence, SEQUENCE_MAX),
            down |-> FALSE, pure |-> FALSE]
  IN /\ input.at = "leaving"
     /\ inTime => input.pubClaimed /\ trySend(input, stream) = "ok"
     /\ stream' = IF inTime THEN Append(stream, m) ELSE stream
     /\ input' = [Disconnected EXCEPT !.at = "down"]
     /\ UNCHANGED <<host, status>>

\* The thread's last pass, if it was past its look at `stop', still applies a
\* status: what was published is forgotten and no release will be sent.
StatusWhileLeaving ==
  /\ input.at = "leaving" /\ status # <<>>
  /\ Take(applyInputStatus(State, status[1]))
  /\ status' = <<>>
  /\ UNCHANGED host

-----------------------------------------------------------------------------
(* The host, as far as a client can tell                                   *)

\* The devices are neutral when an ownership ends.
Ended(h) == [h EXCEPT !.owner = Nobody, !.sequence = 0, !.held = {}, !.dirty = TRUE]

HostReported(h, m) ==
  [h EXCEPT !.sequence = m.sequence,
            !.held = CASE m.type = "key"   -> (@ \ {"key"}) \cup
                                               (IF m.down THEN {"key"} ELSE {})
                       [] m.type = "mouse" -> (@ \ {"button"}) \cup
                                               (IF m.down THEN {"button"} ELSE {})
                       [] OTHER -> @]

HostMessage(h, m) ==
  LET ours == h.owner = m.generation
      bad  == [Ended(h) EXCEPT !.outOfStep = TRUE]
  IN CASE h.owner = Nobody /\ m.type = "claim" ->
            IF m.sequence = 1 /\ h.available
              THEN [Ended(h) EXCEPT !.owner = m.generation, !.sequence = 1]
              ELSE [h EXCEPT !.outOfStep = @ \/ m.sequence # 1]
       [] ours /\ m.type = "claim" ->
            IF m.sequence = 1 /\ h.sequence = 1 THEN h ELSE bad
       [] ours /\ m.type # "claim" ->
            IF m.sequence # After(h.sequence, SEQUENCE_MAX) THEN bad
            ELSE IF m.type = "release" THEN Ended(h) ELSE HostReported(h, m)
       [] OTHER -> h

\* A retired stream is read empty and nothing of it is acted on.
HostDrains ==
  /\ stream # <<>> /\ host.bound # "free"
  /\ host' = IF host.bound = "draining" THEN host ELSE HostMessage(host, Head(stream))
  /\ stream' = Tail(stream)
  /\ UNCHANGED <<input, status>>

\* The lease ends: the owner has not been heard of for OWNER_LEASE_MS.
LeaseEnds ==
  /\ host.owner # Nobody
  /\ host' = Ended(host)
  /\ UNCHANGED <<input, stream, status>>

\* The hub lost the ownership, with the sink or to another instance.
HostSinkChanges ==
  /\ MayChange
  /\ \E up \in BOOLEAN :
       host' = [Ended(host) EXCEPT !.available = up, !.endpoint = @ + 1]
  /\ UNCHANGED <<input, stream, status>>

AnotherClient ==
  /\ \/ host.owner = Nobody /\ host.available /\ host' = [Ended(host) EXCEPT !.owner = Another]
     \/ host.owner = Another /\ host' = Ended(host)
  /\ UNCHANGED <<input, stream, status>>

\* The transport stops: the owner is released and the stream unbound, once
\* it is empty.  It is bound again when the transport runs.
HostResets ==
  /\ host.bound = "bound" /\ MayChange
  /\ host' = [Ended(host) EXCEPT !.bound = IF stream = <<>> THEN "free" ELSE "draining"]
  /\ UNCHANGED <<input, stream, status>>

HostReconciles ==
  /\ \/ /\ host.bound = "draining" /\ stream = <<>>
        /\ host' = [host EXCEPT !.dirty = TRUE, !.bound = "free"]
     \/ /\ host.bound = "free" /\ input.at # "down"
        /\ host' = [host EXCEPT !.dirty = TRUE, !.bound = "bound", !.epoch = @ + 1]
  /\ UNCHANGED <<input, stream, status>>

HostPublishes ==
  /\ host.dirty
  /\ host' = [host EXCEPT !.dirty = FALSE]
  /\ status' = <<Status(host)>>
  /\ UNCHANGED <<input, stream>>

User ==
  \/ \E pressed \in BOOLEAN : updateKey(pressed) \/ updateMouseButton(pressed)
  \/ inputMouseMotion \/ inputReset

Session ==
  \/ \E idle, late \in BOOLEAN : inputThread(idle, late)
  \/ StatusWhileLeaving
  \/ lgmpInput_connect \/ connectionFailed \/ DisconnectBegin
  \/ \E inTime \in BOOLEAN : releaseOnDisconnect(inTime)

Host ==
  \/ HostDrains \/ LeaseEnds \/ HostSinkChanges \/ AnotherClient
  \/ HostResets \/ HostReconciles \/ HostPublishes

SessionNext == User \/ Session \/ Host

SessionSpec == SessionInit /\ [][SessionNext]_sessionVars

-----------------------------------------------------------------------------
(* Properties                                                              *)

\* The host never finds a message of its owner out of sequence, which would
\* cost the user the devices: not when a queued motion is thrown out and the
\* messages after it are renumbered, not when a release overtakes the queue,
\* not when claims and releases cross a change of the binding.
InStep == ~host.outOfStep

\* Once all is delivered the guest's devices hold what the user holds.
HeldAgrees ==
  Connected(input) /\ Settled(input) /\ stream = <<>>
    /\ host.owner = input.generation /\ host.bound = "bound"
    => host.held = input.held
=============================================================================

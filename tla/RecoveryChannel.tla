--------------------------- MODULE RecoveryChannel ---------------------------
(***************************************************************************)
(* The recovery channel: one region of shared memory (KVMFRRecovery.h)     *)
(* through which any number of clients (client/transports/LGMP/lgmp.c,     *)
(* lgmp_requestRecovery) post mode requests to the guest driver            *)
(* (idd/LGIdd/transport/lgmp/CRecovery.cpp) and read its status.           *)
(*                                                                         *)
(* Nothing but single-word atomics protects the region, and either side    *)
(* may die between any two of them.  A client step here is one access that *)
(* the other side can observe; the client keeps its own lock only against  *)
(* its own threads.  A driver restart is a new producer that finds what    *)
(* the old one and the clients left behind.                                *)
(*                                                                         *)
(* Abstracted: version, UUID and heartbeat fields of the header; the       *)
(* probe that tells a live header from one left by a dead driver (it only  *)
(* delays a client, and here a client may always believe the header);      *)
(* error codes; the time-out clock (a step that may happen once m_waiting  *)
(* is set).  ReadRequest, ReadStatus and the header snapshot re-check the  *)
(* word that guards what they read and start over if it moved, so each is  *)
(* one step at the moment of that check.                                   *)
(***************************************************************************)
EXTENDS Integers, FiniteSets

CONSTANTS
  Clients,
  Slots,          \* number of request slots (KVMFR_R_REQ_SLOTS, 16)
  SERIAL_MOD,     \* 2^32
  InitTicket,     \* ticket counter found at start
  MaxTickets,     \* bound on the tickets drawn
  MaxSession,     \* bound on the producers (one more per driver restart)
  MaxRequests,    \* bound on the requests one client posts
  CrashPoints     \* where the driver may die besides between two calls:
                  \* "publish" inside Publish, "init" inside Initialize

ASSUME ChannelConstants ==
  /\ Slots \in Nat \ {0}
  /\ SERIAL_MOD \in Nat \ {0} /\ SERIAL_MOD % 4 = 0
  /\ InitTicket \in 0 .. SERIAL_MOD - 1 /\ InitTicket % 2 = 0
  /\ MaxTickets \in Nat /\ MaxSession \in Nat /\ MaxRequests \in Nat
  /\ 8 * (MaxTickets + 1) < SERIAL_MOD   \* serials in use stay comparable
  /\ CrashPoints \subseteq {"publish", "init"}

VARIABLES
  (* shared memory *)
  ready, session,   \* header.ready, header.session (0 when zeroed)
  ticket,           \* req.ticket
  slots,            \* requests[i]: serial (even: published, odd: claimed)
  status,           \* status line; stable = serial even and not zero
  (* the driver: CRecovery *)
  pc, m_session, m_lastSerial, m_request, m_replay, m_waiting, m_syncReady,
  index,            \* loop variable of Process
  seen,             \* requests[]/stable[] of Process: what was read per slot
  submitted,        \* requests handed to the recovery hub by this driver
  (* the clients: lgmp_requestRecovery *)
  cpc, header, mine, at, want, posted,
  (* history *)
  published,        \* [serial, request, session] as their writers meant them
  accepted,         \* mode of the newest request any driver has taken
  drawn,            \* tickets drawn so far
  torn              \* the windows in which a driver has died so far

memory  == <<ready, session, ticket, slots, status>>
driver  == <<pc, m_session, m_lastSerial, m_request, m_replay, m_waiting,
             m_syncReady, index, seen, submitted>>
clients == <<cpc, header, mine, at, want, posted>>
history == <<published, accepted, drawn>>
vars    == <<memory, driver, clients, history, torn>>

-----------------------------------------------------------------------------
SlotIds    == 1 .. Slots
Serials    == 0 .. SERIAL_MOD - 1
WireModes  == {"NORMAL", "RECOVERY"}
EmptySlot  == [serial |-> 0, request |-> "NONE", session |-> 0]
ZeroStatus == [stable |-> FALSE, ackSerial |-> 0, ackRequest |-> "NONE",
               state |-> "UNKNOWN", session |-> 0]

IsOdd(serial) == serial % 2 = 1

SerialNewer_NoWrap(serial, reference) == serial > reference   \* mutant

\* Serial arithmetic modulo the width: newer means less than half way ahead.
SerialNewer(serial, reference) ==
  LET difference == (serial - reference) % SERIAL_MOD
  IN  difference # 0 /\ 2 * difference < SERIAL_MOD

\* Draw the next even ticket, skipping zero.
NextTicket == IF (ticket + 2) % SERIAL_MOD = 0 THEN 2
              ELSE (ticket + 2) % SERIAL_MOD

ReadRequest_Claimed(i) ==      \* mutant: a slot being written is taken as well
  IF slots[i].serial = 0 THEN EmptySlot ELSE slots[i]

\* A request slot as a stable read sees it: EmptySlot unless published.
ReadRequest(i) ==
  IF slots[i].serial = 0 \/ IsOdd(slots[i].serial) THEN EmptySlot ELSE slots[i]

OwnsSession == ready /\ session = m_session

RetainedRequest_NotFailed ==   \* mutant: forgets a request that failed
  IF status.stable /\ status.session = session
     /\ status.ackRequest = "RECOVERY" /\ status.state \in {"SWITCHING", "ACTIVE"}
    THEN "RECOVERY" ELSE "NORMAL"

\* The request a new driver carries on with, from the status it finds.
RetainedRequest ==
  IF status.stable /\ status.session = session /\
     \/ /\ status.ackRequest = "RECOVERY"
        /\ status.state \in {"SWITCHING", "ACTIVE", "FAILED"}
     \/ /\ status.ackRequest = "NORMAL"
        /\ status.state \in {"SWITCHING", "FAILED"}
    THEN status.ackRequest ELSE "NORMAL"

\* Publish: the whole status line, guarded by its own odd/even serial.
Publish(serial, request, state) ==
  status' = [stable |-> TRUE, ackSerial |-> serial, ackRequest |-> request,
             state |-> state, session |-> m_session]

-----------------------------------------------------------------------------
\* What an earlier driver (session 1), which is gone, left in the region.
Init ==
  /\ ready = TRUE /\ session = 1 /\ ticket = InitTicket
  /\ slots = [i \in SlotIds |-> EmptySlot]
  /\ status = [stable |-> TRUE, ackSerial |-> InitTicket,
               ackRequest |-> "NORMAL", state |-> "NORMAL", session |-> 1]
  /\ pc = "dead" /\ m_session = 1
  /\ m_lastSerial = InitTicket /\ m_request = "NORMAL"
  /\ m_replay = FALSE /\ m_waiting = FALSE /\ m_syncReady = FALSE
  /\ index = 1 /\ seen = [i \in SlotIds |-> EmptySlot]
  /\ submitted = {}
  /\ cpc = [c \in Clients |-> "idle"]
  /\ header = [c \in Clients |-> 0] /\ mine = [c \in Clients |-> 0]
  /\ at = [c \in Clients |-> 1] /\ want = [c \in Clients |-> "NORMAL"]
  /\ posted = [c \in Clients |-> 0]
  /\ published = {} /\ accepted = "NORMAL" /\ drawn = 0 /\ torn = {}

-----------------------------------------------------------------------------
(* CRecovery::Initialize of a new driver.                                  *)

\* Judge the old header, take over its request, withdraw ready.
InitBegin ==
  /\ pc = "dead" /\ m_session < MaxSession /\ drawn < MaxTickets
  /\ m_request' = IF ready /\ session # 0 THEN RetainedRequest ELSE "NORMAL"
  /\ pc' = IF ready /\ session # 0 THEN "keep" ELSE "wipe"
  /\ ready' = FALSE
  /\ index' = 1 /\ seen' = [i \in SlotIds |-> EmptySlot]
  /\ UNCHANGED <<session, ticket, slots, status, m_session, m_lastSerial,
                 m_replay, m_waiting, m_syncReady, submitted, clients,
                 history>>

\* A valid header: clear header, status and published requests, one slot at
\* a time; the ticket and the slots of interrupted writers stay.
InitKeep ==
  /\ pc = "keep"
  /\ IF index <= Slots
       THEN /\ slots' = [slots EXCEPT ![index] =
                 IF ReadRequest(index) # EmptySlot THEN [@ EXCEPT !.serial = 0]
                                                   ELSE @]
            /\ index' = index + 1
            /\ UNCHANGED pc
       ELSE /\ pc' = "header" /\ UNCHANGED <<slots, index>>
  /\ session' = 0
  /\ status' = ZeroStatus
  /\ UNCHANGED <<ready, ticket, m_session, m_lastSerial, m_request, m_replay,
                 m_waiting, m_syncReady, seen, submitted, clients, history>>

\* Anything else: the whole region is zeroed.
InitWipe ==
  /\ pc = "wipe"
  /\ session' = 0 /\ ticket' = 0 /\ status' = ZeroStatus
  /\ slots' = [i \in SlotIds |-> EmptySlot]
  /\ pc' = "header"
  /\ UNCHANGED <<ready, m_session, m_lastSerial, m_request, m_replay,
                 m_waiting, m_syncReady, index, seen, submitted, clients,
                 history>>

InitHeader ==
  /\ pc = "header"
  /\ m_session' = m_session + 1          \* CreateSession: never used before
  /\ session' = m_session + 1
  /\ ticket' = NextTicket /\ m_lastSerial' = NextTicket
  /\ drawn' = drawn + 1
  /\ m_replay' = TRUE /\ m_waiting' = FALSE /\ m_syncReady' = FALSE
  /\ submitted' = {}
  /\ pc' = "switching"
  /\ UNCHANGED <<ready, slots, status, m_request, index, seen, clients,
                 published, accepted>>

InitFinish ==
  /\ pc = "switching"
  /\ Publish(m_lastSerial, m_request, "SWITCHING")
  /\ ready' = TRUE
  /\ pc' = "idle"
  /\ UNCHANGED <<session, ticket, slots, m_session, m_lastSerial, m_request,
                 m_replay, m_waiting, m_syncReady, index, seen, submitted,
                 clients, history>>

-----------------------------------------------------------------------------
(* CRecovery::Process and the other calls of a running driver.             *)

ProcessBegin ==
  /\ pc = "idle" /\ OwnsSession
  /\ pc' = "read" /\ index' = 1
  /\ seen' = [i \in SlotIds |-> EmptySlot]
  /\ UNCHANGED <<memory, m_session, m_lastSerial, m_request, m_replay,
                 m_waiting, m_syncReady, submitted, clients, history>>

ProcessRead ==
  /\ pc = "read"
  /\ seen' = [seen EXCEPT ![index] = ReadRequest(index)]
  /\ index' = IF index < Slots THEN index + 1 ELSE 1
  /\ pc' = IF index < Slots THEN "read" ELSE "select"
  /\ UNCHANGED <<memory, m_session, m_lastSerial, m_request, m_replay,
                 m_waiting, m_syncReady, submitted, clients, history>>

Candidates_AnyAge ==           \* mutant: also requests older than the last one
  {i \in SlotIds : seen[i].serial # 0 /\ seen[i].session = m_session}

\* The requests of this session that are newer than the last one taken.
Candidates ==
  {i \in SlotIds : /\ seen[i].serial # 0
                   /\ seen[i].session = m_session
                   /\ SerialNewer(seen[i].serial, m_lastSerial)}
Newest_First(S) == CHOOSE i \in S : \A j \in S : i <= j   \* mutant

\* The loop keeps the newest it has met.
Newest(S) == CHOOSE i \in S : \A j \in S \ {i} :
               SerialNewer(seen[i].serial, seen[j].serial)

Submission(serial, request) ==
  [serial |-> serial, active |-> request = "RECOVERY"]

TakeRequest ==
  /\ Candidates # {}
  /\ LET r == seen[Newest(Candidates)]
         defer == r.request = "NORMAL" /\ ~m_syncReady
     IN  /\ m_lastSerial' = r.serial
         /\ m_request' = r.request
         /\ m_replay' = defer
         /\ m_waiting' = ~defer
         /\ submitted' = IF defer THEN submitted
                         ELSE submitted \cup {Submission(r.serial, r.request)}
         /\ Publish(r.serial, r.request, "SWITCHING")
         /\ accepted' = r.request

Replay ==
  /\ Candidates = {}
  /\ m_replay /\ (m_request # "NORMAL" \/ m_syncReady)
  /\ m_replay' = FALSE /\ m_waiting' = TRUE
  /\ submitted' = submitted \cup {Submission(m_lastSerial, m_request)}
  /\ UNCHANGED <<m_lastSerial, m_request, status, accepted>>

NothingNew ==
  /\ Candidates = {}
  /\ ~(m_replay /\ (m_request # "NORMAL" \/ m_syncReady))
  /\ UNCHANGED <<m_lastSerial, m_request, m_replay, m_waiting, submitted,
                 status, accepted>>

ProcessSelect ==
  /\ pc = "select"
  /\ TakeRequest \/ Replay \/ NothingNew
  /\ pc' = "clear"
  /\ UNCHANGED <<ready, session, ticket, slots, m_session, m_syncReady, index,
                 seen, clients, published, drawn>>

\* Reclaim, by compare and swap, every slot that was read as published.
ProcessClear ==
  /\ pc = "clear"
  /\ slots' = IF seen[index].serial # 0 /\ slots[index].serial = seen[index].serial
                THEN [slots EXCEPT ![index].serial = 0] ELSE slots
  /\ index' = IF index < Slots THEN index + 1 ELSE 1
  /\ pc' = IF index < Slots THEN "clear" ELSE "deadline"
  /\ UNCHANGED <<ready, session, ticket, status, m_session, m_lastSerial,
                 m_request, m_replay, m_waiting, m_syncReady, seen, submitted,
                 clients, history>>

\* The Helper had 30 s: the end of Process, deadline passed or not.
ProcessEnd(expired) ==
  /\ pc = "deadline"
  /\ expired => m_waiting
  /\ IF expired THEN /\ m_waiting' = FALSE
                     /\ Publish(m_lastSerial, m_request, "FAILED")
                ELSE UNCHANGED <<m_waiting, status>>
  /\ pc' = "idle"
  /\ seen' = [i \in SlotIds |-> EmptySlot]
  /\ UNCHANGED <<ready, session, ticket, slots, m_session, m_lastSerial,
                 m_request, m_replay, m_syncReady, index, submitted, clients,
                 history>>

\* The monitor arrived; m_lock keeps Sync out of Initialize and Process.
Sync ==
  /\ pc = "idle" /\ ~m_syncReady
  /\ m_syncReady' = TRUE
  /\ UNCHANGED <<memory, pc, m_session, m_lastSerial, m_request, m_replay,
                 m_waiting, index, seen, submitted, clients, history>>

\* The recovery hub reports on a request it was given, perhaps a stale one.
SetStatus(r, state) ==
  /\ pc = "idle" /\ OwnsSession
  /\ r.serial = m_lastSerial
  /\ r.active = (m_request = "RECOVERY")
  /\ state = "ACTIVE" => r.active
  /\ state = "NORMAL" => ~r.active
  /\ m_waiting' = FALSE
  /\ Publish(r.serial, m_request, state)
  /\ UNCHANGED <<ready, session, ticket, slots, pc, m_session, m_lastSerial,
                 m_request, m_replay, m_syncReady, index, seen, submitted,
                 clients, history>>

\* The steps of Initialize.
InitWindow == {"keep", "wipe", "header", "switching"}

\* The driver dies.  Inside Publish it leaves the status line unreadable.
Crash ==
  /\ \/ pc \in {"idle", "read", "select", "clear", "deadline"}
     \/ pc \in InitWindow /\ "init" \in CrashPoints
  /\ m_session < MaxSession
  /\ pc' = "dead"
  /\ status' \in {status} \cup
       IF "publish" \in CrashPoints /\ pc \in {"select", "deadline", "idle"}
         THEN {[status EXCEPT !.stable = FALSE]} ELSE {}
  /\ torn' = torn \cup (IF pc \in InitWindow THEN {"init"} ELSE {})
                  \cup (IF status' # status THEN {"publish"} ELSE {})
  /\ submitted' = {} /\ seen' = [i \in SlotIds |-> EmptySlot] /\ index' = 1
  /\ m_replay' = FALSE /\ m_waiting' = FALSE /\ m_syncReady' = FALSE
  /\ UNCHANGED <<ready, session, ticket, slots, m_session, m_lastSerial,
                 m_request, clients, history>>

-----------------------------------------------------------------------------
(* lgmp_requestRecovery, one observable access per step.                   *)

\* A snapshot of the header; "sent" is a client whose last request was posted.
Begin(c, mode) ==
  /\ cpc[c] \in {"idle", "sent"} /\ posted[c] < MaxRequests
  /\ ready /\ session # 0
  /\ header' = [header EXCEPT ![c] = session]
  /\ want' = [want EXCEPT ![c] = mode]
  /\ posted' = [posted EXCEPT ![c] = @ + 1]
  /\ cpc' = [cpc EXCEPT ![c] = "ticket"]
  /\ UNCHANGED <<memory, driver, mine, at, history>>

DrawTicket(c) ==
  /\ cpc[c] = "ticket" /\ drawn < MaxTickets
  /\ ticket' = NextTicket
  /\ mine' = [mine EXCEPT ![c] = NextTicket]
  /\ drawn' = drawn + 1
  /\ at' = [at EXCEPT ![c] = 1]
  /\ cpc' = [cpc EXCEPT ![c] = "claim"]
  /\ UNCHANGED <<ready, session, slots, status, driver, header, want, posted,
                 published, accepted>>

\* Compare and swap zero with the odd ticket, slot after slot.
Claim(c) ==
  /\ cpc[c] = "claim"
  /\ IF slots[at[c]].serial = 0
       THEN /\ slots' = [slots EXCEPT ![at[c]].serial = mine[c] + 1]
            /\ cpc' = [cpc EXCEPT ![c] = "request"]
            /\ UNCHANGED at
       ELSE /\ at' = [at EXCEPT ![c] = IF @ < Slots THEN @ + 1 ELSE 1]
            /\ cpc' = [cpc EXCEPT ![c] = IF at[c] < Slots THEN "claim" ELSE "idle"]
            /\ UNCHANGED slots
  /\ UNCHANGED <<ready, session, ticket, status, driver, header, mine, want,
                 posted, history>>

WriteRequest(c) ==
  /\ cpc[c] = "request"
  /\ slots' = [slots EXCEPT ![at[c]].request = want[c]]
  /\ cpc' = [cpc EXCEPT ![c] = "session"]
  /\ UNCHANGED <<ready, session, ticket, status, driver, header, mine, at,
                 want, posted, history>>

WriteSession(c) ==
  /\ cpc[c] = "session"
  /\ slots' = [slots EXCEPT ![at[c]].session = header[c]]
  /\ cpc' = [cpc EXCEPT ![c] = "recheck"]
  /\ UNCHANGED <<ready, session, ticket, status, driver, header, mine, at,
                 want, posted, history>>

Recheck(c) ==
  /\ cpc[c] = "recheck"
  /\ cpc' = [cpc EXCEPT ![c] = IF ready /\ session = header[c]
                                 THEN "publish" ELSE "release"]
  /\ UNCHANGED <<memory, driver, header, mine, at, want, posted, history>>

Release(c) ==
  /\ cpc[c] = "release"
  /\ slots' = IF slots[at[c]].serial = mine[c] + 1
                THEN [slots EXCEPT ![at[c]].serial = 0] ELSE slots
  /\ cpc' = [cpc EXCEPT ![c] = "idle"]
  /\ UNCHANGED <<ready, session, ticket, status, driver, header, mine, at,
                 want, posted, history>>

PublishRequest(c) ==
  /\ cpc[c] = "publish"
  /\ IF slots[at[c]].serial = mine[c] + 1
       THEN /\ slots' = [slots EXCEPT ![at[c]].serial = mine[c]]
            /\ published' = published \cup
                 {[serial |-> mine[c], request |-> want[c],
                   session |-> header[c]]}
            /\ cpc' = [cpc EXCEPT ![c] = "sent"]
       ELSE /\ cpc' = [cpc EXCEPT ![c] = "idle"]
            /\ UNCHANGED <<slots, published>>
  /\ UNCHANGED <<ready, session, ticket, status, driver, header, mine, at,
                 want, posted, accepted, drawn>>

\* The client process dies and another one takes its place.
Interrupt(c) ==
  /\ cpc[c] \in {"ticket", "claim", "request", "session", "recheck",
                 "publish", "release"}
  /\ cpc' = [cpc EXCEPT ![c] = "idle"]
  /\ UNCHANGED <<memory, driver, header, mine, at, want, posted, history>>

-----------------------------------------------------------------------------
Initialize == InitBegin \/ InitKeep \/ InitWipe \/ InitHeader \/ InitFinish
Process == \/ ProcessBegin \/ ProcessRead \/ ProcessSelect \/ ProcessClear
           \/ \E expired \in BOOLEAN : ProcessEnd(expired)
ClientStep(c) ==
  \/ DrawTicket(c) \/ Claim(c) \/ WriteRequest(c) \/ WriteSession(c)
  \/ Recheck(c) \/ Release(c) \/ PublishRequest(c)

Running ==
  \/ Initialize
  \/ Process
  \/ Sync
  \/ \E r \in submitted, state \in {"ACTIVE", "NORMAL", "FAILED"} :
       SetStatus(r, state)
  \/ \E c \in Clients, mode \in WireModes : Begin(c, mode)
  \/ \E c \in Clients : ClientStep(c) \/ Interrupt(c)

Next == (Running /\ UNCHANGED torn) \/ Crash

Spec == Init /\ [][Next]_vars

-----------------------------------------------------------------------------
(* Properties.                                                             *)

\* A published slot holds exactly what the writer of its serial meant: no
\* writer that was interrupted, or that slept through a driver restart, ever
\* writes into a slot another writer has claimed.
SlotIntegrity ==
  \A i \in SlotIds :
    (slots[i].serial # 0 /\ ~IsOdd(slots[i].serial)) => slots[i] \in published

\* SlotIntegrity holds as long as no driver has died inside Initialize.
SlotIntegrityKept == "init" \in torn \/ SlotIntegrity

\* Acknowledged up to the client's ticket.
Acked(c) == status.stable /\ (\/ status.ackSerial = mine[c]
                              \/ SerialNewer(status.ackSerial, mine[c]))

\* A client never sees its posted request gone from its slot while the status
\* still acknowledges something older, as long as the driver is the one it
\* addressed: the status is published before the slots are reclaimed.  (After
\* a death inside Initialize a slot may hold a mixed request, see SlotIntegrity.)
AckBeforeReclaim ==
  "init" \in torn \/ \A c \in Clients :
    (cpc[c] = "sent" /\ ready /\ session = header[c] /\ status.stable) =>
      slots[at[c]].serial = mine[c] \/ Acked(c)

\* A posted request is passed over only for a newer one that a client really
\* posted to this driver: the serial a new driver draws for its own first
\* status never outranks a request addressed to it.
NotOutranked ==
  \A c \in Clients :
    (/\ cpc[c] = "sent" /\ header[c] = m_session
     /\ pc \notin {"keep", "wipe", "header"}
     /\ ~SerialNewer(mine[c], m_lastSerial)) =>
       \E r \in published : r.session = m_session /\ r.serial = m_lastSerial

\* Within one driver session the acknowledged serial only moves forward.
AckMovesForward ==
  [][(ready /\ ready' /\ session' = session /\ status.stable /\ status'.stable) =>
       \/ status'.ackSerial = status.ackSerial
       \/ SerialNewer(status'.ackSerial, status.ackSerial)]_vars

\* A driver restart does not lose the mode: every driver, once it is up, works
\* towards the mode of the newest request a client got any driver to take,
\* provided that no driver has died inside Publish or Initialize.
ModeSurvivesRestart ==
  (torn = {} /\ pc \notin {"dead", "keep", "wipe"}) => m_request = accepted

=============================================================================

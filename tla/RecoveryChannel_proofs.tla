----------------------- MODULE RecoveryChannel_proofs -----------------------
(***************************************************************************)
(* The safety properties of RecoveryChannel, for every number of clients,  *)
(* slots, requests and driver restarts, with clients and drivers that die  *)
(* between any two accesses.  ChannelInv is the inductive invariant: as    *)
(* long as no driver has died inside Initialize,                           *)
(*   HeaderInv   the header names the driver that is up, and the status    *)
(*               what it took last;                                        *)
(*   ModeInv     the status keeps the mode taken last (until a driver dies *)
(*               inside Publish);                                          *)
(*   SlotInv     a writer finds its own claim and words in its slot, and   *)
(*               what Process has read stands until Process reclaims it;   *)
(*   TicketInv   no ticket is in use twice, and none in use is so old that *)
(*               SerialNewer would take it for a new one;                  *)
(*   AckInv      the status answers what has been reclaimed.               *)
(* A death inside Initialize makes the next driver wipe the region under   *)
(* writers at work, and everything from SlotInv on is then lost.           *)
(***************************************************************************)
EXTENDS RecoveryChannel, WellFoundedInduction, TLAPS

-----------------------------------------------------------------------------
(* Types.                                                                  *)

Requests   == WireModes \cup {"NONE"}
SlotRec    == [serial : Serials, request : Requests, session : Nat]
PostedRec  == [serial : Serials, request : WireModes, session : Nat]
States     == {"UNKNOWN", "NORMAL", "SWITCHING", "ACTIVE", "FAILED"}
StatusRec  == [stable : BOOLEAN, ackSerial : Serials, ackRequest : Requests,
               state : States, session : Nat]
Up         == {"idle", "read", "select", "clear", "deadline"}
ClientPcs  == {"idle", "ticket", "claim", "request", "session", "recheck", "publish", "release", "sent"}
Writing    == {"request", "session", "recheck", "publish", "release"}
Drawn      == Writing \cup {"claim", "sent"}
Tickets    == {x \in Serials : x % 2 = 0}

MemoryType ==
  /\ ready \in BOOLEAN /\ session \in Nat /\ ticket \in Tickets
  /\ slots \in [SlotIds -> SlotRec] /\ status \in StatusRec
DriverType ==
  /\ pc \in Up \cup InitWindow \cup {"dead"}
  /\ m_session \in Nat \ {0} /\ m_lastSerial \in Tickets /\ m_request \in Requests
  /\ m_replay \in BOOLEAN /\ m_waiting \in BOOLEAN /\ m_syncReady \in BOOLEAN
  /\ index \in 1 .. Slots + 1 /\ (pc \in Up \ {"idle"} => index \in SlotIds)
  /\ seen \in [SlotIds -> SlotRec]
  /\ submitted \subseteq [serial : Tickets, active : BOOLEAN]
ClientType ==
  /\ cpc \in [Clients -> ClientPcs] /\ header \in [Clients -> Nat]
  /\ mine \in [Clients -> Tickets] /\ at \in [Clients -> SlotIds]
  /\ want \in [Clients -> WireModes] /\ posted \in [Clients -> Nat]
HistoryType ==
  /\ published \subseteq PostedRec /\ accepted \in Requests
  /\ drawn \in 0 .. MaxTickets + 1 /\ (pc \in {"keep", "wipe", "header"} => drawn <= MaxTickets)
  /\ torn \subseteq {"init", "publish"}
\* What was read is even: Process takes no slot that is being written.
SeenEven == \A i \in SlotIds : seen[i].serial % 2 = 0
TypeOK == MemoryType /\ DriverType /\ ClientType /\ HistoryType /\ SeenEven

-----------------------------------------------------------------------------
HeaderInv ==
  /\ ready => pc \in Up \cup {"dead"} /\ session = m_session
  /\ pc \in Up => ready
  /\ pc = "switching" => session = m_session
  /\ ready /\ status.stable => status.ackSerial = m_lastSerial /\ status.session = m_session
  /\ (pc = "dead" /\ ~ready) \/ pc = "wipe" => "init" \in torn
  /\ \A c \in Clients : header[c] <= m_session /\ (pc = "switching" => header[c] < m_session)

ModeInv ==
  torn = {} =>
    /\ pc # "dead" => m_request = accepted
    /\ accepted \in WireModes
    /\ ready => /\ status.stable /\ status.ackRequest = accepted
                /\ accepted = "RECOVERY" => status.state \in {"SWITCHING", "ACTIVE", "FAILED"}

\* Process has yet to reclaim slot i.
Unreclaimed(i) == pc \in {"read", "select"} \/ (pc = "clear" /\ i >= index)

\* A client that holds a slot finds there its own claim and what it wrote.
OwnSlot == \A c \in Clients : cpc[c] \in Writing => slots[at[c]].serial = mine[c] + 1
OwnRequest ==
  \A c \in Clients : cpc[c] \in {"session", "recheck", "publish"} => slots[at[c]].request = want[c]
OwnSession ==
  \A c \in Clients : cpc[c] \in {"recheck", "publish"} => slots[at[c]].session = header[c]
OneWriter ==
  \A c, d \in Clients : c # d /\ cpc[c] \in Writing /\ cpc[d] \in Writing => at[c] # at[d]
RealTicket == \A c \in Clients : cpc[c] \in Drawn => mine[c] # 0
\* What Process read was posted, and stands until Process reclaims it.
SeenPosted == \A i \in SlotIds : seen[i].serial # 0 => seen[i] \in published
SeenStands == \A i \in SlotIds : seen[i].serial # 0 /\ Unreclaimed(i) => slots[i] = seen[i]
SlotInv == /\ SlotIntegrity /\ OwnSlot /\ OwnRequest /\ OwnSession /\ OneWriter
           /\ RealTicket /\ SeenPosted /\ SeenStands

Gap(s, r) == IF s >= r THEN s - r ELSE s - r + SERIAL_MOD
TicketOf(x) == IF IsOdd(x) THEN x - 1 ELSE x
Recent(x) == Gap(ticket, x) <= 4 * drawn
\* No serial in use is old enough to be mistaken for a new one.
SerialsRecent ==
  /\ Recent(m_lastSerial)
  /\ \A c \in Clients : cpc[c] \in Drawn => Recent(mine[c])
  /\ \A i \in SlotIds : slots[i].serial # 0 => Recent(TicketOf(slots[i].serial))
  /\ \A i \in SlotIds : seen[i].serial # 0 => Recent(seen[i].serial)
\* No ticket is in use twice.
TicketsDiffer ==
  /\ \A c, d \in Clients : c # d /\ cpc[c] \in Drawn /\ cpc[d] \in Drawn => mine[c] # mine[d]
  /\ \A i, j \in SlotIds : i # j /\ slots[i].serial # 0 /\ slots[j].serial # 0 =>
       TicketOf(slots[i].serial) # TicketOf(slots[j].serial)
  /\ \A c \in Clients, i \in SlotIds : cpc[c] = "claim" /\ slots[i].serial # 0 =>
       TicketOf(slots[i].serial) # mine[c]
TicketInv == SerialsRecent /\ TicketsDiffer

NotOlder(x) == x = m_lastSerial \/ SerialNewer(m_lastSerial, x)
\* Before Process reclaims, the status answers every request it has read.
Answered ==
  pc = "clear" => \A i \in SlotIds :
    seen[i].serial # 0 /\ seen[i].session = m_session => NotOlder(seen[i].serial)
SentSession ==
  \A c \in Clients : cpc[c] = "sent" /\ slots[at[c]].serial = mine[c] => slots[at[c]].session = header[c]
SentOrAnswered ==
  \A c \in Clients : cpc[c] = "sent" /\ ready /\ session = header[c] =>
    slots[at[c]].serial = mine[c] \/ NotOlder(mine[c])
\* The serial last taken is a client's, or the one the driver drew at its start.
Ranked ==
  pc \notin {"keep", "wipe", "header"} =>
    \/ \E r \in published : r.session = m_session /\ r.serial = m_lastSerial
    \/ \A c \in Clients : header[c] = m_session /\ cpc[c] \in Drawn => SerialNewer(mine[c], m_lastSerial)
AckInv == Answered /\ SentSession /\ SentOrAnswered /\ Ranked

-----------------------------------------------------------------------------
(* Serial arithmetic.                                                      *)

\* The distance of two serials, modulo the width.
LEMMA GapIsDifference ==
  ASSUME NEW s \in Serials, NEW r \in Serials
  PROVE  /\ (s - r) % SERIAL_MOD = Gap(s, r)
         /\ Gap(s, r) \in Nat /\ Gap(s, r) < SERIAL_MOD
<1>1. SERIAL_MOD \in Nat \ {0}
  BY ChannelConstants
<1> QED BY <1>1 DEF Serials, Gap

\* SerialNewer by the distance.
LEMMA NewerByGap ==
  ASSUME NEW s \in Serials, NEW r \in Serials
  PROVE  SerialNewer(s, r) <=> Gap(s, r) # 0 /\ 2 * Gap(s, r) < SERIAL_MOD
BY GapIsDifference DEF SerialNewer

\* The next ticket is even, not zero, and two or, across zero, four ahead.
LEMMA NextTicketFact ==
  ASSUME ticket \in Tickets
  PROVE  /\ NextTicket = IF ticket + 2 = SERIAL_MOD THEN 2 ELSE ticket + 2
         /\ NextTicket \in Tickets /\ NextTicket # 0
<1>1. /\ ticket \in Nat /\ ticket < SERIAL_MOD /\ ticket % 2 = 0 /\ SERIAL_MOD \in Nat
      /\ SERIAL_MOD % 4 = 0 /\ SERIAL_MOD > 4
  BY ChannelConstants DEF Tickets, Serials
<1>2. ticket + 2 <= SERIAL_MOD
  BY <1>1
<1>3. NextTicket = IF ticket + 2 = SERIAL_MOD THEN 2 ELSE ticket + 2
  BY <1>1, <1>2 DEF NextTicket
<1> QED BY <1>1, <1>2, <1>3 DEF Tickets, Serials

\* A claimed serial is odd and in range.
LEMMA ClaimedSerial ==
  ASSUME NEW x \in Tickets
  PROVE  /\ x + 1 \in Serials /\ IsOdd(x + 1) /\ ~IsOdd(x) /\ x + 1 # 0 /\ TicketOf(x + 1) = x /\ TicketOf(x) = x
<1>1. SERIAL_MOD \in Nat /\ SERIAL_MOD % 4 = 0 /\ x \in Nat /\ x < SERIAL_MOD /\ x % 2 = 0
  BY ChannelConstants DEF Tickets, Serials
<1>2. x + 1 < SERIAL_MOD /\ (x + 1) % 2 = 1
  BY <1>1
<1> QED BY <1>1, <1>2 DEF Serials, IsOdd, TicketOf

\* One word of one slot is written.
SerialSet(i, v)  == slots' = [slots EXCEPT ![i].serial = v]
RequestSet(i, v) == slots' = [slots EXCEPT ![i].request = v]
SessionSet(i, v) == slots' = [slots EXCEPT ![i].session = v]
OtherSlots(i) == \A j \in SlotIds : j # i => slots'[j] = slots[j]

\* Writing the serial of a slot.
LEMMA SerialSetFact ==
  ASSUME slots \in [SlotIds -> SlotRec], NEW i \in SlotIds, NEW v \in Serials, SerialSet(i, v)
  PROVE  /\ slots' \in [SlotIds -> SlotRec] /\ OtherSlots(i) /\ slots'[i].serial = v
         /\ slots'[i].request = slots[i].request /\ slots'[i].session = slots[i].session
BY DEF SerialSet, SlotRec, OtherSlots

\* Writing the request of a slot.
LEMMA RequestSetFact ==
  ASSUME slots \in [SlotIds -> SlotRec], NEW i \in SlotIds, NEW v \in Requests, RequestSet(i, v)
  PROVE  /\ slots' \in [SlotIds -> SlotRec] /\ OtherSlots(i) /\ slots'[i].request = v
         /\ slots'[i].serial = slots[i].serial /\ slots'[i].session = slots[i].session
BY DEF RequestSet, SlotRec, OtherSlots

\* Writing the session of a slot.
LEMMA SessionSetFact ==
  ASSUME slots \in [SlotIds -> SlotRec], NEW i \in SlotIds, NEW v \in Nat, SessionSet(i, v)
  PROVE  /\ slots' \in [SlotIds -> SlotRec] /\ OtherSlots(i) /\ slots'[i].session = v
         /\ slots'[i].serial = slots[i].serial /\ slots'[i].request = slots[i].request
BY DEF SessionSet, SlotRec, OtherSlots

\* What the resets of the code assign is well typed.
LEMMA DefaultsType ==
  /\ EmptySlot \in SlotRec /\ EmptySlot.serial = 0 /\ ZeroStatus \in StatusRec /\ ~ZeroStatus.stable
  /\ 0 \in Serials /\ 0 \in Tickets /\ 1 \in SlotIds /\ WireModes \subseteq Requests
BY ChannelConstants
DEF EmptySlot, SlotRec, ZeroStatus, StatusRec, Serials, Tickets, SlotIds, Requests, WireModes, States

\* What a stable read of a slot returns.
LEMMA ReadFact ==
  ASSUME slots \in [SlotIds -> SlotRec], NEW i \in SlotIds
  PROVE  /\ ReadRequest(i) \in SlotRec /\ ReadRequest(i).serial % 2 = 0
         /\ ReadRequest(i).serial # 0 => /\ ReadRequest(i) = slots[i] /\ ~IsOdd(slots[i].serial)
                                         /\ slots[i].serial # 0
         /\ ReadRequest(i) # EmptySlot => slots[i].serial # 0 /\ ~IsOdd(slots[i].serial)
<1>1. slots[i] \in SlotRec /\ slots[i].serial \in Serials
  BY DEF SlotRec
<1>2. slots[i].serial \in Nat
  BY <1>1 DEF Serials
<1> QED BY <1>1, <1>2, DefaultsType DEF ReadRequest, IsOdd

\* The status line that Publish writes.
LEMMA PublishFact ==
  ASSUME NEW s \in Serials, NEW r \in Requests, NEW t \in States, m_session \in Nat, Publish(s, r, t)
  PROVE  /\ status' \in StatusRec /\ status'.stable /\ status'.ackSerial = s
         /\ status'.ackRequest = r /\ status'.state = t /\ status'.session = m_session
BY DEF Publish, StatusRec

\* The newest request is one of the candidates.
LEMMA NewestFact ==
  ASSUME NEW S, \E i \in S : \A j \in S \ {i} : SerialNewer(seen[i].serial, seen[j].serial)
  PROVE  /\ Newest(S) \in S
         /\ \A j \in S \ {Newest(S)} : SerialNewer(seen[Newest(S)].serial, seen[j].serial)
BY DEF Newest

\* Every non-empty set of naturals has a least element.
LEMMA LeastExists ==
  ASSUME NEW S, S \subseteq Nat, S # {}
  PROVE  \E x \in S : \A y \in S : x <= y
<1> DEFINE R == OpToRel(<, Nat)
<1>1. IsWellFoundedOn(R, Nat)
  BY NatLessThanWellFounded
<1>2. PICK x \in S : \A y \in S : ~(<<y, x>> \in R)
  <2> HIDE DEF R
  <2> QED BY <1>1, WFMin
<1>3. ASSUME NEW y \in S PROVE x <= y
  <2>1. x \in Nat /\ y \in Nat /\ ~(<<y, x>> \in R)
    BY <1>2
  <2> QED BY <2>1 DEF OpToRel
<1> QED BY <1>3

\* Of two serials not long ago drawn, the one drawn later is the newer one.
LEMMA NewerByAge ==
  ASSUME TypeOK, NEW s \in Serials, NEW r \in Serials, Recent(s), Recent(r)
  PROVE  /\ SerialNewer(s, r) <=> Gap(ticket, s) < Gap(ticket, r)
         /\ s # r => Gap(ticket, s) # Gap(ticket, r)
         /\ Gap(ticket, s) \in Nat
<1>1. ticket \in Nat /\ s \in Nat /\ r \in Nat /\ SERIAL_MOD \in Nat
      /\ ticket < SERIAL_MOD /\ s < SERIAL_MOD /\ r < SERIAL_MOD
      /\ drawn \in Nat /\ 8 * drawn < SERIAL_MOD
  BY ChannelConstants DEF TypeOK, MemoryType, HistoryType, Tickets, Serials
<1>2. Gap(ticket, s) <= 4 * drawn /\ Gap(ticket, r) <= 4 * drawn
  BY DEF Recent
<1>3. SerialNewer(s, r) <=> Gap(s, r) # 0 /\ 2 * Gap(s, r) < SERIAL_MOD
  BY NewerByGap
<1> QED BY <1>1, <1>2, <1>3 DEF Gap

\* The slots that Process has read are those the memory still holds, so their
\* serials differ, and one of the candidates is newer than all the others.
LEMMA NewestExists ==
  ASSUME TypeOK, SlotInv, TicketInv, pc = "select", Candidates # {}
  PROVE  /\ Newest(Candidates) \in Candidates
         /\ \A j \in Candidates \ {Newest(Candidates)} :
              SerialNewer(seen[Newest(Candidates)].serial, seen[j].serial)
<1> DEFINE S == Candidates
           A == {Gap(ticket, seen[i].serial) : i \in S}
<1>1. ASSUME NEW i \in S
      PROVE  /\ i \in SlotIds /\ seen[i].serial \in Serials /\ Recent(seen[i].serial)
             /\ Gap(ticket, seen[i].serial) \in Nat /\ slots[i] = seen[i] /\ seen[i].serial # 0
             /\ TicketOf(seen[i].serial) = seen[i].serial
  <2>1. i \in SlotIds /\ seen[i].serial # 0 /\ seen[i] \in SlotRec
    BY DEF Candidates, TypeOK, DriverType
  <2>2. seen[i].serial \in Serials
    BY <2>1 DEF SlotRec
  <2>3. Recent(seen[i].serial)
    BY <2>1 DEF TicketInv, SerialsRecent
  <2>4. slots[i] = seen[i]
    BY <2>1 DEF SlotInv, SeenStands, Unreclaimed
  <2>5. seen[i].serial \in Tickets
    BY <2>1, <2>2 DEF TypeOK, SeenEven, Tickets
  <2> QED BY <2>1, <2>2, <2>3, <2>4, <2>5, NewerByAge, ClaimedSerial
<1>2. ASSUME NEW i \in S, NEW j \in S, i # j PROVE seen[i].serial # seen[j].serial
  <2>1. i \in SlotIds /\ j \in SlotIds /\ slots[i].serial # 0 /\ slots[j].serial # 0
    BY <1>1
  <2>2. TicketOf(slots[i].serial) # TicketOf(slots[j].serial)
    BY <1>2, <2>1 DEF TicketInv, TicketsDiffer
  <2> QED BY <2>2, <1>1
<1>3. A \subseteq Nat /\ A # {}
  BY <1>1
<1>4. PICK a \in A : \A b \in A : a <= b
  BY <1>3, LeastExists
<1>5. PICK i \in S : a = Gap(ticket, seen[i].serial)
  OBVIOUS
<1>6. ASSUME NEW j \in S \ {i} PROVE SerialNewer(seen[i].serial, seen[j].serial)
  <2>1. j \in S /\ seen[i].serial # seen[j].serial
    BY <1>2
  <2>2. a <= Gap(ticket, seen[j].serial)
    BY <1>4, <2>1
  <2>3. Gap(ticket, seen[i].serial) # Gap(ticket, seen[j].serial)
    BY <2>1, <1>1, NewerByAge
  <2>4. Gap(ticket, seen[i].serial) < Gap(ticket, seen[j].serial)
    BY <2>2, <2>3, <1>5, <1>1, <2>1
  <2> QED BY <2>4, <2>1, <1>1, NewerByAge
<1> HIDE DEF S
<1> QED BY <1>6, NewestFact DEF S

-----------------------------------------------------------------------------
(* The types hold after every step.                                        *)

Good == TypeOK /\ HeaderInv /\ ModeInv /\ SlotInv /\ TicketInv /\ AckInv

\* A driver that is up, or that starts.
LEMMA DriverTypes ==
  ASSUME TypeOK, InitBegin \/ InitKeep \/ InitHeader \/ InitFinish, UNCHANGED torn
  PROVE  TypeOK'
<1> USE DEF TypeOK, SeenEven
<1>0. Slots \in Nat /\ 1 \in SlotIds /\ SlotIds = 1..Slots
  BY ChannelConstants DEF SlotIds
<1>1. CASE InitBegin
  <2>1. RetainedRequest \in Requests
    BY DEF RetainedRequest, Requests, WireModes, StatusRec, MemoryType
  <2>2. MemoryType'
    BY <1>1 DEF InitBegin, MemoryType
  <2>3. DriverType'
    BY <1>1, <1>0, <2>1, DefaultsType DEF InitBegin, DriverType, InitWindow, Up, Requests, WireModes
  <2>4. ClientType'
    BY <1>1 DEF InitBegin, ClientType, clients
  <2>5. HistoryType'
    BY <1>1, ChannelConstants DEF InitBegin, HistoryType, history
  <2>6. SeenEven'
    BY <1>1, DefaultsType DEF InitBegin
  <2> QED BY <2>2, <2>3, <2>4, <2>5, <2>6
<1>2. CASE InitKeep
  <2>1. slots' \in [SlotIds -> SlotRec]
    <3>1. CASE index <= Slots
      <4>1. slots' = [slots EXCEPT ![index] =
                 IF ReadRequest(index) # EmptySlot THEN [@ EXCEPT !.serial = 0] ELSE @]
        BY <1>2, <3>1 DEF InitKeep
      <4>2. index \in SlotIds
        BY <1>0, <3>1 DEF DriverType
      <4>3. SerialSet(index, 0) \/ slots' = slots
        BY <4>1, <4>2 DEF SerialSet, MemoryType
      <4> QED BY <4>2, <4>3, SerialSetFact, DefaultsType DEF MemoryType
    <3>2. CASE ~(index <= Slots)
      BY <1>2, <3>2 DEF InitKeep, MemoryType
    <3> QED BY <3>1, <3>2
  <2>2. MemoryType'
    BY <1>2, <2>1, DefaultsType DEF InitKeep, MemoryType
  <2>3. DriverType'
    BY <1>2, <1>0 DEF InitKeep, DriverType, InitWindow, Up
  <2>4. ClientType'
    BY <1>2 DEF InitKeep, ClientType, clients
  <2>5. HistoryType'
    BY <1>2 DEF InitKeep, HistoryType, history
  <2>6. SeenEven'
    BY <1>2 DEF InitKeep
  <2> QED BY <2>2, <2>3, <2>4, <2>5, <2>6
<1>3. CASE InitHeader
  <2>1. NextTicket \in Tickets
    BY NextTicketFact DEF MemoryType
  <2>2. MemoryType'
    BY <1>3, <2>1 DEF InitHeader, MemoryType, DriverType
  <2>3. DriverType'
    <3>1. m_session' \in Nat \ {0} /\ m_lastSerial' \in Tickets /\ submitted' = {}
      BY <1>3, <2>1 DEF InitHeader, DriverType
    <3> QED BY <1>3, <3>1 DEF InitHeader, DriverType, InitWindow, Up
  <2>4. ClientType'
    BY <1>3 DEF InitHeader, ClientType, clients
  <2>5. HistoryType'
    BY <1>3, ChannelConstants DEF InitHeader, HistoryType
  <2>6. SeenEven'
    BY <1>3 DEF InitHeader
  <2> QED BY <2>2, <2>3, <2>4, <2>5, <2>6
<1>4. CASE InitFinish
  <2>1. status' \in StatusRec
    BY <1>4, PublishFact DEF InitFinish, DriverType, Tickets, States
  <2>2. MemoryType'
    BY <1>4, <2>1 DEF InitFinish, MemoryType
  <2>3. DriverType'
    BY <1>4, <1>0 DEF InitFinish, DriverType, InitWindow, Up
  <2>4. ClientType'
    BY <1>4 DEF InitFinish, ClientType, clients
  <2>5. HistoryType'
    BY <1>4 DEF InitFinish, HistoryType, history
  <2>6. SeenEven'
    BY <1>4 DEF InitFinish
  <2> QED BY <2>2, <2>3, <2>4, <2>5, <2>6
<1> QED BY <1>1, <1>2, <1>3, <1>4

\* A running driver.
LEMMA ProcessTypes ==
  ASSUME TypeOK, SlotInv, TicketInv, UNCHANGED torn, Process
  PROVE  TypeOK'
<1> USE DEF TypeOK, SeenEven
<1>0. Slots \in Nat /\ 1 \in SlotIds /\ SlotIds = 1..Slots
  BY ChannelConstants DEF SlotIds
<1>1. CASE ProcessBegin
  <2>1. MemoryType'
    BY <1>1 DEF ProcessBegin, MemoryType, memory
  <2>2. DriverType'
    BY <1>1, <1>0, DefaultsType DEF ProcessBegin, DriverType, InitWindow, Up
  <2>3. ClientType' /\ HistoryType' /\ SeenEven'
    BY <1>1, DefaultsType DEF ProcessBegin, ClientType, HistoryType, clients, history
  <2> QED BY <2>1, <2>2, <2>3
<1>2. CASE ProcessRead
  <2>0. index \in SlotIds
    BY <1>2 DEF ProcessRead, DriverType, Up
  <2>1. MemoryType'
    BY <1>2 DEF ProcessRead, MemoryType, memory
  <2>2. ReadRequest(index) \in SlotRec /\ ReadRequest(index).serial % 2 = 0
    BY <2>0, ReadFact DEF MemoryType
  <2>3. seen' \in [SlotIds -> SlotRec] /\ SeenEven'
    BY <1>2, <2>0, <2>2 DEF ProcessRead, DriverType
  <2>4. DriverType'
    BY <1>2, <1>0, <2>0, <2>3 DEF ProcessRead, DriverType, InitWindow, Up
  <2>5. ClientType' /\ HistoryType'
    BY <1>2 DEF ProcessRead, ClientType, HistoryType, clients, history
  <2> QED BY <2>1, <2>3, <2>4, <2>5
<1>3. CASE ProcessSelect
  <2>1. CASE TakeRequest
    <3> DEFINE k == Newest(Candidates)
    <3>1. k \in SlotIds
      BY <1>3, <2>1, NewestExists, Zenon DEF ProcessSelect, TakeRequest, Candidates
    <3>2. seen[k] \in SlotRec /\ seen[k].serial % 2 = 0
      BY <3>1 DEF DriverType
    <3>3. seen[k].serial \in Tickets /\ seen[k].request \in Requests
      BY <3>2 DEF SlotRec, Tickets
    <3>4. /\ m_lastSerial' = seen[k].serial /\ m_request' = seen[k].request
          /\ m_replay' = (seen[k].request = "NORMAL" /\ ~m_syncReady)
          /\ m_waiting' = ~(seen[k].request = "NORMAL" /\ ~m_syncReady)
          /\ submitted' \subseteq submitted \cup {Submission(seen[k].serial, seen[k].request)}
          /\ Publish(seen[k].serial, seen[k].request, "SWITCHING") /\ accepted' = seen[k].request
      BY <2>1 DEF TakeRequest
    <3> HIDE DEF k
    <3>5. status' \in StatusRec
      BY <3>3, <3>4, PublishFact DEF DriverType, States, Tickets
    <3>6. MemoryType'
      BY <1>3, <3>5 DEF ProcessSelect, MemoryType
    <3>7. Submission(seen[k].serial, seen[k].request) \in [serial : Tickets, active : BOOLEAN]
      BY <3>3 DEF Submission
    <3>8. submitted' \subseteq [serial : Tickets, active : BOOLEAN]
      BY <3>4, <3>7 DEF DriverType
    <3>9. m_replay' \in BOOLEAN /\ m_waiting' \in BOOLEAN
      BY <3>4
    <3>10. DriverType'
      BY <1>3, <3>3, <3>4, <3>8, <3>9 DEF ProcessSelect, DriverType, InitWindow, Up
    <3>11. ClientType' /\ HistoryType' /\ SeenEven'
      BY <1>3, <3>3, <3>4 DEF ProcessSelect, ClientType, HistoryType, clients
    <3> QED BY <3>6, <3>10, <3>11
  <2>2. CASE Replay \/ NothingNew
    <3>1. MemoryType'
      BY <1>3, <2>2 DEF ProcessSelect, Replay, NothingNew, MemoryType
    <3>2. Submission(m_lastSerial, m_request) \in [serial : Tickets, active : BOOLEAN]
      BY DEF Submission, DriverType
    <3>3. submitted' \subseteq submitted \cup {Submission(m_lastSerial, m_request)}
      BY <2>2 DEF Replay, NothingNew
    <3>4. submitted' \subseteq [serial : Tickets, active : BOOLEAN]
      BY <3>2, <3>3 DEF DriverType
    <3>5. m_replay' \in BOOLEAN /\ m_waiting' \in BOOLEAN /\ UNCHANGED <<m_lastSerial, m_request, accepted>>
      BY <2>2 DEF Replay, NothingNew, DriverType
    <3>6. DriverType'
      BY <1>3, <3>4, <3>5 DEF ProcessSelect, DriverType, InitWindow, Up
    <3>7. ClientType' /\ HistoryType' /\ SeenEven'
      BY <1>3, <3>5 DEF ProcessSelect, ClientType, HistoryType, clients
    <3> QED BY <3>1, <3>6, <3>7
  <2> QED BY <1>3, <2>1, <2>2, Zenon DEF ProcessSelect
<1>4. CASE ProcessClear
  <2>0. index \in SlotIds
    BY <1>4 DEF ProcessClear, DriverType, Up
  <2>1. SerialSet(index, 0) \/ slots' = slots
    BY <1>4 DEF ProcessClear, SerialSet
  <2>2. slots' \in [SlotIds -> SlotRec]
    BY <2>0, <2>1, SerialSetFact, DefaultsType DEF MemoryType
  <2>3. MemoryType'
    BY <1>4, <2>2 DEF ProcessClear, MemoryType
  <2>4. DriverType'
    BY <1>4, <1>0, <2>0 DEF ProcessClear, DriverType, InitWindow, Up
  <2>5. ClientType' /\ HistoryType' /\ SeenEven'
    BY <1>4 DEF ProcessClear, ClientType, HistoryType, clients, history
  <2> QED BY <2>3, <2>4, <2>5
<1>5. ASSUME NEW expired \in BOOLEAN, ProcessEnd(expired) PROVE TypeOK'
  <2>1. status' \in StatusRec /\ m_waiting' \in BOOLEAN
    <3>1. CASE expired
      BY <1>5, <3>1, PublishFact DEF ProcessEnd, DriverType, Tickets, States
    <3>2. CASE ~expired
      BY <1>5, <3>2 DEF ProcessEnd, DriverType, MemoryType
    <3> QED BY <3>1, <3>2
  <2>2. MemoryType'
    BY <1>5, <2>1 DEF ProcessEnd, MemoryType
  <2>3. DriverType'
    BY <1>5, <2>1, DefaultsType DEF ProcessEnd, DriverType, InitWindow, Up
  <2>4. ClientType' /\ HistoryType' /\ SeenEven'
    BY <1>5, DefaultsType DEF ProcessEnd, ClientType, HistoryType, clients, history
  <2> QED BY <2>2, <2>3, <2>4
<1> QED BY <1>1, <1>2, <1>3, <1>4, <1>5 DEF Process

\* The driver's other calls, and its death.
LEMMA OtherTypes ==
  ASSUME TypeOK,
         \/ UNCHANGED torn /\ (Sync \/ \E r \in submitted, state \in {"ACTIVE", "NORMAL", "FAILED"} :
                                          SetStatus(r, state))
         \/ Crash
  PROVE  TypeOK'
<1> USE DEF TypeOK, SeenEven
<1>0. Slots \in Nat /\ 1 \in SlotIds /\ SlotIds = 1..Slots
  BY ChannelConstants DEF SlotIds
<1>1. CASE UNCHANGED torn /\ Sync
  <2>1. MemoryType' /\ ClientType'
    BY <1>1 DEF Sync, MemoryType, ClientType, memory, clients
  <2>2. DriverType'
    BY <1>1 DEF Sync, DriverType
  <2>3. HistoryType' /\ SeenEven'
    BY <1>1 DEF Sync, HistoryType, history
  <2> QED BY <2>1, <2>2, <2>3
<1>2. ASSUME UNCHANGED torn, NEW r \in submitted, NEW state \in {"ACTIVE", "NORMAL", "FAILED"}, SetStatus(r, state)
      PROVE  TypeOK'
  <2>1. status' \in StatusRec
    BY <1>2, PublishFact DEF SetStatus, DriverType, Tickets, States
  <2>2. MemoryType'
    BY <1>2, <2>1 DEF SetStatus, MemoryType
  <2>3. DriverType'
    BY <1>2 DEF SetStatus, DriverType
  <2>4. ClientType' /\ HistoryType' /\ SeenEven'
    BY <1>2 DEF SetStatus, ClientType, HistoryType, clients, history
  <2> QED BY <2>2, <2>3, <2>4
<1>3. CASE Crash
  <2>1. status' \in {status, [status EXCEPT !.stable = FALSE]}
    BY <1>3 DEF Crash
  <2>2. status' \in StatusRec
    BY <2>1 DEF MemoryType, StatusRec
  <2>3. MemoryType'
    BY <1>3, <2>2 DEF Crash, MemoryType
  <2>4. DriverType'
    <3>1. /\ submitted' = {} /\ seen' = [i \in SlotIds |-> EmptySlot] /\ index' = 1 /\ pc' = "dead"
          /\ ~m_replay' /\ m_replay' \in BOOLEAN /\ m_waiting' \in BOOLEAN /\ m_syncReady' \in BOOLEAN
          /\ UNCHANGED <<m_session, m_lastSerial, m_request>>
      BY <1>3 DEF Crash
    <3>2. index' \in 1 .. Slots + 1 /\ seen' \in [SlotIds -> SlotRec]
      BY <1>0, <3>1, DefaultsType
    <3> QED BY <3>1, <3>2 DEF DriverType, Up
  <2>5. torn' \subseteq {"init", "publish"}
    BY <1>3 DEF Crash, HistoryType
  <2>6. ClientType' /\ HistoryType' /\ SeenEven'
    BY <1>3, <2>5, DefaultsType DEF Crash, ClientType, HistoryType, clients, history
  <2> QED BY <2>3, <2>4, <2>6
<1> QED BY <1>1, <1>2, <1>3

\* A client.
LEMMA ClientTypes ==
  ASSUME TypeOK, UNCHANGED torn, NEW c \in Clients,
         (\E mode \in WireModes : Begin(c, mode)) \/ ClientStep(c) \/ Interrupt(c)
  PROVE  TypeOK'
<1> USE DEF TypeOK, SeenEven
<1>0. Slots \in Nat /\ 1 \in SlotIds /\ SlotIds = 1..Slots
  BY ChannelConstants DEF SlotIds
<1>1. ASSUME NEW mode \in WireModes, Begin(c, mode) PROVE TypeOK'
  <2>1. MemoryType' /\ DriverType' /\ SeenEven'
    BY <1>1 DEF Begin, MemoryType, DriverType, memory, driver
  <2>2. ClientType'
    BY <1>1 DEF Begin, ClientType, MemoryType, ClientPcs
  <2>3. HistoryType'
    BY <1>1 DEF Begin, HistoryType, driver, history
  <2> QED BY <2>1, <2>2, <2>3
<1>2. CASE DrawTicket(c)
  <2>0. NextTicket \in Tickets
    BY NextTicketFact DEF MemoryType
  <2>1. MemoryType' /\ DriverType' /\ SeenEven'
    BY <1>2, <2>0 DEF DrawTicket, MemoryType, DriverType, driver
  <2>2. ClientType'
    BY <1>2, <1>0, <2>0 DEF DrawTicket, ClientType, ClientPcs
  <2>3. HistoryType'
    BY <1>2, ChannelConstants DEF DrawTicket, HistoryType, driver
  <2> QED BY <2>1, <2>2, <2>3
<1>3. CASE Claim(c)
  <2>1. at[c] \in SlotIds /\ mine[c] + 1 \in Serials
    BY ClaimedSerial DEF ClientType
  <2>2. slots' \in [SlotIds -> SlotRec]
    <3>1. SerialSet(at[c], mine[c] + 1) \/ slots' = slots
      BY <1>3 DEF Claim, SerialSet
    <3> QED BY <2>1, <3>1, SerialSetFact DEF MemoryType
  <2>3. MemoryType' /\ DriverType' /\ SeenEven'
    BY <1>3, <2>2 DEF Claim, MemoryType, DriverType, driver
  <2>4. ClientType'
    <3>1. at' \in [Clients -> SlotIds]
      <4>1. (IF at[c] < Slots THEN at[c] + 1 ELSE 1) \in SlotIds
        BY <1>0, <2>1
      <4> QED BY <1>3, <4>1 DEF Claim, ClientType
    <3>2. cpc' \in [Clients -> ClientPcs]
      BY <1>3 DEF Claim, ClientType, ClientPcs
    <3> QED BY <1>3, <3>1, <3>2 DEF Claim, ClientType
  <2>5. HistoryType'
    BY <1>3 DEF Claim, HistoryType, driver, history
  <2> QED BY <2>3, <2>4, <2>5
<1>4. CASE WriteRequest(c) \/ WriteSession(c)
  <2>1. slots' \in [SlotIds -> SlotRec]
    <3>1. RequestSet(at[c], want[c]) \/ SessionSet(at[c], header[c])
      BY <1>4 DEF WriteRequest, WriteSession, RequestSet, SessionSet
    <3>2. at[c] \in SlotIds /\ want[c] \in Requests /\ header[c] \in Nat
      BY DefaultsType DEF ClientType
    <3> QED BY <3>1, <3>2, RequestSetFact, SessionSetFact DEF MemoryType
  <2>2. MemoryType' /\ DriverType' /\ SeenEven'
    BY <1>4, <2>1 DEF WriteRequest, WriteSession, MemoryType, DriverType, driver
  <2>3. ClientType'
    BY <1>4 DEF WriteRequest, WriteSession, ClientType, ClientPcs
  <2>4. HistoryType'
    BY <1>4 DEF WriteRequest, WriteSession, HistoryType, driver, history
  <2> QED BY <2>2, <2>3, <2>4
<1>5. CASE Recheck(c) \/ Interrupt(c)
  <2>1. MemoryType' /\ DriverType' /\ SeenEven'
    BY <1>5 DEF Recheck, Interrupt, MemoryType, DriverType, memory, driver
  <2>2. ClientType'
    BY <1>5 DEF Recheck, Interrupt, ClientType, ClientPcs
  <2>3. HistoryType'
    BY <1>5 DEF Recheck, Interrupt, HistoryType, driver, history
  <2> QED BY <2>1, <2>2, <2>3
<1>6. CASE Release(c)
  <2>1. SerialSet(at[c], 0) \/ slots' = slots
    BY <1>6 DEF Release, SerialSet
  <2>2. slots' \in [SlotIds -> SlotRec]
    BY <2>1, SerialSetFact, DefaultsType DEF MemoryType, ClientType
  <2>3. MemoryType' /\ DriverType' /\ SeenEven'
    BY <1>6, <2>2 DEF Release, MemoryType, DriverType, driver
  <2>4. ClientType'
    BY <1>6 DEF Release, ClientType, ClientPcs
  <2>5. HistoryType'
    BY <1>6 DEF Release, HistoryType, driver, history
  <2> QED BY <2>3, <2>4, <2>5
<1>7. CASE PublishRequest(c)
  <2>1. SerialSet(at[c], mine[c]) \/ slots' = slots
    BY <1>7 DEF PublishRequest, SerialSet
  <2>2. slots' \in [SlotIds -> SlotRec]
    BY <2>1, SerialSetFact DEF MemoryType, ClientType, Tickets
  <2>3. MemoryType' /\ DriverType' /\ SeenEven'
    BY <1>7, <2>2 DEF PublishRequest, MemoryType, DriverType, driver
  <2>4. ClientType'
    BY <1>7 DEF PublishRequest, ClientType, ClientPcs
  <2>5. [serial |-> mine[c], request |-> want[c], session |-> header[c]] \in PostedRec
    BY DEF PostedRec, ClientType, Tickets
  <2>6. HistoryType'
    BY <1>7, <2>5 DEF PublishRequest, HistoryType, driver
  <2> QED BY <2>3, <2>4, <2>6
<1> QED BY <1>1, <1>2, <1>3, <1>4, <1>5, <1>6, <1>7 DEF ClientStep

-----------------------------------------------------------------------------
(* The header and the mode.                                                *)

\* Whoever dies inside Initialize leaves torn for good, and until then no new
\* driver finds a header it has to wipe.
LEMMA TornGrows ==
  ASSUME Next, "init" \notin torn'
  PROVE  /\ "init" \notin torn /\ torn \subseteq torn'
         /\ Crash => pc \notin InitWindow
<1>1. CASE Running /\ UNCHANGED torn
  <2>1. CASE Crash
    BY <2>1 DEF Crash
  <2> QED BY <1>1, <2>1
<1>2. CASE Crash
  BY <1>2 DEF Crash
<1> QED BY <1>1, <1>2 DEF Next

\* The header names the driver that is up, and the status what it took last.
LEMMA HeaderStep ==
  ASSUME TypeOK, HeaderInv, Next, "init" \notin torn'
  PROVE  HeaderInv'
<1>0. "init" \notin torn /\ pc # "wipe" /\ (pc = "dead" => ready) /\ ~InitWipe
  BY TornGrows DEF HeaderInv, InitWipe
<1>t. m_session \in Nat \ {0} /\ session \in Nat /\ header \in [Clients -> Nat]
  BY DEF TypeOK, MemoryType, DriverType, ClientType
<1>1. CASE InitBegin
  BY <1>1, <1>0, <1>t DEF InitBegin, HeaderInv, Up, clients
<1>2. CASE InitKeep
  BY <1>2, <1>0 DEF InitKeep, HeaderInv, Up, clients
<1>3. CASE InitHeader
  BY <1>3, <1>0, <1>t DEF InitHeader, HeaderInv, Up, clients
<1>4. CASE InitFinish
  <2>1. status'.ackSerial = m_lastSerial /\ status'.session = m_session
    BY <1>4 DEF InitFinish, Publish
  <2> QED BY <1>4, <1>0, <1>t, <2>1 DEF InitFinish, HeaderInv, Up, clients
<1>5. CASE ProcessBegin \/ ProcessRead
  BY <1>5, <1>0 DEF ProcessBegin, ProcessRead, HeaderInv, Up, memory, clients
<1>6. CASE ProcessSelect
  <2>1. \/ status' = status /\ m_lastSerial' = m_lastSerial
        \/ status'.ackSerial = m_lastSerial' /\ status'.session = m_session
    BY <1>6 DEF ProcessSelect, TakeRequest, Replay, NothingNew, Publish
  <2> QED BY <1>6, <1>0, <2>1 DEF ProcessSelect, HeaderInv, Up, clients
<1>7. CASE ProcessClear
  BY <1>7, <1>0 DEF ProcessClear, HeaderInv, Up, clients
<1>8. ASSUME NEW expired \in BOOLEAN, ProcessEnd(expired) PROVE HeaderInv'
  <2>1. status' = status \/ (status'.ackSerial = m_lastSerial /\ status'.session = m_session)
    BY <1>8 DEF ProcessEnd, Publish
  <2> QED BY <1>8, <1>0, <2>1 DEF ProcessEnd, HeaderInv, Up, clients
<1>9. CASE Sync
  BY <1>9, <1>0 DEF Sync, HeaderInv, Up, memory, clients
<1>10. ASSUME NEW r \in submitted, NEW state \in {"ACTIVE", "NORMAL", "FAILED"}, SetStatus(r, state)
       PROVE  HeaderInv'
  <2>1. status'.ackSerial = m_lastSerial /\ status'.session = m_session
    BY <1>10 DEF SetStatus, Publish
  <2> QED BY <1>10, <1>0, <2>1 DEF SetStatus, HeaderInv, Up, clients
<1>11. CASE Crash
  <2>1. pc \in Up
    BY <1>11, TornGrows DEF Crash, Up
  <2>2. status' \in {status, [status EXCEPT !.stable = FALSE]}
    BY <1>11 DEF Crash
  <2>3. status'.stable => status' = status
    BY <2>2 DEF TypeOK, MemoryType, StatusRec
  <2> QED BY <1>11, <1>0, <2>1, <2>3 DEF Crash, HeaderInv, Up, clients
<1>12. ASSUME NEW c \in Clients, NEW mode \in WireModes, Begin(c, mode) PROVE HeaderInv'
  BY <1>12, <1>0, <1>t DEF Begin, HeaderInv, Up, memory, driver
<1>13. ASSUME NEW c \in Clients, ClientStep(c) \/ Interrupt(c) PROVE HeaderInv'
  <2>1. UNCHANGED <<ready, session, status, pc, m_session, m_lastSerial, header>>
    BY <1>13 DEF ClientStep, DrawTicket, Claim, WriteRequest, WriteSession, Recheck, Release,
                 PublishRequest, Interrupt, memory, driver
  <2> QED BY <2>1, <1>0 DEF HeaderInv
<1> QED BY <1>0, <1>1, <1>2, <1>3, <1>4, <1>5, <1>6, <1>7, <1>8, <1>9, <1>10, <1>11, <1>12, <1>13
        DEF Next, Running, Initialize, Process

\* A restart carries on with the mode that was taken last.
LEMMA ModeStep ==
  ASSUME TypeOK, HeaderInv, ModeInv, SlotInv, TicketInv, Next, "init" \notin torn'
  PROVE  ModeInv'
<1> SUFFICES ASSUME torn' = {} PROVE ModeInv'
  BY DEF ModeInv
<1>0. "init" \notin torn /\ pc # "wipe" /\ (pc = "dead" => ready) /\ ~InitWipe /\ torn = {}
  BY TornGrows DEF HeaderInv, InitWipe
<1>m. /\ pc # "dead" => m_request = accepted
      /\ accepted \in WireModes
      /\ ready => /\ status.stable /\ status.ackRequest = accepted
                  /\ accepted = "RECOVERY" => status.state \in {"SWITCHING", "ACTIVE", "FAILED"}
  BY <1>0 DEF ModeInv
<1>h. /\ ready => pc \in Up \cup {"dead"} /\ session = m_session
      /\ pc \in Up => ready
      /\ ready /\ status.stable => status.session = m_session
      /\ m_session \in Nat \ {0}
  BY DEF HeaderInv, TypeOK, DriverType
<1>1. CASE InitBegin
  <2>1. ready /\ session # 0 /\ status.session = session
    BY <1>1, <1>0, <1>h, <1>m DEF InitBegin
  <2>2. RetainedRequest = accepted
    BY <2>1, <1>m DEF RetainedRequest, WireModes
  <2> QED BY <1>1, <2>1, <2>2, <1>m DEF InitBegin, ModeInv, history
<1>2. CASE InitKeep
  BY <1>2, <1>m, <1>h DEF InitKeep, ModeInv, Up, history
<1>3. CASE InitHeader
  BY <1>3, <1>m, <1>h DEF InitHeader, ModeInv, Up
<1>4. CASE InitFinish
  <2>1. status'.stable /\ status'.ackRequest = m_request /\ status'.state = "SWITCHING"
    BY <1>4 DEF InitFinish, Publish
  <2> QED BY <1>4, <2>1, <1>m DEF InitFinish, ModeInv, history
<1>5. CASE ProcessBegin \/ ProcessRead
  BY <1>5, <1>m DEF ProcessBegin, ProcessRead, ModeInv, memory, history
<1>6. CASE ProcessSelect
  <2>1. CASE TakeRequest
    <3> DEFINE k == Newest(Candidates)
    <3>1. k \in Candidates
      BY <1>6, <2>1, NewestExists DEF ProcessSelect, TakeRequest
    <3>2. k \in SlotIds /\ seen[k].serial # 0
      BY <3>1 DEF Candidates
    <3>3. m_request' = seen[k].request /\ accepted' = seen[k].request
          /\ status'.stable /\ status'.ackRequest = seen[k].request /\ status'.state = "SWITCHING"
      BY <2>1 DEF TakeRequest, Publish
    <3> HIDE DEF k
    <3>4. seen[k] \in PostedRec
      BY <3>2 DEF SlotInv, SeenPosted, TypeOK, HistoryType
    <3>5. seen[k].request \in WireModes
      BY <3>4 DEF PostedRec
    <3> QED BY <1>6, <3>3, <3>5 DEF ProcessSelect, ModeInv
  <2>2. CASE Replay \/ NothingNew
    BY <1>6, <2>2, <1>m DEF ProcessSelect, Replay, NothingNew, ModeInv
  <2> QED BY <1>6, <2>1, <2>2 DEF ProcessSelect
<1>7. CASE ProcessClear
  BY <1>7, <1>m DEF ProcessClear, ModeInv, history
<1>8. ASSUME NEW expired \in BOOLEAN, ProcessEnd(expired) PROVE ModeInv'
  <2>1. status' = status
        \/ (status'.stable /\ status'.ackRequest = m_request /\ status'.state = "FAILED")
    BY <1>8 DEF ProcessEnd, Publish
  <2> QED BY <1>8, <2>1, <1>m DEF ProcessEnd, ModeInv, history
<1>9. CASE Sync
  BY <1>9, <1>m DEF Sync, ModeInv, memory, history
<1>10. ASSUME NEW r \in submitted, NEW state \in {"ACTIVE", "NORMAL", "FAILED"}, SetStatus(r, state)
       PROVE  ModeInv'
  <2>1. /\ status'.stable /\ status'.ackRequest = m_request /\ status'.state = state
        /\ m_request = "RECOVERY" => state # "NORMAL"
        /\ pc = "idle" /\ pc' = pc /\ m_request' = m_request /\ accepted' = accepted /\ ready' = ready
    BY <1>10 DEF SetStatus, Publish, history
  <2> QED BY <2>1, <1>m DEF ModeInv
<1>11. CASE Crash
  <2>1. status' = status
    BY <1>11 DEF Crash
  <2> QED BY <1>11, <2>1, <1>m DEF Crash, ModeInv, history
<1>12. ASSUME NEW c \in Clients, NEW mode \in WireModes, Begin(c, mode) PROVE ModeInv'
  BY <1>12, <1>m DEF Begin, ModeInv, memory, driver, history
<1>13. ASSUME NEW c \in Clients, ClientStep(c) \/ Interrupt(c) PROVE ModeInv'
  <2>1. UNCHANGED <<ready, status, pc, m_request, accepted>>
    BY <1>13 DEF ClientStep, DrawTicket, Claim, WriteRequest, WriteSession, Recheck, Release,
                 PublishRequest, Interrupt, memory, driver, history
  <2> QED BY <2>1, <1>m DEF ModeInv
<1> QED BY <1>0, <1>1, <1>2, <1>3, <1>4, <1>5, <1>6, <1>7, <1>8, <1>9, <1>10, <1>11, <1>12, <1>13
        DEF Next, Running, Initialize, Process

-----------------------------------------------------------------------------
(* The slots.                                                              *)

\* A claimed slot is odd; Writing clients hold odd slots.
LEMMA HeldIsOdd ==
  ASSUME TypeOK, OwnSlot, NEW c \in Clients, cpc[c] \in Writing
  PROVE  /\ at[c] \in SlotIds /\ IsOdd(slots[at[c]].serial) /\ slots[at[c]].serial # 0
         /\ TicketOf(slots[at[c]].serial) = mine[c] /\ mine[c] \in Tickets
         /\ slots[at[c]].serial = mine[c] + 1
<1>1. slots[at[c]].serial = mine[c] + 1 /\ mine[c] \in Tickets /\ at[c] \in SlotIds
  BY DEF OwnSlot, TypeOK, ClientType
<1> QED BY <1>1, ClaimedSerial

\* The driver empties published slots only, and so keeps out of every writer's.
LEMMA ReclaimKeeps ==
  ASSUME TypeOK, SlotInv, NEW i \in SlotIds, UNCHANGED <<clients, published>>,
         slots' = slots \/ (SerialSet(i, 0) /\ ~IsOdd(slots[i].serial))
  PROVE  /\ SlotIntegrity' /\ OwnSlot' /\ OwnRequest' /\ OwnSession' /\ OneWriter' /\ RealTicket'
         /\ OtherSlots(i)
<1>1. OtherSlots(i) /\ (slots'[i] = slots[i] \/ slots'[i].serial = 0)
  BY SerialSetFact, DefaultsType DEF TypeOK, MemoryType, OtherSlots
<1>2. ASSUME NEW c \in Clients, cpc[c] \in Writing PROVE slots'[at[c]] = slots[at[c]]
  BY <1>1, <1>2, HeldIsOdd DEF SlotInv, OtherSlots
<1>3. SlotIntegrity'
  BY <1>1 DEF SlotInv, SlotIntegrity, OtherSlots
<1>4. OwnSlot' /\ OwnRequest' /\ OwnSession'
  BY <1>2 DEF SlotInv, OwnSlot, OwnRequest, OwnSession, Writing, clients
<1>5. OneWriter' /\ RealTicket'
  BY DEF SlotInv, OneWriter, RealTicket, clients
<1> QED BY <1>1, <1>3, <1>4, <1>5

\* The slots after a step of the driver.
LEMMA DriverSlots ==
  ASSUME TypeOK, HeaderInv, SlotInv, Next, "init" \notin torn',
         \/ Initialize \/ Process \/ Sync \/ Crash
         \/ \E r \in submitted, state \in {"ACTIVE", "NORMAL", "FAILED"} : SetStatus(r, state)
  PROVE  SlotInv'
<1>0. ~InitWipe /\ Slots \in Nat /\ SlotIds = 1..Slots /\ 1 \in SlotIds
  BY TornGrows, ChannelConstants DEF HeaderInv, InitWipe, SlotIds
<1>1. ASSUME UNCHANGED <<slots, clients, published>>, SeenPosted', SeenStands' PROVE SlotInv'
  BY <1>1, ReclaimKeeps, <1>0 DEF SlotInv
<1>2. ASSUME UNCHANGED <<slots, clients, published>>, seen' = [i \in SlotIds |-> EmptySlot] PROVE SlotInv'
  <2>1. \A i \in SlotIds : seen'[i].serial = 0
    BY <1>2, DefaultsType
  <2> QED BY <1>1, <1>2, <2>1 DEF SeenPosted, SeenStands
<1>3. ASSUME UNCHANGED <<slots, clients, published, seen>>,
             \A i \in SlotIds : Unreclaimed(i)' => Unreclaimed(i)
      PROVE SlotInv'
  <2>1. SeenPosted' /\ SeenStands'
    BY <1>3 DEF SlotInv, SeenPosted, SeenStands
  <2> QED BY <1>1, <1>3, <2>1
<1>4. CASE InitBegin
  BY <1>2, <1>4 DEF InitBegin, history
<1>5. CASE InitKeep
  <2>1. \A i \in SlotIds : ~Unreclaimed(i)'
    BY <1>5 DEF InitKeep, Unreclaimed
  <2>2. SeenPosted' /\ SeenStands'
    BY <1>5, <2>1 DEF InitKeep, SlotInv, SeenPosted, SeenStands, history
  <2>3. PICK i \in SlotIds : slots' = slots \/ (SerialSet(i, 0) /\ ~IsOdd(slots[i].serial))
    <3>1. CASE index <= Slots
      <4>1. slots' = [slots EXCEPT ![index] =
                 IF ReadRequest(index) # EmptySlot THEN [@ EXCEPT !.serial = 0] ELSE @]
        BY <1>5, <3>1 DEF InitKeep
      <4>2. index \in SlotIds
        BY <1>0, <3>1 DEF TypeOK, DriverType
      <4>3. CASE ReadRequest(index) # EmptySlot
        BY <4>1, <4>2, <4>3, ReadFact DEF SerialSet, TypeOK, MemoryType
      <4>4. CASE ReadRequest(index) = EmptySlot
        <5>1. slots' = slots
          BY <4>1, <4>2, <4>4 DEF TypeOK, MemoryType
        <5> QED BY <5>1, <4>2
      <4> QED BY <4>3, <4>4
    <3>2. CASE ~(index <= Slots)
      BY <1>5, <1>0, <3>2 DEF InitKeep
    <3> QED BY <3>1, <3>2
  <2> QED BY <1>5, <2>2, <2>3, ReclaimKeeps DEF InitKeep, SlotInv, history
<1>6. CASE InitHeader
  BY <1>3, <1>6 DEF InitHeader, Unreclaimed
<1>7. CASE InitFinish
  BY <1>3, <1>7 DEF InitFinish, Unreclaimed, history
<1>8. CASE ProcessBegin
  BY <1>2, <1>8 DEF ProcessBegin, memory, history
<1>9. CASE ProcessRead
  <2>0. index \in SlotIds /\ seen' = [seen EXCEPT ![index] = ReadRequest(index)] /\ pc = "read"
        /\ UNCHANGED <<slots, clients, published>>
    BY <1>9 DEF ProcessRead, TypeOK, DriverType, Up, memory, history
  <2>1. \A i \in SlotIds : seen'[i] = IF i = index THEN ReadRequest(index) ELSE seen[i]
    BY <2>0 DEF TypeOK, DriverType
  <2>2. ReadRequest(index).serial # 0 => ReadRequest(index) = slots[index] /\ slots[index] \in published
    BY <2>0, ReadFact DEF TypeOK, MemoryType, SlotInv, SlotIntegrity
  <2>3. SeenPosted'
    BY <2>0, <2>1, <2>2 DEF SlotInv, SeenPosted
  <2>4. SeenStands'
    BY <2>0, <2>1, <2>2 DEF SlotInv, SeenStands, Unreclaimed
  <2> QED BY <2>0, <2>3, <2>4, <1>1
<1>10. CASE ProcessSelect
  BY <1>3, <1>10 DEF ProcessSelect, Unreclaimed
<1>11. CASE ProcessClear
  <2>0. index \in SlotIds /\ index \in Nat
    BY <1>11, <1>0 DEF ProcessClear, TypeOK, DriverType, Up
  <2>1. slots' = slots \/ (SerialSet(index, 0) /\ ~IsOdd(slots[index].serial))
    BY <1>11, <2>0 DEF ProcessClear, SerialSet, TypeOK, SeenEven, IsOdd
  <2>2. UNCHANGED <<clients, published, seen>> /\ pc = "clear"
        /\ \A i \in SlotIds : Unreclaimed(i)' => i # index /\ Unreclaimed(i)
    BY <1>11, <1>0, <2>0 DEF ProcessClear, Unreclaimed, history
  <2>3. SlotIntegrity' /\ OwnSlot' /\ OwnRequest' /\ OwnSession' /\ OneWriter' /\ RealTicket'
        /\ OtherSlots(index)
    BY <2>0, <2>1, <2>2, ReclaimKeeps
  <2>4. SeenPosted' /\ SeenStands'
    BY <2>2, <2>3 DEF SlotInv, SeenPosted, SeenStands, OtherSlots
  <2> QED BY <2>3, <2>4 DEF SlotInv
<1>12. ASSUME NEW expired \in BOOLEAN, ProcessEnd(expired) PROVE SlotInv'
  BY <1>2, <1>12 DEF ProcessEnd, history
<1>13. CASE Sync
  BY <1>3, <1>13 DEF Sync, Unreclaimed, memory, history
<1>14. ASSUME NEW r \in submitted, NEW state \in {"ACTIVE", "NORMAL", "FAILED"}, SetStatus(r, state)
       PROVE  SlotInv'
  BY <1>3, <1>14 DEF SetStatus, Unreclaimed, history
<1>15. CASE Crash
  BY <1>2, <1>15 DEF Crash, history
<1> QED BY <1>0, <1>4, <1>5, <1>6, <1>7, <1>8, <1>9, <1>10, <1>11, <1>12, <1>13, <1>14, <1>15
        DEF Initialize, Process

\* A client that writes the slot it holds, or a slot it finds empty, disturbs
\* no other writer and nothing that Process has read.
LEMMA OwnerWrites ==
  ASSUME TypeOK, SlotInv, NEW c \in Clients, OtherSlots(at[c]),
         cpc[c] \in Writing \/ slots[at[c]].serial = 0,
         UNCHANGED <<mine, want, header, at, seen, index, pc>>, published \subseteq published',
         \A d \in Clients \ {c} : cpc'[d] = cpc[d]
  PROVE  /\ \A d \in Clients \ {c} : cpc[d] \in Writing => slots'[at[d]] = slots[at[d]] /\ at[d] # at[c]
         /\ SeenPosted' /\ SeenStands'
         /\ (\A d \in Clients \ {c} : cpc'[d] \in {"session", "recheck", "publish"} =>
               slots'[at[d]].request = want[d])
         /\ (\A d \in Clients \ {c} : cpc'[d] \in {"recheck", "publish"} => slots'[at[d]].session = header[d])
         /\ (slots'[at[c]].serial # 0 /\ ~IsOdd(slots'[at[c]].serial) => slots'[at[c]] \in published')
              => SlotIntegrity'
<1>1. at \in [Clients -> SlotIds] /\ at[c] \in SlotIds
  BY DEF TypeOK, ClientType
<1>2. ASSUME NEW d \in Clients \ {c}, cpc[d] \in Writing PROVE at[d] # at[c]
  <2>1. CASE cpc[c] \in Writing
    BY <1>2, <2>1 DEF SlotInv, OneWriter
  <2>2. CASE slots[at[c]].serial = 0
    BY <1>2, <2>2, HeldIsOdd DEF SlotInv
  <2> QED BY <2>1, <2>2
<1>3. ASSUME NEW i \in SlotIds, seen[i].serial # 0, Unreclaimed(i) PROVE i # at[c]
  <2>1. slots[i] = seen[i] /\ ~IsOdd(seen[i].serial)
    BY <1>3 DEF SlotInv, SeenStands, TypeOK, SeenEven, IsOdd
  <2> QED BY <1>3, <2>1, HeldIsOdd DEF SlotInv
<1>4. SeenPosted'
  BY DEF SlotInv, SeenPosted
<1>5. SeenStands'
  BY <1>3 DEF SlotInv, SeenStands, Unreclaimed, OtherSlots
<1>6. \A d \in Clients \ {c} : cpc[d] \in Writing => slots'[at[d]] = slots[at[d]] /\ at[d] # at[c]
  BY <1>1, <1>2 DEF OtherSlots
<1>7. (slots'[at[c]].serial # 0 /\ ~IsOdd(slots'[at[c]].serial) => slots'[at[c]] \in published') => SlotIntegrity'
  BY <1>1 DEF SlotInv, SlotIntegrity, OtherSlots
<1>8. \A d \in Clients \ {c} : cpc'[d] \in {"session", "recheck", "publish"} =>
        slots'[at[d]].request = want[d]
  BY <1>6 DEF SlotInv, OwnRequest, Writing
<1>9. \A d \in Clients \ {c} : cpc'[d] \in {"recheck", "publish"} => slots'[at[d]].session = header[d]
  BY <1>6 DEF SlotInv, OwnSession, Writing
<1> QED BY <1>4, <1>5, <1>6, <1>7, <1>8, <1>9

\* The slots after a step of a client.
LEMMA ClientSlots ==
  ASSUME TypeOK, SlotInv, NEW c \in Clients,
         (\E mode \in WireModes : Begin(c, mode)) \/ ClientStep(c) \/ Interrupt(c)
  PROVE  SlotInv'
<1>t. /\ slots \in [SlotIds -> SlotRec] /\ cpc \in [Clients -> ClientPcs] /\ mine \in [Clients -> Tickets]
      /\ at \in [Clients -> SlotIds] /\ want \in [Clients -> WireModes] /\ header \in [Clients -> Nat]
      /\ at[c] \in SlotIds /\ mine[c] \in Tickets /\ mine[c] \in Serials /\ want[c] \in Requests /\ header[c] \in Nat
  BY DefaultsType DEF TypeOK, MemoryType, ClientType, Tickets
\* Steps that leave the slots alone and do not end in a write.
<1>1. ASSUME UNCHANGED <<slots, published, seen, index, pc>>,
             \A d \in Clients \ {c} : cpc'[d] = cpc[d] /\ mine'[d] = mine[d] /\ at'[d] = at[d]
                                      /\ want'[d] = want[d] /\ header'[d] = header[d],
             cpc'[c] \notin Writing, cpc'[c] \in Drawn => mine'[c] # 0
      PROVE  SlotInv'
  <2>1. SlotIntegrity' /\ SeenPosted' /\ SeenStands'
    BY <1>1 DEF SlotInv, SlotIntegrity, SeenPosted, SeenStands, Unreclaimed
  <2>2. OwnSlot' /\ OwnRequest' /\ OwnSession'
    BY <1>1 DEF SlotInv, OwnSlot, OwnRequest, OwnSession, Writing
  <2>3. OneWriter'
    BY <1>1 DEF SlotInv, OneWriter
  <2>4. RealTicket'
    BY <1>1 DEF SlotInv, RealTicket
  <2> QED BY <2>1, <2>2, <2>3, <2>4 DEF SlotInv
<1>2. ASSUME NEW mode \in WireModes, Begin(c, mode) PROVE SlotInv'
  <2>1. cpc'[c] = "ticket"
    BY <1>2, <1>t DEF Begin
  <2>2. \A d \in Clients \ {c} : cpc'[d] = cpc[d] /\ mine'[d] = mine[d] /\ at'[d] = at[d]
                                 /\ want'[d] = want[d] /\ header'[d] = header[d]
    BY <1>2, <1>t DEF Begin
  <2> QED BY <1>1, <1>2, <2>1, <2>2 DEF Begin, memory, driver, history, Writing, Drawn
<1>3. CASE DrawTicket(c)
  <2>1. cpc'[c] = "claim" /\ mine'[c] # 0
    BY <1>3, <1>t, NextTicketFact DEF DrawTicket, TypeOK, MemoryType
  <2>2. \A d \in Clients \ {c} : cpc'[d] = cpc[d] /\ mine'[d] = mine[d] /\ at'[d] = at[d]
                                 /\ want'[d] = want[d] /\ header'[d] = header[d]
    BY <1>3, <1>t DEF DrawTicket
  <2> QED BY <1>1, <1>3, <2>1, <2>2 DEF DrawTicket, driver, Writing, Drawn
<1>4. CASE Interrupt(c)
  <2>1. cpc'[c] = "idle" /\ \A d \in Clients \ {c} : cpc'[d] = cpc[d]
    BY <1>4, <1>t DEF Interrupt
  <2> QED BY <1>1, <1>4, <2>1 DEF Interrupt, memory, driver, history, Writing, Drawn
<1>5. CASE Recheck(c)
  <2>1. cpc[c] = "recheck" /\ cpc'[c] \in {"publish", "release"} /\ \A d \in Clients \ {c} : cpc'[d] = cpc[d]
    BY <1>5, <1>t DEF Recheck
  <2>2. UNCHANGED <<slots, published, seen, index, pc, header, mine, at, want>>
    BY <1>5 DEF Recheck, memory, driver, history
  <2>3. SlotIntegrity' /\ SeenPosted' /\ SeenStands'
    BY <2>2 DEF SlotInv, SlotIntegrity, SeenPosted, SeenStands, Unreclaimed
  <2>4. OwnSlot' /\ OwnRequest' /\ OwnSession'
    BY <2>1, <2>2 DEF SlotInv, OwnSlot, OwnRequest, OwnSession, Writing
  <2>5. OneWriter' /\ RealTicket'
    BY <2>1, <2>2 DEF SlotInv, OneWriter, RealTicket, Writing, Drawn
  <2> QED BY <2>3, <2>4, <2>5 DEF SlotInv
<1>6. CASE Claim(c)
  <2>1. CASE slots[at[c]].serial # 0
    <3>1. cpc[c] = "claim" /\ cpc'[c] \in {"claim", "idle"} /\ UNCHANGED <<slots, header, mine, want>>
          /\ \A d \in Clients \ {c} : cpc'[d] = cpc[d] /\ at'[d] = at[d]
      BY <1>6, <2>1, <1>t DEF Claim
    <3>2. cpc'[c] \in Drawn => mine'[c] # 0
      BY <3>1 DEF SlotInv, RealTicket, Drawn
    <3> QED BY <1>1, <1>6, <3>1, <3>2 DEF Claim, driver, history, Writing
  <2>2. CASE slots[at[c]].serial = 0
    <3>1. cpc[c] = "claim" /\ cpc'[c] = "request" /\ SerialSet(at[c], mine[c] + 1)
          /\ UNCHANGED <<published, seen, index, pc, header, mine, at, want>>
          /\ \A d \in Clients \ {c} : cpc'[d] = cpc[d]
      BY <1>6, <2>2, <1>t DEF Claim, SerialSet, driver, history
    <3>2. OtherSlots(at[c]) /\ slots'[at[c]].serial = mine[c] + 1 /\ IsOdd(mine[c] + 1)
      BY <3>1, <1>t, SerialSetFact, ClaimedSerial
    <3>3. /\ \A d \in Clients \ {c} : cpc[d] \in Writing => slots'[at[d]] = slots[at[d]] /\ at[d] # at[c]
          /\ SeenPosted' /\ SeenStands' /\ SlotIntegrity'
          /\ \A d \in Clients \ {c} : cpc'[d] \in {"session", "recheck", "publish"} => slots'[at[d]].request = want[d]
          /\ \A d \in Clients \ {c} : cpc'[d] \in {"recheck", "publish"} => slots'[at[d]].session = header[d]
      BY <2>2, <3>1, <3>2, OwnerWrites
    <3>4. OwnSlot'
      BY <3>1, <3>2, <3>3 DEF SlotInv, OwnSlot
    <3>5. OwnRequest' /\ OwnSession'
      BY <3>1, <3>3 DEF OwnRequest, OwnSession
    <3>6. OneWriter' /\ RealTicket'
      BY <3>1, <3>3 DEF SlotInv, OneWriter, RealTicket, Drawn
    <3> QED BY <3>3, <3>4, <3>5, <3>6 DEF SlotInv
  <2> QED BY <2>1, <2>2
<1>7. CASE WriteRequest(c) \/ WriteSession(c)
  <2>1. UNCHANGED <<published, seen, index, pc, header, mine, at, want>>
        /\ \A d \in Clients \ {c} : cpc'[d] = cpc[d]
    BY <1>7, <1>t DEF WriteRequest, WriteSession, driver, history
  <2>2. \/ cpc[c] = "request" /\ cpc'[c] = "session" /\ RequestSet(at[c], want[c])
        \/ cpc[c] = "session" /\ cpc'[c] = "recheck" /\ SessionSet(at[c], header[c])
    BY <1>7, <1>t DEF WriteRequest, WriteSession, RequestSet, SessionSet
  <2>3. /\ OtherSlots(at[c]) /\ slots'[at[c]].serial = slots[at[c]].serial
        /\ slots'[at[c]].request = want[c]
        /\ cpc'[c] = "recheck" => slots'[at[c]].session = header[c]
    <3>1. CASE cpc[c] = "request"
      BY <2>2, <3>1, <1>t, RequestSetFact
    <3>2. CASE cpc[c] = "session"
      <4>1. slots[at[c]].request = want[c]
        BY <3>2 DEF SlotInv, OwnRequest
      <4> QED BY <2>2, <3>2, <4>1, <1>t, SessionSetFact
    <3> QED BY <2>2, <3>1, <3>2
  <2>4. cpc[c] \in Writing /\ cpc'[c] \in Writing /\ IsOdd(slots'[at[c]].serial)
        /\ slots'[at[c]].serial = mine[c] + 1
    BY <2>2, <2>3, HeldIsOdd DEF Writing, SlotInv
  <2>5. /\ \A d \in Clients \ {c} : cpc[d] \in Writing => slots'[at[d]] = slots[at[d]] /\ at[d] # at[c]
        /\ SeenPosted' /\ SeenStands' /\ SlotIntegrity'
        /\ \A d \in Clients \ {c} : cpc'[d] \in {"session", "recheck", "publish"} => slots'[at[d]].request = want[d]
        /\ \A d \in Clients \ {c} : cpc'[d] \in {"recheck", "publish"} => slots'[at[d]].session = header[d]
    BY <2>1, <2>3, <2>4, OwnerWrites
  <2>6. OwnSlot'
    BY <2>1, <2>4, <2>5 DEF SlotInv, OwnSlot
  <2>7. OwnRequest' /\ OwnSession'
    BY <2>1, <2>2, <2>3, <2>5 DEF OwnRequest, OwnSession
  <2>8. OneWriter' /\ RealTicket'
    BY <2>1, <2>4, <2>5 DEF SlotInv, OneWriter, RealTicket, Drawn
  <2> QED BY <2>5, <2>6, <2>7, <2>8 DEF SlotInv
<1>8. CASE Release(c) \/ PublishRequest(c)
  <2>0. cpc[c] \in Writing
    BY <1>8 DEF Release, PublishRequest, Writing
  <2>h. slots[at[c]].serial = mine[c] + 1
    BY <2>0, HeldIsOdd DEF SlotInv
  <2>1. UNCHANGED <<seen, index, pc, header, mine, at, want>> /\ published \subseteq published'
        /\ \A d \in Clients \ {c} : cpc'[d] = cpc[d]
    BY <1>8, <1>t DEF Release, PublishRequest, driver, history
  <2>2. OtherSlots(at[c]) /\ cpc'[c] \in {"idle", "sent"}
        /\ (slots'[at[c]].serial # 0 => slots'[at[c]] \in published')
    <3>1. CASE Release(c)
      <4>1. SerialSet(at[c], 0) /\ cpc'[c] = "idle"
        BY <3>1, <2>h, <1>t DEF Release, SerialSet
      <4> QED BY <4>1, <1>t, SerialSetFact, DefaultsType
    <3>2. CASE PublishRequest(c)
      <4> DEFINE p == [serial |-> mine[c], request |-> want[c], session |-> header[c]]
      <4>1. SerialSet(at[c], mine[c]) /\ cpc'[c] = "sent" /\ p \in published' /\ cpc[c] = "publish"
        BY <3>2, <2>h, <1>t DEF PublishRequest, SerialSet
      <4>2. slots[at[c]].request = want[c] /\ slots[at[c]].session = header[c]
        BY <4>1 DEF SlotInv, OwnRequest, OwnSession
      <4>3. OtherSlots(at[c]) /\ slots' \in [SlotIds -> SlotRec]
            /\ slots'[at[c]].serial = mine[c] /\ slots'[at[c]].request = want[c] /\ slots'[at[c]].session = header[c]
        BY <4>1, <4>2, <1>t, SerialSetFact
      <4>4. slots'[at[c]] \in SlotRec
        BY <4>3, <1>t
      <4>5. slots'[at[c]] = p
        BY <4>3, <4>4 DEF SlotRec
      <4> QED BY <4>1, <4>3, <4>5
    <3> QED BY <1>8, <3>1, <3>2
  <2>3. /\ \A d \in Clients \ {c} : cpc[d] \in Writing => slots'[at[d]] = slots[at[d]] /\ at[d] # at[c]
        /\ SeenPosted' /\ SeenStands' /\ SlotIntegrity'
        /\ \A d \in Clients \ {c} : cpc'[d] \in {"session", "recheck", "publish"} => slots'[at[d]].request = want[d]
        /\ \A d \in Clients \ {c} : cpc'[d] \in {"recheck", "publish"} => slots'[at[d]].session = header[d]
    BY <2>0, <2>1, <2>2, OwnerWrites
  <2>4. OwnSlot' /\ OwnRequest' /\ OwnSession'
    BY <2>1, <2>2, <2>3 DEF SlotInv, OwnSlot, OwnRequest, OwnSession, Writing
  <2>5. OneWriter' /\ RealTicket'
    BY <2>0, <2>1, <2>2, <2>3 DEF SlotInv, OneWriter, RealTicket, Drawn, Writing
  <2> QED BY <2>3, <2>4, <2>5 DEF SlotInv
<1> QED BY <1>2, <1>3, <1>4, <1>5, <1>6, <1>7, <1>8 DEF ClientStep

-----------------------------------------------------------------------------
(* The tickets.                                                            *)

\* A fresh ticket is newer than every serial in use, which stay comparable.
LEMMA DrawFact ==
  ASSUME TypeOK, drawn <= MaxTickets, ticket' = NextTicket, drawn' = drawn + 1
  PROVE  /\ (Gap(ticket', NextTicket) <= 4 * drawn')
         /\ \A x \in Serials : Recent(x) => Recent(x)' /\ x # NextTicket /\ SerialNewer(NextTicket, x)
<1>1. ticket \in Nat /\ SERIAL_MOD \in Nat /\ ticket < SERIAL_MOD /\ SERIAL_MOD > 8
      /\ drawn \in Nat /\ 8 * drawn + 8 < SERIAL_MOD /\ ticket \in Tickets
  BY ChannelConstants DEF TypeOK, MemoryType, HistoryType, Tickets, Serials
<1>2. NextTicket = (IF ticket + 2 = SERIAL_MOD THEN 2 ELSE ticket + 2) /\ NextTicket \in Serials
      /\ NextTicket % 2 = 0 /\ NextTicket # 0
  BY <1>1, NextTicketFact DEF Tickets
<1>3. ticket % 2 = 0 /\ SERIAL_MOD % 4 = 0
  BY <1>1, ChannelConstants DEF Tickets
<1>4. NextTicket \in Nat /\ NextTicket < SERIAL_MOD
  BY <1>1, <1>2 DEF Serials
<1>5. Gap(ticket', NextTicket) <= 4 * drawn'
  BY <1>1, <1>4 DEF Gap
<1>6. ASSUME NEW x \in Serials, Recent(x) PROVE Recent(x)' /\ x # NextTicket /\ SerialNewer(NextTicket, x)
  <2>1. x \in Nat /\ x < SERIAL_MOD /\ Gap(ticket, x) <= 4 * drawn
    BY <1>1, <1>6 DEF Serials, Recent
  <2>2. Gap(NextTicket, x) # 0 /\ Gap(NextTicket, x) <= 4 * drawn + 4
    BY <2>1, <1>1, <1>2, <1>3 DEF Gap
  <2>3. SerialNewer(NextTicket, x)
    BY <2>1, <2>2, <1>1, <1>2, NewerByGap DEF Gap
  <2>4. x # NextTicket
    BY <2>2, <2>1 DEF Gap
  <2>5. Gap(ticket', x) <= 4 * drawn'
    BY <2>2, <1>1
  <2> QED BY <2>3, <2>4, <2>5 DEF Recent
<1> QED BY <1>5, <1>6

\* What keeps the tickets in order when none is drawn or claimed.
LEMMA TicketsKept ==
  ASSUME TypeOK, TicketInv, UNCHANGED <<ticket, drawn>>, Recent(m_lastSerial)',
         \A i \in SlotIds : slots'[i].serial # 0 =>
           slots[i].serial # 0 /\ TicketOf(slots'[i].serial) = TicketOf(slots[i].serial),
         \A i \in SlotIds : seen'[i].serial # 0 => Recent(seen'[i].serial),
         \A c \in Clients : cpc'[c] \in Drawn => cpc[c] \in Drawn /\ mine'[c] = mine[c],
         \A c \in Clients : cpc'[c] = "claim" => cpc[c] = "claim"
  PROVE  TicketInv'
<1>0. \A x : Recent(x) => (Gap(ticket', x) <= 4 * drawn')
  BY DEF Recent
<1>1. SerialsRecent'
  BY <1>0 DEF TicketInv, SerialsRecent, Recent
<1>2. TicketsDiffer'
  <2>1. \A c, d \in Clients : c # d /\ cpc'[c] \in Drawn /\ cpc'[d] \in Drawn => mine'[c] # mine'[d]
    BY DEF TicketInv, TicketsDiffer
  <2>2. \A i, j \in SlotIds : i # j /\ slots'[i].serial # 0 /\ slots'[j].serial # 0 =>
          TicketOf(slots'[i].serial) # TicketOf(slots'[j].serial)
    BY DEF TicketInv, TicketsDiffer
  <2>3. \A c \in Clients, i \in SlotIds : cpc'[c] = "claim" /\ slots'[i].serial # 0 =>
          TicketOf(slots'[i].serial) # mine'[c]
    BY DEF TicketInv, TicketsDiffer, Drawn
  <2> QED BY <2>1, <2>2, <2>3 DEF TicketsDiffer
<1> QED BY <1>1, <1>2 DEF TicketInv

\* Emptying a slot, or publishing what it holds, changes no ticket.
LEMMA SlotTickets ==
  ASSUME TypeOK, NEW i \in SlotIds, OtherSlots(i),
         slots'[i].serial = 0 \/ (slots[i].serial # 0 /\ TicketOf(slots'[i].serial) = TicketOf(slots[i].serial))
  PROVE  \A j \in SlotIds : slots'[j].serial # 0 =>
           slots[j].serial # 0 /\ TicketOf(slots'[j].serial) = TicketOf(slots[j].serial)
BY DEF OtherSlots

\* The serials and tickets of the state are serials.
LEMMA SerialTypes ==
  ASSUME TypeOK
  PROVE  /\ m_lastSerial \in Serials /\ \A c \in Clients : mine[c] \in Serials
         /\ \A i \in SlotIds : slots[i].serial \in Serials /\ TicketOf(slots[i].serial) \in Serials
         /\ \A i \in SlotIds : seen[i].serial \in Serials /\ seen[i].serial \in Tickets
         /\ \A i \in SlotIds : TicketOf(seen[i].serial) = seen[i].serial
<1>1. m_lastSerial \in Serials /\ \A c \in Clients : mine[c] \in Serials
  BY DEF TypeOK, DriverType, ClientType, Tickets
<1>2. ASSUME NEW i \in SlotIds PROVE slots[i].serial \in Serials /\ TicketOf(slots[i].serial) \in Serials
  <2>1. slots[i].serial \in Serials /\ SERIAL_MOD \in Nat
    BY ChannelConstants DEF TypeOK, MemoryType, SlotRec
  <2> QED BY <2>1 DEF Serials, TicketOf, IsOdd
<1>3. ASSUME NEW i \in SlotIds PROVE seen[i].serial \in Serials /\ seen[i].serial \in Tickets
  BY DEF TypeOK, DriverType, SlotRec, SeenEven, Tickets
<1> QED BY <1>1, <1>2, <1>3, ClaimedSerial

\* The tickets after a step of the driver.
LEMMA DriverTickets ==
  ASSUME TypeOK, HeaderInv, SlotInv, TicketInv, Next, "init" \notin torn',
         \/ Initialize \/ Process \/ Sync \/ Crash
         \/ \E r \in submitted, state \in {"ACTIVE", "NORMAL", "FAILED"} : SetStatus(r, state)
  PROVE  TicketInv'
<1>0. ~InitWipe /\ Slots \in Nat /\ SlotIds = 1..Slots /\ 1 \in SlotIds
  BY TornGrows, ChannelConstants DEF HeaderInv, InitWipe, SlotIds
<1>r. /\ Recent(m_lastSerial) /\ \A i \in SlotIds : seen[i].serial # 0 => Recent(seen[i].serial)
      /\ \A x : UNCHANGED <<ticket, drawn>> /\ Recent(x) => (Gap(ticket', x) <= 4 * drawn')
  BY DEF TicketInv, SerialsRecent, Recent
<1>1. ASSUME UNCHANGED <<ticket, drawn, clients, m_lastSerial>>,
             \A i \in SlotIds : slots'[i].serial # 0 =>
               slots[i].serial # 0 /\ TicketOf(slots'[i].serial) = TicketOf(slots[i].serial),
             seen' = seen \/ seen' = [i \in SlotIds |-> EmptySlot]
      PROVE  TicketInv'
  <2>1. Recent(m_lastSerial)'
    BY <1>1, <1>r DEF Recent
  <2>2. \A i \in SlotIds : seen'[i].serial # 0 => Recent(seen'[i].serial)
    BY <1>1, <1>r, DefaultsType
  <2> QED BY <1>1, <2>1, <2>2, TicketsKept DEF clients
<1>2. ASSUME UNCHANGED slots PROVE \A i \in SlotIds : slots'[i].serial # 0 =>
               slots[i].serial # 0 /\ TicketOf(slots'[i].serial) = TicketOf(slots[i].serial)
  BY <1>2
<1>3. ASSUME NEW i \in SlotIds, slots' = slots \/ SerialSet(i, 0)
      PROVE  \A j \in SlotIds : slots'[j].serial # 0 =>
               slots[j].serial # 0 /\ TicketOf(slots'[j].serial) = TicketOf(slots[j].serial)
  <2>1. CASE SerialSet(i, 0)
    BY <2>1, SerialSetFact, SlotTickets, DefaultsType DEF TypeOK, MemoryType
  <2> QED BY <1>2, <1>3, <2>1
<1>4. CASE InitBegin
  BY <1>1, <1>2, <1>4 DEF InitBegin, history
<1>5. CASE InitKeep
  <2>3. PICK i \in SlotIds : slots' = slots \/ SerialSet(i, 0)
    <3>1. CASE index <= Slots
      <4>1. slots' = [slots EXCEPT ![index] =
                 IF ReadRequest(index) # EmptySlot THEN [@ EXCEPT !.serial = 0] ELSE @]
        BY <1>5, <3>1 DEF InitKeep
      <4>2. index \in SlotIds
        BY <1>0, <3>1 DEF TypeOK, DriverType
      <4>3. SerialSet(index, 0) \/ slots' = slots
        BY <4>1, <4>2 DEF SerialSet, TypeOK, MemoryType
      <4> QED BY <4>3, <4>2
    <3>2. CASE ~(index <= Slots)
      BY <1>5, <1>0, <3>2 DEF InitKeep
    <3> QED BY <3>1, <3>2
  <2> QED BY <1>1, <1>3, <1>5, <2>3 DEF InitKeep, history
<1>6. CASE InitHeader
  <2>1. ticket' = NextTicket /\ drawn' = drawn + 1 /\ drawn <= MaxTickets /\ m_lastSerial' = NextTicket
        /\ UNCHANGED <<slots, seen, clients>>
    BY <1>6 DEF InitHeader, TypeOK, HistoryType
  <2>2. \A x \in Serials : Recent(x) => (Gap(ticket', x) <= 4 * drawn')
    BY <2>1, DrawFact DEF Recent
  <2>3. Gap(ticket', NextTicket) <= 4 * drawn'
    BY <2>1, DrawFact
  <2>4. SerialsRecent'
    BY <2>1, <2>2, <2>3, SerialTypes DEF TicketInv, SerialsRecent, Recent, clients
  <2>5. TicketsDiffer'
    BY <2>1 DEF TicketInv, TicketsDiffer, clients
  <2> QED BY <2>4, <2>5 DEF TicketInv
<1>7. CASE InitFinish
  BY <1>1, <1>2, <1>7 DEF InitFinish, history
<1>8. CASE ProcessBegin
  BY <1>1, <1>2, <1>8 DEF ProcessBegin, memory, history
<1>9. CASE ProcessRead
  <2>0. index \in SlotIds /\ seen' = [seen EXCEPT ![index] = ReadRequest(index)]
        /\ UNCHANGED <<slots, clients, ticket, drawn, m_lastSerial>>
    BY <1>9 DEF ProcessRead, TypeOK, DriverType, Up, memory, history
  <2>1. \A i \in SlotIds : seen'[i] = IF i = index THEN ReadRequest(index) ELSE seen[i]
    BY <2>0 DEF TypeOK, DriverType
  <2>2. ReadRequest(index).serial # 0 => Recent(ReadRequest(index).serial)
    <3>1. ASSUME ReadRequest(index).serial # 0 PROVE Recent(ReadRequest(index).serial)
      <4>1. ReadRequest(index) = slots[index] /\ ~IsOdd(slots[index].serial) /\ slots[index].serial # 0
        BY <2>0, <3>1, ReadFact DEF TypeOK, MemoryType
      <4> QED BY <2>0, <4>1 DEF TicketInv, SerialsRecent, TicketOf
    <3> QED BY <3>1
  <2>3. \A i \in SlotIds : seen'[i].serial # 0 => Recent(seen'[i].serial)
    BY <2>1, <2>2, <1>r
  <2>4. Recent(m_lastSerial)'
    BY <2>0, <1>r DEF Recent
  <2> QED BY <2>0, <2>3, <2>4, <1>2, TicketsKept DEF clients
<1>10. CASE ProcessSelect
  <2>1. Recent(m_lastSerial')
    <3>1. CASE TakeRequest
      <4> DEFINE k == Newest(Candidates)
      <4>1. k \in Candidates
        BY <1>10, <3>1, NewestExists DEF ProcessSelect, TakeRequest
      <4>2. k \in SlotIds /\ seen[k].serial # 0
        BY <4>1 DEF Candidates
      <4>3. m_lastSerial' = seen[k].serial
        BY <3>1 DEF TakeRequest
      <4> QED BY <4>2, <4>3, <1>r
    <3>2. CASE ~TakeRequest
      BY <1>10, <3>2, <1>r DEF ProcessSelect, Replay, NothingNew
    <3> QED BY <3>1, <3>2
  <2>2. Recent(m_lastSerial)'
    BY <2>1, <1>10 DEF Recent, ProcessSelect
  <2>3. UNCHANGED <<ticket, drawn, clients, slots, seen>>
    BY <1>10 DEF ProcessSelect
  <2> QED BY <2>2, <2>3, <1>2, <1>r, TicketsKept DEF clients
<1>11. CASE ProcessClear
  <2>0. index \in SlotIds
    BY <1>11, <1>0 DEF ProcessClear, TypeOK, DriverType, Up
  <2>1. slots' = slots \/ SerialSet(index, 0)
    BY <1>11 DEF ProcessClear, SerialSet
  <2> QED BY <1>1, <1>3, <1>11, <2>0, <2>1 DEF ProcessClear, history
<1>12. ASSUME NEW expired \in BOOLEAN, ProcessEnd(expired) PROVE TicketInv'
  BY <1>1, <1>2, <1>12 DEF ProcessEnd, history
<1>13. CASE Sync
  BY <1>1, <1>2, <1>13 DEF Sync, memory, history
<1>14. ASSUME NEW r \in submitted, NEW state \in {"ACTIVE", "NORMAL", "FAILED"}, SetStatus(r, state)
       PROVE  TicketInv'
  BY <1>1, <1>2, <1>14 DEF SetStatus, history
<1>15. CASE Crash
  BY <1>1, <1>2, <1>15 DEF Crash, history
<1> QED BY <1>0, <1>4, <1>5, <1>6, <1>7, <1>8, <1>9, <1>10, <1>11, <1>12, <1>13, <1>14, <1>15
        DEF Initialize, Process

\* The tickets after a step of a client.
LEMMA ClientTickets ==
  ASSUME TypeOK, SlotInv, TicketInv, NEW c \in Clients,
         (\E mode \in WireModes : Begin(c, mode)) \/ ClientStep(c) \/ Interrupt(c)
  PROVE  TicketInv'
<1>t. /\ slots \in [SlotIds -> SlotRec] /\ cpc \in [Clients -> ClientPcs] /\ mine \in [Clients -> Tickets]
      /\ at \in [Clients -> SlotIds]
      /\ at[c] \in SlotIds /\ mine[c] \in Tickets /\ mine[c] \in Serials /\ want[c] \in Requests /\ header[c] \in Nat
  BY DefaultsType DEF TypeOK, MemoryType, ClientType, Tickets
<1>1. ASSUME UNCHANGED <<ticket, drawn, m_lastSerial, seen, mine>>,
             \A d \in Clients \ {c} : cpc'[d] = cpc[d],
             cpc'[c] \in Drawn => cpc[c] \in Drawn, cpc'[c] = "claim" => cpc[c] = "claim",
             slots' = slots \/
               (OtherSlots(at[c]) /\
                  (slots'[at[c]].serial = 0 \/
                   (slots[at[c]].serial # 0 /\ TicketOf(slots'[at[c]].serial) = TicketOf(slots[at[c]].serial))))
      PROVE  TicketInv'
  <2>1. \A j \in SlotIds : slots'[j].serial # 0 =>
           slots[j].serial # 0 /\ TicketOf(slots'[j].serial) = TicketOf(slots[j].serial)
    BY <1>1, <1>t, SlotTickets
  <2>2. Recent(m_lastSerial)' /\ \A i \in SlotIds : seen'[i].serial # 0 => Recent(seen'[i].serial)
    BY <1>1 DEF TicketInv, SerialsRecent, Recent
  <2> QED BY <1>1, <2>1, <2>2, TicketsKept
<1>2. ASSUME NEW mode \in WireModes, Begin(c, mode) PROVE TicketInv'
  <2>1. cpc'[c] = "ticket" /\ \A d \in Clients \ {c} : cpc'[d] = cpc[d]
    BY <1>2, <1>t DEF Begin
  <2> QED BY <1>1, <1>2, <2>1 DEF Begin, memory, driver, history, Writing, Drawn
<1>3. CASE DrawTicket(c)
  <2>1. ticket' = NextTicket /\ drawn' = drawn + 1 /\ drawn <= MaxTickets
        /\ UNCHANGED <<slots, seen, m_lastSerial>> /\ cpc'[c] = "claim" /\ mine'[c] = NextTicket
        /\ \A d \in Clients \ {c} : cpc'[d] = cpc[d] /\ mine'[d] = mine[d]
    BY <1>3, <1>t, ChannelConstants DEF DrawTicket, driver, TypeOK, HistoryType
  <2>2. \A x \in Serials : Recent(x) => (Gap(ticket', x) <= 4 * drawn') /\ x # NextTicket
    BY <2>1, DrawFact DEF Recent
  <2>3. Gap(ticket', NextTicket) <= 4 * drawn'
    BY <2>1, DrawFact
  <2>4. SerialsRecent'
    <3>1. \A d \in Clients : cpc'[d] \in Drawn => (Gap(ticket', mine'[d]) <= 4 * drawn')
      BY <2>1, <2>2, <2>3, SerialTypes DEF TicketInv, SerialsRecent
    <3>2. /\ (Gap(ticket', m_lastSerial) <= 4 * drawn')
          /\ \A i \in SlotIds : slots[i].serial # 0 => (Gap(ticket', TicketOf(slots[i].serial)) <= 4 * drawn')
          /\ \A i \in SlotIds : seen[i].serial # 0 => (Gap(ticket', seen[i].serial) <= 4 * drawn')
      BY <2>2, SerialTypes DEF TicketInv, SerialsRecent
    <3>3. \A d \in Clients : cpc'[d] \in Drawn => Recent(mine[d])'
      BY <3>1 DEF Recent
    <3>4. Recent(m_lastSerial)'
      BY <2>1, <3>2 DEF Recent
    <3>6. \A i \in SlotIds : seen'[i].serial # 0 => Recent(seen[i].serial)'
      BY <2>1, <3>2 DEF Recent
    <3>5. \A i \in SlotIds : slots'[i].serial # 0 => Recent(TicketOf(slots[i].serial))'
      BY <2>1, <3>2 DEF Recent
    <3> QED BY <3>3, <3>4, <3>5, <3>6 DEF SerialsRecent
  <2>5. \A d, e \in Clients : d # e /\ cpc'[d] \in Drawn /\ cpc'[e] \in Drawn => mine'[d] # mine'[e]
    BY <2>1, <2>2, SerialTypes DEF TicketInv, SerialsRecent, TicketsDiffer
  <2>6. \A i, j \in SlotIds : i # j /\ slots'[i].serial # 0 /\ slots'[j].serial # 0 =>
          TicketOf(slots'[i].serial) # TicketOf(slots'[j].serial)
    BY <2>1 DEF TicketInv, TicketsDiffer
  <2>7. \A d \in Clients, i \in SlotIds : cpc'[d] = "claim" /\ slots'[i].serial # 0 =>
          TicketOf(slots'[i].serial) # mine'[d]
    BY <2>1, <2>2, SerialTypes DEF TicketInv, SerialsRecent, TicketsDiffer
  <2> QED BY <2>4, <2>5, <2>6, <2>7 DEF TicketInv, TicketsDiffer
<1>4. CASE Interrupt(c) \/ Recheck(c)
  <2>1. (cpc'[c] = "idle" \/ (cpc[c] = "recheck" /\ cpc'[c] \in {"publish", "release"}))
        /\ \A d \in Clients \ {c} : cpc'[d] = cpc[d]
    BY <1>4, <1>t DEF Interrupt, Recheck
  <2>2. UNCHANGED <<ticket, drawn, m_lastSerial, seen, mine, slots>>
    BY <1>4 DEF Interrupt, Recheck, memory, driver, history
  <2> QED BY <1>1, <2>1, <2>2 DEF Writing, Drawn
<1>5. CASE WriteRequest(c) \/ WriteSession(c)
  <2>1. UNCHANGED <<ticket, drawn, m_lastSerial, seen, mine>> /\ \A d \in Clients \ {c} : cpc'[d] = cpc[d]
    BY <1>5, <1>t DEF WriteRequest, WriteSession, driver, history
  <2>2. \/ cpc[c] = "request" /\ cpc'[c] = "session" /\ RequestSet(at[c], want[c])
        \/ cpc[c] = "session" /\ cpc'[c] = "recheck" /\ SessionSet(at[c], header[c])
    BY <1>5, <1>t DEF WriteRequest, WriteSession, RequestSet, SessionSet
  <2>3. cpc[c] \in Writing /\ cpc[c] \in Drawn /\ cpc'[c] # "claim"
    BY <2>2 DEF Writing, Drawn
  <2>4. OtherSlots(at[c]) /\ slots'[at[c]].serial = slots[at[c]].serial
    BY <2>2, <1>t, RequestSetFact, SessionSetFact
  <2>5. slots[at[c]].serial # 0
    BY <2>3, HeldIsOdd DEF SlotInv
  <2> QED BY <1>1, <2>1, <2>3, <2>4, <2>5
<1>6. CASE Release(c) \/ PublishRequest(c)
  <2>0. cpc[c] \in Writing /\ cpc[c] \in Drawn /\ cpc'[c] # "claim"
    BY <1>6, <1>t DEF Release, PublishRequest, Writing, Drawn
  <2>h. slots[at[c]].serial = mine[c] + 1 /\ slots[at[c]].serial # 0 /\ TicketOf(slots[at[c]].serial) = mine[c]
    BY <2>0, HeldIsOdd DEF SlotInv
  <2>1. UNCHANGED <<ticket, drawn, m_lastSerial, seen, mine>> /\ \A d \in Clients \ {c} : cpc'[d] = cpc[d]
    BY <1>6, <1>t DEF Release, PublishRequest, driver, history
  <2>2. SerialSet(at[c], 0) \/ SerialSet(at[c], mine[c])
    BY <1>6, <2>h DEF Release, PublishRequest, SerialSet
  <2>3. OtherSlots(at[c]) /\ (slots'[at[c]].serial = 0 \/ TicketOf(slots'[at[c]].serial) = TicketOf(slots[at[c]].serial))
    BY <2>2, <2>h, <1>t, SerialSetFact, ClaimedSerial, DefaultsType
  <2> QED BY <1>1, <2>0, <2>h, <2>1, <2>3
<1>7. CASE Claim(c)
  <2>1. CASE slots[at[c]].serial # 0
    <3>1. cpc[c] = "claim" /\ cpc'[c] \in {"claim", "idle"} /\ UNCHANGED <<slots, mine>>
          /\ \A d \in Clients \ {c} : cpc'[d] = cpc[d]
      BY <1>7, <2>1, <1>t DEF Claim
    <3> QED BY <1>1, <1>7, <3>1 DEF Claim, driver, history, Drawn
  <2>2. CASE slots[at[c]].serial = 0
    <3>1. cpc[c] = "claim" /\ cpc'[c] = "request" /\ SerialSet(at[c], mine[c] + 1)
          /\ UNCHANGED <<ticket, drawn, m_lastSerial, seen, mine>>
          /\ \A d \in Clients \ {c} : cpc'[d] = cpc[d]
      BY <1>7, <2>2, <1>t DEF Claim, SerialSet, driver, history
    <3>2. OtherSlots(at[c]) /\ TicketOf(slots'[at[c]].serial) = mine[c]
      BY <3>1, <1>t, SerialSetFact, ClaimedSerial
    <3>3. cpc[c] \in Drawn /\ cpc'[c] \in Drawn
      BY <3>1 DEF Drawn, Writing
    <3>4. SerialsRecent'
      <4>1. \A d \in Clients : cpc'[d] \in Drawn => Recent(mine[d])
        BY <3>1, <3>3 DEF TicketInv, SerialsRecent
      <4>2. \A i \in SlotIds : slots'[i].serial # 0 => Recent(TicketOf(slots'[i].serial))
        BY <3>2, <3>3 DEF TicketInv, SerialsRecent, OtherSlots
      <4> QED BY <3>1, <4>1, <4>2 DEF TicketInv, SerialsRecent, Recent
    <3>5. \A d, e \in Clients : d # e /\ cpc'[d] \in Drawn /\ cpc'[e] \in Drawn => mine'[d] # mine'[e]
      BY <3>1, <3>3 DEF TicketInv, TicketsDiffer
    <3>6. \A i, j \in SlotIds : i # j /\ slots'[i].serial # 0 /\ slots'[j].serial # 0 =>
            TicketOf(slots'[i].serial) # TicketOf(slots'[j].serial)
      BY <3>1, <3>2 DEF TicketInv, TicketsDiffer, OtherSlots
    <3>7. \A d \in Clients, i \in SlotIds : cpc'[d] = "claim" /\ slots'[i].serial # 0 =>
            TicketOf(slots'[i].serial) # mine'[d]
      BY <3>1, <3>2 DEF TicketInv, TicketsDiffer, OtherSlots, Drawn
    <3> QED BY <3>4, <3>5, <3>6, <3>7 DEF TicketInv, TicketsDiffer
  <2> QED BY <2>1, <2>2
<1> QED BY <1>2, <1>3, <1>4, <1>5, <1>6, <1>7 DEF ClientStep

-----------------------------------------------------------------------------
(* What the status answers.                                                *)

\* Serials in use are ordered, by their age.
LEMMA Comparable ==
  ASSUME TypeOK, NEW s \in Serials, NEW r \in Serials, Recent(s), Recent(r)
  PROVE  s = r \/ SerialNewer(s, r) \/ SerialNewer(r, s)
<1>1. /\ SerialNewer(s, r) <=> Gap(ticket, s) < Gap(ticket, r)
      /\ s # r => Gap(ticket, s) # Gap(ticket, r)
      /\ Gap(ticket, s) \in Nat
  BY NewerByAge
<1>2. /\ SerialNewer(r, s) <=> Gap(ticket, r) < Gap(ticket, s)
      /\ Gap(ticket, r) \in Nat
  BY NewerByAge
<1> QED BY <1>1, <1>2

\* Newer is transitive among the serials in use.
LEMMA NewerTransitive ==
  ASSUME TypeOK, NEW s \in Serials, NEW r \in Serials, NEW q \in Serials, Recent(s), Recent(r), Recent(q),
         SerialNewer(s, r), SerialNewer(r, q)
  PROVE  SerialNewer(s, q)
<1>1. Gap(ticket, s) < Gap(ticket, r) /\ Gap(ticket, r) < Gap(ticket, q)
      /\ Gap(ticket, s) \in Nat /\ Gap(ticket, r) \in Nat /\ Gap(ticket, q) \in Nat
  BY NewerByAge
<1>2. Gap(ticket, s) < Gap(ticket, q)
  BY <1>1
<1> QED BY <1>2, NewerByAge

\* What Process takes is newer than what was taken before, and after it every
\* request of this session that was read is answered.
LEMMA TakeFact ==
  ASSUME TypeOK, SlotInv, TicketInv, pc = "select", TakeRequest
  PROVE  /\ SerialNewer(m_lastSerial', m_lastSerial)
         /\ \A x \in Serials : Recent(x) /\ NotOlder(x) => SerialNewer(m_lastSerial', x)
         /\ \A i \in SlotIds : seen[i].serial # 0 /\ seen[i].session = m_session =>
              seen[i].serial = m_lastSerial' \/ SerialNewer(m_lastSerial', seen[i].serial)
         /\ \E r \in published : r.session = m_session /\ r.serial = m_lastSerial'
<1> DEFINE k == Newest(Candidates)
<1>1. k \in Candidates /\ \A j \in Candidates \ {k} : SerialNewer(seen[k].serial, seen[j].serial)
  BY NewestExists DEF TakeRequest
<1>2. m_lastSerial' = seen[k].serial
  BY DEF TakeRequest
<1> HIDE DEF k
<1>3. k \in SlotIds /\ seen[k].serial # 0 /\ seen[k].session = m_session /\ SerialNewer(seen[k].serial, m_lastSerial)
  BY <1>1 DEF Candidates
<1>4. Recent(seen[k].serial) /\ Recent(m_lastSerial) /\ seen[k].serial \in Serials /\ m_lastSerial \in Serials
  BY <1>3, SerialTypes DEF TicketInv, SerialsRecent
<1>5. ASSUME NEW x \in Serials, Recent(x), NotOlder(x) PROVE SerialNewer(seen[k].serial, x)
  BY <1>3, <1>4, <1>5, NewerTransitive DEF NotOlder
<1>6. ASSUME NEW i \in SlotIds, seen[i].serial # 0, seen[i].session = m_session
      PROVE  seen[i].serial = seen[k].serial \/ SerialNewer(seen[k].serial, seen[i].serial)
  <2>1. seen[i].serial \in Serials /\ Recent(seen[i].serial)
    BY <1>6, SerialTypes DEF TicketInv, SerialsRecent
  <2>2. CASE i \in Candidates
    BY <2>2, <1>1
  <2>3. CASE i \notin Candidates
    <3>1. ~SerialNewer(seen[i].serial, m_lastSerial)
      BY <2>3, <1>6 DEF Candidates
    <3>2. NotOlder(seen[i].serial)
      BY <3>1, <2>1, <1>4, Comparable DEF NotOlder
    <3> QED BY <3>2, <2>1, <1>5
  <2> QED BY <2>2, <2>3
<1>7. seen[k] \in published
  BY <1>3 DEF SlotInv, SeenPosted
<1> QED BY <1>2, <1>3, <1>5, <1>6, <1>7

\* What is answered after a step of the driver.
LEMMA DriverAnswers ==
  ASSUME TypeOK, HeaderInv, SlotInv, TicketInv, AckInv, Next, "init" \notin torn',
         \/ Initialize \/ Process \/ Sync \/ Crash
         \/ \E r \in submitted, state \in {"ACTIVE", "NORMAL", "FAILED"} : SetStatus(r, state)
  PROVE  AckInv'
<1>0. ~InitWipe /\ Slots \in Nat /\ SlotIds = 1..Slots /\ 1 \in SlotIds /\ (Crash => pc \in Up)
  BY TornGrows, ChannelConstants, SMTT(60) DEF HeaderInv, InitWipe, SlotIds, Crash, Up
<1>t. at \in [Clients -> SlotIds] /\ m_session \in Nat \ {0} /\ header \in [Clients -> Nat]
  BY DEF TypeOK, ClientType, DriverType
<1>1. ASSUME UNCHANGED <<slots, clients, published, ready, session, m_session, m_lastSerial>>,
             pc' \notin {"clear", "keep", "wipe", "header"}, pc \notin {"keep", "wipe", "header"}
      PROVE  AckInv'
  BY <1>1 DEF AckInv, Answered, SentSession, SentOrAnswered, Ranked, NotOlder, clients
<1>2. CASE InitBegin
  <2>1. Answered' /\ Ranked'
    BY <1>2 DEF InitBegin, Answered, Ranked
  <2>2. SentSession' /\ SentOrAnswered'
    BY <1>2 DEF InitBegin, AckInv, SentSession, SentOrAnswered, clients
  <2> QED BY <2>1, <2>2 DEF AckInv
<1>3. CASE InitKeep
  <2>1. Answered' /\ Ranked'
    BY <1>3 DEF InitKeep, Answered, Ranked
  <2>2. ~ready /\ ~ready'
    BY <1>3 DEF InitKeep, HeaderInv, Up
  <2>3. \A i \in SlotIds : slots'[i].serial # 0 => slots'[i] = slots[i]
    <3>1. CASE index <= Slots
      <4>1. slots' = [slots EXCEPT ![index] =
                 IF ReadRequest(index) # EmptySlot THEN [@ EXCEPT !.serial = 0] ELSE @]
        BY <1>3, <3>1 DEF InitKeep
      <4>2. index \in SlotIds
        BY <1>0, <3>1 DEF TypeOK, DriverType
      <4>3. SerialSet(index, 0) \/ slots' = slots
        BY <4>1, <4>2 DEF SerialSet, TypeOK, MemoryType
      <4> QED BY <4>3, <4>2, SerialSetFact, DefaultsType DEF TypeOK, MemoryType, OtherSlots
    <3>2. CASE ~(index <= Slots)
      BY <1>3, <3>2 DEF InitKeep
    <3> QED BY <3>1, <3>2
  <2>4. SentSession'
    <3>1. \A c \in Clients : cpc[c] = "sent" => mine[c] # 0
      BY DEF SlotInv, RealTicket, Drawn
    <3> QED BY <1>3, <1>t, <2>3, <3>1 DEF InitKeep, AckInv, SentSession, clients
  <2> QED BY <2>1, <2>2, <2>4 DEF AckInv, SentOrAnswered
<1>4. CASE InitHeader
  <2>1. Answered'
    BY <1>4 DEF InitHeader, Answered
  <2>2. Ranked'
    <3>1. \A c \in Clients : header'[c] # m_session'
      BY <1>4, <1>t DEF InitHeader, HeaderInv, clients
    <3> QED BY <3>1 DEF Ranked
  <2>3. SentSession' /\ SentOrAnswered'
    BY <1>4 DEF InitHeader, AckInv, SentSession, SentOrAnswered, HeaderInv, Up, clients
  <2> QED BY <2>1, <2>2, <2>3 DEF AckInv
<1>5. CASE InitFinish
  <2>1. Answered' /\ Ranked'
    BY <1>5 DEF InitFinish, AckInv, Answered, Ranked, clients, history
  <2>2. SentSession'
    BY <1>5 DEF InitFinish, AckInv, SentSession, clients
  <2>3. SentOrAnswered'
    <3>1. \A c \in Clients : header'[c] # session'
      BY <1>5, <1>t DEF InitFinish, HeaderInv, clients
    <3> QED BY <3>1 DEF SentOrAnswered
  <2> QED BY <2>1, <2>2, <2>3 DEF AckInv
<1>6. CASE ProcessBegin \/ ProcessRead
  BY <1>1, <1>6 DEF ProcessBegin, ProcessRead, memory, history
<1>7. CASE ProcessSelect
  <2>0. pc = "select" /\ pc' = "clear" /\ UNCHANGED <<slots, clients, published, ready, session, m_session, seen>>
    BY <1>7 DEF ProcessSelect
  <2>1. SentSession'
    BY <2>0 DEF AckInv, SentSession, clients
  <2>2. CASE TakeRequest
    <3>1. Answered'
      BY <2>0, <2>2, TakeFact DEF Answered, NotOlder
    <3>2. Ranked'
      BY <2>0, <2>2, TakeFact DEF Ranked
    <3>3. SentOrAnswered'
      <4>1. ASSUME NEW c \in Clients, cpc[c] = "sent", NotOlder(mine[c]) PROVE SerialNewer(m_lastSerial', mine[c])
        <5>1. mine[c] \in Serials /\ Recent(mine[c])
          BY <4>1, SerialTypes DEF TicketInv, SerialsRecent, Drawn
        <5> QED BY <2>0, <2>2, <4>1, <5>1, TakeFact
      <4> QED BY <2>0, <4>1 DEF AckInv, SentOrAnswered, NotOlder, clients
    <3> QED BY <2>1, <3>1, <3>2, <3>3 DEF AckInv
  <2>3. CASE Replay \/ NothingNew
    <3>0. m_lastSerial' = m_lastSerial /\ Candidates = {}
      BY <2>3 DEF Replay, NothingNew
    <3>1. Answered'
      <4>1. ASSUME NEW i \in SlotIds, seen[i].serial # 0, seen[i].session = m_session
            PROVE  NotOlder(seen[i].serial)
        <5>1. ~SerialNewer(seen[i].serial, m_lastSerial)
          BY <3>0, <4>1 DEF Candidates
        <5>2. seen[i].serial \in Serials /\ Recent(seen[i].serial) /\ m_lastSerial \in Serials /\ Recent(m_lastSerial)
          BY <4>1, SerialTypes DEF TicketInv, SerialsRecent
        <5> QED BY <5>1, <5>2, Comparable DEF NotOlder
      <4> QED BY <2>0, <3>0, <4>1 DEF Answered, NotOlder
    <3>2. Ranked'
      BY <2>0, <3>0 DEF AckInv, Ranked, clients
    <3>3. SentOrAnswered'
      BY <2>0, <3>0 DEF AckInv, SentOrAnswered, NotOlder, clients
    <3> QED BY <2>1, <3>1, <3>2, <3>3 DEF AckInv
  <2> QED BY <1>7, <2>2, <2>3 DEF ProcessSelect
<1>8. CASE ProcessClear
  <2>0. /\ pc = "clear" /\ pc' \in {"clear", "deadline"} /\ index \in SlotIds
        /\ UNCHANGED <<clients, published, ready, session, m_session, m_lastSerial, seen>>
        /\ slots' = slots \/ (SerialSet(index, 0) /\ slots[index].serial = seen[index].serial /\ seen[index].serial # 0)
    BY <1>8 DEF ProcessClear, SerialSet, TypeOK, DriverType, Up, history
  <2>1. Answered' /\ Ranked'
    BY <2>0 DEF AckInv, Answered, Ranked, NotOlder, clients
  <2>2. \A i \in SlotIds : slots'[i] = slots[i] \/ (i = index /\ slots'[i].serial = 0
           /\ slots[i].serial = seen[i].serial /\ seen[i].serial # 0)
    BY <2>0, SerialSetFact, DefaultsType DEF TypeOK, MemoryType, OtherSlots
  <2>3. SentSession'
    <3>1. \A c \in Clients : cpc[c] = "sent" => mine[c] # 0
      BY DEF SlotInv, RealTicket, Drawn
    <3> QED BY <2>0, <1>t, <2>2, <3>1 DEF AckInv, SentSession, clients
  <2>4. SentOrAnswered'
    <3>1. ASSUME NEW c \in Clients, cpc[c] = "sent", ready, session = header[c]
          PROVE  slots'[at[c]].serial = mine[c] \/ NotOlder(mine[c])
      <4>1. slots[at[c]].serial = mine[c] \/ NotOlder(mine[c])
        BY <3>1 DEF AckInv, SentOrAnswered
      <4>2. CASE slots'[at[c]] = slots[at[c]]
        BY <4>1, <4>2
      <4>3. CASE slots'[at[c]] # slots[at[c]] /\ slots[at[c]].serial = mine[c]
        <5>1. at[c] = index /\ seen[index].serial # 0 /\ at[c] \in SlotIds
          BY <4>3, <2>2, <1>t
        <5>2. index >= index
          BY <2>0, <1>0
        <5>3. slots[index] = seen[index]
          BY <2>0, <5>1, <5>2 DEF SlotInv, SeenStands, Unreclaimed
        <5>4. seen[index].session = header[c]
          BY <3>1, <4>3, <5>1, <5>3 DEF AckInv, SentSession
        <5>5. header[c] = m_session
          BY <3>1 DEF HeaderInv
        <5>6. NotOlder(seen[index].serial)
          BY <2>0, <5>1, <5>4, <5>5 DEF AckInv, Answered
        <5> QED BY <5>6, <5>3, <5>1, <4>3
      <4> QED BY <4>1, <4>2, <4>3
    <3> QED BY <2>0, <3>1 DEF SentOrAnswered, NotOlder, clients
  <2> QED BY <2>1, <2>3, <2>4 DEF AckInv
<1>9. ASSUME NEW expired \in BOOLEAN, ProcessEnd(expired) PROVE AckInv'
  BY <1>1, <1>9 DEF ProcessEnd, history
<1>10. CASE Sync
  BY <1>1, <1>10 DEF Sync, memory, history
<1>11. ASSUME NEW r \in submitted, NEW state \in {"ACTIVE", "NORMAL", "FAILED"}, SetStatus(r, state)
       PROVE  AckInv'
  BY <1>1, <1>11 DEF SetStatus, history
<1>12. CASE Crash
  BY <1>0, <1>1, <1>12 DEF Crash, Up, history
<1> QED BY <1>0, <1>2, <1>3, <1>4, <1>5, <1>6, <1>7, <1>8, <1>9, <1>10, <1>11, <1>12
        DEF Initialize, Process

\* What is answered after a step of a client.
LEMMA ClientAnswers ==
  ASSUME TypeOK, HeaderInv, SlotInv, TicketInv, AckInv, NEW c \in Clients,
         (\E mode \in WireModes : Begin(c, mode)) \/ ClientStep(c) \/ Interrupt(c)
  PROVE  AckInv'
<1>t. /\ slots \in [SlotIds -> SlotRec] /\ cpc \in [Clients -> ClientPcs] /\ mine \in [Clients -> Tickets]
      /\ at \in [Clients -> SlotIds] /\ header \in [Clients -> Nat]
      /\ at[c] \in SlotIds /\ mine[c] \in Tickets /\ mine[c] \in Serials /\ want[c] \in Requests /\ header[c] \in Nat
  BY DefaultsType DEF TypeOK, MemoryType, ClientType, Tickets
<1>d. UNCHANGED <<ready, session, pc, m_session, m_lastSerial, seen>> /\ published \subseteq published'
  BY DEF Begin, ClientStep, DrawTicket, Claim, WriteRequest, WriteSession, Recheck, Release, PublishRequest,
         Interrupt, memory, driver, history
<1>1. Answered'
  BY <1>d DEF AckInv, Answered, NotOlder
<1>c. \A d \in Clients \ {c} : cpc'[d] = cpc[d] /\ mine'[d] = mine[d] /\ at'[d] = at[d] /\ header'[d] = header[d]
  BY <1>t DEF Begin, ClientStep, DrawTicket, Claim, WriteRequest, WriteSession, Recheck, Release, PublishRequest,
              Interrupt
\* Whoever writes a slot holds it: it is nobody's posted request.
<1>2. ASSUME NEW d \in Clients \ {c}, cpc[d] = "sent"
      PROVE  /\ slots[at[d]].serial = mine[d] => slots'[at[d]] = slots[at[d]]
             /\ slots'[at[d]].serial = mine[d] => slots'[at[d]] = slots[at[d]]
  <2>d. mine[d] \in Tickets /\ mine[d] # 0 /\ ~IsOdd(mine[d]) /\ at[d] \in SlotIds
    BY <1>2, <1>t, ClaimedSerial DEF SlotInv, RealTicket, Drawn
  <2>1. CASE slots' = slots
    BY <2>1
  <2>2. CASE Claim(c) /\ slots[at[c]].serial = 0
    <3>1. SerialSet(at[c], mine[c] + 1)
      BY <2>2 DEF Claim, SerialSet
    <3>2. OtherSlots(at[c]) /\ IsOdd(slots'[at[c]].serial)
      BY <3>1, <1>t, SerialSetFact, ClaimedSerial
    <3> QED BY <2>2, <2>d, <3>2 DEF OtherSlots
  <2>3. CASE cpc[c] \in Writing
    <3>0. slots[at[c]].serial = mine[c] + 1 /\ IsOdd(slots[at[c]].serial)
      BY <2>3, HeldIsOdd DEF SlotInv
    <3>1. CASE WriteRequest(c) \/ WriteSession(c)
      <4>1. RequestSet(at[c], want[c]) \/ SessionSet(at[c], header[c])
        BY <3>1 DEF WriteRequest, WriteSession, RequestSet, SessionSet
      <4>2. OtherSlots(at[c]) /\ slots'[at[c]].serial = slots[at[c]].serial
        BY <4>1, <1>t, RequestSetFact, SessionSetFact
      <4> QED BY <3>0, <4>2, <2>d DEF OtherSlots
    <3>2. CASE Release(c) \/ PublishRequest(c)
      <4>1. SerialSet(at[c], 0) \/ SerialSet(at[c], mine[c])
        BY <3>2, <3>0 DEF Release, PublishRequest, SerialSet
      <4>2. OtherSlots(at[c]) /\ slots'[at[c]].serial \in {0, mine[c]}
        BY <4>1, <1>t, SerialSetFact, DefaultsType
      <4>3. mine[c] # mine[d]
        BY <1>2, <2>3 DEF TicketInv, TicketsDiffer, Drawn
      <4> QED BY <3>0, <4>2, <4>3, <2>d DEF OtherSlots
    <3>3. CASE ~(WriteRequest(c) \/ WriteSession(c)) /\ ~(Release(c) \/ PublishRequest(c))
      <4>1. slots' = slots
        BY <2>3, <3>3 DEF Begin, ClientStep, DrawTicket, Claim, Recheck, Interrupt, memory, Writing
      <4> QED BY <4>1
    <3> QED BY <3>1, <3>2, <3>3
  <2>4. slots' = slots \/ (Claim(c) /\ slots[at[c]].serial = 0) \/ cpc[c] \in Writing
    BY DEF Begin, ClientStep, DrawTicket, Claim, WriteRequest, WriteSession, Recheck, Release, PublishRequest,
           Interrupt, memory, Writing
  <2> QED BY <2>1, <2>2, <2>3, <2>4
<1>3. cpc'[c] = "sent" => slots'[at'[c]].serial = mine'[c] /\ slots'[at'[c]].session = header'[c]
  <2> SUFFICES ASSUME cpc'[c] = "sent"
               PROVE  slots'[at'[c]].serial = mine'[c] /\ slots'[at'[c]].session = header'[c]
    OBVIOUS
  <2>1. PublishRequest(c)
    BY <1>t DEF Begin, ClientStep, DrawTicket, Claim, WriteRequest, WriteSession, Recheck, Release, Interrupt
  <2>2. SerialSet(at[c], mine[c]) /\ cpc[c] = "publish" /\ UNCHANGED <<at, mine, header>>
    BY <2>1, <1>t DEF PublishRequest, SerialSet
  <2>3. slots[at[c]].session = header[c]
    BY <2>2 DEF SlotInv, OwnSession
  <2> QED BY <2>2, <2>3, <1>t, SerialSetFact
<1>4. SentSession'
  BY <1>c, <1>2, <1>3 DEF AckInv, SentSession
<1>5. SentOrAnswered'
  BY <1>c, <1>d, <1>2, <1>3 DEF AckInv, SentOrAnswered, NotOlder
<1>6. Ranked'
  <2> SUFFICES ASSUME pc \notin {"keep", "wipe", "header"},
                      ~ \E r \in published : r.session = m_session /\ r.serial = m_lastSerial,
                      NEW d \in Clients, header'[d] = m_session, cpc'[d] \in Drawn
               PROVE  SerialNewer(mine'[d], m_lastSerial)
    BY <1>d DEF Ranked
  <2>1. \A e \in Clients : header[e] = m_session /\ cpc[e] \in Drawn => SerialNewer(mine[e], m_lastSerial)
    BY DEF AckInv, Ranked
  <2>2. CASE d # c
    BY <2>1, <2>2, <1>c
  <2>3. CASE d = c /\ DrawTicket(c)
    <3>1. drawn <= MaxTickets /\ ticket' = NextTicket /\ drawn' = drawn + 1 /\ mine'[c] = NextTicket
      BY <2>3, <1>t, ChannelConstants DEF DrawTicket, TypeOK, HistoryType
    <3>2. m_lastSerial \in Serials /\ Recent(m_lastSerial)
      BY SerialTypes DEF TicketInv, SerialsRecent
    <3> QED BY <2>3, <3>1, <3>2, DrawFact
  <2>4. CASE d = c /\ ~DrawTicket(c)
    <3>1. cpc[c] \in Drawn /\ mine'[c] = mine[c] /\ header'[c] = header[c]
      BY <2>4, <1>t DEF Begin, ClientStep, Claim, WriteRequest, WriteSession, Recheck, Release, PublishRequest,
                   Interrupt, Drawn, Writing
    <3> QED BY <2>1, <2>4, <3>1
  <2> QED BY <2>2, <2>3, <2>4
<1> QED BY <1>1, <1>4, <1>5, <1>6 DEF AckInv

-----------------------------------------------------------------------------
(* Theorems.                                                               *)

\* Everything above, as long as no driver has died inside Initialize.
ChannelInv ==
  /\ "init" \notin CrashPoints => "init" \notin torn
  /\ "init" \notin torn => Good

\* The region as an earlier driver left it.
LEMMA InitGood ==
  ASSUME Init
  PROVE  ChannelInv
<1>0. /\ Slots \in Nat /\ SlotIds = 1..Slots /\ 1 \in SlotIds /\ InitTicket \in Tickets /\ MaxTickets \in Nat
      /\ InitTicket \in Serials /\ InitTicket \in Nat
  BY ChannelConstants DEF SlotIds, Tickets, Serials
<1> USE DEF Init
<1>1. MemoryType
  BY <1>0, DefaultsType DEF MemoryType, StatusRec, Requests, WireModes, States
<1>2. DriverType
  <2>1. submitted = {} /\ index \in 1 .. Slots + 1 /\ seen \in [SlotIds -> SlotRec] /\ m_request \in Requests
    BY <1>0, DefaultsType DEF Requests, WireModes
  <2>2. m_replay \in BOOLEAN /\ m_waiting \in BOOLEAN /\ m_syncReady \in BOOLEAN
    BY Zenon
  <2>3. m_session \in Nat \ {0}
    OBVIOUS
  <2> QED BY <1>0, <2>1, <2>2, <2>3 DEF DriverType, Up
<1>3. ClientType
  BY <1>0, DefaultsType DEF ClientType, ClientPcs, WireModes
<1>4. HistoryType /\ SeenEven
  BY <1>0, DefaultsType DEF HistoryType, SeenEven, Requests, WireModes
<1>5. HeaderInv /\ ModeInv
  BY <1>0 DEF HeaderInv, ModeInv, Up, WireModes
<1>6. \A i \in SlotIds : slots[i].serial = 0 /\ seen[i].serial = 0
  BY DefaultsType
<1>7. \A c \in Clients : cpc[c] = "idle"
  OBVIOUS
<1>8. SlotInv
  BY <1>6, <1>7 DEF SlotInv, SlotIntegrity, OwnSlot, OwnRequest, OwnSession, OneWriter, RealTicket, SeenPosted,
                    SeenStands, Writing, Drawn
<1>9. TicketInv
  BY <1>0, <1>6, <1>7, SMTT(60) DEF TicketInv, SerialsRecent, TicketsDiffer, Recent, Gap, Drawn, Writing
<1>10. AckInv
  BY <1>6, <1>7 DEF AckInv, Answered, SentSession, SentOrAnswered, Ranked, Drawn, Writing
<1> QED BY <1>1, <1>2, <1>3, <1>4, <1>5, <1>8, <1>9, <1>10 DEF ChannelInv, Good, TypeOK

\* Every step keeps the invariant.
LEMMA StepGood ==
  ASSUME ChannelInv, [Next]_vars
  PROVE  ChannelInv'
<1>1. CASE UNCHANGED vars
  <2> USE <1>1 DEF vars, memory, driver, clients, history
  <2>1. TypeOK => TypeOK'
    BY DEF TypeOK, MemoryType, DriverType, ClientType, HistoryType, SeenEven
  <2>2. HeaderInv /\ ModeInv => HeaderInv' /\ ModeInv'
    BY DEF HeaderInv, ModeInv
  <2>3. SlotInv => SlotInv'
    BY DEF SlotInv, SlotIntegrity, OwnSlot, OwnRequest, OwnSession, OneWriter, RealTicket, SeenPosted,
           SeenStands, Unreclaimed
  <2>4. TicketInv => TicketInv'
    BY DEF TicketInv, SerialsRecent, TicketsDiffer, Recent
  <2>5. AckInv => AckInv'
    BY DEF AckInv, Answered, SentSession, SentOrAnswered, Ranked, NotOlder
  <2> QED BY <2>1, <2>2, <2>3, <2>4, <2>5 DEF ChannelInv, Good
<1>2. CASE Next
  <2>1. "init" \notin CrashPoints => "init" \notin torn'
    <3>1. CASE UNCHANGED torn
      BY <3>1 DEF ChannelInv
    <3>2. CASE Crash
      BY <3>2 DEF Crash, ChannelInv, InitWindow
    <3> QED BY <1>2, <3>1, <3>2 DEF Next
  <2>2. ASSUME "init" \notin torn' PROVE Good'
    <3>1. Good /\ "init" \notin torn
      BY <1>2, <2>2, TornGrows DEF ChannelInv
    <3>2. TypeOK /\ HeaderInv /\ ModeInv /\ SlotInv /\ TicketInv /\ AckInv
      BY <3>1 DEF Good
    <3>3. HeaderInv' /\ ModeInv'
      BY <1>2, <2>2, <3>2, HeaderStep, ModeStep
    <3>4. CASE \/ Initialize \/ Process \/ Sync \/ Crash
               \/ \E r \in submitted, state \in {"ACTIVE", "NORMAL", "FAILED"} : SetStatus(r, state)
      <4>1. SlotInv' /\ TicketInv' /\ AckInv'
        BY <1>2, <2>2, <3>2, <3>4, DriverSlots, DriverTickets, DriverAnswers
      <4>2. ~InitWipe
        BY <3>1, <3>2 DEF HeaderInv, InitWipe
      <4>3. Crash \/ UNCHANGED torn
        BY <1>2 DEF Next
      <4>4. CASE Crash
        BY <3>2, <4>4, OtherTypes, <4>1, <3>3 DEF Good
      <4>5. CASE ~Crash
        <5>1. TypeOK'
          BY <3>2, <3>4, <4>2, <4>3, <4>5, DriverTypes, ProcessTypes, OtherTypes DEF Initialize
        <5> QED BY <5>1, <4>1, <3>3 DEF Good
      <4> QED BY <4>4, <4>5
    <3>5. ASSUME UNCHANGED torn, NEW c \in Clients,
                 (\E mode \in WireModes : Begin(c, mode)) \/ ClientStep(c) \/ Interrupt(c)
          PROVE  Good'
      BY <3>2, <3>3, <3>5, ClientTypes, ClientSlots, ClientTickets, ClientAnswers DEF Good
    <3> QED BY <1>2, <3>4, <3>5 DEF Next, Running
  <2> QED BY <2>1, <2>2 DEF ChannelInv
<1> QED BY <1>1, <1>2

\* The channel keeps its invariant, for any number of clients, slots and
\* restarts, with clients and drivers dying between any two accesses.
THEOREM ChannelInductive == Spec => []ChannelInv
<1>1. Init => ChannelInv
  BY InitGood
<1>2. ChannelInv /\ [Next]_vars => ChannelInv'
  BY StepGood
<1> QED BY <1>1, <1>2, PTL DEF Spec

\* A published slot holds exactly what the writer of its serial meant.
THEOREM SlotIntegrityHolds == Spec => []SlotIntegrityKept
<1>1. ChannelInv => SlotIntegrityKept
  BY DEF ChannelInv, Good, SlotInv, SlotIntegrityKept
<1> QED BY <1>1, ChannelInductive, PTL

\* No client sees its posted request gone while the status of the driver it
\* addressed still acknowledges something older.
THEOREM AckBeforeReclaimHolds == Spec => []AckBeforeReclaim
<1>1. ChannelInv => AckBeforeReclaim
  <2> SUFFICES ASSUME Good, NEW c \in Clients, cpc[c] = "sent", ready, session = header[c], status.stable
               PROVE  slots[at[c]].serial = mine[c] \/ Acked(c)
    BY DEF ChannelInv, AckBeforeReclaim
  <2>1. status.ackSerial = m_lastSerial
    BY DEF Good, HeaderInv
  <2>2. slots[at[c]].serial = mine[c] \/ NotOlder(mine[c])
    BY DEF Good, AckInv, SentOrAnswered
  <2> QED BY <2>1, <2>2 DEF Acked, NotOlder
<1> QED BY <1>1, ChannelInductive, PTL

\* A driver restart does not lose the mode.
THEOREM ModeSurvivesRestartHolds == Spec => []ModeSurvivesRestart
<1>1. ChannelInv => ModeSurvivesRestart
  BY DEF ChannelInv, Good, ModeInv, ModeSurvivesRestart
<1> QED BY <1>1, ChannelInductive, PTL

\* A posted request is passed over only for a newer posted one, as long as no
\* driver has died inside Initialize.
THEOREM NotOutrankedHolds == Spec => []("init" \in torn \/ NotOutranked)
<1>1. ChannelInv => "init" \in torn \/ NotOutranked
  BY DEF ChannelInv, Good, AckInv, Ranked, NotOutranked, Drawn
<1> QED BY <1>1, ChannelInductive, PTL

\* Within one session the acknowledged serial only moves forward, if drivers
\* do not die inside Initialize.
THEOREM AckMovesForwardHolds ==
  ASSUME "init" \notin CrashPoints PROVE Spec => AckMovesForward
<1>1. ASSUME ChannelInv, ChannelInv', [Next]_vars, ready, ready', session' = session,
             status.stable, status'.stable
      PROVE  status'.ackSerial = status.ackSerial \/ SerialNewer(status'.ackSerial, status.ackSerial)
  <2>1. Good /\ Good' /\ "init" \notin torn'
    BY <1>1 DEF ChannelInv
  <2>2. status.ackSerial = m_lastSerial /\ status'.ackSerial = m_lastSerial'
    BY <1>1, <2>1 DEF Good, HeaderInv
  <2>3. CASE ProcessSelect
    <3>1. CASE TakeRequest
      BY <2>1, <2>2, <2>3, <3>1, TakeFact DEF Good, ProcessSelect
    <3>2. CASE Replay \/ NothingNew
      BY <2>2, <3>2 DEF Replay, NothingNew
    <3> QED BY <2>3, <3>1, <3>2 DEF ProcessSelect
  <2>4. CASE ~ProcessSelect
    <3>1. ~InitHeader
      BY <1>1, <2>1, Zenon DEF InitHeader, Good, HeaderInv, Up
    <3>2. m_lastSerial' = m_lastSerial
      BY <1>1, <2>4, <3>1, ZenonT(60)
      DEF Next, Running, Initialize, Process, InitBegin, InitKeep, InitWipe, InitFinish, ProcessBegin,
          ProcessRead, ProcessClear, ProcessEnd, Sync, SetStatus, Crash, Begin, ClientStep, DrawTicket,
          Claim, WriteRequest, WriteSession, Recheck, Release, PublishRequest, Interrupt, vars, driver
    <3> QED BY <2>2, <3>2
  <2> QED BY <2>3, <2>4
<1>2. ChannelInv /\ ChannelInv' /\ [Next]_vars =>
        [(ready /\ ready' /\ session' = session /\ status.stable /\ status'.stable) =>
           \/ status'.ackSerial = status.ackSerial
           \/ SerialNewer(status'.ackSerial, status.ackSerial)]_vars
  BY <1>1
<1> QED BY <1>2, ChannelInductive, PTL DEF Spec, AckMovesForward
=============================================================================

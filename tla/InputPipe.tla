----------------------------- MODULE InputPipe -----------------------------
(***************************************************************************)
(* The way of an input report through the guest: the sink in the display   *)
(* driver (CInputPipeServer), the named pipe (CPipeEndpoint), its reader   *)
(* in the input driver (CInputPipeClient) and the virtual HID device       *)
(* (CHIDDevice) whose reports Windows reads.                               *)
(*                                                                         *)
(* A report is abstracted to what it holds down: the one button of a mouse *)
(* report, the ordinary key and the media key of a keyboard report.  Of    *)
(* motion only the flag pureMotion and the outcome of a coalescing sum are *)
(* left.  m_state is odd while the sink takes reports; every loss of the   *)
(* connection and every resynchronisation advances it, and an item that is *)
(* stamped with another state is not sent.                                 *)
(***************************************************************************)
EXTENDS Integers, Sequences, SequencesExt

CONSTANTS
  QUEUE_LENGTH,         \* items the server queues (128)
  REPORT_QUEUE_LENGTH,  \* reports the HID device queues (64)
  PIPE_LENGTH,          \* messages that fit in the pipe's buffer
  MaxState,             \* bound on m_state
  MaxSequence           \* bound on the messages of a connection

ASSUME LengthAssumption ==
  /\ QUEUE_LENGTH \in Nat \ {0, 1}
  /\ REPORT_QUEUE_LENGTH \in Nat \ {0, 1, 2}
  /\ PIPE_LENGTH \in Nat \ {0}

(* The coalescing thresholds of the two queues.                            *)
MOTION_COALESCE_THRESHOLD == QUEUE_LENGTH \div 2
REPORT_COALESCE_THRESHOLD == REPORT_QUEUE_LENGTH \div 2

MouseTypes == {"relative", "absolute"}
HeldBy(type) == IF type = "keyboard" THEN SUBSET {"key", "media"}
                                     ELSE SUBSET {"button"}

None == [type |-> "none"]

VARIABLES
  m_state,      \* generation of the sink, odd while it takes reports
  m_queue,      \* items to send
  m_mouseMode,  \* mouse of the last report queued
  m_buttons,    \* per mouse: what its last report queued holds
  m_sequence,   \* messages sent on this connection
  sending,      \* item the sender thread has in hand
  m_connected,  \* the server's endpoint may write
  reading,      \* the server's endpoint is between OnPipeConnected and
                \* OnPipeDisconnected
  link,         \* the pipe: "listen", "up", "serverGone", "clientGone"
  wire,         \* messages in the pipe
  running,      \* the client's endpoint runs
  m_lastSequence,
  dev,          \* the HID device: its queue, what it was last given, a read
                \* of Windows that waits for a report, what Windows sees held
  asked,        \* history: what the last keyboard report accepted holds
  cut           \* history: a mouse report was discarded after the button
                \* state had been changed to what it said (dev.cut likewise)

server == <<m_state, m_queue, m_mouseMode, m_buttons>>
pipe   == <<m_connected, reading, link, wire>>
vars   == <<server, m_sequence, sending, pipe, running, m_lastSequence, dev,
            asked, cut>>

Odd(n) == n % 2 = 1

-----------------------------------------------------------------------------
(* CInputPipeServer: the queue                                             *)

Item(type, held, motion, state) ==
  [type |-> type, held |-> held, motion |-> motion, state |-> state]

(* QueueRawLocked refuses an item that makes the queue too long.           *)
QueueFull(q) == Len(q) > QUEUE_LENGTH

HasMouse(s) == \E i \in 1..Len(s) : s[i].type \in MouseTypes

(* What QueueResetLocked queues: the release of the current mouse, if it   *)
(* is not known to be released, and an empty keyboard report.              *)
ResetItems(state) ==
  (IF m_mouseMode \in MouseTypes /\ m_buttons[m_mouseMode] # {}
     THEN <<Item(m_mouseMode, {}, FALSE, state)>> ELSE << >>)
    \o <<Item("keyboard", {}, FALSE, state)>>

Neutralised ==
  /\ m_mouseMode' = "none"
  /\ m_buttons'   = [t \in MouseTypes |-> {}]

(* ResyncLocked: drop the queue, start a new state and queue a reset.      *)
ResyncLocked ==
  /\ m_state' = m_state + 2
  /\ m_state' <= MaxState
  /\ m_queue' = ResetItems(m_state')
  /\ asked'   = {}
  /\ cut'     = (cut \/ HasMouse(m_queue) \/ sending.type \in MouseTypes)
  /\ Neutralised

(* QueueLocked: the queue with the item added.  Pure motion is merged with *)
(* the tail, relative motion only if the sum fits.                         *)
QueueLocked(q, item) ==
  LET merges == /\ q # << >>
                /\ Last(q).type = item.type
                /\ Last(q).motion /\ item.motion
                /\ Last(q).held = item.held
                /\ item.type = "relative" =>
                     Len(q) >= MOTION_COALESCE_THRESHOLD
  IN IF ~merges THEN {Append(q, item)}
     ELSE IF item.type = "relative" THEN {q, Append(q, item)}
     ELSE {q}

(* SendMouseRelative and SendMouseAbsolute: a mouse that takes over from   *)
(* the other one releases its buttons first.  A report with the buttons of *)
(* the one before it is pure motion unless the wheel turns.                *)
Other(type) == CHOOSE t \in MouseTypes : t # type

Switch(type) ==
  IF m_mouseMode = Other(type) /\ m_buttons[Other(type)] # {}
    THEN <<Item(Other(type), {}, FALSE, m_state)>> ELSE << >>

SendMouse(type, held, motion) ==
  /\ Odd(m_state)
  /\ motion => held = m_buttons[type]
  /\ \E queue \in QueueLocked(m_queue \o Switch(type),
                               Item(type, held, motion, m_state)) :
       \/ /\ QueueFull(queue)
          /\ ResyncLocked
       \/ /\ ~QueueFull(queue)
          /\ m_queue'     = queue
          /\ m_mouseMode' = type
          /\ m_buttons'   = [m_buttons EXCEPT ![type] = held,
                 ![Other(type)] = IF m_mouseMode = Other(type) THEN {} ELSE @]
          /\ UNCHANGED <<m_state, asked, cut>>
  /\ UNCHANGED <<m_sequence, sending, pipe, running, m_lastSequence, dev>>

SendKeyboard(held) ==
  LET queue == Append(m_queue, Item("keyboard", held, FALSE, m_state))
  IN /\ Odd(m_state)
     /\ \/ /\ QueueFull(queue)
           /\ ResyncLocked
        \/ /\ ~QueueFull(queue)
           /\ m_queue' = queue
           /\ asked'   = held
           /\ UNCHANGED <<m_state, m_mouseMode, m_buttons, cut>>
     /\ UNCHANGED <<m_sequence, sending, pipe, running, m_lastSequence, dev>>

Reset ==
  LET queue == m_queue \o ResetItems(m_state)
  IN /\ Odd(m_state)
     /\ \/ /\ QueueFull(queue)
           /\ ResyncLocked
        \/ /\ ~QueueFull(queue)
           /\ m_queue' = queue
           /\ asked'   = {}
           /\ Neutralised
           /\ UNCHANGED <<m_state, cut>>
     /\ UNCHANGED <<m_sequence, sending, pipe, running, m_lastSequence, dev>>

-----------------------------------------------------------------------------
(* CInputPipeServer: the sender thread and the connection                  *)

Pop ==
  /\ sending = None
  /\ m_queue # << >>
  /\ sending' = Head(m_queue)
  /\ m_queue' = Tail(m_queue)
  /\ UNCHANGED <<m_state, m_mouseMode, m_buttons, m_sequence, pipe, running,
                 m_lastSequence, dev, asked, cut>>

Current_AnyOdd(item) == Odd(m_state)

Current(item) == Odd(m_state) /\ item.state = m_state

Message(item, sequence) ==
  [type |-> item.type, held |-> item.held, sequence |-> sequence]

(* Send: an item of another state is dropped; a write that fails marks the *)
(* endpoint disconnected and leaves the item in hand for Invalidate, which *)
(* takes the connection lock anew.                                         *)
Send_CountsStale ==
  /\ sending.type \notin {"none", "failed"}
  /\ m_sequence < MaxSequence
  /\ m_sequence' = m_sequence + 1
  /\ \/ /\ ~Current(sending)
        /\ sending' = None
        /\ UNCHANGED <<m_connected, wire>>
     \/ /\ Current(sending)
        /\ m_connected /\ link = "up" /\ Len(wire) < PIPE_LENGTH
        /\ wire'    = Append(wire, Message(sending, m_sequence'))
        /\ sending' = None
        /\ UNCHANGED m_connected
     \/ /\ Current(sending)
        /\ m_connected' = FALSE
        /\ sending' = [type |-> "failed", state |-> sending.state]
        /\ UNCHANGED wire
  /\ UNCHANGED <<server, reading, link, running, m_lastSequence, dev, asked,
                 cut>>

Send ==
  /\ sending.type \notin {"none", "failed"}
  /\ \/ /\ ~Current(sending)
        /\ sending' = None
        /\ UNCHANGED <<m_sequence, m_connected, wire>>
     \/ /\ Current(sending)
        /\ m_sequence < MaxSequence
        /\ m_sequence' = m_sequence + 1
        /\ m_connected /\ link = "up" /\ Len(wire) < PIPE_LENGTH
        /\ wire'    = Append(wire, Message(sending, m_sequence'))
        /\ sending' = None
        /\ UNCHANGED m_connected
     \/ /\ Current(sending)
        /\ m_sequence  <= MaxSequence
        /\ m_sequence'  = m_sequence + 1
        /\ m_connected' = FALSE
        /\ sending' = [type |-> "failed", state |-> sending.state]
        /\ UNCHANGED wire
  /\ UNCHANGED <<server, reading, link, running, m_lastSequence, dev, asked,
                 cut>>

InvalidateState ==
  /\ m_state' = m_state + 1
  /\ m_queue' = << >>

(* Invalidate(state, true)                                                 *)
Invalidate(state) ==
  IF Odd(m_state) /\ state = m_state THEN InvalidateState
                                     ELSE UNCHANGED <<m_state, m_queue>>

SendFailed ==
  /\ sending.type = "failed"
  /\ Invalidate(sending.state)
  /\ sending' = None
  /\ UNCHANGED <<m_mouseMode, m_buttons, m_sequence, pipe, running,
                 m_lastSequence, dev, asked, cut>>

NewState == IF Odd(m_state) THEN m_state + 2 ELSE m_state + 1

(* RunServer accepts a client and calls OnPipeConnected, which starts a    *)
(* new state with a reset of the keyboard; the mouse is taken for          *)
(* released.                                                               *)
ServerConnected ==
  /\ ~reading
  /\ link \in {"up", "clientGone"}
  /\ NewState <= MaxState
  /\ m_connected' = TRUE
  /\ reading'     = TRUE
  /\ m_state'     = NewState
  /\ m_queue'     = <<Item("keyboard", {}, FALSE, NewState)>>
  /\ m_sequence'  = 0
  /\ asked'       = {}
  /\ Neutralised
  /\ UNCHANGED <<sending, link, wire, running, m_lastSequence, dev, cut>>

(* The server's read loop ends: OnPipeDisconnected, DisconnectNamedPipe.   *)
ServerDisconnected ==
  /\ reading
  /\ reading'     = FALSE
  /\ m_connected' = FALSE
  /\ link' = IF link = "up" THEN "serverGone" ELSE "listen"
  /\ wire' = << >>
  /\ IF Odd(m_state) THEN InvalidateState ELSE UNCHANGED <<m_state, m_queue>>
  /\ UNCHANGED <<m_mouseMode, m_buttons, m_sequence, sending, running,
                 m_lastSequence, dev, asked, cut>>

(* DeInit and Init of a driver that is restarted.                          *)
ServerRestarts ==
  /\ m_state # 0
  /\ reading'     = FALSE
  /\ m_connected' = FALSE
  /\ link' = IF link \in {"up", "serverGone"} THEN "serverGone" ELSE "listen"
  /\ wire'        = << >>
  /\ m_state'     = 0
  /\ m_queue'     = << >>
  /\ sending'     = None
  /\ asked'       = {}
  /\ Neutralised
  /\ UNCHANGED <<m_sequence, running, m_lastSequence, dev, cut>>

-----------------------------------------------------------------------------
(* CHIDDevice: operators on the device record                              *)

ReportTypes == MouseTypes \cup {"keyboard", "consumer"}

Report(type, held, motion) == [type |-> type, held |-> held, motion |-> motion]

(* CompactStaleMotion: the first absolute motion that a later absolute     *)
(* report, or the one that comes in, makes obsolete.                       *)
Stale(q, type) ==
  {i \in 1..Len(q) :
     /\ q[i].type = "absolute" /\ q[i].motion
     /\ type = "absolute" \/ \E j \in i + 1..Len(q) : q[j].type = "absolute"}

First(S) == CHOOSE i \in S : \A j \in S : i <= j

Absorbed_AnyHeld(q, r, fits) ==
  /\ q # << >>
  /\ Last(q).type = r.type
  /\ \/ r.type = "keyboard"
     \/ r.type \in MouseTypes /\ Last(q).motion /\ r.motion
        /\ (r.type = "relative" =>
              Len(q) >= REPORT_COALESCE_THRESHOLD /\ fits)

(* QueueReport merges what the tail already says.                          *)
Absorbed(q, r, fits) ==
  /\ q # << >>
  /\ Last(q).type = r.type
  /\ Last(q).held = r.held
  /\ \/ r.type = "keyboard"
     \/ r.type \in MouseTypes /\ Last(q).motion /\ r.motion
        /\ (r.type = "relative" =>
              Len(q) >= REPORT_COALESCE_THRESHOLD /\ fits)

QueueReport(d, r, fits) ==
  IF Absorbed(d.reports, r, fits) THEN d
  ELSE IF Len(d.reports) < REPORT_QUEUE_LENGTH
    THEN [d EXCEPT !.reports = Append(@, r)]
  ELSE IF Stale(d.reports, r.type) # {}
    THEN [d EXCEPT !.reports =
            Append(RemoveAt(@, First(Stale(@, r.type))), r)]
  ELSE [d EXCEPT !.overflow = TRUE]

(* What is kept of a report that was taken.                                *)
Recorded(d, r) ==
  IF d.overflow THEN d
  ELSE IF r.type \in MouseTypes
    THEN [d EXCEPT !.mouseMode = r.type, !.buttons[r.type] = r.held]
  ELSE IF r.type = "consumer" THEN [d EXCEPT !.consumerUsage = r.held]
  ELSE d

(* SubmitReport: a waiting read takes the report, else it is queued.       *)
SubmitReport(d, type, held, motion, fits) ==
  LET pure == motion /\ type = d.mouseMode /\ held = d.buttons[type]
      r    == Report(type, held, pure)
  IN IF d.overflow \/ (type = "consumer" /\ d.consumerUsage = held) THEN d
     ELSE IF d.readPending
       THEN Recorded([d EXCEPT !.readPending = FALSE, !.guest[type] = held], r)
       ELSE Recorded(QueueReport(d, r, fits), r)

Submit(d, type, held) == SubmitReport(d, type, held, FALSE, FALSE)

(* ResetReports: drop the queue, then release the mouse that was last      *)
(* given a report, if that report held anything, and the keyboard.         *)
ResetReports_KeepUsage(d) ==
  LET held  == d.mouseMode \in MouseTypes /\ d.buttons[d.mouseMode] # {}
      empty == [d EXCEPT !.reports = << >>, !.mouseMode = "none",
                  !.buttons = [t \in MouseTypes |-> {}], !.overflow = FALSE,
                  !.cut = @ \/ HasMouse(d.reports)]
      mouse == IF held THEN Submit(empty, d.mouseMode, {}) ELSE empty
  IN Submit(Submit(mouse, "keyboard", {}), "consumer", {})

ResetReports(d) ==
  LET held  == d.mouseMode \in MouseTypes /\ d.buttons[d.mouseMode] # {}
      empty == [d EXCEPT !.reports = << >>, !.mouseMode = "none",
                  !.buttons = [t \in MouseTypes |-> {}],
                  !.consumerUsage = {"unknown"}, !.overflow = FALSE,
                  !.cut = @ \/ HasMouse(d.reports)]
      mouse == IF held THEN Submit(empty, d.mouseMode, {}) ELSE empty
  IN Submit(Submit(mouse, "keyboard", {}), "consumer", {})

(* IOCTL_HID_READ_REPORT                                                   *)
ReadReport ==
  /\ ~dev.readPending
  /\ dev' = IF dev.reports = << >> THEN [dev EXCEPT !.readPending = TRUE]
            ELSE [dev EXCEPT !.reports = Tail(@),
                    !.guest[Head(dev.reports).type] = Head(dev.reports).held]
  /\ UNCHANGED <<server, m_sequence, sending, pipe, running, m_lastSequence,
                 asked, cut>>

-----------------------------------------------------------------------------
(* CInputPipeClient                                                        *)

ClientConnected ==
  /\ running /\ link = "listen"
  /\ link' = "up"
  /\ m_lastSequence' = 0
  /\ UNCHANGED <<server, m_sequence, sending, m_connected, reading, wire,
                 running, dev, asked, cut>>

(* OnPipeDisconnected resets the device.                                   *)
Disconnect(d) ==
  /\ link' = IF link = "up" THEN "clientGone" ELSE "listen"
  /\ wire' = << >>
  /\ m_lastSequence' = 0
  /\ dev' = ResetReports(d)

(* HandleMouse*: a motion too large for one report is split in several.    *)
HandleMouse(d, m, motion, fits, n) ==
  LET once == SubmitReport(d, m.type, m.held, motion, fits)
  IN IF n = 1 THEN once ELSE SubmitReport(once, m.type, m.held, motion, fits)

(* HandleKeyboard: media keys go into a report of their own.               *)
HandleKeyboard(d, m) ==
  Submit(Submit(d, "keyboard", m.held \ {"media"}),
         "consumer", m.held \cap {"media"})

(* OnPipeMessage; a message it refuses ends the connection.                *)
OnPipeMessage(motion, fits, n) ==
  LET m  == Head(wire)
      ok == m_lastSequence = 0 \/ m.sequence = m_lastSequence + 1
      d  == IF ~ok THEN dev
            ELSE IF m.type = "keyboard" THEN HandleKeyboard(dev, m)
            ELSE HandleMouse(dev, m, motion, fits, n)
  IN /\ link = "up" /\ wire # << >>
     /\ m.type = "keyboard" => ~motion /\ n = 1
     /\ fits => motion
     /\ IF ok /\ ~d.overflow
          THEN /\ dev'  = d
               /\ wire' = Tail(wire)
               /\ m_lastSequence' = m.sequence
               /\ UNCHANGED link
          ELSE Disconnect(ResetReports(d))
     /\ UNCHANGED <<server, m_sequence, sending, m_connected, reading,
                    running, asked, cut>>

(* The client's read loop ends: the server went away, or a read failed.    *)
ClientDisconnected ==
  /\ link \in {"up", "serverGone"}
  /\ Disconnect(dev)
  /\ UNCHANGED <<server, m_sequence, sending, m_connected, reading, running,
                 asked, cut>>

(* Stop, when the device is suspended: the endpoint's thread reports the   *)
(* loss of the connection, then Stop resets the device itself.             *)
ClientStops ==
  /\ running
  /\ running' = FALSE
  /\ IF link \in {"up", "serverGone"}
       THEN Disconnect(ResetReports(dev))
       ELSE /\ dev' = ResetReports(dev)
            /\ m_lastSequence' = 0
            /\ UNCHANGED <<link, wire>>
  /\ UNCHANGED <<server, m_sequence, sending, m_connected, reading, asked,
                 cut>>

ClientStarts ==
  /\ ~running
  /\ running' = TRUE
  /\ m_lastSequence' = 0
  /\ UNCHANGED <<server, m_sequence, sending, pipe, dev, asked, cut>>

-----------------------------------------------------------------------------
Init ==
  /\ m_state     = 0
  /\ m_queue     = << >>
  /\ m_mouseMode = "none"
  /\ m_buttons   = [t \in MouseTypes |-> {}]
  /\ m_sequence  = 0
  /\ sending     = None
  /\ m_connected = FALSE
  /\ reading     = FALSE
  /\ link        = "listen"
  /\ wire        = << >>
  /\ running     = TRUE
  /\ m_lastSequence = 0
  /\ dev = [reports |-> << >>, mouseMode |-> "none",
            buttons |-> [t \in MouseTypes |-> {}], consumerUsage |-> {},
            overflow |-> FALSE, readPending |-> FALSE,
            guest |-> [t \in ReportTypes |-> {}], cut |-> FALSE]
  /\ asked = {}
  /\ cut   = FALSE

Next ==
  \/ \E type \in MouseTypes : \E held \in HeldBy(type) :
       \E motion \in BOOLEAN : SendMouse(type, held, motion)
  \/ \E held \in HeldBy("keyboard") : SendKeyboard(held)
  \/ Reset
  \/ Pop \/ Send \/ SendFailed
  \/ ServerConnected \/ ServerDisconnected \/ ServerRestarts
  \/ ReadReport
  \/ ClientConnected \/ ClientDisconnected \/ ClientStops \/ ClientStarts
  \/ \E motion, fits \in BOOLEAN, n \in 1..2 : OnPipeMessage(motion, fits, n)

Spec == Init /\ [][Next]_vars

-----------------------------------------------------------------------------
Detached == link \notin {"up", "serverGone"} /\ dev.reports = << >>

(* Once the input driver has lost the pipe and Windows has read what the   *)
(* device queued, no key and no media key is held: whatever was discarded  *)
(* on the way, ResetReports releases both.                                 *)
KeysReleased ==
  Detached => dev.guest["keyboard"] = {} /\ dev.guest["consumer"] = {}

(* The same for the buttons of both mice, unless a queued mouse report was *)
(* discarded: ResetReports and QueueResetLocked release only what the last *)
(* report queued for a mouse held, delivered or not.                       *)
ButtonsReleased ==
  Detached /\ ~cut /\ ~dev.cut => \A t \in MouseTypes : dev.guest[t] = {}

(* Whatever the IDD held is released when it is gone (ResetReports and     *)
(* QueueResetLocked at the two ends of the pipe).                          *)
Released == KeysReleased /\ ButtonsReleased

(* "Disconnecting or restarting the IDD releases held keys and buttons     *)
(* before ownership changes" (doc/input.rst).                              *)
HeldReleased == Detached => \A t \in ReportTypes : dev.guest[t] = {}

Quiet ==
  /\ link = "up" /\ m_connected /\ Odd(m_state)
  /\ m_queue = << >> /\ sending = None /\ wire = << >>
  /\ dev.reports = << >>

(* Coalescing, compaction, duplicate suppression, mode switches and        *)
(* resynchronisations leave the guest, once nothing is under way, with     *)
(* what the sink was last asked for.                                       *)
QuietMatches ==
  Quiet =>
    /\ dev.guest["keyboard"] = asked \ {"media"}
    /\ dev.guest["consumer"] = asked \cap {"media"}
    /\ ~cut /\ ~dev.cut => \A t \in MouseTypes : dev.guest[t] = m_buttons[t]

(* A sender that failed on an earlier connection does not invalidate the   *)
(* present one: while the endpoint can write, the sink is available.       *)
ConnectedIsAvailable == m_connected => Odd(m_state)

(* Reports reach the input driver without a gap in their sequence, so that *)
(* it never resets the device for one.                                     *)
SequenceUnbroken ==
  link = "up" /\ wire # << >> =>
    m_lastSequence = 0 \/ Head(wire).sequence = m_lastSequence + 1

(* The IDD does not end a connection without a fault of the pipe: neither  *)
(* the late failure of an earlier one (Invalidate) nor a message that was  *)
(* numbered and never sent (Send) does.                                    *)
LinkKept == ConnectedIsAvailable /\ SequenceUnbroken

-----------------------------------------------------------------------------
(* The pipe implements InputDelivery for the keyboard.                     *)

Attached == link = "up" /\ m_connected /\ Odd(m_state)

KeysOf(s) ==
  LET k == SelectSeq(s, LAMBDA r : r.type = "keyboard")
  IN [i \in 1..Len(k) |-> k[i].held \ {"media"}]

Under == IF Attached
           THEN (IF sending # None /\ Current(sending) /\ sending.type # "failed"
                   THEN <<sending>> ELSE << >>) \o m_queue
           ELSE << >>

Delivery == INSTANCE InputDelivery WITH
  Contents <- SUBSET {"key"},
  pend     <- KeysOf(dev.reports) \o KeysOf(IF link = "up" THEN wire ELSE << >>)
                \o KeysOf(Under),
  guest    <- dev.guest["keyboard"],
  gap      <- ~Attached

(* The keyboard reports the sink accepts reach the guest in order and a    *)
(* loss is always followed by a release (InputDelivery).                   *)
Delivers == Delivery!Spec

=============================================================================

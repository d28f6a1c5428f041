---------------------------- MODULE MCInputPipe ----------------------------
(* A behaviour uses one or two kinds of input, chosen at the start, and is *)
(* followed until a mouse report is discarded.                             *)
EXTENDS InputPipe

VARIABLE use

Uses == {{"keyboard"}, {"relative", "absolute"}}

Scope ==
  /\ m_mouseMode \in use \cup {"none"}
  /\ ~cut /\ ~dev.cut
  /\ "keyboard" \notin use =>
       \A i \in 1..Len(m_queue) : m_queue[i].type = "keyboard" => m_queue[i].held = {}

MCInit == Init /\ use \in Uses
MCNext == Next /\ UNCHANGED use /\ Scope'
MCSpec == MCInit /\ [][MCNext]_<<vars, use>>

(* The input driver is never suspended: what it loses is the connection.   *)
HeldSpec == MCInit /\ [][Next /\ UNCHANGED use /\ running']_<<vars, use>>

=============================================================================

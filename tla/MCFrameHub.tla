---------------------------- MODULE MCFrameHub ----------------------------
(* The hubs that serve a display, one to a behaviour: FrameHub and          *)
(* ControlHub on small instances.  Nothing tells one lane from another.     *)
(* Three frames are explored for sinks that answer at once, two for sinks   *)
(* that may answer later, and there one content where the sink is unbound.  *)
EXTENDS FrameHub, ControlHub, TLC

VARIABLE use   \* the hub of this behaviour

Contents(max) == \A n \in Serials : contentOf[n] <= max
Scope ==
  "PENDING" \in fills =>
    /\ serial <= 2 /\ Contents(2)
    /\ (\E s \in Sinks : unbind[s] # "no") => Contents(1)

\* Two updates only while the sink stays; one where it is also removed.
Removal == {"remove", "quiet", "clear"}
ControlScope ==
  manager \in Removal =>
    state[POSITION] + state[SHAPE] + state[TRANSFORM] <= 2

MCInit == use \in {"frames", "control"} /\ Init /\ ControlInit
MCNext ==
  /\ UNCHANGED use
  /\ \/ use = "frames" /\ Next /\ Scope' /\ UNCHANGED control
     \/ use = "control" /\ ControlNext /\ ControlScope' /\ UNCHANGED vars
MCSpec == MCInit /\ [][MCNext]_<<vars, control, use>>

LaneSymmetry == Permutations(Lanes)
===========================================================================

------------------------------ MODULE MCClient ------------------------------
(* Two parts of the client that share a run, one to a behaviour: the ring  *)
(* buffer, and the input session, either with a key and a button, but no   *)
(* motion, on a host that stays as it is, or with the mouse alone on one   *)
(* that changes.                                                           *)
EXTENDS InputSession, RingBuffer

VARIABLE use

Sent == {(input.pending \o stream)[i] : i \in DOMAIN (input.pending \o stream)}

Scope ==
  CASE use = "hold"   -> host.epoch <= 1 /\ host.endpoint = 1 /\ \A m \in Sent : ~m.pure
    [] use = "change" -> "key" \notin input.held /\ \A m \in Sent : m.type # "key"
    [] OTHER -> TRUE

MCInit ==
  /\ use \in {"ring", "hold", "change"}
  /\ SessionInit /\ RingInit /\ (use # "ring" => ring.unbounded)
MCNext ==
  /\ UNCHANGED use
  /\ \/ use = "ring" /\ RingNext /\ UNCHANGED sessionVars
     \/ use # "ring" /\ SessionNext /\ UNCHANGED ringVars /\ Scope'
MCSpec == MCInit /\ [][MCNext]_<<sessionVars, ringVars, use>>
=============================================================================

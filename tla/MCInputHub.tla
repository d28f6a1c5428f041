---------------------------- MODULE MCInputHub ----------------------------
(* Two ways to compete for the devices: two clients of one instance that   *)
(* may be replaced (and move the cursor before that), or two instances     *)
(* with a client each.                                                     *)
EXTENDS InputHub

VARIABLE use

Scope ==
  \/ /\ use = "clients"
     /\ entry[2].open /\ subs[2] = {} /\ \A i \in Slots : m_sources[i].backend # 2
     /\ mgr.op = "interact" => mgr.source.backend = 1 /\ entry[1].epoch = 1
  \/ /\ use = "instances"
     /\ mgr.op # "interact"
     /\ \A b \in Backends : 2 \notin subs[b] /\ entry[b].epoch = 1

MCInit ==
  /\ use \in {"clients", "instances"}
  /\ Init
  /\ Scope
MCNext == Next /\ UNCHANGED use /\ Scope'
MCSpec == MCInit /\ [][MCNext]_<<vars, use>>
=============================================================================

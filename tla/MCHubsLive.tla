----------------------------- MODULE MCHubsLive -----------------------------
(* Three parts of the driver under their fairness, one to a behaviour: the *)
(* frame hub with a sink that is bound twice, the input hub with one       *)
(* instance, not replaced, and one client, and the transport manager with  *)
(* one instance, which is the primary, a required or an optional one.      *)
EXTENDS FrameHub

CONSTANTS Backends, Clients, Generations, MAX_SOURCES
VARIABLES hub, m_sources, worker, endpoint, subs, mgr, disp, entry
inputVars == <<hub, m_sources, worker, endpoint, subs, mgr, disp, entry>>
InputHub == INSTANCE InputHub

CONSTANT Services
Instances == {i \in [primary : BOOLEAN, required : BOOLEAN] : i.primary => i.required}
VARIABLES tm, inst, reg, object, runner, syncer
managerVars == <<tm, inst, reg, object, runner, syncer>>
Manager == INSTANCE TransportManager

VARIABLE use   \* the part this behaviour is about

OneEpoch == \A b \in Backends : entry[b].epoch = 1

MCInit ==
  /\ use \in {"frames", "input", "manager"}
  /\ Init /\ InputHub!Init /\ Manager!ManagerInit
  /\ use # "manager" => inst.primary
MCNext ==
  /\ UNCHANGED use
  /\ \/ use = "frames" /\ Next /\ UNCHANGED <<inputVars, managerVars>>
     \/ use = "input" /\ InputHub!Next /\ OneEpoch' /\ UNCHANGED <<vars, managerVars>>
     \/ use = "manager" /\ Manager!ManagerNext /\ UNCHANGED <<vars, inputVars>>
\* A part that has not begun has nothing under way: its fairness asks nothing.
MCSpec ==
  /\ MCInit /\ [][MCNext]_<<vars, inputVars, managerVars, use>>
  /\ Fairness /\ InputHub!Fairness /\ Manager!ManagerFairness

(* A client that vanishes while it owns the devices loses them, although   *)
(* it sends no release (CheckOwner of CLGMPInputTransport).                *)
VanishedOwnerLeaves == InputHub!VanishedOwnerLeaves
(* CInputHub's Bind, Unbind, Start and Stop return, though they hold       *)
(* m_lifecycleLock while they wait for a worker that calls into the hub,   *)
(* provided that the clients pause long enough for its poll to wait.       *)
LifecycleReturns == InputHub!LifecycleReturns
(* A transport is told once of the monitor's arrival, however its          *)
(* initialisation, calls and restarts race with SyncRecovery.              *)
SyncReaches == Manager!SyncReaches
(* One thread at a time is inside a transport, and none once it is stopped *)
(* or gone, when no hub keeps anything of it either (BeginCall,            *)
(* SyncRecovery, RetryEntry, Stop).                                        *)
UsedWhileLive == Manager!UsedWhileLive
(* CTransportManager::Stop returns, whatever the timer, the swap chain and *)
(* the monitor do.                                                         *)
StopReturns == Manager!StopReturns
=============================================================================

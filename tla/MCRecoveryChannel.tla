-------------------------- MODULE MCRecoveryChannel --------------------------
(* TLC instance of RecoveryChannel.  Behaviours in which a driver dies inside *)
(* Initialize are explored for clients that only ever use the first slot and  *)
(* without a death inside Publish; nothing tells one client from another.     *)
EXTENDS RecoveryChannel, TLC

Scope == "init" \in torn => torn = {"init"} /\ \A c \in Clients : at[c] = 1
MCSpec == Init /\ [][Next /\ Scope']_vars
ClientSymmetry == Permutations(Clients)
=============================================================================

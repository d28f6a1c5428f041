---------------------------- MODULE MCRecoveryHub ----------------------------
(* TLC instance of RecoveryHub.                                            *)
EXTENDS RecoveryHub
=============================================================================

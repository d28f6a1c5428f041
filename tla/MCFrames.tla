------------------------------ MODULE MCFrames ------------------------------
(* FrameTransport in two sizes, one to a behaviour: that of the driver,    *)
(* with one client, and a smaller one, with clients that take turns as     *)
(* the owner.                                                              *)
EXTENDS FrameTransport, TLC

CONSTANTS OwnerClients,   \* those that take turns
          OwnerTickets    \* bound on the republish requests they meet

Turns == INSTANCE FrameTransport
           WITH Clients <- OwnerClients, MaxTicket <- OwnerTickets,
                BUFFER_LEN <- BUFFER_LEN - 1, Q_LEN <- Q_LEN - 1,
                Pipeline <- Pipeline - 1, MaxEpoch <- MaxEpoch + 1

VARIABLE use

MCInit ==
  \/ use = "driver" /\ Init
  \/ use = "turns"  /\ Turns!Init
MCNext ==
  /\ UNCHANGED use
  /\ \/ use = "driver" /\ Next
     \/ use = "turns"  /\ Turns!Next
MCSpec == MCInit /\ [][MCNext]_<<vars, use>>

ClientSymmetry == Permutations(OwnerClients)
=============================================================================

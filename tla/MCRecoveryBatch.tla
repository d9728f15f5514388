--------------------------- MODULE MCRecoveryBatch ---------------------------
(* RecoveryBatch on a small instance. *)
EXTENDS RecoveryBatch

==============================================================================

----------------------- MODULE MC_ProcessPoolStrategy -----------------------
(* Small instance of ProcessPoolStrategy: three workers, so that a later  *)
(* job can finish before an earlier one and one process can run two jobs. *)
EXTENDS ProcessPoolStrategy

MCWorkersNumber == 3

=============================================================================

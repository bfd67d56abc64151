------------------------ MODULE MC_LockRetryExample ------------------------
(* The lock example's own instance: executors=3 processes; two attempts  *)
(* of the bounded retry, so that a worker retries while another waits on  *)
(* the lock; both decorator orders.                                       *)
EXTENDS LockRetryExample

MCRetries == 2

MCExamples == {"lockExample", "retryExample"}

=============================================================================

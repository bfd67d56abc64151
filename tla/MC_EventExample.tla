-------------------------- MODULE MC_EventExample --------------------------
(* The example's own sleeps: WakeupProcess sleeps randrange(1, 10), that  *)
(* is 1 to 9 seconds, SleepProcess one second; the four executors of     *)
(* main_run (one used, three commented out).                              *)
EXTENDS EventExample

MCModes == {"Parallel", "Concurrent", "GreenThread", "Asynchronous"}

MCMaxSleep == 9

MCConsumerSleep == 1

=============================================================================

------------------------- MODULE MC_ThreadStrategy -------------------------
(* Small instance of ThreadStrategy: strategies of 0 to 3 threads, so    *)
(* that the empty list, lock contention among three threads and every    *)
(* persistence kind, and connection counts below, at and above the CPU  *)
(* count are all explored.                                     *)
EXTENDS ThreadStrategy

MCMaxThreads == 3

MCTaskList == <<"task_1", "task_2">>

\* Hosts of one or two CPUs; a pool size below and one above them.
MCMaxCpus == 2

MCPoolSizes == {1, 3}

=============================================================================

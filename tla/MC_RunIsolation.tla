-------------------------- MODULE MC_RunIsolation --------------------------
(* Three runs of two tasks and two workers each, in the greenlet or the  *)
(* asyncio mode, naming the FIFO member Queue of the mode's Enum: runs of *)
(* one mode share a queue object, runs of two modes do not.  With         *)
(* overlap, a second run can register its queue while the first run's    *)
(* workers still call get().                                              *)
EXTENDS RunIsolation

\* The two cooperative modes, whose queue adapters are under src/.
MCModes == {"Greenlet", "Asynchronous"}

MCQTypes == {"Queue"}

MCSuccessful == {"custom"}

MCPersistences == {"none", "single", "custom"}

=============================================================================

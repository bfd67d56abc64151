--------------------------- MODULE ResultCollection ---------------------------
(***************************************************************************)
(* What a run of the process-pool strategy promises, with pools, queues   *)
(* and processes left out: N jobs each reach an outcome once, in any       *)
(* order, and the caller collects the returned values in job order, each   *)
(* only after that job has returned.  A job that raised stops the         *)
(* collection when its turn comes (get() re-raises).                      *)
(***************************************************************************)
EXTENDS Naturals, Sequences

CONSTANT N          \* number of jobs

VARIABLES
    status,         \* status[j]: "pending", "ok" or "err"
    collected,      \* the values collected so far, in job order
    phase           \* "collecting", "done" or "aborted"

avars == <<status, collected, phase>>

Jobs == 1..N

TypeOK ==
    /\ status \in [Jobs -> {"pending", "ok", "err"}]
    /\ collected \in Seq(Jobs)
    /\ phase \in {"collecting", "done", "aborted"}

Init ==
    /\ status = [j \in Jobs |-> "pending"]
    /\ collected = <<>>
    /\ phase = "collecting"

\* Job j returns or raises; its outcome is final.
Complete(j) ==
    /\ status[j] = "pending"
    /\ \E o \in {"ok", "err"} : status' = [status EXCEPT ![j] = o]
    /\ UNCHANGED <<collected, phase>>

\* The next job in order has returned: its value is collected.
CollectNext ==
    /\ phase = "collecting"
    /\ Len(collected) < N
    /\ status[Len(collected) + 1] = "ok"
    /\ collected' = Append(collected, Len(collected) + 1)
    /\ phase' = IF Len(collected) + 1 = N THEN "done" ELSE "collecting"
    /\ UNCHANGED status

\* The next job in order has raised: collection stops.
Abort ==
    /\ phase = "collecting"
    /\ Len(collected) < N
    /\ status[Len(collected) + 1] = "err"
    /\ phase' = "aborted"
    /\ UNCHANGED <<status, collected>>

Next == (\E j \in Jobs : Complete(j)) \/ CollectNext \/ Abort

Spec == Init /\ [][Next]_avars

\* Every job eventually completes, and the caller keeps collecting.
FairSpec ==
    /\ Spec
    /\ \A j \in Jobs : WF_avars(Complete(j))
    /\ WF_avars(CollectNext \/ Abort)

=============================================================================

------------------------------- MODULE RunTasks -------------------------------
(***************************************************************************)
(* What runs set up one after the other in one process promise, with      *)
(* queues, adapters and Running_Queue left out (spec 3, 4.2 to 4.4): a    *)
(* run starts once the runs before it have ended, each worker of the run  *)
(* gets exactly one task of its own run that no other worker got, and     *)
(* the run ends only when every worker has its task.  The order in which *)
(* the workers get the tasks is left open.                                *)
(***************************************************************************)
EXTENDS Naturals

CONSTANTS
    NumRuns,        \* runs one process sets up
    TasksPerRun,    \* tasks, and workers, of each run
    NoTask          \* a worker that has not taken a task yet

VARIABLES
    phase,          \* phase[r]: "new", "initialized" or "ended"
    took            \* took[w]: the task worker w got

avars == <<phase, took>>

Runs == 1..NumRuns
Tasks == Runs \X (1..TasksPerRun)
Workers == Runs \X (1..TasksPerRun)

\* Some worker already got task t.
Handed(t) == \E v \in Workers : took[v] = t

TypeOK ==
    /\ phase \in [Runs -> {"new", "initialized", "ended"}]
    /\ took \in [Workers -> Tasks \cup {NoTask}]

Init ==
    /\ phase = [r \in Runs |-> "new"]
    /\ took = [w \in Workers |-> NoTask]

\* Run r is set up after every earlier run has ended.
Start(r) ==
    /\ phase[r] = "new"
    /\ \A s \in 1..(r - 1) : phase[s] = "ended"
    /\ phase' = [phase EXCEPT ![r] = "initialized"]
    /\ UNCHANGED took

\* A worker of the running run gets one of its run's tasks that no worker
\* has got yet.
Take(w) ==
    /\ phase[w[1]] = "initialized"
    /\ took[w] = NoTask
    /\ \E i \in 1..TasksPerRun :
          /\ ~Handed(<<w[1], i>>)
          /\ took' = [took EXCEPT ![w] = <<w[1], i>>]
    /\ UNCHANGED phase

\* The run ends once all its workers have their tasks.
End(r) ==
    /\ phase[r] = "initialized"
    /\ \A i \in 1..TasksPerRun : took[<<r, i>>] # NoTask
    /\ phase' = [phase EXCEPT ![r] = "ended"]
    /\ UNCHANGED took

Next ==
    \/ \E r \in Runs : Start(r) \/ End(r)
    \/ \E w \in Workers : Take(w)

Spec == Init /\ [][Next]_avars

=============================================================================

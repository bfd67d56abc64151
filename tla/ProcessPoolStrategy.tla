------------------------- MODULE ProcessPoolStrategy -------------------------
(***************************************************************************)
(* MultiProcessingStrategy (src/pyocean/parallel/strategy.py): one run of *)
(* the process-pool strategy.                                              *)
(*                                                                         *)
(* The caller drives the strategy in the order the executor uses it:      *)
(* initialization() creates a multiprocessing Pool of WorkersNumber        *)
(* processes, build_workers() submits WorkersNumber apply_async jobs of    *)
(* one function, activate_workers() walks the returned handles in order   *)
(* and calls get() on each (blocking until that job is ready, re-raising   *)
(* its exception), close() closes and joins the pool, get_result()         *)
(* normalises the recorded dicts into ParallelResult objects.             *)
(*                                                                         *)
(* Concurrently, every pool process repeatedly takes the next job from the *)
(* pool's FIFO task queue and runs it; a job either returns or raises.    *)
(* Job j's return value is abstracted to j itself, so a recorded value    *)
(* names the job that produced it.                                         *)
(***************************************************************************)
EXTENDS Naturals, Sequences

CONSTANTS WorkersNumber   \* workers_num given to the strategy

ASSUME WorkersNumberAssumption == WorkersNumber \in Nat \ {0}

Jobs  == 1..WorkersNumber          \* the AsyncResult handles, by index
Procs == 1..WorkersNumber          \* Pool(processes=self.workers_number)
Idle  == 0                         \* a pool process that runs no job

\* Caller program counter: where the caller is in the strategy's lifecycle.
CallerStates == {"new", "initialized", "built", "activating",
                 "activated", "raised", "closed"}
PoolStates   == {"none", "running", "joined"}
Outcomes     == {"pending", "ok", "err"}

\* The dict activate_worker appends: {"successful": ..., "result": ...}.
RawRecord == [successful : BOOLEAN, result : Jobs]

VARIABLES
    pc,          \* caller's position in the lifecycle
    pool,        \* self._Processors_Pool: absent, running, closed and joined
    taskQueue,   \* the pool's internal FIFO of submitted jobs
    running,     \* running[p]: the job pool process p is executing, or Idle
    outcome,     \* outcome[j]: AsyncResult j not ready, returned or raised
    next,        \* number of handles activate_workers has finished with
    results      \* self._Processors_Running_Result (a Manager list)

vars == <<pc, pool, taskQueue, running, outcome, next, results>>

-----------------------------------------------------------------------------

TypeOK ==
    /\ pc \in CallerStates
    /\ pool \in PoolStates
    /\ taskQueue \in Seq(Jobs)
    /\ running \in [Procs -> Jobs \cup {Idle}]
    /\ outcome \in [Jobs -> Outcomes]
    /\ next \in 0..WorkersNumber
    /\ results \in Seq(RawRecord)

\* __init__: the Manager list of results starts empty; no pool yet.
Init ==
    /\ pc = "new"
    /\ pool = "none"
    /\ taskQueue = <<>>
    /\ running = [p \in Procs |-> Idle]
    /\ outcome = [j \in Jobs |-> "pending"]
    /\ next = 0
    /\ results = <<>>

\* initialization(): Pool(processes=self.workers_number, ...).
Initialization ==
    /\ pc = "new"
    /\ pc' = "initialized"
    /\ pool' = "running"
    /\ UNCHANGED <<taskQueue, running, outcome, next, results>>

\* The jobs of one build_workers() call, in submission order.
Submitted == [i \in 1..WorkersNumber |-> i]

\* Mutant of BuildWorkers: one apply_async too many (off by one in the
\* range of the list comprehension).
BuildWorkersOneTooMany ==
    /\ pc = "initialized"
    /\ pool = "running"
    /\ taskQueue' = taskQueue \o [i \in 1..WorkersNumber + 1 |-> i]
    /\ pc' = "built"
    /\ UNCHANGED <<pool, running, outcome, next, results>>

\* build_workers(): one apply_async per worker; each puts a job on the
\* pool's task queue and returns its handle.
BuildWorkers ==
    /\ pc = "initialized"
    /\ pool = "running"
    /\ taskQueue' = taskQueue \o Submitted
    /\ pc' = "built"
    /\ UNCHANGED <<pool, running, outcome, next, results>>

\* Mutant of ActivateWorker: the handle is recorded without waiting for
\* the job to be ready (the blocking get() dropped).
ActivateWorkerNoWait ==
    /\ pc \in {"built", "activating"}
    /\ next < WorkersNumber
    /\ LET j == next + 1 IN
       /\ \/ /\ outcome[j] # "err"
             /\ results' = Append(results, [successful |-> TRUE, result |-> j])
             /\ next' = j
             /\ pc' = IF j = WorkersNumber THEN "activated" ELSE "activating"
          \/ /\ outcome[j] = "err"
             /\ pc' = "raised"
             /\ UNCHANGED <<results, next>>
    /\ UNCHANGED <<pool, taskQueue, running, outcome>>

\* Mutant of ActivateWorker: only a returned value ends the wait, so the
\* caller waits on a failed handle forever.
ActivateWorkerOkOnly ==
    /\ pc \in {"built", "activating"}
    /\ next < WorkersNumber
    /\ LET j == next + 1 IN
       /\ outcome[j] = "ok"
       /\ results' = Append(results, [successful |-> TRUE, result |-> j])
       /\ next' = j
       /\ pc' = IF j = WorkersNumber THEN "activated" ELSE "activating"
    /\ UNCHANGED <<pool, taskQueue, running, outcome>>

\* activate_worker(handle next+1): get() blocks until the job is ready.
\* A returned value is appended with successful() = TRUE; a raised
\* exception leaves get() and aborts the loop of activate_workers().
ActivateWorker ==
    /\ pc \in {"built", "activating"}
    /\ next < WorkersNumber
    /\ LET j == next + 1 IN
       /\ outcome[j] # "pending"
       /\ \/ /\ outcome[j] = "ok"
             /\ results' = Append(results, [successful |-> TRUE, result |-> j])
             /\ next' = j
             /\ pc' = IF j = WorkersNumber THEN "activated" ELSE "activating"
          \/ /\ outcome[j] = "err"
             /\ pc' = "raised"
             /\ UNCHANGED <<results, next>>
    /\ UNCHANGED <<pool, taskQueue, running, outcome>>

\* close(): pool.close(); pool.join() -- join returns once every pool
\* process has drained the task queue and is idle.
Close ==
    /\ pc = "activated"
    /\ pool = "running"
    /\ taskQueue = <<>>
    /\ \A p \in Procs : running[p] = Idle
    /\ pool' = "joined"
    /\ pc' = "closed"
    /\ UNCHANGED <<taskQueue, running, outcome, next, results>>

\* Mutant of ProcTake: a process only takes a job while another one is
\* queued behind it (off by one), so the last job is never run.
ProcTakeOffByOne(p) ==
    /\ pool = "running"
    /\ running[p] = Idle
    /\ Len(taskQueue) > 1
    /\ running' = [running EXCEPT ![p] = Head(taskQueue)]
    /\ taskQueue' = Tail(taskQueue)
    /\ UNCHANGED <<pc, pool, outcome, next, results>>

\* Mutant of ProcFinish: the process is not marked idle again, so it
\* finishes the same job a second time.
ProcFinishNoReset(p) ==
    /\ running[p] # Idle
    /\ \E o \in {"ok", "err"} :
          outcome' = [outcome EXCEPT ![running[p]] = o]
    /\ UNCHANGED <<pc, pool, taskQueue, running, next, results>>

\* A pool process takes the job at the head of the task queue.
ProcTake(p) ==
    /\ pool = "running"
    /\ running[p] = Idle
    /\ taskQueue # <<>>
    /\ running' = [running EXCEPT ![p] = Head(taskQueue)]
    /\ taskQueue' = Tail(taskQueue)
    /\ UNCHANGED <<pc, pool, outcome, next, results>>

\* The job run by pool process p returns or raises; its handle is ready.
ProcFinish(p) ==
    /\ running[p] # Idle
    /\ \E o \in {"ok", "err"} :
          outcome' = [outcome EXCEPT ![running[p]] = o]
    /\ running' = [running EXCEPT ![p] = Idle]
    /\ UNCHANGED <<pc, pool, taskQueue, next, results>>

\* The run is over: the caller returned or raised, the pool is quiet.
Finished ==
    /\ pc \in {"closed", "raised"}
    /\ taskQueue = <<>>
    /\ \A p \in Procs : running[p] = Idle
    /\ UNCHANGED vars

Caller == Initialization \/ BuildWorkers \/ ActivateWorker \/ Close

Next ==
    \/ Caller
    \/ \E p \in Procs : ProcTake(p) \/ ProcFinish(p)
    \/ Finished

\* The caller is one sequential thread, and the OS keeps scheduling every
\* pool process that has work: both are weakly fair.
Fairness ==
    /\ WF_vars(Caller)
    /\ \A p \in Procs : WF_vars(ProcTake(p)) /\ WF_vars(ProcFinish(p))

Spec == Init /\ [][Next]_vars

FairSpec == Spec /\ Fairness

-----------------------------------------------------------------------------
(* get_result() / _result_handling(): one ParallelResult per recorded dict, *)
(* state "successful" iff successful is True, data = the recorded result.  *)

GetResult ==
    [i \in 1..Len(results) |->
        [state |-> IF results[i].successful THEN "successful" ELSE "fail",
         data  |-> results[i].result]]

-----------------------------------------------------------------------------
(* Refinement mapping onto ResultCollection: job outcomes are the handles' *)
(* outcomes, the collected values are the recorded results, and the phase  *)
(* follows the caller.                                                      *)

CollectedValues == [i \in 1..Len(results) |-> results[i].result]

CollectionPhase ==
    CASE pc = "raised"                  -> "aborted"
      [] pc \in {"activated", "closed"} -> "done"
      [] OTHER                          -> "collecting"

RC == INSTANCE ResultCollection
        WITH N <- WorkersNumber, status <- outcome,
             collected <- CollectedValues, phase <- CollectionPhase

-----------------------------------------------------------------------------
(* Properties                                                               *)

\* activate_worker records results in handle order while pool processes
\* finish jobs in any order: the i-th recorded dict must be the returned
\* value of job i, recorded only after job i returned, and no handle may
\* be skipped or recorded twice.
RecordedResultsFaithful ==
    /\ Len(results) = next
    /\ \A i \in 1..Len(results) :
          /\ outcome[i] = "ok"
          /\ results[i] = [successful |-> TRUE, result |-> i]

\* get() has no timeout: the caller's run ends (closed, or raised by a
\* failed job) only if the pool processes eventually run every job.
RunTerminates == <>(pc \in {"closed", "raised"})

\* The pool's queue, processes and blocking get() implement the ordered
\* collection of ResultCollection: a handle's outcome is set once and never
\* changes, and values are collected in handle order only after their job
\* returned, the collection stopping at the first failed handle.
ImplementsCollection == RC!Spec

\* Under the fairness of the caller and of the pool processes, every job
\* completes and the collection reaches its end (all values, or a raise).
ImplementsFairCollection == RC!FairSpec

\* Spec (sections 4.4 and 7): every worker's outcome, failure included, is
\* captured, so a finished run has one Result per worker.
EveryWorkerHasResult ==
    pc \in {"closed", "raised"} => Len(GetResult) = WorkersNumber

=============================================================================

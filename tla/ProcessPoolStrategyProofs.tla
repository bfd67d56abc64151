---------------------- MODULE ProcessPoolStrategyProofs ----------------------
(***************************************************************************)
(* Proofs about ProcessPoolStrategy for every WorkersNumber >= 1.          *)
(*                                                                         *)
(* RecordedResultsFaithful is not inductive by itself: a pool process that *)
(* finishes a job overwrites that job's outcome, which would break a       *)
(* recorded result if the same job could be run twice.  IInv adds that     *)
(* every submitted job is in exactly one place: queued once, or run by one *)
(* process, or finished, and that queued and running jobs are not ready.   *)
(***************************************************************************)
EXTENDS ProcessPoolStrategy, TLAPS

\* Before build_workers() nothing has been submitted.
NothingSubmitted ==
    pc \in {"new", "initialized"} =>
        /\ taskQueue = <<>>
        /\ \A p \in Procs : running[p] = Idle
        /\ \A j \in Jobs : outcome[j] = "pending"

\* No job is queued twice.
QueueDistinct ==
    \A a, b \in 1..Len(taskQueue) : a # b => taskQueue[a] # taskQueue[b]

\* A queued job is not ready and no process runs it.
QueuedPending ==
    \A a \in 1..Len(taskQueue) :
        /\ outcome[taskQueue[a]] = "pending"
        /\ \A p \in Procs : running[p] # taskQueue[a]

\* A running job is not ready.
RunningPending ==
    \A p \in Procs : running[p] # Idle => outcome[running[p]] = "pending"

\* No job is run by two processes.
RunningDistinct ==
    \A p, q \in Procs : p # q /\ running[p] # Idle => running[p] # running[q]

IInv ==
    /\ TypeOK
    /\ RecordedResultsFaithful
    /\ NothingSubmitted
    /\ QueueDistinct
    /\ QueuedPending
    /\ RunningPending
    /\ RunningDistinct

USE WorkersNumberAssumption DEF Jobs, Procs, Idle

-----------------------------------------------------------------------------

LEMMA InitIInv == Init => IInv
BY DEF Init, IInv, TypeOK, CallerStates, PoolStates, Outcomes,
       RecordedResultsFaithful, NothingSubmitted, QueueDistinct,
       QueuedPending, RunningPending, RunningDistinct

\* A step that leaves the task queue, the pool processes and the outcomes
\* alone cannot break the four conjuncts about where the jobs are.
LEMMA JobPlacesStable ==
    ASSUME QueueDistinct, QueuedPending, RunningPending, RunningDistinct,
           UNCHANGED <<taskQueue, running, outcome>>
    PROVE  (QueueDistinct /\ QueuedPending /\ RunningPending
            /\ RunningDistinct)'
<1>1. QueueDistinct'
    BY DEF QueueDistinct
<1>2. QueuedPending'
    BY DEF QueuedPending
<1>3. RunningPending'
    BY DEF RunningPending
<1>4. RunningDistinct'
    BY DEF RunningDistinct
<1>5. QED
    BY <1>1, <1>2, <1>3, <1>4

LEMMA NextIInv == IInv /\ [Next]_vars => IInv'
<1> SUFFICES ASSUME IInv, [Next]_vars PROVE IInv'
    OBVIOUS
<1>0. /\ TypeOK /\ RecordedResultsFaithful /\ NothingSubmitted
      /\ QueueDistinct /\ QueuedPending /\ RunningPending /\ RunningDistinct
    BY DEF IInv
<1>1. CASE Initialization
    <2>1. UNCHANGED <<taskQueue, running, outcome, next, results>>
          /\ pc' = "initialized" /\ pool' = "running" /\ pc = "new"
        BY <1>1 DEF Initialization
    <2>2. TypeOK'
        BY <1>0, <2>1 DEF TypeOK, CallerStates, PoolStates
    <2>3. RecordedResultsFaithful'
        BY <1>0, <2>1 DEF RecordedResultsFaithful
    <2>4. NothingSubmitted'
        BY <1>0, <2>1 DEF NothingSubmitted
    <2>5. QED
        BY <1>0, <2>1, <2>2, <2>3, <2>4, JobPlacesStable DEF IInv
<1>2. CASE BuildWorkers
    <2>1. /\ pc = "initialized" /\ pc' = "built"
          /\ taskQueue' = taskQueue \o Submitted
          /\ UNCHANGED <<pool, running, outcome, next, results>>
        BY <1>2 DEF BuildWorkers
    <2>2. taskQueue = <<>> /\ \A p \in Procs : running[p] = Idle
          /\ \A j \in Jobs : outcome[j] = "pending"
        BY <1>0, <2>1 DEF NothingSubmitted
    <2>3. /\ taskQueue' = Submitted
          /\ Submitted \in Seq(Jobs)
          /\ Len(Submitted) = WorkersNumber
          /\ \A a \in 1..WorkersNumber : Submitted[a] = a
        BY <2>1, <2>2 DEF Submitted
    <2>4. TypeOK'
        BY <1>0, <2>1, <2>3 DEF TypeOK, CallerStates
    <2>5. RecordedResultsFaithful'
        BY <1>0, <2>1 DEF RecordedResultsFaithful
    <2>6. NothingSubmitted'
        BY <2>1 DEF NothingSubmitted
    <2>7. QueueDistinct'
        BY <2>3 DEF QueueDistinct
    <2>8. QueuedPending'
        BY <2>1, <2>2, <2>3 DEF QueuedPending
    <2>9. (RunningPending /\ RunningDistinct)'
        BY <2>1, <2>2 DEF RunningPending, RunningDistinct
    <2>10. QED
        BY <2>4, <2>5, <2>6, <2>7, <2>8, <2>9 DEF IInv
<1>3. CASE ActivateWorker
    <2> DEFINE j == next + 1
    <2>1. /\ pc \in {"built", "activating"} /\ next < WorkersNumber
          /\ outcome[j] # "pending"
          /\ UNCHANGED <<pool, taskQueue, running, outcome>>
        BY <1>3 DEF ActivateWorker
    <2>2. CASE outcome[j] = "ok"
        <3>1. /\ results' = Append(results, [successful |-> TRUE, result |-> j])
              /\ next' = j
              /\ pc' \in {"activated", "activating"}
            BY <1>3, <2>2 DEF ActivateWorker
        <3>2. j \in Jobs
            BY <1>0, <2>1 DEF TypeOK
        <3>3. TypeOK'
            BY <1>0, <2>1, <3>1, <3>2 DEF TypeOK, CallerStates, RawRecord
        <3>4. RecordedResultsFaithful'
            <4>1. results \in Seq(RawRecord) /\ Len(results) = next
                BY <1>0 DEF TypeOK, RecordedResultsFaithful
            <4>2. Len(results') = next'
                BY <3>1, <4>1
            <4>3. ASSUME NEW i \in 1..Len(results')
                  PROVE  /\ outcome'[i] = "ok"
                         /\ results'[i] = [successful |-> TRUE, result |-> i]
                <5>1. CASE i \in 1..Len(results)
                    <6>1. results'[i] = results[i]
                        BY <3>1, <4>1, <5>1
                    <6>2. outcome[i] = "ok"
                          /\ results[i] = [successful |-> TRUE, result |-> i]
                        BY <1>0, <5>1 DEF RecordedResultsFaithful
                    <6>3. QED
                        BY <2>1, <6>1, <6>2
                <5>2. CASE i = j
                    BY <2>1, <2>2, <3>1, <4>1, <5>2
                <5>3. QED
                    BY <3>1, <4>1, <5>1, <5>2
            <4>4. QED
                BY <4>2, <4>3 DEF RecordedResultsFaithful
        <3>5. NothingSubmitted'
            BY <3>1 DEF NothingSubmitted
        <3>6. QED
            BY <1>0, <2>1, <3>3, <3>4, <3>5, JobPlacesStable DEF IInv
    <2>3. CASE outcome[j] = "err"
        <3>1. pc' = "raised" /\ UNCHANGED <<results, next>>
            BY <1>3, <2>3 DEF ActivateWorker
        <3>2. TypeOK'
            BY <1>0, <2>1, <3>1 DEF TypeOK, CallerStates
        <3>3. RecordedResultsFaithful'
            BY <1>0, <2>1, <3>1 DEF RecordedResultsFaithful
        <3>4. NothingSubmitted'
            BY <3>1 DEF NothingSubmitted
        <3>5. QED
            BY <1>0, <2>1, <3>2, <3>3, <3>4, JobPlacesStable DEF IInv
    <2>4. QED
        BY <1>0, <2>1, <2>2, <2>3 DEF TypeOK, Outcomes
<1>4. CASE Close
    <2>1. pc' = "closed" /\ pool' = "joined"
          /\ UNCHANGED <<taskQueue, running, outcome, next, results>>
        BY <1>4 DEF Close
    <2>2. TypeOK'
        BY <1>0, <2>1 DEF TypeOK, CallerStates, PoolStates
    <2>3. RecordedResultsFaithful'
        BY <1>0, <2>1 DEF RecordedResultsFaithful
    <2>4. NothingSubmitted'
        BY <2>1 DEF NothingSubmitted
    <2>5. QED
        BY <1>0, <2>1, <2>2, <2>3, <2>4, JobPlacesStable DEF IInv
<1>5. ASSUME NEW p \in Procs, ProcTake(p) PROVE IInv'
    <2> DEFINE h == Head(taskQueue)
    <2>1. taskQueue # <<>> /\ taskQueue \in Seq(Jobs)
        BY <1>0, <1>5 DEF ProcTake, TypeOK
    <2>2. h = taskQueue[1] /\ h \in Jobs /\ Len(taskQueue) >= 1
        BY <2>1
    <2>3. running' = [running EXCEPT ![p] = h]
          /\ taskQueue' = Tail(taskQueue)
          /\ UNCHANGED <<pc, pool, outcome, next, results>>
        BY <1>5 DEF ProcTake
    <2>4. /\ Tail(taskQueue) \in Seq(Jobs)
          /\ Len(Tail(taskQueue)) = Len(taskQueue) - 1
          /\ \A a \in 1..Len(Tail(taskQueue)) :
                Tail(taskQueue)[a] = taskQueue[a + 1]
        BY <2>1
    <2>5. TypeOK'
        BY <1>0, <2>2, <2>3, <2>4 DEF TypeOK
    <2>6. QueueDistinct'
        BY <1>0, <2>3, <2>4 DEF QueueDistinct
    <2>7. QueuedPending'
        BY <1>0, <2>2, <2>3, <2>4 DEF QueuedPending, QueueDistinct
    <2>8. RunningPending'
        BY <1>0, <2>2, <2>3 DEF TypeOK, RunningPending, QueuedPending
    <2>9. RunningDistinct'
        BY <1>0, <2>2, <2>3 DEF TypeOK, RunningDistinct, QueuedPending
    <2>10. RecordedResultsFaithful'
        BY <1>0, <2>3 DEF RecordedResultsFaithful
    <2>11. NothingSubmitted'
        BY <1>0, <2>1, <2>3 DEF NothingSubmitted
    <2>12. QED
        BY <2>5, <2>6, <2>7, <2>8, <2>9, <2>10, <2>11 DEF IInv
<1>6. ASSUME NEW p \in Procs, ProcFinish(p) PROVE IInv'
    <2> DEFINE j == running[p]
    <2>1. j # Idle /\ j \in Jobs /\ outcome[j] = "pending"
        BY <1>0, <1>6 DEF ProcFinish, TypeOK, RunningPending
    <2>2. PICK o \in {"ok", "err"} :
             /\ outcome' = [outcome EXCEPT ![j] = o]
             /\ running' = [running EXCEPT ![p] = Idle]
             /\ UNCHANGED <<pc, pool, taskQueue, next, results>>
        BY <1>6 DEF ProcFinish
    <2>3. TypeOK'
        BY <1>0, <2>1, <2>2 DEF TypeOK, Outcomes
    <2>4. RecordedResultsFaithful'
        <3>1. \A i \in 1..Len(results) : i \in Jobs /\ i # j
            BY <1>0, <2>1 DEF TypeOK, RecordedResultsFaithful
        <3>2. QED
            BY <1>0, <2>2, <3>1 DEF TypeOK, RecordedResultsFaithful
    <2>5. NothingSubmitted'
        BY <1>0, <2>1, <2>2 DEF NothingSubmitted
    <2>6. QueueDistinct'
        BY <1>0, <2>2 DEF QueueDistinct
    <2>7. QueuedPending'
        BY <1>0, <2>1, <2>2 DEF TypeOK, QueuedPending
    <2>8. RunningPending'
        BY <1>0, <2>1, <2>2 DEF TypeOK, RunningPending, RunningDistinct
    <2>9. RunningDistinct'
        BY <1>0, <2>2 DEF TypeOK, RunningDistinct
    <2>10. QED
        BY <2>3, <2>4, <2>5, <2>6, <2>7, <2>8, <2>9 DEF IInv
<1>7. CASE Finished \/ UNCHANGED vars
    <2>1. /\ pc' = pc /\ pool' = pool /\ taskQueue' = taskQueue
          /\ running' = running /\ outcome' = outcome
          /\ next' = next /\ results' = results
        BY <1>7 DEF Finished, vars
    <2>2. TypeOK'
        BY <1>0, <2>1 DEF TypeOK
    <2>3. RecordedResultsFaithful'
        BY <1>0, <2>1 DEF RecordedResultsFaithful
    <2>4. NothingSubmitted'
        BY <1>0, <2>1 DEF NothingSubmitted
    <2>5. QED
        BY <1>0, <2>1, <2>2, <2>3, <2>4, JobPlacesStable DEF IInv
<1>8. QED
    BY <1>1, <1>2, <1>3, <1>4, <1>5, <1>6, <1>7 DEF Next, Caller

-----------------------------------------------------------------------------

\* Every reachable state is well typed: the caller, the pool, the task
\* queue, the pool processes and the recorded results keep their types.
THEOREM TypeCorrect == Spec => []TypeOK
<1>1. Init => IInv
    BY InitIInv
<1>2. IInv /\ [Next]_vars => IInv'
    BY NextIInv
<1>3. IInv => TypeOK
    BY DEF IInv
<1>4. QED
    BY <1>1, <1>2, <1>3, PTL DEF Spec

\* activate_workers() records the i-th handle's returned value at index i,
\* only after that job returned, whatever order the pool processes finish
\* the jobs in.
THEOREM ResultsFaithful == Spec => []RecordedResultsFaithful
<1>1. Init => IInv
    BY InitIInv
<1>2. IInv /\ [Next]_vars => IInv'
    BY NextIInv
<1>3. IInv => RecordedResultsFaithful
    BY DEF IInv
<1>4. QED
    BY <1>1, <1>2, <1>3, PTL DEF Spec

-----------------------------------------------------------------------------
(* Refinement of ResultCollection.  Under IInv the recorded values are    *)
(* exactly 1..next, so recording the next handle is a CollectNext step;    *)
(* a raise is an Abort; a pool process finishing a job is a Complete step, *)
(* because RunningPending says the job it ran was still pending; every    *)
(* other step leaves the outcomes, the results and the phase alone.       *)

\* The values 1..n as a sequence.
Iota(n) == [i \in 1..n |-> i]

LEMMA IotaFacts ==
    ASSUME NEW n \in Nat
    PROVE  /\ Len(Iota(n)) = n
           /\ Append(Iota(n), n + 1) = Iota(n + 1)
<1>1. Iota(n) \in Seq(Nat)
    BY DEF Iota
<1>2. Len(Iota(n)) = n
    BY <1>1 DEF Iota
<1>3. Append(Iota(n), n + 1) = Iota(n + 1)
    BY <1>1, <1>2 DEF Iota
<1>4. QED
    BY <1>2, <1>3

\* Under the invariant the collected values are 1..next.
LEMMA CollectedIsIota ==
    ASSUME TypeOK, RecordedResultsFaithful
    PROVE  CollectedValues = Iota(next)
BY DEF TypeOK, RecordedResultsFaithful, CollectedValues, Iota

\* A step that changes neither the outcomes, the results nor the phase is
\* a stuttering step of ResultCollection.
LEMMA AbstractStutter ==
    ASSUME UNCHANGED <<outcome, results>>, CollectionPhase' = CollectionPhase
    PROVE  UNCHANGED <<outcome, CollectedValues, CollectionPhase>>
BY DEF CollectedValues

LEMMA InitRefines == Init => RC!Init
<1> SUFFICES ASSUME Init PROVE RC!Init
    OBVIOUS
<1>1. CollectedValues = <<>>
    BY DEF Init, CollectedValues
<1>2. CollectionPhase = "collecting"
    BY DEF Init, CollectionPhase
<1>3. QED
    BY <1>1, <1>2 DEF Init, RC!Init, RC!Jobs

LEMMA NextRefines ==
    IInv /\ [Next]_vars => [RC!Next]_<<outcome, CollectedValues, CollectionPhase>>
<1> SUFFICES ASSUME IInv, [Next]_vars
             PROVE  [RC!Next]_<<outcome, CollectedValues, CollectionPhase>>
    OBVIOUS
<1>0. /\ TypeOK /\ RecordedResultsFaithful /\ RunningPending
    BY DEF IInv
<1>1. CASE Initialization
    <2>1. CollectionPhase' = CollectionPhase
        BY <1>1 DEF Initialization, CollectionPhase
    <2>2. QED
        BY <1>1, <2>1, AbstractStutter DEF Initialization
<1>2. CASE BuildWorkers
    <2>1. CollectionPhase' = CollectionPhase
        BY <1>2 DEF BuildWorkers, CollectionPhase
    <2>2. QED
        BY <1>2, <2>1, AbstractStutter DEF BuildWorkers
<1>3. CASE ActivateWorker
    <2> DEFINE j == next + 1
    <2>1. /\ pc \in {"built", "activating"} /\ next < WorkersNumber
          /\ UNCHANGED outcome
        BY <1>3 DEF ActivateWorker
    <2>2. next \in Nat /\ Len(CollectedValues) = next
        <3>1. next \in Nat
            BY <1>0, WorkersNumberAssumption DEF TypeOK
        <3>2. CollectedValues = Iota(next)
            BY <1>0, CollectedIsIota
        <3>3. Len(Iota(next)) = next
            BY <3>1, IotaFacts
        <3>4. QED
            BY <3>1, <3>2, <3>3
    <2>3. CollectionPhase = "collecting"
        BY <2>1 DEF CollectionPhase
    <2>4. CASE outcome[j] = "ok"
        <3>1. /\ results' = Append(results, [successful |-> TRUE, result |-> j])
              /\ next' = j
              /\ pc' = IF j = WorkersNumber THEN "activated" ELSE "activating"
            BY <1>3, <2>4 DEF ActivateWorker
        <3>2. TypeOK' /\ RecordedResultsFaithful'
            BY NextIInv DEF IInv
        <3>3. CollectedValues' = Append(CollectedValues, j)
            <4>1. CollectedValues = Iota(next)
                BY <1>0, CollectedIsIota
            <4>2. CollectedValues' = Iota(next')
                BY <3>2 DEF TypeOK, RecordedResultsFaithful, CollectedValues, Iota
            <4>3. Append(Iota(next), next + 1) = Iota(next + 1)
                BY <2>2, IotaFacts
            <4>4. QED
                BY <3>1, <4>1, <4>2, <4>3
        <3>4. CollectionPhase' = IF j = WorkersNumber THEN "done" ELSE "collecting"
            BY <3>1 DEF CollectionPhase
        <3>5. RC!CollectNext
            BY <2>1, <2>2, <2>3, <2>4, <3>3, <3>4 DEF RC!CollectNext
        <3>6. QED
            BY <3>5 DEF RC!Next
    <2>5. CASE outcome[j] = "err"
        <3>1. pc' = "raised" /\ UNCHANGED <<results, next>>
            BY <1>3, <2>5 DEF ActivateWorker
        <3>2. CollectedValues' = CollectedValues /\ CollectionPhase' = "aborted"
            BY <3>1 DEF CollectedValues, CollectionPhase
        <3>3. RC!Abort
            BY <2>1, <2>2, <2>3, <2>5, <3>2 DEF RC!Abort
        <3>4. QED
            BY <3>3 DEF RC!Next
    <2>6. QED
        BY <1>3, <2>4, <2>5 DEF ActivateWorker
<1>4. CASE Close
    <2>1. CollectionPhase' = CollectionPhase
        BY <1>4 DEF Close, CollectionPhase
    <2>2. QED
        BY <1>4, <2>1, AbstractStutter DEF Close
<1>5. ASSUME NEW p \in Procs, ProcTake(p)
      PROVE  [RC!Next]_<<outcome, CollectedValues, CollectionPhase>>
    <2>1. CollectionPhase' = CollectionPhase
        BY <1>5 DEF ProcTake, CollectionPhase
    <2>2. QED
        BY <1>5, <2>1, AbstractStutter DEF ProcTake
<1>6. ASSUME NEW p \in Procs, ProcFinish(p)
      PROVE  [RC!Next]_<<outcome, CollectedValues, CollectionPhase>>
    <2> DEFINE j == running[p]
    <2>1. j \in RC!Jobs /\ outcome[j] = "pending"
        BY <1>0, <1>6 DEF ProcFinish, TypeOK, RunningPending, RC!Jobs
    <2>2. /\ \E o \in {"ok", "err"} : outcome' = [outcome EXCEPT ![j] = o]
          /\ UNCHANGED <<pc, results>>
        BY <1>6 DEF ProcFinish
    <2>3. CollectedValues' = CollectedValues /\ CollectionPhase' = CollectionPhase
        BY <2>2 DEF CollectedValues, CollectionPhase
    <2>4. RC!Complete(j)
        BY <2>1, <2>2, <2>3 DEF RC!Complete
    <2>5. QED
        BY <2>1, <2>4 DEF RC!Next
<1>7. CASE Finished \/ UNCHANGED vars
    <2>1. UNCHANGED <<pc, outcome, results>>
        BY <1>7 DEF Finished, vars
    <2>2. QED
        BY <2>1, AbstractStutter DEF CollectionPhase
<1>8. QED
    BY <1>1, <1>2, <1>3, <1>4, <1>5, <1>6, <1>7 DEF Next, Caller

\* The process pool implements ResultCollection (ImplementsCollection):
\* whatever the interleaving of the caller and the pool processes, each
\* handle's outcome is set once, values are collected in handle order
\* after their job returned, and a failed handle stops the collection.
THEOREM Refinement == Spec => ImplementsCollection
<1>1. Init => IInv
    BY InitIInv
<1>2. IInv /\ [Next]_vars => IInv'
    BY NextIInv
<1>3. Init => RC!Init
    BY InitRefines
<1>4. IInv /\ [Next]_vars => [RC!Next]_<<outcome, CollectedValues, CollectionPhase>>
    BY NextRefines
<1>5. QED
    BY <1>1, <1>2, <1>3, <1>4, PTL DEF Spec, ImplementsCollection, RC!Spec, RC!avars

=============================================================================

---------------------------- MODULE ThreadStrategy ----------------------------
(***************************************************************************)
(* MultiThreadingStrategy (src/pyocean/concurrent/strategy.py) driven     *)
(* through one run, with the worker body of the thread-strategy tests     *)
(* (target_fun in src/tests/concurrent/strategy.py).                       *)
(*                                                                         *)
(* init_multi_working() puts the tasks on a queue and registers it as the *)
(* process-wide Running_Queue (InitializeUtils.initialize_queue, then     *)
(* Globalize.queue), then hands over to the persistence strategy.         *)
(* build_multi_workers() creates threads_number Threads,                  *)
(* activate_multi_workers() starts them in list order, end_multi_working() *)
(* joins them in list order or raises ThreadsListIsEmptyError.            *)
(*                                                                         *)
(* Each started thread runs target_fun: under the module lock _Thread_Lock *)
(* it does Running_Count += 1 (a load and a store) and records its ident,  *)
(* then it sleeps and returns.                                             *)
(***************************************************************************)
EXTENDS Naturals, FiniteSets

CONSTANTS
    MaxThreads,      \* largest threads_num a strategy is constructed with
    TaskList,        \* the tasks handed to init_multi_working
    NoQueue,         \* Running_Queue before any queue is registered
    MaxCpus,         \* largest cpu_count() of a host
    PoolSizes,       \* db_connection_pool_size values a caller may pass
    NoPoolSize       \* db_connection_pool_size not given (None)

ASSUME MaxThreadsAssumption == MaxThreads \in Nat
ASSUME MaxCpusAssumption == MaxCpus \in Nat \ {0}
ASSUME PoolSizesAssumption == PoolSizes \subseteq Nat \ {0}

\* The persistence strategies init_multi_working may meet: the default None,
\* a SingleConnection, or a user subclass of BaseConnection.
PersistenceKinds == {"none", "single", "custom"}

Threads == 1..MaxThreads
NoHolder == 0

\* Thread life: not created, created, started, holding _Thread_Lock, after
\* the load of Running_Count, after the store, lock released, returned.
ThreadStates == {"none", "created", "started", "locked", "loaded",
                 "stored", "released", "done"}

CallerStates == {"new", "initialized", "initFailed", "built",
                 "activating", "activated", "startFailed", "joining",
                 "ended", "emptyRaised"}

VARIABLES
    threadsNumber,   \* self.__threads_num, fixed at construction
    persistence,     \* self._persistence_strategy, fixed at construction
    poolSize,        \* self.__db_conn_instance_num, fixed at construction
    cpus,            \* cpu_count() of the host
    connInstances,   \* db_conn_instances_num handed to initialize, or 0
    pc,              \* the caller's position in the lifecycle
    runningQueue,    \* the process-wide Running_Queue slot of Globalize
    tstate,          \* tstate[t]: where thread t of _Threads_List is
    cursor,          \* index the start or join loop is at
    lockHolder,      \* thread holding _Thread_Lock, or NoHolder
    loaded,          \* loaded[t]: the value of Running_Count thread t loaded
    runningCount     \* Running_Count of the test module

vars == <<threadsNumber, persistence, poolSize, cpus, connInstances, pc, runningQueue, tstate, cursor,
          lockHolder, loaded, runningCount>>

\* Threads of the current _Threads_List.
Built == 1..threadsNumber

-----------------------------------------------------------------------------

TypeOK ==
    /\ threadsNumber \in 0..MaxThreads
    /\ persistence \in PersistenceKinds
    /\ poolSize \in PoolSizes \cup {NoPoolSize}
    /\ cpus \in 1..MaxCpus
    /\ connInstances \in Nat
    /\ pc \in CallerStates
    /\ runningQueue \in {NoQueue, TaskList}
    /\ tstate \in [Threads -> ThreadStates]
    /\ cursor \in 0..MaxThreads
    /\ lockHolder \in Threads \cup {NoHolder}
    /\ loaded \in [Threads -> 0..MaxThreads]
    /\ runningCount \in 0..MaxThreads

\* The strategy is constructed with some threads_num, persistence strategy
\* and db_connection_pool_size on a host with some number of CPUs;
\* _Threads_List is the empty class attribute.
Init ==
    /\ threadsNumber \in 0..MaxThreads
    /\ persistence \in PersistenceKinds
    /\ poolSize \in PoolSizes \cup {NoPoolSize}
    /\ cpus \in 1..MaxCpus
    /\ connInstances = 0
    /\ pc = "new"
    /\ runningQueue = NoQueue
    /\ tstate = [t \in Threads |-> "none"]
    /\ cursor = 0
    /\ lockHolder = NoHolder
    /\ loaded = [t \in Threads |-> 0]
    /\ runningCount = 0

\* Mutant of DbConnectionInstancesNumber: a given pool size is capped at
\* cpu_count() instead of only warned about.
DbConnectionInstancesNumberCapped(threads, size, cpuCount) ==
    IF size = NoPoolSize
        THEN IF threads < cpuCount THEN threads ELSE cpuCount
        ELSE IF size > cpuCount THEN cpuCount ELSE size

\* The db_connection_instances_number property: threads_num capped at
\* cpu_count() when no pool size was given; otherwise the given size,
\* with only a printed warning when it exceeds cpu_count().
DbConnectionInstancesNumber(threads, size, cpuCount) ==
    IF size = NoPoolSize
        THEN IF threads < cpuCount THEN threads ELSE cpuCount
        ELSE size

\* init_multi_working(): the task queue is registered first; then
\* db_connection_instances_number is evaluated and initialize_persistence()
\* calls persistence.initialize(...) with it, which raises AttributeError
\* on None and NameError in SingleConnection.initialize (queue_type is
\* undefined there).
InitMultiWorking ==
    /\ pc = "new"
    /\ runningQueue' = TaskList
    /\ connInstances' = DbConnectionInstancesNumber(threadsNumber, poolSize, cpus)
    /\ pc' = IF persistence = "custom" THEN "initialized" ELSE "initFailed"
    /\ UNCHANGED <<threadsNumber, persistence, poolSize, cpus, tstate,
                   cursor, lockHolder, loaded, runningCount>>

\* build_multi_workers(): a list of threads_number new Threads.
BuildMultiWorkers ==
    /\ pc = "initialized"
    /\ tstate' = [t \in Threads |-> IF t \in Built THEN "created" ELSE "none"]
    /\ cursor' = 0
    /\ pc' = "built"
    /\ UNCHANGED <<threadsNumber, persistence, poolSize, cpus, connInstances,
                   runningQueue, lockHolder,
                   loaded, runningCount>>

\* Mutant of ActivateWorker: the start loop runs one index past the list.
ActivateWorkerPastEnd ==
    /\ pc \in {"built", "activating"}
    /\ \/ /\ cursor <= threadsNumber
          /\ \/ /\ tstate' = [tstate EXCEPT ![cursor + 1] = "started"]
                /\ cursor' = cursor + 1
                /\ pc' = "activating"
             \/ /\ pc' = "startFailed"
                /\ UNCHANGED <<tstate, cursor>>
       \/ /\ cursor = threadsNumber
          /\ cursor' = 0
          /\ pc' = "activated"
          /\ UNCHANGED tstate
    /\ UNCHANGED <<threadsNumber, persistence, poolSize, cpus, connInstances,
                   runningQueue, lockHolder,
                   loaded, runningCount>>

\* activate_multi_workers(): activate_worker() = start() on each thread in
\* list order.  start() raises RuntimeError when the OS cannot create one
\* more thread; the loop is abandoned with the earlier threads running.
ActivateWorker ==
    /\ pc \in {"built", "activating"}
    /\ \/ /\ cursor < threadsNumber
          /\ \/ /\ tstate' = [tstate EXCEPT ![cursor + 1] = "started"]
                /\ cursor' = cursor + 1
                /\ pc' = "activating"
             \/ /\ pc' = "startFailed"
                /\ UNCHANGED <<tstate, cursor>>
       \/ /\ cursor = threadsNumber
          /\ cursor' = 0
          /\ pc' = "activated"
          /\ UNCHANGED tstate
    /\ UNCHANGED <<threadsNumber, persistence, poolSize, cpus, connInstances,
                   runningQueue, lockHolder,
                   loaded, runningCount>>

\* Mutant of EndMultiWorking: the join loop stops one thread early.
EndMultiWorkingOffByOne ==
    /\ pc \in {"activated", "joining"}
    /\ \/ /\ threadsNumber = 0
          /\ pc' = "emptyRaised"
          /\ UNCHANGED cursor
       \/ /\ threadsNumber > 0
          /\ cursor + 1 < threadsNumber
          /\ tstate[cursor + 1] = "done"
          /\ cursor' = cursor + 1
          /\ pc' = "joining"
       \/ /\ threadsNumber > 0
          /\ cursor + 1 >= threadsNumber
          /\ pc' = "ended"
          /\ UNCHANGED cursor
    /\ UNCHANGED <<threadsNumber, persistence, poolSize, cpus, connInstances,
                   runningQueue, tstate,
                   lockHolder, loaded, runningCount>>

\* end_multi_working(): an empty _Threads_List raises
\* ThreadsListIsEmptyError; otherwise join() on each thread in list order,
\* each join blocking until that thread has returned.
EndMultiWorking ==
    /\ pc \in {"activated", "joining"}
    /\ \/ /\ threadsNumber = 0
          /\ pc' = "emptyRaised"
          /\ UNCHANGED cursor
       \/ /\ threadsNumber > 0
          /\ cursor < threadsNumber
          /\ tstate[cursor + 1] = "done"
          /\ cursor' = cursor + 1
          /\ pc' = "joining"
       \/ /\ threadsNumber > 0
          /\ cursor = threadsNumber
          /\ pc' = "ended"
          /\ UNCHANGED cursor
    /\ UNCHANGED <<threadsNumber, persistence, poolSize, cpus, connInstances,
                   runningQueue, tstate,
                   lockHolder, loaded, runningCount>>

-----------------------------------------------------------------------------
(* target_fun, run by each started thread.                                 *)

\* Mutant of Acquire: the thread enters without the lock being free.
AcquireUnguarded(t) ==
    /\ tstate[t] = "started"
    /\ tstate' = [tstate EXCEPT ![t] = "locked"]
    /\ lockHolder' = t
    /\ UNCHANGED <<threadsNumber, persistence, poolSize, cpus, connInstances,
                   pc, runningQueue, cursor,
                   loaded, runningCount>>

\* with _Thread_Lock: blocks until the lock is free.
Acquire(t) ==
    /\ tstate[t] = "started"
    /\ lockHolder = NoHolder
    /\ tstate' = [tstate EXCEPT ![t] = "locked"]
    /\ lockHolder' = t
    /\ UNCHANGED <<threadsNumber, persistence, poolSize, cpus, connInstances,
                   pc, runningQueue, cursor,
                   loaded, runningCount>>

\* Running_Count += 1, first half: the current value is loaded.
LoadCount(t) ==
    /\ tstate[t] = "locked"
    /\ loaded' = [loaded EXCEPT ![t] = runningCount]
    /\ tstate' = [tstate EXCEPT ![t] = "loaded"]
    /\ UNCHANGED <<threadsNumber, persistence, poolSize, cpus, connInstances,
                   pc, runningQueue, cursor,
                   lockHolder, runningCount>>

\* Running_Count += 1, second half: the loaded value plus one is stored
\* (the ident, ppid and timestamp records are appended in the same block).
StoreCount(t) ==
    /\ tstate[t] = "loaded"
    /\ runningCount' = loaded[t] + 1
    /\ tstate' = [tstate EXCEPT ![t] = "stored"]
    /\ UNCHANGED <<threadsNumber, persistence, poolSize, cpus, connInstances,
                   pc, runningQueue, cursor,
                   lockHolder, loaded>>

\* Mutant of Release: leaving the with-block does not free the lock.
ReleaseKeepsLock(t) ==
    /\ tstate[t] = "stored"
    /\ tstate' = [tstate EXCEPT ![t] = "released"]
    /\ UNCHANGED <<threadsNumber, persistence, poolSize, cpus, connInstances,
                   pc, runningQueue, cursor,
                   lockHolder, loaded, runningCount>>

\* End of the with-block: _Thread_Lock is released.
Release(t) ==
    /\ tstate[t] = "stored"
    /\ lockHolder' = NoHolder
    /\ tstate' = [tstate EXCEPT ![t] = "released"]
    /\ UNCHANGED <<threadsNumber, persistence, poolSize, cpus, connInstances,
                   pc, runningQueue, cursor,
                   loaded, runningCount>>

\* time.sleep(...) and return f"result_{ident}": the thread ends.
Return(t) ==
    /\ tstate[t] = "released"
    /\ tstate' = [tstate EXCEPT ![t] = "done"]
    /\ UNCHANGED <<threadsNumber, persistence, poolSize, cpus, connInstances,
                   pc, runningQueue, cursor,
                   lockHolder, loaded, runningCount>>

Worker(t) ==
    Acquire(t) \/ LoadCount(t) \/ StoreCount(t) \/ Release(t) \/ Return(t)

Caller ==
    InitMultiWorking \/ BuildMultiWorkers \/ ActivateWorker \/ EndMultiWorking

\* The run is over: the caller returned or raised, and no thread runs.
Finished ==
    /\ pc \in {"initFailed", "startFailed", "ended", "emptyRaised"}
    /\ \A t \in Threads : tstate[t] \in {"none", "created", "done"}
    /\ UNCHANGED vars

Next ==
    \/ Caller
    \/ \E t \in Threads : Worker(t)
    \/ Finished

\* The caller is one sequential thread; the interpreter keeps scheduling
\* every runnable thread (the GIL is handed over periodically).
Fairness ==
    /\ WF_vars(Caller)
    /\ \A t \in Threads : WF_vars(Worker(t))

Spec == Init /\ [][Next]_vars

FairSpec == Spec /\ Fairness

-----------------------------------------------------------------------------
(* Properties                                                               *)

\* Threads that have completed Running_Count += 1.
Counted == {t \in Threads : tstate[t] \in {"stored", "released", "done"}}

\* The test's Running_Count == worker_size check: whatever the interleaving
\* of the started threads, no increment of Running_Count is lost.
NoLostUpdate == runningCount = Cardinality(Counted)

\* When end_multi_working() returns normally, every thread of the list has
\* run target_fun to the end.
EndedAfterAllDone ==
    pc = "ended" => \A t \in Built : tstate[t] = "done"

\* Every run ends: the caller returns or raises and no thread is left
\* blocked on _Thread_Lock or in a join.
RunTerminates ==
    <>(/\ pc \in {"initFailed", "startFailed", "ended", "emptyRaised"}
       /\ \A t \in Threads : tstate[t] \in {"none", "created", "done"})

\* Spec 4.4: a persistence-backed run gets as many database connections as
\* the smaller of the worker count and the host's CPU count, unless the
\* caller gave a pool size; a given size is used as it is, even above the
\* CPU count (an advisory, not a cap).  Checked for every combination of
\* threads_num, db_connection_pool_size and cpu_count in the model.
ConnectionsAsSpecified ==
    pc # "new" =>
       connInstances =
          IF poolSize = NoPoolSize
             THEN CHOOSE m \in {threadsNumber, cpus} :
                     \A x \in {threadsNumber, cpus} : m <= x
             ELSE poolSize

\* Spec 4.4: the persistence strategy is optional ("for persistence-backed
\* runs"); a strategy built without one must get past init_multi_working.
InitWithoutPersistence ==
    persistence = "none" => pc # "initFailed"

=============================================================================

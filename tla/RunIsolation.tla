----------------------------- MODULE RunIsolation -----------------------------
(***************************************************************************)
(* Several runs in one process, each set up by init_multi_working          *)
(* (src/pyocean/concurrent/strategy.py) through                            *)
(* InitializeUtils.initialize_queue (src/pyocean/framework/strategy.py).  *)
(*                                                                         *)
(* initialize_queue(tasks, qtype) asks the running mode's queue adapter   *)
(* for the queue of type qtype, puts the run's tasks on it and registers  *)
(* it as the module global Running_Queue (Globalize.queue).  The queue    *)
(* adapters of src/pyocean/coroutine/features.py return qtype.value: the  *)
(* queue object created once, when the Enum class body ran at import.     *)
(* Every run that names the same queue type therefore shares one queue,   *)
(* and every worker finds the queue of the run that registered last.      *)
(*                                                                         *)
(* The workers are the consumers of the task queue: each takes the next   *)
(* item from Running_Queue with a blocking get (spec 4.2 and 4.4,         *)
(* build_workers_from_queue: one item per worker).                        *)
(***************************************************************************)
EXTENDS Naturals, Sequences

CONSTANTS
    NumRuns,          \* runs one process sets up
    Modes,            \* the RunningModes a run may be built with
    TasksPerRun,      \* tasks, and workers, of each run
    QTypes,           \* the queue types a run may name (Enum members)
    Persistences,     \* persistence strategies a run may be built with
    Overlap,          \* TRUE: a run may start before the previous ended
    NoQueue,          \* Running_Queue before any registration
    NoTask            \* a worker that has not taken a task yet

ASSUME NumRunsAssumption == NumRuns \in Nat \ {0}
ASSUME ModesAssumption ==
    Modes \subseteq {"Parallel", "Concurrent", "Greenlet", "Asynchronous"}
ASSUME TasksPerRunAssumption == TasksPerRun \in Nat \ {0}
ASSUME PersistencesAssumption == Persistences \subseteq {"none", "single", "custom"}
ASSUME OverlapAssumption == Overlap \in BOOLEAN

Runs == 1..NumRuns

\* Task i of run r, and the worker of run r that consumes one task.
Tasks == Runs \X (1..TasksPerRun)
Workers == Runs \X (1..TasksPerRun)

\* NoTask is not a task.
ASSUME NoTaskAssumption == NoTask \notin Tasks

\* Mutant of TaskList: the put loop runs one index past the task list.
TaskListOffByOne(r) == [i \in 1..(TasksPerRun + 1) |-> <<r, i>>]

\* The tasks run r hands to init_multi_working, put in list order by
\* _add_task_to_queue.
TaskList(r) == [i \in 1..TasksPerRun |-> <<r, i>>]

\* FeatureMode's "queue" entry: the queue adapter class a mode's
\* RunningStrategyAPI(mode).queue(qtype) goes through.
FeatureQueueAdapter(m) ==
    [Parallel |-> "MultiProcessingQueue", Concurrent |-> "MultiThreadingQueue",
     Greenlet |-> "GreenletQueue", Asynchronous |-> "AsyncQueue"][m]

\* The queue objects created at import: one per member of each adapter's
\* queue-type Enum.
QueueObjects == {FeatureQueueAdapter(m) : m \in Modes} \X QTypes

Phases == {"new", "initialized", "initFailed", "ended"}

VARIABLES
    modeOf,         \* modeOf[r]: the RunningMode of run r's strategy
    qtypeOf,        \* qtypeOf[r]: the queue type run r passes
    persistenceOf,  \* persistenceOf[r]: run r's persistence strategy
    phase,          \* phase[r]: where run r's caller is
    queues,         \* queues[q]: the content of the queue object qtype.value
    runningQueue,   \* Running_Queue: the queue type whose object is registered
    took            \* took[w]: the task worker w got from get()

vars == <<modeOf, qtypeOf, persistenceOf, phase, queues, runningQueue, took>>

-----------------------------------------------------------------------------

TypeOK ==
    /\ modeOf \in [Runs -> Modes]
    /\ qtypeOf \in [Runs -> QTypes]
    /\ persistenceOf \in [Runs -> Persistences]
    /\ phase \in [Runs -> Phases]
    /\ queues \in [QueueObjects -> Seq(Tasks)]
    /\ runningQueue \in QueueObjects \cup {NoQueue}
    /\ took \in [Workers -> Tasks \cup {NoTask}]

\* Import time: every Enum member holds one empty queue; Running_Queue is
\* unset.  Each run's caller has chosen its mode, queue type and
\* persistence.
Init ==
    /\ modeOf \in [Runs -> Modes]
    /\ qtypeOf \in [Runs -> QTypes]
    /\ persistenceOf \in [Runs -> Persistences]
    /\ phase = [r \in Runs |-> "new"]
    /\ queues = [q \in QueueObjects |-> <<>>]
    /\ runningQueue = NoQueue
    /\ took = [w \in Workers |-> NoTask]

\* GreenletQueue.get_queue / AsyncQueue.get_queue: qtype.value, the queue
\* object bound to the Enum member, the same object on every call.
GetQueue(adapter, qtype) == <<adapter, qtype>>

\* A run may start once the runs before it have ended, or at any time
\* when runs overlap (two strategies driven from two threads).
MayStart(r) ==
    Overlap \/ \A s \in 1..(r - 1) : phase[s] \in {"initFailed", "ended"}

\* init_multi_working(): initialize_queue puts the tasks on the queue of
\* the run's type (_init_tasks_queue, _add_task_to_queue) and registers
\* it (Globalize.queue); then initialize_persistence calls initialize on
\* the persistence strategy, which fails for None and SingleConnection.
InitMultiWorking(r) ==
    /\ phase[r] = "new"
    /\ MayStart(r)
    /\ LET q == GetQueue(FeatureQueueAdapter(modeOf[r]), qtypeOf[r]) IN
         /\ queues' = [queues EXCEPT ![q] = @ \o TaskList(r)]
         /\ runningQueue' = q
    /\ phase' = [phase EXCEPT ![r] =
                   IF persistenceOf[r] = "custom" THEN "initialized" ELSE "initFailed"]
    /\ UNCHANGED <<modeOf, qtypeOf, persistenceOf, took>>

\* Mutant of Take: get() returns the head but leaves it on the queue.
TakePeek(w) ==
    /\ phase[w[1]] = "initialized"
    /\ took[w] = NoTask
    /\ queues[runningQueue] # <<>>
    /\ took' = [took EXCEPT ![w] = Head(queues[runningQueue])]
    /\ UNCHANGED <<modeOf, qtypeOf, persistenceOf, phase, queues, runningQueue>>

\* A started worker of run r: Running_Queue.get(), blocking while the
\* registered queue is empty.  The global is read when get() is called.
Take(w) ==
    /\ phase[w[1]] = "initialized"
    /\ took[w] = NoTask
    /\ queues[runningQueue] # <<>>
    /\ took' = [took EXCEPT ![w] = Head(queues[runningQueue])]
    /\ queues' = [queues EXCEPT ![runningQueue] = Tail(@)]
    /\ UNCHANGED <<modeOf, qtypeOf, persistenceOf, phase, runningQueue>>

\* Mutant of EndMultiWorking: the joins are skipped, so the call returns
\* while workers of the run are still waiting in get().
EndMultiWorkingNoJoin(r) ==
    /\ phase[r] = "initialized"
    /\ phase' = [phase EXCEPT ![r] = "ended"]
    /\ UNCHANGED <<modeOf, qtypeOf, persistenceOf, queues, runningQueue, took>>

\* end_multi_working(): the joins return once every worker of the run has
\* its task.
EndMultiWorking(r) ==
    /\ phase[r] = "initialized"
    /\ \A i \in 1..TasksPerRun : took[<<r, i>>] # NoTask
    /\ phase' = [phase EXCEPT ![r] = "ended"]
    /\ UNCHANGED <<modeOf, qtypeOf, persistenceOf, queues, runningQueue, took>>

\* Every run has ended or failed to initialise.
Finished ==
    /\ \A r \in Runs : phase[r] \in {"initFailed", "ended"}
    /\ UNCHANGED vars

Next ==
    \/ \E r \in Runs : InitMultiWorking(r) \/ EndMultiWorking(r)
    \/ \E w \in Workers : Take(w)
    \/ Finished

Spec == Init /\ [][Next]_vars

-----------------------------------------------------------------------------
(* Properties                                                               *)

\* Spec 3 (TaskQueue: "shared across workers of one pool") and 4.3
\* ("callers needing isolation must construct a fresh Strategy"): a worker
\* only ever gets a task of its own run, whatever runs came before it in
\* the process and whatever queue object they left behind or registered.
RunSeesOwnTasks ==
    \A w \in Workers : took[w] # NoTask => took[w][1] = w[1]


\* What sequential runs promise (RunTasks), seen through the runs' phases
\* and the tasks the workers got.
RT == INSTANCE RunTasks

\* Spec 4.2 to 4.4: the shared Enum queue objects, Running_Queue and the
\* workers' blocking get() implement RunTasks: runs follow one another,
\* every worker gets one task of its own run that no other worker got, and
\* end_multi_working returns only once every worker has its task.
ImplementsRunTasks == RT!Spec

=============================================================================

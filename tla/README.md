# Formal models of pyocean's running strategies

This directory holds TLA+ models of the pyocean library (`src/pyocean`), TLC
configurations that model-check them on small instances, and TLAPS proofs of
their main invariants. `PROJECT.json` lists the components, the runs, the
mutants that show each property can fail, the map from definitions to source
lines, the findings and the hazards.

## 1. The system

pyocean runs one function many times in parallel under a chosen *strategy*.
A client (the executor facade, `framework/executor.py`, which is abstract
under `src/`) drives a strategy through a fixed lifecycle:

| step | process pool (`parallel/strategy.py`) | threads (`concurrent/strategy.py`) |
|---|---|---|
| set up | `initialization`: creates `Pool(processes=workers_number)` | `init_multi_working`: fills a queue with the tasks, registers it with `Globalize.queue`, then calls `initialize_persistence` |
| build | `build_workers`: `workers_number` calls of `apply_async`, which returns handles | `build_multi_workers`: `threads_number` `Thread` objects |
| activate | `activate_workers`: `get()` on each handle in order, appending `{"successful", "result"}` | `activate_multi_workers`: `start()` on each thread in order |
| finish | `close`: `pool.close(); pool.join()` | `end_multi_working`: `join()` each thread in order, or raise `ThreadsListIsEmptyError` |
| results | `get_result` / `_result_handling`: one `ParallelResult` per recorded dict | (none) |

### Parts and how they interact

- **Strategies.** `RunnableStrategy` in `framework/strategy.py` is the base
  class, with `MultiProcessingStrategy` and `MultiThreadingStrategy` built on
  it. They own the workers and the results.
- **InitializeUtils.** Builds the task queue and calls the persistence
  strategy's `initialize`.
- **Globalize.** Module-level slots (`Running_Queue`, `Running_Lock`, ...)
  that every worker reads. This is the one piece of process-wide shared state.
- **Persistence strategies** (`persistence/database/*.py`). Their
  `initialize` registers a queue and a lock through `Globalize`.
- **Feature adapters** (`framework/features.py`, `coroutine/features.py`,
  `adapter/base.py`, `multirunnable/adapter/communication.py`). Factories for
  queues, locks, events and conditions. Queue types are Enum members that hold
  a queue instance created at import.
- **Modes.** `mode.py`'s `FeatureMode` table names, per running mode, the
  adapter classes its `RunningStrategyAPI` uses (which queue adapter, which
  lock adapter).
- **Examples** (`example/simple/*.py`). Client programs that run functions
  through the executor with a lock plus a bounded retry, or with an event
  shared by a producer loop and a consumer loop.
- **Workers.** Pool processes, or threads, that run the user function
  concurrently with the caller. The thread tests
  (`tests/concurrent/strategy.py`, `target_fun`) use a worker body that
  increments a module counter under a module lock.

### State, operations and hard behaviours (inventory)

- Process pool:
  - state: the pool, its FIFO task queue, the job each process runs, each
    handle's readiness, and the Manager list of results;
  - operations: the five steps above, plus the pool processes' take and
    finish;
  - hard behaviours: jobs finish in any order while results are collected in
    handle order; a job that raises makes `get()` re-raise and aborts the
    collection loop; `get()` has no timeout.
- Threads:
  - state: the thread list, each thread's progress, the lock holder,
    `Running_Count`, and the registered queue;
  - hard behaviours: the read-modify-write of `Running_Count` under a lock;
    joins in order; `start()` failing part-way; persistence initialisation
    failing after the queue is already registered.
- Registry: one slot per kind, overwritten by whoever initialises last.

## 2. Modules

| module | models | state (variables) ↔ code |
|---|---|---|
| `ProcessPoolStrategy` | `MultiProcessingStrategy`, one run | `pc` = caller's position in the lifecycle; `pool` = `_Processors_Pool`; `taskQueue` = the Pool's internal job queue; `running[p]` = the job process `p` runs; `outcome[j]` = `AsyncResult` j not ready / returned / raised; `next` = handles done by `activate_workers`; `results` = `_Processors_Running_Result` |
| `ProcessPoolStrategyProofs` | TLAPS proofs about `ProcessPoolStrategy` | none |
| `ThreadStrategy` | `MultiThreadingStrategy`, one run, worker = test `target_fun` | `threadsNumber`, `persistence` = constructor arguments; `runningQueue` = `Globalize`'s `Running_Queue`; `tstate[t]` = progress of `_Threads_List[t]`; `cursor` = index of the start or join loop; `lockHolder` = `_Thread_Lock`; `loaded[t]` = the value thread t read for `+= 1`; `runningCount` = `Running_Count` |
| `ResultCollection` | what a pool run promises, without pools or processes | `status[j]` = job j pending / returned / raised; `collected` = values collected so far, in job order; `phase` = collecting / done / aborted |
| `FeatureAdapters` | the greenlet and asyncio adapters (`coroutine/features.py`), and every `Globalize` slot (the Event/Condition factories of `multirunnable/adapter/communication.py` only through their `globalize_instance`) | `registry[k]` = `Running_Lock`, `Running_Event`, ... ; `req[c]`, `out[c]` = client c's last factory call and what it returned or raised; `history` = every globalize call, in order |
| `DatabaseConnection` | `BaseConnection` (`persistence/database/connection.py`) | `databaseConfig` = the class attribute `_Database_Config`; `given[c]` = the configuration connection c was constructed with |
| `ThreadStrategyProofs` | TLAPS proofs about `ThreadStrategy` | none |
| `RunIsolation` | several runs in one process, each through `InitializeUtils.initialize_queue` / `initialize_persistence` and the queue adapters of `coroutine/features.py` | `modeOf[r]`, `qtypeOf[r]`, `persistenceOf[r]` = run r's mode, queue type and persistence; `phase[r]` = where run r's caller is; `queues[o]` = the content of queue object o = <<adapter, Enum member>>, created at import; `runningQueue` = `Running_Queue`; `took[w]` = the task worker w got |
| `LockRetryExample` | `example/simple/executor_client_with_lock.py`, and the other decorator order of `tests/integration_test/_retry_with_lock_examples.py` | `pc[w]` = where worker process w is in `target_function` / the retry loop / `RunWith.Lock`; `lockHolder` = the `LockFactory` lock; `attempts[w]`, `outcome[w]` = the retry loop's count and the last attempt's outcome; `result[w]` = what the worker gave the executor; `collected` = `executor.result()` returned |
| `LockRetryExampleProofs` | TLAPS proofs about `LockRetryExample` | none |
| `EventExampleProofs` | TLAPS proofs about `EventExample` | none |
| `RunTasks` | what sequential runs promise: runs one after another, one fresh task of its own run per worker, a run ending only once all its workers have tasks; no queues | `phase[r]` = run r new / initialized / ended; `took[w]` = the task worker w got |
| `RunIsolationProofs` | TLAPS proofs about `RunIsolation` | none |
| `FeatureAdaptersProofs` | TLAPS proofs about `FeatureAdapters` | none |
| `EventExample` | `example/simple/executor_client_with_event.py` | `mode` = the executor's `RunningMode`; `flag` = the Event's flag; `cpc` = where `SleepProcess`'s loop is; `ct`, `pt` = seconds left of the two loops' sleeps |
| `MC_*` | constants for TLC | none |

### Actions

- **Actions are whole handlers.** Each caller action is a whole method:
  - `ActivateWorker` is one iteration of the `activate_workers` loop, including
    the blocking `get()` (a guard: the handle is ready), the re-raise (the
    `"raised"` branch) and the append;
  - `InitMultiWorking` does the queue registration and then the persistence
    call that fails for `None` and for `SingleConnection`.
- **Job values.** A job's return value is abstracted to the job's own index.
  A recorded value therefore names the job that produced it.
- **Pool processes:**
  - `ProcTake(p)` takes the head of the task queue;
  - `ProcFinish(p)` finishes the job, and it may return or raise.
- **Thread body:** `Acquire`, `LoadCount`, `StoreCount`, `Release` and
  `Return` step through `with _Thread_Lock: Running_Count += 1 ...`, then the
  sleep and the return.
- **Connection count.** `InitMultiWorking` also evaluates
  `db_connection_instances_number` (`DbConnectionInstancesNumber`) for the
  configured pool size, or none, and the cpu count, both chosen in `Init`.
- **Adapters.** `Request(c)` is a client calling one factory method
  (`get_lock`, `get_event`, ...) of one adapter class of `coroutine/features.py` with abstracted `loop=`/`lock=` arguments. Its result is what
  the adapter's method returns (`GreenletLockCall`, `AsyncLockCall`, ...): a
  new object, `None`, or `TypeError`/`RuntimeError`. `ChkLoopRaises` and
  `ChkLockRaises` are `_AsyncUtils.chk_loop`/`chk_lock` as written.
  `GlobalizeInstance(c)` hands a returned object to `Globalize`, which
  ignores `None` (`GlobalizeObjectError`). A raised call never reaches it.
- **Connections.** `Construct(c)` is `BaseConnection.__init__`; it writes the
  shared class dict. `DatabaseConfigOf(c)` reads it back.
- **Refinement mapping.** In `ProcessPoolStrategy`, `CollectedValues` is the
  list of recorded values, and `CollectionPhase` maps the caller's position to
  collecting / done (activated or closed) / aborted (raised). `RC` is
  `ResultCollection` with `N <- WorkersNumber`, `status <- outcome`.
- **Run isolation.** `InitMultiWorking(r)` is `init_multi_working`: it gets
  the queue object of run r's type from its mode's adapter
  (`FeatureQueueAdapter` is `FeatureMode`'s `"queue"` entry, `GetQueue` the
  adapter's `get_queue`, which returns `qtype.value`), appends the run's
  tasks (`TaskList`, `_add_task_to_queue`), registers the object as
  `Running_Queue`, and then fails in `initialize_persistence` unless the
  persistence strategy is a working custom one. `Take(w)` is a worker's
  blocking `get()` on the registered queue (modelled from spec 4.2 and 4.4,
  since the worker loop is not under `src/`). `Overlap` lets a run start
  before the earlier ones have ended, as two strategies driven from two
  threads would.
- **Lock and retry.** `retry` and `RunWith` come from the multirunnable
  package, which is not in the repository; they are modelled from spec 6. A
  bounded retry starts an attempt (`Attempt`, after the `initial` hook), and
  after each attempt (`AfterAttempt`: the `done` or `error` hook, then
  `final`) either returns, retries, or surfaces the error once `Retries`
  attempts have raised. `RunWith.Lock` is an acquire (`Acquire`) and a release
  on every exit of the with-block, the exception path included
  (`ReleaseAttempt` when the lock is inside the retry, `ReleaseEnd` when it
  is outside). The hooks only print, so they are control points, not state: the
  attempt count and its bound in `Attempt` and `AfterAttempt` are the retry
  loop's, modelled from spec 6, and the map marks them so. `example`, chosen in
  `Init`, is the decorated function the workers run: `BodyFails` and
  `LockOutside` say whether its body raises and which decorator is outside.
- **Event loops.** `WakeOtherProcess` is one iteration of `WakeupProcess`'s
  loop: the sleep of `randrange(1, 10)` seconds ends, `set()` raises the flag
  and makes a blocked waiter runnable. `GoSleepWait`, `GoSleepResume` and
  `GoSleepClear` are `SleepProcess`'s sleep end and `wait()`, its resumption,
  and its `clear()`. Under the cooperative executors (asyncio, gevent) the
  code between two awaits is one step, so a wait that returns at once, the
  clear and the next sleep are one action; under processes or threads the
  clear is a step of its own. `Tick` advances a discrete clock by one second
  when neither loop can run.
- **`Finished`** is the stuttering step of a run that has ended. TLC's
  deadlock check still catches any other state where nothing can move.

## 3. Runs

| run | cfg | checks | shows |
|---|---|---|---|
| process_pool | `ProcessPool.cfg` | `TypeOK`, `RecordedResultsFaithful`, `ImplementsCollection`, `RunTerminates`, `ImplementsFairCollection` | Jobs finish in any order, yet the i-th recorded dict is job i's returned value, recorded only after job i returned, with none skipped or duplicated; every behaviour is one of `ResultCollection`. Under fairness the `get()` calls without timeout always return and the run ends; the pool also meets `ResultCollection`'s fairness. |
| process_pool_failed_job | `ProcessPoolFailedJob.cfg` | `EveryWorkerHasResult` (violation expected) | One raising job leaves a finished run with fewer results than workers (finding 1). |
| thread | `Thread.cfg` | `TypeOK`, `NoLostUpdate`, `EndedAfterAllDone`, `ConnectionsAsSpecified`, `RunTerminates` | No increment of `Running_Count` is lost under any interleaving, `end_multi_working` returns only after every thread has returned, and the connection count is min(threads, cpus) without a configured size and the configured size otherwise. Under fairness every run ends with no thread blocked, even after a failed `start()`. |
| thread_init_no_persistence | `ThreadInitNoPersistence.cfg` | `InitWithoutPersistence` (violation expected) | Without a persistence strategy, `init_multi_working` fails (finding 2). |
| adapters_registry | `AdaptersRegistry.cfg` | `TypeOK`, `RegistryIsLastGlobalized` | Two clients interleave factory and globalize calls; each slot holds the last non-None object registered for its kind, and `None` never erases one. |
| adapters_async_arguments | `AdaptersAsyncArguments.cfg` | `AsyncArgumentsChecked` (violation expected) | The conjunction of `LoopCarried` (a primitive is built on the loop it is given, a non-loop is refused) and `ConditionLockAccepted` (`get_condition(lock=asyncio Lock)` is accepted). Both checks of `_AsyncUtils` are inverted (finding 3); TLC reports whichever request it meets first. |
| adapters_rlock_reentrant | `AdaptersRLockReentrant.cfg` | `RLockReentrant` (violation expected) | The asyncio `get_rlock` returns a non-reentrant lock (finding 4). |
| connection_own_configuration | `ConnectionOwnConfiguration.cfg` | `OwnConfiguration` (violation expected) | A second connection changes the first one's `database_config` (finding 5). |
| isolation_sequential | `IsolationSequential.cfg` | `TypeOK`, `RunSeesOwnTasks`, `ImplementsRunTasks` | Three runs one after the other, all initialising: every worker only gets its own run's tasks, no task reaches two workers, and a run ends only once all its workers have their tasks (`RunTasks`). |
| isolation_shared | `IsolationShared.cfg` | `RunSeesOwnTasks` (violation expected) | Two runs, one after the other or overlapping, with every persistence kind. The counterexample TLC reports is a run that fails in `initialize_persistence` and leaves its tasks on the singleton queue object, so the next run's worker takes one. The overlap route, where a second `Globalize.queue` redirects the first run's workers, is reached by the same run (finding 6). |
| lock_retry | `LockRetry.cfg` | `TypeOK`, `BodiesExclusive`, `ResultCollected` | Three processes, with either decorator order chosen in the initial state. The lock example as written has a body that always raises; the integration examples' order holds the lock across the whole retry loop and has a body that returns. Bodies never overlap, and under fairness every call's result is collected and `executor.result()` returns. |
| event_loops | `EventLoops.cfg` | `TypeOK`, `NoCoalescedSet` | Under all four executors, no `set()` finds the flag still up, so every message is detected. |

Each property of a passing run has a mutant in `PROJECT.json`. A mutant is a
plausible bug in the mapped action:
- `get()` dropped;
- one `apply_async` too many;
- an off-by-one take guard;
- a start loop past the end;
- an unguarded acquire;
- a join loop stopping early;
- a lock not released;
- a pool process that does not reset its slot after a job;
- a caller that waits only for returned jobs, not raised ones;
- a connection count capped at the cpu count;
- a globalize call after a raised factory call;
- a `Globalize` without its `None` check;
- a worker `get()` that leaves the task on the queue, and a task list one
  longer than the run's tasks;
- an acquire that does not wait, a retry loop that makes one attempt too
  many, or restarts without counting;
- a `wait()` that returns at once
  without the `clear()`, and a clock that runs down a sleep that is not
  running.

TLC finds each property violated under its mutant.

**Bounds.**
- Process pool: 3 pool processes and 3 jobs. That is enough for jobs to
  finish in every relative order, for a later job to be ready before an
  earlier one, and for a failure at the first, a middle or the last handle.
- Threads: the thread count ranges over 0..3 in the initial states, which
  includes the empty list that raises `ThreadsListIsEmptyError`. All three
  persistence kinds are included. Three threads contend for the lock, so both
  waiting orders and an increment interleaved with another thread's occur.
  Pool sizes {none, 1, 3} against 1..2 cpus cover both branches of
  `db_connection_instances_number`, a size above the cpu count, and thread
  counts below, equal to and above it.
- Adapters: 2 clients making 2 calls each, over the adapters of one backend
  per run (greenlet for the registry run, asyncio for the others). That covers
  two clients registering the same kind in both orders, a `None` registration
  between two objects, and every argument combination of every factory.
- Connections: 2 connections and 2 configurations plus the defaults.
- Run isolation: 3 runs of 2 tasks and 2 workers in the greenlet or asyncio
  mode, naming the FIFO member `Queue`. Runs of one mode share a queue
  object and runs of two modes do not; every persistence kind fails or
  succeeds. Three runs let a leftover task pass over a successful run to a
  third one.
- Lock and retry: the example's 3 processes and 2 attempts, so that one
  process retries while another waits for the lock.
- Events: the example's own sleeps, 1 to 9 seconds for the producer and 1
  for the consumer, under every executor `main_run` offers.

**Fairness.**
- The caller is one sequential thread of control, so `WF` on its actions.
- Each pool process or thread that can run keeps being scheduled by the OS.
  For threads, the GIL is handed over periodically. Hence `WF` on each
  worker's actions.
- The lock example's processes are OS processes, hence `WF` on each; no
  strong fairness is needed for `ResultCollected` because every worker makes
  at most `Retries` attempts, so the lock is eventually free for good.
- No strong fairness is assumed. The runs that check liveness
  (`process_pool`, `thread`) set `CHECK_DEADLOCK FALSE`: a finished run
  really stops, and a stuck mutant is reported as a liveness violation.
  `lock_retry` keeps the deadlock check, since its `Finished` step stutters
  only after `executor.result()`.

## 4. Findings

1. **`parallel/strategy.py:110`.** `activate_worker` calls `worker.get()`,
   which re-raises a job's exception. The loop stops, so neither the failure
   nor any later job's result is recorded. The `FAIL` branch of
   `_result_handling` is unreachable, and `close()` is skipped. The spec says
   each worker's failure is captured in its own Result.
2. **`framework/strategy.py:101`.**
   - `initialize_persistence` calls `initialize` on the persistence strategy
     even when it is the default `None`. `init_multi_working` therefore fails
     with `AttributeError` after registering the task queue.
   - `SingleConnection.initialize` fails with `NameError` (`queue_type`,
     `single_connection.py:30`).

Also seen while modelling:
- `ParallelStrategy.__init__` passes `workers_num=` to a base class whose
  parameter is `threads_num`.
- It reads `workers_number` and `db_connection_number`, which the base class
  does not define.
- `initialization` calls a `super().initialization` that does not exist.

3. **`coroutine/features.py:142` and `:151`.** Both argument checks of
   `_AsyncUtils` are inverted. `chk_loop` raises `TypeError` when the
   argument *is* an `AbstractEventLoop` and passes any other object
   through, so no asyncio primitive can be bound to the loop. `chk_lock`
   does the same with locks: `get_condition(lock=asyncio.Lock())` always
   raises.
4. **`coroutine/features.py:107`.** `AsyncLock.get_rlock` returns an
   `asyncio.Lock`, which is not reentrant (the gevent backend's is).
5. **`persistence/database/connection.py:35`.** `__init__` writes into the
   class-level dict `_Database_Config` (line 13). All connections share it,
   so the last one constructed decides every connection's `database_config`.

6. **`coroutine/features.py:33`** (with `framework/strategy.py:52`). A queue
   adapter returns `qtype.value`, the one queue object the Enum member
   created at import. A run that fails after `initialize_queue` (persistence
   `None` or `SingleConnection`) leaves its tasks there, and the next run of
   the same mode and type gives them to its own workers. Spec 4.3 says a
   fresh Strategy isolates a run. A second route reaches the same
   violation: `Globalize.queue` (`framework/strategy.py:312`) overwrites the
   one module-level `Running_Queue`, so two strategies initialised in one
   process before the first run's workers have taken their tasks make those
   workers take the second run's tasks (with only working persistence, TLC
   finds this trace under `Overlap = TRUE`).

The source is between two versions of the API. The model follows the evident
intent: the pool has `workers_num` processes and `workers_num` jobs.

## 5. Proofs

`ProcessPoolStrategyProofs` proves, for every `WorkersNumber \in Nat \ {0}`
(the assumption `WorkersNumberAssumption`):

- `TypeCorrect`: `Spec => []TypeOK`;
- `ResultsFaithful`: `Spec => []RecordedResultsFaithful`;
- `Refinement`: `Spec => ImplementsCollection`, that is, the pool implements
  `ResultCollection` under the mapping above.

`RecordedResultsFaithful` is not inductive on its own. A `ProcFinish` could
set the outcome of an already recorded job to `"err"`, and an `ActivateWorker`
could record a job that is still queued. The inductive invariant `IInv`
strengthens it with:

- `NothingSubmitted`: before `build_workers`, the queue is empty, all
  processes are idle and every job is pending;
- `QueueDistinct` and `RunningDistinct`: a job is queued at most once, and
  run by at most one process;
- `QueuedPending` and `RunningPending`: a queued or running job is pending,
  and a queued job is not running.

Together these say a job whose outcome is set is never taken or finished
again. That is why a recorded result stays faithful. TLC checks `IInv` on the
instance before the proof. The proof has three lemmas:
- `InitIInv`;
- `NextIInv`, with one step per action and one per conjunct that the action
  changes;
- `JobPlacesStable`, for the steps that move no job.

`Refinement` reuses `IInv`. The mapped initial state is `ResultCollection`'s
(`InitRefines`). Each step maps to a step or a stutter (`NextRefines`):
- `ActivateWorker` on a returned handle is `CollectNext`. Under `IInv` the
  collected values are exactly `1..next` (`CollectedIsIota`), and appending
  `next + 1` to them gives `1..next + 1` (`IotaFacts`).
- `ActivateWorker` on a raised handle is `Abort`.
- `ProcFinish(p)` is `Complete(running[p])`. `RunningPending` says that job
  was still pending.
- Every other step changes neither outcomes, results nor phase
  (`AbstractStutter`).

`ThreadStrategyProofs` proves, for every `MaxThreads \in Nat`,
`MaxCpus \in Nat \ {0}` and set of positive pool sizes (the assumptions of
`ThreadStrategy`):

- `TypeCorrect`: `Spec => []TypeOK`;
- `NoLostUpdateHolds`: `Spec => []NoLostUpdate`;
- `JoinsWaitForThreads`: `Spec => []EndedAfterAllDone`;
- `ConnectionsHold`: `Spec => []ConnectionsAsSpecified`.

`NoLostUpdate` is not inductive: a thread that stores `loaded[t] + 1` only
keeps the count right if the value it loaded is still current. The
inductive invariant adds:
- `LockOwner`: a thread is between acquire and release exactly when it holds
  `_Thread_Lock`;
- `LoadedCurrent`: a thread that has loaded the count holds the current value;
- `NoThreadYet`, `NotYetStarted`: no thread exists before
  `build_multi_workers`, and the start loop has not reached the threads after
  its cursor;
- `JoinedDone`, `EndedCursor`: the join loop has passed only finished
  threads, and a normal return comes after the last join;
- `ConnSet`: the connection count is `db_connection_instances_number`'s.

The step of `StoreCount(t)` adds t to the counted threads
(`FS_AddElement`); `LockOwner` shows no other thread is between load and
store, so `LoadedCurrent` survives it. `ChooseMin` equates the `CHOOSE`
in `ConnectionsAsSpecified` with the code's `min`. There is one lemma per
action, and `WorkerFrame` states once what a thread's step leaves of the
caller's loops.

`LockRetryExampleProofs` proves, for every set of workers, every
`Retries \in Nat \ {0}`, both decorator orders and a free-lock value
outside the workers (the assumptions of `LockRetryExample`):

- `BodiesExclusiveHolds`: `Spec => []BodiesExclusive`.

It is not inductive. `BodiesExclusive` needs to know that a worker in the
body holds the lock: `HolderInLock` says which positions are inside the
`with lock:` block for the decorator order in use (`Held`), and a worker
is at one of them exactly when it is the holder, so every worker in the
body is the one holder (`AtMostOne`, from `FS_Singleton` and `FS_Subset`).
`OrderStates` rules out the release point of the other order, so a
release step is taken by the holder. The invariant also keeps the retry
loop's count at each position (`AttemptsInv`: fewer than `Retries` before
an attempt, 1..`Retries` after one, the last outcome is the body's, a
result is set exactly at the end), which bounds `attempts` for `TypeOK`,
and `CollectedDone`: `executor.result()` returns only when every worker
is done.

`LockRetryExampleProofs` also proves `TypeCorrect`: `Spec => []TypeOK`,
from the same inductive invariant.

`EventExampleProofs` proves, for every set of executor modes and every
`MaxSleep`:

- `SetsNeverCoalesce`: `Spec => NoCoalescedSet`, under the hypothesis
  `ConsumerSleep = 1`, which is the example's `sleep(1)`. The hypothesis is
  needed. With `ConsumerSleep = 2`, TLC finds a `set()` on a raised flag.
  The inductive invariant adds four facts:
  - a woken or returning `SleepProcess` still sees the flag (`AwakeSeesFlag`);
  - the flag is up only while `WakeupProcess` sleeps (`FlagWhileProducerSleeps`);
  - a sleeping `SleepProcess` wakes no later than `WakeupProcess`
    (`ConsumerSleepShorter`), and strictly earlier while the flag is up
    (`FlagClearedFirst`).

  Together they say the flag is always lowered before the next `set()`.

`RunIsolationProofs` proves, for any number of runs, tasks per run, modes
and queue types:

- `TypeCorrect`: `Spec => []TypeOK`, for every persistence strategy and
  with or without overlapping runs. It uses the assumption
  `NoTaskAssumption`: the "no task" value is not a task.
- `SequentialRunsIsolated`: `Spec => []RunSeesOwnTasks`, under
  `~Overlap` and `Persistences \subseteq {"custom"}`. Both hypotheses are
  needed. A failed `initialize_persistence` leaves its tasks in the
  shared queue object (finding 6). An overlapping run shares the queue
  object of its mode and type (run `isolation_shared`). The inductive
  invariant has these parts:
  - runs start in order (`StartedInOrder`);
  - no initialisation fails (`NoFailedInit`);
  - a run not started has handed out nothing (`NewUntaken`);
  - when every run is idle, every queue object is empty (`IdleQueues`);
  - for the active run (`ActiveQueue`, one `ActiveAt(r)` per run):
    `Running_Queue` is its queue object, every other queue object is
    empty, and every entry of its own queue belongs to it. The queue's
    length equals the number of its tasks not yet taken. This count is
    what makes `end_multi_working` leave an empty queue behind
    (`EndedQueueEmpty`).

`RunIsolationProofs` also proves `SequentialRunsRefine`:
`Spec => ImplementsRunTasks` (`RunTasks` under the mapping `phase`,
`took`), under the same two hypotheses. It uses `RInv`, which adds
`FreshQueue` to the invariant above: the active run's queue holds
distinct tasks, and no worker has been handed any of them yet. A worker's
`get()` is then `RunTasks`' `Take` with the head of the queue as the
fresh task. `init_multi_working` is `Start`, because `MayStart` and
`NoFailedInit` leave every earlier run ended. `end_multi_working` is
`End`. `RunTasks` leaves open the order in which a run's tasks are
handed out. The model's queues are FIFO, but no property depends on
that order.

`EventExampleProofs` also proves `TypeCorrect`: `Spec => []TypeOK`,
for any `ConsumerSleep` too, from `TypeOK /\ NoStrandedWaiter`, which is
inductive: `set()` wakes a blocked waiter in the same step (the Event's
contract, which the model takes as given), and `wait()` blocks only on a
lowered flag.

`FeatureAdaptersProofs` proves, for every finite set of clients (the
assumption `ClientsAssumption`), every `MaxCalls` and every set of
adapters in use:

- `TypeCorrect`: `Spec => []TypeOK`. The invariant adds `IdsCounted`: the
  identities used so far number at most the factory calls made (`Made`).
  A client with a call left therefore finds `nextId \in 1..MaxId`, so
  identities never run out (`AllCallsCount` uses `FS_Product`,
  `FS_RemoveElement` and `FS_Subset`). `CallType` shows that each
  factory method of each adapter, called with arguments it accepts,
  returns a primitive, `None` or an exception.
- `RegistryCorrect`: `Spec => []RegistryIsLastGlobalized`. The invariant
  adds `HasLatest`: among the history entries that registered an object of
  a kind, there is a latest one. Without it, the `CHOOSE` in
  `LastGlobalized` could not be shown to pick an entry. A
  `globalize_instance` of a non-`None` object appends the newest entry of
  its kind. Any other step leaves each kind's entries and slot as they
  were.

**Only model-checked:**
- The liveness properties (`RunTerminates`, `ImplementsFairCollection`,
  `ResultCollected`). TLAPS does not handle fairness or ENABLED here.
- `DatabaseConnection`'s property, and the properties of the violation
  runs. These are counterexamples and have nothing to prove.
- The isolation and coalescing properties outside the proved hypotheses.
  They fail there, and TLC shows how.

## 6. Not modelled, and why

- **Manager `Namespace` wrapping and the persistence branch of the pool's
  `initialization`.** These depend on the inconsistent attribute names above.
- **Database connection pools, file savers and I/O.** They have no
  concurrency logic inside the library.
- **`RunningMode`, `__init__.py`, `setup.py` and exception classes.** Tables
  for the abstract executor and metadata, with no operations.
- **The other examples.** `executor_client.py`, `concurrent_client.py` and
  `pool_sample.py` only drive the executor facade;
  `ocean_system_with_parallel.py` reads a database and writes files.
- **The executor facade.** `framework/executor.py` is abstract, and
  `framework/features.py` and `adapter/base.py` are abstract interfaces.
- **Timing in the event example.** Steps other than sleeps take no time;
  `NoCoalescedSet` holds for the example's sleep lengths under that
  abstraction.
- **The multirunnable `Globalize`.** `communication.py` imports it from a
  package that is not under `src/`; the model uses pyocean's `Globalize`,
  whose slots and `None` check it shares by name.
- **`get_instance` of the multirunnable factories.** `Event` and
  `Condition.get_instance` check the mode with `_chk_param_by_mode`,
  raise `ValueError` without one, pick the adapter through `_ModuleFactory`
  and rewrite `lock=` with `_AsyncUtils.check_lock`; all four come from the
  multirunnable package, which is not in the repository. `Request` models
  the pyocean adapter methods such a call ends in, called directly.

## 7. Plan

Done so far: the two strategies, the adapters and the registry, the
connection configuration, `db_connection_instances_number`, the refinement
of the pool into `ResultCollection` (proved), the thread-strategy
invariants (proved), the lock example's exclusion and retry bound
(proved), run isolation across runs, and the lock/retry and event
examples.

1. **`Executor` (spec_modelled).** Composes a strategy with the facade's
   start/run/close sequence, and covers the pool leak after a failed job and
   the stale results of a second run.
2. **Proofs.** Every safety invariant and every refinement checked by a
   passing run now has a theorem. Only the liveness properties remain
   model-checked.

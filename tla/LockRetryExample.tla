--------------------------- MODULE LockRetryExample ---------------------------
(***************************************************************************)
(* The lock-and-retry client of src/example/simple/executor_client_with_lock.py *)
(* and the decorated functions of the retry integration examples          *)
(* (src/tests/integration_test/_retry_with_lock_examples.py).             *)
(*                                                                         *)
(* ExampleExecutor.main_run creates one Lock through LockFactory and runs *)
(* target_function on every worker of a Parallel SimpleExecutor.  Each    *)
(* worker sleeps, then calls lock_function, decorated                     *)
(* @retry.bounded_function over @RunWith.Lock: every attempt takes the    *)
(* shared lock, runs the body (sleep, then raise RuntimeError) and        *)
(* releases the lock on the way out.  The integration examples also stack *)
(* the decorators the other way round, @RunWith.Lock over @retry.function, *)
(* so that the whole retry loop runs under one acquisition.               *)
(*                                                                         *)
(* retry and RunWith live in the multirunnable package, which is not part *)
(* of this repository; their behaviour is taken from spec 6: a bounded    *)
(* retry re-invokes the callable until it returns or Retries attempts     *)
(* have raised, then surfaces the error; the hooks (initialization, done, *)
(* error, final) only print and are not state.                            *)
(***************************************************************************)
EXTENDS Naturals, FiniteSets

CONSTANTS
    Workers,      \* the processes of the SimpleExecutor (executors=3)
    Retries,      \* attempts the bounded retry makes before surfacing
    Examples,     \* the decorated functions the workers may run
    NoHolder      \* the lock is free

ASSUME RetriesAssumption == Retries \in Nat \ {0}
ASSUME ExamplesAssumption == Examples \subseteq {"lockExample", "retryExample"}
ASSUME NoHolderAssumption == NoHolder \notin Workers

WorkerStates ==
    {"sleeping",      \* target_function: sleep(3) before the call
     "attempt",       \* the retry loop is about to call what it wraps
     "waitLock",      \* RunWith.Lock: blocked on "with lock:"
     "inBody",        \* the decorated body runs, under the lock
     "released",      \* retry outside: the attempt left the with-block
     "afterAttempt",  \* the retry loop sees the attempt's outcome
     "releaseEnd",    \* lock outside: the retry loop has returned
     "done"}          \* target_function has returned or raised

VARIABLES
    example,     \* the decorated function every worker runs
    pc,          \* pc[w]: where worker w is
    lockHolder,  \* the worker holding the shared Lock
    attempts,    \* attempts[w]: attempts the retry loop has started
    outcome,     \* outcome[w]: how the last attempt ended
    result,      \* result[w]: what target_function gave the executor
    collected    \* main_run's executor.result() has returned

vars == <<example, pc, lockHolder, attempts, outcome, result, collected>>

\* lock_function of executor_client_with_lock.py always raises; the
\* functions of _retry_with_lock_examples.py return.
BodyFails == example = "lockExample"

\* @RunWith.Lock over @retry.function (_retry_with_lock_examples.py:8-12);
\* lock_function has @retry.bounded_function over @RunWith.Lock.
LockOutside == example = "retryExample"

TypeOK ==
    /\ example \in Examples
    /\ pc \in [Workers -> WorkerStates]
    /\ lockHolder \in Workers \cup {NoHolder}
    /\ attempts \in [Workers -> 0..Retries]
    /\ outcome \in [Workers -> {"none", "raised", "returned"}]
    /\ result \in [Workers -> {"none", "value", "error"}]
    /\ collected \in BOOLEAN

\* main_run: the Lock is created and every worker is started on
\* target_function.
Init ==
    /\ example \in Examples
    /\ pc = [w \in Workers |-> "sleeping"]
    /\ lockHolder = NoHolder
    /\ attempts = [w \in Workers |-> 0]
    /\ outcome = [w \in Workers |-> "none"]
    /\ result = [w \in Workers |-> "none"]
    /\ collected = FALSE

\* target_function: after sleep(3), self.lock_function() is called; the
\* outer decorator runs first.
CallLockFunction(w) ==
    /\ pc[w] = "sleeping"
    /\ pc' = [pc EXCEPT ![w] = IF LockOutside THEN "waitLock" ELSE "attempt"]
    /\ UNCHANGED <<example, lockHolder, attempts, outcome, result, collected>>

\* The retry loop starts an attempt (after the initialization hook).
Attempt(w) ==
    /\ pc[w] = "attempt"
    /\ attempts' = [attempts EXCEPT ![w] = @ + 1]
    /\ pc' = [pc EXCEPT ![w] = IF LockOutside THEN "inBody" ELSE "waitLock"]
    /\ UNCHANGED <<example, lockHolder, outcome, result, collected>>

\* Mutant of Acquire: "with lock:" does not wait for the holder.
AcquireUnguarded(w) ==
    /\ pc[w] = "waitLock"
    /\ lockHolder' = w
    /\ pc' = [pc EXCEPT ![w] = IF LockOutside THEN "attempt" ELSE "inBody"]
    /\ UNCHANGED <<example, attempts, outcome, result, collected>>

\* RunWith.Lock: "with lock:" blocks until the Lock is free.
Acquire(w) ==
    /\ pc[w] = "waitLock"
    /\ lockHolder = NoHolder
    /\ lockHolder' = w
    /\ pc' = [pc EXCEPT ![w] = IF LockOutside THEN "attempt" ELSE "inBody"]
    /\ UNCHANGED <<example, attempts, outcome, result, collected>>

\* The body: sleep(3), then raise RuntimeError (lock_function) or return
\* (the integration examples).
Body(w) ==
    /\ pc[w] = "inBody"
    /\ outcome' = [outcome EXCEPT ![w] = IF BodyFails THEN "raised" ELSE "returned"]
    /\ pc' = [pc EXCEPT ![w] = IF LockOutside THEN "afterAttempt" ELSE "released"]
    /\ UNCHANGED <<example, lockHolder, attempts, result, collected>>

\* Retry outside: the exception or the return leaves the with-block,
\* which releases the Lock before the retry loop sees the outcome.
ReleaseAttempt(w) ==
    /\ pc[w] = "released"
    /\ lockHolder' = NoHolder
    /\ pc' = [pc EXCEPT ![w] = "afterAttempt"]
    /\ UNCHANGED <<example, attempts, outcome, result, collected>>

\* Mutant of AfterAttempt: the loop makes one attempt too many.
AfterAttemptLate(w) ==
    /\ pc[w] = "afterAttempt"
    /\ IF outcome[w] = "returned" \/ attempts[w] > Retries
          THEN /\ pc' = [pc EXCEPT ![w] = IF LockOutside THEN "releaseEnd" ELSE "done"]
               /\ result' = [result EXCEPT ![w] =
                               IF outcome[w] = "returned" THEN "value" ELSE "error"]
          ELSE /\ pc' = [pc EXCEPT ![w] = "attempt"]
               /\ UNCHANGED result
    /\ UNCHANGED <<example, lockHolder, attempts, outcome, collected>>

\* Mutant of AfterAttempt: an error restarts the loop without counting.
AfterAttemptUncounted(w) ==
    /\ pc[w] = "afterAttempt"
    /\ IF outcome[w] = "returned"
          THEN /\ pc' = [pc EXCEPT ![w] = IF LockOutside THEN "releaseEnd" ELSE "done"]
               /\ result' = [result EXCEPT ![w] = "value"]
               /\ UNCHANGED attempts
          ELSE /\ pc' = [pc EXCEPT ![w] = "attempt"]
               /\ attempts' = [attempts EXCEPT ![w] = 0]
               /\ UNCHANGED result
    /\ UNCHANGED <<example, lockHolder, outcome, collected>>

\* The retry loop: a return runs the done hook and ends the loop; an
\* error runs the error hook and starts another attempt, or surfaces once
\* Retries attempts have raised.
AfterAttempt(w) ==
    /\ pc[w] = "afterAttempt"
    /\ IF outcome[w] = "returned" \/ attempts[w] = Retries
          THEN /\ pc' = [pc EXCEPT ![w] = IF LockOutside THEN "releaseEnd" ELSE "done"]
               /\ result' = [result EXCEPT ![w] =
                               IF outcome[w] = "returned" THEN "value" ELSE "error"]
          ELSE /\ pc' = [pc EXCEPT ![w] = "attempt"]
               /\ UNCHANGED result
    /\ UNCHANGED <<example, lockHolder, attempts, outcome, collected>>

\* Lock outside: the retry loop returned or raised out of the with-block.
ReleaseEnd(w) ==
    /\ pc[w] = "releaseEnd"
    /\ lockHolder' = NoHolder
    /\ pc' = [pc EXCEPT ![w] = "done"]
    /\ UNCHANGED <<example, attempts, outcome, result, collected>>

\* executor.result(): the executor has joined every worker.
Collect ==
    /\ ~collected
    /\ \A w \in Workers : pc[w] = "done"
    /\ collected' = TRUE
    /\ UNCHANGED <<example, pc, lockHolder, attempts, outcome, result>>

\* main_run has printed the result and returned.
Finished ==
    /\ collected
    /\ UNCHANGED vars

Worker(w) ==
    \/ CallLockFunction(w) \/ Attempt(w) \/ Acquire(w) \/ Body(w)
    \/ ReleaseAttempt(w) \/ AfterAttempt(w) \/ ReleaseEnd(w)

Next ==
    \/ \E w \in Workers : Worker(w)
    \/ Collect
    \/ Finished

Spec == Init /\ [][Next]_vars

\* Each worker is its own process, scheduled by the OS; main_run's join
\* returns once they have all exited.
Fairness ==
    /\ \A w \in Workers : WF_vars(Worker(w))
    /\ WF_vars(Collect)

FairSpec == Spec /\ Fairness

-----------------------------------------------------------------------------
(* Properties                                                               *)

\* RunWith.Lock around the body: the bodies of two workers never run at the
\* same time, whatever the order of the decorators, including on the
\* exception path out of the with-block and across retries.
BodiesExclusive ==
    Cardinality({w \in Workers : pc[w] = "inBody"}) <= 1

\* The run ends: every worker gets past the shared lock and its retries,
\* and executor.result() returns (no worker is left waiting on a lock a
\* raising body kept).
ResultCollected == <>collected

=============================================================================

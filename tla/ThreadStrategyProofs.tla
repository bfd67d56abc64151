------------------------ MODULE ThreadStrategyProofs ------------------------
(***************************************************************************)
(* Proofs about ThreadStrategy for every MaxThreads, MaxCpus and set of    *)
(* pool sizes.                                                             *)
(*                                                                         *)
(* NoLostUpdate is not inductive by itself: a thread that stores           *)
(* loaded[t] + 1 must have loaded the current Running_Count, which holds   *)
(* only because no other thread stored in between.  IInv adds that the    *)
(* lock holder is the one thread between acquire and release, that a      *)
(* loaded value is still current, and what the start and join loops have  *)
(* done so far.                                                            *)
(***************************************************************************)
EXTENDS ThreadStrategy, FiniteSetTheorems, TLAPS

\* The states of target_fun inside "with _Thread_Lock:".
InCritical == {"locked", "loaded", "stored"}

\* A thread is inside the with-block exactly when it holds _Thread_Lock.
LockOwner ==
    \A t \in Threads : tstate[t] \in InCritical <=> lockHolder = t

\* A thread between the load and the store of Running_Count += 1 loaded
\* the value Running_Count still has.
LoadedCurrent ==
    \A t \in Threads : tstate[t] = "loaded" => loaded[t] = runningCount

\* Before build_multi_workers() no thread exists.
NoThreadYet ==
    pc \in {"new", "initialized", "initFailed"} =>
        \A t \in Threads : tstate[t] = "none"

\* During the start loop, the threads after the cursor are not started.
NotYetStarted ==
    pc \in {"built", "activating"} =>
        \A t \in Threads : t > cursor => tstate[t] \in {"none", "created"}

\* The join loop has only passed threads that have returned.
JoinedDone ==
    pc \in {"activated", "joining", "ended"} =>
        \A i \in 1..cursor : tstate[i] = "done"

\* end_multi_working() returns after the last join.
EndedCursor == pc = "ended" => cursor = threadsNumber

\* The connection count handed to initialize is the property's value.
ConnSet ==
    pc # "new" =>
        connInstances = DbConnectionInstancesNumber(threadsNumber, poolSize, cpus)

IInv ==
    /\ TypeOK
    /\ LockOwner
    /\ LoadedCurrent
    /\ NoLostUpdate
    /\ NoThreadYet
    /\ NotYetStarted
    /\ JoinedDone
    /\ EndedCursor
    /\ ConnSet

USE MaxThreadsAssumption, MaxCpusAssumption, PoolSizesAssumption
    DEF Threads, NoHolder

-----------------------------------------------------------------------------
(* Lemmas about the operators of the model.                                 *)

\* Every set of threads is finite and has at most MaxThreads elements.
LEMMA ThreadSetsFinite ==
    ASSUME NEW S \in SUBSET Threads
    PROVE  IsFiniteSet(S) /\ Cardinality(S) <= MaxThreads
<1>1. IsFiniteSet(Threads) /\ Cardinality(Threads) = MaxThreads
    BY FS_Interval
<1>2. QED
    BY <1>1, FS_Subset

\* The smaller of two numbers, written as a CHOOSE in ConnectionsAsSpecified,
\* is what db_connection_instances_number computes without a pool size.
LEMMA ChooseMin ==
    ASSUME NEW a \in Nat, NEW b \in Nat
    PROVE  (CHOOSE m \in {a, b} : \A x \in {a, b} : m <= x)
              = IF a < b THEN a ELSE b
<1> DEFINE v == IF a < b THEN a ELSE b
<1>1. v \in {a, b} /\ \A x \in {a, b} : v <= x
    OBVIOUS
<1>2. \A m \in {a, b} : (\A x \in {a, b} : m <= x) => m = v
    OBVIOUS
<1>3. QED
    BY <1>1, <1>2

\* db_connection_instances_number returns a natural number.
LEMMA DbConnectionsNat ==
    ASSUME NEW th \in Nat, NEW s \in PoolSizes \cup {NoPoolSize}, NEW c \in Nat
    PROVE  DbConnectionInstancesNumber(th, s, c) \in Nat
BY DEF DbConnectionInstancesNumber

-----------------------------------------------------------------------------

LEMMA InitIInv == Init => IInv
<1> SUFFICES ASSUME Init PROVE IInv
    OBVIOUS
<1>1. Counted = {}
    BY DEF Init, Counted
<1>2. NoLostUpdate
    BY <1>1, FS_EmptySet DEF Init, NoLostUpdate
<1>3. TypeOK
    BY DEF Init, TypeOK, ThreadStates, CallerStates, PersistenceKinds
<1>4. QED
    BY <1>2, <1>3 DEF Init, IInv, LockOwner, LoadedCurrent, NoThreadYet,
       NotYetStarted, JoinedDone, EndedCursor, ConnSet, InCritical

-----------------------------------------------------------------------------
(* The caller's steps.                                                      *)

LEMMA InitMultiWorkingIInv ==
    ASSUME IInv, InitMultiWorking PROVE IInv'
<1>0. TypeOK /\ NoLostUpdate /\ LockOwner /\ LoadedCurrent /\ NoThreadYet
    BY DEF IInv
<1>1. TypeOK'
    <2>1. DbConnectionInstancesNumber(threadsNumber, poolSize, cpus) \in Nat
        <3>1. threadsNumber \in Nat /\ cpus \in Nat
                /\ poolSize \in PoolSizes \cup {NoPoolSize}
            BY <1>0 DEF TypeOK
        <3>2. QED
            BY <3>1, DbConnectionsNat
    <2>2. QED
        BY <1>0, <2>1 DEF InitMultiWorking, TypeOK, CallerStates
<1>2. NoLostUpdate'
    BY <1>0 DEF InitMultiWorking, NoLostUpdate, Counted
<1>3. (LockOwner /\ LoadedCurrent /\ NoThreadYet)'
    BY <1>0 DEF InitMultiWorking, LockOwner, LoadedCurrent, NoThreadYet, InCritical
<1>4. (NotYetStarted /\ JoinedDone /\ EndedCursor /\ ConnSet)'
    BY DEF InitMultiWorking, NotYetStarted, JoinedDone, EndedCursor, ConnSet
<1>5. QED
    BY <1>1, <1>2, <1>3, <1>4 DEF IInv

LEMMA BuildMultiWorkersIInv ==
    ASSUME IInv, BuildMultiWorkers PROVE IInv'
<1>0. TypeOK /\ NoLostUpdate /\ LockOwner /\ NoThreadYet /\ ConnSet
    BY DEF IInv
<1>1. \A t \in Threads : tstate[t] = "none"
    BY <1>0 DEF BuildMultiWorkers, NoThreadYet
<1>2. lockHolder = NoHolder
    BY <1>0, <1>1 DEF TypeOK, LockOwner, InCritical
<1>3. Counted = {} /\ Counted' = {}
    BY <1>1 DEF BuildMultiWorkers, Counted
<1>4. NoLostUpdate'
    BY <1>0, <1>3 DEF BuildMultiWorkers, NoLostUpdate
<1>5. TypeOK'
    BY <1>0 DEF BuildMultiWorkers, TypeOK, CallerStates, ThreadStates
<1>6. (LockOwner /\ LoadedCurrent)'
    BY <1>2 DEF BuildMultiWorkers, LockOwner, LoadedCurrent, InCritical
<1>7. (NoThreadYet /\ NotYetStarted /\ JoinedDone /\ EndedCursor)'
    BY DEF BuildMultiWorkers, NoThreadYet, NotYetStarted, JoinedDone, EndedCursor
<1>8. ConnSet'
    BY <1>0 DEF BuildMultiWorkers, ConnSet
<1>9. QED
    BY <1>4, <1>5, <1>6, <1>7, <1>8 DEF IInv

LEMMA ActivateWorkerIInv ==
    ASSUME IInv, ActivateWorker PROVE IInv'
<1>0. /\ TypeOK /\ NoLostUpdate /\ LockOwner /\ LoadedCurrent
      /\ NotYetStarted /\ ConnSet
    BY DEF IInv
<1>1. CASE /\ cursor < threadsNumber
           /\ tstate' = [tstate EXCEPT ![cursor + 1] = "started"]
           /\ cursor' = cursor + 1
           /\ pc' = "activating"
    <2> DEFINE n == cursor + 1
    <2>1. n \in Threads /\ tstate[n] \in {"none", "created"}
        BY <1>0, <1>1 DEF ActivateWorker, TypeOK, NotYetStarted
    <2>2. Counted' = Counted
        BY <1>1, <2>1 DEF Counted
    <2>3. TypeOK'
        BY <1>0, <1>1, <2>1 DEF ActivateWorker, TypeOK, CallerStates, ThreadStates
    <2>4. NoLostUpdate'
        BY <1>0, <1>1, <2>2 DEF ActivateWorker, NoLostUpdate
    <2>5. (LockOwner /\ LoadedCurrent)'
        BY <1>0, <1>1, <2>1 DEF ActivateWorker, TypeOK, LockOwner, LoadedCurrent, InCritical
    <2>6. NotYetStarted'
        BY <1>0, <1>1, <2>1 DEF ActivateWorker, TypeOK, NotYetStarted
    <2>7. (NoThreadYet /\ JoinedDone /\ EndedCursor /\ ConnSet)'
        BY <1>0, <1>1 DEF ActivateWorker, NoThreadYet, JoinedDone, EndedCursor, ConnSet
    <2>8. QED
        BY <2>3, <2>4, <2>5, <2>6, <2>7 DEF IInv
<1>2. CASE /\ pc' = "startFailed"
           /\ UNCHANGED <<tstate, cursor>>
    BY <1>0, <1>2 DEF ActivateWorker, IInv, TypeOK, CallerStates, NoLostUpdate,
       Counted, LockOwner, LoadedCurrent, NoThreadYet, NotYetStarted,
       JoinedDone, EndedCursor, ConnSet
<1>3. CASE /\ cursor = threadsNumber
           /\ cursor' = 0
           /\ pc' = "activated"
           /\ UNCHANGED tstate
    BY <1>0, <1>3 DEF ActivateWorker, IInv, TypeOK, CallerStates, NoLostUpdate,
       Counted, LockOwner, LoadedCurrent, NoThreadYet, NotYetStarted,
       JoinedDone, EndedCursor, ConnSet
<1>4. QED
    BY <1>1, <1>2, <1>3 DEF ActivateWorker

LEMMA EndMultiWorkingIInv ==
    ASSUME IInv, EndMultiWorking PROVE IInv'
<1>0. /\ TypeOK /\ NoLostUpdate /\ LockOwner /\ LoadedCurrent
      /\ JoinedDone /\ ConnSet
    BY DEF IInv
<1>1. UNCHANGED <<threadsNumber, tstate, lockHolder, loaded, runningCount,
                  connInstances, poolSize, cpus>>
    BY DEF EndMultiWorking
<1>2. pc' \in {"emptyRaised", "joining", "ended"} /\ pc \in {"activated", "joining"}
    BY DEF EndMultiWorking
<1>3. TypeOK'
    BY <1>0, <1>1, <1>2 DEF EndMultiWorking, TypeOK, CallerStates
<1>4. JoinedDone'
    BY <1>0, <1>1, <1>2 DEF EndMultiWorking, TypeOK, JoinedDone
<1>5. EndedCursor'
    BY DEF EndMultiWorking, EndedCursor
<1>6. (NoLostUpdate /\ LockOwner /\ LoadedCurrent /\ ConnSet)'
    BY <1>0, <1>1, <1>2 DEF NoLostUpdate, Counted, LockOwner, LoadedCurrent, ConnSet
<1>7. (NoThreadYet /\ NotYetStarted)'
    BY <1>2 DEF NoThreadYet, NotYetStarted
<1>8. QED
    BY <1>3, <1>4, <1>5, <1>6, <1>7 DEF IInv

-----------------------------------------------------------------------------
(* The steps of target_fun.                                                 *)

\* A step of a running thread leaves the caller's loops alone: the thread
\* exists, so the caller is past build_multi_workers, and its index is not
\* one the start loop has still to reach nor one the join loop has passed.
LEMMA WorkerFrame ==
    ASSUME IInv, NEW t \in Threads,
           tstate[t] \in {"started", "locked", "loaded", "stored", "released"},
           NEW st \in {"locked", "loaded", "stored", "released", "done"},
           tstate' = [tstate EXCEPT ![t] = st],
           UNCHANGED <<pc, cursor, threadsNumber, connInstances, poolSize, cpus>>
    PROVE  (NoThreadYet /\ NotYetStarted /\ JoinedDone /\ EndedCursor /\ ConnSet)'
<1>0. TypeOK /\ NoThreadYet /\ NotYetStarted /\ JoinedDone /\ EndedCursor /\ ConnSet
    BY DEF IInv
<1>1. pc \notin {"new", "initialized", "initFailed"}
    BY <1>0 DEF NoThreadYet
<1>2. NoThreadYet'
    BY <1>1 DEF NoThreadYet
<1>3. NotYetStarted'
    BY <1>0 DEF TypeOK, NotYetStarted
<1>4. JoinedDone'
    BY <1>0 DEF TypeOK, JoinedDone
<1>5. QED
    BY <1>0, <1>2, <1>3, <1>4 DEF EndedCursor, ConnSet

LEMMA AcquireIInv ==
    ASSUME IInv, NEW t \in Threads, Acquire(t) PROVE IInv'
<1>0. TypeOK /\ NoLostUpdate /\ LockOwner /\ LoadedCurrent
    BY DEF IInv
<1>1. Counted' = Counted
    BY <1>0 DEF Acquire, TypeOK, Counted
<1>2. TypeOK'
    BY <1>0 DEF Acquire, TypeOK, ThreadStates
<1>3. NoLostUpdate'
    BY <1>0, <1>1 DEF Acquire, NoLostUpdate
<1>4. LockOwner'
    BY <1>0 DEF Acquire, TypeOK, LockOwner, InCritical
<1>5. LoadedCurrent'
    BY <1>0 DEF Acquire, TypeOK, LoadedCurrent
<1>6. (NoThreadYet /\ NotYetStarted /\ JoinedDone /\ EndedCursor /\ ConnSet)'
    BY WorkerFrame DEF Acquire
<1>7. QED
    BY <1>2, <1>3, <1>4, <1>5, <1>6 DEF IInv

LEMMA LoadCountIInv ==
    ASSUME IInv, NEW t \in Threads, LoadCount(t) PROVE IInv'
<1>0. TypeOK /\ NoLostUpdate /\ LockOwner /\ LoadedCurrent
    BY DEF IInv
<1>1. Counted' = Counted
    BY <1>0 DEF LoadCount, TypeOK, Counted
<1>2. TypeOK'
    BY <1>0 DEF LoadCount, TypeOK, ThreadStates
<1>3. NoLostUpdate'
    BY <1>0, <1>1 DEF LoadCount, NoLostUpdate
<1>4. LockOwner'
    BY <1>0 DEF LoadCount, TypeOK, LockOwner, InCritical
<1>5. LoadedCurrent'
    BY <1>0 DEF LoadCount, TypeOK, LoadedCurrent
<1>6. (NoThreadYet /\ NotYetStarted /\ JoinedDone /\ EndedCursor /\ ConnSet)'
    BY WorkerFrame DEF LoadCount
<1>7. QED
    BY <1>2, <1>3, <1>4, <1>5, <1>6 DEF IInv

\* The store is the one step that counts a thread: the loaded value is the
\* current count, which is the number of threads counted so far, and t is
\* not one of them.
LEMMA StoreCountIInv ==
    ASSUME IInv, NEW t \in Threads, StoreCount(t) PROVE IInv'
<1>0. TypeOK /\ NoLostUpdate /\ LockOwner /\ LoadedCurrent
    BY DEF IInv
<1>1. runningCount' = runningCount + 1
    BY <1>0 DEF StoreCount, LoadedCurrent
<1>2. Counted' = Counted \cup {t} /\ t \notin Counted
    BY <1>0 DEF StoreCount, TypeOK, Counted
<1>3. Counted \in SUBSET Threads
    BY DEF Counted
<1>4. Cardinality(Counted') = Cardinality(Counted) + 1
    BY <1>2, <1>3, ThreadSetsFinite, FS_AddElement
<1>5. NoLostUpdate'
    BY <1>0, <1>1, <1>4 DEF NoLostUpdate
<1>6. Cardinality(Counted') <= MaxThreads
    BY <1>2, <1>3, ThreadSetsFinite
<1>7. TypeOK'
    BY <1>0, <1>1, <1>5, <1>6 DEF StoreCount, TypeOK, ThreadStates, NoLostUpdate
<1>8. LockOwner'
    BY <1>0 DEF StoreCount, TypeOK, LockOwner, InCritical
<1>9. LoadedCurrent'
    <2>1. lockHolder = t
        BY <1>0 DEF StoreCount, LockOwner, InCritical
    <2>2. \A u \in Threads : u # t => tstate[u] # "loaded"
        BY <1>0, <2>1 DEF LockOwner, InCritical
    <2>3. QED
        BY <1>0, <2>2 DEF StoreCount, TypeOK, LoadedCurrent
<1>10. (NoThreadYet /\ NotYetStarted /\ JoinedDone /\ EndedCursor /\ ConnSet)'
    BY WorkerFrame DEF StoreCount
<1>11. QED
    BY <1>5, <1>7, <1>8, <1>9, <1>10 DEF IInv

LEMMA ReleaseIInv ==
    ASSUME IInv, NEW t \in Threads, Release(t) PROVE IInv'
<1>0. TypeOK /\ NoLostUpdate /\ LockOwner /\ LoadedCurrent
    BY DEF IInv
<1>1. Counted' = Counted
    BY <1>0 DEF Release, TypeOK, Counted
<1>2. TypeOK'
    BY <1>0 DEF Release, TypeOK, ThreadStates
<1>3. NoLostUpdate'
    BY <1>0, <1>1 DEF Release, NoLostUpdate
<1>4. LockOwner'
    <2>1. lockHolder = t
        BY <1>0 DEF Release, LockOwner, InCritical
    <2>2. QED
        BY <1>0, <2>1 DEF Release, TypeOK, LockOwner, InCritical
<1>5. LoadedCurrent'
    BY <1>0 DEF Release, TypeOK, LoadedCurrent
<1>6. (NoThreadYet /\ NotYetStarted /\ JoinedDone /\ EndedCursor /\ ConnSet)'
    BY WorkerFrame DEF Release
<1>7. QED
    BY <1>2, <1>3, <1>4, <1>5, <1>6 DEF IInv

LEMMA ReturnIInv ==
    ASSUME IInv, NEW t \in Threads, Return(t) PROVE IInv'
<1>0. TypeOK /\ NoLostUpdate /\ LockOwner /\ LoadedCurrent
    BY DEF IInv
<1>1. Counted' = Counted
    BY <1>0 DEF Return, TypeOK, Counted
<1>2. TypeOK'
    BY <1>0 DEF Return, TypeOK, ThreadStates
<1>3. NoLostUpdate'
    BY <1>0, <1>1 DEF Return, NoLostUpdate
<1>4. (LockOwner /\ LoadedCurrent)'
    BY <1>0 DEF Return, TypeOK, LockOwner, LoadedCurrent, InCritical
<1>5. (NoThreadYet /\ NotYetStarted /\ JoinedDone /\ EndedCursor /\ ConnSet)'
    BY WorkerFrame DEF Return
<1>6. QED
    BY <1>2, <1>3, <1>4, <1>5 DEF IInv

-----------------------------------------------------------------------------
(* The invariant and the theorems.                                          *)

LEMMA NextIInv == IInv /\ [Next]_vars => IInv'
<1> SUFFICES ASSUME IInv, [Next]_vars PROVE IInv'
    OBVIOUS
<1>1. CASE InitMultiWorking
    BY <1>1, InitMultiWorkingIInv
<1>2. CASE BuildMultiWorkers
    BY <1>2, BuildMultiWorkersIInv
<1>3. CASE ActivateWorker
    BY <1>3, ActivateWorkerIInv
<1>4. CASE EndMultiWorking
    BY <1>4, EndMultiWorkingIInv
<1>5. CASE \E t \in Threads : Worker(t)
    <2>1. PICK t \in Threads : Worker(t)
        BY <1>5
    <2>2. QED
        BY <2>1, AcquireIInv, LoadCountIInv, StoreCountIInv, ReleaseIInv,
           ReturnIInv DEF Worker
<1>6. CASE Finished \/ UNCHANGED vars
    BY <1>6 DEF Finished, vars, IInv, TypeOK, LockOwner, LoadedCurrent,
       NoLostUpdate, Counted, NoThreadYet, NotYetStarted, JoinedDone,
       EndedCursor, ConnSet
<1>7. QED
    BY <1>1, <1>2, <1>3, <1>4, <1>5, <1>6 DEF Next, Caller

\* The state ThreadStrategy's steps produce is always well typed: in
\* particular Running_Count never exceeds the number of threads.
THEOREM TypeCorrect == Spec => []TypeOK
<1>1. IInv => TypeOK
    BY DEF IInv
<1>2. QED
    BY InitIInv, NextIInv, <1>1, PTL DEF Spec

\* The test's Running_Count == worker_size check, for every threads_num:
\* the increments of Running_Count under _Thread_Lock are never lost,
\* whatever the interleaving of the started threads.
THEOREM NoLostUpdateHolds == Spec => []NoLostUpdate
<1>1. IInv => NoLostUpdate
    BY DEF IInv
<1>2. QED
    BY InitIInv, NextIInv, <1>1, PTL DEF Spec

\* end_multi_working() returns normally only after every thread of
\* _Threads_List has run target_fun to the end.
THEOREM JoinsWaitForThreads == Spec => []EndedAfterAllDone
<1>1. IInv => EndedAfterAllDone
    BY DEF IInv, JoinedDone, EndedCursor, EndedAfterAllDone, Built
<1>2. QED
    BY InitIInv, NextIInv, <1>1, PTL DEF Spec

\* db_connection_instances_number gives persistence.initialize the
\* smaller of threads_num and cpu_count(), or the given pool size.
THEOREM ConnectionsHold == Spec => []ConnectionsAsSpecified
<1>1. IInv => ConnectionsAsSpecified
    <2> SUFFICES ASSUME IInv, pc # "new" PROVE ConnectionsAsSpecified
        BY DEF ConnectionsAsSpecified
    <2>1. threadsNumber \in Nat /\ cpus \in Nat
        BY DEF IInv, TypeOK
    <2>2. connInstances = DbConnectionInstancesNumber(threadsNumber, poolSize, cpus)
        BY DEF IInv, ConnSet
    <2>3. QED
        BY <2>1, <2>2, ChooseMin DEF DbConnectionInstancesNumber, ConnectionsAsSpecified
<1>2. QED
    BY InitIInv, NextIInv, <1>1, PTL DEF Spec

=============================================================================

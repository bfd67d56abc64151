----------------------- MODULE LockRetryExampleProofs -----------------------
(***************************************************************************)
(* Proofs about LockRetryExample for every set of workers, every number    *)
(* of retries and both decorator orders.                                   *)
(*                                                                         *)
(* BodiesExclusive holds because a worker in the body holds the lock, and  *)
(* the lock has one holder: HolderInLock says which states are inside the *)
(* with-block of RunWith.Lock for each decorator order.  The invariant    *)
(* also keeps the retry loop's count at each point of the loop            *)
(* (AttemptsInv), which bounds it by Retries for TypeOK.                  *)
(***************************************************************************)
EXTENDS LockRetryExample, FiniteSetTheorems, TLAPS

\* The states inside "with lock:" for the decorator order in use.
Held ==
    IF LockOutside
        THEN {"attempt", "inBody", "afterAttempt", "releaseEnd"}
        ELSE {"inBody", "released"}

\* A worker is inside the with-block exactly when it holds the lock.
HolderInLock ==
    \A w \in Workers : pc[w] \in Held <=> lockHolder = w

\* What every attempt of the body ends with.
BodyOutcome == IF BodyFails THEN "raised" ELSE "returned"

\* The retry loop's count and result at each point of target_function.
AttemptsInv ==
    \A w \in Workers :
        /\ pc[w] = "sleeping" => attempts[w] = 0
        /\ pc[w] = "attempt" => attempts[w] < Retries
        /\ pc[w] = "waitLock" =>
              IF LockOutside THEN attempts[w] = 0 ELSE attempts[w] \in 1..Retries
        /\ pc[w] \in {"inBody", "released", "afterAttempt"} =>
              attempts[w] \in 1..Retries
        /\ pc[w] \in {"released", "afterAttempt"} => outcome[w] = BodyOutcome
        /\ pc[w] \in {"releaseEnd", "done"} <=> result[w] # "none"
        /\ result[w] = "error" => attempts[w] = Retries /\ outcome[w] = "raised"
        /\ result[w] = "value" => outcome[w] = "returned"

\* executor.result() returns after every worker is done.
CollectedDone == collected => \A w \in Workers : pc[w] = "done"

\* Each decorator order has its own release point.
OrderStates ==
    \A w \in Workers :
        IF LockOutside THEN pc[w] # "released" ELSE pc[w] # "releaseEnd"

IInv == TypeOK /\ HolderInLock /\ AttemptsInv /\ OrderStates /\ CollectedDone

USE RetriesAssumption, ExamplesAssumption, NoHolderAssumption

-----------------------------------------------------------------------------

\* A set all of whose elements are one value has at most one element.
LEMMA AtMostOne ==
    ASSUME NEW S, NEW x, S \subseteq {x}
    PROVE  Cardinality(S) <= 1
<1>1. IsFiniteSet({x}) /\ Cardinality({x}) = 1
    BY FS_Singleton
<1>2. QED
    BY <1>1, FS_Subset

LEMMA InitIInv == Init => IInv
<1> SUFFICES ASSUME Init PROVE IInv
    OBVIOUS
<1>1. TypeOK
    <2>1. pc \in [Workers -> WorkerStates]
        BY DEF Init, WorkerStates
    <2>2. attempts \in [Workers -> 0..Retries]
        BY DEF Init
    <2>3. outcome \in [Workers -> {"none", "raised", "returned"}]
              /\ result \in [Workers -> {"none", "value", "error"}]
        BY DEF Init
    <2>4. QED
        BY <2>1, <2>2, <2>3 DEF Init, TypeOK
<1>2. HolderInLock
    BY DEF Init, HolderInLock, Held
<1>3. AttemptsInv
    BY DEF Init, AttemptsInv
<1>4. CollectedDone /\ OrderStates
    BY DEF Init, CollectedDone, OrderStates
<1>5. QED
    BY <1>1, <1>2, <1>3, <1>4 DEF IInv

\* Every step keeps IInv.
LEMMA NextIInv == IInv /\ [Next]_vars => IInv'
<1> SUFFICES ASSUME IInv, [Next]_vars PROVE IInv'
    OBVIOUS
<1> USE DEF IInv, TypeOK, WorkerStates, HolderInLock, Held, AttemptsInv,
            BodyOutcome, OrderStates, CollectedDone, BodyFails, LockOutside
<1>1. ASSUME NEW w \in Workers, CallLockFunction(w) PROVE IInv'
    BY <1>1 DEF CallLockFunction
<1>2. ASSUME NEW w \in Workers, Attempt(w) PROVE IInv'
    BY <1>2 DEF Attempt
<1>3. ASSUME NEW w \in Workers, Acquire(w) PROVE IInv'
    BY <1>3 DEF Acquire
<1>4. ASSUME NEW w \in Workers, Body(w) PROVE IInv'
    BY <1>4 DEF Body
<1>5. ASSUME NEW w \in Workers, ReleaseAttempt(w) PROVE IInv'
    <2>1. ~LockOutside
        BY <1>5 DEF ReleaseAttempt
    <2>2. lockHolder = w
        BY <1>5, <2>1 DEF ReleaseAttempt
    <2>3. Held' = Held /\ "released" \in Held /\ "afterAttempt" \notin Held
        BY <1>5, <2>1 DEF ReleaseAttempt
    <2>4. ASSUME NEW v \in Workers PROVE pc'[v] \in Held' <=> lockHolder' = v
        <3>1. CASE v = w
            BY <1>5, <2>3, <3>1 DEF ReleaseAttempt
        <3>2. CASE v # w
            <4>1. pc[v] \notin Held
                BY <2>2, <3>2
            <4>2. QED
                BY <1>5, <2>3, <3>2, <4>1 DEF ReleaseAttempt
        <3>3. QED
            BY <3>1, <3>2
    <2>5. HolderInLock'
        BY <2>4
    <2>6. QED
        BY <1>5, <2>5 DEF ReleaseAttempt
<1>6. ASSUME NEW w \in Workers, AfterAttempt(w) PROVE IInv'
    BY <1>6 DEF AfterAttempt
<1>7. ASSUME NEW w \in Workers, ReleaseEnd(w) PROVE IInv'
    <2>1. LockOutside
        BY <1>7 DEF ReleaseEnd
    <2>2. lockHolder = w
        BY <1>7, <2>1 DEF ReleaseEnd
    <2>3. Held' = Held /\ "releaseEnd" \in Held /\ "done" \notin Held
        BY <1>7, <2>1 DEF ReleaseEnd
    <2>4. ASSUME NEW v \in Workers PROVE pc'[v] \in Held' <=> lockHolder' = v
        <3>1. CASE v = w
            BY <1>7, <2>3, <3>1 DEF ReleaseEnd
        <3>2. CASE v # w
            <4>1. pc[v] \notin Held
                BY <2>2, <3>2
            <4>2. QED
                BY <1>7, <2>3, <3>2, <4>1 DEF ReleaseEnd
        <3>3. QED
            BY <3>1, <3>2
    <2>5. HolderInLock'
        BY <2>4
    <2>6. QED
        BY <1>7, <2>5 DEF ReleaseEnd
<1>8. CASE Collect
    BY <1>8 DEF Collect
<1>9. CASE Finished \/ UNCHANGED vars
    BY <1>9 DEF Finished, vars
<1>10. QED
    BY <1>1, <1>2, <1>3, <1>4, <1>5, <1>6, <1>7, <1>8, <1>9 DEF Next, Worker

\* RunWith.Lock keeps the bodies of the worker processes apart, for any
\* number of workers and retries and both decorator orders.
THEOREM BodiesExclusiveHolds == Spec => []BodiesExclusive
<1>1. IInv => BodiesExclusive
    <2> SUFFICES ASSUME IInv PROVE BodiesExclusive
        OBVIOUS
    <2>1. {w \in Workers : pc[w] = "inBody"} \subseteq {lockHolder}
        BY DEF IInv, HolderInLock, Held
    <2>2. QED
        BY <2>1, AtMostOne DEF BodiesExclusive
<1>2. QED
    BY InitIInv, NextIInv, <1>1, PTL DEF Spec

\* Every reachable state of the lock example is well typed: in particular
\* the retry loop never counts more than Retries attempts.
THEOREM TypeCorrect == Spec => []TypeOK
<1>1. IInv => TypeOK
    BY DEF IInv
<1>2. QED
    BY InitIInv, NextIInv, <1>1, PTL DEF Spec

=============================================================================

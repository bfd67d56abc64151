--------------------------- MODULE FeatureAdapters ---------------------------
(***************************************************************************)
(* The synchronisation adapters of the cooperative backends                *)
(* (src/pyocean/coroutine/features.py), the globalize_instance of the      *)
(* Event and Condition factories (src/multirunnable/adapter/               *)
(* communication.py) and the process-wide registry Globalize               *)
(* (src/pyocean/framework/strategy.py).                                    *)
(*                                                                         *)
(* Clients -- the set-up code of runs -- call a factory method of an       *)
(* adapter class, and hand the object they get to globalize_instance,      *)
(* which stores it in the registry slot of its kind.  A call that raises   *)
(* ends that client's attempt before globalize_instance.  Objects are      *)
(* identified by a creation counter; the keyword arguments loop= and       *)
(* lock= are abstracted to what the checks in _AsyncUtils tell apart.     *)
(***************************************************************************)
EXTENDS Naturals, Sequences, FiniteSets

CONSTANTS
    Clients,       \* code paths that set up features concurrently
    UsedAdapters,  \* the adapter classes of the backend in use
    MaxCalls,      \* factory calls one client makes
    NoObject,      \* Python's None
    Idle,          \* a client that holds nothing
    TypeError,     \* the exceptions a factory call can raise
    RuntimeError

ASSUME MaxCallsAssumption == MaxCalls \in Nat

\* Finitely many set-up code paths.
ASSUME ClientsAssumption == IsFiniteSet(Clients)

\* The adapter classes and the factory methods each one offers.
Adapters == {"GreenletLock", "GreenletCommunicationSpec",
             "GreenletCommunication", "AsyncLock", "AsyncCommunication"}
LockKinds == {"lock", "rlock", "semaphore", "bounded_semaphore"}
Kinds == LockKinds \cup {"event", "condition"}
Methods == [a \in Adapters |->
              IF a \in {"GreenletLock", "AsyncLock"} THEN LockKinds
                                                     ELSE {"event", "condition"}]
AsyncAdapters == {"AsyncLock", "AsyncCommunication"}

ASSUME UsedAdaptersAssumption == UsedAdapters \subseteq Adapters

\* loop=: not given, the AbstractEventLoop that drives the run, or an
\* object that is not an event loop.  lock=: not given, an asyncio Lock,
\* or an object that is not one.
LoopArgs == {"none", "loop", "other"}
LockArgs == {"none", "asyncLock", "other"}

Errors == {TypeError, RuntimeError}

MaxId == Cardinality(Clients) * MaxCalls

\* A primitive created by a factory call: its kind, backend, the loop and
\* lock it was built with, whether it is reentrant, and its identity.
Prims == [kind : Kinds, backend : {"greenlet", "async"}, loop : LoopArgs,
          lock : LockArgs, reentrant : BOOLEAN, id : 1..MaxId]

Requests == [adapter : Adapters, kind : Kinds, loop : LoopArgs, lock : LockArgs]

VARIABLES
    registry,   \* Running_Lock, Running_RLock, ...: the Globalize slots
    req,        \* req[c]: the last factory call of client c
    out,        \* out[c]: what it returned or raised, Idle once handed on
    calls,      \* calls[c]: factory calls client c has made
    nextId,     \* identity of the next object created
    history     \* every globalize call so far, as <<kind, object>>

vars == <<registry, req, out, calls, nextId, history>>

IsPrim(o) == o \in Prims

-----------------------------------------------------------------------------

TypeOK ==
    /\ registry \in [Kinds -> Prims \cup {NoObject}]
    /\ req \in [Clients -> Requests]
    /\ out \in [Clients -> Prims \cup Errors \cup {NoObject, Idle}]
    /\ calls \in [Clients -> 0..MaxCalls]
    /\ nextId \in 1..MaxId + 1
    /\ history \in Seq(Kinds \X (Prims \cup {NoObject}))

\* The module globals Running_Lock = None, ... before anything registers.
Init ==
    /\ registry = [k \in Kinds |-> NoObject]
    /\ req = [c \in Clients |->
                [adapter |-> "GreenletLock", kind |-> "lock",
                 loop |-> "none", lock |-> "none"]]
    /\ out = [c \in Clients |-> Idle]
    /\ calls = [c \in Clients |-> 0]
    /\ nextId = 1
    /\ history = <<>>

\* _AsyncUtils.chk_loop / chk_lock: raise TypeError when the argument is
\* given AND is of the expected type; otherwise return it.
ChkLoopRaises(loop) == loop = "loop"
ChkLockRaises(lock) == lock = "asyncLock"

New(k, b, loop, lock, re, n) ==
    [kind |-> k, backend |-> b, loop |-> loop, lock |-> lock,
     reentrant |-> re, id |-> n]

\* GreenletLock.get_lock/get_rlock/get_semaphore/get_bounded_semaphore:
\* gevent Lock, RLock (reentrant), Semaphore, BoundedSemaphore.
GreenletLockCall(k, n) == New(k, "greenlet", "none", "none", k = "rlock", n)

\* GreenletCommunicationSpec: get_event is a bare pass (returns None);
\* get_condition raises RuntimeError.
GreenletCommunicationSpecCall(k) ==
    IF k = "event" THEN NoObject ELSE RuntimeError

\* GreenletCommunication overrides get_event with a gevent Event and
\* inherits the raising get_condition.
GreenletCommunicationCall(k, n) ==
    IF k = "event" THEN New("event", "greenlet", "none", "none", FALSE, n)
                   ELSE RuntimeError

\* AsyncLock: chk_loop(loop) then an asyncio Lock (for rlock too),
\* Semaphore or BoundedSemaphore built with that loop.
AsyncLockCall(k, loop, n) ==
    IF ChkLoopRaises(loop) THEN TypeError
                           ELSE New(k, "async", loop, "none", FALSE, n)

\* AsyncCommunication: get_event checks the loop; get_condition checks the
\* lock, then the loop, and builds an asyncio Condition(lock, loop).
AsyncCommunicationCall(k, loop, lock, n) ==
    CASE k = "event" ->
            IF ChkLoopRaises(loop) THEN TypeError
                                   ELSE New("event", "async", loop, "none", FALSE, n)
      [] k = "condition" ->
            IF ChkLockRaises(lock) \/ ChkLoopRaises(loop)
                THEN TypeError
                ELSE New("condition", "async", loop, lock, FALSE, n)

\* What calling factory method r.kind of adapter r.adapter returns.
Call(r, n) ==
    CASE r.adapter = "GreenletLock"              -> GreenletLockCall(r.kind, n)
      [] r.adapter = "GreenletCommunicationSpec" -> GreenletCommunicationSpecCall(r.kind)
      [] r.adapter = "GreenletCommunication"     -> GreenletCommunicationCall(r.kind, n)
      [] r.adapter = "AsyncLock"                 -> AsyncLockCall(r.kind, r.loop, n)
      [] r.adapter = "AsyncCommunication"        -> AsyncCommunicationCall(r.kind, r.loop, r.lock, n)

\* The keyword arguments a client may pass: loop= only matters to the
\* asyncio adapters, lock= only to get_condition.
Args(a, k) ==
    { r \in Requests :
        /\ r.adapter = a /\ r.kind = k
        /\ (a \notin AsyncAdapters => r.loop = "none")
        /\ (k # "condition" \/ a # "AsyncCommunication" => r.lock = "none") }

\* Client c calls one factory method of an adapter class (get_lock,
\* get_event, ...): a new object, None, or an exception.
Request(c) ==
    /\ calls[c] < MaxCalls
    /\ \E a \in UsedAdapters, k \in Kinds :
         /\ k \in Methods[a]
         /\ \E r \in Args(a, k) :
              LET o == Call(r, nextId) IN
              /\ req' = [req EXCEPT ![c] = r]
              /\ out' = [out EXCEPT ![c] = o]
              /\ nextId' = IF IsPrim(o) THEN nextId + 1 ELSE nextId
    /\ calls' = [calls EXCEPT ![c] = calls[c] + 1]
    /\ UNCHANGED <<registry, history>>

\* Mutant of Globalize: the None check is dropped.
GlobalizeUnchecked(k, o) ==
    registry' = [registry EXCEPT ![k] = o]

\* Globalize.lock / rlock / event / condition / semaphore /
\* bounded_semaphore: store a non-None object in the slot of its kind;
\* None raises GlobalizeObjectError and leaves the slot alone.
Globalize(k, o) ==
    IF o # NoObject THEN registry' = [registry EXCEPT ![k] = o]
                    ELSE UNCHANGED registry

\* Mutant of GlobalizeInstance: the object is registered even when the
\* factory call raised (the early exit on the exception is missing).
GlobalizeInstanceAfterError(c) ==
    /\ out[c] # Idle
    /\ Globalize(req[c].kind, out[c])
    /\ history' = Append(history, <<req[c].kind, out[c]>>)
    /\ out' = [out EXCEPT ![c] = Idle]
    /\ UNCHANGED <<req, calls, nextId>>

\* globalize_instance(obj): hand what the factory returned to the
\* Globalize method of its kind.  Only reached when the call returned.
GlobalizeInstance(c) ==
    /\ IsPrim(out[c]) \/ out[c] = NoObject
    /\ Globalize(req[c].kind, out[c])
    /\ history' = Append(history, <<req[c].kind, out[c]>>)
    /\ out' = [out EXCEPT ![c] = Idle]
    /\ UNCHANGED <<req, calls, nextId>>

\* Every client has made its calls and handed on what it got.
Finished ==
    /\ \A c \in Clients : calls[c] = MaxCalls /\ ~(IsPrim(out[c]) \/ out[c] = NoObject)
    /\ UNCHANGED vars

Next ==
    \/ \E c \in Clients : Request(c) \/ GlobalizeInstance(c)
    \/ Finished

Spec == Init /\ [][Next]_vars

-----------------------------------------------------------------------------
(* Properties                                                               *)

\* The object of the last globalize call of kind k that was not None.
LastGlobalized(k) ==
    LET ok == {i \in 1..Len(history) : history[i][1] = k /\ history[i][2] # NoObject}
    IN  IF ok = {} THEN NoObject
        ELSE history[CHOOSE i \in ok : \A j \in ok : j <= i][2]

\* Spec 8: registering None fails and current(kind) still returns the last
\* successfully registered instance, whatever clients interleave their
\* globalize calls: each Globalize slot holds the last non-None object
\* registered for it.
RegistryIsLastGlobalized == \A k \in Kinds : registry[k] = LastGlobalized(k)

\* Spec 4.1: an asyncio primitive carries the loop it was created against:
\* a call given the driving event loop returns a primitive on that loop,
\* and a call given something that is not an event loop is refused.
LoopCarried ==
    \A c \in Clients :
       (out[c] # Idle /\ req[c].adapter \in AsyncAdapters) =>
          /\ req[c].loop = "loop" => IsPrim(out[c]) /\ out[c].loop = "loop"
          /\ req[c].loop = "other" => ~IsPrim(out[c])

\* Spec 4.1: get_condition(lock?) accepts an asyncio lock and builds the
\* condition on it (AsyncCommunication.get_condition with lock=).
ConditionLockAccepted ==
    \A c \in Clients :
       (/\ out[c] # Idle
        /\ req[c].adapter = "AsyncCommunication" /\ req[c].kind = "condition"
        /\ req[c].lock = "asyncLock" /\ req[c].loop = "none") =>
          IsPrim(out[c]) /\ out[c].lock = "asyncLock"

\* Spec 4.1: the asyncio adapters check the loop and lock they are given
\* the way the spec states: a primitive is built on the driving loop, a
\* non-loop is refused, and an asyncio lock is accepted for a condition
\* (_AsyncUtils.chk_loop and chk_lock as used by AsyncLock and
\* AsyncCommunication).
AsyncArgumentsChecked == LoopCarried /\ ConditionLockAccepted

\* Spec 4.1: every backend's get_rlock returns an object with the RLock
\* capability, that is, one its holder may acquire again.
RLockReentrant ==
    \A c \in Clients : (IsPrim(out[c]) /\ out[c].kind = "rlock") => out[c].reentrant

=============================================================================

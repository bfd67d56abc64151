------------------------ MODULE FeatureAdaptersProofs ------------------------
(***************************************************************************)
(* Proofs about FeatureAdapters.                                           *)
(*                                                                         *)
(* TypeOK rests on a count: every object a factory call creates takes the *)
(* next identity, and a client makes at most MaxCalls calls, so at most   *)
(* Cardinality(Clients) * MaxCalls identities are ever handed out.        *)
(*                                                                         *)
(* RegistryIsLastGlobalized rests on the registry history: a successful   *)
(* globalize of kind k appends the newest entry for k, and every other    *)
(* globalize leaves the entries of k as they were.                        *)
(***************************************************************************)
EXTENDS FeatureAdapters, FiniteSetTheorems, SequenceTheorems, TLAPS

\* The factory calls made so far, as <<client, call number>>.
Made == {p \in Clients \X (1..MaxCalls) : p[2] <= calls[p[1]]}

\* Each created object used one identity, and only factory calls create.
IdsCounted == nextId - 1 <= Cardinality(Made)

TInv == TypeOK /\ IdsCounted

\* The indices of the history entries that registered an object of kind k.
OkIdx(k) ==
    {i \in 1..Len(history) : history[i][1] = k /\ history[i][2] # NoObject}

\* Among them there is a latest one.
HasLatest == \A k \in Kinds :
                OkIdx(k) # {} => \E i \in OkIdx(k) : \A j \in OkIdx(k) : j <= i

RInv == TInv /\ HasLatest /\ RegistryIsLastGlobalized

USE MaxCallsAssumption, ClientsAssumption, UsedAdaptersAssumption

-----------------------------------------------------------------------------
(* Factory calls.                                                          *)

\* A factory method the adapter offers, called with arguments it accepts
\* and a free identity, returns a primitive, None or an exception.
LEMMA CallType ==
    ASSUME NEW a \in Adapters, NEW k \in Methods[a], NEW r \in Args(a, k),
           NEW n \in 1..MaxId
    PROVE  Call(r, n) \in Prims \cup Errors \cup {NoObject}
<1>1. r \in Requests /\ r.adapter = a /\ r.kind = k
    BY DEF Args
<1>2. r.loop \in LoopArgs /\ r.lock \in LockArgs /\ k \in Kinds
    BY <1>1 DEF Requests
<1>3. CASE a = "GreenletLock"
    BY <1>1, <1>2, <1>3 DEF Call, GreenletLockCall, New, Prims, LoopArgs,
                            LockArgs
<1>4. CASE a = "GreenletCommunicationSpec"
    BY <1>1, <1>3, <1>4 DEF Call, GreenletCommunicationSpecCall, Errors
<1>5. CASE a = "GreenletCommunication"
    BY <1>1, <1>5 DEF Call, GreenletCommunicationCall, New, Prims, Errors,
                      Kinds, LockKinds, LoopArgs, LockArgs
<1>6. CASE a = "AsyncLock"
    <2>1. k \in LockKinds
        BY <1>6 DEF Methods, Adapters
    <2>2. QED
        BY <1>1, <1>2, <1>6, <2>1 DEF Call, AsyncLockCall, ChkLoopRaises,
                                       New, Prims, Errors, LockArgs
<1>7. CASE a = "AsyncCommunication"
    <2>1. k \in {"event", "condition"}
        BY <1>7 DEF Methods, Adapters
    <2>2. Call(r, n) = AsyncCommunicationCall(k, r.loop, r.lock, n)
        BY <1>1, <1>7 DEF Call
    <2>3. CASE k = "event"
        BY <1>2, <2>2, <2>3 DEF AsyncCommunicationCall, ChkLoopRaises, New,
                                Prims, Errors, Kinds, LockArgs
    <2>4. CASE k = "condition"
        BY <1>2, <2>2, <2>4 DEF AsyncCommunicationCall, ChkLoopRaises,
                                ChkLockRaises, New, Prims, Errors, Kinds
    <2>5. QED
        BY <2>1, <2>3, <2>4
<1>8. QED
    BY <1>3, <1>4, <1>5, <1>6, <1>7 DEF Adapters

-----------------------------------------------------------------------------
(* Counting identities.                                                    *)

\* All calls every client can make: MaxId of them.
LEMMA AllCallsCount ==
    /\ IsFiniteSet(Clients \X (1..MaxCalls))
    /\ Cardinality(Clients \X (1..MaxCalls)) = MaxId
    /\ MaxId \in Nat
<1>1. IsFiniteSet(1..MaxCalls) /\ Cardinality(1..MaxCalls) = MaxCalls
    BY FS_Interval
<1>2. Cardinality(Clients) \in Nat
    BY FS_CardinalityType
<1>3. QED
    BY <1>1, <1>2, FS_Product DEF MaxId

\* The calls made so far are finitely many.
LEMMA MadeFinite == IsFiniteSet(Made) /\ Cardinality(Made) \in Nat
<1>1. Made \subseteq Clients \X (1..MaxCalls)
    BY DEF Made
<1>2. QED
    BY <1>1, AllCallsCount, FS_Subset, FS_CardinalityType

LEMMA InitTInv == Init => TInv
<1> SUFFICES ASSUME Init PROVE TInv
    OBVIOUS
<1>1. MaxId \in Nat /\ Cardinality(Made) \in Nat
    BY AllCallsCount, MadeFinite
<1>2. TypeOK
    BY <1>1 DEF Init, TypeOK, Requests, Adapters, Kinds, LockKinds,
                LoopArgs, LockArgs
<1>3. QED
    BY <1>1, <1>2 DEF TInv, IdsCounted, Init

\* A factory call of client c counts one more call, and at most one more
\* identity.
LEMMA RequestTInv ==
    ASSUME TInv, NEW c \in Clients, Request(c)
    PROVE  TInv'
<1> USE DEF TInv, TypeOK
<1>1. calls[c] < MaxCalls /\ calls' = [calls EXCEPT ![c] = calls[c] + 1]
      /\ UNCHANGED <<registry, history>>
    BY DEF Request
<1>2. calls[c] + 1 \in 1..MaxCalls
    BY <1>1
<1>3. Made' = Made \cup {<<c, calls[c] + 1>>} /\ <<c, calls[c] + 1>> \notin Made
    BY <1>1, <1>2 DEF Made
<1>4. Cardinality(Made') = Cardinality(Made) + 1
    BY <1>3, MadeFinite, FS_AddElement
<1>5. Cardinality(Made) <= MaxId - 1
    <2>1. <<c, MaxCalls>> \in Clients \X (1..MaxCalls)
        BY <1>2
    <2> DEFINE Rest == (Clients \X (1..MaxCalls)) \ {<<c, MaxCalls>>}
    <2>2. IsFiniteSet(Rest) /\ Cardinality(Rest) = MaxId - 1
        BY <2>1, AllCallsCount, FS_RemoveElement
    <2>3. Made \subseteq Rest
        BY <1>1 DEF Made
    <2>4. QED
        BY <2>2, <2>3, FS_Subset
<1>6. nextId \in 1..MaxId
    BY <1>5, MadeFinite, AllCallsCount DEF IdsCounted
<1>7. PICK a \in UsedAdapters, k \in Kinds :
          /\ k \in Methods[a]
          /\ \E r \in Args(a, k) :
               LET o == Call(r, nextId) IN
               /\ req' = [req EXCEPT ![c] = r]
               /\ out' = [out EXCEPT ![c] = o]
               /\ nextId' = IF IsPrim(o) THEN nextId + 1 ELSE nextId
    BY DEF Request
<1>8. PICK r \in Args(a, k) :
          /\ req' = [req EXCEPT ![c] = r]
          /\ out' = [out EXCEPT ![c] = Call(r, nextId)]
          /\ nextId' = IF IsPrim(Call(r, nextId)) THEN nextId + 1 ELSE nextId
    BY <1>7
<1>9. Call(r, nextId) \in Prims \cup Errors \cup {NoObject} /\ r \in Requests
    BY <1>6, <1>7, CallType DEF Args
<1>10. nextId' \in {nextId, nextId + 1}
    BY <1>8
<1>11. nextId' \in 1..MaxId + 1 /\ nextId' - 1 <= Cardinality(Made')
    BY <1>4, <1>6, <1>10, MadeFinite, AllCallsCount DEF IdsCounted
<1>12. req' \in [Clients -> Requests]
    BY <1>8, <1>9
<1>13. out' \in [Clients -> Prims \cup Errors \cup {NoObject, Idle}]
    BY <1>8, <1>9
<1>14. calls' \in [Clients -> 0..MaxCalls]
    BY <1>1, <1>2
<1>15. QED
    BY <1>1, <1>11, <1>12, <1>13, <1>14 DEF IdsCounted

\* globalize_instance hands on an object or None and stores it in a slot
\* of its kind; no call is made and no identity is used.
LEMMA GlobalizeInstanceTInv ==
    ASSUME TInv, NEW c \in Clients, GlobalizeInstance(c)
    PROVE  TInv'
<1> USE DEF TInv, TypeOK
<1>1. out[c] \in Prims \cup {NoObject} /\ req[c].kind \in Kinds
    BY DEF GlobalizeInstance, IsPrim, Requests
<1>2. registry' \in [Kinds -> Prims \cup {NoObject}]
    BY <1>1 DEF GlobalizeInstance, Globalize
<1>3. history' \in Seq(Kinds \X (Prims \cup {NoObject}))
    BY <1>1 DEF GlobalizeInstance
<1>4. UNCHANGED <<req, calls, nextId>>
      /\ out' = [out EXCEPT ![c] = Idle]
    BY DEF GlobalizeInstance
<1>5. Made' = Made
    BY <1>4 DEF Made
<1>6. QED
    BY <1>2, <1>3, <1>4, <1>5 DEF IdsCounted

LEMMA NextTInv == TInv /\ [Next]_vars => TInv'
<1> SUFFICES ASSUME TInv, [Next]_vars PROVE TInv'
    OBVIOUS
<1>1. CASE \E c \in Clients : Request(c)
    BY <1>1, RequestTInv
<1>2. CASE \E c \in Clients : GlobalizeInstance(c)
    BY <1>2, GlobalizeInstanceTInv
<1>3. CASE Finished \/ UNCHANGED vars
    <2>1. UNCHANGED vars
        BY <1>3 DEF Finished
    <2>2. Made' = Made
        BY <2>1 DEF vars, Made
    <2>3. QED
        BY <2>1, <2>2 DEF vars, TInv, TypeOK, IdsCounted
<1>4. QED
    BY <1>1, <1>2, <1>3 DEF Next

\* Every object the adapters hand out is a well-formed primitive with an
\* identity in 1..MaxId, and the registry slots, the client states and the
\* history keep their types: identities never run out, for any number of
\* clients and of calls each makes.
THEOREM TypeCorrect == Spec => []TypeOK
<1>1. TInv => TypeOK
    BY DEF TInv
<1>2. QED
    BY InitTInv, NextTInv, <1>1, PTL DEF Spec

-----------------------------------------------------------------------------
(* The registry.                                                           *)

LEMMA InitRInv == Init => RInv
<1> SUFFICES ASSUME Init PROVE RInv
    OBVIOUS
<1>1. \A k \in Kinds : OkIdx(k) = {}
    BY DEF Init, OkIdx
<1>2. QED
    BY <1>1, InitTInv DEF RInv, HasLatest, RegistryIsLastGlobalized,
                          LastGlobalized, OkIdx, Init

\* globalize_instance(obj) appends the newest entry of its kind when obj
\* is not None and leaves every slot and every kind's entries alone
\* otherwise.
LEMMA GlobalizeInstanceRInv ==
    ASSUME RInv, TInv', NEW c \in Clients, GlobalizeInstance(c)
    PROVE  HasLatest' /\ RegistryIsLastGlobalized'
<1> DEFINE k0 == req[c].kind
           o == out[c]
           L == Len(history)
           Latest(S) == CHOOSE i \in S : \A j \in S : j <= i
<1>1. /\ history \in Seq(Kinds \X (Prims \cup {NoObject}))
      /\ registry \in [Kinds -> Prims \cup {NoObject}]
      /\ k0 \in Kinds /\ o \in Prims \cup {NoObject}
    BY DEF RInv, TInv, TypeOK, GlobalizeInstance, IsPrim, Requests
<1>2. /\ Len(history') = L + 1
      /\ history'[L + 1] = <<k0, o>>
      /\ \A i \in 1..L : history'[i] = history[i]
    <2>1. history' = Append(history, <<k0, o>>)
        BY DEF GlobalizeInstance
    <2>2. <<k0, o>> \in Kinds \X (Prims \cup {NoObject})
        BY <1>1
    <2>3. QED
        BY <1>1, <2>1, <2>2, AppendProperties
<1>3. registry' = IF o # NoObject THEN [registry EXCEPT ![k0] = o] ELSE registry
    BY DEF GlobalizeInstance, Globalize
<1>4. SUFFICES ASSUME NEW k \in Kinds
               PROVE  /\ OkIdx(k)' # {} =>
                            \E i \in OkIdx(k)' : \A j \in OkIdx(k)' : j <= i
                      /\ registry'[k] = LastGlobalized(k)'
    BY DEF HasLatest, RegistryIsLastGlobalized
<1>5. LastGlobalized(k)' = IF OkIdx(k)' = {} THEN NoObject
                           ELSE history'[Latest(OkIdx(k)')][2]
    BY DEF LastGlobalized, OkIdx
<1>6. CASE k = k0 /\ o # NoObject
    <2>1. OkIdx(k)' = OkIdx(k) \cup {L + 1}
        BY <1>2, <1>6 DEF OkIdx
    <2>2. L + 1 \in OkIdx(k)' /\ \A j \in OkIdx(k)' : j <= L + 1
        BY <2>1, <1>1 DEF OkIdx
    <2>3. Latest(OkIdx(k)') = L + 1
        <3>1. \A i \in OkIdx(k)' : (\A j \in OkIdx(k)' : j <= i) => i = L + 1
            BY <2>2, <1>1 DEF OkIdx
        <3>2. QED
            BY <2>2, <3>1
    <2>4. registry'[k] = o
        BY <1>1, <1>3, <1>6
    <2>5. OkIdx(k)' # {}
        BY <2>2
    <2>6. LastGlobalized(k)' = history'[L + 1][2]
        BY <1>5, <2>3, <2>5
    <2>7. history'[L + 1][2] = o
        BY <1>2
    <2>8. QED
        BY <2>2, <2>4, <2>6, <2>7
<1>7. CASE ~(k = k0 /\ o # NoObject)
    <2>1. OkIdx(k)' = OkIdx(k)
        BY <1>2, <1>7, <1>1 DEF OkIdx
    <2>2. registry'[k] = registry[k]
        BY <1>1, <1>3, <1>7
    <2>3. CASE OkIdx(k) = {}
        BY <1>5, <2>1, <2>2, <2>3 DEF RInv, RegistryIsLastGlobalized,
                                      LastGlobalized, OkIdx
    <2>4. CASE OkIdx(k) # {}
        <3>1. Latest(OkIdx(k)) \in OkIdx(k)
            BY <2>4 DEF RInv, HasLatest
        <3>2. Latest(OkIdx(k)) \in 1..L
            BY <3>1 DEF OkIdx
        <3>3. LastGlobalized(k) = history[Latest(OkIdx(k))][2]
            BY <2>4 DEF LastGlobalized, OkIdx
        <3>4. QED
            BY <1>2, <1>5, <2>1, <2>2, <2>4, <3>2, <3>3, <2>4
               DEF RInv, RegistryIsLastGlobalized, HasLatest
    <2>5. QED
        BY <2>3, <2>4
<1>8. QED
    BY <1>6, <1>7

LEMMA NextRInv == RInv /\ [Next]_vars => RInv'
<1> SUFFICES ASSUME RInv, [Next]_vars PROVE RInv'
    OBVIOUS
<1>1. TInv'
    BY NextTInv DEF RInv
<1>2. CASE \E c \in Clients : GlobalizeInstance(c)
    <2>1. PICK c \in Clients : GlobalizeInstance(c)
        BY <1>2
    <2>2. HasLatest' /\ RegistryIsLastGlobalized'
        BY <1>1, <2>1, GlobalizeInstanceRInv
    <2>3. QED
        BY <1>1, <2>2 DEF RInv
<1>3. CASE UNCHANGED <<registry, history>>
    <2>1. \A k \in Kinds : OkIdx(k)' = OkIdx(k)
        BY <1>3 DEF OkIdx
    <2>2. \A k \in Kinds : LastGlobalized(k)' = LastGlobalized(k)
        BY <1>3 DEF LastGlobalized
    <2>3. HasLatest' /\ RegistryIsLastGlobalized'
        BY <1>3, <2>1, <2>2 DEF RInv, HasLatest, RegistryIsLastGlobalized
    <2>4. QED
        BY <1>1, <2>3 DEF RInv
<1>4. QED
    BY <1>2, <1>3 DEF Next, Request, Finished, vars

\* Whatever clients interleave their factory and globalize_instance
\* calls, each Globalize slot holds the last object registered for its
\* kind that was not None: a None registration never erases a slot and no
\* object is ever lost to an older one (spec 8), for any number of
\* clients and calls.
THEOREM RegistryCorrect == Spec => []RegistryIsLastGlobalized
<1>1. RInv => RegistryIsLastGlobalized
    BY DEF RInv
<1>2. QED
    BY InitRInv, NextRInv, <1>1, PTL DEF Spec

=============================================================================

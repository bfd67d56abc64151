-------------------------- MODULE RunIsolationProofs --------------------------
(***************************************************************************)
(* Proofs about RunIsolation.                                              *)
(*                                                                         *)
(* TypeOK holds for every number of runs, tasks, modes and queue types.    *)
(*                                                                         *)
(* RunSeesOwnTasks fails in general (the singleton queue objects keep the *)
(* tasks of a run that failed to initialise, and Running_Queue is         *)
(* overwritten by an overlapping run).  It is proved here for the runs    *)
(* that avoid both: one after the other (Overlap = FALSE), each with a    *)
(* persistence strategy whose initialize succeeds.  The argument: the     *)
(* runs start in order, so at most one is between init_multi_working and *)
(* end_multi_working; while it is, Running_Queue is its queue object,     *)
(* every other queue object is empty, its queue holds only its own tasks, *)
(* one for each of its workers that has not taken one yet; so when it     *)
(* ends, its queue is empty again and the next run starts from empty      *)
(* queues.                                                                 *)
(***************************************************************************)
EXTENDS RunIsolation, FiniteSets, FiniteSetTheorems, SequenceTheorems, TLAPS

\* The queue object run r's init_multi_working fills and registers.
QueueOf(r) == GetQueue(FeatureQueueAdapter(modeOf[r]), qtypeOf[r])

\* The workers of run r that have not taken a task yet.
Untaken(r) == {i \in 1..TasksPerRun : took[<<r, i>>] = NoTask}

\* Runs start in order, each once the earlier ones have ended.
StartedInOrder ==
    \A r, s \in Runs : s < r /\ phase[r] # "new" => phase[s] = "ended"

\* No run fails in initialize_persistence.
NoFailedInit == \A r \in Runs : phase[r] # "initFailed"

\* The workers of a run that has not started have taken nothing.
NewUntaken == \A w \in Workers : phase[w[1]] = "new" => took[w] = NoTask

\* The run between init_multi_working and end_multi_working owns the
\* registered queue, which holds one of its tasks per waiting worker; the
\* other queue objects are empty.
ActiveAt(r) ==
    phase[r] = "initialized" =>
        /\ runningQueue = QueueOf(r)
        /\ \A q \in QueueObjects : q # QueueOf(r) => queues[q] = <<>>
        /\ \A i \in 1..Len(queues[QueueOf(r)]) : queues[QueueOf(r)][i][1] = r
        /\ Len(queues[QueueOf(r)]) = Cardinality(Untaken(r))

ActiveQueue == \A r \in Runs : ActiveAt(r)

\* Between runs every queue object is empty.
IdleQueues ==
    (\A r \in Runs : phase[r] # "initialized") =>
        \A q \in QueueObjects : queues[q] = <<>>

IInv ==
    /\ TypeOK
    /\ StartedInOrder
    /\ NoFailedInit
    /\ NewUntaken
    /\ ActiveQueue
    /\ IdleQueues
    /\ RunSeesOwnTasks

\* Running_Queue is set once a run is between its init and its end.
RegisteredWhenActive ==
    \A r \in Runs : phase[r] = "initialized" => runningQueue \in QueueObjects

TypeInv == TypeOK /\ RegisteredWhenActive

USE NumRunsAssumption, ModesAssumption, TasksPerRunAssumption,
    PersistencesAssumption, OverlapAssumption, NoTaskAssumption

-----------------------------------------------------------------------------
(* Facts about the operators of RunIsolation                               *)

\* The task list a run puts on its queue: TasksPerRun tasks of its own.
LEMMA TaskListFacts ==
    ASSUME NEW r \in Runs
    PROVE  /\ TaskList(r) \in Seq(Tasks)
           /\ Len(TaskList(r)) = TasksPerRun
           /\ \A i \in 1..TasksPerRun : TaskList(r)[i] = <<r, i>>
<1>1. TaskList(r) \in [1..TasksPerRun -> Tasks]
    BY DEF TaskList, Tasks
<1>2. TaskList(r) \in Seq(Tasks)
    BY <1>1, SeqDef
<1>3. QED
    BY <1>1, <1>2, LenProperties DEF TaskList

\* A run's queue adapter and queue type name one of the queue objects.
LEMMA QueueOfObject ==
    ASSUME NEW r \in Runs, modeOf \in [Runs -> Modes], qtypeOf \in [Runs -> QTypes]
    PROVE  QueueOf(r) \in QueueObjects
BY DEF QueueOf, GetQueue, QueueObjects

\* The workers of a run that have not taken a task form a finite set.
LEMMA UntakenFinite ==
    ASSUME NEW r \in Runs
    PROVE  IsFiniteSet(Untaken(r)) /\ Untaken(r) \subseteq 1..TasksPerRun
<1>1. IsFiniteSet(1..TasksPerRun)
    BY FS_Interval
<1>2. QED
    BY <1>1, FS_Subset DEF Untaken

-----------------------------------------------------------------------------
(* Type correctness                                                        *)

LEMMA InitTypeInv == Init => TypeInv
<1> SUFFICES ASSUME Init PROVE TypeInv
    OBVIOUS
<1>1. queues \in [QueueObjects -> Seq(Tasks)]
    BY EmptySeq DEF Init
<1>2. took \in [Workers -> Tasks \cup {NoTask}]
    BY DEF Init
<1>3. QED
    BY <1>1, <1>2 DEF Init, TypeInv, TypeOK, RegisteredWhenActive, Phases

LEMMA NextTypeInv == TypeInv /\ [Next]_vars => TypeInv'
<1> SUFFICES ASSUME TypeInv, [Next]_vars PROVE TypeInv'
    OBVIOUS
<1> USE DEF TypeInv, TypeOK
<1>1. ASSUME NEW r \in Runs, InitMultiWorking(r) PROVE TypeInv'
    <2> DEFINE q == QueueOf(r)
    <2>1. q \in QueueObjects
        BY QueueOfObject
    <2>2. queues[q] \o TaskList(r) \in Seq(Tasks)
        BY <2>1, TaskListFacts, ConcatProperties
    <2>3. queues' = [queues EXCEPT ![q] = queues[q] \o TaskList(r)]
              /\ runningQueue' = q
        BY <1>1 DEF InitMultiWorking, QueueOf
    <2>4. queues' \in [QueueObjects -> Seq(Tasks)]
        BY <2>1, <2>2, <2>3
    <2>5. phase' \in [Runs -> Phases]
        BY <1>1 DEF InitMultiWorking, Phases
    <2>6. QED
        BY <1>1, <2>1, <2>3, <2>4, <2>5 DEF InitMultiWorking, RegisteredWhenActive
<1>2. ASSUME NEW w \in Workers, Take(w) PROVE TypeInv'
    <2> DEFINE q == runningQueue
    <2>1. q \in QueueObjects
        BY <1>2 DEF Take, RegisteredWhenActive, Workers
    <2>2. queues[q] \in Seq(Tasks) /\ queues[q] # <<>>
        BY <1>2, <2>1 DEF Take
    <2>3. Head(queues[q]) \in Tasks /\ Tail(queues[q]) \in Seq(Tasks)
        BY <2>2, HeadTailProperties
    <2>4. QED
        BY <1>2, <2>1, <2>3 DEF Take, RegisteredWhenActive
<1>3. ASSUME NEW r \in Runs, EndMultiWorking(r) PROVE TypeInv'
    BY <1>3 DEF EndMultiWorking, RegisteredWhenActive, Phases
<1>4. CASE Finished \/ UNCHANGED vars
    BY <1>4 DEF Finished, vars, RegisteredWhenActive
<1>5. QED
    BY <1>1, <1>2, <1>3, <1>4 DEF Next

\* Every reachable state is well typed, for any number of runs and tasks
\* and any modes, queue types and persistence strategies, overlapping or
\* not: in particular Running_Queue is set whenever a worker calls get().
THEOREM TypeCorrect == Spec => []TypeOK
<1>1. TypeInv => TypeOK
    BY DEF TypeInv
<1>2. QED
    BY InitTypeInv, NextTypeInv, <1>1, PTL DEF Spec

-----------------------------------------------------------------------------
(* Isolation of sequential runs with a working persistence strategy        *)

\* Runs that start in order have at most one between init and end.
LEMMA OneActive ==
    ASSUME StartedInOrder, NEW r \in Runs, NEW t \in Runs,
           phase[r] = "initialized", phase[t] = "initialized"
    PROVE  r = t
BY DEF StartedInOrder, Runs

\* A run with the tasks of every worker taken has an empty queue.
LEMMA EndedQueueEmpty ==
    ASSUME NEW r \in Runs, ActiveQueue, TypeOK, phase[r] = "initialized",
           \A i \in 1..TasksPerRun : took[<<r, i>>] # NoTask
    PROVE  queues[QueueOf(r)] = <<>>
<1>1. Untaken(r) = {}
    BY DEF Untaken
<1>2. Len(queues[QueueOf(r)]) = 0
    BY <1>1, FS_EmptySet DEF ActiveQueue, ActiveAt
<1>3. queues[QueueOf(r)] \in Seq(Tasks)
    BY QueueOfObject DEF TypeOK
<1>4. QED
    BY <1>2, <1>3, EmptySeq, LenProperties

LEMMA InitIInv ==
    ASSUME Persistences \subseteq {"custom"}, Init
    PROVE  IInv
<1>1. TypeOK
    BY InitTypeInv DEF TypeInv
<1>2. IdleQueues /\ ActiveQueue
    BY DEF Init, IdleQueues, ActiveQueue, ActiveAt
<1>3. QED
    BY <1>1, <1>2 DEF Init, IInv, StartedInOrder, NoFailedInit, NewUntaken,
                      RunSeesOwnTasks

\* init_multi_working of a run started after every earlier one ended.
LEMMA InitMultiWorkingIInv ==
    ASSUME ~Overlap, Persistences \subseteq {"custom"}, IInv, TypeInv',
           NEW r \in Runs, InitMultiWorking(r)
    PROVE  IInv'
<1> DEFINE q == QueueOf(r)
<1> USE DEF IInv
<1>1. q \in QueueObjects /\ q' = q
    BY QueueOfObject DEF InitMultiWorking, TypeOK, QueueOf
<1>2. phase' = [phase EXCEPT ![r] = "initialized"] /\ phase[r] = "new"
    BY DEF InitMultiWorking, TypeOK
<1>3. \A s \in Runs : s < r => phase[s] = "ended"
    BY DEF InitMultiWorking, MayStart, NoFailedInit, Runs
<1>4. \A t \in Runs : phase[t] # "initialized"
    BY <1>2, <1>3 DEF StartedInOrder, Runs
<1>5. \A o \in QueueObjects : queues[o] = <<>>
    BY <1>4 DEF IdleQueues
<1>6. queues' = [queues EXCEPT ![q] = TaskList(r)] /\ runningQueue' = q
    <2>1. queues[q] \o TaskList(r) = TaskList(r)
        BY <1>1, <1>5, TaskListFacts, ConcatEmptySeq
    <2>2. QED
        BY <2>1 DEF InitMultiWorking, QueueOf
<1>7. Untaken(r) = 1..TasksPerRun /\ Untaken(r)' = Untaken(r)
    BY <1>2 DEF NewUntaken, Untaken, Workers, InitMultiWorking
<1>8. StartedInOrder'
    BY <1>2, <1>3 DEF StartedInOrder, TypeOK
<1>9. ActiveQueue'
    <2> SUFFICES ASSUME NEW t \in Runs, phase'[t] = "initialized"
                 PROVE  ActiveAt(t)'
        BY DEF ActiveQueue, ActiveAt
    <2>1. t = r
        BY <1>2, <1>4 DEF TypeOK
    <2>2. Len(TaskList(r)) = Cardinality(1..TasksPerRun)
        BY TaskListFacts, FS_Interval
    <2>3. QueueOf(t)' = q /\ runningQueue' = q
        BY <1>1, <1>6, <2>1
    <2>4. queues'[q] = TaskList(r)
        BY <1>1, <1>6 DEF TypeOK
    <2>5. \A o \in QueueObjects : o # q => queues'[o] = <<>>
        BY <1>5, <1>6 DEF TypeOK
    <2>6. \A i \in 1..Len(queues'[q]) : queues'[q][i][1] = r
        BY <2>4, TaskListFacts
    <2>7. Len(queues'[q]) = Cardinality(Untaken(r)')
        BY <1>7, <2>2, <2>4
    <2>8. QED
        BY <2>1, <2>3, <2>5, <2>6, <2>7 DEF ActiveAt
<1>10. NoFailedInit' /\ NewUntaken' /\ IdleQueues' /\ RunSeesOwnTasks'
    BY <1>2 DEF InitMultiWorking, NoFailedInit, NewUntaken, IdleQueues,
                RunSeesOwnTasks, TypeOK
<1>11. QED
    BY <1>8, <1>9, <1>10 DEF TypeInv

\* A worker's get() on the registered queue of its running run.
LEMMA TakeIInv ==
    ASSUME IInv, TypeInv', NEW w \in Workers, Take(w)
    PROVE  IInv'
<1> DEFINE r == w[1]
           q == QueueOf(r)
<1> USE DEF IInv
<1>1. r \in Runs /\ w = <<r, w[2]>> /\ w[2] \in 1..TasksPerRun
    BY DEF Workers
<1>2. phase[r] = "initialized" /\ phase' = phase /\ took[w] = NoTask
    BY DEF Take
<1>3. /\ runningQueue = q
      /\ \A o \in QueueObjects : o # q => queues[o] = <<>>
      /\ \A i \in 1..Len(queues[q]) : queues[q][i][1] = r
      /\ Len(queues[q]) = Cardinality(Untaken(r))
    BY <1>1, <1>2 DEF ActiveQueue, ActiveAt
<1>4. q \in QueueObjects /\ queues[q] \in Seq(Tasks) /\ queues[q] # <<>>
    <2>1. q \in QueueObjects
        BY <1>1, QueueOfObject DEF TypeOK
    <2>2. QED
        BY <1>3, <2>1 DEF Take, TypeOK
<1>5. /\ Head(queues[q]) = queues[q][1]
      /\ Len(Tail(queues[q])) = Len(queues[q]) - 1
      /\ \A i \in 1..Len(Tail(queues[q])) : Tail(queues[q])[i] = queues[q][i + 1]
      /\ Len(queues[q]) \in Nat \ {0}
    BY <1>4, HeadTailProperties, EmptySeq
<1>6. /\ took' = [took EXCEPT ![w] = queues[q][1]]
      /\ queues' = [queues EXCEPT ![q] = Tail(queues[q])]
      /\ runningQueue' = runningQueue /\ modeOf' = modeOf /\ qtypeOf' = qtypeOf
    BY <1>3, <1>5 DEF Take
<1>7. queues[q][1][1] = r
    BY <1>3, <1>5
<1>8. RunSeesOwnTasks'
    BY <1>6, <1>7 DEF RunSeesOwnTasks, TypeOK
<1>9. NewUntaken'
    BY <1>1, <1>2, <1>6 DEF NewUntaken, TypeOK
<1>10. Untaken(r)' = Untaken(r) \ {w[2]} /\ w[2] \in Untaken(r)
    <2>1. queues[q][1] \in Tasks
        BY <1>4, <1>5, ElementOfSeq
    <2>2. w[2] \in Untaken(r)
        BY <1>1, <1>2 DEF Untaken
    <2>3. \A i \in 1..TasksPerRun : <<r, i>> \in Workers /\ (<<r, i>> = w <=> i = w[2])
        BY <1>1 DEF Workers
    <2>4. \A i \in 1..TasksPerRun :
              took'[<<r, i>>] = IF i = w[2] THEN queues[q][1] ELSE took[<<r, i>>]
        BY <1>6, <2>3 DEF TypeOK
    <2>5. Untaken(r)' = Untaken(r) \ {w[2]}
        BY <2>1, <2>4 DEF Untaken
    <2>6. QED
        BY <2>2, <2>5
<1>11. Cardinality(Untaken(r)') = Cardinality(Untaken(r)) - 1
    <2>1. IsFiniteSet(Untaken(r))
        BY <1>1, UntakenFinite
    <2>2. Cardinality(Untaken(r) \ {w[2]}) =
              IF w[2] \in Untaken(r) THEN Cardinality(Untaken(r)) - 1
                                     ELSE Cardinality(Untaken(r))
        BY <2>1, FS_RemoveElement, Zenon
    <2>3. QED
        BY <1>10, <2>2
<1>12. ActiveQueue'
    <2> SUFFICES ASSUME NEW t \in Runs, phase'[t] = "initialized"
                 PROVE  ActiveAt(t)'
        BY DEF ActiveQueue, ActiveAt
    <2>1. t = r
        BY <1>1, <1>2, OneActive
    <2>2. QueueOf(t)' = q /\ runningQueue' = q
        BY <1>3, <1>6, <2>1 DEF QueueOf
    <2>3. \A o \in QueueObjects : o # q => queues'[o] = <<>>
        BY <1>3, <1>6 DEF TypeOK
    <2>4. queues'[q] = Tail(queues[q])
        BY <1>4, <1>6 DEF TypeOK
    <2>5. \A i \in 1..Len(queues'[q]) : queues'[q][i][1] = r
        BY <1>3, <1>5, <2>4
    <2>6. Len(queues'[q]) = Cardinality(Untaken(r)')
        BY <1>3, <1>5, <1>11, <2>4
    <2>7. QED
        BY <2>1, <2>2, <2>3, <2>5, <2>6 DEF ActiveAt
<1>13. IdleQueues'
    BY <1>1, <1>2 DEF IdleQueues
<1>14. QED
    BY <1>2, <1>8, <1>9, <1>12, <1>13 DEF TypeInv, StartedInOrder, NoFailedInit

\* end_multi_working once every worker of the run has its task: the run's
\* queue is empty, and so is every queue object after it.
LEMMA EndMultiWorkingIInv ==
    ASSUME IInv, TypeInv', NEW r \in Runs, EndMultiWorking(r)
    PROVE  IInv'
<1> USE DEF IInv
<1>1. phase[r] = "initialized" /\ phase' = [phase EXCEPT ![r] = "ended"]
      /\ UNCHANGED <<modeOf, qtypeOf, queues, runningQueue, took>>
    BY DEF EndMultiWorking
<1>2. queues[QueueOf(r)] = <<>>
    BY <1>1, EndedQueueEmpty DEF EndMultiWorking
<1>3. \A o \in QueueObjects : queues[o] = <<>>
    BY <1>1, <1>2 DEF ActiveQueue, ActiveAt
<1>4. \A t \in Runs : phase'[t] # "initialized"
    BY <1>1, OneActive DEF TypeOK
<1>5. IdleQueues' /\ ActiveQueue'
    BY <1>1, <1>3, <1>4 DEF IdleQueues, ActiveQueue, ActiveAt
<1>6. StartedInOrder'
    BY <1>1 DEF StartedInOrder, TypeOK
<1>7. NoFailedInit' /\ NewUntaken' /\ RunSeesOwnTasks'
    BY <1>1 DEF NoFailedInit, NewUntaken, RunSeesOwnTasks, TypeOK
<1>8. QED
    BY <1>5, <1>6, <1>7 DEF TypeInv

\* Running_Queue is a queue object whenever a run is active.
LEMMA IInvTypeInv == IInv => TypeInv
<1> SUFFICES ASSUME IInv, NEW r \in Runs, phase[r] = "initialized"
             PROVE  runningQueue \in QueueObjects
    BY DEF IInv, TypeInv, RegisteredWhenActive
<1>1. runningQueue = QueueOf(r)
    BY DEF IInv, ActiveQueue, ActiveAt
<1>2. QED
    BY <1>1, QueueOfObject DEF IInv, TypeOK

\* Every step of sequential runs with a working persistence strategy
\* keeps IInv.
LEMMA NextIInv ==
    ASSUME ~Overlap, Persistences \subseteq {"custom"}, IInv, [Next]_vars
    PROVE  IInv'
<1>1. TypeInv'
    <2>1. TypeInv
        BY IInvTypeInv
    <2>2. QED
        BY <2>1, NextTypeInv
<1>2. CASE \E r \in Runs : InitMultiWorking(r)
    BY <1>1, <1>2, InitMultiWorkingIInv
<1>3. CASE \E r \in Runs : EndMultiWorking(r)
    BY <1>1, <1>3, EndMultiWorkingIInv
<1>4. CASE \E w \in Workers : Take(w)
    BY <1>1, <1>4, TakeIInv
<1>5. CASE Finished \/ UNCHANGED vars
    <2>1. UNCHANGED vars
        BY <1>5 DEF Finished
    <2>2. /\ modeOf' = modeOf /\ qtypeOf' = qtypeOf /\ phase' = phase
          /\ queues' = queues /\ runningQueue' = runningQueue /\ took' = took
        BY <2>1 DEF vars
    <2>3. StartedInOrder' /\ NoFailedInit' /\ NewUntaken' /\ IdleQueues'
          /\ RunSeesOwnTasks'
        BY <2>2 DEF IInv, StartedInOrder, NoFailedInit, NewUntaken,
                    IdleQueues, RunSeesOwnTasks
    <2>4. \A r \in Runs : QueueOf(r)' = QueueOf(r) /\ Untaken(r)' = Untaken(r)
        BY <2>2 DEF QueueOf, Untaken
    <2>5. ActiveQueue'
        BY <2>2, <2>4 DEF IInv, ActiveQueue, ActiveAt
    <2>6. QED
        BY <1>1, <2>3, <2>5 DEF IInv, TypeInv
<1>6. QED
    BY <1>2, <1>3, <1>4, <1>5 DEF Next

\* Runs set up one after the other in one process, each with a
\* persistence strategy whose initialize succeeds, are isolated: a worker
\* only ever gets a task of its own run, for any number of runs, tasks,
\* modes and queue types.  Both hypotheses are needed: a failed
\* initialize_persistence or an overlapping run breaks it (isolation_shared).
THEOREM SequentialRunsIsolated ==
    ASSUME ~Overlap, Persistences \subseteq {"custom"}
    PROVE  Spec => []RunSeesOwnTasks
<1>1. Init => IInv
    BY InitIInv
<1>2. IInv /\ [Next]_vars => IInv'
    BY NextIInv
<1>3. IInv => RunSeesOwnTasks
    BY DEF IInv
<1>4. QED
    BY <1>1, <1>2, <1>3, PTL DEF Spec

-----------------------------------------------------------------------------
(* Refinement of RunTasks.                                                 *)

\* The active run's queue holds distinct tasks that no worker has got.
FreshAt(r) ==
    phase[r] = "initialized" =>
       /\ \A i, j \in 1..Len(queues[QueueOf(r)]) :
             i # j => queues[QueueOf(r)][i] # queues[QueueOf(r)][j]
       /\ \A i \in 1..Len(queues[QueueOf(r)]) :
             \A v \in Workers : took[v] # queues[QueueOf(r)][i]

FreshQueue == \A r \in Runs : FreshAt(r)

RInv == IInv /\ FreshQueue

LEMMA InitFresh == Init => FreshQueue
BY DEF Init, FreshQueue, FreshAt

\* init_multi_working of the next run puts its own tasks, none of them
\* got by anyone, on a queue object that every earlier run left empty.
LEMMA InitMultiWorkingFresh ==
    ASSUME ~Overlap, Persistences \subseteq {"custom"}, IInv, TypeInv',
           NEW r \in Runs, InitMultiWorking(r)
    PROVE  FreshQueue'
<1> DEFINE q == QueueOf(r)
<1> USE DEF IInv
<1>1. q \in QueueObjects /\ q' = q
    BY QueueOfObject DEF InitMultiWorking, TypeOK, QueueOf
<1>2. phase' = [phase EXCEPT ![r] = "initialized"] /\ phase[r] = "new"
      /\ took' = took
    BY DEF InitMultiWorking, TypeOK
<1>3. \A t \in Runs : phase[t] # "initialized"
    <2>1. \A s \in Runs : s < r => phase[s] = "ended"
        BY DEF InitMultiWorking, MayStart, NoFailedInit, Runs
    <2>2. QED
        BY <1>2, <2>1 DEF StartedInOrder, Runs
<1>4. queues'[q] = TaskList(r)
    <2>1. queues[q] = <<>>
        BY <1>1, <1>3 DEF IdleQueues
    <2>2. queues[q] \o TaskList(r) = TaskList(r)
        BY <2>1, TaskListFacts, ConcatEmptySeq
    <2>3. QED
        BY <1>1, <2>2 DEF InitMultiWorking, QueueOf, TypeOK
<1>5. \A v \in Workers, i \in 1..TasksPerRun : took[v] # <<r, i>>
    <2> SUFFICES ASSUME NEW v \in Workers, NEW i \in 1..TasksPerRun,
                        took[v] = <<r, i>>
                 PROVE  FALSE
        OBVIOUS
    <2>1. took[v] # NoTask
        BY NoTaskAssumption DEF Tasks
    <2>2. v[1] = r
        BY <2>1 DEF RunSeesOwnTasks
    <2>3. QED
        BY <1>2, <2>1, <2>2 DEF NewUntaken
<1>6. SUFFICES ASSUME NEW t \in Runs, phase'[t] = "initialized"
               PROVE  FreshAt(t)'
    BY DEF FreshQueue, FreshAt
<1>7. t = r
    BY <1>2, <1>3, <1>6 DEF TypeOK
<1>8. QueueOf(t)' = q
    BY <1>1, <1>7
<1>9. QED
    BY <1>2, <1>4, <1>5, <1>7, <1>8, TaskListFacts DEF FreshAt

\* get() removes the head of the active run's queue and gives it to the
\* worker: the rest of the queue is still distinct and still not got.
LEMMA TakeFresh ==
    ASSUME IInv, FreshQueue, NEW w \in Workers, Take(w)
    PROVE  FreshQueue'
<1> DEFINE r == w[1]
           q == QueueOf(r)
           Q == queues[q]
<1> USE DEF IInv
<1>1. r \in Runs /\ phase[r] = "initialized" /\ phase' = phase
      /\ UNCHANGED <<modeOf, qtypeOf, runningQueue>>
    BY DEF Take, Workers
<1>2. runningQueue = q /\ q \in QueueObjects
    BY <1>1, QueueOfObject DEF ActiveQueue, ActiveAt, TypeOK
<1>3. Q \in Seq(Tasks) /\ Q # <<>>
    BY <1>2 DEF Take, TypeOK
<1>4. queues'[q] = Tail(Q) /\ took' = [took EXCEPT ![w] = Head(Q)]
    BY <1>2 DEF Take, TypeOK
<1>5. /\ Len(Tail(Q)) = Len(Q) - 1
      /\ \A i \in 1..Len(Tail(Q)) : Tail(Q)[i] = Q[i + 1]
      /\ Head(Q) = Q[1]
      /\ Len(Q) \in Nat \ {0}
    BY <1>3, HeadTailProperties, LenProperties, EmptySeq
<1>6. /\ \A i, j \in 1..Len(Q) : i # j => Q[i] # Q[j]
      /\ \A i \in 1..Len(Q) : \A v \in Workers : took[v] # Q[i]
    BY <1>1 DEF FreshQueue, FreshAt
<1>7. SUFFICES ASSUME NEW t \in Runs, phase'[t] = "initialized"
               PROVE  FreshAt(t)'
    BY DEF FreshQueue, FreshAt
<1>8. t = r /\ QueueOf(t)' = q
    <2>1. phase[t] = "initialized"
        BY <1>1, <1>7
    <2>2. t = r
        BY <1>1, <2>1, OneActive
    <2>3. QED
        BY <1>1, <2>2 DEF QueueOf
<1>9. \A i, j \in 1..Len(Tail(Q)) : i # j => Tail(Q)[i] # Tail(Q)[j]
    BY <1>5, <1>6
<1>10. \A i \in 1..Len(Tail(Q)) : \A v \in Workers : took'[v] # Tail(Q)[i]
    BY <1>4, <1>5, <1>6 DEF TypeOK
<1>11. queues'[QueueOf(t)'] = Tail(Q)
    BY <1>4, <1>8
<1>12. QED
    BY <1>9, <1>10, <1>11, Zenon DEF FreshAt

\* After end_multi_working no run is active.
LEMMA EndMultiWorkingFresh ==
    ASSUME IInv, NEW r \in Runs, EndMultiWorking(r)
    PROVE  FreshQueue'
<1>1. phase[r] = "initialized" /\ phase' = [phase EXCEPT ![r] = "ended"]
    BY DEF EndMultiWorking
<1>2. \A t \in Runs : phase'[t] # "initialized"
    BY <1>1, OneActive DEF IInv, TypeOK
<1>3. QED
    BY <1>2 DEF FreshQueue, FreshAt

\* Every step of sequential runs with a working persistence strategy
\* keeps RInv.
LEMMA NextRInv ==
    ASSUME ~Overlap, Persistences \subseteq {"custom"}, RInv, [Next]_vars
    PROVE  RInv'
<1>1. IInv'
    BY NextIInv DEF RInv
<1>2. TypeInv'
    BY IInvTypeInv, NextTypeInv DEF RInv
<1>3. CASE \E r \in Runs : InitMultiWorking(r)
    <2>1. PICK r \in Runs : InitMultiWorking(r)
        BY <1>3
    <2>2. QED
        BY <1>1, <1>2, <2>1, InitMultiWorkingFresh DEF RInv
<1>4. CASE \E r \in Runs : EndMultiWorking(r)
    <2>1. PICK r \in Runs : EndMultiWorking(r)
        BY <1>4
    <2>2. QED
        BY <1>1, <2>1, EndMultiWorkingFresh DEF RInv
<1>5. CASE \E w \in Workers : Take(w)
    <2>1. PICK w \in Workers : Take(w)
        BY <1>5
    <2>2. QED
        BY <1>1, <2>1, TakeFresh DEF RInv
<1>6. CASE Finished \/ UNCHANGED vars
    <2>1. UNCHANGED vars
        BY <1>6 DEF Finished
    <2>2. \A r \in Runs : QueueOf(r)' = QueueOf(r)
        BY <2>1 DEF vars, QueueOf
    <2>3. FreshQueue'
        BY <2>1, <2>2 DEF vars, RInv, FreshQueue, FreshAt
    <2>4. QED
        BY <1>1, <2>3 DEF RInv
<1>7. QED
    BY <1>1, <1>3, <1>4, <1>5, <1>6 DEF Next, RInv

LEMMA InitRefines ==
    ASSUME Init PROVE RT!Init
BY DEF Init, RT!Init, RT!Workers, Workers, RT!Runs, Runs

\* Each step of the model is a step of RunTasks or leaves the runs' phases
\* and the workers' tasks alone.
LEMMA StepRefines ==
    ASSUME ~Overlap, Persistences \subseteq {"custom"}, RInv, [Next]_vars
    PROVE  [RT!Next]_RT!avars
<1> USE DEF RInv, IInv
<1>1. CASE \E r \in Runs : InitMultiWorking(r)
    <2>1. PICK r \in Runs : InitMultiWorking(r)
        BY <1>1
    <2>2. phase[r] = "new" /\ \A s \in 1..(r - 1) : phase[s] = "ended"
        BY <2>1 DEF InitMultiWorking, MayStart, NoFailedInit, TypeOK, Runs
    <2>3. phase' = [phase EXCEPT ![r] = "initialized"] /\ took' = took
        BY <2>1 DEF InitMultiWorking, TypeOK
    <2>4. RT!Start(r)
        BY <2>2, <2>3 DEF RT!Start
    <2>5. QED
        BY <2>4 DEF RT!Next, Runs, RT!Runs
<1>2. CASE \E r \in Runs : EndMultiWorking(r)
    <2>1. PICK r \in Runs : EndMultiWorking(r)
        BY <1>2
    <2>2. RT!End(r)
        BY <2>1 DEF EndMultiWorking, RT!End
    <2>3. QED
        BY <2>2 DEF RT!Next, Runs, RT!Runs
<1>3. CASE \E w \in Workers : Take(w)
    <2>1. PICK w \in Workers : Take(w)
        BY <1>3
    <2> DEFINE r == w[1]
               Q == queues[QueueOf(r)]
    <2>2. r \in Runs /\ phase[r] = "initialized" /\ took[w] = NoTask
          /\ phase' = phase
        BY <2>1 DEF Take, Workers
    <2>3. runningQueue = QueueOf(r) /\ Q # <<>>
        BY <2>1, <2>2 DEF Take, ActiveQueue, ActiveAt
    <2>4. took' = [took EXCEPT ![w] = Q[1]]
        BY <2>1, <2>3 DEF Take
    <2>5. Q \in Seq(Tasks) /\ 1 \in 1..Len(Q)
        BY <2>2, <2>3, QueueOfObject, EmptySeq, LenProperties DEF TypeOK
    <2>6. Q[1] = <<r, Q[1][2]>> /\ Q[1][2] \in 1..TasksPerRun
        BY <2>2, <2>5 DEF ActiveQueue, ActiveAt, Tasks
    <2>7. ~RT!Handed(<<r, Q[1][2]>>)
        <3>1. \A v \in Workers : took[v] # Q[1]
            BY <2>2, <2>5 DEF FreshQueue, FreshAt
        <3>2. QED
            BY <2>6, <3>1 DEF RT!Handed, RT!Workers, RT!Runs, Workers, Runs
    <2>8. RT!Take(w)
        BY <2>2, <2>4, <2>6, <2>7 DEF RT!Take
    <2>9. w \in RT!Workers
        BY DEF Workers, RT!Workers, Runs, RT!Runs
    <2>10. QED
        BY <2>8, <2>9 DEF RT!Next
<1>4. CASE Finished \/ UNCHANGED vars
    BY <1>4 DEF Finished, vars, RT!avars
<1>5. QED
    BY <1>1, <1>2, <1>3, <1>4 DEF Next

\* Runs set up one after the other in one process, each with a
\* persistence strategy whose initialize succeeds, implement RunTasks: a
\* run starts after the earlier ones ended, each worker gets one task of
\* its own run that no other worker got, and end_multi_working returns
\* only once every worker has its task; for any number of runs, tasks,
\* modes and queue types.
THEOREM SequentialRunsRefine ==
    ASSUME ~Overlap, Persistences \subseteq {"custom"}
    PROVE  Spec => ImplementsRunTasks
<1>1. Init => RInv
    BY InitIInv, InitFresh DEF RInv
<1>2. RInv /\ [Next]_vars => RInv'
    BY NextRInv
<1>3. RInv /\ [Next]_vars => [RT!Next]_RT!avars
    BY StepRefines
<1>4. Init => RT!Init
    BY InitRefines
<1>5. QED
    BY <1>1, <1>2, <1>3, <1>4, PTL DEF Spec, ImplementsRunTasks, RT!Spec

=============================================================================

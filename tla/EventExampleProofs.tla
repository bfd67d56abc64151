-------------------------- MODULE EventExampleProofs --------------------------
(***************************************************************************)
(* Proofs about EventExample.                                              *)
(*                                                                         *)
(* TypeOK holds with NoStrandedWaiter, for every mode and every sleep     *)
(* length: set() wakes a blocked waiter in the same step (the Event's     *)
(* contract), and wait() only blocks on a lowered flag.                   *)
(*                                                                         *)
(* NoCoalescedSet depends on the sleeps of the example: SleepProcess      *)
(* sleeps one second, WakeupProcess at least one.  The argument is that   *)
(* a raised flag is always lowered before WakeupProcess's sleep ends:     *)
(* while the flag is up, a sleeping SleepProcess wakes strictly before    *)
(* WakeupProcess (ct < pt), a woken or returning one runs before the      *)
(* clock moves, and a sleep of SleepProcess never outlasts the one of     *)
(* WakeupProcess that runs beside it (ct <= pt).                           *)
(***************************************************************************)
EXTENDS EventExample, TLAPS

\* SleepProcess is only blocked in wait() while the flag is down.
NoStrandedWaiter == cpc = "waiting" => ~flag

\* A woken or returned SleepProcess has not cleared the flag yet.
AwakeSeesFlag == cpc \in {"woken", "cleared"} => flag

\* The flag is only up while WakeupProcess is asleep.
FlagWhileProducerSleeps == flag => pt > 0

\* SleepProcess's sleep ends no later than WakeupProcess's.
ConsumerSleepShorter == cpc = "sleeping" => ct <= pt

\* ... and strictly earlier while the flag is up.
FlagClearedFirst == flag /\ cpc = "sleeping" => ct < pt

IInv ==
    /\ TypeOK
    /\ NoStrandedWaiter
    /\ AwakeSeesFlag
    /\ FlagWhileProducerSleeps
    /\ ConsumerSleepShorter
    /\ FlagClearedFirst

USE ModesAssumption, MaxSleepAssumption, ConsumerSleepAssumption

-----------------------------------------------------------------------------

\* The initial states: a fresh Event and both loops asleep.
LEMMA InitTypeAndWaiter == Init => TypeOK /\ NoStrandedWaiter
<1> SUFFICES ASSUME Init PROVE TypeOK /\ NoStrandedWaiter
    OBVIOUS
<1>1. ct \in 0..ConsumerSleep /\ pt \in 0..MaxSleep
    BY DEF Init
<1>2. QED
    BY <1>1 DEF Init, TypeOK, NoStrandedWaiter, ConsumerStates

\* Every step keeps the type and keeps a blocked waiter away from a raised
\* flag, for any sleep lengths.
LEMMA NextTypeAndWaiter ==
    TypeOK /\ NoStrandedWaiter /\ [Next]_vars => TypeOK' /\ NoStrandedWaiter'
<1> SUFFICES ASSUME TypeOK, NoStrandedWaiter, [Next]_vars
             PROVE  TypeOK' /\ NoStrandedWaiter'
    OBVIOUS
<1> USE DEF TypeOK, NoStrandedWaiter, ConsumerStates
<1>0. ConsumerSleep \in 0..ConsumerSleep
    OBVIOUS
<1>1. CASE WakeOtherProcess
    BY <1>1 DEF WakeOtherProcess
<1>2. CASE GoSleepWait
    BY <1>2, <1>0 DEF GoSleepWait
<1>3. CASE GoSleepResume
    BY <1>3, <1>0 DEF GoSleepResume
<1>4. CASE GoSleepClear
    BY <1>4, <1>0 DEF GoSleepClear
<1>5. CASE Tick
    BY <1>5 DEF Tick
<1>6. CASE UNCHANGED vars
    BY <1>6 DEF vars
<1>7. QED
    BY <1>1, <1>2, <1>3, <1>4, <1>5, <1>6 DEF Next, Consumer

\* Both loops' sleeps stay within their bounds and SleepProcess is always
\* at one of its positions, under every executor and any sleep lengths.
THEOREM TypeCorrect == Spec => []TypeOK
<1>1. TypeOK /\ NoStrandedWaiter => TypeOK
    OBVIOUS
<1>2. QED
    BY InitTypeAndWaiter, NextTypeAndWaiter, <1>1, PTL DEF Spec

-----------------------------------------------------------------------------
(* The example's sleeps: SleepProcess sleeps one second (sleep(1)).        *)

LEMMA InitIInv ==
    ASSUME ConsumerSleep = 1, Init
    PROVE  IInv
<1>1. TypeOK /\ NoStrandedWaiter
    BY InitTypeAndWaiter
<1>2. AwakeSeesFlag /\ FlagWhileProducerSleeps /\ FlagClearedFirst
    BY DEF Init, AwakeSeesFlag, FlagWhileProducerSleeps, FlagClearedFirst
<1>3. ConsumerSleepShorter
    BY DEF Init, ConsumerSleepShorter
<1>4. QED
    BY <1>1, <1>2, <1>3 DEF IInv

\* With SleepProcess's one-second sleep, every step keeps IInv.
LEMMA NextIInv ==
    ASSUME ConsumerSleep = 1, IInv, [Next]_vars
    PROVE  IInv'
<1>1. TypeOK' /\ NoStrandedWaiter'
    BY NextTypeAndWaiter DEF IInv
<1> USE DEF IInv, TypeOK, NoStrandedWaiter, AwakeSeesFlag,
            FlagWhileProducerSleeps, ConsumerSleepShorter, FlagClearedFirst,
            ConsumerStates
\* set() needs WakeupProcess's sleep to have ended, so the flag was down
\* and a sleeping SleepProcess has no time left.
<1>2. CASE WakeOtherProcess
    BY <1>1, <1>2 DEF WakeOtherProcess
\* Every step of SleepProcess that ends in a sleep lowers the flag first.
<1>3. CASE GoSleepWait
    BY <1>1, <1>3 DEF GoSleepWait
<1>4. CASE GoSleepResume
    <2>1. flag /\ pt \in 1..MaxSleep
        BY <1>4 DEF GoSleepResume
    <2>2. CASE Preemptive
        BY <1>1, <1>4, <2>1, <2>2 DEF GoSleepResume
    <2>3. CASE ~Preemptive
        BY <1>1, <1>4, <2>1, <2>3 DEF GoSleepResume
    <2>4. QED
        BY <2>2, <2>3
<1>5. CASE GoSleepClear
    BY <1>1, <1>5 DEF GoSleepClear
\* The clock only moves while both loops are asleep or SleepProcess is
\* blocked, and it runs both sleeps down together.
<1>6. CASE Tick
    BY <1>1, <1>6 DEF Tick
<1>7. CASE UNCHANGED vars
    BY <1>1, <1>7 DEF vars
<1>8. QED
    BY <1>2, <1>3, <1>4, <1>5, <1>6, <1>7 DEF Next, Consumer

\* Every set() of WakeupProcess finds the event cleared, so SleepProcess
\* sees each wake-up on its own, under every executor and for any longest
\* sleep of WakeupProcess, given the one-second sleep of SleepProcess.
THEOREM SetsNeverCoalesce ==
    ASSUME ConsumerSleep = 1
    PROVE  Spec => NoCoalescedSet
<1>1. Init => IInv
    BY InitIInv
<1>2. IInv /\ [Next]_vars => IInv'
    BY NextIInv
<1>3. IInv /\ [Next]_vars => [WakeOtherProcess => ~flag]_vars
    BY DEF IInv, FlagWhileProducerSleeps, WakeOtherProcess
<1>4. QED
    BY <1>1, <1>2, <1>3, PTL DEF Spec, NoCoalescedSet

=============================================================================

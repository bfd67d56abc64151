----------------------------- MODULE EventExample -----------------------------
(***************************************************************************)
(* The event client of src/example/simple/executor_client_with_event.py.   *)
(*                                                                         *)
(* ExampleOceanSystem.main_run runs two functions with one Event as the   *)
(* feature: WakeupProcess keeps sleeping a few seconds and calling         *)
(* set(); SleepProcess keeps sleeping one second, waiting on the event and *)
(* clearing it.  The run that main_run makes is the Asynchronous one      *)
(* (cooperative: a coroutine is only suspended at an await); the gevent    *)
(* version is cooperative too, and the commented-out Parallel and         *)
(* Concurrent executors run the same loops preemptively.                  *)
(*                                                                         *)
(* The Event follows the asyncio / threading contract: set() raises the   *)
(* flag and makes every blocked waiter runnable; wait() returns at once   *)
(* when the flag is up and otherwise blocks until a set(); clear() lowers *)
(* the flag.  A woken waiter does not look at the flag again.             *)
(*                                                                         *)
(* Time is discrete: a step that is not a sleep takes no time, and the    *)
(* clock only advances when both loops are asleep or blocked.             *)
(***************************************************************************)
EXTENDS Naturals

CONSTANTS
    Modes,        \* the SimpleExecutor modes main_run may be built with
    MaxSleep,     \* WakeupProcess sleeps randrange(1, MaxSleep + 1) seconds
    ConsumerSleep \* SleepProcess sleeps this many seconds

ASSUME ModesAssumption ==
    Modes \subseteq {"Parallel", "Concurrent", "GreenThread", "Asynchronous"}
ASSUME MaxSleepAssumption == MaxSleep \in Nat \ {0}
ASSUME ConsumerSleepAssumption == ConsumerSleep \in Nat \ {0}

VARIABLES
    mode,   \* the executor's RunningMode
    flag,   \* the Event's internal flag
    cpc,    \* where SleepProcess's loop is
    ct,     \* seconds left of SleepProcess's sleep
    pt      \* seconds left of WakeupProcess's sleep

vars == <<mode, flag, cpc, ct, pt>>

\* Processes and threads are preempted anywhere; greenlets and coroutines
\* only at a sleep or a wait.
Preemptive == mode \in {"Parallel", "Concurrent"}

ConsumerStates ==
    {"sleeping",   \* in sleep(1)
     "waiting",    \* blocked in wait()
     "woken",      \* wait() can return: a set() released it
     "cleared"}    \* preemptive only: wait() has returned, clear() is next

TypeOK ==
    /\ mode \in Modes
    /\ flag \in BOOLEAN
    /\ cpc \in ConsumerStates
    /\ ct \in 0..ConsumerSleep
    /\ pt \in 0..MaxSleep

\* main_run: a fresh Event (flag down); both loops start with a sleep,
\* WakeupProcess's of a random length.
Init ==
    /\ mode \in Modes
    /\ flag = FALSE
    /\ cpc = "sleeping"
    /\ ct = ConsumerSleep
    /\ pt \in 1..MaxSleep

\* WakeupProcess's loop body: the sleep of random length ends and
\* self.__event_opt.set() runs; the loop goes back to sleep for a new
\* random length.
WakeOtherProcess ==
    /\ pt = 0
    /\ flag' = TRUE
    /\ cpc' = IF cpc = "waiting" THEN "woken" ELSE cpc
    /\ \E s \in 1..MaxSleep : pt' = s
    /\ UNCHANGED <<mode, ct>>

\* Mutant of GoSleepWait: a wait() that returns at once skips the clear().
GoSleepWaitNoClear ==
    /\ cpc = "sleeping"
    /\ ct = 0
    /\ IF flag
          THEN cpc' = "sleeping" /\ ct' = ConsumerSleep /\ UNCHANGED flag
          ELSE cpc' = "waiting" /\ UNCHANGED <<flag, ct>>
    /\ UNCHANGED <<mode, pt>>

\* SleepProcess: sleep(1) ends and wait() is called.  With the flag up
\* it returns without suspending; cooperatively, clear() and the next
\* sleep(1) follow before any other coroutine runs.
GoSleepWait ==
    /\ cpc = "sleeping"
    /\ ct = 0
    /\ IF flag
          THEN IF Preemptive
                  THEN cpc' = "cleared" /\ UNCHANGED <<flag, ct>>
                  ELSE flag' = FALSE /\ cpc' = "sleeping" /\ ct' = ConsumerSleep
          ELSE cpc' = "waiting" /\ UNCHANGED <<flag, ct>>
    /\ UNCHANGED <<mode, pt>>

\* SleepProcess resumes after the set() that woke it.  Cooperatively it
\* prints, clears and sleeps again in one go; preemptively the clear is a
\* step of its own.
GoSleepResume ==
    /\ cpc = "woken"
    /\ IF Preemptive
          THEN cpc' = "cleared" /\ UNCHANGED <<flag, ct>>
          ELSE flag' = FALSE /\ cpc' = "sleeping" /\ ct' = ConsumerSleep
    /\ UNCHANGED <<mode, pt>>

\* Preemptive only: self.__event_opt.clear(), then back to sleep(1).
GoSleepClear ==
    /\ cpc = "cleared"
    /\ flag' = FALSE
    /\ cpc' = "sleeping"
    /\ ct' = ConsumerSleep
    /\ UNCHANGED <<mode, pt>>

Consumer == GoSleepWait \/ GoSleepResume \/ GoSleepClear

\* A second passes: nothing can run, so both loops are in a sleep or
\* SleepProcess is blocked in wait().
\* Mutant of Tick: the clock also runs down a sleep that is not running.
TickAll ==
    /\ pt > 0
    /\ cpc \in {"sleeping", "waiting"}
    /\ cpc = "sleeping" => ct > 0
    /\ pt' = pt - 1
    /\ ct' = ct - 1
    /\ UNCHANGED <<mode, flag, cpc>>

Tick ==
    /\ pt > 0
    /\ cpc \in {"sleeping", "waiting"}
    /\ cpc = "sleeping" => ct > 0
    /\ pt' = pt - 1
    /\ ct' = IF cpc = "sleeping" THEN ct - 1 ELSE ct
    /\ UNCHANGED <<mode, flag, cpc>>

Next == WakeOtherProcess \/ Consumer \/ Tick

Spec == Init /\ [][Next]_vars

-----------------------------------------------------------------------------
(* Properties                                                               *)

\* Every set() is seen: since SleepProcess sleeps no longer than the
\* shortest sleep of WakeupProcess and clears the event as soon as it gets
\* past wait(), set() never finds the flag still up from the set before,
\* so no wake-up is merged into an earlier one and SleepProcess detects
\* each message WakeupProcess produces (the example's own printout).
NoCoalescedSet == [][WakeOtherProcess => ~flag]_vars

=============================================================================

--------------------------- MODULE RunningChecker ---------------------------
(***************************************************************************)
(* common/thread_running_checker.cc: the flag and the condition variable   *)
(* that the heartbeat receiver, the heartbeat reporter and the bad node    *)
(* detector use to end and to wake their loops.                            *)
(*                                                                         *)
(* The looping thread runs "while (checker) { work; Sleep(timeout); }", or *)
(* calls Wait instead of Sleep.  Set and WakeUp write an atomic and notify *)
(* without the mutex, so they may fall between the waiter's test of the    *)
(* predicate, which it makes with the mutex held, and its going to sleep.  *)
(***************************************************************************)
EXTENDS Naturals

CONSTANTS
  Callers,   \* threads that call WakeUp, Stop and Start
  Timed,     \* TRUE: the loop calls Sleep; FALSE: it calls Wait
  MaxCalls   \* bound on the calls

CheckerAssumption == Timed \in BOOLEAN /\ MaxCalls \in Nat

VARIABLES
  running_, wake_up_flag_,
  loop,     \* where the looping thread is
  caller,   \* caller -> "idle" or "notify"
  calls     \* calls made so far

vars == <<running_, wake_up_flag_, loop, caller, calls>>

-----------------------------------------------------------------------------
\* The loop's condition, and the first test of Sleep and Wait.
LoopTest ==
  /\ loop = "test"
  /\ loop' = IF running_ THEN "work" ELSE "done"
  /\ UNCHANGED <<running_, wake_up_flag_, caller, calls>>

Enter ==
  /\ loop = "work"
  /\ loop' = IF running_ THEN "clear" ELSE "test"
  /\ UNCHANGED <<running_, wake_up_flag_, caller, calls>>

\* wake_up_flag_ = false; the mutex is taken (nobody else ever holds it).
ClearFlag ==
  /\ loop = "clear"
  /\ wake_up_flag_' = FALSE
  /\ loop' = "predicate"
  /\ UNCHANGED <<running_, caller, calls>>

\* The predicate of both waits.
MayLeave == ~running_ \/ wake_up_flag_

Predicate ==
  /\ loop = "predicate"
  /\ loop' = IF MayLeave THEN "test" ELSE "block"
  /\ UNCHANGED <<running_, wake_up_flag_, caller, calls>>

\* The condition variable puts the thread to sleep.
Block ==
  /\ loop = "block"
  /\ loop' = "asleep"
  /\ UNCHANGED <<running_, wake_up_flag_, caller, calls>>

\* Slip: wait is called instead of wait_for.
TimeoutNever ==
  /\ loop = "asleep" /\ ~Timed
  /\ UNCHANGED vars

\* wait_for returns when its time is over.
Timeout ==
  /\ loop = "asleep" /\ Timed
  /\ loop' = "test"
  /\ UNCHANGED <<running_, wake_up_flag_, caller, calls>>

-----------------------------------------------------------------------------
\* Start, Stop: Set(value), which then notifies.
Set(c, value) ==
  /\ caller[c] = "idle" /\ calls < MaxCalls
  /\ running_' = value
  /\ caller' = [caller EXCEPT ![c] = "notify"]
  /\ calls' = calls + 1
  /\ UNCHANGED <<wake_up_flag_, loop>>

WakeUp(c) ==
  /\ caller[c] = "idle" /\ calls < MaxCalls
  /\ wake_up_flag_' = TRUE
  /\ caller' = [caller EXCEPT ![c] = "notify"]
  /\ calls' = calls + 1
  /\ UNCHANGED <<running_, loop>>

\* notify_all: a thread that is asleep tests the predicate again.
NotifyAll(c) ==
  /\ caller[c] = "notify"
  /\ caller' = [caller EXCEPT ![c] = "idle"]
  /\ loop' = IF loop = "asleep" THEN "predicate" ELSE loop
  /\ UNCHANGED <<running_, wake_up_flag_, calls>>

-----------------------------------------------------------------------------
Init ==
  /\ running_ = TRUE
  /\ wake_up_flag_ = FALSE
  /\ loop = "test"
  /\ caller = [c \in Callers |-> "idle"]
  /\ calls = 0

LoopStep == LoopTest \/ Enter \/ ClearFlag \/ Predicate \/ Block \/ Timeout

Next ==
  \/ LoopStep
  \/ \E c \in Callers : Set(c, TRUE) \/ Set(c, FALSE) \/ WakeUp(c) \/ NotifyAll(c)

\* The looping thread is scheduled, its work ends and time passes; a caller
\* that has set a flag goes on to notify.
Fairness == WF_vars(LoopStep) /\ \A c \in Callers : WF_vars(NotifyAll(c))

Spec == Init /\ [][Next]_vars /\ Fairness

-----------------------------------------------------------------------------
\* "Set status to stop and wake up", "Block until WakeUp() or Stop() is
\* called": a loop that has been stopped for good comes to its end.
StopEndsLoop == <>[](~running_) => <>(loop = "done")
=============================================================================

----------------------------- MODULE MCReporter -----------------------------
(***************************************************************************)
(* The heartbeat reporter (application threads that share a path, a few    *)
(* failing requests, at most one lost session) and, beside it, the running *)
(* checker that its thread sleeps on, which the reporter's module takes    *)
(* for a flag: one looping thread and two callers.  "checker_part" says    *)
(* whose behaviour this is, the other one rests in its initial state.      *)
(***************************************************************************)
EXTENDS HeartbeatReporter

CONSTANTS Callers, Timed, CheckerCalls

VARIABLES running_, wake_up_flag_, loop, caller, calls, checker_part

Checker == INSTANCE RunningChecker WITH MaxCalls <- CheckerCalls

ASSUME CheckerCallsAssumption == Checker!CheckerAssumption

checkerState == <<running_, wake_up_flag_, loop, caller, calls>>

BothInit == Init /\ Checker!Init /\ checker_part \in {"reporter", "checker"}

BothNext ==
  /\ UNCHANGED checker_part
  /\ \/ checker_part = "reporter" /\ Next /\ UNCHANGED checkerState
     \/ checker_part = "checker" /\ Checker!Next /\ UNCHANGED vars

\* The fairness of both modules, each for its own part.
BothFairness ==
  /\ WF_vars(checker_part = "reporter" /\ HeartbeatThread)
  /\ WF_vars(checker_part = "reporter" /\ Callbacks)
  /\ WF_vars(checker_part = "reporter" /\ OldSessionEnds)
  /\ \A a \in Apps : WF_vars(checker_part = "reporter" /\ RemoveInserted(a))
  /\ WF_checkerState(checker_part = "checker" /\ Checker!LoopStep)
  /\ \A c \in Callers : WF_checkerState(checker_part = "checker" /\ Checker!NotifyAll(c))

BothSpec == BothInit /\ [][BothNext]_<<vars, checkerState, checker_part>> /\ BothFairness

-----------------------------------------------------------------------------
\* ThreadRunningChecker: a loop that has been stopped for good ends.
StopEndsLoop == Checker!StopEndsLoop
=============================================================================

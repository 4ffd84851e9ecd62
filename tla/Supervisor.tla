----------------------------- MODULE Supervisor -----------------------------
(***************************************************************************)
(* orc/framework/application.cc: the process that starts the configured    *)
(* servers, restarts the ones that crash unless they crash too often, and  *)
(* passes a stop request on to them.                                       *)
(*                                                                         *)
(* A server is a child process.  Until it has installed its own handler    *)
(* and stored its name ("booting") a SIGUSR1 sent to it has no effect on   *)
(* it; afterwards ("running") it makes the server stop.  The handler of    *)
(* the supervisor may run between any two of its steps.  Pids are left     *)
(* out: server_metas_ is the set of servers that have an entry.            *)
(***************************************************************************)
EXTENDS Naturals, Sequences, FiniteSets

CONSTANTS
  Servers,     \* the servers of the configuration
  Intensity,   \* svr.restart.max.intensity
  Period,      \* svr.restart.max.period
  MaxTime,     \* bound on the clock
  MaxDeaths    \* bound on the crashes of one server

ASSUME SupervisorAssumption ==
  /\ Intensity \in Nat /\ Period \in Nat /\ MaxTime \in Nat /\ MaxDeaths \in Nat

VARIABLES
  server_metas_,
  dead_times,   \* server -> the queue of its deaths
  proc,         \* server -> the state of its process
  main,         \* the supervisor: its place, and the server it handles
  g_is_stop,
  now,
  deaths,       \* server -> all the deaths that were counted
  clean         \* the stop request met no server that was being started

vars == <<server_metas_, dead_times, proc, main, g_is_stop, now, deaths, clean>>

At(pc, s) == [pc |-> pc, server |-> s]
Nobody == "nobody"

\* What wait may report: an exit, SIGKILL, or another signal.
Statuses == {"exited", "killed", "crashed"}

-----------------------------------------------------------------------------
\* StartServers: fork one server after the other.
StartServers(s) ==
  /\ main.pc = "start" /\ proc[s] = "none"
  /\ proc' = [proc EXCEPT ![s] = "booting"]
  /\ server_metas_' = server_metas_ \cup {s}
  /\ main' = IF \A r \in Servers \ {s} : proc[r] # "none" THEN At("wait", Nobody) ELSE main
  /\ UNCHANGED <<dead_times, g_is_stop, now, deaths, clean>>

\* fork fails: Start returns, the servers started so far are left behind.
StartFails ==
  /\ main.pc = "start"
  /\ main' = At("failed", Nobody)
  /\ UNCHANGED <<server_metas_, dead_times, proc, g_is_stop, now, deaths, clean>>

\* point <= now - period.
Stale(point, time) == point + Period <= time

\* Slip: old deaths are never dropped.
RecordedKeepsAll(times, time) == Append(times, time)

\* The queue of dead times after NeedRestart: the new death enters it, and at
\* most one old death leaves, because the loop always breaks.
Recorded(times, time) ==
  LET all == Append(times, time)
  IN  IF Stale(Head(all), time) THEN Tail(all) ELSE all

\* Slip: the stop request is not looked at.
CountsAlways(status) == status = "crashed"

\* NeedRestart before it looks at the dead times.
Counts(status) == ~g_is_stop /\ status = "crashed"

\* The result of NeedRestart: the server has not died too often.
Within(times) == Len(times) <= Intensity

\* SuperviseServers: wait reports the end of s, and NeedRestart decides.
Reap(s, status) ==
  /\ main.pc = "wait" /\ proc[s] = status
  /\ LET times == Recorded(dead_times[s], now)
     IN  IF Counts(status)
           THEN /\ dead_times' = [dead_times EXCEPT ![s] = times]
                /\ deaths' = [deaths EXCEPT ![s] = Append(@, now)]
                /\ server_metas_' = server_metas_ \ {s}
                /\ main' = IF Within(times) THEN At("restart", s) ELSE main
           ELSE /\ server_metas_' = server_metas_ \ {s}
                /\ UNCHANGED <<dead_times, deaths, main>>
  /\ proc' = [proc EXCEPT ![s] = "none"]
  /\ UNCHANGED <<g_is_stop, now, clean>>

\* Slip: the new process gets no entry.
RestartForgets(s) ==
  /\ main = At("restart", s)
  /\ proc' = [proc EXCEPT ![s] = "booting"]
  /\ main' = At("wait", Nobody)
  /\ UNCHANGED <<server_metas_, dead_times, g_is_stop, now, deaths, clean>>

\* The restart that follows, and a fork that fails.
Restart(s) ==
  /\ main = At("restart", s)
  /\ proc' = [proc EXCEPT ![s] = "booting"]
  /\ server_metas_' = server_metas_ \cup {s}
  /\ main' = At("wait", Nobody)
  /\ UNCHANGED <<dead_times, g_is_stop, now, deaths, clean>>

RestartFails(s) ==
  /\ main = At("restart", s)
  /\ main' = At("wait", Nobody)
  /\ UNCHANGED <<server_metas_, dead_times, proc, g_is_stop, now, deaths, clean>>

\* No server has an entry any more: Start returns and removes the pid file.
AllGone ==
  /\ main.pc = "wait" /\ server_metas_ = {}
  /\ main' = At("done", Nobody)
  /\ UNCHANGED <<server_metas_, dead_times, proc, g_is_stop, now, deaths, clean>>

-----------------------------------------------------------------------------
\* The stop command sends SIGUSR1, and AppSignalHandler passes it on to the
\* process group.  The signal it gets back from itself only clears from_self,
\* so that a second stop command is passed on as well.
AppSignalHandler ==
  /\ main.pc \in {"start", "wait", "restart"}
  /\ g_is_stop' = TRUE
  /\ proc' = [s \in Servers |-> IF proc[s] = "running" THEN "stopping" ELSE proc[s]]
  /\ clean' = (clean \/ (main.pc = "wait" /\ \A s \in Servers : proc[s] # "booting"))
  /\ UNCHANGED <<server_metas_, dead_times, main, now, deaths>>

\* A child installs its handler and runs its server.
Boot(s) ==
  /\ proc[s] = "booting"
  /\ proc' = [proc EXCEPT ![s] = "running"]
  /\ UNCHANGED <<server_metas_, dead_times, main, g_is_stop, now, deaths, clean>>

\* A server that was told to stop ends.
Stops(s) ==
  /\ proc[s] = "stopping"
  /\ proc' = [proc EXCEPT ![s] = "exited"]
  /\ UNCHANGED <<server_metas_, dead_times, main, g_is_stop, now, deaths, clean>>

\* A server ends in whatever way, at any time.
Dies(s, status) ==
  /\ proc[s] \in {"booting", "running", "stopping"}
  /\ status = "crashed" => Len(deaths[s]) < MaxDeaths
  /\ proc' = [proc EXCEPT ![s] = status]
  /\ UNCHANGED <<server_metas_, dead_times, main, g_is_stop, now, deaths, clean>>

Tick ==
  /\ now < MaxTime
  /\ now' = now + 1
  /\ UNCHANGED <<server_metas_, dead_times, proc, main, g_is_stop, deaths, clean>>

-----------------------------------------------------------------------------
Init ==
  /\ server_metas_ = {}
  /\ dead_times = [s \in Servers |-> <<>>]
  /\ proc = [s \in Servers |-> "none"]
  /\ main = At("start", Nobody)
  /\ g_is_stop = FALSE
  /\ now = 0
  /\ deaths = [s \in Servers |-> <<>>]
  /\ clean = FALSE

Supervise ==
  \/ \E s \in Servers : StartServers(s)
  \/ \E s \in Servers, status \in Statuses : Reap(s, status)
  \/ \E s \in Servers : Restart(s) \/ RestartFails(s)
  \/ AllGone

Child(s) == Boot(s) \/ Stops(s) \/ \E status \in Statuses : Dies(s, status)

Next ==
  \/ Supervise \/ StartFails
  \/ AppSignalHandler
  \/ \E s \in Servers : Child(s)
  \/ Tick

\* The supervisor is scheduled, and a server that was told to stop ends.
Fairness == WF_vars(Supervise) /\ \A s \in Servers : WF_vars(Stops(s))

Spec == Init /\ [][Next]_vars /\ Fairness

-----------------------------------------------------------------------------
\* Every variable has its type; in particular no queue of deaths grows past the
\* one that makes NeedRestart give up.
TypeOK ==
  /\ server_metas_ \subseteq Servers
  /\ dead_times \in [Servers -> Seq(0..MaxTime)]
  /\ \A s \in Servers : Len(dead_times[s]) <= Intensity + 1
  /\ proc \in [Servers -> {"none", "booting", "running", "stopping"} \cup Statuses]
  /\ main \in [pc : {"start", "wait", "restart", "done", "failed"},
               server : Servers \cup {Nobody}]
  /\ g_is_stop \in BOOLEAN /\ clean \in BOOLEAN
  /\ now \in 0..MaxTime
  /\ deaths \in [Servers -> Seq(0..MaxTime)]

\* The counted deaths of s less than a period before its last one.
Window(s) ==
  {i \in 1..Len(deaths[s]) : ~Stale(deaths[s][i], deaths[s][Len(deaths[s])])}

\* NeedRestart drops at most one old death at a time, so its queue may hold
\* deaths from long ago; still it decides as if it counted exactly the deaths
\* of the last period: a server is given up if and only if more than
\* Intensity of its deaths lie within one period.
WindowExact ==
  \A s \in Servers :
    deaths[s] # <<>> =>
      (Len(dead_times[s]) <= Intensity <=> Cardinality(Window(s)) <= Intensity)

\* The supervisor never loses track of a child: every process that is alive
\* or waits to be reaped has its entry, so when SuperviseServers returns none
\* of them is left.
NoOrphans ==
  main.pc # "failed" =>
    \A s \in Servers : proc[s] # "none" <=> s \in server_metas_

\* StartServers, SuperviseServers: the table of servers is well formed and
\* knows every child.
ChildrenOK == TypeOK /\ NoOrphans

\* A stop request that meets no server in the middle of its start ends the
\* application, whatever crashes while the servers stop.
StopEnds == clean ~> main.pc = "done"
=============================================================================

------------------------- MODULE HeartbeatReporter --------------------------
(***************************************************************************)
(* leader/heartbeat_reporter.cc and the removal calls of                   *)
(* server_register.cc: a thread that keeps an ephemeral ZooKeeper node for *)
(* every registered path and deletes the nodes of removed paths, while the *)
(* application adds and removes paths.                                     *)
(*                                                                         *)
(* A promise is the set of the application threads that wait for it.  The  *)
(* sleep between two rounds always ends (see RunningChecker), so that a    *)
(* round may begin at any time and skip_sleep_, which only shortens it, is *)
(* left out.  ZooKeeper is external: zk[p] is "mine" when the node belongs *)
(* to the present session and "old" when it was left by an earlier one.    *)
(* Requests of one client are served in order, their answers may be late,  *)
(* and a request that fails may have been served.                          *)
(***************************************************************************)
EXTENDS Naturals, Functions

CONSTANTS
  Paths, Apps,
  MaxCalls,     \* bound on the application's calls
  MaxFailures,  \* bound on failing requests
  MaxSessions   \* bound on the sessions that are lost

ASSUME ReporterAssumption == {MaxCalls, MaxFailures, MaxSessions} \subseteq Nat

VARIABLES
  node_path_map_,        \* registered path -> whether its report is forced
  node_path_to_remove_,  \* path to remove -> the threads that wait for it
  thr,       \* the heartbeat thread
  app,       \* application thread -> where it is in RemovePath
  running,   \* running_checker_
  deletes,   \* Delete requests whose callback has not run
  zk,        \* path -> "none", "mine" or "old"
  session,   \* "alive" or "dead"
  raced,     \* paths removed between the two locks of a round
  spent      \* how much of each bound is used up

vars == <<node_path_map_, node_path_to_remove_, thr, app, running, deletes, zk,
          session, raced, spent>>

NoPath == "none"
Idle == [pc |-> "idle", path |-> NoPath, blocking |-> FALSE, exist |-> FALSE]
Waits == [Idle EXCEPT !.pc = "wait"]

\* The heartbeat thread: the paths it has to report, those of them that were
\* removed since it copied them, the paths to remove, and the path in Report.
ThreadAt(pc, todo, remove) ==
  [pc |-> pc, todo |-> todo, lost |-> {}, remove |-> remove, path |-> NoPath]

\* Threads whose future becomes ready go on.
Released(waiters) == [a \in Apps |-> IF a \in waiters THEN Idle ELSE app[a]]

Put(f, p, v) == [q \in DOMAIN f \cup {p} |-> IF q = p THEN v ELSE f[q]]

-----------------------------------------------------------------------------
\* AddPathToReport.
AddPathToReport(p) ==
  /\ spent.calls < MaxCalls
  /\ spent' = [spent EXCEPT !.calls = @ + 1]
  /\ node_path_map_' = Put(node_path_map_, p, FALSE)
  /\ UNCHANGED <<node_path_to_remove_, thr, app, running, deletes, zk, session, raced>>

\* RemovePath under node_path_lock_.
RemovePath(a, p, blocking) ==
  /\ app[a] = Idle
  /\ spent.calls < MaxCalls
  /\ spent' = [spent EXCEPT !.calls = @ + 1]
  /\ node_path_map_' = Restrict(node_path_map_, DOMAIN node_path_map_ \ {p})
  /\ thr' = [thr EXCEPT !.lost = @ \cup {p}]
  /\ app' = [app EXCEPT ![a] = [pc |-> "insert", path |-> p, blocking |-> blocking,
                                exist |-> p \in DOMAIN node_path_map_]]
  /\ UNCHANGED <<node_path_to_remove_, running, deletes, zk, session, raced>>

\* Slip: a placeholder is not replaced by a promise.
InsertedOverNothing(removals, a, p) ==
  IF app[a].blocking
    THEN IF p \notin DOMAIN removals /\ app[a].exist THEN Put(removals, p, {a}) ELSE removals
    ELSE IF p \notin DOMAIN removals THEN Put(removals, p, {}) ELSE removals

\* node_path_to_remove_ after RemovePath: a blocking call joins a promise, or
\* makes one if it has erased the path; another call leaves a placeholder.
Inserted(removals, a, p) ==
  LET waiters == IF p \in DOMAIN removals THEN removals[p] ELSE {}
  IN  IF app[a].blocking
        THEN IF waiters # {} \/ app[a].exist THEN Put(removals, p, waiters \cup {a})
             ELSE removals
        ELSE Put(removals, p, waiters)

\* The future that a blocking call gets is valid.
GetsFuture(a, p) ==
  /\ app[a].blocking
  /\ \/ app[a].exist
     \/ p \in DOMAIN node_path_to_remove_ /\ node_path_to_remove_[p] # {}

\* RemovePath under node_path_removed_mutex_; ServerRegister::RemovePath
\* waits for a future that is valid.
RemoveInserted(a) ==
  LET p == app[a].path
  IN  /\ app[a].pc = "insert"
      /\ node_path_to_remove_' = Inserted(node_path_to_remove_, a, p)
      /\ app' = [app EXCEPT ![a] = IF GetsFuture(a, p) THEN Waits ELSE Idle]
      /\ raced' = IF thr.pc = "swap" /\ p \in thr.todo THEN raced \cup {p}
                  ELSE IF p \in DOMAIN node_path_to_remove_' THEN raced \ {p}
                  ELSE raced
      /\ UNCHANGED <<node_path_map_, thr, running, deletes, zk, session, spent>>

\* StopReport, and StartReport after it.
StopReport ==
  /\ running
  /\ running' = FALSE
  /\ UNCHANGED <<node_path_map_, node_path_to_remove_, thr, app, deletes, zk,
                 session, raced, spent>>

StartReport ==
  /\ thr.pc = "exit"
  /\ spent.calls < MaxCalls
  /\ spent' = [spent EXCEPT !.calls = @ + 1]
  /\ running' = TRUE
  /\ thr' = ThreadAt("top", {}, <<>>)
  /\ UNCHANGED <<node_path_map_, node_path_to_remove_, app, deletes, zk, session, raced>>

-----------------------------------------------------------------------------
\* A round: copy the registered paths, then take the paths to remove.
Snapshot ==
  /\ thr.pc = "top" /\ running
  /\ thr' = ThreadAt("swap", DOMAIN node_path_map_, <<>>)
  /\ UNCHANGED <<node_path_map_, node_path_to_remove_, app, running, deletes, zk,
                 session, raced, spent>>

LoopEnds ==
  /\ thr.pc = "top" /\ ~running
  /\ thr' = ThreadAt("exit", {}, <<>>)
  /\ UNCHANGED <<node_path_map_, node_path_to_remove_, app, running, deletes, zk,
                 session, raced, spent>>

Swap ==
  /\ thr.pc = "swap"
  /\ thr' = [thr EXCEPT !.pc = "delete", !.remove = node_path_to_remove_]
  /\ node_path_to_remove_' = <<>>
  /\ UNCHANGED <<node_path_map_, app, running, deletes, zk, session, raced, spent>>

\* The thread has no removal left for p.
Taken(p) == thr' = [thr EXCEPT !.remove = Restrict(@, DOMAIN @ \ {p})]

Request(p, ok) == [path |-> p, waiters |-> thr.remove[p], ok |-> ok]

\* Delete of a path to remove: served, or failed and served or not.
DeleteServed(p) ==
  /\ thr.pc = "delete" /\ p \in DOMAIN thr.remove /\ session = "alive"
  /\ zk' = [zk EXCEPT ![p] = "none"]
  /\ deletes' = deletes \cup {Request(p, TRUE)}
  /\ Taken(p)
  /\ UNCHANGED <<node_path_map_, node_path_to_remove_, app, running, session, raced, spent>>

DeleteFails(p) ==
  /\ thr.pc = "delete" /\ p \in DOMAIN thr.remove /\ session = "alive"
  /\ spent.failures < MaxFailures
  /\ spent' = [spent EXCEPT !.failures = @ + 1]
  /\ zk' \in {zk, [zk EXCEPT ![p] = "none"]}
  /\ deletes' = deletes \cup {Request(p, FALSE)}
  /\ Taken(p)
  /\ UNCHANGED <<node_path_map_, node_path_to_remove_, app, running, session, raced>>

\* The client refuses the request: no callback is made, the removal is
\* dropped, and its promise is broken.
DeleteRefused(p) ==
  /\ thr.pc = "delete" /\ p \in DOMAIN thr.remove /\ session = "dead"
  /\ app' = Released(thr.remove[p])
  /\ Taken(p)
  /\ UNCHANGED <<node_path_map_, node_path_to_remove_, running, deletes, zk,
                 session, raced, spent>>

\* Slips: a removal that failed is not tried again, or every removal is.
NeverRetries(d) == FALSE
AlwaysRetries(d) == TRUE

\* The callback puts a removal that failed back.
Retries(d) == ~d.ok

\* The callback of Delete.  A removal that was asked for meanwhile stays; the
\* promise of the one that failed is then broken.
DeleteCallback(d) ==
  LET again == Retries(d) /\ d.path \notin DOMAIN node_path_to_remove_
  IN  /\ d \in deletes
      /\ deletes' = deletes \ {d}
      /\ node_path_to_remove_' = IF again THEN Put(node_path_to_remove_, d.path, d.waiters)
                                 ELSE node_path_to_remove_
      /\ app' = IF again THEN app ELSE Released(d.waiters)
      /\ UNCHANGED <<node_path_map_, thr, running, zk, session, raced, spent>>

\* Every removal of the round has been sent.
AllSent == DOMAIN thr.remove = {}

DeletesSent ==
  /\ thr.pc = "delete" /\ AllSent
  /\ thr' = [thr EXCEPT !.pc = "next"]
  /\ UNCHANGED <<node_path_map_, node_path_to_remove_, app, running, deletes, zk,
                 session, raced, spent>>

-----------------------------------------------------------------------------
\* Report(p).
Report(p) ==
  /\ thr.pc = "next" /\ p \in thr.todo
  /\ thr' = [thr EXCEPT !.pc = "exists", !.path = p]
  /\ UNCHANGED <<node_path_map_, node_path_to_remove_, app, running, deletes, zk,
                 session, raced, spent>>

Goes(pc) == thr' = [thr EXCEPT !.pc = pc]

\* Report returns; a report that failed is forced the next time.  The flag of
\* a path that was removed since the snapshot is written in vain.
Returns(success) ==
  /\ node_path_map_' = IF success \/ thr.path \in thr.lost THEN node_path_map_
                       ELSE [node_path_map_ EXCEPT ![thr.path] = TRUE]
  /\ thr' = [thr EXCEPT !.pc = "next", !.path = NoPath, !.todo = @ \ {thr.path}]

Forced == IF thr.path \in thr.lost THEN BOOLEAN ELSE {node_path_map_[thr.path]}

\* Exists, and what its answer leads to.
Exists ==
  /\ thr.pc = "exists" /\ session = "alive"
  /\ \/ zk[thr.path] = "none" /\ Goes("create") /\ UNCHANGED node_path_map_
     \/ zk[thr.path] = "old" /\ Goes("foreign") /\ UNCHANGED node_path_map_
     \/ /\ zk[thr.path] = "mine"
        /\ \E force \in Forced :
             IF force THEN Goes("set") /\ UNCHANGED node_path_map_ ELSE Returns(TRUE)
  /\ UNCHANGED <<node_path_to_remove_, app, running, deletes, zk, session, raced, spent>>

\* Any answer to the Delete is followed by Create.
DeleteForeign ==
  /\ thr.pc = "foreign"
  /\ zk' \in IF session = "alive" THEN {[zk EXCEPT ![thr.path] = "none"]} ELSE {zk}
  /\ Goes("create")
  /\ UNCHANGED <<node_path_map_, node_path_to_remove_, app, running, deletes,
                 session, raced, spent>>

Create ==
  /\ thr.pc = "create" /\ session = "alive"
  /\ IF zk[thr.path] = "none"
       THEN /\ zk' = [zk EXCEPT ![thr.path] = "mine"]
            /\ Goes("verify") /\ UNCHANGED node_path_map_
       ELSE Returns(FALSE) /\ UNCHANGED zk
  /\ UNCHANGED <<node_path_to_remove_, app, running, deletes, session, raced, spent>>

Set ==
  /\ thr.pc = "set" /\ session = "alive"
  /\ IF zk[thr.path] # "none"
       THEN Goes("verify") /\ UNCHANGED node_path_map_
       ELSE Returns(FALSE)
  /\ UNCHANGED <<node_path_to_remove_, app, running, deletes, zk, session, raced, spent>>

Verify ==
  /\ thr.pc = "verify" /\ session = "alive"
  /\ Returns(zk[thr.path] = "mine")
  /\ UNCHANGED <<node_path_to_remove_, app, running, deletes, zk, session, raced, spent>>

\* A request of Report fails; a Create may have been served.
RequestFails ==
  /\ thr.pc \in {"exists", "create", "set", "verify"} /\ session = "alive"
  /\ spent.failures < MaxFailures
  /\ spent' = [spent EXCEPT !.failures = @ + 1]
  /\ zk' \in {zk} \cup IF thr.pc = "create" /\ zk[thr.path] = "none"
                         THEN {[zk EXCEPT ![thr.path] = "mine"]} ELSE {}
  /\ Returns(FALSE)
  /\ UNCHANGED <<node_path_to_remove_, app, running, deletes, session, raced>>

\* Without a session Report fails; after Exists it has tried to connect.
SessionDead ==
  /\ thr.pc \in {"exists", "create", "set", "verify"} /\ session = "dead"
  /\ session' = IF thr.pc = "exists" THEN "alive" ELSE session
  /\ Returns(FALSE)
  /\ UNCHANGED <<node_path_to_remove_, app, running, deletes, zk, raced, spent>>

ConnectFails ==
  /\ thr.pc = "exists" /\ session = "dead"
  /\ spent.failures < MaxFailures
  /\ spent' = [spent EXCEPT !.failures = @ + 1]
  /\ Returns(FALSE)
  /\ UNCHANGED <<node_path_to_remove_, app, running, deletes, zk, session, raced>>

EndRound ==
  /\ thr.pc = "next" /\ thr.todo = {}
  /\ thr' = ThreadAt("top", {}, <<>>)
  /\ UNCHANGED <<node_path_map_, node_path_to_remove_, app, running, deletes, zk,
                 session, raced, spent>>

-----------------------------------------------------------------------------
\* The session is lost: its nodes stay until the server ends it.
SessionLost ==
  /\ session = "alive" /\ spent.sessions < MaxSessions
  /\ spent' = [spent EXCEPT !.sessions = @ + 1]
  /\ session' = "dead"
  /\ zk' = [p \in Paths |-> IF zk[p] = "mine" THEN "old" ELSE zk[p]]
  /\ UNCHANGED <<node_path_map_, node_path_to_remove_, thr, app, running, deletes, raced>>

OldSessionEnds ==
  /\ \E p \in Paths : zk[p] = "old"
  /\ zk' = [p \in Paths |-> IF zk[p] = "old" THEN "none" ELSE zk[p]]
  /\ UNCHANGED <<node_path_map_, node_path_to_remove_, thr, app, running, deletes,
                 session, raced, spent>>

-----------------------------------------------------------------------------
Init ==
  /\ node_path_map_ = <<>>
  /\ node_path_to_remove_ = <<>>
  /\ thr = ThreadAt("top", {}, <<>>)
  /\ app = [a \in Apps |-> Idle]
  /\ running = TRUE
  /\ deletes = {}
  /\ zk \in [Paths -> {"none", "old"}]
  /\ session = "alive"
  /\ raced = {}
  /\ spent = [calls |-> 0, failures |-> 0, sessions |-> 0]

HeartbeatThread ==
  \/ Snapshot \/ LoopEnds \/ Swap \/ DeletesSent \/ EndRound
  \/ \E p \in Paths : DeleteServed(p) \/ DeleteFails(p) \/ DeleteRefused(p) \/ Report(p)
  \/ Exists \/ DeleteForeign \/ Create \/ Set \/ Verify
  \/ RequestFails \/ SessionDead \/ ConnectFails

Callbacks == \E d \in deletes : DeleteCallback(d)

Register ==
  \/ \E p \in Paths : AddPathToReport(p)
  \/ \E a \in Apps, p \in Paths, blocking \in BOOLEAN : RemovePath(a, p, blocking)
  \/ \E a \in Apps : RemoveInserted(a)
  \/ StopReport \/ StartReport

Next ==
  \/ HeartbeatThread \/ Callbacks \/ Register
  \/ SessionLost \/ OldSessionEnds

\* The heartbeat thread is scheduled, its sleep ends and its requests are
\* answered; a thread in the middle of RemovePath goes on; the server ends
\* sessions that are lost.
Fairness ==
  /\ WF_vars(HeartbeatThread) /\ WF_vars(Callbacks) /\ WF_vars(OldSessionEnds)
  /\ \A a \in Apps : WF_vars(RemoveInserted(a))

Spec == Init /\ [][Next]_vars /\ Fairness

-----------------------------------------------------------------------------
Maps(T) == UNION {[S -> T] : S \in SUBSET Paths}
Reporting == {"exists", "create", "set", "verify", "foreign"}
Thread == [pc : {"top", "swap", "delete", "next", "exit"} \cup Reporting,
           todo : SUBSET Paths, lost : SUBSET Paths, remove : Maps(SUBSET Apps),
           path : Paths \cup {NoPath}]
Caller == [pc : {"idle", "insert", "wait"}, path : Paths \cup {NoPath},
           blocking : BOOLEAN, exist : BOOLEAN]

\* Every variable has its type; in particular all the removals of a round are
\* sent before the first report, which ZooKeeper then serves after them.
TypeOK ==
  /\ node_path_map_ \in Maps(BOOLEAN)
  /\ node_path_to_remove_ \in Maps(SUBSET Apps)
  /\ thr \in Thread
  /\ thr.pc \in Reporting => thr.path \in thr.todo
  /\ DOMAIN thr.remove # {} => thr.pc = "delete"
  /\ app \in [Apps -> Caller]
  /\ \A a \in Apps : app[a].pc = "insert" => app[a].path \in Paths
  /\ running \in BOOLEAN
  /\ deletes \subseteq [path : Paths, waiters : SUBSET Apps, ok : BOOLEAN]
  /\ zk \in [Paths -> {"none", "mine", "old"}]
  /\ session \in {"alive", "dead"}
  /\ raced \subseteq Paths
  /\ spent \in [calls : 0..MaxCalls, failures : 0..MaxFailures, sessions : 0..MaxSessions]

\* Some step for the removal of p is still to come.
RemovalPending(p) ==
  \/ \E a \in Apps : app[a].pc = "insert" /\ app[a].path = p /\ app[a].exist
  \/ p \in DOMAIN node_path_to_remove_
  \/ p \in DOMAIN thr.remove
  \/ \E d \in deletes : d.path = p /\ ~d.ok

\* A removal is not forgotten, whatever fails: while the node of a path that
\* is not registered is alive, its removal is pending, unless RemovePath fell
\* between the two locks of a round.
NoForgottenRemoval ==
  \A p \in Paths \ (DOMAIN node_path_map_ \cup raced) :
    zk[p] = "mine" => RemovalPending(p)

\* Where the promises that thread a waits for are.
InMap(a) == {p \in DOMAIN node_path_to_remove_ : a \in node_path_to_remove_[p]}
InRound(a) == {p \in DOMAIN thr.remove : a \in thr.remove[p]}
InFlight(a) == {d \in deletes : a \in d.waiters}

Held(a) ==
  ({"to_remove"} \X InMap(a)) \cup ({"remove"} \X InRound(a)) \cup ({"sent"} \X InFlight(a))

\* A thread that waits in ServerRegister::RemovePath waits for a promise that
\* somebody still holds, and for one only.
NobodyWaitsInVain ==
  \A a \in Apps :
    IF app[a].pc = "wait" THEN \E x \in Held(a) : Held(a) = {x} ELSE Held(a) = {}

\* The maps of removals are well formed, and each waiting thread has its promise
\* in exactly one of them.
PromisesOK == TypeOK /\ NobodyWaitsInVain

\* A path that stays registered comes to have its node, and keeps it.
Registered ==
  \A p \in Paths :
    <>[](running /\ p \in DOMAIN node_path_map_) => <>[](zk[p] = "mine")

\* A blocking removal returns, unless reporting is stopped.
RemoveReturns ==
  \A a \in Apps : app[a].pc = "wait" ~> (app[a].pc # "wait" \/ ~running)

\* "Remove registered path": a path that stays removed loses its node.
RemovedForGood ==
  \A p \in Paths :
    <>[](running /\ p \notin DOMAIN node_path_map_) => <>[](zk[p] # "mine")
=============================================================================

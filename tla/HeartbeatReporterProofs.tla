----------------------- MODULE HeartbeatReporterProofs -----------------------
(***************************************************************************)
(* The invariants of HeartbeatReporter for every set of paths, every       *)
(* number of application threads and every bound.                          *)
(***************************************************************************)
EXTENDS HeartbeatReporter, TLAPS

\* A node of the present session is alive only while the session is.
DeadOwnsNothing == session = "dead" => \A p \in Paths : zk[p] # "mine"

\* A path of the round that has been removed since the snapshot will be taken
\* by a later round: Report may create its node again, but nothing of this
\* round can make its removal disappear.
RemovalOutlivesRound ==
  \A p \in thr.todo \ (DOMAIN node_path_map_ \cup raced) :
    \/ \E a \in Apps : app[a].pc = "insert" /\ app[a].path = p /\ app[a].exist
    \/ thr.pc # "swap" /\ p \in DOMAIN node_path_to_remove_

\* The invariant behind NoForgottenRemoval, inductive relative to PromisesOK.
RemovalInv == DeadOwnsNothing /\ RemovalOutlivesRound /\ NoForgottenRemoval

-----------------------------------------------------------------------------
\* Writing, erasing or emptying keeps a map a map.
LEMMA MapUpdates ==
  ASSUME NEW T, NEW f \in Maps(T)
  PROVE  /\ DOMAIN f \subseteq Paths
         /\ \A p \in DOMAIN f : f[p] \in T
         /\ \A p \in Paths, v \in T :
              /\ Put(f, p, v) \in Maps(T)
              /\ DOMAIN Put(f, p, v) = DOMAIN f \cup {p}
              /\ Put(f, p, v)[p] = v
              /\ \A q \in DOMAIN f \ {p} : Put(f, p, v)[q] = f[q]
         /\ \A p \in Paths :
              /\ Restrict(f, DOMAIN f \ {p}) \in Maps(T)
              /\ DOMAIN Restrict(f, DOMAIN f \ {p}) = DOMAIN f \ {p}
              /\ \A q \in DOMAIN f \ {p} : Restrict(f, DOMAIN f \ {p})[q] = f[q]
         /\ \A p \in Paths, v \in T :
              /\ [f EXCEPT ![p] = v] \in Maps(T)
              /\ DOMAIN [f EXCEPT ![p] = v] = DOMAIN f
<1>1. PICK S \in SUBSET Paths : f \in [S -> T]
  BY DEF Maps
<1>2. \A S2 \in SUBSET Paths : \A g \in [S2 -> T] : g \in Maps(T)
  BY DEF Maps
<1>3. ASSUME NEW p \in Paths, NEW v \in T
      PROVE  Put(f, p, v) \in [S \cup {p} -> T]
  BY <1>1 DEF Put
<1>4. ASSUME NEW p \in Paths
      PROVE  Restrict(f, DOMAIN f \ {p}) \in [S \ {p} -> T]
  BY <1>1 DEF Restrict
<1>5. ASSUME NEW p \in Paths, NEW v \in T
      PROVE  [f EXCEPT ![p] = v] \in [S -> T]
  BY <1>1
<1>6. QED
  BY <1>1, <1>2, <1>3, <1>4, <1>5 DEF Put, Restrict

\* The empty map.
LEMMA EmptyMap == \A T : <<>> \in Maps(T) /\ DOMAIN <<>> = {}
<1>1. <<>> \in [{} -> {}] /\ DOMAIN <<>> = {}
  OBVIOUS
<1>2. ASSUME NEW T PROVE <<>> \in [{} -> T]
  BY <1>1
<1>3. QED
  BY <1>1, <1>2 DEF Maps

\* Report returns with the registered paths it found.
LEMMA ReturnsKeeps ==
  ASSUME TypeOK, NEW success \in BOOLEAN, thr.pc \in Reporting, Returns(success)
  PROVE  /\ node_path_map_' \in Maps(BOOLEAN)
         /\ DOMAIN node_path_map_' = DOMAIN node_path_map_
         /\ thr' \in Thread /\ thr'.pc = "next" /\ thr'.remove = thr.remove
         /\ thr'.todo \subseteq thr.todo
<1>1. thr \in Thread /\ node_path_map_ \in Maps(BOOLEAN) /\ thr.path \in Paths
  BY DEF TypeOK, Thread
<1>2. node_path_map_' \in Maps(BOOLEAN) /\ DOMAIN node_path_map_' = DOMAIN node_path_map_
  BY <1>1, MapUpdates DEF Returns
<1>3. QED
  BY <1>1, <1>2 DEF Returns, Thread

\* A step of Report to its next request.
LEMMA GoesKeeps ==
  ASSUME TypeOK, NEW pc \in Reporting, thr.pc \in Reporting, Goes(pc)
  PROVE  /\ thr' \in Thread /\ thr'.pc = pc /\ thr'.remove = thr.remove
         /\ thr'.todo = thr.todo /\ thr'.path = thr.path
BY DEF TypeOK, Goes, Thread, Reporting

\* Threads that are released are idle.
LEMMA ReleasedType ==
  ASSUME TypeOK, NEW waiters
  PROVE  /\ Released(waiters) \in [Apps -> Caller]
         /\ \A a \in Apps : Released(waiters)[a] = IF a \in waiters THEN Idle ELSE app[a]
         /\ Idle.pc = "idle"
BY DEF TypeOK, Released, Idle, Caller

\* The variables keep their types (TypeOK) under every step.
THEOREM TypeCorrect == Spec => []TypeOK
<1>1. Init => TypeOK
  <2> SUFFICES ASSUME Init PROVE TypeOK
    OBVIOUS
  <2>1. thr \in Thread /\ thr.pc \notin Reporting /\ DOMAIN thr.remove = {}
    BY EmptyMap DEF Init, ThreadAt, Thread, Reporting
  <2>2. app \in [Apps -> Caller] /\ \A a \in Apps : app[a].pc # "insert"
    BY DEF Init, Idle, Caller
  <2>3. QED
    BY <2>1, <2>2, EmptyMap, ReporterAssumption DEF Init, TypeOK
<1>2. TypeOK /\ [Next]_vars => TypeOK'
  <2> SUFFICES ASSUME TypeOK, [Next]_vars PROVE TypeOK'
    OBVIOUS
  <2>0. /\ node_path_map_ \in Maps(BOOLEAN) /\ node_path_to_remove_ \in Maps(SUBSET Apps)
        /\ thr \in Thread /\ thr.remove \in Maps(SUBSET Apps)
        /\ app \in [Apps -> Caller]
    BY DEF TypeOK, Thread
  <2> DEFINE Spent == [calls : 0..MaxCalls, failures : 0..MaxFailures,
                       sessions : 0..MaxSessions]
  <2>00. /\ spent.calls < MaxCalls => [spent EXCEPT !.calls = @ + 1] \in Spent
         /\ spent.failures < MaxFailures => [spent EXCEPT !.failures = @ + 1] \in Spent
         /\ spent.sessions < MaxSessions => [spent EXCEPT !.sessions = @ + 1] \in Spent
    BY ReporterAssumption DEF TypeOK
  <2> HIDE DEF Spent
  <2>1. ASSUME NEW p \in Paths, AddPathToReport(p) PROVE TypeOK'
    <3>1. Put(node_path_map_, p, FALSE) \in Maps(BOOLEAN)
      BY <2>0, MapUpdates
    <3>2. QED
      BY <2>00, <2>1, <3>1 DEF AddPathToReport, TypeOK, Spent
  <2>2. ASSUME NEW a \in Apps, NEW p \in Paths, NEW blocking \in BOOLEAN,
               RemovePath(a, p, blocking)
        PROVE  TypeOK'
    <3>1. node_path_map_' \in Maps(BOOLEAN)
      BY <2>0, <2>2, MapUpdates DEF RemovePath
    <3>2. thr' \in Thread /\ thr'.pc = thr.pc /\ thr'.path = thr.path
          /\ thr'.todo = thr.todo /\ thr'.remove = thr.remove
      BY <2>0, <2>2 DEF RemovePath, Thread
    <3>3. app' \in [Apps -> Caller] /\ \A b \in Apps : app'[b].pc = "insert" => app'[b].path \in Paths
      BY <2>0, <2>2 DEF RemovePath, Caller, TypeOK
    <3>4. QED
      BY <2>2, <3>1, <3>2, <3>3, <2>00 DEF RemovePath, TypeOK, Spent
  <2>3. ASSUME NEW a \in Apps, RemoveInserted(a) PROVE TypeOK'
    <3>1. app[a].path \in Paths
      BY <2>3 DEF RemoveInserted, TypeOK
    <3>2. node_path_to_remove_' \in Maps(SUBSET Apps)
      <4> DEFINE waiters == IF app[a].path \in DOMAIN node_path_to_remove_
                              THEN node_path_to_remove_[app[a].path] ELSE {}
      <4>1. waiters \in SUBSET Apps /\ waiters \cup {a} \in SUBSET Apps
        BY <2>0, MapUpdates
      <4>2. node_path_to_remove_' \in
              {node_path_to_remove_, Put(node_path_to_remove_, app[a].path, waiters \cup {a}),
               Put(node_path_to_remove_, app[a].path, waiters)}
        BY <2>3 DEF RemoveInserted, Inserted
      <4> HIDE DEF waiters
      <4>3. \A v \in SUBSET Apps : Put(node_path_to_remove_, app[a].path, v) \in Maps(SUBSET Apps)
        BY <2>0, <3>1, MapUpdates
      <4>4. QED
        BY <2>0, <4>1, <4>2, <4>3
    <3>3. app' \in [Apps -> Caller] /\ \A b \in Apps : app'[b].pc = "insert" => app'[b].path \in Paths
      BY <2>0, <2>3 DEF RemoveInserted, Caller, TypeOK, Idle, Waits
    <3>4. raced' \subseteq Paths
      BY <2>3, <3>1 DEF RemoveInserted, TypeOK
    <3>5. QED
      BY <2>3, <3>2, <3>3, <3>4 DEF RemoveInserted, TypeOK
  <2>4. CASE StopReport
    BY <2>4 DEF StopReport, TypeOK
  <2>5. CASE StartReport
    BY <2>00, <2>5, EmptyMap DEF StartReport, TypeOK, ThreadAt, Thread, Reporting, Spent
  <2>6. CASE Snapshot
    BY <2>0, <2>6, EmptyMap, MapUpdates DEF Snapshot, TypeOK, ThreadAt, Thread, Reporting
  <2>7. CASE LoopEnds
    BY <2>7, EmptyMap DEF LoopEnds, TypeOK, ThreadAt, Thread, Reporting
  <2>8. CASE Swap
    BY <2>0, <2>8, EmptyMap DEF Swap, TypeOK, Thread, Reporting
  <2>9. CASE DeletesSent
    BY <2>0, <2>9 DEF DeletesSent, AllSent, TypeOK, Thread, Reporting
  <2>10. CASE EndRound
    BY <2>10, EmptyMap DEF EndRound, TypeOK, ThreadAt, Thread, Reporting
  <2>11. ASSUME NEW p \in Paths, Taken(p), thr.pc = "delete"
         PROVE  thr' \in Thread /\ thr'.pc = "delete"
    BY <2>0, <2>11, MapUpdates DEF Taken, Thread
  <2>12. ASSUME NEW p \in DOMAIN thr.remove, NEW ok \in BOOLEAN
         PROVE  deletes \cup {Request(p, ok)}
                  \subseteq [path : Paths, waiters : SUBSET Apps, ok : BOOLEAN]
    <3>1. Request(p, ok) \in [path : Paths, waiters : SUBSET Apps, ok : BOOLEAN]
      BY <2>0, MapUpdates DEF Request
    <3>2. QED
      BY <3>1 DEF TypeOK
  <2>13. ASSUME NEW p \in Paths, DeleteServed(p) PROVE TypeOK'
    <3>1. zk' \in [Paths -> {"none", "mine", "old"}]
      BY <2>13 DEF DeleteServed, TypeOK
    <3>2. deletes' \subseteq [path : Paths, waiters : SUBSET Apps, ok : BOOLEAN]
      <4>1. p \in DOMAIN thr.remove /\ deletes' = deletes \cup {Request(p, TRUE)}
        BY <2>13 DEF DeleteServed
      <4>2. QED
        BY <2>12, <4>1, Zenon
    <3>3. QED
      BY <2>11, <2>13, <3>1, <3>2 DEF DeleteServed, TypeOK, Reporting
  <2>14. ASSUME NEW p \in Paths, DeleteFails(p) PROVE TypeOK'
    <3>1. zk' \in [Paths -> {"none", "mine", "old"}]
      BY <2>14 DEF DeleteFails, TypeOK
    <3>2. deletes' \subseteq [path : Paths, waiters : SUBSET Apps, ok : BOOLEAN]
      <4>1. p \in DOMAIN thr.remove /\ deletes' = deletes \cup {Request(p, FALSE)}
        BY <2>14 DEF DeleteFails
      <4>2. QED
        BY <2>12, <4>1, Zenon
    <3>3. QED
      BY <2>00, <2>11, <2>14, <3>1, <3>2 DEF DeleteFails, TypeOK, Reporting, Spent
  <2>15. ASSUME NEW p \in Paths, DeleteRefused(p) PROVE TypeOK'
    BY <2>11, <2>15, ReleasedType DEF DeleteRefused, TypeOK, Reporting
  <2>16. ASSUME NEW p \in Paths, Report(p) PROVE TypeOK'
    BY <2>0, <2>16 DEF Report, TypeOK, Thread, Reporting
  <2>17. CASE Exists
    <3>1. thr.pc \in Reporting /\ {"create", "foreign", "set"} \subseteq Reporting
      BY <2>17 DEF Exists, Reporting
    <3>2. \/ \E pc \in Reporting : Goes(pc) /\ UNCHANGED node_path_map_
          \/ Returns(TRUE)
      BY <2>17, <3>1 DEF Exists
    <3>3. /\ node_path_map_' \in Maps(BOOLEAN) /\ thr' \in Thread
          /\ thr'.pc \in Reporting => thr'.path \in thr'.todo
          /\ DOMAIN thr'.remove # {} => thr'.pc = "delete"
      BY <2>0, <3>1, <3>2, ReturnsKeeps, GoesKeeps DEF TypeOK, Reporting
    <3>4. QED
      BY <2>17, <3>3 DEF Exists, TypeOK
  <2>18. CASE DeleteForeign
    <3>1. zk' \in [Paths -> {"none", "mine", "old"}]
      BY <2>18 DEF DeleteForeign, TypeOK
    <3>2. QED
      BY <2>18, <3>1, GoesKeeps DEF DeleteForeign, TypeOK, Reporting
  <2>19. CASE Create
    <3>1. zk' \in [Paths -> {"none", "mine", "old"}]
      BY <2>19 DEF Create, TypeOK
    <3>2. QED
      BY <2>19, <3>1, GoesKeeps, ReturnsKeeps DEF Create, TypeOK, Reporting
  <2>20. CASE Set
    BY <2>20, GoesKeeps, ReturnsKeeps DEF Set, TypeOK, Reporting
  <2>21. CASE Verify
    BY <2>21, ReturnsKeeps DEF Verify, TypeOK, Reporting
  <2>22. CASE RequestFails
    <3>1. zk' \in [Paths -> {"none", "mine", "old"}]
      BY <2>22 DEF RequestFails, TypeOK
    <3>2. QED
      BY <2>00, <2>22, <3>1, ReturnsKeeps DEF RequestFails, TypeOK, Reporting, Spent
  <2>23. CASE SessionDead
    BY <2>23, ReturnsKeeps DEF SessionDead, TypeOK, Reporting
  <2>24. CASE ConnectFails
    BY <2>00, <2>24, ReturnsKeeps DEF ConnectFails, TypeOK, Reporting, Spent
  <2>25. ASSUME NEW d \in deletes, DeleteCallback(d) PROVE TypeOK'
    <3>1. d.path \in Paths /\ d.waiters \in SUBSET Apps
      BY DEF TypeOK
    <3>2. node_path_to_remove_' \in Maps(SUBSET Apps)
      BY <2>0, <2>25, <3>1, MapUpdates DEF DeleteCallback
    <3>3. app' \in [Apps -> Caller] /\ \A b \in Apps : app'[b].pc = "insert" => app'[b].path \in Paths
      BY <2>25, ReleasedType DEF DeleteCallback, TypeOK
    <3>4. QED
      BY <2>25, <3>2, <3>3 DEF DeleteCallback, TypeOK
  <2>26. CASE SessionLost
    BY <2>00, <2>26 DEF SessionLost, TypeOK, Spent
  <2>27. CASE OldSessionEnds
    BY <2>27 DEF OldSessionEnds, TypeOK
  <2>28. CASE UNCHANGED vars
    BY <2>28 DEF vars, TypeOK
  <2>29. QED
    BY <2>1, <2>2, <2>3, <2>4, <2>5, <2>6, <2>7, <2>8, <2>9, <2>10, <2>13, <2>14, <2>15,
       <2>16, <2>17, <2>18, <2>19, <2>20, <2>21, <2>22, <2>23, <2>24, <2>25, <2>26, <2>27,
       <2>28
       DEF Next, HeartbeatThread, Callbacks, Register
<1>3. QED
  BY <1>1, <1>2, PTL DEF Spec

-----------------------------------------------------------------------------
\* A thread's promise is in no map, or in one of the three.
NoPromise(a) == InMap(a) = {} /\ InRound(a) = {} /\ InFlight(a) = {}
OnePromise(a) ==
  \/ (\E p : InMap(a) = {p}) /\ InRound(a) = {} /\ InFlight(a) = {}
  \/ (\E p : InRound(a) = {p}) /\ InMap(a) = {} /\ InFlight(a) = {}
  \/ (\E d : InFlight(a) = {d}) /\ InMap(a) = {} /\ InRound(a) = {}
PromiseFits(a) == IF app[a].pc = "wait" THEN OnePromise(a) ELSE NoPromise(a)

\* The three maps instead of the union of their tagged entries.
LEMMA HeldIsPromise ==
  ASSUME NEW a
  PROVE  /\ Held(a) = {} <=> NoPromise(a)
         /\ (\E x \in Held(a) : Held(a) = {x}) <=> OnePromise(a)
<1>1. \A x : x \in Held(a) <=> \/ \E p \in InMap(a) : x = <<"to_remove", p>>
                               \/ \E p \in InRound(a) : x = <<"remove", p>>
                               \/ \E d \in InFlight(a) : x = <<"sent", d>>
  BY DEF Held
<1>2. Held(a) = {} <=> NoPromise(a)
  BY <1>1 DEF NoPromise
<1>3. OnePromise(a) => \E x \in Held(a) : Held(a) = {x}
  <2>1. ASSUME NEW p, InMap(a) = {p}, InRound(a) = {}, InFlight(a) = {}
        PROVE  Held(a) = {<<"to_remove", p>>}
    BY <1>1, <2>1
  <2>2. ASSUME NEW p, InRound(a) = {p}, InMap(a) = {}, InFlight(a) = {}
        PROVE  Held(a) = {<<"remove", p>>}
    BY <1>1, <2>2
  <2>3. ASSUME NEW d, InFlight(a) = {d}, InMap(a) = {}, InRound(a) = {}
        PROVE  Held(a) = {<<"sent", d>>}
    BY <1>1, <2>3
  <2>4. QED
    BY <2>1, <2>2, <2>3 DEF OnePromise
<1>4. ASSUME NEW x, Held(a) = {x} PROVE OnePromise(a)
  <2>1. CASE \E p \in InMap(a) : x = <<"to_remove", p>>
    <3>1. PICK p \in InMap(a) : x = <<"to_remove", p>>
      BY <2>1
    <3>2. InMap(a) = {p} /\ InRound(a) = {} /\ InFlight(a) = {}
      <4>1. \A q \in InMap(a) : <<"to_remove", q>> = <<"to_remove", p>>
        BY <1>1, <1>4, <3>1
      <4>2. \A q \in InRound(a) : <<"remove", q>> = <<"to_remove", p>>
        BY <1>1, <1>4, <3>1
      <4>3. \A q \in InFlight(a) : <<"sent", q>> = <<"to_remove", p>>
        BY <1>1, <1>4, <3>1
      <4>4. QED
        BY <3>1, <4>1, <4>2, <4>3
    <3>3. QED BY <3>2 DEF OnePromise
  <2>2. CASE \E p \in InRound(a) : x = <<"remove", p>>
    <3>1. PICK p \in InRound(a) : x = <<"remove", p>>
      BY <2>2
    <3>2. InRound(a) = {p} /\ InMap(a) = {} /\ InFlight(a) = {}
      <4>1. \A q \in InRound(a) : <<"remove", q>> = <<"remove", p>>
        BY <1>1, <1>4, <3>1
      <4>2. \A q \in InMap(a) : <<"to_remove", q>> = <<"remove", p>>
        BY <1>1, <1>4, <3>1
      <4>3. \A q \in InFlight(a) : <<"sent", q>> = <<"remove", p>>
        BY <1>1, <1>4, <3>1
      <4>4. QED
        BY <3>1, <4>1, <4>2, <4>3
    <3>3. QED BY <3>2 DEF OnePromise
  <2>3. CASE \E d \in InFlight(a) : x = <<"sent", d>>
    <3>1. PICK d \in InFlight(a) : x = <<"sent", d>>
      BY <2>3
    <3>2. InFlight(a) = {d} /\ InMap(a) = {} /\ InRound(a) = {}
      <4>1. \A q \in InFlight(a) : <<"sent", q>> = <<"sent", d>>
        BY <1>1, <1>4, <3>1
      <4>2. \A q \in InMap(a) : <<"to_remove", q>> = <<"sent", d>>
        BY <1>1, <1>4, <3>1
      <4>3. \A q \in InRound(a) : <<"remove", q>> = <<"sent", d>>
        BY <1>1, <1>4, <3>1
      <4>4. QED
        BY <3>1, <4>1, <4>2, <4>3
    <3>3. QED BY <3>2 DEF OnePromise
  <2>4. QED
    BY <1>1, <1>4, <2>1, <2>2, <2>3
<1>5. QED
  BY <1>2, <1>3, <1>4

\* NobodyWaitsInVain in terms of the three maps.
LEMMA NobodyWaitsIsPromiseFits == NobodyWaitsInVain <=> \A a \in Apps : PromiseFits(a)
BY HeldIsPromise DEF NobodyWaitsInVain, PromiseFits

\* Every waiting thread has its promise in exactly one place, whatever fails:
\* a promise moves from the map into the round, from the round into a request
\* and from a request that failed back into the map, and every step that drops
\* one releases its threads.
THEOREM PromisesKept == Spec => []PromisesOK
<1> DEFINE Fits == \A a \in Apps : PromiseFits(a)
<1>1. Init => Fits
  BY EmptyMap DEF Init, PromiseFits, NoPromise, InMap, InRound, InFlight, Idle, ThreadAt
<1>2. TypeOK /\ Fits /\ [Next]_vars => Fits'
  <2> SUFFICES ASSUME TypeOK, Fits, [Next]_vars, NEW b \in Apps PROVE PromiseFits(b)'
    OBVIOUS
  <2>0. /\ node_path_map_ \in Maps(BOOLEAN) /\ node_path_to_remove_ \in Maps(SUBSET Apps)
        /\ thr \in Thread /\ thr.remove \in Maps(SUBSET Apps)
        /\ app \in [Apps -> Caller]
    BY DEF TypeOK, Thread
  <2>k. ASSUME app'[b].pc = app[b].pc \/ {app[b].pc, app'[b].pc} \subseteq {"idle", "insert"},
               thr'.remove = thr.remove, UNCHANGED <<node_path_to_remove_, deletes>>
        PROVE  PromiseFits(b)'
    <3>1. InMap(b)' = InMap(b) /\ InRound(b)' = InRound(b) /\ InFlight(b)' = InFlight(b)
      BY <2>k DEF InMap, InRound, InFlight
    <3>2. PromiseFits(b)
      OBVIOUS
    <3>3. QED
      BY <2>k, <3>1, <3>2 DEF PromiseFits, OnePromise, NoPromise
  <2>1. ASSUME NEW a \in Apps, NEW p \in Paths, NEW blocking \in BOOLEAN,
               RemovePath(a, p, blocking)
        PROVE  PromiseFits(b)'
    BY <2>0, <2>1, <2>k DEF RemovePath, Thread, Idle
  <2>2. ASSUME NEW a \in Apps, RemoveInserted(a) PROVE PromiseFits(b)'
    <3> DEFINE p == app[a].path
               waiters == IF p \in DOMAIN node_path_to_remove_
                            THEN node_path_to_remove_[p] ELSE {}
    <3>1. InRound(b)' = InRound(b) /\ InFlight(b)' = InFlight(b)
      BY <2>2 DEF RemoveInserted, InRound, InFlight
    <3>2. PromiseFits(b) /\ NoPromise(a) /\ app[a].pc = "insert"
      BY <2>2 DEF RemoveInserted, PromiseFits
    <3>3. GetsFuture(a, p) => app'[a].pc = "wait" /\ node_path_to_remove_' = Put(node_path_to_remove_, p, waiters \cup {a})
      BY <2>0, <2>2 DEF RemoveInserted, Inserted, GetsFuture, Waits, Idle
    <3>4. ~GetsFuture(a, p) => /\ app'[a].pc = "idle"
                               /\ node_path_to_remove_' \in {node_path_to_remove_, Put(node_path_to_remove_, p, waiters)}
      BY <2>0, <2>2 DEF RemoveInserted, Inserted, GetsFuture, Idle
    <3>5. b # a \/ ~GetsFuture(a, p) => InMap(b)' = InMap(b)
      BY <3>3, <3>4 DEF InMap, Put
    <3>6. b = a /\ GetsFuture(a, p) => InMap(b)' = {p}
      BY <3>2, <3>3 DEF InMap, Put, NoPromise
    <3>7. b # a => app'[b] = app[b]
      BY <2>0, <2>2 DEF RemoveInserted
    <3> HIDE DEF p, waiters
    <3>8. QED
      BY <3>1, <3>2, <3>3, <3>4, <3>5, <3>6, <3>7 DEF PromiseFits, OnePromise, NoPromise
  <2>3. CASE StartReport \/ Snapshot \/ LoopEnds \/ EndRound
    <3>1. DOMAIN thr.remove = {}
      BY <2>3 DEF StartReport, Snapshot, LoopEnds, EndRound, TypeOK
    <3>2. DOMAIN thr'.remove = {}
      BY <2>3, EmptyMap DEF StartReport, Snapshot, LoopEnds, EndRound, ThreadAt
    <3>3. UNCHANGED <<node_path_to_remove_, app, deletes>>
      BY <2>3 DEF StartReport, Snapshot, LoopEnds, EndRound
    <3>4. InMap(b)' = InMap(b) /\ InRound(b)' = InRound(b) /\ InFlight(b)' = InFlight(b)
      BY <3>1, <3>2, <3>3 DEF InMap, InRound, InFlight
    <3>5. QED
      BY <3>3, <3>4 DEF PromiseFits, OnePromise, NoPromise
  <2>4. CASE Swap
    <3>1. thr'.remove = node_path_to_remove_ /\ DOMAIN thr.remove = {}
          /\ DOMAIN node_path_to_remove_' = {} /\ UNCHANGED <<app, deletes>>
      BY <2>0, <2>4, EmptyMap DEF Swap, Thread, TypeOK
    <3>2. InMap(b)' = {} /\ InRound(b)' = InMap(b) /\ InRound(b) = {} /\ InFlight(b)' = InFlight(b)
      BY <3>1 DEF InMap, InRound, InFlight
    <3>3. QED
      BY <3>1, <3>2 DEF PromiseFits, OnePromise, NoPromise
  <2>5. ASSUME NEW p \in Paths, Taken(p), p \in DOMAIN thr.remove
        PROVE  /\ InRound(b)' = InRound(b) \ {p}
               /\ b \in thr.remove[p] <=> p \in InRound(b)
    BY <2>0, <2>5 DEF Taken, Restrict, Thread, InRound
  <2>6. ASSUME NEW p \in Paths, DeleteServed(p) \/ DeleteFails(p) PROVE PromiseFits(b)'
    <3>1. PICK ok \in BOOLEAN : deletes' = deletes \cup {Request(p, ok)}
      BY <2>6 DEF DeleteServed, DeleteFails
    <3>2. InMap(b)' = InMap(b) /\ app' = app
      BY <2>6 DEF DeleteServed, DeleteFails, InMap
    <3>3. InRound(b)' = InRound(b) \ {p} /\ (b \in thr.remove[p] <=> p \in InRound(b))
      BY <2>5, <2>6 DEF DeleteServed, DeleteFails
    <3>4. InFlight(b)' = IF b \in thr.remove[p] THEN InFlight(b) \cup {Request(p, ok)} ELSE InFlight(b)
      BY <3>1 DEF InFlight, Request
    <3>5. QED
      BY <3>2, <3>3, <3>4 DEF PromiseFits, OnePromise, NoPromise
  <2>7. ASSUME NEW p \in Paths, DeleteRefused(p) PROVE PromiseFits(b)'
    <3>1. InMap(b)' = InMap(b) /\ InFlight(b)' = InFlight(b)
      BY <2>7 DEF DeleteRefused, InMap, InFlight
    <3>2. InRound(b)' = InRound(b) \ {p} /\ (b \in thr.remove[p] <=> p \in InRound(b))
      BY <2>5, <2>7 DEF DeleteRefused
    <3>3. app'[b] = IF b \in thr.remove[p] THEN Idle ELSE app[b]
      BY <2>7 DEF DeleteRefused, Released
    <3>4. CASE b \in thr.remove[p]
      <4>1. app'[b].pc = "idle" /\ InRound(b) = {p} /\ InMap(b) = {} /\ InFlight(b) = {}
        BY <3>2, <3>3, <3>4 DEF PromiseFits, OnePromise, NoPromise, Idle
      <4>2. QED
        BY <3>1, <3>2, <4>1 DEF PromiseFits, NoPromise
    <3>5. CASE b \notin thr.remove[p]
      BY <3>1, <3>2, <3>3, <3>5 DEF PromiseFits, OnePromise, NoPromise
    <3>6. QED
      BY <3>4, <3>5
  <2>8. ASSUME NEW d \in deletes, DeleteCallback(d) PROVE PromiseFits(b)'
    <3> DEFINE again == Retries(d) /\ d.path \notin DOMAIN node_path_to_remove_
    <3>1. InRound(b)' = InRound(b) /\ InFlight(b)' = InFlight(b) \ {d}
      BY <2>8 DEF DeleteCallback, InRound, InFlight
    <3>2. b \in d.waiters <=> d \in InFlight(b)
      BY DEF InFlight
    <3>3. CASE again
      <4>1. app' = app /\ node_path_to_remove_' = Put(node_path_to_remove_, d.path, d.waiters)
        BY <2>8, <3>3 DEF DeleteCallback
      <4>2. InMap(b)' = IF b \in d.waiters THEN InMap(b) \cup {d.path} ELSE InMap(b)
        BY <3>3, <4>1 DEF InMap, Put
      <4>3. QED
        BY <3>1, <3>2, <4>1, <4>2 DEF PromiseFits, OnePromise, NoPromise
    <3>4. CASE ~again
      <4>1. app'[b] = (IF b \in d.waiters THEN Idle ELSE app[b]) /\ InMap(b)' = InMap(b)
        BY <2>8, <3>4 DEF DeleteCallback, Released, InMap
      <4>2. CASE b \in d.waiters
        <5>1. app'[b].pc = "idle" /\ InFlight(b) = {d} /\ InMap(b) = {} /\ InRound(b) = {}
          BY <3>2, <4>1, <4>2 DEF PromiseFits, OnePromise, NoPromise, Idle
        <5>2. QED
          BY <3>1, <4>1, <5>1 DEF PromiseFits, NoPromise
      <4>3. CASE b \notin d.waiters
        BY <3>1, <3>2, <4>1, <4>3 DEF PromiseFits, OnePromise, NoPromise
      <4>4. QED
        BY <4>2, <4>3
    <3>5. QED
      BY <3>3, <3>4
  <2>9. CASE DeletesSent \/ \E p \in Paths : Report(p)
    BY <2>0, <2>9, <2>k DEF DeletesSent, Report, Thread
  <2>10. CASE Exists \/ DeleteForeign \/ Create \/ Set \/ Verify \/ RequestFails \/ SessionDead
              \/ ConnectFails
    <3>1. thr'.remove = thr.remove
      BY <2>0, <2>10 DEF Exists, DeleteForeign, Create, Set, Verify, RequestFails,
         SessionDead, ConnectFails, Goes, Returns, Thread
    <3>2. UNCHANGED <<app, node_path_to_remove_, deletes>>
      BY <2>10 DEF Exists, DeleteForeign, Create, Set, Verify, RequestFails, SessionDead,
         ConnectFails
    <3>3. QED
      BY <2>k, <3>1, <3>2
  <2>11. CASE UNCHANGED <<app, node_path_to_remove_, deletes, thr>>
    BY <2>11, <2>k
  <2>12. QED
    BY <2>1, <2>2, <2>3, <2>4, <2>6, <2>7, <2>8, <2>9, <2>10, <2>11
       DEF Next, HeartbeatThread, Callbacks, Register, vars, AddPathToReport, StopReport,
           SessionLost, OldSessionEnds
<1>3. Fits <=> NobodyWaitsInVain
  BY NobodyWaitsIsPromiseFits
<1> HIDE DEF Fits
<1>4. QED
  BY <1>1, <1>2, <1>3, TypeCorrect, PTL DEF Spec, PromisesOK

-----------------------------------------------------------------------------
\* Only waiting threads have promises, so that releasing the threads of a
\* promise disturbs no thread in the middle of RemovePath.
LEMMA WaitersWait ==
  ASSUME PromisesOK, NEW a \in Apps
  PROVE  /\ \A p \in DOMAIN thr.remove : a \in thr.remove[p] => app[a].pc = "wait"
         /\ \A d \in deletes : a \in d.waiters => app[a].pc = "wait"
<1>1. PromiseFits(a)
  BY NobodyWaitsIsPromiseFits DEF PromisesOK
<1>2. QED
  BY <1>1 DEF PromiseFits, NoPromise, InRound, InFlight

\* Whatever fails, a removal is not forgotten.  NoForgottenRemoval is not
\* inductive: Report may create the node of a path that has been removed
\* meanwhile, so the invariant has to say that its removal is then still to
\* come (RemovalOutlivesRound); and DeleteRefused drops a removal, which is
\* harmless because a dead session owns no node (DeadOwnsNothing).
THEOREM RemovalsNotForgotten == Spec => []NoForgottenRemoval
<1>1. Init => RemovalInv
  BY DEF Init, RemovalInv, DeadOwnsNothing, RemovalOutlivesRound, NoForgottenRemoval, ThreadAt
<1>2. PromisesOK /\ RemovalInv /\ [Next]_vars => RemovalInv'
  <2> SUFFICES ASSUME PromisesOK, RemovalInv, [Next]_vars PROVE RemovalInv'
    OBVIOUS
  <2> USE DEF RemovalInv
  <2>0. /\ TypeOK
        /\ thr \in Thread /\ app \in [Apps -> Caller] /\ zk \in [Paths -> {"none", "mine", "old"}]
        /\ DOMAIN thr.remove # {} => thr.pc = "delete"
    BY DEF PromisesOK, TypeOK
  <2>1. ASSUME NEW p \in Paths, AddPathToReport(p) PROVE RemovalInv'
    <3>1. DOMAIN node_path_map_' = DOMAIN node_path_map_ \cup {p}
      BY <2>1 DEF AddPathToReport, Put
    <3>2. QED
      BY <2>1, <3>1 DEF AddPathToReport, DeadOwnsNothing, RemovalOutlivesRound,
         NoForgottenRemoval, RemovalPending
  <2>2. ASSUME NEW a \in Apps, NEW p \in Paths, NEW blocking \in BOOLEAN,
               RemovePath(a, p, blocking)
        PROVE  RemovalInv'
    <3>1. DOMAIN node_path_map_' = DOMAIN node_path_map_ \ {p}
      BY <2>2 DEF RemovePath, Restrict
    <3>2. thr'.pc = thr.pc /\ thr'.todo = thr.todo /\ thr'.remove = thr.remove
      BY <2>0, <2>2 DEF RemovePath, Thread
    <3>3. /\ app[a].pc = "idle"
          /\ \A b \in Apps \ {a} : app'[b] = app[b]
          /\ app'[a].pc = "insert" /\ app'[a].path = p
          /\ p \in DOMAIN node_path_map_ => app'[a].exist
      <4>1. app'[a] = [pc |-> "insert", path |-> p, blocking |-> blocking,
                       exist |-> p \in DOMAIN node_path_map_]
        BY <2>0, <2>2 DEF RemovePath
      <4>2. p \in DOMAIN node_path_map_ => app'[a].exist
        <5> DEFINE exist == p \in DOMAIN node_path_map_
        <5>1. exist \in BOOLEAN
          OBVIOUS
        <5>2. app'[a] = [pc |-> "insert", path |-> p, blocking |-> blocking, exist |-> exist]
          BY <4>1
        <5> HIDE DEF exist
        <5>3. app'[a].exist = exist
          BY <5>2
        <5>4. QED
          BY <5>1, <5>3 DEF exist
      <4>3. QED
        BY <2>0, <2>2, <4>1, <4>2 DEF RemovePath, Idle
    <3>4. UNCHANGED <<node_path_to_remove_, deletes, zk, session, raced>>
      BY <2>2 DEF RemovePath
    <3>5. RemovalOutlivesRound'
      BY <3>1, <3>2, <3>3, <3>4 DEF RemovalOutlivesRound
    <3>6. NoForgottenRemoval'
      BY <3>1, <3>2, <3>3, <3>4 DEF NoForgottenRemoval, RemovalPending
    <3>7. QED
      BY <3>4, <3>5, <3>6 DEF DeadOwnsNothing
  <2>3. ASSUME NEW a \in Apps, RemoveInserted(a) PROVE RemovalInv'
    <3> DEFINE p == app[a].path
    <3>1. p \in Paths /\ app[a].pc = "insert"
      BY <2>0, <2>3 DEF RemoveInserted, TypeOK
    <3>2. /\ DOMAIN node_path_to_remove_ \subseteq DOMAIN node_path_to_remove_'
          /\ app[a].exist => p \in DOMAIN node_path_to_remove_'
      BY <2>3 DEF RemoveInserted, Inserted, Put
    <3>3. \A b \in Apps \ {a} : app'[b] = app[b]
      BY <2>0, <2>3 DEF RemoveInserted
    <3>4. raced' = IF thr.pc = "swap" /\ p \in thr.todo THEN raced \cup {p}
                   ELSE IF p \in DOMAIN node_path_to_remove_' THEN raced \ {p}
                   ELSE raced
      BY <2>3 DEF RemoveInserted
    <3>5. UNCHANGED <<node_path_map_, thr, deletes, zk, session>>
      BY <2>3 DEF RemoveInserted
    <3> HIDE DEF p
    <3>6. RemovalOutlivesRound'
      <4> SUFFICES ASSUME NEW q \in thr.todo \ (DOMAIN node_path_map_ \cup raced')
                   PROVE  \/ \E b \in Apps : app'[b].pc = "insert" /\ app'[b].path = q /\ app'[b].exist
                          \/ thr.pc # "swap" /\ q \in DOMAIN node_path_to_remove_'
        BY <3>5 DEF RemovalOutlivesRound
      <4>1. CASE q = p
        BY <3>2, <3>3, <3>4, <4>1 DEF RemovalOutlivesRound, p
      <4>2. CASE q # p
        BY <3>2, <3>3, <3>4, <4>2 DEF RemovalOutlivesRound, p
      <4>3. QED BY <4>1, <4>2
    <3>7. NoForgottenRemoval'
      <4> SUFFICES ASSUME NEW q \in Paths \ (DOMAIN node_path_map_ \cup raced'), zk[q] = "mine"
                   PROVE  RemovalPending(q)'
        BY <3>5 DEF NoForgottenRemoval
      <4>1. CASE q = p
        BY <3>2, <3>3, <3>4, <3>5, <4>1 DEF NoForgottenRemoval, RemovalPending, p
      <4>2. CASE q # p
        BY <3>2, <3>3, <3>4, <3>5, <4>2 DEF NoForgottenRemoval, RemovalPending, p
      <4>3. QED BY <4>1, <4>2
    <3>8. QED
      BY <3>5, <3>6, <3>7 DEF DeadOwnsNothing
  <2>4. CASE StopReport \/ UNCHANGED vars
    BY <2>4 DEF StopReport, vars, DeadOwnsNothing, RemovalOutlivesRound,
       NoForgottenRemoval, RemovalPending
  <2>5. CASE StartReport \/ Snapshot \/ LoopEnds \/ EndRound
    <3>1. DOMAIN thr.remove = {}
      BY <2>0, <2>5 DEF StartReport, Snapshot, LoopEnds, EndRound
    <3>2. thr'.todo \subseteq DOMAIN node_path_map_
      BY <2>5 DEF StartReport, Snapshot, LoopEnds, EndRound, ThreadAt
    <3>3. UNCHANGED <<node_path_map_, node_path_to_remove_, app, deletes, zk, session, raced>>
      BY <2>5 DEF StartReport, Snapshot, LoopEnds, EndRound
    <3>4. QED
      BY <3>1, <3>2, <3>3 DEF DeadOwnsNothing, RemovalOutlivesRound, NoForgottenRemoval,
         RemovalPending
  <2>6. CASE Swap
    <3>1. thr'.remove = node_path_to_remove_ /\ thr'.todo = thr.todo /\ thr.pc = "swap"
      BY <2>0, <2>6 DEF Swap, Thread
    <3>2. DOMAIN thr.remove = {}
      BY <2>0, <3>1
    <3>3. QED
      BY <2>6, <3>1, <3>2 DEF Swap, DeadOwnsNothing, RemovalOutlivesRound, NoForgottenRemoval,
         RemovalPending
  <2>7. CASE DeletesSent \/ \E p \in Paths : Report(p)
    <3>1. /\ thr'.remove = thr.remove /\ thr'.todo = thr.todo
          /\ thr.pc # "swap" /\ thr'.pc # "swap"
      BY <2>0, <2>7 DEF DeletesSent, Report, Thread
    <3>2. UNCHANGED <<node_path_map_, node_path_to_remove_, app, deletes, zk, session, raced>>
      BY <2>7 DEF DeletesSent, Report
    <3>3. QED
      BY <3>1, <3>2 DEF DeadOwnsNothing, RemovalOutlivesRound, NoForgottenRemoval, RemovalPending
  <2>8. ASSUME NEW p \in Paths, DeleteServed(p) \/ DeleteFails(p) \/ DeleteRefused(p)
        PROVE  RemovalInv'
    <3>1. /\ thr.pc = "delete" /\ p \in DOMAIN thr.remove
          /\ thr'.pc = "delete" /\ thr'.todo = thr.todo
          /\ DOMAIN thr'.remove = DOMAIN thr.remove \ {p}
      BY <2>0, <2>8 DEF DeleteServed, DeleteFails, DeleteRefused, Taken, Thread, Restrict
    <3>2. \/ zk'[p] # "mine"
          \/ \E d \in deletes' : d.path = p /\ ~d.ok
      BY <2>0, <2>8 DEF DeleteServed, DeleteFails, DeleteRefused, Request, DeadOwnsNothing
    <3>3. /\ \A q \in Paths : zk'[q] = "mine" => zk[q] = "mine"
          /\ deletes \subseteq deletes'
          /\ UNCHANGED <<node_path_map_, node_path_to_remove_, session, raced>>
      BY <2>0, <2>8 DEF DeleteServed, DeleteFails, DeleteRefused
    <3>4. \A b \in Apps : app[b].pc = "insert" => app'[b] = app[b]
      BY <2>0, <2>8, WaitersWait DEF DeleteServed, DeleteFails, DeleteRefused, Released
    <3>5. QED
      BY <3>1, <3>2, <3>3, <3>4 DEF DeadOwnsNothing, RemovalOutlivesRound, NoForgottenRemoval,
         RemovalPending
  <2>9. ASSUME NEW d \in deletes, DeleteCallback(d) PROVE RemovalInv'
    <3>1. /\ DOMAIN node_path_to_remove_ \subseteq DOMAIN node_path_to_remove_'
          /\ ~d.ok => d.path \in DOMAIN node_path_to_remove_'
      BY <2>9 DEF DeleteCallback, Retries, Put
    <3>2. \A b \in Apps : app[b].pc = "insert" => app'[b] = app[b]
      BY <2>9, WaitersWait DEF DeleteCallback, Released
    <3>3. deletes' = deletes \ {d} /\ UNCHANGED <<node_path_map_, thr, zk, session, raced>>
      BY <2>9 DEF DeleteCallback
    <3>4. QED
      BY <3>1, <3>2, <3>3 DEF DeadOwnsNothing, RemovalOutlivesRound, NoForgottenRemoval,
         RemovalPending
  <2>10. ASSUME thr.pc \in Reporting,
                thr'.remove = thr.remove /\ thr'.todo \subseteq thr.todo /\ thr'.pc # "swap",
                DOMAIN node_path_map_' = DOMAIN node_path_map_,
                UNCHANGED <<node_path_to_remove_, app, deletes, raced>>,
                DeadOwnsNothing',
                \A q \in Paths : zk'[q] = "mine" => zk[q] = "mine" \/ q = thr.path
         PROVE  RemovalInv'
    <3>1. thr.pc # "swap" /\ thr.path \in thr.todo
      BY <2>0, <2>10 DEF Reporting, TypeOK
    <3>2. RemovalOutlivesRound'
      BY <2>10, <3>1 DEF RemovalOutlivesRound
    <3>3. NoForgottenRemoval'
      BY <2>10, <3>1 DEF RemovalOutlivesRound, NoForgottenRemoval, RemovalPending
    <3>4. QED
      BY <2>10, <3>2, <3>3
  <2>11. CASE Exists \/ DeleteForeign \/ Create \/ Set \/ Verify \/ RequestFails \/ SessionDead
              \/ ConnectFails
    <3>1. /\ thr.pc \in Reporting
          /\ UNCHANGED <<node_path_to_remove_, app, deletes, raced>>
      BY <2>11 DEF Exists, DeleteForeign, Create, Set, Verify, RequestFails, SessionDead,
         ConnectFails, Reporting
    <3>2. \/ \E pc \in Reporting : Goes(pc) /\ UNCHANGED node_path_map_
          \/ \E success \in BOOLEAN : Returns(success)
      BY <2>11 DEF Exists, DeleteForeign, Create, Set, Verify, RequestFails, SessionDead,
         ConnectFails, Reporting
    <3>3. /\ thr'.remove = thr.remove /\ thr'.todo \subseteq thr.todo /\ thr'.pc # "swap"
          /\ DOMAIN node_path_map_' = DOMAIN node_path_map_
      BY <2>0, <3>1, <3>2, GoesKeeps, ReturnsKeeps DEF Reporting
    <3>4. \A q \in Paths : zk'[q] = "mine" => zk[q] = "mine" \/ q = thr.path
      BY <2>0, <2>11 DEF Exists, DeleteForeign, Create, Set, Verify, RequestFails, SessionDead,
         ConnectFails
    <3>5. DeadOwnsNothing'
      BY <2>0, <2>11 DEF Exists, DeleteForeign, Create, Set, Verify, RequestFails, SessionDead,
         ConnectFails, DeadOwnsNothing
    <3>6. QED
      BY <2>10, <3>1, <3>3, <3>4, <3>5
  <2>12. CASE SessionLost \/ OldSessionEnds
    <3>1. DeadOwnsNothing' /\ \A q \in Paths : zk'[q] = "mine" => zk[q] = "mine"
      BY <2>0, <2>12 DEF SessionLost, OldSessionEnds, DeadOwnsNothing
    <3>2. UNCHANGED <<node_path_map_, node_path_to_remove_, thr, app, deletes, raced>>
      BY <2>12 DEF SessionLost, OldSessionEnds
    <3>3. QED
      BY <3>1, <3>2 DEF RemovalOutlivesRound, NoForgottenRemoval, RemovalPending
  <2>13. QED
    BY <2>1, <2>2, <2>3, <2>4, <2>5, <2>6, <2>7, <2>8, <2>9, <2>11, <2>12
       DEF Next, HeartbeatThread, Callbacks, Register
<1>3. QED
  BY <1>1, <1>2, PromisesKept, PTL DEF Spec, RemovalInv
=============================================================================

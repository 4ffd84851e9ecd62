----------------------- MODULE HeartbeatReceiverProofs -----------------------
(***************************************************************************)
(* The invariants of HeartbeatReceiver for every set of paths and nodes,   *)
(* every number of application threads and every bound.                    *)
(***************************************************************************)
EXTENDS HeartbeatReceiver, TLAPS

\* The heartbeat thread is inside Receive.
Receiving == {"exists", "compare", "children", "update", "store"}

\* ZooKeeper's records, whose versions count the changes that were made.
ZkOK ==
  /\ spent \in [calls : Nat, changes : 0..MaxChanges, failures : Nat]
  /\ zk \in [Paths -> [exists : BOOLEAN, cversion : 0..spent.changes, children : SUBSET Nodes]]

\* A scan works on subscribed paths only.  The one exception is a path that a
\* RemovePath has erased under it, which is then waiting for the scan to end.
ScanOK ==
  /\ scan.todo \subseteq DOMAIN paths_
  /\ scan.pc \in Receiving /\ scan.attached => scan.path \in DOMAIN paths_
  /\ scan.pc \in Receiving => scan.path \in Paths
  /\ scan.pc \notin Receiving => scan.path = NoPath /\ scan.attached
  /\ ~scan.attached => \E a \in Apps : /\ app[a].pc = "update_lock_"
                                       /\ scan.path \in Below(app[a].paths)

TypeInv == TypeOK /\ ZkOK /\ ScanOK

\* What a removal under way may count on: its paths have not been added
\* again, and once it has waited for the scan no scan is on one of them.
ExpectsOK ==
  \A a \in Apps :
    /\ app[a].expects \subseteq Below(app[a].paths) \ DOMAIN paths_
    /\ app[a].pc = "collection" /\ scan.pc \in Receiving => scan.path \notin app[a].expects

\* The same of the removals that have returned.
RemovedOK ==
  \A p \in removed :
    /\ p \notin DOMAIN paths_ \cup DOMAIN collection
    /\ scan.pc \in Receiving => scan.path # p

RemoveInv == ExpectsOK /\ RemovedOK

\* No path is subscribed to while a removal of it is under way: applications
\* do not add a path that another of their threads is still removing.
NoOverlap ==
  \A a \in Apps : app[a].pc # "idle" => DOMAIN paths_ \cap Below(app[a].paths) = {}

\* Versions only grow, so that the status lags behind ZooKeeper.
VersionsLag ==
  \A p \in DOMAIN paths_ \ Deletable :
    IF zk[p].exists THEN paths_[p].cversion <= zk[p].cversion
    ELSE paths_[p].cversion = INVALID_CHILDVERSION

\* What Receive has read of a path that cannot be deleted.
ReadOK ==
  scan.path \notin Deletable =>
    /\ scan.pc \in Receiving \ {"exists"} => zk[scan.path].exists
    /\ scan.pc \in {"update", "store"} =>
         /\ scan.cversion <= zk[scan.path].cversion
         /\ scan.cversion = zk[scan.path].cversion => scan.children = zk[scan.path].children
         /\ scan.attached => paths_[scan.path].cversion <= scan.cversion

\* The list has been written before the version is.
ListFirst ==
  scan.pc = "store" /\ scan.attached =>
    scan.path \in DOMAIN collection /\ collection[scan.path] = scan.children

VersionInv == VersionsLag /\ ReadOK /\ ListFirst /\ VersionMeansCurrent

-----------------------------------------------------------------------------
\* A heartbeat thread between two paths.
LEMMA ScanAtType ==
  ASSUME NEW pc \in {"top", "next", "exit", "exists"}, NEW todo \in SUBSET Paths
  PROVE  /\ ScanAt(pc, todo) \in Scan
         /\ ScanAt(pc, todo).pc = pc /\ ScanAt(pc, todo).todo = todo
         /\ ScanAt(pc, todo).attached = TRUE /\ ScanAt(pc, todo).path = NoPath
BY ReceiverAssumption DEF ScanAt, Scan

\* The paths below a set of paths.
LEMMA BelowType ==
  ASSUME NEW paths \in SUBSET Paths
  PROVE  Below(paths) \subseteq Paths /\ paths \subseteq Below(paths)
BY ReceiverAssumption DEF Below

\* Types, and what a scan may be working on, are kept by every step.
THEOREM TypeCorrect == Spec => []TypeInv
<1>1. Init => TypeInv
  <2> SUFFICES ASSUME Init PROVE TypeInv
    OBVIOUS
  <2>1. /\ scan \in Scan /\ scan.pc = "top" /\ scan.todo = {} /\ scan.attached = TRUE
        /\ scan.path = NoPath
    BY ScanAtType DEF Init
  <2>2. TypeOK
    <3>1. app \in [Apps -> Caller]
      BY DEF Init, Idle, Caller
    <3>2. QED
      BY <2>1, <3>1 DEF Init, TypeOK, NewStatus
  <2>3. ZkOK
    BY ReceiverAssumption DEF Init, ZkOK
  <2>4. ScanOK
    BY <2>1 DEF ScanOK, Receiving
  <2>5. QED
    BY <2>2, <2>3, <2>4 DEF TypeInv
<1>2. TypeInv /\ [Next]_vars => TypeInv'
  <2> SUFFICES ASSUME TypeInv, [Next]_vars PROVE TypeInv'
    OBVIOUS
  <2>0. TypeOK /\ ZkOK /\ ScanOK /\ scan \in Scan /\ app \in [Apps -> Caller]
        /\ paths_ \in [DOMAIN paths_ -> Status] /\ DOMAIN paths_ \subseteq Paths
    BY DEF TypeInv, TypeOK
  <2>2. ASSUME NEW a \in Apps, NEW paths \in SUBSET Paths, AddPaths(a, paths) PROVE TypeInv'
    <3>1. paths_' \in [DOMAIN paths_' -> Status] /\ DOMAIN paths_' = DOMAIN paths_ \cup paths
      <4>1. NewStatus \in Status
        BY ReceiverAssumption DEF Status, NewStatus, INVALID_CHILDVERSION
      <4>2. \A s \in Status : [s EXCEPT !.next_scan_time = "zero"] \in Status
        BY DEF Status
      <4>3. QED
        BY <2>0, <2>2, <4>1, <4>2 DEF AddPaths
    <3>2. /\ app' \in [Apps -> Caller]
          /\ \A b \in Apps : app'[b].pc = app[b].pc /\ app'[b].paths = app[b].paths
      BY <2>0, <2>2 DEF AddPaths, Caller
    <3>3. TypeOK'
      BY <2>0, <2>2, <3>1, <3>2 DEF AddPaths, TypeOK
    <3>4. ZkOK'
      BY <2>0, <2>2 DEF AddPaths, ZkOK
    <3>5. ScanOK'
      BY <2>0, <2>2, <3>1, <3>2 DEF AddPaths, ScanOK
    <3>6. QED
      BY <3>3, <3>4, <3>5 DEF TypeInv
  <2>3. ASSUME NEW a \in Apps, NEW paths \in SUBSET Paths, RemovePath(a, paths) PROVE TypeInv'
    <3> DEFINE gone == Below(paths)
    <3>1. paths_' \in [DOMAIN paths_' -> Status] /\ DOMAIN paths_' = DOMAIN paths_ \ gone
      BY <2>0, <2>3 DEF RemovePath, Restrict
    <3>2. /\ app' \in [Apps -> Caller] /\ app[a].pc = "idle"
          /\ app'[a].pc = "update_lock_" /\ app'[a].paths = paths
          /\ \A b \in Apps \ {a} : app'[b] = app[b]
      BY <2>0, <2>3, BelowType DEF RemovePath, Caller, Idle
    <3>3. /\ scan' \in Scan /\ scan'.pc = scan.pc /\ scan'.todo = scan.todo \ gone
          /\ scan'.path = scan.path
          /\ scan'.attached = (scan.attached /\ scan.path \notin gone)
      BY <2>0, <2>3 DEF RemovePath, Scan
    <3> HIDE DEF gone
    <3>4. TypeOK'
      BY <2>0, <2>3, <3>1, <3>2, <3>3 DEF RemovePath, TypeOK
    <3>5. ZkOK'
      BY <2>0, <2>3 DEF RemovePath, ZkOK
    <3>6. ScanOK'
      <4>1. NoPath \notin gone
        BY BelowType, ReceiverAssumption DEF gone
      <4>2. QED
        BY <2>0, <3>1, <3>2, <3>3, <4>1 DEF ScanOK, gone
    <3>7. QED
      BY <3>4, <3>5, <3>6 DEF TypeInv
  <2>4. ASSUME NEW a \in Apps, RemoveWaited(a) PROVE TypeInv'
    <3>1. /\ app' \in [Apps -> Caller] /\ \A b \in Apps \ {a} : app'[b] = app[b]
      BY <2>0, <2>4 DEF RemoveWaited, Caller
    <3>2. scan.attached
      BY <2>0, <2>4 DEF RemoveWaited, NoScan, ScanOK, Receiving
    <3>3. QED
      BY <2>0, <2>4, <3>1, <3>2 DEF RemoveWaited, TypeInv, TypeOK, ZkOK, ScanOK
  <2>5. ASSUME NEW a \in Apps, RemoveFromCollection(a) PROVE TypeInv'
    <3>1. /\ app' \in [Apps -> Caller] /\ \A b \in Apps \ {a} : app'[b] = app[b]
          /\ app[a].pc = "collection" /\ app[a].expects \subseteq Paths
      BY <2>0, <2>5 DEF RemoveFromCollection, Caller, Idle
    <3>2. /\ DOMAIN collection' \subseteq DOMAIN collection
          /\ collection' \in [DOMAIN collection' -> SUBSET Nodes]
      BY <2>0, <2>5 DEF RemoveFromCollection, Restrict, TypeOK
    <3>3. TypeOK'
      BY <2>0, <2>5, <3>1, <3>2 DEF RemoveFromCollection, TypeOK
    <3>4. ScanOK'
      BY <2>0, <2>5, <3>1 DEF RemoveFromCollection, ScanOK
    <3>5. QED
      BY <2>0, <2>5, <3>3, <3>4 DEF RemoveFromCollection, TypeInv, ZkOK
  <2>6. CASE StopReceive
    BY <2>0, <2>6 DEF StopReceive, TypeInv, TypeOK, ZkOK, ScanOK
  <2>7. ASSUME NEW pc \in {"top", "next", "exit"}, NEW todo \in SUBSET DOMAIN paths_,
               scan' = ScanAt(pc, todo), DOMAIN paths_' = DOMAIN paths_
        PROVE  scan' \in Scan /\ ScanOK'
    <3>1. todo \in SUBSET Paths
      BY <2>0
    <3>2. pc \in {"top", "next", "exit", "exists"}
      OBVIOUS
    <3>3. /\ scan' \in Scan /\ scan'.pc = pc /\ scan'.todo = todo /\ scan'.attached = TRUE
          /\ scan'.path = NoPath
      BY <2>7, <3>1, <3>2, ReceiverAssumption DEF ScanAt, Scan
    <3>4. QED
      BY <2>7, <3>3 DEF ScanOK, Receiving
  <2>8. CASE StartReceive
    <3>1. scan' \in Scan /\ ScanOK'
      BY <2>7, <2>8 DEF StartReceive
    <3>2. QED
      BY <2>0, <2>8, <3>1 DEF StartReceive, TypeInv, TypeOK, ZkOK
  <2>9. ASSUME NEW p \in Paths, CommonWatcher(p) PROVE TypeInv'
    <3>1. paths_' \in [DOMAIN paths_' -> Status] /\ DOMAIN paths_' = DOMAIN paths_
      BY <2>0, <2>9 DEF CommonWatcher, Status
    <3>2. QED
      BY <2>0, <2>9, <3>1 DEF CommonWatcher, TypeInv, TypeOK, ZkOK, ScanOK
  <2>10. CASE StartScan \/ LoopEnds
    <3>1. scan' \in Scan /\ ScanOK'
      BY <2>7, <2>10 DEF StartScan, LoopEnds
    <3>2. QED
      BY <2>0, <2>10, <3>1 DEF StartScan, LoopEnds, TypeInv, TypeOK, ZkOK
  <2>11. CASE EndScan
    <3>1. scan' \in Scan /\ ScanOK'
      BY <2>7, <2>11 DEF EndScan
    <3>2. QED
      BY <2>0, <2>11, <3>1 DEF EndScan, TypeInv, TypeOK, ZkOK
  <2>12. scan.todo \in SUBSET DOMAIN paths_ /\ \A p : scan.todo \ {p} \in SUBSET DOMAIN paths_
    BY <2>0 DEF ScanOK
  <2>13. ASSUME NEW p \in Paths, NotDue(p) PROVE TypeInv'
    <3>1. scan' \in Scan /\ ScanOK'
      BY <2>7, <2>12, <2>13 DEF NotDue
    <3>2. QED
      BY <2>0, <2>13, <3>1 DEF NotDue, TypeInv, TypeOK, ZkOK
  <2>14. ASSUME NEW p \in Paths, Receive(p) PROVE TypeInv'
    <3> DEFINE s == ScanAt("exists", scan.todo \ {p})
    <3>1. scan.todo \ {p} \in SUBSET Paths /\ p \in DOMAIN paths_
      BY <2>0, <2>14 DEF Receive, ScanOK
    <3>2. s \in Scan /\ s.pc = "exists" /\ s.todo = scan.todo \ {p} /\ s.attached = TRUE
      BY <3>1, ScanAtType
    <3>3. scan' = [s EXCEPT !.path = p]
      BY <2>14 DEF Receive
    <3> HIDE DEF s
    <3>4. /\ scan' \in Scan /\ scan'.path = p /\ scan'.todo = scan.todo \ {p}
          /\ scan'.attached = TRUE /\ scan'.pc \in Receiving
      BY <3>2, <3>3 DEF Scan, Receiving
    <3>5. QED
      BY <2>0, <2>12, <2>14, <3>1, <3>4 DEF Receive, TypeInv, TypeOK, ZkOK, ScanOK
  <2>15. CASE CallFails
    <3>1. scan' \in Scan /\ ScanOK'
      BY <2>7, <2>12, <2>15 DEF CallFails
    <3>2. QED
      BY <2>0, <2>15, <3>1 DEF CallFails, TypeInv, TypeOK, ZkOK
  <2>16. CASE NoNode
    <3>1. paths_' \in [DOMAIN paths_' -> Status] /\ DOMAIN paths_' = DOMAIN paths_
      BY <2>0, <2>16 DEF NoNode, Status
    <3>2. scan' \in Scan /\ ScanOK'
      BY <2>7, <2>12, <2>16, <3>1 DEF NoNode
    <3>3. QED
      BY <2>0, <2>16, <3>1, <3>2 DEF NoNode, TypeInv, TypeOK, ZkOK
  <2>17. scan.pc \in Receiving => /\ zk[scan.path].cversion \in 0..MaxChanges
                                   /\ zk[scan.path].children \in SUBSET Nodes
    <3>1. 0..spent.changes \subseteq 0..MaxChanges
      BY <2>0, ReceiverAssumption DEF ZkOK
    <3>2. QED
      BY <2>0, <3>1 DEF ScanOK, ZkOK
  <2>18. ASSUME scan.pc \in Receiving, scan'.pc \in Receiving, scan' \in Scan, scan'.todo = scan.todo,
                scan'.path = scan.path, scan'.attached = scan.attached,
                UNCHANGED <<paths_, app>>
         PROVE  ScanOK'
    BY <2>0, <2>18 DEF ScanOK
  <2>19. CASE Exists
    <3>1. scan.pc \in Receiving
      BY <2>19 DEF Exists, Receiving
    <3>2. /\ scan' \in Scan /\ scan'.pc \in Receiving /\ scan'.todo = scan.todo
          /\ scan'.path = scan.path /\ scan'.attached = scan.attached
      BY <2>0, <2>17, <2>19, <3>1 DEF Exists, Scan, Receiving
    <3>3. ScanOK'
      BY <2>18, <2>19, <3>1, <3>2 DEF Exists
    <3>4. QED
      BY <2>0, <2>19, <3>2, <3>3 DEF Exists, TypeInv, TypeOK, ZkOK
  <2>20. CASE CompareVersion
    <3>1. scan.pc \in Receiving
      BY <2>20 DEF CompareVersion, Receiving
    <3>2. UNCHANGED <<paths_, skip_sleep_, running, collection, app, zk, events, removed, spent>>
      BY <2>20 DEF CompareVersion
    <3>3. CASE scan' = ScanAt("next", scan.todo)
      BY <2>0, <2>7, <2>12, <3>2, <3>3 DEF TypeInv, TypeOK, ZkOK
    <3>4. CASE \E time \in {"zero", "past", "later", "never"} :
                 scan' = [scan EXCEPT !.pc = "children", !.next_scan_time = time]
      <4>1. /\ scan' \in Scan /\ scan'.pc \in Receiving /\ scan'.todo = scan.todo
            /\ scan'.path = scan.path /\ scan'.attached = scan.attached
        BY <2>0, <3>4 DEF Scan, Receiving
      <4>2. ScanOK'
        BY <2>18, <3>1, <3>2, <4>1
      <4>3. QED
        BY <2>0, <3>2, <4>1, <4>2 DEF TypeInv, TypeOK, ZkOK
    <3>5. scan.attached => paths_[scan.path].next_scan_time \in {"zero", "past", "later"}
      BY <2>0, <3>1 DEF ScanOK, Status
    <3>6. QED
      BY <2>20, <3>3, <3>4, <3>5 DEF CompareVersion
  <2>21. CASE GetChildren
    <3>1. scan.pc \in Receiving
      BY <2>21 DEF GetChildren, Receiving
    <3>2. /\ scan' \in Scan /\ scan'.pc \in Receiving /\ scan'.todo = scan.todo
          /\ scan'.path = scan.path /\ scan'.attached = scan.attached
      BY <2>0, <2>17, <2>21, <3>1 DEF GetChildren, Scan, Receiving
    <3>3. ScanOK'
      BY <2>18, <2>21, <3>1, <3>2 DEF GetChildren
    <3>4. QED
      BY <2>0, <2>21, <3>2, <3>3 DEF GetChildren, TypeInv, TypeOK, ZkOK
  <2>22. CASE ChildrenGone
    <3>1. scan' \in Scan /\ ScanOK'
      BY <2>7, <2>12, <2>22 DEF ChildrenGone
    <3>2. QED
      BY <2>0, <2>22, <3>1 DEF ChildrenGone, TypeInv, TypeOK, ZkOK
  <2>23. CASE UpdateHeartbeat
    <3>1. scan.pc \in Receiving /\ scan.path \in Paths /\ scan.children \in SUBSET Nodes
      BY <2>0, <2>23 DEF UpdateHeartbeat, Receiving, ScanOK, Scan
    <3>2. /\ scan' \in Scan /\ scan'.pc \in Receiving /\ scan'.todo = scan.todo
          /\ scan'.path = scan.path /\ scan'.attached = scan.attached
      BY <2>0, <2>23 DEF UpdateHeartbeat, Scan, Receiving
    <3>3. ScanOK'
      BY <2>18, <2>23, <3>1, <3>2 DEF UpdateHeartbeat
    <3>4. /\ DOMAIN collection' \subseteq Paths
          /\ collection' \in [DOMAIN collection' -> SUBSET Nodes]
      BY <2>0, <2>23, <3>1 DEF UpdateHeartbeat, TypeOK
    <3>5. QED
      BY <2>0, <2>23, <3>2, <3>3, <3>4 DEF UpdateHeartbeat, TypeInv, TypeOK, ZkOK
  <2>24. CASE StoreStatus
    <3>1. scan.pc \in Receiving /\ scan.cversion \in INVALID_CHILDVERSION..MaxChanges
      BY <2>0, <2>24, ReceiverAssumption
         DEF StoreStatus, Receiving, Scan, INVALID_CHILDVERSION
    <3>2. paths_' \in [DOMAIN paths_' -> Status] /\ DOMAIN paths_' = DOMAIN paths_
      BY <2>0, <2>24, <3>1 DEF StoreStatus, Status
    <3>3. skip_sleep_' \in BOOLEAN
      BY <2>0, <2>24 DEF StoreStatus, TypeOK
    <3>4. scan' \in Scan /\ ScanOK'
      BY <2>7, <2>12, <2>24, <3>2 DEF StoreStatus
    <3>5. QED
      BY <2>0, <2>24, <3>2, <3>3, <3>4 DEF StoreStatus, TypeInv, TypeOK, ZkOK
  <2>25. ASSUME NEW p \in Paths, TimePasses(p) PROVE TypeInv'
    <3>1. paths_' \in [DOMAIN paths_' -> Status] /\ DOMAIN paths_' = DOMAIN paths_
      BY <2>0, <2>25 DEF TimePasses, Status
    <3>2. QED
      BY <2>0, <2>25, <3>1 DEF TimePasses, TypeInv, TypeOK, ZkOK, ScanOK
  <2>26. ASSUME NEW p \in Paths,
                NEW node \in [exists : BOOLEAN, cversion : 0..(spent.changes + 1),
                              children : SUBSET Nodes],
                ZkChanges(p, node)
         PROVE  TypeInv'
    <3>1. spent' \in [calls : Nat, changes : 0..MaxChanges, failures : Nat]
          /\ spent'.changes = spent.changes + 1 /\ spent.changes \in Nat
      BY <2>0, <2>26, ReceiverAssumption DEF ZkChanges, ZkOK
    <3>2. zk' \in [Paths -> [exists : BOOLEAN, cversion : 0..spent'.changes, children : SUBSET Nodes]]
      BY <2>0, <2>26, <3>1 DEF ZkChanges, ZkOK
    <3>3. QED
      BY <2>0, <2>26, <3>1, <3>2 DEF ZkChanges, TypeInv, TypeOK, ZkOK, ScanOK
  <2>27. ASSUME NEW p \in Paths, NEW n \in Nodes, ChildChanges(p, n) PROVE TypeInv'
    <3> DEFINE node == [zk[p] EXCEPT !.cversion = @ + 1,
                          !.children = IF n \in @ THEN @ \ {n} ELSE @ \cup {n}]
    <3>1. node \in [exists : BOOLEAN, cversion : 0..(spent.changes + 1), children : SUBSET Nodes]
      <4>1. /\ zk[p] \in [exists : BOOLEAN, cversion : 0..spent.changes, children : SUBSET Nodes]
            /\ spent.changes \in Nat
        BY <2>0, ReceiverAssumption DEF ZkOK
      <4>2. \A k \in 0..spent.changes : k + 1 \in 0..(spent.changes + 1)
        BY <4>1
      <4>3. QED
        BY <4>1, <4>2
    <3>2. ZkChanges(p, node)
      BY <2>27 DEF ChildChanges
    <3> HIDE DEF node
    <3>3. QED
      BY <2>26, <3>1, <3>2
  <2>28. ASSUME NEW p \in Paths, PathDeleted(p) \/ PathCreated(p) PROVE TypeInv'
    <3>1. \A e \in BOOLEAN : [exists |-> e, cversion |-> 0, children |-> {}] \in
            [exists : BOOLEAN, cversion : 0..(spent.changes + 1), children : SUBSET Nodes]
      BY <2>0 DEF ZkOK
    <3>2. QED
      BY <2>26, <2>28, <3>1 DEF PathDeleted, PathCreated
  <2>29. CASE UNCHANGED vars
    BY <2>0, <2>29 DEF vars, TypeInv, TypeOK, ZkOK, ScanOK
  <2>30. QED
    BY <2>2, <2>3, <2>4, <2>5, <2>6, <2>8, <2>9, <2>10, <2>11, <2>13, <2>14, <2>15, <2>16, <2>19,
       <2>20, <2>21, <2>22, <2>23, <2>24, <2>25, <2>27, <2>28, <2>29
       DEF Next, HeartbeatThread, Subscriber, Zookeeper
<1>3. QED
  BY <1>1, <1>2, PTL DEF Spec

-----------------------------------------------------------------------------
\* A RemovePath that has returned stays in effect, for any number of
\* application threads.  Not inductive by itself: that no scan is on a removed
\* path rests on RemovePath having waited for the scan (ExpectsOK), and that
\* none begins on one rests on scans taking subscribed paths only (ScanOK).
THEOREM RemovalsStay == Spec => []RemovedStaysRemoved
<1>1. Init => RemoveInv
  BY DEF Init, RemoveInv, ExpectsOK, RemovedOK, Idle
<1>2. TypeInv /\ TypeInv' /\ RemoveInv /\ [Next]_vars => RemoveInv'
  <2> SUFFICES ASSUME TypeInv, TypeInv', RemoveInv, [Next]_vars PROVE RemoveInv'
    OBVIOUS
  <2>0. /\ scan \in Scan /\ app \in [Apps -> Caller] /\ ScanOK /\ ExpectsOK /\ RemovedOK
        /\ paths_ \in [DOMAIN paths_ -> Status] /\ DOMAIN paths_ \subseteq Paths
    BY DEF TypeInv, TypeOK, RemoveInv
  <2>1. ASSUME NEW a \in Apps, NEW paths \in SUBSET Paths, AddPaths(a, paths) PROVE RemoveInv'
    <3>1. DOMAIN paths_' = DOMAIN paths_ \cup paths /\ removed' = removed \ paths
          /\ UNCHANGED <<scan, collection>>
      BY <2>1 DEF AddPaths
    <3>2. \A b \in Apps : /\ app'[b].pc = app[b].pc /\ app'[b].paths = app[b].paths
                          /\ app'[b].expects = app[b].expects \ paths
      BY <2>0, <2>1 DEF AddPaths, Caller
    <3>3. QED
      BY <2>0, <3>1, <3>2 DEF RemoveInv, ExpectsOK, RemovedOK
  <2>2. ASSUME NEW a \in Apps, NEW paths \in SUBSET Paths, RemovePath(a, paths) PROVE RemoveInv'
    <3>1. DOMAIN paths_' = DOMAIN paths_ \ Below(paths) /\ UNCHANGED <<collection, removed>>
      BY <2>2 DEF RemovePath, Restrict
    <3>2. scan'.pc = scan.pc /\ scan'.path = scan.path
      BY <2>0, <2>2 DEF RemovePath, Scan
    <3>3. /\ app'[a].pc = "update_lock_" /\ app'[a].paths = paths /\ app'[a].expects = Below(paths)
          /\ \A b \in Apps \ {a} : app'[b] = app[b]
      BY <2>0, <2>2 DEF RemovePath
    <3>4. QED
      BY <2>0, <3>1, <3>2, <3>3 DEF RemoveInv, ExpectsOK, RemovedOK
  <2>3. ASSUME NEW a \in Apps, RemoveWaited(a) PROVE RemoveInv'
    <3>1. /\ app'[a].paths = app[a].paths /\ app'[a].expects = app[a].expects
          /\ \A b \in Apps \ {a} : app'[b] = app[b]
      BY <2>0, <2>3 DEF RemoveWaited, Caller
    <3>2. scan.pc \notin Receiving /\ UNCHANGED <<paths_, scan, collection, removed>>
      BY <2>3 DEF RemoveWaited, NoScan, Receiving
    <3>3. QED
      BY <2>0, <3>1, <3>2 DEF RemoveInv, ExpectsOK, RemovedOK
  <2>4. ASSUME NEW a \in Apps, RemoveFromCollection(a) PROVE RemoveInv'
    <3>1. /\ DOMAIN collection' = DOMAIN collection \ Below(app[a].paths)
          /\ removed' = removed \cup app[a].expects
          /\ app[a].pc = "collection" /\ UNCHANGED <<paths_, scan>>
      BY <2>4 DEF RemoveFromCollection, Restrict
    <3>2. /\ app'[a].paths = {} /\ app'[a].expects = {} /\ app'[a].pc = "idle"
          /\ \A b \in Apps \ {a} : app'[b] = app[b]
      BY <2>0, <2>4 DEF RemoveFromCollection, Idle
    <3>3. QED
      BY <2>0, <3>1, <3>2 DEF RemoveInv, ExpectsOK, RemovedOK
  <2>5. ASSUME scan'.pc \notin Receiving \/ (scan.pc \in Receiving /\ scan'.path = scan.path)
                 \/ (scan'.pc \in Receiving /\ scan'.path \in DOMAIN paths_),
               DOMAIN paths_' = DOMAIN paths_, UNCHANGED <<app, removed, collection>>
        PROVE  RemoveInv'
    BY <2>0, <2>5 DEF RemoveInv, ExpectsOK, RemovedOK
  <2>6. ASSUME NEW p \in Paths, Receive(p) PROVE RemoveInv'
    <3>1. scan'.pc = "exists" /\ scan'.path = p /\ p \in DOMAIN paths_
      BY <2>0, <2>6 DEF Receive, ScanAt, ScanOK
    <3>2. QED
      BY <2>5, <2>6, <3>1 DEF Receive, Receiving
  <2>7. CASE StartReceive \/ StartScan \/ LoopEnds \/ EndScan \/ CallFails \/ ChildrenGone
             \/ (\E p \in Paths : NotDue(p)) \/ NoNode \/ StoreStatus
    <3>1. \E pc \in {"top", "next", "exit"} : \E todo : scan' = ScanAt(pc, todo)
      BY <2>7 DEF StartReceive, StartScan, LoopEnds, EndScan, CallFails, ChildrenGone, NotDue,
         NoNode, StoreStatus
    <3>2. scan'.pc \notin Receiving
      BY <3>1 DEF ScanAt, Receiving
    <3>3. UNCHANGED <<app, removed, collection>>
      BY <2>7 DEF StartReceive, StartScan, LoopEnds, EndScan, CallFails, ChildrenGone, NotDue,
         NoNode, StoreStatus
    <3>4. DOMAIN paths_' = DOMAIN paths_
      BY <2>0, <2>7 DEF StartReceive, StartScan, LoopEnds, EndScan, CallFails, ChildrenGone, NotDue,
         NoNode, StoreStatus
    <3>5. QED
      BY <2>5, <3>2, <3>3, <3>4
  <2>8. CASE Exists \/ GetChildren
    <3>1. scan.pc \in Receiving /\ scan'.path = scan.path
      BY <2>0, <2>8 DEF Exists, GetChildren, Receiving, Scan
    <3>2. QED
      BY <2>5, <2>8, <3>1 DEF Exists, GetChildren
  <2>9. CASE CompareVersion
    <3>1. \/ scan' = ScanAt("next", scan.todo)
          \/ \E time : scan' = [scan EXCEPT !.pc = "children", !.next_scan_time = time]
      BY <2>9 DEF CompareVersion
    <3>2. scan'.pc \notin Receiving \/ (scan.pc \in Receiving /\ scan'.path = scan.path)
      <4>1. scan.pc \in Receiving
        BY <2>9 DEF CompareVersion, Receiving
      <4>2. CASE scan' = ScanAt("next", scan.todo)
        BY <4>2 DEF ScanAt, Receiving
      <4>3. CASE \E time : scan' = [scan EXCEPT !.pc = "children", !.next_scan_time = time]
        BY <2>0, <4>1, <4>3 DEF Scan
      <4>4. QED
        BY <3>1, <4>2, <4>3
    <3>3. QED
      BY <2>5, <2>9, <3>2 DEF CompareVersion
  <2>10. CASE UpdateHeartbeat
    <3>1. scan.pc \in Receiving /\ scan'.path = scan.path
      BY <2>0, <2>10 DEF UpdateHeartbeat, Receiving, Scan
    <3>2. DOMAIN collection' = DOMAIN collection \cup {scan.path}
          /\ UNCHANGED <<paths_, app, removed>>
      BY <2>10 DEF UpdateHeartbeat
    <3>3. QED
      BY <2>0, <3>1, <3>2 DEF RemoveInv, ExpectsOK, RemovedOK
  <2>11. CASE UNCHANGED <<scan, app, removed, collection>> /\ DOMAIN paths_' = DOMAIN paths_
    BY <2>0, <2>11 DEF RemoveInv, ExpectsOK, RemovedOK
  <2>12. ASSUME NEW p \in Paths, CommonWatcher(p) \/ TimePasses(p) PROVE RemoveInv'
    BY <2>0, <2>11, <2>12 DEF CommonWatcher, TimePasses
  <2>13. ASSUME NEW p \in Paths,
                (\E n \in Nodes : ChildChanges(p, n)) \/ PathDeleted(p) \/ PathCreated(p)
         PROVE  RemoveInv'
    BY <2>11, <2>13 DEF ChildChanges, PathDeleted, PathCreated, ZkChanges
  <2>14. CASE StopReceive \/ UNCHANGED vars
    BY <2>11, <2>14 DEF StopReceive, vars
  <2>15. QED
    BY <2>1, <2>2, <2>3, <2>4, <2>6, <2>7, <2>8, <2>9, <2>10, <2>12, <2>13, <2>14
       DEF Next, HeartbeatThread, Subscriber, Zookeeper
<1>3. RemoveInv => RemovedStaysRemoved
  BY DEF RemoveInv, RemovedOK, RemovedStaysRemoved, Receiving
<1>4. QED
  BY <1>1, <1>2, <1>3, TypeCorrect, PTL DEF Spec

-----------------------------------------------------------------------------
\* A scan whose status was erased is not on a subscribed path, as long as
\* nobody adds a path that is being removed.
LEMMA DetachedIsUnsubscribed ==
  ASSUME ScanOK, NoOverlap, ~scan.attached
  PROVE  scan.path \notin DOMAIN paths_
BY DEF ScanOK, NoOverlap

\* A version that equals ZooKeeper's stands for a current list, as long as no
\* path is added that is being removed.  The list is written before the
\* version (ListFirst), the version belongs to the children that were read
\* with it (ReadOK), and versions only grow, so that one that was overtaken
\* never becomes current again (VersionsLag).
THEOREM VersionsTrusted == Spec /\ []NoOverlap => []StatusOK
<1>1. Init => VersionInv
  <2> SUFFICES ASSUME Init PROVE VersionInv
    OBVIOUS
  <2>1. scan.pc = "top" /\ DOMAIN paths_ = {}
    BY DEF Init, ScanAt
  <2>2. QED
    BY <2>1 DEF VersionInv, VersionsLag, ReadOK, ListFirst, VersionMeansCurrent, Receiving
<1>2. TypeInv /\ TypeInv' /\ NoOverlap /\ NoOverlap' /\ VersionInv /\ [Next]_vars => VersionInv'
  <2> SUFFICES ASSUME TypeInv, TypeInv', NoOverlap, NoOverlap', VersionInv, [Next]_vars
               PROVE  VersionInv'
    OBVIOUS
  <2>0. /\ scan \in Scan /\ app \in [Apps -> Caller] /\ ScanOK /\ ScanOK' /\ ZkOK
        /\ paths_ \in [DOMAIN paths_ -> Status] /\ DOMAIN paths_ \subseteq Paths
        /\ VersionsLag /\ ReadOK /\ ListFirst /\ VersionMeansCurrent
    BY DEF TypeInv, TypeOK, VersionInv
  <2>1. /\ \A p \in Paths : zk[p].cversion \in Nat
        /\ \A p \in DOMAIN paths_ : paths_[p].cversion \in Int
        /\ scan.cversion \in Nat
    BY <2>0, ReceiverAssumption DEF ZkOK, Status, INVALID_CHILDVERSION, Scan
  <2>2. ASSUME NEW a \in Apps, NEW paths \in SUBSET Paths, AddPaths(a, paths) PROVE VersionInv'
    <3>1. DOMAIN paths_' = DOMAIN paths_ \cup paths /\ UNCHANGED <<scan, collection, zk>>
      BY <2>2 DEF AddPaths
    <3>2. /\ \A p \in DOMAIN paths_ : paths_'[p].cversion = paths_[p].cversion
          /\ \A p \in DOMAIN paths_' \ DOMAIN paths_ : paths_'[p].cversion = INVALID_CHILDVERSION
      BY <2>0, <2>2 DEF AddPaths, NewStatus, Status
    <3>3. VersionsLag'
      BY <2>0, <2>1, <3>1, <3>2 DEF VersionsLag, INVALID_CHILDVERSION
    <3>4. ReadOK'
      BY <2>0, <2>1, <3>1, <3>2 DEF ReadOK, ScanOK, Receiving
    <3>5. VersionMeansCurrent'
      BY <2>0, <2>1, <3>1, <3>2 DEF VersionMeansCurrent, INVALID_CHILDVERSION
    <3>6. QED
      BY <2>0, <3>1, <3>3, <3>4, <3>5 DEF VersionInv, ListFirst
  <2>3. ASSUME NEW a \in Apps, NEW paths \in SUBSET Paths, RemovePath(a, paths) PROVE VersionInv'
    <3>1. /\ DOMAIN paths_' \subseteq DOMAIN paths_
          /\ \A p \in DOMAIN paths_' : paths_'[p] = paths_[p]
          /\ UNCHANGED <<collection, zk>>
      BY <2>3 DEF RemovePath, Restrict
    <3>2. /\ scan'.pc = scan.pc /\ scan'.path = scan.path /\ scan'.cversion = scan.cversion
          /\ scan'.children = scan.children /\ (scan'.attached => scan.attached)
      BY <2>0, <2>3 DEF RemovePath, Scan
    <3>3. ReadOK'
      BY <2>0, <3>1, <3>2 DEF ReadOK, ScanOK, Receiving
    <3>4. QED
      BY <2>0, <3>1, <3>2, <3>3 DEF VersionInv, VersionsLag, ListFirst, VersionMeansCurrent
  <2>4. ASSUME NEW a \in Apps, RemoveFromCollection(a) PROVE VersionInv'
    <3>1. /\ \A p \in DOMAIN collection \ Below(app[a].paths) :
               p \in DOMAIN collection' /\ collection'[p] = collection[p]
          /\ app[a].pc = "collection" /\ UNCHANGED <<paths_, scan, zk>>
      BY <2>4 DEF RemoveFromCollection, Restrict
    <3>2. DOMAIN paths_ \cap Below(app[a].paths) = {}
      BY <3>1 DEF NoOverlap
    <3>3. ListFirst'
      BY <2>0, <3>1, <3>2 DEF ListFirst, ScanOK, Receiving
    <3>4. VersionMeansCurrent'
      BY <2>0, <3>1, <3>2 DEF VersionMeansCurrent
    <3>5. QED
      BY <2>0, <3>1, <3>3, <3>4 DEF VersionInv, VersionsLag, ReadOK
  <2>5. ASSUME scan'.pc \notin Receiving, UNCHANGED <<zk, collection>>,
               DOMAIN paths_' = DOMAIN paths_,
               \A p \in DOMAIN paths_ : paths_'[p].cversion = paths_[p].cversion
        PROVE  VersionInv'
    <3>1. ReadOK' /\ ListFirst'
      BY <2>5 DEF ReadOK, ListFirst, Receiving
    <3>2. QED
      BY <2>0, <2>5, <3>1 DEF VersionInv, VersionsLag, VersionMeansCurrent
  <2>6. CASE StartReceive \/ StartScan \/ LoopEnds \/ EndScan \/ CallFails \/ ChildrenGone
             \/ (\E p \in Paths : NotDue(p)) \/ NoNode
    <3>1. \E pc \in {"top", "next", "exit"} : \E todo : scan' = ScanAt(pc, todo)
      BY <2>6 DEF StartReceive, StartScan, LoopEnds, EndScan, CallFails, ChildrenGone, NotDue,
         NoNode
    <3>2. scan'.pc \notin Receiving
      BY <3>1 DEF ScanAt, Receiving
    <3>3. UNCHANGED <<zk, collection>>
      BY <2>6 DEF StartReceive, StartScan, LoopEnds, EndScan, CallFails, ChildrenGone, NotDue,
         NoNode
    <3>4. /\ DOMAIN paths_' = DOMAIN paths_
          /\ \A p \in DOMAIN paths_ : paths_'[p].cversion = paths_[p].cversion
      <4>1. CASE NoNode
        BY <2>0, <4>1 DEF NoNode, Status
      <4>2. CASE ~NoNode
        BY <2>6, <4>2 DEF StartReceive, StartScan, LoopEnds, EndScan, CallFails, ChildrenGone,
           NotDue
      <4>3. QED
        BY <4>1, <4>2
    <3>5. QED
      BY <2>5, <3>2, <3>3, <3>4
  <2>7. ASSUME NEW p \in Paths, Receive(p) PROVE VersionInv'
    <3>1. scan'.pc = "exists" /\ UNCHANGED <<zk, collection, paths_>>
      BY <2>7 DEF Receive, ScanAt
    <3>2. QED
      BY <2>0, <3>1 DEF VersionInv, ReadOK, ListFirst, VersionsLag, VersionMeansCurrent, Receiving
  <2>8. CASE Exists
    <3>1. scan.pc = "exists" /\ zk[scan.path].exists /\ scan'.pc = "compare"
          /\ scan'.path = scan.path /\ UNCHANGED <<zk, collection, paths_>>
      BY <2>0, <2>8 DEF Exists, Scan
    <3>2. QED
      BY <2>0, <3>1 DEF VersionInv, ReadOK, ListFirst, VersionsLag, VersionMeansCurrent, Receiving
  <2>9. CASE CompareVersion
    <3>1. UNCHANGED <<zk, collection, paths_>> /\ scan.pc = "compare"
      BY <2>9 DEF CompareVersion
    <3>2. CASE scan' = ScanAt("next", scan.todo)
      BY <2>5, <3>1, <3>2 DEF ScanAt, Receiving
    <3>3. CASE \E time : scan' = [scan EXCEPT !.pc = "children", !.next_scan_time = time]
      <4>1. scan'.pc = "children" /\ scan'.path = scan.path
        BY <2>0, <3>3 DEF Scan
      <4>2. QED
        BY <2>0, <3>1, <4>1 DEF VersionInv, ReadOK, ListFirst, VersionsLag, VersionMeansCurrent,
           Receiving
    <3>4. QED
      BY <2>9, <3>2, <3>3 DEF CompareVersion
  <2>10. CASE GetChildren
    <3>1. /\ scan.pc = "children" /\ zk[scan.path].exists /\ scan'.pc = "update"
          /\ scan'.path = scan.path /\ scan'.attached = scan.attached
          /\ scan'.children = zk[scan.path].children
          /\ scan'.cversion = zk[scan.path].cversion /\ UNCHANGED <<zk, collection, paths_>>
      BY <2>0, <2>10 DEF GetChildren, Scan
    <3>2. ReadOK'
      BY <2>0, <2>1, <3>1 DEF ReadOK, VersionsLag, ScanOK, Receiving
    <3>3. QED
      BY <2>0, <3>1, <3>2 DEF VersionInv, ListFirst, VersionsLag, VersionMeansCurrent
  <2>11. CASE UpdateHeartbeat
    <3>1. /\ scan.pc = "update" /\ scan'.pc = "store"
          /\ scan'.path = scan.path /\ scan'.attached = scan.attached
          /\ scan'.children = scan.children /\ scan'.cversion = scan.cversion
          /\ UNCHANGED <<zk, paths_>>
      BY <2>0, <2>11 DEF UpdateHeartbeat, Scan
    <3>2. /\ scan.path \in DOMAIN collection' /\ collection'[scan.path] = scan.children
          /\ \A p \in DOMAIN collection \ {scan.path} :
               p \in DOMAIN collection' /\ collection'[p] = collection[p]
      BY <2>11 DEF UpdateHeartbeat
    <3>3. ReadOK'
      BY <2>0, <3>1 DEF ReadOK, Receiving
    <3>4. VersionMeansCurrent'
      <4> SUFFICES ASSUME NEW p \in DOMAIN paths_ \ Deletable,
                          zk[p].exists, paths_[p].cversion = zk[p].cversion
                   PROVE  p \in DOMAIN collection' /\ collection'[p] = zk[p].children
        BY <3>1 DEF VersionMeansCurrent
      <4>1. CASE p # scan.path
        BY <2>0, <3>2, <4>1 DEF VersionMeansCurrent
      <4>2. CASE p = scan.path
        <5>1. scan.attached
          BY <2>0, <4>2, DetachedIsUnsubscribed
        <5>2. paths_[p].cversion <= scan.cversion /\ scan.cversion <= zk[p].cversion
          BY <2>0, <3>1, <4>2, <5>1 DEF ReadOK
        <5>3. scan.cversion = zk[p].cversion
          BY <2>0, <2>1, <5>2
        <5>4. QED
          BY <2>0, <3>1, <3>2, <4>2, <5>3 DEF ReadOK
      <4>3. QED
        BY <4>1, <4>2
    <3>5. QED
      BY <2>0, <3>1, <3>2, <3>3, <3>4 DEF VersionInv, ListFirst, VersionsLag
  <2>12. CASE StoreStatus
    <3>1. scan.pc = "store" /\ scan'.pc \notin Receiving /\ UNCHANGED <<zk, collection>>
      BY <2>12 DEF StoreStatus, ScanAt, Receiving
    <3>2. /\ DOMAIN paths_' = DOMAIN paths_
          /\ \A p \in DOMAIN paths_ \ {scan.path} : paths_'[p] = paths_[p]
          /\ ~scan.attached => paths_' = paths_
          /\ scan.attached => paths_'[scan.path].cversion = scan.cversion
      BY <2>0, <2>12 DEF StoreStatus, ScanOK, Receiving
    <3>3. ReadOK' /\ ListFirst'
      BY <3>1 DEF ReadOK, ListFirst, Receiving
    <3>4. VersionsLag' /\ VersionMeansCurrent'
      BY <2>0, <3>1, <3>2 DEF VersionsLag, VersionMeansCurrent, ReadOK, ListFirst, Receiving
    <3>5. QED
      BY <3>3, <3>4 DEF VersionInv
  <2>13. ASSUME NEW p \in Paths, CommonWatcher(p) \/ TimePasses(p) PROVE VersionInv'
    <3>1. /\ DOMAIN paths_' = DOMAIN paths_ /\ UNCHANGED <<zk, collection, scan>>
          /\ \A q \in DOMAIN paths_ : paths_'[q].cversion = paths_[q].cversion
      BY <2>0, <2>13 DEF CommonWatcher, TimePasses, Status
    <3>2. ReadOK'
      BY <2>0, <3>1 DEF ReadOK, ScanOK, Receiving
    <3>3. QED
      BY <2>0, <3>1, <3>2 DEF VersionInv, VersionsLag, ListFirst, VersionMeansCurrent
  <2>14. ASSUME NEW p \in Paths, NEW n \in Nodes, ChildChanges(p, n) PROVE VersionInv'
    <3>1. /\ zk[p].exists /\ zk'[p].exists /\ zk'[p].cversion = zk[p].cversion + 1
          /\ \A q \in Paths \ {p} : zk'[q] = zk[q]
          /\ UNCHANGED <<paths_, scan, collection>>
      BY <2>0, <2>14 DEF ChildChanges, ZkChanges, ZkOK
    <3>2. ReadOK'
      BY <2>0, <2>1, <3>1 DEF ReadOK, ScanOK, Receiving
    <3>3. VersionsLag' /\ VersionMeansCurrent'
      BY <2>0, <2>1, <3>1 DEF VersionsLag, VersionMeansCurrent
    <3>4. QED
      BY <2>0, <3>1, <3>2, <3>3 DEF VersionInv, ListFirst
  <2>15. ASSUME NEW p \in Paths, PathDeleted(p) PROVE VersionInv'
    <3>1. /\ p \in Deletable /\ \A q \in Paths \ {p} : zk'[q] = zk[q]
          /\ UNCHANGED <<paths_, scan, collection>>
      BY <2>0, <2>15 DEF PathDeleted, ZkChanges, ZkOK
    <3>2. ReadOK'
      BY <2>0, <3>1 DEF ReadOK, ScanOK, Receiving
    <3>3. VersionsLag' /\ VersionMeansCurrent'
      BY <2>0, <3>1 DEF VersionsLag, VersionMeansCurrent
    <3>4. QED
      BY <2>0, <3>1, <3>2, <3>3 DEF VersionInv, ListFirst
  <2>16. ASSUME NEW p \in Paths, PathCreated(p) PROVE VersionInv'
    <3>1. /\ ~zk[p].exists /\ zk'[p].cversion = 0 /\ zk'[p].exists
          /\ \A q \in Paths \ {p} : zk'[q] = zk[q]
          /\ UNCHANGED <<paths_, scan, collection>>
      BY <2>0, <2>16 DEF PathCreated, ZkChanges, ZkOK
    <3>2. ReadOK'
      BY <2>0, <3>1 DEF ReadOK, ScanOK, Receiving
    <3>3. VersionsLag' /\ VersionMeansCurrent'
      BY <2>0, <3>1 DEF VersionsLag, VersionMeansCurrent, INVALID_CHILDVERSION
    <3>4. QED
      BY <2>0, <3>1, <3>2, <3>3 DEF VersionInv, ListFirst
  <2>17. CASE UNCHANGED <<paths_, scan, collection, zk>>
    BY <2>0, <2>17 DEF VersionInv, VersionsLag, ReadOK, ListFirst, VersionMeansCurrent
  <2>18. QED
    BY <2>2, <2>3, <2>4, <2>6, <2>7, <2>8, <2>9, <2>10, <2>11, <2>12, <2>13, <2>14, <2>15, <2>16,
       <2>17
       DEF Next, HeartbeatThread, Subscriber, Zookeeper, vars, RemoveWaited, StopReceive
<1>3. TypeInv /\ VersionInv => StatusOK
  BY DEF TypeInv, VersionInv, StatusOK
<1>4. QED
  BY <1>1, <1>2, <1>3, TypeCorrect, PTL DEF Spec

\* An application that makes its calls one after the other satisfies the
\* hypothesis of VersionsTrusted.
THEOREM OneCallerStatusOK ==
  ASSUME \A a, b \in Apps : a = b
  PROVE  Spec => []StatusOK
<1>1. Init => NoOverlap
  BY DEF Init, NoOverlap, Idle
<1>2. TypeInv /\ NoOverlap /\ [Next]_vars => NoOverlap'
  <2> SUFFICES ASSUME TypeInv, NoOverlap, [Next]_vars PROVE NoOverlap'
    OBVIOUS
  <2>0. /\ app \in [Apps -> Caller]
        /\ paths_ \in [DOMAIN paths_ -> Status] /\ DOMAIN paths_ \subseteq Paths
        /\ scan \in Scan /\ ScanOK
    BY DEF TypeInv, TypeOK
  <2>1. ASSUME NEW a \in Apps, NEW paths \in SUBSET Paths, AddPaths(a, paths) PROVE NoOverlap'
    <3>1. app'[a].pc = "idle"
      BY <2>0, <2>1 DEF AddPaths, Idle
    <3>2. QED
      BY <3>1 DEF NoOverlap
  <2>2. ASSUME NEW a \in Apps, NEW paths \in SUBSET Paths, RemovePath(a, paths) PROVE NoOverlap'
    <3>1. DOMAIN paths_' = DOMAIN paths_ \ Below(paths) /\ app'[a].paths = paths
      BY <2>0, <2>2 DEF RemovePath, Restrict
    <3>2. QED
      BY <3>1 DEF NoOverlap
  <2>3. ASSUME NEW a \in Apps, RemoveWaited(a) \/ RemoveFromCollection(a) PROVE NoOverlap'
    <3>1. paths_' = paths_
      BY <2>3 DEF RemoveWaited, RemoveFromCollection
    <3>2. app[a].pc # "idle" /\ (app'[a].pc = "idle" \/ app'[a].paths = app[a].paths)
      BY <2>0, <2>3 DEF RemoveWaited, RemoveFromCollection, Idle, Caller
    <3>3. QED
      BY <3>1, <3>2 DEF NoOverlap
  <2>4. CASE app' = app /\ DOMAIN paths_' = DOMAIN paths_
    BY <2>4 DEF NoOverlap
  <2>5. CASE HeartbeatThread
    BY <2>0, <2>4, <2>5
       DEF HeartbeatThread, StartScan, LoopEnds, EndScan, NotDue, Receive, CallFails, NoNode,
           Exists, CompareVersion, GetChildren, ChildrenGone, UpdateHeartbeat, StoreStatus
  <2>6. CASE Zookeeper \/ (\E p \in Paths : TimePasses(p)) \/ StopReceive \/ StartReceive
             \/ UNCHANGED vars
    BY <2>0, <2>4, <2>6
       DEF Zookeeper, ChildChanges, PathDeleted, PathCreated, ZkChanges, CommonWatcher,
           TimePasses, StopReceive, StartReceive, vars
  <2>7. QED
    BY <2>1, <2>2, <2>3, <2>5, <2>6 DEF Next, Subscriber
<1>3. Spec => []NoOverlap
  BY <1>1, <1>2, TypeCorrect, PTL DEF Spec
<1>4. QED
  BY <1>3, VersionsTrusted, PTL
=============================================================================

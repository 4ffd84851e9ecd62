------------------------- MODULE HeartbeatReceiver --------------------------
(***************************************************************************)
(* leader/heartbeat_receiver.cc and the part of server_subscriber.cc that  *)
(* drives it: a thread that follows the subscribed ZooKeeper paths and     *)
(* keeps the node collection up to date, while the application adds and    *)
(* removes paths and the ZooKeeper client delivers watch events.           *)
(*                                                                         *)
(* Times are kept as far as Receive tells them apart: "zero" (forced),     *)
(* "past", "later" and "never" (UINT64_MAX).  The sleep between two scans  *)
(* always ends, at the latest by its timeout (see RunningChecker), so a    *)
(* scan may begin at any time.  ZooKeeper is external: a path exists or    *)
(* not, has a set of children and a cversion that counts their changes.    *)
(* An event for a change may come late, or never when the watch was lost   *)
(* with a session.  The node collection is reduced to its lists.           *)
(***************************************************************************)
EXTENDS Integers, FiniteSets, Functions

CONSTANTS
  Nodes, Paths,
  SubPaths,    \* SubPaths[p]: p and the paths below it
  Apps,        \* application threads
  Deletable,   \* paths that may be deleted in ZooKeeper
  MaxChanges,  \* bound on the changes in ZooKeeper
  MaxCalls,    \* bound on the application's calls
  MaxFailures  \* bound on failing ZooKeeper calls

NoPath == "none"

ASSUME ReceiverAssumption ==
  /\ SubPaths \in [Paths -> SUBSET Paths]
  /\ \A p \in Paths : p \in SubPaths[p]
  /\ Deletable \subseteq Paths /\ NoPath \notin Paths
  /\ {MaxChanges, MaxCalls, MaxFailures} \subseteq Nat

INVALID_CHILDVERSION == -1

VARIABLES
  paths_,       \* subscribed path -> [cversion, next_scan_time]
  skip_sleep_,
  running,      \* running_checker_
  scan,         \* the heartbeat thread
  collection,   \* path -> the nodes listed for it
  app,          \* application thread -> the RemovePath it is in
  zk,           \* path -> [exists, cversion, children]
  events,       \* paths with an event on its way to CommonWatcher
  removed,      \* paths whose removal has returned and that were not re-added
  spent         \* how much of each bound is used up

vars == <<paths_, skip_sleep_, running, scan, collection, app, zk, events,
          removed, spent>>

Idle == [pc |-> "idle", paths |-> {}, expects |-> {}]

NewStatus == [cversion |-> INVALID_CHILDVERSION, next_scan_time |-> "zero"]

\* The heartbeat thread at pc, working on path p with what it has read.
ScanAt(pc, todo) ==
  [pc |-> pc, todo |-> todo, path |-> NoPath, attached |-> TRUE, cversion |-> 0,
   next_scan_time |-> "zero", children |-> {}]

Below(paths) == UNION {SubPaths[p] : p \in paths}

-----------------------------------------------------------------------------
\* AddPaths.
AddPaths(a, paths) ==
  /\ app[a] = Idle
  /\ spent.calls < MaxCalls
  /\ spent' = [spent EXCEPT !.calls = @ + 1]
  /\ paths_' = [p \in DOMAIN paths_ \cup paths |->
                  IF p \notin DOMAIN paths_ THEN NewStatus
                  ELSE IF p \in paths THEN [paths_[p] EXCEPT !.next_scan_time = "zero"]
                  ELSE paths_[p]]
  /\ skip_sleep_' = TRUE
  /\ removed' = removed \ paths
  /\ app' = [b \in Apps |-> [app[b] EXCEPT !.expects = @ \ paths]]
  /\ UNCHANGED <<running, scan, collection, zk, events>>

\* RemovePath: unsubscribe under paths_lock_.  A scan in the middle of
\* Receive keeps the status that was erased; the ones it has not come to are
\* skipped, because their next_scan_time is "never".
RemovePath(a, paths) ==
  LET gone == Below(paths)
  IN  /\ app[a] = Idle
      /\ spent.calls < MaxCalls
      /\ spent' = [spent EXCEPT !.calls = @ + 1]
      /\ paths_' = Restrict(paths_, DOMAIN paths_ \ gone)
      /\ scan' = [scan EXCEPT !.todo = @ \ gone,
                              !.attached = @ /\ scan.path \notin gone]
      /\ skip_sleep_' = TRUE
      /\ app' = [app EXCEPT ![a] = [pc |-> "update_lock_", paths |-> paths, expects |-> gone]]
      /\ UNCHANGED <<running, collection, zk, events, removed>>

\* Slip: RemovePath does not wait for the scan.
NoScanChecked == TRUE

\* update_lock_ is free: the heartbeat thread holds it for a whole scan.
NoScan == scan.pc \in {"top", "exit"}

\* RemovePath has waited for update_lock_ and returns to the subscriber.
RemoveWaited(a) ==
  /\ app[a].pc = "update_lock_"
  /\ NoScan
  /\ app' = [app EXCEPT ![a].pc = "collection"]
  /\ UNCHANGED <<paths_, skip_sleep_, running, scan, collection, zk, events,
                 removed, spent>>

\* ServerSubscriber::RemovePath goes on with the node collection.
RemoveFromCollection(a) ==
  /\ app[a].pc = "collection"
  /\ collection' = Restrict(collection, DOMAIN collection \ Below(app[a].paths))
  /\ removed' = removed \cup app[a].expects
  /\ app' = [app EXCEPT ![a] = Idle]
  /\ UNCHANGED <<paths_, skip_sleep_, running, scan, zk, events, spent>>

\* StopReceive; its join waits until the loop has ended.
StopReceive ==
  /\ running
  /\ running' = FALSE
  /\ UNCHANGED <<paths_, skip_sleep_, scan, collection, app, zk, events, removed, spent>>

\* StartReceive after Close: the paths and their versions are still there.
StartReceive ==
  /\ scan.pc = "exit"
  /\ spent.calls < MaxCalls
  /\ spent' = [spent EXCEPT !.calls = @ + 1]
  /\ running' = TRUE
  /\ scan' = ScanAt("top", {})
  /\ UNCHANGED <<paths_, skip_sleep_, collection, app, zk, events, removed>>

\* The ZooKeeper client calls the watcher.
CommonWatcher(p) ==
  /\ p \in events
  /\ events' = events \ {p}
  /\ paths_' = [q \in DOMAIN paths_ |->
                  IF q = p THEN [paths_[q] EXCEPT !.next_scan_time = "zero"] ELSE paths_[q]]
  /\ skip_sleep_' = TRUE
  /\ UNCHANGED <<running, scan, collection, app, zk, removed, spent>>

-----------------------------------------------------------------------------
\* The loop of the heartbeat thread: take update_lock_ and copy paths_.
StartScan ==
  /\ scan.pc = "top" /\ running
  /\ scan' = ScanAt("next", DOMAIN paths_)
  /\ UNCHANGED <<paths_, skip_sleep_, running, collection, app, zk, events,
                 removed, spent>>

LoopEnds ==
  /\ scan.pc = "top" /\ ~running
  /\ scan' = ScanAt("exit", {})
  /\ UNCHANGED <<paths_, skip_sleep_, running, collection, app, zk, events,
                 removed, spent>>

\* The end of a scan; skip_sleep_ only decides whether the next one is at once.
EndScan ==
  /\ scan.pc = "next" /\ scan.todo = {}
  /\ skip_sleep_' = FALSE
  /\ scan' = ScanAt("top", {})
  /\ UNCHANGED <<paths_, running, collection, app, zk, events, removed, spent>>

\* Slip: a path is only looked at again when its watch has fired.
DueWhenForced(time) == time = "zero"

\* next_scan_time has come.
Due(time) == time \in {"zero", "past"}

\* Receive returns at once when the path's time has not come.
NotDue(p) ==
  /\ scan.pc = "next" /\ p \in scan.todo
  /\ ~Due(paths_[p].next_scan_time)
  /\ scan' = ScanAt("next", scan.todo \ {p})
  /\ UNCHANGED <<paths_, skip_sleep_, running, collection, app, zk, events,
                 removed, spent>>

Receive(p) ==
  /\ scan.pc = "next" /\ p \in scan.todo
  /\ Due(paths_[p].next_scan_time)
  /\ scan' = [ScanAt("exists", scan.todo \ {p}) EXCEPT !.path = p]
  /\ UNCHANGED <<paths_, skip_sleep_, running, collection, app, zk, events,
                 removed, spent>>

\* A ZooKeeper call of Receive fails, or the session cannot be restored.
CallFails ==
  /\ scan.pc \in {"exists", "children"}
  /\ spent.failures < MaxFailures
  /\ spent' = [spent EXCEPT !.failures = @ + 1]
  /\ scan' = ScanAt("next", scan.todo)
  /\ UNCHANGED <<paths_, skip_sleep_, running, collection, app, zk, events, removed>>

\* Exists says ZK_NONODE: look again in 30 seconds.  A status that is not in
\* paths_ any more is written in vain.
NoNode ==
  /\ scan.pc = "exists" /\ ~zk[scan.path].exists
  /\ paths_' = IF scan.attached
                 THEN [paths_ EXCEPT ![scan.path].next_scan_time = "later"]
                 ELSE paths_
  /\ scan' = ScanAt("next", scan.todo)
  /\ UNCHANGED <<skip_sleep_, running, collection, app, zk, events, removed, spent>>

Exists ==
  /\ scan.pc = "exists" /\ zk[scan.path].exists
  /\ scan' = [scan EXCEPT !.pc = "compare", !.cversion = zk[scan.path].cversion]
  /\ UNCHANGED <<paths_, skip_sleep_, running, collection, app, zk, events,
                 removed, spent>>

\* The status is read: the children are asked for when the version differs.
\* A status that RemovePath has erased still has an old version and "never".
CompareVersion ==
  /\ scan.pc = "compare"
  /\ \E version \in IF scan.attached THEN {paths_[scan.path].cversion}
                    ELSE INVALID_CHILDVERSION..MaxChanges :
       scan' = IF version = scan.cversion
                 THEN ScanAt("next", scan.todo)
                 ELSE [scan EXCEPT !.pc = "children", !.next_scan_time =
                         IF scan.attached THEN paths_[scan.path].next_scan_time ELSE "never"]
  /\ UNCHANGED <<paths_, skip_sleep_, running, collection, app, zk, events,
                 removed, spent>>

\* GetChildren, which also overwrites the version.
GetChildren ==
  /\ scan.pc = "children" /\ zk[scan.path].exists
  /\ scan' = [scan EXCEPT !.pc = "update", !.children = zk[scan.path].children,
                          !.cversion = zk[scan.path].cversion]
  /\ UNCHANGED <<paths_, skip_sleep_, running, collection, app, zk, events,
                 removed, spent>>

\* GetChildren finds no node any more: an error like the others.
ChildrenGone ==
  /\ scan.pc = "children" /\ ~zk[scan.path].exists
  /\ scan' = ScanAt("next", scan.todo)
  /\ UNCHANGED <<paths_, skip_sleep_, running, collection, app, zk, events,
                 removed, spent>>

UpdateHeartbeat ==
  /\ scan.pc = "update"
  /\ collection' = [p \in DOMAIN collection \cup {scan.path} |->
                      IF p = scan.path THEN scan.children ELSE collection[p]]
  /\ scan' = [scan EXCEPT !.pc = "store"]
  /\ UNCHANGED <<paths_, skip_sleep_, running, app, zk, events, removed, spent>>

\* Slip: the version is read again after the update.
StoreStatusRereads ==
  /\ scan.pc = "store"
  /\ paths_' = IF scan.attached
                 THEN [paths_ EXCEPT ![scan.path] =
                         [cversion |-> zk[scan.path].cversion, next_scan_time |-> "later"]]
                 ELSE paths_
  /\ scan' = ScanAt("next", scan.todo)
  /\ UNCHANGED <<skip_sleep_, running, collection, app, zk, events, removed, spent>>

\* The compare-and-swaps at the end of Receive.  Only this thread writes
\* cversion, so the first one succeeds; the second one fails when the watcher
\* or AddPaths has asked for another scan, unless the time was zero before.
StoreStatus ==
  /\ scan.pc = "store"
  /\ LET status == paths_[scan.path]
         unchanged == status.next_scan_time = scan.next_scan_time
     IN  IF scan.attached
           THEN /\ paths_' = [paths_ EXCEPT ![scan.path] =
                                [cversion |-> scan.cversion,
                                 next_scan_time |-> IF unchanged THEN "later"
                                                    ELSE @.next_scan_time]]
                /\ skip_sleep_' = (skip_sleep_ \/ ~unchanged)
           ELSE UNCHANGED <<paths_, skip_sleep_>>
  /\ scan' = ScanAt("next", scan.todo)
  /\ UNCHANGED <<running, collection, app, zk, events, removed, spent>>

\* The clock reaches a path's next_scan_time.
TimePasses(p) ==
  /\ p \in DOMAIN paths_ /\ paths_[p].next_scan_time = "later"
  /\ paths_' = [paths_ EXCEPT ![p].next_scan_time = "past"]
  /\ UNCHANGED <<skip_sleep_, running, scan, collection, app, zk, events,
                 removed, spent>>

-----------------------------------------------------------------------------
\* ZooKeeper: a change of path p, whose event is sent or lost.
ZkChanges(p, node) ==
  /\ spent.changes < MaxChanges
  /\ spent' = [spent EXCEPT !.changes = @ + 1]
  /\ zk' = [zk EXCEPT ![p] = node]
  /\ events' \in {events, events \cup {p}}
  /\ UNCHANGED <<paths_, skip_sleep_, running, scan, collection, app, removed>>

\* A server registers below p or disappears.
ChildChanges(p, n) ==
  /\ zk[p].exists
  /\ ZkChanges(p, [zk[p] EXCEPT !.cversion = @ + 1,
                     !.children = IF n \in @ THEN @ \ {n} ELSE @ \cup {n}])

PathDeleted(p) ==
  /\ p \in Deletable
  /\ zk[p].exists /\ zk[p].children = {}
  /\ ZkChanges(p, [exists |-> FALSE, cversion |-> 0, children |-> {}])

PathCreated(p) ==
  /\ ~zk[p].exists
  /\ ZkChanges(p, [exists |-> TRUE, cversion |-> 0, children |-> {}])

-----------------------------------------------------------------------------
Init ==
  /\ paths_ = [p \in {} |-> NewStatus]
  /\ skip_sleep_ = FALSE
  /\ running = TRUE
  /\ scan = ScanAt("top", {})
  /\ collection = [p \in {} |-> {}]
  /\ app = [a \in Apps |-> Idle]
  /\ zk \in [Paths -> [exists : BOOLEAN, cversion : {0}, children : {{}}]]
  /\ events = {}
  /\ removed = {}
  /\ spent = [calls |-> 0, changes |-> 0, failures |-> 0]

HeartbeatThread ==
  \/ StartScan \/ LoopEnds \/ EndScan
  \/ \E p \in Paths : NotDue(p) \/ Receive(p)
  \/ CallFails \/ NoNode \/ Exists \/ CompareVersion
  \/ GetChildren \/ ChildrenGone \/ UpdateHeartbeat \/ StoreStatus

Subscriber ==
  \/ \E a \in Apps, paths \in (SUBSET Paths) \ {{}} : AddPaths(a, paths)
  \/ \E a \in Apps, paths \in (SUBSET Paths) \ {{}} : RemovePath(a, paths)
  \/ \E a \in Apps : RemoveWaited(a) \/ RemoveFromCollection(a)
  \/ StopReceive \/ StartReceive

Zookeeper ==
  \E p \in Paths :
    \/ \E n \in Nodes : ChildChanges(p, n)
    \/ PathDeleted(p) \/ PathCreated(p)
    \/ CommonWatcher(p)

Next ==
  \/ HeartbeatThread
  \/ Subscriber
  \/ Zookeeper
  \/ \E p \in Paths : TimePasses(p)

\* The heartbeat thread is scheduled and its sleep ends, the clock goes on,
\* a removal that can go on does (a scan may end in between: strong fairness),
\* and events that are sent arrive.
Fairness ==
  /\ WF_vars(HeartbeatThread)
  /\ \A p \in Paths : WF_vars(TimePasses(p)) /\ WF_vars(CommonWatcher(p))
  /\ \A a \in Apps : SF_vars(RemoveWaited(a)) /\ WF_vars(RemoveFromCollection(a))

Spec == Init /\ [][Next]_vars /\ Fairness

-----------------------------------------------------------------------------
Status == [cversion : INVALID_CHILDVERSION..MaxChanges,
           next_scan_time : {"zero", "past", "later"}]

Scan == [pc : {"top", "next", "exists", "compare", "children", "update", "store", "exit"},
         todo : SUBSET Paths, path : Paths \cup {NoPath}, attached : BOOLEAN,
         cversion : 0..MaxChanges, children : SUBSET Nodes,
         next_scan_time : {"zero", "past", "later", "never"}]

Caller == [pc : {"idle", "update_lock_", "collection"},
           paths : SUBSET Paths, expects : SUBSET Paths]

\* Every variable has its type; in particular a subscribed path is never left
\* at "never", where no scan would look at it again.
TypeOK ==
  /\ DOMAIN paths_ \subseteq Paths
  /\ paths_ \in [DOMAIN paths_ -> Status]
  /\ skip_sleep_ \in BOOLEAN /\ running \in BOOLEAN
  /\ scan \in Scan
  /\ DOMAIN collection \subseteq Paths
  /\ collection \in [DOMAIN collection -> SUBSET Nodes]
  /\ app \in [Apps -> Caller]
  /\ events \subseteq Paths /\ removed \subseteq Paths

\* "use this lock to make sure remove will take effect after return": once
\* ServerSubscriber::RemovePath has returned, a path that nobody has added
\* again is neither listed nor about to be listed by a scan still under way.
RemovedStaysRemoved ==
  \A p \in removed :
    /\ p \notin DOMAIN collection
    /\ scan.pc \in {"exists", "compare", "children", "update"} => scan.path # p

\* Receive asks for the children only when the version differs.  That is
\* sound because a status that has ZooKeeper's current version stands for a
\* list that has ZooKeeper's current children.  (A path that is deleted and
\* created again counts its changes from zero, so this is not claimed of it.)
VersionMeansCurrent ==
  \A p \in DOMAIN paths_ \ Deletable :
    zk[p].exists /\ paths_[p].cversion = zk[p].cversion
      => p \in DOMAIN collection /\ collection[p] = zk[p].children

\* Receive: the status of a path is well formed, and its version can be trusted.
StatusOK == TypeOK /\ VersionMeansCurrent

\* The collection comes to agree with ZooKeeper: if from some time on a path
\* is subscribed and exists, then from some time on its list has its children,
\* although events may be lost, calls may fail, and the request for another
\* scan that the watcher leaves behind may be overwritten by a scan.
Converges ==
  \A p \in Paths \ Deletable :
    <>[](running /\ p \in DOMAIN paths_ /\ zk[p].exists)
      => <>[](p \in DOMAIN collection /\ collection[p] = zk[p].children)
=============================================================================

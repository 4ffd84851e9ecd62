--------------------------- MODULE NodeCollection ---------------------------
(***************************************************************************)
(* leader/node_collection_impl.cc and the bad node detector that drives    *)
(* its black list (leader/brpc/brpc_bad_node_detector.cc).                 *)
(*                                                                         *)
(* The collection maps every subscribed path to the list of servers that   *)
(* may be picked for it.  Three kinds of thread use it at once: the        *)
(* heartbeat receiver (UpdateHeartbeat), the application (PickOneNode,     *)
(* RemovePath) and the detector (FindNodesBySpec, UpdateBadNode).  Updates *)
(* are serialised by update_mutex_, but one update is several critical     *)
(* sections: UpdateHeartbeat first writes the node tables under node_lock_ *)
(* and then the round robin map under round_robin_map_lock_; RemovePath    *)
(* does it the other way round.  PickOneNode reads the round robin map and *)
(* keeps its read lock while it waits for node_lock_.  One action below is *)
(* one critical section.                                                   *)
(*                                                                         *)
(* The order in which ZooKeeper lists children is arbitrary, so the list   *)
(* UpdateHeartbeat builds is any enumeration of the children that are not  *)
(* black.  A node's spec is its name (FindNodesBySpec compares them).      *)
(***************************************************************************)
EXTENDS Naturals, FiniteSets, Functions

CONSTANTS
  Nodes,     \* server names, the children of a path
  Paths,     \* ZooKeeper paths that may be subscribed to
  SubPaths,  \* SubPaths[p]: p and the paths that begin with p and a '/'
  Pickers,   \* threads that call PickOneNode
  Free       \* what a lock variable holds when nobody owns the lock

ASSUME NodesAssumption == IsFiniteSet(Nodes)

ASSUME SubPathsAssumption ==
  /\ SubPaths \in [Paths -> SUBSET Paths]
  /\ \A p \in Paths : p \in SubPaths[p]

ASSUME FreeAssumption ==
  /\ Free \notin Paths
  /\ Free \notin [op : {"heartbeat", "remove"}, paths : SUBSET Paths]
  /\ Free \notin [specs : SUBSET Nodes, nodes : SUBSET Nodes]

VARIABLES
  nodes_iindex_,           \* node -> the paths it was seen under
  black_list_,             \* nodes the detector reported bad
  valid_nodes_,            \* path -> list of the nodes that may be picked
  round_robin_index_map_,  \* path -> index of the node picked last
  update_mutex_,           \* Free, or the update that is between its sections
  picker,                  \* thread -> Free, or the path whose index it holds
  specList,                \* the bad specs of the detector's previous round
  detect                   \* Free, or a round between its find and its update

vars == <<nodes_iindex_, black_list_, valid_nodes_, round_robin_index_map_,
          update_mutex_, picker, specList, detect>>

\* Lists without repetition, as ZooKeeper returns the children of a path.
NodeLists == UNION {Injection(1..k, Nodes) : k \in 0..Cardinality(Nodes)}

\* list is remaining after the nodes in gone were erased from it.
ErasedFrom(list, gone, remaining) ==
  /\ Range(remaining) = Range(list) \ gone
  /\ \A i, j \in DOMAIN remaining :
       i < j => \E k, l \in DOMAIN list :
                  k < l /\ list[k] = remaining[i] /\ list[l] = remaining[j]

\* Slip: the write lock is taken without waiting.
IgnoreRoundRobinReaders == TRUE

\* A write lock on round_robin_map_lock_ waits for the readers to leave.
NoRoundRobinReader == \A t \in Pickers : picker[t] = Free

-----------------------------------------------------------------------------
\* Slip: the black list is not consulted.
AllChildren(children) == children

\* The children UpdateHeartbeat keeps.
ValidNodes(children) == children \ black_list_

\* UpdateHeartbeat, first section: filter out the black nodes, enter the
\* others in the inverted index and replace the path's list.
UpdateHeartbeat(children, path) ==
  /\ update_mutex_ = Free
  /\ update_mutex_' = [op |-> "heartbeat", paths |-> {path}]
  /\ LET validNodes == ValidNodes(children)
         known(n)   == IF n \in DOMAIN nodes_iindex_
                         THEN nodes_iindex_[n] ELSE {}
     IN  /\ nodes_iindex_' =
              [n \in DOMAIN nodes_iindex_ \cup validNodes |->
                 IF n \in validNodes THEN known(n) \cup {path} ELSE known(n)]
         /\ \E list \in NodeLists :
              /\ Range(list) = validNodes
              /\ valid_nodes_' =
                   [p \in DOMAIN valid_nodes_ \cup {path} |->
                      IF p = path THEN list ELSE valid_nodes_[p]]
  /\ UNCHANGED <<black_list_, round_robin_index_map_, picker, specList, detect>>

\* UpdateHeartbeat, second section: a path seen for the first time gets a
\* round robin index; then update_mutex_ is released.
UpdateHeartbeatIndex ==
  /\ update_mutex_ # Free
  /\ update_mutex_.op = "heartbeat"
  /\ NoRoundRobinReader
  /\ round_robin_index_map_' =
       [p \in DOMAIN round_robin_index_map_ \cup update_mutex_.paths |->
          IF p \in DOMAIN round_robin_index_map_
            THEN round_robin_index_map_[p] ELSE 0]
  /\ update_mutex_' = Free
  /\ UNCHANGED <<nodes_iindex_, black_list_, valid_nodes_, picker, specList, detect>>

\* RemovePath, first section: collect the known paths at or below the given
\* ones (return when there are none) and delete their round robin indices.
RemovePath(paths) ==
  LET removePaths == {p \in DOMAIN valid_nodes_ : \E q \in paths : p \in SubPaths[q]}
  IN  /\ update_mutex_ = Free
      /\ removePaths # {}
      /\ NoRoundRobinReader
      /\ round_robin_index_map_' =
           Restrict(round_robin_index_map_,
                    DOMAIN round_robin_index_map_ \ removePaths)
      /\ update_mutex_' = [op |-> "remove", paths |-> removePaths]
      /\ UNCHANGED <<nodes_iindex_, black_list_, valid_nodes_, picker,
                     specList, detect>>

\* The index entry of node n once the paths in gone are erased from the
\* entries of the nodes those paths still list.
PathsLeft(n, gone) ==
  {p \in nodes_iindex_[n] : p \in gone => n \notin Range(valid_nodes_[p])}

\* The listed nodes whose index entry is empty after that.
Emptied(listed, gone) ==
  {n \in listed \cap DOMAIN nodes_iindex_ : PathsLeft(n, gone) = {}}

\* RemovePath, second section: erase the lists, the paths from the entries of
\* the nodes in them, and the entries left empty; the nodes that lost their
\* entry, or had none, leave the black list.
RemovePathNodes ==
  /\ update_mutex_ # Free
  /\ update_mutex_.op = "remove"
  /\ LET removed == update_mutex_.paths \cap DOMAIN valid_nodes_
         listed  == UNION {Range(valid_nodes_[p]) : p \in removed}
         emptied == Emptied(listed, removed)
         removedNodes == emptied \cup (listed \ DOMAIN nodes_iindex_)
     IN  /\ nodes_iindex_' = [n \in DOMAIN nodes_iindex_ \ emptied |->
                                PathsLeft(n, removed)]
         /\ valid_nodes_' = Restrict(valid_nodes_, DOMAIN valid_nodes_ \ removed)
         /\ black_list_' = black_list_ \ removedNodes
  /\ update_mutex_' = Free
  /\ UNCHANGED <<round_robin_index_map_, picker, specList, detect>>

-----------------------------------------------------------------------------
\* PickOneNode up to the point where it waits for node_lock_: it has found
\* the path's index and holds the read lock of the round robin map.  A path
\* without an index ends the call with false.
PickOneNode(t, path) ==
  /\ picker[t] = Free
  /\ path \in DOMAIN round_robin_index_map_
  /\ picker' = [picker EXCEPT ![t] = path]
  /\ UNCHANGED <<nodes_iindex_, black_list_, valid_nodes_,
                 round_robin_index_map_, update_mutex_, specList, detect>>

\* The rest of PickOneNode finds no list or an empty one and returns false.
PickFails(t) ==
  /\ picker[t] # Free
  /\ picker[t] \in DOMAIN valid_nodes_ => Range(valid_nodes_[picker[t]]) = {}
  /\ picker' = [picker EXCEPT ![t] = Free]
  /\ UNCHANGED <<nodes_iindex_, black_list_, valid_nodes_,
                 round_robin_index_map_, update_mutex_, specList, detect>>

\* Slip: the index wraps one node early.
nextShort(index, base) == IF index + 1 < base - 1 THEN index + 1 ELSE 0

\* RoundRobinIndex::next over a list of base nodes.
next(index, base) == (index + 1) % base

\* The rest of PickOneNode advances the index and returns that node.
PickSucceeds(t, node) ==
  /\ picker[t] # Free
  /\ picker[t] \in DOMAIN valid_nodes_ \cap DOMAIN round_robin_index_map_
  /\ LET path  == picker[t]
         list  == valid_nodes_[path]
         index == next(round_robin_index_map_[path], Cardinality(DOMAIN list))
     IN  /\ Range(list) # {}
         /\ node = list[index + 1]
         /\ round_robin_index_map_' =
              [round_robin_index_map_ EXCEPT ![path] = index]
  /\ picker' = [picker EXCEPT ![t] = Free]
  /\ UNCHANGED <<nodes_iindex_, black_list_, valid_nodes_, update_mutex_,
                 specList, detect>>

-----------------------------------------------------------------------------
\* DoDetect up to FindNodesBySpec: badSpecs is what the channel pool reports;
\* only the nodes that still have an index entry are found.  Nothing to do
\* when neither this round nor the previous one saw a bad spec.
FindNodesBySpec(badSpecs) ==
  /\ detect = Free
  /\ specList # {} \/ badSpecs # {}
  /\ detect' = [specs |-> badSpecs, nodes |-> badSpecs \cap DOMAIN nodes_iindex_]
  /\ UNCHANGED <<nodes_iindex_, black_list_, valid_nodes_,
                 round_robin_index_map_, update_mutex_, picker, specList>>

\* UpdateBadNode and the end of DoDetect: replace the black list, erase its
\* nodes from the lists of the paths in their index entries, and drop those
\* entries.
UpdateBadNode ==
  /\ detect # Free
  /\ update_mutex_ = Free
  /\ LET blackList == detect.nodes
         gone(p) == {n \in blackList \cap DOMAIN nodes_iindex_ : p \in nodes_iindex_[n]}
     IN  /\ black_list_' = blackList
         /\ \E lists \in [DOMAIN valid_nodes_ -> NodeLists] :
              /\ \A p \in DOMAIN valid_nodes_ :
                   ErasedFrom(valid_nodes_[p], gone(p), lists[p])
              /\ valid_nodes_' = lists
         /\ nodes_iindex_' = Restrict(nodes_iindex_, DOMAIN nodes_iindex_ \ blackList)
  /\ specList' = detect.specs
  /\ detect' = Free
  /\ UNCHANGED <<round_robin_index_map_, update_mutex_, picker>>

-----------------------------------------------------------------------------
Init ==
  /\ nodes_iindex_ = [n \in {} |-> {}]
  /\ black_list_ = {}
  /\ valid_nodes_ = [p \in {} |-> {}]
  /\ round_robin_index_map_ = [p \in {} |-> 0]
  /\ update_mutex_ = Free
  /\ picker = [t \in Pickers |-> Free]
  /\ specList = {}
  /\ detect = Free

Update ==
  \/ \E path \in Paths, children \in SUBSET Nodes : UpdateHeartbeat(children, path)
  \/ UpdateHeartbeatIndex
  \/ \E paths \in SUBSET Paths : RemovePath(paths)
  \/ RemovePathNodes
  \/ \E badSpecs \in SUBSET Nodes : FindNodesBySpec(badSpecs)
  \/ UpdateBadNode

Pick ==
  \E t \in Pickers :
    \/ \E path \in Paths : PickOneNode(t, path)
    \/ PickFails(t)
    \/ \E node \in Nodes : PickSucceeds(t, node)

Next == Update \/ Pick

Spec == Init /\ [][Next]_vars

-----------------------------------------------------------------------------
\* The tables hold what their C++ types say; index entries are never empty.
TypeOK ==
  /\ DOMAIN nodes_iindex_ \subseteq Nodes
  /\ nodes_iindex_ \in [DOMAIN nodes_iindex_ -> (SUBSET Paths) \ {{}}]
  /\ black_list_ \subseteq Nodes
  /\ DOMAIN valid_nodes_ \subseteq Paths
  /\ valid_nodes_ \in [DOMAIN valid_nodes_ -> NodeLists]
  /\ DOMAIN round_robin_index_map_ \subseteq Paths
  /\ round_robin_index_map_ \in [DOMAIN round_robin_index_map_ -> Nat]
  /\ update_mutex_ \in {Free} \cup [op : {"heartbeat", "remove"}, paths : SUBSET Paths]
  /\ picker \in [Pickers -> {Free} \cup Paths]
  /\ specList \subseteq Nodes
  /\ detect \in {Free} \cup [specs : SUBSET Nodes, nodes : SUBSET Nodes]

\* UpdateBadNode and RemovePath reach a node's lists only through its index
\* entry, so every listing of a node must be in the index.
IndexComplete ==
  \A p \in DOMAIN valid_nodes_ : \A n \in Range(valid_nodes_[p]) :
    n \in DOMAIN nodes_iindex_ /\ p \in nodes_iindex_[n]

\* A node on the black list is in no list PickOneNode chooses from.
BlackNotValid ==
  \A p \in DOMAIN valid_nodes_ : Range(valid_nodes_[p]) \cap black_list_ = {}

\* UpdateBadNode, RemovePath: no black node can be picked.  The first part is
\* what keeps the second: a new black node leaves the lists its entry names.
ListsOK == IndexComplete /\ BlackNotValid

\* A pick that waits for node_lock_ holds a pointer into the round robin map;
\* RemovePath deletes such indices, but never one that a pick is holding.
HeldIndexAlive ==
  \A t \in Pickers : picker[t] # Free => picker[t] \in DOMAIN round_robin_index_map_

\* A path that has a round robin index has a list at every moment, so a pick
\* that found an index is answered from a list; between updates exactly the
\* paths with a list have an index.  The two tables are written in separate
\* critical sections, in opposite orders by the two updates.
TablesAgree ==
  /\ DOMAIN round_robin_index_map_ \subseteq DOMAIN valid_nodes_
  /\ update_mutex_ = Free => DOMAIN round_robin_index_map_ = DOMAIN valid_nodes_

\* A pick in the middle of an update works on tables that are well formed and
\* agree, with an index that is still there.
TablesOK == TypeOK /\ TablesAgree /\ HeldIndexAlive

\* Removing paths never takes a node off the black list: the erase at the end
\* of RemovePath only ever names nodes that were listed, hence not black.
RemoveKeepsBlackList ==
  [][RemovePathNodes => UNCHANGED black_list_]_vars
=============================================================================

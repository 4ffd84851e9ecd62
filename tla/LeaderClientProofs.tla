------------------------- MODULE LeaderClientProofs -------------------------
(***************************************************************************)
(* What a client of the leader relies on.  The invariants of               *)
(* NodeCollection, and of RoundRobin that adds a history to it, for every  *)
(* set of nodes, paths and picking threads.  Of ChannelPool, for any       *)
(* number of servers, threads and slots: GetChannel makes one group per    *)
(* server and gives a slot to one thread, the answer to a ping finds its   *)
(* channel, and the black list is what the last round of the detector saw. *)
(***************************************************************************)
EXTENDS RoundRobin, ChannelPool, FiniteSetTheorems, FunctionTheorems, SequenceTheorems, TLAPS

\* A node list has finitely many positions, numbered from 1.
LEMMA NodeListDomain ==
  ASSUME NEW list \in NodeLists
  PROVE  /\ \E k \in Nat : DOMAIN list = 1..k
         /\ Range(list) \subseteq Nodes
         /\ Range(list) # {} => Cardinality(DOMAIN list) \in Nat \ {0}
<1>1. PICK k \in 0..Cardinality(Nodes) : list \in Injection(1..k, Nodes)
  BY DEF NodeLists
<1>2. k \in Nat /\ list \in [1..k -> Nodes]
  BY <1>1 DEF Injection
<1>3. Cardinality(1..k) = k
  BY <1>2, FS_Interval, SMT
<1>4. QED
  BY <1>2, <1>3 DEF Range

\* The tables keep their types (TypeOK) under every operation.
THEOREM TypeCorrect == Spec => []TypeOK
<1>1. Init => TypeOK
  BY DEF Init, TypeOK
<1>2. TypeOK /\ [Next]_vars => TypeOK'
  <2> SUFFICES ASSUME TypeOK, [Next]_vars PROVE TypeOK'
    OBVIOUS
  <2>1. ASSUME NEW path \in Paths, NEW children \in SUBSET Nodes,
               UpdateHeartbeat(children, path)
        PROVE  TypeOK'
    BY <2>1 DEF UpdateHeartbeat, ValidNodes, TypeOK
  <2>2. CASE UpdateHeartbeatIndex
    BY <2>2 DEF UpdateHeartbeatIndex, TypeOK
  <2>3. ASSUME NEW paths \in SUBSET Paths, RemovePath(paths)
        PROVE  TypeOK'
    BY <2>3 DEF RemovePath, Restrict, TypeOK
  <2>4. CASE RemovePathNodes
    BY <2>4 DEF RemovePathNodes, Emptied, PathsLeft, Restrict, TypeOK
  <2>5. ASSUME NEW badSpecs \in SUBSET Nodes, FindNodesBySpec(badSpecs)
        PROVE  TypeOK'
    BY <2>5 DEF FindNodesBySpec, TypeOK
  <2>6. CASE UpdateBadNode
    BY <2>6 DEF UpdateBadNode, Restrict, TypeOK
  <2>7. ASSUME NEW t \in Pickers, NEW path \in Paths, PickOneNode(t, path)
        PROVE  TypeOK'
    BY <2>7 DEF PickOneNode, TypeOK
  <2>8. ASSUME NEW t \in Pickers, PickFails(t)
        PROVE  TypeOK'
    BY <2>8 DEF PickFails, TypeOK
  <2>9. ASSUME NEW t \in Pickers, NEW node \in Nodes, PickSucceeds(t, node)
        PROVE  TypeOK'
    <3> DEFINE path == picker[t]
               base == Cardinality(DOMAIN valid_nodes_[path])
               index == (round_robin_index_map_[path] + 1) % base
    <3>1. path \in DOMAIN valid_nodes_ /\ path \in DOMAIN round_robin_index_map_
      BY <2>9 DEF PickSucceeds
    <3>2. valid_nodes_[path] \in NodeLists /\ round_robin_index_map_[path] \in Nat
      BY <3>1 DEF TypeOK
    <3>3. base \in Nat \ {0}
      BY <2>9, <3>2, NodeListDomain DEF PickSucceeds
    <3>4. index \in Nat
      <4> HIDE DEF base
      <4>1. QED BY <3>2, <3>3
    <3>5. round_robin_index_map_' = [round_robin_index_map_ EXCEPT ![path] = index]
      BY <2>9 DEF PickSucceeds, next
    <3> HIDE DEF path, index
    <3>6. QED
      BY <2>9, <3>1, <3>4, <3>5 DEF PickSucceeds, TypeOK
  <2>10. CASE UNCHANGED vars
    BY <2>10 DEF vars, TypeOK
  <2>11. QED
    BY <2>1, <2>2, <2>3, <2>4, <2>5, <2>6, <2>7, <2>8, <2>9, <2>10
       DEF Next, Update, Pick
<1>3. QED
  BY <1>1, <1>2, PTL DEF Spec

-----------------------------------------------------------------------------
\* The index is complete and no black node is listed.  Neither conjunct is
\* inductive without the other's tables: UpdateBadNode erases a new black
\* node from the lists its index entry names, so it needs IndexComplete.
\* Their conjunction is inductive relative to TypeOK.
THEOREM NoBlackNodeListed == Spec => []ListsOK
<1>1. Init => ListsOK
  BY DEF Init, ListsOK, IndexComplete, BlackNotValid
<1>2. TypeOK /\ ListsOK /\ [Next]_vars => ListsOK'
  <2> SUFFICES ASSUME TypeOK, ListsOK, [Next]_vars PROVE ListsOK'
    OBVIOUS
  <2> USE DEF ListsOK
  <2>1. ASSUME NEW path \in Paths, NEW children \in SUBSET Nodes,
               UpdateHeartbeat(children, path)
        PROVE  ListsOK'
    <3>1. PICK list \in NodeLists :
            /\ Range(list) = ValidNodes(children)
            /\ valid_nodes_' = [p \in DOMAIN valid_nodes_ \cup {path} |->
                                 IF p = path THEN list ELSE valid_nodes_[p]]
      BY <2>1 DEF UpdateHeartbeat
    <3>2. IndexComplete'
      BY <2>1, <3>1 DEF UpdateHeartbeat, IndexComplete
    <3>3. BlackNotValid'
      BY <2>1, <3>1 DEF UpdateHeartbeat, ValidNodes, BlackNotValid
    <3>4. QED BY <3>2, <3>3
  <2>2. CASE RemovePathNodes
    <3> DEFINE removed == update_mutex_.paths \cap DOMAIN valid_nodes_
               listed  == UNION {Range(valid_nodes_[p]) : p \in removed}
    <3>1. /\ nodes_iindex_' = [n \in DOMAIN nodes_iindex_ \ Emptied(listed, removed) |->
                                PathsLeft(n, removed)]
          /\ valid_nodes_' = [p \in DOMAIN valid_nodes_ \ removed |-> valid_nodes_[p]]
          /\ black_list_' \subseteq black_list_
      BY <2>2 DEF RemovePathNodes, Restrict
    <3> HIDE DEF removed, listed
    <3>2. IndexComplete'
      BY <3>1 DEF IndexComplete, Emptied, PathsLeft
    <3>3. BlackNotValid'
      BY <3>1 DEF BlackNotValid
    <3>4. QED BY <3>2, <3>3
  <2>3. CASE UpdateBadNode
    <3> DEFINE gone(p) == {n \in detect.nodes \cap DOMAIN nodes_iindex_ :
                             p \in nodes_iindex_[n]}
    <3>1. \A p \in DOMAIN valid_nodes_ :
            Range(valid_nodes_'[p]) = Range(valid_nodes_[p]) \ gone(p)
      BY <2>3 DEF UpdateBadNode, ErasedFrom
    <3>2. /\ DOMAIN valid_nodes_' = DOMAIN valid_nodes_
          /\ black_list_' = detect.nodes
          /\ nodes_iindex_' = [n \in DOMAIN nodes_iindex_ \ detect.nodes |->
                                nodes_iindex_[n]]
      BY <2>3 DEF UpdateBadNode, Restrict
    <3>3. \A p \in DOMAIN valid_nodes_ :
            Range(valid_nodes_'[p]) = Range(valid_nodes_[p]) \ detect.nodes
      BY <3>1 DEF IndexComplete
    <3>4. IndexComplete'
      BY <3>2, <3>3 DEF IndexComplete
    <3>5. BlackNotValid'
      BY <3>2, <3>3 DEF BlackNotValid
    <3>6. QED BY <3>4, <3>5
  <2>4. CASE UNCHANGED <<nodes_iindex_, black_list_, valid_nodes_>>
    BY <2>4 DEF IndexComplete, BlackNotValid
  <2>5. QED
    BY <2>1, <2>2, <2>3, <2>4
       DEF Next, Update, Pick, vars, UpdateHeartbeatIndex, RemovePath,
           FindNodesBySpec, PickOneNode, PickFails, PickSucceeds
<1>3. QED
  BY <1>1, <1>2, TypeCorrect, PTL DEF Spec

\* RemovePath never changes the black list: every node it lists is in the
\* index and not black.
THEOREM RemoveNeverClearsBlack == Spec => RemoveKeepsBlackList
<1>1. TypeOK /\ ListsOK /\ [Next]_vars
        => [RemovePathNodes => UNCHANGED black_list_]_vars
  <2> SUFFICES ASSUME TypeOK, ListsOK, RemovePathNodes
               PROVE  black_list_' = black_list_
    OBVIOUS
  <2> DEFINE removed == update_mutex_.paths \cap DOMAIN valid_nodes_
             listed  == UNION {Range(valid_nodes_[p]) : p \in removed}
  <2>1. listed \cap black_list_ = {}
    BY DEF ListsOK, BlackNotValid
  <2>2. black_list_' = black_list_ \ (Emptied(listed, removed) \cup
                                       (listed \ DOMAIN nodes_iindex_))
    BY DEF RemovePathNodes
  <2>3. Emptied(listed, removed) \subseteq listed
    BY DEF Emptied
  <2>4. QED
    BY <2>1, <2>2, <2>3
<1>2. QED
  BY <1>1, TypeCorrect, NoBlackNodeListed, PTL DEF Spec, RemoveKeepsBlackList

-----------------------------------------------------------------------------
\* How far apart the two tables are while an update is between its sections:
\* a heartbeat owes its path an index, a removal owes the lists of its paths.
TablesInv ==
  /\ update_mutex_ = Free => DOMAIN round_robin_index_map_ = DOMAIN valid_nodes_
  /\ update_mutex_ # Free /\ update_mutex_.op = "heartbeat" =>
       DOMAIN round_robin_index_map_ \cup update_mutex_.paths = DOMAIN valid_nodes_
  /\ update_mutex_ # Free /\ update_mutex_.op = "remove" =>
       /\ update_mutex_.paths \subseteq DOMAIN valid_nodes_
       /\ DOMAIN round_robin_index_map_ = DOMAIN valid_nodes_ \ update_mutex_.paths
  /\ HeldIndexAlive

\* TablesInv is inductive relative to TypeOK.
LEMMA TablesInvariant == Spec => []TablesInv
<1>1. Init => TablesInv
  BY DEF Init, TablesInv, HeldIndexAlive
<1>2. TypeOK /\ TablesInv /\ [Next]_vars => TablesInv'
  <2> SUFFICES ASSUME TypeOK, TablesInv, [Next]_vars PROVE TablesInv'
    OBVIOUS
  <2> USE FreeAssumption DEF TablesInv, HeldIndexAlive
  <2>1. ASSUME NEW path \in Paths, NEW children \in SUBSET Nodes,
               UpdateHeartbeat(children, path)
        PROVE  TablesInv'
    <3>1. /\ DOMAIN valid_nodes_' = DOMAIN valid_nodes_ \cup {path}
          /\ DOMAIN round_robin_index_map_ = DOMAIN valid_nodes_
          /\ update_mutex_' = [op |-> "heartbeat", paths |-> {path}]
          /\ UNCHANGED <<round_robin_index_map_, picker>>
      BY <2>1 DEF UpdateHeartbeat
    <3>2. update_mutex_' # Free
      BY <3>1
    <3>3. QED
      BY <3>1, <3>2
  <2>2. CASE UpdateHeartbeatIndex
    BY <2>2 DEF UpdateHeartbeatIndex, NoRoundRobinReader
  <2>3. ASSUME NEW paths \in SUBSET Paths, RemovePath(paths)
        PROVE  TablesInv'
    <3> DEFINE removePaths == {p \in DOMAIN valid_nodes_ :
                                 \E q \in paths : p \in SubPaths[q]}
    <3>1. /\ DOMAIN round_robin_index_map_ = DOMAIN valid_nodes_
          /\ DOMAIN round_robin_index_map_' = DOMAIN valid_nodes_ \ removePaths
          /\ update_mutex_' = [op |-> "remove", paths |-> removePaths]
          /\ NoRoundRobinReader
          /\ UNCHANGED <<valid_nodes_, picker>>
      BY <2>3 DEF RemovePath, Restrict
    <3>2. removePaths \subseteq Paths /\ removePaths \subseteq DOMAIN valid_nodes_
      BY DEF TypeOK
    <3> HIDE DEF removePaths
    <3>3. update_mutex_' # Free
      BY <3>1, <3>2
    <3>4. QED
      BY <3>1, <3>2, <3>3 DEF NoRoundRobinReader
  <2>4. CASE RemovePathNodes
    BY <2>4 DEF RemovePathNodes, Restrict
  <2>5. CASE UpdateBadNode
    BY <2>5 DEF UpdateBadNode
  <2>6. ASSUME NEW t \in Pickers, NEW path \in Paths, PickOneNode(t, path)
        PROVE  TablesInv'
    BY <2>6 DEF PickOneNode, TypeOK
  <2>7. ASSUME NEW t \in Pickers, PickFails(t)
        PROVE  TablesInv'
    BY <2>7 DEF PickFails, TypeOK
  <2>8. ASSUME NEW t \in Pickers, NEW node \in Nodes, PickSucceeds(t, node)
        PROVE  TablesInv'
    BY <2>8 DEF PickSucceeds, TypeOK
  <2>9. CASE UNCHANGED <<valid_nodes_, round_robin_index_map_, update_mutex_, picker>>
    BY <2>9
  <2>10. QED
    BY <2>1, <2>2, <2>3, <2>4, <2>5, <2>6, <2>7, <2>8, <2>9
       DEF Next, Update, Pick, vars, FindNodesBySpec
<1>3. QED
  BY <1>1, <1>2, TypeCorrect, PTL DEF Spec

\* The two tables agree wherever an update stands, and a pick's index is alive.
THEOREM TablesCorrect == Spec => []TablesOK
<1>1. TypeOK /\ TablesInv => TablesOK
  BY DEF TypeOK, TablesInv, TablesAgree, TablesOK
<1>2. QED
  BY <1>1, TypeCorrect, TablesInvariant, PTL

-----------------------------------------------------------------------------
\* Position j (from 0) is among those from s to i, going round.
InArc(s, i, j) == IF s <= i THEN s <= j /\ j <= i ELSE s <= j \/ j <= i

\* The nodes of list that are one pick ahead are those from some position s
\* round to the index i, and the next pick is not one of them.
OneArc(counts, list, i) ==
  LET base == Cardinality(DOMAIN list)
  IN  /\ i < base
      /\ \E s \in 0..(base - 1) :
           /\ s # next(i, base)
           /\ \A j \in 0..(base - 1) : counts[list[j + 1]] = IF InArc(s, i, j) THEN 1 ELSE 0

\* The inductive invariant behind EvenlyServed.
ServedInv ==
  /\ ahead \in [Paths -> [Nodes -> {0, 1}]]
  /\ \A p \in Paths \ DOMAIN valid_nodes_ : ahead[p] = NoPicks
  /\ \A p \in DOMAIN valid_nodes_, n \in Nodes :
       n \notin Range(valid_nodes_[p]) => ahead[p][n] = 0
  /\ update_mutex_ # Free /\ update_mutex_.op = "heartbeat" =>
       \A p \in DOMAIN valid_nodes_ \ DOMAIN round_robin_index_map_ : ahead[p] = NoPicks
  /\ \A p \in DOMAIN valid_nodes_ \cap DOMAIN round_robin_index_map_ :
       \/ ahead[p] = NoPicks
       \/ OneArc(ahead[p], valid_nodes_[p], round_robin_index_map_[p])

\* The positions of a list without repetition.
LEMMA NodeListPositions ==
  ASSUME NEW list \in NodeLists
  PROVE  LET base == Cardinality(DOMAIN list)
         IN  /\ base \in Nat /\ DOMAIN list = 1..base
             /\ \A j \in 0..(base - 1) : j + 1 \in DOMAIN list /\ list[j + 1] \in Nodes
             /\ \A n \in Range(list) : \E j \in 0..(base - 1) : n = list[j + 1]
             /\ \A i, j \in DOMAIN list : list[i] = list[j] => i = j
<1>1. PICK k \in 0..Cardinality(Nodes) : list \in Injection(1..k, Nodes)
  BY DEF NodeLists
<1>2. k \in Nat /\ list \in [1..k -> Nodes] /\ \A i, j \in 1..k : list[i] = list[j] => i = j
  BY <1>1 DEF Injection, IsInjective
<1>3. Cardinality(1..k) = k
  BY <1>2, FS_Interval, SMT
<1>4. DOMAIN list = 1..k /\ Cardinality(DOMAIN list) = k
  BY <1>2, <1>3
<1>5. \A n \in Range(list) : \E j \in 0..(k - 1) : n = list[j + 1]
  <2> SUFFICES ASSUME NEW n \in Range(list) PROVE \E j \in 0..(k - 1) : n = list[j + 1]
    OBVIOUS
  <2>1. PICK i \in 1..k : n = list[i]
    BY <1>2 DEF Range
  <2>2. i - 1 \in 0..(k - 1) /\ (i - 1) + 1 = i
    BY <1>2
  <2>3. QED
    BY <2>1, <2>2
<1>6. \A j \in 0..(k - 1) : j + 1 \in 1..k
  BY <1>2
<1>7. QED
  BY <1>2, <1>4, <1>5, <1>6

\* The index goes round.
LEMMA NextIndex ==
  ASSUME NEW base \in Nat \ {0}, NEW i \in Nat
  PROVE  /\ next(i, base) \in 0..(base - 1)
         /\ i < base => next(i, base) = IF i + 1 < base THEN i + 1 ELSE 0
<1>1. (i + 1) % base \in 0..(base - 1)
  OBVIOUS
<1>2. i + 1 < base => (i + 1) % base = i + 1
  OBVIOUS
<1>3. i + 1 = base => (i + 1) % base = 0
  <2>1. base % base = 0
    OBVIOUS
  <2>2. QED BY <2>1
<1>4. QED
  BY <1>1, <1>2, <1>3 DEF next

\* One pick lengthens the arc by one position, and an arc that has become the
\* whole list counts as none.
LEMMA CountKeepsArc ==
  ASSUME NEW list \in NodeLists, Range(list) # {},
         NEW counts \in [Nodes -> {0, 1}], NEW i \in Nat, NEW node \in Nodes,
         \A n \in Nodes : n \notin Range(list) => counts[n] = 0,
         counts = NoPicks \/ OneArc(counts, list, i),
         node = list[next(i, Cardinality(DOMAIN list)) + 1]
  PROVE  LET after == Count(counts, list, node)
         IN  /\ after \in [Nodes -> {0, 1}]
             /\ \A n \in Nodes : n \notin Range(list) => after[n] = 0
             /\ \/ after = NoPicks
                \/ OneArc(after, list, next(i, Cardinality(DOMAIN list)))
<1> DEFINE base == Cardinality(DOMAIN list)
           idx == next(i, base)
           picks == [counts EXCEPT ![node] = @ + 1]
<1>1. /\ base \in Nat \ {0} /\ DOMAIN list = 1..base
      /\ \A j \in 0..(base - 1) : j + 1 \in DOMAIN list /\ list[j + 1] \in Nodes
      /\ \A n \in Range(list) : \E j \in 0..(base - 1) : n = list[j + 1]
      /\ \A k, j \in DOMAIN list : list[k] = list[j] => k = j
  BY NodeListPositions, NodeListDomain
<1>2. idx \in 0..(base - 1) /\ (i < base => idx = IF i + 1 < base THEN i + 1 ELSE 0)
  <2> HIDE DEF base
  <2>1. QED BY <1>1, NextIndex
<1>3. next(idx, base) \in 0..(base - 1) /\ next(idx, base) = IF idx + 1 < base THEN idx + 1 ELSE 0
  <2> HIDE DEF base, idx
  <2>1. idx \in Nat /\ idx < base
    BY <1>1, <1>2
  <2>2. QED BY <1>1, <2>1, NextIndex
<1>4. node = list[idx + 1] /\ node \in Range(list)
  BY <1>1, <1>2 DEF Range
<1>5. \A j \in 0..(base - 1) : list[j + 1] = node <=> j = idx
  <2> HIDE DEF base, idx
  <2>1. QED BY <1>1, <1>2, <1>4
<1> HIDE DEF base, idx
<1>6. \E s \in 0..(base - 1) :
        \A j \in 0..(base - 1) : picks[list[j + 1]] = IF InArc(s, idx, j) THEN 1 ELSE 0
  <2>1. CASE counts = NoPicks
    <3>1. \A j \in 0..(base - 1) : picks[list[j + 1]] = IF InArc(idx, idx, j) THEN 1 ELSE 0
      BY <1>1, <1>2, <1>5, <2>1 DEF NoPicks, InArc
    <3>2. QED
      BY <1>2, <3>1
  <2>2. CASE OneArc(counts, list, i)
    <3>1. PICK s \in 0..(base - 1) :
            /\ i < base /\ s # idx
            /\ \A j \in 0..(base - 1) : counts[list[j + 1]] = IF InArc(s, i, j) THEN 1 ELSE 0
      BY <2>2 DEF OneArc, base, idx
    <3>2. \A j \in 0..(base - 1) : InArc(s, idx, j) <=> InArc(s, i, j) \/ j = idx
      BY <1>1, <1>2, <3>1 DEF InArc
    <3>3. ~InArc(s, i, idx)
      BY <1>1, <1>2, <3>1 DEF InArc
    <3>4. counts[node] = 0
      BY <1>2, <1>4, <3>1, <3>3
    <3>5. \A j \in 0..(base - 1) : picks[list[j + 1]] = IF InArc(s, idx, j) THEN 1 ELSE 0
      BY <1>1, <1>5, <3>1, <3>2, <3>4
    <3>6. QED
      BY <3>5
  <2>3. QED
    BY <2>1, <2>2
<1>7. /\ \A n \in Nodes : n \notin Range(list) => picks[n] = 0
      /\ picks \in [Nodes -> {0, 1}]
  <2>1. \A n \in Nodes : n \notin Range(list) => picks[n] = 0
    BY <1>4
  <2>2. ASSUME NEW n \in Nodes PROVE picks[n] \in {0, 1}
    <3>1. CASE n \in Range(list)
      <4>1. PICK j \in 0..(base - 1) : n = list[j + 1]
        BY <1>1, <3>1
      <4> HIDE DEF picks
      <4>2. QED
        BY <1>6, <4>1
    <3>2. QED
      BY <2>1, <3>1
  <2>3. DOMAIN picks = Nodes /\ picks = [n \in Nodes |-> picks[n]]
    OBVIOUS
  <2>4. QED
    BY <2>1, <2>2, <2>3
<1> HIDE DEF picks
<1>8. CASE \E n \in Range(list) : picks[n] = 0
  <2>1. Count(counts, list, node) = picks
    BY <1>8 DEF Count, picks
  <2>2. PICK s \in 0..(base - 1) :
          \A j \in 0..(base - 1) : picks[list[j + 1]] = IF InArc(s, idx, j) THEN 1 ELSE 0
    BY <1>6
  <2>3. PICK j \in 0..(base - 1) : picks[list[j + 1]] = 0
    BY <1>1, <1>8
  <2>4. ~InArc(s, idx, j)
    BY <2>2, <2>3
  <2>5. s # next(idx, base)
    BY <1>1, <1>2, <1>3, <2>4 DEF InArc
  <2>6. idx < base
    BY <1>1, <1>2
  <2>7. OneArc(picks, list, idx)
    BY <2>2, <2>5, <2>6 DEF OneArc, base
  <2>8. QED
    BY <1>7, <2>1, <2>7 DEF idx, base
<1>9. CASE \A n \in Range(list) : picks[n] # 0
  <2>1. Count(counts, list, node) = [n \in Nodes |-> IF n \in Range(list) THEN picks[n] - 1 ELSE 0]
    BY <1>9 DEF Count, picks
  <2>2. Count(counts, list, node) = NoPicks
    <3>1. \A n \in Range(list) : n \in Nodes => picks[n] - 1 = 0
      BY <1>7, <1>9
    <3>2. QED
      BY <2>1, <3>1 DEF NoPicks
  <2>3. QED
    BY <2>2 DEF NoPicks
<1>10. QED
  BY <1>8, <1>9

\* A behaviour of RoundRobin is one of NodeCollection.
LEMMA HistoryOnly == RRSpec => Spec
<1>1. RRInit => Init
  BY DEF RRInit
<1>2. [RRNext]_<<vars, ahead>> => [Next]_vars
  BY DEF RRNext, RRUpdate, RRPickOneNode, RRPickFails, RRPickSucceeds, Next, Pick, vars
<1>3. QED
  BY <1>1, <1>2, PTL DEF RRSpec, Spec

\* However many threads pick, no node of an unchanged list is picked twice
\* more than another.  EvenlyServed alone is not inductive: the picks since the
\* list was written have to be an arc that ends at the index (OneArc), wherever
\* the index stood before, and an index that RemovePath deletes must not come
\* back beside an old count.
THEOREM PicksAreEven == RRSpec => []EvenlyServed
<1>1. RRInit => ServedInv
  BY DEF RRInit, Init, ServedInv, NoPicks
<1>2. TypeOK /\ TypeOK' /\ TablesInv /\ ServedInv /\ [RRNext]_<<vars, ahead>> => ServedInv'
  <2> SUFFICES ASSUME TypeOK, TypeOK', TablesInv, ServedInv, [RRNext]_<<vars, ahead>>
               PROVE  ServedInv'
    OBVIOUS
  <2> DEFINE kept(p) == /\ p \in DOMAIN valid_nodes_ \cap DOMAIN valid_nodes_'
                        /\ valid_nodes_'[p] = valid_nodes_[p]
                        /\ ahead'[p] = ahead[p]
  <2>0. NoPicks \in [Nodes -> {0, 1}] /\ \A n \in Nodes : NoPicks[n] = 0
    BY DEF NoPicks
  <2>1. ASSUME ahead' \in [Paths -> [Nodes -> {0, 1}]],
               \A p \in Paths : ahead'[p] = NoPicks \/ kept(p),
               \A p \in DOMAIN round_robin_index_map_' :
                 \/ /\ p \in DOMAIN round_robin_index_map_
                    /\ round_robin_index_map_'[p] = round_robin_index_map_[p]
                 \/ p \in DOMAIN valid_nodes_' => ahead'[p] = NoPicks,
               update_mutex_' # Free /\ update_mutex_'.op = "heartbeat" =>
                 \A p \in DOMAIN valid_nodes_' \ DOMAIN round_robin_index_map_' :
                   ahead'[p] = NoPicks
        PROVE  ServedInv'
    <3>1. DOMAIN valid_nodes_' \subseteq Paths
      BY DEF TypeOK
    <3>2. \A p \in Paths \ DOMAIN valid_nodes_' : ahead'[p] = NoPicks
      BY <2>1
    <3>3. \A p \in DOMAIN valid_nodes_', n \in Nodes :
            n \notin Range(valid_nodes_'[p]) => ahead'[p][n] = 0
      BY <2>0, <2>1, <3>1 DEF ServedInv
    <3>4. \A p \in DOMAIN valid_nodes_' \cap DOMAIN round_robin_index_map_' :
            \/ ahead'[p] = NoPicks
            \/ OneArc(ahead'[p], valid_nodes_'[p], round_robin_index_map_'[p])
      BY <2>1, <3>1 DEF ServedInv
    <3>5. QED
      BY <2>1, <3>2, <3>3, <3>4 DEF ServedInv
  <2>2. CASE RRUpdate
    <3>1. \A p \in Paths : ahead'[p] = NoPicks \/ kept(p)
      BY <2>2 DEF RRUpdate
    <3>2. ahead' \in [Paths -> [Nodes -> {0, 1}]]
      BY <2>0, <2>2 DEF RRUpdate, ServedInv
    <3>3. DOMAIN valid_nodes_ \subseteq Paths
      BY DEF TypeOK
    <3> HIDE DEF kept
    <3>4. ASSUME NEW path \in Paths, NEW children \in SUBSET Nodes,
                 UpdateHeartbeat(children, path)
          PROVE  ServedInv'
      <4>1. /\ round_robin_index_map_' = round_robin_index_map_
            /\ DOMAIN valid_nodes_' = DOMAIN valid_nodes_ \cup {path}
            /\ DOMAIN round_robin_index_map_ = DOMAIN valid_nodes_
        BY <3>4 DEF UpdateHeartbeat, TablesInv
      <4>2. \A p \in DOMAIN valid_nodes_' \ DOMAIN round_robin_index_map_' : ahead'[p] = NoPicks
        BY <3>1, <4>1 DEF kept
      <4>3. QED
        BY <2>1, <3>1, <3>2, <4>1, <4>2
    <3>5. CASE UpdateHeartbeatIndex
      <4>1. /\ update_mutex_ # Free /\ update_mutex_.op = "heartbeat" /\ update_mutex_' = Free
            /\ DOMAIN round_robin_index_map_' = DOMAIN round_robin_index_map_ \cup update_mutex_.paths
            /\ \A p \in DOMAIN round_robin_index_map_ :
                 round_robin_index_map_'[p] = round_robin_index_map_[p]
            /\ valid_nodes_' = valid_nodes_
        BY <3>5 DEF UpdateHeartbeatIndex
      <4>2. \A p \in DOMAIN valid_nodes_ \ DOMAIN round_robin_index_map_ : ahead[p] = NoPicks
        BY <4>1 DEF ServedInv
      <4>3. \A p \in DOMAIN valid_nodes_ \ DOMAIN round_robin_index_map_ : ahead'[p] = NoPicks
        BY <3>1, <3>3, <4>2 DEF kept
      <4>4. QED
        BY <2>1, <3>1, <3>2, <4>1, <4>3
    <3>6. ASSUME NEW paths \in SUBSET Paths, RemovePath(paths) PROVE ServedInv'
      <4>1. /\ DOMAIN round_robin_index_map_' \subseteq DOMAIN round_robin_index_map_
            /\ \A p \in DOMAIN round_robin_index_map_' :
                 round_robin_index_map_'[p] = round_robin_index_map_[p]
            /\ update_mutex_'.op = "remove"
        BY <3>6 DEF RemovePath, Restrict
      <4>2. QED
        BY <2>1, <3>1, <3>2, <4>1
    <3>7. CASE RemovePathNodes \/ UpdateBadNode
      <4>1. round_robin_index_map_' = round_robin_index_map_ /\ update_mutex_' = Free
        BY <3>7 DEF RemovePathNodes, UpdateBadNode
      <4>2. QED
        BY <2>1, <3>1, <3>2, <4>1
    <3>8. ASSUME NEW badSpecs \in SUBSET Nodes, FindNodesBySpec(badSpecs) PROVE ServedInv'
      <4>1. UNCHANGED <<valid_nodes_, round_robin_index_map_, update_mutex_>>
        BY <3>8 DEF FindNodesBySpec
      <4>2. \A p \in Paths : ahead'[p] = ahead[p] \/ ahead'[p] = NoPicks
        BY <3>1 DEF kept
      <4>3. QED
        BY <2>1, <3>1, <3>2, <3>3, <4>1, <4>2 DEF ServedInv
    <3>9. QED
      BY <2>2, <3>4, <3>5, <3>6, <3>7, <3>8 DEF RRUpdate, Update
  <2>3. ASSUME NEW t \in Pickers, NEW node \in Nodes, PickSucceeds(t, node),
               ahead' = [ahead EXCEPT ![picker[t]] = Count(@, valid_nodes_[picker[t]], node)]
        PROVE  ServedInv'
    <3> DEFINE p == picker[t]
               list == valid_nodes_[p]
               i == round_robin_index_map_[p]
               idx == next(i, Cardinality(DOMAIN list))
               after == Count(ahead[p], list, node)
    <3>1. /\ p \in DOMAIN valid_nodes_ \cap DOMAIN round_robin_index_map_
          /\ Range(list) # {} /\ node = list[idx + 1]
          /\ round_robin_index_map_' = [round_robin_index_map_ EXCEPT ![p] = idx]
          /\ UNCHANGED <<valid_nodes_, update_mutex_>>
      BY <2>3 DEF PickSucceeds
    <3>2. p \in Paths /\ list \in NodeLists /\ i \in Nat /\ ahead[p] \in [Nodes -> {0, 1}]
      BY <3>1 DEF TypeOK, ServedInv
    <3>3. /\ \A n \in Nodes : n \notin Range(list) => ahead[p][n] = 0
          /\ ahead[p] = NoPicks \/ OneArc(ahead[p], list, i)
      BY <3>1 DEF ServedInv
    <3>4. /\ after \in [Nodes -> {0, 1}]
          /\ \A n \in Nodes : n \notin Range(list) => after[n] = 0
          /\ after = NoPicks \/ OneArc(after, list, idx)
      BY <3>1, <3>2, <3>3, CountKeepsArc
    <3>5. ahead \in [Paths -> [Nodes -> {0, 1}]] /\ ahead' = [ahead EXCEPT ![p] = after]
      BY <2>3 DEF ServedInv
    <3>6. round_robin_index_map_ \in [DOMAIN round_robin_index_map_ -> Nat]
          /\ DOMAIN valid_nodes_ \subseteq Paths
      BY DEF TypeOK
    <3>7. /\ ahead' \in [Paths -> [Nodes -> {0, 1}]] /\ ahead'[p] = after
          /\ \A q \in Paths \ {p} : ahead'[q] = ahead[q]
      <4> HIDE DEF p, after
      <4>1. QED BY <3>2, <3>4, <3>5
    <3>8. /\ DOMAIN round_robin_index_map_' = DOMAIN round_robin_index_map_
          /\ round_robin_index_map_'[p] = idx
          /\ \A q \in DOMAIN round_robin_index_map_ \ {p} :
               round_robin_index_map_'[q] = round_robin_index_map_[q]
      <4> HIDE DEF p, idx
      <4>1. QED BY <3>1, <3>6
    <3> HIDE DEF idx, after, i
    <3>9. \A q \in Paths \ DOMAIN valid_nodes_ : ahead'[q] = NoPicks
      BY <3>1, <3>7 DEF ServedInv
    <3>10. \A q \in DOMAIN valid_nodes_, n \in Nodes :
             n \notin Range(valid_nodes_[q]) => ahead'[q][n] = 0
      BY <3>4, <3>6, <3>7 DEF ServedInv
    <3>11. \A q \in DOMAIN valid_nodes_ \cap DOMAIN round_robin_index_map_ :
             \/ ahead'[q] = NoPicks
             \/ OneArc(ahead'[q], valid_nodes_[q], round_robin_index_map_'[q])
      BY <3>4, <3>6, <3>7, <3>8 DEF ServedInv
    <3>12. update_mutex_ # Free /\ update_mutex_.op = "heartbeat" =>
             \A q \in DOMAIN valid_nodes_ \ DOMAIN round_robin_index_map_ : ahead'[q] = NoPicks
      BY <3>1, <3>6, <3>7 DEF ServedInv
    <3> HIDE DEF p, list
    <3>13. QED
      BY <3>1, <3>7, <3>8, <3>9, <3>10, <3>11, <3>12 DEF ServedInv
  <2>4. CASE UNCHANGED <<valid_nodes_, round_robin_index_map_, update_mutex_, ahead>>
    BY <2>4 DEF ServedInv
  <2>5. QED
    BY <2>2, <2>3, <2>4
       DEF RRNext, RRPickOneNode, RRPickFails, RRPickSucceeds, PickOneNode, PickFails, vars
<1>3. ServedInv => EvenlyServed
  BY DEF ServedInv, EvenlyServed
<1>4. QED
  BY <1>1, <1>2, <1>3, HistoryOnly, TypeCorrect, TablesInvariant, PTL DEF RRSpec

-----------------------------------------------------------------------------
\* Threads that have a group, and those that have been given a slot of it.
WithGroup == {"full?", "add", "init", "reset", "ping", "pick"}
WithSlot == {"init", "reset", "ping"}

GroupType == [spec : Specs, count : Nat, slots : [Slots -> {"free", "taken", "bad", "good"}],
              index : Nat]
GetterType == [pc : {"idle", "retry", "find", "insert"} \cup WithGroup,
               spec : Specs \cup {"none"}, group : Nat, slot : Nat, tries : Nat]
PingType == [group : Nat, slot : Slots, checker : BOOLEAN]

DetectorType ==
  [pc : {"sleep", "check", "wait"}, todo : SUBSET Nat, group : Nat, bad : Nat,
   num_wait : Nat, found : SUBSET Specs, specList : SUBSET Specs, last : SUBSET Specs]

PoolTypeOK ==
  /\ channel_pool_ \in [DOMAIN channel_pool_ -> Nat] /\ DOMAIN channel_pool_ \subseteq Specs
  /\ groups \in Seq(GroupType)
  /\ pings \subseteq PingType
  /\ getter \in [Getters -> GetterType]
  /\ detector \in DetectorType
  /\ nodes \in [valid : SUBSET Specs, black : SUBSET Specs]

\* The map names one group for each server it has, and there are no others.
GroupsMatch ==
  /\ \A s \in DOMAIN channel_pool_ : channel_pool_[s] \in 1..Len(groups)
  /\ IsFiniteSet(DOMAIN channel_pool_)
  /\ Len(groups) = Cardinality(DOMAIN channel_pool_)

\* What a thread in GetChannel knows.
GetterKnows(u) ==
  /\ getter[u].pc \in WithGroup =>
       /\ getter[u].spec \in DOMAIN channel_pool_
       /\ channel_pool_[getter[u].spec] = getter[u].group
  /\ getter[u].pc \notin WithGroup => getter[u].group = 0
  /\ getter[u].pc \in {"find", "insert"} => getter[u].spec \in Specs
  /\ getter[u].pc \in WithSlot =>
       getter[u].slot \in Slots /\ getter[u].slot <= groups[getter[u].group].count
  /\ getter[u].pc \in {"reset", "ping"} =>
       <<getter[u].group, getter[u].slot>> \in channel_group_cache_

GettersKnow == \A u \in Getters : GetterKnows(u)

\* A channel that is in its slot is in the cache, and so is one that is pinged.
ChannelsCached ==
  /\ \A g \in 1..Len(groups), i \in Slots :
       groups[g].slots[i] \in {"bad", "good"} => <<g, i>> \in channel_group_cache_
  /\ \A ping \in pings : ping.group \in 1..Len(groups)

GroupInv == PoolTypeOK /\ GroupsMatch /\ GettersKnow /\ SlotsNotShared /\ ChannelsCached
              /\ PingedIsCached

\* The pings of the round that is on.
CheckerPings == {ping \in pings : ping.checker}

RoundWaits ==
  /\ IsFiniteSet(CheckerPings) /\ Cardinality(CheckerPings) = detector.num_wait
  /\ detector.pc # "wait" => detector.num_wait = 0
  /\ detector.todo \subseteq 1..Len(groups)
  /\ detector.pc = "wait" => detector.group \in 1..Len(groups)

\* DoDetect returns early only when the black list is empty: spec_list_ is
\* what it was made from.
BlackFromList == nodes.black \subseteq detector.specList

PoolInv == GroupInv /\ RoundWaits /\ BlackFromList /\ BlackListIsFresh

-----------------------------------------------------------------------------
\* One group is rewritten.
LEMMA GroupWrite ==
  ASSUME PoolTypeOK, NEW g \in 1..Len(groups), NEW x \in GroupType,
         groups' = [groups EXCEPT ![g] = x]
  PROVE  /\ groups' \in Seq(GroupType) /\ Len(groups') = Len(groups)
         /\ \A h \in 1..Len(groups) : groups'[h] = IF h = g THEN x ELSE groups[h]
BY ExceptSeq DEF PoolTypeOK

LEMMA GroupFacts ==
  ASSUME PoolTypeOK
  PROVE  Len(groups) \in Nat /\ \A g \in 1..Len(groups) : groups[g] \in GroupType
BY DEF PoolTypeOK

\* A thread is rewritten.
LEMMA GetterWrite ==
  ASSUME PoolTypeOK, NEW u \in Getters, NEW x \in GetterType,
         getter' = [getter EXCEPT ![u] = x]
  PROVE  /\ getter' \in [Getters -> GetterType] /\ getter'[u] = x
         /\ \A v \in Getters : v # u => getter'[v] = getter[v]
BY DEF PoolTypeOK

\* A thread that has a group has one of the pool's.
LEMMA GroupOfGetter ==
  ASSUME GroupInv, NEW u \in Getters, getter[u].pc \in WithGroup
  PROVE  /\ getter[u].group \in 1..Len(groups) /\ groups[getter[u].group] \in GroupType
         /\ getter[u].spec \in DOMAIN channel_pool_
         /\ channel_pool_[getter[u].spec] = getter[u].group
<1>1. GetterKnows(u) /\ GroupsMatch /\ PoolTypeOK  BY DEF GroupInv, GettersKnow
<1>2. getter[u].spec \in DOMAIN channel_pool_ /\ channel_pool_[getter[u].spec] = getter[u].group
  BY <1>1 DEF GetterKnows
<1>3. getter[u].group \in 1..Len(groups)  BY <1>1, <1>2 DEF GroupsMatch
<1> QED  BY <1>1, <1>2, <1>3, GroupFacts

\* As long as counts grow, the cache grows and a channel appears in a slot
\* after it is cached, the threads that do not move know what they knew.
LEMMA GroupStep ==
  ASSUME GroupInv, PoolTypeOK', UNCHANGED channel_pool_, Len(groups') = Len(groups),
         \A g \in 1..Len(groups) : groups[g].count <= groups'[g].count,
         channel_group_cache_ \subseteq channel_group_cache_',
         \A g \in 1..Len(groups), i \in Slots :
           groups'[g].slots[i] \in {"bad", "good"} => <<g, i>> \in channel_group_cache_',
         \A ping \in pings' : \/ ping \in pings
                              \/ /\ <<ping.group, ping.slot>> \in channel_group_cache_'
                                 /\ ping.group \in 1..Len(groups),
         \A u \in Getters : getter'[u] = getter[u] \/ GetterKnows(u)',
         SlotsNotShared'
  PROVE  GroupInv'
<1>1. GroupsMatch'  BY DEF GroupInv, GroupsMatch
<1>2. GettersKnow'
  <2> SUFFICES ASSUME NEW u \in Getters, getter'[u] = getter[u] PROVE GetterKnows(u)'
    BY DEF GettersKnow
  <2>1. GetterKnows(u) /\ PoolTypeOK  BY DEF GroupInv, GettersKnow
  <2>2. getter[u].pc \in WithSlot =>
          getter[u].slot \in Slots /\ getter[u].slot <= groups'[getter[u].group].count
    <3> SUFFICES ASSUME getter[u].pc \in WithSlot
                 PROVE  getter[u].slot \in Slots
                        /\ getter[u].slot <= groups'[getter[u].group].count
      OBVIOUS
    <3> DEFINE g == getter[u].group
    <3>1. getter[u].slot \in Slots /\ getter[u].slot <= groups[g].count
      BY <2>1 DEF GetterKnows
    <3>2. getter[u].pc \in WithGroup  BY DEF WithSlot, WithGroup
    <3>3. g \in 1..Len(groups)  BY <3>2, GroupOfGetter
    <3>4. groups[g].count \in Nat /\ groups'[g].count \in Nat /\ getter[u].slot \in Nat
      <4>1. groups[g] \in GroupType /\ groups'[g] \in GroupType
        BY <2>1, <3>3 DEF PoolTypeOK
      <4>2. getter[u].slot \in Nat  BY <2>1 DEF PoolTypeOK, GetterType
      <4> QED  BY <4>1, <4>2 DEF GroupType
    <3> QED  BY <3>1, <3>3, <3>4
  <2> QED  BY <2>1, <2>2 DEF GetterKnows
<1>3. ChannelsCached' /\ PingedIsCached'  BY DEF GroupInv, ChannelsCached, PingedIsCached
<1> QED  BY <1>1, <1>2, <1>3 DEF GroupInv

\* A slot stays one thread's while no thread begins to open a channel.
LEMMA StaysUnshared ==
  ASSUME SlotsNotShared, NEW u \in Getters,
         \A v \in Getters : v # u => getter'[v] = getter[v],
         getter'[u].pc \in {"init", "reset"} =>
           /\ getter[u].pc \in {"init", "reset"}
           /\ getter'[u].group = getter[u].group /\ getter'[u].slot = getter[u].slot
  PROVE  SlotsNotShared'
BY DEF SlotsNotShared

\* The steps of a thread that write neither the map nor a group.
LEMMA GetterStep ==
  ASSUME GroupInv, NEW u \in Getters, NEW x \in GetterType,
         getter' = [getter EXCEPT ![u] = x],
         UNCHANGED <<channel_pool_, groups, detector, nodes>>,
         channel_group_cache_ \subseteq channel_group_cache_',
         pings' \subseteq PingType,
         \A ping \in pings' : \/ ping \in pings
                              \/ /\ <<ping.group, ping.slot>> \in channel_group_cache_'
                                 /\ ping.group \in 1..Len(groups),
         GetterKnows(u)',
         x.pc \in {"init", "reset"} =>
           /\ getter[u].pc \in {"init", "reset"}
           /\ x.group = getter[u].group /\ x.slot = getter[u].slot
  PROVE  GroupInv'
<1>1. PoolTypeOK /\ SlotsNotShared /\ ChannelsCached  BY DEF GroupInv
<1>2. /\ getter' \in [Getters -> GetterType] /\ getter'[u] = x
      /\ \A v \in Getters : v # u => getter'[v] = getter[v]
  BY <1>1, GetterWrite
<1>3. PoolTypeOK'  BY <1>1, <1>2 DEF PoolTypeOK
<1>4. SlotsNotShared'  BY <1>1, <1>2, StaysUnshared
<1>5. \A g \in 1..Len(groups) : groups[g].count <= groups'[g].count
  BY <1>1, GroupFacts DEF GroupType
<1>6. \A g \in 1..Len(groups), i \in Slots :
        groups'[g].slots[i] \in {"bad", "good"} => <<g, i>> \in channel_group_cache_'
  BY <1>1 DEF ChannelsCached
<1>7. \A v \in Getters : getter'[v] = getter[v] \/ GetterKnows(v)'  BY <1>2
<1> QED  BY <1>3, <1>4, <1>5, <1>6, <1>7, GroupStep

-----------------------------------------------------------------------------
\* GetChannel, step by step.
LEMMA IdleFacts ==
  /\ IdleGetter \in GetterType /\ IdleGetter.pc = "idle" /\ IdleGetter.group = 0
  /\ "idle" \notin WithGroup /\ "retry" \notin WithGroup
BY DEF IdleGetter, GetterType, WithGroup

LEMMA GetChannelKeeps ==
  ASSUME GroupInv, NEW u \in Getters, GetChannel(u)
  PROVE  GroupInv'
<1>1. PoolTypeOK  BY DEF GroupInv
<1>2. /\ UNCHANGED <<channel_pool_, groups, detector, nodes, channel_group_cache_, pings>>
      /\ pings \subseteq PingType
  BY <1>1 DEF GetChannel, PoolTypeOK
<1>3. CASE getter' = [getter EXCEPT ![u] = IdleGetter]
  <2>1. getter'[u] = IdleGetter  BY <1>1, <1>3 DEF PoolTypeOK
  <2>2. GetterKnows(u)'  BY <2>1 DEF GetterKnows, IdleGetter, WithGroup, WithSlot
  <2> QED  BY <1>2, <1>3, <2>2, IdleFacts, GetterStep
<1>4. ASSUME NEW spec \in nodes.valid,
             getter' = [getter EXCEPT ![u] = [IdleGetter EXCEPT
                          !.pc = "find", !.spec = spec, !.tries = getter[u].tries + 1]]
      PROVE  GroupInv'
  <2> DEFINE x == [IdleGetter EXCEPT !.pc = "find", !.spec = spec, !.tries = getter[u].tries + 1]
  <2>1. spec \in Specs /\ getter[u].tries + 1 \in Nat
    BY <1>1 DEF PoolTypeOK, GetterType
  <2>2. x \in GetterType /\ x.pc = "find" /\ x.spec \in Specs /\ x.group = 0
    BY <2>1, IdleFacts DEF GetterType, IdleGetter
  <2>3. getter' = [getter EXCEPT ![u] = x]  BY <1>4
  <2> HIDE DEF x
  <2>4. getter'[u] = x  BY <1>1, <2>3 DEF PoolTypeOK
  <2>5. GetterKnows(u)'  BY <2>2, <2>4 DEF GetterKnows, WithGroup, WithSlot
  <2> QED  BY <1>2, <2>2, <2>3, <2>5, GetterStep
<1> QED  BY <1>3, <1>4 DEF GetChannel

LEMMA FindGroupKeeps ==
  ASSUME GroupInv, NEW u \in Getters, FindGroup(u)
  PROVE  GroupInv'
<1> DEFINE spec == getter[u].spec
<1>1. PoolTypeOK /\ GetterKnows(u) /\ GroupsMatch  BY DEF GroupInv, GettersKnow
<1>2. /\ UNCHANGED <<channel_pool_, groups, detector, nodes, channel_group_cache_, pings>>
      /\ pings \subseteq PingType /\ getter[u].pc = "find" /\ getter[u] \in GetterType
  BY <1>1 DEF FindGroup, PoolTypeOK
<1>3. spec \in Specs /\ getter[u].group = 0  BY <1>1, <1>2 DEF GetterKnows, WithGroup
<1>4. CASE spec \in DOMAIN channel_pool_
  <2> DEFINE x == [getter[u] EXCEPT !.pc = "full?", !.group = channel_pool_[spec]]
  <2>1. channel_pool_[spec] \in Nat  BY <1>1, <1>4 DEF PoolTypeOK
  <2>2. x \in GetterType /\ x.pc = "full?" /\ x.spec = spec /\ x.group = channel_pool_[spec]
    BY <1>2, <2>1 DEF GetterType, WithGroup
  <2>3. getter' = [getter EXCEPT ![u] = x]  BY <1>4 DEF FindGroup
  <2> HIDE DEF x
  <2>4. getter'[u] = x  BY <1>1, <2>3 DEF PoolTypeOK
  <2>5. GetterKnows(u)'  BY <1>2, <1>4, <2>2, <2>4 DEF GetterKnows, WithGroup, WithSlot
  <2> QED  BY <1>2, <2>2, <2>3, <2>5, GetterStep
<1>5. CASE spec \notin DOMAIN channel_pool_
  <2> DEFINE x == [getter[u] EXCEPT !.pc = "insert"]
  <2>1. x \in GetterType /\ x.pc = "insert" /\ x.spec = spec /\ x.group = 0
    BY <1>2, <1>3 DEF GetterType
  <2>2. getter' = [getter EXCEPT ![u] = x]  BY <1>5 DEF FindGroup
  <2> HIDE DEF x
  <2>3. getter'[u] = x  BY <1>1, <2>2 DEF PoolTypeOK
  <2>4. GetterKnows(u)'  BY <1>3, <2>1, <2>3 DEF GetterKnows, WithGroup, WithSlot
  <2> QED  BY <1>2, <2>1, <2>2, <2>4, GetterStep
<1> QED  BY <1>4, <1>5

\* The second look under the write lock: the group is there, or it is made.
LEMMA InsertGroupKeeps ==
  ASSUME GroupInv, NEW u \in Getters, InsertGroup(u)
  PROVE  GroupInv' /\ Len(groups) <= Len(groups')
<1> DEFINE spec == getter[u].spec
<1>1. PoolTypeOK /\ GetterKnows(u) /\ GroupsMatch /\ SlotsNotShared /\ ChannelsCached
        /\ PingedIsCached
  BY DEF GroupInv, GettersKnow
<1>2. /\ UNCHANGED <<detector, nodes, channel_group_cache_, pings>>
      /\ pings \subseteq PingType /\ getter[u].pc = "insert" /\ getter[u] \in GetterType
      /\ Len(groups) \in Nat
  BY <1>1, GroupFacts DEF InsertGroup, PoolTypeOK
<1>3. spec \in Specs /\ getter[u].group = 0  BY <1>1, <1>2 DEF GetterKnows, WithGroup
<1>4. CASE spec \in DOMAIN channel_pool_
  <2> DEFINE x == [getter[u] EXCEPT !.pc = "full?", !.group = channel_pool_[spec]]
  <2>1. channel_pool_[spec] \in Nat  BY <1>1, <1>4 DEF PoolTypeOK
  <2>2. x \in GetterType /\ x.pc = "full?" /\ x.spec = spec /\ x.group = channel_pool_[spec]
    BY <1>2, <2>1 DEF GetterType, WithGroup
  <2>3. getter' = [getter EXCEPT ![u] = x] /\ UNCHANGED <<groups, channel_pool_>>
    BY <1>4 DEF InsertGroup
  <2> HIDE DEF x
  <2>4. getter'[u] = x  BY <1>1, <2>3 DEF PoolTypeOK
  <2>5. GetterKnows(u)'  BY <1>4, <2>2, <2>3, <2>4 DEF GetterKnows, WithGroup, WithSlot
  <2>6. GroupInv'  BY <1>2, <2>2, <2>3, <2>5, GetterStep
  <2> QED  BY <1>2, <2>3, <2>6
<1>5. CASE spec \notin DOMAIN channel_pool_
  <2> DEFINE n == Len(groups) + 1
             x == [getter[u] EXCEPT !.pc = "full?", !.group = n]
  <2>1. x \in GetterType /\ x.pc = "full?" /\ x.spec = spec /\ x.group = n
    <3>1. n \in Nat  BY <1>2
    <3> HIDE DEF n
    <3> QED  BY <1>2, <3>1 DEF GetterType, WithGroup
  <2>2. /\ getter' = [getter EXCEPT ![u] = x] /\ groups' = Append(groups, NewGroup(spec))
        /\ channel_pool_' = [s \in DOMAIN channel_pool_ \cup {spec} |->
                               IF s = spec THEN n ELSE channel_pool_[s]]
    BY <1>5 DEF InsertGroup
  <2> HIDE DEF x
  <2>3. /\ getter' \in [Getters -> GetterType] /\ getter'[u] = x
        /\ \A v \in Getters : v # u => getter'[v] = getter[v]
    BY <1>1, <2>1, <2>2, GetterWrite
  <2>4. NewGroup(spec) \in GroupType /\ \A i \in Slots : NewGroup(spec).slots[i] = "free"
    BY <1>3 DEF NewGroup, GroupType
  <2>5. /\ groups' \in Seq(GroupType) /\ Len(groups') = n /\ groups'[n] = NewGroup(spec)
        /\ \A g \in 1..Len(groups) : groups'[g] = groups[g]
    <3> HIDE DEF spec
    <3> QED  BY <1>1, <2>2, <2>4 DEF PoolTypeOK
  <2>6. /\ DOMAIN channel_pool_' = DOMAIN channel_pool_ \cup {spec} /\ channel_pool_'[spec] = n
        /\ \A s \in DOMAIN channel_pool_ : channel_pool_'[s] = channel_pool_[s]
    BY <1>5, <2>2
  <2>7. channel_pool_' \in [DOMAIN channel_pool_' -> Nat]
    BY <1>1, <1>2, <2>2, <2>6 DEF PoolTypeOK
  <2>8. PoolTypeOK'  BY <1>1, <1>2, <1>3, <2>3, <2>5, <2>6, <2>7 DEF PoolTypeOK
  <2>9. GroupsMatch'
    <3>1. /\ IsFiniteSet(DOMAIN channel_pool_')
          /\ Cardinality(DOMAIN channel_pool_') = Cardinality(DOMAIN channel_pool_) + 1
      <4> DEFINE D == DOMAIN channel_pool_
      <4>1. IsFiniteSet(D)  BY <1>1 DEF GroupsMatch
      <4> HIDE DEF D
      <4>2. IsFiniteSet(D \cup {spec}) /\ (spec \notin D => Cardinality(D \cup {spec}) = Cardinality(D) + 1)
        BY <4>1, FS_AddElement
      <4> QED  BY <1>5, <2>6, <4>2 DEF D
    <3>2. \A s \in DOMAIN channel_pool_' : channel_pool_'[s] \in 1..Len(groups')
      BY <1>1, <1>2, <2>5, <2>6 DEF GroupsMatch
    <3> QED  BY <1>1, <2>5, <3>1, <3>2 DEF GroupsMatch
  <2>10. GettersKnow'
    <3> SUFFICES ASSUME NEW v \in Getters PROVE GetterKnows(v)'  BY DEF GettersKnow
    <3>1. CASE v = u
      BY <2>1, <2>3, <2>6, <3>1 DEF GetterKnows, WithGroup, WithSlot
    <3>2. CASE v # u
      <4>1. GetterKnows(v) /\ getter'[v] = getter[v]  BY <2>3, <3>2 DEF GroupInv, GettersKnow
      <4>2. getter[v].pc \in WithGroup => getter[v].group \in 1..Len(groups)  BY GroupOfGetter
      <4>3. WithSlot \subseteq WithGroup  BY DEF WithSlot, WithGroup
      <4> QED  BY <1>2, <2>5, <2>6, <4>1, <4>2, <4>3 DEF GetterKnows
    <3> QED  BY <3>1, <3>2
  <2>11. SlotsNotShared'  BY <1>1, <2>1, <2>3, StaysUnshared
  <2>12. ChannelsCached'
    <3>1. 1..Len(groups') = 1..Len(groups) \cup {n}  BY <1>2, <2>5
    <3>2. \A g \in 1..Len(groups), i \in Slots :
            groups'[g].slots[i] \in {"bad", "good"} => <<g, i>> \in channel_group_cache_'
      BY <1>1, <1>2, <2>5 DEF ChannelsCached
    <3>3. \A i \in Slots : groups'[n].slots[i] \notin {"bad", "good"}  BY <2>4, <2>5
    <3> QED  BY <1>1, <1>2, <3>1, <3>2, <3>3 DEF ChannelsCached
  <2>13. PingedIsCached'  BY <1>1, <1>2 DEF PingedIsCached
  <2> QED  BY <1>2, <2>5, <2>8, <2>9, <2>10, <2>11, <2>12, <2>13 DEF GroupInv
<1> QED  BY <1>4, <1>5

LEMMA TestFullKeeps ==
  ASSUME GroupInv, NEW u \in Getters, TestFull(u)
  PROVE  GroupInv'
<1>1. PoolTypeOK /\ GetterKnows(u)  BY DEF GroupInv, GettersKnow
<1>2. /\ UNCHANGED <<channel_pool_, groups, detector, nodes, channel_group_cache_, pings>>
      /\ pings \subseteq PingType /\ getter[u].pc = "full?" /\ getter[u] \in GetterType
  BY <1>1 DEF TestFull, PoolTypeOK
<1>3. PICK pc \in {"pick", "add"} : getter' = [getter EXCEPT ![u].pc = pc]
  BY DEF TestFull, GetterAt
<1> DEFINE x == [getter[u] EXCEPT !.pc = pc]
<1>4. x \in GetterType /\ x.pc = pc /\ x.spec = getter[u].spec /\ x.group = getter[u].group
  BY <1>2 DEF GetterType, WithGroup
<1>5. getter' = [getter EXCEPT ![u] = x]  BY <1>3
<1> HIDE DEF x
<1>6. getter'[u] = x  BY <1>1, <1>5 DEF PoolTypeOK
<1>7. GetterKnows(u)'  BY <1>1, <1>2, <1>4, <1>6 DEF GetterKnows, WithGroup, WithSlot
<1> QED  BY <1>2, <1>4, <1>5, <1>7, GetterStep

\* channel_count_++ gives out a slot that no thread has been given.
LEMMA AddChannelKeeps ==
  ASSUME GroupInv, NEW u \in Getters, AddChannel(u)
  PROVE  GroupInv' /\ Len(groups') = Len(groups)
<1> DEFINE g == getter[u].group
           slot == groups[g].count + 1
           x == [getter[u] EXCEPT !.pc = IF slot \in Slots THEN "init" ELSE "pick",
                                  !.slot = IF slot \in Slots THEN slot ELSE 0]
           y == [groups[g] EXCEPT !.count = slot,
                   !.slots = IF slot \in Slots THEN [groups[g].slots EXCEPT ![slot] = "taken"]
                             ELSE groups[g].slots]
<1>1. PoolTypeOK /\ GetterKnows(u) /\ SlotsNotShared /\ ChannelsCached
  BY DEF GroupInv, GettersKnow
<1>2. /\ UNCHANGED <<channel_pool_, detector, nodes, channel_group_cache_, pings>>
      /\ getter[u].pc = "add" /\ getter[u] \in GetterType
  BY <1>1 DEF AddChannel, PoolTypeOK
<1>3. /\ g \in 1..Len(groups) /\ groups[g] \in GroupType
      /\ getter[u].spec \in DOMAIN channel_pool_ /\ channel_pool_[getter[u].spec] = g
  BY <1>2, GroupOfGetter DEF WithGroup
<1>4. groups[g].count \in Nat /\ slot \in Nat /\ groups[g].slots \in [Slots -> {"free", "taken", "bad", "good"}]
  BY <1>3 DEF GroupType
<1>5. getter' = [getter EXCEPT ![u] = x] /\ groups' = [groups EXCEPT ![g] = y]
  BY DEF AddChannel
<1>6. /\ x \in GetterType /\ x.group = g /\ x.spec = getter[u].spec
      /\ x.pc = IF slot \in Slots THEN "init" ELSE "pick"
      /\ slot \in Slots => x.slot = slot
  <2> HIDE DEF slot, g
  <2> QED  BY <1>2, <1>4 DEF GetterType, WithGroup, g
<1>7. /\ y \in GroupType /\ y.count = slot
      /\ \A i \in Slots : y.slots[i] \in {"bad", "good"} => groups[g].slots[i] \in {"bad", "good"}
  <2> HIDE DEF slot
  <2>1. CASE slot \in Slots
    <3> DEFINE z == [groups[g].slots EXCEPT ![slot] = "taken"]
    <3>1. /\ z \in [Slots -> {"free", "taken", "bad", "good"}]
          /\ \A i \in Slots : z[i] \in {"bad", "good"} => groups[g].slots[i] \in {"bad", "good"}
      BY <1>4, <2>1
    <3>2. y = [groups[g] EXCEPT !.count = slot, !.slots = z]  BY <2>1
    <3> HIDE DEF z, y
    <3> QED  BY <1>3, <1>4, <3>1, <3>2 DEF GroupType
  <2>2. CASE slot \notin Slots
    <3>1. y = [groups[g] EXCEPT !.count = slot]  BY <1>3, <2>2 DEF GroupType
    <3> HIDE DEF y
    <3> QED  BY <1>3, <1>4, <3>1 DEF GroupType
  <2> QED  BY <2>1, <2>2
<1> HIDE DEF x, y
<1>8. /\ groups' \in Seq(GroupType) /\ Len(groups') = Len(groups)
      /\ \A h \in 1..Len(groups) : groups'[h] = IF h = g THEN y ELSE groups[h]
  <2> HIDE DEF g
  <2> QED  BY <1>1, <1>3, <1>5, <1>7, GroupWrite
<1>9. /\ getter' \in [Getters -> GetterType] /\ getter'[u] = x
      /\ \A v \in Getters : v # u => getter'[v] = getter[v]
  BY <1>1, <1>5, <1>6, GetterWrite
<1>10. PoolTypeOK'  BY <1>1, <1>2, <1>8, <1>9 DEF PoolTypeOK
<1>11. \A h \in 1..Len(groups) : groups[h].count <= groups'[h].count
  <2> SUFFICES ASSUME NEW h \in 1..Len(groups) PROVE groups[h].count <= groups'[h].count
    OBVIOUS
  <2>1. groups[h].count \in Nat  BY <1>1, GroupFacts DEF GroupType
  <2>2. CASE h = g  BY <1>4, <1>7, <1>8, <2>2
  <2>3. CASE h # g  BY <1>8, <2>1, <2>3
  <2> QED  BY <2>2, <2>3
<1>12. \A h \in 1..Len(groups), i \in Slots :
         groups'[h].slots[i] \in {"bad", "good"} => <<h, i>> \in channel_group_cache_'
  BY <1>1, <1>2, <1>3, <1>7, <1>8 DEF ChannelsCached
<1>13. GetterKnows(u)'
  <2>1. x.slot <= groups'[x.group].count \/ slot \notin Slots
    BY <1>3, <1>4, <1>6, <1>7, <1>8
  <2> QED  BY <1>2, <1>3, <1>6, <1>9, <2>1 DEF GetterKnows, WithGroup, WithSlot
<1>14. SlotsNotShared'
  <2>1. ASSUME NEW v \in Getters, v # u, getter[v].pc \in {"init", "reset"}, getter[v].group = g
        PROVE  getter[v].slot # slot
    <3>1. GetterKnows(v)  BY DEF GroupInv, GettersKnow
    <3>2. getter[v].slot <= groups[g].count  BY <2>1, <3>1 DEF GetterKnows, WithSlot
    <3>3. getter[v].slot \in Nat  BY <1>1 DEF PoolTypeOK, GetterType
    <3> QED  BY <1>4, <3>2, <3>3
  <2>2. getter'[u].pc \in {"init", "reset"} => getter'[u].group = g /\ getter'[u].slot = slot
    BY <1>6, <1>9
  <2> HIDE DEF slot, g
  <2> QED  BY <1>1, <1>9, <2>1, <2>2 DEF SlotsNotShared
<1>15. \A v \in Getters : getter'[v] = getter[v] \/ GetterKnows(v)'  BY <1>9, <1>13
<1>16. channel_group_cache_ \subseteq channel_group_cache_' /\ pings' = pings  BY <1>2
<1> HIDE DEF slot, g
<1> QED  BY <1>2, <1>8, <1>10, <1>11, <1>12, <1>14, <1>15, <1>16, GroupStep

\* Channel::Init, the cache and the first ping.
LEMMA ChannelInitKeeps ==
  ASSUME GroupInv, NEW u \in Getters, ChannelInit(u)
  PROVE  GroupInv'
<1>1. PoolTypeOK /\ GetterKnows(u)  BY DEF GroupInv, GettersKnow
<1>2. /\ UNCHANGED <<channel_pool_, groups, detector, nodes, pings>>
      /\ pings \subseteq PingType /\ getter[u].pc = "init" /\ getter[u] \in GetterType
  BY <1>1 DEF ChannelInit, PoolTypeOK
<1>3. PICK pc \in {"pick", "reset"} :
        /\ getter' = [getter EXCEPT ![u].pc = pc]
        /\ channel_group_cache_ \subseteq channel_group_cache_'
        /\ pc = "reset" => <<getter[u].group, getter[u].slot>> \in channel_group_cache_'
  BY DEF ChannelInit, GetterAt
<1> DEFINE x == [getter[u] EXCEPT !.pc = pc]
<1>4. /\ x \in GetterType /\ x.pc = pc /\ x.spec = getter[u].spec
      /\ x.group = getter[u].group /\ x.slot = getter[u].slot
  BY <1>2 DEF GetterType, WithGroup
<1>5. getter' = [getter EXCEPT ![u] = x]  BY <1>3
<1> HIDE DEF x
<1>6. getter'[u] = x  BY <1>1, <1>5 DEF PoolTypeOK
<1>7. GetterKnows(u)'
  BY <1>1, <1>2, <1>3, <1>4, <1>6 DEF GetterKnows, WithGroup, WithSlot
<1> QED  BY <1>2, <1>3, <1>4, <1>5, <1>7, GetterStep

LEMMA FirstPingKeeps ==
  ASSUME GroupInv, NEW u \in Getters, FirstPing(u)
  PROVE  GroupInv'
<1> DEFINE p == [group |-> getter[u].group, slot |-> getter[u].slot, checker |-> FALSE]
<1>1. PoolTypeOK /\ GetterKnows(u)  BY DEF GroupInv, GettersKnow
<1>2. /\ UNCHANGED <<channel_pool_, groups, detector, nodes, channel_group_cache_>>
      /\ getter[u].pc = "ping" /\ getter[u] \in GetterType
      /\ pings' = pings \cup {p} /\ pings \subseteq PingType
  BY <1>1 DEF FirstPing, PoolTypeOK
<1> DEFINE x == [getter[u] EXCEPT !.pc = "pick"]
<1>3. /\ x \in GetterType /\ x.pc = "pick" /\ x.spec = getter[u].spec
      /\ x.group = getter[u].group /\ x.slot = getter[u].slot
  BY <1>2 DEF GetterType, WithGroup
<1>4. getter' = [getter EXCEPT ![u] = x]  BY DEF FirstPing, GetterAt
<1> HIDE DEF x
<1>5. getter'[u] = x  BY <1>1, <1>4 DEF PoolTypeOK
<1>6. GetterKnows(u)'  BY <1>1, <1>2, <1>3, <1>5 DEF GetterKnows, WithGroup, WithSlot
<1>7. getter[u].group \in 1..Len(groups)  BY <1>2, GroupOfGetter DEF WithGroup
<1>8. /\ p \in PingType /\ p.group \in 1..Len(groups)
      /\ <<p.group, p.slot>> \in channel_group_cache_
  BY <1>1, <1>2, <1>7 DEF GetterKnows, WithSlot, PingType, GetterType
<1> HIDE DEF p
<1> QED  BY <1>2, <1>3, <1>4, <1>6, <1>8, GetterStep

\* A channel is put into its slot, or is found good or bad.
LEMMA SlotWrite ==
  ASSUME PoolTypeOK, NEW g \in 1..Len(groups), NEW i \in Slots, NEW c \in {"bad", "good"},
         groups' = [groups EXCEPT ![g].slots[i] = c]
  PROVE  /\ groups' \in Seq(GroupType) /\ Len(groups') = Len(groups)
         /\ \A h \in 1..Len(groups) : groups[h].count <= groups'[h].count
         /\ \A h \in 1..Len(groups), j \in Slots :
              groups'[h].slots[j] \in {"bad", "good"} =>
                \/ groups[h].slots[j] \in {"bad", "good"}
                \/ h = g /\ j = i
<1> DEFINE z == [groups[g].slots EXCEPT ![i] = c]
           y == [groups[g] EXCEPT !.slots = z]
<1>1. groups[g] \in GroupType  BY GroupFacts
<1>2. groups[g].slots \in [Slots -> {"free", "taken", "bad", "good"}]  BY <1>1 DEF GroupType
<1>3. /\ z \in [Slots -> {"free", "taken", "bad", "good"}]
      /\ \A j \in Slots : j # i => z[j] = groups[g].slots[j]
  BY <1>2
<1>4. groups' = [groups EXCEPT ![g] = y]  OBVIOUS
<1> HIDE DEF z
<1>5. y \in GroupType /\ y.count = groups[g].count /\ y.slots = z
  BY <1>1, <1>3 DEF GroupType
<1> HIDE DEF y
<1>6. /\ groups' \in Seq(GroupType) /\ Len(groups') = Len(groups)
      /\ \A h \in 1..Len(groups) : groups'[h] = IF h = g THEN y ELSE groups[h]
  BY <1>4, <1>5, GroupWrite
<1>7. \A h \in 1..Len(groups) : groups[h].count \in Nat /\ groups'[h].count = groups[h].count
  <2>1. \A h \in 1..Len(groups) : groups[h].count \in Nat  BY GroupFacts DEF GroupType
  <2> QED  BY <1>5, <1>6, <2>1
<1>8. \A h \in 1..Len(groups) : groups[h].count <= groups'[h].count  BY <1>7
<1> QED  BY <1>3, <1>5, <1>6, <1>8

LEMMA ResetSlotKeeps ==
  ASSUME GroupInv, NEW u \in Getters, ResetSlot(u)
  PROVE  GroupInv' /\ Len(groups') = Len(groups)
<1> DEFINE g == getter[u].group
           i == getter[u].slot
           x == [getter[u] EXCEPT !.pc = "ping"]
<1>1. PoolTypeOK /\ GetterKnows(u) /\ SlotsNotShared /\ ChannelsCached
  BY DEF GroupInv, GettersKnow
<1>2. /\ UNCHANGED <<channel_pool_, detector, nodes, channel_group_cache_, pings>>
      /\ getter[u].pc = "reset" /\ getter[u] \in GetterType
      /\ groups' = [groups EXCEPT ![g].slots[i] = "bad"]
      /\ getter' = [getter EXCEPT ![u] = x]
  BY <1>1 DEF ResetSlot, PoolTypeOK, GetterAt
<1>3. /\ g \in 1..Len(groups) /\ getter[u].spec \in DOMAIN channel_pool_
      /\ channel_pool_[getter[u].spec] = g
  BY <1>2, GroupOfGetter DEF WithGroup
<1>4. i \in Slots /\ i <= groups[g].count /\ <<g, i>> \in channel_group_cache_
  BY <1>1, <1>2 DEF GetterKnows, WithSlot
<1>5. x \in GetterType /\ x.pc = "ping" /\ x.spec = getter[u].spec /\ x.group = g /\ x.slot = i
  BY <1>2 DEF GetterType, WithGroup
<1> HIDE DEF x
<1>6. /\ getter' \in [Getters -> GetterType] /\ getter'[u] = x
      /\ \A v \in Getters : v # u => getter'[v] = getter[v]
  BY <1>1, <1>2, <1>5, GetterWrite
<1> HIDE DEF g, i
<1>7. /\ groups' \in Seq(GroupType) /\ Len(groups') = Len(groups)
      /\ \A h \in 1..Len(groups) : groups[h].count <= groups'[h].count
      /\ \A h \in 1..Len(groups), j \in Slots :
           groups'[h].slots[j] \in {"bad", "good"} =>
             \/ groups[h].slots[j] \in {"bad", "good"}
             \/ h = g /\ j = i
  BY <1>1, <1>2, <1>3, <1>4, SlotWrite
<1>8. PoolTypeOK'  BY <1>1, <1>2, <1>6, <1>7 DEF PoolTypeOK
<1>9. \A h \in 1..Len(groups), j \in Slots :
        groups'[h].slots[j] \in {"bad", "good"} => <<h, j>> \in channel_group_cache_'
  BY <1>1, <1>2, <1>4, <1>7 DEF ChannelsCached
<1>10. SlotsNotShared'  BY <1>1, <1>5, <1>6, StaysUnshared
<1>11. GetterKnows(u)'
  <2>1. i <= groups'[g].count
    <3>1. groups[g].count \in Nat /\ groups'[g].count \in Nat
      <4>1. groups[g] \in GroupType /\ groups'[g] \in GroupType
        BY <1>1, <1>3, <1>7, GroupFacts DEF PoolTypeOK
      <4> QED  BY <4>1 DEF GroupType
    <3>2. i \in Nat  BY <1>2 DEF GetterType, i
    <3> QED  BY <1>3, <1>4, <1>7, <3>1, <3>2
  <2> QED  BY <1>2, <1>3, <1>4, <1>5, <1>6, <2>1 DEF GetterKnows, WithGroup, WithSlot
<1>12. \A v \in Getters : getter'[v] = getter[v] \/ GetterKnows(v)'  BY <1>6, <1>11
<1>13. channel_group_cache_ \subseteq channel_group_cache_' /\ pings' = pings  BY <1>2
<1> QED  BY <1>2, <1>7, <1>8, <1>9, <1>10, <1>12, <1>13, GroupStep

LEMMA PickChannelKeeps ==
  ASSUME GroupInv, NEW u \in Getters, PickChannel(u)
  PROVE  GroupInv' /\ Len(groups') = Len(groups)
<1> DEFINE g == getter[u].group
           y == [groups[g] EXCEPT !.index = (groups[g].index + 1) % Capacity]
<1>1. PoolTypeOK /\ GetterKnows(u) /\ SlotsNotShared /\ ChannelsCached
  BY DEF GroupInv, GettersKnow
<1>2. /\ UNCHANGED <<channel_pool_, detector, nodes, channel_group_cache_, pings>>
      /\ getter[u].pc = "pick" /\ getter[u] \in GetterType
      /\ groups' = [groups EXCEPT ![g] = y]
  BY <1>1 DEF PickChannel, PoolTypeOK
<1>3. PICK x \in {IdleGetter, [IdleGetter EXCEPT !.pc = "retry", !.tries = getter[u].tries]} :
        getter' = [getter EXCEPT ![u] = x]
  BY DEF PickChannel
<1>4. x \in GetterType /\ x.pc \in {"idle", "retry"} /\ x.group = 0
  <2> DEFINE r == [IdleGetter EXCEPT !.pc = "retry", !.tries = getter[u].tries]
  <2>1. getter[u].tries \in Nat  BY <1>2 DEF GetterType
  <2>2. r \in GetterType /\ r.pc = "retry" /\ r.group = 0
    BY <2>1, IdleFacts DEF GetterType, IdleGetter
  <2>3. x = IdleGetter \/ x = r  BY <1>3
  <2> HIDE DEF r
  <2> QED  BY <2>2, <2>3, IdleFacts
<1>5. /\ getter' \in [Getters -> GetterType] /\ getter'[u] = x
      /\ \A v \in Getters : v # u => getter'[v] = getter[v]
  BY <1>1, <1>3, <1>4, GetterWrite
<1>6. g \in 1..Len(groups) /\ groups[g] \in GroupType  BY <1>2, GroupOfGetter DEF WithGroup
<1> HIDE DEF g
<1>7. y \in GroupType /\ y.count = groups[g].count /\ y.slots = groups[g].slots
  <2>1. groups[g].index \in Nat  BY <1>6 DEF GroupType
  <2> DEFINE k == (groups[g].index + 1) % Capacity
  <2>2. k \in Nat  BY <2>1, ChannelPoolAssumption
  <2> HIDE DEF k
  <2>3. y = [groups[g] EXCEPT !.index = k]  BY DEF k
  <2> HIDE DEF y
  <2> QED  BY <1>6, <2>2, <2>3 DEF GroupType
<1> HIDE DEF y
<1>8. /\ groups' \in Seq(GroupType) /\ Len(groups') = Len(groups)
      /\ \A h \in 1..Len(groups) : groups'[h] = IF h = g THEN y ELSE groups[h]
  BY <1>1, <1>2, <1>6, <1>7, GroupWrite
<1>9. PoolTypeOK'  BY <1>1, <1>2, <1>5, <1>8 DEF PoolTypeOK
<1>10. \A h \in 1..Len(groups) : groups[h].count <= groups'[h].count
  <2>1. \A h \in 1..Len(groups) : groups[h].count \in Nat
    BY <1>1, GroupFacts DEF GroupType
  <2>2. \A h \in 1..Len(groups) : groups'[h].count = groups[h].count  BY <1>7, <1>8
  <2> QED  BY <2>1, <2>2
<1>11. \A h \in 1..Len(groups), j \in Slots :
         groups'[h].slots[j] \in {"bad", "good"} => <<h, j>> \in channel_group_cache_'
  BY <1>1, <1>2, <1>7, <1>8 DEF ChannelsCached
<1>12. SlotsNotShared'  BY <1>1, <1>4, <1>5, StaysUnshared
<1>13. GetterKnows(u)'  BY <1>4, <1>5 DEF GetterKnows, WithGroup, WithSlot
<1>14. \A v \in Getters : getter'[v] = getter[v] \/ GetterKnows(v)'  BY <1>5, <1>13
<1>15. channel_group_cache_ \subseteq channel_group_cache_' /\ pings' = pings  BY <1>2
<1> QED  BY <1>2, <1>8, <1>9, <1>10, <1>11, <1>12, <1>14, <1>15, GroupStep

-----------------------------------------------------------------------------
\* The answers to pings and the detector's steps.
LEMMA DetectorStep ==
  ASSUME GroupInv, PoolTypeOK', UNCHANGED <<channel_pool_, groups, channel_group_cache_, getter>>,
         \A ping \in pings' : \/ ping \in pings
                              \/ /\ <<ping.group, ping.slot>> \in channel_group_cache_'
                                 /\ ping.group \in 1..Len(groups)
  PROVE  GroupInv'
<1>1. PoolTypeOK /\ SlotsNotShared /\ ChannelsCached  BY DEF GroupInv
<1>2. SlotsNotShared'  BY <1>1 DEF SlotsNotShared
<1>3. \A g \in 1..Len(groups) : groups[g].count <= groups'[g].count
  BY <1>1, GroupFacts DEF GroupType
<1>4. \A g \in 1..Len(groups), i \in Slots :
        groups'[g].slots[i] \in {"bad", "good"} => <<g, i>> \in channel_group_cache_'
  BY <1>1 DEF ChannelsCached
<1>5. channel_group_cache_ \subseteq channel_group_cache_' /\ Len(groups') = Len(groups)
  OBVIOUS
<1>6. \A u \in Getters : getter'[u] = getter[u] \/ GetterKnows(u)'  OBVIOUS
<1> QED  BY <1>2, <1>3, <1>4, <1>5, <1>6, GroupStep

\* A checker ping that is answered is one less to wait for.
LEMMA AnswerCounted ==
  ASSUME RoundWaits, PoolTypeOK, NEW ping \in pings, ping.checker, pings' = pings \ {ping}
  PROVE  /\ IsFiniteSet(CheckerPings') /\ Cardinality(CheckerPings') = detector.num_wait - 1
         /\ detector.num_wait - 1 \in Nat
<1> DEFINE S == CheckerPings
<1>1. IsFiniteSet(S) /\ Cardinality(S) = detector.num_wait /\ detector.num_wait \in Nat
  BY DEF RoundWaits, PoolTypeOK, DetectorType
<1>2. ping \in S /\ CheckerPings' = S \ {ping}  BY DEF CheckerPings
<1> HIDE DEF S
<1>3. IsFiniteSet(S \ {ping}) /\ Cardinality(S \ {ping}) = detector.num_wait - 1
  BY <1>1, <1>2, FS_RemoveElement
<1>4. Cardinality(S \ {ping}) \in Nat  BY <1>3, FS_CardinalityType
<1> QED  BY <1>2, <1>3, <1>4

LEMMA HandleResponseKeeps ==
  ASSUME GroupInv, RoundWaits, NEW ping \in pings, NEW good \in BOOLEAN,
         HandleResponse(ping, good)
  PROVE  /\ GroupInv' /\ RoundWaits'
         /\ UNCHANGED nodes /\ detector'.pc = detector.pc
         /\ detector'.specList = detector.specList /\ detector'.last = detector.last
<1> DEFINE c == IF good THEN "good" ELSE "bad"
           d == [detector EXCEPT !.bad = detector.bad + (IF good THEN 0 ELSE 1),
                                 !.num_wait = detector.num_wait - 1]
<1>1. PoolTypeOK /\ SlotsNotShared /\ ChannelsCached /\ PingedIsCached  BY DEF GroupInv
<1>2. /\ UNCHANGED <<channel_pool_, channel_group_cache_, getter, nodes>>
      /\ pings' = pings \ {ping} /\ groups' = [groups EXCEPT ![ping.group].slots[ping.slot] = c]
      /\ detector' = IF ping.checker THEN d ELSE detector
  BY DEF HandleResponse, Move
<1>3. /\ ping.group \in 1..Len(groups) /\ ping.slot \in Slots /\ ping.checker \in BOOLEAN
      /\ <<ping.group, ping.slot>> \in channel_group_cache_
  BY <1>1 DEF ChannelsCached, PingedIsCached, PoolTypeOK, PingType
<1>4. c \in {"bad", "good"}  OBVIOUS
<1> HIDE DEF c
<1>5. /\ groups' \in Seq(GroupType) /\ Len(groups') = Len(groups)
      /\ \A h \in 1..Len(groups) : groups[h].count <= groups'[h].count
      /\ \A h \in 1..Len(groups), j \in Slots :
           groups'[h].slots[j] \in {"bad", "good"} =>
             \/ groups[h].slots[j] \in {"bad", "good"}
             \/ h = ping.group /\ j = ping.slot
  BY <1>1, <1>2, <1>3, <1>4, SlotWrite
<1>6. /\ detector' \in DetectorType /\ detector'.pc = detector.pc
      /\ detector'.todo = detector.todo /\ detector'.group = detector.group
      /\ detector'.specList = detector.specList /\ detector'.last = detector.last
      /\ detector'.num_wait = IF ping.checker THEN detector.num_wait - 1 ELSE detector.num_wait
  <2>1. detector \in DetectorType  BY <1>1 DEF PoolTypeOK
  <2>2. CASE ping.checker
    <3> DEFINE b == detector.bad + (IF good THEN 0 ELSE 1)
               n == detector.num_wait - 1
    <3>1. detector.bad \in Nat  BY <2>1 DEF DetectorType
    <3>2. b \in Nat  BY <3>1
    <3>3. n \in Nat  BY <1>1, <1>2, <2>2, AnswerCounted
    <3> HIDE DEF b, n
    <3>4. detector' = [detector EXCEPT !.bad = b, !.num_wait = n]  BY <1>2, <2>2 DEF b, n
    <3>5. detector'.num_wait = n  BY <2>1, <3>4 DEF DetectorType
    <3> QED  BY <2>1, <2>2, <3>2, <3>3, <3>4, <3>5 DEF DetectorType, n
  <2>3. CASE ~ping.checker  BY <1>2, <2>1, <2>3
  <2> QED  BY <2>2, <2>3
<1> HIDE DEF d
<1>7. PoolTypeOK'  BY <1>1, <1>2, <1>5, <1>6 DEF PoolTypeOK
<1>8. GroupInv'
  <2>1. \A h \in 1..Len(groups), j \in Slots :
          groups'[h].slots[j] \in {"bad", "good"} => <<h, j>> \in channel_group_cache_'
    BY <1>1, <1>2, <1>3, <1>5 DEF ChannelsCached
  <2>2. SlotsNotShared'  BY <1>1, <1>2 DEF SlotsNotShared
  <2>3. channel_group_cache_ \subseteq channel_group_cache_' /\ pings' \subseteq pings
    BY <1>2
  <2>4. \A u \in Getters : getter'[u] = getter[u] \/ GetterKnows(u)'  BY <1>2
  <2> QED  BY <1>2, <1>5, <1>7, <2>1, <2>2, <2>3, <2>4, GroupStep
<1>9. RoundWaits'
  <2>1. IsFiniteSet(CheckerPings') /\ Cardinality(CheckerPings') = detector'.num_wait
    <3>1. CASE ping.checker  BY <1>1, <1>2, <1>6, <3>1, AnswerCounted
    <3>2. CASE ~ping.checker
      <4>1. CheckerPings' = CheckerPings  BY <1>2, <3>2 DEF CheckerPings
      <4> QED  BY <1>6, <3>2, <4>1 DEF RoundWaits
    <3> QED  BY <3>1, <3>2
  <2>2. detector.pc # "wait" => detector'.num_wait = 0
    <3>1. CASE ping.checker
      <4>1. detector.num_wait - 1 \in Nat  BY <1>1, <1>2, <3>1, AnswerCounted
      <4>2. detector.num_wait # 0  BY <4>1
      <4> QED  BY <4>2 DEF RoundWaits
    <3>2. CASE ~ping.checker  BY <1>6, <3>2 DEF RoundWaits
    <3> QED  BY <3>1, <3>2
  <2> QED  BY <1>5, <1>6, <2>1, <2>2 DEF RoundWaits
<1> QED  BY <1>2, <1>6, <1>8, <1>9

LEMMA BeginDetectKeeps ==
  ASSUME GroupInv, RoundWaits, BlackFromList, BeginDetect
  PROVE  GroupInv' /\ RoundWaits' /\ BlackFromList' /\ BlackListIsFresh'
<1> DEFINE T == {channel_pool_[s] : s \in DOMAIN channel_pool_}
<1>1. PoolTypeOK /\ GroupsMatch /\ detector \in DetectorType  BY DEF GroupInv, PoolTypeOK
<1>2. /\ UNCHANGED <<channel_pool_, groups, channel_group_cache_, pings, getter, nodes>>
      /\ detector.pc = "sleep"
      /\ detector' = [detector EXCEPT !.pc = "check", !.found = {}, !.todo = T]
  BY DEF BeginDetect
<1>3. T \subseteq 1..Len(groups) /\ T \subseteq Nat  BY <1>1 DEF GroupsMatch
<1> HIDE DEF T
<1>4. /\ detector' \in DetectorType /\ detector'.pc = "check" /\ detector'.todo = T
      /\ detector'.num_wait = detector.num_wait /\ detector'.specList = detector.specList
  BY <1>1, <1>2, <1>3 DEF DetectorType
<1>5. PoolTypeOK'  BY <1>1, <1>2, <1>4 DEF PoolTypeOK
<1>6. GroupInv'  BY <1>2, <1>5, DetectorStep
<1>7. CheckerPings' = CheckerPings  BY <1>2 DEF CheckerPings
<1>8. RoundWaits'  BY <1>2, <1>3, <1>4, <1>7 DEF RoundWaits
<1> QED  BY <1>2, <1>4, <1>6, <1>8 DEF BlackFromList, BlackListIsFresh

\* There is one checker ping for each bad slot.
LEMMA PingsOfRound ==
  ASSUME NEW g
  PROVE  LET P == {[group |-> g, slot |-> i, checker |-> TRUE] : i \in ToCheck(g)}
         IN  IsFiniteSet(P) /\ Cardinality(P) = NumWait(g) /\ NumWait(g) \in Nat
<1> DEFINE S == ToCheck(g)
           P == {[group |-> g, slot |-> i, checker |-> TRUE] : i \in S}
           f == [i \in S |-> [group |-> g, slot |-> i, checker |-> TRUE]]
<1>1. IsFiniteSet(S) /\ Cardinality(S) = NumWait(g)
  <2>1. IsFiniteSet(Slots)  BY FS_Interval, ChannelPoolAssumption DEF Slots
  <2>2. S \in SUBSET Slots  BY DEF ToCheck
  <2> HIDE DEF S
  <2>3. IsFiniteSet(S)  BY <2>1, <2>2, FS_Subset
  <2> QED  BY <2>3 DEF NumWait, S
<1> HIDE DEF S
<1>2. f \in [S -> P]  OBVIOUS
<1>3. \A a, b \in S : f[a] = f[b] => a = b
  <2>1. \A a \in S : f[a].slot = a  OBVIOUS
  <2> QED  BY <2>1
<1>4. \A t \in P : \E s \in S : f[s] = t  OBVIOUS
<1> HIDE DEF P, f
<1>5. f \in Bijection(S, P)  BY <1>2, <1>3, <1>4, Fun_IsBij
<1>6. ExistsBijection(S, P)  BY <1>5 DEF ExistsBijection
<1>7. IsFiniteSet(P) /\ Cardinality(P) = Cardinality(S)  BY <1>1, <1>6, FS_Bijection
<1>8. Cardinality(S) \in Nat  BY <1>1, FS_CardinalityType
<1> QED  BY <1>1, <1>7, <1>8 DEF P, S

LEMMA CheckChannelsKeeps ==
  ASSUME GroupInv, RoundWaits, BlackFromList,
         NEW g \in detector.todo, CheckChannels(g)
  PROVE  GroupInv' /\ RoundWaits' /\ BlackFromList' /\ BlackListIsFresh'
<1> DEFINE P == {[group |-> g, slot |-> i, checker |-> TRUE] : i \in ToCheck(g)}
<1>1. PoolTypeOK /\ ChannelsCached /\ detector \in DetectorType  BY DEF GroupInv, PoolTypeOK
<1>2. /\ UNCHANGED <<channel_pool_, groups, channel_group_cache_, getter, nodes>>
      /\ detector.pc = "check" /\ pings' = pings \cup P
      /\ detector' = [detector EXCEPT !.pc = "wait", !.todo = detector.todo \ {g}, !.group = g,
                                      !.bad = 0, !.num_wait = NumWait(g)]
  BY DEF CheckChannels
<1>3. IsFiniteSet(P) /\ Cardinality(P) = NumWait(g) /\ NumWait(g) \in Nat  BY PingsOfRound
<1>4. g \in 1..Len(groups) /\ g \in Nat /\ detector.todo \subseteq 1..Len(groups)
  BY DEF RoundWaits
<1>5. \A p \in P : /\ p.group = g /\ p.slot \in ToCheck(g) /\ p.checker
                  /\ p \in [group : Nat, slot : ToCheck(g), checker : BOOLEAN]
  <2> SUFFICES ASSUME NEW i \in ToCheck(g), NEW p, p = [group |-> g, slot |-> i, checker |-> TRUE]
               PROVE  /\ p.group = g /\ p.slot \in ToCheck(g) /\ p.checker
                      /\ p \in [group : Nat, slot : ToCheck(g), checker : BOOLEAN]
    OBVIOUS
  <2>1. p.group = g /\ p.slot = i /\ p.checker = TRUE  OBVIOUS
  <2>2. p \in [group : Nat, slot : ToCheck(g), checker : BOOLEAN]  BY <1>4
  <2> QED  BY <2>1, <2>2
<1>6. \A i \in ToCheck(g) : i \in Slots /\ <<g, i>> \in channel_group_cache_
  BY <1>1, <1>4 DEF ToCheck, ChannelsCached
<1>7. /\ P \subseteq PingType
      /\ \A p \in P : <<p.group, p.slot>> \in channel_group_cache_ /\ p.group \in 1..Len(groups)
  BY <1>4, <1>5, <1>6 DEF PingType
<1> HIDE DEF P
<1>8. /\ detector' \in DetectorType /\ detector'.pc = "wait" /\ detector'.group = g
      /\ detector'.todo = detector.todo \ {g} /\ detector'.num_wait = NumWait(g)
      /\ detector'.specList = detector.specList
  <2> DEFINE t == detector.todo \ {g}
  <2>1. t \in SUBSET Nat  BY <1>1 DEF DetectorType
  <2> HIDE DEF t
  <2>2. detector' = [detector EXCEPT !.pc = "wait", !.todo = t, !.group = g,
                                     !.bad = 0, !.num_wait = NumWait(g)]
    BY <1>2 DEF t
  <2>3. detector' \in DetectorType /\ detector'.todo = t
    BY <1>1, <1>3, <1>4, <2>1, <2>2 DEF DetectorType
  <2> QED  BY <1>1, <2>2, <2>3 DEF DetectorType, t
<1>9. PoolTypeOK'  BY <1>1, <1>2, <1>7, <1>8 DEF PoolTypeOK
<1>10. GroupInv'
  <2>1. \A ping \in pings' : \/ ping \in pings
                             \/ /\ <<ping.group, ping.slot>> \in channel_group_cache_'
                                /\ ping.group \in 1..Len(groups)
    BY <1>2, <1>7
  <2> QED  BY <1>2, <1>9, <2>1, DetectorStep
<1>11. RoundWaits'
  <2>1. CheckerPings = {}
    <3> DEFINE C == CheckerPings
    <3>1. IsFiniteSet(C) /\ Cardinality(C) = 0  BY <1>2 DEF RoundWaits
    <3> HIDE DEF C
    <3>2. C = {}  BY <3>1, FS_EmptySet
    <3> QED  BY <3>2 DEF C
  <2>2. CheckerPings' = P  BY <1>2, <1>5, <2>1 DEF CheckerPings
  <2> QED  BY <1>2, <1>3, <1>4, <1>8, <2>2 DEF RoundWaits
<1> QED  BY <1>2, <1>8, <1>10, <1>11 DEF BlackFromList, BlackListIsFresh

LEMMA CheckedKeeps ==
  ASSUME GroupInv, RoundWaits, BlackFromList, Checked
  PROVE  GroupInv' /\ RoundWaits' /\ BlackFromList' /\ BlackListIsFresh'
<1> DEFINE F == IF detector.bad < Capacity THEN detector.found
                ELSE detector.found \cup {groups[detector.group].spec}
<1>1. PoolTypeOK /\ detector \in DetectorType  BY DEF GroupInv, PoolTypeOK
<1>2. /\ UNCHANGED <<channel_pool_, groups, channel_group_cache_, pings, getter, nodes>>
      /\ detector.pc = "wait" /\ detector.num_wait = 0
      /\ detector' = [detector EXCEPT !.pc = "check", !.group = 0, !.found = F]
  BY DEF Checked
<1>3. F \in SUBSET Specs
  <2>1. detector.group \in 1..Len(groups)  BY <1>2 DEF RoundWaits
  <2>2. groups[detector.group] \in GroupType  BY <1>1, <2>1, GroupFacts
  <2>3. groups[detector.group].spec \in Specs  BY <2>2 DEF GroupType
  <2>4. detector.found \in SUBSET Specs  BY <1>1 DEF DetectorType
  <2> QED  BY <2>3, <2>4
<1> HIDE DEF F
<1>4. /\ detector' \in DetectorType /\ detector'.pc = "check" /\ detector'.todo = detector.todo
      /\ detector'.num_wait = 0 /\ detector'.specList = detector.specList
  BY <1>1, <1>2, <1>3 DEF DetectorType
<1>5. PoolTypeOK'  BY <1>1, <1>2, <1>4 DEF PoolTypeOK
<1>6. GroupInv'  BY <1>2, <1>5, DetectorStep
<1>7. CheckerPings' = CheckerPings  BY <1>2 DEF CheckerPings
<1>8. RoundWaits'  BY <1>2, <1>4, <1>7 DEF RoundWaits
<1> QED  BY <1>2, <1>4, <1>6, <1>8 DEF BlackFromList, BlackListIsFresh

\* The early return leaves the black list alone; it is empty then.
LEMMA DoDetectKeeps ==
  ASSUME GroupInv, RoundWaits, BlackFromList, DoDetect
  PROVE  GroupInv' /\ RoundWaits' /\ BlackFromList' /\ BlackListIsFresh'
<1> DEFINE L == IF NothingToDo THEN detector.specList ELSE detector.found
<1>1. PoolTypeOK /\ detector \in DetectorType /\ nodes \in [valid : SUBSET Specs, black : SUBSET Specs]
  BY DEF GroupInv, PoolTypeOK
<1>2. /\ UNCHANGED <<channel_pool_, groups, channel_group_cache_, pings, getter>>
      /\ detector.pc = "check"
      /\ detector' = [detector EXCEPT !.pc = "sleep", !.last = detector.found, !.specList = L]
  BY DEF DoDetect
<1>3. L \in SUBSET Specs /\ L = detector.found  BY <1>1 DEF DetectorType, NothingToDo
<1> HIDE DEF L
<1>4. /\ detector' \in DetectorType /\ detector'.pc = "sleep" /\ detector'.todo = detector.todo
      /\ detector'.num_wait = detector.num_wait
      /\ detector'.specList = detector.found /\ detector'.last = detector.found
  BY <1>1, <1>2, <1>3 DEF DetectorType
<1>5. nodes' \in [valid : SUBSET Specs, black : SUBSET Specs] /\ nodes'.black \subseteq detector.found
  <2>1. CASE NothingToDo
    BY <1>1, <2>1 DEF DoDetect, NothingToDo, BlackFromList
  <2>2. CASE ~NothingToDo
    <3> DEFINE black == detector.found \cap nodes.valid
    <3>1. nodes' = [valid |-> nodes.valid \ black, black |-> black]  BY <2>2 DEF DoDetect
    <3>2. black \subseteq Specs /\ black \subseteq detector.found /\ nodes.valid \ black \subseteq Specs
      BY <1>1
    <3> HIDE DEF black
    <3> QED  BY <3>1, <3>2
  <2> QED  BY <2>1, <2>2
<1>6. PoolTypeOK'  BY <1>1, <1>2, <1>4, <1>5 DEF PoolTypeOK
<1>7. GroupInv'  BY <1>2, <1>6, DetectorStep
<1>8. CheckerPings' = CheckerPings  BY <1>2 DEF CheckerPings
<1>9. RoundWaits'  BY <1>2, <1>4, <1>8 DEF RoundWaits
<1> QED  BY <1>4, <1>5, <1>7, <1>9 DEF BlackFromList, BlackListIsFresh

LEMMA PoolHeartbeatKeeps ==
  ASSUME PoolInv, PoolHeartbeat
  PROVE  PoolInv'
<1>1. /\ GroupInv /\ RoundWaits /\ BlackFromList /\ BlackListIsFresh /\ PoolTypeOK
      /\ nodes \in [valid : SUBSET Specs, black : SUBSET Specs]
  BY DEF PoolInv, GroupInv, PoolTypeOK
<1>2. /\ UNCHANGED <<channel_pool_, groups, channel_group_cache_, pings, getter, detector>>
      /\ nodes' = [nodes EXCEPT !.valid = Specs \ nodes.black]
  BY DEF PoolHeartbeat
<1>3. nodes' \in [valid : SUBSET Specs, black : SUBSET Specs] /\ nodes'.black = nodes.black
  BY <1>1, <1>2
<1>4. PoolTypeOK'  BY <1>1, <1>2, <1>3 DEF PoolTypeOK
<1>5. GroupInv'  BY <1>1, <1>2, <1>4, DetectorStep
<1>6. CheckerPings' = CheckerPings  BY <1>2 DEF CheckerPings
<1>7. RoundWaits'  BY <1>1, <1>2, <1>6 DEF RoundWaits
<1> QED  BY <1>1, <1>2, <1>3, <1>5, <1>7 DEF PoolInv, BlackFromList, BlackListIsFresh

-----------------------------------------------------------------------------
\* A thread's steps leave the round alone.
LEMMA GettersAside ==
  ASSUME GroupInv, NEW u \in Getters,
         \/ GetChannel(u) \/ FindGroup(u) \/ InsertGroup(u) \/ TestFull(u) \/ AddChannel(u)
         \/ ChannelInit(u) \/ ResetSlot(u) \/ FirstPing(u) \/ PickChannel(u)
  PROVE  /\ GroupInv' /\ UNCHANGED <<detector, nodes>> /\ CheckerPings' = CheckerPings
         /\ Len(groups) <= Len(groups') /\ Len(groups') \in Nat
<1>0. Len(groups) \in Nat  BY GroupFacts DEF GroupInv
<1>1. CASE GetChannel(u)
  <2>1. UNCHANGED <<detector, nodes, pings, groups>>  BY <1>1 DEF GetChannel
  <2> QED  BY <1>0, <1>1, <2>1, GetChannelKeeps DEF CheckerPings
<1>2. CASE FindGroup(u)
  <2>1. UNCHANGED <<detector, nodes, pings, groups>>  BY <1>2 DEF FindGroup
  <2> QED  BY <1>0, <1>2, <2>1, FindGroupKeeps DEF CheckerPings
<1>3. CASE InsertGroup(u)
  <2>1. GroupInv' /\ Len(groups) <= Len(groups')  BY <1>3, InsertGroupKeeps
  <2>2. Len(groups') \in Nat  BY <2>1 DEF GroupInv, PoolTypeOK
  <2>3. UNCHANGED <<detector, nodes, pings>>  BY <1>3 DEF InsertGroup
  <2> QED  BY <2>1, <2>2, <2>3 DEF CheckerPings
<1>4. CASE TestFull(u)
  <2>1. UNCHANGED <<detector, nodes, pings, groups>>  BY <1>4 DEF TestFull
  <2> QED  BY <1>0, <1>4, <2>1, TestFullKeeps DEF CheckerPings
<1>5. CASE AddChannel(u)
  <2>1. UNCHANGED <<detector, nodes, pings>>  BY <1>5 DEF AddChannel
  <2> QED  BY <1>0, <1>5, <2>1, AddChannelKeeps DEF CheckerPings
<1>6. CASE ChannelInit(u)
  <2>1. UNCHANGED <<detector, nodes, pings, groups>>  BY <1>6 DEF ChannelInit
  <2> QED  BY <1>0, <1>6, <2>1, ChannelInitKeeps DEF CheckerPings
<1>7. CASE ResetSlot(u)
  <2>1. UNCHANGED <<detector, nodes, pings>>  BY <1>7 DEF ResetSlot
  <2> QED  BY <1>0, <1>7, <2>1, ResetSlotKeeps DEF CheckerPings
<1>8. CASE FirstPing(u)
  <2>1. /\ UNCHANGED <<detector, nodes, groups>>
        /\ pings' = pings \cup {[group |-> getter[u].group, slot |-> getter[u].slot,
                                 checker |-> FALSE]}
    BY <1>8 DEF FirstPing
  <2>2. CheckerPings' = CheckerPings  BY <2>1 DEF CheckerPings
  <2> QED  BY <1>0, <1>8, <2>1, <2>2, FirstPingKeeps
<1>9. CASE PickChannel(u)
  <2>1. UNCHANGED <<detector, nodes, pings>>  BY <1>9 DEF PickChannel
  <2> QED  BY <1>0, <1>9, <2>1, PickChannelKeeps DEF CheckerPings
<1> QED  BY <1>1, <1>2, <1>3, <1>4, <1>5, <1>6, <1>7, <1>8, <1>9

LEMMA PoolInvInit ==
  ASSUME PoolInit
  PROVE  PoolInv
<1>1. PoolTypeOK
  <2>1. detector \in DetectorType  BY DEF PoolInit, DetectorType
  <2>2. getter \in [Getters -> GetterType]  BY IdleFacts DEF PoolInit
  <2>3. channel_pool_ = <<>> /\ DOMAIN channel_pool_ = {}  BY DEF PoolInit
  <2>4. channel_pool_ \in [DOMAIN channel_pool_ -> Nat]  BY <2>3
  <2>5. groups \in Seq(GroupType)  BY DEF PoolInit
  <2>6. nodes \in [valid : SUBSET Specs, black : SUBSET Specs]  BY DEF PoolInit
  <2>7. pings \subseteq PingType  BY DEF PoolInit
  <2> QED  BY <2>1, <2>2, <2>3, <2>4, <2>5, <2>6, <2>7 DEF PoolTypeOK
<1>2. DOMAIN channel_pool_ = {} /\ Len(groups) = 0  BY DEF PoolInit
<1>3. GroupsMatch  BY <1>2, FS_EmptySet DEF GroupsMatch
<1>4. \A u \in Getters : getter[u] = IdleGetter  BY DEF PoolInit
<1>5. GettersKnow  BY <1>4 DEF GettersKnow, GetterKnows, IdleGetter, WithGroup, WithSlot
<1>6. SlotsNotShared  BY <1>4, IdleFacts DEF SlotsNotShared
<1>7. pings = {} /\ CheckerPings = {}  BY DEF PoolInit, CheckerPings
<1>8. ChannelsCached /\ PingedIsCached  BY <1>2, <1>7 DEF ChannelsCached, PingedIsCached
<1>9. RoundWaits  BY <1>7, FS_EmptySet DEF RoundWaits, PoolInit
<1>10. BlackFromList /\ BlackListIsFresh  BY DEF PoolInit, BlackFromList, BlackListIsFresh
<1> QED  BY <1>1, <1>3, <1>5, <1>6, <1>8, <1>9, <1>10 DEF PoolInv, GroupInv

LEMMA PoolInvNext ==
  ASSUME PoolInv, [PoolNext]_poolVars
  PROVE  PoolInv'
<1>0. GroupInv /\ RoundWaits /\ BlackFromList /\ BlackListIsFresh  BY DEF PoolInv
<1>1. ASSUME NEW u \in Getters,
             \/ GetChannel(u) \/ FindGroup(u) \/ InsertGroup(u) \/ TestFull(u) \/ AddChannel(u)
             \/ ChannelInit(u) \/ ResetSlot(u) \/ FirstPing(u) \/ PickChannel(u)
      PROVE  PoolInv'
  <2>1. /\ GroupInv' /\ UNCHANGED <<detector, nodes>> /\ CheckerPings' = CheckerPings
        /\ Len(groups) <= Len(groups') /\ Len(groups') \in Nat
    BY <1>0, <1>1, GettersAside
  <2>2. Len(groups) \in Nat  BY <1>0, GroupFacts DEF GroupInv
  <2>3. 1..Len(groups) \subseteq 1..Len(groups')  BY <2>1, <2>2
  <2>4. RoundWaits'  BY <1>0, <2>1, <2>3 DEF RoundWaits
  <2> QED  BY <1>0, <2>1, <2>4 DEF PoolInv, BlackFromList, BlackListIsFresh
<1>2. ASSUME NEW ping \in pings, NEW good \in BOOLEAN, HandleResponse(ping, good)
      PROVE  PoolInv'
  BY <1>0, <1>2, HandleResponseKeeps DEF PoolInv, BlackFromList, BlackListIsFresh
<1>3. CASE BeginDetect  BY <1>0, <1>3, BeginDetectKeeps DEF PoolInv
<1>4. ASSUME NEW g \in detector.todo, CheckChannels(g) PROVE PoolInv'
  BY <1>0, <1>4, CheckChannelsKeeps DEF PoolInv
<1>5. CASE Checked  BY <1>0, <1>5, CheckedKeeps DEF PoolInv
<1>6. CASE DoDetect  BY <1>0, <1>6, DoDetectKeeps DEF PoolInv
<1>7. CASE PoolHeartbeat  BY <1>7, PoolHeartbeatKeeps
<1>8. CASE UNCHANGED poolVars
  <2>1. /\ UNCHANGED <<channel_pool_, groups, channel_group_cache_, pings, getter, detector, nodes>>
        /\ PoolTypeOK
    BY <1>0, <1>8 DEF poolVars, GroupInv
  <2>2. PoolTypeOK'  BY <2>1 DEF PoolTypeOK
  <2>3. GroupInv'  BY <1>0, <2>1, <2>2, DetectorStep
  <2>4. CheckerPings' = CheckerPings  BY <2>1 DEF CheckerPings
  <2> QED  BY <1>0, <2>1, <2>3, <2>4 DEF PoolInv, RoundWaits, BlackFromList, BlackListIsFresh
<1> QED  BY <1>1, <1>2, <1>3, <1>4, <1>5, <1>6, <1>7, <1>8 DEF PoolNext

LEMMA PoolInvAlways == PoolSpec => []PoolInv
<1>1. PoolInit => PoolInv  BY PoolInvInit
<1>2. PoolInv /\ [PoolNext]_poolVars => PoolInv'  BY PoolInvNext
<1> QED  BY <1>1, <1>2, PTL DEF PoolSpec

\* BrpcChannelPool::GetChannel, OpenNewChannel and the pings: however many
\* threads ask for a channel at once, there is one group per server and they
\* all use it, no slot is given to two of them although channel_count_ runs
\* past the capacity, and the CHECK in FindChannelGroup never fails when the
\* answer to a ping arrives.
THEOREM GroupsCorrect == PoolSpec => []GroupsOK
<1>1. PoolInv => GroupsOK
  <2> SUFFICES ASSUME PoolInv PROVE GroupsOK  OBVIOUS
  <2>1. GettersKnow /\ GroupsMatch /\ SlotsNotShared /\ PingedIsCached
    BY DEF PoolInv, GroupInv
  <2>2. \A u \in Getters : getter[u].group # 0 => channel_pool_[getter[u].spec] = getter[u].group
    BY <2>1 DEF GettersKnow, GetterKnows
  <2>3. OneGroupPerSpec  BY <2>1, <2>2 DEF OneGroupPerSpec, GroupsMatch
  <2> QED  BY <2>1, <2>3 DEF GroupsOK
<1> QED  BY <1>1, PoolInvAlways, PTL

\* BrpcChannelGroup::CheckChannels and BrpcBadNodeDetector::DoDetect: the
\* waiter and the counter on the stack are there for every checker ping that
\* is still out, and between rounds the black list holds only nodes whose
\* server the last round found bad, the early return of DoDetect included.
THEOREM RoundsCorrect == PoolSpec => []RoundsOK
<1>1. PoolInv => RoundsOK
  BY DEF PoolInv, RoundsOK, RoundWaits, WaiterOutlivesPings, CheckerPings, BlackListIsFresh
<1> QED  BY <1>1, PoolInvAlways, PTL
=============================================================================

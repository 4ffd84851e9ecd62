----------------------------- MODULE ChannelPool -----------------------------
(***************************************************************************)
(* leader/brpc: the channels a subscriber keeps to each server.            *)
(* BrpcServerSubscriber::GetChannel picks a node and asks BrpcChannelPool  *)
(* for a channel; the pool has one BrpcChannelGroup per server ("spec"),   *)
(* which opens a new channel on every call until its slots are taken.      *)
(* BrpcBadNodeDetector pings the channels that are not good and hands the  *)
(* servers without a living channel to the node collection.                *)
(*                                                                         *)
(* A slot is "free", "taken" (no channel in it yet), "bad" or "good".  The *)
(* node collection is reduced to the nodes it can offer and its black      *)
(* list; whether a ping is answered is up to the network.  index_ is kept  *)
(* modulo the capacity.                                                    *)
(***************************************************************************)
EXTENDS Naturals, FiniteSets, Sequences

CONSTANTS
  Specs,          \* servers
  Getters,        \* threads that call GetChannel
  Capacity,       \* channel_count_ of the pool, not 0
  MaxGets,        \* bound on the calls of GetChannel
  MaxHeartbeats   \* bound on the updates from ZooKeeper

ASSUME ChannelPoolAssumption == Capacity \in Nat \ {0}

VARIABLES
  channel_pool_,         \* spec -> number of its group
  groups,                \* the groups: [spec, count, slots, index]
  channel_group_cache_,  \* the <<group, slot>> whose channel has an entry
  pings,                 \* pings without an answer: [group, slot, checker]
  getter,                \* thread -> where it is in GetChannel
  detector,              \* the detector's thread and what it has found
  nodes,                 \* node collection: [valid, black]
  poolBudget             \* calls and heartbeats so far

poolVars == <<channel_pool_, groups, channel_group_cache_, pings, getter, detector,
              nodes, poolBudget>>

GET_CHANNEL_RETRY_TIMES == 3
Slots == 1..Capacity
IdleGetter == [pc |-> "idle", spec |-> "none", group |-> 0, slot |-> 0, tries |-> 0]
NewGroup(spec) == [spec |-> spec, count |-> 0, slots |-> [i \in Slots |-> "free"], index |-> 0]

GetterAt(u, pc) == getter' = [getter EXCEPT ![u].pc = pc]
IsFull(g) == groups[g].count >= Capacity

-----------------------------------------------------------------------------
\* BrpcServerSubscriber::GetChannel: a node to ask for, or nullptr.
GetChannel(u) ==
  /\ \/ getter[u].pc = "idle" /\ poolBudget.gets < MaxGets
     \/ getter[u].pc = "retry"
  /\ poolBudget' = IF getter[u].pc = "idle" THEN [poolBudget EXCEPT !.gets = @ + 1] ELSE poolBudget
  /\ \/ \E spec \in nodes.valid :
          getter' = [getter EXCEPT ![u] =
                       [IdleGetter EXCEPT !.pc = "find", !.spec = spec, !.tries = getter[u].tries + 1]]
     \/ nodes.valid = {} /\ getter' = [getter EXCEPT ![u] = IdleGetter]
  /\ UNCHANGED <<channel_pool_, groups, channel_group_cache_, pings, detector, nodes>>

\* BrpcChannelPool::GetChannel looks for the group under the read lock, ...
FindGroup(u) ==
  LET spec == getter[u].spec
  IN  /\ getter[u].pc = "find"
      /\ getter' = [getter EXCEPT ![u] =
           IF spec \in DOMAIN channel_pool_
           THEN [getter[u] EXCEPT !.pc = "full?", !.group = channel_pool_[spec]]
           ELSE [getter[u] EXCEPT !.pc = "insert"]]
      /\ UNCHANGED <<channel_pool_, groups, channel_group_cache_, pings, detector, nodes, poolBudget>>

\* Slip: the new group is inserted without looking again.
InsertGroupBlind(u) ==
  LET spec == getter[u].spec
  IN  /\ getter[u].pc = "insert"
      /\ groups' = Append(groups, NewGroup(spec))
      /\ channel_pool_' = [s \in DOMAIN channel_pool_ \cup {spec} |->
                             IF s = spec THEN Len(groups) + 1 ELSE channel_pool_[s]]
      /\ getter' = [getter EXCEPT ![u].pc = "full?", ![u].group = Len(groups) + 1]
      /\ UNCHANGED <<channel_group_cache_, pings, detector, nodes, poolBudget>>

\* ... and looks again under the write lock before it inserts a new one; the
\* thread that comes second deletes the group it has made.
InsertGroup(u) ==
  LET spec == getter[u].spec
  IN  /\ getter[u].pc = "insert"
      /\ IF spec \in DOMAIN channel_pool_
         THEN /\ getter' = [getter EXCEPT ![u].pc = "full?", ![u].group = channel_pool_[spec]]
              /\ UNCHANGED <<groups, channel_pool_>>
         ELSE /\ groups' = Append(groups, NewGroup(spec))
              /\ channel_pool_' = [s \in DOMAIN channel_pool_ \cup {spec} |->
                                     IF s = spec THEN Len(groups) + 1 ELSE channel_pool_[s]]
              /\ getter' = [getter EXCEPT ![u].pc = "full?", ![u].group = Len(groups) + 1]
      /\ UNCHANGED <<channel_group_cache_, pings, detector, nodes, poolBudget>>

\* IsFull, asked by GetChannel and again by AddChannel.
TestFull(u) ==
  /\ getter[u].pc = "full?"
  /\ GetterAt(u, IF IsFull(getter[u].group) THEN "pick" ELSE "add")
  /\ UNCHANGED <<channel_pool_, groups, channel_group_cache_, pings, detector, nodes, poolBudget>>

\* AddChannel: channel_count_++ takes a slot, or goes beyond the capacity.
AddChannel(u) ==
  LET g == getter[u].group
      slot == groups[g].count + 1
  IN  /\ getter[u].pc = "add"
      /\ groups' = [groups EXCEPT ![g].count = @ + 1,
                                  ![g].slots = IF slot \in Slots THEN [@ EXCEPT ![slot] = "taken"] ELSE @]
      /\ getter' = [getter EXCEPT ![u].pc = IF slot \in Slots THEN "init" ELSE "pick",
                                  ![u].slot = IF slot \in Slots THEN slot ELSE 0]
      /\ UNCHANGED <<channel_pool_, channel_group_cache_, pings, detector, nodes, poolBudget>>

\* OpenNewChannel: Channel::Init fails, and the slot stays taken for ever; or
\* the channel is entered into the cache, ...
ChannelInit(u) ==
  /\ getter[u].pc = "init"
  /\ \/ GetterAt(u, "pick") /\ UNCHANGED channel_group_cache_
     \/ /\ GetterAt(u, "reset")
        /\ channel_group_cache_' = channel_group_cache_ \cup {<<getter[u].group, getter[u].slot>>}
  /\ UNCHANGED <<channel_pool_, groups, pings, detector, nodes, poolBudget>>

\* ... put into its slot, ...
ResetSlot(u) ==
  /\ getter[u].pc = "reset"
  /\ groups' = [groups EXCEPT ![getter[u].group].slots[getter[u].slot] = "bad"]
  /\ GetterAt(u, "ping")
  /\ UNCHANGED <<channel_pool_, channel_group_cache_, pings, detector, nodes, poolBudget>>

\* ... and pinged for the first time.
FirstPing(u) ==
  /\ getter[u].pc = "ping"
  /\ pings' = pings \cup {[group |-> getter[u].group, slot |-> getter[u].slot, checker |-> FALSE]}
  /\ GetterAt(u, "pick")
  /\ UNCHANGED <<channel_pool_, groups, channel_group_cache_, detector, nodes, poolBudget>>

\* The slots of g in the order in which PickChannel looks at them.
FromIndex(g, i) == ((groups[g].index + i) % Capacity) + 1

\* PickChannel: a good channel, or nullptr; the subscriber then tries again.
PickChannel(u) ==
  LET g == getter[u].group
  IN  /\ getter[u].pc = "pick"
      /\ groups' = [groups EXCEPT ![g].index = (@ + 1) % Capacity]
      /\ getter' = [getter EXCEPT ![u] =
           IF \/ \E i \in 0..(Capacity - 1) : groups[g].slots[FromIndex(g, i)] = "good"
              \/ getter[u].tries = GET_CHANNEL_RETRY_TIMES
           THEN IdleGetter
           ELSE [IdleGetter EXCEPT !.pc = "retry", !.tries = getter[u].tries]]
      /\ UNCHANGED <<channel_pool_, channel_group_cache_, pings, detector, nodes, poolBudget>>

-----------------------------------------------------------------------------
\* MoveFromBad2Good, MoveFromGood2Bad: the group comes from the cache.
Move(ping, good) ==
  groups' = [groups EXCEPT ![ping.group].slots[ping.slot] = IF good THEN "good" ELSE "bad"]

\* HandleResponse of a ping, answered or failed; a checker ping counts the
\* failure before it notifies the waiter.
HandleResponse(ping, good) ==
  /\ ping \in pings
  /\ pings' = pings \ {ping}
  /\ Move(ping, good)
  /\ detector' = IF ping.checker
                 THEN [detector EXCEPT !.bad = @ + (IF good THEN 0 ELSE 1), !.num_wait = @ - 1]
                 ELSE detector
  /\ UNCHANGED <<channel_pool_, channel_group_cache_, getter, nodes, poolBudget>>

-----------------------------------------------------------------------------
\* The detector's loop: CheckAndGetBadNodeSpecs copies the pool, ...
BeginDetect ==
  /\ detector.pc = "sleep"
  /\ detector' = [detector EXCEPT !.pc = "check", !.found = {},
                                  !.todo = {channel_pool_[s] : s \in DOMAIN channel_pool_}]
  /\ UNCHANGED <<channel_pool_, groups, channel_group_cache_, pings, getter, nodes, poolBudget>>

\* "only check bad channel".
ToCheck(g) == {i \in Slots : groups[g].slots[i] = "bad"}

\* Slip: the waiter is made for every slot.
NumWaitAll(g) == Capacity

\* The waiter counts the pings.
NumWait(g) == Cardinality(ToCheck(g))

\* ... and calls CheckChannels for one group after the other.
CheckChannels(g) ==
  /\ detector.pc = "check" /\ g \in detector.todo
  /\ pings' = pings \cup {[group |-> g, slot |-> i, checker |-> TRUE] : i \in ToCheck(g)}
  /\ detector' = [detector EXCEPT !.pc = "wait", !.todo = @ \ {g}, !.group = g, !.bad = 0,
                                  !.num_wait = NumWait(g)]
  /\ UNCHANGED <<channel_pool_, groups, channel_group_cache_, getter, nodes, poolBudget>>

\* The waiter lets it go: the group is bad when as many pings have failed as
\* it has slots.
Checked ==
  /\ detector.pc = "wait" /\ detector.num_wait = 0
  /\ detector' = [detector EXCEPT !.pc = "check", !.group = 0,
                    !.found = IF detector.bad < Capacity THEN @ ELSE @ \cup {groups[detector.group].spec}]
  /\ UNCHANGED <<channel_pool_, groups, channel_group_cache_, pings, getter, nodes, poolBudget>>

\* DoDetect returns early when there is nothing bad and was nothing before.
NothingToDo == detector.specList = {} /\ detector.found = {}

\* FindNodesBySpec knows the nodes that are offered, not those on the black
\* list; UpdateBadNode takes the new black list in place of the old one.
DoDetect ==
  /\ detector.pc = "check" /\ detector.todo = {}
  /\ IF NothingToDo
     THEN UNCHANGED nodes
     ELSE LET black == detector.found \cap nodes.valid
          IN  nodes' = [valid |-> nodes.valid \ black, black |-> black]
  /\ detector' = [detector EXCEPT !.pc = "sleep", !.last = detector.found,
                                  !.specList = IF NothingToDo THEN @ ELSE detector.found]
  /\ UNCHANGED <<channel_pool_, groups, channel_group_cache_, pings, getter, poolBudget>>

\* UpdateHeartbeat with the list of all nodes.
PoolHeartbeat ==
  /\ poolBudget.heartbeats < MaxHeartbeats
  /\ poolBudget' = [poolBudget EXCEPT !.heartbeats = @ + 1]
  /\ nodes' = [nodes EXCEPT !.valid = Specs \ nodes.black]
  /\ UNCHANGED <<channel_pool_, groups, channel_group_cache_, pings, getter, detector>>

-----------------------------------------------------------------------------
PoolInit ==
  /\ channel_pool_ = <<>>
  /\ groups = <<>>
  /\ channel_group_cache_ = {}
  /\ pings = {}
  /\ getter = [u \in Getters |-> IdleGetter]
  /\ detector = [pc |-> "sleep", todo |-> {}, group |-> 0, bad |-> 0, num_wait |-> 0,
                 found |-> {}, specList |-> {}, last |-> {}]
  /\ nodes = [valid |-> Specs, black |-> {}]
  /\ poolBudget = [gets |-> 0, heartbeats |-> 0]

PoolNext ==
  \/ \E u \in Getters :
       \/ GetChannel(u) \/ FindGroup(u) \/ InsertGroup(u) \/ TestFull(u) \/ AddChannel(u)
       \/ ChannelInit(u) \/ ResetSlot(u) \/ FirstPing(u) \/ PickChannel(u)
  \/ \E ping \in pings, good \in BOOLEAN : HandleResponse(ping, good)
  \/ BeginDetect \/ (\E g \in detector.todo : CheckChannels(g)) \/ Checked \/ DoDetect
  \/ PoolHeartbeat

PoolSpec == PoolInit /\ [][PoolNext]_poolVars

-----------------------------------------------------------------------------
\* Every thread that is past the lookup works on the group the pool has for
\* its server: two threads that miss at the same time do not end up with two
\* groups, one of which nobody would check.
OneGroupPerSpec ==
  /\ \A u \in Getters : getter[u].group # 0 => channel_pool_[getter[u].spec] = getter[u].group
  /\ Len(groups) = Cardinality(DOMAIN channel_pool_)

\* A slot is given to one opening thread only, although channel_count_ may
\* run past the capacity.
SlotsNotShared ==
  \A u, v \in Getters :
    /\ getter[u].pc \in {"init", "reset"} /\ getter[v].pc \in {"init", "reset"}
    /\ getter[u].group = getter[v].group /\ getter[u].slot = getter[v].slot
    => u = v

\* CHECK in FindChannelGroup: when the answer to a ping comes, its channel
\* is in channel_group_cache_.
PingedIsCached == \A ping \in pings : <<ping.group, ping.slot>> \in channel_group_cache_

\* GetChannel: threads that open groups and channels at once do not get into
\* each other's way, nor do the answers to their pings.
GroupsOK == OneGroupPerSpec /\ SlotsNotShared /\ PingedIsCached

\* A checker ping points to the waiter and the counter on the stack of
\* CheckChannels: all of them are answered before it returns.
WaiterOutlivesPings ==
  Cardinality({ping \in pings : ping.checker}) = detector.num_wait

\* A node is on the black list only if the last round found its server bad:
\* one that answers again leaves the list with the next round.
BlackListIsFresh == detector.pc = "sleep" => nodes.black \subseteq detector.last

\* CheckChannels, DoDetect: a round ends after its last ping, and what it saw
\* is what the black list says.
RoundsOK == WaiterOutlivesPings /\ BlackListIsFresh
=============================================================================

------------------------------ MODULE MCLeader ------------------------------
(***************************************************************************)
(* What the leader library keeps in a client process, beside the threads   *)
(* of the heartbeats: the node collection with its history of picks (a     *)
(* path and one sub-path), the ZooKeeper wrapper and the channel pool.     *)
(* They share no state: "leader_part" says whose behaviour this is, and    *)
(* the others rest in their initial states.                                *)
(***************************************************************************)
EXTENDS RoundRobin, ZkWrapper, ChannelPool, TLC

CONSTANTS top, sub

VARIABLE leader_part

MCPaths == {top, sub}
MCSubPaths == (top :> {top, sub}) @@ (sub :> {sub})

Symmetry == Permutations(Nodes) \cup Permutations(Pickers)

nodeState == <<vars, ahead>>
leaderState == <<nodeState, zkVars, poolVars, leader_part>>

LeaderInit ==
  /\ RRInit /\ ZkInit /\ PoolInit
  /\ leader_part \in {"nodes", "zk", "pool"}

\* The bounds end the behaviours of the two clients, never a deadlock of the
\* node collection: only they may rest.
LeaderNext ==
  /\ UNCHANGED leader_part
  /\ \/ leader_part = "nodes" /\ RRNext /\ UNCHANGED <<zkVars, poolVars>>
     \/ leader_part = "zk" /\ ZkNext /\ UNCHANGED <<nodeState, poolVars>>
     \/ leader_part = "pool" /\ PoolNext /\ UNCHANGED <<nodeState, zkVars>>
     \/ leader_part # "nodes" /\ UNCHANGED <<nodeState, zkVars, poolVars>>

LeaderSpec == LeaderInit /\ [][LeaderNext]_leaderState
=============================================================================

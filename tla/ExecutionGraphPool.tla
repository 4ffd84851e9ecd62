-------------------------- MODULE ExecutionGraphPool --------------------------
(***************************************************************************)
(* orc/framework/execution_graph_mgr.cc: the pool of execution graphs of   *)
(* one workflow, its share in the thread local pools, and Setup, which may *)
(* be called again to reload the workflow file while graphs are in use.    *)
(* How a graph is built is in WorkflowCompiler.                            *)
(***************************************************************************)
EXTENDS Naturals, Sequences, FiniteSets

CONSTANTS
  GraphWorkers,    \* threads that start workflows
  GraphCallbacks,  \* threads that only end them: rpc callbacks
  GraphUsers,      \* workflows in flight
  GraphPoolSize,   \* SvrWorkflowPoolSize
  MaxReloads       \* bound on Setup

\* A configured size of 0 makes one graph all the same; without workers
\* Setup divides by zero.
ASSUME GraphAssumption ==
  /\ GraphPoolSize \in Nat \ {0} /\ MaxReloads \in Nat
  /\ IsFiniteSet(GraphWorkers) /\ GraphWorkers # {} /\ IsFiniteSet(GraphCallbacks)
  /\ IsFiniteSet(GraphUsers) /\ GraphUsers \cap (GraphWorkers \cup GraphCallbacks) = {}

VARIABLES
  mode_, use_tls_, version_,
  exe_graphs_,      \* the queue of graphs under mutex_
  tls_exe_graphs_,  \* thread -> its queue
  inUse,            \* user -> the graph it holds, or NoGraph
  releasing,        \* thread -> the graph it has found to be of this version
  served            \* ghost: graph -> how often it was handed out too late

graphVars == <<mode_, use_tls_, version_, exe_graphs_, tls_exe_graphs_, inUse, releasing, served>>

GraphThreads == GraphWorkers \cup GraphCallbacks
NoGraph == <<0, 0>>
\* A graph is the version it was built for and a number.
Graph == (1..(MaxReloads + 1)) \X (1..GraphPoolSize)

pool_size_ == IF mode_ = "singleton" THEN 1 ELSE GraphPoolSize
tls_size_ == pool_size_ \div Cardinality(GraphWorkers)

\* ReloadExeGraph: a new set of graphs.
NewGraphs(version, size) == [i \in 1..size |-> <<version, i>>]

\* The first Setup, from the configuration.
GraphInit ==
  /\ mode_ \in {"singleton", "pool"}
  /\ use_tls_ \in BOOLEAN
  /\ version_ = 1
  /\ exe_graphs_ = NewGraphs(1, pool_size_)
  /\ tls_exe_graphs_ = [t \in GraphThreads |-> <<>>]
  /\ inUse = [u \in GraphUsers |-> NoGraph]
  /\ releasing = [t \in GraphThreads |-> NoGraph]
  /\ served = [g \in Graph |-> 0]

\* ReloadGraph in pool mode; a singleton cannot be reloaded.  Nobody
\* empties the thread local pools.
ReloadGraph ==
  /\ mode_ = "pool" /\ version_ <= MaxReloads
  /\ version_' = version_ + 1
  /\ exe_graphs_' = NewGraphs(version_ + 1, pool_size_)
  /\ UNCHANGED <<mode_, use_tls_, tls_exe_graphs_, inUse, releasing, served>>

\* A graph is handed out; late is counted when a newer version is there.
Handed(u, g) ==
  /\ inUse' = [inUse EXCEPT ![u] = g]
  /\ served' = IF g[1] < version_ THEN [served EXCEPT ![g] = @ + 1] ELSE served

FromSingleton(u) ==
  /\ mode_ = "singleton" /\ exe_graphs_ # <<>>
  /\ Handed(u, Head(exe_graphs_))
  /\ UNCHANGED <<exe_graphs_, tls_exe_graphs_>>

FromTls(t, u) ==
  /\ mode_ = "pool" /\ use_tls_ /\ tls_exe_graphs_[t] # <<>>
  /\ Handed(u, Head(tls_exe_graphs_[t]))
  /\ tls_exe_graphs_' = [tls_exe_graphs_ EXCEPT ![t] = Tail(@)]
  /\ UNCHANGED exe_graphs_

FromPool(t, u) ==
  /\ mode_ = "pool" /\ (use_tls_ => tls_exe_graphs_[t] = <<>>) /\ exe_graphs_ # <<>>
  /\ Handed(u, Head(exe_graphs_))
  /\ exe_graphs_' = Tail(exe_graphs_)
  /\ UNCHANGED tls_exe_graphs_

\* GetExeGraph; without a graph the workflow is not started.
GetExeGraph(t, u) ==
  /\ releasing[t] = NoGraph /\ inUse[u] = NoGraph
  /\ FromSingleton(u) \/ FromTls(t, u) \/ FromPool(t, u)
  /\ UNCHANGED <<mode_, use_tls_, version_, releasing>>

\* Slip: the version of a graph that comes back is not looked at.
OutdatedNever(g) == FALSE

Outdated(g) == g[1] # version_

\* ReleaseExeGraph up to the lock: a graph of an old version is deleted.
ReleaseExeGraph(t, u) ==
  /\ releasing[t] = NoGraph /\ inUse[u] # NoGraph
  /\ inUse' = [inUse EXCEPT ![u] = NoGraph]
  /\ releasing' = [releasing EXCEPT ![t] = IF mode_ = "singleton" \/ Outdated(inUse[u])
                                           THEN NoGraph ELSE inUse[u]]
  /\ UNCHANGED <<mode_, use_tls_, version_, exe_graphs_, tls_exe_graphs_, served>>

TlsRoom(t) == use_tls_ /\ Len(tls_exe_graphs_[t]) < tls_size_

\* The rest: the graph goes to the thread's pool or, under the lock, back to
\* the queue, whatever version is current by now.
PutBack(t) ==
  /\ releasing[t] # NoGraph
  /\ releasing' = [releasing EXCEPT ![t] = NoGraph]
  /\ IF TlsRoom(t)
     THEN /\ tls_exe_graphs_' = [tls_exe_graphs_ EXCEPT ![t] = Append(@, releasing[t])]
          /\ UNCHANGED exe_graphs_
     ELSE /\ exe_graphs_' = Append(exe_graphs_, releasing[t])
          /\ UNCHANGED tls_exe_graphs_
  /\ UNCHANGED <<mode_, use_tls_, version_, inUse, served>>

GraphNext ==
  \/ ReloadGraph
  \/ \E t \in GraphWorkers, u \in GraphUsers : GetExeGraph(t, u)
  \/ \E t \in GraphThreads, u \in GraphUsers : ReleaseExeGraph(t, u)
  \/ \E t \in GraphThreads : PutBack(t)

GraphSpec == GraphInit /\ [][GraphNext]_graphVars

-----------------------------------------------------------------------------
Occurrences(s, g) == Cardinality({i \in DOMAIN s : s[i] = g})

\* The places a graph is in.
Places(g) ==
  Occurrences(exe_graphs_, g)
  + Cardinality({p \in GraphThreads \X (1..GraphPoolSize) :
                   p[2] <= Len(tls_exe_graphs_[p[1]]) /\ tls_exe_graphs_[p[1]][p[2]] = g})
  + Cardinality({u \in GraphUsers : inUse[u] = g})
  + Cardinality({t \in GraphThreads : releasing[t] = g})

\* GetExeGraph in pool mode: a graph is in one place at a time, so no two
\* workflows run on it; and none of the current version is ever lost, also
\* when a release and a reload meet.
ExclusiveGraph ==
  mode_ = "pool" => \A g \in Graph : /\ Places(g) <= 1
                                     /\ g[1] = version_ => Places(g) = 1

\* ReleaseExeGraph compares the version outside the lock, and a reload does
\* not empty the thread local pools: a graph may be handed out after its
\* version is gone, but once only; then it is deleted.
StaleServedOnce == \A g \in Graph : served[g] <= 1

\* tls_size_ = pool_size / worker_num: a worker finds no graph only while
\* some are in use, as long as the thread local pools of the others, the
\* callback threads included, cannot hold them all.
StarvesOnlyWhenBusy ==
  mode_ = "pool" =>
    \A t \in GraphWorkers :
      tls_exe_graphs_[t] = <<>> /\ exe_graphs_ = <<>> =>
        Cardinality({u \in GraphUsers : inUse[u] # NoGraph} \cup
                    {w \in GraphThreads : releasing[w] # NoGraph})
          >= GraphPoolSize - tls_size_ * (Cardinality(GraphThreads) - 1)

\* GetExeGraph, ReleaseExeGraph, ReloadGraph: graphs are neither shared nor lost
\* nor kept from the workers, and old ones go.
GraphsOK == ExclusiveGraph /\ StaleServedOnce /\ StarvesOnlyWhenBusy
=============================================================================

--------------------------- MODULE MCWorkflowPool ---------------------------
(***************************************************************************)
(* The workflow engine and, beside it, the pool of threads it runs on,     *)
(* whose queue the engine's module abstracts: the pool with its workers    *)
(* and the handshake of its destructor.  "pool_part" says whose behaviour  *)
(* this is, the other one rests in its initial state.                      *)
(***************************************************************************)
EXTENDS MCWorkflow, ThreadPool

VARIABLE pool_part

BothInit == Init /\ PoolInit /\ pool_part \in {"workflow", "pool"}

\* A pool that has been destroyed rests; the engine must not deadlock.
BothNext ==
  /\ UNCHANGED pool_part
  /\ \/ pool_part = "workflow" /\ Next /\ UNCHANGED poolVars
     \/ pool_part = "pool" /\ PoolNext /\ UNCHANGED vars
     \/ pool_part = "pool" /\ UNCHANGED <<vars, poolVars>>

\* The fairness of both modules, each for its own part.
BothFairness ==
  /\ \A w \in Workers : WF_vars(pool_part = "workflow" /\ Work(w))
  /\ \A s \in Sessions : WF_vars(pool_part = "workflow" /\ Respond(s))
  /\ \A w \in PoolWorkers : WF_poolVars(pool_part = "pool" /\ Loop(w))
  /\ WF_poolVars(pool_part = "pool" /\ Destructor)

BothSpec == BothInit /\ [][BothNext]_<<vars, poolVars, pool_part>> /\ BothFairness
=============================================================================

--------------------------- MODULE ServerLifecycle ---------------------------
(***************************************************************************)
(* One run of a server process (orc/framework/server_base.cc BaseRun): the *)
(* chain of set-up steps of OrcMgr, Workflow, BrpcServer and PbRpcServer,  *)
(* each of which may fail, the wait for the stop signal, and the scope     *)
(* guard that takes everything down however far the chain came.  Requests  *)
(* and pings arrive from the moment brpc listens; they run on its threads  *)
(* beside the one that executes BaseRun.                                   *)
(*                                                                         *)
(* A resource is in "up" from the assignment that creates it to the one    *)
(* that destroys it.                                                       *)
(***************************************************************************)
EXTENDS Naturals

CONSTANTS Registered,     \* the components of ComponentMgr
          MaxRequests, MaxPings,  \* bounds on what is in flight
          MaxRuns         \* bound on calls of BaseRun

VARIABLES serverPc,       \* where the thread in BaseRun is
          status_, stop_, \* ServerBase's
          up,             \* the resources that exist
          toSetup,        \* enabled components ComponentMgr::Setup has not reached
          enabled,        \* the components the configuration enables
          released,       \* registered components whose Release ran last
          requests,       \* calls of the user's service in flight
          pinging,        \* calls of PingService in flight
          runs

lifeVars == <<serverPc, status_, stop_, up, toSetup, enabled, released, requests,
              pinging, runs>>
calls == <<requests, pinging>>
flags == <<status_, stop_, runs>>

(* What a call of the user's service reaches through OrcMgr::Run.          *)
Serving == {"files", "workflow", "handlers", "graphs", "sessions", "router", "pool"}

LifeInit ==
  /\ serverPc = "idle" /\ status_ = "Stop" /\ stop_ = FALSE /\ up = {} /\ runs = 0
  /\ enabled \in SUBSET (Registered \cup {"unknown"}) /\ toSetup = {}
  /\ released = {} /\ requests = 0 /\ pinging = 0

-----------------------------------------------------------------------------
(* The chain.  "logger" and "init" are the virtual functions of a concrete *)
(* server.  A step that fails returns from BaseRun, which runs the guard:  *)
(* "hide".                                                                 *)
BaseRun ==
  /\ serverPc = "idle" /\ status_ # "Start" /\ runs < MaxRuns
  /\ runs' = runs + 1 /\ serverPc' = "logger"
  /\ UNCHANGED <<status_, stop_, up, toSetup, enabled, released, calls>>

\* A server that ran once is never started again in its process.
AlreadyStarted ==
  /\ serverPc = "idle" /\ status_ = "Start" /\ runs < MaxRuns /\ runs' = runs + 1
  /\ UNCHANGED <<serverPc, status_, stop_, up, toSetup, enabled, released, calls>>

\* Step at leads to next with made created; when it fails, partly is left.
SetupStep(at, next, made, partly) ==
  /\ serverPc = at
  /\ \/ serverPc' = next /\ up' = up \cup made
     \/ serverPc' = "hide" /\ up' = up \cup partly
  /\ UNCHANGED <<enabled, released, calls, flags>>

SetupOrcLogger    == SetupStep("logger", "monitor", {}, {}) /\ UNCHANGED toSetup
InitMonitorStatus == SetupStep("monitor", "files", {}, {}) /\ UNCHANGED toSetup
InitFileMonitor   == SetupStep("files", "components", {"files"}, {}) /\ toSetup' = enabled
\* plugin_mgr_ is made before its Init, and only when a path is configured.
InitPlugins ==
  /\ \E made \in {{}, {"plugins"}} : SetupStep("plugins", "workflow", made, {"plugins"})
  /\ UNCHANGED toSetup
SetupHandlerMgr ==
  SetupStep("workflow", "graphs", {"workflow", "handlers"}, {"workflow"}) /\ UNCHANGED toSetup
SetupExecutionGraphMgr == SetupStep("graphs", "sessions", {"graphs"}, {}) /\ UNCHANGED toSetup
InitSessionFactory == SetupStep("sessions", "router", {"sessions"}, {}) /\ UNCHANGED toSetup
InitWorkflowRouter == SetupStep("router", "pool", {"router"}, {}) /\ UNCHANGED toSetup
InitThreadPool     == SetupStep("pool", "init", {"pool"}, {}) /\ UNCHANGED toSetup
InitServer         == SetupStep("init", "server", {}, {}) /\ UNCHANGED toSetup

\* One round of ComponentMgr::Setup's loop; an unknown name and a failing
\* Setup end it.
ComponentSetup ==
  /\ serverPc = "components"
  /\ \/ /\ toSetup = {} /\ serverPc' = "plugins" /\ UNCHANGED <<toSetup, released>>
     \/ \E com \in toSetup :
          /\ toSetup' = toSetup \ {com} /\ released' = released \ {com}
          /\ \/ com \in Registered /\ UNCHANGED serverPc
             \/ serverPc' = "hide"
  /\ UNCHANGED <<up, enabled, calls, flags>>

\* The server and the register exist before brpc listens.
StartServer ==
  /\ SetupStep("server", "publish", {"server", "register", "listening"}, {"server", "register"})
       \/ SetupStep("server", "hide", {"server"}, {})
  /\ UNCHANGED toSetup

\* With "local" discovery nothing is reported; BrpcServer::InitLeader does not
\* look at what the register's Start returns.
ServicePublish ==
  /\ serverPc = "publish"
  /\ \/ /\ serverPc' = "serving" /\ status_' = "Start"
        /\ \E made \in {{}, {"reporting"}} : up' = up \cup made
     \/ serverPc' = "hide" /\ UNCHANGED <<up, status_>>
  /\ UNCHANGED <<stop_, toSetup, enabled, released, calls, runs>>

-----------------------------------------------------------------------------
(* SIGUSR1 only sets a flag, which the thread looks at once a second.      *)
BaseStop ==
  /\ serverPc # "idle" /\ ~stop_ /\ stop_' = TRUE
  /\ UNCHANGED <<serverPc, status_, up, toSetup, enabled, released, calls, runs>>

LeaveLoop ==
  /\ serverPc = "serving" /\ stop_ /\ serverPc' = "hide"
  /\ UNCHANGED <<up, toSetup, enabled, released, calls, flags>>

(* The guard.  Step at is over when it gave up gone; ~Server stops and     *)
(* joins like StopServer does, so that status_ makes no difference.        *)
GuardStep(at, next, gone) ==
  /\ serverPc = at /\ serverPc' = next /\ up' = up \ gone
  /\ UNCHANGED <<toSetup, enabled, calls, flags>>

ServiceHide == GuardStep("hide", "stop", {"register", "reporting"}) /\ UNCHANGED released
StopServer  == GuardStep("stop", "join", {"listening"}) /\ UNCHANGED released
\* Slip: Stop without Join.
JoinHasty == GuardStep("join", "workflowStop", {"server"}) /\ UNCHANGED released

Join ==
  /\ requests = 0 /\ pinging = 0
  /\ GuardStep("join", "workflowStop", {"server"}) /\ UNCHANGED released
WorkflowStop == GuardStep("workflowStop", "release", {"pool"}) /\ UNCHANGED released
\* ComponentMgr::Release calls every registered component, set up or not.
ReleaseComponents == GuardStep("release", "filesStop", {}) /\ released' = Registered
FileMonitorStop == GuardStep("filesStop", "idle", {"files"}) /\ UNCHANGED released

-----------------------------------------------------------------------------
(* brpc's threads.  Once stopped, the server refuses what arrives, and     *)
(* Join waits for what is in progress.                                     *)
Arrives ==
  /\ "listening" \in up
  /\ \/ requests < MaxRequests /\ requests' = requests + 1 /\ UNCHANGED pinging
     \/ pinging < MaxPings /\ pinging' = pinging + 1 /\ UNCHANGED requests
  /\ UNCHANGED <<serverPc, up, toSetup, enabled, released, flags>>

Answered ==
  /\ \/ requests > 0 /\ requests' = requests - 1 /\ UNCHANGED pinging
     \/ pinging > 0 /\ pinging' = pinging - 1 /\ UNCHANGED requests
  /\ UNCHANGED <<serverPc, up, toSetup, enabled, released, flags>>

Setup ==
  \/ SetupOrcLogger \/ InitMonitorStatus \/ InitFileMonitor \/ ComponentSetup \/ InitPlugins
  \/ SetupHandlerMgr \/ SetupExecutionGraphMgr \/ InitSessionFactory \/ InitWorkflowRouter
  \/ InitThreadPool \/ InitServer \/ StartServer \/ ServicePublish
Guard ==
  ServiceHide \/ StopServer \/ Join \/ WorkflowStop \/ ReleaseComponents \/ FileMonitorStop

LifeNext ==
  BaseRun \/ AlreadyStarted \/ Setup \/ BaseStop \/ LeaveLoop \/ Guard \/ Arrives \/ Answered

LifeSpec == LifeInit /\ [][LifeNext]_lifeVars

-----------------------------------------------------------------------------
(* Properties.                                                             *)

\* However the process got here, a call of the user's service that is in
\* flight finds everything Workflow::Run uses: the set-up ends before brpc
\* listens, and the guard joins brpc before the pool and the components go.
RequestFindsServer ==
  requests > 0 => /\ Serving \subseteq up /\ toSetup = {}
                  /\ enabled \subseteq Registered \ released

\* While this process tells ZooKeeper that it serves, it listens: clients are
\* never sent to a server that did not start or that already stopped.
ReportedMeansListening == "reporting" \in up => "listening" \in up

\* A call of BaseRun that returned, after a failure of whatever step or after
\* a stop, leaves no listener, no report, no worker, no monitor thread and no
\* component set up.  (The plug-ins and the pools of sessions and graphs stay.)
NothingLeftBehind ==
  serverPc = "idle" /\ runs > 0 =>
    /\ up \cap {"files", "pool", "server", "listening", "register", "reporting"} = {}
    /\ released = Registered /\ requests + pinging = 0

\* BaseRun: however far the set-up came and whichever step failed, the process
\* serves with everything in place, or not at all.
LifeOK == RequestFindsServer /\ ReportedMeansListening /\ NothingLeftBehind

\* The service a ping runs in exists: it is a member of the register, which
\* brpc does not own and its user "shall" delete "after stopping the server".
PingServiceAlive == pinging > 0 => "register" \in up

=============================================================================

---------------------------- MODULE MCServerCore -----------------------------
(***************************************************************************)
(* The parts of a server process around its workflow engine: the queue of  *)
(* the worker threads, the local cache, the plug-in manager, and the life  *)
(* of the process that sets them up.  They share no state: "core_part"     *)
(* says whose behaviour this is, the others rest in their initial states.  *)
(***************************************************************************)
EXTENDS TaskQueue, ServerLifecycle, LocalCache, TLC

VARIABLES pluginPc, listed, taken, opened, plugins_, index,
          core_part

\* Threads and tasks of the queue; four threads and three slots: threads of
\* both kinds wait while others race them, two signals can be under way at
\* once, and the ring wraps.
Symmetry == Permutations(Threads) \cup Permutations(Tasks)

\* Two libraries with one name, one of them in a subdirectory beside a file
\* that is none, and a path that cannot be loaded.
Plugins == INSTANCE PluginMgr WITH
  Paths <- {"root", "sub", "a.so", "b.so", "readme", "gone"},
  Kind <- "root" :> "dir" @@ "sub" :> "dir" @@ "a.so" :> "so" @@ "b.so" :> "so"
          @@ "readme" :> "other" @@ "gone" :> "bad",
  Children <- "root" :> {"sub", "a.so", "readme"} @@ "sub" :> {"b.so"},
  Info <- "a.so" :> [name |-> "n1", module |-> "m1", tags |-> <<"t1", "t2">>]
          @@ "b.so" :> [name |-> "n1", module |-> "m2", tags |-> <<"t2">>],
  PluginRoot <- "root",
  PluginConfs <- {<<>>, <<"a.so">>, <<"sub", "root">>, <<"a.so", "gone">>}

-----------------------------------------------------------------------------
pluginState == <<pluginPc, listed, taken, opened, plugins_, index>>
coreState == <<vars, cacheVars, pluginState, lifeVars, core_part>>

\* The bounds end every behaviour but the queue's, which must not deadlock.
CoreInit ==
  /\ Init /\ CacheInit /\ Plugins!PluginInit /\ LifeInit
  /\ core_part \in {"queue", "cache", "plugins", "life"}
  /\ core_part # "cache" => capacity_ = 0
  /\ core_part # "life" => enabled = {}

CoreNext ==
  /\ UNCHANGED core_part
  /\ \/ core_part = "queue" /\ Next
        /\ UNCHANGED <<cacheVars, pluginState, lifeVars>>
     \/ core_part = "cache" /\ CacheNext
        /\ UNCHANGED <<vars, pluginState, lifeVars>>
     \/ core_part = "plugins" /\ Plugins!PluginNext
        /\ UNCHANGED <<vars, cacheVars, lifeVars>>
     \/ core_part = "life" /\ LifeNext
        /\ UNCHANGED <<vars, cacheVars, pluginState>>
     \/ core_part # "queue"
        /\ UNCHANGED <<vars, cacheVars, pluginState, lifeVars>>

CoreSpec == CoreInit /\ [][CoreNext]_coreState

-----------------------------------------------------------------------------
\* PluginMgr: every library below the path is loaded once, and the six lookups
\* return what a scan of plugins_ would.
PluginsOK == Plugins!PluginsOK
=============================================================================

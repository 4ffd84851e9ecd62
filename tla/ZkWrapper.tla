------------------------------ MODULE ZkWrapper ------------------------------
(***************************************************************************)
(* leader/zkwrapper.cc: the owner of a ZooKeeper handle.  Requests read    *)
(* the handle under the read lock and park their lambdas in context_pool_, *)
(* where the client library finds them by address; Connect replaces an     *)
(* expired handle and leaves its closing to finalize_thread_; Shutdown     *)
(* closes the handle and frees the contexts.                               *)
(*                                                                         *)
(* The client library is external: a handle has a session state, requests  *)
(* without an answer, armed watches and one completion thread that runs    *)
(* every callback.  zookeeper_close waits for the callback that is under   *)
(* way and then answers, in the closing thread, what has no answer yet.    *)
(* A context is the pair of the handle it was given to and its id.         *)
(***************************************************************************)
EXTENDS Naturals, FiniteSets, Sequences

CONSTANTS
  ZkCallers,     \* threads that use the wrapper
  Connectors,    \* the ones that call Connect, Shutdown and the destructor
  Requesters,    \* the ones that make requests
  MaxHandles,    \* bound on the handles zookeeper_init gives out
  MaxContexts,   \* bound on context_id_count_
  MaxEvents      \* bound on the events for the global watcher

VARIABLES
  zhandle_,                \* 0: nullptr
  zhandle_lock_,           \* [writer, readers]
  context_pool_,           \* contexts the wrapper keeps alive
  context_id_count_,
  finalize_thread_mutex_,  \* its owner, or NoThread
  finalize_thread_,        \* [pc, zhandle, contexts]
  watcher_,                \* FALSE: nullptr
  user,                    \* caller -> what it is doing
  client,                  \* client[h]: the library's side of handle h
  early,                   \* a Shutdown freed contexts before finalize_thread_ was done
  life                     \* [events, state]: events seen; "alive" or how it ended

zkVars == <<zhandle_, zhandle_lock_, context_pool_, context_id_count_,
            finalize_thread_mutex_, finalize_thread_, watcher_, user, client,
            early, life>>

NoThread == "none"

ASSUME ZkAssumption ==
  /\ Connectors \cup Requesters \subseteq ZkCallers /\ NoThread \notin ZkCallers
  /\ MaxContexts \in Nat

Finalizer == "finalize"
IdleUser == [pc |-> "idle", zhandle |-> 0, ctxs |-> {}, request |-> [async |-> FALSE],
             old_pool |-> {}]
NoFinalize == [pc |-> "none", zhandle |-> 0, contexts |-> {}]
Handles == DOMAIN client

Go(t, pc) == user' = [user EXCEPT ![t].pc = pc]
Return(t) == user' = [user EXCEPT ![t] = IdleUser]
Unlocked == zhandle_lock_.writer = NoThread

Writable == Unlocked /\ zhandle_lock_.readers = {}
Running == life.state = "alive"

-----------------------------------------------------------------------------
\* AddContext: ids count up and are never used twice (2^64 are enough).
AddContexts(n) ==
  /\ context_id_count_ + n <= MaxContexts
  /\ context_id_count_' = context_id_count_ + n

\* The start of every request: read lock, handle, contexts for its lambdas.
\* "complete" is the completion of an asynchronous call, "watcher" the one
\* shot watcher, onNoNode whether ZNONODE arms the watch as well.
Request(t, async, watch, onNoNode) ==
  LET n == context_id_count_
      complete == IF async THEN {<<zhandle_, n + 1>>} ELSE {}
      watcher == IF watch THEN {<<zhandle_, n + 1 + Cardinality(complete)>>} ELSE {}
  IN  /\ Running /\ user[t].pc = "idle"
      /\ Unlocked /\ zhandle_ # 0
      /\ AddContexts(Cardinality(complete \cup watcher))
      /\ context_pool_' = context_pool_ \cup complete \cup watcher
      /\ zhandle_lock_' = [zhandle_lock_ EXCEPT !.readers = @ \cup {t}]
      /\ user' = [user EXCEPT ![t] =
           [IdleUser EXCEPT !.pc = "calling", !.zhandle = zhandle_,
                            !.ctxs = complete \cup watcher,
                            !.request = [async |-> async, complete |-> complete,
                                         watcher |-> watcher, onNoNode |-> onNoNode]]]
      /\ UNCHANGED <<zhandle_, finalize_thread_mutex_, finalize_thread_, watcher_,
                     client, early, life>>

\* The overloads of each operation: synchronous or not, with a watcher or not.
Create(t) == \E async \in BOOLEAN : Request(t, async, FALSE, FALSE)
Delete(t) == \E async \in BOOLEAN : Request(t, async, FALSE, FALSE)
Set(t) == \E async \in BOOLEAN : Request(t, async, FALSE, FALSE)
Get(t) == \E async, watch \in BOOLEAN : Request(t, async, watch, FALSE)
Exists(t) == \E async, watch \in BOOLEAN : Request(t, async, watch, TRUE)
GetChildren(t) == \E async, watch \in BOOLEAN : Request(t, async, watch, FALSE)

\* Slip: the watch that ZNONODE arms is forgotten.
KeepsZOK(request, rc) == rc = "ZOK"

\* RemoveContext is called unless the library took the request: ZOK, or
\* ZNONODE for a synchronous Exists, which arms the watch.
Keeps(request, rc) ==
  rc = "ZOK" \/ (~request.async /\ request.onNoNode /\ rc = "ZNONODE")

\* The library call returns rc and the read lock is released.
RequestReturns(t, rc) ==
  LET request == user[t].request
      h == user[t].zhandle
  IN  /\ user[t].pc = "calling"
      /\ request.async => rc # "ZNONODE"
      /\ context_pool_' = IF Keeps(request, rc) THEN context_pool_
                          ELSE context_pool_ \ user[t].ctxs
      /\ client' =
           [client EXCEPT
              ![h].pending = IF request.async /\ rc = "ZOK" THEN @ \cup {request} ELSE @,
              ![h].watching = IF /\ ~request.async
                                 /\ rc = "ZOK" \/ (request.onNoNode /\ rc = "ZNONODE")
                              THEN @ \cup request.watcher ELSE @]
      /\ zhandle_lock_' = [zhandle_lock_ EXCEPT !.readers = @ \ {t}]
      /\ Return(t)
      /\ UNCHANGED <<zhandle_, context_id_count_, finalize_thread_mutex_,
                     finalize_thread_, watcher_, early, life>>

SetWatcher(t, w) ==
  /\ Running /\ user[t].pc = "idle" /\ watcher_ # w
  /\ watcher_' = w
  /\ UNCHANGED <<zhandle_, zhandle_lock_, context_pool_, context_id_count_,
                 finalize_thread_mutex_, finalize_thread_, user, client, early, life>>

-----------------------------------------------------------------------------
\* The client library.
CompletionThread(h, at, ctx) == [client[h] EXCEPT !.thread = at, !.ctx = ctx]

\* The session comes up, or is expired by the server (also before it was up:
\* zoo_state is then 0, which Connect treats the same way).
Session(h, from, to) ==
  /\ client[h].phase = "open" /\ client[h].state = from
  /\ client' = [client EXCEPT ![h].state = to]
  /\ UNCHANGED <<zhandle_, zhandle_lock_, context_pool_, context_id_count_,
                 finalize_thread_mutex_, finalize_thread_, watcher_, user, early, life>>

\* An answer rc: the request's watch is armed, its completion lambda called.
Complete(h, request, rc) ==
  /\ client[h].phase \in {"open", "joining"}
  /\ client[h].thread = "idle"
  /\ request \in client[h].pending
  /\ client' = [client EXCEPT ![h] =
       [CompletionThread(h, "callback", request.complete) EXCEPT
          !.pending = @ \ {request},
          !.watching = IF rc = "ZOK" \/ (request.onNoNode /\ rc = "ZNONODE")
                       THEN @ \cup request.watcher ELSE @]]
  /\ UNCHANGED <<zhandle_, zhandle_lock_, context_pool_, context_id_count_,
                 finalize_thread_mutex_, finalize_thread_, watcher_, user, early, life>>

\* ZKWrapper_LambdaWatcher: a watch fires once.  Session events reach every
\* watcher without disarming it, and are ignored there.
LambdaWatcher(h, ctx) ==
  /\ client[h].phase = "open" /\ client[h].thread = "idle"
  /\ ctx \in client[h].watching
  /\ client' = [client EXCEPT ![h] =
       [CompletionThread(h, "callback", {ctx}) EXCEPT !.watching = @ \ {ctx}]]
  /\ UNCHANGED <<zhandle_, zhandle_lock_, context_pool_, context_id_count_,
                 finalize_thread_mutex_, finalize_thread_, watcher_, user, early, life>>

\* The lambda has run; ZKWrapperContext::Remove.
ContextRemove(h) ==
  /\ client[h].thread = "callback"
  /\ context_pool_' = context_pool_ \ client[h].ctx
  /\ client' = [client EXCEPT ![h] = CompletionThread(h, "idle", {})]
  /\ UNCHANGED <<zhandle_, zhandle_lock_, context_id_count_, finalize_thread_mutex_,
                 finalize_thread_, watcher_, user, early, life>>

\* An event for the global watcher enters GlobalZooWatcher.
GlobalEvent(h) ==
  /\ client[h].phase \in {"open", "joining"} /\ client[h].thread = "idle"
  /\ life.events < MaxEvents
  /\ life' = [life EXCEPT !.events = @ + 1]
  /\ client' = [client EXCEPT ![h].thread = "guard"]
  /\ UNCHANGED <<zhandle_, zhandle_lock_, context_pool_, context_id_count_,
                 finalize_thread_mutex_, finalize_thread_, watcher_, user, early>>

\* It passes through zhandle_lock_ and copies watcher_.
Guard(h) ==
  /\ client[h].thread = "guard"
  /\ Unlocked
  /\ client' = [client EXCEPT ![h].thread = IF watcher_ THEN "watcher" ELSE "idle"]
  /\ UNCHANGED <<zhandle_, zhandle_lock_, context_pool_, context_id_count_,
                 finalize_thread_mutex_, finalize_thread_, watcher_, user, early, life>>

\* The watcher (which only wakes a thread) returns.
WatcherReturns(h) ==
  /\ client[h].thread = "watcher"
  /\ client' = [client EXCEPT ![h].thread = "idle"]
  /\ UNCHANGED <<zhandle_, zhandle_lock_, context_pool_, context_id_count_,
                 finalize_thread_mutex_, finalize_thread_, watcher_, user, early, life>>

\* zookeeper_close(h), step by step: join the completion thread, ...
CloseJoin(h) ==
  /\ client[h].phase = "joining" /\ client[h].thread = "idle"
  /\ client' = [client EXCEPT ![h].phase = "draining"]
  /\ UNCHANGED <<zhandle_, zhandle_lock_, context_pool_, context_id_count_,
                 finalize_thread_mutex_, finalize_thread_, watcher_, user, early, life>>

\* ... answer the rest with ZCLOSING, ...
CloseDrain(h, request) ==
  /\ client[h].phase = "draining" /\ request \in client[h].pending
  /\ client' = [client EXCEPT ![h].pending = @ \ {request}]
  /\ context_pool_' = context_pool_ \ request.complete
  /\ UNCHANGED <<zhandle_, zhandle_lock_, context_id_count_, finalize_thread_mutex_,
                 finalize_thread_, watcher_, user, early, life>>

\* ... free the handle.
CloseDone(h) ==
  /\ client[h].phase = "draining" /\ client[h].pending = {}
  /\ client' = [client EXCEPT ![h].phase = "closed", ![h].watching = {}]
  /\ UNCHANGED <<zhandle_, zhandle_lock_, context_pool_, context_id_count_,
                 finalize_thread_mutex_, finalize_thread_, watcher_, user, early, life>>

-----------------------------------------------------------------------------
\* Shutdown, one critical section: the handle and the contexts change hands.
ShutdownSwap(t) ==
  /\ user[t].pc = "shutdown"
  /\ Writable
  /\ zhandle_' = 0
  /\ context_pool_' = {}
  /\ early' = (early \/ finalize_thread_.pc \in {"close", "erase"})
  /\ client' = [h \in Handles |-> IF h = zhandle_ THEN [client[h] EXCEPT !.phase = "joining"]
                                  ELSE client[h]]
  /\ user' = [user EXCEPT ![t].pc = "closing", ![t].zhandle = zhandle_,
                          ![t].old_pool = context_pool_]
  /\ UNCHANGED <<zhandle_lock_, context_id_count_, finalize_thread_mutex_,
                 finalize_thread_, watcher_, life>>

\* The handle is closed; old_pool goes out of scope.  In the destructor the
\* wrapper goes with it.
ShutdownReturns(t) ==
  /\ user[t].pc = "closing"
  /\ user[t].zhandle # 0 => client[user[t].zhandle].phase = "closed"
  /\ life' = IF life.state = "destructor" THEN [life EXCEPT !.state = "destroyed"] ELSE life
  /\ Return(t)
  /\ UNCHANGED <<zhandle_, zhandle_lock_, context_pool_, context_id_count_,
                 finalize_thread_mutex_, finalize_thread_, watcher_, client, early>>

Shutdown(t) ==
  /\ Running /\ user[t].pc = "idle" /\ zhandle_ # 0
  /\ Go(t, "shutdown")
  /\ UNCHANGED <<zhandle_, zhandle_lock_, context_pool_, context_id_count_,
                 finalize_thread_mutex_, finalize_thread_, watcher_, client, early, life>>

\* Slip: the destructor does not wait for finalize_thread_.
DestructorHasty(t) ==
  /\ Running /\ \A u \in ZkCallers : user[u].pc = "idle"
  /\ life' = [life EXCEPT !.state = "destructor"]
  /\ Go(t, "shutdown")
  /\ UNCHANGED <<zhandle_, zhandle_lock_, context_pool_, context_id_count_,
                 finalize_thread_mutex_, finalize_thread_, watcher_, client, early>>

\* ~ZKWrapper, when nobody uses the wrapper any more.
Destructor(t) ==
  /\ Running /\ \A u \in ZkCallers : user[u].pc = "idle"
  /\ life' = [life EXCEPT !.state = "destructor"]
  /\ Go(t, "mutex")
  /\ UNCHANGED <<zhandle_, zhandle_lock_, context_pool_, context_id_count_,
                 finalize_thread_mutex_, finalize_thread_, watcher_, client, early>>

-----------------------------------------------------------------------------

\* Connect: first wait for a finalize thread that is still at work, with
\* finalize_thread_mutex_ held.
Connect(t) ==
  /\ Running /\ user[t].pc = "idle"
  /\ Go(t, "mutex")
  /\ UNCHANGED <<zhandle_, zhandle_lock_, context_pool_, context_id_count_,
                 finalize_thread_mutex_, finalize_thread_, watcher_, client, early, life>>

JoinLock(t) ==
  /\ user[t].pc = "mutex" /\ finalize_thread_mutex_ = NoThread
  /\ finalize_thread_mutex_' = t
  /\ Go(t, "join")
  /\ UNCHANGED <<zhandle_, zhandle_lock_, context_pool_, context_id_count_,
                 finalize_thread_, watcher_, client, early, life>>

Join(t) ==
  /\ user[t].pc = "join"
  /\ finalize_thread_.pc \in {"none", "done"}
  /\ finalize_thread_' = NoFinalize
  /\ finalize_thread_mutex_' = NoThread
  /\ Go(t, IF life.state = "destructor" THEN "shutdown" ELSE "wrlock")
  /\ UNCHANGED <<zhandle_, zhandle_lock_, context_pool_, context_id_count_, watcher_,
                 client, early, life>>

\* The write lock, held until the new handle is in place.  A living handle
\* is left alone; any other one is taken out.
ConnectLock(t) ==
  /\ user[t].pc = "wrlock"
  /\ Writable
  /\ IF zhandle_ # 0 /\ client[zhandle_].state = "live"
     THEN /\ Return(t)
          /\ UNCHANGED <<zhandle_, zhandle_lock_>>
     ELSE /\ zhandle_lock_' = [zhandle_lock_ EXCEPT !.writer = t]
          /\ user' = [user EXCEPT ![t].pc = IF zhandle_ = 0 THEN "init" ELSE "finalize",
                                  ![t].zhandle = zhandle_, ![t].ctxs = context_pool_]
          /\ zhandle_' = 0
  /\ UNCHANGED <<context_pool_, context_id_count_, finalize_thread_mutex_,
                 finalize_thread_, watcher_, client, early, life>>

\* finalize_thread_ = std::thread(...), under its mutex.  Assigning to a
\* thread that has not been joined ends the process.
StartFinalize(t) ==
  /\ user[t].pc = "finalize" /\ finalize_thread_mutex_ = NoThread
  /\ IF finalize_thread_.pc = "none"
     THEN /\ finalize_thread_' = [pc |-> "close", zhandle |-> user[t].zhandle,
                                  contexts |-> user[t].ctxs]
          /\ client' = [client EXCEPT ![user[t].zhandle].phase = "joining"]
          /\ Go(t, "init")
          /\ UNCHANGED life
     ELSE /\ life' = [life EXCEPT !.state = "terminated"]
          /\ UNCHANGED <<finalize_thread_, client, user>>
  /\ UNCHANGED <<zhandle_, zhandle_lock_, context_pool_, context_id_count_,
                 finalize_thread_mutex_, watcher_, early>>

\* zookeeper_init; callbacks may come from now on.
ConnectInit(t) ==
  /\ user[t].pc = "init"
  /\ Len(client) < MaxHandles
  /\ client' = Append(client, [state |-> "zero", phase |-> "open", pending |-> {},
                               watching |-> {}, thread |-> "idle", ctx |-> {}])
  /\ user' = [user EXCEPT ![t].pc = "assign", ![t].zhandle = Len(client) + 1]
  /\ UNCHANGED <<zhandle_, zhandle_lock_, context_pool_, context_id_count_,
                 finalize_thread_mutex_, finalize_thread_, watcher_, early, life>>

\* zookeeper_init fails: Connect throws and leaves no handle behind.
ConnectFails(t) ==
  /\ user[t].pc = "init"
  /\ zhandle_lock_' = [zhandle_lock_ EXCEPT !.writer = NoThread]
  /\ Return(t)
  /\ UNCHANGED <<zhandle_, context_pool_, context_id_count_, finalize_thread_mutex_,
                 finalize_thread_, watcher_, client, early, life>>

\* The handle is published and the lock released.  The session callbacks that
\* Connect then runs are left out: nothing in the repository registers one.
ConnectAssign(t) ==
  /\ user[t].pc = "assign"
  /\ zhandle_' = user[t].zhandle
  /\ zhandle_lock_' = [zhandle_lock_ EXCEPT !.writer = NoThread]
  /\ Return(t)
  /\ UNCHANGED <<context_pool_, context_id_count_, finalize_thread_mutex_,
                 finalize_thread_, watcher_, client, early, life>>

-----------------------------------------------------------------------------
\* finalize_thread_: zookeeper_close(zhandle), ...
FinalizeClosed ==
  /\ finalize_thread_.pc = "close"
  /\ client[finalize_thread_.zhandle].phase = "closed"
  /\ finalize_thread_' = [finalize_thread_ EXCEPT !.pc = "erase"]
  /\ UNCHANGED <<zhandle_, zhandle_lock_, context_pool_, context_id_count_,
                 finalize_thread_mutex_, watcher_, user, client, early, life>>

\* ... then the contexts that were there when the handle was taken out.
FinalizeErase ==
  /\ finalize_thread_.pc = "erase"
  /\ context_pool_' = context_pool_ \ finalize_thread_.contexts
  /\ finalize_thread_' = [finalize_thread_ EXCEPT !.pc = "done"]
  /\ UNCHANGED <<zhandle_, zhandle_lock_, context_id_count_, finalize_thread_mutex_,
                 watcher_, user, client, early, life>>

-----------------------------------------------------------------------------
\* The constructor has connected.
ZkInit ==
  /\ zhandle_ = 1
  /\ zhandle_lock_ = [writer |-> NoThread, readers |-> {}]
  /\ context_pool_ = {}
  /\ context_id_count_ = 0
  /\ finalize_thread_mutex_ = NoThread
  /\ finalize_thread_ = NoFinalize
  /\ watcher_ = TRUE
  /\ user = [t \in ZkCallers |-> IdleUser]
  /\ client = <<[state |-> "zero", phase |-> "open", pending |-> {}, watching |-> {},
                 thread |-> "idle", ctx |-> {}]>>
  /\ early = FALSE
  /\ life = [events |-> 0, state |-> "alive"]

Answers == {"ZOK", "ZNONODE", "failed"}

\* What a thread does inside a call it has begun.
UserStep(t) ==
  \/ \E rc \in Answers : RequestReturns(t, rc)
  \/ ShutdownSwap(t) \/ ShutdownReturns(t)
  \/ JoinLock(t) \/ Join(t) \/ ConnectLock(t) \/ StartFinalize(t)
  \/ ConnectInit(t) \/ ConnectFails(t) \/ ConnectAssign(t)

\* What the client library does by itself.
ClientStep(h) ==
  \/ \E request \in client[h].pending, rc \in Answers : Complete(h, request, rc)
  \/ ContextRemove(h) \/ Guard(h) \/ WatcherReturns(h)
  \/ CloseJoin(h) \/ CloseDone(h)
  \/ \E request \in client[h].pending : CloseDrain(h, request)

FinalizeStep == FinalizeClosed \/ FinalizeErase

\* A terminated process takes no step.
ZkNext ==
  /\ life.state # "terminated"
  /\ \/ \E t \in Requesters :
          \/ Create(t) \/ Delete(t) \/ Set(t) \/ Get(t) \/ Exists(t) \/ GetChildren(t)
          \/ SetWatcher(t, FALSE)
     \/ \E t \in ZkCallers : UserStep(t)
     \/ \E t \in Connectors : Connect(t) \/ Shutdown(t) \/ Destructor(t)
     \/ \E h \in Handles :
          \/ ClientStep(h)
          \/ \E ctx \in client[h].watching : LambdaWatcher(h, ctx)
          \/ GlobalEvent(h)
          \/ Session(h, "zero", "live") \/ Session(h, "live", "expired")
     \/ FinalizeStep

ZkSpec == ZkInit /\ [][ZkNext]_zkVars

-----------------------------------------------------------------------------
\* Type invariant.
ZkTypeOK ==
  /\ zhandle_ \in 0..Len(client)
  /\ zhandle_lock_.readers \subseteq ZkCallers
  /\ zhandle_lock_.writer # NoThread => zhandle_lock_.readers = {}
  /\ context_pool_ \subseteq (Handles \X (1..MaxContexts))
  /\ finalize_thread_mutex_ \in ZkCallers \cup {NoThread}
  /\ life.state \in {"alive", "destructor", "destroyed", "terminated"}

Alive(ctx) == ctx \in context_pool_ \/ \E t \in ZkCallers : ctx \in user[t].old_pool

\* Every context the client library may still call back (a request without
\* an answer, an armed watch, the callback under way) is kept alive by the
\* wrapper, through any number of reconnections.  The one exception is a
\* Shutdown that overtakes finalize_thread_: it frees the contexts of the old
\* handle while that is still being closed.
ContextsAlive ==
  ~early =>
    \A h \in Handles :
      client[h].phase # "closed" =>
        /\ \A request \in client[h].pending : \A ctx \in request.complete : Alive(ctx)
        /\ \A ctx \in client[h].watching \cup client[h].ctx : Alive(ctx)

\* A context of a handle that is gone does not stay in the pool: it belongs
\* to the current handle, to the one finalize_thread_ is closing, or to the
\* one a Connect has just taken out.
NoStaleContexts ==
  \A ctx \in context_pool_ :
    \/ ctx[1] = zhandle_
    \/ finalize_thread_.pc \in {"close", "erase"} /\ ctx \in finalize_thread_.contexts
    \/ \E t \in ZkCallers : user[t].pc = "finalize" /\ ctx \in user[t].ctxs

\* AddContext, Finalize, Shutdown: a context lives exactly as long as the
\* client library may come back to it.
ContextsOK == ContextsAlive /\ NoStaleContexts

\* "guard to prevent callback called before Connect() complete": the global
\* watcher does not run for a handle that Connect has not published.
NoEarlyCallback ==
  \A t \in ZkCallers :
    user[t].pc = "assign" => client[user[t].zhandle].thread # "watcher"

\* After the destructor no handle is left open and no thread of the wrapper
\* runs, so nobody comes back to the memory of the wrapper.
NothingAfterDestructor ==
  life.state = "destroyed" =>
    /\ \A h \in Handles : client[h].phase = "closed"
    /\ finalize_thread_.pc = "none"

\* Connect never assigns to a finalize_thread_ that has not been joined, which
\* would end the process: as long as one thread connects, whatever the
\* requests and the callbacks do.
FinalizeJoined == life.state # "terminated"

\* Connect, the destructor: the lock excludes, and callbacks and the closing
\* thread run within the life of the handle and of the wrapper.
HandlesOK == ZkTypeOK /\ NoEarlyCallback /\ NothingAfterDestructor /\ FinalizeJoined

\* "finish unfinished finalize thread to avoid dead lock": a Connect holds
\* the write lock and waits for finalize_thread_mutex_; its owner waits for
\* the finalize thread, that one for a callback, and the callback for the lock.
NoFinalizeDeadlock ==
  ~ \E t, u \in ZkCallers :
      /\ zhandle_lock_.writer = t /\ user[t].pc = "finalize"
      /\ finalize_thread_mutex_ = u /\ user[u].pc = "join"
      /\ finalize_thread_.pc = "close"
      /\ client[finalize_thread_.zhandle].phase = "joining"
      /\ client[finalize_thread_.zhandle].thread = "guard"
=============================================================================

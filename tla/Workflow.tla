------------------------------ MODULE Workflow ------------------------------
(***************************************************************************)
(* The execution engine of orc: orc/framework/workflow.cc (Run, SetupCtx,  *)
(* ResetCtx, RunInner), context.cc (the per-request context and its async  *)
(* hand-off), pool_session_factory.h, orc/handler/rpc_handler.cc and       *)
(* orc/com/rpc_client/rpc_client.cc (the calls a handler waits for).       *)
(*                                                                         *)
(* A request takes a session from the pool and walks an execution graph.   *)
(* A worker runs one handler after another until an rpc handler has sent   *)
(* its calls.  From then on two threads meet at Context::IsAsync: the      *)
(* worker that sent the calls and the worker that takes the task queued by *)
(* the last response.  IsAsync lets the first of them stop and the second  *)
(* go on, by decrementing async_counter_.                                  *)
(*                                                                         *)
(* The pool's queues are one bounded queue here; a task is the request or  *)
(* the session it will run.  Responses arrive on threads outside the pool, *)
(* together called Net.  rpc completion is external: every call ends       *)
(* exactly once, with success or failure.  A request that arrives on a     *)
(* pool thread is not modelled: servers call Run from their own threads.   *)
(*                                                                         *)
(* Resetting a context that another thread is about to use, or resetting   *)
(* it twice, is undefined behaviour (a data race that ends in a null node, *)
(* or a closure deleted twice): the model records it in crashed and stops. *)
(***************************************************************************)
EXTENDS Integers, Sequences, FiniteSets, SequencesExt

CONSTANTS
  Requests, Sessions, Workers,
  Net,                  \* the threads outside the pool
  GraphNodes, RpcNodes, \* nodes of the graph, and those whose handler is rpc
  Entry, EndNode, NoNode,
  Successors,           \* Successors[n]: true_next and false_next of node n
  MaxCalls,             \* most calls one rpc handler sends
  QueueSize,            \* capacity of the pool's queue
  TlsSize,              \* tls_size_: sessions a thread keeps for itself
  None                  \* no session, no closure

ASSUME WorkflowAssumption ==
  /\ RpcNodes \subseteq GraphNodes
  /\ Entry \in GraphNodes
  /\ EndNode \notin GraphNodes /\ NoNode \notin GraphNodes \cup {EndNode}
  /\ Successors \in [GraphNodes -> SUBSET (GraphNodes \cup {EndNode})]
  /\ \A n \in GraphNodes : Successors[n] # {}
  /\ MaxCalls \in Nat \ {0} /\ QueueSize \in Nat \ {0} /\ TlsSize \in Nat \ {0}
  /\ Net \notin Workers
  /\ None \notin Requests \cup Sessions
  /\ Requests \cap Sessions = {}

VARIABLES
  queue,          \* the thread pool's tasks: requests and sessions
  done,           \* request -> how often its closure was run
  pending,        \* requests that have not arrived yet
  ctx,            \* session -> its Context, the closure and the barrier
  sessions_,      \* the global part of the session pool
  tls_sessions_,  \* thread -> its part of the session pool
  worker,         \* worker -> where it is, in which session, calls to send
  crashed         \* undefined behaviour has happened

vars == <<queue, done, pending, ctx, sessions_, tls_sessions_, worker, crashed>>

Threads == Workers \cup {Net}

Idle == [pc |-> "idle", session |-> None, calls |-> 0]

At(pc, s) == [pc |-> pc, session |-> s, calls |-> 0]

-----------------------------------------------------------------------------

\* Context::StepReset.
StepReset(c) == [c EXCEPT !.is_async = FALSE, !.async_state = "Before",
                          !.async_counter = 0]

\* Context::NextStep: one of the two successors becomes the node.
NextStep(c, next) == StepReset([c EXCEPT !.node = next])

\* Slip: no thread is told to stop.
SetAsyncNoStop(c) == [c EXCEPT !.is_async = TRUE, !.async_state = "Before",
                               !.async_counter = 0]

\* Slip: both threads are told to stop.
SetAsyncBothStop(c) == [c EXCEPT !.is_async = TRUE, !.async_state = "Before",
                                 !.async_counter = 2]

\* Context::SetAsync(true).
SetAsync(c) == [c EXCEPT !.is_async = TRUE, !.async_state = "Before",
                         !.async_counter = 1]

\* Context::IsAsync, its answer and its effect.
IsAsync(c) == c.is_async /\ c.async_counter > 0
AfterIsAsync(c) == IF c.is_async THEN [c EXCEPT !.async_counter = @ - 1] ELSE c

\* BarrierClosure::Run calls back when the last call has ended.
BarrierOpens(times) == times = 0

-----------------------------------------------------------------------------
\* PoolSessionFactory::Acquire by thread t yields a member of this set, or
\* null when it is empty.
Acquirable(t) == IF tls_sessions_[t] # {} THEN tls_sessions_[t] ELSE sessions_

\* Slip: the session is handed out and stays in the pool.
TakeNothing(t, s) == UNCHANGED <<sessions_, tls_sessions_>>

TakeFromPool(t, s) ==
  IF tls_sessions_[t] # {}
    THEN /\ tls_sessions_' = [tls_sessions_ EXCEPT ![t] = @ \ {s}]
         /\ UNCHANGED sessions_
    ELSE /\ sessions_' = sessions_ \ {s}
         /\ UNCHANGED tls_sessions_

\* PoolSessionFactory::Release by thread t.
Release(t, s) ==
  IF Cardinality(tls_sessions_[t]) < TlsSize
    THEN /\ tls_sessions_' = [tls_sessions_ EXCEPT ![t] = @ \cup {s}]
         /\ UNCHANGED sessions_
    ELSE /\ sessions_' = sessions_ \cup {s}
         /\ UNCHANGED tls_sessions_

\* Somebody other than thread t will still use c, the context of s.
InUse(s, t, c) ==
  \/ \E w \in Workers \ {t} : worker[w].session = s /\ worker[w].pc \in {"loop", "step", "invoke"}
  \/ s \in Range(queue)
  \/ c.in_flight > 0

\* Workflow::ResetCtx by thread t: answer the request, clear the context and
\* give the session back.
ResetCtx(t, s, c) ==
  LET r == c.service_closure
  IN  /\ done' = [done EXCEPT ![r] = @ + 1]
      /\ crashed' = (done[r] > 0 \/ InUse(s, t, c))
      /\ ctx' = [ctx EXCEPT ![s] = StepReset([c EXCEPT !.node = NoNode])]
      /\ Release(t, s)

-----------------------------------------------------------------------------
\* Workflow::Run(closure) on a server thread, and a full queue.
Arrive(r) ==
  /\ ~crashed
  /\ r \in pending
  /\ Len(queue) < QueueSize
  /\ queue' = Append(queue, r)
  /\ pending' = pending \ {r}
  /\ UNCHANGED <<done, ctx, sessions_, tls_sessions_, worker, crashed>>

ArriveQueueFull(r) ==
  /\ ~crashed
  /\ r \in pending
  /\ Len(queue) >= QueueSize
  /\ done' = [done EXCEPT ![r] = @ + 1]
  /\ pending' = pending \ {r}
  /\ UNCHANGED <<queue, ctx, sessions_, tls_sessions_, worker, crashed>>

\* A worker takes the first task, here the request r, and runs SetupCtx.
TakesRequest(w, r) ==
  /\ ~crashed
  /\ worker[w] = Idle
  /\ queue # <<>> /\ Head(queue) = r
  /\ queue' = Tail(queue)

NoSession(w, r) ==
  /\ TakesRequest(w, r)
  /\ Acquirable(w) = {}
  /\ done' = [done EXCEPT ![r] = @ + 1]
  /\ UNCHANGED <<pending, ctx, sessions_, tls_sessions_, worker, crashed>>

\* Session Init fails or the router names no known graph: the session goes
\* back to where it was taken from, or into the thread's own part.
SetupFails(w, r) ==
  /\ TakesRequest(w, r)
  /\ \E s \in Acquirable(w) :
       /\ ctx' = [ctx EXCEPT ![s].service_closure = r]
       /\ IF tls_sessions_[w] # {}
            THEN UNCHANGED <<sessions_, tls_sessions_>>
            ELSE /\ tls_sessions_' = [tls_sessions_ EXCEPT ![w] = {s}]
                 /\ sessions_' = sessions_ \ {s}
  /\ done' = [done EXCEPT ![r] = @ + 1]
  /\ UNCHANGED <<pending, worker, crashed>>

SetupCtx(w, r) ==
  /\ TakesRequest(w, r)
  /\ \E s \in Acquirable(w) :
       /\ TakeFromPool(w, s)
       /\ ctx' = [ctx EXCEPT ![s] =
                    StepReset([@ EXCEPT !.node = Entry, !.service_closure = r])]
       /\ worker' = [worker EXCEPT ![w] = At("loop", s)]
  /\ UNCHANGED <<done, pending, crashed>>

\* A worker takes the task queued by a context's last response.
TakeContext(w, s) ==
  /\ ~crashed
  /\ worker[w] = Idle
  /\ queue # <<>> /\ Head(queue) = s
  /\ queue' = Tail(queue)
  /\ worker' = [worker EXCEPT ![w] = At("loop", s)]
  /\ UNCHANGED <<done, pending, ctx, sessions_, tls_sessions_, crashed>>

\* The condition of RunInner's loop.
LoopTest(w, s) ==
  /\ ~crashed
  /\ worker[w] = At("loop", s)
  /\ ctx' = [ctx EXCEPT ![s] = AfterIsAsync(@)]
  /\ worker' = [worker EXCEPT ![w] =
                  At(IF IsAsync(ctx[s]) \/ ctx[s].node = EndNode
                       THEN "check" ELSE "step", s)]
  /\ UNCHANGED <<queue, done, pending, sessions_, tls_sessions_, crashed>>

\* Context::Step in a node whose handler ends within the step: a sync
\* handler, or an rpc handler that has nothing to call.
StepAtOnce(w, s) ==
  /\ ~crashed
  /\ worker[w] = At("step", s)
  /\ ctx[s].node \in GraphNodes
  /\ ctx[s].node \in RpcNodes => ctx[s].async_state = "Before"
  /\ \E next \in Successors[ctx[s].node] : ctx' = [ctx EXCEPT ![s] = NextStep(@, next)]
  /\ worker' = [worker EXCEPT ![w] = At("loop", s)]
  /\ UNCHANGED <<queue, done, pending, sessions_, tls_sessions_, crashed>>

\* RpcInvoker::Invoke up to its first call: a barrier over all the calls.
Invoke(w, s) ==
  /\ ~crashed
  /\ worker[w] = At("step", s)
  /\ ctx[s].node \in RpcNodes
  /\ ctx[s].async_state = "Before"
  /\ \E n \in 1..MaxCalls :
       /\ ctx' = [ctx EXCEPT ![s] = SetAsync([@ EXCEPT !.times_ = n])]
       /\ worker' = [worker EXCEPT ![w] = [pc |-> "invoke", session |-> s, calls |-> n]]
  /\ UNCHANGED <<queue, done, pending, sessions_, tls_sessions_, crashed>>

\* The worker once it has made one of the calls it has to make.
CallMade(w) ==
  LET left == worker[w].calls - 1
  IN  worker' = [worker EXCEPT ![w] =
                   IF left = 0 THEN At("loop", @.session) ELSE [@ EXCEPT !.calls = left]]

\* RpcClient::CallMethod sends the call; its response comes back later.
CallMethod(w, s) ==
  /\ ~crashed
  /\ worker[w].pc = "invoke" /\ worker[w].session = s
  /\ ctx' = [ctx EXCEPT ![s].in_flight = @ + 1]
  /\ CallMade(w)
  /\ UNCHANGED <<queue, done, pending, sessions_, tls_sessions_, crashed>>

\* RpcClient::CallMethod has no channel and runs the closure itself.  When it
\* is the last one, Callback runs RunInner on this worker: its IsAsync takes
\* the count (InlineCallbackStops), so it returns to CallMethod at once.
CallMethodNoChannel(w, s) ==
  /\ ~crashed
  /\ worker[w].pc = "invoke" /\ worker[w].session = s
  /\ LET ended == [ctx[s] EXCEPT !.times_ = @ - 1]
     IN  ctx' = [ctx EXCEPT ![s] =
                   IF BarrierOpens(ended.times_)
                     THEN AfterIsAsync([ended EXCEPT !.async_state = "After"])
                     ELSE ended]
  /\ CallMade(w)
  /\ UNCHANGED <<queue, done, pending, sessions_, tls_sessions_, crashed>>

\* Context::Step in a node whose calls have all ended: ProcessResponse, then
\* NextStep.
StepAfter(w, s) ==
  /\ ~crashed
  /\ worker[w] = At("step", s)
  /\ ctx[s].node \in RpcNodes
  /\ ctx[s].async_state # "Before"
  /\ \E next \in Successors[ctx[s].node] :
       ctx' = [ctx EXCEPT ![s] = NextStep([@ EXCEPT !.async_state = "Finish"], next)]
  /\ worker' = [worker EXCEPT ![w] = At("loop", s)]
  /\ UNCHANGED <<queue, done, pending, sessions_, tls_sessions_, crashed>>

\* RunInner after its loop reads IsDone again, whichever way the loop ended.
CheckDone(w, s) ==
  /\ ~crashed
  /\ worker[w] = At("check", s)
  /\ worker' = [worker EXCEPT ![w] =
                  IF ctx[s].node = EndNode THEN At("reset", s) ELSE Idle]
  /\ UNCHANGED <<queue, done, pending, ctx, sessions_, tls_sessions_, crashed>>

ResetDone(w, s) ==
  /\ ~crashed
  /\ worker[w] = At("reset", s)
  /\ ResetCtx(w, s, ctx[s])
  /\ worker' = [worker EXCEPT ![w] = Idle]
  /\ UNCHANGED <<queue, pending>>

-----------------------------------------------------------------------------
\* RpcClosure::Run and BarrierClosure::Run on a Net thread; the last one runs
\* Context::Callback, which queues the context, or resets it when the queue
\* is full.
CallReturns(s) ==
  /\ ~crashed
  /\ ctx[s].in_flight > 0
  /\ ~BarrierOpens(ctx[s].times_ - 1)
  /\ ctx' = [ctx EXCEPT ![s].in_flight = @ - 1, ![s].times_ = @ - 1]
  /\ UNCHANGED <<queue, done, pending, sessions_, tls_sessions_, worker, crashed>>

LastCallReturns(s) ==
  /\ ~crashed
  /\ ctx[s].in_flight > 0
  /\ BarrierOpens(ctx[s].times_ - 1)
  /\ Len(queue) < QueueSize
  /\ ctx' = [ctx EXCEPT ![s].in_flight = @ - 1, ![s].times_ = @ - 1,
                        ![s].async_state = "After"]
  /\ queue' = Append(queue, s)
  /\ UNCHANGED <<done, pending, sessions_, tls_sessions_, worker, crashed>>

\* A full queue: the Net thread itself resets the context.
LastCallReturnsQueueFull(s) ==
  /\ ~crashed
  /\ ctx[s].in_flight > 0
  /\ BarrierOpens(ctx[s].times_ - 1)
  /\ Len(queue) >= QueueSize
  /\ ResetCtx(Net, s, [ctx[s] EXCEPT !.in_flight = @ - 1, !.times_ = @ - 1])
  /\ UNCHANGED <<queue, pending, worker>>

-----------------------------------------------------------------------------
FreshContext == [node |-> EndNode, is_async |-> FALSE, async_state |-> "Before",
                 async_counter |-> 0, service_closure |-> None,
                 times_ |-> 0, in_flight |-> 0]

Init ==
  /\ queue = <<>>
  /\ done = [r \in Requests |-> 0]
  /\ pending = Requests
  /\ ctx = [s \in Sessions |-> FreshContext]
  /\ sessions_ = Sessions
  /\ tls_sessions_ = [t \in Threads |-> {}]
  /\ worker = [w \in Workers |-> Idle]
  /\ crashed = FALSE

Server(r) == Arrive(r) \/ ArriveQueueFull(r)

Work(w) ==
  \/ \E r \in Requests : NoSession(w, r) \/ SetupFails(w, r) \/ SetupCtx(w, r)
  \/ \E s \in Sessions :
       \/ TakeContext(w, s) \/ LoopTest(w, s) \/ StepAtOnce(w, s)
       \/ Invoke(w, s) \/ CallMethod(w, s) \/ CallMethodNoChannel(w, s)
       \/ StepAfter(w, s)
       \/ CheckDone(w, s) \/ ResetDone(w, s)

Respond(s) == CallReturns(s) \/ LastCallReturns(s) \/ LastCallReturnsQueueFull(s)

\* Nothing is left to do, or the process is gone.
Stopped ==
  /\ \/ crashed
     \/ /\ pending = {} /\ queue = <<>>
        /\ \A w \in Workers : worker[w] = Idle
        /\ \A s \in Sessions : ctx[s].in_flight = 0
  /\ UNCHANGED vars

Next ==
  \/ \E r \in Requests : Server(r)
  \/ \E w \in Workers : Work(w)
  \/ \E s \in Sessions : Respond(s)
  \/ Stopped

\* The operating system runs every worker that has something to do, and every
\* rpc ends (brpc bounds each by leader_request_timeout).
Fairness ==
  /\ \A w \in Workers : WF_vars(Work(w))
  /\ \A s \in Sessions : WF_vars(Respond(s))

Spec == Init /\ [][Next]_vars /\ Fairness

-----------------------------------------------------------------------------
Contexts ==
  [node : GraphNodes \cup {EndNode, NoNode}, is_async : BOOLEAN,
   async_state : {"Before", "After", "Finish"}, async_counter : -1..1,
   service_closure : Requests \cup {None}, times_ : 0..MaxCalls, in_flight : 0..MaxCalls]

\* Every variable has its type; in particular async_counter_ never leaves
\* -1..1 and no more calls are in flight than one handler sends.
TypeOK ==
  /\ queue \in Seq(Requests \cup Sessions) /\ Len(queue) <= QueueSize
  /\ done \in [Requests -> 0..2]
  /\ pending \subseteq Requests
  /\ ctx \in [Sessions -> Contexts]
  /\ sessions_ \subseteq Sessions
  /\ tls_sessions_ \in [Threads -> SUBSET Sessions]
  /\ worker \in [Workers ->
       [pc : {"idle", "loop", "step", "invoke", "check", "reset"},
        session : Sessions \cup {None}, calls : 0..MaxCalls]]
  /\ crashed \in BOOLEAN

\* The async hand-off lets one thread through: when a worker runs a handler,
\* no other worker is anywhere in that context's loop, no task for it is
\* queued, and none of its calls is in flight.
ExclusiveStep ==
  ~crashed =>
    \A w \in Workers : worker[w].pc = "step" => ~InUse(worker[w].session, w, ctx[worker[w].session])

\* "Never reach here" in RpcHandlerBase::BaseRun: an rpc handler is never run
\* in the state Finish, whatever the node before it left behind.
ImpossiblePath ==
  \A w \in Workers :
    worker[w].pc = "step" /\ ctx[worker[w].session].node \in RpcNodes
      => ctx[worker[w].session].async_state # "Finish"

\* While a worker is sending calls, the count the callback will take is still
\* there, so a callback run inline by CallMethod never runs a handler in the
\* middle of Invoke.
InlineCallbackStops ==
  ~crashed =>
    \A w \in Workers :
      worker[w].pc = "invoke" => ctx[worker[w].session].async_counter = 1

\* IsAsync, RpcHandlerBase: a context has one walker, in whatever order the
\* sender of the calls and their callback come to the hand-off.
HandOffOK == TypeOK /\ ExclusiveStep /\ ImpossiblePath /\ InlineCallbackStops

\* A session in the pool is referenced by nobody: it is in one place, no task,
\* no call and no running worker holds it, and no request is waiting for it.
NoUseAfterRelease ==
  ~crashed =>
    \A s \in Sessions :
      LET homes == {t \in Threads : s \in tls_sessions_[t]}
      IN  /\ Cardinality(homes) <= 1
          /\ homes # {} => s \notin sessions_
          /\ homes # {} \/ s \in sessions_ => ~InUse(s, Net, ctx[s])
          /\ homes = {} /\ s \notin sessions_ => done[ctx[s].service_closure] = 0

\* Every request that arrived is answered, unless the process died.
Answered ==
  \A r \in Requests : r \notin pending ~> (done[r] > 0 \/ crashed)

\* closure.h: Done deletes the closure, so a request is answered at most once.
AnsweredOnce == \A r \in Requests : done[r] <= 1
=============================================================================

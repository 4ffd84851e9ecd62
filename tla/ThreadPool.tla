----------------------------- MODULE ThreadPool -----------------------------
(***************************************************************************)
(* orc/util/thread_pool.cc: the workers, Schedule and the destructor of    *)
(* the pool that runs every request of orc.                                *)
(*                                                                         *)
(* The queues are the bounded first-in first-out queues that TaskQueue     *)
(* implements; a blocking Push or Pop is an action that waits for room or  *)
(* for a task.  Worker w serves queue w % QueueNum and leaves its loop     *)
(* when it sees stop_ after a task.  The destructor pushes tasks that set  *)
(* stop_ into one queue after the other and then joins the workers.  The   *)
(* owner schedules nothing once it has begun to destroy the pool.          *)
(***************************************************************************)
EXTENDS Naturals, Sequences

CONSTANTS
  Tasks,
  Stop,        \* the destructor's task
  WorkerNum, QueueNum, PoolQueueSize

\* thread_pool.h: worker_num = queue_num * n where n >= 1.
ASSUME ThreadPoolAssumption ==
  /\ Stop \notin Tasks
  /\ (Tasks \cup {Stop}) \cap {"pop", "test", "exit"} = {}
  /\ QueueNum \in Nat \ {0} /\ PoolQueueSize \in Nat \ {0}
  /\ WorkerNum \in Nat /\ \E n \in 1..WorkerNum : WorkerNum = QueueNum * n

VARIABLES
  queues_,     \* queue -> its tasks
  pool_worker, \* worker -> the task it runs, or "pop", "test" or "exit"
  stop_,
  dtor,        \* the destructor: its place, its queue, the pushes left there
  accepted,    \* tasks that Schedule has queued
  rejected,    \* tasks that Schedule has given back
  executed     \* tasks that have been run

poolVars == <<queues_, pool_worker, stop_, dtor, accepted, rejected, executed>>

PoolWorkers == 0..WorkerNum-1
Queues == 0..QueueNum-1

QueueOf(w) == w % QueueNum

\* Slip: one stop task per worker of the queue, less one.
StopsPerQueueShort == WorkerNum \div QueueNum - 1

\* Stop tasks the destructor pushes into each queue.
StopsPerQueue == (WorkerNum \div QueueNum) + 1

-----------------------------------------------------------------------------

\* Push and TryPush find a free slot.
HasRoom(q) == Len(queues_[q]) < PoolQueueSize

\* Schedule tries a random queue.
Schedule(task, q) ==
  /\ dtor.pc = "none"
  /\ task \notin accepted \cup rejected
  /\ IF HasRoom(q)
       THEN /\ queues_' = [queues_ EXCEPT ![q] = Append(@, task)]
            /\ accepted' = accepted \cup {task}
            /\ UNCHANGED rejected
       ELSE /\ rejected' = rejected \cup {task}
            /\ UNCHANGED <<queues_, accepted>>
  /\ UNCHANGED <<pool_worker, stop_, dtor, executed>>

-----------------------------------------------------------------------------
\* One turn of Loop: Pop, call the task, look at stop_.
Pop(w) ==
  /\ pool_worker[w] = "pop"
  /\ queues_[QueueOf(w)] # <<>>
  /\ pool_worker' = [pool_worker EXCEPT ![w] = Head(queues_[QueueOf(w)])]
  /\ queues_' = [queues_ EXCEPT ![QueueOf(w)] = Tail(@)]
  /\ UNCHANGED <<stop_, dtor, accepted, rejected, executed>>

\* Slip: stop_ is tested between Pop and the call.
CallTaskUnlessStopped(w) ==
  /\ pool_worker[w] \in Tasks
  /\ executed' = IF stop_ THEN executed ELSE executed \cup {pool_worker[w]}
  /\ pool_worker' = [pool_worker EXCEPT ![w] = IF stop_ THEN "exit" ELSE "pop"]
  /\ UNCHANGED <<queues_, stop_, dtor, accepted, rejected>>

CallTask(w) ==
  /\ pool_worker[w] \in Tasks
  /\ executed' = executed \cup {pool_worker[w]}
  /\ pool_worker' = [pool_worker EXCEPT ![w] = "test"]
  /\ UNCHANGED <<queues_, stop_, dtor, accepted, rejected>>

CallStop(w) ==
  /\ pool_worker[w] = Stop
  /\ stop_' = TRUE
  /\ pool_worker' = [pool_worker EXCEPT ![w] = "test"]
  /\ UNCHANGED <<queues_, dtor, accepted, rejected, executed>>

TestStop(w) ==
  /\ pool_worker[w] = "test"
  /\ pool_worker' = [pool_worker EXCEPT ![w] = IF stop_ THEN "exit" ELSE "pop"]
  /\ UNCHANGED <<queues_, stop_, dtor, accepted, rejected, executed>>

-----------------------------------------------------------------------------
Destroy ==
  /\ dtor.pc = "none"
  /\ dtor' = [pc |-> "push", queue |-> 0, left |-> StopsPerQueue]
  /\ UNCHANGED <<queues_, pool_worker, stop_, accepted, rejected, executed>>

PushStop ==
  /\ dtor.pc = "push"
  /\ HasRoom(dtor.queue)
  /\ queues_' = [queues_ EXCEPT ![dtor.queue] = Append(@, Stop)]
  /\ dtor' = IF dtor.left > 1 THEN [dtor EXCEPT !.left = @ - 1]
             ELSE IF dtor.queue + 1 < QueueNum
                    THEN [pc |-> "push", queue |-> dtor.queue + 1, left |-> StopsPerQueue]
                    ELSE [pc |-> "join", queue |-> 0, left |-> 0]
  /\ UNCHANGED <<pool_worker, stop_, accepted, rejected, executed>>

Join ==
  /\ dtor.pc = "join"
  /\ \A w \in PoolWorkers : pool_worker[w] = "exit"
  /\ dtor' = [dtor EXCEPT !.pc = "done"]
  /\ UNCHANGED <<queues_, pool_worker, stop_, accepted, rejected, executed>>

-----------------------------------------------------------------------------
PoolInit ==
  /\ queues_ = [q \in Queues |-> <<>>]
  /\ pool_worker = [w \in PoolWorkers |-> "pop"]
  /\ stop_ = FALSE
  /\ dtor = [pc |-> "none", queue |-> 0, left |-> 0]
  /\ accepted = {} /\ rejected = {} /\ executed = {}

Loop(w) == Pop(w) \/ CallTask(w) \/ CallStop(w) \/ TestStop(w)

Destructor == PushStop \/ Join

PoolNext ==
  \/ \E task \in Tasks, q \in Queues : Schedule(task, q)
  \/ \E w \in PoolWorkers : Loop(w)
  \/ Destroy \/ Destructor

\* Tasks end, and the operating system runs every thread that can go on.
PoolFairness == (\A w \in PoolWorkers : WF_poolVars(Loop(w))) /\ WF_poolVars(Destructor)

PoolSpec == PoolInit /\ [][PoolNext]_poolVars /\ PoolFairness

-----------------------------------------------------------------------------
\* Every variable has its type, and only tasks that Schedule accepted are run.
PoolTypeOK ==
  /\ queues_ \in [Queues -> Seq(Tasks \cup {Stop})]
  /\ \A q \in Queues : Len(queues_[q]) <= PoolQueueSize
  /\ pool_worker \in [PoolWorkers -> Tasks \cup {Stop, "pop", "test", "exit"}]
  /\ stop_ \in BOOLEAN
  /\ dtor \in [pc : {"none", "push", "join", "done"}, queue : Queues,
               left : 0..StopsPerQueue]
  /\ accepted \subseteq Tasks /\ rejected \subseteq Tasks
  /\ executed \subseteq accepted

\* Once the destructor has returned, every task that Schedule accepted has
\* been run: the workers drain the queue before they stop.
AcceptedTasksRun == dtor.pc = "done" => accepted \subseteq executed

\* The one queue has a slot for each worker.  thread_pool.h does not ask for
\* it: a worker that is in a task when stop_ is set leaves without taking a
\* stop task, and of the WorkerNum + 1 pushed only one is sure to be taken.
RoomForStops == QueueNum = 1 /\ PoolQueueSize >= WorkerNum

\* With that room the destructor never waits for nobody: in Push there is a
\* free slot or a worker that has not left, and while it joins, a worker that
\* waits in Pop has a task to take.
DestructorNotStuck ==
  RoomForStops =>
    /\ dtor.pc = "push" =>
         HasRoom(dtor.queue)
           \/ \E w \in PoolWorkers : QueueOf(w) = dtor.queue /\ pool_worker[w] # "exit"
    /\ dtor.pc = "join" =>
         \A w \in PoolWorkers : pool_worker[w] = "pop" => queues_[QueueOf(w)] # <<>>

\* Schedule, Loop, ~ThreadPool: only accepted tasks are run, all of them are,
\* and nothing the destructor waits for has gone.
PoolOK == PoolTypeOK /\ AcceptedTasksRun /\ DestructorNotStuck

\* The destructor returns: it neither blocks in Push nor waits for a worker
\* that never sees a stop task.
DestructorReturns == dtor.pc = "push" ~> dtor.pc = "done"

\* ~ThreadPool returns when there is one queue with a slot for each worker.
\* With fewer slots, or with two queues, it need not.
DestructorReturnsWithRoom == RoomForStops => DestructorReturns
=============================================================================

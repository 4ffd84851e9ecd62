----------------------------- MODULE TaskQueue ------------------------------
(***************************************************************************)
(* ThreadPool::TaskQueue of orc/util/thread_pool.cc: a ring buffer under   *)
(* one mutex with two condition variables.                                 *)
(*                                                                         *)
(* Every operation is one critical section, which a blocking operation     *)
(* repeats after each wait, and a signal sent after the mutex is released; *)
(* between the two any other thread may run.  The pointers front_ and      *)
(* back_ are offsets from data_, and end_ is the offset Capacity.  Moving  *)
(* a task out of a slot leaves an empty function there.                    *)
(*                                                                         *)
(* A waiting thread may also wake up without a signal, as POSIX allows.    *)
(***************************************************************************)
EXTENDS Naturals, Sequences, FiniteSets

CONSTANTS
  Tasks,
  Threads,   \* the threads that use the queue
  Empty,     \* the empty function
  Capacity   \* number of slots

ASSUME TaskQueueAssumption ==
  /\ Capacity \in Nat \ {0}
  /\ Empty \notin Tasks
  /\ IsFiniteSet(Threads)

VARIABLES
  data_, front_, back_, size_,
  pc,    \* thread -> what it does; "full_cv_" and "empty_cv_" are its waits
  hand   \* thread -> the task it is to push or has popped

vars == <<data_, front_, back_, size_, pc, hand>>

Slots == 0..Capacity-1

Waiting(cv) == {t \in Threads : pc[t] = cv}

-----------------------------------------------------------------------------
\* Slip: the pointer runs on to the end of the buffer.
AdvancedLate(p) == IF p = Capacity THEN 0 ELSE p + 1

\* A pointer after "++", set back to data_ when it has reached end_.
Advanced(p) == IF p + 1 = Capacity THEN 0 ELSE p + 1

Full == size_ >= Capacity

\* Slip: only the push into an empty queue signals.
PutBackSignalsFirst(t) ==
  /\ data_' = [data_ EXCEPT ![back_] = hand[t]]
  /\ back_' = Advanced(back_)
  /\ size_' = size_ + 1
  /\ hand' = [hand EXCEPT ![t] = Empty]
  /\ pc' = [pc EXCEPT ![t] = IF size_ = 0 THEN "signal_empty_cv_" ELSE "idle"]
  /\ UNCHANGED front_

\* The critical section of Push and TryPush when there is room.
PutBack(t) ==
  /\ data_' = [data_ EXCEPT ![back_] = hand[t]]
  /\ back_' = Advanced(back_)
  /\ size_' = size_ + 1
  /\ hand' = [hand EXCEPT ![t] = Empty]
  /\ pc' = [pc EXCEPT ![t] = "signal_empty_cv_"]
  /\ UNCHANGED front_

\* Slip: the pointer is advanced before the task is read.
TakeFrontAdvanced(t) ==
  /\ hand' = [hand EXCEPT ![t] = data_[Advanced(front_)]]
  /\ data_' = [data_ EXCEPT ![Advanced(front_)] = Empty]
  /\ front_' = Advanced(front_)
  /\ size_' = size_ - 1
  /\ pc' = [pc EXCEPT ![t] = "signal_full_cv_"]
  /\ UNCHANGED back_

\* The critical section of Pop and TryPop when there is a task.
TakeFront(t) ==
  /\ hand' = [hand EXCEPT ![t] = data_[front_]]
  /\ data_' = [data_ EXCEPT ![front_] = Empty]
  /\ front_' = Advanced(front_)
  /\ size_' = size_ - 1
  /\ pc' = [pc EXCEPT ![t] = "signal_full_cv_"]
  /\ UNCHANGED back_

-----------------------------------------------------------------------------
\* A thread makes a task, and gets rid of one it has run or got back.
MakeTask(t, task) ==
  /\ pc[t] = "idle" /\ hand[t] = Empty
  /\ hand' = [hand EXCEPT ![t] = task]
  /\ UNCHANGED <<data_, front_, back_, size_, pc>>

RunTask(t) ==
  /\ pc[t] = "idle" /\ hand[t] # Empty
  /\ hand' = [hand EXCEPT ![t] = Empty]
  /\ UNCHANGED <<data_, front_, back_, size_, pc>>

\* The blocking calls begin.
Push(t) ==
  /\ pc[t] = "idle" /\ hand[t] # Empty
  /\ pc' = [pc EXCEPT ![t] = "push"]
  /\ UNCHANGED <<data_, front_, back_, size_, hand>>

Pop(t) ==
  /\ pc[t] = "idle" /\ hand[t] = Empty
  /\ pc' = [pc EXCEPT ![t] = "pop"]
  /\ UNCHANGED <<data_, front_, back_, size_, hand>>

\* Their critical sections, on the first try and after every wait.
PushWaits(t) ==
  /\ pc[t] = "push" /\ Full
  /\ pc' = [pc EXCEPT ![t] = "full_cv_"]
  /\ UNCHANGED <<data_, front_, back_, size_, hand>>

PushDone(t) == pc[t] = "push" /\ ~Full /\ PutBack(t)

PopWaits(t) ==
  /\ pc[t] = "pop" /\ size_ = 0
  /\ pc' = [pc EXCEPT ![t] = "empty_cv_"]
  /\ UNCHANGED <<data_, front_, back_, size_, hand>>

PopDone(t) == pc[t] = "pop" /\ size_ # 0 /\ TakeFront(t)

\* The calls that do not block.  A full queue gives the task back and an
\* empty one returns an empty task: the caller keeps what it had.
TryPush(t) == pc[t] = "idle" /\ hand[t] # Empty /\ ~Full /\ PutBack(t)

TryPop(t) == pc[t] = "idle" /\ hand[t] = Empty /\ size_ # 0 /\ TakeFront(t)

\* pthread_cond_signal wakes one of the threads that wait on cv, if any; they
\* go on at resume.
Signal(t, cv, resume) ==
  /\ pc[t] = (IF cv = "full_cv_" THEN "signal_full_cv_" ELSE "signal_empty_cv_")
  /\ IF Waiting(cv) = {}
       THEN pc' = [pc EXCEPT ![t] = "idle"]
       ELSE \E u \in Waiting(cv) :
              pc' = [pc EXCEPT ![t] = "idle", ![u] = resume]
  /\ UNCHANGED <<data_, front_, back_, size_, hand>>

SpuriousWakeup(t) ==
  /\ pc[t] \in {"full_cv_", "empty_cv_"}
  /\ pc' = [pc EXCEPT ![t] = IF @ = "full_cv_" THEN "push" ELSE "pop"]
  /\ UNCHANGED <<data_, front_, back_, size_, hand>>

-----------------------------------------------------------------------------
Init ==
  /\ data_ = [i \in Slots |-> Empty]
  /\ front_ = 0
  /\ back_ = 0
  /\ size_ = 0
  /\ pc = [t \in Threads |-> "idle"]
  /\ hand = [t \in Threads |-> Empty]

Step(t) ==
  \/ \E task \in Tasks : MakeTask(t, task)
  \/ RunTask(t)
  \/ Push(t) \/ PushWaits(t) \/ PushDone(t) \/ TryPush(t)
  \/ Pop(t) \/ PopWaits(t) \/ PopDone(t) \/ TryPop(t)
  \/ Signal(t, "empty_cv_", "pop")
  \/ Signal(t, "full_cv_", "push")
  \/ SpuriousWakeup(t)

Next == \E t \in Threads : Step(t)

Spec == Init /\ [][Next]_vars

-----------------------------------------------------------------------------
\* The offsets stay inside the buffer and the count inside the capacity.
TypeOK ==
  /\ data_ \in [Slots -> Tasks \cup {Empty}]
  /\ front_ \in Slots /\ back_ \in Slots
  /\ size_ \in 0..Capacity
  /\ pc \in [Threads -> {"idle", "push", "pop", "full_cv_", "empty_cv_",
                         "signal_full_cv_", "signal_empty_cv_"}]
  /\ hand \in [Threads -> Tasks \cup {Empty}]

\* The slot k places after front_.
Slot(k) == IF front_ + k < Capacity THEN front_ + k ELSE front_ + k - Capacity

\* back_ is size_ slots after front_ (the same slot when the ring is full or
\* empty), and exactly the slots from front_ up to it hold a task: a pop never
\* yields an empty function, which a worker could not call.
RingOK ==
  /\ back_ = Slot(IF size_ = Capacity THEN 0 ELSE size_)
  /\ \A k \in Slots : data_[Slot(k)] # Empty <=> k < size_

\* Tasks are neither lost nor made up on the way: a thread has a task in hand
\* while it pushes and when it comes back from a pop, which a worker then
\* calls without a test, and none while it pops and after it has pushed.
HandOK ==
  \A t \in Threads :
    /\ pc[t] \in {"push", "full_cv_", "signal_full_cv_"} => hand[t] # Empty
    /\ pc[t] \in {"pop", "empty_cv_", "signal_empty_cv_"} => hand[t] = Empty

\* TaskQueue: the ring and the tasks on their way through it are consistent at
\* every step of every thread.
RingInv == TypeOK /\ RingOK /\ HandOK

\* No lost wakeup: while a consumer waits, every queued task has a consumer
\* on its way to it or a producer about to signal one; and likewise for the
\* free slots while a producer waits.  The signals are sent outside of the
\* mutex, and TryPush, TryPop and threads that did not wait compete for what
\* was signalled.
NoLostWakeup ==
  /\ Waiting("empty_cv_") # {} =>
       size_ <= Cardinality(Waiting("pop")) + Cardinality(Waiting("signal_empty_cv_"))
  /\ Waiting("full_cv_") # {} =>
       Capacity - size_ <= Cardinality(Waiting("push")) + Cardinality(Waiting("signal_full_cv_"))

\* The queue's content, oldest first.
Items == [k \in 1..size_ |-> data_[Slot(k - 1)]]

Fifo == INSTANCE BoundedFifo WITH items <- Items

\* The ring buffer implements the first-in first-out queue.
FifoSpec == Fifo!Spec
=============================================================================

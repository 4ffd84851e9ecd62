-------------------------- MODULE ServerCoreProofs --------------------------
(***************************************************************************)
(* The queue of the worker threads, for every capacity and every set of    *)
(* threads: the ring invariant, the absence of lost wakeups, and the       *)
(* refinement of BoundedFifo.  The local cache: CacheOK for any keys,      *)
(* values, times and capacities.  The life of a server process: LifeOK for *)
(* every set of components and every number of requests, pings and runs.   *)
(***************************************************************************)
EXTENDS TaskQueue, LocalCache, ServerLifecycle, FiniteSetTheorems, SequenceTheorems, TLAPS

PCs == {"idle", "push", "pop", "full_cv_", "empty_cv_",
        "signal_full_cv_", "signal_empty_cv_"}

\* What the steps that only move a thread leave alone.
ring == <<data_, front_, back_, size_>>

-----------------------------------------------------------------------------
\* A push keeps the ring well formed: the slot back_ points to is the one
\* after the last task, and it is empty.
LEMMA PutBackRing ==
  ASSUME RingInv, NEW t \in Threads, PutBack(t), ~Full, hand[t] # Empty
  PROVE  RingInv'
<1>. USE TaskQueueAssumption DEF RingInv
<1>1. TypeOK' BY DEF TypeOK, PutBack, Full, Advanced, Slots
<1>2. back_ = Slot(size_) /\ size_ \in Slots
  BY DEF RingOK, TypeOK, Full, Slots
<1>3. back_' = Slot(IF size_ = Capacity THEN 0 ELSE size_)'
  <2>1. front_ \in Nat /\ front_ < Capacity /\ size_ \in Nat /\ size_ < Capacity
    BY DEF TypeOK, Full, Slots
  <2>2. front_' = front_ /\ size_' = size_ + 1 /\ back_' = Advanced(back_)
    BY DEF PutBack
  <2>. QED BY <1>2, <2>1, <2>2 DEF Advanced, Slot
<1>4. ASSUME NEW k \in Slots
      PROVE  data_'[Slot(k)'] # Empty <=> k < size_'
  <2>1. Slot(k)' = Slot(k) /\ Slot(k) \in Slots
    BY DEF TypeOK, PutBack, Slot, Slots
  <2>2. Slot(k) = Slot(size_) => k = size_
    BY <1>2 DEF TypeOK, Slot, Slots
  <2>3. data_'[Slot(k)] = IF k = size_ THEN hand[t] ELSE data_[Slot(k)]
    BY <1>2, <2>1, <2>2 DEF TypeOK, PutBack
  <2>. QED BY <2>1, <2>3, <1>2 DEF TypeOK, RingOK, PutBack, Slots
<1>5. HandOK' BY DEF HandOK, TypeOK, PutBack
<1>6. RingOK' BY <1>3, <1>4 DEF RingOK, Slots
<1>. QED BY <1>1, <1>5, <1>6

\* A pop keeps it well formed, and takes a task, not an empty function.
LEMMA TakeFrontRing ==
  ASSUME RingInv, NEW t \in Threads, TakeFront(t), size_ # 0
  PROVE  RingInv' /\ data_[front_] # Empty
<1>. USE TaskQueueAssumption DEF RingInv
<1>1. TypeOK' BY DEF TypeOK, TakeFront, Advanced, Slots
<1>2. front_ = Slot(0) /\ 0 \in Slots /\ data_[front_] # Empty
  <2>1. front_ = Slot(0) /\ 0 \in Slots /\ 0 < size_
    BY DEF TypeOK, Slot, Slots
  <2>. QED BY <2>1 DEF RingOK
<1>3. back_' = Slot(IF size_ = Capacity THEN 0 ELSE size_)'
  <2>1. front_ \in Nat /\ front_ < Capacity /\ size_ \in Nat /\ size_ <= Capacity
    BY DEF TypeOK, Slots
  <2>2. front_' = Advanced(front_) /\ size_' = size_ - 1 /\ back_' = back_
    BY DEF TakeFront
  <2>. QED BY <2>1, <2>2 DEF RingOK, Advanced, Slot
<1>4. ASSUME NEW k \in Slots
      PROVE  data_'[Slot(k)'] # Empty <=> k < size_'
  <2>. DEFINE j == IF k + 1 = Capacity THEN 0 ELSE k + 1
  <2>1. j \in Slots /\ Slot(k)' = Slot(j) /\ Slot(j) \in Slots
    BY DEF TypeOK, TakeFront, Advanced, Slot, Slots
  <2>2. Slot(j) = front_ <=> j = 0
    BY DEF TypeOK, Slot, Slots
  <2>3. data_'[Slot(j)] = IF j = 0 THEN Empty ELSE data_[Slot(j)]
    BY <2>1, <2>2 DEF TypeOK, TakeFront
  <2>4. data_[Slot(j)] # Empty <=> j < size_
    BY <2>1 DEF RingOK
  <2>. QED BY <2>1, <2>3, <2>4 DEF TypeOK, TakeFront, Slots
<1>5. HandOK' BY <1>2 DEF HandOK, TypeOK, TakeFront
<1>6. RingOK' BY <1>3, <1>4 DEF RingOK, Slots
<1>. QED BY <1>1, <1>2, <1>5, <1>6

\* The ring invariant is inductive.
LEMMA RingStep ==
  ASSUME RingInv, [Next]_vars PROVE RingInv'
<1>. USE DEF RingInv
<1>0. ASSUME UNCHANGED ring, TypeOK', HandOK' PROVE RingInv'
  BY <1>0 DEF ring, RingOK, Slot
<1>1. CASE UNCHANGED vars
  BY <1>1 DEF vars, TypeOK, RingOK, HandOK, Slot
<1>2. ASSUME NEW t \in Threads, Step(t) PROVE RingInv'
  <2>1. ASSUME NEW task \in Tasks, MakeTask(t, task) PROVE RingInv'
    BY <1>0, <2>1 DEF MakeTask, TypeOK, HandOK, ring
  <2>2. CASE RunTask(t)
    BY <1>0, <2>2 DEF RunTask, TypeOK, HandOK, ring
  <2>3. CASE Push(t) \/ Pop(t) \/ PushWaits(t) \/ PopWaits(t)
    BY <1>0, <2>3 DEF Push, Pop, PushWaits, PopWaits, TypeOK, HandOK, ring
  <2>4. CASE PushDone(t) \/ TryPush(t)
    BY <2>4, PutBackRing DEF PushDone, TryPush, HandOK
  <2>5. CASE PopDone(t) \/ TryPop(t)
    BY <2>5, TakeFrontRing DEF PopDone, TryPop
  <2>6. CASE Signal(t, "empty_cv_", "pop")
    BY <1>0, <2>6 DEF Signal, Waiting, TypeOK, HandOK, ring
  <2>7. CASE Signal(t, "full_cv_", "push")
    BY <1>0, <2>7 DEF Signal, Waiting, TypeOK, HandOK, ring
  <2>8. CASE SpuriousWakeup(t)
    BY <1>0, <2>8 DEF SpuriousWakeup, TypeOK, HandOK, ring
  <2>. QED BY <1>2, <2>1, <2>2, <2>3, <2>4, <2>5, <2>6, <2>7, <2>8 DEF Step
<1>. QED BY <1>1, <1>2 DEF Next

\* The offsets, the count and the slots of the ring always agree, and no
\* thread ever pops an empty function.
THEOREM RingCorrect == Spec => []RingInv
<1>1. Init => RingInv
  BY TaskQueueAssumption DEF Init, RingInv, TypeOK, RingOK, HandOK, Slot, Slots
<1>2. RingInv /\ [Next]_vars => RingInv'
  BY RingStep
<1>. QED BY <1>1, <1>2, PTL DEF Spec

-----------------------------------------------------------------------------
\* The threads f sends to v; At(pc, v) is Waiting(v).
At(f, v) == {u \in Threads : f[u] = v}

N(f, v) == Cardinality(At(f, v))

\* From f to g the population of x changes as when one thread goes from v to w.
Moved(f, g, x, v, w) ==
  /\ N(f, x) \in Nat /\ N(g, x) \in Nat
  /\ N(g, x) = IF x = v THEN N(f, x) - 1 ELSE IF x = w THEN N(f, x) + 1 ELSE N(f, x)
  /\ x # w => At(g, x) \subseteq At(f, x)

\* One thread moves from its place to w: one fewer there, one more at w.
LEMMA MoveCount ==
  ASSUME NEW f \in [Threads -> PCs], NEW t \in Threads, NEW w \in PCs, f[t] # w,
         NEW g, g = [f EXCEPT ![t] = w], NEW x
  PROVE  Moved(f, g, x, f[t], w)
<1>1. IsFiniteSet(At(f, x)) /\ N(f, x) \in Nat /\ N(g, x) \in Nat
  <2>1. At(f, x) \in SUBSET Threads /\ At(g, x) \in SUBSET Threads BY DEF At
  <2>. QED BY <2>1, TaskQueueAssumption, FS_Subset, FS_CardinalityType DEF N
<1>2. CASE x = f[t]
  <2>1. At(g, x) = At(f, x) \ {t} /\ t \in At(f, x) BY <1>2 DEF At
  <2>. QED BY <1>1, <1>2, <2>1, FS_RemoveElement DEF Moved, N
<1>3. CASE x = w
  <2>1. At(g, x) = At(f, x) \cup {t} /\ t \notin At(f, x) BY <1>3 DEF At
  <2>. QED BY <1>1, <1>3, <2>1, FS_AddElement DEF Moved, N
<1>4. CASE x # f[t] /\ x # w
  <2>1. At(g, x) = At(f, x) BY <1>4 DEF At
  <2>. QED BY <1>1, <1>4, <2>1 DEF Moved, N
<1>. QED BY <1>2, <1>3, <1>4

\* Every step keeps a signal, or a thread already woken, for every task that
\* a waiting consumer could take, and for every slot a producer waits for.
LEMMA WakeupStep ==
  ASSUME TypeOK, NoLostWakeup, [Next]_vars PROVE NoLostWakeup'
<1>. DEFINE Enough(f, size) ==
              /\ At(f, "empty_cv_") # {} =>
                   size <= N(f, "pop") + N(f, "signal_empty_cv_")
              /\ At(f, "full_cv_") # {} =>
                   Capacity - size <= N(f, "push") + N(f, "signal_full_cv_")
<1>1. Enough(pc, size_)
  BY DEF NoLostWakeup, Waiting, At, N
<1>2. NoLostWakeup' <=> Enough(pc', size_')
  BY DEF NoLostWakeup, Waiting, At, N
<1>3. pc \in [Threads -> PCs] /\ size_ \in Nat /\ size_ <= Capacity /\ Capacity \in Nat
  BY TaskQueueAssumption DEF TypeOK, PCs
<1>4. SUFFICES Enough(pc', size_')
  BY <1>2
<1>5. CASE UNCHANGED <<pc, size_>>
  BY <1>1, <1>5
<1>6. ASSUME NEW t \in Threads, Step(t), ~ UNCHANGED <<pc, size_>>
      PROVE  Enough(pc', size_')
  <2>. DEFINE moves(v, w) == pc[t] = v /\ pc' = [pc EXCEPT ![t] = w]
              allMoved(f, g, v, w) ==
                /\ Moved(f, g, "pop", v, w) /\ Moved(f, g, "signal_empty_cv_", v, w)
                /\ Moved(f, g, "push", v, w) /\ Moved(f, g, "signal_full_cv_", v, w)
                /\ Moved(f, g, "empty_cv_", v, w) /\ Moved(f, g, "full_cv_", v, w)
  <2>0. ASSUME NEW v \in PCs, NEW w \in PCs, v # w, moves(v, w)
        PROVE  allMoved(pc, pc', v, w)
    BY <1>3, <2>0, MoveCount
  <2>1. CASE Push(t)
    <3>1. moves("idle", "push") BY <2>1 DEF Push
    <3>2. size_' = size_ BY <2>1, <1>3 DEF Push
    <3>3. allMoved(pc, pc', "idle", "push") BY <2>0, <3>1 DEF PCs
    <3>. QED BY <1>1, <1>3, <3>2, <3>3 DEF Moved
  <2>2. CASE Pop(t)
    <3>1. moves("idle", "pop") BY <2>2 DEF Pop
    <3>2. size_' = size_ BY <2>2, <1>3 DEF Pop
    <3>3. allMoved(pc, pc', "idle", "pop") BY <2>0, <3>1 DEF PCs
    <3>. QED BY <1>1, <1>3, <3>2, <3>3 DEF Moved
  <2>3. CASE PushWaits(t)
    <3>1. moves("push", "full_cv_") BY <2>3 DEF PushWaits
    <3>2. size_' = size_ /\ size_ = Capacity BY <2>3, <1>3 DEF PushWaits, Full
    <3>3. allMoved(pc, pc', "push", "full_cv_") BY <2>0, <3>1 DEF PCs
    <3>. QED BY <1>1, <1>3, <3>2, <3>3 DEF Moved
  <2>4. CASE PopWaits(t)
    <3>1. moves("pop", "empty_cv_") BY <2>4 DEF PopWaits
    <3>2. size_' = size_ /\ size_ = 0 BY <2>4, <1>3 DEF PopWaits
    <3>3. allMoved(pc, pc', "pop", "empty_cv_") BY <2>0, <3>1 DEF PCs
    <3>. QED BY <1>1, <1>3, <3>2, <3>3 DEF Moved
  <2>5. CASE PushDone(t) \/ TryPush(t)
    <3>1. moves("push", "signal_empty_cv_") \/ moves("idle", "signal_empty_cv_")
      BY <2>5 DEF PushDone, TryPush, PutBack
    <3>2. size_' = size_ + 1 BY <2>5 DEF PushDone, TryPush, PutBack
    <3>3. \/ allMoved(pc, pc', "push", "signal_empty_cv_")
          \/ allMoved(pc, pc', "idle", "signal_empty_cv_")
      BY <2>0, <3>1 DEF PCs
    <3>. QED BY <1>1, <1>3, <3>2, <3>3 DEF Moved
  <2>6. CASE PopDone(t) \/ TryPop(t)
    <3>1. moves("pop", "signal_full_cv_") \/ moves("idle", "signal_full_cv_")
      BY <2>6 DEF PopDone, TryPop, TakeFront
    <3>2. size_' = size_ - 1 BY <2>6 DEF PopDone, TryPop, TakeFront
    <3>3. \/ allMoved(pc, pc', "pop", "signal_full_cv_")
          \/ allMoved(pc, pc', "idle", "signal_full_cv_")
      BY <2>0, <3>1 DEF PCs
    <3>. QED BY <1>1, <1>3, <3>2, <3>3 DEF Moved
  <2>7. ASSUME NEW cv, NEW resume,
               \/ cv = "empty_cv_" /\ resume = "pop"
               \/ cv = "full_cv_" /\ resume = "push",
               Signal(t, cv, resume)
        PROVE  Enough(pc', size_')
    <3>. DEFINE own == IF cv = "full_cv_" THEN "signal_full_cv_" ELSE "signal_empty_cv_"
    <3>0. size_' = size_ /\ pc[t] = own BY <2>7 DEF Signal
    <3>1. CASE Waiting(cv) = {}
      <4>1. moves(own, "idle") BY <2>7, <3>1 DEF Signal
      <4>2. At(pc, cv) = {} BY <3>1 DEF At, Waiting
      <4>. QED BY <1>1, <1>3, <2>0, <2>7, <3>0, <4>1, <4>2 DEF PCs, Moved
    <3>2. CASE Waiting(cv) # {}
      <4>1. PICK u \in Threads : pc[u] = cv /\ pc' = [pc EXCEPT ![t] = "idle", ![u] = resume]
        BY <2>7, <3>2 DEF Signal, Waiting
      <4>2. u # t BY <2>7, <3>0, <4>1
      <4>. PICK f : f = [pc EXCEPT ![t] = "idle"] OBVIOUS
      <4>3. f[u] = cv /\ pc' = [f EXCEPT ![u] = resume] BY <1>3, <4>1, <4>2
      <4>4. f \in [Threads -> PCs] /\ allMoved(pc, f, pc[t], "idle")
        <5>1. f \in [Threads -> PCs] BY <1>3 DEF PCs
        <5>2. pc[t] # "idle" /\ "idle" \in PCs BY <3>0 DEF PCs
        <5>. QED BY <1>3, <5>1, <5>2, MoveCount
      <4>5. allMoved(f, pc', cv, resume)
        <5>1. cv # resume /\ resume \in PCs BY <2>7 DEF PCs
        <5>. QED BY <4>3, <4>4, <5>1, MoveCount
      <4>6. At(pc, cv) # {} BY <4>1 DEF At
      <4>7. CASE cv = "empty_cv_" /\ resume = "pop"
        <5>1. allMoved(pc, f, "signal_empty_cv_", "idle") BY <3>0, <4>4, <4>7
        <5>2. allMoved(f, pc', "empty_cv_", "pop") BY <4>5, <4>7
        <5>3. At(pc, "empty_cv_") # {} BY <4>6, <4>7
        <5>4. At(pc', "full_cv_") # {} => At(pc, "full_cv_") # {}
          BY <5>1, <5>2 DEF Moved
        <5>5. /\ N(pc', "pop") = N(pc, "pop") + 1
              /\ N(pc', "signal_empty_cv_") = N(pc, "signal_empty_cv_") - 1
              /\ N(pc', "push") = N(pc, "push")
              /\ N(pc', "signal_full_cv_") = N(pc, "signal_full_cv_")
              /\ N(pc, "pop") \in Nat /\ N(pc, "signal_empty_cv_") \in Nat
          BY <5>1, <5>2 DEF Moved
        <5>. QED BY <1>1, <1>3, <3>0, <5>3, <5>4, <5>5
      <4>8. CASE cv = "full_cv_" /\ resume = "push"
        <5>1. allMoved(pc, f, "signal_full_cv_", "idle") BY <3>0, <4>4, <4>8
        <5>2. allMoved(f, pc', "full_cv_", "push") BY <4>5, <4>8
        <5>3. At(pc, "full_cv_") # {} BY <4>6, <4>8
        <5>4. At(pc', "empty_cv_") # {} => At(pc, "empty_cv_") # {}
          BY <5>1, <5>2 DEF Moved
        <5>5. /\ N(pc', "push") = N(pc, "push") + 1
              /\ N(pc', "signal_full_cv_") = N(pc, "signal_full_cv_") - 1
              /\ N(pc', "pop") = N(pc, "pop")
              /\ N(pc', "signal_empty_cv_") = N(pc, "signal_empty_cv_")
              /\ N(pc, "push") \in Nat /\ N(pc, "signal_full_cv_") \in Nat
          BY <5>1, <5>2 DEF Moved
        <5>. QED BY <1>1, <1>3, <3>0, <5>3, <5>4, <5>5
      <4>. QED BY <2>7, <4>7, <4>8
    <3>. QED BY <3>1, <3>2
  <2>8. CASE SpuriousWakeup(t)
    <3>1. moves("full_cv_", "push") \/ moves("empty_cv_", "pop")
      BY <2>8 DEF SpuriousWakeup
    <3>2. size_' = size_ BY <2>8 DEF SpuriousWakeup
    <3>. QED BY <1>1, <1>3, <2>0, <3>1, <3>2 DEF PCs, Moved
  <2>. QED BY <1>6, <2>1, <2>2, <2>3, <2>4, <2>5, <2>6, <2>7, <2>8
           DEF Step, MakeTask, RunTask
<1>. QED BY <1>5, <1>6 DEF Next, vars

\* No wakeup is ever lost.
THEOREM WakeupsCorrect == Spec => []NoLostWakeup
<1>1. Init => TypeOK /\ NoLostWakeup
  BY TaskQueueAssumption DEF Init, TypeOK, NoLostWakeup, Waiting, Slots
<1>2. TypeOK /\ NoLostWakeup /\ [Next]_vars => NoLostWakeup'
  BY WakeupStep
<1>3. RingInv => TypeOK BY DEF RingInv
<1>. QED BY <1>1, <1>2, <1>3, RingCorrect, PTL DEF Spec

-----------------------------------------------------------------------------
Values == Tasks \cup {Empty}

\* The content is a sequence of size_ entries, read from the slots in turn.
ItemsOK ==
  /\ Items \in Seq(Values) /\ Len(Items) = size_
  /\ \A k \in 1..size_ : Items[k] = data_[Slot(k - 1)]

LEMMA ItemsSeq == TypeOK => ItemsOK
<1>. SUFFICES ASSUME TypeOK PROVE ItemsOK OBVIOUS
<1>. USE TaskQueueAssumption
<1>1. \A k \in 1..size_ : Slot(k - 1) \in Slots
  BY DEF TypeOK, Slot, Slots
<1>2. size_ \in Nat /\ Items \in [1..size_ -> Values]
  BY <1>1 DEF TypeOK, Items, Values
<1>. QED BY <1>2 DEF Items, ItemsOK

\* A push appends.
LEMMA PutBackItems ==
  ASSUME RingInv, RingInv', NEW t \in Threads, PutBack(t), ~Full
  PROVE  Items' = Append(Items, hand[t])
<1>. USE TaskQueueAssumption
<1>1. TypeOK /\ RingOK /\ ItemsOK BY ItemsSeq DEF RingInv
<1>a. ItemsOK'
  <2>1. TypeOK' => ItemsOK' BY ItemsSeq, PTL
  <2>. QED BY <2>1 DEF RingInv
<1>2. size_ \in Slots /\ size_' = size_ + 1 /\ front_' = front_ /\ hand[t] \in Values
  BY <1>1 DEF TypeOK, PutBack, Full, Slots, Values
<1>3. back_ = Slot(size_) BY <1>1, <1>2 DEF RingOK, Slots
<1>4. ASSUME NEW k \in 1..size_'
      PROVE  Items'[k] = Append(Items, hand[t])[k]
  <2>1. Items'[k] = data_'[Slot(k - 1)] /\ Slot(k - 1) \in Slots
    <3>1. k - 1 \in Slots
      BY <1>2 DEF Slots
    <3>2. front_ \in Slots
      BY <1>1 DEF TypeOK
    <3>3. Slot(k - 1) \in Slots
      BY <3>1, <3>2 DEF Slot, Slots
    <3>4. Slot(k - 1)' = Slot(k - 1)
      BY <1>2 DEF Slot
    <3>5. Items'[k] = data_'[Slot(k - 1)']
      BY <1>a DEF ItemsOK
    <3> QED BY <3>3, <3>4, <3>5
  <2>2. CASE k = size_ + 1
    <3>1. size_ \in Nat /\ k - 1 = size_
      BY <1>2, <2>2 DEF Slots
    <3>2. Items'[k] = data_'[back_] /\ back_ \in Slots
      BY <1>3, <2>1, <3>1
    <3>3. data_'[back_] = hand[t]
      BY <1>1, <3>2 DEF PutBack, TypeOK
    <3>4. Append(Items, hand[t])[k] = hand[t]
      BY <1>1, <1>2, <2>2, AppendProperties DEF ItemsOK
    <3> QED BY <3>2, <3>3, <3>4
  <2>3. CASE k \in 1..size_
    <3>1. Slot(k - 1) # back_ BY <1>1, <1>2, <1>3, <2>3 DEF Slot, TypeOK, Slots
    <3>2. Items[k] = Items'[k] BY <1>1, <2>1, <2>3, <3>1 DEF ItemsOK, PutBack, TypeOK
    <3>. QED BY <1>1, <1>2, <2>3, <3>2, AppendProperties DEF ItemsOK
  <2>4. k = size_ + 1 \/ k \in 1..size_ BY <1>2 DEF Slots
  <2>. QED BY <2>2, <2>3, <2>4
<1>5. Append(Items, hand[t]) \in Seq(Values) /\ Len(Append(Items, hand[t])) = size_'
  BY <1>1, <1>2, AppendProperties DEF ItemsOK
<1>. QED BY <1>a, <1>4, <1>5, SeqEqual DEF ItemsOK

\* A pop yields the first entry and leaves the others.
LEMMA TakeFrontItems ==
  ASSUME RingInv, RingInv', NEW t \in Threads, TakeFront(t), size_ # 0
  PROVE  Items # <<>> /\ data_[front_] = Head(Items) /\ Items' = Tail(Items)
<1>. USE TaskQueueAssumption
<1>1. TypeOK /\ RingOK /\ ItemsOK BY ItemsSeq DEF RingInv
<1>a. ItemsOK'
  <2>1. TypeOK' => ItemsOK' BY ItemsSeq, PTL
  <2>. QED BY <2>1 DEF RingInv
<1>2. size_ \in 1..Capacity /\ size_' = size_ - 1 /\ front_ \in Slots
  BY <1>1 DEF TypeOK, TakeFront
<1>3. Items # <<>> /\ data_[front_] = Head(Items)
  <2>1. Items[1] = data_[front_] BY <1>1, <1>2 DEF ItemsOK, Slot, Slots
  <2>2. Items \in Seq(Values) /\ Len(Items) # 0 BY <1>1, <1>2 DEF ItemsOK
  <2>. QED BY <2>1, <2>2
<1>4. Tail(Items) \in Seq(Values) /\ Len(Tail(Items)) = size_'
  BY <1>1, <1>2, <1>3, HeadTailProperties DEF ItemsOK
<1>5. ASSUME NEW k \in 1..size_'
      PROVE  Items'[k] = Tail(Items)[k]
  <2>1. /\ k \in 1..Len(Tail(Items)) /\ k + 1 \in 1..size_
        /\ k - 1 \in 0..Capacity-1 /\ k \in 1..Capacity-1
    BY <1>2, <1>4
  <2>2. Tail(Items)[k] = data_[Slot(k)]
    <3>1. Tail(Items)[k] = Items[k + 1]
      BY <1>1, <1>3, <2>1, HeadTailProperties DEF ItemsOK
    <3>2. Items[k + 1] = data_[Slot((k + 1) - 1)] BY <1>1, <2>1 DEF ItemsOK
    <3>3. (k + 1) - 1 = k BY <2>1
    <3>. QED BY <3>1, <3>2, <3>3
  <2>3. Items'[k] = data_'[Slot(k - 1)'] BY <1>a DEF ItemsOK
  <2>4. Slot(k - 1)' = Slot(k) /\ Slot(k) # front_ /\ Slot(k) \in Slots
    BY <1>2, <2>1 DEF TakeFront, Advanced, Slot, Slots
  <2>. QED BY <1>1, <2>2, <2>3, <2>4 DEF TakeFront, TypeOK
<1>. QED BY <1>a, <1>3, <1>4, <1>5, SeqEqual DEF ItemsOK

\* Every step of the ring buffer is a step of the queue or changes nothing of
\* it.
LEMMA FifoStep ==
  ASSUME RingInv, RingInv', [Next]_vars PROVE [Fifo!Next]_(Fifo!vars)
<1>0. ASSUME UNCHANGED ring PROVE Items' = Items
  BY <1>0 DEF ring, Items, Slot
<1>1. CASE UNCHANGED vars
  BY <1>0, <1>1 DEF vars, ring, Fifo!vars
<1>2. ASSUME NEW t \in Threads, Step(t) PROVE [Fifo!Next]_(Fifo!vars)
  <2>1. ASSUME NEW task \in Tasks, MakeTask(t, task) PROVE Fifo!Next
    BY <1>0, <2>1 DEF MakeTask, ring, Fifo!Next, Fifo!Obtain
  <2>2. CASE RunTask(t)
    BY <1>0, <2>2 DEF RunTask, ring, Fifo!Next, Fifo!Finish
  <2>3. CASE Push(t) \/ Pop(t) \/ PushWaits(t) \/ PopWaits(t) \/ SpuriousWakeup(t)
    BY <1>0, <2>3 DEF Push, Pop, PushWaits, PopWaits, SpuriousWakeup, ring, Fifo!vars
  <2>4. CASE PushDone(t) \/ TryPush(t)
    <3>1. PutBack(t) /\ ~Full /\ hand[t] # Empty
      BY <2>4 DEF PushDone, TryPush, RingInv, HandOK
    <3>2. Items' = Append(Items, hand[t]) BY <3>1, PutBackItems
    <3>3. Len(Items) < Capacity
      BY <3>1, ItemsSeq, TaskQueueAssumption DEF RingInv, ItemsOK, TypeOK, Full
    <3>. QED BY <3>1, <3>2, <3>3 DEF PutBack, Fifo!Next, Fifo!Put
  <2>5. CASE PopDone(t) \/ TryPop(t)
    <3>1. TakeFront(t) /\ size_ # 0 /\ hand[t] = Empty
      BY <2>5 DEF PopDone, TryPop, RingInv, HandOK
    <3>2. Items # <<>> /\ data_[front_] = Head(Items) /\ Items' = Tail(Items)
      BY <3>1, TakeFrontItems
    <3>. QED BY <3>1, <3>2 DEF TakeFront, Fifo!Next, Fifo!Take
  <2>6. CASE Signal(t, "empty_cv_", "pop") \/ Signal(t, "full_cv_", "push")
    BY <1>0, <2>6 DEF Signal, ring, Fifo!vars
  <2>. QED BY <1>2, <2>1, <2>2, <2>3, <2>4, <2>5, <2>6 DEF Step
<1>. QED BY <1>1, <1>2 DEF Next

\* The ring buffer implements the bounded first-in first-out queue.
THEOREM QueueImplementsFifo == Spec => FifoSpec
<1>1. Init => Fifo!Init
  BY DEF Init, Fifo!Init, Items
<1>2. RingInv /\ RingInv' /\ [Next]_vars => [Fifo!Next]_(Fifo!vars)
  BY FifoStep
<1>. QED BY <1>1, <1>2, RingCorrect, PTL DEF Spec, Fifo!Spec, FifoSpec

-----------------------------------------------------------------------------
(* The local cache.                                                        *)

Entries == [key : CacheKeys, val : CacheValues, ts : Now]
Hits == [hit : {TRUE}, key : CacheKeys, val : CacheValues, now : Now]

CacheTypeOK ==
  /\ capacity_ \in Nat /\ cache_size_ \in Nat
  /\ cell \in Seq(Entries) /\ recent \in Seq(Entries)
  /\ entry_list_ \in Seq(Nat) /\ free_entry_ \in Seq(Nat)
  /\ lastGet \in Hits \cup {NoGet}
  /\ cacheCrashed \in BOOLEAN

OneEach(s) == \A i, j \in 1..Len(s) : s[i] = s[j] => i = j

\* Each of n cells is in one place of one of the two lists.
Linked(list, free, n) ==
  /\ \A i \in 1..Len(list) : list[i] \in 1..n
  /\ \A i \in 1..Len(free) : free[i] \in 1..n
  /\ OneEach(list) /\ OneEach(free)
  /\ \A i \in 1..Len(list), j \in 1..Len(free) : list[i] # free[j]
  /\ Len(list) + Len(free) = n

CellsFit ==
  /\ Len(entry_list_) = cache_size_ /\ cache_size_ <= capacity_
  /\ Linked(entry_list_, free_entry_, Len(cell)) /\ Len(cell) <= capacity_

\* An index knows the cells of a list and no others.
Indexes(index, list, cells) ==
  /\ \A k \in DOMAIN index :
       \E i \in 1..Len(list) : index[k] = list[i] /\ cells[list[i]].key = k
  /\ \A i \in 1..Len(list) :
       cells[list[i]].key \in DOMAIN index /\ index[cells[list[i]].key] = list[i]

IndexFits == Indexes(entry_index_, entry_list_, cell)

\* The list is the beginning of the order of use, which has every key once.
OrderFits ==
  /\ cache_size_ <= Len(recent)
  /\ \A i \in 1..cache_size_ : cell[entry_list_[i]] = recent[i]
  /\ \A i, j \in 1..Len(recent) : recent[i].key = recent[j].key => i = j

CacheInv ==
  /\ CacheTypeOK /\ CellsFit /\ IndexFits /\ OrderFits /\ HitsAreFresh
  /\ cacheCrashed => capacity_ = 0

-----------------------------------------------------------------------------
\* A list without one of its places.
LEMMA WithoutIs ==
  ASSUME NEW S, NEW s \in Seq(S), NEW i \in 1..Len(s)
  PROVE  /\ Without(s, i) \in Seq(S) /\ Len(Without(s, i)) = Len(s) - 1
         /\ \A j \in 1..Len(s)-1 : Without(s, i)[j] = IF j < i THEN s[j] ELSE s[j + 1]
<1>1. Len(s) \in Nat /\ Len(s) - 1 \in Nat
  OBVIOUS
<1>2. \A j \in 1..Len(s)-1 : s[j] \in S /\ s[j + 1] \in S
  BY <1>1, ElementOfSeq
<1>3. Without(s, i) \in [1..Len(s)-1 -> S]
  BY <1>2 DEF Without
<1> QED
  BY <1>1, <1>3, SeqDef, LenProperties DEF Without

\* A list with a new first element.
LEMMA PushedIs ==
  ASSUME NEW S, NEW s \in Seq(S), NEW c \in S
  PROVE  /\ <<c>> \o s \in Seq(S) /\ Len(<<c>> \o s) = Len(s) + 1
         /\ (<<c>> \o s)[1] = c
         /\ \A j \in 1..Len(s) : (<<c>> \o s)[j + 1] = s[j]
         /\ \A j \in 2..(Len(s) + 1) : (<<c>> \o s)[j] = s[j - 1]
<1>1. <<c>> \in Seq(S) /\ Len(<<c>>) = 1
  OBVIOUS
<1>2. <<c>> \o s \in Seq(S) /\ Len(<<c>> \o s) = Len(s) + 1
  BY <1>1, ConcatProperties
<1>3. (<<c>> \o s)[1] = c
  BY <1>1, ConcatProperties, LenProperties
<1>4. \A j \in 2..(Len(s) + 1) : (<<c>> \o s)[j] = s[j - 1]
  BY <1>1, ConcatProperties, LenProperties
<1>5. \A j \in 1..Len(s) : (<<c>> \o s)[j + 1] = s[j]
  <2> SUFFICES ASSUME NEW j \in 1..Len(s) PROVE (<<c>> \o s)[j + 1] = s[j]
    OBVIOUS
  <2>1. Len(s) \in Nat /\ j + 1 \in 2..(Len(s) + 1) /\ (j + 1) - 1 = j
    OBVIOUS
  <2> QED BY <2>1, <1>4
<1> QED BY <1>2, <1>3, <1>4, <1>5

\* Where the element at place j was before place i was taken to the front.
From(i, j) == IF j = 1 THEN i ELSE IF j <= i THEN j - 1 ELSE j

LEMMA FromIs ==
  ASSUME NEW n \in Nat, NEW i \in 1..n
  PROVE  /\ \A j \in 1..n : From(i, j) \in 1..n
         /\ \A j, m \in 1..n : From(i, j) = From(i, m) => j = m
         /\ \A j \in 1..n : \E m \in 1..n : From(i, m) = j
<1>1. \A j \in 1..n : From(i, j) \in 1..n
  BY DEF From
<1>2. \A j, m \in 1..n : From(i, j) = From(i, m) => j = m
  BY DEF From
<1>3. ASSUME NEW j \in 1..n PROVE \E m \in 1..n : From(i, m) = j
  <2>1. CASE j = i
    <3>1. 1 \in 1..n /\ From(i, 1) = j
      BY <2>1 DEF From
    <3> QED BY <3>1
  <2>2. CASE j < i
    <3>1. j + 1 \in 1..n /\ From(i, j + 1) = j
      BY <2>2 DEF From
    <3> QED BY <3>1
  <2>3. CASE j > i
    <3>1. From(i, j) = j
      BY <2>3 DEF From
    <3> QED BY <3>1
  <2> QED BY <2>1, <2>2, <2>3
<1> QED BY <1>1, <1>2, <1>3

LEMMA FrontIs ==
  ASSUME NEW S, NEW s \in Seq(S), NEW i \in 1..Len(s), NEW c \in S
  PROVE  /\ <<c>> \o Without(s, i) \in Seq(S)
         /\ Len(<<c>> \o Without(s, i)) = Len(s)
         /\ (<<c>> \o Without(s, i))[1] = c
         /\ \A j \in 2..Len(s) : (<<c>> \o Without(s, i))[j] = s[From(i, j)]
<1> DEFINE w == Without(s, i)
           t == <<c>> \o w
<1>1. /\ w \in Seq(S) /\ Len(w) = Len(s) - 1
      /\ \A j \in 1..Len(s)-1 : w[j] = IF j < i THEN s[j] ELSE s[j + 1]
  BY WithoutIs
<1> HIDE DEF w
<1>2. /\ t \in Seq(S) /\ Len(t) = Len(w) + 1 /\ t[1] = c
      /\ \A j \in 2..(Len(w) + 1) : t[j] = w[j - 1]
  BY <1>1, PushedIs
<1> HIDE DEF t
<1>3. Len(s) \in Nat
  OBVIOUS
<1>4. Len(t) = Len(s)
  BY <1>1, <1>2, <1>3
<1>5. ASSUME NEW j \in 2..Len(s) PROVE t[j] = s[From(i, j)]
  <2>1. j \in 2..(Len(w) + 1) /\ j - 1 \in 1..Len(s)-1 /\ (j - 1) + 1 = j
    BY <1>1, <1>3
  <2>2. t[j] = w[j - 1]
    BY <1>2, <2>1
  <2>3. w[j - 1] = IF j - 1 < i THEN s[j - 1] ELSE s[j]
    BY <1>1, <2>1
  <2>4. From(i, j) = IF j - 1 < i THEN j - 1 ELSE j
    BY <1>3 DEF From
  <2> QED BY <2>2, <2>3, <2>4
<1>6. /\ t \in Seq(S) /\ Len(t) = Len(s) /\ t[1] = c
      /\ \A j \in 2..Len(s) : t[j] = s[From(i, j)]
  BY <1>2, <1>4, <1>5
<1> QED BY <1>6 DEF t, w

\* In a list without repetitions an element has one place.
LEMMA PlaceIs ==
  ASSUME NEW S, NEW s \in Seq(S), OneEach(s), NEW i \in 1..Len(s)
  PROVE  Place(s, s[i]) = i
<1>1. DOMAIN s = 1..Len(s)
  OBVIOUS
<1> QED BY <1>1 DEF Place, OneEach

\* The order of use has a key in one place.
LEMMA LastUseIs ==
  ASSUME CacheTypeOK, OrderFits, NEW i \in 1..Len(recent)
  PROVE  /\ UseOf(recent[i].key) # {} /\ LastUse(recent[i].key) = i
         /\ Forgotten(recent[i].key) = Without(recent, i)
<1>1. DOMAIN recent = 1..Len(recent)
  BY DEF CacheTypeOK
<1>2. UseOf(recent[i].key) = {i}
  BY <1>1 DEF UseOf, OrderFits
<1> QED BY <1>2 DEF LastUse, Forgotten

\* A cached key: its cell has the same place in the list and in the order.
LEMMA CachedKey ==
  ASSUME CacheInv, NEW k \in DOMAIN entry_index_
  PROVE  \E i \in 1..Len(entry_list_) :
           /\ i \in 1..Len(recent)
           /\ entry_index_[k] = entry_list_[i] /\ Place(entry_list_, entry_index_[k]) = i
           /\ cell[entry_list_[i]] = recent[i] /\ recent[i].key = k
           /\ entry_list_[i] \in 1..Len(cell)
           /\ LastUse(k) = i /\ Forgotten(k) = Without(recent, i)
<1>1. PICK i \in 1..Len(entry_list_) : entry_index_[k] = entry_list_[i] /\ cell[entry_list_[i]].key = k
  BY DEF CacheInv, IndexFits, Indexes
<1>2. Len(entry_list_) \in Nat /\ Len(recent) \in Nat /\ Len(entry_list_) = cache_size_ /\ cache_size_ <= Len(recent)
  BY DEF CacheInv, CacheTypeOK, CellsFit, Linked, OrderFits
<1>3. i \in 1..Len(recent) /\ i \in 1..cache_size_
  BY <1>2
<1>4. Place(entry_list_, entry_list_[i]) = i
  BY PlaceIs DEF CacheInv, CacheTypeOK, CellsFit, Linked
<1>5. cell[entry_list_[i]] = recent[i] /\ entry_list_[i] \in 1..Len(cell)
  BY <1>3 DEF CacheInv, OrderFits, CellsFit, Linked
<1>6. LastUse(recent[i].key) = i /\ Forgotten(recent[i].key) = Without(recent, i)
  BY <1>3, LastUseIs DEF CacheInv
<1> QED BY <1>1, <1>3, <1>4, <1>5, <1>6

\* The unsigned difference says what a comparison of the two times would.
LEMMA FreshIs ==
  ASSUME NEW now \in Now, NEW ts \in Now
  PROVE  Fresh(now, ts) => ts <= now /\ now < ts + Expire
<1>1. /\ Expire \in Nat /\ TimeMod \in Nat \ {0}
      /\ now \in 0..(TimeMod - Expire) /\ ts \in 0..(TimeMod - Expire)
  BY CacheAssumption
<1>2. CASE now >= ts
  <2>1. (now - ts) \in 0..TimeMod
    BY <1>1, <1>2
  <2>2. CASE now - ts = TimeMod
    <3>1. Expire = 0
      BY <1>1, <2>2
    <3>2. (now - ts) % TimeMod \in Nat
      BY <1>1
    <3> QED BY <3>1, <3>2 DEF Fresh
  <2>3. CASE now - ts < TimeMod
    <3>1. (now - ts) % TimeMod = now - ts
      BY <2>1, <2>3, <1>1
    <3> QED BY <3>1, <1>1, <1>2 DEF Fresh
  <2> QED BY <2>1, <2>2, <2>3, <1>1
<1>3. CASE now < ts
  <2>1. (now - ts) + TimeMod \in Expire..(TimeMod - 1)
    BY <1>1, <1>3
  <2>2. (now - ts) % TimeMod = (now - ts) + TimeMod
    BY <2>1, <1>1
  <2> QED BY <2>1, <2>2, <1>1 DEF Fresh
<1> QED BY <1>1, <1>2, <1>3

-----------------------------------------------------------------------------
LEMMA CacheInvInit == CacheInit => CacheInv
<1> SUFFICES ASSUME CacheInit PROVE CacheInv
  OBVIOUS
<1>1. capacity_ \in Nat
  BY CacheAssumption DEF CacheInit
<1>2. CacheTypeOK
  <2>1. <<>> \in Seq(Entries) /\ <<>> \in Seq(Nat)
    OBVIOUS
  <2> QED BY <1>1, <2>1 DEF CacheInit, CacheTypeOK
<1>3. Len(<<>>) = 0 /\ DOMAIN <<>> = {}
  OBVIOUS
<1>4. CellsFit
  BY <1>1, <1>3 DEF CacheInit, CellsFit, Linked, OneEach
<1>5. IndexFits
  BY <1>3 DEF CacheInit, IndexFits, Indexes
<1>6. OrderFits
  BY <1>3 DEF CacheInit, OrderFits
<1>7. HitsAreFresh
  BY DEF CacheInit, HitsAreFresh, NoGet
<1> QED BY <1>2, <1>4, <1>5, <1>6, <1>7 DEF CacheInv, CacheInit

\* What is the same after a cached entry was used: place i of the list is taken
\* to the front, with the contents e.
LEMMA UseKeeps ==
  ASSUME CacheInv, NEW i \in 1..Len(entry_list_), NEW e \in Entries, e.key = recent[i].key,
         entry_list_' = <<entry_list_[i]>> \o Without(entry_list_, i),
         recent' = <<e>> \o Without(recent, i),
         cell' = [cell EXCEPT ![entry_list_[i]] = e],
         UNCHANGED <<capacity_, cache_size_, free_entry_, entry_index_>>
  PROVE  /\ cell' \in Seq(Entries) /\ recent' \in Seq(Entries) /\ entry_list_' \in Seq(Nat)
         /\ CellsFit' /\ IndexFits' /\ OrderFits'
         /\ 1 \in DOMAIN recent' /\ recent'[1] = e
<1> DEFINE n == Len(entry_list_)
           c == entry_list_[i]
<1>1. /\ entry_list_ \in Seq(Nat) /\ recent \in Seq(Entries) /\ cell \in Seq(Entries)
      /\ n \in Nat /\ Len(recent) \in Nat /\ Len(cell) \in Nat
      /\ n = cache_size_ /\ n <= Len(recent)
  BY DEF CacheInv, CacheTypeOK, CellsFit, Linked, OrderFits
<1>2. i \in 1..Len(recent) /\ c \in Nat /\ c \in 1..Len(cell)
  BY <1>1, ElementOfSeq DEF CacheInv, CellsFit, Linked
<1>3. /\ entry_list_' \in Seq(Nat) /\ Len(entry_list_') = n /\ entry_list_'[1] = c
      /\ \A j \in 2..n : entry_list_'[j] = entry_list_[From(i, j)]
  <2>1. entry_list_ \in Seq(Nat) /\ entry_list_[i] \in Nat
    BY <1>1, <1>2
  <2>2. /\ <<entry_list_[i]>> \o Without(entry_list_, i) \in Seq(Nat)
        /\ Len(<<entry_list_[i]>> \o Without(entry_list_, i)) = Len(entry_list_)
        /\ (<<entry_list_[i]>> \o Without(entry_list_, i))[1] = entry_list_[i]
        /\ \A j \in 2..Len(entry_list_) :
             (<<entry_list_[i]>> \o Without(entry_list_, i))[j] = entry_list_[From(i, j)]
    BY <2>1, FrontIs
  <2>3. entry_list_' = <<entry_list_[i]>> \o Without(entry_list_, i)
    OBVIOUS
  <2> QED BY <2>2, <2>3, Zenon
<1>4. /\ recent' \in Seq(Entries) /\ Len(recent') = Len(recent) /\ recent'[1] = e
      /\ \A j \in 2..Len(recent) : recent'[j] = recent[From(i, j)]
  BY <1>1, <1>2, FrontIs
<1>5. /\ cell' \in Seq(Entries) /\ Len(cell') = Len(cell) /\ cell'[c] = e
      /\ \A d \in 1..Len(cell) : d # c => cell'[d] = cell[d]
  BY <1>1, <1>2
<1>6. /\ \A j \in 1..n : From(i, j) \in 1..n
      /\ \A j, m \in 1..n : From(i, j) = From(i, m) => j = m
      /\ \A j \in 1..n : \E m \in 1..n : From(i, m) = j
  BY <1>1, FromIs
<1>7. /\ \A j \in 1..Len(recent) : From(i, j) \in 1..Len(recent)
      /\ \A j, m \in 1..Len(recent) : From(i, j) = From(i, m) => j = m
  BY <1>1, <1>2, FromIs
<1>8. From(i, 1) = i /\ 1 \in 1..n /\ 1 \in 1..Len(recent)
  BY <1>1, <1>2 DEF From
<1>9. \A j \in 1..n : entry_list_'[j] = entry_list_[From(i, j)]
  <2> SUFFICES ASSUME NEW j \in 1..n PROVE entry_list_'[j] = entry_list_[From(i, j)]
    OBVIOUS
  <2>1. j = 1 \/ j \in 2..n
    BY <1>1
  <2>2. CASE j = 1
    BY <2>2, <1>3, <1>8
  <2>3. CASE j \in 2..n
    BY <2>3, <1>3
  <2> QED BY <2>1, <2>2, <2>3
<1>10. \A j \in 1..Len(recent) : recent'[j].key = recent[From(i, j)].key
  <2> SUFFICES ASSUME NEW j \in 1..Len(recent) PROVE recent'[j].key = recent[From(i, j)].key
    OBVIOUS
  <2>1. j = 1 \/ j \in 2..Len(recent)
    BY <1>1
  <2>2. CASE j = 1
    BY <2>2, <1>4, <1>8
  <2>3. CASE j \in 2..Len(recent)
    BY <2>3, <1>4
  <2> QED BY <2>1, <2>2, <2>3
<1>11. \A j, m \in 1..n : entry_list_'[j] = entry_list_'[m] => j = m
  <2> TAKE j, m \in 1..n
  <2>1. From(i, j) \in 1..n /\ From(i, m) \in 1..n
    BY <1>6
  <2>2. entry_list_'[j] = entry_list_'[m] => From(i, j) = From(i, m)
    BY <2>1, <1>9 DEF CacheInv, CellsFit, Linked, OneEach
  <2> QED BY <2>2, <1>6
<1>12. \A d \in 1..Len(cell) : cell'[d].key = cell[d].key
  <2>1. cell[c].key = e.key
    BY <1>1 DEF CacheInv, OrderFits
  <2> QED BY <2>1, <1>5
<1>13. CellsFit'
  <2>1. OneEach(entry_list_')
    BY <1>3, <1>11 DEF OneEach
  <2>2. \A j \in 1..n : entry_list_'[j] \in 1..Len(cell)
    BY <1>6, <1>9 DEF CacheInv, CellsFit, Linked
  <2>3. ASSUME NEW j \in 1..n, NEW m \in 1..Len(free_entry_) PROVE entry_list_'[j] # free_entry_[m]
    <3>1. From(i, j) \in 1..n /\ entry_list_'[j] = entry_list_[From(i, j)]
      BY <1>6, <1>9
    <3>2. entry_list_[From(i, j)] # free_entry_[m]
      BY <3>1 DEF CacheInv, CellsFit, Linked
    <3> QED BY <3>1, <3>2
  <2> QED BY <1>3, <1>5, <2>1, <2>2, <2>3 DEF CellsFit, Linked, CacheInv
<1>14. IndexFits'
  <2>1. ASSUME NEW j \in 1..n
        PROVE  /\ cell'[entry_list_'[j]].key \in DOMAIN entry_index_
               /\ entry_index_[cell'[entry_list_'[j]].key] = entry_list_'[j]
    <3>1. From(i, j) \in 1..n /\ entry_list_'[j] = entry_list_[From(i, j)]
      BY <1>6, <1>9
    <3>2. entry_list_[From(i, j)] \in 1..Len(cell)
      BY <3>1 DEF CacheInv, CellsFit, Linked
    <3>3. cell'[entry_list_'[j]].key = cell[entry_list_[From(i, j)]].key
      BY <3>1, <3>2, <1>12
    <3> QED BY <3>1, <3>3 DEF CacheInv, IndexFits, Indexes
  <2>2. ASSUME NEW x \in DOMAIN entry_index_
        PROVE  \E m \in 1..n : entry_index_[x] = entry_list_'[m] /\ cell'[entry_list_'[m]].key = x
    <3>1. PICK j \in 1..n : entry_index_[x] = entry_list_[j] /\ cell[entry_list_[j]].key = x
      BY DEF CacheInv, IndexFits, Indexes
    <3>2. PICK m \in 1..n : From(i, m) = j
      BY <1>6
    <3>3. entry_list_'[m] = entry_list_[j] /\ entry_list_[j] \in 1..Len(cell)
      BY <3>2, <1>9 DEF CacheInv, CellsFit, Linked
    <3> QED BY <3>1, <3>3, <1>12
  <2> QED BY <1>3, <2>1, <2>2 DEF IndexFits, Indexes
<1>15. OrderFits'
  <2>1. ASSUME NEW j \in 1..n PROVE cell'[entry_list_'[j]] = recent'[j]
    <3>1. CASE j = 1
      BY <3>1, <1>3, <1>4, <1>5
    <3>2. CASE j # 1
      <4>1. j \in 2..n /\ j \in 2..Len(recent) /\ From(i, j) \in 1..n
        <5>1. j \in 2..n
          BY <3>2, <1>1
        <5>2. From(i, j) \in 1..n
          BY <1>6
        <5> QED BY <1>1, <5>1, <5>2
      <4>2. entry_list_'[j] = entry_list_[From(i, j)] /\ recent'[j] = recent[From(i, j)]
        BY <4>1, <1>3, <1>4
      <4>3. entry_list_[From(i, j)] # c
        BY <3>2, <1>8, <1>9, <1>11, <4>2, <1>3
      <4>4. entry_list_[From(i, j)] \in 1..Len(cell) /\ cell[entry_list_[From(i, j)]] = recent[From(i, j)]
        BY <4>1, <1>1 DEF CacheInv, CellsFit, Linked, OrderFits
      <4> QED BY <4>2, <4>3, <4>4, <1>5
    <3> QED BY <3>1, <3>2
  <2>2. ASSUME NEW j \in 1..Len(recent), NEW m \in 1..Len(recent), recent'[j].key = recent'[m].key
        PROVE  j = m
    <3>1. From(i, j) \in 1..Len(recent) /\ From(i, m) \in 1..Len(recent)
      BY <1>7
    <3>2. recent[From(i, j)].key = recent[From(i, m)].key
      BY <2>2, <1>10
    <3>3. From(i, j) = From(i, m)
      BY <3>1, <3>2 DEF CacheInv, OrderFits
    <3> QED BY <3>3, <1>7
  <2> QED BY <1>1, <1>4, <2>1, <2>2 DEF OrderFits
<1>16. 1 \in DOMAIN recent'
  BY <1>4, <1>8
<1> QED BY <1>3, <1>4, <1>5, <1>13, <1>14, <1>15, <1>16

\* Get finds a fresh entry.
LEMMA GetHitKeeps ==
  ASSUME CacheInv, NEW k \in CacheKeys, NEW now \in Now, GetHit(k, now)
  PROVE  CacheInv'
<1>1. k \in DOMAIN entry_index_
  BY DEF GetHit
<1>2. PICK i \in 1..Len(entry_list_) :
           /\ i \in 1..Len(recent)
           /\ entry_index_[k] = entry_list_[i] /\ Place(entry_list_, entry_index_[k]) = i
           /\ cell[entry_list_[i]] = recent[i] /\ recent[i].key = k
           /\ entry_list_[i] \in 1..Len(cell)
           /\ LastUse(k) = i /\ Forgotten(k) = Without(recent, i)
  BY <1>1, CachedKey
<1>3. /\ entry_list_' = <<entry_list_[i]>> \o Without(entry_list_, i)
      /\ recent' = <<recent[i]>> \o Without(recent, i)
      /\ lastGet' = [hit |-> TRUE, key |-> k, val |-> recent[i].val, now |-> now]
      /\ Fresh(now, recent[i].ts)
      /\ UNCHANGED <<capacity_, cache_size_, free_entry_, cell, entry_index_, cacheCrashed>>
  BY <1>2 DEF GetHit, ToFront, Unlinked
<1>4. recent[i] \in Entries
  BY <1>2, ElementOfSeq DEF CacheInv, CacheTypeOK
<1>5. cell' = [cell EXCEPT ![entry_list_[i]] = recent[i]]
  BY <1>2, <1>3 DEF CacheInv, CacheTypeOK
<1>6. /\ cell' \in Seq(Entries) /\ recent' \in Seq(Entries) /\ entry_list_' \in Seq(Nat)
      /\ CellsFit' /\ IndexFits' /\ OrderFits'
      /\ 1 \in DOMAIN recent' /\ recent'[1] = recent[i]
  BY <1>3, <1>4, <1>5, UseKeeps
<1>7. CacheTypeOK'
  <2>1. lastGet' \in Hits
    BY <1>3, <1>4 DEF Hits, Entries
  <2> QED BY <1>3, <1>6, <2>1 DEF CacheTypeOK, CacheInv
<1>8. HitsAreFresh'
  <2>1. recent[i].ts \in Now
    BY <1>4 DEF Entries
  <2>2. recent[i].ts <= now /\ now < recent[i].ts + Expire
    BY <1>3, <2>1, FreshIs
  <2>3. /\ lastGet'.key = k /\ lastGet'.val = recent[i].val /\ lastGet'.now = now
        /\ recent[i] \in {recent'[j] : j \in DOMAIN recent'}
    BY <1>3, <1>6
  <2> QED BY <1>2, <2>2, <2>3 DEF HitsAreFresh
<1> QED BY <1>3, <1>6, <1>7, <1>8 DEF CacheInv

\* Put writes an entry in place.
LEMMA PutKnownKeeps ==
  ASSUME CacheInv, NEW k \in CacheKeys, NEW v \in CacheValues, NEW now \in Now, PutKnown(k, v, now)
  PROVE  CacheInv'
<1> DEFINE e == [key |-> k, val |-> v, ts |-> now]
<1>1. k \in DOMAIN entry_index_
  BY DEF PutKnown
<1>2. PICK i \in 1..Len(entry_list_) :
           /\ i \in 1..Len(recent)
           /\ entry_index_[k] = entry_list_[i] /\ Place(entry_list_, entry_index_[k]) = i
           /\ cell[entry_list_[i]] = recent[i] /\ recent[i].key = k
           /\ entry_list_[i] \in 1..Len(cell)
           /\ LastUse(k) = i /\ Forgotten(k) = Without(recent, i)
  BY <1>1, CachedKey
<1>3. /\ entry_list_' = <<entry_list_[i]>> \o Without(entry_list_, i)
      /\ recent' = <<e>> \o Without(recent, i)
      /\ lastGet' = NoGet
      /\ UNCHANGED <<capacity_, cache_size_, free_entry_, entry_index_, cacheCrashed>>
  BY <1>2 DEF PutKnown, ToFront, Unlinked
<1>4. e \in Entries /\ e.key = recent[i].key
  BY <1>2 DEF Entries
<1>5. cell' = [cell EXCEPT ![entry_list_[i]] = e]
  <2>1. cell' = [cell EXCEPT ![entry_list_[i]].val = v, ![entry_list_[i]].ts = now]
    BY <1>2 DEF PutKnown
  <2>2. cell \in Seq(Entries) /\ cell[entry_list_[i]] \in Entries /\ cell[entry_list_[i]].key = k
    BY <1>2, ElementOfSeq DEF CacheInv, CacheTypeOK
  <2>3. [[cell[entry_list_[i]] EXCEPT !.val = v] EXCEPT !.ts = now] = e
    <3>1. PICK w \in CacheValues, u \in Now : cell[entry_list_[i]] = [key |-> k, val |-> w, ts |-> u]
      BY <2>2 DEF Entries
    <3>2. [cell[entry_list_[i]] EXCEPT !.val = v] = [key |-> k, val |-> v, ts |-> u]
      BY <3>1
    <3>3. [[key |-> k, val |-> v, ts |-> u] EXCEPT !.ts = now] = e
      OBVIOUS
    <3> QED BY <3>2, <3>3, Zenon
  <2>4. entry_list_[i] \in DOMAIN cell /\ cell = [d \in DOMAIN cell |-> cell[d]]
    BY <1>2, <2>2
  <2>5. cell' = [d \in DOMAIN cell |-> IF d = entry_list_[i]
                   THEN [[cell[entry_list_[i]] EXCEPT !.val = v] EXCEPT !.ts = now] ELSE cell[d]]
    BY <2>1, <2>4
  <2>6. cell' = [d \in DOMAIN cell |-> IF d = entry_list_[i] THEN e ELSE cell[d]]
    BY <2>3, <2>5, Zenon
  <2> QED BY <2>6, <2>4
<1>6. /\ cell' \in Seq(Entries) /\ recent' \in Seq(Entries) /\ entry_list_' \in Seq(Nat)
      /\ CellsFit' /\ IndexFits' /\ OrderFits'
  BY <1>3, <1>4, <1>5, UseKeeps
<1>7. CacheTypeOK'
  BY <1>3, <1>6 DEF CacheTypeOK, CacheInv
<1>8. HitsAreFresh'
  BY <1>3 DEF HitsAreFresh, NoGet
<1> QED BY <1>3, <1>6, <1>7, <1>8 DEF CacheInv

-----------------------------------------------------------------------------
\* Where the element at place j was before place i was taken out.
Skip(i, j) == IF j < i THEN j ELSE j + 1

LEMMA SkipIs ==
  ASSUME NEW n \in Nat, NEW i \in 1..n
  PROVE  /\ \A j \in 1..n-1 : Skip(i, j) \in 1..n /\ Skip(i, j) # i
         /\ \A j, m \in 1..n-1 : Skip(i, j) = Skip(i, m) => j = m
         /\ \A j \in 1..n : j # i => \E m \in 1..n-1 : Skip(i, m) = j
<1>1. \A j \in 1..n-1 : Skip(i, j) \in 1..n /\ Skip(i, j) # i
  BY DEF Skip
<1>2. \A j, m \in 1..n-1 : Skip(i, j) = Skip(i, m) => j = m
  BY DEF Skip
<1>3. ASSUME NEW j \in 1..n, j # i PROVE \E m \in 1..n-1 : Skip(i, m) = j
  <2>1. CASE j < i
    <3>1. j \in 1..n-1 /\ Skip(i, j) = j
      BY <2>1 DEF Skip
    <3> QED BY <3>1
  <2>2. CASE j > i
    <3>1. j - 1 \in 1..n-1 /\ Skip(i, j - 1) = j
      BY <2>2 DEF Skip
    <3> QED BY <3>1
  <2> QED BY <1>3, <2>1, <2>2
<1> QED BY <1>1, <1>2, <1>3

LEMMA WithoutSkips ==
  ASSUME NEW S, NEW s \in Seq(S), NEW i \in 1..Len(s)
  PROVE  /\ Without(s, i) \in Seq(S) /\ Len(Without(s, i)) = Len(s) - 1
         /\ \A j \in 1..Len(s)-1 : Without(s, i)[j] = s[Skip(i, j)]
BY WithoutIs DEF Skip

\* The cell of a place goes to the front of the free ones.
LEMMA UnlinkFits ==
  ASSUME NEW list \in Seq(Nat), NEW free \in Seq(Nat), NEW n \in Nat, Linked(list, free, n),
         NEW i \in 1..Len(list)
  PROVE  Linked(Without(list, i), <<list[i]>> \o free, n)
<1> DEFINE l == Without(list, i)
           f == <<list[i]>> \o free
<1>1. list[i] \in Nat /\ Len(list) \in Nat /\ Len(free) \in Nat
  BY ElementOfSeq
<1>2. Len(l) = Len(list) - 1 /\ \A j \in 1..Len(list)-1 : l[j] = list[Skip(i, j)]
  BY WithoutSkips
<1>3. /\ Len(f) = Len(free) + 1 /\ f[1] = list[i]
      /\ \A j \in 2..(Len(free) + 1) : f[j] = free[j - 1]
  BY <1>1, PushedIs
<1> HIDE DEF l, f
<1>4. /\ \A j \in 1..Len(list)-1 : Skip(i, j) \in 1..Len(list) /\ Skip(i, j) # i
      /\ \A j, m \in 1..Len(list)-1 : Skip(i, j) = Skip(i, m) => j = m
  BY <1>1, SkipIs
<1>5. \A j \in 1..Len(f) : j = 1 \/ (j - 1 \in 1..Len(free) /\ f[j] = free[j - 1])
  BY <1>1, <1>3
<1>6. \A j \in 1..Len(l) : l[j] \in 1..n
  BY <1>2, <1>4 DEF Linked
<1>7. \A j \in 1..Len(f) : f[j] \in 1..n
  BY <1>3, <1>5 DEF Linked
<1>8. OneEach(l)
  <2> SUFFICES ASSUME NEW j \in 1..Len(list)-1, NEW m \in 1..Len(list)-1, l[j] = l[m] PROVE j = m
    BY <1>2 DEF OneEach
  <2>1. list[Skip(i, j)] = list[Skip(i, m)] /\ Skip(i, j) \in 1..Len(list) /\ Skip(i, m) \in 1..Len(list)
    BY <1>2, <1>4
  <2>2. Skip(i, j) = Skip(i, m)
    BY <2>1 DEF Linked, OneEach
  <2> QED BY <2>2, <1>4
<1>9. OneEach(f)
  <2> SUFFICES ASSUME NEW j \in 1..Len(f), NEW m \in 1..Len(f), f[j] = f[m] PROVE j = m
    BY DEF OneEach
  <2>1. CASE j = 1 /\ m = 1
    BY <2>1
  <2>2. CASE j = 1 /\ m # 1
    BY <2>2, <1>3, <1>5 DEF Linked
  <2>3. CASE j # 1 /\ m = 1
    BY <2>3, <1>3, <1>5 DEF Linked
  <2>4. CASE j # 1 /\ m # 1
    <3>1. j - 1 \in 1..Len(free) /\ m - 1 \in 1..Len(free) /\ free[j - 1] = free[m - 1]
      BY <2>4, <1>5
    <3>2. j - 1 = m - 1
      BY <3>1 DEF Linked, OneEach
    <3> QED BY <3>2, <1>3, <1>1
  <2> QED BY <2>1, <2>2, <2>3, <2>4
<1>10. ASSUME NEW j \in 1..Len(l), NEW m \in 1..Len(f) PROVE l[j] # f[m]
  <2>1. l[j] = list[Skip(i, j)] /\ Skip(i, j) \in 1..Len(list) /\ Skip(i, j) # i
    BY <1>2, <1>4
  <2>2. CASE m = 1
    BY <2>1, <2>2, <1>3 DEF Linked, OneEach
  <2>3. CASE m # 1
    BY <2>1, <2>3, <1>5 DEF Linked
  <2> QED BY <2>2, <2>3
<1>11. Len(l) + Len(f) = n
  BY <1>1, <1>2, <1>3 DEF Linked
<1> QED BY <1>6, <1>7, <1>8, <1>9, <1>10, <1>11 DEF Linked, l, f

\* The index without the key of a place fits the list without the place.
LEMMA UnindexFits ==
  ASSUME NEW list \in Seq(Nat), OneEach(list), NEW index, NEW cells, Indexes(index, list, cells),
         NEW i \in 1..Len(list)
  PROVE  Indexes([x \in DOMAIN index \ {cells[list[i]].key} |-> index[x]], Without(list, i), cells)
<1> DEFINE l == Without(list, i)
           k == cells[list[i]].key
           idx == [x \in DOMAIN index \ {k} |-> index[x]]
<1>1. Len(list) \in Nat
  OBVIOUS
<1>2. Len(l) = Len(list) - 1 /\ \A j \in 1..Len(list)-1 : l[j] = list[Skip(i, j)]
  BY WithoutSkips
<1> HIDE DEF l
<1>3. /\ \A j \in 1..Len(list)-1 : Skip(i, j) \in 1..Len(list) /\ Skip(i, j) # i
      /\ \A j \in 1..Len(list) : j # i => \E m \in 1..Len(list)-1 : Skip(i, m) = j
  BY <1>1, SkipIs
<1>4. ASSUME NEW x \in DOMAIN idx
      PROVE  \E m \in 1..Len(l) : idx[x] = l[m] /\ cells[l[m]].key = x
  <2>1. x \in DOMAIN index /\ x # k /\ idx[x] = index[x]
    OBVIOUS
  <2>2. PICK j \in 1..Len(list) : index[x] = list[j] /\ cells[list[j]].key = x
    BY <2>1 DEF Indexes
  <2>3. PICK m \in 1..Len(list)-1 : Skip(i, m) = j
    BY <2>1, <2>2, <1>3
  <2> QED BY <2>1, <2>2, <2>3, <1>2
<1>5. ASSUME NEW j \in 1..Len(l)
      PROVE  cells[l[j]].key \in DOMAIN idx /\ idx[cells[l[j]].key] = l[j]
  <2>1. l[j] = list[Skip(i, j)] /\ Skip(i, j) \in 1..Len(list) /\ Skip(i, j) # i
    BY <1>2, <1>3
  <2>2. /\ cells[l[j]].key \in DOMAIN index /\ index[cells[l[j]].key] = l[j]
        /\ index[k] = list[i]
    BY <2>1 DEF Indexes
  <2>3. l[j] # list[i]
    BY <2>1 DEF OneEach
  <2>4. cells[l[j]].key # k
    BY <2>2, <2>3
  <2> QED BY <2>2, <2>4
<1> QED BY <1>4, <1>5 DEF Indexes, l

\* A new cell, or the first of the free ones, goes to the front.
LEMMA LinkFits ==
  ASSUME NEW list \in Seq(Nat), NEW free \in Seq(Nat), NEW n \in Nat, Linked(list, free, n)
  PROVE  /\ free = <<>> => Linked(<<n + 1>> \o list, <<>>, n + 1)
         /\ free # <<>> => Linked(<<Head(free)>> \o list, Tail(free), n)
<1>1. Len(list) \in Nat /\ Len(free) \in Nat
  OBVIOUS
<1>2. ASSUME NEW c \in Nat, NEW f \in Seq(Nat), NEW p \in Nat, n <= p, c \in 1..p,
             \A j \in 1..Len(list) : list[j] # c,
             \A j \in 1..Len(f) : f[j] \in 1..n /\ f[j] # c /\ \A m \in 1..Len(list) : list[m] # f[j],
             OneEach(f), Len(list) + 1 + Len(f) = p
      PROVE  Linked(<<c>> \o list, f, p)
  <2> DEFINE l == <<c>> \o list
  <2>1. /\ Len(l) = Len(list) + 1 /\ l[1] = c
        /\ \A j \in 2..(Len(list) + 1) : l[j] = list[j - 1]
    BY <1>2, PushedIs
  <2> HIDE DEF l
  <2>2. \A j \in 1..Len(l) : j = 1 \/ (j - 1 \in 1..Len(list) /\ l[j] = list[j - 1])
    BY <1>1, <2>1
  <2>3. ASSUME NEW j \in 1..Len(l) PROVE l[j] \in 1..p
    <3>1. CASE j = 1
      BY <3>1, <2>1, <1>2
    <3>2. CASE j # 1
      <4>1. j - 1 \in 1..Len(list) /\ l[j] = list[j - 1]
        BY <3>2, <2>2
      <4>2. l[j] \in 1..n
        BY <4>1 DEF Linked
      <4> QED BY <4>2, <1>2
    <3> QED BY <3>1, <3>2
  <2>4. OneEach(l)
    <3> SUFFICES ASSUME NEW j \in 1..Len(l), NEW m \in 1..Len(l), l[j] = l[m] PROVE j = m
      BY DEF OneEach
    <3>1. CASE j = 1 /\ m = 1
      BY <3>1
    <3>2. CASE j = 1 /\ m # 1
      BY <3>2, <2>1, <2>2, <1>2
    <3>3. CASE j # 1 /\ m = 1
      BY <3>3, <2>1, <2>2, <1>2
    <3>4. CASE j # 1 /\ m # 1
      <4>1. j - 1 \in 1..Len(list) /\ m - 1 \in 1..Len(list) /\ list[j - 1] = list[m - 1]
        BY <3>4, <2>2
      <4>2. j - 1 = m - 1
        BY <4>1 DEF Linked, OneEach
      <4> QED BY <4>2, <2>1, <1>1
    <3> QED BY <3>1, <3>2, <3>3, <3>4
  <2>5. \A j \in 1..Len(l), m \in 1..Len(f) : l[j] # f[m]
    BY <1>2, <2>1, <2>2
  <2>6. \A m \in 1..Len(f) : f[m] \in 1..p
    BY <1>2
  <2>7. Len(l) + Len(f) = p
    BY <1>2, <2>1, <1>1
  <2> QED BY <1>2, <2>3, <2>4, <2>5, <2>6, <2>7 DEF Linked, l
<1>3. ASSUME free = <<>> PROVE Linked(<<n + 1>> \o list, <<>>, n + 1)
  <2>1. n + 1 \in Nat /\ <<>> \in Seq(Nat) /\ Len(<<>>) = 0 /\ n <= n + 1 /\ n + 1 \in 1..(n + 1)
    OBVIOUS
  <2>2. \A j \in 1..Len(list) : list[j] # n + 1
    BY DEF Linked
  <2>3. OneEach(<<>>) /\ Len(list) + 1 + Len(<<>>) = n + 1
    BY <1>1, <1>3, <2>1 DEF Linked, OneEach
  <2>4. \A j \in 1..Len(<<>>) : <<>>[j] \in 1..n /\ <<>>[j] # n + 1 /\ \A m \in 1..Len(list) : list[m] # <<>>[j]
    BY <2>1
  <2> QED BY <1>2, <2>1, <2>2, <2>3, <2>4
<1>4. ASSUME free # <<>> PROVE Linked(<<Head(free)>> \o list, Tail(free), n)
  <2>1. /\ Len(free) >= 1 /\ Head(free) = free[1] /\ Tail(free) \in Seq(Nat)
        /\ Len(Tail(free)) = Len(free) - 1
        /\ \A j \in 1..Len(free)-1 : Tail(free)[j] = free[j + 1]
    BY <1>4, <1>1, HeadTailProperties, EmptySeq
  <2> DEFINE c == Head(free)
             f == Tail(free)
  <2> HIDE DEF c, f
  <2>2. c = free[1] /\ c \in Nat /\ c \in 1..n /\ \A j \in 1..Len(list) : list[j] # c
    BY <1>1, <2>1, ElementOfSeq DEF c, Linked
  <2>3. f \in Seq(Nat) /\ Len(f) = Len(free) - 1 /\ \A j \in 1..Len(f) : j + 1 \in 1..Len(free) /\ f[j] = free[j + 1]
    BY <1>1, <2>1 DEF f
  <2>4. \A j \in 1..Len(f) : f[j] \in 1..n /\ f[j] # c /\ \A m \in 1..Len(list) : list[m] # f[j]
    <3> SUFFICES ASSUME NEW j \in 1..Len(f)
                 PROVE  f[j] \in 1..n /\ f[j] # c /\ \A m \in 1..Len(list) : list[m] # f[j]
      OBVIOUS
    <3>0. j + 1 \in 1..Len(free) /\ f[j] = free[j + 1]
      BY <2>3
    <3>1. j \in Nat /\ j + 1 # 1 /\ 1 \in 1..Len(free)
      BY <2>1, <2>3, <1>1
    <3>2. free[j + 1] # free[1]
      BY <3>0, <3>1 DEF Linked, OneEach
    <3> QED BY <3>0, <3>2, <2>2 DEF Linked
  <2>5. OneEach(f)
    <3> SUFFICES ASSUME NEW j \in 1..Len(f), NEW m \in 1..Len(f), f[j] = f[m] PROVE j = m
      BY DEF OneEach
    <3>1. j + 1 \in 1..Len(free) /\ m + 1 \in 1..Len(free) /\ free[j + 1] = free[m + 1]
      BY <2>3
    <3>2. j + 1 = m + 1
      BY <3>1 DEF Linked, OneEach
    <3> QED BY <3>2, <2>3, <1>1
  <2>6. Len(list) + 1 + Len(f) = n
    <3>1. Len(f) = Len(free) - 1 /\ Len(list) + Len(free) = n
      BY <2>3 DEF Linked
    <3>a. \A a, b \in Nat : a + b = n => a + 1 + (b - 1) = n
      OBVIOUS
    <3>2. Len(list) + 1 + (Len(free) - 1) = n
      BY <3>1, <1>1, <3>a
    <3> QED BY <3>1, <3>2, Zenon
  <2>7. Linked(<<c>> \o list, f, n)
    <3>1. n <= n
      OBVIOUS
    <3> QED BY <1>2, <2>2, <2>3, <2>4, <2>5, <2>6, <3>1
  <2> QED BY <2>7 DEF c, f
<1> QED BY <1>3, <1>4

\* An index with one key more, and cells with the same keys as before in a list.
Adds(idx, index, k, c) ==
  /\ DOMAIN idx = DOMAIN index \cup {k} /\ idx[k] = c
  /\ \A x \in DOMAIN index : idx[x] = index[x]
SameKeys(list, cells, then) == \A j \in 1..Len(list) : then[list[j]].key = cells[list[j]].key

LEMMA NewIndexFits ==
  ASSUME NEW list \in Seq(Nat), NEW index, NEW cells, Indexes(index, list, cells),
         NEW c \in Nat, NEW k, k \notin DOMAIN index,
         NEW then, then[c].key = k, SameKeys(list, cells, then),
         NEW idx, Adds(idx, index, k, c)
  PROVE  Indexes(idx, <<c>> \o list, then)
<1> USE DEF Adds, SameKeys
<1> DEFINE l == <<c>> \o list
<1>1. Len(list) \in Nat
  OBVIOUS
<1>2. /\ Len(l) = Len(list) + 1 /\ l[1] = c
      /\ \A j \in 1..Len(list) : l[j + 1] = list[j]
      /\ \A j \in 2..(Len(list) + 1) : l[j] = list[j - 1]
  BY PushedIs
<1> HIDE DEF l
<1>3. ASSUME NEW x \in DOMAIN idx
      PROVE  \E m \in 1..Len(l) : idx[x] = l[m] /\ then[l[m]].key = x
  <2>1. CASE x = k
    <3>1. 1 \in 1..Len(l) /\ idx[x] = l[1] /\ then[l[1]].key = x
      BY <2>1, <1>1, <1>2
    <3> QED BY <3>1
  <2>2. CASE x # k
    <3>1. PICK j \in 1..Len(list) : index[x] = list[j] /\ cells[list[j]].key = x
      BY <2>2 DEF Indexes
    <3>2. j + 1 \in 1..Len(l) /\ idx[x] = l[j + 1] /\ then[l[j + 1]].key = x
      BY <3>1, <2>2, <1>1, <1>2
    <3> QED BY <3>2
  <2> QED BY <2>1, <2>2
<1>4. ASSUME NEW j \in 1..Len(l)
      PROVE  then[l[j]].key \in DOMAIN idx /\ idx[then[l[j]].key] = l[j]
  <2>1. CASE j = 1
    BY <2>1, <1>2
  <2>2. CASE j # 1
    <3>1. j - 1 \in 1..Len(list) /\ l[j] = list[j - 1]
      BY <2>2, <1>1, <1>2
    <3>2. then[l[j]].key = cells[list[j - 1]].key
      BY <3>1
    <3>3. then[l[j]].key \in DOMAIN index /\ index[then[l[j]].key] = l[j]
      BY <3>1, <3>2 DEF Indexes
    <3> QED BY <3>3
  <2> QED BY <2>1, <2>2
<1> QED BY <1>3, <1>4 DEF Indexes, l

-----------------------------------------------------------------------------
\* Get gives an old entry up.
LEMMA GetExpiredKeeps ==
  ASSUME CacheInv, NEW k \in CacheKeys, NEW now \in Now, GetExpired(k, now)
  PROVE  CacheInv'
<1>1. k \in DOMAIN entry_index_
  BY DEF GetExpired
<1>2. PICK i \in 1..Len(entry_list_) :
           /\ i \in 1..Len(recent)
           /\ entry_index_[k] = entry_list_[i] /\ Place(entry_list_, entry_index_[k]) = i
           /\ cell[entry_list_[i]] = recent[i] /\ recent[i].key = k
           /\ entry_list_[i] \in 1..Len(cell)
           /\ LastUse(k) = i /\ Forgotten(k) = Without(recent, i)
  BY <1>1, CachedKey
<1>3. /\ entry_index_' = IndexWithout(k)
      /\ free_entry_' = <<entry_list_[i]>> \o free_entry_
      /\ entry_list_' = Without(entry_list_, i)
      /\ recent' = Without(recent, i)
      /\ cache_size_' = cache_size_ - 1
      /\ lastGet' = NoGet
      /\ UNCHANGED <<capacity_, cell, cacheCrashed>>
  BY <1>2 DEF GetExpired, Unlinked
<1>4. /\ entry_list_ \in Seq(Nat) /\ free_entry_ \in Seq(Nat) /\ recent \in Seq(Entries)
      /\ Len(entry_list_) \in Nat /\ Len(recent) \in Nat /\ Len(cell) \in Nat
      /\ capacity_ \in Nat
      /\ Len(entry_list_) = cache_size_ /\ cache_size_ <= Len(recent) /\ cache_size_ <= capacity_
      /\ Linked(entry_list_, free_entry_, Len(cell)) /\ Len(cell) <= capacity_
  BY DEF CacheInv, CacheTypeOK, CellsFit, OrderFits
<1>5. /\ entry_list_' \in Seq(Nat) /\ Len(entry_list_') = Len(entry_list_) - 1
      /\ \A j \in 1..Len(entry_list_)-1 : entry_list_'[j] = entry_list_[Skip(i, j)]
  BY <1>3, <1>4, WithoutSkips
<1>6. /\ recent' \in Seq(Entries) /\ Len(recent') = Len(recent) - 1
      /\ \A j \in 1..Len(recent)-1 : recent'[j] = recent[Skip(i, j)]
  BY <1>2, <1>3, <1>4, WithoutSkips
<1>7. free_entry_' \in Seq(Nat)
  <2>1. entry_list_[i] \in Nat
    BY <1>4, ElementOfSeq
  <2> QED BY <2>1, <1>3, <1>4, PushedIs
<1>8. CacheTypeOK'
  <2>1. cache_size_' \in Nat
    BY <1>3, <1>4
  <2> QED BY <1>3, <1>5, <1>6, <1>7, <2>1 DEF CacheTypeOK, CacheInv
<1>9. CellsFit'
  <2>1. Linked(Without(entry_list_, i), <<entry_list_[i]>> \o free_entry_, Len(cell))
    BY <1>4, UnlinkFits
  <2>2. Linked(entry_list_', free_entry_', Len(cell'))
    BY <2>1, <1>3
  <2>3. Len(entry_list_') = cache_size_' /\ cache_size_' <= capacity_' /\ Len(cell') <= capacity_'
    BY <1>3, <1>4, <1>5
  <2> QED BY <2>2, <2>3 DEF CellsFit
<1>10. IndexFits'
  <2>1. OneEach(entry_list_) /\ Indexes(entry_index_, entry_list_, cell)
    BY <1>4 DEF Linked, CacheInv, IndexFits
  <2>2. Indexes([x \in DOMAIN entry_index_ \ {cell[entry_list_[i]].key} |-> entry_index_[x]],
                Without(entry_list_, i), cell)
    BY <2>1, <1>4, UnindexFits
  <2> QED BY <2>2, <1>2, <1>3 DEF IndexFits, IndexWithout
<1>11. OrderFits'
  <2>1. /\ \A j \in 1..Len(entry_list_)-1 : Skip(i, j) \in 1..Len(entry_list_)
        /\ \A j \in 1..Len(recent)-1 : Skip(i, j) \in 1..Len(recent)
        /\ \A j, m \in 1..Len(recent)-1 : Skip(i, j) = Skip(i, m) => j = m
    BY <1>2, <1>4, SkipIs
  <2>2. ASSUME NEW j \in 1..cache_size_' PROVE cell[entry_list_'[j]] = recent'[j]
    <3>1. j \in 1..Len(entry_list_)-1 /\ j \in 1..Len(recent)-1
      BY <1>3, <1>4
    <3>2. Skip(i, j) \in 1..cache_size_ /\ entry_list_'[j] = entry_list_[Skip(i, j)] /\ recent'[j] = recent[Skip(i, j)]
      BY <3>1, <1>4, <1>5, <1>6, <2>1
    <3> QED BY <3>2 DEF CacheInv, OrderFits
  <2>3. ASSUME NEW j \in 1..Len(recent'), NEW m \in 1..Len(recent'), recent'[j].key = recent'[m].key
        PROVE  j = m
    <3>1. j \in 1..Len(recent)-1 /\ m \in 1..Len(recent)-1
      BY <1>6
    <3>2. /\ Skip(i, j) \in 1..Len(recent) /\ Skip(i, m) \in 1..Len(recent)
          /\ recent[Skip(i, j)].key = recent[Skip(i, m)].key
      BY <3>1, <2>1, <2>3, <1>6
    <3>3. Skip(i, j) = Skip(i, m)
      BY <3>2 DEF CacheInv, OrderFits
    <3> QED BY <3>1, <3>3, <2>1
  <2>4. cache_size_' <= Len(recent')
    BY <1>3, <1>4, <1>6
  <2> QED BY <1>3, <2>2, <2>3, <2>4 DEF OrderFits
<1>12. HitsAreFresh'
  BY <1>3 DEF HitsAreFresh, NoGet
<1> QED BY <1>3, <1>8, <1>9, <1>10, <1>11, <1>12 DEF CacheInv

\* The order of use without a key that is not cached still begins with the cached ones.
LEMMA ForgottenIs ==
  ASSUME CacheInv, NEW k, k \notin DOMAIN entry_index_
  PROVE  /\ Forgotten(k) \in Seq(Entries) /\ cache_size_ <= Len(Forgotten(k))
         /\ \A j \in 1..cache_size_ : Forgotten(k)[j] = recent[j]
         /\ \A j \in 1..Len(Forgotten(k)) : Forgotten(k)[j].key # k
         /\ \A j, m \in 1..Len(Forgotten(k)) : Forgotten(k)[j].key = Forgotten(k)[m].key => j = m
<1>1. /\ recent \in Seq(Entries) /\ Len(recent) \in Nat /\ cache_size_ \in Nat
      /\ cache_size_ <= Len(recent) /\ DOMAIN recent = 1..Len(recent)
      /\ Len(entry_list_) = cache_size_
  BY DEF CacheInv, CacheTypeOK, OrderFits, CellsFit
<1>2. \A i, j \in 1..Len(recent) : recent[i].key = recent[j].key => i = j
  BY DEF CacheInv, OrderFits
<1>3. CASE UseOf(k) = {}
  <2>1. Forgotten(k) = recent
    BY <1>3 DEF Forgotten
  <2>2. \A j \in 1..Len(recent) : recent[j].key # k
    BY <1>1, <1>3 DEF UseOf
  <2> QED BY <1>1, <1>2, <2>1, <2>2
<1>4. CASE UseOf(k) # {}
  <2> DEFINE u == LastUse(k)
             f == Forgotten(k)
  <2>1. u \in 1..Len(recent) /\ recent[u].key = k
    BY <1>1, <1>4 DEF LastUse, UseOf
  <2> HIDE DEF u
  <2>2. f = Without(recent, u)
    BY <1>4 DEF Forgotten, u
  <2> HIDE DEF f
  <2>3. /\ f \in Seq(Entries) /\ Len(f) = Len(recent) - 1
        /\ \A j \in 1..Len(recent)-1 : f[j] = recent[Skip(u, j)]
    BY <1>1, <2>1, <2>2, WithoutSkips
  <2>4. /\ \A j \in 1..Len(recent)-1 : Skip(u, j) \in 1..Len(recent) /\ Skip(u, j) # u
        /\ \A j, m \in 1..Len(recent)-1 : Skip(u, j) = Skip(u, m) => j = m
    BY <1>1, <2>1, SkipIs
  <2>5. cache_size_ < u
    <3> SUFFICES ASSUME u \in 1..cache_size_ PROVE FALSE
      BY <1>1, <2>1
    <3>1. cell[entry_list_[u]].key = k
      BY <2>1 DEF CacheInv, OrderFits
    <3> QED BY <3>1, <1>1 DEF CacheInv, IndexFits, Indexes
  <2>6. cache_size_ <= Len(f)
    BY <1>1, <2>1, <2>3, <2>5
  <2>7. ASSUME NEW j \in 1..cache_size_ PROVE f[j] = recent[j]
    <3>1. j \in 1..Len(recent)-1 /\ Skip(u, j) = j
      BY <1>1, <2>1, <2>5 DEF Skip
    <3> QED BY <3>1, <2>3
  <2>8. ASSUME NEW j \in 1..Len(f) PROVE f[j].key # k
    <3>1. j \in 1..Len(recent)-1
      BY <2>3
    <3>2. f[j] = recent[Skip(u, j)] /\ Skip(u, j) \in 1..Len(recent) /\ Skip(u, j) # u
      BY <3>1, <2>3, <2>4
    <3> QED BY <3>2, <1>2, <2>1
  <2>9. ASSUME NEW j \in 1..Len(f), NEW m \in 1..Len(f), f[j].key = f[m].key PROVE j = m
    <3>1. j \in 1..Len(recent)-1 /\ m \in 1..Len(recent)-1
      BY <2>3
    <3>2. /\ Skip(u, j) \in 1..Len(recent) /\ Skip(u, m) \in 1..Len(recent)
          /\ recent[Skip(u, j)].key = recent[Skip(u, m)].key
      BY <3>1, <2>3, <2>4, <2>9
    <3>3. Skip(u, j) = Skip(u, m)
      BY <3>2, <1>2
    <3> QED BY <3>1, <3>3, <2>4
  <2> QED BY <2>3, <2>6, <2>7, <2>8, <2>9 DEF f
<1> QED BY <1>3, <1>4

\* SubSeq and Without agree on what is left when the last element goes.
LEMMA LastOut ==
  ASSUME NEW s \in Seq(Nat), s # <<>>
  PROVE  /\ Len(s) \in 1..Len(s) /\ SubSeq(s, 1, Len(s) - 1) = Without(s, Len(s))
         /\ \A j \in 1..Len(s)-1 : Without(s, Len(s))[j] = s[j]
<1>1. Len(s) \in Nat /\ Len(s) # 0
  BY EmptySeq
<1>2. Len(s) \in 1..Len(s) /\ Len(s) - 1 \in Nat
  BY <1>1
<1>3. \A j \in 1..Len(s)-1 : Without(s, Len(s))[j] = s[j]
  BY <1>1 DEF Without
<1>4. /\ Without(s, Len(s)) \in Seq(Nat) /\ Len(Without(s, Len(s))) = Len(s) - 1
  BY <1>2, WithoutIs
<1>5. /\ SubSeq(s, 1, Len(s) - 1) \in Seq(Nat) /\ Len(SubSeq(s, 1, Len(s) - 1)) = Len(s) - 1
      /\ \A j \in 1..Len(s)-1 : SubSeq(s, 1, Len(s) - 1)[j] = s[j]
  <2>1. \A j \in 1..Len(s)-1 : s[j] \in Nat
    BY <1>1, ElementOfSeq
  <2>2. /\ SubSeq(s, 1, Len(s) - 1) \in Seq(Nat)
        /\ Len(SubSeq(s, 1, Len(s) - 1)) = IF 1 <= Len(s) - 1 THEN Len(s) - 1 - 1 + 1 ELSE 0
        /\ \A j \in 1..(Len(s) - 1 - 1 + 1) : SubSeq(s, 1, Len(s) - 1)[j] = s[1 + j - 1]
    BY <1>2, <2>1, SubSeqProperties
  <2>3. Len(s) - 1 - 1 + 1 = Len(s) - 1 /\ \A j \in 1..Len(s)-1 : 1 + j - 1 = j
    BY <1>1
  <2> QED BY <1>1, <2>2, <2>3
<1>6. SubSeq(s, 1, Len(s) - 1) = Without(s, Len(s))
  BY <1>3, <1>4, <1>5, SeqEqual
<1> QED BY <1>2, <1>3, <1>6

\* Put makes room, if it must, and takes a cell.
LEMMA PutNewKeeps ==
  ASSUME CacheInv, NEW k \in CacheKeys, NEW v \in CacheValues, NEW now \in Now, PutNew(k, v, now)
  PROVE  CacheInv'
<1> DEFINE full == cache_size_ >= capacity_
           last == entry_list_[Len(entry_list_)]
           list == IF full THEN SubSeq(entry_list_, 1, Len(entry_list_) - 1) ELSE entry_list_
           free == IF full THEN <<last>> \o free_entry_ ELSE free_entry_
           index == IF full THEN EvictedIndex ELSE entry_index_
           c == IF free = <<>> THEN Len(cell) + 1 ELSE Head(free)
           e == [key |-> k, val |-> v, ts |-> now]
<1>1. /\ k \notin DOMAIN entry_index_
      /\ full => entry_list_ # <<>>
      /\ cell' = IF free = <<>> THEN Append(cell, e) ELSE [cell EXCEPT ![c] = e]
      /\ entry_list_' = <<c>> \o list
      /\ free_entry_' = IF free = <<>> THEN <<>> ELSE Tail(free)
      /\ cache_size_' = IF full THEN cache_size_ ELSE cache_size_ + 1
      /\ entry_index_' = [x \in DOMAIN index \cup {k} |-> IF x = k THEN c ELSE index[x]]
      /\ recent' = <<e>> \o Forgotten(k)
      /\ lastGet' = NoGet
      /\ UNCHANGED <<capacity_, cacheCrashed>>
  BY DEF PutNew
<1>2. /\ entry_list_ \in Seq(Nat) /\ free_entry_ \in Seq(Nat) /\ cell \in Seq(Entries)
      /\ Len(entry_list_) \in Nat /\ Len(cell) \in Nat
      /\ capacity_ \in Nat /\ cache_size_ \in Nat
      /\ Len(entry_list_) = cache_size_ /\ cache_size_ <= capacity_
      /\ Linked(entry_list_, free_entry_, Len(cell)) /\ Len(cell) <= capacity_
      /\ Indexes(entry_index_, entry_list_, cell)
  BY DEF CacheInv, CacheTypeOK, CellsFit, IndexFits
<1>3. /\ list \in Seq(Nat) /\ free \in Seq(Nat)
      /\ Linked(list, free, Len(cell)) /\ Indexes(index, list, cell)
      /\ k \notin DOMAIN index
      /\ Len(list) = IF full THEN cache_size_ - 1 ELSE cache_size_
      /\ \A j \in 1..Len(list) : list[j] = entry_list_[j]
  <2>1. CASE ~full
    BY <2>1, <1>1, <1>2
  <2>2. CASE full
    <3>1. /\ Len(entry_list_) \in 1..Len(entry_list_)
          /\ list = Without(entry_list_, Len(entry_list_))
          /\ \A j \in 1..Len(entry_list_)-1 : Without(entry_list_, Len(entry_list_))[j] = entry_list_[j]
      BY <2>2, <1>1, <1>2, LastOut
    <3>2. list \in Seq(Nat) /\ Len(list) = Len(entry_list_) - 1
      BY <3>1, <1>2, WithoutIs
    <3>3. free = <<last>> \o free_entry_ /\ last \in Nat
      BY <2>2, <3>1, <1>2, ElementOfSeq
    <3>4. free \in Seq(Nat)
      BY <3>3, <1>2, PushedIs
    <3>5. Linked(list, free, Len(cell))
      <4>1. Linked(Without(entry_list_, Len(entry_list_)), <<entry_list_[Len(entry_list_)]>> \o free_entry_, Len(cell))
        BY <3>1, <1>2, UnlinkFits
      <4> QED BY <4>1, <3>1, <3>3
    <3>6. index = [x \in DOMAIN entry_index_ \ {cell[last].key} |-> entry_index_[x]]
      BY <2>2 DEF EvictedIndex, IndexWithout
    <3>7. Indexes(index, list, cell)
      <4>1. OneEach(entry_list_)
        BY <1>2 DEF Linked
      <4>2. Indexes([x \in DOMAIN entry_index_ \ {cell[entry_list_[Len(entry_list_)]].key} |-> entry_index_[x]],
                    Without(entry_list_, Len(entry_list_)), cell)
        BY <4>1, <3>1, <1>2, UnindexFits
      <4> HIDE DEF list, index
      <4> QED BY <4>2, <3>1, <3>6
    <3>8. k \notin DOMAIN index
      BY <3>6, <1>1
    <3> QED BY <2>2, <3>1, <3>2, <3>4, <3>5, <3>7, <3>8, <1>2
  <2> QED BY <2>1, <2>2
<1> HIDE DEF list, free, index
<1>4. /\ Len(list) \in Nat /\ Len(list) < capacity_ /\ Len(list) <= cache_size_
      /\ cache_size_' = Len(list) + 1 /\ cache_size_' \in Nat /\ cache_size_' <= capacity_
  <2>1. CASE full
    <3>1. entry_list_ # <<>> /\ Len(entry_list_) # 0
      BY <2>1, <1>1, <1>2, EmptySeq
    <3> QED BY <2>1, <3>1, <1>1, <1>2, <1>3
  <2>2. CASE ~full
    BY <2>2, <1>1, <1>2, <1>3
  <2> QED BY <2>1, <2>2
<1>5. /\ c \in Nat /\ \A j \in 1..Len(list) : list[j] # c /\ list[j] \in 1..Len(cell)
      /\ Linked(<<c>> \o list, free_entry_', Len(cell'))
      /\ cell' \in Seq(Entries) /\ cell'[c] = e /\ \A d \in 1..Len(cell) : d # c => cell'[d] = cell[d]
      /\ free_entry_' \in Seq(Nat) /\ Len(cell') <= capacity_
  <2>e. e \in Entries
    BY DEF Entries
  <2> HIDE DEF e
  <2>1. CASE free = <<>>
    <3>1. c = Len(cell) + 1 /\ c \in Nat /\ free_entry_' = <<>> /\ cell' = Append(cell, e)
      BY <2>1, <1>1, <1>2
    <3>2. /\ cell' \in Seq(Entries) /\ Len(cell') = Len(cell) + 1 /\ cell'[Len(cell) + 1] = e
          /\ \A d \in 1..Len(cell) : cell'[d] = cell[d]
      BY <3>1, <2>e, <1>2, AppendProperties
    <3>3. Linked(<<c>> \o list, <<>>, Len(cell) + 1)
      BY <2>1, <3>1, <1>2, <1>3, LinkFits
    <3>4. \A j \in 1..Len(list) : list[j] \in 1..Len(cell)
      BY <1>3 DEF Linked
    <3>5. \A j \in 1..Len(list) : list[j] # c
      BY <3>1, <3>4, <1>2
    <3>6. Len(cell) = Len(list)
      <4>1. Len(list) + Len(free) = Len(cell) /\ Len(free) = 0
        BY <2>1, <1>3 DEF Linked
      <4> QED BY <4>1, <1>4
    <3>7. <<>> \in Seq(Nat) /\ Len(cell') <= capacity_
      BY <3>2, <3>6, <1>2, <1>4
    <3> QED BY <3>1, <3>2, <3>3, <3>4, <3>5, <3>7
  <2>2. CASE free # <<>>
    <3>1. c = Head(free) /\ free_entry_' = Tail(free) /\ cell' = [cell EXCEPT ![c] = e]
      BY <2>2, <1>1
    <3>2. Linked(<<c>> \o list, Tail(free), Len(cell))
      BY <2>2, <3>1, <1>2, <1>3, LinkFits
    <3>3. Len(free) \in Nat /\ Len(free) # 0
      BY <2>2, <1>3, EmptySeq
    <3>4. c = free[1] /\ 1 \in 1..Len(free) /\ Tail(free) \in Seq(Nat)
      BY <2>2, <3>1, <3>3, <1>3, HeadTailProperties
    <3>5. c \in 1..Len(cell) /\ \A j \in 1..Len(list) : list[j] # c /\ list[j] \in 1..Len(cell)
      BY <3>4, <1>3 DEF Linked
    <3>6. /\ cell' \in Seq(Entries) /\ Len(cell') = Len(cell) /\ cell'[c] = e
          /\ \A d \in 1..Len(cell) : d # c => cell'[d] = cell[d]
      BY <3>1, <3>5, <2>e, <1>2
    <3>7. c \in Nat
      BY <3>5, <1>2
    <3> QED BY <3>1, <3>2, <3>4, <3>5, <3>6, <3>7, <1>2
  <2> QED BY <2>1, <2>2
<1> HIDE DEF c
<1>6. /\ entry_list_' \in Seq(Nat) /\ Len(entry_list_') = Len(list) + 1 /\ entry_list_'[1] = c
      /\ \A j \in 2..(Len(list) + 1) : entry_list_'[j] = list[j - 1]
  <2>1. entry_list_' = <<c>> \o list /\ list \in Seq(Nat) /\ c \in Nat
    BY <1>1, <1>3, <1>5
  <2> QED BY <2>1, PushedIs
<1>7. /\ Forgotten(k) \in Seq(Entries) /\ cache_size_ <= Len(Forgotten(k))
      /\ \A j \in 1..cache_size_ : Forgotten(k)[j] = recent[j]
      /\ \A j \in 1..Len(Forgotten(k)) : Forgotten(k)[j].key # k
      /\ \A j, m \in 1..Len(Forgotten(k)) : Forgotten(k)[j].key = Forgotten(k)[m].key => j = m
  BY <1>1, ForgottenIs
<1> DEFINE f == Forgotten(k)
<1> HIDE DEF f
<1>8. /\ recent' \in Seq(Entries) /\ Len(recent') = Len(f) + 1 /\ recent'[1] = e
      /\ \A j \in 2..(Len(f) + 1) : recent'[j] = f[j - 1]
  <2>1. e \in Entries /\ f \in Seq(Entries) /\ recent' = <<e>> \o f
    BY <1>1, <1>7 DEF Entries, f
  <2> QED BY <2>1, PushedIs
<1>9. CacheTypeOK'
  BY <1>1, <1>4, <1>5, <1>6, <1>8 DEF CacheTypeOK, CacheInv
<1>10. CellsFit'
  <2>1. Linked(entry_list_', free_entry_', Len(cell'))
    BY <1>1, <1>5
  <2> QED BY <2>1, <1>1, <1>4, <1>5, <1>6 DEF CellsFit
<1>11. IndexFits'
  <2>1. cell'[c].key = k /\ SameKeys(list, cell, cell')
    BY <1>5 DEF SameKeys
  <2>2. Adds(entry_index_', index, k, c)
    BY <1>1, <1>3 DEF Adds
  <2>3. Indexes(entry_index_', <<c>> \o list, cell')
    <3>1. list \in Seq(Nat) /\ Indexes(index, list, cell) /\ k \notin DOMAIN index /\ c \in Nat
      BY <1>3, <1>5
    <3> QED BY <2>1, <2>2, <3>1, NewIndexFits
  <2> QED BY <2>3, <1>1 DEF IndexFits
<1>12. OrderFits'
  <2>1. Len(f) \in Nat /\ cache_size_ <= Len(f)
    BY <1>7 DEF f
  <2>2. ASSUME NEW j \in 1..cache_size_' PROVE cell'[entry_list_'[j]] = recent'[j]
    <3>1. CASE j = 1
      BY <3>1, <1>5, <1>6, <1>8
    <3>2. CASE j # 1
      <4>1. /\ j \in 2..(Len(list) + 1) /\ j \in 2..(Len(f) + 1)
            /\ j - 1 \in 1..Len(list) /\ j - 1 \in 1..cache_size_
        BY <3>2, <1>2, <1>4, <2>1
      <4>2. entry_list_'[j] = list[j - 1] /\ recent'[j] = f[j - 1] /\ f[j - 1] = recent[j - 1]
        BY <4>1, <1>6, <1>7, <1>8 DEF f
      <4>3. cell'[list[j - 1]] = cell[list[j - 1]] /\ list[j - 1] = entry_list_[j - 1]
        BY <4>1, <1>3, <1>5
      <4>4. cell[entry_list_[j - 1]] = recent[j - 1]
        BY <4>1 DEF CacheInv, OrderFits
      <4> QED BY <4>2, <4>3, <4>4
    <3> QED BY <3>1, <3>2
  <2>3. \A j \in 1..Len(recent') : j = 1 \/ (j - 1 \in 1..Len(f) /\ recent'[j] = f[j - 1])
    BY <1>8, <2>1
  <2>4. /\ \A j \in 1..Len(f) : f[j].key # k
        /\ \A j, m \in 1..Len(f) : f[j].key = f[m].key => j = m
    BY <1>7 DEF f
  <2>5. ASSUME NEW j \in 1..Len(recent'), NEW m \in 1..Len(recent'), recent'[j].key = recent'[m].key
        PROVE  j = m
    <3>0. recent'[1].key = k
      BY <1>8
    <3>1. CASE j = 1 /\ m = 1
      BY <3>1
    <3>2. CASE j = 1 /\ m # 1
      BY <3>2, <3>0, <2>3, <2>4, <2>5
    <3>3. CASE j # 1 /\ m = 1
      BY <3>3, <3>0, <2>3, <2>4, <2>5
    <3>4. CASE j # 1 /\ m # 1
      <4>1. j - 1 \in 1..Len(f) /\ m - 1 \in 1..Len(f) /\ f[j - 1].key = f[m - 1].key
        BY <3>4, <2>3, <2>5
      <4>2. j - 1 = m - 1
        BY <4>1, <2>4
      <4> QED BY <4>2, <1>8, <2>1
    <3> QED BY <3>1, <3>2, <3>3, <3>4
  <2>6. cache_size_' <= Len(recent')
    BY <1>2, <1>4, <1>8, <2>1
  <2> QED BY <2>2, <2>5, <2>6 DEF OrderFits
<1>13. HitsAreFresh'
  BY <1>1 DEF HitsAreFresh, NoGet
<1>14. (cacheCrashed => capacity_ = 0)'
  BY <1>1 DEF CacheInv
<1> QED BY <1>9, <1>10, <1>11, <1>12, <1>13, <1>14 DEF CacheInv

LEMMA CacheInvNext == CacheInv /\ [CacheNext]_cacheVars => CacheInv'
<1> SUFFICES ASSUME CacheInv, [CacheNext]_cacheVars PROVE CacheInv'
  OBVIOUS
<1>1. CASE UNCHANGED cacheVars
  BY <1>1 DEF cacheVars, CacheInv, CacheTypeOK, CellsFit, IndexFits, OrderFits, HitsAreFresh
<1>2. ASSUME NEW k \in CacheKeys, GetMiss(k) PROVE CacheInv'
  <2>1. HitsAreFresh'
    BY <1>2 DEF GetMiss, HitsAreFresh, NoGet
  <2> QED BY <1>2, <2>1 DEF GetMiss, CacheInv, CacheTypeOK, CellsFit, IndexFits, OrderFits
<1>3. ASSUME NEW k \in CacheKeys, PutCrashes(k) PROVE CacheInv'
  <2>1. capacity_ = 0
    <3>1. Len(entry_list_) = 0 /\ Len(entry_list_) = cache_size_ /\ cache_size_ >= capacity_ /\ capacity_ \in Nat
      BY <1>3 DEF PutCrashes, CacheInv, CellsFit, CacheTypeOK
    <3> QED BY <3>1
  <2>2. HitsAreFresh'
    BY <1>3 DEF PutCrashes, HitsAreFresh, CacheInv
  <2> QED BY <1>3, <2>1, <2>2 DEF PutCrashes, CacheInv, CacheTypeOK, CellsFit, IndexFits, OrderFits
<1>4. CASE CacheNext
  BY <1>2, <1>3, <1>4, GetHitKeeps, GetExpiredKeeps, PutKnownKeeps, PutNewKeeps DEF CacheNext
<1> QED BY <1>1, <1>4

LEMMA CacheInvSays == CacheInv => CacheOK
<1> SUFFICES ASSUME CacheInv PROVE CacheOK
  OBVIOUS
<1>1. /\ entry_list_ \in Seq(Nat) /\ recent \in Seq(Entries) /\ cache_size_ \in Nat
      /\ Len(entry_list_) = cache_size_ /\ cache_size_ <= Len(recent)
      /\ DOMAIN entry_list_ = 1..cache_size_ /\ Len(recent) \in Nat
  BY DEF CacheInv, CacheTypeOK, CellsFit, OrderFits
<1>2. KeepsMostRecent
  <2> DEFINE s == [i \in DOMAIN entry_list_ |-> cell[entry_list_[i]]]
             t == SubSeq(recent, 1, cache_size_)
  <2>1. \A i \in 1..cache_size_ : cell[entry_list_[i]] = recent[i]
    BY DEF CacheInv, OrderFits
  <2>2. t = [i \in 1..cache_size_ |-> recent[i]]
    BY <1>1
  <2>3. s = [i \in 1..cache_size_ |-> recent[i]]
    BY <1>1, <2>1
  <2> QED BY <2>2, <2>3 DEF KeepsMostRecent
<1>3. Cardinality({entry_index_[k] : k \in DOMAIN entry_index_}) = cache_size_
  <2> DEFINE C == {entry_index_[k] : k \in DOMAIN entry_index_}
  <2>1. \A i \in 1..cache_size_ : entry_list_[i] \in C
    BY <1>1 DEF CacheInv, IndexFits, Indexes
  <2>2. \A d \in C : \E i \in 1..cache_size_ : entry_list_[i] = d
    BY <1>1 DEF CacheInv, IndexFits, Indexes
  <2>3. \A i, j \in 1..cache_size_ : entry_list_[i] = entry_list_[j] => i = j
    BY <1>1 DEF CacheInv, CellsFit, Linked, OneEach
  <2> HIDE DEF C
  <2>4. entry_list_ \in [1..cache_size_ -> C]
    BY <1>1, <2>1
  <2>5. entry_list_ \in Bijection(1..cache_size_, C)
    BY <2>2, <2>3, <2>4 DEF Bijection, Injection, Surjection, IsInjective
  <2>6. ExistsBijection(1..cache_size_, C)
    BY <2>5 DEF ExistsBijection
  <2>7. Cardinality(C) = cache_size_
    BY <1>1, <2>6, FS_CountingElements
  <2> QED BY <2>7 DEF C
<1>4. ASSUME NEW k \in DOMAIN entry_index_
      PROVE  /\ cell[entry_index_[k]].key = k
             /\ entry_index_[k] \in {entry_list_[i] : i \in DOMAIN entry_list_}
  BY <1>1 DEF CacheInv, IndexFits, Indexes
<1>5. /\ Len(entry_list_) + Len(free_entry_) = Len(cell) /\ Len(cell) <= capacity_
      /\ cacheCrashed => capacity_ = 0
  BY DEF CacheInv, CellsFit, Linked
<1> QED BY <1>1, <1>2, <1>3, <1>4, <1>5 DEF CacheOK, IndexMatchesCells, CacheInv

\* Get and Put of the local cache: for any keys, values, capacities and times, a
\* hit is the last value put and not too old, what stays is what was used last,
\* and index, lists and cells describe each other.
THEOREM CacheCorrect == CacheSpec => []CacheOK
<1>1. CacheInit => CacheInv
  BY CacheInvInit
<1>2. CacheInv /\ [CacheNext]_cacheVars => CacheInv'
  BY CacheInvNext
<1>3. CacheInv => CacheOK
  BY CacheInvSays
<1> QED BY <1>1, <1>2, <1>3, PTL DEF CacheSpec
-----------------------------------------------------------------------------
\* The places of BaseRun by what has been reached.
Routed    == {"pool", "init", "server", "publish", "serving"}
Sessioned == {"router"} \cup Routed
Graphed   == {"sessions"} \cup Sessioned
Handled   == {"graphs"} \cup Graphed
Plugged   == {"plugins", "workflow"} \cup Handled
Closing   == {"hide", "stop", "join", "workflowStop", "release", "filesStop"}
Places    == {"idle", "logger", "monitor", "files", "components"} \cup Plugged \cup Closing

LifeType ==
  /\ serverPc \in Places
  /\ requests \in Nat /\ pinging \in Nat /\ runs \in Nat
  /\ status_ = "Start" \/ serverPc # "idle" => runs > 0

\* Every enabled component is set up and has not been released since.
ComponentsReady == toSetup = {} /\ enabled \subseteq Registered \ released

\* What the set-up has made by the time it is at serverPc.
MadeSoFar ==
  /\ serverPc = "components" => /\ toSetup \subseteq enabled
                                /\ enabled \ toSetup \subseteq Registered \ released
  /\ serverPc \in Plugged => ComponentsReady
  /\ serverPc \in {"components"} \cup Plugged => "files" \in up
  /\ serverPc \in Handled => {"workflow", "handlers"} \subseteq up
  /\ serverPc \in Graphed => "graphs" \in up
  /\ serverPc \in Sessioned => "sessions" \in up
  /\ serverPc \in Routed => "router" \in up
  /\ serverPc \in Routed \ {"pool"} => "pool" \in up
  /\ serverPc \in {"publish", "serving"} => "listening" \in up

\* Where the thread in BaseRun may be while a resource exists.
GoneElsewhere ==
  /\ "reporting" \in up => serverPc \in {"serving", "hide"} /\ "listening" \in up
  /\ "register" \in up => serverPc \in {"publish", "serving", "hide"}
  /\ "listening" \in up => serverPc \in {"publish", "serving", "hide", "stop"}
  /\ "server" \in up => serverPc \in {"publish", "serving", "hide", "stop", "join"}
  /\ "pool" \in up => serverPc \in (Routed \ {"pool"}) \cup {"hide", "stop", "join", "workflowStop"}
  /\ "files" \in up => serverPc \in {"components"} \cup Plugged \cup Closing
  /\ serverPc = "filesStop" \/ (serverPc = "idle" /\ runs > 0) => released = Registered

\* Calls are in flight only between the start and the join of brpc, and as
\* long as they may arrive or are in flight nothing they use is taken away.
CallsCovered ==
  /\ requests > 0 \/ pinging > 0 => serverPc \in {"publish", "serving", "hide", "stop", "join"}
  /\ "listening" \in up \/ requests > 0 => Serving \subseteq up /\ ComponentsReady

LifeInv == LifeType /\ MadeSoFar /\ GoneElsewhere /\ CallsCovered

-----------------------------------------------------------------------------
\* However far the set-up came and whichever step failed, the process serves
\* with everything in place or not at all.  LifeOK speaks of the states in
\* which calls are in flight, a report is out or BaseRun has returned; the
\* inductive invariant says of every place in between which resources are there
\* already (MadeSoFar), which are gone (GoneElsewhere), and that brpc is joined
\* before anything a call uses is taken down (CallsCovered).
THEOREM ServesOrNot == LifeSpec => []LifeOK
<1> USE DEF Routed, Sessioned, Graphed, Handled, Plugged, Closing, Places, ComponentsReady
<1>1. LifeInit => LifeInv
  BY DEF LifeInit, LifeInv, LifeType, MadeSoFar, GoneElsewhere, CallsCovered
<1>2. LifeInv /\ [LifeNext]_lifeVars => LifeInv'
  <2> SUFFICES ASSUME LifeInv, [LifeNext]_lifeVars PROVE LifeInv'
    OBVIOUS
  <2> USE DEF LifeInv, LifeType, MadeSoFar, GoneElsewhere, CallsCovered, Serving, calls, flags
  <2>1. CASE SetupOrcLogger
    BY <2>1 DEF SetupOrcLogger, SetupStep
  <2>2. CASE InitMonitorStatus
    BY <2>2 DEF InitMonitorStatus, SetupStep
  <2>3. CASE InitFileMonitor
    BY <2>3 DEF InitFileMonitor, SetupStep
  <2>4. CASE ComponentSetup
    BY <2>4 DEF ComponentSetup
  <2>5. CASE InitPlugins
    BY <2>5 DEF InitPlugins, SetupStep
  <2>6. CASE SetupHandlerMgr
    BY <2>6 DEF SetupHandlerMgr, SetupStep
  <2>7. CASE SetupExecutionGraphMgr
    BY <2>7 DEF SetupExecutionGraphMgr, SetupStep
  <2>8. CASE InitSessionFactory
    BY <2>8 DEF InitSessionFactory, SetupStep
  <2>9. CASE InitWorkflowRouter
    BY <2>9 DEF InitWorkflowRouter, SetupStep
  <2>10. CASE InitThreadPool
    BY <2>10 DEF InitThreadPool, SetupStep
  <2>11. CASE InitServer
    BY <2>11 DEF InitServer, SetupStep
  <2>12. CASE StartServer
    BY <2>12 DEF StartServer, SetupStep
  <2>13. CASE ServicePublish
    BY <2>13 DEF ServicePublish
  <2>14. CASE ServiceHide
    BY <2>14 DEF ServiceHide, GuardStep
  <2>15. CASE StopServer
    BY <2>15 DEF StopServer, GuardStep
  <2>16. CASE Join
    BY <2>16 DEF Join, GuardStep
  <2>17. CASE WorkflowStop
    BY <2>17 DEF WorkflowStop, GuardStep
  <2>18. CASE ReleaseComponents
    BY <2>18 DEF ReleaseComponents, GuardStep
  <2>19. CASE FileMonitorStop
    BY <2>19 DEF FileMonitorStop, GuardStep
  <2>20. CASE BaseRun
    BY <2>20 DEF BaseRun
  <2>21. CASE AlreadyStarted
    BY <2>21 DEF AlreadyStarted
  <2>22. CASE BaseStop
    BY <2>22 DEF BaseStop
  <2>23. CASE LeaveLoop
    BY <2>23 DEF LeaveLoop
  <2>24. CASE Arrives
    BY <2>24 DEF Arrives
  <2>25. CASE Answered
    BY <2>25 DEF Answered
  <2>26. CASE UNCHANGED lifeVars
    BY <2>26 DEF lifeVars
  <2>27. QED
    BY <2>1, <2>2, <2>3, <2>4, <2>5, <2>6, <2>7, <2>8, <2>9, <2>10, <2>11, <2>12, <2>13, <2>14, <2>15, <2>16, <2>17, <2>18, <2>19, <2>20, <2>21, <2>22, <2>23, <2>24, <2>25, <2>26
       DEF LifeNext, Setup, Guard
<1>3. LifeInv => LifeOK
  BY DEF LifeInv, LifeType, MadeSoFar, GoneElsewhere, CallsCovered, LifeOK, RequestFindsServer,
     ReportedMeansListening, NothingLeftBehind
<1>4. QED
  BY <1>1, <1>2, <1>3, PTL DEF LifeSpec
=============================================================================

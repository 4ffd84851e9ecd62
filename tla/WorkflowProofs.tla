--------------------------- MODULE WorkflowProofs ---------------------------
(***************************************************************************)
(* The async hand-off of orc's engine is right for any graph, any number   *)
(* of workers, requests, sessions and calls, and any size of the queue.    *)
(*                                                                         *)
(* HandOffOK is not inductive: that nobody else uses a context while a     *)
(* worker runs its handler follows from where that context's threads, its  *)
(* queued task and its calls in flight were when async_counter_ last       *)
(* changed.  The invariant therefore names the phases of a context, one    *)
(* per value of is_async, async_counter_ and the state, and says for each  *)
(* who holds the context.                                                  *)
(*                                                                         *)
(* The last part is about the pool of threads: what its workers know when  *)
(* they stop makes ~ThreadPool run every task that was accepted, and a     *)
(* count of the stop tasks shows that it is not left waiting for ever in   *)
(* Push or in join when the queue has a slot for each worker.              *)
(***************************************************************************)
EXTENDS Workflow, ThreadPool, FiniteSetTheorems, TLAPS

\* Worker w is in the loop of RunInner, and will use the context of s.
Walks(w, s) == worker[w].session = s /\ worker[w].pc \in {"loop", "step", "invoke"}

NoWalker(s) == \A w \in Workers : ~Walks(w, s)
Alone(w, s) == \A v \in Workers : Walks(v, s) <=> v = w
Both(w, x, s) == w # x /\ \A v \in Workers : Walks(v, s) <=> v \in {w, x}

Has(q, x) == \E i \in 1..Len(q) : q[i] = x
Once(q) == \A i, j \in 1..Len(q) : q[i] = q[j] => i = j
Queued(x) == Has(queue, x)

Pooled(s) == s \in sessions_ \/ \E t \in Threads : s \in tls_sessions_[t]

-----------------------------------------------------------------------------
\* The phases of a context that has left the pool.

\* No call is out: at most one worker walks.
Walked(s) ==
  /\ ~ctx[s].is_async /\ ctx[s].async_state = "Before"
  /\ ctx[s].in_flight = 0 /\ ~Queued(s)
  /\ \/ NoWalker(s)
     \/ \E w \in Workers : Alone(w, s) /\ worker[w].pc \in {"loop", "step"}

\* A worker is sending: the barrier counts the calls it has still to send and
\* those in flight.
Sending(s) ==
  /\ ctx[s].is_async /\ ctx[s].async_counter = 1 /\ ctx[s].async_state = "Before"
  /\ ~Queued(s)
  /\ \E w \in Workers :
       /\ Alone(w, s) /\ worker[w].pc = "invoke" /\ worker[w].calls > 0
       /\ ctx[s].times_ = worker[w].calls + ctx[s].in_flight

\* All calls are sent, not all have ended, and the sender has not stopped yet.
Sent(s) ==
  /\ ctx[s].is_async /\ ctx[s].async_counter = 1 /\ ctx[s].async_state = "Before"
  /\ ~Queued(s)
  /\ ctx[s].in_flight > 0 /\ ctx[s].times_ = ctx[s].in_flight
  /\ \E w \in Workers : Alone(w, s) /\ worker[w].pc = "loop"

\* The last call has ended and neither the sender nor the one who takes the
\* queued task has come to IsAsync.
Meeting(s) ==
  /\ ctx[s].is_async /\ ctx[s].async_counter = 1 /\ ctx[s].async_state = "After"
  /\ ctx[s].in_flight = 0
  /\ \E w \in Workers :
       /\ worker[w].pc = "loop"
       /\ \/ Queued(s) /\ Alone(w, s)
          \/ /\ ~Queued(s)
             /\ \E x \in Workers : Both(w, x, s) /\ worker[x].pc = "loop"

\* The sender has stopped and nobody holds the context but its calls.
Away(s) ==
  /\ ctx[s].is_async /\ ctx[s].async_counter = 0 /\ ctx[s].async_state = "Before"
  /\ ~Queued(s) /\ NoWalker(s)
  /\ ctx[s].in_flight > 0 /\ ctx[s].times_ = ctx[s].in_flight

\* One of the two has stopped, or a callback run inline has: one is left.
Back(s) ==
  /\ ctx[s].is_async /\ ctx[s].async_counter = 0 /\ ctx[s].async_state = "After"
  /\ ctx[s].in_flight = 0
  /\ \/ Queued(s) /\ NoWalker(s)
     \/ ~Queued(s) /\ \E w \in Workers : Alone(w, s) /\ worker[w].pc = "loop"

\* The one that is left has passed IsAsync.
Through(s) ==
  /\ ctx[s].is_async /\ ctx[s].async_counter = -1 /\ ctx[s].async_state = "After"
  /\ ctx[s].in_flight = 0 /\ ~Queued(s)
  /\ \E w \in Workers : Alone(w, s) /\ worker[w].pc = "step"

Called(s) ==
  /\ ctx[s].node \in RpcNodes
  /\ Sending(s) \/ Sent(s) \/ Meeting(s) \/ Away(s) \/ Back(s) \/ Through(s)

\* A context in the pool is nobody's, and its last request has been answered.
Resting(s) ==
  /\ ~ctx[s].is_async /\ ctx[s].async_state = "Before"
  /\ ctx[s].in_flight = 0 /\ ~Queued(s) /\ NoWalker(s)
  /\ ctx[s].service_closure # None => done[ctx[s].service_closure] > 0

\* A context that is out of the pool has a request, not answered yet.
OutOfPool(s) ==
  /\ ctx[s].node # NoNode
  /\ ctx[s].service_closure # None /\ done[ctx[s].service_closure] = 0
  /\ Walked(s) \/ Called(s)

PhasesOK == \A s \in Sessions : IF Pooled(s) THEN Resting(s) ELSE OutOfPool(s)

\* A session is in one place of the pool.
OneHome ==
  \A s \in Sessions :
    /\ \A t \in Threads : s \in tls_sessions_[t] => s \notin sessions_
    /\ \A t, u \in Threads : s \in tls_sessions_[t] /\ s \in tls_sessions_[u] => t = u

\* A worker outside the loop may still name a session it does not own any
\* more, but one that has been given a request.
UsedBefore == \A w \in Workers : worker[w].session # None => ctx[worker[w].session].service_closure # None

\* A request is pending, or in the queue, or in one context, and is answered
\* only after that.
Unanswered ==
  /\ Once(queue)
  /\ \A r \in Requests : Queued(r) \/ r \in pending => done[r] = 0
  /\ \A r \in Requests : Queued(r) => r \notin pending
  /\ \A s \in Sessions :
       /\ ~Pooled(s) => /\ ~Queued(ctx[s].service_closure)
                        /\ ctx[s].service_closure \notin pending
       /\ \A u \in Sessions :
            ~Pooled(s) /\ ~Pooled(u) /\ ctx[s].service_closure = ctx[u].service_closure => s = u
  /\ \A r \in Requests : done[r] <= 1

Alive == PhasesOK /\ OneHome /\ UsedBefore /\ Unanswered

\* After undefined behaviour only the types are left, and that no handler is
\* run in the state Finish or without a session.
NoFinish == \A s \in Sessions : ctx[s].async_state # "Finish"
AtSession == \A w \in Workers : worker[w].pc # "idle" => worker[w].session \in Sessions
WalkInv == TypeOK /\ NoFinish /\ AtSession /\ (~crashed => Alive)

-----------------------------------------------------------------------------
\* What the queue of the pool holds after a task is put into it or taken.
LEMMA Appended ==
  ASSUME NEW T, NEW q \in Seq(T), NEW x \in T
  PROVE  /\ Append(q, x) \in Seq(T)
         /\ Len(Append(q, x)) = Len(q) + 1
         /\ \A y : Has(Append(q, x), y) <=> Has(q, y) \/ y = x
         /\ Once(q) /\ ~Has(q, x) => Once(Append(q, x))
<1> DEFINE a == Append(q, x)
<1>1. /\ a \in Seq(T) /\ Len(a) = Len(q) + 1 /\ Len(q) \in Nat
      /\ \A i \in 1..Len(q) : a[i] = q[i]
      /\ a[Len(q) + 1] = x
  OBVIOUS
<1> HIDE DEF a
<1>2. 1..Len(a) = (1..Len(q)) \cup {Len(q) + 1}  BY <1>1
<1>3. \A y : Has(a, y) <=> Has(q, y) \/ y = x
  <2> TAKE y
  <2>1. Has(a, y) => Has(q, y) \/ y = x  BY <1>1, <1>2 DEF Has
  <2>2. Has(q, y) \/ y = x => Has(a, y)  BY <1>1, <1>2 DEF Has
  <2> QED  BY <2>1, <2>2
<1>4. Once(q) /\ ~Has(q, x) => Once(a)  BY <1>1, <1>2 DEF Once, Has
<1> QED  BY <1>1, <1>3, <1>4 DEF a

LEMMA Taken ==
  ASSUME NEW T, NEW q \in Seq(T), q # <<>>
  PROVE  /\ Tail(q) \in Seq(T) /\ Head(q) \in T
         /\ Len(Tail(q)) <= Len(q)
         /\ \A y : Has(q, y) <=> Has(Tail(q), y) \/ y = Head(q)
         /\ Once(q) => Once(Tail(q)) /\ ~Has(Tail(q), Head(q))
<1> DEFINE a == Tail(q)
<1>1. /\ a \in Seq(T) /\ Len(a) = Len(q) - 1 /\ Len(q) \in Nat \ {0}
      /\ \A i \in 1..Len(a) : a[i] = q[i + 1]
      /\ Head(q) = q[1] /\ q[1] \in T
  OBVIOUS
<1> HIDE DEF a
<1>2. \A y : Has(q, y) <=> Has(a, y) \/ y = Head(q)
  <2> TAKE y
  <2>1. ASSUME Has(q, y) PROVE Has(a, y) \/ y = Head(q)
    <3>1. PICK i \in 1..Len(q) : q[i] = y  BY <2>1 DEF Has
    <3>2. CASE i = 1  BY <3>1, <3>2, <1>1
    <3>3. CASE i # 1
      <4>1. i - 1 \in 1..Len(a) /\ a[i - 1] = y  BY <3>1, <3>3, <1>1
      <4> QED  BY <4>1 DEF Has
    <3> QED  BY <3>2, <3>3
  <2>2. ASSUME Has(a, y) PROVE Has(q, y)
    <3>1. PICK i \in 1..Len(a) : a[i] = y  BY <2>2 DEF Has
    <3>2. i + 1 \in 1..Len(q) /\ q[i + 1] = y  BY <3>1, <1>1
    <3> QED  BY <3>2 DEF Has
  <2>3. Has(q, Head(q))  BY <1>1 DEF Has
  <2> QED  BY <2>1, <2>2, <2>3
<1>3. Once(q) => Once(a)  BY <1>1 DEF Once
<1>4. Once(q) => ~Has(a, Head(q))  BY <1>1 DEF Once, Has
<1> QED  BY <1>1, <1>2, <1>3, <1>4 DEF a

LEMMA QueuedIsRange ==
  ASSUME NEW T, queue \in Seq(T), NEW x
  PROVE  x \in Range(queue) <=> Queued(x)
BY DEF Range, Queued, Has

-----------------------------------------------------------------------------
\* The phase of a context depends on the context, the workers that walk in it
\* and whether it is queued, and on nothing else.
LEMMA PhaseFrame ==
  ASSUME NEW s \in Sessions, ctx'[s] = ctx[s], Queued(s)' <=> Queued(s),
         \A w \in Workers : /\ Walks(w, s)' <=> Walks(w, s)
                            /\ Walks(w, s) => worker'[w] = worker[w]
  PROVE  /\ NoWalker(s)' <=> NoWalker(s)
         /\ Walked(s) => Walked(s)'
         /\ Called(s) => Called(s)'
<1>1. \A w \in Workers : Alone(w, s) => Alone(w, s)' /\ Walks(w, s)  BY DEF Alone
<1>2. \A w, x \in Workers : Both(w, x, s) => Both(w, x, s)' /\ Walks(w, s) /\ Walks(x, s)
  BY DEF Both
<1>3. NoWalker(s)' <=> NoWalker(s)  BY DEF NoWalker
<1>4. Walked(s) => Walked(s)'  BY <1>1, <1>3 DEF Walked
<1>5. Sending(s) => Sending(s)'  BY <1>1 DEF Sending
<1>6. Sent(s) => Sent(s)'  BY <1>1 DEF Sent
<1>7. Meeting(s) => Meeting(s)'
  <2> SUFFICES ASSUME Meeting(s) PROVE Meeting(s)'  OBVIOUS
  <2>1. PICK w \in Workers :
          /\ worker[w].pc = "loop"
          /\ \/ Queued(s) /\ Alone(w, s)
             \/ /\ ~Queued(s)
                /\ \E x \in Workers : Both(w, x, s) /\ worker[x].pc = "loop"
    BY DEF Meeting
  <2>2. CASE Queued(s) /\ Alone(w, s)  BY <1>1, <2>1, <2>2 DEF Meeting
  <2>3. CASE ~Queued(s) /\ \E x \in Workers : Both(w, x, s) /\ worker[x].pc = "loop"
    <3>1. PICK x \in Workers : Both(w, x, s) /\ worker[x].pc = "loop"  BY <2>3
    <3>2. Both(w, x, s)' /\ worker'[x].pc = "loop" /\ worker'[w].pc = "loop"
      BY <1>2, <2>1, <3>1
    <3> QED  BY <2>3, <3>2 DEF Meeting
  <2> QED  BY <2>1, <2>2, <2>3
<1>8. Away(s) => Away(s)'  BY <1>3 DEF Away
<1>9. Back(s) => Back(s)'  BY <1>1, <1>3 DEF Back
<1>10. Through(s) => Through(s)'  BY <1>1 DEF Through
<1>11. Called(s) => Called(s)'  BY <1>5, <1>6, <1>7, <1>8, <1>9, <1>10 DEF Called
<1> QED  BY <1>3, <1>4, <1>11

-----------------------------------------------------------------------------
\* Where a worker is tells the phase of its context.
LEMMA WalkerOut ==
  ASSUME Alive, NEW w \in Workers, NEW s \in Sessions, Walks(w, s)
  PROVE  ~Pooled(s) /\ OutOfPool(s) /\ ~NoWalker(s)
BY DEF Alive, PhasesOK, Resting, NoWalker

LEMMA AtInvoke ==
  ASSUME Alive, NEW w \in Workers, NEW s \in Sessions,
         worker[w].pc = "invoke", worker[w].session = s
  PROVE  /\ ~Pooled(s) /\ ctx[s].node \in RpcNodes
         /\ Sending(s) /\ Alone(w, s)
         /\ worker[w].calls > 0
         /\ ctx[s].times_ = worker[w].calls + ctx[s].in_flight
<1>1. Walks(w, s)  BY DEF Walks
<1>2. ~Pooled(s) /\ OutOfPool(s) /\ ~NoWalker(s)  BY <1>1, WalkerOut
<1>3. \A v \in Workers : Alone(v, s) => v = w  BY <1>1 DEF Alone
<1>4. \A v, x \in Workers : Both(v, x, s) => v = w \/ x = w  BY <1>1 DEF Both
<1>5. ~Walked(s)  BY <1>2, <1>3 DEF Walked
<1>6. ~Sent(s) /\ ~Away(s) /\ ~Back(s) /\ ~Through(s)
  BY <1>2, <1>3 DEF Sent, Away, Back, Through
<1>7. ~Meeting(s)
  <2> SUFFICES ASSUME Meeting(s) PROVE FALSE  OBVIOUS
  <2>1. PICK v \in Workers :
          /\ worker[v].pc = "loop"
          /\ \/ Queued(s) /\ Alone(v, s)
             \/ /\ ~Queued(s)
                /\ \E x \in Workers : Both(v, x, s) /\ worker[x].pc = "loop"
    BY DEF Meeting
  <2> QED  BY <2>1, <1>3, <1>4
<1>8. Sending(s) /\ ctx[s].node \in RpcNodes  BY <1>2, <1>5, <1>6, <1>7 DEF OutOfPool, Called
<1> QED  BY <1>2, <1>3, <1>8 DEF Sending

LEMMA AtStep ==
  ASSUME Alive, NEW w \in Workers, NEW s \in Sessions,
         worker[w].pc = "step", worker[w].session = s
  PROVE  /\ ~Pooled(s) /\ ctx[s].in_flight = 0
         /\ ~Queued(s) /\ Alone(w, s)
         /\ Walked(s) \/ (Through(s) /\ ctx[s].node \in RpcNodes)
<1>1. Walks(w, s)  BY DEF Walks
<1>2. ~Pooled(s) /\ OutOfPool(s) /\ ~NoWalker(s)  BY <1>1, WalkerOut
<1>3. \A v \in Workers : Alone(v, s) => v = w  BY <1>1 DEF Alone
<1>4. \A v, x \in Workers : Both(v, x, s) => v = w \/ x = w  BY <1>1 DEF Both
<1>5. ~Sending(s) /\ ~Sent(s) /\ ~Away(s) /\ ~Back(s)
  BY <1>2, <1>3 DEF Sending, Sent, Away, Back
<1>6. ~Meeting(s)
  <2> SUFFICES ASSUME Meeting(s) PROVE FALSE  OBVIOUS
  <2>1. PICK v \in Workers :
          /\ worker[v].pc = "loop"
          /\ \/ Queued(s) /\ Alone(v, s)
             \/ /\ ~Queued(s)
                /\ \E x \in Workers : Both(v, x, s) /\ worker[x].pc = "loop"
    BY DEF Meeting
  <2> QED  BY <2>1, <1>3, <1>4
<1>7. Walked(s) \/ (Through(s) /\ ctx[s].node \in RpcNodes)
  BY <1>2, <1>5, <1>6 DEF OutOfPool, Called
<1> QED  BY <1>2, <1>3, <1>7 DEF Walked, Through

LEMMA AtLoop ==
  ASSUME Alive, NEW w \in Workers, NEW s \in Sessions,
         worker[w].pc = "loop", worker[w].session = s
  PROVE  /\ ~Pooled(s)
         /\ \/ Walked(s) /\ Alone(w, s)
            \/ /\ ctx[s].node \in RpcNodes
               /\ \/ Sent(s) /\ Alone(w, s)
                  \/ Meeting(s)
                  \/ Back(s) /\ ~Queued(s) /\ Alone(w, s)
<1>1. Walks(w, s)  BY DEF Walks
<1>2. ~Pooled(s) /\ OutOfPool(s) /\ ~NoWalker(s)  BY <1>1, WalkerOut
<1>3. \A v \in Workers : Alone(v, s) => v = w  BY <1>1 DEF Alone
<1>4. ~Sending(s) /\ ~Away(s) /\ ~Through(s)
  BY <1>2, <1>3 DEF Sending, Away, Through
<1>5. Walked(s) => Alone(w, s)  BY <1>2, <1>3 DEF Walked
<1>6. Sent(s) => Alone(w, s)  BY <1>3 DEF Sent
<1>7. Back(s) => ~Queued(s) /\ Alone(w, s)  BY <1>2, <1>3 DEF Back
<1> QED  BY <1>2, <1>4, <1>5, <1>6, <1>7 DEF OutOfPool, Called

LEMMA InFlight ==
  ASSUME TypeOK, Alive, NEW s \in Sessions, ctx[s].in_flight > 0
  PROVE  /\ ~Pooled(s) /\ ctx[s].node \in RpcNodes /\ ~Queued(s)
         /\ Sending(s) \/ Sent(s) \/ Away(s)
         /\ ctx[s].times_ >= ctx[s].in_flight
         /\ ctx[s].is_async /\ ctx[s].async_state = "Before"
<1>1. ~Pooled(s) /\ OutOfPool(s)  BY DEF Alive, PhasesOK, Resting
<1>2. ~Walked(s) /\ ~Meeting(s) /\ ~Back(s) /\ ~Through(s)
  BY DEF Walked, Meeting, Back, Through
<1>3. ctx[s].node \in RpcNodes /\ (Sending(s) \/ Sent(s) \/ Away(s))
  BY <1>1, <1>2 DEF OutOfPool, Called
<1>4. ~Queued(s) /\ ctx[s].is_async /\ ctx[s].async_state = "Before"
  BY <1>3 DEF Sending, Sent, Away
<1>5. ctx[s].times_ \in Nat /\ ctx[s].in_flight \in Nat
  BY WorkflowAssumption DEF TypeOK, Contexts
<1>6. ctx[s].times_ >= ctx[s].in_flight
  <2>1. CASE Sending(s)
    <3>1. PICK v \in Workers : /\ worker[v].calls > 0
                               /\ ctx[s].times_ = worker[v].calls + ctx[s].in_flight
      BY <2>1 DEF Sending
    <3>2. worker[v].calls \in Nat  BY WorkflowAssumption DEF TypeOK
    <3> QED  BY <1>5, <3>1, <3>2
  <2>2. CASE Sent(s) \/ Away(s)  BY <2>2, <1>5 DEF Sent, Away
  <2> QED  BY <1>3, <2>1, <2>2
<1> QED  BY <1>1, <1>3, <1>4, <1>6

-----------------------------------------------------------------------------
\* What the pool of sessions does: a session that is taken leaves it and one
\* that is released comes into one place of it.
LEMMA PoolTake ==
  ASSUME TypeOK, OneHome, NEW t \in Threads, NEW s \in Sessions,
         s \in Acquirable(t), TakeFromPool(t, s)
  PROVE  OneHome' /\ Pooled(s) /\ \A u \in Sessions : Pooled(u)' <=> Pooled(u) /\ u # s
<1> USE DEF TypeOK
<1>1. CASE tls_sessions_[t] # {}
  <2>1. s \in tls_sessions_[t] /\ sessions_' = sessions_
    BY <1>1 DEF Acquirable, TakeFromPool
  <2>2. \A u \in Sessions, v \in Threads :
          u \in tls_sessions_'[v] <=> u \in tls_sessions_[v] /\ ~(u = s /\ v = t)
    BY <1>1 DEF Acquirable, TakeFromPool
  <2>3. s \notin sessions_ /\ \A v \in Threads : s \in tls_sessions_[v] => v = t
    BY <2>1 DEF OneHome
  <2>4. OneHome'  BY <2>1, <2>2 DEF OneHome
  <2>5. ~Pooled(s)'  BY <2>1, <2>2, <2>3 DEF Pooled
  <2>6. \A u \in Sessions : u # s => (Pooled(u)' <=> Pooled(u))  BY <2>1, <2>2 DEF Pooled
  <2> QED  BY <2>1, <2>4, <2>5, <2>6 DEF Pooled
<1>2. CASE tls_sessions_[t] = {}
  <2>1. s \in sessions_ /\ sessions_' = sessions_ \ {s} /\ tls_sessions_' = tls_sessions_
    BY <1>2 DEF Acquirable, TakeFromPool
  <2>2. OneHome'  BY <2>1 DEF OneHome
  <2>3. \A u \in Sessions : Pooled(u)' <=> Pooled(u) /\ u # s  BY <2>1 DEF OneHome, Pooled
  <2> QED  BY <2>1, <2>2, <2>3 DEF Pooled
<1> QED  BY <1>1, <1>2

LEMMA PoolRelease ==
  ASSUME TypeOK, OneHome, NEW t \in Threads, NEW s \in Sessions,
         ~Pooled(s), Release(t, s)
  PROVE  OneHome' /\ \A u \in Sessions : Pooled(u)' <=> Pooled(u) \/ u = s
<1> USE DEF TypeOK
<1>1. CASE Cardinality(tls_sessions_[t]) < TlsSize
  <2>1. sessions_' = sessions_  BY <1>1 DEF Release
  <2>2. \A u \in Sessions, v \in Threads :
          u \in tls_sessions_'[v] <=> u \in tls_sessions_[v] \/ (u = s /\ v = t)
    BY <1>1 DEF Release
  <2>3. s \notin sessions_ /\ \A v \in Threads : s \notin tls_sessions_[v]  BY DEF Pooled
  <2>4. OneHome'  BY <2>1, <2>2, <2>3 DEF OneHome
  <2>5. \A u \in Sessions : Pooled(u)' <=> Pooled(u) \/ u = s  BY <2>1, <2>2 DEF Pooled
  <2> QED  BY <2>4, <2>5
<1>2. CASE ~(Cardinality(tls_sessions_[t]) < TlsSize)
  <2>1. sessions_' = sessions_ \cup {s} /\ tls_sessions_' = tls_sessions_
    BY <1>2 DEF Release
  <2>2. OneHome'  BY <2>1 DEF OneHome, Pooled
  <2>3. \A u \in Sessions : Pooled(u)' <=> Pooled(u) \/ u = s  BY <2>1 DEF Pooled
  <2> QED  BY <2>2, <2>3
<1> QED  BY <1>1, <1>2

-----------------------------------------------------------------------------
\* A step inside one context that is out of the pool disturbs no other one:
\* it remains to show that this context has a phase again.
LEMMA OneContext ==
  ASSUME TypeOK, Alive, NEW s \in Sessions, ~Pooled(s),
         UNCHANGED <<done, pending, sessions_, tls_sessions_>>,
         \A u \in Sessions : u # s => ctx'[u] = ctx[u],
         ctx'[s].service_closure = ctx[s].service_closure, ctx'[s].node # NoNode,
         \A w \in Workers : \/ worker'[w] = worker[w]
                            \/ /\ worker[w].session \in {s, None}
                               /\ worker'[w].session \in {s, None},
         Once(queue'), \A x : x # s => (Queued(x)' <=> Queued(x)),
         Walked(s)' \/ Called(s)'
  PROVE  Alive'
<1>1. None \notin Sessions /\ Requests \cap Sessions = {} /\ None \notin Requests
  BY WorkflowAssumption
<1>2. \A u \in Sessions : Pooled(u)' <=> Pooled(u)  BY DEF Pooled
<1>3. OneHome'  BY DEF Alive, OneHome
<1>4. \A u \in Sessions : ctx'[u].service_closure = ctx[u].service_closure  OBVIOUS
<1>5. UsedBefore'
  <2> SUFFICES ASSUME NEW w \in Workers, worker'[w].session # None
               PROVE  ctx'[worker'[w].session].service_closure # None
    BY DEF UsedBefore
  <2>1. worker[w].session \in Sessions \cup {None}  BY DEF TypeOK
  <2>2. CASE worker'[w] = worker[w]  BY <2>1, <2>2, <1>4 DEF Alive, UsedBefore
  <2>3. CASE worker'[w].session = s  BY <2>3, <1>4 DEF Alive, PhasesOK, OutOfPool
  <2> QED  BY <2>2, <2>3
<1>6. PhasesOK'
  <2> SUFFICES ASSUME NEW u \in Sessions PROVE IF Pooled(u)' THEN Resting(u)' ELSE OutOfPool(u)'
    BY DEF PhasesOK
  <2>1. CASE u = s
    <3>1. OutOfPool(s)  BY DEF Alive, PhasesOK
    <3>2. OutOfPool(s)'  BY <3>1 DEF OutOfPool
    <3> QED  BY <2>1, <3>2, <1>2
  <2>2. CASE u # s
    <3>1. \A w \in Workers : /\ Walks(w, u)' <=> Walks(w, u)
                             /\ Walks(w, u) => worker'[w] = worker[w]
      BY <2>2, <1>1 DEF Walks
    <3>2. ctx'[u] = ctx[u] /\ (Queued(u)' <=> Queued(u))  BY <2>2
    <3>3. /\ NoWalker(u)' <=> NoWalker(u)
          /\ Walked(u) => Walked(u)'
          /\ Called(u) => Called(u)'
      BY <3>1, <3>2, PhaseFrame
    <3>4. IF Pooled(u) THEN Resting(u) ELSE OutOfPool(u)  BY DEF Alive, PhasesOK
    <3>5. CASE Pooled(u)  BY <3>2, <3>3, <3>4, <3>5, <1>2 DEF Resting
    <3>6. CASE ~Pooled(u)  BY <3>2, <3>3, <3>4, <3>6, <1>2 DEF OutOfPool
    <3> QED  BY <3>5, <3>6
  <2> QED  BY <2>1, <2>2
<1>7. Unanswered'
  <2>1. \A r \in Requests : Queued(r)' <=> Queued(r)  BY <1>1
  <2>2. \A u \in Sessions : ~Pooled(u) => ctx[u].service_closure \in Requests
    BY DEF TypeOK, Contexts, Alive, PhasesOK, OutOfPool
  <2>3. (\A r \in Requests : Queued(r) \/ r \in pending => done[r] = 0)'
    BY <2>1 DEF Alive, Unanswered
  <2>4. (\A r \in Requests : Queued(r) => r \notin pending)'  BY <2>1 DEF Alive, Unanswered
  <2>5. ASSUME NEW u \in Sessions, ~Pooled(u)'
        PROVE  ~Queued(ctx[u].service_closure)' /\ ctx'[u].service_closure \notin pending'
    BY <2>5, <2>1, <2>2, <1>2, <1>4 DEF Alive, Unanswered
  <2>6. ASSUME NEW u \in Sessions, NEW v \in Sessions, ~Pooled(u)', ~Pooled(v)',
               ctx'[u].service_closure = ctx'[v].service_closure
        PROVE  u = v
    BY <2>6, <1>2, <1>4 DEF Alive, Unanswered
  <2>7. \A r \in Requests : done'[r] <= 1  BY DEF Alive, Unanswered
  <2> QED  BY <2>3, <2>4, <2>5, <2>6, <2>7 DEF Unanswered
<1> QED  BY <1>3, <1>5, <1>6, <1>7 DEF Alive

\* A context that a step does not touch keeps its phase, while done grows
\* for other requests only.
LEMMA Untouched ==
  ASSUME TypeOK, Alive, NEW u \in Sessions, ctx'[u] = ctx[u], Queued(u)' <=> Queued(u),
         \A w \in Workers : /\ Walks(w, u)' <=> Walks(w, u)
                            /\ Walks(w, u) => worker'[w] = worker[w],
         \A r \in Requests : done'[r] \in {done[r], done[r] + 1}
  PROVE  /\ Pooled(u) => Resting(u)'
         /\ ~Pooled(u) /\ done'[ctx[u].service_closure] = 0 => OutOfPool(u)'
<1>1. /\ NoWalker(u)' <=> NoWalker(u)
      /\ Walked(u) => Walked(u)'
      /\ Called(u) => Called(u)'
  BY PhaseFrame
<1>2. IF Pooled(u) THEN Resting(u) ELSE OutOfPool(u)  BY DEF Alive, PhasesOK
<1>3. \A r \in Requests : done[r] \in Nat  BY DEF TypeOK
<1>4. ctx[u].service_closure \in Requests \cup {None}  BY DEF TypeOK, Contexts
<1>5. ctx[u].service_closure # None /\ done[ctx[u].service_closure] > 0
        => done'[ctx[u].service_closure] > 0
  BY <1>3, <1>4
<1>6. CASE Pooled(u)  BY <1>1, <1>2, <1>5, <1>6 DEF Resting
<1>7. CASE ~Pooled(u)  BY <1>1, <1>2, <1>7 DEF OutOfPool
<1> QED  BY <1>6, <1>7

\* ResetCtx by a thread that finds the context used by nobody else.
LEMMA ResetKeeps ==
  ASSUME TypeOK, Alive, NEW s \in Sessions, NEW t \in Threads, NEW c \in Contexts,
         ~Pooled(s), NoWalker(s), ~Queued(s), c.in_flight = 0,
         c.service_closure = ctx[s].service_closure,
         ctx' = [ctx EXCEPT ![s] = StepReset([c EXCEPT !.node = NoNode])],
         done' = [done EXCEPT ![c.service_closure] = @ + 1],
         Release(t, s), UNCHANGED <<queue, pending>>,
         \A w \in Workers : \/ worker'[w] = worker[w]
                            \/ ~Walks(w, s) /\ worker[w].session = s /\ worker'[w] = Idle
  PROVE  Alive'
<1> DEFINE r == ctx[s].service_closure
<1>1. None \notin Sessions /\ None \notin Requests  BY WorkflowAssumption
<1>2. OneHome' /\ \A u \in Sessions : Pooled(u)' <=> Pooled(u) \/ u = s
  BY PoolRelease DEF Alive
<1>3. r \in Requests /\ done[r] = 0
  BY DEF TypeOK, Contexts, Alive, PhasesOK, OutOfPool
<1>4. /\ ctx'[s].service_closure = r /\ ctx'[s].in_flight = 0
      /\ ctx'[s].is_async = FALSE /\ ctx'[s].async_state = "Before"
      /\ \A u \in Sessions : u # s => ctx'[u] = ctx[u]
  BY DEF TypeOK, StepReset, Contexts
<1>5. \A q \in Requests : done'[q] = IF q = r THEN 1 ELSE done[q]
  BY <1>3 DEF TypeOK
<1>6. \A u \in Sessions : ctx'[u].service_closure = ctx[u].service_closure  BY <1>4
<1>7. \A x : Queued(x)' <=> Queued(x)  BY DEF Queued
<1>8. \A w \in Workers, u \in Sessions :
        /\ Walks(w, u)' <=> Walks(w, u)
        /\ Walks(w, u) => worker'[w] = worker[w]
  BY <1>1 DEF Walks, Idle
<1>9. UsedBefore'
  <2> SUFFICES ASSUME NEW w \in Workers, worker'[w].session # None
               PROVE  ctx'[worker'[w].session].service_closure # None
    BY DEF UsedBefore
  <2>1. worker[w].session \in Sessions \cup {None}  BY DEF TypeOK
  <2>2. worker'[w] = worker[w]  BY DEF Idle
  <2> QED  BY <2>1, <2>2, <1>6 DEF Alive, UsedBefore
<1>10. PhasesOK'
  <2> SUFFICES ASSUME NEW u \in Sessions PROVE IF Pooled(u)' THEN Resting(u)' ELSE OutOfPool(u)'
    BY DEF PhasesOK
  <2>1. CASE u = s
    <3>1. NoWalker(s)'  BY <1>8 DEF NoWalker
    <3>2. Resting(s)'  BY <3>1, <1>3, <1>4, <1>5, <1>7 DEF Resting
    <3> QED  BY <2>1, <3>2, <1>2
  <2>2. CASE u # s
    <3>1. \A q \in Requests : done'[q] \in {done[q], done[q] + 1}  BY <1>3, <1>5 DEF TypeOK
    <3>2. /\ Pooled(u) => Resting(u)'
          /\ ~Pooled(u) /\ done'[ctx[u].service_closure] = 0 => OutOfPool(u)'
      BY <2>2, <3>1, <1>4, <1>7, <1>8, Untouched
    <3>3. ASSUME ~Pooled(u) PROVE done'[ctx[u].service_closure] = 0
      <4>1. ctx[u].service_closure # r  BY <2>2, <3>3 DEF Alive, Unanswered
      <4>2. ctx[u].service_closure \in Requests /\ done[ctx[u].service_closure] = 0
        BY <3>3 DEF TypeOK, Contexts, Alive, PhasesOK, OutOfPool
      <4> QED  BY <4>1, <4>2, <1>5
    <3> QED  BY <2>2, <3>2, <3>3, <1>2
  <2> QED  BY <2>1, <2>2
<1>11. Unanswered'
  <2>1. Once(queue')  BY DEF Alive, Unanswered
  <2>2. ~Queued(r) /\ r \notin pending  BY DEF Alive, Unanswered
  <2>3. (\A q \in Requests : Queued(q) \/ q \in pending => done[q] = 0)'
    BY <2>2, <1>5, <1>7 DEF Alive, Unanswered
  <2>4. (\A q \in Requests : Queued(q) => q \notin pending)'  BY <1>7 DEF Alive, Unanswered
  <2>5. ASSUME NEW u \in Sessions, ~Pooled(u)'
        PROVE  ~Queued(ctx[u].service_closure)' /\ ctx'[u].service_closure \notin pending'
    BY <2>5, <1>2, <1>6, <1>7 DEF Alive, Unanswered
  <2>6. ASSUME NEW u \in Sessions, NEW v \in Sessions, ~Pooled(u)', ~Pooled(v)',
               ctx'[u].service_closure = ctx'[v].service_closure
        PROVE  u = v
    BY <2>6, <1>2, <1>6 DEF Alive, Unanswered
  <2>7. \A q \in Requests : done'[q] <= 1  BY <1>5 DEF Alive, Unanswered
  <2> QED  BY <2>1, <2>3, <2>4, <2>5, <2>6, <2>7 DEF Unanswered
<1> QED  BY <1>2, <1>9, <1>10, <1>11 DEF Alive

-----------------------------------------------------------------------------
\* The steps that only move a request leave every context in its phase.
LEMMA NoContext ==
  ASSUME TypeOK, Alive, UNCHANGED <<ctx, sessions_, tls_sessions_>>,
         \A u \in Sessions : Queued(u)' <=> Queued(u),
         \A w \in Workers : \/ worker'[w] = worker[w]
                            \/ /\ worker[w].pc = "check"
                               /\ worker'[w].session \in {worker[w].session, None}
                               /\ worker'[w].pc \in {"reset", "idle"},
         \A r \in Requests : done'[r] \in {done[r], done[r] + 1},
         \A u \in Sessions : ~Pooled(u) => done'[ctx[u].service_closure] = 0,
         Unanswered'
  PROVE  Alive'
<1>1. None \notin Sessions  BY WorkflowAssumption
<1>2. \A u \in Sessions : Pooled(u)' <=> Pooled(u)  BY DEF Pooled
<1>3. OneHome'  BY DEF Alive, OneHome
<1>4. \A w \in Workers : worker'[w].session \in {worker[w].session, None}
  OBVIOUS
<1>5. UsedBefore'  BY <1>4 DEF Alive, UsedBefore
<1>6. \A w \in Workers, u \in Sessions :
        /\ Walks(w, u)' <=> Walks(w, u)
        /\ Walks(w, u) => worker'[w] = worker[w]
  BY <1>1 DEF Walks
<1>7. PhasesOK'
  <2> SUFFICES ASSUME NEW u \in Sessions PROVE IF Pooled(u)' THEN Resting(u)' ELSE OutOfPool(u)'
    BY DEF PhasesOK
  <2>1. /\ Pooled(u) => Resting(u)'
        /\ ~Pooled(u) /\ done'[ctx[u].service_closure] = 0 => OutOfPool(u)'
    BY <1>6, Untouched
  <2> QED  BY <2>1, <1>2
<1> QED  BY <1>3, <1>5, <1>7 DEF Alive

LEMMA ArriveKeeps ==
  ASSUME TypeOK, Alive, NEW r \in Requests, Server(r)
  PROVE  Alive'
<1>1. Requests \cap Sessions = {}  BY WorkflowAssumption
<1>2. r \in pending /\ pending' = pending \ {r} /\ ~Queued(r) /\ done[r] = 0
  BY DEF Server, Arrive, ArriveQueueFull, Alive, Unanswered
<1>3. \A u \in Sessions : ~Pooled(u) =>
        /\ ctx[u].service_closure \in Requests /\ ctx[u].service_closure # r
        /\ done[ctx[u].service_closure] = 0
  BY <1>2 DEF TypeOK, Contexts, Alive, PhasesOK, OutOfPool, Unanswered
<1>4. UNCHANGED <<ctx, sessions_, tls_sessions_, worker>>
  BY DEF Server, Arrive, ArriveQueueFull
<1>5. \A u \in Sessions : Pooled(u)' <=> Pooled(u)  BY <1>4 DEF Pooled
<1>6. CASE Arrive(r)
  <2>1. queue' = Append(queue, r) /\ done' = done  BY <1>6 DEF Arrive
  <2>2. /\ \A y : Queued(y)' <=> Queued(y) \/ y = r
        /\ Once(queue')
    BY <1>2, <2>1, Appended DEF TypeOK, Queued, Alive, Unanswered
  <2>3. \A u \in Sessions : Queued(u)' <=> Queued(u)  BY <2>2, <1>1
  <2>4. Unanswered'  BY <1>2, <1>3, <1>4, <1>5, <2>1, <2>2 DEF Alive, Unanswered
  <2> QED  BY <2>1, <2>3, <2>4, <1>3, <1>4, NoContext
<1>7. CASE ArriveQueueFull(r)
  <2>1. queue' = queue  BY <1>7 DEF ArriveQueueFull
  <2>2. \A q \in Requests : done'[q] = IF q = r THEN 1 ELSE done[q]
    BY <1>2, <1>7 DEF ArriveQueueFull, TypeOK
  <2>3. \A y : Queued(y)' <=> Queued(y)  BY <2>1 DEF Queued
  <2>4. Unanswered'  BY <1>2, <1>3, <1>4, <1>5, <2>1, <2>2, <2>3 DEF Alive, Unanswered
  <2>5. \A q \in Requests : done'[q] \in {done[q], done[q] + 1}  BY <1>2, <2>2
  <2>6. \A u \in Sessions : ~Pooled(u) => done'[ctx[u].service_closure] = 0
    BY <1>3, <2>2
  <2> QED  BY <2>3, <2>4, <2>5, <2>6, <1>4, NoContext
<1> QED  BY <1>6, <1>7 DEF Server

\* What a worker finds when the first task is a request.
LEMMA TakesFacts ==
  ASSUME TypeOK, Alive, NEW w \in Workers, NEW r \in Requests, TakesRequest(w, r)
  PROVE  /\ \A y : Queued(y)' <=> Queued(y) /\ y # r
         /\ Queued(r) /\ Once(queue') /\ r \notin pending /\ done[r] = 0
         /\ \A u \in Sessions : Queued(u)' <=> Queued(u)
         /\ \A u \in Sessions : ~Pooled(u) =>
              /\ ctx[u].service_closure \in Requests /\ ctx[u].service_closure # r
              /\ done[ctx[u].service_closure] = 0
<1>1. Requests \cap Sessions = {}  BY WorkflowAssumption
<1>2. queue # <<>> /\ Head(queue) = r /\ queue' = Tail(queue)  BY DEF TakesRequest
<1>3. queue \in Seq(Requests \cup Sessions) /\ Once(queue)  BY DEF TypeOK, Alive, Unanswered
<1>4. /\ \A y : Has(queue, y) <=> Has(Tail(queue), y) \/ y = r
      /\ Once(Tail(queue)) /\ ~Has(Tail(queue), r)
  BY <1>2, <1>3, Taken
<1>5. (\A y : Queued(y)' <=> Queued(y) /\ y # r) /\ Queued(r) /\ Once(queue')
  BY <1>2, <1>4 DEF Queued
<1>6. r \notin pending /\ done[r] = 0  BY <1>5 DEF Alive, Unanswered
<1>7. \A u \in Sessions : Queued(u)' <=> Queued(u)  BY <1>1, <1>5
<1>8. \A u \in Sessions : ~Pooled(u) =>
        /\ ctx[u].service_closure \in Requests /\ ctx[u].service_closure # r
        /\ done[ctx[u].service_closure] = 0
  BY <1>5 DEF TypeOK, Contexts, Alive, PhasesOK, OutOfPool, Unanswered
<1> QED  BY <1>5, <1>6, <1>7, <1>8

LEMMA NoSessionKeeps ==
  ASSUME TypeOK, Alive, NEW w \in Workers, NEW r \in Requests, NoSession(w, r)
  PROVE  Alive'
<1>1. /\ \A y : Queued(y)' <=> Queued(y) /\ y # r
      /\ Queued(r) /\ Once(queue') /\ r \notin pending /\ done[r] = 0
      /\ \A u \in Sessions : Queued(u)' <=> Queued(u)
      /\ \A u \in Sessions : ~Pooled(u) =>
           /\ ctx[u].service_closure \in Requests /\ ctx[u].service_closure # r
           /\ done[ctx[u].service_closure] = 0
  BY TakesFacts DEF NoSession
<1>2. UNCHANGED <<pending, ctx, sessions_, tls_sessions_, worker>>  BY DEF NoSession
<1>3. \A q \in Requests : done'[q] = IF q = r THEN 1 ELSE done[q]
  BY <1>1 DEF NoSession, TypeOK
<1>4. \A u \in Sessions : Pooled(u)' <=> Pooled(u)  BY <1>2 DEF Pooled
<1>5. Unanswered'  BY <1>1, <1>2, <1>3, <1>4 DEF Alive, Unanswered
<1>6. \A q \in Requests : done'[q] \in {done[q], done[q] + 1}  BY <1>1, <1>3
<1>7. \A u \in Sessions : ~Pooled(u) => done'[ctx[u].service_closure] = 0  BY <1>1, <1>3
<1> QED  BY <1>1, <1>2, <1>5, <1>6, <1>7, NoContext

LEMMA CheckDoneKeeps ==
  ASSUME TypeOK, Alive, NEW w \in Workers, NEW s \in Sessions, CheckDone(w, s)
  PROVE  Alive'
<1>1. UNCHANGED <<queue, done, pending, ctx, sessions_, tls_sessions_>>  BY DEF CheckDone
<1>2. worker[w] = At("check", s)  BY DEF CheckDone
<1>3. \A v \in Workers : v # w => worker'[v] = worker[v]  BY DEF CheckDone, TypeOK
<1>4. worker'[w] = At("reset", s) \/ worker'[w] = Idle  BY DEF CheckDone, TypeOK
<1>5. \A v \in Workers : \/ worker'[v] = worker[v]
                         \/ /\ worker[v].pc = "check"
                            /\ worker'[v].session \in {worker[v].session, None}
                            /\ worker'[v].pc \in {"reset", "idle"}
  BY <1>2, <1>3, <1>4 DEF At, Idle
<1>6. (\A x : Queued(x)' <=> Queued(x)) /\ \A u \in Sessions : Pooled(u)' <=> Pooled(u)
  BY <1>1 DEF Queued, Pooled
<1>7. Unanswered'  BY <1>1, <1>6 DEF Alive, Unanswered
<1>8. \A u \in Sessions : ~Pooled(u) => done'[ctx[u].service_closure] = 0
  BY <1>1 DEF Alive, PhasesOK, OutOfPool
<1> QED  BY <1>1, <1>5, <1>6, <1>7, <1>8, NoContext

LEMMA SetupFailsKeeps ==
  ASSUME TypeOK, Alive, NEW w \in Workers, NEW r \in Requests, SetupFails(w, r)
  PROVE  Alive'
<1>1. /\ \A y : Queued(y)' <=> Queued(y) /\ y # r
      /\ Queued(r) /\ Once(queue') /\ r \notin pending /\ done[r] = 0
      /\ \A u \in Sessions : Queued(u)' <=> Queued(u)
      /\ \A u \in Sessions : ~Pooled(u) =>
           /\ ctx[u].service_closure \in Requests /\ ctx[u].service_closure # r
           /\ done[ctx[u].service_closure] = 0
  BY TakesFacts DEF SetupFails
<1>2. UNCHANGED <<pending, worker>> /\ w \in Threads  BY DEF SetupFails, Threads
<1>3. \A q \in Requests : done'[q] = IF q = r THEN 1 ELSE done[q]
  BY <1>1 DEF SetupFails, TypeOK
<1>4. PICK s \in Acquirable(w) :
        /\ ctx' = [ctx EXCEPT ![s].service_closure = r]
        /\ IF tls_sessions_[w] # {}
             THEN UNCHANGED <<sessions_, tls_sessions_>>
             ELSE /\ tls_sessions_' = [tls_sessions_ EXCEPT ![w] = {s}]
                  /\ sessions_' = sessions_ \ {s}
  BY DEF SetupFails
<1>5. s \in Sessions /\ Pooled(s)  BY <1>2 DEF Acquirable, TypeOK, Pooled
<1>6. OneHome' /\ \A u \in Sessions : Pooled(u)' <=> Pooled(u)
  <2>1. CASE tls_sessions_[w] # {}  BY <1>4, <2>1 DEF Alive, OneHome, Pooled
  <2>2. CASE tls_sessions_[w] = {}
    <3>1. s \in sessions_ /\ sessions_' = sessions_ \ {s}  BY <1>4, <2>2 DEF Acquirable
    <3>2. \A u \in Sessions, t \in Threads :
            u \in tls_sessions_'[t] <=> u \in tls_sessions_[t] \/ (u = s /\ t = w)
      BY <1>2, <1>4, <2>2 DEF TypeOK
    <3>3. \A t \in Threads : s \notin tls_sessions_[t]  BY <1>5, <3>1 DEF Alive, OneHome
    <3>4. OneHome'  BY <3>1, <3>2, <3>3 DEF Alive, OneHome
    <3>5. Pooled(s)'  BY <1>2, <1>5, <3>2 DEF Pooled
    <3>6. \A u \in Sessions : u # s => (Pooled(u)' <=> Pooled(u))
      BY <3>1, <3>2 DEF Pooled
    <3> QED  BY <1>5, <3>4, <3>5, <3>6
  <2> QED  BY <2>1, <2>2
<1>7. /\ ctx'[s].service_closure = r
      /\ ctx'[s].is_async = ctx[s].is_async /\ ctx'[s].async_state = ctx[s].async_state
      /\ ctx'[s].in_flight = ctx[s].in_flight
      /\ \A u \in Sessions : u # s => ctx'[u] = ctx[u]
  BY <1>4, <1>5 DEF TypeOK, Contexts
<1>8. r # None  BY WorkflowAssumption
<1>9. UsedBefore'  BY <1>2, <1>7, <1>8 DEF TypeOK, Alive, UsedBefore
<1>10. PhasesOK'
  <2> SUFFICES ASSUME NEW u \in Sessions PROVE IF Pooled(u)' THEN Resting(u)' ELSE OutOfPool(u)'
    BY DEF PhasesOK
  <2>1. CASE u = s
    <3>1. Resting(s)  BY <1>5 DEF Alive, PhasesOK
    <3>2. NoWalker(s)'  BY <1>2, <3>1 DEF Resting, NoWalker, Walks
    <3>3. Resting(s)'  BY <3>1, <3>2, <1>1, <1>3, <1>7, <1>5 DEF Resting
    <3> QED  BY <2>1, <3>3, <1>5, <1>6
  <2>2. CASE u # s
    <3>1. \A q \in Requests : done'[q] \in {done[q], done[q] + 1}  BY <1>1, <1>3
    <3>2. \A v \in Workers : /\ Walks(v, u)' <=> Walks(v, u)
                             /\ Walks(v, u) => worker'[v] = worker[v]
      BY <1>2 DEF Walks
    <3>3. /\ Pooled(u) => Resting(u)'
          /\ ~Pooled(u) /\ done'[ctx[u].service_closure] = 0 => OutOfPool(u)'
      BY <2>2, <3>1, <3>2, <1>1, <1>7, Untouched
    <3>4. ~Pooled(u) => done'[ctx[u].service_closure] = 0  BY <1>1, <1>3
    <3> QED  BY <3>3, <3>4, <1>6
  <2> QED  BY <2>1, <2>2
<1>11. \A u \in Sessions : ~Pooled(u) => ctx'[u] = ctx[u]  BY <1>5, <1>7
<1>12. Unanswered'  BY <1>1, <1>2, <1>3, <1>6, <1>11 DEF Alive, Unanswered
<1> QED  BY <1>6, <1>9, <1>10, <1>12 DEF Alive

LEMMA SetupCtxKeeps ==
  ASSUME TypeOK, Alive, NEW w \in Workers, NEW r \in Requests, SetupCtx(w, r)
  PROVE  Alive'
<1>1. /\ \A y : Queued(y)' <=> Queued(y) /\ y # r
      /\ Queued(r) /\ Once(queue') /\ r \notin pending /\ done[r] = 0
      /\ \A u \in Sessions : Queued(u)' <=> Queued(u)
      /\ \A u \in Sessions : ~Pooled(u) =>
           /\ ctx[u].service_closure \in Requests /\ ctx[u].service_closure # r
           /\ done[ctx[u].service_closure] = 0
  BY TakesFacts DEF SetupCtx
<1>2. UNCHANGED <<pending, done>> /\ w \in Threads  BY DEF SetupCtx, Threads
<1>3. PICK s \in Acquirable(w) :
        /\ TakeFromPool(w, s)
        /\ ctx' = [ctx EXCEPT ![s] =
                     StepReset([@ EXCEPT !.node = Entry, !.service_closure = r])]
        /\ worker' = [worker EXCEPT ![w] = At("loop", s)]
  BY DEF SetupCtx
<1>4. s \in Sessions  BY <1>2 DEF Acquirable, TypeOK
<1>5. OneHome' /\ Pooled(s) /\ \A u \in Sessions : Pooled(u)' <=> Pooled(u) /\ u # s
  BY <1>2, <1>3, <1>4, PoolTake DEF Alive
<1>6. /\ ctx'[s].service_closure = r /\ ctx'[s].node = Entry
      /\ ctx'[s].is_async = FALSE /\ ctx'[s].async_state = "Before"
      /\ ctx'[s].in_flight = ctx[s].in_flight
      /\ \A u \in Sessions : u # s => ctx'[u] = ctx[u]
  BY <1>3, <1>4 DEF TypeOK, Contexts, StepReset
<1>7. r # None /\ Entry # NoNode /\ None \notin Sessions  BY WorkflowAssumption
<1>8. /\ worker[w] = Idle /\ worker'[w].session = s /\ worker'[w].pc = "loop"
      /\ \A v \in Workers : v # w => worker'[v] = worker[v]
  BY <1>3 DEF SetupCtx, TakesRequest, TypeOK, At
<1>9. UsedBefore'
  <2> SUFFICES ASSUME NEW v \in Workers, worker'[v].session # None
               PROVE  ctx'[worker'[v].session].service_closure # None
    BY DEF UsedBefore
  <2>1. CASE v = w  BY <2>1, <1>6, <1>7, <1>8
  <2>2. CASE v # w
    <3>1. worker[v].session \in Sessions /\ worker'[v].session = worker[v].session
      BY <2>2, <1>8 DEF TypeOK
    <3> QED  BY <3>1, <1>6, <1>7 DEF Alive, UsedBefore
  <2> QED  BY <2>1, <2>2
<1>10. PhasesOK'
  <2> SUFFICES ASSUME NEW u \in Sessions PROVE IF Pooled(u)' THEN Resting(u)' ELSE OutOfPool(u)'
    BY DEF PhasesOK
  <2>1. CASE u = s
    <3>1. Resting(s)  BY <1>4, <1>5 DEF Alive, PhasesOK
    <3>2. Alone(w, s)'  BY <1>8, <3>1 DEF Resting, NoWalker, Alone, Walks
    <3>3. Walked(s)'  BY <3>1, <3>2, <1>1, <1>4, <1>6, <1>8 DEF Resting, Walked
    <3>4. OutOfPool(s)'  BY <3>3, <1>1, <1>2, <1>6, <1>7 DEF OutOfPool
    <3> QED  BY <2>1, <3>4, <1>5
  <2>2. CASE u # s
    <3>1. \A q \in Requests : done'[q] \in {done[q], done[q] + 1}  BY <1>2
    <3>2. \A v \in Workers : /\ Walks(v, u)' <=> Walks(v, u)
                             /\ Walks(v, u) => worker'[v] = worker[v]
      BY <2>2, <1>7, <1>8 DEF Walks, Idle
    <3>3. /\ Pooled(u) => Resting(u)'
          /\ ~Pooled(u) /\ done'[ctx[u].service_closure] = 0 => OutOfPool(u)'
      BY <2>2, <3>1, <3>2, <1>1, <1>6, Untouched
    <3>4. ~Pooled(u) => done'[ctx[u].service_closure] = 0  BY <1>1, <1>2
    <3> QED  BY <2>2, <3>3, <3>4, <1>5
  <2> QED  BY <2>1, <2>2
<1>11. \A u \in Sessions : ~Pooled(u)' => u = s \/ (~Pooled(u) /\ ctx'[u] = ctx[u])
  BY <1>5, <1>6
<1>12. Unanswered'
  <2>1. (\A q \in Requests : Queued(q) \/ q \in pending => done[q] = 0)'
    BY <1>1, <1>2 DEF Alive, Unanswered
  <2>2. (\A q \in Requests : Queued(q) => q \notin pending)'  BY <1>1, <1>2 DEF Alive, Unanswered
  <2>3. ASSUME NEW u \in Sessions, ~Pooled(u)'
        PROVE  ~Queued(ctx[u].service_closure)' /\ ctx'[u].service_closure \notin pending'
    BY <2>3, <1>1, <1>2, <1>6, <1>11 DEF Alive, Unanswered
  <2>4. ASSUME NEW u \in Sessions, NEW v \in Sessions, ~Pooled(u)', ~Pooled(v)',
               ctx'[u].service_closure = ctx'[v].service_closure
        PROVE  u = v
    BY <2>4, <1>1, <1>6, <1>11 DEF Alive, Unanswered
  <2>5. \A q \in Requests : done'[q] <= 1  BY <1>2 DEF Alive, Unanswered
  <2> QED  BY <1>1, <2>1, <2>2, <2>3, <2>4, <2>5 DEF Unanswered
<1> QED  BY <1>5, <1>9, <1>10, <1>12 DEF Alive

-----------------------------------------------------------------------------
\* The steps of a worker in a context.  Worker w alone moves, and stays in s.
LEMMA OnlyWorker ==
  ASSUME TypeOK, Alive, NEW w \in Workers, NEW s \in Sessions, ~Pooled(s),
         worker[w].session \in {s, None}, worker'[w].session \in {s, None},
         \A v \in Workers : v # w => worker'[v] = worker[v],
         UNCHANGED <<queue, done, pending, sessions_, tls_sessions_>>,
         \A u \in Sessions : u # s => ctx'[u] = ctx[u],
         ctx'[s].service_closure = ctx[s].service_closure, ctx'[s].node # NoNode,
         Walked(s)' \/ Called(s)'
  PROVE  Alive'
<1>1. Once(queue') /\ \A x : Queued(x)' <=> Queued(x)  BY DEF Queued, Alive, Unanswered
<1>2. \A v \in Workers : \/ worker'[v] = worker[v]
                         \/ /\ worker[v].session \in {s, None}
                            /\ worker'[v].session \in {s, None}
  OBVIOUS
<1> QED  BY <1>1, <1>2, OneContext

\* When w was the only one in s and walks on, it still is.
LEMMA StillAlone ==
  ASSUME NEW w \in Workers, NEW s \in Sessions, Alone(w, s),
         worker'[w].session = s, worker'[w].pc \in {"loop", "step", "invoke"},
         \A v \in Workers : v # w => worker'[v] = worker[v]
  PROVE  Alone(w, s)'
BY DEF Alone, Walks

LEMMA StopsAlone ==
  ASSUME NEW w \in Workers, NEW s \in Sessions, Alone(w, s),
         worker'[w].pc = "check",
         \A v \in Workers : v # w => worker'[v] = worker[v]
  PROVE  NoWalker(s)'
BY DEF Alone, NoWalker, Walks

LEMMA LoopTestKeeps ==
  ASSUME TypeOK, Alive, NEW w \in Workers, NEW s \in Sessions, LoopTest(w, s)
  PROVE  Alive'
<1> DEFINE stop == IsAsync(ctx[s]) \/ ctx[s].node = EndNode
<1>1. UNCHANGED <<queue, done, pending, sessions_, tls_sessions_>>  BY DEF LoopTest
<1>2. worker[w].pc = "loop" /\ worker[w].session = s  BY DEF LoopTest, At
<1>3. /\ worker'[w].session = s
      /\ worker'[w].pc = IF stop THEN "check" ELSE "step"
      /\ \A v \in Workers : v # w => worker'[v] = worker[v]
  BY DEF LoopTest, TypeOK, At
<1>4. /\ ~Pooled(s)
      /\ \/ Walked(s) /\ Alone(w, s)
         \/ /\ ctx[s].node \in RpcNodes
            /\ \/ Sent(s) /\ Alone(w, s)
               \/ Meeting(s)
               \/ Back(s) /\ ~Queued(s) /\ Alone(w, s)
  BY <1>2, AtLoop
<1>5. \A u \in Sessions : u # s => ctx'[u] = ctx[u]  BY DEF LoopTest, TypeOK
<1>6. /\ ctx'[s].service_closure = ctx[s].service_closure /\ ctx'[s].node = ctx[s].node
      /\ ctx'[s].is_async = ctx[s].is_async /\ ctx'[s].async_state = ctx[s].async_state
      /\ ctx'[s].in_flight = ctx[s].in_flight /\ ctx'[s].times_ = ctx[s].times_
      /\ ctx[s].is_async => ctx'[s].async_counter = ctx[s].async_counter - 1
  BY DEF LoopTest, TypeOK, AfterIsAsync, Contexts
<1>7. ctx'[s].node # NoNode  BY <1>4, <1>6 DEF Alive, PhasesOK, OutOfPool
<1>8. \A x : Queued(x)' <=> Queued(x)  BY <1>1 DEF Queued
<1>9. Walked(s)' \/ Called(s)'
  <2>1. CASE Walked(s) /\ Alone(w, s)
    <3>1. CASE stop  BY <2>1, <3>1, <1>3, <1>6, <1>8, StopsAlone DEF Walked
    <3>2. CASE ~stop  BY <2>1, <3>2, <1>2, <1>3, <1>6, <1>8, StillAlone DEF Walked
    <3> QED  BY <3>1, <3>2
  <2>2. CASE ctx[s].node \in RpcNodes /\ Sent(s) /\ Alone(w, s)
    <3>1. stop  BY <2>2 DEF IsAsync, Sent
    <3>2. Away(s)'  BY <2>2, <3>1, <1>3, <1>6, <1>8, StopsAlone DEF Sent, Away
    <3> QED  BY <2>2, <3>2, <1>6 DEF Called
  <2>3. CASE ctx[s].node \in RpcNodes /\ Meeting(s)
    <3>1. stop  BY <2>3 DEF IsAsync, Meeting
    <3>2. PICK v \in Workers :
            /\ worker[v].pc = "loop"
            /\ \/ Queued(s) /\ Alone(v, s)
               \/ /\ ~Queued(s)
                  /\ \E x \in Workers : Both(v, x, s) /\ worker[x].pc = "loop"
      BY <2>3 DEF Meeting
    <3>3. Walks(w, s)  BY <1>2 DEF Walks
    <3>4. CASE Queued(s) /\ Alone(v, s)
      <4>1. v = w  BY <3>3, <3>4 DEF Alone
      <4>2. NoWalker(s)'  BY <3>1, <3>4, <4>1, <1>3, StopsAlone
      <4>3. Back(s)'  BY <2>3, <3>4, <4>2, <1>6, <1>8 DEF Meeting, Back
      <4> QED  BY <2>3, <4>3, <1>6 DEF Called
    <3>5. CASE ~Queued(s) /\ \E x \in Workers : Both(v, x, s) /\ worker[x].pc = "loop"
      <4>1. PICK x \in Workers : Both(v, x, s) /\ worker[x].pc = "loop"  BY <3>5
      <4>2. PICK y \in Workers : Both(w, y, s) /\ worker[y].pc = "loop"
        BY <3>2, <3>3, <4>1 DEF Both
      <4>3. Alone(y, s)' /\ worker'[y].pc = "loop"
        BY <3>1, <4>2, <1>3 DEF Both, Alone, Walks
      <4>4. Back(s)'  BY <2>3, <3>5, <4>3, <1>6, <1>8 DEF Meeting, Back
      <4> QED  BY <2>3, <4>4, <1>6 DEF Called
    <3> QED  BY <3>2, <3>4, <3>5
  <2>4. CASE ctx[s].node \in RpcNodes /\ Back(s) /\ ~Queued(s) /\ Alone(w, s)
    <3>1. ~stop  BY <2>4, WorkflowAssumption DEF IsAsync, Back
    <3>2. Alone(w, s)' /\ worker'[w].pc = "step"  BY <2>4, <3>1, <1>3, StillAlone
    <3>3. Through(s)'  BY <2>4, <3>2, <1>6, <1>8 DEF Back, Through
    <3> QED  BY <2>4, <3>3, <1>6 DEF Called
  <2> QED  BY <2>1, <2>2, <2>3, <2>4, <1>4
<1> HIDE DEF stop
<1> QED  BY <1>1, <1>2, <1>3, <1>4, <1>5, <1>6, <1>7, <1>9, OnlyWorker

\* Context::NextStep, in a handler that ended at once or after its calls.
LEMMA StepKeeps ==
  ASSUME TypeOK, Alive, NEW w \in Workers, NEW s \in Sessions,
         StepAtOnce(w, s) \/ StepAfter(w, s)
  PROVE  Alive'
<1>1. UNCHANGED <<queue, done, pending, sessions_, tls_sessions_>>
  BY DEF StepAtOnce, StepAfter
<1>2. worker[w].pc = "step" /\ worker[w].session = s  BY DEF StepAtOnce, StepAfter, At
<1>3. /\ worker'[w].session = s /\ worker'[w].pc = "loop"
      /\ \A v \in Workers : v # w => worker'[v] = worker[v]
  BY DEF StepAtOnce, StepAfter, TypeOK, At
<1>4. ~Pooled(s) /\ ctx[s].in_flight = 0 /\ ~Queued(s) /\ Alone(w, s)  BY <1>2, AtStep
<1>5. ctx[s].node \in GraphNodes  BY WorkflowAssumption DEF StepAtOnce, StepAfter
<1>6. PICK next \in Successors[ctx[s].node] :
        \/ ctx' = [ctx EXCEPT ![s] = NextStep(@, next)]
        \/ ctx' = [ctx EXCEPT ![s] = NextStep([@ EXCEPT !.async_state = "Finish"], next)]
  BY DEF StepAtOnce, StepAfter
<1>7. next # NoNode  BY <1>5, WorkflowAssumption
<1>8. /\ \A u \in Sessions : u # s => ctx'[u] = ctx[u]
      /\ ctx'[s].service_closure = ctx[s].service_closure /\ ctx'[s].node = next
      /\ ctx'[s].is_async = FALSE /\ ctx'[s].async_state = "Before"
      /\ ctx'[s].in_flight = ctx[s].in_flight
  <2>1. ctx[s] \in Contexts  BY DEF TypeOK
  <2>2. PICK c \in Contexts :
          /\ c.service_closure = ctx[s].service_closure /\ c.in_flight = ctx[s].in_flight
          /\ ctx' = [ctx EXCEPT ![s] = NextStep(c, next)]
    <3>1. CASE ctx' = [ctx EXCEPT ![s] = NextStep(@, next)]  BY <2>1, <3>1
    <3>2. CASE ctx' = [ctx EXCEPT ![s] = NextStep([@ EXCEPT !.async_state = "Finish"], next)]
      <4> DEFINE d == [ctx[s] EXCEPT !.async_state = "Finish"]
      <4>1. d \in Contexts /\ d.service_closure = ctx[s].service_closure
              /\ d.in_flight = ctx[s].in_flight
        BY <2>1 DEF Contexts
      <4>2. ctx' = [ctx EXCEPT ![s] = NextStep(d, next)]  BY <3>2
      <4> QED  BY <4>1, <4>2
    <3> QED  BY <1>6, <3>1, <3>2
  <2>3. /\ NextStep(c, next).service_closure = c.service_closure
        /\ NextStep(c, next).node = next
        /\ NextStep(c, next).is_async = FALSE /\ NextStep(c, next).async_state = "Before"
        /\ NextStep(c, next).in_flight = c.in_flight
    BY DEF NextStep, StepReset, Contexts
  <2>4. /\ ctx'[s] = NextStep(c, next)
        /\ \A u \in Sessions : u # s => ctx'[u] = ctx[u]
    BY <2>2 DEF TypeOK
  <2> QED  BY <2>2, <2>3, <2>4
<1>9. Alone(w, s)'  BY <1>3, <1>4, StillAlone
<1>10. ~Queued(s)'  BY <1>1, <1>4 DEF Queued
<1>11. Walked(s)'  BY <1>3, <1>4, <1>8, <1>9, <1>10 DEF Walked
<1> QED  BY <1>1, <1>2, <1>3, <1>4, <1>7, <1>8, <1>11, OnlyWorker

LEMMA InvokeKeeps ==
  ASSUME TypeOK, Alive, NEW w \in Workers, NEW s \in Sessions, Invoke(w, s)
  PROVE  Alive'
<1>1. UNCHANGED <<queue, done, pending, sessions_, tls_sessions_>>  BY DEF Invoke
<1>2. worker[w].pc = "step" /\ worker[w].session = s  BY DEF Invoke, At
<1>3. ~Pooled(s) /\ ctx[s].in_flight = 0 /\ ~Queued(s) /\ Alone(w, s)  BY <1>2, AtStep
<1>4. PICK n \in 1..MaxCalls :
        /\ ctx' = [ctx EXCEPT ![s] = SetAsync([@ EXCEPT !.times_ = n])]
        /\ worker' = [worker EXCEPT ![w] = [pc |-> "invoke", session |-> s, calls |-> n]]
  BY DEF Invoke
<1>5. /\ worker'[w].session = s /\ worker'[w].pc = "invoke" /\ worker'[w].calls = n
      /\ \A v \in Workers : v # w => worker'[v] = worker[v]
  BY <1>4 DEF TypeOK
<1>6. /\ \A u \in Sessions : u # s => ctx'[u] = ctx[u]
      /\ ctx'[s].service_closure = ctx[s].service_closure /\ ctx'[s].node = ctx[s].node
      /\ ctx'[s].is_async = TRUE /\ ctx'[s].async_state = "Before"
      /\ ctx'[s].async_counter = 1
      /\ ctx'[s].in_flight = ctx[s].in_flight /\ ctx'[s].times_ = n
  BY <1>4 DEF TypeOK, SetAsync, Contexts
<1>7. ctx[s].node \in RpcNodes /\ ctx[s].node # NoNode
  BY WorkflowAssumption DEF Invoke
<1>8. Alone(w, s)'  BY <1>3, <1>5, StillAlone
<1>9. ~Queued(s)'  BY <1>1, <1>3 DEF Queued
<1>10. n \in Nat /\ n > 0 /\ n = n + 0  BY WorkflowAssumption
<1>11. Sending(s)'  BY <1>3, <1>5, <1>6, <1>8, <1>9, <1>10 DEF Sending
<1>12. Called(s)'  BY <1>6, <1>7, <1>11 DEF Called
<1> QED  BY <1>1, <1>2, <1>3, <1>5, <1>6, <1>7, <1>12, OnlyWorker

\* What CallMade leaves behind.
LEMMA CallMadeFacts ==
  ASSUME TypeOK, Alive, NEW w \in Workers, NEW s \in Sessions,
         worker[w].pc = "invoke", worker[w].session = s, CallMade(w)
  PROVE  /\ worker'[w].session = s
         /\ \A v \in Workers : v # w => worker'[v] = worker[v]
         /\ worker[w].calls = 1 => worker'[w].pc = "loop"
         /\ worker[w].calls # 1 => /\ worker'[w].pc = "invoke"
                                   /\ worker'[w].calls = worker[w].calls - 1
                                   /\ worker'[w].calls > 0
         /\ worker[w].calls \in Nat \ {0}
         /\ Alone(w, s)'
<1>1. worker[w].calls \in Nat \ {0}
  BY AtInvoke, WorkflowAssumption DEF TypeOK
<1>2. /\ worker'[w].session = s
      /\ \A v \in Workers : v # w => worker'[v] = worker[v]
  BY DEF CallMade, TypeOK, At
<1>3. worker[w].calls = 1 => worker'[w].pc = "loop"  BY DEF CallMade, TypeOK, At
<1>4. worker[w].calls # 1 => /\ worker'[w].pc = "invoke"
                             /\ worker'[w].calls = worker[w].calls - 1
                             /\ worker'[w].calls > 0
  <2> SUFFICES ASSUME worker[w].calls # 1
               PROVE  /\ worker'[w].pc = "invoke"
                      /\ worker'[w].calls = worker[w].calls - 1
                      /\ worker'[w].calls > 0
    OBVIOUS
  <2>1. worker'[w] = [worker[w] EXCEPT !.calls = worker[w].calls - 1]
    BY <1>1 DEF CallMade, TypeOK
  <2>2. worker'[w].pc = "invoke" /\ worker'[w].calls = worker[w].calls - 1
    BY <2>1 DEF TypeOK
  <2> QED  BY <2>2, <1>1
<1>5. Alone(w, s)'  BY <1>2, <1>3, <1>4, AtInvoke, StillAlone
<1> QED  BY <1>1, <1>2, <1>3, <1>4, <1>5

LEMMA CallMethodKeeps ==
  ASSUME TypeOK, Alive, NEW w \in Workers, NEW s \in Sessions, CallMethod(w, s)
  PROVE  Alive'
<1>1. UNCHANGED <<queue, done, pending, sessions_, tls_sessions_>>  BY DEF CallMethod
<1>2. worker[w].pc = "invoke" /\ worker[w].session = s  BY DEF CallMethod
<1>3. /\ ~Pooled(s) /\ ctx[s].node \in RpcNodes /\ Sending(s)
      /\ ctx[s].times_ = worker[w].calls + ctx[s].in_flight
  BY <1>2, AtInvoke
<1>4. /\ worker'[w].session = s
      /\ \A v \in Workers : v # w => worker'[v] = worker[v]
      /\ worker[w].calls = 1 => worker'[w].pc = "loop"
      /\ worker[w].calls # 1 => /\ worker'[w].pc = "invoke"
                                /\ worker'[w].calls = worker[w].calls - 1
                                /\ worker'[w].calls > 0
      /\ worker[w].calls \in Nat \ {0}
      /\ Alone(w, s)'
  BY <1>2, CallMadeFacts DEF CallMethod
<1>5. ctx[s].in_flight \in Nat  BY WorkflowAssumption DEF TypeOK, Contexts
<1>6. /\ \A u \in Sessions : u # s => ctx'[u] = ctx[u]
      /\ ctx'[s].service_closure = ctx[s].service_closure /\ ctx'[s].node = ctx[s].node
      /\ ctx'[s].is_async = ctx[s].is_async /\ ctx'[s].async_state = ctx[s].async_state
      /\ ctx'[s].async_counter = ctx[s].async_counter
      /\ ctx'[s].in_flight = ctx[s].in_flight + 1 /\ ctx'[s].times_ = ctx[s].times_
  BY DEF CallMethod, TypeOK, Contexts
<1>7. ctx[s].node # NoNode  BY <1>3, WorkflowAssumption
<1>8. ~Queued(s)'  BY <1>1, <1>3 DEF Queued, Sending
<1>9. Called(s)'
  <2>1. CASE worker[w].calls = 1
    <3>1. ctx'[s].times_ = ctx'[s].in_flight /\ ctx'[s].in_flight > 0
      BY <2>1, <1>3, <1>5, <1>6
    <3>2. Sent(s)'  BY <2>1, <3>1, <1>3, <1>4, <1>6, <1>8 DEF Sending, Sent
    <3> QED  BY <3>2, <1>3, <1>6 DEF Called
  <2>2. CASE worker[w].calls # 1
    <3>1. ctx'[s].times_ = worker'[w].calls + ctx'[s].in_flight
      BY <2>2, <1>3, <1>4, <1>5, <1>6
    <3>2. Sending(s)'  BY <2>2, <3>1, <1>3, <1>4, <1>6, <1>8 DEF Sending
    <3> QED  BY <3>2, <1>3, <1>6 DEF Called
  <2> QED  BY <2>1, <2>2
<1> QED  BY <1>1, <1>2, <1>3, <1>4, <1>6, <1>7, <1>9, OnlyWorker

LEMMA NoChannelKeeps ==
  ASSUME TypeOK, Alive, NEW w \in Workers, NEW s \in Sessions, CallMethodNoChannel(w, s)
  PROVE  Alive'
<1>1. UNCHANGED <<queue, done, pending, sessions_, tls_sessions_>>
  BY DEF CallMethodNoChannel
<1>2. worker[w].pc = "invoke" /\ worker[w].session = s  BY DEF CallMethodNoChannel
<1>3. /\ ~Pooled(s) /\ ctx[s].node \in RpcNodes /\ Sending(s)
      /\ ctx[s].times_ = worker[w].calls + ctx[s].in_flight
  BY <1>2, AtInvoke
<1>4. /\ worker'[w].session = s
      /\ \A v \in Workers : v # w => worker'[v] = worker[v]
      /\ worker[w].calls = 1 => worker'[w].pc = "loop"
      /\ worker[w].calls # 1 => /\ worker'[w].pc = "invoke"
                                /\ worker'[w].calls = worker[w].calls - 1
                                /\ worker'[w].calls > 0
      /\ worker[w].calls \in Nat \ {0}
      /\ Alone(w, s)'
  BY <1>2, CallMadeFacts DEF CallMethodNoChannel
<1>5. ctx[s].in_flight \in Nat /\ ctx[s].is_async /\ ctx[s].async_counter = 1
  BY <1>3, WorkflowAssumption DEF TypeOK, Contexts, Sending
<1>6. /\ \A u \in Sessions : u # s => ctx'[u] = ctx[u]
      /\ ctx'[s].service_closure = ctx[s].service_closure /\ ctx'[s].node = ctx[s].node
      /\ ctx'[s].is_async = ctx[s].is_async
      /\ ctx'[s].in_flight = ctx[s].in_flight /\ ctx'[s].times_ = ctx[s].times_ - 1
      /\ ctx[s].times_ - 1 = 0 => ctx'[s].async_state = "After" /\ ctx'[s].async_counter = 0
      /\ ctx[s].times_ - 1 # 0 => /\ ctx'[s].async_state = ctx[s].async_state
                                  /\ ctx'[s].async_counter = ctx[s].async_counter
  <2> DEFINE d == [ctx[s] EXCEPT !.times_ = @ - 1]
             e == [d EXCEPT !.async_state = "After"]
             c == IF BarrierOpens(d.times_) THEN AfterIsAsync(e) ELSE d
  <2>1. ctx' = [ctx EXCEPT ![s] = c]  BY DEF CallMethodNoChannel
  <2>2. ctx'[s] = c /\ \A u \in Sessions : u # s => ctx'[u] = ctx[u]  BY <2>1 DEF TypeOK
  <2>3. /\ d.service_closure = ctx[s].service_closure /\ d.node = ctx[s].node
        /\ d.is_async = ctx[s].is_async /\ d.in_flight = ctx[s].in_flight
        /\ d.times_ = ctx[s].times_ - 1 /\ d.async_state = ctx[s].async_state
        /\ d.async_counter = ctx[s].async_counter
    BY DEF TypeOK, Contexts
  <2>4. /\ AfterIsAsync(e).service_closure = ctx[s].service_closure
        /\ AfterIsAsync(e).node = ctx[s].node
        /\ AfterIsAsync(e).is_async = ctx[s].is_async
        /\ AfterIsAsync(e).in_flight = ctx[s].in_flight
        /\ AfterIsAsync(e).times_ = ctx[s].times_ - 1
        /\ AfterIsAsync(e).async_state = "After" /\ AfterIsAsync(e).async_counter = 0
    <3>1. /\ e.service_closure = ctx[s].service_closure /\ e.node = ctx[s].node
          /\ e.is_async = ctx[s].is_async /\ e.in_flight = ctx[s].in_flight
          /\ e.times_ = ctx[s].times_ - 1 /\ e.async_state = "After"
          /\ e.async_counter = 1
      BY <1>5 DEF TypeOK, Contexts
    <3>2. AfterIsAsync(e) = [e EXCEPT !.async_counter = @ - 1]
      <4> HIDE DEF e
      <4> QED  BY <1>5, <3>1 DEF AfterIsAsync
    <3>3. e.async_counter - 1 = 0  BY <3>1
    <3>4. /\ [e EXCEPT !.async_counter = @ - 1].service_closure = e.service_closure
          /\ [e EXCEPT !.async_counter = @ - 1].node = e.node
          /\ [e EXCEPT !.async_counter = @ - 1].is_async = e.is_async
          /\ [e EXCEPT !.async_counter = @ - 1].in_flight = e.in_flight
          /\ [e EXCEPT !.async_counter = @ - 1].times_ = e.times_
          /\ [e EXCEPT !.async_counter = @ - 1].async_state = e.async_state
          /\ [e EXCEPT !.async_counter = @ - 1].async_counter = e.async_counter - 1
      BY DEF TypeOK, Contexts
    <3> HIDE DEF e
    <3> QED  BY <3>1, <3>2, <3>3, <3>4
  <2>5. CASE ctx[s].times_ - 1 = 0
    <3>1. ctx'[s] = AfterIsAsync(e)  BY <2>2, <2>3, <2>5 DEF BarrierOpens
    <3> QED  BY <2>2, <2>4, <2>5, <3>1
  <2>6. CASE ctx[s].times_ - 1 # 0
    <3>1. ctx'[s] = d  BY <2>2, <2>3, <2>6 DEF BarrierOpens
    <3> HIDE DEF d
    <3> QED  BY <2>2, <2>3, <2>6, <3>1
  <2> QED  BY <2>5, <2>6
<1>7. ctx[s].node # NoNode  BY <1>3, WorkflowAssumption
<1>8. ~Queued(s)'  BY <1>1, <1>3 DEF Queued, Sending
<1>9. Called(s)'
  <2>1. CASE worker[w].calls = 1 /\ ctx[s].in_flight = 0
    <3>1. ctx[s].times_ - 1 = 0  BY <2>1, <1>3
    <3>2. Back(s)'  BY <2>1, <3>1, <1>3, <1>4, <1>6, <1>8 DEF Sending, Back
    <3> QED  BY <3>2, <1>3, <1>6 DEF Called
  <2>2. CASE worker[w].calls = 1 /\ ctx[s].in_flight # 0
    <3>1. ctx[s].times_ - 1 # 0 /\ ctx[s].in_flight > 0 /\ ctx[s].times_ - 1 = ctx[s].in_flight
      BY <2>2, <1>3, <1>5
    <3>2. Sent(s)'  BY <2>2, <3>1, <1>3, <1>4, <1>6, <1>8 DEF Sending, Sent
    <3> QED  BY <3>2, <1>3, <1>6 DEF Called
  <2>3. CASE worker[w].calls # 1
    <3>1. ctx[s].times_ - 1 # 0 /\ ctx'[s].times_ = worker'[w].calls + ctx'[s].in_flight
      BY <2>3, <1>3, <1>4, <1>5, <1>6
    <3>2. Sending(s)'  BY <2>3, <3>1, <1>3, <1>4, <1>6, <1>8 DEF Sending
    <3> QED  BY <3>2, <1>3, <1>6 DEF Called
  <2> QED  BY <2>1, <2>2, <2>3
<1> QED  BY <1>1, <1>2, <1>3, <1>4, <1>6, <1>7, <1>9, OnlyWorker

\* A queued context is taken by a worker that was idle.
LEMMA TakeContextKeeps ==
  ASSUME TypeOK, Alive, NEW w \in Workers, NEW s \in Sessions, TakeContext(w, s)
  PROVE  Alive'
<1>1. UNCHANGED <<done, pending, ctx, sessions_, tls_sessions_>>  BY DEF TakeContext
<1>2. queue # <<>> /\ Head(queue) = s /\ queue' = Tail(queue)  BY DEF TakeContext
<1>3. queue \in Seq(Requests \cup Sessions) /\ Once(queue)  BY DEF TypeOK, Alive, Unanswered
<1>4. /\ \A y : Has(queue, y) <=> Has(Tail(queue), y) \/ y = s
      /\ Once(Tail(queue)) /\ ~Has(Tail(queue), s)
  BY <1>2, <1>3, Taken
<1>5. /\ Queued(s) /\ ~Queued(s)' /\ Once(queue')
      /\ \A y : y # s => (Queued(y)' <=> Queued(y))
  BY <1>2, <1>4 DEF Queued
<1>6. worker[w].session = None /\ worker[w].pc = "idle"  BY DEF TakeContext, Idle
<1>7. /\ worker'[w].session = s /\ worker'[w].pc = "loop"
      /\ \A v \in Workers : v # w => worker'[v] = worker[v]
  BY DEF TakeContext, TypeOK, At
<1>8. ~Walks(w, s) /\ Walks(w, s)' /\ \A v \in Workers : v # w => (Walks(v, s)' <=> Walks(v, s))
  BY <1>6, <1>7 DEF Walks
<1>9. ~Pooled(s) /\ OutOfPool(s)  BY <1>5 DEF Alive, PhasesOK, Resting
<1>10. Called(s) /\ (Meeting(s) \/ Back(s))
  BY <1>5, <1>9 DEF OutOfPool, Called, Walked, Sending, Sent, Away, Through
<1>11. Called(s)'
  <2>1. CASE Meeting(s)
    <3>1. PICK v \in Workers : worker[v].pc = "loop" /\ Alone(v, s)
      BY <1>5, <2>1 DEF Meeting
    <3>2. v # w /\ worker'[v].pc = "loop"  BY <1>6, <1>7, <3>1
    <3>3. Both(v, w, s)'  BY <3>1, <3>2, <1>8 DEF Both, Alone
    <3>4. Meeting(s)'  BY <1>1, <1>5, <1>7, <2>1, <3>2, <3>3 DEF Meeting
    <3> QED  BY <3>4, <1>1, <1>10 DEF Called
  <2>2. CASE Back(s)
    <3>1. NoWalker(s)
      <4>1. ~ \E v \in Workers : ~Queued(s) /\ Alone(v, s)  BY <1>5
      <4> QED  BY <1>5, <2>2, <4>1 DEF Back
    <3>2. Alone(w, s)'  BY <3>1, <1>8 DEF NoWalker, Alone
    <3>3. Back(s)'  BY <1>1, <1>5, <1>7, <2>2, <3>2 DEF Back
    <3> QED  BY <3>3, <1>1, <1>10 DEF Called
  <2> QED  BY <2>1, <2>2, <1>10
<1>12. \A v \in Workers : \/ worker'[v] = worker[v]
                          \/ /\ worker[v].session \in {s, None}
                             /\ worker'[v].session \in {s, None}
  BY <1>6, <1>7
<1>13. ctx'[s].node # NoNode  BY <1>1, <1>9 DEF OutOfPool
<1> QED  BY <1>1, <1>5, <1>9, <1>11, <1>12, <1>13, OneContext

-----------------------------------------------------------------------------
\* The responses.
LEMMA CallReturnsKeeps ==
  ASSUME TypeOK, Alive, NEW s \in Sessions, CallReturns(s)
  PROVE  Alive'
<1>1. UNCHANGED <<queue, done, pending, sessions_, tls_sessions_, worker>>  BY DEF CallReturns
<1>2. /\ ~Pooled(s) /\ ctx[s].node \in RpcNodes /\ ~Queued(s)
      /\ Sending(s) \/ Sent(s) \/ Away(s)
      /\ ctx[s].times_ >= ctx[s].in_flight
  BY InFlight DEF CallReturns
<1>3. /\ ctx[s].in_flight \in Nat /\ ctx[s].in_flight > 0
      /\ ctx[s].times_ \in Nat /\ ctx[s].times_ # 1
  BY WorkflowAssumption DEF CallReturns, TypeOK, Contexts, BarrierOpens
<1>4. /\ \A u \in Sessions : u # s => ctx'[u] = ctx[u]
      /\ ctx'[s].service_closure = ctx[s].service_closure /\ ctx'[s].node = ctx[s].node
      /\ ctx'[s].is_async = ctx[s].is_async /\ ctx'[s].async_state = ctx[s].async_state
      /\ ctx'[s].async_counter = ctx[s].async_counter
      /\ ctx'[s].in_flight = ctx[s].in_flight - 1 /\ ctx'[s].times_ = ctx[s].times_ - 1
  BY DEF CallReturns, TypeOK, Contexts
<1>5. ctx'[s].node # NoNode  BY <1>2, <1>4, WorkflowAssumption
<1>6. Once(queue') /\ \A x : Queued(x)' <=> Queued(x)
  BY <1>1 DEF Queued, Alive, Unanswered
<1>7. (\A w \in Workers : Alone(w, s)' <=> Alone(w, s)) /\ (NoWalker(s)' <=> NoWalker(s))
  BY <1>1 DEF Alone, NoWalker, Walks
<1>8. Called(s)'
  <2>1. CASE Sending(s)
    <3>1. PICK w \in Workers : /\ Alone(w, s) /\ worker[w].pc = "invoke" /\ worker[w].calls > 0
                               /\ ctx[s].times_ = worker[w].calls + ctx[s].in_flight
      BY <2>1 DEF Sending
    <3>2. worker[w].calls \in Nat  BY WorkflowAssumption DEF TypeOK
    <3>3. ctx'[s].times_ = worker'[w].calls + ctx'[s].in_flight
      BY <3>1, <3>2, <1>1, <1>3, <1>4
    <3>4. Sending(s)'  BY <2>1, <3>1, <3>3, <1>1, <1>4, <1>6, <1>7 DEF Sending
    <3> QED  BY <3>4, <1>2, <1>4 DEF Called
  <2>2. CASE Sent(s)
    <3>1. ctx'[s].in_flight > 0 /\ ctx'[s].times_ = ctx'[s].in_flight
      BY <2>2, <1>3, <1>4 DEF Sent
    <3>2. Sent(s)'  BY <2>2, <3>1, <1>1, <1>4, <1>6, <1>7 DEF Sent
    <3> QED  BY <3>2, <1>2, <1>4 DEF Called
  <2>3. CASE Away(s)
    <3>1. ctx'[s].in_flight > 0 /\ ctx'[s].times_ = ctx'[s].in_flight
      BY <2>3, <1>3, <1>4 DEF Away
    <3>2. Away(s)'  BY <2>3, <3>1, <1>4, <1>6, <1>7 DEF Away
    <3> QED  BY <3>2, <1>2, <1>4 DEF Called
  <2> QED  BY <2>1, <2>2, <2>3, <1>2
<1> QED  BY <1>1, <1>2, <1>4, <1>5, <1>6, <1>8, OneContext

\* When the last call ends the sender has sent all of them, and its own call
\* is the only one in flight.
LEMMA LastCall ==
  ASSUME TypeOK, Alive, NEW s \in Sessions, ctx[s].in_flight > 0, ctx[s].times_ - 1 = 0
  PROVE  /\ ~Pooled(s) /\ ctx[s].node \in RpcNodes /\ ~Queued(s)
         /\ Sent(s) \/ Away(s)
         /\ ctx[s].in_flight = 1
<1>1. /\ ~Pooled(s) /\ ctx[s].node \in RpcNodes /\ ~Queued(s)
      /\ Sending(s) \/ Sent(s) \/ Away(s)
      /\ ctx[s].times_ >= ctx[s].in_flight
  BY InFlight
<1>2. ctx[s].in_flight \in Nat /\ ctx[s].times_ \in Nat
  BY WorkflowAssumption DEF TypeOK, Contexts
<1>3. ~Sending(s)
  <2> SUFFICES ASSUME Sending(s) PROVE FALSE  OBVIOUS
  <2>1. PICK w \in Workers : /\ worker[w].calls > 0
                             /\ ctx[s].times_ = worker[w].calls + ctx[s].in_flight
    BY DEF Sending
  <2>2. worker[w].calls \in Nat  BY WorkflowAssumption DEF TypeOK
  <2> QED  BY <2>1, <2>2, <1>2
<1> QED  BY <1>1, <1>2, <1>3

LEMMA LastReturnsKeeps ==
  ASSUME TypeOK, Alive, NEW s \in Sessions, LastCallReturns(s)
  PROVE  Alive'
<1>1. UNCHANGED <<done, pending, sessions_, tls_sessions_, worker>>  BY DEF LastCallReturns
<1>2. /\ ~Pooled(s) /\ ctx[s].node \in RpcNodes /\ ~Queued(s)
      /\ Sent(s) \/ Away(s)
      /\ ctx[s].in_flight = 1
  BY LastCall DEF LastCallReturns, BarrierOpens
<1>3. /\ \A u \in Sessions : u # s => ctx'[u] = ctx[u]
      /\ ctx'[s].service_closure = ctx[s].service_closure /\ ctx'[s].node = ctx[s].node
      /\ ctx'[s].is_async = ctx[s].is_async /\ ctx'[s].async_state = "After"
      /\ ctx'[s].async_counter = ctx[s].async_counter
      /\ ctx'[s].in_flight = 0
  BY <1>2 DEF LastCallReturns, TypeOK, Contexts
<1>4. ctx'[s].node # NoNode  BY <1>2, <1>3, WorkflowAssumption
<1>5. queue' = Append(queue, s) /\ queue \in Seq(Requests \cup Sessions) /\ Once(queue)
  BY DEF LastCallReturns, TypeOK, Alive, Unanswered
<1>6. /\ \A y : Queued(y)' <=> Queued(y) \/ y = s
      /\ Once(queue')
  BY <1>2, <1>5, Appended DEF Queued
<1>7. Queued(s)' /\ \A x : x # s => (Queued(x)' <=> Queued(x))  BY <1>6
<1>8. (\A w \in Workers : Alone(w, s)' <=> Alone(w, s)) /\ (NoWalker(s)' <=> NoWalker(s))
  BY <1>1 DEF Alone, NoWalker, Walks
<1>9. Called(s)'
  <2>1. CASE Sent(s)
    <3>1. Meeting(s)'  BY <2>1, <1>1, <1>3, <1>7, <1>8 DEF Sent, Meeting
    <3> QED  BY <3>1, <1>2, <1>3 DEF Called
  <2>2. CASE Away(s)
    <3>1. Back(s)'  BY <2>2, <1>3, <1>7, <1>8 DEF Away, Back
    <3> QED  BY <3>1, <1>2, <1>3 DEF Called
  <2> QED  BY <2>1, <2>2, <1>2
<1> QED  BY <1>1, <1>2, <1>3, <1>4, <1>6, <1>7, <1>9, OneContext

\* The two resets: the one after the loop and the one of a full queue.  They
\* are harmless when ResetCtx finds nobody else.
LEMMA ResetDoneKeeps ==
  ASSUME TypeOK, Alive, NEW w \in Workers, NEW s \in Sessions, ResetDone(w, s), ~crashed'
  PROVE  Alive'
<1> DEFINE c == ctx[s]
<1>1. worker[w].session = s /\ worker[w].pc = "reset"  BY DEF ResetDone, At
<1>2. ~Walks(w, s)  BY <1>1 DEF Walks
<1>3. UNCHANGED <<queue, pending>> /\ w \in Threads  BY DEF ResetDone, Threads
<1>4. /\ worker'[w] = Idle
      /\ \A v \in Workers : v # w => worker'[v] = worker[v]
  BY DEF ResetDone, TypeOK
<1>5. /\ done' = [done EXCEPT ![c.service_closure] = @ + 1]
      /\ ctx' = [ctx EXCEPT ![s] = StepReset([c EXCEPT !.node = NoNode])]
      /\ Release(w, s)
      /\ ~(done[c.service_closure] > 0) /\ ~InUse(s, w, c)
  BY DEF ResetDone, ResetCtx
<1>6. c \in Contexts /\ s # None  BY WorkflowAssumption DEF TypeOK
<1>7. c.service_closure # None  BY <1>1, <1>6 DEF Alive, UsedBefore
<1>8. ~Pooled(s)  BY <1>5, <1>7 DEF Alive, PhasesOK, Resting
<1>9. NoWalker(s)  BY <1>2, <1>5 DEF InUse, NoWalker, Walks
<1>10. ~Queued(s)
  <2>1. s \notin Range(queue)  BY <1>5 DEF InUse
  <2> QED  BY <2>1, QueuedIsRange DEF TypeOK
<1>11. c.in_flight = 0  BY <1>5, <1>6, WorkflowAssumption DEF InUse, Contexts
<1>12. \A v \in Workers : \/ worker'[v] = worker[v]
                          \/ ~Walks(v, s) /\ worker[v].session = s /\ worker'[v] = Idle
  BY <1>1, <1>2, <1>4
<1> HIDE DEF c
<1>13. c.service_closure = ctx[s].service_closure  BY DEF c
<1> QED  BY <1>3, <1>5, <1>6, <1>8, <1>9, <1>10, <1>11, <1>12, <1>13, ResetKeeps

LEMMA QueueFullKeeps ==
  ASSUME TypeOK, Alive, NEW s \in Sessions, LastCallReturnsQueueFull(s), ~crashed'
  PROVE  Alive'
<1> DEFINE c == [ctx[s] EXCEPT !.in_flight = @ - 1, !.times_ = @ - 1]
<1>1. UNCHANGED <<queue, pending, worker>> /\ Net \in Threads
  BY DEF LastCallReturnsQueueFull, Threads
<1>2. /\ ~Pooled(s) /\ ctx[s].node \in RpcNodes /\ ~Queued(s)
      /\ Sent(s) \/ Away(s)
      /\ ctx[s].in_flight = 1
  BY LastCall DEF LastCallReturnsQueueFull, BarrierOpens
<1>3. ctx[s].times_ = 1
  BY WorkflowAssumption DEF LastCallReturnsQueueFull, BarrierOpens, TypeOK, Contexts
<1>4. c \in Contexts /\ c.in_flight = 0 /\ c.service_closure = ctx[s].service_closure
  <2>1. c = [ctx[s] EXCEPT !.in_flight = 0, !.times_ = 0]  BY <1>2, <1>3
  <2>2. 0 \in 0..MaxCalls  BY WorkflowAssumption
  <2> HIDE DEF c
  <2> QED  BY <2>1, <2>2 DEF TypeOK, Contexts
<1>5. /\ done' = [done EXCEPT ![c.service_closure] = @ + 1]
      /\ ctx' = [ctx EXCEPT ![s] = StepReset([c EXCEPT !.node = NoNode])]
      /\ Release(Net, s)
      /\ ~InUse(s, Net, c)
  <2>1. ResetCtx(Net, s, c)  BY DEF LastCallReturnsQueueFull
  <2> HIDE DEF c
  <2> QED  BY <2>1 DEF ResetCtx
<1>6. NoWalker(s)  BY <1>5, WorkflowAssumption DEF InUse, NoWalker, Walks
<1> HIDE DEF c
<1> QED  BY <1>1, <1>2, <1>4, <1>5, <1>6, ResetKeeps

-----------------------------------------------------------------------------
\* Types.  The bounds on the counters, and that done stays below 2, follow
\* from the phases.
WorkerType ==
  [pc : {"idle", "loop", "step", "invoke", "check", "reset"},
   session : Sessions \cup {None}, calls : 0..MaxCalls]

\* The operators that change a context.
LEMMA ContextOps ==
  ASSUME NEW c \in Contexts
  PROVE  /\ StepReset(c) \in Contexts /\ StepReset(c).async_state = "Before"
         /\ \A n \in 1..MaxCalls :
              /\ SetAsync([c EXCEPT !.times_ = n]) \in Contexts
              /\ SetAsync([c EXCEPT !.times_ = n]).async_state = "Before"
<1>1. /\ 0 \in -1..1 /\ 1 \in -1..1 /\ "Before" \in {"Before", "After", "Finish"}
      /\ FALSE \in BOOLEAN /\ TRUE \in BOOLEAN
  OBVIOUS
<1>2. StepReset(c) \in Contexts /\ StepReset(c).async_state = "Before"
  BY <1>1 DEF StepReset, Contexts
<1>3. ASSUME NEW n \in 1..MaxCalls
      PROVE  /\ SetAsync([c EXCEPT !.times_ = n]) \in Contexts
             /\ SetAsync([c EXCEPT !.times_ = n]).async_state = "Before"
  <2>1. n \in 0..MaxCalls  BY WorkflowAssumption
  <2> QED  BY <1>1, <2>1 DEF SetAsync, Contexts
<1> QED  BY <1>2, <1>3

LEMMA WorkerOps ==
  ASSUME TypeOK, NEW w \in Workers
  PROVE  /\ worker \in [Workers -> WorkerType]
         /\ \A x \in WorkerType : [worker EXCEPT ![w] = x] \in [Workers -> WorkerType]
         /\ Idle \in WorkerType
         /\ \A s \in Sessions :
              /\ \A pc \in {"loop", "step", "check", "reset"} : At(pc, s) \in WorkerType
              /\ \A n \in 1..MaxCalls : [pc |-> "invoke", session |-> s, calls |-> n] \in WorkerType
<1>1. worker \in [Workers -> WorkerType]  BY DEF TypeOK, WorkerType
<1>2. 0 \in 0..MaxCalls /\ \A n \in 1..MaxCalls : n \in 0..MaxCalls  BY WorkflowAssumption
<1>3. Idle \in WorkerType  BY <1>2 DEF Idle, WorkerType
<1>4. \A s \in Sessions :
        /\ \A pc \in {"loop", "step", "check", "reset"} : At(pc, s) \in WorkerType
        /\ \A n \in 1..MaxCalls : [pc |-> "invoke", session |-> s, calls |-> n] \in WorkerType
  BY <1>2 DEF At, WorkerType
<1>5. \A x \in WorkerType : [worker EXCEPT ![w] = x] \in [Workers -> WorkerType]  BY <1>1
<1> QED  BY <1>1, <1>3, <1>4, <1>5

LEMMA PoolOps ==
  ASSUME TypeOK, NEW t \in Threads, NEW s \in Sessions, TakeFromPool(t, s) \/ Release(t, s)
  PROVE  sessions_' \subseteq Sessions /\ tls_sessions_' \in [Threads -> SUBSET Sessions]
<1>1. CASE TakeFromPool(t, s)  BY <1>1 DEF TypeOK, TakeFromPool
<1>2. CASE Release(t, s)  BY <1>2 DEF TypeOK, Release
<1> QED  BY <1>1, <1>2

\* A request's count before it is answered once more.
LEMMA DoneOps ==
  ASSUME TypeOK, Alive, NEW r \in Requests
  PROVE  [done EXCEPT ![r] = @ + 1] \in [Requests -> 0..2]
<1>1. done[r] \in 0..1  BY DEF TypeOK, Alive, Unanswered
<1>2. done[r] + 1 \in 0..2  BY <1>1
<1> QED  BY <1>2 DEF TypeOK

LEMMA ResetTypes ==
  ASSUME TypeOK, NoFinish, Alive, NEW t \in Threads, NEW s \in Sessions, NEW c \in Contexts,
         c.service_closure \in Requests, ResetCtx(t, s, c)
  PROVE  /\ done' \in [Requests -> 0..2]
         /\ ctx' \in [Sessions -> Contexts] /\ NoFinish'
         /\ sessions_' \subseteq Sessions /\ tls_sessions_' \in [Threads -> SUBSET Sessions]
         /\ crashed' \in BOOLEAN
<1>1. done' \in [Requests -> 0..2]  BY DoneOps DEF ResetCtx
<1>2. sessions_' \subseteq Sessions /\ tls_sessions_' \in [Threads -> SUBSET Sessions]
  BY PoolOps DEF ResetCtx
<1>3. crashed' \in BOOLEAN  BY DEF ResetCtx
<1> DEFINE d == [c EXCEPT !.node = NoNode]
<1>4. d \in Contexts  BY DEF Contexts
<1>5. ctx' = [ctx EXCEPT ![s] = StepReset(d)]  BY DEF ResetCtx
<1> HIDE DEF d
<1>6. StepReset(d) \in Contexts /\ StepReset(d).async_state = "Before"  BY <1>4, ContextOps
<1>7. ctx' \in [Sessions -> Contexts] /\ NoFinish'  BY <1>5, <1>6 DEF TypeOK, NoFinish
<1> QED  BY <1>1, <1>2, <1>3, <1>7

\* A step of worker w in context s: what it writes is all there is to check.
LEMMA WriteTypes ==
  ASSUME TypeOK, NoFinish, NEW w \in Workers, NEW s \in Sessions,
         NEW c \in Contexts, c.async_state # "Finish", NEW x \in WorkerType,
         ctx' = [ctx EXCEPT ![s] = c], worker' = [worker EXCEPT ![w] = x],
         UNCHANGED <<queue, done, pending, sessions_, tls_sessions_, crashed>>
  PROVE  TypeOK' /\ NoFinish'
<1>1. worker' \in [Workers -> WorkerType]  BY WorkerOps
<1>2. ctx' \in [Sessions -> Contexts]  BY DEF TypeOK
<1>3. NoFinish'  BY DEF TypeOK, NoFinish
<1> QED  BY <1>1, <1>2, <1>3 DEF TypeOK, WorkerType

LEMMA QueueTypes ==
  ASSUME TypeOK
  PROVE  /\ \A x \in Requests \cup Sessions : Len(queue) < QueueSize =>
              Append(queue, x) \in Seq(Requests \cup Sessions) /\ Len(Append(queue, x)) <= QueueSize
         /\ queue # <<>> =>
              Tail(queue) \in Seq(Requests \cup Sessions) /\ Len(Tail(queue)) <= QueueSize
<1> DEFINE T == Requests \cup Sessions
<1>1. queue \in Seq(T) /\ Len(queue) \in Nat /\ Len(queue) <= QueueSize /\ QueueSize \in Nat
  BY WorkflowAssumption DEF TypeOK
<1> HIDE DEF T
<1>2. ASSUME NEW x \in T, Len(queue) < QueueSize
      PROVE  Append(queue, x) \in Seq(T) /\ Len(Append(queue, x)) <= QueueSize
  <2>1. Append(queue, x) \in Seq(T) /\ Len(Append(queue, x)) = Len(queue) + 1
    BY <1>1, Appended
  <2> QED  BY <1>1, <1>2, <2>1
<1>3. ASSUME queue # <<>>
      PROVE  Tail(queue) \in Seq(T) /\ Len(Tail(queue)) <= QueueSize
  <2>1. Tail(queue) \in Seq(T) /\ Len(Tail(queue)) <= Len(queue)  BY <1>1, <1>3, Taken
  <2>2. Len(Tail(queue)) \in Nat  BY <2>1
  <2> QED  BY <1>1, <2>1, <2>2
<1> QED  BY <1>2, <1>3 DEF T

LEMMA ServerTypes ==
  ASSUME TypeOK, NoFinish, Alive, NEW r \in Requests, Server(r)
  PROVE  TypeOK' /\ NoFinish'
<1>1. CASE Arrive(r)
  <2>1. queue' \in Seq(Requests \cup Sessions) /\ Len(queue') <= QueueSize
    BY <1>1, QueueTypes DEF Arrive
  <2> QED  BY <1>1, <2>1 DEF Arrive, TypeOK, NoFinish
<1>2. CASE ArriveQueueFull(r)
  <2>1. done' \in [Requests -> 0..2]  BY <1>2, DoneOps DEF ArriveQueueFull
  <2> QED  BY <1>2, <2>1 DEF ArriveQueueFull, TypeOK, NoFinish
<1> QED  BY <1>1, <1>2 DEF Server

LEMMA RequestTypes ==
  ASSUME TypeOK, NoFinish, Alive, NEW r \in Requests, NEW w \in Workers,
         NoSession(w, r) \/ SetupFails(w, r) \/ SetupCtx(w, r)
  PROVE  TypeOK' /\ NoFinish'
<1>1. TakesRequest(w, r) => queue' \in Seq(Requests \cup Sessions) /\ Len(queue') <= QueueSize
  BY QueueTypes DEF TakesRequest
<1>2. CASE NoSession(w, r)
  <2>1. done' \in [Requests -> 0..2]  BY <1>2, DoneOps DEF NoSession
  <2> QED  BY <1>1, <1>2, <2>1 DEF NoSession, TypeOK, NoFinish
<1>3. CASE SetupFails(w, r)
  <2>1. done' \in [Requests -> 0..2]  BY <1>3, DoneOps DEF SetupFails
  <2>2. PICK s \in Acquirable(w) :
          /\ ctx' = [ctx EXCEPT ![s].service_closure = r]
          /\ IF tls_sessions_[w] # {}
               THEN UNCHANGED <<sessions_, tls_sessions_>>
               ELSE /\ tls_sessions_' = [tls_sessions_ EXCEPT ![w] = {s}]
                    /\ sessions_' = sessions_ \ {s}
    BY <1>3 DEF SetupFails
  <2>3. s \in Sessions  BY DEF Acquirable, TypeOK, Threads
  <2>4. sessions_' \subseteq Sessions /\ tls_sessions_' \in [Threads -> SUBSET Sessions]
    BY <2>2, <2>3 DEF TypeOK
  <2>5. ctx' \in [Sessions -> Contexts] /\ NoFinish'
    <3> DEFINE d == [ctx[s] EXCEPT !.service_closure = r]
    <3>1. ctx[s] \in Contexts /\ ctx[s].async_state # "Finish"  BY <2>3 DEF TypeOK, NoFinish
    <3>2. d \in Contexts /\ d.async_state # "Finish"  BY <3>1 DEF Contexts
    <3>3. ctx' = [ctx EXCEPT ![s] = d]  BY <2>2
    <3> HIDE DEF d
    <3> QED  BY <2>3, <3>2, <3>3 DEF TypeOK, NoFinish
  <2> QED  BY <1>1, <1>3, <2>1, <2>4, <2>5 DEF SetupFails, TypeOK
<1>4. CASE SetupCtx(w, r)
  <2>1. PICK s \in Acquirable(w) :
          /\ TakeFromPool(w, s)
          /\ ctx' = [ctx EXCEPT ![s] =
                       StepReset([@ EXCEPT !.node = Entry, !.service_closure = r])]
          /\ worker' = [worker EXCEPT ![w] = At("loop", s)]
    BY <1>4 DEF SetupCtx
  <2>2. s \in Sessions /\ w \in Threads  BY DEF Acquirable, TypeOK, Threads
  <2>3. sessions_' \subseteq Sessions /\ tls_sessions_' \in [Threads -> SUBSET Sessions]
    BY <2>1, <2>2, PoolOps
  <2>4. worker' \in [Workers -> WorkerType]  BY <2>1, <2>2, WorkerOps
  <2> DEFINE d == [ctx[s] EXCEPT !.node = Entry, !.service_closure = r]
  <2>5. d \in Contexts
    <3>1. ctx[s] \in Contexts  BY <2>2 DEF TypeOK
    <3>2. Entry \in GraphNodes  BY WorkflowAssumption
    <3> QED  BY <3>1, <3>2 DEF Contexts
  <2>6. ctx' = [ctx EXCEPT ![s] = StepReset(d)]  BY <2>1
  <2> HIDE DEF d
  <2>7. StepReset(d) \in Contexts /\ StepReset(d).async_state = "Before"  BY <2>5, ContextOps
  <2>8. ctx' \in [Sessions -> Contexts] /\ NoFinish'
    BY <2>2, <2>6, <2>7 DEF TypeOK, NoFinish
  <2> QED  BY <1>1, <1>4, <2>3, <2>4, <2>8 DEF SetupCtx, TypeOK, WorkerType
<1> QED  BY <1>2, <1>3, <1>4

LEMMA WorkTypes ==
  ASSUME TypeOK, NoFinish, Alive, NEW w \in Workers, NEW s \in Sessions,
         \/ TakeContext(w, s) \/ LoopTest(w, s) \/ StepAtOnce(w, s) \/ Invoke(w, s)
         \/ CallMethod(w, s) \/ CallMethodNoChannel(w, s) \/ StepAfter(w, s)
         \/ CheckDone(w, s) \/ ResetDone(w, s)
  PROVE  TypeOK' /\ NoFinish'
<1>1. ctx[s] \in Contexts /\ ctx[s].async_state # "Finish" /\ ctx \in [Sessions -> Contexts]
  BY DEF TypeOK, NoFinish
<1>2. ctx[s].times_ \in 0..MaxCalls /\ ctx[s].in_flight \in 0..MaxCalls
      /\ ctx[s].async_counter \in -1..1 /\ MaxCalls \in Nat
  BY <1>1, WorkflowAssumption DEF Contexts
<1>3. CASE TakeContext(w, s)
  <2>1. queue' \in Seq(Requests \cup Sessions) /\ Len(queue') <= QueueSize
    BY <1>3, QueueTypes DEF TakeContext
  <2>2. worker' \in [Workers -> WorkerType]  BY <1>3, WorkerOps DEF TakeContext
  <2> QED  BY <1>3, <2>1, <2>2 DEF TakeContext, TypeOK, WorkerType, NoFinish
<1>4. CASE LoopTest(w, s)
  <2> DEFINE x == At(IF IsAsync(ctx[s]) \/ ctx[s].node = EndNode THEN "check" ELSE "step", s)
  <2>1. x \in WorkerType  BY WorkerOps
  <2>2. ctx[s].is_async => ctx[s].async_counter - 1 \in -1..1
    <3> SUFFICES ASSUME ctx[s].is_async PROVE ctx[s].async_counter # -1
      BY <1>2
    <3>1. worker[w].pc = "loop" /\ worker[w].session = s  BY <1>4 DEF LoopTest, At
    <3>2. Walked(s) \/ Sent(s) \/ Meeting(s) \/ Back(s)  BY <3>1, AtLoop
    <3> QED  BY <3>2 DEF Walked, Sent, Meeting, Back
  <2>3. AfterIsAsync(ctx[s]) \in Contexts /\ AfterIsAsync(ctx[s]).async_state # "Finish"
    <3>1. CASE ctx[s].is_async
      <4>1. AfterIsAsync(ctx[s]) = [ctx[s] EXCEPT !.async_counter = ctx[s].async_counter - 1]
        BY <3>1 DEF AfterIsAsync
      <4> QED  BY <1>1, <2>2, <3>1, <4>1 DEF Contexts
    <3>2. CASE ~ctx[s].is_async  BY <1>1, <3>2 DEF AfterIsAsync
    <3> QED  BY <3>1, <3>2
  <2>4. /\ ctx' = [ctx EXCEPT ![s] = AfterIsAsync(ctx[s])]
        /\ worker' = [worker EXCEPT ![w] = x]
        /\ UNCHANGED <<queue, done, pending, sessions_, tls_sessions_, crashed>>
    BY <1>4 DEF LoopTest
  <2> HIDE DEF x
  <2> QED  BY <2>1, <2>3, <2>4, WriteTypes
<1>5. CASE StepAtOnce(w, s) \/ StepAfter(w, s)
  <2>1. PICK c \in Contexts, next \in Successors[ctx[s].node] :
          ctx' = [ctx EXCEPT ![s] = NextStep(c, next)]
    <3>1. CASE StepAtOnce(w, s)  BY <1>1, <3>1 DEF StepAtOnce
    <3>2. CASE StepAfter(w, s)
      <4> DEFINE d == [ctx[s] EXCEPT !.async_state = "Finish"]
      <4>1. d \in Contexts  BY <1>1 DEF Contexts
      <4>2. \E next \in Successors[ctx[s].node] : ctx' = [ctx EXCEPT ![s] = NextStep(d, next)]
        BY <3>2 DEF StepAfter
      <4> QED  BY <4>1, <4>2
    <3> QED  BY <1>5, <3>1, <3>2
  <2>2. ctx[s].node \in GraphNodes
    BY <1>5, WorkflowAssumption DEF StepAtOnce, StepAfter
  <2>3. next \in GraphNodes \cup {EndNode, NoNode}  BY <2>1, <2>2, WorkflowAssumption
  <2> DEFINE e == [c EXCEPT !.node = next]
  <2>4. e \in Contexts /\ NextStep(c, next) = StepReset(e)
    BY <2>3 DEF Contexts, NextStep
  <2> HIDE DEF e
  <2>5. NextStep(c, next) \in Contexts /\ NextStep(c, next).async_state = "Before"
    BY <2>4, ContextOps
  <2>6. At("loop", s) \in WorkerType  BY WorkerOps
  <2>7. /\ worker' = [worker EXCEPT ![w] = At("loop", s)]
        /\ UNCHANGED <<queue, done, pending, sessions_, tls_sessions_, crashed>>
    BY <1>5 DEF StepAtOnce, StepAfter
  <2> QED  BY <2>1, <2>5, <2>6, <2>7, WriteTypes
<1>6. CASE Invoke(w, s)
  <2>1. PICK n \in 1..MaxCalls :
          /\ ctx' = [ctx EXCEPT ![s] = SetAsync([@ EXCEPT !.times_ = n])]
          /\ worker' = [worker EXCEPT ![w] = [pc |-> "invoke", session |-> s, calls |-> n]]
    BY <1>6 DEF Invoke
  <2> DEFINE e == SetAsync([ctx[s] EXCEPT !.times_ = n])
             x == [pc |-> "invoke", session |-> s, calls |-> n]
  <2>2. e \in Contexts /\ e.async_state # "Finish"  BY <1>1, ContextOps
  <2>3. x \in WorkerType  BY WorkerOps
  <2>4. ctx' = [ctx EXCEPT ![s] = e] /\ worker' = [worker EXCEPT ![w] = x]  BY <2>1
  <2>5. UNCHANGED <<queue, done, pending, sessions_, tls_sessions_, crashed>>
    BY <1>6 DEF Invoke
  <2> HIDE DEF e, x
  <2> QED  BY <2>2, <2>3, <2>4, <2>5, WriteTypes
<1>7. ASSUME worker[w].pc = "invoke", worker[w].session = s, CallMade(w)
      PROVE  \E x \in WorkerType : worker' = [worker EXCEPT ![w] = x]
  <2>1. worker[w].calls \in 0..MaxCalls /\ worker[w].calls > 0
    BY <1>7, AtInvoke DEF TypeOK
  <2>2. CASE worker[w].calls - 1 = 0
    <3>1. At("loop", s) \in WorkerType  BY WorkerOps
    <3>2. worker' = [worker EXCEPT ![w] = At("loop", s)]  BY <1>7, <2>2 DEF CallMade
    <3> QED  BY <3>1, <3>2
  <2>3. CASE worker[w].calls - 1 # 0
    <3> DEFINE x == [worker[w] EXCEPT !.calls = worker[w].calls - 1]
    <3>1. worker[w].calls - 1 \in 0..MaxCalls  BY <1>2, <2>1
    <3>2. x \in WorkerType  BY <3>1 DEF TypeOK, WorkerType
    <3>3. worker' = [worker EXCEPT ![w] = x]  BY <1>7, <2>3 DEF CallMade
    <3> QED  BY <3>2, <3>3
  <2> QED  BY <2>2, <2>3
<1>8. ASSUME worker[w].pc = "invoke", worker[w].session = s
      PROVE  ctx[s].in_flight + 1 \in 0..MaxCalls /\ ctx[s].times_ - 1 \in 0..MaxCalls
  <2>1. worker[w].calls > 0 /\ ctx[s].times_ = worker[w].calls + ctx[s].in_flight
    BY <1>8, AtInvoke
  <2>2. worker[w].calls \in Nat  BY <1>2 DEF TypeOK
  <2> QED  BY <2>1, <2>2, <1>2
<1>9. CASE CallMethod(w, s)
  <2> DEFINE e == [ctx[s] EXCEPT !.in_flight = ctx[s].in_flight + 1]
  <2>1. e \in Contexts /\ e.async_state # "Finish"
    BY <1>1, <1>8, <1>9 DEF CallMethod, Contexts
  <2>2. ctx' = [ctx EXCEPT ![s] = e]  BY <1>9 DEF CallMethod
  <2>3. PICK x \in WorkerType : worker' = [worker EXCEPT ![w] = x]
    BY <1>7, <1>9 DEF CallMethod
  <2>4. UNCHANGED <<queue, done, pending, sessions_, tls_sessions_, crashed>>
    BY <1>9 DEF CallMethod
  <2> HIDE DEF e
  <2> QED  BY <2>1, <2>2, <2>3, <2>4, WriteTypes
<1>10. CASE CallMethodNoChannel(w, s)
  <2> DEFINE d == [ctx[s] EXCEPT !.times_ = @ - 1]
             f == [d EXCEPT !.async_state = "After"]
             e == IF BarrierOpens(d.times_) THEN AfterIsAsync(f) ELSE d
  <2>1. worker[w].pc = "invoke" /\ worker[w].session = s
    BY <1>10 DEF CallMethodNoChannel
  <2>2. ctx[s].async_counter = 1  BY <2>1, AtInvoke DEF Sending
  <2>3. d \in Contexts /\ d.async_state # "Finish"  BY <1>1, <1>8, <2>1 DEF Contexts
  <2>4. f \in Contexts /\ f.async_state = "After" /\ f.async_counter = 1
    BY <1>1, <1>8, <2>1, <2>2 DEF Contexts
  <2>5. AfterIsAsync(f) \in Contexts /\ AfterIsAsync(f).async_state = "After"
    <3> HIDE DEF f
    <3>1. f.async_counter - 1 \in -1..1  BY <2>4
    <3>2. CASE f.is_async
      <4>1. AfterIsAsync(f) = [f EXCEPT !.async_counter = f.async_counter - 1]
        BY <3>2 DEF AfterIsAsync
      <4> QED  BY <2>4, <3>1, <4>1 DEF Contexts
    <3>3. CASE ~f.is_async  BY <2>4, <3>3 DEF AfterIsAsync
    <3> QED  BY <3>2, <3>3
  <2>6. e \in Contexts /\ e.async_state # "Finish"
    <3> HIDE DEF f, d
    <3> QED  BY <2>3, <2>5
  <2>7. ctx' = [ctx EXCEPT ![s] = e]  BY <1>10 DEF CallMethodNoChannel
  <2>8. PICK x \in WorkerType : worker' = [worker EXCEPT ![w] = x]
    BY <1>7, <1>10 DEF CallMethodNoChannel
  <2>9. UNCHANGED <<queue, done, pending, sessions_, tls_sessions_, crashed>>
    BY <1>10 DEF CallMethodNoChannel
  <2> HIDE DEF e
  <2> QED  BY <2>6, <2>7, <2>8, <2>9, WriteTypes
<1>11. CASE CheckDone(w, s)
  <2>1. PICK x \in WorkerType : worker' = [worker EXCEPT ![w] = x]
    BY <1>11, WorkerOps DEF CheckDone
  <2>2. UNCHANGED <<queue, done, pending, ctx, sessions_, tls_sessions_, crashed>>
    BY <1>11 DEF CheckDone
  <2>3. worker' \in [Workers -> WorkerType]  BY <2>1, WorkerOps
  <2> QED  BY <2>2, <2>3 DEF TypeOK, WorkerType, NoFinish
<1>12. CASE ResetDone(w, s)
  <2>1. ctx[s].service_closure \in Requests
    <3>1. worker[w].session = s /\ s # None
      BY <1>12, WorkflowAssumption DEF ResetDone, At
    <3> QED  BY <1>1, <3>1 DEF Alive, UsedBefore, Contexts
  <2>2. /\ done' \in [Requests -> 0..2]
        /\ ctx' \in [Sessions -> Contexts] /\ NoFinish'
        /\ sessions_' \subseteq Sessions /\ tls_sessions_' \in [Threads -> SUBSET Sessions]
        /\ crashed' \in BOOLEAN
    BY <1>1, <1>12, <2>1, ResetTypes DEF ResetDone, Threads
  <2>3. worker' \in [Workers -> WorkerType]  BY <1>12, WorkerOps DEF ResetDone
  <2> QED  BY <1>12, <2>2, <2>3 DEF ResetDone, TypeOK, WorkerType
<1> QED  BY <1>3, <1>4, <1>5, <1>6, <1>9, <1>10, <1>11, <1>12

LEMMA RespondTypes ==
  ASSUME TypeOK, NoFinish, Alive, NEW s \in Sessions, Respond(s)
  PROVE  TypeOK' /\ NoFinish'
<1>1. /\ ctx[s] \in Contexts /\ ctx[s].async_state # "Finish"
      /\ worker \in [Workers -> WorkerType]
  BY DEF TypeOK, NoFinish, WorkerType
<1>2. /\ ctx[s].times_ \in 0..MaxCalls /\ ctx[s].in_flight \in 0..MaxCalls
      /\ MaxCalls \in Nat
  BY <1>1, WorkflowAssumption DEF Contexts
<1>3. ctx[s].in_flight > 0 /\ ctx[s].times_ >= ctx[s].in_flight /\ ~Pooled(s)
  BY InFlight DEF Respond, CallReturns, LastCallReturns, LastCallReturnsQueueFull
<1>4. ctx[s].times_ - 1 \in 0..MaxCalls /\ ctx[s].in_flight - 1 \in 0..MaxCalls
  BY <1>2, <1>3
<1> DEFINE c == [ctx[s] EXCEPT !.in_flight = @ - 1, !.times_ = @ - 1]
<1>5. c \in Contexts /\ c.async_state # "Finish" /\ c.service_closure = ctx[s].service_closure
  BY <1>1, <1>4 DEF Contexts
<1>6. CASE CallReturns(s)
  <2>1. ctx' = [ctx EXCEPT ![s] = c]  BY <1>6 DEF CallReturns
  <2> HIDE DEF c
  <2>2. ctx' \in [Sessions -> Contexts] /\ NoFinish'  BY <2>1, <1>5 DEF TypeOK, NoFinish
  <2> QED  BY <1>6, <2>2 DEF CallReturns, TypeOK
<1>7. CASE LastCallReturns(s)
  <2> DEFINE d == [ctx[s] EXCEPT !.in_flight = @ - 1, !.times_ = @ - 1, !.async_state = "After"]
  <2>1. d \in Contexts /\ d.async_state # "Finish"  BY <1>1, <1>4 DEF Contexts
  <2>2. ctx' = [ctx EXCEPT ![s] = d]  BY <1>7 DEF LastCallReturns
  <2> HIDE DEF d
  <2>3. ctx' \in [Sessions -> Contexts] /\ NoFinish'  BY <2>1, <2>2 DEF TypeOK, NoFinish
  <2>4. queue' \in Seq(Requests \cup Sessions) /\ Len(queue') <= QueueSize
    BY <1>7, QueueTypes DEF LastCallReturns
  <2> QED  BY <1>7, <2>3, <2>4 DEF LastCallReturns, TypeOK
<1>8. CASE LastCallReturnsQueueFull(s)
  <2>1. c.service_closure \in Requests
    <3>1. ctx[s].service_closure # None  BY <1>3 DEF Alive, PhasesOK, OutOfPool
    <3> QED  BY <1>1, <1>5, <3>1 DEF Contexts
  <2>2. ResetCtx(Net, s, c) /\ Net \in Threads  BY <1>8 DEF LastCallReturnsQueueFull, Threads
  <2> HIDE DEF c
  <2>3. /\ done' \in [Requests -> 0..2]
        /\ ctx' \in [Sessions -> Contexts] /\ NoFinish'
        /\ sessions_' \subseteq Sessions /\ tls_sessions_' \in [Threads -> SUBSET Sessions]
        /\ crashed' \in BOOLEAN
    BY <1>5, <2>1, <2>2, ResetTypes
  <2> QED  BY <1>8, <2>3 DEF LastCallReturnsQueueFull, TypeOK
<1> QED  BY <1>6, <1>7, <1>8 DEF Respond

-----------------------------------------------------------------------------
LEMMA SessionStep ==
  ASSUME TypeOK, AtSession, Next
  PROVE  AtSession'
<1>1. ASSUME NEW w \in Workers, NEW x, x.pc = "idle" \/ x.session \in Sessions,
             worker' = [worker EXCEPT ![w] = x]
      PROVE  AtSession'
  BY <1>1 DEF TypeOK, AtSession
<1>2. CASE worker' = worker  BY <1>2 DEF AtSession
<1>3. CASE \E r \in Requests : Server(r)  BY <1>2, <1>3 DEF Server, Arrive, ArriveQueueFull
<1>4. ASSUME NEW w \in Workers, NEW r \in Requests,
             NoSession(w, r) \/ SetupFails(w, r) \/ SetupCtx(w, r)
      PROVE  AtSession'
  <2>1. CASE SetupCtx(w, r)
    <3>1. PICK s \in Acquirable(w) : worker' = [worker EXCEPT ![w] = At("loop", s)]
      BY <2>1 DEF SetupCtx
    <3>2. At("loop", s).session \in Sessions  BY DEF At, Acquirable, TypeOK, Threads
    <3> QED  BY <1>1, <3>1, <3>2
  <2> QED  BY <1>2, <1>4, <2>1 DEF NoSession, SetupFails
<1>5. ASSUME NEW w \in Workers, NEW s \in Sessions,
             \/ TakeContext(w, s) \/ LoopTest(w, s) \/ StepAtOnce(w, s) \/ Invoke(w, s)
             \/ CallMethod(w, s) \/ CallMethodNoChannel(w, s) \/ StepAfter(w, s)
             \/ CheckDone(w, s) \/ ResetDone(w, s)
      PROVE  AtSession'
  <2>1. Idle.pc = "idle" /\ \A pc : At(pc, s).session \in Sessions  BY DEF Idle, At
  <2>2. CASE TakeContext(w, s)  BY <1>1, <2>1, <2>2 DEF TakeContext
  <2>3. CASE LoopTest(w, s)  BY <1>1, <2>1, <2>3 DEF LoopTest
  <2>4. CASE StepAtOnce(w, s) \/ StepAfter(w, s)
    BY <1>1, <2>1, <2>4 DEF StepAtOnce, StepAfter
  <2>5. CASE Invoke(w, s)  BY <1>1, <2>5 DEF Invoke
  <2>6. CASE CallMethod(w, s) \/ CallMethodNoChannel(w, s)
    <3>1. worker[w].session = s /\ CallMade(w)
      BY <2>6 DEF CallMethod, CallMethodNoChannel
    <3>2. worker'[w].session = s /\ \A v \in Workers : v # w => worker'[v] = worker[v]
      BY <3>1 DEF CallMade, At, TypeOK
    <3> QED  BY <3>2 DEF AtSession
  <2>7. CASE CheckDone(w, s) \/ ResetDone(w, s)
    BY <1>1, <2>1, <2>7 DEF CheckDone, ResetDone
  <2> QED  BY <1>5, <2>2, <2>3, <2>4, <2>5, <2>6, <2>7
<1>6. CASE \E s \in Sessions : Respond(s)
  BY <1>2, <1>6 DEF Respond, CallReturns, LastCallReturns, LastCallReturnsQueueFull
<1>7. CASE Stopped  BY <1>2, <1>7 DEF Stopped, vars
<1> QED  BY <1>3, <1>4, <1>5, <1>6, <1>7 DEF Next, Work

LEMMA InitWalks == Init => WalkInv
<1> SUFFICES ASSUME Init PROVE WalkInv  OBVIOUS
<1> USE DEF Init
<1>1. FreshContext \in Contexts
  <2>1. 0 \in 0..MaxCalls /\ 0 \in -1..1 /\ FALSE \in BOOLEAN  BY WorkflowAssumption
  <2> QED  BY <2>1 DEF FreshContext, Contexts
<1>2. Idle \in WorkerType
  <2>1. 0 \in 0..MaxCalls  BY WorkflowAssumption
  <2> QED  BY <2>1 DEF Idle, WorkerType
<1>3. TypeOK
  <2>1. queue \in Seq(Requests \cup Sessions) /\ Len(queue) <= QueueSize
    BY WorkflowAssumption
  <2>2. ctx \in [Sessions -> Contexts]  BY <1>1
  <2>3. worker \in [Workers -> WorkerType]  BY <1>2
  <2>4. done \in [Requests -> 0..2]  OBVIOUS
  <2> QED  BY <2>1, <2>2, <2>3, <2>4 DEF TypeOK, WorkerType
<1>4. NoFinish  BY DEF NoFinish, FreshContext
<1>5. \A x : ~Queued(x)  BY DEF Queued, Has
<1>6. \A s \in Sessions : Pooled(s) /\ Resting(s)
  <2> SUFFICES ASSUME NEW s \in Sessions PROVE Pooled(s) /\ Resting(s)  OBVIOUS
  <2>1. NoWalker(s)  BY WorkflowAssumption DEF NoWalker, Walks, Idle
  <2> QED  BY <1>5, <2>1 DEF Pooled, Resting, FreshContext
<1>7. OneHome  BY DEF OneHome
<1>8. UsedBefore  BY DEF UsedBefore, Idle
<1>9. Unanswered  BY <1>5, <1>6 DEF Unanswered, Once
<1>10. AtSession  BY DEF AtSession, Idle
<1> QED  BY <1>3, <1>4, <1>10, <1>6, <1>7, <1>8, <1>9 DEF WalkInv, Alive, PhasesOK

LEMMA NextWalks == WalkInv /\ [Next]_vars => WalkInv'
<1> SUFFICES ASSUME WalkInv, [Next]_vars PROVE WalkInv'  OBVIOUS
<1>1. TypeOK /\ NoFinish /\ AtSession /\ (~crashed => Alive)  BY DEF WalkInv
<1>2. ASSUME UNCHANGED vars PROVE WalkInv'
  <2>1. TypeOK' /\ NoFinish' /\ AtSession'
    BY <1>1, <1>2 DEF vars, TypeOK, NoFinish, AtSession
  <2>2. ASSUME ~crashed' PROVE Alive'
    <3>1. Alive  BY <1>1, <1>2, <2>2 DEF vars
    <3>2. (\A x : Queued(x)' <=> Queued(x)) /\ \A u \in Sessions : Pooled(u)' <=> Pooled(u)
      BY <1>2 DEF vars, Queued, Pooled
    <3>3. Unanswered'  BY <1>2, <3>1, <3>2 DEF vars, Alive, Unanswered
    <3>4. \A u \in Sessions : ~Pooled(u) => done'[ctx[u].service_closure] = 0
      BY <1>2, <3>1 DEF vars, Alive, PhasesOK, OutOfPool
    <3> QED  BY <1>1, <1>2, <3>1, <3>2, <3>3, <3>4, NoContext DEF vars
  <2> QED  BY <2>1, <2>2 DEF WalkInv
<1>3. Next => AtSession'  BY <1>1, SessionStep
<1>4. ASSUME NEW r \in Requests, Server(r) PROVE WalkInv'
  <2>1. Alive  BY <1>1, <1>4 DEF Server, Arrive, ArriveQueueFull
  <2>2. TypeOK' /\ NoFinish'  BY <1>1, <1>4, <2>1, ServerTypes
  <2>3. Alive'  BY <1>1, <1>4, <2>1, ArriveKeeps
  <2> QED  BY <1>4, <1>3, <2>2, <2>3 DEF WalkInv, Next
<1>5. ASSUME NEW w \in Workers, NEW r \in Requests,
             NoSession(w, r) \/ SetupFails(w, r) \/ SetupCtx(w, r)
      PROVE  WalkInv'
  <2>1. Alive  BY <1>1, <1>5 DEF NoSession, SetupFails, SetupCtx, TakesRequest
  <2>2. TypeOK' /\ NoFinish'  BY <1>1, <1>5, <2>1, RequestTypes
  <2>3. Alive'  BY <1>1, <1>5, <2>1, NoSessionKeeps, SetupFailsKeeps, SetupCtxKeeps
  <2> QED  BY <1>5, <1>3, <2>2, <2>3 DEF WalkInv, Next, Work
<1>6. ASSUME NEW w \in Workers, NEW s \in Sessions,
             \/ TakeContext(w, s) \/ LoopTest(w, s) \/ StepAtOnce(w, s) \/ Invoke(w, s)
             \/ CallMethod(w, s) \/ CallMethodNoChannel(w, s) \/ StepAfter(w, s)
             \/ CheckDone(w, s) \/ ResetDone(w, s)
      PROVE  WalkInv'
  <2>1. Alive
    BY <1>1, <1>6 DEF TakeContext, LoopTest, StepAtOnce, Invoke, CallMethod,
                      CallMethodNoChannel, StepAfter, CheckDone, ResetDone
  <2>2. TypeOK' /\ NoFinish'  BY <1>1, <1>6, <2>1, WorkTypes
  <2>3. ASSUME ~crashed' PROVE Alive'
    BY <1>1, <1>6, <2>1, <2>3, TakeContextKeeps, LoopTestKeeps, StepKeeps, InvokeKeeps,
       CallMethodKeeps, NoChannelKeeps, CheckDoneKeeps, ResetDoneKeeps
  <2> QED  BY <1>6, <1>3, <2>2, <2>3 DEF WalkInv, Next, Work
<1>7. ASSUME NEW s \in Sessions, Respond(s) PROVE WalkInv'
  <2>1. Alive
    BY <1>1, <1>7 DEF Respond, CallReturns, LastCallReturns, LastCallReturnsQueueFull
  <2>2. TypeOK' /\ NoFinish'  BY <1>1, <1>7, <2>1, RespondTypes
  <2>3. ASSUME ~crashed' PROVE Alive'
    BY <1>1, <1>7, <2>1, <2>3, CallReturnsKeeps, LastReturnsKeeps, QueueFullKeeps DEF Respond
  <2> QED  BY <1>7, <1>3, <2>2, <2>3 DEF WalkInv, Next
<1> QED  BY <1>2, <1>4, <1>5, <1>6, <1>7 DEF Next, Work, Stopped

LEMMA WalkInvariant == Spec => []WalkInv
BY InitWalks, NextWalks, PTL DEF Spec

-----------------------------------------------------------------------------
\* The async hand-off of Context::IsAsync lets one thread through: while a
\* worker runs a handler nobody else walks the context, no task of it is
\* queued and no call in flight; an rpc handler is never entered in the state
\* Finish; and a callback run inline by CallMethod stops at IsAsync.
THEOREM HandOffCorrect == Spec => []HandOffOK
<1>1. WalkInv => HandOffOK
  <2> SUFFICES ASSUME WalkInv PROVE HandOffOK  OBVIOUS
  <2>1. TypeOK /\ NoFinish /\ (~crashed => Alive)  BY DEF WalkInv
  <2>2. \A w \in Workers : worker[w].pc \in {"step", "invoke"} => worker[w].session \in Sessions
    BY DEF WalkInv, AtSession
  <2>3. ExclusiveStep
    <3> SUFFICES ASSUME ~crashed, NEW w \in Workers, worker[w].pc = "step"
                 PROVE  ~InUse(worker[w].session, w, ctx[worker[w].session])
      BY DEF ExclusiveStep
    <3> DEFINE s == worker[w].session
    <3>1. s \in Sessions  BY <2>2
    <3>2. ctx[s].in_flight = 0 /\ ~Queued(s) /\ Alone(w, s)  BY <2>1, <3>1, AtStep
    <3>3. s \notin Range(queue)  BY <2>1, <3>2, QueuedIsRange DEF TypeOK
    <3>4. \A v \in Workers \ {w} :
            ~(worker[v].session = s /\ worker[v].pc \in {"loop", "step", "invoke"})
      BY <3>2 DEF Alone, Walks
    <3> HIDE DEF s
    <3>5. ~InUse(s, w, ctx[s])  BY <3>2, <3>3, <3>4 DEF InUse
    <3> QED  BY <3>5 DEF s
  <2>4. ImpossiblePath
    <3> SUFFICES ASSUME NEW w \in Workers, ctx[worker[w].session].node \in RpcNodes,
                        worker[w].pc = "step"
                 PROVE  ctx[worker[w].session].async_state # "Finish"
      BY DEF ImpossiblePath
    <3>1. worker[w].session \in Sessions  BY <2>2
    <3> QED  BY <2>1, <3>1 DEF NoFinish
  <2>5. InlineCallbackStops
    <3> SUFFICES ASSUME ~crashed, NEW w \in Workers, worker[w].pc = "invoke"
                 PROVE  ctx[worker[w].session].async_counter = 1
      BY DEF InlineCallbackStops
    <3>1. worker[w].session \in Sessions  BY <2>2
    <3>2. Sending(worker[w].session)  BY <2>1, <3>1, AtInvoke
    <3> QED  BY <3>2 DEF Sending
  <2> QED  BY <2>1, <2>3, <2>4, <2>5 DEF HandOffOK
<1> QED  BY <1>1, WalkInvariant, PTL

\* PoolSessionFactory: a session in the pool is in one place of it and used by
\* no task, call or walking worker, and the request of a session that is out of
\* the pool has not been answered, unless undefined behaviour came first.
THEOREM SessionsNotReused == Spec => []NoUseAfterRelease
<1>1. WalkInv => NoUseAfterRelease
  <2> SUFFICES ASSUME WalkInv, ~crashed, NEW s \in Sessions
               PROVE  LET homes == {t \in Threads : s \in tls_sessions_[t]}
                      IN  /\ Cardinality(homes) <= 1
                          /\ homes # {} => s \notin sessions_
                          /\ homes # {} \/ s \in sessions_ => ~InUse(s, Net, ctx[s])
                          /\ homes = {} /\ s \notin sessions_ => done[ctx[s].service_closure] = 0
    BY DEF NoUseAfterRelease
  <2> DEFINE homes == {t \in Threads : s \in tls_sessions_[t]}
  <2>1. TypeOK /\ Alive  BY DEF WalkInv
  <2>2. Cardinality(homes) <= 1
    <3>1. CASE homes = {}  BY <3>1, FS_EmptySet
    <3>2. CASE homes # {}
      <4>1. PICK t \in Threads : s \in tls_sessions_[t]  BY <3>2
      <4>2. homes = {t}  BY <2>1, <4>1 DEF Alive, OneHome
      <4>3. Cardinality({t}) = 1  BY FS_Singleton
      <4> HIDE DEF homes
      <4> QED  BY <4>2, <4>3
    <3> QED  BY <3>1, <3>2
  <2>3. homes # {} => s \notin sessions_  BY <2>1 DEF Alive, OneHome
  <2>4. ASSUME Pooled(s) PROVE ~InUse(s, Net, ctx[s])
    <3>1. Resting(s)  BY <2>1, <2>4 DEF Alive, PhasesOK
    <3>2. s \notin Range(queue)  BY <2>1, <3>1, QueuedIsRange DEF TypeOK, Resting
    <3>3. NoWalker(s) /\ ctx[s].in_flight = 0  BY <3>1 DEF Resting
    <3> QED  BY <3>2, <3>3 DEF InUse, NoWalker, Walks
  <2>5. ASSUME ~Pooled(s) PROVE done[ctx[s].service_closure] = 0
    BY <2>1, <2>5 DEF Alive, PhasesOK, OutOfPool
  <2>6. Pooled(s) <=> homes # {} \/ s \in sessions_  BY DEF Pooled
  <2> QED  BY <2>2, <2>3, <2>4, <2>5, <2>6
<1> QED  BY <1>1, WalkInvariant, PTL

\* What a step that answers a request a second time is: it is RunInner after
\* its loop, in a worker that read IsDone true of a context another thread has
\* meanwhile reset and given back.
StaleReset(r) ==
  \E w \in Workers, s \in Sessions :
    worker[w] = At("reset", s) /\ Pooled(s) /\ ctx[s].service_closure = r

\* Closure::Done is called again for a request only by such a worker: never by
\* Callback on a full queue, nor where a request is turned away, whatever the
\* graph, the sizes of queue and pool and the order of the threads.
THEOREM SecondAnswerIsStale ==
  Spec => [][\A r \in Requests : done[r] > 0 /\ done'[r] # done[r] => StaleReset(r)]_vars
<1> DEFINE A == \A r \in Requests : done[r] > 0 /\ done'[r] # done[r] => StaleReset(r)
<1>1. ASSUME WalkInv, Next PROVE A
  <2> SUFFICES ASSUME NEW r \in Requests, done[r] > 0, done'[r] # done[r] PROVE StaleReset(r)  OBVIOUS
  <2>1. TypeOK /\ (~crashed => Alive)  BY <1>1 DEF WalkInv
  <2>2. done \in [Requests -> 0..2]  BY <2>1 DEF TypeOK
  <2>3. ASSUME NEW q \in Requests, done' = [done EXCEPT ![q] = @ + 1] PROVE r = q
    BY <2>2, <2>3
  <2>4. ASSUME NEW q \in Requests, Server(q) PROVE FALSE
    <3>1. ~crashed /\ q \in pending  BY <2>4 DEF Server, Arrive, ArriveQueueFull
    <3>2. done[q] = 0  BY <2>1, <3>1 DEF Alive, Unanswered
    <3>3. CASE Arrive(q)  BY <3>3 DEF Arrive
    <3>4. CASE ArriveQueueFull(q)
      <4>1. r = q  BY <3>4, <2>3 DEF ArriveQueueFull
      <4> QED  BY <3>2, <4>1
    <3> QED  BY <2>4, <3>3, <3>4 DEF Server
  <2>5. ASSUME NEW w \in Workers, NEW q \in Requests, NoSession(w, q) \/ SetupFails(w, q) PROVE FALSE
    <3>1. ~crashed /\ queue # <<>> /\ Head(queue) = q /\ done' = [done EXCEPT ![q] = @ + 1]
      BY <2>5 DEF NoSession, SetupFails, TakesRequest
    <3>2. queue \in Seq(Requests \cup Sessions)  BY <2>1 DEF TypeOK
    <3>3. Queued(q)  BY <3>1, <3>2, Taken DEF Queued
    <3>4. done[q] = 0  BY <2>1, <3>1, <3>3 DEF Alive, Unanswered
    <3> QED  BY <2>3, <3>1, <3>4
  <2>6. ASSUME NEW s \in Sessions, NEW t, NEW c, ~crashed, ResetCtx(t, s, c),
               c.service_closure = ctx[s].service_closure, ~Pooled(s)
        PROVE  FALSE
    <3>1. done[ctx[s].service_closure] = 0 /\ ctx[s].service_closure # None
      BY <2>1, <2>6 DEF Alive, PhasesOK, OutOfPool
    <3>2. ctx[s].service_closure \in Requests  BY <2>1, <3>1 DEF TypeOK, Contexts
    <3>3. done' = [done EXCEPT ![ctx[s].service_closure] = @ + 1]  BY <2>6 DEF ResetCtx
    <3> QED  BY <2>3, <3>1, <3>2, <3>3
  <2>7. ASSUME NEW w \in Workers, NEW s \in Sessions, ResetDone(w, s) PROVE StaleReset(r)
    <3>1. /\ ~crashed /\ worker[w] = At("reset", s)
          /\ ResetCtx(w, s, ctx[s])
      BY <2>7 DEF ResetDone
    <3>2. Pooled(s)  BY <2>6, <3>1
    <3>3. ctx[s].service_closure \in Requests \cup {None}  BY <2>1 DEF TypeOK, Contexts
    <3>4. done' = [done EXCEPT ![ctx[s].service_closure] = @ + 1]  BY <3>1 DEF ResetCtx
    <3>5. ctx[s].service_closure = r  BY <2>2, <3>3, <3>4
    <3> QED  BY <3>1, <3>2, <3>5 DEF StaleReset
  <2>8. ASSUME NEW s \in Sessions, Respond(s) PROVE FALSE
    <3>1. CASE CallReturns(s) \/ LastCallReturns(s)  BY <3>1 DEF CallReturns, LastCallReturns
    <3>2. CASE LastCallReturnsQueueFull(s)
      <4> DEFINE c == [ctx[s] EXCEPT !.in_flight = @ - 1, !.times_ = @ - 1]
      <4>1. ~crashed /\ ctx[s].in_flight > 0 /\ ResetCtx(Net, s, c)
        BY <3>2 DEF LastCallReturnsQueueFull
      <4>2. ctx[s] \in Contexts  BY <2>1 DEF TypeOK
      <4>3. c.service_closure = ctx[s].service_closure  BY <4>2 DEF Contexts
      <4>4. ~Pooled(s)  BY <2>1, <4>1 DEF Alive, PhasesOK, Resting
      <4> HIDE DEF c
      <4> QED  BY <2>6, <4>1, <4>3, <4>4
    <3> QED  BY <2>8, <3>1, <3>2 DEF Respond
  <2>9. ASSUME NEW w \in Workers, Work(w) PROVE StaleReset(r)
    <3>1. ASSUME NEW q \in Requests, NoSession(w, q) \/ SetupFails(w, q) \/ SetupCtx(w, q)
          PROVE  StaleReset(r)
      <4>1. CASE SetupCtx(w, q)  BY <4>1 DEF SetupCtx
      <4> QED  BY <2>5, <3>1, <4>1
    <3>2. ASSUME NEW s \in Sessions,
                 \/ TakeContext(w, s) \/ LoopTest(w, s) \/ StepAtOnce(w, s)
                 \/ Invoke(w, s) \/ CallMethod(w, s) \/ CallMethodNoChannel(w, s)
                 \/ StepAfter(w, s) \/ CheckDone(w, s)
          PROVE  done' = done
      BY <3>2 DEF TakeContext, LoopTest, StepAtOnce, Invoke, CallMethod, CallMethodNoChannel,
                  StepAfter, CheckDone
    <3> QED  BY <2>7, <2>9, <3>1, <3>2 DEF Work
  <2>10. CASE Stopped  BY <2>10 DEF Stopped, vars
  <2> QED  BY <1>1, <2>4, <2>8, <2>9, <2>10 DEF Next
<1>2. WalkInv /\ [Next]_vars => [A]_vars  BY <1>1
<1> HIDE DEF A
<1>3. Spec => [][A]_vars  BY <1>2, WalkInvariant, PTL DEF Spec
<1> QED  BY <1>3 DEF A

-----------------------------------------------------------------------------
\* The pool of threads.  Where a task may be, and what the workers know when
\* they stop.
Holds(w, x) == pool_worker[w] = x
Somewhere(x) == (\E q \in Queues : Has(queues_[q], x)) \/ (\E w \in PoolWorkers : Holds(w, x))
StopsLast(q) == \A i, j \in 1..Len(q) : i <= j /\ q[i] = Stop => q[j] = Stop

TasksKept == \A x \in Tasks : x \in accepted <=> x \in executed \/ Somewhere(x)
NotStopping == ~stop_ /\ ~Somewhere(Stop)
Stopping == stop_ \/ \E w \in PoolWorkers : Holds(w, Stop)
Drained == \A q \in Queues, x \in Tasks : ~Has(queues_[q], x)

PoolInv ==
  /\ PoolTypeOK /\ TasksKept
  /\ \A q \in Queues : StopsLast(queues_[q])
  /\ dtor.pc = "none" => NotStopping
  /\ QueueNum = 1 /\ Stopping => Drained
  /\ \A w \in PoolWorkers : pool_worker[w] = "exit" => stop_
  /\ dtor.pc = "done" => \A w \in PoolWorkers : pool_worker[w] = "exit"

\* Behind a stop task there are only stop tasks.
LEMMA StopAppended ==
  ASSUME NEW T, NEW q \in Seq(T), NEW x \in T, StopsLast(q), x = Stop \/ ~Has(q, Stop)
  PROVE  StopsLast(Append(q, x))
<1> DEFINE a == Append(q, x)
<1>1. /\ a \in Seq(T) /\ Len(a) = Len(q) + 1 /\ Len(q) \in Nat
      /\ \A i \in 1..Len(q) : a[i] = q[i]
      /\ a[Len(q) + 1] = x
  OBVIOUS
<1> HIDE DEF a
<1>2. 1..Len(a) = (1..Len(q)) \cup {Len(q) + 1}  BY <1>1
<1>3. SUFFICES ASSUME NEW i \in 1..Len(a), NEW j \in 1..Len(a), i <= j, a[i] = Stop
               PROVE  a[j] = Stop
  BY DEF StopsLast, a
<1>4. CASE j = Len(q) + 1
  <2>1. CASE i = Len(q) + 1  BY <1>3, <1>4, <2>1
  <2>2. CASE i \in 1..Len(q)
    <3>1. Has(q, Stop)  BY <1>1, <1>3, <2>2 DEF Has
    <3> QED  BY <1>1, <1>4, <3>1
  <2> QED  BY <1>2, <2>1, <2>2
<1>5. CASE j \in 1..Len(q)
  <2>1. i \in 1..Len(q)  BY <1>1, <1>3, <1>5
  <2> QED  BY <1>1, <1>3, <1>5, <2>1 DEF StopsLast
<1> QED  BY <1>2, <1>4, <1>5

LEMMA StopTaken ==
  ASSUME NEW T, NEW q \in Seq(T), q # <<>>, StopsLast(q)
  PROVE  /\ StopsLast(Tail(q))
         /\ Head(q) = Stop => \A y : Has(Tail(q), y) => y = Stop
<1> DEFINE a == Tail(q)
<1>1. /\ a \in Seq(T) /\ Len(a) = Len(q) - 1 /\ Len(q) \in Nat \ {0}
      /\ \A i \in 1..Len(a) : a[i] = q[i + 1]
      /\ Head(q) = q[1]
  OBVIOUS
<1> HIDE DEF a
<1>2. \A i \in 1..Len(a) : i + 1 \in 1..Len(q)  BY <1>1
<1>3. StopsLast(a)
  <2> SUFFICES ASSUME NEW i \in 1..Len(a), NEW j \in 1..Len(a), i <= j, a[i] = Stop
               PROVE  a[j] = Stop
    BY DEF StopsLast
  <2>1. i + 1 <= j + 1  OBVIOUS
  <2> QED  BY <1>1, <1>2, <2>1 DEF StopsLast
<1>4. Head(q) = Stop => \A i \in 1..Len(a) : a[i] = Stop
  <2> SUFFICES ASSUME q[1] = Stop, NEW i \in 1..Len(a) PROVE q[i + 1] = Stop  BY <1>1
  <2>1. 1 \in 1..Len(q) /\ 1 <= i + 1  BY <1>1
  <2> QED  BY <1>2, <2>1 DEF StopsLast
<1> QED  BY <1>3, <1>4 DEF a, Has

LEMMA PoolNumbers ==
  /\ WorkerNum \in Nat \ {0} /\ QueueNum \in Nat \ {0} /\ PoolQueueSize \in Nat \ {0}
  /\ StopsPerQueue \in Nat \ {0}
  /\ 0 \in Queues /\ 0 \in PoolWorkers
  /\ \A w \in PoolWorkers : QueueOf(w) \in Queues
  /\ Stop \notin Tasks /\ (Tasks \cup {Stop}) \cap {"pop", "test", "exit"} = {}
<1>1. /\ WorkerNum \in Nat \ {0} /\ QueueNum \in Nat \ {0} /\ PoolQueueSize \in Nat \ {0}
      /\ Stop \notin Tasks /\ (Tasks \cup {Stop}) \cap {"pop", "test", "exit"} = {}
  <2>1. WorkerNum \in Nat /\ 1..WorkerNum # {}  BY ThreadPoolAssumption
  <2> QED  BY <2>1, ThreadPoolAssumption
<1>2. WorkerNum \div QueueNum \in Nat  BY <1>1
<1>3. \A w \in PoolWorkers : QueueOf(w) \in Queues  BY <1>1 DEF PoolWorkers, QueueOf, Queues
<1> QED  BY <1>1, <1>2, <1>3 DEF StopsPerQueue, Queues, PoolWorkers

LEMMA PoolInvInit == PoolInit => PoolInv
<1> SUFFICES ASSUME PoolInit PROVE PoolInv  OBVIOUS
<1>1. /\ \A q \in Queues : queues_[q] = <<>> /\ \A x : ~Has(queues_[q], x)
      /\ \A w \in PoolWorkers : pool_worker[w] = "pop"
      /\ ~stop_ /\ dtor.pc = "none" /\ accepted = {} /\ executed = {}
  BY DEF PoolInit, Has
<1>2. \A x \in Tasks \cup {Stop} : ~Somewhere(x)  BY <1>1, PoolNumbers DEF Somewhere, Holds
<1>3. PoolTypeOK
  <2>1. <<>> \in Seq(Tasks \cup {Stop}) /\ Len(<<>>) = 0  OBVIOUS
  <2>2. queues_ \in [Queues -> Seq(Tasks \cup {Stop})]  BY <2>1 DEF PoolInit
  <2>3. \A q \in Queues : Len(queues_[q]) <= PoolQueueSize  BY <1>1, <2>1, PoolNumbers
  <2>4. /\ dtor \in [pc : {"none", "push", "join", "done"}, queue : Queues, left : 0..StopsPerQueue]
    BY PoolNumbers DEF PoolInit
  <2> QED  BY <2>2, <2>3, <2>4 DEF PoolInit, PoolTypeOK
<1>4. \A q \in Queues : StopsLast(queues_[q])  BY <1>1 DEF StopsLast
<1>5. ~Stopping  BY <1>1, PoolNumbers DEF Stopping, Holds
<1> QED  BY <1>1, <1>2, <1>3, <1>4, <1>5 DEF PoolInv, TasksKept, NotStopping

\* A worker changes its place, and nothing but stop_ and executed with it.
LEMMA WorkerMoves ==
  ASSUME PoolInv, NEW w \in PoolWorkers, NEW to \in {"pop", "test", "exit"},
         pool_worker' = [pool_worker EXCEPT ![w] = to],
         UNCHANGED <<queues_, dtor, accepted, rejected>>
  PROVE  /\ pool_worker' \in [PoolWorkers -> Tasks \cup {Stop, "pop", "test", "exit"}]
         /\ \A v \in PoolWorkers : pool_worker'[v] = IF v = w THEN to ELSE pool_worker[v]
         /\ \A x \in Tasks \cup {Stop} : Somewhere(x)' => Somewhere(x)
         /\ \A x \in Tasks \cup {Stop} : Somewhere(x) => Somewhere(x)' \/ x = pool_worker[w]
         /\ \A q \in Queues : StopsLast(queues_[q])'
         /\ Drained => Drained'
<1>1. pool_worker \in [PoolWorkers -> Tasks \cup {Stop, "pop", "test", "exit"}]
  BY DEF PoolInv, PoolTypeOK
<1>2. /\ pool_worker' \in [PoolWorkers -> Tasks \cup {Stop, "pop", "test", "exit"}]
      /\ \A v \in PoolWorkers : pool_worker'[v] = IF v = w THEN to ELSE pool_worker[v]
  BY <1>1
<1>3. \A x \in Tasks \cup {Stop} : x # to  BY PoolNumbers
<1>4. \A x \in Tasks \cup {Stop} : Somewhere(x)' => Somewhere(x)  BY <1>2, <1>3 DEF Somewhere, Holds
<1>5. \A x \in Tasks \cup {Stop} : Somewhere(x) => Somewhere(x)' \/ x = pool_worker[w]
  BY <1>2 DEF Somewhere, Holds
<1>6. \A q \in Queues : StopsLast(queues_[q])'  BY DEF PoolInv, StopsLast
<1> QED  BY <1>2, <1>4, <1>5, <1>6 DEF Drained

LEMMA ScheduleKeeps ==
  ASSUME PoolInv, NEW task \in Tasks, NEW q \in Queues, Schedule(task, q)
  PROVE  PoolInv'
<1> DEFINE T == Tasks \cup {Stop}
<1>1. /\ dtor.pc = "none" /\ NotStopping /\ PoolTypeOK /\ TasksKept
      /\ task \notin accepted \cup rejected
      /\ UNCHANGED <<pool_worker, stop_, dtor, executed>>
  BY DEF PoolInv, Schedule
<1>2. queues_ \in [Queues -> Seq(T)] /\ \A r \in Queues : StopsLast(queues_[r]) /\ Len(queues_[r]) <= PoolQueueSize
  BY DEF PoolInv, PoolTypeOK
<1>3. CASE HasRoom(q)
  <2> DEFINE a == Append(queues_[q], task)
  <2>1. queues_' = [queues_ EXCEPT ![q] = a] /\ accepted' = accepted \cup {task} /\ rejected' = rejected
    BY <1>3 DEF Schedule
  <2>2. queues_[q] \in Seq(T) /\ task \in T  BY <1>2
  <2>3. /\ a \in Seq(T) /\ Len(a) = Len(queues_[q]) + 1
        /\ \A y : Has(a, y) <=> Has(queues_[q], y) \/ y = task
    BY <2>2, Appended
  <2>4. StopsLast(a)
    <3>1. ~Has(queues_[q], Stop)  BY <1>1 DEF NotStopping, Somewhere
    <3> QED  BY <1>2, <2>2, <3>1, StopAppended
  <2>5. Len(a) <= PoolQueueSize
    <3>1. Len(queues_[q]) < PoolQueueSize /\ Len(queues_[q]) \in Nat  BY <1>3, <2>2 DEF HasRoom
    <3> QED  BY <2>3, <3>1, PoolNumbers
  <2> HIDE DEF a
  <2>6. queues_' \in [Queues -> Seq(T)] /\ \A r \in Queues : queues_'[r] = IF r = q THEN a ELSE queues_[r]
    BY <1>2, <2>1, <2>3
  <2>7. \A x \in T : Somewhere(x)' <=> Somewhere(x) \/ x = task
    BY <1>1, <2>3, <2>6 DEF Somewhere, Holds
  <2>8. PoolTypeOK'
    <3>1. \A r \in Queues : Len(queues_'[r]) <= PoolQueueSize  BY <1>2, <2>5, <2>6
    <3> QED  BY <1>1, <2>1, <2>6, <3>1 DEF PoolTypeOK
  <2>9. TasksKept'  BY <1>1, <2>1, <2>7 DEF TasksKept
  <2>10. NotStopping'  BY <1>1, <2>7, PoolNumbers DEF NotStopping
  <2>11. ~Stopping'  BY <2>10 DEF Stopping, NotStopping, Somewhere
  <2>12. \A r \in Queues : StopsLast(queues_[r])'
    <3>1. \A r \in Queues : StopsLast(queues_'[r])  BY <1>2, <2>4, <2>6
    <3> QED  BY <3>1 DEF StopsLast
  <2> QED  BY <1>1, <2>8, <2>9, <2>10, <2>11, <2>12 DEF PoolInv
<1>4. CASE ~HasRoom(q)
  <2>1. rejected' = rejected \cup {task} /\ UNCHANGED <<queues_, accepted>>  BY <1>4 DEF Schedule
  <2>2. PoolTypeOK'  BY <1>1, <2>1 DEF PoolTypeOK
  <2> QED
    BY <1>1, <2>1, <2>2
    DEF PoolInv, TasksKept, Somewhere, Holds, NotStopping, Stopping, Drained, StopsLast, Has
<1> QED  BY <1>3, <1>4

LEMMA PopKeeps ==
  ASSUME PoolInv, NEW w \in PoolWorkers, Pop(w)
  PROVE  PoolInv'
<1> DEFINE T == Tasks \cup {Stop}
           q == QueueOf(w)
           a == Tail(queues_[q])
           h == Head(queues_[q])
<1>1. /\ PoolTypeOK /\ TasksKept /\ pool_worker[w] = "pop" /\ queues_[q] # <<>> /\ q \in Queues
      /\ pool_worker' = [pool_worker EXCEPT ![w] = h]
      /\ queues_' = [queues_ EXCEPT ![q] = a]
      /\ UNCHANGED <<stop_, dtor, accepted, rejected, executed>>
  BY PoolNumbers DEF PoolInv, Pop
<1>2. /\ queues_ \in [Queues -> Seq(T)] /\ \A r \in Queues : StopsLast(queues_[r]) /\ Len(queues_[r]) <= PoolQueueSize
      /\ pool_worker \in [PoolWorkers -> Tasks \cup {Stop, "pop", "test", "exit"}]
  BY DEF PoolInv, PoolTypeOK
<1>3. queues_[q] \in Seq(T)  BY <1>1, <1>2
<1>4. /\ a \in Seq(T) /\ h \in T /\ Len(a) <= Len(queues_[q])
      /\ \A y : Has(queues_[q], y) <=> Has(a, y) \/ y = h
  BY <1>1, <1>3, Taken
<1>5. StopsLast(a) /\ (h = Stop => \A y : Has(a, y) => y = Stop)
  BY <1>1, <1>2, <1>3, StopTaken
<1>6. Len(a) <= PoolQueueSize
  <2>1. Len(a) \in Nat /\ Len(queues_[q]) \in Nat /\ Len(queues_[q]) <= PoolQueueSize
    BY <1>1, <1>2, <1>3, <1>4
  <2> QED  BY <1>4, <2>1, PoolNumbers
<1> HIDE DEF a, h, q
<1>7. /\ queues_' \in [Queues -> Seq(T)]
      /\ \A r \in Queues : queues_'[r] = IF r = q THEN a ELSE queues_[r]
      /\ pool_worker' \in [PoolWorkers -> Tasks \cup {Stop, "pop", "test", "exit"}]
      /\ \A v \in PoolWorkers : pool_worker'[v] = IF v = w THEN h ELSE pool_worker[v]
  BY <1>1, <1>2, <1>4
<1>8. "pop" \notin T /\ h \notin {"exit", "pop"}  BY <1>4, PoolNumbers
<1>9. \A x \in T : Somewhere(x)' <=> Somewhere(x)
  <2> SUFFICES ASSUME NEW x \in T PROVE Somewhere(x)' <=> Somewhere(x)  OBVIOUS
  <2>1. Somewhere(x)' => Somewhere(x)
    BY <1>1, <1>4, <1>7 DEF Somewhere, Holds
  <2>2. ASSUME Somewhere(x) PROVE Somewhere(x)'
    <3>1. CASE x = h  BY <1>7, <3>1 DEF Somewhere, Holds
    <3>2. CASE x # h /\ \E r \in Queues : Has(queues_[r], x)
      <4>1. PICK r \in Queues : Has(queues_[r], x)  BY <3>2
      <4>2. Has(queues_'[r], x)  BY <1>4, <1>7, <3>2, <4>1
      <4> QED  BY <4>2 DEF Somewhere
    <3>3. CASE \E v \in PoolWorkers : Holds(v, x)
      <4>1. PICK v \in PoolWorkers : pool_worker[v] = x  BY <3>3 DEF Holds
      <4>2. v # w  BY <1>1, <1>8, <4>1
      <4> QED  BY <1>7, <4>1, <4>2 DEF Somewhere, Holds
    <3> QED  BY <2>2, <3>1, <3>2, <3>3 DEF Somewhere
  <2> QED  BY <2>1, <2>2
<1>10. PoolTypeOK'
  <2>1. \A r \in Queues : Len(queues_'[r]) <= PoolQueueSize  BY <1>2, <1>6, <1>7
  <2> QED  BY <1>1, <1>7, <2>1 DEF PoolTypeOK
<1>11. TasksKept'  BY <1>1, <1>9 DEF TasksKept
<1>12. \A r \in Queues : StopsLast(queues_[r])'
  <2>1. \A r \in Queues : StopsLast(queues_'[r])  BY <1>2, <1>5, <1>7
  <2> QED  BY <2>1 DEF StopsLast
<1>13. (dtor.pc = "none" => NotStopping)'
  BY <1>1, <1>9, PoolNumbers DEF PoolInv, NotStopping
<1>14. (QueueNum = 1 /\ Stopping => Drained)'
  <2> SUFFICES ASSUME QueueNum = 1, Stopping' PROVE Drained'  OBVIOUS
  <2>1. CASE Stopping
    <3>1. Drained  BY <2>1 DEF PoolInv
    <3> QED  BY <1>4, <1>7, <3>1 DEF Drained
  <2>2. CASE ~Stopping
    <3>1. h = Stop  BY <1>1, <1>7, <2>2 DEF Stopping, Holds
    <3>2. Queues = {q}  BY <1>1, PoolNumbers DEF Queues
    <3> QED  BY <1>5, <1>7, <3>1, <3>2, PoolNumbers DEF Drained
  <2> QED  BY <2>1, <2>2
<1>15. (\A v \in PoolWorkers : pool_worker[v] = "exit" => stop_)'
  BY <1>1, <1>7, <1>8 DEF PoolInv
<1>16. dtor.pc # "done"  BY <1>1 DEF PoolInv
<1> QED  BY <1>1, <1>10, <1>11, <1>12, <1>13, <1>14, <1>15, <1>16 DEF PoolInv

LEMMA CallTaskKeeps ==
  ASSUME PoolInv, NEW w \in PoolWorkers, CallTask(w)
  PROVE  PoolInv'
<1>1. /\ PoolTypeOK /\ TasksKept /\ pool_worker[w] \in Tasks
      /\ executed' = executed \cup {pool_worker[w]}
      /\ pool_worker' = [pool_worker EXCEPT ![w] = "test"]
      /\ UNCHANGED <<queues_, stop_, dtor, accepted, rejected>>
  BY DEF PoolInv, CallTask
<1>2. /\ pool_worker' \in [PoolWorkers -> Tasks \cup {Stop, "pop", "test", "exit"}]
      /\ \A v \in PoolWorkers : pool_worker'[v] = IF v = w THEN "test" ELSE pool_worker[v]
      /\ \A x \in Tasks \cup {Stop} : Somewhere(x)' => Somewhere(x)
      /\ \A x \in Tasks \cup {Stop} : Somewhere(x) => Somewhere(x)' \/ x = pool_worker[w]
      /\ \A q \in Queues : StopsLast(queues_[q])'
      /\ Drained => Drained'
  BY <1>1, WorkerMoves
<1>3. pool_worker[w] \in accepted  BY <1>1 DEF TasksKept, Somewhere, Holds
<1>4. PoolTypeOK'  BY <1>1, <1>2, <1>3 DEF PoolTypeOK
<1>5. TasksKept'
  <2> SUFFICES ASSUME NEW x \in Tasks PROVE (x \in accepted <=> x \in executed \/ Somewhere(x))'
    BY DEF TasksKept
  <2> QED  BY <1>1, <1>2, <1>3 DEF TasksKept
<1>6. (dtor.pc = "none" => NotStopping)'  BY <1>1, <1>2 DEF PoolInv, NotStopping
<1>7. Stopping' => Stopping  BY <1>1, <1>2, PoolNumbers DEF Stopping, Holds
<1>8. (\A v \in PoolWorkers : pool_worker[v] = "exit" => stop_)'  BY <1>1, <1>2 DEF PoolInv
<1>9. dtor.pc # "done"  BY <1>1, PoolNumbers DEF PoolInv
<1> QED  BY <1>1, <1>2, <1>4, <1>5, <1>6, <1>7, <1>8, <1>9 DEF PoolInv

\* A worker that is not at a task moves on: it has run a stop task, or looks at stop_.
LEMMA StopStepsKeep ==
  ASSUME PoolInv, NEW w \in PoolWorkers, CallStop(w) \/ TestStop(w)
  PROVE  PoolInv'
<1> DEFINE to == IF pool_worker[w] = Stop THEN "test" ELSE IF stop_ THEN "exit" ELSE "pop"
<1>1. /\ PoolTypeOK /\ TasksKept /\ pool_worker[w] \notin Tasks
      /\ stop_' = (stop_ \/ pool_worker[w] = Stop)
      /\ pool_worker' = [pool_worker EXCEPT ![w] = to]
      /\ UNCHANGED <<queues_, dtor, accepted, rejected, executed>>
      /\ pool_worker[w] # "exit"
  <2>1. CASE CallStop(w)  BY <2>1, PoolNumbers DEF PoolInv, CallStop, PoolTypeOK
  <2>2. CASE TestStop(w)  BY <2>2, PoolNumbers DEF PoolInv, TestStop, PoolTypeOK
  <2> QED  BY <2>1, <2>2
<1>2. to \in {"pop", "test", "exit"}  OBVIOUS
<1>3. to = "exit" => stop_'  BY <1>1
<1> HIDE DEF to
<1>4. /\ pool_worker' \in [PoolWorkers -> Tasks \cup {Stop, "pop", "test", "exit"}]
      /\ \A v \in PoolWorkers : pool_worker'[v] = IF v = w THEN to ELSE pool_worker[v]
      /\ \A x \in Tasks \cup {Stop} : Somewhere(x)' => Somewhere(x)
      /\ \A x \in Tasks \cup {Stop} : Somewhere(x) => Somewhere(x)' \/ x = pool_worker[w]
      /\ \A q \in Queues : StopsLast(queues_[q])'
      /\ Drained => Drained'
  BY <1>1, <1>2, WorkerMoves
<1>5. stop_' \in BOOLEAN  BY <1>1
<1>6. PoolTypeOK'  BY <1>1, <1>4, <1>5 DEF PoolTypeOK
<1>7. TasksKept'
  <2> SUFFICES ASSUME NEW x \in Tasks PROVE (x \in accepted <=> x \in executed \/ Somewhere(x))'
    BY DEF TasksKept
  <2>1. Somewhere(x)' <=> Somewhere(x)  BY <1>1, <1>4
  <2> QED  BY <1>1, <2>1 DEF TasksKept
<1>8. (dtor.pc = "none" => NotStopping)'
  <2> SUFFICES ASSUME dtor.pc = "none" PROVE NotStopping'  BY <1>1
  <2>1. NotStopping  BY DEF PoolInv
  <2>2. pool_worker[w] # Stop  BY <2>1 DEF NotStopping, Somewhere, Holds
  <2> QED  BY <1>1, <1>4, <2>1, <2>2 DEF NotStopping
<1>9. Stopping' => Stopping  BY <1>1, <1>2, <1>4, PoolNumbers DEF Stopping, Holds
<1>10. (\A v \in PoolWorkers : pool_worker[v] = "exit" => stop_)'
  BY <1>1, <1>3, <1>4 DEF PoolInv
<1>11. dtor.pc # "done"  BY <1>1 DEF PoolInv
<1> QED  BY <1>1, <1>4, <1>6, <1>7, <1>8, <1>9, <1>10, <1>11 DEF PoolInv

LEMMA PushStopKeeps ==
  ASSUME PoolInv, PushStop
  PROVE  PoolInv'
<1> DEFINE T == Tasks \cup {Stop}
           q == dtor.queue
           a == Append(queues_[q], Stop)
<1>1. /\ dtor.pc = "push" /\ PoolTypeOK /\ TasksKept /\ HasRoom(q) /\ q \in Queues
      /\ queues_' = [queues_ EXCEPT ![q] = a]
      /\ UNCHANGED <<pool_worker, stop_, accepted, rejected, executed>>
  BY DEF PoolInv, PushStop, PoolTypeOK
<1>2. queues_ \in [Queues -> Seq(T)] /\ \A r \in Queues : StopsLast(queues_[r]) /\ Len(queues_[r]) <= PoolQueueSize
  BY DEF PoolInv, PoolTypeOK
<1>3. queues_[q] \in Seq(T) /\ Stop \in T  BY <1>1, <1>2
<1>4. /\ a \in Seq(T) /\ Len(a) = Len(queues_[q]) + 1
      /\ \A y : Has(a, y) <=> Has(queues_[q], y) \/ y = Stop
  BY <1>3, Appended
<1>5. StopsLast(a)  BY <1>1, <1>2, <1>3, StopAppended
<1>6. Len(a) <= PoolQueueSize
  <2>1. Len(queues_[q]) < PoolQueueSize /\ Len(queues_[q]) \in Nat  BY <1>1, <1>3 DEF HasRoom
  <2> QED  BY <1>4, <2>1, PoolNumbers
<1>7. /\ dtor' \in [pc : {"none", "push", "join", "done"}, queue : Queues, left : 0..StopsPerQueue]
      /\ dtor'.pc \in {"push", "join"}
  <2>1. dtor \in [pc : {"none", "push", "join", "done"}, queue : Queues, left : 0..StopsPerQueue]
    BY <1>1 DEF PoolTypeOK
  <2>2. CASE dtor.left > 1
    <3>1. dtor' = [dtor EXCEPT !.left = dtor.left - 1]  BY <2>2 DEF PushStop
    <3>2. dtor.left - 1 \in 0..StopsPerQueue  BY <2>1, <2>2, PoolNumbers
    <3> QED  BY <1>1, <2>1, <3>1, <3>2
  <2>3. CASE ~(dtor.left > 1) /\ q + 1 < QueueNum
    <3>1. dtor' = [pc |-> "push", queue |-> q + 1, left |-> StopsPerQueue]  BY <2>3 DEF PushStop
    <3>2. q + 1 \in Queues /\ StopsPerQueue \in 0..StopsPerQueue
      BY <1>1, <2>3, PoolNumbers DEF Queues
    <3> QED  BY <3>1, <3>2
  <2>4. CASE ~(dtor.left > 1) /\ ~(q + 1 < QueueNum)
    <3>1. dtor' = [pc |-> "join", queue |-> 0, left |-> 0]  BY <2>4 DEF PushStop
    <3> QED  BY <3>1, PoolNumbers
  <2> QED  BY <2>2, <2>3, <2>4
<1> HIDE DEF a, q
<1>8. queues_' \in [Queues -> Seq(T)] /\ \A r \in Queues : queues_'[r] = IF r = q THEN a ELSE queues_[r]
  BY <1>1, <1>2, <1>4
<1>9. \A x \in Tasks, r \in Queues : Has(queues_'[r], x) <=> Has(queues_[r], x)
  BY <1>4, <1>8, PoolNumbers
<1>10. PoolTypeOK'
  <2>1. \A r \in Queues : Len(queues_'[r]) <= PoolQueueSize  BY <1>2, <1>6, <1>8
  <2> QED  BY <1>1, <1>7, <1>8, <2>1 DEF PoolTypeOK
<1>11. TasksKept'
  <2>1. \A x \in Tasks : Somewhere(x)' <=> Somewhere(x)  BY <1>1, <1>9 DEF Somewhere, Holds
  <2> QED  BY <1>1, <2>1 DEF TasksKept
<1>12. \A r \in Queues : StopsLast(queues_[r])'
  <2>1. \A r \in Queues : StopsLast(queues_'[r])  BY <1>2, <1>5, <1>8
  <2> QED  BY <2>1 DEF StopsLast
<1>13. (QueueNum = 1 /\ Stopping => Drained)'
  <2>1. Stopping' <=> Stopping  BY <1>1 DEF Stopping, Holds
  <2>2. Drained => Drained'  BY <1>9 DEF Drained
  <2> QED  BY <2>1, <2>2 DEF PoolInv
<1> QED  BY <1>1, <1>7, <1>10, <1>11, <1>12, <1>13 DEF PoolInv

\* The destructor begins, or returns.
LEMMA DestroyKeeps ==
  ASSUME PoolInv, Destroy \/ Join
  PROVE  PoolInv'
<1>1. /\ PoolTypeOK /\ dtor'.pc \in {"push", "done"}
      /\ dtor'.pc = "done" => \A w \in PoolWorkers : pool_worker[w] = "exit"
      /\ dtor' \in [pc : {"none", "push", "join", "done"}, queue : Queues, left : 0..StopsPerQueue]
      /\ UNCHANGED <<queues_, pool_worker, stop_, accepted, rejected, executed>>
  <2>1. CASE Destroy
    <3>1. StopsPerQueue \in 0..StopsPerQueue /\ 0 \in Queues  BY PoolNumbers
    <3> QED  BY <2>1, <3>1 DEF Destroy, PoolInv
  <2>2. CASE Join
    <3>1. dtor' = [dtor EXCEPT !.pc = "done"]  BY <2>2 DEF Join
    <3>2. PoolTypeOK  BY DEF PoolInv
    <3> QED  BY <2>2, <3>1, <3>2 DEF Join, PoolTypeOK
  <2> QED  BY <2>1, <2>2
<1>2. PoolTypeOK'  BY <1>1 DEF PoolTypeOK
<1> QED
  BY <1>1, <1>2 DEF PoolInv, TasksKept, Somewhere, Holds, Stopping, Drained, StopsLast, Has

LEMMA PoolInvNext == PoolInv /\ [PoolNext]_poolVars => PoolInv'
<1> SUFFICES ASSUME PoolInv, [PoolNext]_poolVars PROVE PoolInv'  OBVIOUS
<1>1. CASE \E task \in Tasks, q \in Queues : Schedule(task, q)  BY <1>1, ScheduleKeeps
<1>2. ASSUME NEW w \in PoolWorkers, Loop(w) PROVE PoolInv'
  BY <1>2, PopKeeps, CallTaskKeeps, StopStepsKeep DEF Loop
<1>3. CASE Destroy \/ Destructor  BY <1>3, PushStopKeeps, DestroyKeeps DEF Destructor
<1>4. CASE UNCHANGED poolVars
  BY <1>4 DEF poolVars, PoolInv, PoolTypeOK, TasksKept, Somewhere, Holds, NotStopping, Stopping,
              Drained, StopsLast, Has
<1> QED  BY <1>1, <1>2, <1>3, <1>4 DEF PoolNext

LEMMA PoolInvariant == PoolSpec => []PoolInv
<1> QED  BY PoolInvInit, PoolInvNext, PTL DEF PoolSpec

-----------------------------------------------------------------------------
\* The stop tasks of the one queue, counted: those that were pushed are in the
\* queue or with a worker that is leaving, and the first worker to leave for
\* stop_ has one of them taken out.

\* q is some tasks and then n stop tasks, for an n between lo and hi.
StopsIn(q, lo, hi) ==
  \E k \in 0..Len(q) :
    /\ \A i \in 1..Len(q) : q[i] = Stop <=> i > k
    /\ lo <= Len(q) - k /\ Len(q) - k <= hi

\* Workers that have a stop task, or leave when they look at stop_.
Leaving == {w \in PoolWorkers : pool_worker[w] \in {Stop, "exit"} \/ (pool_worker[w] = "test" /\ stop_)}

Pushed == IF dtor.pc = "none" THEN 0
          ELSE IF dtor.pc = "push" THEN StopsPerQueue - dtor.left ELSE StopsPerQueue

Untaken == IF Stopping THEN Pushed - 1 ELSE Pushed

StopsCounted ==
  /\ dtor.pc = "push" => dtor.left > 0
  /\ StopsIn(queues_[0], Pushed - Cardinality(Leaving), Untaken)

LEMMA StopsInWider ==
  ASSUME NEW T, NEW q \in Seq(T), NEW lo \in Int, NEW hi \in Int, NEW lo2 \in Int, NEW hi2 \in Int,
         StopsIn(q, lo, hi), lo2 <= lo, hi <= hi2
  PROVE  StopsIn(q, lo2, hi2)
<1>1. PICK k \in 0..Len(q) : /\ \A i \in 1..Len(q) : q[i] = Stop <=> i > k
                             /\ lo <= Len(q) - k /\ Len(q) - k <= hi
  BY DEF StopsIn
<1>2. Len(q) \in Nat /\ Len(q) - k \in Int  OBVIOUS
<1>3. lo2 <= Len(q) - k /\ Len(q) - k <= hi2  BY <1>1, <1>2
<1> QED  BY <1>1, <1>3 DEF StopsIn

LEMMA StopsInAppend ==
  ASSUME NEW T, NEW q \in Seq(T), NEW x \in T, NEW lo \in Int, NEW hi \in Int, StopsIn(q, lo, hi)
  PROVE  /\ x = Stop => StopsIn(Append(q, x), lo + 1, hi + 1)
         /\ x # Stop /\ hi <= 0 => StopsIn(Append(q, x), lo, hi)
<1> DEFINE a == Append(q, x)
<1>1. /\ Len(q) \in Nat /\ Len(a) = Len(q) + 1
      /\ \A i \in 1..Len(q) : a[i] = q[i]
      /\ a[Len(q) + 1] = x
  OBVIOUS
<1>2. PICK k \in 0..Len(q) : /\ \A i \in 1..Len(q) : q[i] = Stop <=> i > k
                             /\ lo <= Len(q) - k /\ Len(q) - k <= hi
  BY DEF StopsIn
<1> HIDE DEF a
<1>3. \A i \in 1..Len(a) : i \in 1..Len(q) \/ i = Len(q) + 1  BY <1>1
<1>4. ASSUME x = Stop PROVE StopsIn(a, lo + 1, hi + 1)
  <2>1. k \in 0..Len(a)  BY <1>1
  <2>2. \A i \in 1..Len(a) : a[i] = Stop <=> i > k  BY <1>1, <1>2, <1>3, <1>4
  <2>3. lo + 1 <= Len(a) - k /\ Len(a) - k <= hi + 1  BY <1>1, <1>2
  <2> QED  BY <2>1, <2>2, <2>3 DEF StopsIn
<1>5. ASSUME x # Stop, hi <= 0 PROVE StopsIn(a, lo, hi)
  <2>1. k = Len(q)  BY <1>1, <1>2, <1>5
  <2>2. Len(a) \in 0..Len(a)  BY <1>1
  <2>3. \A i \in 1..Len(a) : a[i] = Stop <=> i > Len(a)  BY <1>1, <1>2, <1>3, <1>5, <2>1
  <2>4. lo <= Len(a) - Len(a) /\ Len(a) - Len(a) <= hi  BY <1>1, <1>2, <2>1
  <2> QED  BY <2>2, <2>3, <2>4 DEF StopsIn
<1> QED  BY <1>4, <1>5 DEF a

LEMMA StopsInTail ==
  ASSUME NEW T, NEW q \in Seq(T), q # <<>>, NEW lo \in Int, NEW hi \in Int, StopsIn(q, lo, hi)
  PROVE  StopsIn(Tail(q), IF Head(q) = Stop THEN lo - 1 ELSE lo, IF Head(q) = Stop THEN hi - 1 ELSE hi)
<1> DEFINE a == Tail(q)
<1>1. /\ Len(q) \in Nat \ {0} /\ Len(a) = Len(q) - 1 /\ Head(q) = q[1]
      /\ \A i \in 1..Len(a) : a[i] = q[i + 1]
  OBVIOUS
<1>2. PICK k \in 0..Len(q) : /\ \A i \in 1..Len(q) : q[i] = Stop <=> i > k
                             /\ lo <= Len(q) - k /\ Len(q) - k <= hi
  BY DEF StopsIn
<1> HIDE DEF a
<1>3. /\ 1 \in 1..Len(q)
      /\ \A i \in 1..Len(a) : i + 1 \in 1..Len(q)
  BY <1>1
<1>4. CASE Head(q) = Stop
  <2>1. k = 0  BY <1>1, <1>2, <1>3, <1>4
  <2>2. 0 \in 0..Len(a)  BY <1>1
  <2>3. \A i \in 1..Len(a) : a[i] = Stop <=> i > 0  BY <1>1, <1>2, <1>3, <2>1
  <2>4. lo - 1 <= Len(a) - 0 /\ Len(a) - 0 <= hi - 1  BY <1>1, <1>2, <2>1
  <2>5. StopsIn(a, lo - 1, hi - 1)  BY <2>2, <2>3, <2>4 DEF StopsIn
  <2> QED  BY <1>4, <2>5 DEF a
<1>5. CASE Head(q) # Stop
  <2>1. k >= 1  BY <1>1, <1>2, <1>3, <1>5
  <2>2. k - 1 \in 0..Len(a)  BY <1>1, <2>1
  <2>3. \A i \in 1..Len(a) : a[i] = Stop <=> i > k - 1
    <3> SUFFICES ASSUME NEW i \in 1..Len(a) PROVE a[i] = Stop <=> i > k - 1  OBVIOUS
    <3>1. q[i + 1] = Stop <=> i + 1 > k  BY <1>2, <1>3
    <3> QED  BY <1>1, <3>1
  <2>4. lo <= Len(a) - (k - 1) /\ Len(a) - (k - 1) <= hi  BY <1>1, <1>2, <2>1
  <2>5. StopsIn(a, lo, hi)  BY <2>2, <2>3, <2>4 DEF StopsIn
  <2> QED  BY <1>5, <2>5 DEF a
<1> QED  BY <1>4, <1>5

\* Leaving is a set of workers, and Pushed a number.
LEMMA LeavingFacts ==
  /\ IsFiniteSet(PoolWorkers) /\ Cardinality(PoolWorkers) = WorkerNum
  /\ IsFiniteSet(Leaving) /\ Cardinality(Leaving) \in Nat /\ Cardinality(Leaving) <= WorkerNum
<1>1. WorkerNum \in Nat \ {0} /\ 0 \in Int /\ WorkerNum - 1 \in Int  BY PoolNumbers
<1>2. IsFiniteSet(0..(WorkerNum - 1)) /\ Cardinality(0..(WorkerNum - 1)) = WorkerNum
  <2>1. /\ IsFiniteSet(0..(WorkerNum - 1))
        /\ Cardinality(0..(WorkerNum - 1)) = IF 0 > WorkerNum - 1 THEN 0 ELSE (WorkerNum - 1) - 0 + 1
    BY <1>1, FS_Interval
  <2> QED  BY <1>1, <2>1
<1>3. IsFiniteSet(PoolWorkers) /\ Cardinality(PoolWorkers) = WorkerNum  BY <1>2 DEF PoolWorkers
<1>4. Leaving \in SUBSET PoolWorkers  BY DEF Leaving
<1>5. IsFiniteSet(Leaving) /\ Cardinality(Leaving) <= WorkerNum
  BY <1>3, <1>4, FS_Subset
<1> QED  BY <1>3, <1>5, FS_CardinalityType

LEMMA PushedType ==
  ASSUME PoolTypeOK
  PROVE  Pushed \in Int /\ Untaken \in Int /\ Pushed <= StopsPerQueue
<1>1. StopsPerQueue \in Nat \ {0}  BY PoolNumbers
<1>2. dtor.left \in 0..StopsPerQueue  BY DEF PoolTypeOK
<1>3. Pushed \in Int /\ Pushed <= StopsPerQueue  BY <1>1, <1>2 DEF Pushed
<1> QED  BY <1>3 DEF Untaken

\* A step of a worker that leaves the queue alone keeps the count, if the
\* leaving workers stay and nobody starts to stop.
LEMMA CountKept ==
  ASSUME PoolTypeOK, StopsCounted, PoolTypeOK', UNCHANGED <<queues_, dtor>>,
         Leaving \subseteq Leaving', Stopping' => Stopping
  PROVE  StopsCounted'
<1>1. /\ Pushed \in Int /\ Untaken \in Int /\ Pushed' = Pushed /\ Untaken' \in Int
  <2>1. Pushed' = Pushed  BY DEF Pushed
  <2>2. Pushed \in Int /\ Untaken \in Int  BY PushedType
  <2> QED  BY <2>1, <2>2 DEF Untaken
<1>2. Untaken <= Untaken'  BY <1>1 DEF Untaken
<1>3. /\ Cardinality(Leaving) \in Nat /\ IsFiniteSet(Leaving') /\ Cardinality(Leaving') \in Nat
  <2>1. IsFiniteSet(PoolWorkers) /\ Leaving' \in SUBSET PoolWorkers
    BY LeavingFacts DEF Leaving
  <2>2. IsFiniteSet(Leaving')  BY <2>1, FS_Subset
  <2> QED  BY <2>2, LeavingFacts, FS_CardinalityType
<1>4. Cardinality(Leaving) <= Cardinality(Leaving')  BY <1>3, FS_Subset
<1>5. 0 \in Queues  BY PoolNumbers
<1>6. queues_[0] \in Seq(Tasks \cup {Stop})  BY <1>5 DEF PoolTypeOK
<1>7. StopsIn(queues_[0], Pushed - Cardinality(Leaving), Untaken)  BY DEF StopsCounted
<1>8. StopsIn(queues_[0], Pushed' - Cardinality(Leaving'), Untaken')
  <2> DEFINE lo == Pushed - Cardinality(Leaving)
             lo2 == Pushed' - Cardinality(Leaving')
  <2>1. lo \in Int /\ lo2 \in Int /\ lo2 <= lo  BY <1>1, <1>3, <1>4
  <2>2. StopsIn(queues_[0], lo, Untaken)  BY <1>7
  <2> HIDE DEF lo, lo2
  <2>3. StopsIn(queues_[0], lo2, Untaken')  BY <1>1, <1>2, <1>6, <2>1, <2>2, StopsInWider
  <2> QED  BY <2>3 DEF lo2
<1>9. StopsIn(queues_[0], Pushed - Cardinality(Leaving), Untaken)'  BY <1>8 DEF StopsIn
<1> QED  BY <1>9 DEF StopsCounted

LEMMA PopCounts ==
  ASSUME PoolInv, PoolInv', QueueNum = 1, StopsCounted, NEW w \in PoolWorkers, Pop(w)
  PROVE  StopsCounted'
<1> DEFINE T == Tasks \cup {Stop}
           q == queues_[0]
           h == Head(q)
<1>1. QueueOf(w) = 0 /\ 0 \in Queues
  <2>1. \A v \in PoolWorkers : QueueOf(v) \in Queues  BY PoolNumbers
  <2> QED  BY <2>1, PoolNumbers DEF Queues
<1>2. /\ pool_worker[w] = "pop" /\ q # <<>>
      /\ pool_worker' = [pool_worker EXCEPT ![w] = h]
      /\ queues_' = [queues_ EXCEPT ![0] = Tail(q)]
      /\ UNCHANGED <<stop_, dtor>>
  BY <1>1 DEF Pop
<1>3. /\ PoolTypeOK /\ q \in Seq(T) /\ queues_ \in [Queues -> Seq(T)]
      /\ pool_worker \in [PoolWorkers -> Tasks \cup {Stop, "pop", "test", "exit"}]
  BY <1>1 DEF PoolInv, PoolTypeOK
<1>4. h \in T  BY <1>2, <1>3
<1>5. queues_'[0] = Tail(q)  BY <1>1, <1>2, <1>3
<1>6. Pushed' = Pushed /\ Pushed \in Int /\ Untaken \in Int
  BY <1>2, <1>3, PushedType DEF Pushed
<1>7. Cardinality(Leaving) \in Nat /\ IsFiniteSet(Leaving)  BY LeavingFacts
<1> DEFINE lo == Pushed - Cardinality(Leaving)
<1>8. lo \in Int  BY <1>6, <1>7
<1>9. StopsIn(q, lo, Untaken)  BY DEF StopsCounted
<1> HIDE DEF lo, h, q
<1>10. StopsIn(Tail(q), IF h = Stop THEN lo - 1 ELSE lo, IF h = Stop THEN Untaken - 1 ELSE Untaken)
  BY <1>2, <1>3, <1>6, <1>8, <1>9, StopsInTail DEF h
<1>11. \A v \in PoolWorkers : pool_worker'[v] = IF v = w THEN h ELSE pool_worker[v]
  BY <1>2, <1>3
<1>12. Tail(q) \in Seq(T)  BY <1>2, <1>3
<1>13. CASE h = Stop
  <2>1. Leaving' = Leaving \cup {w} /\ w \notin Leaving
    BY <1>2, <1>11, <1>13, PoolNumbers DEF Leaving
  <2>2. Cardinality(Leaving') = Cardinality(Leaving) + 1  BY <1>7, <2>1, FS_AddElement
  <2>3. Stopping'  BY <1>11, <1>13 DEF Stopping, Holds
  <2>4. Untaken' = Pushed - 1  BY <1>6, <2>3 DEF Untaken
  <2>5. /\ Untaken' \in Int /\ Untaken - 1 \in Int /\ Untaken - 1 <= Untaken'
        /\ lo - 1 \in Int /\ lo - 1 <= lo - 1
    BY <1>6, <1>8, <2>4 DEF Untaken
  <2>6. Pushed' - Cardinality(Leaving') = lo - 1  BY <1>6, <1>7, <2>2 DEF lo
  <2>7. StopsIn(Tail(q), lo - 1, Untaken - 1)  BY <1>10, <1>13
  <2>8. StopsIn(Tail(q), lo - 1, Untaken')  BY <1>12, <2>5, <2>7, StopsInWider
  <2>9. StopsIn(queues_'[0], Pushed' - Cardinality(Leaving'), Untaken')  BY <1>5, <2>6, <2>8
  <2>10. StopsIn(queues_[0], Pushed - Cardinality(Leaving), Untaken)'  BY <2>9 DEF StopsIn
  <2> QED  BY <1>2, <2>10 DEF StopsCounted
<1>14. CASE h # Stop
  <2>1. Leaving' = Leaving
    BY <1>2, <1>4, <1>11, <1>14, PoolNumbers DEF Leaving
  <2>2. Stopping' <=> Stopping
    BY <1>2, <1>11, <1>14, PoolNumbers DEF Stopping, Holds
  <2>3. Untaken' = Untaken  BY <1>6, <2>2 DEF Untaken
  <2>4. Pushed' - Cardinality(Leaving') = lo  BY <1>6, <2>1 DEF lo
  <2>5. StopsIn(queues_'[0], Pushed' - Cardinality(Leaving'), Untaken')
    BY <1>5, <1>10, <1>14, <2>3, <2>4
  <2>6. StopsIn(queues_[0], Pushed - Cardinality(Leaving), Untaken)'  BY <2>5 DEF StopsIn
  <2> QED  BY <1>2, <2>6 DEF StopsCounted
<1> QED  BY <1>13, <1>14

LEMMA PushStopCounts ==
  ASSUME PoolInv, PoolInv', QueueNum = 1, StopsCounted, PushStop
  PROVE  StopsCounted'
<1> DEFINE T == Tasks \cup {Stop}
           q == queues_[0]
<1>1. /\ PoolTypeOK /\ 0 \in Queues /\ q \in Seq(T) /\ queues_ \in [Queues -> Seq(T)]
      /\ dtor \in [pc : {"none", "push", "join", "done"}, queue : Queues, left : 0..StopsPerQueue]
  BY PoolNumbers DEF PoolInv, PoolTypeOK
<1>2. dtor.pc = "push" /\ dtor.queue = 0 /\ dtor.left > 0 /\ dtor.left \in Nat /\ StopsPerQueue \in Nat
  BY <1>1, PoolNumbers DEF PushStop, Queues, StopsCounted
<1>3. queues_' = [queues_ EXCEPT ![0] = Append(q, Stop)] /\ UNCHANGED <<pool_worker, stop_>>
  BY <1>2 DEF PushStop
<1>4. queues_'[0] = Append(q, Stop)  BY <1>1, <1>3
<1>5. Leaving' = Leaving /\ (Stopping' <=> Stopping)  BY <1>3 DEF Leaving, Stopping, Holds
<1>6. Pushed = StopsPerQueue - dtor.left  BY <1>2 DEF Pushed
<1>7. Pushed' = Pushed + 1 /\ (dtor'.pc = "push" => dtor'.left > 0)
  <2>1. CASE dtor.left > 1
    <3>1. dtor' = [dtor EXCEPT !.left = dtor.left - 1]  BY <2>1 DEF PushStop
    <3>2. dtor'.pc = "push" /\ dtor'.left = dtor.left - 1  BY <1>1, <1>2, <3>1
    <3>3. Pushed' = StopsPerQueue - (dtor.left - 1)  BY <3>2 DEF Pushed
    <3> QED  BY <1>2, <1>6, <2>1, <3>2, <3>3
  <2>2. CASE ~(dtor.left > 1)
    <3>1. dtor.left = 1 /\ ~(dtor.queue + 1 < QueueNum)  BY <1>2, <2>2
    <3>2. dtor' = [pc |-> "join", queue |-> 0, left |-> 0]  BY <3>1 DEF PushStop
    <3>3. dtor'.pc = "join"  BY <3>2
    <3>4. Pushed' = StopsPerQueue  BY <3>3 DEF Pushed
    <3> QED  BY <1>2, <1>6, <3>1, <3>3, <3>4
  <2> QED  BY <2>1, <2>2
<1>8. Pushed \in Int /\ Untaken \in Int /\ Cardinality(Leaving) \in Nat
  BY <1>1, PushedType, LeavingFacts
<1>9. Untaken' = Untaken + 1  BY <1>5, <1>7, <1>8 DEF Untaken
<1> DEFINE lo == Pushed - Cardinality(Leaving)
<1>10. lo \in Int /\ Pushed' - Cardinality(Leaving') = lo + 1  BY <1>5, <1>7, <1>8
<1>11. StopsIn(q, lo, Untaken)  BY DEF StopsCounted
<1> HIDE DEF lo, q
<1>12. StopsIn(Append(q, Stop), lo + 1, Untaken + 1)  BY <1>1, <1>8, <1>10, <1>11, StopsInAppend
<1>13. StopsIn(queues_'[0], Pushed' - Cardinality(Leaving'), Untaken')  BY <1>4, <1>9, <1>10, <1>12
<1>14. StopsIn(queues_[0], Pushed - Cardinality(Leaving), Untaken)'  BY <1>13 DEF StopsIn
<1> QED  BY <1>7, <1>14 DEF StopsCounted

LEMMA ScheduleCounts ==
  ASSUME PoolInv, PoolInv', QueueNum = 1, StopsCounted, NEW task \in Tasks, NEW r \in Queues,
         Schedule(task, r)
  PROVE  StopsCounted'
<1> DEFINE T == Tasks \cup {Stop}
           q == queues_[0]
<1>1. /\ PoolTypeOK /\ PoolTypeOK' /\ 0 \in Queues /\ q \in Seq(T) /\ queues_ \in [Queues -> Seq(T)]
      /\ task \in T /\ task # Stop
  BY PoolNumbers DEF PoolInv, PoolTypeOK
<1>2. r = 0  BY PoolNumbers DEF Queues
<1>3. dtor.pc = "none" /\ UNCHANGED <<pool_worker, stop_, dtor>>  BY DEF Schedule
<1>4. Leaving' = Leaving /\ (Stopping' <=> Stopping)  BY <1>3 DEF Leaving, Stopping, Holds
<1>5. CASE HasRoom(r)
  <2>1. queues_'[0] = Append(q, task)  BY <1>1, <1>2, <1>5 DEF Schedule
  <2>2. NotStopping  BY <1>3 DEF PoolInv
  <2>3. ~Stopping  BY <2>2 DEF NotStopping, Stopping, Somewhere
  <2>4. Pushed = 0 /\ Pushed' = 0  BY <1>3 DEF Pushed
  <2>5. Untaken = 0 /\ Untaken' = 0  BY <1>4, <2>3, <2>4 DEF Untaken
  <2> DEFINE lo == Pushed - Cardinality(Leaving)
  <2>6. lo \in Int /\ Pushed' - Cardinality(Leaving') = lo  BY <1>4, <2>4, LeavingFacts
  <2>7. StopsIn(q, lo, 0)  BY <2>5 DEF StopsCounted
  <2> HIDE DEF lo, q
  <2>8. StopsIn(Append(q, task), lo, 0)  BY <1>1, <2>6, <2>7, StopsInAppend
  <2>9. StopsIn(queues_'[0], Pushed' - Cardinality(Leaving'), Untaken')  BY <2>1, <2>5, <2>6, <2>8
  <2>10. StopsIn(queues_[0], Pushed - Cardinality(Leaving), Untaken)'  BY <2>9 DEF StopsIn
  <2> QED  BY <1>3, <2>10 DEF StopsCounted
<1>6. CASE ~HasRoom(r)
  <2>1. UNCHANGED queues_  BY <1>6 DEF Schedule
  <2> QED  BY <1>1, <1>3, <1>4, <2>1, CountKept
<1> QED  BY <1>5, <1>6

LEMMA WorkerCounts ==
  ASSUME PoolInv, PoolInv', StopsCounted, NEW w \in PoolWorkers,
         CallTask(w) \/ CallStop(w) \/ TestStop(w)
  PROVE  StopsCounted'
<1>1. PoolTypeOK /\ PoolTypeOK'  BY DEF PoolInv
<1>2. pool_worker \in [PoolWorkers -> Tasks \cup {Stop, "pop", "test", "exit"}]  BY <1>1 DEF PoolTypeOK
<1>3. UNCHANGED <<queues_, dtor>> /\ (stop_ => stop_')
  BY <1>1 DEF CallTask, CallStop, TestStop, PoolTypeOK
<1>4. Leaving \subseteq Leaving' /\ (Stopping' => Stopping)
  <2>1. CASE CallTask(w)
    <3>1. /\ pool_worker[w] \in Tasks /\ stop_' = stop_
          /\ \A v \in PoolWorkers : pool_worker'[v] = IF v = w THEN "test" ELSE pool_worker[v]
      BY <1>2, <2>1 DEF CallTask
    <3> QED  BY <3>1, PoolNumbers DEF Leaving, Stopping, Holds
  <2>2. CASE CallStop(w)
    <3>1. /\ pool_worker[w] = Stop /\ stop_'
          /\ \A v \in PoolWorkers : pool_worker'[v] = IF v = w THEN "test" ELSE pool_worker[v]
      BY <1>2, <2>2 DEF CallStop
    <3> QED  BY <3>1, PoolNumbers DEF Leaving, Stopping, Holds
  <2>3. CASE TestStop(w)
    <3>1. /\ pool_worker[w] = "test" /\ stop_' = stop_
          /\ \A v \in PoolWorkers :
               pool_worker'[v] = IF v = w THEN (IF stop_ THEN "exit" ELSE "pop") ELSE pool_worker[v]
      BY <1>2, <2>3 DEF TestStop
    <3> QED  BY <3>1, PoolNumbers DEF Leaving, Stopping, Holds
  <2> QED  BY <2>1, <2>2, <2>3
<1> QED  BY <1>1, <1>3, <1>4, CountKept

LEMMA DestroyCounts ==
  ASSUME PoolInv, PoolInv', StopsCounted, Destroy \/ Join
  PROVE  StopsCounted'
<1>1. PoolTypeOK /\ StopsPerQueue \in Nat \ {0}  BY PoolNumbers DEF PoolInv
<1>2. UNCHANGED <<queues_, pool_worker, stop_>>  BY DEF Destroy, Join
<1>3. Pushed' = Pushed /\ (dtor'.pc = "push" => dtor'.left > 0)
  <2>1. CASE Destroy
    <3>1. dtor.pc = "none" /\ dtor'.pc = "push" /\ dtor'.left = StopsPerQueue  BY <2>1 DEF Destroy
    <3> QED  BY <1>1, <3>1 DEF Pushed
  <2>2. CASE Join
    <3>1. dtor' = [dtor EXCEPT !.pc = "done"] /\ dtor.pc = "join"  BY <2>2 DEF Join
    <3>2. dtor'.pc = "done"  BY <1>1, <3>1 DEF PoolTypeOK
    <3> QED  BY <3>1, <3>2 DEF Pushed
  <2> QED  BY <2>1, <2>2
<1>4. Leaving' = Leaving /\ (Stopping' <=> Stopping)  BY <1>2 DEF Leaving, Stopping, Holds
<1>5. Untaken' = Untaken  BY <1>3, <1>4 DEF Untaken
<1>6. StopsIn(queues_'[0], Pushed' - Cardinality(Leaving'), Untaken')
  BY <1>2, <1>3, <1>4, <1>5 DEF StopsCounted
<1>7. StopsIn(queues_[0], Pushed - Cardinality(Leaving), Untaken)'  BY <1>6 DEF StopsIn
<1> QED  BY <1>3, <1>7 DEF StopsCounted

LEMMA StopsCountedInit == PoolInit => StopsCounted
<1> SUFFICES ASSUME PoolInit PROVE StopsCounted  OBVIOUS
<1>1. 0 \in Queues /\ queues_[0] = <<>> /\ dtor.pc = "none" /\ ~stop_  BY PoolNumbers DEF PoolInit
<1>2. \A w \in PoolWorkers : pool_worker[w] = "pop"  BY DEF PoolInit
<1>3. ~Stopping  BY <1>1, <1>2, PoolNumbers DEF Stopping, Holds
<1>4. Leaving = {}  BY <1>2, PoolNumbers DEF Leaving
<1>5. Pushed - Cardinality(Leaving) = 0 /\ Untaken = 0
  BY <1>1, <1>3, <1>4, FS_EmptySet DEF Pushed, Untaken
<1>6. StopsIn(<<>>, 0, 0)
  <2>1. Len(<<>>) = 0 /\ 0 \in 0..Len(<<>>)  OBVIOUS
  <2> QED  BY <2>1 DEF StopsIn
<1> QED  BY <1>1, <1>5, <1>6 DEF StopsCounted

LEMMA StopsCountedInvariant ==
  ASSUME QueueNum = 1
  PROVE  PoolSpec => [](PoolInv /\ StopsCounted)
<1>1. PoolInv /\ StopsCounted /\ PoolInv' /\ [PoolNext]_poolVars => StopsCounted'
  <2> SUFFICES ASSUME PoolInv, StopsCounted, PoolInv', [PoolNext]_poolVars PROVE StopsCounted'  OBVIOUS
  <2>1. CASE \E task \in Tasks, q \in Queues : Schedule(task, q)  BY <2>1, ScheduleCounts
  <2>2. ASSUME NEW w \in PoolWorkers, Loop(w) PROVE StopsCounted'
    BY <2>2, PopCounts, WorkerCounts DEF Loop
  <2>3. CASE Destroy \/ Destructor  BY <2>3, PushStopCounts, DestroyCounts DEF Destructor
  <2>4. CASE UNCHANGED poolVars
    <3>1. UNCHANGED <<queues_, pool_worker, stop_, dtor>>  BY <2>4 DEF poolVars
    <3>2. Leaving' = Leaving /\ (Stopping' <=> Stopping)  BY <3>1 DEF Leaving, Stopping, Holds
    <3>3. PoolTypeOK /\ PoolTypeOK'  BY DEF PoolInv
    <3> QED  BY <3>1, <3>2, <3>3, CountKept
  <2> QED  BY <2>1, <2>2, <2>3, <2>4 DEF PoolNext
<1> QED  BY <1>1, StopsCountedInit, PoolInvInit, PoolInvNext, PTL DEF PoolSpec

\* What the count says of a destructor that waits.
LEMMA CountedNotStuck ==
  ASSUME PoolInv, StopsCounted
  PROVE  DestructorNotStuck
<1> SUFFICES ASSUME RoomForStops PROVE
      /\ dtor.pc = "push" =>
           HasRoom(dtor.queue)
             \/ \E w \in PoolWorkers : QueueOf(w) = dtor.queue /\ pool_worker[w] # "exit"
      /\ dtor.pc = "join" =>
           \A w \in PoolWorkers : pool_worker[w] = "pop" => queues_[QueueOf(w)] # <<>>
  BY DEF DestructorNotStuck
<1>1. /\ QueueNum = 1 /\ PoolQueueSize >= WorkerNum
      /\ WorkerNum \in Nat \ {0} /\ PoolQueueSize \in Nat /\ 0 \in PoolWorkers
  BY PoolNumbers DEF RoomForStops
<1>2. StopsPerQueue = WorkerNum + 1
  <2>1. WorkerNum \div 1 = WorkerNum  BY <1>1
  <2> QED  BY <1>1, <2>1 DEF StopsPerQueue
<1>3. Queues = {0} /\ \A w \in PoolWorkers : QueueOf(w) = 0
  <2>1. Queues = {0}  BY <1>1 DEF Queues
  <2> QED  BY <2>1, PoolNumbers
<1>4. /\ queues_[0] \in Seq(Tasks \cup {Stop}) /\ dtor.queue = 0
      /\ dtor.left \in 0..StopsPerQueue /\ PoolTypeOK
  BY <1>3 DEF PoolInv, PoolTypeOK
<1>5. PICK k \in 0..Len(queues_[0]) :
        /\ \A i \in 1..Len(queues_[0]) : queues_[0][i] = Stop <=> i > k
        /\ Pushed - Cardinality(Leaving) <= Len(queues_[0]) - k
        /\ Len(queues_[0]) - k <= Untaken
  BY DEF StopsCounted, StopsIn
<1>6. Cardinality(Leaving) \in Nat /\ Cardinality(Leaving) <= WorkerNum /\ Len(queues_[0]) \in Nat
  BY <1>4, LeavingFacts
<1>7. ASSUME dtor.pc = "push", \A w \in PoolWorkers : pool_worker[w] = "exit" PROVE HasRoom(0)
  <2>1. Stopping  BY <1>1, <1>7 DEF PoolInv, Stopping
  <2>2. Drained  BY <1>1, <2>1 DEF PoolInv
  <2>3. k = 0
    <3> SUFFICES ASSUME k # 0 PROVE FALSE  OBVIOUS
    <3>1. 1 \in 1..Len(queues_[0]) /\ ~(1 > k)  BY <1>6
    <3>2. queues_[0][1] # Stop  BY <1>5, <3>1
    <3>3. queues_[0][1] \in Tasks  BY <1>4, <3>1, <3>2
    <3>4. Has(queues_[0], queues_[0][1])  BY <3>1 DEF Has
    <3> QED  BY <1>3, <2>2, <3>3, <3>4 DEF Drained
  <2>4. Untaken = StopsPerQueue - dtor.left - 1  BY <1>7, <2>1 DEF Untaken, Pushed
  <2>5. dtor.left > 0  BY <1>7 DEF StopsCounted
  <2>6. Len(queues_[0]) < WorkerNum  BY <1>1, <1>2, <1>4, <1>5, <1>6, <2>3, <2>4, <2>5
  <2> QED  BY <1>1, <1>6, <2>6 DEF HasRoom
<1>8. ASSUME dtor.pc = "join" PROVE queues_[0] # <<>>
  <2>1. Pushed = WorkerNum + 1  BY <1>2, <1>8 DEF Pushed
  <2>2. Len(queues_[0]) > 0  BY <1>1, <1>5, <1>6, <2>1
  <2> QED  BY <2>2
<1> QED  BY <1>3, <1>4, <1>7, <1>8

\* The pool with any number of queues: no queue is overfilled, and a worker
\* runs only what Schedule has accepted.
THEOREM PoolTypeCorrect == PoolSpec => []PoolTypeOK
<1>1. PoolInv => PoolTypeOK  BY DEF PoolInv
<1> QED  BY <1>1, PoolInvariant, PTL

\* The pool with the one queue that is the default, and any number of workers:
\* when ~ThreadPool returns, every task that Schedule accepted has been run, and
\* with a slot for each worker it is never left waiting for workers that have
\* gone or that wait themselves.
THEOREM AcceptedTasksAreRun ==
  ASSUME QueueNum = 1
  PROVE  PoolSpec => []PoolOK
<1>1. ASSUME PoolInv, StopsCounted PROVE PoolOK
  <2>0. DestructorNotStuck  BY <1>1, CountedNotStuck
  <2> SUFFICES ASSUME dtor.pc = "done", NEW x \in accepted PROVE x \in executed
    BY <1>1, <2>0 DEF PoolOK, PoolInv, AcceptedTasksRun
  <2>1. \A w \in PoolWorkers : pool_worker[w] = "exit"  BY <1>1 DEF PoolInv
  <2>2. Drained  BY <1>1, <2>1, PoolNumbers DEF PoolInv, Stopping
  <2>3. x \in Tasks  BY <1>1 DEF PoolInv, PoolTypeOK
  <2>4. ~Somewhere(x)  BY <2>1, <2>2, <2>3, PoolNumbers DEF Somewhere, Drained, Holds
  <2> QED  BY <1>1, <2>3, <2>4 DEF PoolInv, TasksKept
<1> QED  BY <1>1, StopsCountedInvariant, PTL
=============================================================================

--------------------------- MODULE ZkWrapperProofs ---------------------------
(***************************************************************************)
(* For any number of threads, requests, handles and events: the contexts   *)
(* of the client library's callbacks live as long as it may come back to   *)
(* them, and the callbacks run within the life of handle and wrapper.      *)
(***************************************************************************)
EXTENDS ZkWrapper, FiniteSetTheorems, SequenceTheorems, TLAPS

Ctxs == Nat \X Nat
NoRequest == [async |-> FALSE]
RequestType == [async : BOOLEAN, complete : SUBSET Ctxs, watcher : SUBSET Ctxs, onNoNode : BOOLEAN]

\* A Connect that has the write lock.
Writing == {"finalize", "init", "assign"}

UserType == [pc : {"idle", "calling", "shutdown", "closing", "mutex", "join", "wrlock"} \cup Writing,
             zhandle : Nat, ctxs : SUBSET Ctxs, request : RequestType \cup {NoRequest},
             old_pool : SUBSET Ctxs]
ClientType == [state : {"zero", "live", "expired"},
               phase : {"open", "joining", "draining", "closed"},
               pending : SUBSET RequestType, watching : SUBSET Ctxs,
               thread : {"idle", "callback", "guard", "watcher"}, ctx : SUBSET Ctxs]
LifeType == [events : Nat, state : {"alive", "destructor", "destroyed", "terminated"}]

ZkTypes ==
  /\ client \in Seq(ClientType)
  /\ zhandle_ \in 0..Len(client)
  /\ zhandle_lock_ \in [writer : ZkCallers \cup {NoThread}, readers : SUBSET ZkCallers]
  /\ context_id_count_ \in 0..MaxContexts
  /\ context_pool_ \subseteq (Handles \X (1..context_id_count_))
  /\ finalize_thread_mutex_ \in ZkCallers \cup {NoThread}
  /\ finalize_thread_ \in [pc : {"none", "close", "erase", "done"}, zhandle : Nat,
                           contexts : SUBSET Ctxs]
  /\ user \in [ZkCallers -> UserType]
  /\ life \in LifeType

\* The contexts a request was given, those the library has in the record c,
\* and those that were made for the handle h.
CtxsOf(request) == request.complete \cup request.watcher
Holds(c, x) == x \in c.watching \cup c.ctx \/ \E request \in c.pending : x \in CtxsOf(request)
Given(h) == {h} \X (1..context_id_count_)

\* The library has a context in one place only, and a handle that is being
\* closed runs no callback in the completion thread any more.
RecordFits(c, given) ==
  /\ c.watching \subseteq given /\ c.ctx \subseteq given /\ c.watching \cap c.ctx = {}
  /\ \A r \in c.pending :
       /\ CtxsOf(r) \subseteq given /\ r.complete \cap r.watcher = {}
       /\ CtxsOf(r) \cap c.watching = {} /\ CtxsOf(r) \cap c.ctx = {}
  /\ \A r, q \in c.pending : r # q => CtxsOf(r) \cap CtxsOf(q) = {}
  /\ c.thread # "callback" => c.ctx = {}
  /\ c.phase \in {"draining", "closed"} => c.thread = "idle"
  /\ c.phase = "closed" => c.pending = {} /\ c.watching = {}

ClientsFit == \A h \in Handles : RecordFits(client[h], Given(h))

\* Who holds zhandle_lock_.
LockFits ==
  /\ \A t \in ZkCallers : t \in zhandle_lock_.readers <=> user[t].pc = "calling"
  /\ \A t \in ZkCallers : zhandle_lock_.writer = t <=> user[t].pc \in Writing
  /\ zhandle_lock_.writer # NoThread => zhandle_lock_.readers = {}

\* A thread inside a call of the library: its contexts are in the pool, and
\* the library has not seen them yet.
CallFits(t) ==
  LET u == user[t]
  IN  /\ zhandle_ # 0 /\ u.zhandle = zhandle_
      /\ u.request \in RequestType /\ u.ctxs = CtxsOf(u.request)
      /\ u.request.complete \cap u.request.watcher = {}
      /\ u.ctxs \subseteq Given(zhandle_) /\ u.ctxs \subseteq context_pool_
      /\ \A x \in u.ctxs : ~Holds(client[zhandle_], x)

CallsFit ==
  /\ \A t \in ZkCallers : user[t].pc = "calling" => CallFits(t)
  /\ \A t, u \in ZkCallers :
       user[t].pc = "calling" /\ user[u].pc = "calling" /\ t # u => user[t].ctxs \cap user[u].ctxs = {}

\* A handle that is closed, or that finalize_thread_ is closing.
Gone(h) == client[h].phase = "closed" \/ (finalize_thread_.pc = "close" /\ finalize_thread_.zhandle = h)

\* What a thread in Connect or Shutdown has taken over.
ConnectFits(t) ==
  /\ user[t].pc \in Writing => zhandle_ = 0
  /\ user[t].pc \in {"finalize", "assign"} =>
       user[t].zhandle \in Handles /\ client[user[t].zhandle].phase = "open"
  /\ user[t].pc = "finalize" =>
       \A x \in user[t].ctxs : x[1] = user[t].zhandle \/ (x[1] \in Handles /\ Gone(x[1]))
  /\ user[t].pc = "closing" =>
       /\ user[t].zhandle \in 0..Len(client)
       /\ user[t].zhandle # 0 => client[user[t].zhandle].phase # "open"
       /\ ~early => \A x \in user[t].old_pool : x[1] = user[t].zhandle
  /\ user[t].pc # "closing" => user[t].old_pool = {}
  /\ user[t].pc \notin {"idle", "calling"} => t \in Connectors

ConnectsFit == \A t \in ZkCallers : ConnectFits(t)

\* finalize_thread_ erases contexts of closed handles only.
FinalizeFits ==
  /\ finalize_thread_.pc = "close" =>
       /\ finalize_thread_.zhandle \in Handles /\ client[finalize_thread_.zhandle].phase # "open"
       /\ \A x \in finalize_thread_.contexts :
            x[1] = finalize_thread_.zhandle \/ (x[1] \in Handles /\ client[x[1]].phase = "closed")
  /\ finalize_thread_.pc = "erase" =>
       \A x \in finalize_thread_.contexts : x[1] \in Handles /\ client[x[1]].phase = "closed"

\* Every handle is the current one, a Connect's, being closed, or closed.
PhasesFit ==
  /\ zhandle_ # 0 => client[zhandle_].phase = "open"
  /\ \A h \in Handles :
       /\ client[h].phase = "open" =>
            \/ h = zhandle_
            \/ \E t \in ZkCallers : user[t].pc \in {"finalize", "assign"} /\ user[t].zhandle = h
       /\ client[h].phase \in {"joining", "draining"} =>
            \/ finalize_thread_.pc = "close" /\ finalize_thread_.zhandle = h
            \/ \E t \in ZkCallers : user[t].pc = "closing" /\ user[t].zhandle = h

\* The destructor is alone.
LifeFits ==
  /\ life.state = "destructor" =>
       \E t \in ZkCallers :
         /\ \A u \in ZkCallers : u # t => user[u].pc = "idle"
         /\ user[t].pc \in {"mutex", "join", "shutdown", "closing"}
         /\ user[t].pc \in {"shutdown", "closing"} => finalize_thread_.pc = "none"
         /\ user[t].pc = "closing" => zhandle_ = 0
  /\ life.state = "destroyed" =>
       /\ \A u \in ZkCallers : user[u].pc = "idle"
       /\ zhandle_ = 0 /\ finalize_thread_.pc = "none"

\* The contexts the library has are alive.
KeptAlive ==
  ~early => \A h \in Handles :
    client[h].phase # "closed" => \A x \in Given(h) : Holds(client[h], x) => Alive(x)

LockInv == ZkTypes /\ LockFits /\ ConnectsFit /\ PhasesFit /\ FinalizeFits
ContextInv == ClientsFit /\ CallsFit /\ NoStaleContexts /\ KeptAlive
ZkInv == LockInv /\ ContextInv /\ LifeFits /\ NoEarlyCallback

-----------------------------------------------------------------------------
LEMMA ClientFacts ==
  ASSUME ZkTypes
  PROVE  /\ Len(client) \in Nat /\ Handles = 1..Len(client)
         /\ \A h \in Handles : client[h] \in ClientType
BY DEF ZkTypes, Handles

\* The library writes the record of one handle.
LEMMA ClientWrite ==
  ASSUME ZkTypes, NEW h \in Handles, NEW x \in ClientType, client' = [client EXCEPT ![h] = x]
  PROVE  /\ client' \in Seq(ClientType) /\ Len(client') = Len(client) /\ Handles' = Handles
         /\ \A g \in Handles : client'[g] = IF g = h THEN x ELSE client[g]
<1>1. Handles = 1..Len(client)  BY ClientFacts
<1>2. /\ client' \in Seq(ClientType) /\ Len(client') = Len(client)
      /\ \A g \in 1..Len(client) : client'[g] = IF g = h THEN x ELSE client[g]
  BY <1>1, ExceptSeq DEF ZkTypes
<1>3. Handles' = 1..Len(client')  BY <1>2 DEF Handles
<1> QED  BY <1>1, <1>2, <1>3

\* A thread of the program is rewritten.
LEMMA UserWrite ==
  ASSUME ZkTypes, NEW t \in ZkCallers, NEW x \in UserType, user' = [user EXCEPT ![t] = x]
  PROVE  /\ user' \in [ZkCallers -> UserType] /\ user'[t] = x
         /\ \A u \in ZkCallers : u # t => user'[u] = user[u]
BY DEF ZkTypes

\* What the library has of a handle was made for that handle.
LEMMA HoldsGiven ==
  ASSUME NEW c, NEW h, RecordFits(c, Given(h)), NEW x, Holds(c, x)
  PROVE  x \in Given(h) /\ x[1] = h
<1>1. x \in Given(h)  BY DEF RecordFits, Holds
<1> QED  BY <1>1 DEF Given

\* A step of the library on one handle that takes no new context, and after
\* which it has none of the contexts that the step removed from the pool.
LEMMA LibraryStep ==
  ASSUME ZkInv, NEW h \in Handles, NEW x \in ClientType, client' = [client EXCEPT ![h] = x],
         UNCHANGED <<zhandle_, zhandle_lock_, context_id_count_, finalize_thread_mutex_,
                     finalize_thread_, user, early>>,
         life' \in LifeType,
         life'.state = life.state,
         RecordFits(x, Given(h)),
         \/ x.phase = client[h].phase
         \/ client[h].phase = "joining" /\ x.phase = "draining"
         \/ client[h].phase = "draining" /\ x.phase = "closed",
         \A y : Holds(x, y) => Holds(client[h], y),
         context_pool_' \subseteq context_pool_,
         \A y \in context_pool_ \ context_pool_' : Holds(client[h], y) /\ ~Holds(x, y),
         x.thread = "watcher" => client[h].thread = "watcher" \/ Unlocked
  PROVE  ZkInv'
<1>1. /\ ZkTypes /\ LockFits /\ ConnectsFit /\ PhasesFit /\ FinalizeFits /\ ClientsFit /\ CallsFit
      /\ NoStaleContexts /\ KeptAlive /\ LifeFits /\ NoEarlyCallback
  BY DEF ZkInv, LockInv, ContextInv
<1>2. /\ client' \in Seq(ClientType) /\ Len(client') = Len(client) /\ Handles' = Handles
      /\ \A g \in Handles : client'[g] = IF g = h THEN x ELSE client[g]
  BY <1>1, ClientWrite
<1>3. \A g \in Handles :
        /\ client'[g].phase = "open" <=> client[g].phase = "open"
        /\ client[g].phase = "closed" => client'[g].phase = "closed"
        /\ client'[g].phase \in {"joining", "draining"} => client[g].phase \in {"joining", "draining"}
  BY <1>2
<1>4. Handles = 1..Len(client) /\ Len(client) \in Nat  BY <1>1, ClientFacts
<1>5. ZkTypes'
  <2>1. context_pool_' \subseteq (Handles' \X (1..context_id_count_'))  BY <1>1, <1>2 DEF ZkTypes
  <2> QED  BY <1>1, <1>2, <2>1 DEF ZkTypes
<1>6. LockFits'  BY <1>1 DEF LockFits
<1>7. ConnectsFit'
  <2> SUFFICES ASSUME NEW t \in ZkCallers PROVE ConnectFits(t)'  BY DEF ConnectsFit
  <2>1. ConnectFits(t)  BY <1>1 DEF ConnectsFit
  <2>2. \A g \in Handles : Gone(g) => Gone(g)'  BY <1>3 DEF Gone
  <2> QED  BY <1>2, <1>3, <1>4, <2>1, <2>2 DEF ConnectFits
<1>8. PhasesFit'
  <2>1. zhandle_ # 0 => zhandle_ \in Handles  BY <1>1, <1>4 DEF ZkTypes
  <2> QED  BY <1>1, <1>2, <1>3, <2>1 DEF PhasesFit
<1>9. FinalizeFits'  BY <1>1, <1>2, <1>3 DEF FinalizeFits
<1>10. ClientsFit'
  <2> SUFFICES ASSUME NEW g \in Handles PROVE RecordFits(client'[g], Given(g)')
    BY <1>2 DEF ClientsFit
  <2>1. Given(g)' = Given(g)  BY DEF Given
  <2> QED  BY <1>1, <1>2, <2>1 DEF ClientsFit
<1>11. CallsFit'
  <2>1. ASSUME NEW t \in ZkCallers, user[t].pc = "calling" PROVE CallFits(t)'
    <3>1. CallFits(t)  BY <1>1, <2>1 DEF CallsFit
    <3>2. zhandle_ \in Handles  BY <1>1, <1>4, <3>1 DEF ZkTypes, CallFits
    <3>3. \A y \in user[t].ctxs : ~Holds(client'[zhandle_], y)
      BY <1>2, <3>1, <3>2 DEF CallFits
    <3>4. \A y \in user[t].ctxs : y \in context_pool_'
      <4> SUFFICES ASSUME NEW y \in user[t].ctxs, y \notin context_pool_' PROVE FALSE  OBVIOUS
      <4>1. Holds(client[h], y)  BY <3>1 DEF CallFits
      <4>2. RecordFits(client[h], Given(h))  BY <1>1 DEF ClientsFit
      <4>3. y[1] = h  BY <4>1, <4>2, HoldsGiven
      <4>4. y[1] = zhandle_  BY <3>1 DEF CallFits, Given
      <4> QED  BY <3>1, <4>1, <4>3, <4>4 DEF CallFits
    <3> QED  BY <3>1, <3>3, <3>4 DEF CallFits, Given
  <2> QED  BY <1>1, <2>1 DEF CallsFit
<1>12. NoStaleContexts'  BY <1>1 DEF NoStaleContexts
<1>13. KeptAlive'
  <2> SUFFICES ASSUME ~early, NEW g \in Handles, client'[g].phase # "closed",
                      NEW y \in Given(g), Holds(client'[g], y)
               PROVE  Alive(y)'
    BY <1>2 DEF KeptAlive, Given
  <2>1. Holds(client[g], y) /\ client[g].phase # "closed"  BY <1>2, <1>3
  <2>2. Alive(y)  BY <1>1, <2>1 DEF KeptAlive
  <2>3. y \in context_pool_ => y \in context_pool_'
    <3> SUFFICES ASSUME y \in context_pool_ \ context_pool_' PROVE FALSE  OBVIOUS
    <3>1. Holds(client[h], y) /\ ~Holds(x, y)  OBVIOUS
    <3>2. RecordFits(client[h], Given(h))  BY <1>1 DEF ClientsFit
    <3>3. y[1] = h  BY <3>1, <3>2, HoldsGiven
    <3>4. y[1] = g  BY DEF Given
    <3> QED  BY <1>2, <3>1, <3>3, <3>4
  <2> QED  BY <2>2, <2>3 DEF Alive
<1>14. LifeFits'  BY <1>1 DEF LifeFits
<1>15. NoEarlyCallback'
  <2> SUFFICES ASSUME NEW t \in ZkCallers, user[t].pc = "assign"
               PROVE  client'[user[t].zhandle].thread # "watcher"
    BY DEF NoEarlyCallback
  <2>1. user[t].zhandle \in Handles  BY <1>1 DEF ConnectsFit, ConnectFits
  <2>2. zhandle_lock_.writer = t  BY <1>1 DEF LockFits, Writing
  <2>3. ~Unlocked  BY <2>2, ZkAssumption DEF Unlocked
  <2> QED  BY <1>1, <1>2, <2>1, <2>3 DEF NoEarlyCallback
<1> QED
  BY <1>5, <1>6, <1>7, <1>8, <1>9, <1>10, <1>11, <1>12, <1>13, <1>14, <1>15
     DEF ZkInv, LockInv, ContextInv

LEMMA LibraryFacts ==
  ASSUME ZkInv, NEW h \in Handles
  PROVE  /\ client[h] \in ClientType /\ RecordFits(client[h], Given(h))
         /\ life \in LifeType
<1>1. ZkTypes /\ ClientsFit  BY DEF ZkInv, LockInv, ContextInv
<1> QED  BY <1>1, ClientFacts DEF ZkTypes, ClientsFit

\* A step after which the library has the same contexts.
LEMMA QuietStep ==
  ASSUME ZkInv, NEW h \in Handles, NEW x \in ClientType, client' = [client EXCEPT ![h] = x],
         UNCHANGED <<zhandle_, zhandle_lock_, context_pool_, context_id_count_,
                     finalize_thread_mutex_, finalize_thread_, user, early>>,
         life' \in LifeType,
         life'.state = life.state,
         x.pending = client[h].pending, x.watching = client[h].watching, x.ctx = client[h].ctx,
         client[h].thread = "callback" => x.thread = "callback",
         \/ x.phase = client[h].phase
         \/ client[h].phase = "joining" /\ x.phase = "draining",
         x.phase \in {"draining", "closed"} => x.thread = "idle",
         x.thread = "watcher" => Unlocked
  PROVE  ZkInv'
<1>1. RecordFits(client[h], Given(h))  BY LibraryFacts
<1>2. RecordFits(x, Given(h))  BY <1>1 DEF RecordFits
<1>3. \A y : Holds(x, y) => Holds(client[h], y)  BY DEF Holds
<1> QED  BY <1>2, <1>3, LibraryStep

LEMMA SessionKeeps ==
  ASSUME ZkInv, NEW h \in Handles, NEW from, NEW to \in {"live", "expired"}, Session(h, from, to)
  PROVE  ZkInv'
<1> DEFINE x == [client[h] EXCEPT !.state = to]
<1>1. client[h] \in ClientType /\ RecordFits(client[h], Given(h))  BY LibraryFacts
<1>2. life \in LifeType
  BY LibraryFacts
<1>3. client' = [client EXCEPT ![h] = x]  BY DEF Session
<1>4. /\ x \in ClientType /\ x.pending = client[h].pending /\ x.watching = client[h].watching
      /\ x.ctx = client[h].ctx /\ x.thread = client[h].thread /\ x.phase = client[h].phase
  BY <1>1 DEF ClientType
<1>5. client[h].phase = "open"  BY DEF Session
<1>6. RecordFits(x, Given(h))  BY <1>1, <1>4 DEF RecordFits
<1>7. \A y : Holds(x, y) => Holds(client[h], y)  BY <1>4 DEF Holds
<1>8. UNCHANGED <<zhandle_, zhandle_lock_, context_pool_, context_id_count_,
                  finalize_thread_mutex_, finalize_thread_, user, early, life>>
  BY DEF Session
<1> HIDE DEF x
<1> QED  BY <1>2, <1>3, <1>4, <1>6, <1>7, <1>8, LibraryStep

LEMMA GlobalEventKeeps ==
  ASSUME ZkInv, NEW h \in Handles, GlobalEvent(h)
  PROVE  ZkInv'
<1> DEFINE x == [client[h] EXCEPT !.thread = "guard"]
<1>1. /\ client[h] \in ClientType
      /\ life \in LifeType
  BY LibraryFacts
<1>2. /\ client' = [client EXCEPT ![h] = x] /\ client[h].phase \in {"open", "joining"}
      /\ client[h].thread = "idle" /\ life' = [life EXCEPT !.events = life.events + 1]
      /\ UNCHANGED <<zhandle_, zhandle_lock_, context_pool_, context_id_count_,
                     finalize_thread_mutex_, finalize_thread_, user, early>>
  BY DEF GlobalEvent
<1>3. /\ life' \in LifeType
      /\ life'.state = life.state
  BY <1>1, <1>2 DEF LifeType
<1>4. /\ x \in ClientType /\ x.pending = client[h].pending /\ x.watching = client[h].watching
      /\ x.ctx = client[h].ctx /\ x.thread = "guard" /\ x.phase = client[h].phase
  BY <1>1 DEF ClientType
<1> HIDE DEF x
<1> QED  BY <1>2, <1>3, <1>4, QuietStep

LEMMA GuardKeeps ==
  ASSUME ZkInv, NEW h \in Handles, Guard(h)
  PROVE  ZkInv'
<1> DEFINE at == IF watcher_ THEN "watcher" ELSE "idle"
           x == [client[h] EXCEPT !.thread = at]
<1>1. /\ client[h] \in ClientType /\ RecordFits(client[h], Given(h))
      /\ life \in LifeType
  BY LibraryFacts
<1>2. /\ client' = [client EXCEPT ![h] = x] /\ client[h].thread = "guard" /\ Unlocked
      /\ UNCHANGED <<zhandle_, zhandle_lock_, context_pool_, context_id_count_,
                     finalize_thread_mutex_, finalize_thread_, user, early, life>>
  BY DEF Guard
<1>3. at \in {"watcher", "idle"}  OBVIOUS
<1> HIDE DEF at
<1>4. /\ x \in ClientType /\ x.pending = client[h].pending /\ x.watching = client[h].watching
      /\ x.ctx = client[h].ctx /\ x.thread = at /\ x.phase = client[h].phase
  BY <1>1, <1>3 DEF ClientType
<1>5. client[h].phase \notin {"draining", "closed"}  BY <1>1, <1>2 DEF RecordFits
<1> HIDE DEF x
<1> QED  BY <1>1, <1>2, <1>4, <1>5, QuietStep

LEMMA WatcherReturnsKeeps ==
  ASSUME ZkInv, NEW h \in Handles, WatcherReturns(h)
  PROVE  ZkInv'
<1> DEFINE x == [client[h] EXCEPT !.thread = "idle"]
<1>1. /\ client[h] \in ClientType /\ RecordFits(client[h], Given(h))
      /\ life \in LifeType
  BY LibraryFacts
<1>2. /\ client' = [client EXCEPT ![h] = x] /\ client[h].thread = "watcher"
      /\ UNCHANGED <<zhandle_, zhandle_lock_, context_pool_, context_id_count_,
                     finalize_thread_mutex_, finalize_thread_, user, early, life>>
  BY DEF WatcherReturns
<1>3. /\ x \in ClientType /\ x.pending = client[h].pending /\ x.watching = client[h].watching
      /\ x.ctx = client[h].ctx /\ x.thread = "idle" /\ x.phase = client[h].phase
  BY <1>1 DEF ClientType
<1> HIDE DEF x
<1> QED  BY <1>1, <1>2, <1>3, QuietStep

LEMMA CloseJoinKeeps ==
  ASSUME ZkInv, NEW h \in Handles, CloseJoin(h)
  PROVE  ZkInv'
<1> DEFINE x == [client[h] EXCEPT !.phase = "draining"]
<1>1. /\ client[h] \in ClientType
      /\ life \in LifeType
  BY LibraryFacts
<1>2. /\ client' = [client EXCEPT ![h] = x] /\ client[h].phase = "joining"
      /\ client[h].thread = "idle"
      /\ UNCHANGED <<zhandle_, zhandle_lock_, context_pool_, context_id_count_,
                     finalize_thread_mutex_, finalize_thread_, user, early, life>>
  BY DEF CloseJoin
<1>3. /\ x \in ClientType /\ x.pending = client[h].pending /\ x.watching = client[h].watching
      /\ x.ctx = client[h].ctx /\ x.thread = "idle" /\ x.phase = "draining"
  BY <1>1, <1>2 DEF ClientType
<1> HIDE DEF x
<1> QED  BY <1>1, <1>2, <1>3, QuietStep

\* An answer: the completion lambda is called, the watch is armed or dropped.
LEMMA CompleteKeeps ==
  ASSUME ZkInv, NEW h \in Handles, NEW request \in client[h].pending, NEW rc,
         Complete(h, request, rc)
  PROVE  ZkInv'
<1> DEFINE c == client[h]
           W == IF rc = "ZOK" \/ (request.onNoNode /\ rc = "ZNONODE")
                THEN c.watching \cup request.watcher ELSE c.watching
           P == c.pending \ {request}
           x == [[c EXCEPT !.thread = "callback", !.ctx = request.complete]
                   EXCEPT !.pending = P, !.watching = W]
<1>1. /\ c \in ClientType /\ RecordFits(c, Given(h))
      /\ life \in LifeType
  BY LibraryFacts
<1>2. /\ c.phase \in {"open", "joining"} /\ c.thread = "idle"
      /\ UNCHANGED <<zhandle_, zhandle_lock_, context_pool_, context_id_count_,
                     finalize_thread_mutex_, finalize_thread_, user, early, life>>
  BY DEF Complete
<1>3. client' = [client EXCEPT ![h] = x]  BY DEF Complete, CompletionThread
<1>4. /\ request \in RequestType /\ request.complete \subseteq Ctxs /\ request.watcher \subseteq Ctxs
      /\ P \subseteq RequestType /\ W \subseteq Ctxs /\ c.ctx = {}
  BY <1>1, <1>2 DEF ClientType, RequestType, RecordFits
<1>5. W \subseteq c.watching \cup request.watcher  OBVIOUS
<1>6. /\ x \in ClientType /\ x.pending = P /\ x.watching = W /\ x.ctx = request.complete
      /\ x.thread = "callback" /\ x.phase = c.phase
  <2> HIDE DEF W, P
  <2> QED  BY <1>1, <1>4 DEF ClientType
<1> HIDE DEF x, W
<1>7. RecordFits(x, Given(h))
  <2>1. /\ CtxsOf(request) \subseteq Given(h) /\ request.complete \cap request.watcher = {}
        /\ CtxsOf(request) \cap c.watching = {}
        /\ \A r \in P : CtxsOf(r) \cap CtxsOf(request) = {}
        /\ \A r \in P : /\ CtxsOf(r) \subseteq Given(h) /\ r.complete \cap r.watcher = {}
                        /\ CtxsOf(r) \cap c.watching = {}
        /\ \A r, q \in P : r # q => CtxsOf(r) \cap CtxsOf(q) = {}
        /\ c.watching \subseteq Given(h)
    BY <1>1 DEF RecordFits
  <2>2. W \subseteq Given(h) /\ W \cap request.complete = {} /\ request.complete \subseteq Given(h)
    BY <1>5, <2>1 DEF CtxsOf
  <2>3. \A r \in P : CtxsOf(r) \cap W = {} /\ CtxsOf(r) \cap request.complete = {}
    BY <1>5, <2>1 DEF CtxsOf
  <2> HIDE DEF P
  <2> QED  BY <1>2, <1>6, <2>1, <2>2, <2>3 DEF RecordFits
<1>8. \A y : Holds(x, y) => Holds(c, y)  BY <1>4, <1>5, <1>6 DEF Holds, CtxsOf
<1> HIDE DEF P
<1> QED  BY <1>1, <1>2, <1>3, <1>6, <1>7, <1>8, LibraryStep

LEMMA LambdaWatcherKeeps ==
  ASSUME ZkInv, NEW h \in Handles, NEW ctx \in client[h].watching, LambdaWatcher(h, ctx)
  PROVE  ZkInv'
<1> DEFINE c == client[h]
           W == c.watching \ {ctx}
           x == [[c EXCEPT !.thread = "callback", !.ctx = {ctx}] EXCEPT !.watching = W]
<1>1. /\ c \in ClientType /\ RecordFits(c, Given(h))
      /\ life \in LifeType
  BY LibraryFacts
<1>2. /\ c.phase = "open" /\ c.thread = "idle"
      /\ UNCHANGED <<zhandle_, zhandle_lock_, context_pool_, context_id_count_,
                     finalize_thread_mutex_, finalize_thread_, user, early, life>>
  BY DEF LambdaWatcher
<1>3. client' = [client EXCEPT ![h] = x]  BY DEF LambdaWatcher, CompletionThread
<1>4. W \subseteq Ctxs /\ {ctx} \subseteq Ctxs  BY <1>1 DEF ClientType
<1>5. /\ x \in ClientType /\ x.pending = c.pending /\ x.watching = W /\ x.ctx = {ctx}
      /\ x.thread = "callback" /\ x.phase = c.phase
  <2> HIDE DEF W
  <2> QED  BY <1>1, <1>4 DEF ClientType
<1> HIDE DEF x
<1>6. RecordFits(x, Given(h))  BY <1>1, <1>2, <1>5 DEF RecordFits
<1>7. \A y : Holds(x, y) => Holds(c, y)  BY <1>5 DEF Holds
<1> HIDE DEF W
<1> QED  BY <1>1, <1>2, <1>3, <1>5, <1>6, <1>7, LibraryStep

\* ZKWrapperContext::Remove takes out what only this callback had.
LEMMA ContextRemoveKeeps ==
  ASSUME ZkInv, NEW h \in Handles, ContextRemove(h)
  PROVE  ZkInv'
<1> DEFINE c == client[h]
           x == [c EXCEPT !.thread = "idle", !.ctx = {}]
<1>1. /\ c \in ClientType /\ RecordFits(c, Given(h))
      /\ life \in LifeType
  BY LibraryFacts
<1>2. /\ c.thread = "callback" /\ context_pool_' = context_pool_ \ c.ctx
      /\ UNCHANGED <<zhandle_, zhandle_lock_, context_id_count_,
                     finalize_thread_mutex_, finalize_thread_, user, early, life>>
  BY DEF ContextRemove
<1>3. client' = [client EXCEPT ![h] = x]  BY DEF ContextRemove, CompletionThread
<1>4. /\ x \in ClientType /\ x.pending = c.pending /\ x.watching = c.watching /\ x.ctx = {}
      /\ x.thread = "idle" /\ x.phase = c.phase
  BY <1>1 DEF ClientType
<1> HIDE DEF x
<1>5. RecordFits(x, Given(h))  BY <1>1, <1>4 DEF RecordFits
<1>6. \A y : Holds(x, y) => Holds(c, y)  BY <1>4 DEF Holds
<1>7. \A y \in context_pool_ \ context_pool_' : Holds(c, y) /\ ~Holds(x, y)
  BY <1>1, <1>2, <1>4 DEF Holds, RecordFits
<1> QED  BY <1>1, <1>2, <1>3, <1>4, <1>5, <1>6, <1>7, LibraryStep

LEMMA CloseDrainKeeps ==
  ASSUME ZkInv, NEW h \in Handles, NEW request \in client[h].pending, CloseDrain(h, request)
  PROVE  ZkInv'
<1> DEFINE c == client[h]
           P == c.pending \ {request}
           x == [c EXCEPT !.pending = P]
<1>1. /\ c \in ClientType /\ RecordFits(c, Given(h))
      /\ life \in LifeType
  BY LibraryFacts
<1>2. /\ c.phase = "draining" /\ context_pool_' = context_pool_ \ request.complete
      /\ UNCHANGED <<zhandle_, zhandle_lock_, context_id_count_,
                     finalize_thread_mutex_, finalize_thread_, user, early, life>>
      /\ client' = [client EXCEPT ![h] = x]
  BY DEF CloseDrain
<1>3. P \subseteq RequestType  BY <1>1 DEF ClientType
<1>4. /\ x \in ClientType /\ x.pending = P /\ x.watching = c.watching /\ x.ctx = c.ctx
      /\ x.thread = c.thread /\ x.phase = c.phase
  <2> HIDE DEF P
  <2> QED  BY <1>1, <1>3 DEF ClientType
<1> HIDE DEF x
<1>5. RecordFits(x, Given(h))  BY <1>1, <1>2, <1>4 DEF RecordFits
<1>6. \A y : Holds(x, y) => Holds(c, y)  BY <1>4 DEF Holds
<1>7. \A y \in request.complete : Holds(c, y) /\ ~Holds(x, y)
  <2> SUFFICES ASSUME NEW y \in request.complete PROVE Holds(c, y) /\ ~Holds(x, y)  OBVIOUS
  <2>1. y \in CtxsOf(request)  BY DEF CtxsOf
  <2>2. y \notin c.watching /\ y \notin c.ctx /\ \A r \in P : y \notin CtxsOf(r)
    BY <1>1, <2>1 DEF RecordFits
  <2> QED  BY <1>4, <2>1, <2>2 DEF Holds
<1>8. client[h].thread = "idle"  BY <1>1, <1>2 DEF RecordFits
<1> HIDE DEF P
<1> QED  BY <1>1, <1>2, <1>4, <1>5, <1>6, <1>7, <1>8, LibraryStep

LEMMA CloseDoneKeeps ==
  ASSUME ZkInv, NEW h \in Handles, CloseDone(h)
  PROVE  ZkInv'
<1> DEFINE c == client[h]
           x == [c EXCEPT !.phase = "closed", !.watching = {}]
<1>1. /\ c \in ClientType /\ RecordFits(c, Given(h))
      /\ life \in LifeType
  BY LibraryFacts
<1>2. /\ c.phase = "draining" /\ c.pending = {}
      /\ UNCHANGED <<zhandle_, zhandle_lock_, context_pool_, context_id_count_,
                     finalize_thread_mutex_, finalize_thread_, user, early, life>>
      /\ client' = [client EXCEPT ![h] = x]
  BY DEF CloseDone
<1>3. /\ x \in ClientType /\ x.pending = {} /\ x.watching = {} /\ x.ctx = c.ctx
      /\ x.thread = c.thread /\ x.phase = "closed"
  BY <1>1, <1>2 DEF ClientType
<1> HIDE DEF x
<1>4. RecordFits(x, Given(h))  BY <1>1, <1>2, <1>3 DEF RecordFits
<1>5. \A y : Holds(x, y) => Holds(c, y)  BY <1>3 DEF Holds
<1>6. client[h].thread = "idle"  BY <1>1, <1>2 DEF RecordFits
<1> QED  BY <1>1, <1>2, <1>3, <1>4, <1>5, <1>6, LibraryStep

-----------------------------------------------------------------------------
\* The threads of the program.

\* The parts of the invariant.
LEMMA ZkParts ==
  ASSUME ZkInv
  PROVE  /\ ZkTypes /\ LockFits /\ ConnectsFit /\ PhasesFit /\ FinalizeFits /\ ClientsFit /\ CallsFit
         /\ NoStaleContexts /\ KeptAlive /\ LifeFits /\ NoEarlyCallback
         /\ Len(client) \in Nat /\ Handles = 1..Len(client)
BY ClientFacts DEF ZkInv, LockInv, ContextInv

LEMMA UserFacts ==
  ASSUME ZkInv, NEW t \in ZkCallers
  PROVE  user[t] \in UserType /\ ConnectFits(t)
BY ZkParts DEF ZkTypes, ConnectsFit

\* A thread that is in a call is alone with the destructor: it runs it.
LEMMA BusyIsAlone ==
  ASSUME ZkInv, NEW t \in ZkCallers, user[t].pc # "idle"
  PROVE  /\ life.state # "destroyed"
         /\ life.state = "destructor" =>
              /\ \A u \in ZkCallers : u # t => user[u].pc = "idle"
              /\ user[t].pc \in {"mutex", "join", "shutdown", "closing"}
              /\ user[t].pc \in {"shutdown", "closing"} => finalize_thread_.pc = "none"
BY ZkParts DEF LifeFits

\* With the write lock free of readers and writers nobody is inside.
LEMMA NobodyInside ==
  ASSUME ZkInv, Writable, NEW t \in ZkCallers
  PROVE  user[t].pc # "calling" /\ user[t].pc \notin Writing
BY ZkParts, ZkAssumption DEF LockFits, Writable, Unlocked

\* The owner of the write lock is alone inside.
LEMMA OneInside ==
  ASSUME ZkInv, NEW t \in ZkCallers, user[t].pc \in Writing
  PROVE  /\ zhandle_lock_.writer = t /\ zhandle_lock_.readers = {} /\ zhandle_ = 0
         /\ \A u \in ZkCallers : user[u].pc # "calling" /\ (u # t => user[u].pc \notin Writing)
<1>1. zhandle_lock_.writer = t /\ t # NoThread  BY ZkParts, ZkAssumption DEF LockFits
<1>2. ConnectFits(t)  BY UserFacts
<1> QED  BY <1>1, <1>2, ZkParts DEF LockFits, ConnectFits

\* The places in which a thread has neither the lock nor a handle.
Parking == {"idle", "mutex", "join", "wrlock", "shutdown"}

LEMMA ParkedStep ==
  ASSUME ZkInv, NEW t \in ZkCallers, NEW x \in UserType, user' = [user EXCEPT ![t] = x],
         UNCHANGED <<zhandle_, zhandle_lock_, context_pool_, context_id_count_, client, early>>,
         user[t].pc \in Parking, x.pc \in Parking, x.pc = "idle" \/ t \in Connectors,
         x.old_pool = {},
         \/ finalize_thread_' = finalize_thread_
         \/ finalize_thread_.pc \in {"none", "done"} /\ finalize_thread_' = NoFinalize,
         finalize_thread_mutex_' \in ZkCallers \cup {NoThread},
         life' \in LifeType, LifeFits'
  PROVE  ZkInv'
<1>1. /\ user' \in [ZkCallers -> UserType] /\ user'[t] = x
      /\ \A u \in ZkCallers : u # t => user'[u] = user[u]
  BY ZkParts, UserWrite
<1>2. /\ finalize_thread_' \in [pc : {"none", "close", "erase", "done"}, zhandle : Nat,
                               contexts : SUBSET Ctxs]
      /\ finalize_thread_'.pc \in {"close", "erase"} => finalize_thread_' = finalize_thread_
      /\ finalize_thread_.pc \in {"close", "erase"} => finalize_thread_' = finalize_thread_
  BY ZkParts DEF NoFinalize, ZkTypes
<1>3. Handles' = Handles  BY DEF Handles
<1>4. ZkTypes'  BY ZkParts, <1>1, <1>2, <1>3 DEF ZkTypes
<1>5. LockFits'  BY ZkParts, <1>1 DEF LockFits, Parking, Writing
<1>6. ConnectsFit'
  <2> SUFFICES ASSUME NEW u \in ZkCallers PROVE ConnectFits(u)'  BY DEF ConnectsFit
  <2>1. \A h \in Handles : Gone(h)' <=> Gone(h)  BY <1>2 DEF Gone
  <2>2. CASE u = t  BY <1>1, <2>2 DEF ConnectFits, Parking, Writing
  <2>3. CASE u # t  BY <1>1, <1>3, <2>1, <2>3, UserFacts DEF ConnectFits
  <2> QED  BY <2>2, <2>3
<1>7. PhasesFit'
  <2>1. \A u \in ZkCallers : user[u].pc \in {"finalize", "assign", "closing"} => user'[u] = user[u]
    BY <1>1 DEF Parking
  <2> QED  BY ZkParts, <1>2, <1>3, <2>1 DEF PhasesFit
<1>8. FinalizeFits'  BY ZkParts, <1>2, <1>3 DEF FinalizeFits
<1>9. ClientsFit'  BY ZkParts, <1>3 DEF ClientsFit, Given
<1>10. CallsFit'
  <2>1. \A u \in ZkCallers : user'[u].pc = "calling" => user'[u] = user[u]
    BY <1>1 DEF Parking
  <2> QED  BY ZkParts, <2>1 DEF CallsFit, CallFits, Given
<1>11. NoStaleContexts'
  <2>1. \A u \in ZkCallers : user[u].pc = "finalize" => user'[u] = user[u]  BY <1>1 DEF Parking
  <2> QED  BY ZkParts, <1>2, <2>1 DEF NoStaleContexts
<1>12. KeptAlive'
  <2>1. user[t].old_pool = {}  BY UserFacts DEF ConnectFits, Parking
  <2>2. \A y : Alive(y) => Alive(y)'  BY <1>1, <2>1 DEF Alive
  <2> QED  BY ZkParts, <1>3, <2>2 DEF KeptAlive, Given
<1>13. NoEarlyCallback'
  <2>1. \A u \in ZkCallers : user'[u].pc = "assign" => user'[u] = user[u]  BY <1>1 DEF Parking
  <2> QED  BY ZkParts, <2>1 DEF NoEarlyCallback
<1> QED  BY <1>4, <1>5, <1>6, <1>7, <1>8, <1>9, <1>10, <1>11, <1>12, <1>13
            DEF ZkInv, LockInv, ContextInv

\* The steps of Connect, Shutdown and the destructor outside the lock.
LEMMA ParkedKeeps ==
  ASSUME ZkInv, NEW t \in ZkCallers,
         \/ t \in Connectors /\ (Connect(t) \/ Shutdown(t) \/ Destructor(t))
         \/ JoinLock(t) \/ Join(t)
  PROVE  ZkInv'
<1>1. user[t] \in UserType /\ ConnectFits(t) /\ life \in LifeType
  BY UserFacts, ZkParts DEF ZkTypes
<1>2. ASSUME NEW pc \in Parking \ {"idle"}, user' = [user EXCEPT ![t].pc = pc],
             user[t].pc \in Parking, t \in Connectors,
             UNCHANGED <<zhandle_, zhandle_lock_, context_pool_, context_id_count_, client, early>>,
             \/ finalize_thread_' = finalize_thread_
             \/ finalize_thread_.pc \in {"none", "done"} /\ finalize_thread_' = NoFinalize,
             finalize_thread_mutex_' \in ZkCallers \cup {NoThread},
             life' \in LifeType, LifeFits'
      PROVE  ZkInv'
  <2> DEFINE x == [user[t] EXCEPT !.pc = pc]
  <2>1. x \in UserType /\ x.pc = pc /\ x.old_pool = user[t].old_pool
    BY <1>1, <1>2 DEF UserType, Parking
  <2>2. user[t].old_pool = {}  BY <1>1, <1>2 DEF ConnectFits, Parking
  <2>3. user' = [user EXCEPT ![t] = x]  BY <1>2
  <2> HIDE DEF x
  <2> QED  BY <1>2, <2>1, <2>2, <2>3, ParkedStep
<1>3. ASSUME NEW pc, user' = [user EXCEPT ![t].pc = pc]
      PROVE  user'[t].pc = pc /\ \A u \in ZkCallers : u # t => user'[u] = user[u]
  BY <1>1, <1>3, ZkParts DEF ZkTypes, UserType
<1>4. finalize_thread_mutex_ \in ZkCallers \cup {NoThread}  BY ZkParts DEF ZkTypes
<1>5. CASE t \in Connectors /\ (Connect(t) \/ Shutdown(t))
  <2>1. PICK pc \in Parking \ {"idle"} : user' = [user EXCEPT ![t].pc = pc]
    BY <1>5 DEF Connect, Shutdown, Go, Parking
  <2>2. /\ life.state = "alive" /\ user[t].pc \in Parking
        /\ UNCHANGED <<zhandle_, zhandle_lock_, context_pool_, context_id_count_,
                       finalize_thread_mutex_, finalize_thread_, client, early, life>>
    BY <1>5 DEF Connect, Shutdown, Running, Parking
  <2>3. LifeFits'  BY <2>2 DEF LifeFits
  <2> QED  BY <1>1, <1>2, <1>4, <1>5, <2>1, <2>2, <2>3
<1>6. CASE t \in Connectors /\ Destructor(t)
  <2>1. /\ user' = [user EXCEPT ![t].pc = "mutex"] /\ user[t].pc \in Parking
        /\ \A u \in ZkCallers : user[u].pc = "idle"
        /\ UNCHANGED <<zhandle_, zhandle_lock_, context_pool_, context_id_count_,
                       finalize_thread_mutex_, finalize_thread_, client, early>>
        /\ life' = [life EXCEPT !.state = "destructor"]
    BY <1>6 DEF Destructor, Go, Parking
  <2>2. life' \in LifeType /\ life'.state = "destructor"  BY <1>1, <2>1 DEF LifeType
  <2>3. LifeFits'
    <3>1. user'[t].pc = "mutex" /\ \A u \in ZkCallers : u # t => user'[u] = user[u]
      BY <1>3, <2>1
    <3> QED  BY <2>1, <2>2, <3>1 DEF LifeFits
  <2>4. "mutex" \in Parking \ {"idle"}  BY DEF Parking
  <2> QED  BY <1>2, <1>4, <1>6, <2>1, <2>2, <2>3, <2>4
<1>7. CASE JoinLock(t)
  <2>1. /\ user' = [user EXCEPT ![t].pc = "join"] /\ user[t].pc = "mutex"
        /\ UNCHANGED <<zhandle_, zhandle_lock_, context_pool_, context_id_count_,
                       finalize_thread_, client, early, life>>
        /\ finalize_thread_mutex_' = t
    BY <1>7 DEF JoinLock, Go
  <2>2. LifeFits'
    <3>1. user'[t].pc = "join" /\ \A u \in ZkCallers : u # t => user'[u] = user[u]
      BY <1>3, <2>1
    <3> QED  BY <2>1, <3>1, BusyIsAlone DEF LifeFits
  <2>3. "join" \in Parking \ {"idle"} /\ "mutex" \in Parking  BY DEF Parking
  <2>4. t \in Connectors  BY <1>1, <2>1 DEF ConnectFits
  <2> QED  BY <1>1, <1>2, <2>1, <2>2, <2>3, <2>4
<1>8. CASE Join(t)
  <2> DEFINE pc == IF life.state = "destructor" THEN "shutdown" ELSE "wrlock"
  <2>1. /\ user' = [user EXCEPT ![t].pc = pc] /\ user[t].pc = "join"
        /\ UNCHANGED <<zhandle_, zhandle_lock_, context_pool_, context_id_count_,
                       client, early, life>>
        /\ finalize_thread_mutex_' = NoThread
        /\ finalize_thread_.pc \in {"none", "done"} /\ finalize_thread_' = NoFinalize
    BY <1>8 DEF Join, Go
  <2>2. LifeFits'
    <3>1. user'[t].pc = pc /\ \A u \in ZkCallers : u # t => user'[u] = user[u]
      <4> HIDE DEF pc
      <4> QED  BY <1>3, <2>1
    <3>2. finalize_thread_'.pc = "none"  BY <2>1 DEF NoFinalize
    <3> QED  BY <2>1, <3>1, <3>2, BusyIsAlone DEF LifeFits
  <2>3. pc \in Parking \ {"idle"} /\ "join" \in Parking  BY DEF Parking
  <2>4. t \in Connectors  BY <1>1, <2>1 DEF ConnectFits
  <2> HIDE DEF pc
  <2> QED  BY <1>1, <1>2, <2>1, <2>2, <2>3, <2>4
<1> QED  BY <1>5, <1>6, <1>7, <1>8

LEMMA IdleFacts ==
  /\ IdleUser \in UserType /\ IdleUser.pc = "idle" /\ IdleUser.old_pool = {}
  /\ "idle" \notin Writing
BY DEF IdleUser, UserType, NoRequest, Writing

\* Shutdown takes the handle and the contexts out in one critical section.
LEMMA ShutdownSwapKeeps ==
  ASSUME ZkInv, NEW t \in ZkCallers, ShutdownSwap(t)
  PROVE  ZkInv'
<1> DEFINE x == [user[t] EXCEPT !.pc = "closing", !.zhandle = zhandle_, !.old_pool = context_pool_]
<1>1. user[t] \in UserType /\ ConnectFits(t) /\ context_pool_ \subseteq Ctxs
      /\ zhandle_ \in Nat /\ zhandle_ \in 0..Len(client)
  <2>1. context_pool_ \subseteq (Handles \X (1..context_id_count_)) /\ zhandle_ \in 0..Len(client)
        /\ context_id_count_ \in 0..MaxContexts
    BY ZkParts DEF ZkTypes
  <2>2. Handles \subseteq Nat /\ 1..context_id_count_ \subseteq Nat  BY <2>1, ZkParts, ZkAssumption
  <2> QED  BY <2>1, <2>2, UserFacts, ZkParts DEF Ctxs
<1>2. /\ user[t].pc = "shutdown" /\ Writable /\ zhandle_' = 0 /\ context_pool_' = {}
      /\ early' = (early \/ finalize_thread_.pc \in {"close", "erase"})
      /\ client' = [h \in Handles |-> IF h = zhandle_ THEN [client[h] EXCEPT !.phase = "joining"]
                                      ELSE client[h]]
      /\ user' = [user EXCEPT ![t] = x]
      /\ UNCHANGED <<zhandle_lock_, context_id_count_, finalize_thread_mutex_,
                     finalize_thread_, life>>
  BY DEF ShutdownSwap
<1>3. x \in UserType /\ x.pc = "closing" /\ x.zhandle = zhandle_ /\ x.old_pool = context_pool_
  BY <1>1 DEF UserType
<1> HIDE DEF x
<1>4. /\ user' \in [ZkCallers -> UserType] /\ user'[t] = x
      /\ \A u \in ZkCallers : u # t => user'[u] = user[u]
  BY <1>2, <1>3, ZkParts, UserWrite
<1>5. \A h \in Handles : client[h] \in ClientType  BY ZkParts, ClientFacts
<1>6. /\ client' \in Seq(ClientType) /\ Len(client') = Len(client) /\ Handles' = Handles
      /\ \A h \in Handles :
           /\ client'[h].pending = client[h].pending /\ client'[h].watching = client[h].watching
           /\ client'[h].thread = client[h].thread /\ client'[h].ctx = client[h].ctx
           /\ client'[h].phase = IF h = zhandle_ THEN "joining" ELSE client[h].phase
  <2> DEFINE c(h) == IF h = zhandle_ THEN [client[h] EXCEPT !.phase = "joining"] ELSE client[h]
  <2>1. \A h \in Handles :
          /\ c(h) \in ClientType
          /\ c(h).pending = client[h].pending /\ c(h).watching = client[h].watching
          /\ c(h).thread = client[h].thread /\ c(h).ctx = client[h].ctx
          /\ c(h).phase = IF h = zhandle_ THEN "joining" ELSE client[h].phase
    BY <1>5 DEF ClientType
  <2>2. client' = [h \in Handles |-> c(h)]  BY <1>2
  <2> HIDE DEF c
  <2>3. client' = [h \in 1..Len(client) |-> c(h)] /\ Len(client) \in Nat
        /\ \A h \in 1..Len(client) : c(h) \in ClientType
    BY <2>1, <2>2, ZkParts
  <2>4. client' \in Seq(ClientType) /\ Len(client') = Len(client)  BY <2>3
  <2>5. Handles' = Handles  BY <2>2 DEF Handles
  <2> QED  BY <2>1, <2>2, <2>4, <2>5
<1>7. \A u \in ZkCallers : user[u].pc # "calling" /\ user[u].pc \notin Writing
  BY <1>2, NobodyInside
<1>8. \A u \in ZkCallers : user'[u].pc # "calling" /\ user'[u].pc \notin Writing
  BY <1>3, <1>4, <1>7 DEF Writing
<1>9. zhandle_ # 0 => zhandle_ \in Handles /\ client[zhandle_].phase = "open"
  BY <1>1, ZkParts DEF PhasesFit
<1>10. \A h \in Handles :
         /\ client'[h].phase # "open"
         /\ client'[h].phase = "closed" <=> client[h].phase = "closed"
  <2>1. \A h \in Handles : client[h].phase = "open" => h = zhandle_
    BY <1>7, ZkParts DEF PhasesFit, Writing
  <2> SUFFICES ASSUME NEW h \in Handles
               PROVE  /\ client'[h].phase # "open"
                      /\ client'[h].phase = "closed" <=> client[h].phase = "closed"
    OBVIOUS
  <2>2. client'[h].phase = IF h = zhandle_ THEN "joining" ELSE client[h].phase  BY <1>6
  <2>3. h # 0  BY ZkParts
  <2>4. CASE h = zhandle_  BY <1>9, <2>2, <2>3, <2>4
  <2>5. CASE h # zhandle_  BY <2>1, <2>2, <2>5
  <2> QED  BY <2>4, <2>5
<1>11. ZkTypes'
  BY <1>1, <1>2, <1>4, <1>6, ZkParts DEF ZkTypes
<1>12. LockFits'  BY <1>2, <1>7, <1>8, ZkParts DEF LockFits
<1>13. \A y \in context_pool_ : ~early' => y[1] = zhandle_
  BY <1>2, <1>7, ZkParts DEF NoStaleContexts, Writing
<1>14. ConnectsFit'
  <2> SUFFICES ASSUME NEW u \in ZkCallers PROVE ConnectFits(u)'  BY DEF ConnectsFit
  <2>1. CASE u = t
    <3>1. t \in Connectors  BY <1>1, <1>2 DEF ConnectFits
    <3> QED  BY <1>1, <1>3, <1>4, <1>6, <1>9, <1>10, <1>13, <2>1, <3>1 DEF ConnectFits, Writing
  <2>2. CASE u # t
    <3>1. ConnectFits(u) /\ user'[u] = user[u]  BY <1>4, <2>2, UserFacts
    <3>2. user[u].pc \notin Writing  BY <1>7
    <3>3. user[u].pc = "closing" /\ user[u].zhandle # 0 => user[u].zhandle \in Handles
      BY <3>1, ZkParts DEF ConnectFits
    <3> QED  BY <1>2, <1>6, <1>10, <3>1, <3>2, <3>3 DEF ConnectFits, Writing
  <2> QED  BY <2>1, <2>2
<1>15. PhasesFit'
  <2> SUFFICES ASSUME NEW h \in Handles, client'[h].phase \in {"joining", "draining"}
               PROVE  \/ finalize_thread_.pc = "close" /\ finalize_thread_.zhandle = h
                      \/ \E u \in ZkCallers : user'[u].pc = "closing" /\ user'[u].zhandle = h
    BY <1>2, <1>6, <1>10 DEF PhasesFit
  <2>1. CASE h = zhandle_  BY <1>3, <1>4, <2>1
  <2>2. CASE h # zhandle_
    <3>1. client[h].phase \in {"joining", "draining"}  BY <1>6, <2>2
    <3>2. \A u \in ZkCallers : user[u].pc = "closing" => user'[u] = user[u]  BY <1>2, <1>4
    <3> QED  BY <3>1, <3>2, ZkParts DEF PhasesFit
  <2> QED  BY <2>1, <2>2
<1>16. FinalizeFits'  BY <1>2, <1>6, <1>10, ZkParts DEF FinalizeFits
<1>17. ClientsFit'
  <2> SUFFICES ASSUME NEW h \in Handles PROVE RecordFits(client'[h], Given(h)')
    BY <1>6 DEF ClientsFit
  <2>1. RecordFits(client[h], Given(h)) /\ Given(h)' = Given(h)
    BY <1>2, ZkParts DEF ClientsFit, Given
  <2> QED  BY <1>6, <1>10, <2>1 DEF RecordFits
<1>18. CallsFit'  BY <1>8 DEF CallsFit
<1>19. NoStaleContexts'  BY <1>2 DEF NoStaleContexts
<1>20. KeptAlive'
  <2> SUFFICES ASSUME ~early', NEW h \in Handles, client'[h].phase # "closed",
                      NEW y \in Given(h), Holds(client'[h], y)
               PROVE  Alive(y)'
    BY <1>2, <1>6 DEF KeptAlive, Given
  <2>1. Holds(client[h], y) /\ client[h].phase # "closed" /\ ~early
    BY <1>2, <1>6, <1>10 DEF Holds
  <2>2. Alive(y)  BY <2>1, ZkParts DEF KeptAlive
  <2>3. user[t].old_pool = {}  BY <1>1, <1>2 DEF ConnectFits
  <2> QED  BY <1>3, <1>4, <2>2, <2>3 DEF Alive
<1>21. LifeFits'  BY <1>2, <1>3, <1>4, BusyIsAlone DEF LifeFits
<1>22. NoEarlyCallback'  BY <1>8 DEF NoEarlyCallback, Writing
<1> QED  BY <1>11, <1>12, <1>14, <1>15, <1>16, <1>17, <1>18, <1>19, <1>20, <1>21, <1>22
            DEF ZkInv, LockInv, ContextInv

\* old_pool goes when the handle it was for is closed.
LEMMA ShutdownReturnsKeeps ==
  ASSUME ZkInv, NEW t \in ZkCallers, ShutdownReturns(t)
  PROVE  ZkInv'
<1>1. /\ user[t].pc = "closing" /\ user' = [user EXCEPT ![t] = IdleUser]
      /\ user[t].zhandle # 0 => client[user[t].zhandle].phase = "closed"
      /\ life' = IF life.state = "destructor" THEN [life EXCEPT !.state = "destroyed"] ELSE life
      /\ UNCHANGED <<zhandle_, zhandle_lock_, context_pool_, context_id_count_,
                     finalize_thread_mutex_, finalize_thread_, client, early>>
  BY DEF ShutdownReturns, Return
<1>2. /\ user' \in [ZkCallers -> UserType] /\ user'[t] = IdleUser
      /\ \A u \in ZkCallers : u # t => user'[u] = user[u]
  BY <1>1, IdleFacts, ZkParts, UserWrite
<1>3. user'[t].pc = "idle" /\ user'[t].old_pool = {} /\ ConnectFits(t)
  BY <1>2, IdleFacts, UserFacts
<1>4. Handles' = Handles  BY <1>1 DEF Handles
<1>5. /\ life' \in LifeType
      /\ life.state = "destructor" => life'.state = "destroyed"
      /\ life.state # "destructor" => life' = life
  BY <1>1, ZkParts DEF ZkTypes, LifeType
<1>6. ZkTypes'  BY <1>1, <1>2, <1>4, <1>5, ZkParts DEF ZkTypes
<1>7. LockFits'  BY <1>1, <1>2, <1>3, ZkParts DEF LockFits, Writing
<1>8. ConnectsFit'
  <2> SUFFICES ASSUME NEW u \in ZkCallers PROVE ConnectFits(u)'  BY DEF ConnectsFit
  <2>1. CASE u = t  BY <1>3, <2>1 DEF ConnectFits, Writing
  <2>2. CASE u # t  BY <1>1, <1>2, <1>4, <2>2, UserFacts DEF ConnectFits, Gone
  <2> QED  BY <2>1, <2>2
<1>9. PhasesFit'
  <2>1. \A u \in ZkCallers : user[u].pc \in {"finalize", "assign"} => user'[u] = user[u]
    BY <1>1, <1>2
  <2>2. ASSUME NEW h \in Handles, client[h].phase \in {"joining", "draining"}
        PROVE  \/ finalize_thread_.pc = "close" /\ finalize_thread_.zhandle = h
               \/ \E u \in ZkCallers : user'[u].pc = "closing" /\ user'[u].zhandle = h
    <3>1. h # 0  BY ZkParts
    <3>2. h # user[t].zhandle  BY <1>1, <2>2, <3>1
    <3> QED  BY <1>2, <2>2, <3>2, ZkParts DEF PhasesFit
  <2> QED  BY <1>1, <1>4, <2>1, <2>2, ZkParts DEF PhasesFit
<1>10. FinalizeFits'  BY <1>1, <1>4, ZkParts DEF FinalizeFits
<1>11. ClientsFit'  BY <1>1, <1>4, ZkParts DEF ClientsFit, Given
<1>12. CallsFit'
  <2>1. \A u \in ZkCallers : user'[u].pc = "calling" => user'[u] = user[u]  BY <1>2, <1>3
  <2> QED  BY <1>1, <2>1, ZkParts DEF CallsFit, CallFits, Given
<1>13. NoStaleContexts'
  <2>1. \A u \in ZkCallers : user[u].pc = "finalize" => user'[u] = user[u]  BY <1>1, <1>2
  <2> QED  BY <1>1, <2>1, ZkParts DEF NoStaleContexts
<1>14. KeptAlive'
  <2> SUFFICES ASSUME ~early, NEW h \in Handles, client[h].phase # "closed",
                      NEW y \in Given(h), Holds(client[h], y)
               PROVE  Alive(y)'
    BY <1>1, <1>4 DEF KeptAlive, Given
  <2>1. Alive(y)  BY ZkParts DEF KeptAlive
  <2>2. y \notin user[t].old_pool
    <3> SUFFICES ASSUME y \in user[t].old_pool PROVE FALSE  OBVIOUS
    <3>1. y[1] = user[t].zhandle  BY <1>1, <1>3 DEF ConnectFits
    <3>2. y[1] = h /\ h # 0  BY ZkParts DEF Given
    <3> QED  BY <1>1, <3>1, <3>2
  <2> QED  BY <1>1, <1>2, <2>1, <2>2 DEF Alive
<1>15. LifeFits'
  <2>1. CASE life.state = "destructor"
    <3>1. zhandle_ = 0
      <4>1. PICK u \in ZkCallers :
              /\ \A v \in ZkCallers : v # u => user[v].pc = "idle"
              /\ user[u].pc = "closing" => zhandle_ = 0
        BY <2>1, ZkParts DEF LifeFits
      <4> QED  BY <1>1, <4>1
    <3>2. \A u \in ZkCallers : user'[u].pc = "idle"  BY <1>1, <1>2, <1>3, <2>1, BusyIsAlone
    <3>3. finalize_thread_.pc = "none"  BY <1>1, <2>1, BusyIsAlone
    <3> QED  BY <1>1, <1>5, <2>1, <3>1, <3>2, <3>3 DEF LifeFits
  <2>2. CASE life.state # "destructor"  BY <1>1, <1>5, <2>2, BusyIsAlone DEF LifeFits
  <2> QED  BY <2>1, <2>2
<1>16. NoEarlyCallback'
  <2>1. \A u \in ZkCallers : user'[u].pc = "assign" => user'[u] = user[u]  BY <1>2, <1>3
  <2> QED  BY <1>1, <2>1, ZkParts DEF NoEarlyCallback
<1> QED  BY <1>6, <1>7, <1>8, <1>9, <1>10, <1>11, <1>12, <1>13, <1>14, <1>15, <1>16
            DEF ZkInv, LockInv, ContextInv

\* A Connect that leaves the living handle alone, or takes any other one out.
LEMMA ConnectLockKeeps ==
  ASSUME ZkInv, NEW t \in ZkCallers, ConnectLock(t)
  PROVE  ZkInv'
<1>1. /\ user[t].pc = "wrlock" /\ Writable
      /\ UNCHANGED <<context_pool_, context_id_count_, finalize_thread_mutex_,
                     finalize_thread_, client, early, life>>
  BY DEF ConnectLock
<1>2. life.state \notin {"destructor", "destroyed"}  BY <1>1, BusyIsAlone
<1>3. LifeFits'  BY <1>1, <1>2 DEF LifeFits
<1>4. user[t] \in UserType /\ ConnectFits(t)  BY UserFacts
<1>5. finalize_thread_mutex_ \in ZkCallers \cup {NoThread} /\ life \in LifeType
  BY ZkParts DEF ZkTypes
<1>6. CASE zhandle_ # 0 /\ client[zhandle_].state = "live"
  <2>1. user' = [user EXCEPT ![t] = IdleUser] /\ UNCHANGED <<zhandle_, zhandle_lock_>>
    BY <1>6 DEF ConnectLock, Return
  <2>2. user[t].pc \in Parking /\ IdleUser.pc \in Parking  BY <1>1, IdleFacts DEF Parking
  <2> QED  BY <1>1, <1>3, <1>5, <2>1, <2>2, IdleFacts, ParkedStep
<1>7. CASE ~(zhandle_ # 0 /\ client[zhandle_].state = "live")
  <2> DEFINE pc == IF zhandle_ = 0 THEN "init" ELSE "finalize"
             x == [user[t] EXCEPT !.pc = pc, !.zhandle = zhandle_, !.ctxs = context_pool_]
  <2>1. /\ zhandle_lock_' = [zhandle_lock_ EXCEPT !.writer = t]
        /\ user' = [user EXCEPT ![t] = x] /\ zhandle_' = 0
    BY <1>7 DEF ConnectLock
  <2>2. /\ context_pool_ \subseteq (Handles \X (1..context_id_count_)) /\ zhandle_ \in 0..Len(client)
        /\ context_id_count_ \in 0..MaxContexts
    BY ZkParts DEF ZkTypes
  <2>3. context_pool_ \subseteq Ctxs /\ zhandle_ \in Nat
    <3>1. Handles \subseteq Nat /\ 1..context_id_count_ \subseteq Nat
      BY <2>2, ZkParts, ZkAssumption
    <3> QED  BY <2>2, <3>1, ZkParts DEF Ctxs
  <2>4. pc \in {"init", "finalize"} /\ pc \in Writing  BY DEF Writing
  <2>5. pc = "finalize" <=> zhandle_ # 0  OBVIOUS
  <2> HIDE DEF pc
  <2>6. /\ x \in UserType /\ x.pc = pc /\ x.zhandle = zhandle_ /\ x.ctxs = context_pool_
        /\ x.old_pool = user[t].old_pool
    BY <1>4, <2>3, <2>4 DEF UserType
  <2> HIDE DEF x
  <2>7. /\ user' \in [ZkCallers -> UserType] /\ user'[t] = x
        /\ \A u \in ZkCallers : u # t => user'[u] = user[u]
    BY <2>1, <2>6, ZkParts, UserWrite
  <2>8. \A u \in ZkCallers : user[u].pc # "calling" /\ user[u].pc \notin Writing
    BY <1>1, NobodyInside
  <2>9. Handles' = Handles  BY <1>1 DEF Handles
  <2>10. /\ zhandle_lock_' \in [writer : ZkCallers \cup {NoThread}, readers : SUBSET ZkCallers]
         /\ zhandle_lock_'.writer = t /\ zhandle_lock_'.readers = {}
    BY <1>1, <2>1, ZkParts DEF ZkTypes, Writable
  <2>11. user[t].old_pool = {} /\ t \in Connectors  BY <1>1, <1>4 DEF ConnectFits
  <2>12. ZkTypes'  BY <1>1, <2>1, <2>7, <2>9, <2>10, ZkParts DEF ZkTypes
  <2>13. LockFits'
    <3>1. \A u \in ZkCallers : user'[u].pc # "calling"  BY <2>4, <2>6, <2>7, <2>8
    <3>2. \A u \in ZkCallers : user'[u].pc \in Writing <=> u = t  BY <2>4, <2>6, <2>7, <2>8
    <3> QED  BY <2>10, <3>1, <3>2 DEF LockFits
  <2>14. zhandle_ # 0 => zhandle_ \in Handles /\ client[zhandle_].phase = "open"
    BY <2>2, ZkParts DEF PhasesFit
  <2>15. ASSUME NEW y \in context_pool_, y[1] # zhandle_
         PROVE  /\ y[1] \in Handles /\ Gone(y[1])
                /\ finalize_thread_.pc \in {"close", "erase"} /\ y \in finalize_thread_.contexts
    <3>1. finalize_thread_.pc \in {"close", "erase"} /\ y \in finalize_thread_.contexts
      BY <2>8, <2>15, ZkParts DEF NoStaleContexts, Writing
    <3> QED  BY <3>1, ZkParts DEF FinalizeFits, Gone
  <2>16. ConnectsFit'
    <3> SUFFICES ASSUME NEW u \in ZkCallers PROVE ConnectFits(u)'  BY DEF ConnectsFit
    <3>1. \A h \in Handles : Gone(h)' <=> Gone(h)  BY <1>1 DEF Gone
    <3>2. CASE u = t
      <4>1. user'[u].pc = "finalize" =>
              \A y \in user'[u].ctxs : y[1] = user'[u].zhandle \/ (y[1] \in Handles /\ Gone(y[1])')
        BY <2>6, <2>7, <2>15, <3>1, <3>2
      <4>2. user'[u].pc \in {"init", "finalize"} /\ user'[u].old_pool = {} /\ u \in Connectors
        BY <2>4, <2>6, <2>7, <2>11, <3>2
      <4>3. user'[u].pc = "finalize" => user'[u].zhandle \in Handles /\ client[user'[u].zhandle].phase = "open"
        BY <2>5, <2>6, <2>7, <2>14, <3>2
      <4> QED  BY <1>1, <2>1, <2>9, <4>1, <4>2, <4>3 DEF ConnectFits
    <3>3. CASE u # t
      <4>1. user'[u] = user[u] /\ ConnectFits(u) /\ user[u].pc \notin Writing
        BY <2>7, <2>8, <3>3, UserFacts
      <4> QED  BY <1>1, <2>1, <2>9, <4>1 DEF ConnectFits, Writing
    <3> QED  BY <3>2, <3>3
  <2>17. PhasesFit'
    <3>1. \A u \in ZkCallers : user[u].pc = "closing" => user'[u] = user[u]  BY <1>1, <2>7
    <3>2. \A h \in Handles : client[h].phase = "open" => h = zhandle_ /\ h # 0
      BY <2>8, ZkParts DEF PhasesFit, Writing
    <3>3. zhandle_ # 0 => user'[t].pc = "finalize" /\ user'[t].zhandle = zhandle_
      BY <2>5, <2>6, <2>7
    <3> QED  BY <1>1, <2>1, <2>9, <3>1, <3>2, <3>3, ZkParts DEF PhasesFit
  <2>18. FinalizeFits'  BY <1>1, <2>9, ZkParts DEF FinalizeFits
  <2>19. ClientsFit'  BY <1>1, <2>9, ZkParts DEF ClientsFit, Given
  <2>20. CallsFit'
    <3>1. \A u \in ZkCallers : user'[u].pc # "calling"  BY <2>4, <2>6, <2>7, <2>8
    <3> QED  BY <3>1 DEF CallsFit
  <2>21. NoStaleContexts'
    <3> SUFFICES ASSUME NEW y \in context_pool_
                 PROVE  \/ finalize_thread_.pc \in {"close", "erase"} /\ y \in finalize_thread_.contexts
                        \/ user'[t].pc = "finalize" /\ y \in user'[t].ctxs
      BY <1>1 DEF NoStaleContexts
    <3>1. y[1] # 0  BY <2>2, ZkParts
    <3> QED  BY <2>5, <2>6, <2>7, <2>15, <3>1
  <2>22. KeptAlive'
    <3>1. \A y : Alive(y) => Alive(y)'  BY <1>1, <2>7, <2>11 DEF Alive
    <3> QED  BY <1>1, <2>9, <3>1, ZkParts DEF KeptAlive, Given
  <2>23. NoEarlyCallback'
    <3>1. \A u \in ZkCallers : user'[u].pc # "assign"
      BY <2>4, <2>6, <2>7, <2>8 DEF Writing
    <3> QED  BY <3>1 DEF NoEarlyCallback
  <2> QED  BY <1>3, <2>12, <2>13, <2>16, <2>17, <2>18, <2>19, <2>20, <2>21, <2>22, <2>23
              DEF ZkInv, LockInv, ContextInv
<1> QED  BY <1>6, <1>7

\* finalize_thread_ gets the handle and the contexts that were taken out.
LEMMA StartFinalizeKeeps ==
  ASSUME ZkInv, NEW t \in ZkCallers, StartFinalize(t)
  PROVE  ZkInv'
<1>1. /\ user[t].pc = "finalize"
      /\ UNCHANGED <<zhandle_, zhandle_lock_, context_pool_, context_id_count_,
                     finalize_thread_mutex_, early>>
  BY DEF StartFinalize
<1>2. life.state \notin {"destructor", "destroyed"}  BY <1>1, BusyIsAlone
<1>3. user[t] \in UserType /\ ConnectFits(t) /\ user[t].pc \in Writing
  BY <1>1, UserFacts DEF Writing
<1>4. /\ zhandle_ = 0
      /\ \A u \in ZkCallers : user[u].pc # "calling" /\ (u # t => user[u].pc \notin Writing)
  BY <1>3, OneInside
<1>5. CASE finalize_thread_.pc = "none"
  <2> DEFINE z == user[t].zhandle
             c == [client[z] EXCEPT !.phase = "joining"]
             x == [user[t] EXCEPT !.pc = "init"]
             f == [pc |-> "close", zhandle |-> z, contexts |-> user[t].ctxs]
  <2>1. /\ finalize_thread_' = f /\ client' = [client EXCEPT ![z] = c]
        /\ user' = [user EXCEPT ![t] = x] /\ life' = life
    BY <1>5 DEF StartFinalize, Go
  <2>2. z \in Handles /\ client[z].phase = "open"  BY <1>1, <1>3 DEF ConnectFits
  <2>3. client[z] \in ClientType /\ RecordFits(client[z], Given(z))  BY <2>2, LibraryFacts
  <2>4. /\ c \in ClientType /\ c.phase = "joining" /\ c.pending = client[z].pending
        /\ c.watching = client[z].watching /\ c.ctx = client[z].ctx /\ c.thread = client[z].thread
    BY <2>3 DEF ClientType
  <2>5. /\ x \in UserType /\ x.pc = "init" /\ x.zhandle = z /\ x.old_pool = user[t].old_pool
    BY <1>3 DEF UserType, Writing
  <2>6. /\ f \in [pc : {"none", "close", "erase", "done"}, zhandle : Nat, contexts : SUBSET Ctxs]
        /\ f.pc = "close" /\ f.zhandle = z /\ f.contexts = user[t].ctxs
    BY <1>3 DEF UserType
  <2> HIDE DEF z, c, x, f
  <2>7. /\ client' \in Seq(ClientType) /\ Len(client') = Len(client) /\ Handles' = Handles
        /\ \A g \in Handles : client'[g] = IF g = z THEN c ELSE client[g]
    BY <2>1, <2>2, <2>4, ZkParts, ClientWrite
  <2>8. /\ user' \in [ZkCallers -> UserType] /\ user'[t] = x
        /\ \A u \in ZkCallers : u # t => user'[u] = user[u]
    BY <2>1, <2>5, ZkParts, UserWrite
  <2>9. user[t].old_pool = {} /\ t \in Connectors  BY <1>1, <1>3 DEF ConnectFits
  <2>10. /\ \A g \in Handles : client[g].phase = "open" => g = z
         /\ \A g \in Handles : g # z => client'[g] = client[g]
         /\ client'[z].phase = "joining"
    <3>1. \A u \in ZkCallers : user[u].pc \in {"finalize", "assign"} => u = t
      BY <1>4 DEF Writing
    <3>2. \A g \in Handles : g # 0  BY ZkParts
    <3>3. \A g \in Handles : client[g].phase = "open" => g = z
      BY <1>4, <3>1, <3>2, ZkParts DEF PhasesFit, z
    <3> QED  BY <2>2, <2>4, <2>7, <3>3
  <2>11. ZkTypes'  BY <1>1, <2>1, <2>6, <2>7, <2>8, ZkParts DEF ZkTypes
  <2>12. LockFits'
    <3>1. \A u \in ZkCallers : /\ user'[u].pc = "calling" <=> user[u].pc = "calling"
                               /\ user'[u].pc \in Writing <=> user[u].pc \in Writing
      BY <1>1, <2>5, <2>8 DEF Writing
    <3> QED  BY <1>1, <3>1, ZkParts DEF LockFits
  <2>13. ConnectsFit'
    <3> SUFFICES ASSUME NEW u \in ZkCallers PROVE ConnectFits(u)'  BY DEF ConnectsFit
    <3>1. CASE u = t  BY <1>1, <1>4, <2>5, <2>8, <2>9, <3>1 DEF ConnectFits
    <3>2. CASE u # t
      <4>1. user'[u] = user[u] /\ ConnectFits(u) /\ user[u].pc \notin Writing
        BY <1>4, <2>8, <3>2, UserFacts
      <4>2. \A g \in Handles : client[g].phase # "open" => client'[g].phase # "open"
        BY <2>10
      <4>3. user[u].pc = "closing" /\ user[u].zhandle # 0 => user[u].zhandle \in Handles
        BY <4>1, ZkParts DEF ConnectFits
      <4> QED  BY <1>1, <2>7, <4>1, <4>2, <4>3 DEF ConnectFits, Writing
    <3> QED  BY <3>1, <3>2
  <2>14. PhasesFit'
    <3>1. \A u \in ZkCallers : user[u].pc = "closing" => user'[u] = user[u]  BY <1>1, <2>8
    <3>2. \A g \in Handles : client'[g].phase # "open"  BY <2>10
    <3>3. ASSUME NEW g \in Handles, client'[g].phase \in {"joining", "draining"}
          PROVE  \/ f.pc = "close" /\ f.zhandle = g
                 \/ \E u \in ZkCallers : user'[u].pc = "closing" /\ user'[u].zhandle = g
      BY <1>5, <2>6, <2>10, <3>1, <3>3, ZkParts DEF PhasesFit
    <3> QED  BY <1>1, <1>4, <2>1, <2>7, <3>2, <3>3 DEF PhasesFit
  <2>15. FinalizeFits'
    <3>1. \A y \in user[t].ctxs : y[1] = z \/ (y[1] \in Handles /\ client'[y[1]].phase = "closed")
      <4>1. \A y \in user[t].ctxs : y[1] = z \/ (y[1] \in Handles /\ client[y[1]].phase = "closed")
        BY <1>1, <1>3, <1>5 DEF ConnectFits, Gone, z
      <4> QED  BY <2>10, <4>1
    <3> QED  BY <2>1, <2>2, <2>6, <2>7, <2>10, <3>1 DEF FinalizeFits
  <2>16. ClientsFit'
    <3> SUFFICES ASSUME NEW g \in Handles PROVE RecordFits(client'[g], Given(g)')
      BY <2>7 DEF ClientsFit
    <3>1. RecordFits(client[g], Given(g)) /\ Given(g)' = Given(g)
      BY <1>1, LibraryFacts DEF Given
    <3>2. RecordFits(c, Given(z))  BY <2>3, <2>4 DEF RecordFits
    <3> QED  BY <2>7, <3>1, <3>2
  <2>17. CallsFit'
    <3>1. \A u \in ZkCallers : user'[u].pc # "calling"  BY <1>4, <2>5, <2>8
    <3> QED  BY <3>1 DEF CallsFit
  <2>18. NoStaleContexts'
    <3>1. \A y \in context_pool_ : y[1] = zhandle_ \/ y \in user[t].ctxs
      BY <1>4, <1>5, ZkParts DEF NoStaleContexts, Writing
    <3> QED  BY <1>1, <2>1, <2>6, <3>1 DEF NoStaleContexts
  <2>19. KeptAlive'
    <3> SUFFICES ASSUME ~early, NEW g \in Handles, client'[g].phase # "closed",
                        NEW y \in Given(g), Holds(client'[g], y)
                 PROVE  Alive(y)'
      BY <1>1, <2>7 DEF KeptAlive, Given
    <3>1. Holds(client[g], y) /\ client[g].phase # "closed"
      BY <2>2, <2>4, <2>7 DEF Holds
    <3>2. Alive(y)  BY <3>1, ZkParts DEF KeptAlive
    <3> QED  BY <1>1, <2>8, <2>9, <3>2 DEF Alive
  <2>20. LifeFits'  BY <1>2, <2>1 DEF LifeFits
  <2>21. NoEarlyCallback'
    <3>1. \A u \in ZkCallers : user'[u].pc # "assign"
      BY <1>4, <2>5, <2>8 DEF Writing
    <3> QED  BY <3>1 DEF NoEarlyCallback
  <2> QED  BY <2>11, <2>12, <2>13, <2>14, <2>15, <2>16, <2>17, <2>18, <2>19, <2>20, <2>21
              DEF ZkInv, LockInv, ContextInv
<1>6. CASE finalize_thread_.pc # "none"
  <2>1. /\ life' = [life EXCEPT !.state = "terminated"]
        /\ UNCHANGED <<finalize_thread_, client, user>>
    BY <1>6 DEF StartFinalize
  <2>2. life' \in LifeType /\ life'.state = "terminated"  BY <2>1, ZkParts DEF ZkTypes, LifeType
  <2>3. Handles' = Handles  BY <2>1 DEF Handles
  <2>4. ZkTypes'  BY <1>1, <2>1, <2>2, <2>3, ZkParts DEF ZkTypes
  <2>5. LockFits' /\ NoStaleContexts'  BY <1>1, <2>1, ZkParts DEF LockFits, NoStaleContexts
  <2>6. ConnectsFit'  BY <1>1, <2>1, <2>3, ZkParts DEF ConnectsFit, ConnectFits, Gone
  <2>7. PhasesFit'  BY <1>1, <2>1, <2>3, ZkParts DEF PhasesFit
  <2>8. FinalizeFits'  BY <2>1, <2>3, ZkParts DEF FinalizeFits
  <2>9. ClientsFit'  BY <1>1, <2>1, <2>3, ZkParts DEF ClientsFit, Given
  <2>10. CallsFit'  BY <1>1, <2>1, ZkParts DEF CallsFit, CallFits, Given
  <2>11. KeptAlive'  BY <1>1, <2>1, <2>3, ZkParts DEF KeptAlive, Given, Alive
  <2>12. LifeFits' /\ NoEarlyCallback'  BY <2>1, <2>2, ZkParts DEF LifeFits, NoEarlyCallback
  <2> QED  BY <2>4, <2>5, <2>6, <2>7, <2>8, <2>9, <2>10, <2>11, <2>12
              DEF ZkInv, LockInv, ContextInv
<1> QED  BY <1>5, <1>6

\* zookeeper_init adds a handle that only this Connect knows.
LEMMA ConnectInitKeeps ==
  ASSUME ZkInv, NEW t \in ZkCallers, ConnectInit(t)
  PROVE  ZkInv'
<1> DEFINE c == [state |-> "zero", phase |-> "open", pending |-> {}, watching |-> {},
                 thread |-> "idle", ctx |-> {}]
           z == Len(client) + 1
           x == [user[t] EXCEPT !.pc = "assign", !.zhandle = z]
<1>1. /\ user[t].pc = "init" /\ client' = Append(client, c) /\ user' = [user EXCEPT ![t] = x]
      /\ UNCHANGED <<zhandle_, zhandle_lock_, context_pool_, context_id_count_,
                     finalize_thread_mutex_, finalize_thread_, early, life>>
  BY DEF ConnectInit
<1>2. life.state \notin {"destructor", "destroyed"}  BY <1>1, BusyIsAlone
<1>3. user[t] \in UserType /\ ConnectFits(t) /\ user[t].pc \in Writing
  BY <1>1, UserFacts DEF Writing
<1>4. /\ zhandle_ = 0
      /\ \A u \in ZkCallers : user[u].pc # "calling" /\ (u # t => user[u].pc \notin Writing)
  BY <1>3, OneInside
<1>5. /\ c \in ClientType /\ c.phase = "open" /\ c.pending = {} /\ c.watching = {} /\ c.ctx = {}
      /\ c.thread = "idle"
  BY DEF ClientType
<1>6. z \in Nat /\ z \notin Handles /\ z # 0  BY ZkParts
<1>7. x \in UserType /\ x.pc = "assign" /\ x.zhandle = z /\ x.old_pool = user[t].old_pool
  BY <1>3, <1>6 DEF UserType, Writing
<1> HIDE DEF c, x
<1>8. /\ client' \in Seq(ClientType) /\ Len(client') = z /\ Handles' = Handles \cup {z}
      /\ client'[z] = c /\ \A g \in Handles : client'[g] = client[g]
  <2>1. client \in Seq(ClientType) /\ Len(client) \in Nat /\ Handles = 1..Len(client)
    BY ZkParts DEF ZkTypes
  <2>2. /\ client' \in Seq(ClientType) /\ Len(client') = Len(client) + 1
        /\ client'[Len(client) + 1] = c
        /\ \A g \in 1..Len(client) : client'[g] = client[g]
    BY <1>1, <1>5, <2>1
  <2>3. Handles' = 1..Len(client')  BY <2>2 DEF Handles
  <2> QED  BY <2>1, <2>2, <2>3
<1> HIDE DEF z
<1>9. /\ user' \in [ZkCallers -> UserType] /\ user'[t] = x
      /\ \A u \in ZkCallers : u # t => user'[u] = user[u]
  BY <1>1, <1>7, ZkParts, UserWrite
<1>10. user[t].old_pool = {} /\ t \in Connectors  BY <1>1, <1>3 DEF ConnectFits
<1>11. ZkTypes'
  <2>1. zhandle_' \in 0..Len(client')  BY <1>1, <1>4, <1>6, <1>8
  <2>2. context_pool_' \subseteq (Handles' \X (1..context_id_count_'))
    BY <1>1, <1>8, ZkParts DEF ZkTypes
  <2> QED  BY <1>1, <1>8, <1>9, <2>1, <2>2, ZkParts DEF ZkTypes
<1>12. LockFits'
  <2>1. \A u \in ZkCallers : /\ user'[u].pc = "calling" <=> user[u].pc = "calling"
                             /\ user'[u].pc \in Writing <=> user[u].pc \in Writing
    BY <1>1, <1>7, <1>9 DEF Writing
  <2> QED  BY <1>1, <2>1, ZkParts DEF LockFits
<1>13. ConnectsFit'
  <2> SUFFICES ASSUME NEW u \in ZkCallers PROVE ConnectFits(u)'  BY DEF ConnectsFit
  <2>1. CASE u = t  BY <1>1, <1>4, <1>5, <1>7, <1>8, <1>9, <1>10, <2>1 DEF ConnectFits
  <2>2. CASE u # t
    <3>1. user'[u] = user[u] /\ ConnectFits(u) /\ user[u].pc \notin Writing
      BY <1>4, <1>9, <2>2, UserFacts
    <3>2. user[u].pc = "closing" /\ user[u].zhandle # 0 => user[u].zhandle \in Handles
      BY <3>1, ZkParts DEF ConnectFits
    <3>3. user[u].pc = "closing" => user[u].zhandle \in 0..Len(client')
      <4>1. Handles' = 1..Len(client') /\ Len(client') \in Nat  BY <1>6, <1>8 DEF Handles
      <4> QED  BY <1>8, <3>2, <4>1
    <3> QED  BY <1>1, <1>8, <3>1, <3>2, <3>3 DEF ConnectFits, Writing
  <2> QED  BY <2>1, <2>2
<1>14. PhasesFit'
  <2>1. \A u \in ZkCallers : user[u].pc = "closing" => user'[u] = user[u]  BY <1>1, <1>9
  <2>2. \A g \in Handles : client[g].phase # "open"
    <3>1. \A u \in ZkCallers : user[u].pc \notin {"finalize", "assign"}
      BY <1>1, <1>4 DEF Writing
    <3>2. \A g \in Handles : g # 0  BY ZkParts
    <3> QED  BY <1>4, <3>1, <3>2, ZkParts DEF PhasesFit
  <2>3. \A g \in Handles' : client'[g].phase = "open" => user'[t].pc = "assign" /\ user'[t].zhandle = g
    BY <1>7, <1>8, <1>9, <2>2
  <2>4. ASSUME NEW g \in Handles', client'[g].phase \in {"joining", "draining"}
        PROVE  \/ finalize_thread_.pc = "close" /\ finalize_thread_.zhandle = g
               \/ \E u \in ZkCallers : user'[u].pc = "closing" /\ user'[u].zhandle = g
    BY <1>5, <1>8, <2>1, <2>4, ZkParts DEF PhasesFit
  <2> QED  BY <1>1, <1>4, <2>3, <2>4 DEF PhasesFit
<1>15. FinalizeFits'  BY <1>1, <1>8, ZkParts DEF FinalizeFits
<1>16. ClientsFit'
  <2> SUFFICES ASSUME NEW g \in Handles' PROVE RecordFits(client'[g], Given(g)')
    BY DEF ClientsFit
  <2>1. RecordFits(c, Given(g)')  BY <1>5 DEF RecordFits
  <2>2. g \in Handles => RecordFits(client[g], Given(g)) /\ Given(g)' = Given(g)
    BY <1>1, LibraryFacts DEF Given
  <2> QED  BY <1>8, <2>1, <2>2
<1>17. CallsFit'
  <2>1. \A u \in ZkCallers : user'[u].pc # "calling"  BY <1>4, <1>7, <1>9
  <2> QED  BY <2>1 DEF CallsFit
<1>18. NoStaleContexts'
  <2>1. \A u \in ZkCallers : user[u].pc = "finalize" => user'[u] = user[u]  BY <1>1, <1>9
  <2> QED  BY <1>1, <2>1, ZkParts DEF NoStaleContexts
<1>19. KeptAlive'
  <2> SUFFICES ASSUME ~early, NEW g \in Handles', client'[g].phase # "closed",
                      NEW y \in Given(g), Holds(client'[g], y)
               PROVE  Alive(y)'
    BY <1>1 DEF KeptAlive, Given
  <2>1. g \in Handles /\ Holds(client[g], y) /\ client[g].phase # "closed"
    BY <1>5, <1>8 DEF Holds
  <2>2. Alive(y)  BY <2>1, ZkParts DEF KeptAlive
  <2> QED  BY <1>1, <1>9, <1>10, <2>2 DEF Alive
<1>20. LifeFits'  BY <1>1, <1>2 DEF LifeFits
<1>21. NoEarlyCallback'
  <2>1. \A u \in ZkCallers : user'[u].pc = "assign" => u = t  BY <1>4, <1>9 DEF Writing
  <2> QED  BY <1>5, <1>7, <1>8, <1>9, <2>1 DEF NoEarlyCallback
<1> QED  BY <1>11, <1>12, <1>13, <1>14, <1>15, <1>16, <1>17, <1>18, <1>19, <1>20, <1>21
            DEF ZkInv, LockInv, ContextInv

\* Connect releases the lock: with the new handle in place, or with none.
LEMMA ConnectEndsKeeps ==
  ASSUME ZkInv, NEW t \in ZkCallers, ConnectFails(t) \/ ConnectAssign(t)
  PROVE  ZkInv'
<1> DEFINE z == IF user[t].pc = "assign" THEN user[t].zhandle ELSE 0
<1>1. /\ user[t].pc \in {"init", "assign"} /\ user' = [user EXCEPT ![t] = IdleUser]
      /\ zhandle_lock_' = [zhandle_lock_ EXCEPT !.writer = NoThread]
      /\ UNCHANGED <<context_pool_, context_id_count_, finalize_thread_mutex_,
                     finalize_thread_, client, early, life>>
  BY DEF ConnectFails, ConnectAssign, Return
<1>2. life.state \notin {"destructor", "destroyed"}  BY <1>1, BusyIsAlone
<1>3. ConnectFits(t) /\ user[t].pc \in Writing  BY <1>1, UserFacts DEF Writing
<1>4. /\ zhandle_ = 0 /\ zhandle_lock_.readers = {}
      /\ \A u \in ZkCallers : user[u].pc # "calling" /\ (u # t => user[u].pc \notin Writing)
  BY <1>3, OneInside
<1>5. zhandle_' = z  BY <1>4 DEF ConnectFails, ConnectAssign
<1>6. /\ user' \in [ZkCallers -> UserType] /\ user'[t] = IdleUser
      /\ \A u \in ZkCallers : u # t => user'[u] = user[u]
  BY <1>1, IdleFacts, ZkParts, UserWrite
<1>7. user'[t].pc = "idle" /\ user'[t].old_pool = {}  BY <1>6, IdleFacts
<1>8. /\ z # 0 => z \in Handles /\ client[z].phase = "open"
      /\ z \in 0..Len(client)
  BY <1>3, ZkParts DEF ConnectFits
<1>9. \A g \in Handles : client[g].phase = "open" => g = z
  <2>1. \A u \in ZkCallers : user[u].pc \in {"finalize", "assign"} => u = t /\ user[t].pc = "assign"
    BY <1>1, <1>4 DEF Writing
  <2>2. \A g \in Handles : g # 0  BY ZkParts
  <2> QED  BY <1>4, <2>1, <2>2, ZkParts DEF PhasesFit
<1> HIDE DEF z
<1>10. /\ zhandle_lock_' \in [writer : ZkCallers \cup {NoThread}, readers : SUBSET ZkCallers]
       /\ zhandle_lock_'.writer = NoThread /\ zhandle_lock_'.readers = {}
  BY <1>1, <1>4, ZkParts DEF ZkTypes
<1>11. \A u \in ZkCallers : user'[u].pc # "calling" /\ user'[u].pc \notin Writing
  BY <1>4, <1>6, <1>7 DEF Writing
<1>12. Handles' = Handles  BY <1>1 DEF Handles
<1>13. ZkTypes'  BY <1>1, <1>5, <1>6, <1>8, <1>10, <1>12, ZkParts DEF ZkTypes
<1>14. LockFits'  BY <1>10, <1>11, ZkAssumption DEF LockFits
<1>15. user[t].old_pool = {}  BY <1>1, <1>3 DEF ConnectFits
<1>16. ConnectsFit'
  <2> SUFFICES ASSUME NEW u \in ZkCallers PROVE ConnectFits(u)'  BY DEF ConnectsFit
  <2>1. CASE u = t  BY <1>7, <2>1 DEF ConnectFits, Writing
  <2>2. CASE u # t
    <3>1. user'[u] = user[u] /\ ConnectFits(u) /\ user[u].pc \notin Writing
      BY <1>4, <1>6, <2>2, UserFacts
    <3> QED  BY <1>1, <3>1 DEF ConnectFits, Writing
  <2> QED  BY <2>1, <2>2
<1>17. PhasesFit'
  <2>1. \A u \in ZkCallers : user[u].pc = "closing" => user'[u] = user[u]  BY <1>1, <1>6
  <2> QED  BY <1>1, <1>5, <1>8, <1>9, <1>12, <2>1, ZkParts DEF PhasesFit
<1>18. FinalizeFits'  BY <1>1, <1>12, ZkParts DEF FinalizeFits
<1>19. ClientsFit'  BY <1>1, <1>12, ZkParts DEF ClientsFit, Given
<1>20. CallsFit'  BY <1>11 DEF CallsFit
<1>21. NoStaleContexts'
  <2>1. \A y \in context_pool_ : y[1] # 0  BY ZkParts DEF ZkTypes
  <2>2. \A u \in ZkCallers : user[u].pc # "finalize"  BY <1>1, <1>4 DEF Writing
  <2> QED  BY <1>1, <1>4, <2>1, <2>2, ZkParts DEF NoStaleContexts
<1>22. KeptAlive'
  <2>1. \A y : Alive(y) => Alive(y)'  BY <1>1, <1>6, <1>15 DEF Alive
  <2> QED  BY <1>1, <1>12, <2>1, ZkParts DEF KeptAlive, Given
<1>23. LifeFits'  BY <1>1, <1>2 DEF LifeFits
<1>24. NoEarlyCallback'  BY <1>11 DEF NoEarlyCallback, Writing
<1> QED  BY <1>13, <1>14, <1>16, <1>17, <1>18, <1>19, <1>20, <1>21, <1>22, <1>23, <1>24
            DEF ZkInv, LockInv, ContextInv

-----------------------------------------------------------------------------
\* finalize_thread_ erases contexts of closed handles, which nobody uses.
LEMMA FinalizeStepKeeps ==
  ASSUME ZkInv, FinalizeStep
  PROVE  ZkInv'
<1>1. /\ finalize_thread_.pc \in {"close", "erase"}
      /\ finalize_thread_.pc = "close" => client[finalize_thread_.zhandle].phase = "closed"
      /\ UNCHANGED <<zhandle_, zhandle_lock_, context_id_count_, finalize_thread_mutex_,
                     user, client, early, life>>
  BY DEF FinalizeStep, FinalizeClosed, FinalizeErase
<1>2. /\ finalize_thread_.pc = "close" =>
           finalize_thread_' = [finalize_thread_ EXCEPT !.pc = "erase"] /\ context_pool_' = context_pool_
      /\ finalize_thread_.pc = "erase" =>
           /\ finalize_thread_' = [finalize_thread_ EXCEPT !.pc = "done"]
           /\ context_pool_' = context_pool_ \ finalize_thread_.contexts
  BY DEF FinalizeStep, FinalizeClosed, FinalizeErase
<1>3. /\ finalize_thread_' \in [pc : {"none", "close", "erase", "done"}, zhandle : Nat,
                               contexts : SUBSET Ctxs]
      /\ finalize_thread_'.contexts = finalize_thread_.contexts
      /\ finalize_thread_.pc = "close" => finalize_thread_'.pc = "erase"
      /\ finalize_thread_.pc = "erase" => finalize_thread_'.pc = "done"
  BY <1>1, <1>2, ZkParts DEF ZkTypes
<1>4. \A y \in finalize_thread_.contexts : y[1] \in Handles /\ client[y[1]].phase = "closed"
  BY <1>1, ZkParts DEF FinalizeFits
<1>5. context_pool_' \subseteq context_pool_
  BY <1>1, <1>2
<1>6. \A y \in context_pool_ \ context_pool_' : y[1] \in Handles /\ client[y[1]].phase = "closed"
  BY <1>1, <1>2, <1>4
<1>7. Handles' = Handles  BY <1>1 DEF Handles
<1>8. ZkTypes'  BY <1>1, <1>3, <1>5, <1>7, ZkParts DEF ZkTypes
<1>9. LockFits'  BY <1>1, ZkParts DEF LockFits
<1>10. ConnectsFit'
  <2>1. \A h \in Handles : Gone(h) => Gone(h)'  BY <1>1 DEF Gone
  <2> QED  BY <1>1, <1>7, <2>1, ZkParts DEF ConnectsFit, ConnectFits
<1>11. PhasesFit'  BY <1>1, <1>7, ZkParts DEF PhasesFit
<1>12. FinalizeFits'  BY <1>1, <1>3, <1>4, <1>7 DEF FinalizeFits
<1>13. ClientsFit'  BY <1>1, <1>7, ZkParts DEF ClientsFit, Given
<1>14. CallsFit'
  <2>1. ASSUME NEW t \in ZkCallers, user[t].pc = "calling" PROVE CallFits(t)'
    <3>1. CallFits(t)  BY <2>1, ZkParts DEF CallsFit
    <3>2. client[zhandle_].phase = "open"  BY <3>1, ZkParts DEF CallFits, PhasesFit
    <3>3. \A y \in user[t].ctxs : y[1] = zhandle_ /\ y \in context_pool_
      BY <3>1 DEF CallFits, Given
    <3>4. user[t].ctxs \subseteq context_pool_'  BY <1>6, <3>2, <3>3
    <3> QED  BY <1>1, <3>1, <3>4 DEF CallFits, Given
  <2> QED  BY <1>1, <2>1, ZkParts DEF CallsFit
<1>15. NoStaleContexts'  BY <1>1, <1>2, <1>3, ZkParts DEF NoStaleContexts
<1>16. KeptAlive'
  <2> SUFFICES ASSUME ~early, NEW h \in Handles, client[h].phase # "closed",
                      NEW y \in Given(h), Holds(client[h], y)
               PROVE  Alive(y)'
    BY <1>1, <1>7 DEF KeptAlive, Given
  <2>1. Alive(y)  BY ZkParts DEF KeptAlive
  <2>2. y[1] = h  BY DEF Given
  <2> QED  BY <1>1, <1>6, <2>1, <2>2 DEF Alive
<1>17. LifeFits'
  <2>1. life.state # "destroyed"  BY <1>1, ZkParts DEF LifeFits
  <2>2. life.state = "destructor" =>
          \E t \in ZkCallers : /\ \A u \in ZkCallers : u # t => user[u].pc = "idle"
                               /\ user[t].pc \in {"mutex", "join"}
    BY <1>1, ZkParts DEF LifeFits
  <2> QED  BY <1>1, <2>1, <2>2 DEF LifeFits
<1>18. NoEarlyCallback'  BY <1>1, ZkParts DEF NoEarlyCallback
<1> QED  BY <1>8, <1>9, <1>10, <1>11, <1>12, <1>13, <1>14, <1>15, <1>16, <1>17, <1>18
            DEF ZkInv, LockInv, ContextInv

\* SetWatcher, and a step that changes nothing.
LEMMA SameKeeps ==
  ASSUME ZkInv, UNCHANGED <<zhandle_, zhandle_lock_, context_pool_, context_id_count_,
                            finalize_thread_mutex_, finalize_thread_, user, client, early, life>>
  PROVE  ZkInv'
<1>1. Handles' = Handles  BY DEF Handles
<1>2. ZkTypes'  BY <1>1, ZkParts DEF ZkTypes
<1>3. LockFits' /\ NoStaleContexts'  BY ZkParts DEF LockFits, NoStaleContexts
<1>4. ConnectsFit'  BY <1>1, ZkParts DEF ConnectsFit, ConnectFits, Gone
<1>5. PhasesFit'  BY <1>1, ZkParts DEF PhasesFit
<1>6. FinalizeFits'  BY <1>1, ZkParts DEF FinalizeFits
<1>7. ClientsFit'  BY <1>1, ZkParts DEF ClientsFit, Given
<1>8. CallsFit'  BY ZkParts DEF CallsFit, CallFits, Given
<1>9. KeptAlive'  BY <1>1, ZkParts DEF KeptAlive, Given, Alive
<1>10. LifeFits' /\ NoEarlyCallback'  BY ZkParts DEF LifeFits, NoEarlyCallback
<1> QED  BY <1>2, <1>3, <1>4, <1>5, <1>6, <1>7, <1>8, <1>9, <1>10
            DEF ZkInv, LockInv, ContextInv

-----------------------------------------------------------------------------
\* Requests.

\* The contexts that a request on handle z makes after n others.
FreshComplete(z, n, async) == IF async THEN {<<z, n + 1>>} ELSE {}
FreshWatcher(z, n, async, watch) ==
  IF watch THEN {<<z, n + 1 + Cardinality(FreshComplete(z, n, async))>>} ELSE {}
Fresh(z, n, async, watch) == FreshComplete(z, n, async) \cup FreshWatcher(z, n, async, watch)

\* AddContext: the ids are new, and there are as many as the counter goes up.
LEMMA FreshContexts ==
  ASSUME NEW n \in Nat, NEW z, NEW async \in BOOLEAN, NEW watch \in BOOLEAN
  PROVE  LET S == Fresh(z, n, async, watch)
         IN  /\ Cardinality(S) \in Nat
             /\ S \subseteq {z} \X (n + 1 .. n + Cardinality(S))
             /\ FreshComplete(z, n, async) \cap FreshWatcher(z, n, async, watch) = {}
<1> DEFINE complete == FreshComplete(z, n, async)
           watcher == FreshWatcher(z, n, async, watch)
<1>0. /\ complete = IF async THEN {<<z, n + 1>>} ELSE {}
      /\ watcher = IF watch THEN {<<z, n + 1 + Cardinality(complete)>>} ELSE {}
  BY DEF FreshComplete, FreshWatcher
<1> SUFFICES
      /\ Cardinality(complete \cup watcher) \in Nat
      /\ complete \cup watcher \subseteq {z} \X (n + 1 .. n + Cardinality(complete \cup watcher))
      /\ complete \cap watcher = {}
  BY DEF Fresh
<1> HIDE DEF complete, watcher
<1>1. IsFiniteSet({}) /\ Cardinality({}) = 0  BY FS_EmptySet
<1>2. \A e : IsFiniteSet({e}) /\ Cardinality({e}) = 1  BY FS_Singleton
<1>3. CASE async /\ watch
  <2> DEFINE a == <<z, n + 1>>
             b == <<z, n + 2>>
  <2>1. complete = {a} /\ Cardinality(complete) = 1  BY <1>0, <1>2, <1>3
  <2>2. watcher = {b}  BY <1>0, <1>3, <2>1
  <2>3. a # b  OBVIOUS
  <2>4. complete \cup watcher = {a} \cup {b} /\ complete \cap watcher = {}  BY <2>1, <2>2, <2>3
  <2>5. a \in {z} \X (n + 1 .. n + 2) /\ b \in {z} \X (n + 1 .. n + 2)  OBVIOUS
  <2> HIDE DEF a, b
  <2>6. Cardinality({a} \cup {b}) = 2
    <3>1. b \notin {a}  BY <2>3
    <3>2. Cardinality({a} \cup {b}) = Cardinality({a}) + 1  BY <1>2, <3>1, FS_AddElement
    <3>3. Cardinality({a}) = 1  BY <1>2
    <3> QED  BY <3>2, <3>3
  <2>7. Cardinality(complete \cup watcher) = 2  BY <2>4, <2>6
  <2>8. complete \cup watcher \subseteq {z} \X (n + 1 .. n + 2)  BY <2>4, <2>5
  <2>9. complete \cup watcher \subseteq {z} \X (n + 1 .. n + Cardinality(complete \cup watcher))
    BY <2>7, <2>8, Zenon
  <2>10. Cardinality(complete \cup watcher) \in Nat  BY <2>7
  <2> QED  BY <2>4, <2>9, <2>10
<1>4. CASE async /\ ~watch
  <2>1. complete \cup watcher = {<<z, n + 1>>} /\ complete \cap watcher = {}  BY <1>0, <1>4
  <2>2. complete \cup watcher \subseteq {z} \X (n + 1 .. n + 1)  BY <2>1
  <2>3. Cardinality(complete \cup watcher) = 1  BY <1>2, <2>1
  <2> QED  BY <2>1, <2>2, <2>3
<1>5. CASE ~async /\ watch
  <2>1. complete = {} /\ Cardinality(complete) = 0  BY <1>0, <1>1, <1>5
  <2>2. watcher = {<<z, n + 1>>}  BY <1>0, <1>5, <2>1
  <2>3. complete \cup watcher = {<<z, n + 1>>} /\ complete \cap watcher = {}  BY <2>1, <2>2
  <2>4. complete \cup watcher \subseteq {z} \X (n + 1 .. n + 1)  BY <2>3
  <2>5. Cardinality(complete \cup watcher) = 1  BY <1>2, <2>3
  <2> QED  BY <2>3, <2>4, <2>5
<1>6. CASE ~async /\ ~watch  BY <1>0, <1>1, <1>6
<1> QED  BY <1>3, <1>4, <1>5, <1>6

\* Later ids are still among those given.
LEMMA GivenGrows ==
  ASSUME NEW c, NEW given, NEW more, given \subseteq more, RecordFits(c, given)
  PROVE  RecordFits(c, more)
BY DEF RecordFits

\* A request begins: its contexts are in the pool before the library sees them.
LEMMA RequestKeeps ==
  ASSUME ZkInv, NEW t \in ZkCallers, NEW async \in BOOLEAN, NEW watch \in BOOLEAN,
         NEW onNoNode \in BOOLEAN, Request(t, async, watch, onNoNode)
  PROVE  ZkInv'
<1> DEFINE n == context_id_count_
           complete == FreshComplete(zhandle_, n, async)
           watcher == FreshWatcher(zhandle_, n, async, watch)
           S == Fresh(zhandle_, n, async, watch)
           k == Cardinality(S)
           R == [async |-> async, complete |-> complete, watcher |-> watcher, onNoNode |-> onNoNode]
           x == [IdleUser EXCEPT !.pc = "calling", !.zhandle = zhandle_, !.ctxs = S, !.request = R]
<1>1. /\ life.state = "alive" /\ user[t].pc = "idle" /\ zhandle_lock_.writer = NoThread
      /\ zhandle_ # 0 /\ n + k <= MaxContexts /\ context_id_count_' = n + k
      /\ context_pool_' = context_pool_ \cup S
      /\ zhandle_lock_' = [zhandle_lock_ EXCEPT !.readers = zhandle_lock_.readers \cup {t}]
      /\ user' = [user EXCEPT ![t] = x]
      /\ UNCHANGED <<zhandle_, finalize_thread_mutex_, finalize_thread_, client, early, life>>
  BY DEF Request, Running, Unlocked, AddContexts, Fresh, FreshComplete, FreshWatcher
<1>2. n \in Nat /\ zhandle_ \in Nat /\ zhandle_ \in Handles
  BY <1>1, ZkParts, ZkAssumption DEF ZkTypes
<1>3. k \in Nat /\ S \subseteq {zhandle_} \X (n + 1 .. n + k) /\ complete \cap watcher = {}
  <2> HIDE DEF n
  <2> QED  BY <1>2, FreshContexts
<1>4. complete \subseteq S /\ watcher \subseteq S /\ S = complete \cup watcher  BY DEF Fresh
<1> HIDE DEF complete, watcher, S, k
<1>5. /\ S \subseteq Ctxs /\ S \subseteq Handles \X (1 .. n + k) /\ S \subseteq {zhandle_} \X (1 .. n + k)
      /\ \A y \in S : y[1] = zhandle_ /\ y[2] > n
  BY <1>2, <1>3 DEF Ctxs
<1>6. complete \subseteq Ctxs /\ watcher \subseteq Ctxs  BY <1>4, <1>5
<1>7. R \in RequestType /\ R.complete = complete /\ R.watcher = watcher /\ CtxsOf(R) = S
  BY <1>4, <1>6 DEF RequestType, CtxsOf
<1> HIDE DEF R
<1>8. /\ x \in UserType /\ x.pc = "calling" /\ x.zhandle = zhandle_ /\ x.ctxs = S /\ x.request = R
      /\ x.old_pool = {}
  BY <1>2, <1>5, <1>7 DEF IdleUser, UserType
<1> HIDE DEF x
<1>9. /\ user' \in [ZkCallers -> UserType] /\ user'[t] = x
      /\ \A u \in ZkCallers : u # t => user'[u] = user[u]
  BY <1>1, <1>8, ZkParts, UserWrite
<1>10. Handles' = Handles  BY <1>1 DEF Handles
<1>11. \A h : Given(h) \subseteq Given(h)' /\ Given(h)' = {h} \X (1 .. n + k)
  BY <1>1, <1>2, <1>3 DEF Given
<1>12. /\ zhandle_lock_' \in [writer : ZkCallers \cup {NoThread}, readers : SUBSET ZkCallers]
       /\ zhandle_lock_'.writer = NoThread
       /\ zhandle_lock_'.readers = zhandle_lock_.readers \cup {t}
  BY <1>1, ZkParts DEF ZkTypes
<1>13. ZkTypes'
  <2>1. context_id_count_' \in 0..MaxContexts  BY <1>1, <1>2, <1>3
  <2>2. context_pool_' \subseteq (Handles' \X (1..context_id_count_'))
    <3>1. context_pool_ \subseteq (Handles \X (1 .. n))  BY ZkParts DEF ZkTypes
    <3>2. 1 .. n \subseteq 1 .. (n + k)  BY <1>2, <1>3
    <3>3. context_pool_ \subseteq (Handles \X (1 .. n + k))  BY <3>1, <3>2
    <3> QED  BY <1>1, <1>5, <1>10, <3>3
  <2> QED  BY <1>1, <1>9, <1>10, <1>12, <2>1, <2>2, ZkParts DEF ZkTypes
<1>14. LockFits'
  <2>1. \A u \in ZkCallers : user'[u].pc = "calling" <=> user[u].pc = "calling" \/ u = t
    BY <1>8, <1>9
  <2>2. \A u \in ZkCallers : user'[u].pc \in Writing <=> user[u].pc \in Writing
    BY <1>1, <1>8, <1>9 DEF Writing
  <2>3. \A u \in ZkCallers : user[u].pc \notin Writing  BY <1>1, ZkParts, ZkAssumption DEF LockFits
  <2> QED  BY <1>12, <2>1, <2>2, <2>3, ZkParts, ZkAssumption DEF LockFits
<1>15. ConnectsFit'
  <2> SUFFICES ASSUME NEW u \in ZkCallers PROVE ConnectFits(u)'  BY DEF ConnectsFit
  <2>1. CASE u = t  BY <1>8, <1>9, <2>1 DEF ConnectFits, Writing
  <2>2. CASE u # t  BY <1>1, <1>9, <1>10, <2>2, UserFacts DEF ConnectFits, Gone
  <2> QED  BY <2>1, <2>2
<1>16. \A u \in ZkCallers : user[u].pc \in {"finalize", "assign", "closing"} => user'[u] = user[u]
  BY <1>1, <1>9
<1>17. PhasesFit'  BY <1>1, <1>10, <1>16, ZkParts DEF PhasesFit
<1>18. FinalizeFits'  BY <1>1, <1>10, ZkParts DEF FinalizeFits
<1>19. ClientsFit'
  <2> SUFFICES ASSUME NEW g \in Handles PROVE RecordFits(client[g], Given(g)')
    BY <1>1, <1>10 DEF ClientsFit
  <2> QED  BY <1>11, LibraryFacts, GivenGrows
<1>20. CallsFit'
  <2>1. CallFits(t)'
    <3>1. \A y \in S : ~Holds(client[zhandle_], y)
      <4> SUFFICES ASSUME NEW y \in S, Holds(client[zhandle_], y) PROVE FALSE  OBVIOUS
      <4>1. y \in Given(zhandle_)  BY <1>2, LibraryFacts, HoldsGiven
      <4>2. y[2] \in 1 .. n /\ y[2] > n  BY <1>5, <4>1 DEF Given
      <4> QED  BY <1>2, <4>2
    <3> QED  BY <1>1, <1>3, <1>5, <1>7, <1>8, <1>9, <1>11, <3>1 DEF CallFits
  <2>2. ASSUME NEW u \in ZkCallers, u # t, user'[u].pc = "calling"
        PROVE  CallFits(u)' /\ user'[u].ctxs \cap S = {}
    <3>1. user'[u] = user[u]  BY <1>9, <2>2
    <3>2. CallFits(u)  BY <2>2, <3>1, ZkParts DEF CallsFit
    <3>3. \A y \in user[u].ctxs : y[2] \in 1 .. n  BY <3>2 DEF CallFits, Given
    <3>4. user[u].ctxs \cap S = {}  BY <1>2, <1>5, <3>3
    <3> QED  BY <1>1, <1>11, <3>1, <3>2, <3>4 DEF CallFits
  <2>3. ASSUME NEW u \in ZkCallers, NEW v \in ZkCallers, u # v,
               user'[u].pc = "calling", user'[v].pc = "calling"
        PROVE  user'[u].ctxs \cap user'[v].ctxs = {}
    <3>1. CASE u = t  BY <1>8, <1>9, <2>2, <2>3, <3>1
    <3>2. CASE v = t  BY <1>8, <1>9, <2>2, <2>3, <3>2
    <3>3. CASE u # t /\ v # t  BY <1>9, <2>3, <3>3, ZkParts DEF CallsFit
    <3> QED  BY <3>1, <3>2, <3>3
  <2> QED  BY <2>1, <2>2, <2>3 DEF CallsFit
<1>21. NoStaleContexts'  BY <1>1, <1>5, <1>16, ZkParts DEF NoStaleContexts
<1>22. KeptAlive'
  <2> SUFFICES ASSUME ~early, NEW g \in Handles, client[g].phase # "closed", NEW y,
                      Holds(client[g], y)
               PROVE  Alive(y)'
    BY <1>1, <1>10 DEF KeptAlive
  <2>1. y \in Given(g)  BY LibraryFacts, HoldsGiven
  <2>2. Alive(y)  BY <2>1, ZkParts DEF KeptAlive
  <2>3. user[t].old_pool = {}  BY <1>1, UserFacts DEF ConnectFits
  <2> QED  BY <1>1, <1>9, <2>2, <2>3 DEF Alive
<1>23. LifeFits'  BY <1>1 DEF LifeFits
<1>24. NoEarlyCallback'
  <2>1. \A u \in ZkCallers : user'[u].pc = "assign" => user'[u] = user[u]  BY <1>8, <1>9
  <2> QED  BY <1>1, <2>1, ZkParts DEF NoEarlyCallback
<1> QED  BY <1>13, <1>14, <1>15, <1>17, <1>18, <1>19, <1>20, <1>21, <1>22, <1>23, <1>24
            DEF ZkInv, LockInv, ContextInv

\* A request returns: the library has its contexts, or RemoveContext takes
\* them out of the pool.
LEMMA RequestReturnsKeeps ==
  ASSUME ZkInv, NEW t \in ZkCallers, NEW rc, RequestReturns(t, rc)
  PROVE  ZkInv'
<1> DEFINE R == user[t].request
           C == user[t].ctxs
           c == client[zhandle_]
           P == IF R.async /\ rc = "ZOK" THEN c.pending \cup {R} ELSE c.pending
           W == IF ~R.async /\ (rc = "ZOK" \/ (R.onNoNode /\ rc = "ZNONODE"))
                THEN c.watching \cup R.watcher ELSE c.watching
           x == [c EXCEPT !.pending = P, !.watching = W]
<1>1. /\ user[t].pc = "calling" /\ user' = [user EXCEPT ![t] = IdleUser]
      /\ context_pool_' = IF Keeps(R, rc) THEN context_pool_ ELSE context_pool_ \ C
      /\ zhandle_lock_' = [zhandle_lock_ EXCEPT !.readers = zhandle_lock_.readers \ {t}]
      /\ UNCHANGED <<zhandle_, context_id_count_, finalize_thread_mutex_, finalize_thread_,
                     early, life>>
  BY DEF RequestReturns, Return
<1>2. life.state \notin {"destructor", "destroyed"}  BY <1>1, BusyIsAlone
<1>3. CallFits(t)  BY <1>1, ZkParts DEF CallsFit
<1>4. /\ zhandle_ \in Handles /\ user[t].zhandle = zhandle_ /\ c.phase = "open"
      /\ R \in RequestType /\ C = CtxsOf(R) /\ R.complete \cap R.watcher = {}
      /\ C \subseteq Given(zhandle_) /\ C \subseteq context_pool_ /\ \A y \in C : ~Holds(c, y)
  BY <1>3, ZkParts DEF CallFits, ZkTypes, PhasesFit
<1>5. c \in ClientType /\ RecordFits(c, Given(zhandle_))  BY <1>4, LibraryFacts
<1>6. client' = [client EXCEPT ![zhandle_] = x]
  BY <1>4, <1>5, ZkParts DEF RequestReturns, ClientType
<1>7. /\ P \subseteq RequestType /\ W \subseteq Ctxs
      /\ \/ P = c.pending /\ W = c.watching
         \/ P = c.pending \cup {R} /\ W = c.watching /\ Keeps(R, rc)
         \/ P = c.pending /\ W = c.watching \cup R.watcher /\ Keeps(R, rc)
  BY <1>4, <1>5 DEF ClientType, RequestType, Keeps
<1> HIDE DEF P, W
<1>8. /\ x \in ClientType /\ x.pending = P /\ x.watching = W /\ x.ctx = c.ctx
      /\ x.thread = c.thread /\ x.phase = "open"
  BY <1>4, <1>5, <1>7 DEF ClientType
<1> HIDE DEF x
<1>9. \A y : Holds(x, y) => Holds(c, y) \/ (y \in C /\ Keeps(R, rc))
  BY <1>4, <1>7, <1>8 DEF Holds, CtxsOf
<1>10. RecordFits(x, Given(zhandle_))
  <2>1. /\ C \cap c.watching = {} /\ C \cap c.ctx = {} /\ \A r \in c.pending : CtxsOf(r) \cap C = {}
        /\ R.watcher \subseteq C
    BY <1>4 DEF Holds, CtxsOf
  <2>2. CASE P = c.pending /\ W = c.watching  BY <1>4, <1>5, <1>8, <2>2 DEF RecordFits
  <2>3. CASE P = c.pending \cup {R} /\ W = c.watching
    BY <1>4, <1>5, <1>8, <2>1, <2>3 DEF RecordFits
  <2>4. CASE P = c.pending /\ W = c.watching \cup R.watcher
    BY <1>4, <1>5, <1>8, <2>1, <2>4 DEF RecordFits
  <2> QED  BY <1>7, <2>2, <2>3, <2>4
<1> HIDE DEF c
<1>11. /\ client' \in Seq(ClientType) /\ Len(client') = Len(client) /\ Handles' = Handles
       /\ \A g \in Handles : client'[g] = IF g = zhandle_ THEN x ELSE client[g]
  BY <1>4, <1>6, <1>8, ZkParts, ClientWrite
<1>12. /\ user' \in [ZkCallers -> UserType] /\ user'[t] = IdleUser
       /\ \A u \in ZkCallers : u # t => user'[u] = user[u]
  BY <1>1, IdleFacts, ZkParts, UserWrite
<1>13. user'[t].pc = "idle" /\ user'[t].old_pool = {}  BY <1>12, IdleFacts
<1>14. /\ context_pool_' \subseteq context_pool_
       /\ \A y \in context_pool_ \ context_pool_' : y \in C /\ ~Keeps(R, rc)
  BY <1>1
<1>15. \A g \in Handles : client'[g].phase = client[g].phase /\ client'[g].thread = client[g].thread
  BY <1>4, <1>8, <1>11 DEF c
<1>16. /\ zhandle_lock_' \in [writer : ZkCallers \cup {NoThread}, readers : SUBSET ZkCallers]
       /\ zhandle_lock_'.writer = zhandle_lock_.writer
       /\ zhandle_lock_'.readers = zhandle_lock_.readers \ {t}
  BY <1>1, ZkParts DEF ZkTypes
<1>17. ZkTypes'  BY <1>1, <1>11, <1>12, <1>14, <1>16, ZkParts DEF ZkTypes
<1>18. LockFits'
  <2>1. \A u \in ZkCallers : user'[u].pc = "calling" <=> user[u].pc = "calling" /\ u # t
    BY <1>12, <1>13
  <2>2. \A u \in ZkCallers : user'[u].pc \in Writing <=> user[u].pc \in Writing
    BY <1>1, <1>12, <1>13 DEF Writing
  <2> QED  BY <1>16, <2>1, <2>2, ZkParts DEF LockFits
<1>19. ConnectsFit'
  <2> SUFFICES ASSUME NEW u \in ZkCallers PROVE ConnectFits(u)'  BY DEF ConnectsFit
  <2>1. \A g \in Handles : Gone(g)' <=> Gone(g)  BY <1>1, <1>15 DEF Gone
  <2>2. CASE u = t  BY <1>13, <2>2 DEF ConnectFits, Writing
  <2>3. CASE u # t
    <3>1. user'[u] = user[u] /\ ConnectFits(u)  BY <1>12, <2>3, UserFacts
    <3>2. user[u].pc = "closing" /\ user[u].zhandle # 0 => user[u].zhandle \in Handles
      BY <3>1, ZkParts DEF ConnectFits
    <3> QED  BY <1>1, <1>11, <1>15, <2>1, <3>1, <3>2 DEF ConnectFits
  <2> QED  BY <2>2, <2>3
<1>20. \A u \in ZkCallers : user[u].pc \in {"finalize", "assign", "closing"} => user'[u] = user[u]
  BY <1>1, <1>12
<1>21. PhasesFit'  BY <1>1, <1>4, <1>11, <1>15, <1>20, ZkParts DEF PhasesFit
<1>22. FinalizeFits'  BY <1>1, <1>11, <1>15, ZkParts DEF FinalizeFits
<1>23. ClientsFit'
  <2> SUFFICES ASSUME NEW g \in Handles PROVE RecordFits(client'[g], Given(g)')
    BY <1>11 DEF ClientsFit
  <2>1. RecordFits(client[g], Given(g)) /\ Given(g)' = Given(g)  BY <1>1, LibraryFacts DEF Given
  <2> QED  BY <1>10, <1>11, <2>1
<1>24. CallsFit'
  <2>1. ASSUME NEW u \in ZkCallers, user'[u].pc = "calling" PROVE CallFits(u)'
    <3>1. u # t /\ user'[u] = user[u]  BY <1>12, <1>13, <2>1
    <3>2. CallFits(u) /\ user[u].ctxs \cap C = {}  BY <1>1, <2>1, <3>1, ZkParts DEF CallsFit
    <3>3. \A y \in user[u].ctxs : ~Holds(client'[zhandle_], y)
      BY <1>4, <1>9, <1>11, <3>2 DEF CallFits, c
    <3>4. user[u].ctxs \subseteq context_pool_'  BY <1>14, <3>2 DEF CallFits
    <3> QED  BY <1>1, <3>1, <3>2, <3>3, <3>4 DEF CallFits, Given
  <2>2. \A u \in ZkCallers : user'[u].pc = "calling" => user'[u] = user[u]  BY <1>12, <1>13
  <2> QED  BY <2>1, <2>2, ZkParts DEF CallsFit
<1>25. NoStaleContexts'  BY <1>1, <1>14, <1>20, ZkParts DEF NoStaleContexts
<1>26. KeptAlive'
  <2> SUFFICES ASSUME ~early, NEW g \in Handles, client'[g].phase # "closed",
                      NEW y \in Given(g), Holds(client'[g], y)
               PROVE  Alive(y)'
    BY <1>1, <1>11 DEF KeptAlive, Given
  <2>1. Holds(client[g], y) \/ (y \in C /\ Keeps(R, rc))  BY <1>9, <1>11 DEF c
  <2>2. CASE y \in C /\ Keeps(R, rc)  BY <1>1, <1>4, <2>2 DEF Alive
  <2>3. CASE Holds(client[g], y)
    <3>1. Alive(y)  BY <1>15, <2>3, ZkParts DEF KeptAlive
    <3>2. y \notin C
      <4> SUFFICES ASSUME y \in C PROVE FALSE  OBVIOUS
      <4>1. y[1] = g /\ y[1] = zhandle_  BY <1>4 DEF Given
      <4> QED  BY <1>4, <2>3, <4>1 DEF c
    <3>3. y \in context_pool_ => y \in context_pool_'  BY <1>14, <3>2
    <3>4. user[t].old_pool = {}  BY <1>1, UserFacts DEF ConnectFits
    <3> QED  BY <1>12, <3>1, <3>3, <3>4 DEF Alive
  <2> QED  BY <2>1, <2>2, <2>3
<1>27. LifeFits'  BY <1>1, <1>2 DEF LifeFits
<1>28. NoEarlyCallback'
  <2> SUFFICES ASSUME NEW u \in ZkCallers, user'[u].pc = "assign"
               PROVE  client'[user'[u].zhandle].thread # "watcher"
    BY DEF NoEarlyCallback
  <2>1. user'[u] = user[u]  BY <1>12, <1>13
  <2>2. user[u].zhandle \in Handles  BY <2>1, UserFacts DEF ConnectFits
  <2> QED  BY <1>15, <2>1, <2>2, ZkParts DEF NoEarlyCallback
<1> QED  BY <1>17, <1>18, <1>19, <1>21, <1>22, <1>23, <1>24, <1>25, <1>26, <1>27, <1>28
            DEF ZkInv, LockInv, ContextInv

-----------------------------------------------------------------------------
LEMMA ZkInvInit ==
  ASSUME ZkInit
  PROVE  ZkInv
<1> DEFINE c == [state |-> "zero", phase |-> "open", pending |-> {}, watching |-> {},
                 thread |-> "idle", ctx |-> {}]
<1>1. /\ zhandle_ = 1 /\ zhandle_lock_ = [writer |-> NoThread, readers |-> {}]
      /\ context_pool_ = {} /\ context_id_count_ = 0 /\ finalize_thread_mutex_ = NoThread
      /\ finalize_thread_ = NoFinalize /\ user = [t \in ZkCallers |-> IdleUser]
      /\ client = <<c>> /\ early = FALSE /\ life = [events |-> 0, state |-> "alive"]
  BY DEF ZkInit
<1>2. /\ c \in ClientType /\ c.phase = "open" /\ c.pending = {} /\ c.watching = {} /\ c.ctx = {}
      /\ c.thread = "idle"
  BY DEF ClientType
<1> HIDE DEF c
<1>3. /\ client \in Seq(ClientType) /\ Len(client) = 1 /\ Handles = {1} /\ client[1] = c
  BY <1>1, <1>2 DEF Handles
<1>4. \A t \in ZkCallers : user[t] = IdleUser  BY <1>1
<1>5. \A t \in ZkCallers : user[t].pc = "idle" /\ user[t].old_pool = {}  BY <1>4, IdleFacts
<1>6. finalize_thread_.pc = "none"  BY <1>1 DEF NoFinalize
<1>7. ZkTypes
  <2>1. life \in LifeType  BY <1>1 DEF LifeType
  <2>2. finalize_thread_ \in [pc : {"none", "close", "erase", "done"}, zhandle : Nat,
                              contexts : SUBSET Ctxs]
    BY <1>1 DEF NoFinalize
  <2>3. user \in [ZkCallers -> UserType]  BY <1>1, IdleFacts
  <2>4. context_id_count_ \in 0..MaxContexts  BY <1>1, ZkAssumption
  <2> QED  BY <1>1, <1>3, <2>1, <2>2, <2>3, <2>4 DEF ZkTypes
<1>8. LockFits  BY <1>1, <1>5, IdleFacts, ZkAssumption DEF LockFits
<1>9. ConnectsFit  BY <1>5, IdleFacts DEF ConnectsFit, ConnectFits
<1>10. PhasesFit  BY <1>1, <1>2, <1>3 DEF PhasesFit
<1>11. FinalizeFits  BY <1>6 DEF FinalizeFits
<1>12. ClientsFit  BY <1>2, <1>3 DEF ClientsFit, RecordFits
<1>13. CallsFit  BY <1>5 DEF CallsFit
<1>14. NoStaleContexts  BY <1>1 DEF NoStaleContexts
<1>15. KeptAlive  BY <1>2, <1>3 DEF KeptAlive, Holds
<1>16. LifeFits /\ NoEarlyCallback  BY <1>1, <1>5 DEF LifeFits, NoEarlyCallback
<1> QED  BY <1>7, <1>8, <1>9, <1>10, <1>11, <1>12, <1>13, <1>14, <1>15, <1>16
            DEF ZkInv, LockInv, ContextInv

LEMMA ZkInvNext ==
  ASSUME ZkInv, [ZkNext]_zkVars
  PROVE  ZkInv'
<1>1. CASE UNCHANGED zkVars  BY <1>1, SameKeeps DEF zkVars
<1>2. ASSUME NEW t \in Requesters,
             \/ Create(t) \/ Delete(t) \/ Set(t) \/ Get(t) \/ Exists(t) \/ GetChildren(t)
      PROVE  ZkInv'
  <2>1. PICK async \in BOOLEAN, watch \in BOOLEAN, onNoNode \in BOOLEAN :
               Request(t, async, watch, onNoNode)
    BY <1>2 DEF Create, Delete, Set, Get, Exists, GetChildren
  <2>2. t \in ZkCallers  BY ZkAssumption
  <2> QED  BY <2>1, <2>2, RequestKeeps
<1>3. ASSUME NEW t \in Requesters, SetWatcher(t, FALSE) PROVE ZkInv'
  BY <1>3, SameKeeps DEF SetWatcher
<1>4. ASSUME NEW t \in ZkCallers, UserStep(t) PROVE ZkInv'
  <2>1. ASSUME NEW rc \in Answers, RequestReturns(t, rc) PROVE ZkInv'  BY <2>1, RequestReturnsKeeps
  <2>2. CASE ShutdownSwap(t)  BY <2>2, ShutdownSwapKeeps
  <2>3. CASE ShutdownReturns(t)  BY <2>3, ShutdownReturnsKeeps
  <2>4. CASE JoinLock(t) \/ Join(t)  BY <2>4, ParkedKeeps
  <2>5. CASE ConnectLock(t)  BY <2>5, ConnectLockKeeps
  <2>6. CASE StartFinalize(t)  BY <2>6, StartFinalizeKeeps
  <2>7. CASE ConnectInit(t)  BY <2>7, ConnectInitKeeps
  <2>8. CASE ConnectFails(t) \/ ConnectAssign(t)  BY <2>8, ConnectEndsKeeps
  <2> QED  BY <1>4, <2>1, <2>2, <2>3, <2>4, <2>5, <2>6, <2>7, <2>8 DEF UserStep
<1>5. ASSUME NEW t \in Connectors, Connect(t) \/ Shutdown(t) \/ Destructor(t) PROVE ZkInv'
  <2>1. t \in ZkCallers  BY ZkAssumption
  <2> QED  BY <1>5, <2>1, ParkedKeeps
<1>6. ASSUME NEW h \in Handles, ClientStep(h) PROVE ZkInv'
  <2>1. ASSUME NEW request \in client[h].pending, NEW rc \in Answers, Complete(h, request, rc)
        PROVE  ZkInv'
    BY <2>1, CompleteKeeps
  <2>2. CASE ContextRemove(h)  BY <2>2, ContextRemoveKeeps
  <2>3. CASE Guard(h)  BY <2>3, GuardKeeps
  <2>4. CASE WatcherReturns(h)  BY <2>4, WatcherReturnsKeeps
  <2>5. CASE CloseJoin(h)  BY <2>5, CloseJoinKeeps
  <2>6. CASE CloseDone(h)  BY <2>6, CloseDoneKeeps
  <2>7. ASSUME NEW request \in client[h].pending, CloseDrain(h, request) PROVE ZkInv'
    BY <2>7, CloseDrainKeeps
  <2> QED  BY <1>6, <2>1, <2>2, <2>3, <2>4, <2>5, <2>6, <2>7 DEF ClientStep
<1>7. ASSUME NEW h \in Handles, NEW ctx \in client[h].watching, LambdaWatcher(h, ctx) PROVE ZkInv'
  BY <1>7, LambdaWatcherKeeps
<1>8. ASSUME NEW h \in Handles, GlobalEvent(h) PROVE ZkInv'  BY <1>8, GlobalEventKeeps
<1>9. ASSUME NEW h \in Handles, Session(h, "zero", "live") \/ Session(h, "live", "expired")
      PROVE  ZkInv'
  BY <1>9, SessionKeeps
<1>10. CASE FinalizeStep  BY <1>10, FinalizeStepKeeps
<1> QED  BY <1>1, <1>2, <1>3, <1>4, <1>5, <1>6, <1>7, <1>8, <1>9, <1>10 DEF ZkNext

\* AddContext, RemoveContext, Finalize, Shutdown: for any number of threads,
\* also of threads that connect, every context the client library may still
\* call back is alive (unless a Shutdown overtook finalize_thread_), and none
\* of a handle that is gone stays in context_pool_.
THEOREM ContextsCorrect == ZkSpec => []ContextsOK
<1>1. ZkInit => ZkInv  BY ZkInvInit
<1>2. ZkInv /\ [ZkNext]_zkVars => ZkInv'  BY ZkInvNext
<1>3. ZkInv => ContextsOK
  <2> SUFFICES ASSUME ZkInv PROVE ContextsOK  OBVIOUS
  <2>1. NoStaleContexts  BY ZkParts
  <2>2. ContextsAlive
    <3>1. ASSUME ~early, NEW h \in Handles, client[h].phase # "closed", NEW y, Holds(client[h], y)
          PROVE  Alive(y)
      <4>1. y \in Given(h)  BY <3>1, LibraryFacts, HoldsGiven
      <4> QED  BY <3>1, <4>1, ZkParts DEF KeptAlive
    <3>2. ASSUME NEW h \in Handles, NEW y,
                 \/ y \in client[h].watching \cup client[h].ctx
                 \/ \E request \in client[h].pending : y \in request.complete
          PROVE  Holds(client[h], y)
      BY <3>2 DEF Holds, CtxsOf
    <3> QED  BY <3>1, <3>2 DEF ContextsAlive
  <2> QED  BY <2>1, <2>2 DEF ContextsOK
<1> QED  BY <1>1, <1>2, <1>3, PTL DEF ZkSpec

-----------------------------------------------------------------------------
\* A Connect past its Join finds no finalize thread.
Joined ==
  /\ life.state # "terminated"
  /\ \A t \in ZkCallers : user[t].pc \in {"wrlock", "finalize"} => finalize_thread_.pc = "none"

\* One thread connects: the heartbeat thread, after Start has connected first.
OneConnector == \A a, b \in Connectors : a = b

LEMMA JoinedNext ==
  ASSUME OneConnector, ZkInv, Joined, [ZkNext]_zkVars
  PROVE  Joined'
<1>1. life \in LifeType /\ user \in [ZkCallers -> UserType]  BY ZkParts DEF ZkTypes
<1>2. ASSUME user' = user, life'.state = life.state,
             finalize_thread_' = finalize_thread_ \/ finalize_thread_.pc # "none"
      PROVE  Joined'
  BY <1>2 DEF Joined
<1>3. ASSUME NEW t \in ZkCallers, NEW x, user' = [user EXCEPT ![t] = x],
             x.pc \notin {"wrlock", "finalize"}, life'.state # "terminated",
             finalize_thread_' = finalize_thread_
      PROVE  Joined'
  BY <1>1, <1>3 DEF Joined
<1>4. ASSUME NEW t \in ZkCallers, NEW pc, user' = [user EXCEPT ![t].pc = pc],
             life'.state # "terminated",
             \/ finalize_thread_' = finalize_thread_ /\ pc \notin {"wrlock", "finalize"}
             \/ finalize_thread_'.pc = "none"
      PROVE  Joined'
  <2>1. \A u \in ZkCallers : u # t => user'[u] = user[u]  BY <1>1, <1>4
  <2>2. user'[t].pc = pc  BY <1>1, <1>4 DEF UserType
  <2> QED  BY <1>4, <2>1, <2>2 DEF Joined
<1>5. life.state # "terminated"  BY DEF Joined
<1>6. CASE UNCHANGED zkVars  BY <1>2, <1>6 DEF zkVars
<1>7. ASSUME NEW t \in Requesters, NEW async, NEW watch, NEW onNoNode,
             Request(t, async, watch, onNoNode)
      PROVE  Joined'
  <2>1. t \in ZkCallers  BY ZkAssumption
  <2>2. PICK z, S, R :
          user' = [user EXCEPT ![t] = [IdleUser EXCEPT !.pc = "calling", !.zhandle = z, !.ctxs = S,
                                                       !.request = R]]
    BY <1>7 DEF Request
  <2>3. [IdleUser EXCEPT !.pc = "calling", !.zhandle = z, !.ctxs = S, !.request = R].pc = "calling"
    BY DEF IdleUser
  <2> QED  BY <1>3, <1>5, <1>7, <2>1, <2>2, <2>3 DEF Request
<1>8. ASSUME NEW t \in Requesters,
             \/ Create(t) \/ Delete(t) \/ Set(t) \/ Get(t) \/ Exists(t) \/ GetChildren(t)
      PROVE  Joined'
  BY <1>7, <1>8 DEF Create, Delete, Set, Get, Exists, GetChildren
<1>9. ASSUME NEW t \in Requesters, SetWatcher(t, FALSE) PROVE Joined'
  BY <1>2, <1>9 DEF SetWatcher
<1>10. ASSUME NEW t \in ZkCallers, UserStep(t) PROVE Joined'
  <2>1. ASSUME NEW rc \in Answers, RequestReturns(t, rc) PROVE Joined'
    BY <1>3, <1>5, <2>1, IdleFacts DEF RequestReturns, Return
  <2>2. CASE ShutdownSwap(t)
    <3> DEFINE x == [user[t] EXCEPT !.pc = "closing", !.zhandle = zhandle_,
                                    !.old_pool = context_pool_]
    <3>1. user' = [user EXCEPT ![t] = x] /\ UNCHANGED <<life, finalize_thread_>>
      BY <2>2 DEF ShutdownSwap
    <3>2. x.pc = "closing"  BY <1>1 DEF UserType
    <3> HIDE DEF x
    <3> QED  BY <1>3, <1>5, <3>1, <3>2
  <2>3. CASE ShutdownReturns(t)
    <3>1. life'.state # "terminated"  BY <1>1, <1>5, <2>3 DEF ShutdownReturns, LifeType
    <3> QED  BY <1>3, <2>3, <3>1, IdleFacts DEF ShutdownReturns, Return
  <2>4. CASE JoinLock(t)  BY <1>4, <1>5, <2>4 DEF JoinLock, Go
  <2>5. CASE Join(t)
    <3>1. finalize_thread_'.pc = "none"  BY <2>5 DEF Join, NoFinalize
    <3>2. PICK pc : user' = [user EXCEPT ![t].pc = pc]  BY <2>5 DEF Join, Go
    <3> QED  BY <1>4, <1>5, <2>5, <3>1, <3>2 DEF Join
  <2>6. CASE ConnectLock(t)
    <3>1. CASE zhandle_ # 0 /\ client[zhandle_].state = "live"
      BY <1>3, <1>5, <2>6, <3>1, IdleFacts DEF ConnectLock, Return
    <3>2. CASE ~(zhandle_ # 0 /\ client[zhandle_].state = "live")
      <4>1. UNCHANGED <<life, finalize_thread_>> /\ finalize_thread_.pc = "none"
        BY <2>6 DEF ConnectLock, Joined
      <4> QED  BY <1>5, <4>1 DEF Joined
    <3> QED  BY <3>1, <3>2
  <2>7. CASE StartFinalize(t)
    <3>1. user[t].pc = "finalize" /\ finalize_thread_.pc = "none"
      BY <2>7 DEF StartFinalize, Joined
    <3>2. UNCHANGED life /\ user' = [user EXCEPT ![t].pc = "init"]
      BY <2>7, <3>1 DEF StartFinalize, Go
    <3>3. user'[t].pc = "init" /\ \A u \in ZkCallers : u # t => user'[u] = user[u]
      BY <1>1, <3>2 DEF UserType
    <3>4. \A u \in ZkCallers : user[u].pc \in {"wrlock", "finalize"} => u = t
      <4>1. \A u \in ZkCallers : user[u].pc \in {"wrlock", "finalize"} => u \in Connectors
        BY UserFacts DEF ConnectFits
      <4> QED  BY <3>1, <4>1 DEF OneConnector
    <3> QED  BY <1>5, <3>2, <3>3, <3>4 DEF Joined
  <2>8. CASE ConnectInit(t)
    <3> DEFINE x == [user[t] EXCEPT !.pc = "assign", !.zhandle = Len(client) + 1]
    <3>1. user' = [user EXCEPT ![t] = x] /\ UNCHANGED <<life, finalize_thread_>>
      BY <2>8 DEF ConnectInit
    <3>2. x.pc = "assign"  BY <1>1 DEF UserType
    <3> HIDE DEF x
    <3> QED  BY <1>3, <1>5, <3>1, <3>2
  <2>9. CASE ConnectFails(t) \/ ConnectAssign(t)
    BY <1>3, <1>5, <2>9, IdleFacts DEF ConnectFails, ConnectAssign, Return
  <2> QED  BY <1>10, <2>1, <2>2, <2>3, <2>4, <2>5, <2>6, <2>7, <2>8, <2>9 DEF UserStep
<1>11. ASSUME NEW t \in Connectors, Connect(t) \/ Shutdown(t) \/ Destructor(t) PROVE Joined'
  <2>1. t \in ZkCallers  BY ZkAssumption
  <2>2. life'.state # "terminated"
    BY <1>1, <1>5, <1>11 DEF Connect, Shutdown, Destructor, LifeType
  <2>3. PICK pc \in {"mutex", "shutdown"} : user' = [user EXCEPT ![t].pc = pc]
    BY <1>11 DEF Connect, Shutdown, Destructor, Go
  <2>4. finalize_thread_' = finalize_thread_  BY <1>11 DEF Connect, Shutdown, Destructor
  <2> QED  BY <1>4, <2>1, <2>2, <2>3, <2>4
<1>12. ASSUME NEW h \in Handles,
              \/ ClientStep(h) \/ \E ctx \in client[h].watching : LambdaWatcher(h, ctx)
              \/ Session(h, "zero", "live") \/ Session(h, "live", "expired")
       PROVE  Joined'
  <2>1. UNCHANGED <<user, life, finalize_thread_>>
    BY <1>12 DEF ClientStep, Complete, ContextRemove, Guard, WatcherReturns, CloseJoin, CloseDone,
                 CloseDrain, LambdaWatcher, Session
  <2> QED  BY <1>2, <2>1
<1>13. ASSUME NEW h \in Handles, GlobalEvent(h) PROVE Joined'
  <2>1. life'.state = life.state  BY <1>1, <1>13 DEF GlobalEvent, LifeType
  <2> QED  BY <1>2, <1>13, <2>1 DEF GlobalEvent
<1>14. CASE FinalizeStep
  BY <1>2, <1>14 DEF FinalizeStep, FinalizeClosed, FinalizeErase
<1> QED  BY <1>6, <1>8, <1>9, <1>10, <1>11, <1>12, <1>13, <1>14 DEF ZkNext

\* Connect, GlobalZooWatcher, ~ZKWrapper: as long as one thread connects,
\* whatever the requests and the callbacks do, no global watcher runs for a
\* handle that is not published, finalize_thread_ is joined before it is
\* started again, and after the destructor every handle is closed.
THEOREM HandlesCorrect ==
  ASSUME OneConnector
  PROVE  ZkSpec => []HandlesOK
<1> DEFINE Inv == ZkInv /\ Joined
<1>1. ZkInit => Inv
  <2> SUFFICES ASSUME ZkInit PROVE Joined  BY ZkInvInit
  <2>1. life.state = "alive" /\ \A t \in ZkCallers : user[t] = IdleUser  BY DEF ZkInit
  <2> QED  BY <2>1, IdleFacts DEF Joined
<1>2. Inv /\ [ZkNext]_zkVars => Inv'  BY ZkInvNext, JoinedNext
<1>3. Inv => HandlesOK
  <2> SUFFICES ASSUME ZkInv, Joined PROVE HandlesOK  OBVIOUS
  <2>1. ZkTypeOK
    <3>1. context_id_count_ \in 0..MaxContexts
          /\ context_pool_ \subseteq (Handles \X (1..context_id_count_))
      BY ZkParts DEF ZkTypes
    <3>2. 1..context_id_count_ \subseteq 1..MaxContexts  BY <3>1, ZkAssumption
    <3>3. context_pool_ \subseteq (Handles \X (1..MaxContexts))  BY <3>1, <3>2
    <3>4. life.state \in {"alive", "destructor", "destroyed", "terminated"}
      BY ZkParts DEF ZkTypes, LifeType
    <3> QED  BY <3>3, <3>4, ZkParts DEF ZkTypeOK, ZkTypes, LockFits
  <2>2. NothingAfterDestructor
    <3> SUFFICES ASSUME life.state = "destroyed"
                 PROVE  (\A h \in Handles : client[h].phase = "closed") /\ finalize_thread_.pc = "none"
      BY DEF NothingAfterDestructor
    <3>1. /\ \A u \in ZkCallers : user[u].pc = "idle"
          /\ zhandle_ = 0 /\ finalize_thread_.pc = "none"
      BY ZkParts DEF LifeFits
    <3>2. ASSUME NEW h \in Handles PROVE client[h].phase = "closed"
      <4>1. client[h].phase \in {"open", "joining", "draining", "closed"}
        BY LibraryFacts DEF ClientType
      <4>2. h # 0  BY ZkParts
      <4> QED  BY <3>1, <4>1, <4>2, ZkParts DEF PhasesFit
    <3> QED  BY <3>1, <3>2
  <2>3. NoEarlyCallback /\ FinalizeJoined  BY ZkParts DEF Joined, FinalizeJoined
  <2> QED  BY <2>1, <2>2, <2>3 DEF HandlesOK
<1> QED  BY <1>1, <1>2, <1>3, PTL DEF ZkSpec
=============================================================================

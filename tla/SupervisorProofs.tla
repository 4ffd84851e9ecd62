-------------------------- MODULE SupervisorProofs --------------------------
(***************************************************************************)
(* Proofs for the two components of the run Supervisor.  The supervisor:   *)
(* ChildrenOK and WindowExact for any servers and limits.  The hash table  *)
(* of qed: TableOK and RegularFind for tables of every size, any keys and  *)
(* any number of insertions and moves.                                     *)
(***************************************************************************)
EXTENDS Supervisor, QedTable, FiniteSetTheorems, SequenceTheorems, WellFoundedInduction, TLAPS

-----------------------------------------------------------------------------
\* The supervisor.  NeedRestart keeps the last deaths d of a server in q: what
\* it has dropped was too old, and a queue that makes it give up holds only
\* deaths of the last period.
Queued(q, d) ==
  /\ Len(q) <= Len(d) /\ Len(q) <= Intensity + 1
  /\ \A i \in 1..Len(q) : q[i] = d[Len(d) - Len(q) + i]
  /\ \A i, j \in 1..Len(d) : i <= j => d[i] <= d[j]
  /\ \A i \in 1..(Len(d) - Len(q)) : Stale(d[i], d[Len(d)])
  /\ Len(q) > Intensity => \A i \in (Len(d) - Len(q) + 1)..Len(d) : ~Stale(d[i], d[Len(d)])

\* A server that was given up is not started again.
GivenUp(s) == proc[s] = "none" /\ main.pc # "start" /\ main # At("restart", s)

DeathsFit ==
  \A s \in Servers :
    /\ Queued(dead_times[s], deaths[s])
    /\ \A i \in 1..Len(deaths[s]) : deaths[s][i] <= now
    /\ Len(dead_times[s]) > Intensity => GivenUp(s)

SuperInv == TypeOK /\ NoOrphans /\ DeathsFit

\* A death enters the queue, and an old one leaves it.
LEMMA RecordedFits ==
  ASSUME NEW q \in Seq(0..MaxTime), NEW d \in Seq(0..MaxTime), NEW time \in 0..MaxTime,
         Queued(q, d), \A i \in 1..Len(d) : d[i] <= time, Len(q) <= Intensity
  PROVE  /\ Recorded(q, time) \in Seq(0..MaxTime)
         /\ Queued(Recorded(q, time), Append(d, time))
<1> DEFINE all == Append(q, time)
           e == Append(d, time)
           n == Len(d)
           m == Len(q)
<1>1. /\ n \in Nat /\ m \in Nat /\ m <= n /\ m <= Intensity /\ time \in Nat /\ MaxTime \in Nat
      /\ Intensity \in Nat /\ Period \in Nat
  BY SupervisorAssumption DEF Queued
<1>2. \A i \in 1..n : d[i] \in Nat /\ d[i] <= time
  <2>1. \A i \in 1..n : d[i] \in 0..MaxTime  BY ElementOfSeq
  <2> QED  BY <2>1, <1>1
<1>3. /\ \A i \in 1..m : q[i] = d[n - m + i]
      /\ \A i, j \in 1..n : i <= j => d[i] <= d[j]
      /\ \A i \in 1..(n - m) : Stale(d[i], d[n])
  BY DEF Queued
<1>4. /\ e \in Seq(0..MaxTime) /\ Len(e) = n + 1 /\ e[n + 1] = time /\ \A i \in 1..n : e[i] = d[i]
  OBVIOUS
<1>5. /\ all \in Seq(0..MaxTime) /\ Len(all) = m + 1 /\ all[m + 1] = time
      /\ \A i \in 1..m : all[i] = q[i]
  OBVIOUS
<1>6. Head(all) = all[1] /\ Tail(all) \in Seq(0..MaxTime) /\ Len(Tail(all)) = m
      /\ \A i \in 1..m : Tail(all)[i] = all[i + 1]
  <2>1. all # <<>>  BY AppendProperties
  <2> HIDE DEF all
  <2>2. Head(all) = all[1] /\ Tail(all) \in Seq(0..MaxTime) /\ Len(Tail(all)) = Len(all) - 1
    BY <1>5, <2>1, HeadTailProperties
  <2>3. \A i \in 1..Len(Tail(all)) : Tail(all)[i] = all[i + 1]  BY <1>5, <2>1, HeadTailProperties
  <2> QED  BY <1>1, <1>5, <2>2, <2>3
<1>7. Recorded(q, time) = IF Stale(Head(all), time) THEN Tail(all) ELSE all  BY DEF Recorded
<1> HIDE DEF all, e, n, m
<1>8. \A i \in 1..(m + 1) : all[i] = e[n - m + i]
  <2> SUFFICES ASSUME NEW i \in 1..(m + 1) PROVE all[i] = e[n - m + i]  OBVIOUS
  <2>1. CASE i = m + 1  BY <1>1, <1>4, <1>5, <2>1
  <2>2. CASE i \in 1..m
    <3>1. n - m + i \in 1..n  BY <1>1, <2>2
    <3> QED  BY <1>3, <1>4, <1>5, <2>2, <3>1
  <2> QED  BY <1>1, <2>1, <2>2
<1>9. \A i \in 1..(n + 1) : e[i] \in Nat /\ e[i] <= time
  <2> SUFFICES ASSUME NEW i \in 1..(n + 1) PROVE e[i] \in Nat /\ e[i] <= time  OBVIOUS
  <2>1. CASE i = n + 1  BY <1>1, <1>4, <2>1
  <2>2. CASE i \in 1..n  BY <1>2, <1>4, <2>2
  <2> QED  BY <1>1, <2>1, <2>2
<1>10. \A i, j \in 1..(n + 1) : i <= j => e[i] <= e[j]
  <2> SUFFICES ASSUME NEW i \in 1..(n + 1), NEW j \in 1..(n + 1), i <= j PROVE e[i] <= e[j]  OBVIOUS
  <2>1. CASE j = n + 1  BY <1>4, <1>9, <2>1
  <2>2. CASE j \in 1..n
    <3>1. i \in 1..n  BY <1>1, <2>2
    <3> QED  BY <1>3, <1>4, <2>2, <3>1
  <2> QED  BY <1>1, <2>1, <2>2
<1>11. \A i \in 1..(n - m) : Stale(e[i], time)
  <2> SUFFICES ASSUME NEW i \in 1..(n - m) PROVE Stale(e[i], time)  OBVIOUS
  <2>1. i \in 1..n /\ n \in 1..n  BY <1>1
  <2>2. Stale(d[i], d[n])  BY <1>3
  <2>3. d[i] \in Nat /\ d[n] \in Nat /\ d[n] <= time /\ e[i] = d[i]  BY <1>2, <1>4, <2>1
  <2> QED  BY <1>1, <2>2, <2>3 DEF Stale
<1>12. CASE Stale(Head(all), time)
  <2>1. e[n - m + 1] = Head(all)  BY <1>1, <1>6, <1>8
  <2>2. \A i \in 1..(n + 1 - m) : Stale(e[i], time)
    <3> SUFFICES ASSUME NEW i \in 1..(n + 1 - m) PROVE Stale(e[i], time)  OBVIOUS
    <3>1. i \in 1..(n - m) \/ i = n - m + 1  BY <1>1
    <3> QED  BY <1>12, <1>11, <2>1, <3>1
  <2>3. \A i \in 1..m : Tail(all)[i] = e[n + 1 - m + i]
    <3> SUFFICES ASSUME NEW i \in 1..m PROVE Tail(all)[i] = e[n + 1 - m + i]  OBVIOUS
    <3>1. i + 1 \in 1..(m + 1) /\ n - m + (i + 1) = n + 1 - m + i  BY <1>1
    <3>2. all[i + 1] = e[n - m + (i + 1)]  BY <1>8, <3>1
    <3> QED  BY <1>6, <3>1, <3>2
  <2>4. Queued(Tail(all), e)
    <3> DEFINE b == Tail(all)
    <3>1. Len(b) = m /\ Len(e) = n + 1 /\ m <= n + 1 /\ m <= Intensity + 1 /\ ~(m > Intensity)
      BY <1>1, <1>4, <1>6
    <3>2. \A i \in 1..m : b[i] = e[n + 1 - m + i]  BY <2>3
    <3> HIDE DEF b
    <3>3. Len(e) - Len(b) = n + 1 - m /\ e[Len(e)] = time  BY <1>1, <1>4, <3>1
    <3>4. \A i \in 1..(Len(e) - Len(b)) : Stale(e[i], e[Len(e)])  BY <2>2, <3>3
    <3>5. \A i \in 1..Len(b) : b[i] = e[Len(e) - Len(b) + i]  BY <3>1, <3>2, <3>3
    <3>6. Queued(b, e)  BY <1>10, <3>1, <3>4, <3>5 DEF Queued
    <3> QED  BY <3>6 DEF b
  <2> QED  BY <1>6, <1>7, <1>12, <2>4 DEF e
<1>13. CASE ~Stale(Head(all), time)
  <2>1. \A i \in (n - m + 1)..(n + 1) : ~Stale(e[i], time)
    <3> SUFFICES ASSUME NEW i \in (n - m + 1)..(n + 1) PROVE ~Stale(e[i], time)  OBVIOUS
    <3>1. i \in 1..(n + 1) /\ n - m + 1 \in 1..(n + 1) /\ n - m + 1 <= i  BY <1>1
    <3>2. Head(all) = e[n - m + 1]  BY <1>1, <1>6, <1>8
    <3>3. e[n - m + 1] <= e[i] /\ e[i] \in Nat /\ e[n - m + 1] \in Nat  BY <1>9, <1>10, <3>1
    <3> QED  BY <1>1, <1>13, <3>2, <3>3 DEF Stale
  <2>2. Queued(all, e)
    <3>1. /\ Len(all) = m + 1 /\ Len(e) = n + 1 /\ m + 1 <= n + 1 /\ m + 1 <= Intensity + 1
          /\ (n + 1) - (m + 1) = n - m
      BY <1>1, <1>4, <1>5
    <3> QED  BY <1>4, <1>8, <1>10, <1>11, <2>1, <3>1 DEF Queued
  <2> QED  BY <1>5, <1>13, <1>7, <2>2 DEF e
<1> QED  BY <1>12, <1>13

\* Counting the queue is as good as counting the last period.
LEMMA WindowCounts ==
  ASSUME NEW q \in Seq(0..MaxTime), NEW d \in Seq(0..MaxTime), Queued(q, d), d # <<>>
  PROVE  Len(q) <= Intensity <=>
           Cardinality({i \in 1..Len(d) : ~Stale(d[i], d[Len(d)])}) <= Intensity
<1> DEFINE W == {i \in 1..Len(d) : ~Stale(d[i], d[Len(d)])}
           a == Len(d) - Len(q) + 1
<1>1. Len(q) \in Nat /\ Len(d) \in Nat /\ Len(q) <= Len(d) /\ a \in Int /\ a >= 1  BY DEF Queued
<1>2. W \subseteq a..Len(d)  BY <1>1 DEF Queued
<1>3. Len(q) > Intensity => W = a..Len(d)
  <2> SUFFICES ASSUME Len(q) > Intensity PROVE a..Len(d) \subseteq W  BY <1>2
  <2>1. \A i \in a..Len(d) : i \in 1..Len(d) /\ ~Stale(d[i], d[Len(d)])  BY <1>1 DEF Queued
  <2> QED  BY <2>1
<1>4. IsFiniteSet(a..Len(d)) /\ Cardinality(a..Len(d)) = Len(q)
  <2>1. a \in Int /\ Len(d) \in Int  BY <1>1
  <2>2. /\ IsFiniteSet(a..Len(d))
        /\ Cardinality(a..Len(d)) = IF a > Len(d) THEN 0 ELSE Len(d) - a + 1
    BY <2>1, FS_Interval
  <2> QED  BY <1>1, <2>2
<1> HIDE DEF W
<1>5. Cardinality(W) <= Len(q) /\ Cardinality(W) \in Nat
  BY <1>2, <1>4, FS_Subset, FS_CardinalityType
<1>6. Len(q) <= Intensity => Cardinality(W) <= Intensity  BY <1>1, <1>5, SupervisorAssumption
<1>7. Len(q) > Intensity => Cardinality(W) > Intensity  BY <1>3, <1>4
<1> QED  BY <1>1, <1>5, <1>6, <1>7, SupervisorAssumption DEF W

\* A step of the supervisor that counts no death.
LEMMA DeathsKept ==
  ASSUME SuperInv, UNCHANGED <<dead_times, deaths>>, now' \in 0..MaxTime, now <= now',
         \A s \in Servers : Len(dead_times[s]) > Intensity => GivenUp(s)'
  PROVE  DeathsFit'
<1>1. now \in 0..MaxTime /\ deaths \in [Servers -> Seq(0..MaxTime)]  BY DEF SuperInv, TypeOK
<1> SUFFICES ASSUME NEW s \in Servers, NEW i \in 1..Len(deaths[s]) PROVE deaths[s][i] <= now'
  BY DEF SuperInv, DeathsFit
<1>2. deaths[s][i] <= now  BY DEF SuperInv, DeathsFit
<1>3. deaths[s][i] \in 0..MaxTime  BY <1>1, ElementOfSeq
<1> QED  BY <1>1, <1>2, <1>3, SupervisorAssumption

LEMMA AtFacts ==
  ASSUME NEW pc, NEW s
  PROVE  /\ At(pc, s).pc = pc /\ At(pc, s).server = s
         /\ s \in Servers \cup {Nobody} /\ pc \in {"start", "wait", "restart", "done", "failed"} =>
              At(pc, s) \in [pc : {"start", "wait", "restart", "done", "failed"},
                             server : Servers \cup {Nobody}]
BY DEF At

\* wait reports the end of a server, and NeedRestart decides.
LEMMA ReapKeeps ==
  ASSUME SuperInv, NEW s \in Servers, NEW status \in Statuses, Reap(s, status)
  PROVE  SuperInv'
<1>1. TypeOK /\ NoOrphans /\ DeathsFit  BY DEF SuperInv
<1>2. /\ main.pc = "wait" /\ proc[s] = status /\ proc' = [proc EXCEPT ![s] = "none"]
      /\ server_metas_' = server_metas_ \ {s} /\ UNCHANGED <<g_is_stop, now, clean>>
  BY DEF Reap
<1>3. proc[s] # "none"  BY <1>2 DEF Statuses
<1>4. /\ proc' \in [Servers -> {"none", "booting", "running", "stopping"} \cup Statuses]
      /\ proc'[s] = "none" /\ \A r \in Servers : r # s => proc'[r] = proc[r]
  BY <1>1, <1>2 DEF TypeOK
<1>5. main.pc = "wait" => main' = main \/ main' = At("restart", s)  BY DEF Reap
<1>6. /\ main' \in [pc : {"start", "wait", "restart", "done", "failed"}, server : Servers \cup {Nobody}]
      /\ main'.pc \in {"wait", "restart"}
      /\ \A r \in Servers : r # s => main' # At("restart", r)
  BY <1>1, <1>2, <1>5 DEF TypeOK, At
<1>7. NoOrphans'  BY <1>1, <1>2, <1>4 DEF NoOrphans
<1>8. \A r \in Servers : r # s /\ GivenUp(r) => GivenUp(r)'  BY <1>4, <1>6 DEF GivenUp
<1>9. CASE Counts(status)
  <2> DEFINE times == Recorded(dead_times[s], now)
             d == Append(deaths[s], now)
  <2>1. /\ dead_times' = [dead_times EXCEPT ![s] = times] /\ deaths' = [deaths EXCEPT ![s] = d]
        /\ main' = IF Within(times) THEN At("restart", s) ELSE main
    BY <1>9 DEF Reap
  <2>2. /\ dead_times[s] \in Seq(0..MaxTime) /\ deaths[s] \in Seq(0..MaxTime) /\ now \in 0..MaxTime
        /\ Queued(dead_times[s], deaths[s]) /\ \A i \in 1..Len(deaths[s]) : deaths[s][i] <= now
    BY <1>1 DEF TypeOK, DeathsFit
  <2>3. Len(dead_times[s]) <= Intensity
    <3>1. ~(Len(dead_times[s]) > Intensity)  BY <1>1, <1>3 DEF DeathsFit, GivenUp
    <3>2. Len(dead_times[s]) \in Nat  BY <2>2
    <3> QED  BY <3>1, <3>2, SupervisorAssumption
  <2>4. times \in Seq(0..MaxTime) /\ Queued(times, d)  BY <2>2, <2>3, RecordedFits
  <2>5. /\ d \in Seq(0..MaxTime) /\ \A i \in 1..Len(d) : d[i] <= now
    <3>1. /\ d \in Seq(0..MaxTime) /\ Len(d) = Len(deaths[s]) + 1 /\ d[Len(deaths[s]) + 1] = now
          /\ \A i \in 1..Len(deaths[s]) : d[i] = deaths[s][i]
      BY <2>2
    <3>2. Len(deaths[s]) \in Nat /\ now \in Nat  BY <2>2
    <3>3. \A i \in 1..Len(d) : i \in 1..Len(deaths[s]) \/ i = Len(deaths[s]) + 1
      BY <3>1, <3>2
    <3> QED  BY <2>2, <3>1, <3>2, <3>3
  <2> HIDE DEF times, d
  <2>6. /\ dead_times' \in [Servers -> Seq(0..MaxTime)] /\ dead_times'[s] = times
        /\ \A r \in Servers : r # s => dead_times'[r] = dead_times[r]
        /\ deaths' \in [Servers -> Seq(0..MaxTime)] /\ deaths'[s] = d
        /\ \A r \in Servers : r # s => deaths'[r] = deaths[r]
    BY <1>1, <2>1, <2>4, <2>5 DEF TypeOK
  <2>7. Len(times) <= Intensity + 1  BY <2>4 DEF Queued
  <2>8. Len(times) > Intensity => GivenUp(s)'
    <3> SUFFICES ASSUME Len(times) > Intensity PROVE GivenUp(s)'  OBVIOUS
    <3>1. Len(times) \in Nat  BY <2>4
    <3>2. ~Within(times)  BY <3>1, SupervisorAssumption DEF Within
    <3>3. main' = main  BY <2>1, <3>2
    <3> QED  BY <1>2, <1>4, <3>3, AtFacts DEF GivenUp
  <2>9. TypeOK'
    <3>1. \A r \in Servers : Len(dead_times'[r]) <= Intensity + 1  BY <1>1, <2>6, <2>7 DEF TypeOK
    <3> QED  BY <1>1, <1>2, <1>4, <1>6, <2>6, <3>1 DEF TypeOK
  <2>10. DeathsFit'
    <3> SUFFICES ASSUME NEW r \in Servers
                 PROVE  /\ Queued(dead_times'[r], deaths'[r])
                        /\ \A i \in 1..Len(deaths'[r]) : deaths'[r][i] <= now
                        /\ Len(dead_times'[r]) > Intensity => GivenUp(r)'
      BY <1>2 DEF DeathsFit
    <3>1. CASE r = s  BY <2>4, <2>5, <2>6, <2>8, <3>1
    <3>2. CASE r # s  BY <1>1, <1>8, <2>6, <3>2 DEF DeathsFit
    <3> QED  BY <3>1, <3>2
  <2> QED  BY <1>7, <2>9, <2>10 DEF SuperInv
<1>10. CASE ~Counts(status)
  <2>1. UNCHANGED <<dead_times, deaths, main>>  BY <1>10 DEF Reap
  <2>2. TypeOK'  BY <1>1, <1>2, <1>4, <2>1 DEF TypeOK
  <2>3. \A r \in Servers : GivenUp(r) => GivenUp(r)'  BY <1>4, <2>1 DEF GivenUp
  <2>4. now' \in 0..MaxTime /\ now <= now'  BY <1>1, <1>2 DEF TypeOK
  <2>5. \A r \in Servers : Len(dead_times[r]) > Intensity => GivenUp(r)'
    BY <1>1, <2>3 DEF DeathsFit
  <2>6. DeathsFit'  BY <2>1, <2>4, <2>5, DeathsKept
  <2> QED  BY <1>7, <2>2, <2>6 DEF SuperInv
<1> QED  BY <1>9, <1>10

\* The steps in which a process is started, ends or is told to stop.
LEMMA ProcessStep ==
  ASSUME SuperInv, UNCHANGED <<dead_times, deaths>>,
         now' \in 0..MaxTime, now <= now',
         server_metas_' \subseteq Servers,
         proc' \in [Servers -> {"none", "booting", "running", "stopping"} \cup Statuses],
         main' \in [pc : {"start", "wait", "restart", "done", "failed"}, server : Servers \cup {Nobody}],
         g_is_stop' \in BOOLEAN, clean' \in BOOLEAN,
         main'.pc # "failed" =>
           \A s \in Servers : proc'[s] # "none" <=> s \in server_metas_',
         \A s \in Servers : Len(dead_times[s]) > Intensity => GivenUp(s)'
  PROVE  SuperInv'
<1>1. TypeOK'  BY DEF SuperInv, TypeOK
<1>2. NoOrphans'  BY DEF NoOrphans
<1>3. DeathsFit'  BY DeathsKept
<1> QED  BY <1>1, <1>2, <1>3 DEF SuperInv

LEMMA SuperInvInit ==
  ASSUME Init
  PROVE  SuperInv
<1>1. /\ server_metas_ = {} /\ dead_times = [s \in Servers |-> <<>>] /\ proc = [s \in Servers |-> "none"]
      /\ main = At("start", Nobody) /\ g_is_stop = FALSE /\ now = 0
      /\ deaths = [s \in Servers |-> <<>>] /\ clean = FALSE
  BY DEF Init
<1>2. <<>> \in Seq(0..MaxTime) /\ Len(<<>>) = 0  OBVIOUS
<1>3. Intensity \in Nat /\ MaxTime \in Nat  BY SupervisorAssumption
<1>4. \A s \in Servers : dead_times[s] = <<>> /\ deaths[s] = <<>> /\ proc[s] = "none"  BY <1>1
<1>5. TypeOK
  <2>1. main \in [pc : {"start", "wait", "restart", "done", "failed"}, server : Servers \cup {Nobody}]
    BY <1>1, AtFacts
  <2>2. /\ dead_times \in [Servers -> Seq(0..MaxTime)] /\ deaths \in [Servers -> Seq(0..MaxTime)]
        /\ \A s \in Servers : Len(dead_times[s]) <= Intensity + 1
    BY <1>1, <1>2, <1>3
  <2>3. proc \in [Servers -> {"none", "booting", "running", "stopping"} \cup Statuses] /\ now \in 0..MaxTime
    BY <1>1, <1>3
  <2> QED  BY <1>1, <2>1, <2>2, <2>3 DEF TypeOK
<1>6. NoOrphans  BY <1>1, <1>4 DEF NoOrphans
<1>7. Queued(<<>>, <<>>)  BY <1>2, <1>3 DEF Queued
<1>8. DeathsFit  BY <1>2, <1>3, <1>4, <1>7 DEF DeathsFit
<1> QED  BY <1>5, <1>6, <1>8 DEF SuperInv

LEMMA SuperInvNext ==
  ASSUME SuperInv, [Next]_vars
  PROVE  SuperInv'
<1> DEFINE Procs == {"none", "booting", "running", "stopping"} \cup Statuses
           Mains == [pc : {"start", "wait", "restart", "done", "failed"}, server : Servers \cup {Nobody}]
<1>1. TypeOK /\ NoOrphans /\ DeathsFit  BY DEF SuperInv
<1>2. /\ server_metas_ \subseteq Servers /\ proc \in [Servers -> Procs] /\ main \in Mains
      /\ g_is_stop \in BOOLEAN /\ clean \in BOOLEAN /\ now \in 0..MaxTime /\ MaxTime \in Nat
  BY <1>1, SupervisorAssumption DEF TypeOK
<1>3. \A s \in Servers : Len(dead_times[s]) > Intensity => GivenUp(s)  BY <1>1 DEF DeathsFit
<1>4. now' = now => now' \in 0..MaxTime /\ now <= now'  BY <1>2
<1>5. At("wait", Nobody) \in Mains /\ At("failed", Nobody) \in Mains /\ At("done", Nobody) \in Mains
  BY AtFacts
<1>6. \A s : At("wait", Nobody) # At("restart", s)  BY AtFacts
\* The process of one server is rewritten.
<1>7. ASSUME NEW s \in Servers, NEW x \in Procs, proc' = [proc EXCEPT ![s] = x]
      PROVE  proc' \in [Servers -> Procs] /\ proc'[s] = x /\ \A r \in Servers : r # s => proc'[r] = proc[r]
  BY <1>2, <1>7
<1>8. CASE UNCHANGED vars
  <2>1. UNCHANGED <<server_metas_, dead_times, proc, main, g_is_stop, now, deaths, clean>>
    BY <1>8 DEF vars
  <2>2. \A s \in Servers : GivenUp(s) => GivenUp(s)'  BY <2>1 DEF GivenUp
  <2> QED  BY <1>1, <1>2, <1>3, <1>4, <2>1, <2>2, ProcessStep DEF NoOrphans
<1>9. ASSUME NEW s \in Servers, StartServers(s) PROVE SuperInv'
  <2>1. /\ main.pc = "start" /\ proc' = [proc EXCEPT ![s] = "booting"]
        /\ server_metas_' = server_metas_ \cup {s} /\ main' \in Mains
        /\ UNCHANGED <<dead_times, g_is_stop, now, deaths, clean>>
    BY <1>2, <1>5, <1>9 DEF StartServers
  <2>2. /\ proc' \in [Servers -> Procs] /\ proc'[s] = "booting"
        /\ \A r \in Servers : r # s => proc'[r] = proc[r]
    BY <1>7, <2>1
  <2>3. \A r \in Servers : ~(Len(dead_times[r]) > Intensity)  BY <1>3, <2>1 DEF GivenUp
  <2>4. \A r \in Servers : proc'[r] # "none" <=> r \in server_metas_'
    BY <1>1, <2>1, <2>2 DEF NoOrphans
  <2> QED  BY <1>2, <1>4, <2>1, <2>2, <2>3, <2>4, ProcessStep
<1>10. CASE StartFails
  <2>1. /\ main.pc = "start" /\ main' = At("failed", Nobody)
        /\ UNCHANGED <<server_metas_, dead_times, proc, g_is_stop, now, deaths, clean>>
    BY <1>10 DEF StartFails
  <2>2. \A r \in Servers : ~(Len(dead_times[r]) > Intensity)  BY <1>3, <2>1 DEF GivenUp
  <2>3. main'.pc = "failed"  BY <2>1, AtFacts
  <2> QED  BY <1>2, <1>4, <1>5, <2>1, <2>2, <2>3, ProcessStep
<1>11. ASSUME NEW s \in Servers, Restart(s) PROVE SuperInv'
  <2>1. /\ main = At("restart", s) /\ main' = At("wait", Nobody) /\ proc' = [proc EXCEPT ![s] = "booting"]
        /\ server_metas_' = server_metas_ \cup {s}
        /\ UNCHANGED <<dead_times, g_is_stop, now, deaths, clean>>
    BY <1>11 DEF Restart
  <2>2. /\ proc' \in [Servers -> Procs] /\ proc'[s] = "booting"
        /\ \A r \in Servers : r # s => proc'[r] = proc[r]
    BY <1>7, <2>1
  <2>3. main'.pc = "wait" /\ main.pc = "restart"  BY <2>1, AtFacts
  <2>4. \A r \in Servers : Len(dead_times[r]) > Intensity => GivenUp(r)'
    BY <1>3, <1>6, <2>1, <2>2, <2>3 DEF GivenUp
  <2>5. \A r \in Servers : proc'[r] # "none" <=> r \in server_metas_'
    BY <1>1, <2>1, <2>2, <2>3 DEF NoOrphans
  <2> QED  BY <1>2, <1>4, <1>5, <2>1, <2>2, <2>4, <2>5, ProcessStep
<1>12. ASSUME NEW s \in Servers, RestartFails(s) PROVE SuperInv'
  <2>1. /\ main = At("restart", s) /\ main' = At("wait", Nobody)
        /\ UNCHANGED <<server_metas_, dead_times, proc, g_is_stop, now, deaths, clean>>
    BY <1>12 DEF RestartFails
  <2>2. main'.pc = "wait" /\ main.pc = "restart"  BY <2>1, AtFacts
  <2>3. \A r \in Servers : Len(dead_times[r]) > Intensity => GivenUp(r)'
    BY <1>3, <1>6, <2>1, <2>2 DEF GivenUp
  <2>4. \A r \in Servers : proc[r] # "none" <=> r \in server_metas_
    BY <1>1, <2>2 DEF NoOrphans
  <2> QED  BY <1>2, <1>4, <1>5, <2>1, <2>3, <2>4, ProcessStep
<1>13. CASE AllGone
  <2>1. /\ main.pc = "wait" /\ main' = At("done", Nobody)
        /\ UNCHANGED <<server_metas_, dead_times, proc, g_is_stop, now, deaths, clean>>
    BY <1>13 DEF AllGone
  <2>2. main'.pc = "done"  BY <2>1, AtFacts
  <2>3. \A r : At("done", Nobody) # At("restart", r)  BY AtFacts
  <2>4. \A r \in Servers : Len(dead_times[r]) > Intensity => GivenUp(r)'
    BY <1>3, <2>1, <2>2, <2>3 DEF GivenUp
  <2>5. \A r \in Servers : proc[r] # "none" <=> r \in server_metas_
    BY <1>1, <2>1 DEF NoOrphans
  <2> QED  BY <1>2, <1>4, <1>5, <2>1, <2>4, <2>5, ProcessStep
<1>14. CASE AppSignalHandler
  <2> DEFINE p(s) == IF proc[s] = "running" THEN "stopping" ELSE proc[s]
  <2>1. /\ g_is_stop' \in BOOLEAN /\ clean' \in BOOLEAN /\ proc' = [s \in Servers |-> p(s)]
        /\ UNCHANGED <<server_metas_, dead_times, main, now, deaths>>
    BY <1>14 DEF AppSignalHandler
  <2>2. \A s \in Servers : p(s) \in Procs /\ (p(s) = "none" <=> proc[s] = "none")  BY <1>2
  <2> HIDE DEF p
  <2>3. proc' \in [Servers -> Procs] /\ \A s \in Servers : proc'[s] = "none" <=> proc[s] = "none"
    BY <2>1, <2>2
  <2>4. \A s \in Servers : Len(dead_times[s]) > Intensity => GivenUp(s)'
    BY <1>3, <2>1, <2>3 DEF GivenUp
  <2>5. main'.pc # "failed" => \A s \in Servers : proc'[s] # "none" <=> s \in server_metas_'
    BY <1>1, <2>1, <2>3 DEF NoOrphans
  <2> QED  BY <1>2, <1>4, <2>1, <2>3, <2>4, <2>5, ProcessStep
<1>15. ASSUME NEW s \in Servers, Child(s) PROVE SuperInv'
  <2>1. PICK x \in Procs \ {"none"} : proc' = [proc EXCEPT ![s] = x]
    BY <1>15 DEF Child, Boot, Stops, Dies, Statuses
  <2>2. /\ proc[s] # "none"
        /\ UNCHANGED <<server_metas_, dead_times, main, g_is_stop, now, deaths, clean>>
    BY <1>15 DEF Child, Boot, Stops, Dies
  <2>3. proc' \in [Servers -> Procs] /\ proc'[s] = x /\ \A r \in Servers : r # s => proc'[r] = proc[r]
    BY <1>7, <2>1
  <2>4. \A r \in Servers : Len(dead_times[r]) > Intensity => GivenUp(r)'
    BY <1>3, <2>2, <2>3 DEF GivenUp
  <2>5. main'.pc # "failed" => \A r \in Servers : proc'[r] # "none" <=> r \in server_metas_'
    BY <1>1, <2>2, <2>3 DEF NoOrphans
  <2> QED  BY <1>2, <1>4, <2>2, <2>3, <2>4, <2>5, ProcessStep
<1>16. CASE Tick
  <2>1. /\ now < MaxTime /\ now' = now + 1
        /\ UNCHANGED <<server_metas_, dead_times, proc, main, g_is_stop, deaths, clean>>
    BY <1>16 DEF Tick
  <2>2. now' \in 0..MaxTime /\ now <= now'  BY <1>2, <2>1
  <2>3. \A r \in Servers : Len(dead_times[r]) > Intensity => GivenUp(r)'
    BY <1>3, <2>1 DEF GivenUp
  <2>4. main'.pc # "failed" => \A r \in Servers : proc'[r] # "none" <=> r \in server_metas_'
    BY <1>1, <2>1 DEF NoOrphans
  <2> QED  BY <1>2, <2>1, <2>2, <2>3, <2>4, ProcessStep
<1>17. ASSUME NEW s \in Servers, NEW status \in Statuses, Reap(s, status) PROVE SuperInv'
  BY <1>17, ReapKeeps
<1> QED  BY <1>8, <1>9, <1>10, <1>11, <1>12, <1>13, <1>14, <1>15, <1>16, <1>17 DEF Next, Supervise

\* StartServers, SuperviseServers: for any servers and any limits the table of
\* servers knows every child, and no queue of deaths outgrows the limit.
THEOREM ChildrenCorrect == Spec => []ChildrenOK
<1>1. SuperInv => ChildrenOK  BY DEF SuperInv, ChildrenOK
<1> QED  BY <1>1, SuperInvInit, SuperInvNext, PTL DEF Spec

\* NeedRestart: although it drops at most one old death at a time, it gives a
\* server up exactly when more than Intensity deaths lie within one period.
THEOREM WindowCorrect == Spec => []WindowExact
<1>1. SuperInv => WindowExact
  <2> SUFFICES ASSUME SuperInv, NEW s \in Servers, deaths[s] # <<>>
               PROVE  Len(dead_times[s]) <= Intensity <=> Cardinality(Window(s)) <= Intensity
    BY DEF WindowExact
  <2>1. /\ dead_times[s] \in Seq(0..MaxTime) /\ deaths[s] \in Seq(0..MaxTime)
        /\ Queued(dead_times[s], deaths[s])
    BY DEF SuperInv, TypeOK, DeathsFit
  <2> QED  BY <2>1, WindowCounts DEF Window
<1> QED  BY <1>1, SuperInvInit, SuperInvNext, PTL DEF Spec
-----------------------------------------------------------------------------
(* The hash table: types.                                                  *)

Buckets == [hi : {Hi(k) : k \in Keys} \cup {0}, next : Ids, internal : BOOLEAN, size : 0..MaxSize,
            payload : Payloads]
CallPcs == {"enter", "create", "overwrite", "evict", "bypass_internal", "bypass_next", "move", "recheck",
            "link", "tail", "grow"}
MovePcs == {"find_parent", "optimize_internal", "optimize_next"}
Fields == {"lo", "hi", "key", "internal", "next"}
Works == [pc : {"idle", "stuck"} \cup CallPcs \cup MovePcs, key : Keys \cup {None}, payload : Payloads,
          slot : Ids \cup {None}, size_field : BOOLEAN \X (0..MaxSize), loc : Locations \cup {None},
          last : Locations \cup {None}, todo : SUBSET Fields]
Finds == [pc : {"idle", "begin", "compare", "advance", "payload", "check", "recheck"}, key : Keys \cup {None},
          i : Nat, size : 0..MaxSize, loc : Locations \cup {None}, link : Locations \cup {None},
          payload : Payloads \cup {NFOUND}, expect : SUBSET (Payloads \cup {NFOUND}), calm : BOOLEAN,
          shared : BOOLEAN]

\* What a call of the writer has found out by now.
WorkKnows ==
  /\ writer.pc \in CallPcs => writer.key \in Keys
  /\ writer.todo # {} => writer.key \in Keys /\ writer.loc \in Locations
  /\ "next" \in writer.todo => writer.slot \in Ids
  /\ writer.pc \in {"create", "bypass_internal", "bypass_next", "move"} \cup MovePcs => writer.loc \in Locations
  /\ writer.pc \in {"bypass_internal", "bypass_next", "link", "tail", "optimize_internal", "optimize_next"}
       => writer.last \in Locations
  /\ writer.pc \in {"link"} \cup MovePcs => writer.slot \in Ids
  /\ writer.pc = "evict" => root_id[Entry(writer.key)] \in Ids
  /\ writer.pc \in MovePcs => root_id[<<FALSE, writer.slot>>] \in Ids

FindKnows ==
  /\ Finding => reader.key \in Keys /\ reader.loc \in Locations
  /\ reader.pc = "advance" => reader.link \in Locations

MemoryType ==
  /\ bucket \in [Locations -> Buckets]
  /\ root_id \in [Locations -> Ids \cup {None}]
  /\ free_id_count \in 0..BucketCount

TableTypes ==
  /\ MemoryType /\ inserts \in 0..MaxInserts
  /\ writer \in Works /\ WorkKnows
  /\ reader \in Finds /\ FindKnows
  /\ content \in [Keys -> Payloads \cup {NFOUND}]

LEMMA TableTypesImply == TableTypes => TableTypeOK
BY DEF TableTypes, MemoryType, TableTypeOK, Buckets, Works, Finds

-----------------------------------------------------------------------------
LEMMA LeastNat ==
  ASSUME NEW T \in SUBSET Nat, T # {}
  PROVE  \E x \in T : \A y \in T : x <= y
<1> DEFINE R == OpToRel(<, Nat)
<1>1. IsWellFoundedOn(R, Nat)  BY NatLessThanWellFounded
<1>2. R = {ss \in Nat \X Nat : ss[1] < ss[2]}  BY DEF OpToRel
<1> HIDE DEF R
<1>3. PICK x \in T : \A y \in T : ~(<<y, x>> \in R)  BY <1>1, WFMin
<1>4. ASSUME NEW y \in T, y < x PROVE FALSE
  <2> DEFINE yx == <<y, x>>
  <2>1. yx \in Nat \X Nat /\ yx[1] = y /\ yx[2] = x  OBVIOUS
  <2>2. yx \in R
    <3> HIDE DEF yx
    <3> QED  BY <1>2, <1>4, <2>1
  <2> QED  BY <1>3, <2>2
<1>5. \A y \in T : x <= y  BY <1>4
<1> QED  BY <1>5

\* The first n + 1 places of a walk along next from e.
Begun(S, e, next, n) == {g \in [0..n -> S] : g[0] = e /\ \A i \in 1..n : g[i] = next[g[i - 1]]}

LEMMA BegunExists ==
  ASSUME NEW S, NEW e \in S, NEW next \in [S -> S], NEW n \in Nat
  PROVE  Begun(S, e, next, n) # {}
<1> DEFINE T == {m \in Nat : Begun(S, e, next, m) = {}}
<1> SUFFICES ASSUME T # {} PROVE FALSE
  OBVIOUS
<1>1. PICK m \in T : \A y \in T : m <= y
  BY LeastNat
<1>2. CASE m = 0
  <2> DEFINE g == [i \in 0..0 |-> e]
  <2>1. g \in [0..0 -> S] /\ g[0] = e /\ \A i \in 1..0 : g[i] = next[g[i - 1]]
    OBVIOUS
  <2> HIDE DEF g
  <2>2. g \in Begun(S, e, next, 0)
    BY <2>1 DEF Begun
  <2> QED BY <1>1, <1>2, <2>2
<1>3. CASE m # 0
  <2>1. m - 1 \in Nat /\ m - 1 \notin T
    BY <1>1, <1>3
  <2>2. PICK h : h \in Begun(S, e, next, m - 1)
    BY <2>1
  <2>3. h \in [0..(m - 1) -> S] /\ h[0] = e /\ \A i \in 1..(m - 1) : h[i] = next[h[i - 1]]
    BY <2>2 DEF Begun
  <2> DEFINE g == [i \in 0..m |-> IF i = m THEN next[h[m - 1]] ELSE h[i]]
  <2>4. h[m - 1] \in S
    BY <1>3, <2>1, <2>3
  <2>5. g \in [0..m -> S]
    BY <1>1, <1>3, <2>3, <2>4
  <2>6. g[0] = e
    BY <1>1, <1>3, <2>3
  <2>7. ASSUME NEW i \in 1..m PROVE g[i] = next[g[i - 1]]
    <3>1. i - 1 \in 0..(m - 1) /\ i - 1 \in 0..m /\ i \in 0..m
      BY <1>1, <2>7
    <3>2. g[i - 1] = h[i - 1]
      BY <1>1, <3>1
    <3>3. CASE i = m
      BY <3>1, <3>2, <3>3
    <3>4. CASE i # m
      <4>1. i \in 1..(m - 1)
        BY <1>1, <2>7, <3>4
      <4> QED BY <2>3, <3>1, <3>2, <3>4, <4>1
    <3> QED BY <3>3, <3>4
  <2> HIDE DEF g
  <2>8. g \in Begun(S, e, next, m)
    BY <2>5, <2>6, <2>7 DEF Begun
  <2> QED BY <1>1, <2>8
<1> QED BY <1>2, <1>3

LEMMA BegunAgree ==
  ASSUME NEW S, NEW e \in S, NEW next \in [S -> S], NEW n \in Nat, NEW m \in Nat,
         NEW g \in Begun(S, e, next, n), NEW h \in Begun(S, e, next, m), NEW i \in Nat, i <= n, i <= m
  PROVE  g[i] = h[i]
<1> DEFINE T == {j \in Nat : j <= n /\ j <= m /\ g[j] # h[j]}
<1> SUFFICES ASSUME T # {} PROVE FALSE
  OBVIOUS
<1>1. PICK j \in T : \A y \in T : j <= y
  BY LeastNat
<1>2. j # 0
  BY <1>1 DEF Begun
<1>3. j - 1 \in Nat /\ j - 1 \notin T /\ j - 1 <= n /\ j - 1 <= m /\ j \in 1..n /\ j \in 1..m
  BY <1>1, <1>2
<1>4. g[j - 1] = h[j - 1]
  BY <1>3
<1>5. g[j] = next[g[j - 1]] /\ h[j] = next[h[j - 1]]
  BY <1>3 DEF Begun
<1> QED BY <1>1, <1>4, <1>5

LEMMA Iterates ==
  ASSUME NEW S, NEW e \in S, NEW next \in [S -> S]
  PROVE  \E f \in [Nat -> S] : f[0] = e /\ \A i \in Nat \ {0} : f[i] = next[f[i - 1]]
<1> DEFINE G(n) == CHOOSE g : g \in Begun(S, e, next, n)
           f == [i \in Nat |-> G(i)[i]]
<1>1. ASSUME NEW n \in Nat PROVE G(n) \in Begun(S, e, next, n)
  <2>1. Begun(S, e, next, n) # {}
    BY BegunExists
  <2>2. \E g : g \in Begun(S, e, next, n)
    BY <2>1
  <2> QED BY <2>2
<1> HIDE DEF G
<1>2. ASSUME NEW n \in Nat PROVE G(n)[n] \in S
  <2>1. G(n) \in [0..n -> S]
    BY <1>1 DEF Begun
  <2> QED BY <2>1
<1>3. f \in [Nat -> S]
  BY <1>2
<1>4. f[0] = e
  BY <1>1 DEF Begun
<1>5. ASSUME NEW i \in Nat \ {0} PROVE f[i] = next[f[i - 1]]
  <2>1. i - 1 \in Nat /\ i \in 1..i /\ i - 1 <= i /\ i - 1 <= i - 1 /\ i \in Nat
    BY <1>5
  <2>2. G(i)[i] = next[G(i)[i - 1]]
    BY <1>1, <2>1 DEF Begun
  <2>3. G(i)[i - 1] = G(i - 1)[i - 1]
    BY <1>1, <2>1, BegunAgree
  <2> QED BY <2>1, <2>2, <2>3
<1> QED BY <1>3, <1>4, <1>5

\* The walk from a managed bucket: the definition has a solution.
LEMMA WalkFacts ==
  ASSUME MemoryType, NEW id \in Ids
  PROVE  /\ Walk(id)[0] = <<TRUE, id>>
         /\ \A i \in Nat : Walk(id)[i] \in Locations
         /\ \A i \in Nat \ {0} : Walk(id)[i] = NextBucket(Walk(id)[i - 1])
<1> DEFINE nx == [l \in Locations |-> NextBucket(l)]
           Steps(f) == f = [i \in Nat |-> IF i = 0 THEN <<TRUE, id>> ELSE NextBucket(f[i - 1])]
<1>1. nx \in [Locations -> Locations] /\ <<TRUE, id>> \in Locations
  BY DEF MemoryType, Buckets, NextBucket, Locations
<1>a. \A l \in Locations : nx[l] = NextBucket(l)
  OBVIOUS
<1> DEFINE e == <<TRUE, id>>
<1>b. e \in Locations
  BY <1>1
<1> HIDE DEF nx, e, Steps
<1>c. \E f \in [Nat -> Locations] : f[0] = e /\ \A i \in Nat \ {0} : f[i] = nx[f[i - 1]]
  BY <1>1, <1>b, Iterates
<1>2. PICK f \in [Nat -> Locations] : f[0] = e /\ \A i \in Nat \ {0} : f[i] = nx[f[i - 1]]
  BY <1>c
<1> USE DEF e, Steps
<1>3. ASSUME NEW i \in Nat \ {0} PROVE i - 1 \in Nat /\ f[i] = NextBucket(f[i - 1])
  <2>1. i - 1 \in Nat
    OBVIOUS
  <2>2. f[i - 1] \in Locations
    BY <2>1
  <2>3. f[i] = nx[f[i - 1]]
    BY <1>2
  <2> QED BY <1>a, <2>1, <2>2, <2>3
<1>4. Steps(f)
  <2>1. ASSUME NEW i \in Nat PROVE f[i] = IF i = 0 THEN <<TRUE, id>> ELSE NextBucket(f[i - 1])
    BY <1>2, <1>3
  <2> QED BY <1>2, <2>1
<1>5. Walk(id) = CHOOSE g : Steps(g)
  BY DEF Walk
<1> DEFINE w == Walk(id)
<1>6. w = [i \in Nat |-> IF i = 0 THEN <<TRUE, id>> ELSE NextBucket(w[i - 1])]
  BY <1>4, <1>5
<1> HIDE DEF w, Steps
<1>7. w[0] = <<TRUE, id>> /\ \A i \in Nat \ {0} : w[i] = NextBucket(w[i - 1])
  BY <1>6
<1>8. \A i \in Nat : w[i] = f[i]
  <2> DEFINE T == {j \in Nat : w[j] # f[j]}
  <2> SUFFICES ASSUME T # {} PROVE FALSE
    OBVIOUS
  <2>1. PICK j \in T : \A y \in T : j <= y
    BY LeastNat
  <2>2. j # 0
    BY <1>2, <1>7, <2>1
  <2>3. j - 1 \in Nat /\ j - 1 \notin T /\ j \in Nat \ {0}
    BY <2>1, <2>2
  <2>4. w[j - 1] = f[j - 1]
    BY <2>3
  <2> QED BY <1>3, <1>7, <2>1, <2>3, <2>4
<1>9. \A i \in Nat : w[i] \in Locations
  BY <1>2, <1>8
<1> QED BY <1>7, <1>9 DEF w

-----------------------------------------------------------------------------
(* The chains, as long as no bucket was displaced.  c is what they are: the  *)
(* i-th bucket of the chain of id is c[id][i].                              *)

Chains == [Ids -> [Nat -> Locations]]

\* The bucket of id has a size, but no root node yet.
Creating(id) == writer.pc = "create" /\ writer.key[2] = id

\* The chain of id has an i-th bucket.
Place(id, i) == i < bucket[<<TRUE, id>>].size /\ ~Creating(id)

Rooted(c) == \A id \in Ids : c[id][0] = <<TRUE, id>>

\* Every bucket of a chain knows its root, and the first one has the size.
Knows(c) ==
  \A id \in Ids, i \in Nat :
    Place(id, i) => /\ root_id[c[id][i]] = id /\ Valid(c[id][i])
                    /\ i # 0 => bucket[c[id][i]].size = 0

Once(c) ==
  \A id \in Ids, i, j \in Nat : Place(id, i) /\ Place(id, j) /\ c[id][i] = c[id][j] => i = j

KeysOnce(c) ==
  \A id \in Ids, i, j \in Nat :
    Place(id, i) /\ Place(id, j) /\ bucket[c[id][i]].hi = bucket[c[id][j]].hi => i = j

Linked(c) ==
  \A id \in Ids, i \in Nat : Place(id, i + 1) => Published(c[id][i]) = c[id][i + 1]

\* A root without a chain does not point into the managed buckets.
Plain == \A id \in Ids : bucket[<<TRUE, id>>].size = 1 => ~bucket[<<TRUE, id>>].internal

Overwriting(k) == writer.pc = "overwrite" /\ writer.key = k

Holds(c) ==
  /\ \A k \in Keys, i \in Nat :
       Place(k[2], i) /\ bucket[c[k[2]][i]].hi = Hi(k) /\ ~Overwriting(k)
         => content[k] = bucket[c[k[2]][i]].payload
  /\ \A k \in Keys : (\A i \in Nat : Place(k[2], i) => bucket[c[k[2]][i]].hi # Hi(k)) => content[k] = NFOUND

Hanging == writer.pc \in {"link", "tail", "grow"}

\* A free bucket that has a root is in its chain, or going to be.
Found(c, f, r) ==
  /\ f < free_id_count
  /\ \/ Hanging /\ writer.slot = f
     \/ \E i \in Nat \ {0} : Place(r, i) /\ c[r][i] = <<FALSE, f>>
Owned(c) == \A f \in Ids : root_id[<<FALSE, f>>] # None => Found(c, f, root_id[<<FALSE, f>>])

\* The payload is written so far as todo says.
Written(l) ==
  /\ "lo" \notin writer.todo => bucket[l].payload[1] = writer.payload[1]
  /\ "hi" \notin writer.todo => bucket[l].payload[2] = writer.payload[2]

Creates ==
  writer.pc = "create" =>
    LET l == writer.loc IN
    /\ l = Entry(writer.key) /\ bucket[l].size = 1 /\ root_id[l] = None
    /\ writer.todo \in SUBSET {"lo", "hi", "key"}
    /\ Written(l)
    /\ "key" \notin writer.todo => bucket[l].hi = Hi(writer.key)

Overwrites(c) ==
  writer.pc = "overwrite" =>
    LET id == writer.key[2] IN
    /\ writer.todo \in SUBSET {"lo", "hi"}
    /\ Written(writer.loc)
    /\ \E i \in Nat : Place(id, i) /\ writer.loc = c[id][i] /\ bucket[c[id][i]].hi = Hi(writer.key)

Hangs(c) ==
  Hanging =>
    LET id == writer.key[2]
        f == <<FALSE, writer.slot>>
        n == bucket[<<TRUE, id>>].size
    IN  /\ n # 0 /\ writer.slot \in Ids /\ writer.slot < free_id_count
        /\ SizeField(<<TRUE, id>>) = writer.size_field /\ writer.size_field # <<TRUE, MaxSize>>
        /\ bucket[f] = NewNode(writer.key) /\ root_id[f] = id
        /\ \A i \in Nat : Place(id, i) => c[id][i] # f /\ bucket[c[id][i]].hi # Hi(writer.key)
        /\ writer.last = c[id][n - 1]
        /\ writer.pc \in {"tail", "grow"} => bucket[writer.last].next = writer.slot
        /\ writer.pc = "grow" => ~bucket[writer.last].internal

Moves(c) ==
  writer.pc \in MovePcs =>
    LET f == <<FALSE, writer.slot>>
        r == root_id[f]
        l == writer.loc
    IN  /\ l[1] /\ root_id[l] = r /\ bucket[l] = bucket[f]
        /\ \A i \in Nat : Place(r, i) => c[r][i] # l
        /\ writer.pc # "find_parent" =>
             \E i \in Nat : Place(r, i + 1) /\ writer.last = c[r][i] /\ c[r][i + 1] = f
        /\ writer.pc = "optimize_next" => bucket[writer.last].internal

\* Where a call can be as long as no bucket was displaced.
Straight ==
  /\ writer.pc \in {"idle", "enter", "create", "overwrite", "link", "tail", "grow"} \cup MovePcs
  /\ writer.pc = "enter" => writer.slot = None
  /\ writer.pc \notin {"create", "overwrite"} => writer.todo = {}

\* Insert sees that a chain is full: size_field is UINT8_MAX only if the flag next
\* to the size is set.  If it is not set, Grow runs into it.
RoomLeft == \A id \in Ids : bucket[<<TRUE, id>>].size = MaxSize => bucket[<<TRUE, id>>].internal

ChainsHold(c) ==
  /\ c \in Chains /\ Rooted(c)
  /\ Knows(c) /\ Once(c) /\ KeysOnce(c) /\ Linked(c) /\ Plain /\ Holds(c) /\ Owned(c)
  /\ Creates /\ Overwrites(c) /\ Hangs(c) /\ Moves(c) /\ Straight

-----------------------------------------------------------------------------
(* Types.                                                                  *)

LEMMA KeyFacts ==
  ASSUME NEW k \in Keys
  PROVE  k[1] \in Nat /\ k[2] \in Ids /\ k = <<k[1], k[2]>> /\ Entry(k) \in Locations
<1>1. k \in Nat \X (0..BucketCount-1)
  BY QedTableAssumption
<1>2. k[1] \in Nat /\ k[2] \in 0..BucketCount-1 /\ k = <<k[1], k[2]>>
  BY <1>1
<1> QED BY <1>2 DEF Ids, Locations, Entry

LEMMA IdFacts ==
  ASSUME NEW id \in Ids
  PROVE  id \in Nat /\ id # None /\ <<TRUE, id>> \in Locations /\ <<FALSE, id>> \in Locations
<1>1. id \in 0..BucketCount-1 /\ BucketCount \in Nat
  BY QedTableAssumption DEF Ids
<1>2. id \in Nat
  BY <1>1
<1>3. id # None
  BY <1>2, QedTableAssumption
<1>4. <<TRUE, id>> \in Locations /\ <<FALSE, id>> \in Locations
  BY DEF Locations
<1> QED BY <1>2, <1>3, <1>4

LEMMA LocationFacts ==
  ASSUME NEW l \in Locations
  PROVE  l[1] \in BOOLEAN /\ l[2] \in Ids /\ l = <<l[1], l[2]>>
BY DEF Locations

LEMMA PayloadFacts ==
  /\ Blank \in Payloads
  /\ \A n \in 0..MaxInserts : <<n, n>> \in Payloads
  /\ \A p \in Payloads : p[1] \in 0..MaxInserts /\ p[2] \in 0..MaxInserts /\ p = <<p[1], p[2]>>
  /\ \A p, q \in Payloads : [p EXCEPT ![1] = q[1]] \in Payloads /\ [p EXCEPT ![2] = q[2]] \in Payloads
BY QedTableAssumption DEF Payloads, Blank

LEMMA NextBucketType ==
  ASSUME MemoryType, NEW l \in Locations
  PROVE  NextBucket(l) \in Locations /\ SizeField(l) \in BOOLEAN \X (0..MaxSize)
BY DEF MemoryType, Buckets, NextBucket, SizeField, Locations

LEMMA NoWorkType == NoWork \in Works
<1>1. Blank \in Payloads
  BY PayloadFacts
<1>2. 0 \in 0..MaxSize
  BY DEF MaxSize
<1>3. <<FALSE, 0>> \in BOOLEAN \X (0..MaxSize)
  BY <1>2
<1> QED BY <1>1, <1>3 DEF NoWork, Works

LEMMA NoFindType == NoFind \in Finds
BY PayloadFacts DEF NoFind, Finds, MaxSize

LEMMA TypesInit == TableInit => TableTypes
<1> SUFFICES ASSUME TableInit PROVE TableTypes
  OBVIOUS
<1>1. 0 \in Ids /\ 0 \in 0..MaxSize
  BY QedTableAssumption DEF Ids, MaxSize
<1>2. [hi |-> 0, next |-> 0, internal |-> FALSE, size |-> 0, payload |-> Blank] \in Buckets
  BY <1>1, PayloadFacts DEF Buckets
<1>3. MemoryType
  BY <1>2, QedTableAssumption DEF MemoryType, TableInit
<1>4. WorkKnows
  BY DEF TableInit, NoWork, WorkKnows, CallPcs, MovePcs
<1>5. FindKnows
  BY DEF TableInit, NoFind, FindKnows, Finding
<1> QED BY <1>3, <1>4, <1>5, NoWorkType, NoFindType, QedTableAssumption DEF TableTypes, TableInit

\* What a store makes of a bucket.
LEMMA StoredType ==
  ASSUME MemoryType, writer \in Works, writer.key \in Keys, NEW b \in Buckets, NEW f \in Fields,
         f = "next" => writer.slot \in Ids
  PROVE  Stored(b, f) \in Buckets
<1>1. writer.payload \in Payloads /\ b.payload \in Payloads
  BY DEF Works, Buckets
<1>2. [b.payload EXCEPT ![1] = writer.payload[1]] \in Payloads /\ [b.payload EXCEPT ![2] = writer.payload[2]] \in Payloads
  BY <1>1, PayloadFacts
<1>3. CASE f = "lo"
  <2>1. Stored(b, f) = [b EXCEPT !.payload = [b.payload EXCEPT ![1] = writer.payload[1]]]
    BY <1>3 DEF Stored
  <2> QED BY <1>2, <2>1 DEF Buckets
<1>4. CASE f = "hi"
  <2>1. Stored(b, f) = [b EXCEPT !.payload = [b.payload EXCEPT ![2] = writer.payload[2]]]
    BY <1>4 DEF Stored
  <2> QED BY <1>2, <2>1 DEF Buckets
<1>5. CASE f = "key"
  <2>1. Stored(b, f) = [b EXCEPT !.hi = Hi(writer.key), !.next = writer.key[2]]
    BY <1>5 DEF Stored
  <2> QED BY KeyFacts, <2>1 DEF Buckets
<1>6. CASE f = "internal"
  <2>1. Stored(b, f) = [b EXCEPT !.internal = FALSE]
    BY <1>6 DEF Stored
  <2> QED BY <2>1 DEF Buckets
<1>7. CASE f = "next"
  <2>1. Stored(b, f) = [b EXCEPT !.next = writer.slot]
    BY <1>7 DEF Stored
  <2> QED BY <1>7, <2>1 DEF Buckets
<1> QED BY <1>3, <1>4, <1>5, <1>6, <1>7 DEF Fields

LEMMA LeastIn ==
  ASSUME NEW T \in SUBSET Nat, T # {}
  PROVE  LET x == CHOOSE x \in T : \A y \in T : x <= y IN x \in T /\ \A y \in T : x <= y
BY LeastNat

LEMMA GreatestIn ==
  ASSUME NEW n \in Nat, NEW T \in SUBSET (0..n), T # {}
  PROVE  LET x == CHOOSE x \in T : \A y \in T : y <= x IN x \in T /\ \A y \in T : y <= x
<1> DEFINE U == {u \in 0..n : n - u \in T}
<1>1. U # {}
  <2>1. PICK t : t \in T
    OBVIOUS
  <2>2. n - t \in 0..n /\ n - (n - t) = t
    BY <2>1
  <2> QED BY <2>1, <2>2
<1>2. U \in SUBSET Nat
  OBVIOUS
<1> HIDE DEF U
<1>3. PICK u \in U : \A v \in U : u <= v
  BY <1>1, <1>2, LeastNat
<1> USE DEF U
<1>4. u \in 0..n /\ n - u \in T
  BY <1>3
<1>5. ASSUME NEW y \in T PROVE y <= n - u
  <2>1. y \in 0..n /\ n - y \in 0..n /\ n - (n - y) = y
    OBVIOUS
  <2>2. u <= n - y
    BY <1>3, <2>1
  <2> QED BY <1>4, <2>1, <2>2
<1> HIDE DEF U
<1>6. \E x \in T : \A y \in T : y <= x
  BY <1>4, <1>5
<1> QED BY <1>6

ReaderType == reader \in Finds /\ FindKnows
ContentType == content \in [Keys -> Payloads \cup {NFOUND}]
WriterType == writer \in Works /\ WorkKnows /\ inserts \in 0..MaxInserts

LEMMA TypesParts == TableTypes <=> MemoryType /\ WriterType /\ ReaderType /\ ContentType
BY DEF TableTypes, WriterType, ReaderType, ContentType

LEMMA TypesPartsNext == TableTypes' <=> MemoryType' /\ WriterType' /\ ReaderType' /\ ContentType'
BY DEF TableTypes, WriterType, ReaderType, ContentType

LEMMA ReaderKept == ReaderType /\ UNCHANGED reader => ReaderType'
BY DEF ReaderType, Finds, FindKnows, Finding

LEMMA ContentKept == ContentType /\ UNCHANGED content => ContentType'
BY DEF ContentType

LEMMA MemoryKept == MemoryType /\ UNCHANGED <<bucket, root_id, free_id_count>> => MemoryType'
BY DEF MemoryType

LEMMA ObserveStoresType ==
  ASSUME ReaderType, writer \in Works, NEW l, NEW creates \in BOOLEAN, ObserveStores(l, creates)
  PROVE  ReaderType'
<1>1. writer.payload \in Payloads
  BY DEF Works
<1>2. Shared \in Finds
  BY <1>1 DEF Shared, ReaderType, Finds
<1>3. [reader EXCEPT !.calm = FALSE] \in Finds
  BY DEF ReaderType, Finds
<1>4. reader' \in {reader, Shared, [reader EXCEPT !.calm = FALSE]}
  BY DEF ObserveStores
<1>5. reader' \in Finds
  BY <1>2, <1>3, <1>4 DEF ReaderType
<1>6. reader'.pc = reader.pc /\ reader'.key = reader.key /\ reader'.loc = reader.loc /\ reader'.link = reader.link
  BY <1>4 DEF Shared, ReaderType, Finds
<1> QED BY <1>5, <1>6 DEF ReaderType, FindKnows, Finding

LEMMA ObserveContentType ==
  ASSUME ReaderType, ContentType, writer \in Works, writer.key \in Keys, ObserveContent
  PROVE  ReaderType' /\ ContentType'
<1>1. writer.payload \in Payloads
  BY DEF Works
<1> DEFINE seen == [reader EXCEPT !.expect = @ \cup {writer.payload}]
<1>2. seen \in Finds
  BY <1>1 DEF ReaderType, Finds
<1>4. reader' \in {reader, seen}
  BY DEF ObserveContent
<1>5. reader' \in Finds
  BY <1>2, <1>4 DEF ReaderType
<1>6. reader'.pc = reader.pc /\ reader'.key = reader.key /\ reader'.loc = reader.loc /\ reader'.link = reader.link
  BY <1>4 DEF ReaderType, Finds
<1>7. ReaderType'
  BY <1>5, <1>6 DEF ReaderType, FindKnows, Finding
<1>8. ContentType'
  BY <1>1 DEF ObserveContent, ContentType
<1> QED BY <1>7, <1>8

LEMMA NoWorkKnows == writer' = NoWork => writer' \in Works /\ WorkKnows'
BY NoWorkType DEF NoWork, WorkKnows, CallPcs, MovePcs

LEMMA TypesInsert ==
  ASSUME TableTypes, NEW k \in Keys, Insert(k) PROVE TableTypes'
<1> USE TypesParts
<1>1. inserts + 1 \in 0..MaxInserts /\ inserts' = inserts + 1
  BY QedTableAssumption DEF Insert, WriterType
<1>2. <<inserts + 1, inserts + 1>> \in Payloads
  BY <1>1, PayloadFacts
<1> DEFINE w == [NoWork EXCEPT !.pc = "enter", !.key = k, !.payload = <<inserts + 1, inserts + 1>>]
<1>3. w \in Works
  BY <1>2, NoWorkType DEF Works, CallPcs
<1>4. w.pc = "enter" /\ w.key = k /\ w.todo = {}
  BY DEF NoWork
<1>5. writer' = w
  BY DEF Insert
<1> HIDE DEF w
<1>6. WorkKnows'
  BY <1>4, <1>5 DEF WorkKnows, CallPcs, MovePcs
<1>7. WriterType'
  BY <1>1, <1>3, <1>5, <1>6 DEF WriterType
<1>8. UNCHANGED <<bucket, root_id, free_id_count, reader, content>>
  BY DEF Insert
<1> QED BY <1>7, <1>8, MemoryKept, ReaderKept, ContentKept, TypesPartsNext

LEMMA SizesType == 0 \in 0..MaxSize /\ 1 \in 0..MaxSize /\ \A n \in 0..MaxSize : n \in Nat
BY DEF MaxSize

LEMMA BucketType == ASSUME MemoryType, NEW l \in Locations PROVE bucket[l] \in Buckets
BY DEF MemoryType

LEMMA StoreType ==
  ASSUME MemoryType, NEW l \in Locations, NEW b \in Buckets, bucket' = [bucket EXCEPT ![l] = b],
         UNCHANGED <<root_id, free_id_count>>
  PROVE  MemoryType'
BY DEF MemoryType

LEMMA TypesClaim ==
  ASSUME TableTypes, Claim PROVE TableTypes'
<1> USE TypesParts
<1> DEFINE entry == Entry(writer.key)
           b == [bucket[entry] EXCEPT !.internal = FALSE, !.size = 1]
           foreign == root_id[entry] # None
           todo == IF foreign THEN {} ELSE {"lo", "hi", "key"}
           pc == IF foreign THEN "evict" ELSE "create"
           w == [writer EXCEPT !.pc = pc, !.size_field = SizeField(entry), !.loc = entry, !.todo = todo]
<1>1. writer.key \in Keys /\ writer.pc = "enter"
  BY DEF Claim, WriterType, WorkKnows, CallPcs
<1>2. entry \in Locations
  BY <1>1, KeyFacts
<1>3. b \in Buckets /\ bucket' = [bucket EXCEPT ![entry] = b]
  <2>1. bucket[entry] \in Buckets
    BY <1>2, BucketType
  <2>2. b \in Buckets
    BY <2>1, SizesType DEF Buckets
  <2> QED BY <2>2 DEF Claim
<1>4. MemoryType'
  BY <1>2, <1>3, StoreType DEF Claim
<1>5. SizeField(entry) \in BOOLEAN \X (0..MaxSize)
  BY <1>2, NextBucketType
<1>6. todo \in SUBSET Fields /\ pc \in CallPcs
  BY DEF Fields, CallPcs
<1>7. writer' = w
  BY DEF Claim
<1>8. root_id[entry] \in Ids \cup {None}
  BY <1>2 DEF MemoryType
<1>h. pc \in {"evict", "create"} /\ (pc = "evict" => root_id[entry] \in Ids /\ todo = {})
      /\ todo \in SUBSET {"lo", "hi", "key"}
  BY <1>8
<1> HIDE DEF todo, pc
<1>9. w \in Works
  <2>1. writer \in Works
    BY DEF WriterType
  <2> HIDE DEF entry
  <2> QED BY <1>2, <1>5, <1>6, <2>1 DEF Works
<1>10. w.pc = pc /\ w.key = writer.key /\ w.loc = entry /\ w.todo = todo
  BY DEF WriterType, Works
<1> HIDE DEF w, entry
<1>11. WorkKnows'
  <2>1. UNCHANGED root_id
    BY DEF Claim
  <2>2. root_id[Entry(writer.key)] = root_id[entry]
    BY DEF entry
  <2> QED BY <1>1, <1>2, <1>7, <1>h, <1>10, <2>1, <2>2 DEF WorkKnows, CallPcs, MovePcs
<1>12. WriterType'
  BY <1>7, <1>9, <1>11 DEF WriterType, Claim
<1>13. ReaderType'
  BY ObserveStoresType DEF Claim, WriterType
<1>14. ContentType'
  BY ContentKept DEF Claim
<1> QED BY <1>4, <1>12, <1>13, <1>14, TypesPartsNext

LEMMA TypesStore ==
  ASSUME TableTypes, NEW f \in Fields, Store(f) PROVE TableTypes'
<1> USE TypesParts
<1>1. f \in writer.todo /\ writer \in Works
  BY DEF Store, WriterType
<1>2. writer.key \in Keys /\ writer.loc \in Locations /\ (f = "next" => writer.slot \in Ids)
  BY <1>1 DEF WriterType, WorkKnows
<1>3. bucket[writer.loc] \in Buckets
  BY <1>2, BucketType
<1>4. Stored(bucket[writer.loc], f) \in Buckets
  BY <1>1, <1>2, <1>3, StoredType
<1>5. MemoryType'
  <2>1. bucket' = [bucket EXCEPT ![writer.loc] = Stored(bucket[writer.loc], f)]
    BY DEF Store
  <2> QED BY <1>2, <1>4, <2>1, StoreType DEF Store
<1>6. writer' = [writer EXCEPT !.todo = writer.todo \ {f}] /\ UNCHANGED <<root_id, inserts, reader, content>>
  BY DEF Store
<1>7. writer' \in Works
  BY <1>1, <1>6 DEF Works
<1>8. /\ writer'.pc = writer.pc /\ writer'.key = writer.key /\ writer'.slot = writer.slot /\ writer'.loc = writer.loc
      /\ writer'.last = writer.last /\ writer'.todo = writer.todo \ {f}
  BY <1>1, <1>6 DEF Works
<1>9. WorkKnows'
  BY <1>6, <1>8 DEF WriterType, WorkKnows
<1>10. WriterType'
  BY <1>6, <1>7, <1>9 DEF WriterType
<1> QED BY <1>5, <1>6, <1>10, ReaderKept, ContentKept, TypesPartsNext

LEMMA TypesFinish ==
  ASSUME TableTypes, Finish PROVE TableTypes'
<1> USE TypesParts
<1>1. writer \in Works /\ writer.key \in Keys
  BY DEF Finish, WriterType, WorkKnows, CallPcs
<1>2. ReaderType' /\ ContentType'
  BY <1>1, ObserveContentType DEF Finish
<1>3. WriterType'
  BY NoWorkKnows DEF WriterType, Finish
<1>4. MemoryType'
  <2>1. CASE writer.pc = "create"
    <3>1. writer.loc \in Locations
      BY <2>1 DEF WriterType, WorkKnows
    <3>2. writer.loc[2] \in Ids
      BY <3>1, LocationFacts
    <3> QED BY <2>1, <3>1, <3>2 DEF Finish, MemoryType
  <2>2. CASE writer.pc # "create"
    BY <2>2 DEF Finish, MemoryType
  <2> QED BY <2>1, <2>2
<1> QED BY <1>2, <1>3, <1>4, TypesPartsNext

\* The steps that change a few fields of the writer.
LEMMA PcType ==
  ASSUME writer \in Works, NEW pc \in CallPcs \cup MovePcs \cup {"idle", "stuck"},
         writer' = [writer EXCEPT !.pc = pc]
  PROVE  /\ writer' \in Works
         /\ writer'.pc = pc /\ writer'.key = writer.key /\ writer'.slot = writer.slot /\ writer'.loc = writer.loc
         /\ writer'.last = writer.last /\ writer'.todo = writer.todo
BY DEF Works

LEMMA TypesEvict ==
  ASSUME TableTypes, Evict PROVE TableTypes'
<1> USE TypesParts
<1> DEFINE entry == Entry(writer.key)
           id == root_id[entry]
           root == <<TRUE, id>>
           size == bucket[root].size
           parents == Parents(entry[2], size)
           parent == CHOOSE i \in parents : \A j \in parents : j <= i
           w == [writer EXCEPT !.pc = "bypass_internal", !.last = Walk(root[2])[parent],
                               !.loc = Walk(root[2])[size - 1]]
<1>1. writer \in Works /\ writer.key \in Keys /\ id \in Ids /\ inserts \in 0..MaxInserts /\ writer.pc = "evict"
  BY DEF Evict, WriterType, WorkKnows, CallPcs
<1>2. root \in Locations /\ entry \in Locations /\ root[2] = id
  BY <1>1, IdFacts, KeyFacts
<1>3. bucket[root] \in Buckets
  BY <1>2, BucketType
<1>4. size \in 0..MaxSize
  BY <1>3 DEF Buckets
<1>5. UNCHANGED <<root_id, free_id_count, reader, content, inserts>>
  BY DEF Evict
<1>6. CASE Fail /\ UNCHANGED bucket
  <2>1. WriterType'
    BY <1>1, <1>5, <1>6, NoWorkKnows DEF WriterType, Fail
  <2> QED BY <1>5, <1>6, <2>1, MemoryKept, ReaderKept, ContentKept, TypesPartsNext
<1>7. CASE writer' = [writer EXCEPT !.pc = "enter"] /\ UNCHANGED bucket
  <2>1. "enter" \in CallPcs
    BY DEF CallPcs
  <2>2. /\ writer' \in Works
        /\ writer'.pc = "enter" /\ writer'.key = writer.key /\ writer'.slot = writer.slot /\ writer'.loc = writer.loc
        /\ writer'.last = writer.last /\ writer'.todo = writer.todo
    BY <1>1, <1>7, <2>1, PcType
  <2>3. WorkKnows'
    BY <1>1, <1>5, <2>2 DEF WriterType, WorkKnows, CallPcs, MovePcs
  <2> QED BY <1>1, <1>5, <1>7, <2>2, <2>3, MemoryKept, ReaderKept, ContentKept, TypesPartsNext DEF WriterType
<1>8. CASE size >= 2 /\ parents # {} /\ writer' = w /\ bucket' = [bucket EXCEPT ![root].size = size - 1]
  <2>0. size >= 2
    BY <1>8
  <2>1. size - 1 \in 0..MaxSize /\ size - 1 \in Nat /\ size - 2 \in Nat
    <3>1. \A n \in 0..MaxSize : n >= 2 => n - 1 \in 0..MaxSize /\ n - 1 \in Nat /\ n - 2 \in Nat
      BY DEF MaxSize
    <3> HIDE DEF size
    <3> QED BY <1>4, <2>0, <3>1
  <2>2. parents \in SUBSET (0..size-2)
    BY DEF Parents
  <2>3. parent \in parents
    <3> HIDE DEF parents, size
    <3> QED BY <1>8, <2>1, <2>2, GreatestIn
  <2>4. parent \in Nat
    <3> HIDE DEF parent, parents, size
    <3>1. parent \in 0..size-2
      BY <2>2, <2>3
    <3> QED BY <2>1, <3>1
  <2> HIDE DEF parent, parents
  <2>5. Walk(root[2])[parent] \in Locations /\ Walk(root[2])[size - 1] \in Locations
    <3> HIDE DEF size, id
    <3>1. \A i \in Nat : Walk(root[2])[i] \in Locations
      BY <1>1, <1>2, WalkFacts
    <3> QED BY <2>1, <2>4, <3>1
  <2> DEFINE x == Walk(root[2])[parent]
             y == Walk(root[2])[size - 1]
  <2> HIDE DEF x, y
  <2>a. writer' = [writer EXCEPT !.pc = "bypass_internal", !.last = x, !.loc = y] /\ x \in Locations /\ y \in Locations
    BY <1>8, <2>5 DEF x, y
  <2>6. /\ writer' \in Works
        /\ writer'.pc = "bypass_internal" /\ writer'.key = writer.key /\ writer'.slot = writer.slot
        /\ writer'.loc = y /\ writer'.last = x /\ writer'.todo = writer.todo
    BY <1>1, <2>a DEF Works, CallPcs
  <2>7. WorkKnows'
    BY <1>1, <1>5, <2>a, <2>6 DEF WriterType, WorkKnows, CallPcs, MovePcs
  <2>8. MemoryType'
    <3> DEFINE b == [bucket[root] EXCEPT !.size = size - 1]
    <3>1. b \in Buckets
      <4> HIDE DEF root
      <4> QED BY <1>3, <2>1 DEF Buckets
    <3>2. bucket' = [bucket EXCEPT ![root] = b]
      BY <1>8
    <3> HIDE DEF root, b
    <3> QED BY <1>2, <1>5, <3>1, <3>2, StoreType
  <2> QED BY <1>1, <1>5, <2>6, <2>7, <2>8, ReaderKept, ContentKept, TypesPartsNext DEF WriterType
<1>9. \/ Fail /\ UNCHANGED bucket
      \/ writer' = [writer EXCEPT !.pc = "enter"] /\ UNCHANGED bucket
      \/ ~(size < 2 \/ parents = {}) /\ writer' = w /\ bucket' = [bucket EXCEPT ![root].size = size - 1]
  BY DEF Evict
<1>10. ~(size < 2) => size >= 2
  BY <1>4
<1> QED BY <1>6, <1>7, <1>8, <1>9, <1>10

LEMMA TypesBypassInternal ==
  ASSUME TableTypes, BypassInternal PROVE TableTypes'
<1> USE TypesParts
<1> DEFINE b == [bucket[writer.last] EXCEPT !.internal = bucket[Entry(writer.key)].internal]
<1>1. writer \in Works /\ writer.key \in Keys /\ writer.last \in Locations /\ writer.loc \in Locations
  BY DEF BypassInternal, WriterType, WorkKnows, CallPcs
<1>2. bucket[writer.last] \in Buckets /\ bucket[Entry(writer.key)] \in Buckets
  BY <1>1, KeyFacts, BucketType
<1>3. b \in Buckets
  BY <1>2 DEF Buckets
<1>4. bucket' = [bucket EXCEPT ![writer.last] = b]
  BY DEF BypassInternal
<1> HIDE DEF b
<1>5. UNCHANGED <<root_id, free_id_count, reader, content, inserts>>
  BY DEF BypassInternal
<1>6. MemoryType'
  BY <1>1, <1>3, <1>4, <1>5, StoreType
<1>7. "bypass_next" \in CallPcs /\ writer' = [writer EXCEPT !.pc = "bypass_next"]
  BY DEF CallPcs, BypassInternal
<1>8. /\ writer' \in Works
      /\ writer'.pc = "bypass_next" /\ writer'.key = writer.key /\ writer'.slot = writer.slot
      /\ writer'.loc = writer.loc /\ writer'.last = writer.last /\ writer'.todo = writer.todo
  BY <1>1, <1>7, PcType
<1>9. WorkKnows'
  BY <1>1, <1>5, <1>8 DEF WriterType, WorkKnows, CallPcs, MovePcs
<1> QED BY <1>5, <1>6, <1>8, <1>9, ReaderKept, ContentKept, TypesPartsNext DEF WriterType

LEMMA TypesBypassNext ==
  ASSUME TableTypes, BypassNext PROVE TableTypes'
<1> USE TypesParts
<1> DEFINE b == [bucket[writer.last] EXCEPT !.next = bucket[Entry(writer.key)].next]
<1>1. writer \in Works /\ writer.key \in Keys /\ writer.last \in Locations /\ writer.loc \in Locations
  BY DEF BypassNext, WriterType, WorkKnows, CallPcs
<1>2. bucket[writer.last] \in Buckets /\ bucket[Entry(writer.key)] \in Buckets
  BY <1>1, KeyFacts, BucketType
<1>3. b \in Buckets
  BY <1>2 DEF Buckets
<1>4. bucket' = [bucket EXCEPT ![writer.last] = b]
  BY DEF BypassNext
<1> HIDE DEF b
<1>5. UNCHANGED <<root_id, free_id_count, reader, content, inserts>>
  BY DEF BypassNext
<1>6. MemoryType'
  BY <1>1, <1>3, <1>4, <1>5, StoreType
<1>7. "move" \in CallPcs /\ writer' = [writer EXCEPT !.pc = "move"]
  BY DEF CallPcs, BypassNext
<1>8. /\ writer' \in Works
      /\ writer'.pc = "move" /\ writer'.key = writer.key /\ writer'.slot = writer.slot
      /\ writer'.loc = writer.loc /\ writer'.last = writer.last /\ writer'.todo = writer.todo
  BY <1>1, <1>7, PcType
<1>9. WorkKnows'
  BY <1>1, <1>5, <1>8 DEF WriterType, WorkKnows, CallPcs, MovePcs
<1> QED BY <1>5, <1>6, <1>8, <1>9, ReaderKept, ContentKept, TypesPartsNext DEF WriterType

LEMMA SlotType ==
  ASSUME MemoryType, writer \in Works, ~NoFreeBucket
  PROVE  Slot \in Ids /\ <<FALSE, Slot>> \in Locations /\ (TakeFreeBucketId => free_id_count' \in 0..BucketCount)
<1>1. writer.slot \in Ids \cup {None} /\ free_id_count \in 0..BucketCount
  BY DEF Works, MemoryType
<1>2. CASE writer.slot = None
  <2>1. free_id_count + 1 <= BucketCount /\ BucketCount \in Nat
    BY <1>1, <1>2, QedTableAssumption DEF NoFreeBucket
  <2>2. Slot \in Ids
    BY <1>1, <1>2, <2>1 DEF Slot, Ids
  <2>3. TakeFreeBucketId => free_id_count' \in 0..BucketCount
    BY <1>1, <1>2, <2>1 DEF TakeFreeBucketId
  <2> QED BY <2>2, <2>3, IdFacts
<1>3. CASE writer.slot # None
  BY <1>1, <1>3, IdFacts DEF Slot, TakeFreeBucketId
<1> QED BY <1>2, <1>3

LEMMA TypesMove ==
  ASSUME TableTypes, Move PROVE TableTypes'
<1> USE TypesParts
<1> DEFINE f == <<FALSE, Slot>>
           b == [bucket[Entry(writer.key)] EXCEPT !.internal = TRUE, !.size = 0]
           todo == {"internal", "next"}
<1>1. writer \in Works /\ writer.key \in Keys /\ writer.loc \in Locations
  BY DEF Move, WriterType, WorkKnows, CallPcs
<1>2. UNCHANGED <<reader, content, inserts>>
  BY DEF Move
<1>3. CASE NoFreeBucket
  <2>1. Fail /\ UNCHANGED <<bucket, root_id, free_id_count>>
    BY <1>3 DEF Move
  <2>2. WriterType'
    BY <1>1, <1>2, <2>1, NoWorkKnows DEF WriterType, Fail
  <2> QED BY <1>2, <2>1, <2>2, MemoryKept, ReaderKept, ContentKept, TypesPartsNext
<1>4. CASE ~NoFreeBucket
  <2>1. Slot \in Ids /\ f \in Locations /\ free_id_count' \in 0..BucketCount
    BY <1>1, <1>4, SlotType DEF Move
  <2>2. bucket[Entry(writer.key)] \in Buckets /\ writer.key[2] \in Ids
    BY <1>1, KeyFacts, BucketType
  <2>3. b \in Buckets
    BY <2>2, SizesType DEF Buckets
  <2>4. bucket' = [bucket EXCEPT ![f] = b] /\ root_id' = [root_id EXCEPT ![f] = writer.key[2]]
    BY <1>4 DEF Move
  <2>5. writer' = [writer EXCEPT !.pc = "recheck", !.slot = Slot, !.todo = todo]
    BY <1>4 DEF Move
  <2>6. todo \in SUBSET Fields /\ "recheck" \in CallPcs
    BY DEF Fields, CallPcs
  <2> HIDE DEF f, b, todo
  <2>7. MemoryType'
    BY <2>1, <2>2, <2>3, <2>4 DEF MemoryType
  <2>8. /\ writer' \in Works
        /\ writer'.pc = "recheck" /\ writer'.key = writer.key /\ writer'.slot = Slot
        /\ writer'.loc = writer.loc /\ writer'.last = writer.last /\ writer'.todo = todo
    BY <1>1, <2>1, <2>5, <2>6 DEF Works
  <2>9. WorkKnows'
    BY <1>1, <2>1, <2>8 DEF WriterType, WorkKnows, CallPcs, MovePcs
  <2> QED BY <1>2, <2>7, <2>8, <2>9, ReaderKept, ContentKept, TypesPartsNext DEF WriterType
<1> QED BY <1>3, <1>4

LEMMA TypesRecheck ==
  ASSUME TableTypes, Recheck PROVE TableTypes'
<1> USE TypesParts
<1> DEFINE todo == {"lo", "hi", "key"}
           entry == Entry(writer.key)
<1>1. writer \in Works /\ writer.key \in Keys /\ writer.todo = {}
  BY DEF Recheck, WriterType, WorkKnows, CallPcs
<1>2. UNCHANGED <<bucket, root_id, free_id_count, reader, content, inserts>>
  BY DEF Recheck
<1>3. CASE writer' = [writer EXCEPT !.pc = "create", !.loc = entry, !.todo = todo]
  <2>1. entry \in Locations /\ todo \in SUBSET Fields /\ "create" \in CallPcs /\ "next" \notin todo
    BY <1>1, KeyFacts DEF Fields, CallPcs
  <2> HIDE DEF todo, entry
  <2>2. writer' \in Works /\ writer'.pc = "create" /\ writer'.key = writer.key /\ writer'.loc = entry /\ writer'.todo = todo
    BY <1>1, <1>3, <2>1 DEF Works
  <2>3. WorkKnows'
    BY <1>1, <2>1, <2>2 DEF WriterType, WorkKnows, CallPcs, MovePcs
  <2> QED BY <1>2, <2>2, <2>3, MemoryKept, ReaderKept, ContentKept, TypesPartsNext DEF WriterType
<1>4. CASE writer' = [writer EXCEPT !.pc = "enter", !.slot = None]
  <2>1. "enter" \in CallPcs
    BY DEF CallPcs
  <2>2. writer' \in Works /\ writer'.pc = "enter" /\ writer'.key = writer.key /\ writer'.todo = {}
    BY <1>1, <1>4, <2>1 DEF Works
  <2>3. WorkKnows'
    BY <1>1, <2>1, <2>2 DEF WriterType, WorkKnows, CallPcs, MovePcs
  <2> QED BY <1>2, <2>2, <2>3, MemoryKept, ReaderKept, ContentKept, TypesPartsNext DEF WriterType
<1> QED BY <1>3, <1>4 DEF Recheck

\* The first place of a chain that has the key.
FirstMatch(k) == CHOOSE m \in Matches(k) : \A n \in Matches(k) : m <= n

LEMMA FirstMatchType ==
  ASSUME MemoryType, NEW k \in Keys, Matches(k) # {}
  PROVE  /\ FirstMatch(k) \in Nat /\ FirstMatch(k) \in Matches(k) /\ Walk(k[2])[FirstMatch(k)] \in Locations
<1>1. bucket[Entry(k)].size \in 0..MaxSize
  BY KeyFacts, BucketType DEF Buckets
<1>2. Matches(k) \in SUBSET Nat
  BY <1>1, SizesType DEF Matches
<1>3. FirstMatch(k) \in Matches(k)
  BY <1>2, LeastIn DEF FirstMatch
<1>4. FirstMatch(k) \in Nat
  BY <1>2, <1>3
<1>5. \A i \in Nat : Walk(k[2])[i] \in Locations
  BY KeyFacts, WalkFacts
<1> QED BY <1>3, <1>4, <1>5

LEMMA TypesOverwrite ==
  ASSUME TableTypes, Overwrite PROVE TableTypes'
<1> USE TypesParts
<1> DEFINE k == writer.key
           l == Walk(k[2])[FirstMatch(k)]
           todo == {"lo", "hi"}
<1>1. writer \in Works /\ k \in Keys /\ Matches(k) # {} /\ writer.pc = "enter"
  BY DEF Overwrite, WriterType, WorkKnows, CallPcs
<1>2. l \in Locations /\ todo \in SUBSET Fields /\ "next" \notin todo
  BY <1>1, FirstMatchType DEF Fields
<1>3. UNCHANGED <<bucket, root_id, free_id_count, content, inserts>>
  BY DEF Overwrite
<1>4. ReaderType'
  BY <1>1, ObserveStoresType DEF Overwrite
<1>5. \/ writer' = NoWork
      \/ writer' = [writer EXCEPT !.pc = "overwrite", !.loc = l, !.todo = todo]
      \/ writer' = [writer EXCEPT !.pc = "stuck"]
  BY DEF Overwrite, FirstMatch
<1> HIDE DEF l, todo
<1>6. CASE writer' = NoWork
  BY <1>3, <1>4, <1>6, NoWorkKnows, MemoryKept, ContentKept, TypesPartsNext DEF WriterType
<1>7. CASE writer' = [writer EXCEPT !.pc = "overwrite", !.loc = l, !.todo = todo]
  <2>1. writer' \in Works /\ writer'.pc = "overwrite" /\ writer'.key = k /\ writer'.loc = l /\ writer'.todo = todo
    BY <1>1, <1>2, <1>7 DEF Works, CallPcs
  <2>2. WorkKnows'
    BY <1>1, <1>2, <2>1 DEF WriterType, WorkKnows, CallPcs, MovePcs
  <2> QED BY <1>3, <1>4, <2>1, <2>2, MemoryKept, ContentKept, TypesPartsNext DEF WriterType
<1>8. CASE writer' = [writer EXCEPT !.pc = "stuck"]
  <2>1. /\ writer' \in Works /\ writer'.pc = "stuck" /\ writer'.key = k /\ writer'.slot = writer.slot
        /\ writer'.loc = writer.loc /\ writer'.last = writer.last /\ writer'.todo = writer.todo
    BY <1>1, <1>8, PcType
  <2>2. WorkKnows'
    BY <1>1, <1>2, <2>1 DEF WriterType, WorkKnows, CallPcs, MovePcs
  <2> QED BY <1>3, <1>4, <2>1, <2>2, MemoryKept, ContentKept, TypesPartsNext DEF WriterType
<1> QED BY <1>5, <1>6, <1>7, <1>8

LEMMA NewNodeType ==
  ASSUME writer \in Works, NEW k \in Keys
  PROVE  NewNode(k) \in Buckets
<1>1. writer.payload \in Payloads /\ k[2] \in Ids /\ 0 \in 0..MaxSize /\ Hi(k) \in {Hi(q) : q \in Keys} \cup {0}
  BY KeyFacts, SizesType DEF Works
<1> QED BY <1>1 DEF NewNode, Buckets

LEMMA TypesAppendNode ==
  ASSUME TableTypes, AppendNode PROVE TableTypes'
<1> USE TypesParts
<1> DEFINE k == writer.key
           f == <<FALSE, Slot>>
           n == bucket[Entry(k)].size
           field == SizeField(Entry(k))
           last == Walk(k[2])[n - 1]
<1>1. writer \in Works /\ k \in Keys /\ n # 0 /\ writer.pc = "enter"
  BY DEF AppendNode, WriterType, WorkKnows, CallPcs
<1>2. UNCHANGED <<reader, content, inserts>>
  BY DEF AppendNode
<1>3. CASE IsFull(k) \/ NoFreeBucket
  <2>1. Fail /\ UNCHANGED <<bucket, root_id, free_id_count>>
    BY <1>3 DEF AppendNode
  <2>2. WriterType'
    BY <1>2, <2>1, NoWorkKnows DEF WriterType, Fail
  <2> QED BY <1>2, <2>1, <2>2, MemoryKept, ReaderKept, ContentKept, TypesPartsNext
<1>4. CASE ~(IsFull(k) \/ NoFreeBucket)
  <2>1. Slot \in Ids /\ f \in Locations /\ free_id_count' \in 0..BucketCount
    BY <1>1, <1>4, SlotType DEF AppendNode
  <2>2. bucket[Entry(k)] \in Buckets /\ k[2] \in Ids /\ field \in BOOLEAN \X (0..MaxSize)
    BY <1>1, KeyFacts, BucketType, NextBucketType
  <2>3. n \in 0..MaxSize
    BY <2>2 DEF Buckets
  <2>4. n - 1 \in Nat
    <3> HIDE DEF n
    <3> QED BY <1>1, <2>3 DEF MaxSize
  <2>5. last \in Locations
    <3>1. \A i \in Nat : Walk(k[2])[i] \in Locations
      BY <2>2, WalkFacts
    <3> QED BY <2>4, <3>1
  <2>6. bucket' = [bucket EXCEPT ![f] = NewNode(k)] /\ root_id' = [root_id EXCEPT ![f] = k[2]]
    BY <1>4 DEF AppendNode
  <2>7. writer' = [writer EXCEPT !.pc = "link", !.slot = Slot, !.size_field = field, !.last = last]
    BY <1>4 DEF AppendNode
  <2>8. NewNode(k) \in Buckets /\ "link" \in CallPcs
    BY <1>1, NewNodeType DEF CallPcs
  <2> HIDE DEF f, field, last, n
  <2>9. MemoryType'
    BY <2>1, <2>2, <2>6, <2>8 DEF MemoryType
  <2>10. /\ writer' \in Works
         /\ writer'.pc = "link" /\ writer'.key = writer.key /\ writer'.slot = Slot
         /\ writer'.loc = writer.loc /\ writer'.last = last /\ writer'.todo = writer.todo
    BY <1>1, <2>1, <2>2, <2>5, <2>7, <2>8 DEF Works
  <2>11. WorkKnows'
    BY <1>1, <2>1, <2>5, <2>10 DEF WriterType, WorkKnows, CallPcs, MovePcs
  <2> QED BY <1>2, <2>9, <2>10, <2>11, ReaderKept, ContentKept, TypesPartsNext DEF WriterType
<1> QED BY <1>3, <1>4

LEMMA TypesLink ==
  ASSUME TableTypes, Link PROVE TableTypes'
<1> USE TypesParts
<1> DEFINE b == [bucket[writer.last] EXCEPT !.next = writer.slot]
<1>1. writer \in Works /\ writer.key \in Keys /\ writer.last \in Locations /\ writer.slot \in Ids
  BY DEF Link, WriterType, WorkKnows, CallPcs
<1>2. bucket[writer.last] \in Buckets
  BY <1>1, BucketType
<1>3. b \in Buckets
  BY <1>1, <1>2 DEF Buckets
<1>4. bucket' = [bucket EXCEPT ![writer.last] = b]
  BY DEF Link
<1> HIDE DEF b
<1>5. UNCHANGED <<root_id, free_id_count, reader, content, inserts>>
  BY DEF Link
<1>6. MemoryType'
  BY <1>1, <1>3, <1>4, <1>5, StoreType
<1>7. PICK pc \in {"enter", "tail"} : writer' = [writer EXCEPT !.pc = pc]
  BY DEF Link
<1>8. /\ writer' \in Works
      /\ writer'.pc = pc /\ writer'.key = writer.key /\ writer'.slot = writer.slot
      /\ writer'.loc = writer.loc /\ writer'.last = writer.last /\ writer'.todo = writer.todo
  <2>1. pc \in CallPcs
    BY DEF CallPcs
  <2> QED BY <1>1, <1>7, <2>1, PcType
<1>9. WorkKnows'
  BY <1>1, <1>5, <1>8 DEF WriterType, WorkKnows, CallPcs, MovePcs
<1> QED BY <1>5, <1>6, <1>8, <1>9, ReaderKept, ContentKept, TypesPartsNext DEF WriterType

LEMMA TypesMarkTail ==
  ASSUME TableTypes, MarkTail PROVE TableTypes'
<1> USE TypesParts
<1> DEFINE b == [bucket[writer.last] EXCEPT !.internal = FALSE]
<1>1. writer \in Works /\ writer.key \in Keys /\ writer.last \in Locations
  BY DEF MarkTail, WriterType, WorkKnows, CallPcs
<1>2. bucket[writer.last] \in Buckets
  BY <1>1, BucketType
<1>3. b \in Buckets
  BY <1>1, <1>2 DEF Buckets
<1>4. bucket' = [bucket EXCEPT ![writer.last] = b]
  BY DEF MarkTail
<1> HIDE DEF b
<1>5. UNCHANGED <<root_id, free_id_count, reader, content, inserts>>
  BY DEF MarkTail
<1>6. MemoryType'
  BY <1>1, <1>3, <1>4, <1>5, StoreType
<1>7. "grow" \in CallPcs /\ writer' = [writer EXCEPT !.pc = "grow"]
  BY DEF MarkTail, CallPcs
<1>8. /\ writer' \in Works
      /\ writer'.pc = "grow" /\ writer'.key = writer.key /\ writer'.slot = writer.slot
      /\ writer'.loc = writer.loc /\ writer'.last = writer.last /\ writer'.todo = writer.todo
  BY <1>1, <1>7, PcType
<1>9. WorkKnows'
  BY <1>1, <1>5, <1>8 DEF WriterType, WorkKnows, CallPcs, MovePcs
<1> QED BY <1>5, <1>6, <1>8, <1>9, ReaderKept, ContentKept, TypesPartsNext DEF WriterType

LEMMA TypesGrow ==
  ASSUME TableTypes, Grow PROVE TableTypes'
<1> USE TypesParts
<1> DEFINE entry == Entry(writer.key)
           size == bucket[entry].size
<1>1. writer \in Works /\ writer.key \in Keys /\ writer.pc = "grow"
  BY DEF Grow, WriterType, WorkKnows, CallPcs
<1>2. UNCHANGED <<root_id, free_id_count, inserts>>
  BY DEF Grow
<1>3. entry \in Locations /\ bucket[entry] \in Buckets
  BY <1>1, KeyFacts, BucketType
<1>4. CASE writer' = [writer EXCEPT !.pc = "enter"] /\ UNCHANGED <<bucket, content, reader>>
  <2>1. "enter" \in CallPcs
    BY DEF CallPcs
  <2>2. /\ writer' \in Works
        /\ writer'.pc = "enter" /\ writer'.key = writer.key /\ writer'.slot = writer.slot
        /\ writer'.loc = writer.loc /\ writer'.last = writer.last /\ writer'.todo = writer.todo
    BY <1>1, <1>4, <2>1, PcType
  <2>3. WorkKnows'
    BY <1>1, <1>2, <2>2 DEF WriterType, WorkKnows, CallPcs, MovePcs
  <2> QED BY <1>2, <1>4, <2>2, <2>3, MemoryKept, ReaderKept, ContentKept, TypesPartsNext DEF WriterType
<1>5. CASE /\ bucket' = [bucket EXCEPT ![entry].size = (size + 1) % (MaxSize + 1),
                                       ![entry].internal = @ \/ size = MaxSize]
           /\ ObserveContent /\ writer' = NoWork
  <2> DEFINE n == (size + 1) % (MaxSize + 1)
             i == bucket[entry].internal \/ size = MaxSize
             b == [bucket[entry] EXCEPT !.size = n, !.internal = i]
  <2>1. size \in 0..MaxSize
    BY <1>3 DEF Buckets
  <2>2. n \in 0..MaxSize
    <3> HIDE DEF size
    <3> QED BY <2>1 DEF MaxSize
  <2>3. i \in BOOLEAN
    OBVIOUS
  <2>4. bucket' = [bucket EXCEPT ![entry] = b]
    BY <1>5
  <2> HIDE DEF n, i
  <2>5. b \in Buckets
    BY <1>3, <2>2, <2>3 DEF Buckets
  <2> HIDE DEF b
  <2>6. MemoryType'
    BY <1>2, <1>3, <2>4, <2>5, StoreType
  <2>7. ReaderType' /\ ContentType'
    BY <1>1, <1>5, ObserveContentType
  <2>8. WriterType'
    BY <1>2, <1>5, NoWorkKnows DEF WriterType
  <2> QED BY <2>6, <2>7, <2>8, TypesPartsNext
<1> QED BY <1>4, <1>5 DEF Grow

\* The bucket of the cache line that is put to use.
FirstUnused(root) == CHOOSE i \in Unused(root) : \A j \in Unused(root) : i <= j

LEMMA FirstUnusedType ==
  ASSUME NEW root, Unused(root) # {}
  PROVE  FirstUnused(root) \in Ids /\ FirstUnused(root) \in Unused(root)
<1>1. Unused(root) \in SUBSET Ids
  BY DEF Unused
<1>2. Unused(root) \in SUBSET Nat
  BY <1>1, IdFacts
<1>3. FirstUnused(root) \in Unused(root)
  BY <1>2, LeastIn DEF FirstUnused
<1> QED BY <1>1, <1>3

LEMMA TypesOptimizeFreeBucket ==
  ASSUME TableTypes, NEW f \in Ids, OptimizeFreeBucket(f) PROVE TableTypes'
<1> USE TypesParts
<1> DEFINE from == <<FALSE, f>>
           root == root_id[from]
           iter == <<TRUE, FirstUnused(root)>>
<1>1. root # None /\ Unused(root) # {}
  BY DEF OptimizeFreeBucket
<1>2. from \in Locations
  BY IdFacts
<1>3. root \in Ids
  BY <1>1, <1>2 DEF MemoryType
<1>4. iter \in Locations /\ FirstUnused(root) \in Ids
  <2> HIDE DEF root
  <2> QED BY <1>1, FirstUnusedType, IdFacts
<1>5. bucket' = [bucket EXCEPT ![iter] = bucket[from]] /\ root_id' = [root_id EXCEPT ![iter] = root]
  BY DEF OptimizeFreeBucket, FirstUnused
<1>6. writer' = [NoWork EXCEPT !.pc = "find_parent", !.slot = f, !.loc = iter]
  BY DEF OptimizeFreeBucket, FirstUnused
<1>7. UNCHANGED <<free_id_count, reader, content, inserts>>
  BY DEF OptimizeFreeBucket
<1>8. from # iter
  OBVIOUS
<1> HIDE DEF from, iter
<1>9. bucket[from] \in Buckets
  BY <1>2, BucketType
<1>10. MemoryType'
  BY <1>2, <1>3, <1>4, <1>5, <1>7, <1>9 DEF MemoryType
<1>11. /\ writer' \in Works /\ writer'.pc = "find_parent" /\ writer'.slot = f /\ writer'.loc = iter
       /\ writer'.todo = {}
  BY <1>4, <1>6, NoWorkType DEF NoWork, Works, MovePcs
<1>12. root_id'[from] = root
  BY <1>2, <1>4, <1>5, <1>8 DEF MemoryType
<1>13. WorkKnows'
  BY <1>3, <1>4, <1>11, <1>12 DEF WorkKnows, CallPcs, MovePcs, from
<1> QED BY <1>7, <1>10, <1>11, <1>13, ReaderKept, ContentKept, TypesPartsNext DEF WriterType

\* FindParent, taken apart: the places at which it stops, and the first one.
Wrong(r, i) == (i = 0) = (bucket[Walk(r)[i]].size = 0)
ParentStops(r, f) ==
  {i \in 0..bucket[<<TRUE, r>>].size-1 :
     ~Valid(Walk(r)[i]) \/ Wrong(r, i) \/ NextBucket(Walk(r)[i]) = f}
FirstStop(r, f) == CHOOSE i \in ParentStops(r, f) : \A j \in ParentStops(r, f) : i <= j

LEMMA FindParentParts ==
  LET f == <<FALSE, writer.slot>>
      r == root_id[f]
  IN  FindParent <=>
       /\ writer.pc = "find_parent"
       /\ writer' = IF ParentStops(r, f) = {} \/ ~Valid(Walk(r)[FirstStop(r, f)]) THEN NoWork
                    ELSE IF Wrong(r, FirstStop(r, f)) THEN [writer EXCEPT !.pc = "stuck"]
                    ELSE [writer EXCEPT !.pc = "optimize_internal", !.last = Walk(r)[FirstStop(r, f)]]
       /\ UNCHANGED <<bucket, root_id, free_id_count, reader, content, displaced, inserts, optimized>>
BY DEF FindParent, ParentStops, FirstStop, Wrong

LEMMA FirstStopType ==
  ASSUME MemoryType, NEW r \in Ids, NEW f, ParentStops(r, f) # {}
  PROVE  /\ FirstStop(r, f) \in Nat /\ FirstStop(r, f) \in ParentStops(r, f)
         /\ \A j \in ParentStops(r, f) : FirstStop(r, f) <= j
         /\ Walk(r)[FirstStop(r, f)] \in Locations
<1>1. bucket[<<TRUE, r>>].size \in 0..MaxSize
  BY IdFacts, BucketType DEF Buckets
<1>2. ParentStops(r, f) \in SUBSET Nat
  BY <1>1, SizesType DEF ParentStops
<1>3. FirstStop(r, f) \in ParentStops(r, f) /\ \A j \in ParentStops(r, f) : FirstStop(r, f) <= j
  BY <1>2, LeastIn DEF FirstStop
<1>4. FirstStop(r, f) \in Nat
  BY <1>2, <1>3
<1>5. \A i \in Nat : Walk(r)[i] \in Locations
  BY WalkFacts
<1> QED BY <1>3, <1>4, <1>5

LEMMA TypesFindParent ==
  ASSUME TableTypes, FindParent PROVE TableTypes'
<1> USE TypesParts
<1> DEFINE f == <<FALSE, writer.slot>>
           r == root_id[f]
           last == Walk(r)[FirstStop(r, f)]
<1>1. /\ writer \in Works /\ writer.slot \in Ids /\ writer.loc \in Locations /\ r \in Ids
      /\ writer.pc = "find_parent"
  BY DEF FindParent, WriterType, WorkKnows, MovePcs
<1>2. UNCHANGED <<bucket, root_id, free_id_count, reader, content, inserts>>
  BY DEF FindParent
<1>3. \/ writer' = NoWork
      \/ writer' = [writer EXCEPT !.pc = "stuck"]
      \/ ParentStops(r, f) # {} /\ writer' = [writer EXCEPT !.pc = "optimize_internal", !.last = last]
  BY FindParentParts
<1>4. CASE writer' = NoWork
  BY <1>2, <1>4, NoWorkKnows, MemoryKept, ReaderKept, ContentKept, TypesPartsNext DEF WriterType
<1>5. CASE writer' = [writer EXCEPT !.pc = "stuck"]
  <2>1. /\ writer' \in Works /\ writer'.pc = "stuck" /\ writer'.key = writer.key /\ writer'.slot = writer.slot
        /\ writer'.loc = writer.loc /\ writer'.last = writer.last /\ writer'.todo = writer.todo
    BY <1>1, <1>5, PcType
  <2>2. WorkKnows'
    BY <1>1, <1>2, <2>1 DEF WriterType, WorkKnows, CallPcs, MovePcs
  <2> QED BY <1>2, <2>1, <2>2, MemoryKept, ReaderKept, ContentKept, TypesPartsNext DEF WriterType
<1>6. CASE ParentStops(r, f) # {} /\ writer' = [writer EXCEPT !.pc = "optimize_internal", !.last = last]
  <2>1. last \in Locations
    <3> HIDE DEF r, f
    <3> QED BY <1>1, <1>6, FirstStopType
  <2> HIDE DEF last
  <2>2. /\ writer' \in Works /\ writer'.pc = "optimize_internal" /\ writer'.key = writer.key
        /\ writer'.slot = writer.slot
        /\ writer'.loc = writer.loc /\ writer'.last = last /\ writer'.todo = writer.todo
    BY <1>1, <1>6, <2>1 DEF Works, MovePcs
  <2>3. WorkKnows'
    BY <1>1, <1>2, <2>1, <2>2 DEF WriterType, WorkKnows, CallPcs, MovePcs
  <2> QED BY <1>2, <2>2, <2>3, MemoryKept, ReaderKept, ContentKept, TypesPartsNext DEF WriterType
<1> QED BY <1>3, <1>4, <1>5, <1>6

LEMMA TypesOptimizeInternal ==
  ASSUME TableTypes, OptimizeInternal PROVE TableTypes'
<1> USE TypesParts
<1> DEFINE b == [bucket[writer.last] EXCEPT !.internal = TRUE]
<1>1. /\ writer \in Works /\ writer.last \in Locations /\ writer.loc \in Locations /\ writer.slot \in Ids
      /\ root_id[<<FALSE, writer.slot>>] \in Ids
  BY DEF OptimizeInternal, WriterType, WorkKnows, MovePcs
<1>2. bucket[writer.last] \in Buckets
  BY <1>1, BucketType
<1>3. b \in Buckets
  BY <1>1, <1>2 DEF Buckets
<1>4. bucket' = [bucket EXCEPT ![writer.last] = b]
  BY DEF OptimizeInternal
<1> HIDE DEF b
<1>5. UNCHANGED <<root_id, free_id_count, reader, content, inserts>>
  BY DEF OptimizeInternal
<1>6. MemoryType'
  BY <1>1, <1>3, <1>4, <1>5, StoreType
<1>7. "optimize_next" \in MovePcs /\ writer' = [writer EXCEPT !.pc = "optimize_next"]
  BY DEF OptimizeInternal, MovePcs
<1>8. /\ writer' \in Works
      /\ writer'.pc = "optimize_next" /\ writer'.key = writer.key /\ writer'.slot = writer.slot
      /\ writer'.loc = writer.loc /\ writer'.last = writer.last /\ writer'.todo = writer.todo
  BY <1>1, <1>7, PcType
<1>9. WorkKnows'
  BY <1>1, <1>5, <1>8 DEF WriterType, WorkKnows, CallPcs, MovePcs
<1> QED BY <1>5, <1>6, <1>8, <1>9, ReaderKept, ContentKept, TypesPartsNext DEF WriterType

LEMMA TypesOptimizeNext ==
  ASSUME TableTypes, OptimizeNext PROVE TableTypes'
<1> USE TypesParts
<1> DEFINE b == [bucket[writer.last] EXCEPT !.next = writer.loc[2]]
           f == <<FALSE, writer.slot>>
<1>1. writer \in Works /\ writer.last \in Locations /\ writer.loc \in Locations /\ writer.slot \in Ids
  BY DEF OptimizeNext, WriterType, WorkKnows, MovePcs
<1>2. bucket[writer.last] \in Buckets /\ writer.loc[2] \in Ids /\ f \in Locations
  BY <1>1, BucketType, LocationFacts, IdFacts
<1>3. b \in Buckets
  BY <1>1, <1>2 DEF Buckets
<1>4. bucket' = [bucket EXCEPT ![writer.last] = b] /\ root_id' = [root_id EXCEPT ![f] = None]
  BY DEF OptimizeNext
<1> HIDE DEF b, f
<1>5. UNCHANGED <<free_id_count, reader, content, inserts>> /\ writer' = NoWork
  BY DEF OptimizeNext
<1>6. MemoryType'
  BY <1>1, <1>2, <1>3, <1>4, <1>5 DEF MemoryType
<1> QED BY <1>5, <1>6, NoWorkKnows, ReaderKept, ContentKept, TypesPartsNext DEF WriterType

LEMMA WriterKept == WriterType /\ UNCHANGED <<root_id, writer, inserts>> => WriterType'
BY DEF WriterType, WorkKnows

LEMMA ReturnType ==
  ASSUME NEW v \in Payloads \cup {NFOUND}, reader' = Return(v) PROVE ReaderType'
BY NoFindType DEF Return, ReaderType, FindKnows, Finding, Finds, NoFind

LEMMA FirstSizeType ==
  ASSUME MemoryType, NEW found \in Finds, found.key \in Keys, FirstSize(found) PROVE ReaderType'
<1> DEFINE size == bucket[Entry(found.key)].size
           bare == writer.pc = "create" /\ writer.key # found.key /\ Bare(found.key, writer.loc)
           e == Entry(found.key)
           calm == ~bare
           r == [found EXCEPT !.pc = "compare", !.i = 0, !.size = size, !.loc = e, !.calm = calm]
<1>1. e \in Locations /\ size \in 0..MaxSize /\ calm \in BOOLEAN
  BY KeyFacts, BucketType DEF Buckets
<1>2. reader' = Return(NFOUND) \/ reader' = r
  BY DEF FirstSize
<1>3. CASE reader' = r
  <2> HIDE DEF size, e, calm
  <2>1. r \in Finds /\ r.pc = "compare" /\ r.key = found.key /\ r.loc = e
    BY <1>1 DEF Finds
  <2> QED BY <1>1, <1>3, <2>1 DEF ReaderType, FindKnows, Finding
<1> QED BY <1>2, <1>3, ReturnType

LEMMA TypesFind ==
  ASSUME TableTypes, NEW k \in Keys, Find(k) PROVE TableTypes'
<1> USE TypesParts
<1> DEFINE own == writer.pc \in {"create", "overwrite"} /\ writer.key = k
           expect == {content[k]} \cup (IF own THEN {writer.payload} ELSE {})
           found == [NoFind EXCEPT !.key = k, !.expect = expect, !.shared = own]
<1>1. own \in BOOLEAN /\ expect \in SUBSET (Payloads \cup {NFOUND})
  BY DEF WriterType, Works, ContentType
<1>2. FirstSize(found)
  BY DEF Find
<1> HIDE DEF own, expect
<1>3. found \in Finds /\ found.key = k
  BY <1>1, NoFindType DEF Finds, NoFind
<1> HIDE DEF found
<1>4. ReaderType'
  BY <1>2, <1>3, FirstSizeType
<1> QED BY <1>4, MemoryKept, WriterKept, ContentKept, TypesPartsNext DEF Find

LEMMA TypesReaderStep ==
  ASSUME TableTypes, ReaderStep PROVE TableTypes'
<1> USE TypesParts
<1> SUFFICES ReaderType'
  BY MemoryKept, WriterKept, ContentKept, TypesPartsNext DEF ReaderStep
<1>1. reader \in Finds /\ FindKnows
  BY DEF ReaderType
<1>2. CASE FindAgain
  BY <1>1, <1>2, FirstSizeType DEF FindAgain, FindKnows, Finding
<1>3. CASE Compare
  <2>1. reader.key \in Keys /\ reader.loc \in Locations /\ reader.pc = "compare"
    BY <1>1, <1>3 DEF Compare, FindKnows, Finding
  <2>2. Published(reader.loc) \in Locations
    BY <2>1, NextBucketType, LocationFacts, IdFacts, BucketType DEF Published, Buckets
  <2>3. CASE reader' = Return(NFOUND)
    BY <2>3, ReturnType
  <2>4. CASE reader' = [reader EXCEPT !.pc = "payload"]
    BY <1>1, <2>1, <2>4 DEF ReaderType, FindKnows, Finding, Finds
  <2>5. CASE reader' = [reader EXCEPT !.pc = "advance", !.link = Published(reader.loc)]
    BY <1>1, <2>1, <2>2, <2>5 DEF ReaderType, FindKnows, Finding, Finds
  <2> QED BY <1>3, <2>3, <2>4, <2>5 DEF Compare
<1>4. CASE Advance
  <2> DEFINE internal == bucket[reader.loc].internal
             to == <<internal, reader.link[2]>>
             calm == reader.calm /\ internal = reader.link[1]
             i == reader.i + 1
  <2>1. reader.key \in Keys /\ reader.loc \in Locations /\ reader.link \in Locations
    BY <1>1, <1>4 DEF Advance, FindKnows, Finding
  <2>2. internal \in BOOLEAN /\ reader.link[2] \in Ids
    BY <2>1, BucketType, LocationFacts DEF Buckets
  <2>3. to \in Locations /\ calm \in BOOLEAN
    BY <2>2, IdFacts
  <2>4. i \in Nat
    BY <1>1 DEF Finds
  <2>5. reader' = [reader EXCEPT !.pc = "compare", !.i = i, !.loc = to, !.link = None, !.calm = calm]
    BY <1>4 DEF Advance
  <2> HIDE DEF internal, to, calm, i
  <2> QED BY <1>1, <2>1, <2>3, <2>4, <2>5 DEF ReaderType, FindKnows, Finding, Finds
<1>5. CASE ReadPayload
  <2>1. reader.key \in Keys /\ reader.loc \in Locations
    BY <1>1, <1>5 DEF ReadPayload, FindKnows, Finding
  <2>2. bucket[reader.loc].payload \in Payloads
    BY <2>1, BucketType DEF Buckets
  <2> QED BY <1>1, <1>5, <2>1, <2>2 DEF ReadPayload, ReaderType, FindKnows, Finding, Finds
<1>6. CASE CheckSize
  <2>1. PICK pc \in {"begin", "recheck"} : reader' = [reader EXCEPT !.pc = pc]
    BY <1>6 DEF CheckSize
  <2>2. reader.key \in Keys /\ reader.loc \in Locations
    BY <1>1, <1>6 DEF CheckSize, FindKnows, Finding
  <2> QED BY <1>1, <2>1, <2>2 DEF ReaderType, FindKnows, Finding, Finds
<1>7. CASE CheckPayload
  <2>1. reader.key \in Keys /\ reader.loc \in Locations /\ reader.payload \in Payloads \cup {NFOUND}
    BY <1>1, <1>7 DEF CheckPayload, FindKnows, Finding, Finds
  <2>2. CASE reader' = Return(reader.payload)
    BY <2>1, <2>2, ReturnType
  <2>3. CASE reader' = [reader EXCEPT !.pc = "begin"]
    BY <1>1, <2>1, <2>3 DEF ReaderType, FindKnows, Finding, Finds
  <2> QED BY <1>7, <2>2, <2>3 DEF CheckPayload
<1> QED BY <1>2, <1>3, <1>4, <1>5, <1>6, <1>7 DEF ReaderStep

LEMMA TypesNext ==
  ASSUME TableTypes, [TableNext]_tableVars PROVE TableTypes'
<1>1. CASE UNCHANGED tableVars
  BY <1>1, TypesParts, TypesPartsNext, MemoryKept, WriterKept, ReaderKept, ContentKept DEF tableVars
<1>2. CASE \E k \in Keys : Insert(k) \/ Find(k)
  BY <1>2, TypesInsert, TypesFind
<1>3. CASE \E f \in Ids : OptimizeFreeBucket(f)
  BY <1>3, TypesOptimizeFreeBucket
<1>4. CASE WriterStep
  BY <1>4, TypesClaim, TypesFinish, TypesOverwrite, TypesAppendNode, TypesLink, TypesMarkTail, TypesGrow,
     TypesEvict, TypesBypassInternal, TypesBypassNext, TypesMove, TypesRecheck, TypesFindParent,
     TypesOptimizeInternal, TypesOptimizeNext, TypesStore DEF WriterStep, Fields
<1>5. CASE ReaderStep
  BY <1>5, TypesReaderStep
<1> QED BY <1>1, <1>2, <1>3, <1>4, <1>5 DEF TableNext

\* Every part of the table has its type, displaced buckets or not.
THEOREM TableTyped == TableSpec => []TableTypeOK
<1>1. TableTypes /\ [TableNext]_tableVars => TableTypes'
  BY TypesNext
<1> QED BY <1>1, TypesInit, TableTypesImply, PTL DEF TableSpec

-----------------------------------------------------------------------------
(* The chains.                                                             *)

LEMMA ChainType ==
  ASSUME NEW c \in Chains, NEW id \in Ids, NEW i \in Nat PROVE c[id][i] \in Locations
BY DEF Chains

LEMMA SizeType ==
  ASSUME MemoryType, NEW id \in Ids
  PROVE  bucket[<<TRUE, id>>].size \in Nat /\ bucket[<<TRUE, id>>].size \in 0..MaxSize
BY IdFacts, BucketType, SizesType DEF Buckets

LEMMA PlaceBefore ==
  ASSUME MemoryType, NEW id \in Ids, NEW i \in Nat, NEW j \in Nat, Place(id, j), i <= j
  PROVE  Place(id, i)
<1>1. bucket[<<TRUE, id>>].size \in Nat
  BY SizeType
<1>2. j < bucket[<<TRUE, id>>].size /\ ~Creating(id)
  BY DEF Place
<1>3. \A a, b, n \in Nat : a <= b /\ b < n => a < n
  OBVIOUS
<1>4. i < bucket[<<TRUE, id>>].size
  BY <1>1, <1>2, <1>3
<1> QED BY <1>2, <1>4 DEF Place

\* Reading along the links visits the buckets of the chain.
LEMMA WalkAgrees ==
  ASSUME MemoryType, NEW c, ChainsHold(c), writer.pc # "optimize_next", NEW id \in Ids, NEW i \in Nat, Place(id, i)
  PROVE  Walk(id)[i] = c[id][i]
<1> DEFINE T == {j \in Nat : Place(id, j) /\ Walk(id)[j] # c[id][j]}
<1> SUFFICES ASSUME T # {} PROVE FALSE
  OBVIOUS
<1>0. T \in SUBSET Nat
  OBVIOUS
<1> HIDE DEF T
<1>1. PICK j \in T : \A y \in T : j <= y
  BY <1>0, LeastNat
<1> USE DEF T
<1>2. Walk(id)[0] = <<TRUE, id>> /\ \A n \in Nat \ {0} : Walk(id)[n] = NextBucket(Walk(id)[n - 1])
  BY WalkFacts
<1>3. c[id][0] = <<TRUE, id>> /\ c \in Chains
  BY DEF ChainsHold, Rooted
<1>4. j # 0
  BY <1>1, <1>2, <1>3
<1>5. j \in Nat /\ Place(id, j) /\ Walk(id)[j] # c[id][j]
  BY <1>1
<1>6. j - 1 \in Nat /\ j - 1 <= j /\ (j - 1) + 1 = j /\ ~(j <= j - 1)
  BY <1>4, <1>5
<1>7. Place(id, j - 1)
  BY <1>5, <1>6, PlaceBefore
<1>8. Walk(id)[j - 1] = c[id][j - 1]
  BY <1>1, <1>6, <1>7
<1>9. Published(c[id][j - 1]) = c[id][j]
  <2>1. Place(id, (j - 1) + 1) => Published(c[id][j - 1]) = c[id][(j - 1) + 1]
    BY <1>6 DEF ChainsHold, Linked
  <2> QED BY <1>5, <1>6, <2>1
<1>10. Published(c[id][j - 1]) = NextBucket(c[id][j - 1])
  BY DEF Published
<1>11. Walk(id)[j] = NextBucket(Walk(id)[j - 1])
  BY <1>2, <1>4, <1>5
<1> QED BY <1>5, <1>8, <1>9, <1>10, <1>11

\* The high bits of a key are in its chain where Insert finds them.
LEMMA MatchesAre ==
  ASSUME MemoryType, NEW c, ChainsHold(c), writer.pc \in {"idle", "enter"}, NEW k \in Keys, NEW i \in Nat
  PROVE  i \in Matches(k) <=> Place(k[2], i) /\ bucket[c[k[2]][i]].hi = Hi(k)
<1>1. k[2] \in Ids /\ Entry(k) = <<TRUE, k[2]>>
  BY KeyFacts DEF Entry
<1>2. bucket[Entry(k)].size \in Nat
  BY <1>1, SizeType
<1>3. Place(k[2], i) <=> i < bucket[Entry(k)].size
  BY <1>1 DEF Place, Creating
<1>4. i \in 0..bucket[Entry(k)].size-1 <=> i < bucket[Entry(k)].size
  <2>1. \A n \in Nat : i \in 0..n-1 <=> i < n
    OBVIOUS
  <2> QED BY <1>2, <2>1
<1>5. Place(k[2], i) => Walk(k[2])[i] = c[k[2]][i]
  BY <1>1, WalkAgrees
<1> QED BY <1>3, <1>4, <1>5 DEF Matches

LEMMA ChainsGiveMap ==
  ASSUME TableTypes, NEW c, ChainsHold(c) PROVE TableIsMap
<1> SUFFICES ASSUME writer.pc = "idle", NEW k \in Keys
             PROVE  content[k] = IF Matches(k) = {} THEN NFOUND ELSE bucket[Walk(k[2])[FirstMatch(k)]].payload
  BY DEF TableIsMap, FirstMatch
<1>0. MemoryType /\ k[2] \in Ids
  BY KeyFacts DEF TableTypes
<1>1. CASE Matches(k) = {}
  <2>1. ASSUME NEW i \in Nat, Place(k[2], i) PROVE bucket[c[k[2]][i]].hi # Hi(k)
    BY <1>0, <1>1, <2>1, MatchesAre
  <2> QED BY <1>1, <2>1 DEF ChainsHold, Holds
<1>2. CASE Matches(k) # {}
  <2> DEFINE i == FirstMatch(k)
  <2>1. i \in Nat /\ i \in Matches(k)
    BY <1>0, <1>2, FirstMatchType
  <2> HIDE DEF i
  <2>2. Place(k[2], i) /\ bucket[c[k[2]][i]].hi = Hi(k)
    BY <1>0, <2>1, MatchesAre
  <2>3. Walk(k[2])[i] = c[k[2]][i]
    BY <1>0, <2>1, <2>2, WalkAgrees
  <2>4. content[k] = bucket[c[k[2]][i]].payload
    BY <2>1, <2>2 DEF ChainsHold, Holds, Overwriting
  <2> QED BY <1>2, <2>3, <2>4 DEF i
<1> QED BY <1>1, <1>2

LEMMA ChainsGiveOwned ==
  ASSUME TableTypes, NEW c, ChainsHold(c) PROVE ChainsOwned
<1>0. writer.pc # "stuck" /\ MemoryType
  BY DEF ChainsHold, Straight, MovePcs, TableTypes
<1> SUFFICES ASSUME writer.pc = "idle", NEW id \in Ids, NEW i \in 0..bucket[<<TRUE, id>>].size-1
             PROVE  LET l == Walk(id)[i]
                    IN  /\ Valid(l)
                        /\ root_id[l] = id
                        /\ i # 0 => bucket[l].size = 0
                        /\ \A j \in 0..i-1 : Walk(id)[j] # l
  BY <1>0 DEF ChainsOwned
<1> DEFINE n == bucket[<<TRUE, id>>].size
<1>1. n \in Nat
  BY <1>0, SizeType
<1>2. i \in Nat /\ i < n
  <2> HIDE DEF n
  <2>1. i \in 0..n-1
    BY DEF n
  <2> QED BY <1>1, <2>1
<1>3. Place(id, i)
  BY <1>2 DEF Place, Creating
<1>4. Walk(id)[i] = c[id][i]
  BY <1>0, <1>2, <1>3, WalkAgrees
<1>5. Valid(c[id][i]) /\ root_id[c[id][i]] = id /\ (i # 0 => bucket[c[id][i]].size = 0)
  BY <1>2, <1>3 DEF ChainsHold, Knows
<1>6. ASSUME NEW j \in 0..i-1 PROVE Walk(id)[j] # c[id][i]
  <2>1. j \in Nat /\ j <= i /\ j # i
    BY <1>2
  <2>2. Place(id, j)
    BY <1>0, <1>2, <1>3, <2>1, PlaceBefore
  <2>3. Walk(id)[j] = c[id][j]
    BY <1>0, <2>1, <2>2, WalkAgrees
  <2> QED BY <1>2, <1>3, <2>1, <2>2, <2>3 DEF ChainsHold, Once
<1> QED BY <1>4, <1>5, <1>6

LEMMA ChainsInit == TableInit => \E c : ChainsHold(c)
<1> SUFFICES ASSUME TableInit PROVE \E c : ChainsHold(c)
  OBVIOUS
<1> DEFINE c == [id \in Ids |-> [i \in Nat |-> <<TRUE, id>>]]
<1>1. c \in Chains /\ Rooted(c)
  BY IdFacts DEF Chains, Rooted
<1> HIDE DEF c
<1>2. \A id \in Ids : bucket[<<TRUE, id>>].size = 0
  BY IdFacts DEF TableInit
<1>3. ASSUME NEW id \in Ids, NEW i \in Nat PROVE ~Place(id, i) /\ ~Place(id, i + 1)
  <2>1. ~(i < 0) /\ ~(i + 1 < 0)
    OBVIOUS
  <2> QED BY <1>2, <2>1 DEF Place
<1>4. Knows(c) /\ Once(c) /\ KeysOnce(c)
  BY <1>3 DEF Knows, Once, KeysOnce
<1>8. Linked(c)
  BY <1>3 DEF Linked
<1>9. Plain
  <2>1. 0 # 1
    OBVIOUS
  <2>2. \A id \in Ids : bucket[<<TRUE, id>>].size # 1
    BY <1>2, <2>1, Zenon
  <2> QED BY <2>2 DEF Plain
<1>5. Holds(c)
  BY <1>3, KeyFacts DEF Holds, TableInit
<1>6. Owned(c)
  BY IdFacts DEF Owned, TableInit
<1>7. Creates /\ Overwrites(c) /\ Hangs(c) /\ Moves(c) /\ Straight
  BY DEF Creates, Overwrites, Hangs, Moves, Straight, Hanging, MovePcs, TableInit, NoWork
<1> QED BY <1>1, <1>4, <1>5, <1>6, <1>7, <1>8, <1>9 DEF ChainsHold

\* A step leaves the chains alone: what they are read for is as before.
Lasting == \A id \in Ids, i \in Nat : Place(id, i)' <=> Place(id, i)
NodesKept(c) ==
  \A id \in Ids, i \in Nat :
    Place(id, i) => /\ root_id'[c[id][i]] = root_id[c[id][i]]
                    /\ Valid(c[id][i])'
                    /\ bucket'[c[id][i]].hi = bucket[c[id][i]].hi
                    /\ i # 0 => bucket'[c[id][i]].size = bucket[c[id][i]].size
LinksKept(c) ==
  \A id \in Ids, i \in Nat : Place(id, i + 1) => Published(c[id][i])' = Published(c[id][i])
PayloadsKept(c) ==
  \A id \in Ids, i \in Nat : Place(id, i) => bucket'[c[id][i]].payload = bucket[c[id][i]].payload
Untouched(c) == Lasting /\ NodesKept(c) /\ LinksKept(c)

\* The chains of c are still there in d: nothing before their ends has changed.
Kept(c, d) ==
  /\ \A id \in Ids, i \in Nat :
       Place(id, i) => /\ Place(id, i)' /\ d[id][i] = c[id][i]
                       /\ bucket'[c[id][i]].hi = bucket[c[id][i]].hi
  /\ LinksKept(c)

LEMMA UntouchedKept == ASSUME NEW c, Untouched(c) PROVE Kept(c, c)
BY DEF Untouched, Kept, Lasting, NodesKept

Core(c) == c \in Chains /\ Rooted(c) /\ Knows(c) /\ Once(c) /\ KeysOnce(c) /\ Linked(c)
Call(c) == Creates /\ Overwrites(c) /\ Hangs(c) /\ Moves(c) /\ Straight

LEMMA ChainsParts ==
  ASSUME NEW c PROVE ChainsHold(c) <=> Core(c) /\ Plain /\ Holds(c) /\ Owned(c) /\ Call(c)
BY DEF ChainsHold, Core, Call

LEMMA ChainsPartsNext ==
  ASSUME NEW c PROVE ChainsHold(c)' <=> Core(c)' /\ Plain' /\ Holds(c)' /\ Owned(c)' /\ Call(c)'
BY DEF ChainsHold, Core, Call

LEMMA CoreKept ==
  ASSUME NEW c, Core(c), Untouched(c) PROVE Core(c)'
<1>0. Lasting /\ NodesKept(c) /\ LinksKept(c)
  BY DEF Untouched
<1>1. c \in Chains /\ Rooted(c)'
  BY DEF Core, Rooted
<1>2. Knows(c)'
  <2>1. SUFFICES ASSUME NEW id \in Ids, NEW i \in Nat, Place(id, i)'
                 PROVE  /\ root_id'[c[id][i]] = id /\ Valid(c[id][i])'
                        /\ i # 0 => bucket'[c[id][i]].size = 0
    BY DEF Knows
  <2>2. Place(id, i)
    BY <1>0, <2>1 DEF Lasting
  <2> QED BY <1>0, <2>2 DEF NodesKept, Core, Knows
<1>3. Once(c)'
  BY <1>0 DEF Once, Lasting, Core
<1>4. KeysOnce(c)'
  <2>1. SUFFICES ASSUME NEW id \in Ids, NEW i \in Nat, NEW j \in Nat, Place(id, i)', Place(id, j)',
                        bucket'[c[id][i]].hi = bucket'[c[id][j]].hi
                 PROVE  i = j
    BY DEF KeysOnce
  <2>2. Place(id, i) /\ Place(id, j)
    BY <1>0, <2>1 DEF Lasting
  <2>3. bucket'[c[id][i]].hi = bucket[c[id][i]].hi /\ bucket'[c[id][j]].hi = bucket[c[id][j]].hi
    BY <1>0, <2>2 DEF NodesKept
  <2> QED BY <2>1, <2>2, <2>3 DEF Core, KeysOnce
<1>5. Linked(c)'
  <2>1. SUFFICES ASSUME NEW id \in Ids, NEW i \in Nat, Place(id, i + 1)'
                 PROVE  Published(c[id][i])' = c[id][i + 1]
    BY DEF Linked
  <2>2. i + 1 \in Nat
    OBVIOUS
  <2>3. Place(id, i + 1)
    BY <1>0, <2>1, <2>2 DEF Lasting
  <2>4. Published(c[id][i])' = Published(c[id][i])
    BY <1>0, <2>3 DEF LinksKept
  <2>5. Published(c[id][i]) = c[id][i + 1]
    BY <2>3 DEF Core, Linked
  <2> QED BY <2>4, <2>5
<1> QED BY <1>1, <1>2, <1>3, <1>4, <1>5 DEF Core

LEMMA HoldsKept ==
  ASSUME NEW c, Holds(c), Untouched(c), PayloadsKept(c), UNCHANGED content,
         \A k \in Keys : Overwriting(k) => Overwriting(k)'
  PROVE  Holds(c)'
<1>0. Lasting /\ NodesKept(c)
  BY DEF Untouched
<1>1. ASSUME NEW k \in Keys, NEW i \in Nat, Place(k[2], i)', bucket'[c[k[2]][i]].hi = Hi(k), ~Overwriting(k)'
      PROVE  content'[k] = bucket'[c[k[2]][i]].payload
  <2>0. k[2] \in Ids
    BY KeyFacts
  <2>1. Place(k[2], i)
    BY <1>0, <1>1, <2>0 DEF Lasting
  <2>2. bucket[c[k[2]][i]].hi = Hi(k) /\ bucket'[c[k[2]][i]].payload = bucket[c[k[2]][i]].payload
    BY <1>0, <1>1, <2>0, <2>1 DEF NodesKept, PayloadsKept
  <2>3. ~Overwriting(k)
    BY <1>1
  <2> QED BY <2>1, <2>2, <2>3 DEF Holds
<1>2. ASSUME NEW k \in Keys, \A i \in Nat : Place(k[2], i)' => bucket'[c[k[2]][i]].hi # Hi(k)
      PROVE  content'[k] = NFOUND
  <2>0. k[2] \in Ids
    BY KeyFacts
  <2>1. ASSUME NEW i \in Nat, Place(k[2], i) PROVE bucket[c[k[2]][i]].hi # Hi(k)
    BY <1>0, <1>2, <2>0, <2>1 DEF Lasting, NodesKept
  <2> QED BY <2>1 DEF Holds
<1> QED BY <1>1, <1>2 DEF Holds

\* The writer goes on, and memory stays as it is.
Quiet == {"idle", "enter", "overwrite", "find_parent", "optimize_internal"}

LEMMA QuietUntouched ==
  ASSUME NEW c, Core(c), Plain, Owned(c), UNCHANGED <<bucket, root_id, free_id_count>>,
         writer.pc \in Quiet, writer'.pc \in Quiet
  PROVE  Untouched(c) /\ PayloadsKept(c) /\ Core(c)' /\ Plain' /\ Owned(c)'
<1>1. \A id : Creating(id)' <=> Creating(id)
  BY DEF Creating, Quiet
<1>2. \A id, i : Place(id, i)' <=> Place(id, i)
  BY <1>1 DEF Place
<1>3. \A l : Published(l)' = Published(l)
  BY DEF Published, NextBucket, Quiet
<1>4. \A l : Valid(l)' <=> Valid(l)
  BY DEF Valid
<1>5. Lasting /\ LinksKept(c) /\ PayloadsKept(c)
  BY <1>2, <1>3 DEF Lasting, LinksKept, PayloadsKept
<1>6. NodesKept(c)
  BY <1>4 DEF NodesKept, Core, Knows
<1>7. Untouched(c)
  BY <1>5, <1>6 DEF Untouched
<1>8. Plain'
  BY DEF Plain
<1>9. Owned(c)'
  BY <1>2 DEF Owned, Found, Hanging, Quiet
<1> QED BY <1>5, <1>7, <1>8, <1>9, CoreKept

LEMMA ChainsInsert ==
  ASSUME TableTypes, NEW c, ChainsHold(c), NEW k \in Keys, Insert(k) PROVE ChainsHold(c)' /\ Untouched(c)
<1> USE ChainsParts
<1>1. /\ writer.pc = "idle" /\ writer'.pc = "enter" /\ writer'.slot = None /\ writer'.todo = {}
      /\ UNCHANGED <<bucket, root_id, free_id_count, content>>
  BY DEF Insert, NoWork
<1>2. Untouched(c) /\ PayloadsKept(c) /\ Core(c)' /\ Plain' /\ Owned(c)'
  BY <1>1, QuietUntouched DEF Quiet
<1>3. Holds(c)'
  BY <1>1, <1>2, HoldsKept DEF Overwriting
<1>4. Call(c)'
  BY <1>1 DEF Call, Creates, Overwrites, Hangs, Hanging, Moves, MovePcs, Straight
<1> QED BY <1>2, <1>3, <1>4, ChainsPartsNext

LEMMA ChainsIdle ==
  ASSUME NEW c, writer' = NoWork PROVE Call(c)' /\ writer'.pc = "idle"
BY DEF NoWork, Call, Creates, Overwrites, Hangs, Hanging, Moves, MovePcs, Straight

LEMMA ChainsOverwrite ==
  ASSUME TableTypes, NEW c, ChainsHold(c), Overwrite PROVE ChainsHold(c)' /\ Untouched(c)
<1> USE ChainsParts
<1>k. PICK k : k = writer.key
  OBVIOUS
<1>i. PICK i : i = FirstMatch(k)
  OBVIOUS
<1> DEFINE id == k[2]
<1>l. PICK l : l = Walk(id)[i]
  OBVIOUS
<1>0. /\ MemoryType /\ writer \in Works /\ k \in Keys /\ id \in Ids /\ Matches(k) # {} /\ writer.pc = "enter"
      /\ UNCHANGED <<bucket, root_id, free_id_count, content>>
  BY <1>k, KeyFacts DEF Overwrite, TableTypes, WorkKnows, CallPcs
<1>1. i \in Nat /\ i \in Matches(k)
  BY <1>0, <1>i, FirstMatchType
<1>w. \/ writer' = NoWork
      \/ /\ ~l[1] \/ i = 0 \/ root_id[l] = id
         /\ writer' = [writer EXCEPT !.pc = "overwrite", !.loc = l, !.todo = {"lo", "hi"}]
      \/ /\ ~(~l[1] \/ i = 0 \/ root_id[l] = id)
         /\ writer' = [writer EXCEPT !.pc = "stuck"]
  BY <1>k, <1>i, <1>l DEF Overwrite, FirstMatch
<1>2. Place(id, i) /\ bucket[c[id][i]].hi = Hi(k)
  BY <1>0, <1>1, MatchesAre
<1>3. l = c[id][i]
  BY <1>0, <1>1, <1>2, <1>l, WalkAgrees
<1>4. root_id[l] = id
  BY <1>0, <1>1, <1>2, <1>3 DEF Core, Knows
<1>5. CASE writer' = NoWork
  <2>1. Call(c)' /\ writer'.pc = "idle"
    BY <1>5, ChainsIdle
  <2>2. Untouched(c) /\ PayloadsKept(c) /\ Core(c)' /\ Plain' /\ Owned(c)'
    BY <1>0, <2>1, QuietUntouched DEF Quiet
  <2>3. Holds(c)'
    BY <1>0, <2>2, HoldsKept DEF Overwriting
  <2> QED BY <2>1, <2>2, <2>3, ChainsPartsNext
<1>6. CASE writer' = [writer EXCEPT !.pc = "overwrite", !.loc = l, !.todo = {"lo", "hi"}]
  <2>1. writer'.pc = "overwrite" /\ writer'.loc = l /\ writer'.todo = {"lo", "hi"} /\ writer'.key = k
    BY <1>0, <1>6, <1>k DEF Works
  <2>2. Untouched(c) /\ PayloadsKept(c) /\ Core(c)' /\ Plain' /\ Owned(c)'
    BY <1>0, <2>1, QuietUntouched DEF Quiet
  <2>3. Holds(c)'
    BY <1>0, <2>2, HoldsKept DEF Overwriting
  <2>4. Place(id, i)'
    BY <1>0, <1>1, <1>2, <2>2 DEF Untouched, Lasting
  <2>5. Overwrites(c)'
    <3>1. Written(writer.loc)'
      BY <2>1 DEF Written
    <3>2. bucket'[c[id][i]].hi = Hi(k)
      BY <1>0, <1>2
    <3>3. \E j \in Nat : Place(id, j)' /\ l = c[id][j] /\ bucket'[c[id][j]].hi = Hi(k)
      BY <1>1, <1>3, <2>4, <3>2
    <3> QED BY <2>1, <3>1, <3>3 DEF Overwrites
  <2>6. Creates' /\ Hangs(c)' /\ Moves(c)' /\ Straight'
    BY <2>1 DEF Creates, Hangs, Hanging, Moves, MovePcs, Straight
  <2> QED BY <2>2, <2>3, <2>5, <2>6, ChainsPartsNext DEF Call
<1> QED BY <1>w, <1>4, <1>5, <1>6

LEMMA ChainsFindParent ==
  ASSUME TableTypes, NEW c, ChainsHold(c), FindParent PROVE ChainsHold(c)' /\ Untouched(c)
<1> USE ChainsParts
<1>f. PICK f : f = <<FALSE, writer.slot>>
  OBVIOUS
<1>r. PICK r : r = root_id[f]
  OBVIOUS
<1>i. PICK i : i = FirstStop(r, f)
  OBVIOUS
<1>0. /\ MemoryType /\ writer \in Works /\ writer.slot \in Ids /\ r \in Ids /\ writer.pc = "find_parent"
      /\ UNCHANGED <<bucket, root_id, free_id_count, content>> /\ writer.todo = {}
  BY <1>f, <1>r DEF FindParent, TableTypes, WorkKnows, MovePcs, Call, Straight
<1>1. PICK j \in Nat \ {0} : Place(r, j) /\ c[r][j] = f
  <2>1. r # None
    BY <1>0, IdFacts
  <2> QED BY <1>0, <1>f, <1>r, <2>1 DEF Owned, Found, Hanging
<1>2. j - 1 \in Nat /\ (j - 1) + 1 = j /\ j - 1 <= j /\ j \in Nat
  OBVIOUS
<1>3. Place(r, j - 1)
  BY <1>0, <1>1, <1>2, PlaceBefore
<1>4. NextBucket(Walk(r)[j - 1]) = f
  <2>1. Walk(r)[j - 1] = c[r][j - 1] /\ Walk(r)[j] = c[r][j]
    BY <1>0, <1>1, <1>2, <1>3, WalkAgrees
  <2>2. Walk(r)[j] = NextBucket(Walk(r)[j - 1])
    BY <1>0, <1>1, WalkFacts
  <2> QED BY <1>1, <2>1, <2>2
<1>n. PICK n : n = bucket[<<TRUE, r>>].size
  OBVIOUS
<1>5. n \in Nat /\ \A m \in Nat : Place(r, m) <=> m \in 0..n-1
  <2>1. n \in Nat
    BY <1>0, <1>n, SizeType
  <2>2. \A m \in Nat : m \in 0..n-1 <=> m < n
    BY <2>1
  <2>3. \A m \in Nat : Place(r, m) <=> m < n
    BY <1>0, <1>n DEF Place, Creating
  <2> QED BY <2>1, <2>2, <2>3
<1>6. j - 1 \in ParentStops(r, f)
  BY <1>2, <1>3, <1>4, <1>5, <1>n DEF ParentStops
<1>7. i \in Nat /\ i \in ParentStops(r, f) /\ i <= j - 1
  BY <1>0, <1>i, <1>6, FirstStopType
<1>8. Place(r, i)
  BY <1>0, <1>2, <1>3, <1>7, PlaceBefore
<1>9. Walk(r)[i] = c[r][i]
  BY <1>0, <1>7, <1>8, WalkAgrees
<1>10. root_id[c[r][i]] = r /\ Valid(c[r][i]) /\ (i # 0 => bucket[c[r][i]].size = 0)
  BY <1>0, <1>7, <1>8 DEF Core, Knows
<1>11. ~Wrong(r, i)
  <2>1. CASE i = 0
    <3>1. c[r][0] = <<TRUE, r>>
      BY <1>0 DEF Core, Rooted
    <3>2. n # 0
      BY <1>5, <1>8, <2>1
    <3> QED BY <1>9, <1>n, <2>1, <3>1, <3>2 DEF Wrong
  <2>2. CASE i # 0
    BY <1>9, <1>10, <2>2 DEF Wrong
  <2> QED BY <2>1, <2>2
<1>12. NextBucket(c[r][i]) = f
  BY <1>7, <1>9, <1>10, <1>11 DEF ParentStops
<1>13. Place(r, i + 1) /\ c[r][i + 1] = f /\ i + 1 \in Nat
  <2>1. i + 1 <= j /\ i + 1 \in Nat
    BY <1>2, <1>7
  <2>2. Place(r, i + 1)
    BY <1>0, <1>1, <1>2, <2>1, PlaceBefore
  <2>3. Published(c[r][i]) = c[r][i + 1]
    BY <1>0, <1>7, <2>2 DEF Core, Linked
  <2>4. Published(c[r][i]) = NextBucket(c[r][i])
    BY <1>0 DEF Published
  <2> QED BY <1>12, <2>1, <2>2, <2>3, <2>4
<1>14. writer' = [writer EXCEPT !.pc = "optimize_internal", !.last = c[r][i]]
  <2>1. ParentStops(r, f) # {}
    BY <1>6
  <2>2. writer' = IF ParentStops(r, f) = {} \/ ~Valid(Walk(r)[i]) THEN NoWork
                  ELSE IF Wrong(r, i) THEN [writer EXCEPT !.pc = "stuck"]
                  ELSE [writer EXCEPT !.pc = "optimize_internal", !.last = Walk(r)[i]]
    BY <1>f, <1>r, <1>i, FindParentParts
  <2> QED BY <1>9, <1>10, <1>11, <2>1, <2>2
<1>15. /\ writer'.pc = "optimize_internal" /\ writer'.last = c[r][i] /\ writer'.slot = writer.slot
       /\ writer'.loc = writer.loc /\ writer'.todo = {}
  BY <1>0, <1>14 DEF Works
<1>16. Untouched(c) /\ PayloadsKept(c) /\ Core(c)' /\ Plain' /\ Owned(c)'
  BY <1>0, <1>15, QuietUntouched DEF Quiet
<1>17. Holds(c)'
  BY <1>0, <1>16, HoldsKept DEF Overwriting
<1>18. \A m \in Nat : Place(r, m)' <=> Place(r, m)
  BY <1>0, <1>16 DEF Untouched, Lasting
<1>19. Moves(c)'
  <2>1. /\ writer.loc[1] /\ root_id[writer.loc] = r /\ bucket[writer.loc] = bucket[f]
        /\ \A m \in Nat : Place(r, m) => c[r][m] # writer.loc
    BY <1>0, <1>f, <1>r DEF Call, Moves, MovePcs
  <2>2. \E m \in Nat : Place(r, m + 1)' /\ writer'.last = c[r][m] /\ c[r][m + 1] = f
    BY <1>7, <1>13, <1>15, <1>18
  <2>3. root_id'[f] = r /\ <<FALSE, writer'.slot>> = f
    BY <1>0, <1>f, <1>r, <1>15
  <2> QED BY <1>0, <1>15, <1>18, <2>1, <2>2, <2>3 DEF Moves, MovePcs
<1>20. Creates' /\ Hangs(c)' /\ Overwrites(c)' /\ Straight'
  BY <1>15 DEF Creates, Hangs, Hanging, Overwrites, MovePcs, Straight
<1> QED BY <1>16, <1>17, <1>19, <1>20, ChainsPartsNext DEF Call

\* A bucket without a root is in no chain.
LEMMA Rootless ==
  ASSUME NEW c, Core(c), NEW x, root_id[x] = None, NEW id \in Ids, NEW i \in Nat, Place(id, i)
  PROVE  c[id][i] # x
<1>1. root_id[c[id][i]] = id
  BY DEF Core, Knows
<1>2. id # None
  BY IdFacts
<1> QED BY <1>1, <1>2

\* A step writes a bucket that is in no chain.
Outside(c, x) == \A id \in Ids, i \in Nat : Place(id, i) => c[id][i] # x
RootsElsewhere(x) == \A l \in Locations : l # x => root_id'[l] = root_id[l]
FreeGrows == free_id_count' \in Nat /\ free_id_count \in Nat /\ free_id_count <= free_id_count'

LEMMA ValidKept ==
  ASSUME FreeGrows, NEW l \in Locations, Valid(l) PROVE Valid(l)'
<1>1. l[2] \in Nat
  BY LocationFacts, IdFacts
<1>2. l[2] < free_id_count => l[2] < free_id_count'
  BY <1>1 DEF FreeGrows
<1> QED BY <1>2 DEF Valid

LEMMA OutsideUntouched ==
  ASSUME MemoryType, NEW c, Core(c), NEW x \in Locations, NEW b, bucket' = [bucket EXCEPT ![x] = b],
         RootsElsewhere(x), FreeGrows, Lasting, Outside(c, x),
         writer.pc # "optimize_next", writer'.pc # "optimize_next"
  PROVE  Untouched(c) /\ PayloadsKept(c)
<1>0. c \in Chains
  BY DEF Core
<1>1. ASSUME NEW id \in Ids, NEW i \in Nat, Place(id, i)
      PROVE  /\ c[id][i] \in Locations /\ bucket'[c[id][i]] = bucket[c[id][i]]
             /\ root_id'[c[id][i]] = root_id[c[id][i]] /\ Valid(c[id][i])'
  <2>1. c[id][i] \in Locations /\ c[id][i] # x
    BY <1>0, <1>1, ChainType DEF Outside
  <2>2. Valid(c[id][i])
    BY <1>1 DEF Core, Knows
  <2>3. Valid(c[id][i])'
    BY <2>1, <2>2, ValidKept
  <2> QED BY <2>1, <2>3 DEF RootsElsewhere, MemoryType
<1>2. NodesKept(c)
  BY <1>1 DEF NodesKept
<1>3. PayloadsKept(c)
  BY <1>1 DEF PayloadsKept
<1>4. LinksKept(c)
  <2>1. SUFFICES ASSUME NEW id \in Ids, NEW i \in Nat, Place(id, i + 1)
                 PROVE  Published(c[id][i])' = Published(c[id][i])
    BY DEF LinksKept
  <2>2. i + 1 \in Nat /\ i <= i + 1
    OBVIOUS
  <2>3. Place(id, i)
    BY <2>1, <2>2, PlaceBefore
  <2> QED BY <1>1, <2>3 DEF Published, NextBucket
<1> QED BY <1>2, <1>3, <1>4 DEF Untouched

\* The free buckets keep their roots and their places.
FreeRootsKept == \A f \in Ids : root_id'[<<FALSE, f>>] = root_id[<<FALSE, f>>]

Growing == \A id \in Ids, i \in Nat : Place(id, i) => Place(id, i)'
HangingKept == Hanging => Hanging' /\ writer'.slot = writer.slot

LEMMA OwnedAt ==
  ASSUME MemoryType, NEW c, Owned(c), Growing, FreeGrows, HangingKept, NEW f \in Ids, NEW r, r # None,
         r = root_id[<<FALSE, f>>]
  PROVE  r \in Ids /\ Found(c, f, r)'
<1>2. r \in Ids
  BY IdFacts DEF MemoryType
<1>3. /\ f < free_id_count
      /\ \/ Hanging /\ writer.slot = f
         \/ \E i \in Nat \ {0} : Place(r, i) /\ c[r][i] = <<FALSE, f>>
  BY <1>2 DEF Owned, Found
<1>4. f < free_id_count'
  <2>1. f \in Nat
    BY IdFacts
  <2> QED BY <1>3, <2>1 DEF FreeGrows
<1>5. CASE Hanging /\ writer.slot = f
  BY <1>2, <1>4, <1>5 DEF HangingKept, Found
<1>6. CASE \E i \in Nat \ {0} : Place(r, i) /\ c[r][i] = <<FALSE, f>>
  <2>1. PICK i \in Nat \ {0} : Place(r, i) /\ c[r][i] = <<FALSE, f>>
    BY <1>6
  <2>2. Place(r, i)'
    BY <1>2, <2>1 DEF Growing
  <2> QED BY <1>2, <1>4, <2>1, <2>2 DEF Found
<1> QED BY <1>3, <1>5, <1>6

LEMMA OwnedKept ==
  ASSUME MemoryType, NEW c, Owned(c), Lasting, FreeRootsKept, FreeGrows, HangingKept
  PROVE  Owned(c)'
<1>0. Growing
  BY DEF Growing, Lasting
<1>1. SUFFICES ASSUME NEW f \in Ids, NEW r, r = root_id'[<<FALSE, f>>], r # None
               PROVE  Found(c, f, r)'
  BY DEF Owned
<1>2. r = root_id[<<FALSE, f>>]
  BY <1>1 DEF FreeRootsKept
<1> QED BY <1>0, <1>1, <1>2, OwnedAt

LEMMA FreeStays ==
  ASSUME MemoryType, UNCHANGED free_id_count PROVE FreeGrows
BY QedTableAssumption DEF MemoryType, FreeGrows

LEMMA ChainsClaim ==
  ASSUME TableTypes, NEW c, ChainsHold(c), Claim, root_id[Entry(writer.key)] = None PROVE ChainsHold(c)' /\ Untouched(c)
<1> USE ChainsParts
<1>k. PICK k : k = writer.key
  OBVIOUS
<1> DEFINE id == k[2]
           x == <<TRUE, id>>
<1>0. /\ MemoryType /\ writer \in Works /\ k \in Keys /\ id \in Ids /\ writer.pc = "enter"
      /\ x \in Locations /\ x = Entry(k) /\ bucket[x].size = 0 /\ root_id[x] = None
      /\ UNCHANGED <<root_id, free_id_count, content>>
  BY <1>k, KeyFacts, IdFacts DEF Claim, TableTypes, WorkKnows, CallPcs, Entry
<1>b. PICK b : b = [bucket[x] EXCEPT !.internal = FALSE, !.size = 1]
  OBVIOUS
<1>1. bucket' = [bucket EXCEPT ![x] = b]
  BY <1>k, <1>b DEF Claim, Entry
<1>2. b.size = 1 /\ ~b.internal
  BY <1>0, <1>b, BucketType DEF Buckets
<1>3. writer' = [writer EXCEPT !.pc = "create", !.size_field = SizeField(x), !.loc = x, !.todo = {"lo", "hi", "key"}]
  BY <1>k, <1>0 DEF Claim
<1>4. writer'.pc = "create" /\ writer'.key = k /\ writer'.loc = x /\ writer'.todo = {"lo", "hi", "key"}
  <2> HIDE DEF x
  <2> QED BY <1>0, <1>k, <1>3 DEF Works
<1>5. \A l \in Locations : bucket'[l] = IF l = x THEN b ELSE bucket[l]
  BY <1>0, <1>1 DEF MemoryType
<1>6. ASSUME NEW n \in Ids, NEW i \in Nat PROVE Place(n, i)' <=> Place(n, i)
  <2>1. <<TRUE, n>> \in Locations
    BY IdFacts
  <2>2. CASE n = id
    <3>1. Creating(n)'
      BY <1>4, <2>2 DEF Creating
    <3>2. ~(i < 0)
      OBVIOUS
    <3>3. ~Place(n, i)
      BY <1>0, <2>2, <3>2 DEF Place
    <3> QED BY <3>1, <3>3 DEF Place
  <2>3. CASE n # id
    <3>1. <<TRUE, n>> # x
      BY <2>3
    <3>2. bucket'[<<TRUE, n>>] = bucket[<<TRUE, n>>]
      BY <1>5, <2>1, <3>1
    <3>3. ~Creating(n)' /\ ~Creating(n)
      BY <1>0, <1>4, <2>3 DEF Creating
    <3> QED BY <3>2, <3>3 DEF Place
  <2> QED BY <2>2, <2>3
<1>7. Lasting
  BY <1>6 DEF Lasting
<1>8. Outside(c, x)
  BY <1>0, Rootless DEF Outside
<1>9. RootsElsewhere(x) /\ FreeGrows /\ FreeRootsKept
  BY <1>0, FreeStays DEF RootsElsewhere, FreeRootsKept
<1>10. Untouched(c) /\ PayloadsKept(c)
  BY <1>0, <1>1, <1>4, <1>7, <1>8, <1>9, OutsideUntouched
<1>11. Core(c)'
  BY <1>10, CoreKept
<1>12. Holds(c)'
  BY <1>0, <1>10, HoldsKept DEF Overwriting
<1>13. Owned(c)'
  BY <1>0, <1>7, <1>9, OwnedKept DEF HangingKept, Hanging
<1>14. Plain'
  <2>1. ASSUME NEW n \in Ids, bucket'[<<TRUE, n>>].size = 1 PROVE ~bucket'[<<TRUE, n>>].internal
    <3>1. <<TRUE, n>> \in Locations
      BY IdFacts
    <3>2. CASE <<TRUE, n>> = x
      BY <1>2, <1>5, <3>1, <3>2
    <3>3. CASE <<TRUE, n>> # x
      <4>1. bucket'[<<TRUE, n>>] = bucket[<<TRUE, n>>]
        BY <1>5, <3>1, <3>3
      <4> QED BY <2>1, <4>1 DEF Plain
    <3> QED BY <3>2, <3>3
  <2> QED BY <2>1 DEF Plain
<1>15. Creates'
  <2>1. bucket'[x].size = 1 /\ root_id'[x] = None /\ x = Entry(k)
    BY <1>0, <1>2, <1>5
  <2>2. writer'.loc = Entry(writer.key)'
    BY <1>0, <1>4 DEF Entry
  <2> HIDE DEF x, id
  <2>3. Written(writer.loc)'
    BY <1>4 DEF Written
  <2> QED BY <1>4, <2>1, <2>2, <2>3 DEF Creates
<1>16. Overwrites(c)' /\ Hangs(c)' /\ Moves(c)' /\ Straight'
  BY <1>4 DEF Overwrites, Hangs, Hanging, Moves, MovePcs, Straight
<1> QED BY <1>10, <1>11, <1>12, <1>13, <1>14, <1>15, <1>16, ChainsPartsNext DEF Call

\* A store of a root node or of a payload.
LEMMA StoredFields ==
  ASSUME writer \in Works, NEW b \in Buckets, NEW f \in {"lo", "hi", "key"}
  PROVE  LET s == Stored(b, f) IN
         /\ s.size = b.size /\ s.internal = b.internal
         /\ f # "key" => s.hi = b.hi /\ s.next = b.next
         /\ f = "key" => s.hi = Hi(writer.key) /\ s.payload = b.payload
         /\ f = "lo" => s.payload[1] = writer.payload[1] /\ s.payload[2] = b.payload[2]
         /\ f = "hi" => s.payload[2] = writer.payload[2] /\ s.payload[1] = b.payload[1]
<1>0. b.payload \in Payloads
  BY DEF Buckets
<1>1. CASE f = "lo"
  <2> DEFINE q == [b.payload EXCEPT ![1] = writer.payload[1]]
  <2>1. Stored(b, f) = [b EXCEPT !.payload = q]
    BY <1>1 DEF Stored
  <2>2. q[1] = writer.payload[1] /\ q[2] = b.payload[2]
    BY <1>0, PayloadFacts DEF Payloads
  <2> HIDE DEF q
  <2> QED BY <1>1, <2>1, <2>2 DEF Buckets
<1>2. CASE f = "hi"
  <2> DEFINE q == [b.payload EXCEPT ![2] = writer.payload[2]]
  <2>1. Stored(b, f) = [b EXCEPT !.payload = q]
    BY <1>2 DEF Stored
  <2>2. q[2] = writer.payload[2] /\ q[1] = b.payload[1]
    BY <1>0, PayloadFacts DEF Payloads
  <2> HIDE DEF q
  <2> QED BY <1>2, <2>1, <2>2 DEF Buckets
<1>3. CASE f = "key"
  <2>1. Stored(b, f) = [b EXCEPT !.hi = Hi(writer.key), !.next = writer.key[2]]
    BY <1>3 DEF Stored
  <2> QED BY <1>3, <2>1 DEF Buckets
<1> QED BY <1>1, <1>2, <1>3

LEMMA WrittenKept ==
  ASSUME TableTypes, NEW f \in {"lo", "hi", "key"}, Store(f), writer.loc \in Locations, Written(writer.loc)
  PROVE  Written(writer.loc)'
<1>1. MemoryType /\ writer \in Works
  BY DEF TableTypes
<1>l. PICK l : l = writer.loc
  OBVIOUS
<1>2. bucket[l] \in Buckets
  BY <1>1, <1>l, BucketType
<1>3. /\ writer'.loc = l /\ writer'.payload = writer.payload /\ writer'.todo = writer.todo \ {f}
  BY <1>1, <1>l DEF Store, Works
<1>4. bucket'[l] = Stored(bucket[l], f)
  BY <1>1, <1>l DEF Store, MemoryType
<1> DEFINE s == Stored(bucket[l], f)
<1>5. /\ f = "key" => s.payload = bucket[l].payload
      /\ f = "lo" => s.payload[1] = writer.payload[1] /\ s.payload[2] = bucket[l].payload[2]
      /\ f = "hi" => s.payload[2] = writer.payload[2] /\ s.payload[1] = bucket[l].payload[1]
  BY <1>1, <1>2, StoredFields
<1> HIDE DEF s
<1>6. bucket'[l] = s
  BY <1>4 DEF s
<1>7. "lo" \notin writer'.todo => s.payload[1] = writer.payload[1]
  BY <1>l, <1>3, <1>5 DEF Written
<1>8. "hi" \notin writer'.todo => s.payload[2] = writer.payload[2]
  BY <1>l, <1>3, <1>5 DEF Written
<1> QED BY <1>3, <1>6, <1>7, <1>8 DEF Written

LEMMA ChainsStoreCreate ==
  ASSUME TableTypes, NEW c, ChainsHold(c), NEW f \in Fields, Store(f), writer.pc = "create" PROVE ChainsHold(c)' /\ Untouched(c)
<1> USE ChainsParts
<1>x. PICK x : x = writer.loc
  OBVIOUS
<1>0. /\ MemoryType /\ writer \in Works /\ writer.key \in Keys /\ x \in Locations
      /\ UNCHANGED <<root_id, free_id_count, content>>
  BY <1>x DEF Store, TableTypes, WorkKnows, CallPcs
<1>1. /\ x = Entry(writer.key) /\ bucket[x].size = 1 /\ root_id[x] = None
      /\ writer.todo \in SUBSET {"lo", "hi", "key"} /\ Written(writer.loc)
      /\ "key" \notin writer.todo => bucket[x].hi = Hi(writer.key)
  BY <1>x DEF Call, Creates
<1>2. f \in {"lo", "hi", "key"}
  BY <1>1 DEF Store
<1>b. PICK b : b = Stored(bucket[x], f)
  OBVIOUS
<1>3. bucket' = [bucket EXCEPT ![x] = b]
  BY <1>x, <1>b DEF Store
<1>4. /\ writer'.pc = "create" /\ writer'.loc = x /\ writer'.key = writer.key /\ writer'.todo = writer.todo \ {f}
      /\ writer'.payload = writer.payload
  BY <1>0, <1>x DEF Store, Works
<1>5. bucket[x] \in Buckets
  BY <1>0, BucketType
<1>6. /\ b.size = bucket[x].size /\ b.internal = bucket[x].internal
      /\ f # "key" => b.hi = bucket[x].hi
      /\ f = "key" => b.hi = Hi(writer.key)
  BY <1>0, <1>2, <1>5, <1>b, StoredFields
<1>7. \A l \in Locations : bucket'[l] = IF l = x THEN b ELSE bucket[l]
  BY <1>0, <1>3 DEF MemoryType
<1>8. \A n \in Ids : /\ bucket'[<<TRUE, n>>].size = bucket[<<TRUE, n>>].size
                     /\ bucket'[<<TRUE, n>>].internal = bucket[<<TRUE, n>>].internal
  BY <1>6, <1>7, IdFacts
<1>9. \A n : Creating(n)' <=> Creating(n)
  BY <1>4 DEF Creating
<1>10. Lasting
  BY <1>8, <1>9 DEF Lasting, Place
<1>11. Outside(c, x)
  BY <1>1, Rootless DEF Outside
<1>12. RootsElsewhere(x) /\ FreeGrows /\ FreeRootsKept
  BY <1>0, FreeStays DEF RootsElsewhere, FreeRootsKept
<1>13. Untouched(c) /\ PayloadsKept(c)
  BY <1>0, <1>3, <1>4, <1>10, <1>11, <1>12, OutsideUntouched
<1>14. Core(c)'
  BY <1>13, CoreKept
<1>15. Holds(c)'
  BY <1>0, <1>13, HoldsKept DEF Overwriting
<1>16. Owned(c)'
  BY <1>0, <1>10, <1>12, OwnedKept DEF HangingKept, Hanging
<1>17. Plain'
  BY <1>8 DEF Plain
<1>18. Creates'
  <2>1. Written(writer.loc)'
    BY <1>0, <1>1, <1>2, <1>x, WrittenKept
  <2>2. writer'.loc = Entry(writer.key)' /\ bucket'[x].size = 1 /\ root_id'[x] = None
    BY <1>0, <1>1, <1>4, <1>6, <1>7 DEF Entry
  <2>3. writer'.todo \in SUBSET {"lo", "hi", "key"}
    BY <1>1, <1>4
  <2>4. "key" \notin writer'.todo => bucket'[x].hi = Hi(writer.key)
    BY <1>0, <1>1, <1>4, <1>6, <1>7
  <2> QED BY <1>4, <2>1, <2>2, <2>3, <2>4 DEF Creates
<1>19. Overwrites(c)' /\ Hangs(c)' /\ Moves(c)' /\ Straight'
  BY <1>4 DEF Overwrites, Hangs, Hanging, Moves, MovePcs, Straight
<1> QED BY <1>13, <1>14, <1>15, <1>16, <1>17, <1>18, <1>19, ChainsPartsNext DEF Call

LEMMA ChainsStoreOverwrite ==
  ASSUME TableTypes, NEW c, ChainsHold(c), NEW f \in Fields, Store(f), writer.pc = "overwrite" PROVE ChainsHold(c)' /\ Untouched(c)
<1> USE ChainsParts
<1>x. PICK x : x = writer.loc
  OBVIOUS
<1>k. PICK k : k = writer.key
  OBVIOUS
<1>f. f \in writer.todo
  BY DEF Store
<1>0. /\ MemoryType /\ writer \in Works /\ k \in Keys /\ k[2] \in Ids /\ x \in Locations
      /\ UNCHANGED <<root_id, free_id_count, content>>
  BY <1>x, <1>k, <1>f, KeyFacts DEF Store, TableTypes, WorkKnows, CallPcs
<1>1. writer.todo \in SUBSET {"lo", "hi"} /\ Written(writer.loc)
  BY DEF Call, Overwrites
<1>i. PICK i \in Nat : Place(k[2], i) /\ x = c[k[2]][i] /\ bucket[c[k[2]][i]].hi = Hi(k)
  BY <1>x, <1>k DEF Call, Overwrites
<1>2. f \in {"lo", "hi"}
  BY <1>1, <1>f
<1>b. PICK b : b = Stored(bucket[x], f)
  OBVIOUS
<1>3. bucket' = [bucket EXCEPT ![x] = b]
  BY <1>x, <1>b DEF Store
<1>4. /\ writer'.pc = "overwrite" /\ writer'.loc = x /\ writer'.key = k /\ writer'.todo = writer.todo \ {f}
      /\ writer'.payload = writer.payload
  BY <1>0, <1>x, <1>k DEF Store, Works
<1>5. bucket[x] \in Buckets
  BY <1>0, BucketType
<1>6. b.size = bucket[x].size /\ b.internal = bucket[x].internal /\ b.hi = bucket[x].hi /\ b.next = bucket[x].next
  BY <1>0, <1>2, <1>5, <1>b, StoredFields
<1>7. \A l \in Locations : bucket'[l] = IF l = x THEN b ELSE bucket[l]
  BY <1>0, <1>3 DEF MemoryType
<1>8. \A l \in Locations : /\ bucket'[l].size = bucket[l].size /\ bucket'[l].internal = bucket[l].internal
                           /\ bucket'[l].hi = bucket[l].hi /\ bucket'[l].next = bucket[l].next
  BY <1>6, <1>7
<1>9. \A n : Creating(n)' <=> Creating(n)
  BY <1>4 DEF Creating
<1>10. Lasting
  BY <1>8, <1>9, IdFacts DEF Lasting, Place
<1>11. FreeGrows /\ FreeRootsKept
  BY <1>0, FreeStays DEF FreeRootsKept
<1>12. \A n \in Ids, j \in Nat : c[n][j] \in Locations
  BY ChainType DEF Core
<1>13. NodesKept(c)
  <2>1. \A l : Valid(l)' <=> Valid(l)
    BY <1>0 DEF Valid
  <2>2. \A n \in Ids, j \in Nat : Place(n, j) => Valid(c[n][j])
    BY DEF Core, Knows
  <2> QED BY <1>0, <1>8, <1>12, <2>1, <2>2 DEF NodesKept
<1>14. LinksKept(c)
  <2>1. \A l \in Locations : Published(l)' = Published(l)
    BY <1>4, <1>8 DEF Published, NextBucket
  <2> QED BY <1>12, <2>1 DEF LinksKept
<1>u. Untouched(c)
  BY <1>10, <1>13, <1>14 DEF Untouched
<1>15. Core(c)'
  BY <1>u, CoreKept
<1>16. Owned(c)'
  BY <1>0, <1>10, <1>11, OwnedKept DEF HangingKept, Hanging
<1>17. Plain'
  BY <1>8, IdFacts DEF Plain
<1>18. Holds(c)'
  <2>1. ASSUME NEW q \in Keys, NEW j \in Nat, Place(q[2], j)', bucket'[c[q[2]][j]].hi = Hi(q), ~Overwriting(q)'
        PROVE  content'[q] = bucket'[c[q[2]][j]].payload
    <3>1. q[2] \in Ids /\ q # k
      BY <1>4, <2>1, KeyFacts DEF Overwriting
    <3>2. Place(q[2], j) /\ bucket[c[q[2]][j]].hi = Hi(q)
      BY <1>8, <1>10, <1>12, <2>1, <3>1 DEF Lasting
    <3>3. c[q[2]][j] # x
      <4>1. SUFFICES ASSUME c[q[2]][j] = x PROVE FALSE
        OBVIOUS
      <4>2. root_id[c[q[2]][j]] = q[2] /\ root_id[c[k[2]][i]] = k[2]
        BY <1>0, <1>i, <3>1, <3>2 DEF Core, Knows
      <4>3. q[2] = k[2] /\ Hi(q) = Hi(k)
        BY <1>i, <3>2, <4>1, <4>2
      <4>4. q = k
        BY <1>0, <4>3, KeyFacts DEF Hi
      <4> QED BY <3>1, <4>4
    <3>4. bucket'[c[q[2]][j]] = bucket[c[q[2]][j]]
      BY <1>7, <1>12, <3>1, <3>3
    <3>5. ~Overwriting(q)
      BY <1>k, <3>1 DEF Overwriting
    <3> QED BY <1>0, <3>2, <3>4, <3>5 DEF Holds
  <2>2. ASSUME NEW q \in Keys, \A j \in Nat : Place(q[2], j)' => bucket'[c[q[2]][j]].hi # Hi(q)
        PROVE  content'[q] = NFOUND
    <3>1. q[2] \in Ids
      BY KeyFacts
    <3>2. \A j \in Nat : Place(q[2], j) => bucket[c[q[2]][j]].hi # Hi(q)
      BY <1>8, <1>10, <1>12, <2>2, <3>1 DEF Lasting
    <3> QED BY <1>0, <3>2 DEF Holds
  <2> QED BY <2>1, <2>2 DEF Holds
<1>19. Overwrites(c)'
  <2>1. Written(writer.loc)'
    BY <1>0, <1>1, <1>2, <1>x, WrittenKept
  <2>2. writer'.todo \in SUBSET {"lo", "hi"}
    BY <1>1, <1>4
  <2>3. Place(k[2], i)' /\ bucket'[c[k[2]][i]].hi = Hi(k)
    BY <1>0, <1>8, <1>10, <1>12, <1>i DEF Lasting
  <2>4. \E j \in Nat : Place(k[2], j)' /\ x = c[k[2]][j] /\ bucket'[c[k[2]][j]].hi = Hi(k)
    BY <1>i, <2>3
  <2> QED BY <1>4, <2>1, <2>2, <2>4 DEF Overwrites
<1>20. Creates' /\ Hangs(c)' /\ Moves(c)' /\ Straight'
  BY <1>4 DEF Creates, Hangs, Hanging, Moves, MovePcs, Straight
<1> QED BY <1>u, <1>15, <1>16, <1>17, <1>18, <1>19, <1>20, ChainsPartsNext DEF Call

LEMMA ChainsFinishOverwrite ==
  ASSUME TableTypes, NEW c, ChainsHold(c), Finish, writer.pc = "overwrite" PROVE ChainsHold(c)' /\ Untouched(c)
<1> USE ChainsParts
<1>x. PICK x : x = writer.loc
  OBVIOUS
<1>k. PICK k : k = writer.key
  OBVIOUS
<1>0. /\ MemoryType /\ writer \in Works /\ k \in Keys /\ k[2] \in Ids /\ content \in [Keys -> Payloads \cup {NFOUND}]
      /\ UNCHANGED <<bucket, root_id, free_id_count>> /\ writer.todo = {} /\ writer' = NoWork
      /\ content' = [content EXCEPT ![k] = writer.payload]
  BY <1>k, KeyFacts DEF Finish, ObserveContent, TableTypes, WorkKnows, CallPcs
<1>1. Call(c)' /\ writer'.pc = "idle"
  BY <1>0, ChainsIdle
<1>2. Untouched(c) /\ PayloadsKept(c) /\ Core(c)' /\ Plain' /\ Owned(c)'
  BY <1>0, <1>1, QuietUntouched DEF Quiet
<1>i. PICK i \in Nat : Place(k[2], i) /\ x = c[k[2]][i] /\ bucket[c[k[2]][i]].hi = Hi(k)
  BY <1>x, <1>k DEF Call, Overwrites
<1>3. bucket[x].payload = writer.payload
  <2>1. bucket[x].payload[1] = writer.payload[1] /\ bucket[x].payload[2] = writer.payload[2]
    BY <1>0, <1>x DEF Call, Overwrites, Written
  <2>2. x \in Locations
    BY <1>0, <1>i, ChainType DEF Core
  <2>3. bucket[x].payload \in Payloads /\ writer.payload \in Payloads
    BY <1>0, <2>2, BucketType DEF Works, Buckets
  <2> QED BY <2>1, <2>3, PayloadFacts
<1>4. \A n \in Ids, j \in Nat : Place(n, j)' <=> Place(n, j)
  BY <1>2 DEF Untouched, Lasting
<1>5. \A q \in Keys : content'[q] = IF q = k THEN writer.payload ELSE content[q]
  BY <1>0
<1>6. ASSUME NEW q \in Keys, NEW j \in Nat, Place(q[2], j)', bucket'[c[q[2]][j]].hi = Hi(q)
      PROVE  content'[q] = bucket'[c[q[2]][j]].payload
  <2>1. q[2] \in Ids
    BY KeyFacts
  <2>2. Place(q[2], j) /\ bucket[c[q[2]][j]].hi = Hi(q)
    BY <1>0, <1>4, <1>6, <2>1
  <2>3. CASE q = k
    <3>1. j = i
      BY <1>0, <1>i, <2>2, <2>3 DEF Core, KeysOnce
    <3> QED BY <1>0, <1>3, <1>5, <1>i, <2>3, <3>1
  <2>4. CASE q # k
    <3>1. ~Overwriting(q)
      BY <1>k, <2>4 DEF Overwriting
    <3>2. content[q] = bucket[c[q[2]][j]].payload
      BY <2>2, <3>1 DEF Holds
    <3> QED BY <1>0, <1>5, <2>4, <3>2
  <2> QED BY <2>3, <2>4
<1>7. ASSUME NEW q \in Keys, \A j \in Nat : Place(q[2], j)' => bucket'[c[q[2]][j]].hi # Hi(q)
      PROVE  content'[q] = NFOUND
  <2>1. q[2] \in Ids
    BY KeyFacts
  <2>2. \A j \in Nat : Place(q[2], j) => bucket[c[q[2]][j]].hi # Hi(q)
    BY <1>0, <1>4, <1>7, <2>1
  <2>3. q # k
    BY <1>i, <2>2
  <2>4. content[q] = NFOUND
    BY <2>2 DEF Holds
  <2> QED BY <1>5, <2>3, <2>4
<1>8. Holds(c)'
  BY <1>6, <1>7 DEF Holds
<1> QED BY <1>1, <1>2, <1>8, ChainsPartsNext

LEMMA ChainsFinishCreate ==
  ASSUME TableTypes, NEW c, ChainsHold(c), Finish, writer.pc = "create" PROVE ChainsHold(c)' /\ Kept(c, c)
<1> USE ChainsParts
<1>k. PICK k : k = writer.key
  OBVIOUS
<1> DEFINE id == k[2]
           x == <<TRUE, id>>
<1>0. /\ MemoryType /\ writer \in Works /\ k \in Keys /\ id \in Ids /\ content \in [Keys -> Payloads \cup {NFOUND}]
      /\ UNCHANGED <<bucket, free_id_count>> /\ writer.todo = {} /\ writer' = NoWork
      /\ content' = [content EXCEPT ![k] = writer.payload]
  BY <1>k, KeyFacts DEF Finish, ObserveContent, TableTypes, WorkKnows, CallPcs
<1>1. Call(c)' /\ writer'.pc = "idle"
  BY <1>0, ChainsIdle
<1>2. /\ writer.loc = x /\ x \in Locations /\ bucket[x].size = 1 /\ root_id[x] = None
      /\ Written(x) /\ bucket[x].hi = Hi(k)
  BY <1>0, <1>k, IdFacts DEF Call, Creates, Entry
<1>3. root_id' = [root_id EXCEPT ![x] = id]
  BY <1>2 DEF Finish
<1>4. \A l \in Locations : root_id'[l] = IF l = x THEN id ELSE root_id[l]
  BY <1>2, <1>3 DEF MemoryType, TableTypes
<1>5. bucket[x].payload = writer.payload
  <2>1. bucket[x].payload[1] = writer.payload[1] /\ bucket[x].payload[2] = writer.payload[2]
    BY <1>0, <1>2 DEF Written
  <2>3. bucket[x].payload \in Payloads /\ writer.payload \in Payloads
    BY <1>0, <1>2, BucketType DEF Works, Buckets
  <2> HIDE DEF x
  <2> QED BY <2>1, <2>3, PayloadFacts
<1>c. c \in Chains /\ c[id][0] = x
  BY <1>0 DEF Core, Rooted
<1>6. ASSUME NEW n \in Ids, NEW i \in Nat
      PROVE  /\ n = id => ~Place(n, i) /\ (Place(n, i)' <=> i = 0)
             /\ n # id => (Place(n, i)' <=> Place(n, i))
  <2>1. ~Creating(n)'
    BY <1>1 DEF Creating
  <2>2. CASE n = id
    <3>1. Creating(n)
      BY <1>k, <2>2 DEF Creating
    <3>2. i < 1 <=> i = 0
      OBVIOUS
    <3> QED BY <1>0, <1>2, <2>1, <2>2, <3>1, <3>2 DEF Place
  <2>3. CASE n # id
    <3>1. ~Creating(n)
      BY <1>k, <2>3 DEF Creating
    <3> QED BY <1>0, <2>1, <2>3, <3>1 DEF Place
  <2> QED BY <2>2, <2>3
<1>7. ASSUME NEW n \in Ids, NEW i \in Nat, Place(n, i)
      PROVE  c[n][i] \in Locations /\ root_id'[c[n][i]] = n /\ n # id
  <2>1. c[n][i] # x
    BY <1>2, <1>7, Rootless
  <2>2. c[n][i] \in Locations
    BY <1>c, ChainType
  <2>3. root_id[c[n][i]] = n
    BY <1>7 DEF Core, Knows
  <2>4. n # id
    BY <1>6, <1>7
  <2> QED BY <1>4, <2>1, <2>2, <2>3, <2>4
<1>8. Knows(c)'
  <2>1. SUFFICES ASSUME NEW n \in Ids, NEW i \in Nat, Place(n, i)'
                 PROVE  /\ root_id'[c[n][i]] = n /\ Valid(c[n][i])'
                        /\ i # 0 => bucket'[c[n][i]].size = 0
    BY DEF Knows
  <2>2. CASE n = id
    <3>1. i = 0
      BY <1>6, <2>1, <2>2
    <3>2. Valid(x)'
      BY DEF Valid
    <3> QED BY <1>2, <1>4, <1>c, <2>2, <3>1, <3>2
  <2>3. CASE n # id
    <3>1. Place(n, i)
      BY <1>6, <2>1, <2>3
    <3>2. Valid(c[n][i]) /\ (i # 0 => bucket[c[n][i]].size = 0)
      BY <3>1 DEF Core, Knows
    <3>3. Valid(c[n][i])'
      BY <1>0, <3>2 DEF Valid
    <3> QED BY <1>0, <1>7, <3>1, <3>2, <3>3
  <2> QED BY <2>2, <2>3
<1>9. Once(c)'
  <2>1. SUFFICES ASSUME NEW n \in Ids, NEW i \in Nat, NEW j \in Nat, Place(n, i)', Place(n, j)', c[n][i] = c[n][j]
                 PROVE  i = j
    BY DEF Once
  <2> QED BY <1>6, <2>1 DEF Core, Once
<1>10. KeysOnce(c)'
  <2>1. SUFFICES ASSUME NEW n \in Ids, NEW i \in Nat, NEW j \in Nat, Place(n, i)', Place(n, j)',
                        bucket'[c[n][i]].hi = bucket'[c[n][j]].hi
                 PROVE  i = j
    BY DEF KeysOnce
  <2> QED BY <1>0, <1>6, <2>1 DEF Core, KeysOnce
<1>11. Linked(c)'
  <2>1. SUFFICES ASSUME NEW n \in Ids, NEW i \in Nat, Place(n, i + 1)'
                 PROVE  Published(c[n][i])' = c[n][i + 1]
    BY DEF Linked
  <2>2. i + 1 \in Nat /\ i + 1 # 0
    OBVIOUS
  <2>3. Place(n, i + 1)
    BY <1>6, <2>1, <2>2
  <2>4. Published(c[n][i]) = c[n][i + 1]
    BY <2>3 DEF Core, Linked
  <2>5. Published(c[n][i])' = Published(c[n][i])
    BY <1>0, <1>1 DEF Published, NextBucket
  <2> QED BY <2>4, <2>5
<1>12. Core(c)'
  BY <1>8, <1>9, <1>10, <1>11 DEF Core, Rooted
<1>13. Plain'
  BY <1>0 DEF Plain
<1>14. Owned(c)'
  <2>0. Growing
    BY <1>6 DEF Growing
  <2>1. FreeGrows /\ HangingKept
    BY <1>0, FreeStays DEF HangingKept, Hanging
  <2>2. SUFFICES ASSUME NEW f \in Ids, NEW r, r = root_id'[<<FALSE, f>>], r # None
                 PROVE  Found(c, f, r)'
    BY DEF Owned
  <2>3. r = root_id[<<FALSE, f>>]
    <3>1. <<FALSE, f>> # x /\ <<FALSE, f>> \in Locations
      BY IdFacts
    <3> QED BY <1>4, <2>2, <3>1
  <2> QED BY <1>0, <2>0, <2>1, <2>2, <2>3, OwnedAt
<1>15. \A q \in Keys : content'[q] = IF q = k THEN writer.payload ELSE content[q]
  BY <1>0
<1>16. ASSUME NEW q \in Keys, NEW j \in Nat, Place(q[2], j)', bucket'[c[q[2]][j]].hi = Hi(q)
       PROVE  content'[q] = bucket'[c[q[2]][j]].payload
  <2>1. q[2] \in Ids
    BY KeyFacts
  <2>2. CASE q[2] = id
    <3>1. j = 0 /\ c[q[2]][j] = x
      BY <1>6, <1>16, <1>c, <2>1, <2>2
    <3>2. Hi(q) = Hi(k)
      BY <1>0, <1>2, <1>16, <3>1
    <3>3. q = k
      BY <1>0, <2>2, <3>2, KeyFacts DEF Hi
    <3> QED BY <1>0, <1>5, <1>15, <3>1, <3>3
  <2>3. CASE q[2] # id
    <3>1. Place(q[2], j) /\ q # k
      BY <1>6, <1>16, <2>1, <2>3
    <3>2. content[q] = bucket[c[q[2]][j]].payload
      BY <1>0, <1>16, <3>1 DEF Holds, Overwriting
    <3> QED BY <1>0, <1>15, <3>1, <3>2
  <2> QED BY <2>2, <2>3
<1>17. ASSUME NEW q \in Keys, \A j \in Nat : Place(q[2], j)' => bucket'[c[q[2]][j]].hi # Hi(q)
       PROVE  content'[q] = NFOUND
  <2>1. q[2] \in Ids
    BY KeyFacts
  <2>2. q # k
    <3>1. SUFFICES ASSUME q = k PROVE FALSE
      OBVIOUS
    <3>2. Place(id, 0)' /\ 0 \in Nat
      BY <1>0, <1>6
    <3> QED BY <1>0, <1>2, <1>17, <1>c, <3>1, <3>2
  <2>3. \A j \in Nat : Place(q[2], j) => bucket[c[q[2]][j]].hi # Hi(q)
    BY <1>0, <1>6, <1>17, <2>1
  <2>4. content[q] = NFOUND
    BY <2>3 DEF Holds
  <2> QED BY <1>15, <2>2, <2>4
<1>18. Holds(c)'
  BY <1>16, <1>17 DEF Holds
<1>19. Kept(c, c)
  <2>1. \A n \in Ids, i \in Nat : Place(n, i) => Place(n, i)'
    BY <1>6
  <2>2. LinksKept(c)
    BY <1>0, <1>1 DEF LinksKept, Published, NextBucket
  <2> QED BY <1>0, <2>1, <2>2 DEF Kept
<1> QED BY <1>1, <1>19, <1>12, <1>13, <1>14, <1>18, ChainsPartsNext

LEMMA ChainsFail ==
  ASSUME NEW c, ChainsHold(c), writer.pc \in Quiet, ~Overwriting(writer.key), writer' = NoWork,
         UNCHANGED <<bucket, root_id, free_id_count, content>>
  PROVE  ChainsHold(c)' /\ Untouched(c)
<1> USE ChainsParts
<1>1. Call(c)' /\ writer'.pc = "idle"
  BY ChainsIdle
<1>2. Untouched(c) /\ PayloadsKept(c) /\ Core(c)' /\ Plain' /\ Owned(c)'
  BY <1>1, QuietUntouched DEF Quiet
<1>3. Holds(c)'
  BY <1>2, HoldsKept DEF Overwriting
<1> QED BY <1>1, <1>2, <1>3, ChainsPartsNext

\* The last place of a chain.
LEMMA LastPlace ==
  ASSUME MemoryType, NEW id \in Ids, ~Creating(id), NEW n, n = bucket[<<TRUE, id>>].size, n # 0
  PROVE  n \in Nat /\ n - 1 \in Nat /\ Place(id, n - 1) /\ \A i \in Nat : Place(id, i) <=> i < n
<1>1. n \in Nat
  BY SizeType
<1>2. n - 1 \in Nat /\ n - 1 < n
  BY <1>1
<1> QED BY <1>1, <1>2 DEF Place

LEMMA ChainsAppendNode ==
  ASSUME TableTypes, NEW c, ChainsHold(c), AppendNode PROVE ChainsHold(c)' /\ Untouched(c)
<1> USE ChainsParts
<1>k. PICK k : k = writer.key
  OBVIOUS
<1>s. PICK s : s = Slot
  OBVIOUS
<1> DEFINE id == k[2]
           e == <<TRUE, id>>
           x == <<FALSE, s>>
<1>n. PICK n : n = bucket[e].size
  OBVIOUS
<1>0. /\ MemoryType /\ writer \in Works /\ k \in Keys /\ id \in Ids /\ writer.pc = "enter"
      /\ e = Entry(k) /\ e \in Locations /\ n # 0 /\ Matches(k) = {} /\ UNCHANGED content
      /\ writer.slot = None /\ writer.todo = {}
  BY <1>k, <1>n, KeyFacts, IdFacts DEF AppendNode, TableTypes, WorkKnows, CallPcs, Entry, Call, Straight
<1>1. CASE IsFull(k) \/ NoFreeBucket
  BY <1>0, <1>1, <1>k, ChainsFail DEF AppendNode, Fail, Quiet, Overwriting
<1>2. CASE ~(IsFull(k) \/ NoFreeBucket)
  <2>1. s \in Ids /\ x \in Locations
    BY <1>0, <1>2, <1>s, SlotType
  <2>2. /\ free_id_count' = free_id_count + 1 /\ s = free_id_count
    BY <1>0, <1>2, <1>k, <1>s DEF AppendNode, TakeFreeBucketId, Slot
  <2>3. free_id_count \in Nat
    BY <1>0, QedTableAssumption DEF MemoryType
  <2>4. root_id[x] = None
    <3>1. SUFFICES ASSUME root_id[x] # None PROVE FALSE
      OBVIOUS
    <3>2. s < free_id_count
      BY <2>1, <3>1 DEF Owned, Found
    <3> QED BY <2>2, <2>3, <3>2
  <2>b. PICK b : b = NewNode(k)
    OBVIOUS
  <2>w. PICK w : w = Walk(id)[n - 1]
    OBVIOUS
  <2>5. bucket' = [bucket EXCEPT ![x] = b] /\ root_id' = [root_id EXCEPT ![x] = id]
    BY <1>2, <1>k, <1>s, <2>b DEF AppendNode
  <2>6. writer' = [writer EXCEPT !.pc = "link", !.slot = s, !.size_field = SizeField(e), !.last = w]
    BY <1>2, <1>k, <1>s, <1>n, <2>w DEF AppendNode, Entry
  <2>7. /\ writer'.pc = "link" /\ writer'.slot = s /\ writer'.size_field = SizeField(e) /\ writer'.last = w
        /\ writer'.key = k /\ writer'.todo = {} /\ writer'.payload = writer.payload
    <3> HIDE DEF e
    <3> QED BY <1>0, <1>k, <2>6 DEF Works
  <2>8. \A l \in Locations : /\ bucket'[l] = IF l = x THEN b ELSE bucket[l]
                             /\ root_id'[l] = IF l = x THEN id ELSE root_id[l]
    BY <1>0, <2>1, <2>5 DEF MemoryType
  <2>9. \A m \in Ids : bucket'[<<TRUE, m>>] = bucket[<<TRUE, m>>]
    <3>1. ASSUME NEW m \in Ids PROVE <<TRUE, m>> # x /\ <<TRUE, m>> \in Locations
      BY IdFacts
    <3> HIDE DEF x
    <3> QED BY <2>8, <3>1
  <2>10. \A m : ~Creating(m) /\ ~Creating(m)'
    BY <1>0, <2>7 DEF Creating
  <2>11. Lasting
    BY <2>9, <2>10 DEF Lasting, Place
  <2>12. Outside(c, x)
    BY <2>4, Rootless DEF Outside
  <2>13. RootsElsewhere(x)
    BY <2>8 DEF RootsElsewhere
  <2>14. FreeGrows
    BY <2>2, <2>3 DEF FreeGrows
  <2>15. Untouched(c) /\ PayloadsKept(c)
    BY <1>0, <2>1, <2>5, <2>7, <2>11, <2>12, <2>13, <2>14, OutsideUntouched
  <2>16. Core(c)'
    BY <2>15, CoreKept
  <2>17. Holds(c)'
    BY <1>0, <2>15, HoldsKept DEF Overwriting
  <2>18. Plain'
    BY <2>9 DEF Plain
  <2>19. Owned(c)'
    <3>0. Growing /\ HangingKept
      BY <1>0, <2>11 DEF Growing, Lasting, HangingKept, Hanging
    <3>1. SUFFICES ASSUME NEW f \in Ids, NEW r, r = root_id'[<<FALSE, f>>], r # None
                   PROVE  Found(c, f, r)'
      BY DEF Owned
    <3>2. CASE f = s
      <4>1. f < free_id_count'
        BY <2>2, <2>3, <3>2
      <4>2. Hanging'
        BY <2>7 DEF Hanging
      <4> QED BY <2>7, <3>2, <4>1, <4>2 DEF Found
    <3>3. CASE f # s
      <4>1. <<FALSE, f>> # x /\ <<FALSE, f>> \in Locations
        BY <3>3, IdFacts
      <4>2. r = root_id[<<FALSE, f>>]
        BY <2>8, <3>1, <4>1
      <4> QED BY <1>0, <2>14, <3>0, <3>1, <4>2, OwnedAt
    <3> QED BY <3>2, <3>3
  <2>20. n - 1 \in Nat /\ Place(id, n - 1) /\ n \in Nat
    BY <1>0, <1>n, <2>10, LastPlace
  <2>21. w = c[id][n - 1]
    BY <1>0, <2>20, <2>w, WalkAgrees
  <2>22. Hangs(c)'
    <3>1. bucket'[e] = bucket[e]
      BY <1>0, <2>9
    <3>2. SizeField(e)' = SizeField(e) /\ SizeField(e) # <<TRUE, MaxSize>>
      BY <1>0, <1>2, <3>1 DEF SizeField, IsFull
    <3>3. bucket'[x] = NewNode(writer.key)' /\ root_id'[x] = id
      <4>1. NewNode(k)' = NewNode(k)
        BY <2>7 DEF NewNode
      <4>2. NewNode(writer.key)' = NewNode(k)'
        BY <2>7 DEF NewNode
      <4>3. bucket'[x] = b /\ root_id'[x] = id
        BY <2>1, <2>8
      <4> QED BY <2>b, <4>1, <4>2, <4>3
    <3>4. ASSUME NEW i \in Nat, Place(id, i)' PROVE c[id][i] # x /\ bucket'[c[id][i]].hi # Hi(k)
      <4>1. Place(id, i)
        BY <1>0, <2>11, <3>4 DEF Lasting
      <4>2. c[id][i] # x
        BY <1>0, <2>12, <4>1 DEF Outside
      <4>3. bucket[c[id][i]].hi # Hi(k)
        BY <1>0, <4>1, MatchesAre
      <4>4. bucket'[c[id][i]].hi = bucket[c[id][i]].hi
        BY <1>0, <2>15, <4>1 DEF Untouched, NodesKept
      <4> QED BY <4>2, <4>3, <4>4
    <3>5. s < free_id_count'
      BY <2>2, <2>3
    <3>6. writer'.key[2] = id /\ <<FALSE, writer'.slot>> = x /\ bucket'[e].size = n /\ writer'.pc \notin {"tail", "grow"}
      BY <1>n, <2>7, <3>1
    <3> HIDE DEF x
    <3> QED BY <1>0, <2>1, <2>7, <2>21, <3>2, <3>3, <3>4, <3>5, <3>6 DEF Hangs
  <2>23. Creates' /\ Overwrites(c)' /\ Moves(c)' /\ Straight'
    BY <2>7 DEF Creates, Overwrites, Moves, MovePcs, Straight
  <2> QED BY <2>15, <2>16, <2>17, <2>18, <2>19, <2>22, <2>23, ChainsPartsNext DEF Call
<1> QED BY <1>1, <1>2

CreatingKept == \A m : Creating(m)' <=> Creating(m)
OnlyAt(x, b) ==
  \A l \in Locations : /\ bucket'[l] = IF l = x THEN b ELSE bucket[l]
                       /\ bucket'[l].size = bucket[l].size /\ bucket'[l].hi = bucket[l].hi
LinkChanged(x, b) ==
  /\ bucket' = [bucket EXCEPT ![x] = b] /\ b \in Buckets
  /\ b.size = bucket[x].size /\ b.hi = bucket[x].hi /\ b.payload = bucket[x].payload
  /\ UNCHANGED <<root_id, free_id_count>>

\* A step changes the link of the last bucket of a chain.
LEMMA LastTouched ==
  ASSUME MemoryType, NEW c, Core(c), NEW id \in Ids, NEW n, n = bucket[<<TRUE, id>>].size, n # 0, ~Creating(id),
         NEW x, x = c[id][n - 1], NEW b, LinkChanged(x, b),
         writer.pc # "optimize_next", writer'.pc # "optimize_next", CreatingKept
  PROVE  /\ Lasting /\ Untouched(c) /\ PayloadsKept(c) /\ x \in Locations /\ FreeGrows /\ FreeRootsKept
         /\ OnlyAt(x, b)
<1> USE DEF LinkChanged, CreatingKept
<1>0. c \in Chains /\ n \in Nat /\ n - 1 \in Nat /\ Place(id, n - 1)
  BY LastPlace DEF Core
<1>1. x \in Locations
  BY <1>0, ChainType
<1>2. \A l \in Locations : bucket'[l] = IF l = x THEN b ELSE bucket[l]
  BY <1>1 DEF MemoryType
<1>3. \A l \in Locations : /\ bucket'[l].size = bucket[l].size /\ bucket'[l].hi = bucket[l].hi
                           /\ bucket'[l].payload = bucket[l].payload
  BY <1>2
<1>4. Lasting
  BY <1>3, IdFacts DEF Lasting, Place
<1>5. \A m \in Ids, j \in Nat : c[m][j] \in Locations
  BY <1>0, ChainType
<1>6. NodesKept(c)
  <2>1. \A l : Valid(l)' <=> Valid(l)
    BY DEF Valid
  <2>2. \A m \in Ids, j \in Nat : Place(m, j) => Valid(c[m][j])
    BY DEF Core, Knows
  <2> QED BY <1>3, <1>5, <2>1, <2>2 DEF NodesKept
<1>7. PayloadsKept(c)
  BY <1>3, <1>5 DEF PayloadsKept
<1>8. LinksKept(c)
  <2>1. SUFFICES ASSUME NEW m \in Ids, NEW j \in Nat, Place(m, j + 1)
                 PROVE  Published(c[m][j])' = Published(c[m][j])
    BY DEF LinksKept
  <2>2. j + 1 \in Nat /\ j <= j + 1
    OBVIOUS
  <2>3. Place(m, j)
    BY <2>1, <2>2, PlaceBefore
  <2>4. c[m][j] # x
    <3>1. SUFFICES ASSUME c[m][j] = x PROVE FALSE
      OBVIOUS
    <3>2. root_id[c[m][j]] = m /\ root_id[c[id][n - 1]] = id
      BY <1>0, <2>3 DEF Core, Knows
    <3>3. m = id
      BY <3>1, <3>2
    <3>4. j = n - 1
      BY <1>0, <2>3, <3>1, <3>3 DEF Core, Once
    <3>5. j + 1 < n
      BY <2>1, <3>3 DEF Place
    <3> QED BY <1>0, <3>4, <3>5
  <2>5. bucket'[c[m][j]] = bucket[c[m][j]]
    BY <1>2, <1>5, <2>4
  <2> QED BY <2>5 DEF Published, NextBucket
<1>9. FreeGrows /\ FreeRootsKept
  BY FreeStays DEF FreeRootsKept
<1> QED BY <1>1, <1>2, <1>3, <1>4, <1>6, <1>7, <1>8, <1>9 DEF Untouched, OnlyAt

\* What is known about a new bucket that is being linked.
HangsAt(c, k, s, id, n, f, l) ==
  /\ k \in Keys /\ id = k[2] /\ id \in Ids /\ n = bucket[<<TRUE, id>>].size /\ n # 0 /\ s \in Ids /\ f = <<FALSE, s>>
  /\ s < free_id_count /\ SizeField(<<TRUE, id>>) = writer.size_field /\ writer.size_field # <<TRUE, MaxSize>>
  /\ bucket[f] = NewNode(k) /\ root_id[f] = id
  /\ \A i \in Nat : Place(id, i) => c[id][i] # f /\ bucket[c[id][i]].hi # Hi(k)
  /\ l = c[id][n - 1]

LEMMA HangsHave ==
  ASSUME TableTypes, NEW c, Hangs(c), Hanging, NEW k, k = writer.key, NEW s, s = writer.slot
  PROVE  /\ HangsAt(c, k, s, k[2], bucket[<<TRUE, k[2]>>].size, <<FALSE, s>>, writer.last)
         /\ writer.pc \in {"tail", "grow"} => bucket[writer.last].next = s
         /\ writer.pc = "grow" => ~bucket[writer.last].internal
<1>1. k \in Keys /\ k[2] \in Ids
  BY KeyFacts DEF TableTypes, WorkKnows, Hanging, CallPcs
<1> QED BY <1>1 DEF Hangs, HangsAt

LEMMA HangsGive ==
  ASSUME NEW c, NEW k, NEW s, NEW id, NEW n, NEW f, NEW l, HangsAt(c, k, s, id, n, f, l)',
         writer'.key = k, writer'.slot = s, writer'.last = l,
         writer'.pc \in {"tail", "grow"} => bucket'[l].next = s,
         writer'.pc = "grow" => ~bucket'[l].internal
  PROVE  Hangs(c)'
BY DEF Hangs, HangsAt

LEMMA HangsStay ==
  ASSUME MemoryType, NEW c, Core(c), NEW k, NEW s, NEW id, NEW n, NEW f, NEW l, HangsAt(c, k, s, id, n, f, l),
         Lasting, Untouched(c), PayloadsKept(c), UNCHANGED <<root_id, free_id_count>>, bucket'[f] = bucket[f],
         SizeField(<<TRUE, id>>)' = SizeField(<<TRUE, id>>),
         writer'.payload = writer.payload, writer'.size_field = writer.size_field
  PROVE  HangsAt(c, k, s, id, n, f, l)'
<1>1. NewNode(k)' = NewNode(k)
  BY DEF NewNode
<1>2. bucket'[<<TRUE, id>>].size = bucket[<<TRUE, id>>].size
  BY DEF SizeField
<1>3. id \in Ids /\ \A i \in Nat : Place(id, i) => c[id][i] # f /\ bucket[c[id][i]].hi # Hi(k)
  BY DEF HangsAt
<1>4. \A i \in Nat : Place(id, i)' => c[id][i] # f /\ bucket'[c[id][i]].hi # Hi(k)
  BY <1>3 DEF Lasting, Untouched, NodesKept
<1> QED BY <1>1, <1>2, <1>4 DEF HangsAt

LEMMA ChainsLink ==
  ASSUME TableTypes, NEW c, ChainsHold(c), Link PROVE ChainsHold(c)' /\ Untouched(c)
<1> USE ChainsParts
<1>k. PICK k : k = writer.key
  OBVIOUS
<1>s. PICK s : s = writer.slot
  OBVIOUS
<1>x. PICK x : x = writer.last
  OBVIOUS
<1> DEFINE id == k[2]
           e == <<TRUE, id>>
           f == <<FALSE, s>>
<1>n. PICK n : n = bucket[e].size
  OBVIOUS
<1>0. MemoryType /\ writer \in Works /\ writer.pc = "link" /\ Hanging /\ UNCHANGED <<root_id, free_id_count, content>>
  BY DEF TableTypes, Link, Hanging
<1>1. HangsAt(c, k, s, id, n, f, x) /\ writer.todo = {}
  BY <1>0, <1>k, <1>s, <1>x, <1>n, HangsHave DEF Call, Straight
<1>2. /\ k \in Keys /\ id \in Ids /\ s \in Ids /\ n # 0 /\ x = c[id][n - 1]
      /\ \A i \in Nat : Place(id, i) => c[id][i] # f
  BY <1>1 DEF HangsAt
<1>3. ~Creating(id) /\ \A m : ~Creating(m)
  BY <1>0 DEF Creating
<1>4. n \in Nat /\ n - 1 \in Nat /\ Place(id, n - 1)
  BY <1>0, <1>2, <1>3, <1>n, LastPlace
<1>5. x \in Locations /\ c[id][0] = e
  BY <1>2, <1>4, ChainType DEF Core, Rooted
<1>6. x = Entry(k) \/ bucket[x].size = 0
  <2>1. n - 1 # 0 => bucket[x].size = 0
    BY <1>2, <1>4 DEF Core, Knows
  <2>2. n - 1 = 0 => x = Entry(k)
    BY <1>2, <1>5 DEF Entry
  <2> QED BY <2>1, <2>2
<1>b. PICK b : b = [bucket[x] EXCEPT !.next = s]
  OBVIOUS
<1>7. bucket' = [bucket EXCEPT ![x] = b]
  BY <1>x, <1>s, <1>b DEF Link
<1>8. writer' = [writer EXCEPT !.pc = "tail"]
  BY <1>k, <1>x, <1>6 DEF Link
<1>9. /\ writer'.pc = "tail" /\ writer'.key = k /\ writer'.slot = s /\ writer'.last = x /\ writer'.todo = {}
      /\ writer'.payload = writer.payload /\ writer'.size_field = writer.size_field
  BY <1>0, <1>1, <1>8, <1>k, <1>s, <1>x DEF Works
<1>10. bucket[x] \in Buckets
  BY <1>0, <1>5, BucketType
<1>11. /\ b \in Buckets /\ b.size = bucket[x].size /\ b.hi = bucket[x].hi /\ b.payload = bucket[x].payload
       /\ b.internal = bucket[x].internal /\ b.next = s
  BY <1>2, <1>10, <1>b DEF Buckets
<1>12. CreatingKept /\ LinkChanged(x, b)
  BY <1>0, <1>3, <1>7, <1>9, <1>11 DEF Creating, CreatingKept, LinkChanged
<1>a. Lasting /\ Untouched(c) /\ PayloadsKept(c) /\ FreeGrows /\ FreeRootsKept /\ OnlyAt(x, b)
  BY <1>0, <1>2, <1>3, <1>9, <1>12, <1>n, LastTouched
<1>13. /\ Lasting /\ Untouched(c) /\ PayloadsKept(c) /\ FreeGrows /\ FreeRootsKept
       /\ \A l \in Locations : /\ bucket'[l] = IF l = x THEN b ELSE bucket[l]
                               /\ bucket'[l].size = bucket[l].size /\ bucket'[l].hi = bucket[l].hi
  BY <1>a DEF OnlyAt
<1>14. Core(c)'
  BY <1>13, CoreKept
<1>15. Holds(c)'
  BY <1>0, <1>13, HoldsKept DEF Overwriting
<1>16. Owned(c)'
  <2>1. HangingKept
    BY <1>9, <1>s DEF HangingKept, Hanging
  <2> QED BY <1>0, <1>13, <2>1, OwnedKept
<1>17. \A m \in Ids : SizeField(<<TRUE, m>>)' = SizeField(<<TRUE, m>>) /\ bucket'[<<TRUE, m>>].internal = bucket[<<TRUE, m>>].internal
       /\ bucket'[<<TRUE, m>>].size = bucket[<<TRUE, m>>].size
  BY <1>11, <1>13, IdFacts DEF SizeField
<1>18. Plain'
  BY <1>17 DEF Plain
<1>19. bucket'[f] = bucket[f] /\ bucket'[x].next = s
  <2>1. f # x /\ f \in Locations
    BY <1>2, <1>4, IdFacts
  <2> HIDE DEF f
  <2> QED BY <1>5, <1>11, <1>13, <2>1
<1>20. HangsAt(c, k, s, id, n, f, x)'
  BY <1>0, <1>1, <1>2, <1>9, <1>13, <1>17, <1>19, HangsStay
<1>21. Hangs(c)'
  BY <1>9, <1>19, <1>20, HangsGive
<1>22. Creates' /\ Overwrites(c)' /\ Moves(c)' /\ Straight'
  BY <1>9 DEF Creates, Overwrites, Moves, MovePcs, Straight
<1> QED BY <1>13, <1>14, <1>15, <1>16, <1>18, <1>21, <1>22, ChainsPartsNext DEF Call

LEMMA ChainsMarkTail ==
  ASSUME TableTypes, NEW c, ChainsHold(c), MarkTail PROVE ChainsHold(c)' /\ Untouched(c)
<1> USE ChainsParts
<1>k. PICK k : k = writer.key
  OBVIOUS
<1>s. PICK s : s = writer.slot
  OBVIOUS
<1>x. PICK x : x = writer.last
  OBVIOUS
<1> DEFINE id == k[2]
           e == <<TRUE, id>>
           f == <<FALSE, s>>
<1>n. PICK n : n = bucket[e].size
  OBVIOUS
<1>0. MemoryType /\ writer \in Works /\ writer.pc = "tail" /\ Hanging /\ UNCHANGED <<root_id, free_id_count, content>>
  BY DEF TableTypes, MarkTail, Hanging
<1>1. HangsAt(c, k, s, id, n, f, x) /\ writer.todo = {} /\ bucket[x].next = s
  BY <1>0, <1>k, <1>s, <1>x, <1>n, HangsHave DEF Call, Straight
<1>2. /\ k \in Keys /\ id \in Ids /\ s \in Ids /\ n # 0 /\ x = c[id][n - 1]
      /\ \A i \in Nat : Place(id, i) => c[id][i] # f
  BY <1>1 DEF HangsAt
<1>3. ~Creating(id) /\ \A m : ~Creating(m)
  BY <1>0 DEF Creating
<1>4. n \in Nat /\ n - 1 \in Nat /\ Place(id, n - 1) /\ \A i \in Nat : Place(id, i) <=> i < n
  BY <1>0, <1>2, <1>3, <1>n, LastPlace
<1>5. x \in Locations /\ c[id][0] = e
  BY <1>2, <1>4, ChainType DEF Core, Rooted
<1>b. PICK b : b = [bucket[x] EXCEPT !.internal = FALSE]
  OBVIOUS
<1>7. bucket' = [bucket EXCEPT ![x] = b]
  BY <1>x, <1>b DEF MarkTail
<1>8. writer' = [writer EXCEPT !.pc = "grow"]
  BY DEF MarkTail
<1>9. /\ writer'.pc = "grow" /\ writer'.key = k /\ writer'.slot = s /\ writer'.last = x /\ writer'.todo = {}
      /\ writer'.payload = writer.payload /\ writer'.size_field = writer.size_field
  BY <1>0, <1>1, <1>8, <1>k, <1>s, <1>x DEF Works
<1>10. bucket[x] \in Buckets
  BY <1>0, <1>5, BucketType
<1>11. /\ b \in Buckets /\ b.size = bucket[x].size /\ b.hi = bucket[x].hi /\ b.payload = bucket[x].payload
       /\ b.internal = FALSE /\ b.next = bucket[x].next
  BY <1>2, <1>10, <1>b DEF Buckets
<1>12. CreatingKept /\ LinkChanged(x, b)
  BY <1>0, <1>3, <1>7, <1>9, <1>11 DEF Creating, CreatingKept, LinkChanged
<1>a. Lasting /\ Untouched(c) /\ PayloadsKept(c) /\ FreeGrows /\ FreeRootsKept /\ OnlyAt(x, b)
  BY <1>0, <1>2, <1>3, <1>9, <1>12, <1>n, LastTouched
<1>13. /\ Lasting /\ Untouched(c) /\ PayloadsKept(c) /\ FreeGrows /\ FreeRootsKept
       /\ \A l \in Locations : /\ bucket'[l] = IF l = x THEN b ELSE bucket[l]
                               /\ bucket'[l].size = bucket[l].size /\ bucket'[l].hi = bucket[l].hi
  BY <1>a DEF OnlyAt
<1>14. Core(c)'
  BY <1>13, CoreKept
<1>15. Holds(c)'
  BY <1>0, <1>13, HoldsKept DEF Overwriting
<1>16. Owned(c)'
  <2>1. HangingKept
    BY <1>9, <1>s DEF HangingKept, Hanging
  <2> QED BY <1>0, <1>13, <2>1, OwnedKept
<1>17. Plain'
  <2>1. ASSUME NEW m \in Ids, bucket'[<<TRUE, m>>].size = 1 PROVE ~bucket'[<<TRUE, m>>].internal
    <3>1. <<TRUE, m>> \in Locations
      BY IdFacts
    <3>2. bucket[<<TRUE, m>>].size = 1
      BY <1>13, <2>1, <3>1
    <3>3. ~bucket[<<TRUE, m>>].internal
      BY <3>2 DEF Plain
    <3> QED BY <1>11, <1>13, <3>1, <3>3
  <2> QED BY <2>1 DEF Plain
<1>18. SizeField(e)' = SizeField(e)
  <2>1. e \in Locations
    BY <1>2, IdFacts
  <2>2. bucket'[e].internal = bucket[e].internal
    <3>1. CASE e # x
      BY <1>13, <2>1, <3>1
    <3>2. CASE e = x
      <4>1. Place(id, 0)
        BY <1>2, <1>4
      <4>2. n - 1 = 0
        BY <1>2, <1>4, <1>5, <3>2, <4>1 DEF Core, Once
      <4>3. bucket[e].size = 1
        BY <1>4, <1>n, <4>2
      <4>4. ~bucket[e].internal
        BY <1>2, <4>3 DEF Plain
      <4>5. bucket[e].internal \in BOOLEAN
        BY <1>0, <2>1, BucketType DEF Buckets
      <4> QED BY <1>11, <1>13, <2>1, <3>2, <4>4, <4>5
    <3> QED BY <3>1, <3>2
  <2> QED BY <1>13, <2>1, <2>2 DEF SizeField
<1>19. bucket'[f] = bucket[f] /\ bucket'[x].next = s /\ ~bucket'[x].internal
  <2>1. f # x /\ f \in Locations
    BY <1>2, <1>4, IdFacts
  <2> HIDE DEF f
  <2> QED BY <1>1, <1>5, <1>11, <1>13, <2>1
<1>20. HangsAt(c, k, s, id, n, f, x)'
  BY <1>0, <1>1, <1>2, <1>9, <1>13, <1>18, <1>19, HangsStay
<1>21. Hangs(c)'
  BY <1>9, <1>19, <1>20, HangsGive
<1>22. Creates' /\ Overwrites(c)' /\ Moves(c)' /\ Straight'
  BY <1>9 DEF Creates, Overwrites, Moves, MovePcs, Straight
<1> QED BY <1>13, <1>14, <1>15, <1>16, <1>17, <1>21, <1>22, ChainsPartsNext DEF Call

\* The chains with another bucket at one place.
Changed(c, d, id, n, l) ==
  /\ d \in Chains /\ d[id][n] = l
  /\ \A m \in Ids, j \in Nat : ~(m = id /\ j = n) => d[m][j] = c[m][j]

LEMMA ChainUpdate ==
  ASSUME NEW c \in Chains, NEW id \in Ids, NEW n \in Nat, NEW l \in Locations
  PROVE  \E d : Changed(c, d, id, n, l)
<1> DEFINE g == [c[id] EXCEPT ![n] = l]
           d == [c EXCEPT ![id] = g]
<1>1. c[id] \in [Nat -> Locations]
  BY DEF Chains
<1>2. g \in [Nat -> Locations] /\ g[n] = l /\ \A j \in Nat : j # n => g[j] = c[id][j]
  BY <1>1
<1> HIDE DEF g
<1>3. d \in Chains /\ d[id] = g /\ \A m \in Ids : m # id => d[m] = c[m]
  BY <1>2 DEF Chains
<1> HIDE DEF d
<1>4. ASSUME NEW m \in Ids, NEW j \in Nat, ~(m = id /\ j = n) PROVE d[m][j] = c[m][j]
  BY <1>2, <1>3, <1>4
<1>5. Changed(c, d, id, n, l)
  BY <1>2, <1>3, <1>4 DEF Changed
<1> QED BY <1>5

LEMMA ChainsGrow ==
  ASSUME TableTypes, NEW c, ChainsHold(c), Grow, RoomLeft PROVE \E d : ChainsHold(d)' /\ Kept(c, d)
<1> USE ChainsParts
<1>k. PICK k : k = writer.key
  OBVIOUS
<1>s. PICK s : s = writer.slot
  OBVIOUS
<1>x. PICK x : x = writer.last
  OBVIOUS
<1> DEFINE id == k[2]
           e == <<TRUE, id>>
           f == <<FALSE, s>>
<1>n. PICK n : n = bucket[e].size
  OBVIOUS
<1>0. MemoryType /\ writer \in Works /\ writer.pc = "grow" /\ Hanging /\ UNCHANGED <<root_id, free_id_count>>
  BY DEF TableTypes, Grow, Hanging
<1>1. HangsAt(c, k, s, id, n, f, x) /\ bucket[x].next = s /\ ~bucket[x].internal
  BY <1>0, <1>k, <1>s, <1>x, <1>n, HangsHave DEF Call
<1>2. /\ k \in Keys /\ id \in Ids /\ s \in Ids /\ n # 0 /\ x = c[id][n - 1] /\ s < free_id_count
      /\ SizeField(e) = writer.size_field /\ bucket[f] = NewNode(k) /\ root_id[f] = id
      /\ \A i \in Nat : Place(id, i) => c[id][i] # f /\ bucket[c[id][i]].hi # Hi(k)
  BY <1>1 DEF HangsAt
<1>3. ~Creating(id) /\ \A m : ~Creating(m)
  BY <1>0 DEF Creating
<1>4. /\ n \in Nat /\ n - 1 \in Nat /\ Place(id, n - 1) /\ (n - 1) + 1 = n
      /\ \A i \in Nat : Place(id, i) <=> i < n
  <2>1. /\ n \in Nat /\ n - 1 \in Nat /\ Place(id, n - 1)
        /\ \A i \in Nat : Place(id, i) <=> i < n
    <3>1. MemoryType /\ id \in Ids /\ ~Creating(id) /\ n = bucket[<<TRUE, id>>].size /\ n # 0
      BY <1>0, <1>2, <1>3, <1>n
    <3> HIDE DEF id
    <3> QED BY <3>1, LastPlace
  <2>2. (n - 1) + 1 = n
    BY <2>1
  <2> QED BY <2>1, <2>2
<1>c. c \in Chains /\ \A m \in Ids : c[m][0] = <<TRUE, m>>
  BY DEF Core, Rooted
<1>5. e \in Locations /\ f \in Locations /\ x \in Locations /\ e # f /\ e = Entry(k)
  BY <1>2, <1>4, <1>c, IdFacts, ChainType DEF Entry
<1>6. (n + 1) % (MaxSize + 1) = n + 1 /\ n # MaxSize /\ n + 1 \in Nat /\ n + 1 # 1
  <2>1. n < MaxSize
    <3>1. n \in 0..MaxSize /\ bucket[e].internal \in BOOLEAN
      BY <1>0, <1>2, <1>5, <1>n, SizeType, BucketType DEF Buckets
    <3>2. SUFFICES ASSUME n = MaxSize PROVE FALSE
      BY <3>1 DEF MaxSize
    <3>3. bucket[e].internal = TRUE
      BY <1>2, <1>n, <3>1, <3>2 DEF RoomLeft
    <3>4. SizeField(e) = <<TRUE, MaxSize>>
      BY <1>n, <3>2, <3>3 DEF SizeField
    <3> QED BY <1>1, <1>2, <3>4 DEF HangsAt
  <2> QED BY <1>2, <1>4, <2>1 DEF MaxSize
<1>7. /\ writer' = NoWork /\ content' = [content EXCEPT ![k] = writer.payload]
      /\ bucket' = [bucket EXCEPT ![e].size = (n + 1) % (MaxSize + 1), ![e].internal = @ \/ n = MaxSize]
  <2>1. SizeField(Entry(writer.key)) = writer.size_field
    BY <1>2, <1>5, <1>k
  <2> QED BY <2>1, <1>k, <1>n, <1>5 DEF Grow, ObserveContent
<1>b. PICK b : b = [bucket[e] EXCEPT !.size = n + 1]
  OBVIOUS
<1>8. bucket[e] \in Buckets
  BY <1>0, <1>5, BucketType
<1>9. /\ b.size = n + 1 /\ b.hi = bucket[e].hi /\ b.payload = bucket[e].payload
      /\ b.internal = bucket[e].internal /\ b.next = bucket[e].next
  <2> HIDE DEF e
  <2> QED BY <1>8, <1>b DEF Buckets
<1>10. bucket' = [bucket EXCEPT ![e] = b]
  <2> DEFINE a == [bucket[e] EXCEPT !.size = n + 1, !.internal = bucket[e].internal \/ n = MaxSize]
  <2>1. bucket' = [bucket EXCEPT ![e] = a]
    BY <1>6, <1>7
  <2>2. (bucket[e].internal \/ n = MaxSize) = bucket[e].internal
    <3>1. bucket[e].internal \in BOOLEAN
      BY <1>8 DEF Buckets
    <3> QED BY <1>6, <3>1
  <2>3. a = [bucket[e] EXCEPT !.size = n + 1, !.internal = bucket[e].internal]
    BY <2>2
  <2>4. [bucket[e] EXCEPT !.size = n + 1, !.internal = bucket[e].internal] = b
    <3> HIDE DEF e
    <3> QED BY <1>8, <1>b DEF Buckets
  <2> QED BY <2>1, <2>3, <2>4
<1>11. \A l \in Locations : bucket'[l] = IF l = e THEN b ELSE bucket[l]
  BY <1>0, <1>5, <1>10 DEF MemoryType
<1>12. \A l \in Locations : /\ bucket'[l].hi = bucket[l].hi /\ bucket'[l].payload = bucket[l].payload
                            /\ bucket'[l].internal = bucket[l].internal /\ bucket'[l].next = bucket[l].next
  BY <1>9, <1>11
<1>13. bucket'[f] = NewNode(k) /\ bucket'[f].hi = Hi(k) /\ bucket'[f].payload = writer.payload /\ bucket'[f].size = 0
  <2>1. bucket'[f] = NewNode(k)
    BY <1>2, <1>5, <1>11
  <2> QED BY <2>1 DEF NewNode
<1>d. PICK d : Changed(c, d, id, n, f)
  BY <1>2, <1>4, <1>5, <1>c, ChainUpdate
<1>14. d \in Chains /\ d[id][n] = f /\ \A m \in Ids, j \in Nat : ~(m = id /\ j = n) => d[m][j] = c[m][j]
  BY <1>d DEF Changed
<1> HIDE DEF e, f, id
<1>id. id = k[2] /\ e = <<TRUE, id>> /\ f = <<FALSE, s>>
  BY DEF e, f, id
<1>15. Call(d)' /\ writer'.pc = "idle"
  BY <1>7, ChainsIdle
<1>16. ASSUME NEW m \in Ids, NEW j \in Nat
       PROVE  /\ m # id => (Place(m, j)' <=> Place(m, j))
              /\ m = id => (Place(m, j)' <=> Place(m, j) \/ j = n)
  <2>1. ~Creating(m)' /\ ~Creating(m)
    BY <1>3, <1>15 DEF Creating
  <2>2. <<TRUE, m>> \in Locations
    BY IdFacts
  <2>3. CASE m # id
    <3>1. <<TRUE, m>> # e
      BY <1>id, <2>3
    <3>2. bucket'[<<TRUE, m>>] = bucket[<<TRUE, m>>]
      BY <1>11, <2>2, <3>1
    <3> QED BY <2>1, <2>3, <3>2 DEF Place
  <2>4. CASE m = id
    <3>1. bucket'[<<TRUE, m>>].size = n + 1 /\ bucket[<<TRUE, m>>].size = n
      BY <1>5, <1>9, <1>11, <1>id, <1>n, <2>4
    <3>2. j < n + 1 <=> j < n \/ j = n
      BY <1>4
    <3> QED BY <2>1, <2>4, <3>1, <3>2 DEF Place
  <2> QED BY <2>3, <2>4
\* A place that was there: the bucket has not moved.
<1>17. ASSUME NEW m \in Ids, NEW j \in Nat, Place(m, j)
       PROVE  d[m][j] = c[m][j] /\ d[m][j] \in Locations /\ d[m][j] # f /\ root_id[d[m][j]] = m
  <2>1. ~(m = id /\ j = n)
    BY <1>4, <1>17
  <2>2. d[m][j] = c[m][j] /\ root_id[c[m][j]] = m
    BY <1>14, <1>17, <2>1 DEF Core, Knows
  <2>3. c[m][j] \in Locations
    BY <1>c, ChainType
  <2>4. d[m][j] # f
    BY <1>2, <1>17, <2>2
  <2> QED BY <2>2, <2>3, <2>4
<1>18. Rooted(d)'
  <2>1. \A m \in Ids : d[m][0] = c[m][0]
    BY <1>2, <1>14
  <2> QED BY <1>c, <2>1 DEF Rooted
<1>19. Knows(d)'
  <2>1. SUFFICES ASSUME NEW m \in Ids, NEW j \in Nat, Place(m, j)'
                 PROVE  /\ root_id'[d[m][j]] = m /\ Valid(d[m][j])'
                        /\ j # 0 => bucket'[d[m][j]].size = 0
    BY DEF Knows
  <2>2. CASE Place(m, j)
    <3>1. Valid(d[m][j]) /\ (j # 0 => bucket[d[m][j]].size = 0)
      BY <1>17, <2>2 DEF Core, Knows
    <3>2. Valid(d[m][j])'
      BY <1>0, <3>1 DEF Valid
    <3>3. ASSUME j # 0 PROVE d[m][j] # e
      <4>1. SUFFICES ASSUME d[m][j] = e PROVE FALSE
        OBVIOUS
      <4>a. 0 < n /\ 0 \in Nat
        BY <1>2, <1>4
      <4>2. Place(id, 0) /\ c[id][0] = e
        BY <1>2, <1>4, <1>c, <1>id, <4>a
      <4>3. root_id[c[id][0]] = id
        BY <1>2, <4>2 DEF Core, Knows
      <4>4. m = id
        BY <1>17, <2>2, <4>1, <4>2, <4>3
      <4> QED BY <1>17, <2>2, <3>3, <4>1, <4>2, <4>4 DEF Core, Once
    <3> QED BY <1>0, <1>11, <1>17, <2>2, <3>1, <3>2, <3>3
  <2>3. CASE ~Place(m, j)
    <3>1. m = id /\ j = n
      BY <1>16, <2>1, <2>3
    <3>2. Valid(f)'
      BY <1>0, <1>2, <1>id DEF Valid
    <3> QED BY <1>0, <1>2, <1>13, <1>14, <3>1, <3>2
  <2> QED BY <2>2, <2>3
<1>20. Once(d)'
  <2>1. SUFFICES ASSUME NEW m \in Ids, NEW i \in Nat, NEW j \in Nat, Place(m, i)', Place(m, j)', d[m][i] = d[m][j]
                 PROVE  i = j
    BY DEF Once
  <2>2. CASE Place(m, i) /\ Place(m, j)
    BY <1>17, <2>1, <2>2 DEF Core, Once
  <2>3. CASE ~Place(m, i)
    <3>1. m = id /\ i = n
      BY <1>16, <2>1, <2>3
    <3>2. ~Place(m, j)
      BY <1>14, <1>17, <2>1, <3>1
    <3> QED BY <1>16, <2>1, <3>1, <3>2
  <2>4. CASE ~Place(m, j)
    <3>1. m = id /\ j = n
      BY <1>16, <2>1, <2>4
    <3>2. ~Place(m, i)
      BY <1>14, <1>17, <2>1, <3>1
    <3> QED BY <1>16, <2>1, <3>1, <3>2
  <2> QED BY <2>2, <2>3, <2>4
<1>21. ASSUME NEW m \in Ids, NEW j \in Nat, Place(m, j)
       PROVE  /\ bucket'[d[m][j]].hi = bucket[c[m][j]].hi /\ bucket'[d[m][j]].payload = bucket[c[m][j]].payload
              /\ m = id => bucket'[d[m][j]].hi # Hi(k)
  BY <1>2, <1>12, <1>17, <1>21
<1>22. KeysOnce(d)'
  <2>1. SUFFICES ASSUME NEW m \in Ids, NEW i \in Nat, NEW j \in Nat, Place(m, i)', Place(m, j)',
                        bucket'[d[m][i]].hi = bucket'[d[m][j]].hi
                 PROVE  i = j
    BY DEF KeysOnce
  <2>2. CASE Place(m, i) /\ Place(m, j)
    BY <1>21, <2>1, <2>2 DEF Core, KeysOnce
  <2>3. CASE ~Place(m, i)
    <3>1. m = id /\ i = n
      BY <1>16, <2>1, <2>3
    <3>2. ~Place(m, j)
      BY <1>13, <1>14, <1>21, <2>1, <3>1
    <3> QED BY <1>16, <2>1, <3>1, <3>2
  <2>4. CASE ~Place(m, j)
    <3>1. m = id /\ j = n
      BY <1>16, <2>1, <2>4
    <3>2. ~Place(m, i)
      BY <1>13, <1>14, <1>21, <2>1, <3>1
    <3> QED BY <1>16, <2>1, <3>1, <3>2
  <2> QED BY <2>2, <2>3, <2>4
<1>23. Linked(d)'
  <2>1. SUFFICES ASSUME NEW m \in Ids, NEW j \in Nat, Place(m, j + 1)'
                 PROVE  Published(d[m][j])' = d[m][j + 1]
    BY DEF Linked
  <2>2. j + 1 \in Nat /\ j <= j + 1
    OBVIOUS
  <2>3. \A l \in Locations : Published(l)' = NextBucket(l)
    BY <1>12, <1>15 DEF Published, NextBucket
  <2>4. CASE Place(m, j + 1)
    <3>1. Place(m, j)
      BY <1>0, <2>2, <2>4, PlaceBefore
    <3>2. Published(c[m][j]) = c[m][j + 1]
      BY <2>4 DEF Core, Linked
    <3>3. Published(c[m][j]) = NextBucket(c[m][j])
      BY <1>0 DEF Published
    <3> QED BY <1>17, <2>2, <2>3, <2>4, <3>1, <3>2, <3>3
  <2>5. CASE ~Place(m, j + 1)
    <3>1. m = id /\ j + 1 = n
      BY <1>16, <2>1, <2>2, <2>5
    <3>2. j = n - 1
      BY <1>4, <3>1
    <3>3. d[m][j] = x
      BY <1>2, <1>4, <1>17, <3>1, <3>2
    <3>4. NextBucket(x) = f
      BY <1>1, <1>5, <1>8, <1>id, BucketType, <1>0 DEF NextBucket, Buckets
    <3> QED BY <1>5, <1>14, <2>3, <3>1, <3>3, <3>4
  <2> QED BY <2>4, <2>5
<1>24. Core(d)'
  BY <1>14, <1>18, <1>19, <1>20, <1>22, <1>23 DEF Core
<1>25. Plain'
  <2>1. ASSUME NEW m \in Ids, bucket'[<<TRUE, m>>].size = 1 PROVE ~bucket'[<<TRUE, m>>].internal
    <3>1. <<TRUE, m>> \in Locations
      BY IdFacts
    <3>2. <<TRUE, m>> # e
      BY <1>6, <1>9, <1>11, <2>1, <3>1
    <3>3. bucket'[<<TRUE, m>>] = bucket[<<TRUE, m>>]
      BY <1>11, <3>1, <3>2
    <3> QED BY <2>1, <3>3 DEF Plain
  <2> QED BY <2>1 DEF Plain
<1>26. Owned(d)'
  <2>1. SUFFICES ASSUME NEW g \in Ids, NEW r, r = root_id'[<<FALSE, g>>], r # None
                 PROVE  Found(d, g, r)'
    BY DEF Owned
  <2>2. r = root_id[<<FALSE, g>>] /\ r \in Ids
    BY <1>0, <2>1, IdFacts DEF MemoryType
  <2>3. g < free_id_count' /\ Found(c, g, r)
    BY <1>0, <2>1, <2>2 DEF Owned, Found
  <2>4. CASE g = s
    <3>1. <<FALSE, g>> = f /\ r = id
      BY <1>2, <1>id, <2>2, <2>4
    <3>2. Place(r, n)' /\ d[r][n] = <<FALSE, g>> /\ n \in Nat \ {0}
      BY <1>2, <1>4, <1>14, <1>16, <3>1
    <3> QED BY <2>3, <3>2 DEF Found
  <2>5. CASE g # s
    <3>1. PICK i \in Nat \ {0} : Place(r, i) /\ c[r][i] = <<FALSE, g>>
      BY <1>s, <2>3, <2>5 DEF Found
    <3>2. Place(r, i)' /\ d[r][i] = <<FALSE, g>>
      BY <1>16, <1>17, <2>2, <3>1
    <3> QED BY <2>3, <3>1, <3>2 DEF Found
  <2> QED BY <2>4, <2>5
<1>27. \A q \in Keys : content'[q] = IF q = k THEN writer.payload ELSE content[q]
  BY <1>7 DEF TableTypes
<1>28. ASSUME NEW q \in Keys, NEW j \in Nat, Place(q[2], j)', bucket'[d[q[2]][j]].hi = Hi(q)
       PROVE  content'[q] = bucket'[d[q[2]][j]].payload
  <2>1. q[2] \in Ids
    BY KeyFacts
  <2>2. CASE Place(q[2], j)
    <3>1. q # k
      BY <1>21, <1>28, <1>id, <2>1, <2>2
    <3>2. ~Overwriting(q) /\ bucket[c[q[2]][j]].hi = Hi(q)
      BY <1>0, <1>21, <1>28, <2>1, <2>2 DEF Overwriting
    <3>3. content[q] = bucket[c[q[2]][j]].payload
      BY <2>2, <3>2 DEF Holds
    <3> QED BY <1>21, <1>27, <2>1, <2>2, <3>1, <3>3
  <2>3. CASE ~Place(q[2], j)
    <3>1. q[2] = id /\ j = n
      BY <1>16, <1>28, <2>1, <2>3
    <3>2. d[q[2]][j] = f
      BY <1>14, <3>1
    <3>3. Hi(q) = Hi(k)
      BY <1>13, <1>28, <3>2
    <3>4. q = k
      BY <1>2, <1>id, <3>1, <3>3, KeyFacts DEF Hi
    <3> QED BY <1>13, <1>27, <3>2, <3>4
  <2> QED BY <2>2, <2>3
<1>29. ASSUME NEW q \in Keys, \A j \in Nat : Place(q[2], j)' => bucket'[d[q[2]][j]].hi # Hi(q)
       PROVE  content'[q] = NFOUND
  <2>1. q[2] \in Ids
    BY KeyFacts
  <2>2. q # k
    <3>1. SUFFICES ASSUME q = k PROVE FALSE
      OBVIOUS
    <3>2. Place(id, n)' /\ d[id][n] = f
      BY <1>2, <1>4, <1>14, <1>16
    <3> QED BY <1>4, <1>13, <1>29, <1>id, <3>1, <3>2
  <2>3. \A j \in Nat : Place(q[2], j) => bucket[c[q[2]][j]].hi # Hi(q)
    BY <1>16, <1>21, <1>29, <2>1
  <2>4. content[q] = NFOUND
    BY <2>3 DEF Holds
  <2> QED BY <1>27, <2>2, <2>4
<1>30. Holds(d)'
  BY <1>28, <1>29 DEF Holds
<1>31. ChainsHold(d)'
  BY <1>15, <1>24, <1>25, <1>26, <1>30, ChainsPartsNext
<1>32. Kept(c, d)
  <2>1. ASSUME NEW m \in Ids, NEW j \in Nat, Place(m, j)
        PROVE  Place(m, j)' /\ d[m][j] = c[m][j] /\ bucket'[c[m][j]].hi = bucket[c[m][j]].hi
    BY <1>12, <1>16, <1>17, <2>1
  <2>2. LinksKept(c)
    <3>1. \A m \in Ids, j \in Nat : c[m][j] \in Locations
      BY <1>c, ChainType
    <3>2. \A l \in Locations : Published(l)' = Published(l)
      BY <1>0, <1>12, <1>15 DEF Published, NextBucket
    <3> QED BY <3>1, <3>2 DEF LinksKept
  <2> QED BY <2>1, <2>2 DEF Kept
<1> QED BY <1>31, <1>32

LEMMA ChainsOptimizeFreeBucket ==
  ASSUME TableTypes, NEW c, ChainsHold(c), NEW g \in Ids, OptimizeFreeBucket(g) PROVE ChainsHold(c)' /\ Untouched(c)
<1> USE ChainsParts
<1>f. PICK f : f = <<FALSE, g>>
  OBVIOUS
<1>r. PICK r : r = root_id[f]
  OBVIOUS
<1>u. PICK u : u = FirstUnused(r)
  OBVIOUS
<1>x. PICK x : x = <<TRUE, u>>
  OBVIOUS
<1>b. PICK b : b = bucket[f]
  OBVIOUS
<1>0. /\ MemoryType /\ writer \in Works /\ writer.pc = "idle" /\ r # None /\ Unused(r) # {}
      /\ UNCHANGED <<free_id_count, content>>
  BY <1>f, <1>r DEF OptimizeFreeBucket, TableTypes
<1>1. f \in Locations /\ r \in Ids
  BY <1>0, <1>f, <1>r, IdFacts DEF MemoryType
<1>2. u \in Ids /\ x \in Locations /\ root_id[x] = None /\ bucket[x].size = 0
  <2>1. u \in Ids /\ u \in Unused(r)
    BY <1>0, <1>u, FirstUnusedType
  <2> QED BY <1>x, <2>1, IdFacts DEF Unused
<1>3. f # x
  BY <1>0, <1>2, <1>r
<1>4. /\ bucket' = [bucket EXCEPT ![x] = b] /\ root_id' = [root_id EXCEPT ![x] = r]
      /\ writer' = [NoWork EXCEPT !.pc = "find_parent", !.slot = g, !.loc = x]
  BY <1>f, <1>r, <1>u, <1>x, <1>b DEF OptimizeFreeBucket, FirstUnused
<1>5. writer'.pc = "find_parent" /\ writer'.slot = g /\ writer'.loc = x /\ writer'.todo = {}
  BY <1>4 DEF NoWork
<1>6. b.size = 0
  <2>1. PICK i \in Nat \ {0} : Place(r, i) /\ c[r][i] = f
    BY <1>0, <1>f, <1>r DEF Owned, Found, Hanging
  <2>2. i \in Nat /\ i # 0
    OBVIOUS
  <2> QED BY <1>1, <1>b, <2>1, <2>2 DEF Core, Knows
<1>7. \A l \in Locations : /\ bucket'[l] = IF l = x THEN b ELSE bucket[l]
                           /\ root_id'[l] = IF l = x THEN r ELSE root_id[l]
  BY <1>0, <1>2, <1>4 DEF MemoryType
<1>8. \A l \in Locations : bucket'[l].size = bucket[l].size
  BY <1>2, <1>6, <1>7
<1>9. Lasting
  BY <1>0, <1>5, <1>8, IdFacts DEF Lasting, Place, Creating
<1>10. Outside(c, x)
  BY <1>2, Rootless DEF Outside
<1>11. RootsElsewhere(x) /\ FreeGrows
  BY <1>0, <1>7, FreeStays DEF RootsElsewhere
<1>12. FreeRootsKept
  <2>1. ASSUME NEW m \in Ids PROVE <<FALSE, m>> \in Locations /\ <<FALSE, m>> # x
    BY <1>x, IdFacts
  <2> QED BY <1>7, <2>1 DEF FreeRootsKept
<1>13. Untouched(c) /\ PayloadsKept(c)
  BY <1>0, <1>2, <1>4, <1>5, <1>9, <1>10, <1>11, OutsideUntouched
<1>14. Core(c)'
  BY <1>13, CoreKept
<1>15. Holds(c)'
  BY <1>0, <1>13, HoldsKept DEF Overwriting
<1>16. Owned(c)'
  BY <1>0, <1>9, <1>11, <1>12, OwnedKept DEF HangingKept, Hanging
<1>17. Plain'
  <2>1. ASSUME NEW m \in Ids, bucket'[<<TRUE, m>>].size = 1 PROVE ~bucket'[<<TRUE, m>>].internal
    <3>1. <<TRUE, m>> \in Locations
      BY IdFacts
    <3>2. <<TRUE, m>> # x
      <4>1. 0 # 1
        OBVIOUS
      <4> QED BY <1>6, <1>7, <2>1, <3>1, <4>1
    <3>3. bucket'[<<TRUE, m>>] = bucket[<<TRUE, m>>]
      BY <1>7, <3>1, <3>2
    <3> QED BY <2>1, <3>3 DEF Plain
  <2> QED BY <2>1 DEF Plain
<1>18. Moves(c)'
  <2>1. root_id'[f] = r /\ root_id'[x] = r /\ bucket'[x] = b /\ bucket'[f] = b
    BY <1>1, <1>2, <1>3, <1>7, <1>b, <1>r
  <2>2. \A i \in Nat : Place(r, i)' => c[r][i] # x
    BY <1>1, <1>9, <1>10 DEF Lasting, Outside
  <2>3. x[1] /\ <<FALSE, writer'.slot>> = f
    BY <1>x, <1>f, <1>5
  <2> QED BY <1>5, <2>1, <2>2, <2>3 DEF Moves
<1>19. Creates' /\ Hangs(c)' /\ Overwrites(c)' /\ Straight'
  BY <1>5 DEF Creates, Hangs, Hanging, Overwrites, MovePcs, Straight
<1> QED BY <1>13, <1>14, <1>15, <1>16, <1>17, <1>18, <1>19, ChainsPartsNext DEF Call

LEMMA ChainsOptimizeInternal ==
  ASSUME TableTypes, NEW c, ChainsHold(c), OptimizeInternal PROVE ChainsHold(c)' /\ Untouched(c)
<1> USE ChainsParts
<1>s. PICK s : s = writer.slot
  OBVIOUS
<1>f. PICK f : f = <<FALSE, s>>
  OBVIOUS
<1>r. PICK r : r = root_id[f]
  OBVIOUS
<1>l. PICK l : l = writer.loc
  OBVIOUS
<1>x. PICK x : x = writer.last
  OBVIOUS
<1>0. /\ MemoryType /\ writer \in Works /\ writer.pc = "optimize_internal" /\ s \in Ids /\ r \in Ids
      /\ l \in Locations /\ x \in Locations /\ writer.todo = {}
      /\ UNCHANGED <<root_id, free_id_count, content>>
  BY <1>s, <1>f, <1>r, <1>l, <1>x DEF OptimizeInternal, TableTypes, WorkKnows, MovePcs, Call, Straight
<1>1. /\ l[1] /\ root_id[l] = r /\ bucket[l] = bucket[f]
      /\ \A i \in Nat : Place(r, i) => c[r][i] # l
      /\ \E i \in Nat : Place(r, i + 1) /\ x = c[r][i] /\ c[r][i + 1] = f
  BY <1>0, <1>s, <1>f, <1>r, <1>l, <1>x DEF Call, Moves, MovePcs
<1>i. PICK i \in Nat : Place(r, i + 1) /\ x = c[r][i] /\ c[r][i + 1] = f
  BY <1>1
<1>2. i + 1 \in Nat /\ i <= i + 1 /\ i # i + 1
  OBVIOUS
<1>3. Place(r, i)
  BY <1>0, <1>i, <1>2, PlaceBefore
<1>4. f \in Locations /\ f # x /\ l # x /\ c \in Chains
  <2>1. f # x
    BY <1>0, <1>i, <1>2, <1>3 DEF Core, Once
  <2> QED BY <1>0, <1>1, <1>3, <1>i, <1>f, <2>1, IdFacts DEF Core
<1>5. bucket[x] \in Buckets
  BY <1>0, BucketType
<1>6. bucket[x].internal = FALSE
  <2>1. Published(x) = f
    BY <1>0, <1>i DEF Core, Linked
  <2>2. Published(x) = NextBucket(x)
    BY <1>0 DEF Published
  <2>3. <<bucket[x].internal, bucket[x].next>> = <<FALSE, s>>
    BY <1>f, <2>1, <2>2 DEF NextBucket
  <2>4. bucket[x].internal \in BOOLEAN
    BY <1>5 DEF Buckets
  <2> QED BY <2>3, <2>4
<1>b. PICK b : b = [bucket[x] EXCEPT !.internal = TRUE]
  OBVIOUS
<1>7. /\ b.size = bucket[x].size /\ b.hi = bucket[x].hi /\ b.payload = bucket[x].payload
      /\ b.internal = TRUE /\ b.next = bucket[x].next
  BY <1>5, <1>b DEF Buckets
<1>8. bucket' = [bucket EXCEPT ![x] = b] /\ writer' = [writer EXCEPT !.pc = "optimize_next"]
  BY <1>x, <1>b DEF OptimizeInternal
<1>9. writer'.pc = "optimize_next" /\ writer'.slot = s /\ writer'.loc = l /\ writer'.last = x /\ writer'.todo = {}
  BY <1>0, <1>s, <1>l, <1>x, <1>8 DEF Works
<1>10. \A y \in Locations : bucket'[y] = IF y = x THEN b ELSE bucket[y]
  BY <1>0, <1>8 DEF MemoryType
<1>11. \A y \in Locations : /\ bucket'[y].size = bucket[y].size /\ bucket'[y].hi = bucket[y].hi
                            /\ bucket'[y].payload = bucket[y].payload
  BY <1>7, <1>10
<1>12. Lasting
  BY <1>0, <1>9, <1>11, IdFacts DEF Lasting, Place, Creating
<1>13. ASSUME NEW y \in Locations PROVE Published(y)' = Published(y)
  <2>1. Published(y) = NextBucket(y)
    BY <1>0 DEF Published
  <2>2. CASE y = x
    <3>1. Published(y)' = <<FALSE, b.next>>
      BY <1>9, <1>10, <2>2 DEF Published
    <3>2. NextBucket(y) = <<FALSE, bucket[x].next>>
      BY <1>6, <2>2 DEF NextBucket
    <3> QED BY <1>7, <2>1, <3>1, <3>2
  <2>3. CASE y # x
    <3>1. bucket'[y] = bucket[y]
      BY <1>10, <2>3
    <3>2. Published(y)' = NextBucket(y)'
      BY <1>9, <2>3 DEF Published
    <3> QED BY <2>1, <3>1, <3>2 DEF NextBucket
  <2> QED BY <2>2, <2>3
<1>14. \A m \in Ids, j \in Nat : c[m][j] \in Locations
  BY <1>4, ChainType
<1>15. NodesKept(c) /\ PayloadsKept(c)
  <2>1. \A y : Valid(y)' <=> Valid(y)
    BY <1>0 DEF Valid
  <2>2. \A m \in Ids, j \in Nat : Place(m, j) => Valid(c[m][j])
    BY DEF Core, Knows
  <2> QED BY <1>0, <1>11, <1>14, <2>1, <2>2 DEF NodesKept, PayloadsKept
<1>16. LinksKept(c)
  BY <1>13, <1>14 DEF LinksKept
<1>17. Untouched(c)
  BY <1>12, <1>15, <1>16 DEF Untouched
<1>18. Core(c)'
  BY <1>17, CoreKept
<1>19. Holds(c)'
  BY <1>0, <1>15, <1>17, HoldsKept DEF Overwriting
<1>20. Owned(c)'
  <2>1. FreeGrows /\ FreeRootsKept
    BY <1>0, FreeStays DEF FreeRootsKept
  <2>2. HangingKept
    BY <1>0 DEF HangingKept, Hanging
  <2> QED BY <1>0, <1>12, <2>1, <2>2, OwnedKept
<1>21. Plain'
  <2>1. ASSUME NEW m \in Ids, bucket'[<<TRUE, m>>].size = 1 PROVE ~bucket'[<<TRUE, m>>].internal
    <3>1. <<TRUE, m>> \in Locations
      BY IdFacts
    <3>2. bucket[<<TRUE, m>>].size = 1 /\ ~bucket[<<TRUE, m>>].internal
      BY <1>11, <2>1, <3>1 DEF Plain
    <3>3. <<TRUE, m>> # x
      <4>1. SUFFICES ASSUME <<TRUE, m>> = x PROVE FALSE
        OBVIOUS
      <4>2. i = 0
        <5>1. i # 0 => bucket[x].size = 0
          BY <1>0, <1>3, <1>i DEF Core, Knows
        <5>2. 0 # 1
          OBVIOUS
        <5> QED BY <3>2, <4>1, <5>1, <5>2
      <4>3. x = <<TRUE, r>>
        BY <1>0, <1>i, <4>2 DEF Core, Rooted
      <4>4. 0 + 1 < bucket[<<TRUE, r>>].size
        BY <1>i, <4>2 DEF Place
      <4> QED BY <3>2, <4>1, <4>3, <4>4
    <3> QED BY <1>10, <3>1, <3>2, <3>3
  <2> QED BY <2>1 DEF Plain
<1>22. Moves(c)'
  <2>1. root_id'[f] = r /\ root_id'[l] = r /\ bucket'[l] = bucket'[f] /\ bucket'[x].internal = TRUE
    BY <1>0, <1>1, <1>4, <1>7, <1>10, <1>r
  <2>2. \A j \in Nat : Place(r, j)' => c[r][j] # l
    BY <1>0, <1>1, <1>12 DEF Lasting
  <2>3. \E j \in Nat : Place(r, j + 1)' /\ x = c[r][j] /\ c[r][j + 1] = f
    BY <1>0, <1>2, <1>i, <1>12 DEF Lasting
  <2>4. <<FALSE, writer'.slot>> = f
    BY <1>f, <1>9
  <2> QED BY <1>1, <1>9, <2>1, <2>2, <2>3, <2>4 DEF Moves
<1>23. Creates' /\ Hangs(c)' /\ Overwrites(c)' /\ Straight'
  BY <1>9 DEF Creates, Hangs, Hanging, Overwrites, MovePcs, Straight
<1> QED BY <1>17, <1>18, <1>19, <1>20, <1>21, <1>22, <1>23, ChainsPartsNext DEF Call

\* OptimizeNext has the chain of r go through another bucket after its i-th one.
Rerouted(c, d, r, i) ==
  /\ OptimizeNext /\ r \in Ids /\ i \in Nat
  /\ Place(r, i + 1) /\ c[r][i] = writer.last /\ c[r][i + 1] = <<FALSE, writer.slot>>
  /\ Changed(c, d, r, i + 1, writer.loc)

LEMMA ChainsOptimizeNext ==
  ASSUME TableTypes, NEW c, ChainsHold(c), OptimizeNext PROVE \E d, r, i : ChainsHold(d)' /\ Lasting /\ Rerouted(c, d, r, i)
<1> USE ChainsParts
<1>s. PICK s : s = writer.slot
  OBVIOUS
<1>f. PICK f : f = <<FALSE, s>>
  OBVIOUS
<1>r. PICK r : r = root_id[f]
  OBVIOUS
<1>l. PICK l : l = writer.loc
  OBVIOUS
<1>x. PICK x : x = writer.last
  OBVIOUS
<1>0. /\ MemoryType /\ writer \in Works /\ writer.pc = "optimize_next" /\ s \in Ids /\ r \in Ids
      /\ l \in Locations /\ x \in Locations
      /\ UNCHANGED <<free_id_count, content>>
  BY <1>s, <1>f, <1>r, <1>l, <1>x DEF OptimizeNext, TableTypes, WorkKnows, MovePcs
<1>1. /\ l[1] /\ root_id[l] = r /\ bucket[l] = bucket[f] /\ bucket[x].internal
      /\ \A j \in Nat : Place(r, j) => c[r][j] # l
      /\ \E j \in Nat : Place(r, j + 1) /\ x = c[r][j] /\ c[r][j + 1] = f
  BY <1>0, <1>s, <1>f, <1>r, <1>l, <1>x DEF Call, Moves, MovePcs
<1>i. PICK i \in Nat : Place(r, i + 1) /\ x = c[r][i] /\ c[r][i + 1] = f
  BY <1>1
<1>n. PICK n : n = i + 1
  OBVIOUS
<1>2. n \in Nat /\ i <= n /\ i # n /\ n # 0 /\ Place(r, n) /\ c[r][n] = f
  BY <1>i, <1>n
<1>3. Place(r, i)
  BY <1>0, <1>2, PlaceBefore
<1>4. f \in Locations /\ f # x /\ l # x /\ l # f /\ c \in Chains
  <2>1. f # x
    BY <1>0, <1>i, <1>2, <1>3 DEF Core, Once
  <2>2. l # f
    BY <1>0, <1>1, <1>2
  <2> QED BY <1>0, <1>1, <1>3, <1>i, <1>f, <2>1, <2>2, IdFacts DEF Core
<1>5. bucket[x] \in Buckets /\ bucket[x].internal = TRUE
  <2>1. bucket[x] \in Buckets
    BY <1>0, BucketType
  <2> QED BY <1>1, <2>1 DEF Buckets
<1>b. PICK b : b = [bucket[x] EXCEPT !.next = l[2]]
  OBVIOUS
<1>6. /\ b.size = bucket[x].size /\ b.hi = bucket[x].hi /\ b.payload = bucket[x].payload
      /\ b.internal = bucket[x].internal /\ b.next = l[2]
  BY <1>5, <1>b DEF Buckets
<1>7. /\ bucket' = [bucket EXCEPT ![x] = b] /\ root_id' = [root_id EXCEPT ![f] = None] /\ writer' = NoWork
  BY <1>s, <1>f, <1>l, <1>x, <1>b DEF OptimizeNext
<1>8. \A y \in Locations : bucket'[y] = (IF y = x THEN b ELSE bucket[y]) /\ root_id'[y] = (IF y = f THEN None ELSE root_id[y])
  BY <1>0, <1>4, <1>7 DEF MemoryType
<1>9. \A y \in Locations : /\ bucket'[y].size = bucket[y].size /\ bucket'[y].hi = bucket[y].hi
                           /\ bucket'[y].payload = bucket[y].payload /\ bucket'[y].internal = bucket[y].internal
  BY <1>6, <1>8
<1>10. Call(c)' /\ writer'.pc = "idle" /\ writer.pc # "create"
  BY <1>0, <1>7, ChainsIdle
<1>11. Lasting
  BY <1>9, <1>10, IdFacts DEF Lasting, Place, Creating
<1>d. PICK d : Changed(c, d, r, n, l)
  BY <1>0, <1>2, <1>4, ChainUpdate
<1>12. d \in Chains /\ d[r][n] = l /\ \A m \in Ids, j \in Nat : ~(m = r /\ j = n) => d[m][j] = c[m][j]
  BY <1>d DEF Changed
<1>13. Call(d)'
  BY <1>7, ChainsIdle
\* The other buckets of the chains are neither the old one nor the new one.
<1>14. ASSUME NEW m \in Ids, NEW j \in Nat, Place(m, j), ~(m = r /\ j = n)
       PROVE  d[m][j] = c[m][j] /\ c[m][j] \in Locations /\ c[m][j] # f /\ c[m][j] # l /\ root_id[c[m][j]] = m
  <2>1. root_id[c[m][j]] = m /\ c[m][j] \in Locations /\ d[m][j] = c[m][j]
    BY <1>4, <1>12, <1>14, ChainType DEF Core, Knows
  <2>2. c[m][j] # f
    <3>1. SUFFICES ASSUME c[m][j] = f PROVE FALSE
      OBVIOUS
    <3>2. m = r
      BY <1>r, <2>1, <3>1
    <3>3. j = n
      BY <1>2, <1>14, <3>1, <3>2 DEF Core, Once
    <3> QED BY <1>14, <3>2, <3>3
  <2>3. c[m][j] # l
    BY <1>1, <1>14, <2>1
  <2> QED BY <2>1, <2>2, <2>3
<1>15. ASSUME NEW m \in Ids, NEW j \in Nat, Place(m, j)
       PROVE  /\ d[m][j] \in Locations /\ root_id'[d[m][j]] = m /\ Valid(d[m][j])'
              /\ bucket'[d[m][j]].hi = bucket[c[m][j]].hi /\ bucket'[d[m][j]].payload = bucket[c[m][j]].payload
              /\ bucket'[d[m][j]].size = bucket[c[m][j]].size
  <2>1. CASE m = r /\ j = n
    <3>1. d[m][j] = l /\ c[m][j] = f
      BY <1>2, <1>12, <2>1
    <3>2. root_id'[l] = r
      BY <1>0, <1>1, <1>4, <1>8
    <3>3. Valid(l)'
      BY <1>1 DEF Valid
    <3>4. bucket'[l] = bucket[f]
      BY <1>0, <1>1, <1>4, <1>8
    <3> QED BY <1>0, <2>1, <3>1, <3>2, <3>3, <3>4
  <2>2. CASE ~(m = r /\ j = n)
    <3>1. d[m][j] = c[m][j] /\ c[m][j] \in Locations /\ c[m][j] # f /\ root_id[c[m][j]] = m
      BY <1>14, <1>15, <2>2
    <3>2. Valid(c[m][j])
      BY <1>15 DEF Core, Knows
    <3>3. Valid(c[m][j])'
      BY <1>0, <3>2 DEF Valid
    <3> QED BY <1>8, <1>9, <3>1, <3>3
  <2> QED BY <2>1, <2>2
<1>16. Rooted(d)'
  BY <1>2, <1>12 DEF Core, Rooted
<1>17. Knows(d)'
  <2>1. SUFFICES ASSUME NEW m \in Ids, NEW j \in Nat, Place(m, j)'
                 PROVE  /\ root_id'[d[m][j]] = m /\ Valid(d[m][j])'
                        /\ j # 0 => bucket'[d[m][j]].size = 0
    BY DEF Knows
  <2>2. Place(m, j)
    BY <1>11, <2>1 DEF Lasting
  <2>3. j # 0 => bucket[c[m][j]].size = 0
    BY <2>2 DEF Core, Knows
  <2> QED BY <1>15, <2>2, <2>3
<1>18. Once(d)'
  <2>1. SUFFICES ASSUME NEW m \in Ids, NEW p \in Nat, NEW q \in Nat, Place(m, p)', Place(m, q)', d[m][p] = d[m][q]
                 PROVE  p = q
    BY DEF Once
  <2>2. Place(m, p) /\ Place(m, q)
    BY <1>11, <2>1 DEF Lasting
  <2>3. CASE m = r /\ p = n
    BY <1>12, <1>14, <2>1, <2>2, <2>3
  <2>4. CASE m = r /\ q = n
    BY <1>12, <1>14, <2>1, <2>2, <2>4
  <2>5. CASE ~(m = r /\ p = n) /\ ~(m = r /\ q = n)
    <3>1. c[m][p] = c[m][q]
      BY <1>14, <2>1, <2>2, <2>5
    <3> QED BY <2>2, <3>1 DEF Core, Once
  <2> QED BY <2>3, <2>4, <2>5
<1>19. KeysOnce(d)'
  <2>1. SUFFICES ASSUME NEW m \in Ids, NEW p \in Nat, NEW q \in Nat, Place(m, p)', Place(m, q)',
                        bucket'[d[m][p]].hi = bucket'[d[m][q]].hi
                 PROVE  p = q
    BY DEF KeysOnce
  <2>2. Place(m, p) /\ Place(m, q)
    BY <1>11, <2>1 DEF Lasting
  <2>3. bucket[c[m][p]].hi = bucket[c[m][q]].hi
    BY <1>15, <2>1, <2>2
  <2> QED BY <2>2, <2>3 DEF Core, KeysOnce
<1>20. Linked(d)'
  <2>1. SUFFICES ASSUME NEW m \in Ids, NEW j \in Nat, Place(m, j + 1)'
                 PROVE  Published(d[m][j])' = d[m][j + 1]
    BY DEF Linked
  <2>2. j + 1 \in Nat /\ j <= j + 1
    OBVIOUS
  <2>3. Place(m, j + 1)
    BY <1>11, <2>1, <2>2 DEF Lasting
  <2>4. Place(m, j)
    BY <1>0, <2>2, <2>3, PlaceBefore
  <2>5. \A y : Published(y)' = NextBucket(y)'
    BY <1>10 DEF Published
  <2>6. Published(c[m][j]) = c[m][j + 1]
    BY <2>3 DEF Core, Linked
  <2>7. CASE m = r /\ j = i
    <3>1. d[m][j] = x /\ d[m][j + 1] = l
      BY <1>2, <1>12, <1>i, <1>n, <2>7
    <3>2. NextBucket(x)' = <<TRUE, l[2]>>
      BY <1>0, <1>5, <1>6, <1>8 DEF NextBucket
    <3>3. l = <<TRUE, l[2]>>
      BY <1>0, <1>1, LocationFacts
    <3> QED BY <2>5, <3>1, <3>2, <3>3
  <2>8. CASE m = r /\ j = n
    <3>1. d[m][j] = l /\ c[m][j] = f
      BY <1>2, <1>12, <2>8
    <3>2. NextBucket(l)' = NextBucket(f)
      BY <1>0, <1>1, <1>4, <1>8 DEF NextBucket
    <3>3. Published(f) = NextBucket(f)
      BY <1>4, <1>x DEF Published
    <3>4. j + 1 # n
      BY <2>8
    <3>5. d[m][j + 1] = c[m][j + 1]
      BY <1>12, <2>2, <3>4
    <3> QED BY <2>5, <2>6, <3>1, <3>2, <3>3, <3>5
  <2>9. CASE ~(m = r /\ j = i) /\ ~(m = r /\ j = n)
    <3>1. d[m][j] = c[m][j] /\ c[m][j] \in Locations /\ root_id[c[m][j]] = m
      BY <1>14, <2>4, <2>9
    <3>2. c[m][j] # x
      <4>1. SUFFICES ASSUME c[m][j] = x PROVE FALSE
        OBVIOUS
      <4>2. root_id[x] = r
        BY <1>0, <1>3, <1>i DEF Core, Knows
      <4>3. m = r
        BY <3>1, <4>1, <4>2
      <4>4. j = i
        BY <1>3, <1>i, <2>4, <4>1, <4>3 DEF Core, Once
      <4> QED BY <2>9, <4>3, <4>4
    <3>3. bucket'[c[m][j]] = bucket[c[m][j]]
      BY <1>8, <3>1, <3>2
    <3>4. NextBucket(c[m][j])' = NextBucket(c[m][j])
      BY <3>3 DEF NextBucket
    <3>5. Published(c[m][j]) = NextBucket(c[m][j])
      BY <1>x, <3>2 DEF Published
    <3>6. j # i => j + 1 # n
      BY <1>n
    <3>7. d[m][j + 1] = c[m][j + 1]
      BY <1>12, <2>2, <2>9, <3>6
    <3> QED BY <2>5, <2>6, <3>1, <3>4, <3>5, <3>7
  <2> QED BY <2>7, <2>8, <2>9
<1>21. Core(d)'
  BY <1>12, <1>16, <1>17, <1>18, <1>19, <1>20 DEF Core
<1>22. Plain'
  BY <1>9, IdFacts DEF Plain
<1>23. Owned(d)'
  <2>1. SUFFICES ASSUME NEW g \in Ids, NEW q, q = root_id'[<<FALSE, g>>], q # None
                 PROVE  Found(d, g, q)'
    BY DEF Owned
  <2>2. <<FALSE, g>> \in Locations
    BY IdFacts
  <2>3. <<FALSE, g>> # f /\ q = root_id[<<FALSE, g>>]
    BY <1>8, <2>1, <2>2
  <2>4. q \in Ids
    BY <1>0, <2>1, <2>2, <2>3 DEF MemoryType
  <2>5. g < free_id_count /\ \E p \in Nat \ {0} : Place(q, p) /\ c[q][p] = <<FALSE, g>>
    BY <1>0, <2>1, <2>3 DEF Owned, Found, Hanging
  <2>6. PICK p \in Nat \ {0} : Place(q, p) /\ c[q][p] = <<FALSE, g>>
    BY <2>5
  <2>7. ~(q = r /\ p = n)
    BY <1>2, <2>3, <2>6
  <2>8. d[q][p] = <<FALSE, g>> /\ Place(q, p)'
    BY <1>11, <1>12, <2>4, <2>6, <2>7 DEF Lasting
  <2> QED BY <1>0, <2>5, <2>6, <2>8 DEF Found
<1>24. Holds(d)'
  <2>1. ASSUME NEW k \in Keys, NEW j \in Nat, Place(k[2], j)', bucket'[d[k[2]][j]].hi = Hi(k)
        PROVE  content'[k] = bucket'[d[k[2]][j]].payload
    <3>1. k[2] \in Ids
      BY KeyFacts
    <3>2. Place(k[2], j)
      BY <1>11, <2>1, <3>1 DEF Lasting
    <3>3. ~Overwriting(k) /\ bucket[c[k[2]][j]].hi = Hi(k)
      BY <1>0, <1>15, <2>1, <3>1, <3>2 DEF Overwriting
    <3>4. content[k] = bucket[c[k[2]][j]].payload
      BY <3>2, <3>3 DEF Holds
    <3> QED BY <1>0, <1>15, <3>1, <3>2, <3>4
  <2>2. ASSUME NEW k \in Keys, \A j \in Nat : Place(k[2], j)' => bucket'[d[k[2]][j]].hi # Hi(k)
        PROVE  content'[k] = NFOUND
    <3>1. k[2] \in Ids
      BY KeyFacts
    <3>2. \A j \in Nat : Place(k[2], j) => bucket[c[k[2]][j]].hi # Hi(k)
      BY <1>11, <1>15, <2>2, <3>1 DEF Lasting
    <3>3. content[k] = NFOUND
      BY <3>2 DEF Holds
    <3> QED BY <1>0, <3>3
  <2> QED BY <2>1, <2>2 DEF Holds
<1>25. ChainsHold(d)'
  BY <1>13, <1>21, <1>22, <1>23, <1>24, ChainsPartsNext
<1>26. Rerouted(c, d, r, i)
  <2>1. c[r][i + 1] = <<FALSE, writer.slot>> /\ c[r][i] = writer.last /\ Place(r, i + 1)
    BY <1>f, <1>i, <1>s, <1>x
  <2>2. Changed(c, d, r, i + 1, writer.loc)
    BY <1>d, <1>l, <1>n
  <2> QED BY <1>0, <2>1, <2>2 DEF Rerouted
<1> QED BY <1>11, <1>25, <1>26

\* A step of a reader, or none.
LEMMA ChainsStill ==
  ASSUME NEW c, ChainsHold(c), UNCHANGED <<bucket, root_id, free_id_count, writer, content>> PROVE ChainsHold(c)' /\ Untouched(c)
<1> USE ChainsParts
<1>1. /\ \A id, i : Place(id, i)' <=> Place(id, i)
      /\ \A l : Published(l)' = Published(l) /\ (Valid(l)' <=> Valid(l)) /\ SizeField(l)' = SizeField(l)
      /\ \A k : NewNode(k)' = NewNode(k) /\ (Overwriting(k)' <=> Overwriting(k))
      /\ Hanging' <=> Hanging
  BY DEF Place, Creating, Published, NextBucket, Valid, SizeField, NewNode, Overwriting, Hanging
<1>u. Untouched(c)
  <2>1. Lasting /\ LinksKept(c)
    BY <1>1 DEF Lasting, LinksKept
  <2>2. NodesKept(c)
    BY <1>1 DEF NodesKept, Core, Knows
  <2> QED BY <2>1, <2>2 DEF Untouched
<1>2. Core(c)'
  BY <1>u, CoreKept
<1>3. Plain'
  BY DEF Plain
<1>4. Holds(c)'
  BY <1>1 DEF Holds
<1>5. Owned(c)'
  BY <1>1 DEF Owned, Found
<1>a. Creates /\ Overwrites(c) /\ Hangs(c) /\ Moves(c) /\ Straight
  BY DEF Call
<1>6. Creates' /\ Straight'
  BY <1>a DEF Creates, Written, Straight, Entry
<1>7. Overwrites(c)'
  BY <1>1, <1>a DEF Overwrites, Written
<1>8. Hangs(c)'
  BY <1>1, <1>a DEF Hangs
<1>9. Moves(c)'
  BY <1>1, <1>a DEF Moves
<1> QED BY <1>u, <1>2, <1>3, <1>4, <1>5, <1>6, <1>7, <1>8, <1>9, ChainsPartsNext DEF Call

LEMMA ChainsFinish ==
  ASSUME TableTypes, NEW c, ChainsHold(c), Finish PROVE ChainsHold(c)' /\ Kept(c, c)
<1>1. writer.pc \in {"create", "overwrite"}
  BY DEF Finish
<1> QED BY <1>1, ChainsFinishCreate, ChainsFinishOverwrite, UntouchedKept

LEMMA ChainsStore ==
  ASSUME TableTypes, NEW c, ChainsHold(c), NEW f \in Fields, Store(f) PROVE ChainsHold(c)' /\ Kept(c, c)
<1>1. writer.pc \in {"create", "overwrite"}
  BY DEF Store, ChainsHold, Straight
<1> QED BY <1>1, ChainsStoreCreate, ChainsStoreOverwrite, UntouchedKept

\* The chains of the next state: Grow makes one longer, OptimizeNext has one
\* go through another bucket, all other steps leave them as they are.
LEMMA ChainsNext ==
  ASSUME TableTypes, NEW c, ChainsHold(c), [TableNext]_tableVars, ~displaced', RoomLeft
  PROVE  \E d : ChainsHold(d)' /\ (Kept(c, d) \/ \E r, i : Lasting /\ Rerouted(c, d, r, i))
<1>s. writer.pc \notin {"evict", "bypass_internal", "bypass_next", "move", "recheck"}
  BY DEF ChainsHold, Straight, MovePcs
<1>1. CASE UNCHANGED tableVars
  BY <1>1, ChainsStill, UntouchedKept DEF tableVars
<1>2. ASSUME NEW k \in Keys, Insert(k) \/ Find(k) PROVE \E d : ChainsHold(d)' /\ Kept(c, d)
  <2>1. CASE Insert(k)
    BY <2>1, ChainsInsert, UntouchedKept
  <2>2. CASE Find(k)
    <3>1. UNCHANGED <<bucket, root_id, free_id_count, writer, content>>
      BY <2>2 DEF Find
    <3> QED BY <3>1, ChainsStill, UntouchedKept
  <2> QED BY <1>2, <2>1, <2>2
<1>3. ASSUME NEW f \in Ids, OptimizeFreeBucket(f) PROVE \E d : ChainsHold(d)' /\ Kept(c, d)
  BY <1>3, ChainsOptimizeFreeBucket, UntouchedKept
<1>4. CASE Claim
  <2>1. root_id[Entry(writer.key)] = None
    BY <1>4 DEF Claim
  <2> QED BY <1>4, <2>1, ChainsClaim, UntouchedKept
<1>5. CASE Finish \/ Overwrite \/ AppendNode \/ Link \/ MarkTail \/ Grow
  <2>1. CASE Finish \/ Grow
    BY <2>1, ChainsFinish, ChainsGrow
  <2>2. CASE Overwrite \/ AppendNode
    BY <2>2, ChainsOverwrite, ChainsAppendNode, UntouchedKept
  <2>3. CASE Link \/ MarkTail
    BY <2>3, ChainsLink, ChainsMarkTail, UntouchedKept
  <2> QED BY <1>5, <2>1, <2>2, <2>3
<1>6. CASE Evict \/ BypassInternal \/ BypassNext \/ Move \/ Recheck
  BY <1>6, <1>s DEF Evict, BypassInternal, BypassNext, Move, Recheck
<1>7. CASE FindParent \/ OptimizeInternal \/ OptimizeNext
  <2>1. CASE FindParent \/ OptimizeInternal
    BY <2>1, ChainsFindParent, ChainsOptimizeInternal, UntouchedKept
  <2>2. CASE OptimizeNext
    BY <2>2, ChainsOptimizeNext
  <2> QED BY <1>7, <2>1, <2>2
<1>8. ASSUME NEW f \in {"lo", "hi", "key", "internal", "next"}, Store(f) PROVE \E d : ChainsHold(d)' /\ Kept(c, d)
  BY <1>8, ChainsStore DEF Fields
<1>9. CASE ReaderStep
  <2>1. UNCHANGED <<bucket, root_id, free_id_count, writer, content>>
    BY <1>9 DEF ReaderStep
  <2> QED BY <2>1, ChainsStill, UntouchedKept
<1> QED BY <1>1, <1>2, <1>3, <1>4, <1>5, <1>6, <1>7, <1>8, <1>9 DEF TableNext, WriterStep

\* A displaced bucket is never forgotten.
LEMMA DisplacedStays ==
  ASSUME [TableNext]_tableVars, displaced PROVE displaced'
<1>1. CASE UNCHANGED tableVars
  BY <1>1 DEF tableVars
<1>2. CASE (\E k \in Keys : Insert(k) \/ Find(k)) \/ ReaderStep
  BY <1>2 DEF Insert, Find, ReaderStep
<1>3. CASE \E f \in Ids : OptimizeFreeBucket(f)
  BY <1>3 DEF OptimizeFreeBucket
<1>4. CASE Claim \/ Finish \/ Overwrite \/ AppendNode \/ Link \/ MarkTail \/ Grow
  BY <1>4 DEF Claim, Finish, Overwrite, AppendNode, Link, MarkTail, Grow
<1>5. CASE Evict \/ BypassInternal \/ BypassNext \/ Move \/ Recheck
  BY <1>5 DEF Evict, BypassInternal, BypassNext, Move, Recheck
<1>6. CASE FindParent \/ OptimizeInternal \/ OptimizeNext
  BY <1>6 DEF FindParent, OptimizeInternal, OptimizeNext
<1>7. CASE \E f \in {"lo", "hi", "key", "internal", "next"} : Store(f)
  BY <1>7 DEF Store
<1> QED BY <1>1, <1>2, <1>3, <1>4, <1>5, <1>6, <1>7 DEF TableNext, WriterStep

Chained == ~displaced => \E c : ChainsHold(c)

LEMMA ChainedNext ==
  ASSUME TableTypes, Chained, [TableNext]_tableVars, RoomLeft PROVE Chained'
<1>1. SUFFICES ASSUME ~displaced' PROVE \E d : ChainsHold(d)'
  BY DEF Chained
<1>2. PICK c : ChainsHold(c)
  BY <1>1, DisplacedStays DEF Chained
<1> QED BY <1>1, <1>2, ChainsNext

LEMMA ChainedGives ==
  ASSUME TableTypes, Chained PROVE TableOK
<1>1. TableTypeOK
  BY TableTypesImply
<1>2. CASE displaced
  BY <1>1, <1>2 DEF TableOK, TableIsMap, ChainsOwned
<1>3. CASE ~displaced
  <2>1. PICK c : ChainsHold(c)
    BY <1>3 DEF Chained
  <2> QED BY <1>1, <2>1, ChainsGiveMap, ChainsGiveOwned DEF TableOK
<1> QED BY <1>2, <1>3

LEMMA ChainedInit == TableInit => Chained
BY ChainsInit DEF Chained

\* Between two calls of Insert or OptimizeFreeBucket the chains hold the map and
\* every bucket of them knows its root, for tables of every size, as long as Insert
\* sees which chains are full.
THEOREM TableCorrect == TableSpec /\ []RoomLeft => []TableOK
<1>1. TableTypes /\ [TableNext]_tableVars => TableTypes'
  BY TypesNext
<1>2. TableTypes /\ Chained /\ [TableNext]_tableVars /\ RoomLeft => Chained'
  BY ChainedNext
<1>3. TableTypes /\ Chained => TableOK
  BY ChainedGives
<1> QED BY <1>1, <1>2, <1>3, TypesInit, ChainedInit, PTL DEF TableSpec

-----------------------------------------------------------------------------
(* With fewer insertions than a size can count there is always room.       *)

Adding == {"enter", "link", "tail", "grow"}
Few(n) == \A l \in Locations : bucket[l].size <= n
Fewer(n) == \A l \in Locations : bucket[l].size < n
Bounded == Few(inserts) /\ (writer.pc \in Adding => Fewer(inserts))

SizesKept == \A l \in Locations : bucket'[l].size = bucket[l].size

LEMMA SizeNat ==
  ASSUME MemoryType, NEW l \in Locations PROVE bucket[l].size \in Nat
BY BucketType, SizesType DEF Buckets

LEMMA BoundedKept ==
  ASSUME Bounded, SizesKept, UNCHANGED inserts, writer'.pc \in Adding => writer.pc \in Adding
  PROVE  Bounded'
BY DEF Bounded, SizesKept, Few, Fewer

\* A store to a part of a bucket that is not its size.
LEMMA SizeStored ==
  ASSUME MemoryType, NEW x \in Locations, NEW b, b.size = bucket[x].size, bucket' = [bucket EXCEPT ![x] = b]
  PROVE  SizesKept
BY DEF MemoryType, SizesKept

LEMMA FewerFew ==
  ASSUME MemoryType, NEW n \in Nat, Few(n) PROVE Fewer(n + 1) /\ Few(n + 1)
<1>1. \A a, b \in Nat : a <= b => a < b + 1 /\ a <= b + 1
  OBVIOUS
<1> QED BY <1>1, SizeNat DEF Few, Fewer

LEMMA BoundedInsert ==
  ASSUME TableTypes, Bounded, NEW k \in Keys, Insert(k) PROVE Bounded'
<1>1. MemoryType /\ inserts \in Nat
  BY QedTableAssumption DEF TableTypes
<1>2. Fewer(inserts + 1) /\ Few(inserts + 1)
  BY <1>1, FewerFew DEF Bounded
<1>3. inserts' = inserts + 1 /\ bucket' = bucket
  BY DEF Insert
<1> QED BY <1>2, <1>3 DEF Bounded, Few, Fewer

LEMMA BoundedClaim ==
  ASSUME TableTypes, Bounded, Claim, root_id[Entry(writer.key)] = None PROVE Bounded'
<1>x. PICK x : x = Entry(writer.key)
  OBVIOUS
<1>0. MemoryType /\ inserts \in Nat /\ writer \in Works /\ x \in Locations /\ writer.pc \in Adding /\ UNCHANGED inserts
  BY <1>x, QedTableAssumption, KeyFacts DEF TableTypes, Claim, WorkKnows, CallPcs, Adding
<1>b. PICK b : b = [bucket[x] EXCEPT !.internal = FALSE, !.size = 1]
  OBVIOUS
<1>1. bucket' = [bucket EXCEPT ![x] = b]
  BY <1>x, <1>b DEF Claim
<1>2. b.size = 1
  BY <1>0, <1>b, BucketType DEF Buckets
<1>3. \A l \in Locations : bucket'[l] = IF l = x THEN b ELSE bucket[l]
  BY <1>0, <1>1 DEF MemoryType
<1>4. 1 <= inserts
  <2>1. bucket[x].size < inserts /\ bucket[x].size \in Nat
    BY <1>0, SizeNat DEF Bounded, Fewer
  <2> QED BY <1>0, <2>1
<1>5. writer'.pc = "create"
  BY <1>0, <1>x DEF Claim, Works
<1>6. Few(inserts)'
  BY <1>0, <1>2, <1>3, <1>4 DEF Bounded, Few
<1> QED BY <1>5, <1>6 DEF Bounded, Adding

LEMMA BoundedStore ==
  ASSUME TableTypes, Bounded, NEW f \in Fields, Store(f), writer.pc \notin Adding PROVE Bounded'
<1>x. PICK x : x = writer.loc
  OBVIOUS
<1>0. /\ MemoryType /\ writer \in Works /\ x \in Locations /\ UNCHANGED inserts /\ writer'.pc = writer.pc
  BY <1>x DEF TableTypes, Store, WorkKnows, Works
<1>b. PICK b : b = Stored(bucket[x], f)
  OBVIOUS
<1>1. bucket' = [bucket EXCEPT ![x] = b]
  BY <1>x, <1>b DEF Store
<1>2. bucket[x] \in Buckets
  BY <1>0, BucketType
<1>3. b.size = bucket[x].size
  BY <1>b, <1>2 DEF Stored, Fields, Buckets
<1> QED BY <1>0, <1>1, <1>3, SizeStored, BoundedKept

LEMMA BoundedAppendNode ==
  ASSUME TableTypes, Bounded, AppendNode PROVE Bounded'
<1>0. /\ MemoryType /\ writer \in Works /\ UNCHANGED inserts /\ writer.pc \in Adding /\ inserts \in Nat
  BY QedTableAssumption DEF TableTypes, AppendNode, Adding
<1>1. CASE bucket' = bucket
  <2>1. SizesKept
    BY <1>1 DEF SizesKept
  <2> QED BY <1>0, <2>1, BoundedKept
<1>2. CASE bucket' # bucket
  <2>s. PICK s : s = Slot
    OBVIOUS
  <2>x. PICK x : x = <<FALSE, s>>
    OBVIOUS
  <2>b. PICK b : b = NewNode(writer.key)
    OBVIOUS
  <2>1. bucket' = [bucket EXCEPT ![x] = b]
    BY <1>2, <2>s, <2>x, <2>b DEF AppendNode
  <2>2. \A l \in Locations : bucket'[l] = IF l = x THEN b ELSE bucket[l]
    BY <1>0, <2>1 DEF MemoryType
  <2>3. b.size = 0
    BY <2>b DEF NewNode
  <2>4. \A l \in Locations : 0 < inserts /\ 0 <= inserts
    <3>1. ASSUME NEW l \in Locations PROVE 0 < inserts /\ 0 <= inserts
      <4>1. bucket[l].size < inserts /\ bucket[l].size \in Nat
        BY <1>0, SizeNat DEF Bounded, Fewer
      <4> QED BY <1>0, <4>1
    <3> QED BY <3>1
  <2> QED BY <1>0, <2>2, <2>3, <2>4 DEF Bounded, Few, Fewer
<1> QED BY <1>1, <1>2

LEMMA BoundedLink ==
  ASSUME TableTypes, Bounded, Link \/ MarkTail \/ OptimizeInternal \/ OptimizeNext PROVE Bounded'
<1>x. PICK x : x = writer.last
  OBVIOUS
<1>0. MemoryType /\ writer \in Works /\ x \in Locations /\ UNCHANGED inserts
  BY <1>x DEF TableTypes, Link, MarkTail, OptimizeInternal, OptimizeNext, WorkKnows
<1>1. bucket[x] \in Buckets
  BY <1>0, BucketType
<1>2. SizesKept
  <2>1. CASE Link
    <3>b. PICK b : b = [bucket[x] EXCEPT !.next = writer.slot]
      OBVIOUS
    <3>1. bucket' = [bucket EXCEPT ![x] = b] /\ b.size = bucket[x].size
      BY <1>1, <1>x, <2>1, <3>b DEF Link, Buckets
    <3> QED BY <1>0, <3>1, SizeStored
  <2>2. CASE MarkTail
    <3>b. PICK b : b = [bucket[x] EXCEPT !.internal = FALSE]
      OBVIOUS
    <3>1. bucket' = [bucket EXCEPT ![x] = b] /\ b.size = bucket[x].size
      BY <1>1, <1>x, <2>2, <3>b DEF MarkTail, Buckets
    <3> QED BY <1>0, <3>1, SizeStored
  <2>3. CASE OptimizeInternal
    <3>b. PICK b : b = [bucket[x] EXCEPT !.internal = TRUE]
      OBVIOUS
    <3>1. bucket' = [bucket EXCEPT ![x] = b] /\ b.size = bucket[x].size
      BY <1>1, <1>x, <2>3, <3>b DEF OptimizeInternal, Buckets
    <3> QED BY <1>0, <3>1, SizeStored
  <2>4. CASE OptimizeNext
    <3>b. PICK b : b = [bucket[x] EXCEPT !.next = writer.loc[2]]
      OBVIOUS
    <3>1. bucket' = [bucket EXCEPT ![x] = b] /\ b.size = bucket[x].size
      BY <1>1, <1>x, <2>4, <3>b DEF OptimizeNext, Buckets
    <3> QED BY <1>0, <3>1, SizeStored
  <2> QED BY <2>1, <2>2, <2>3, <2>4
<1>3. writer'.pc \in Adding => writer.pc \in Adding
  <2>1. CASE Link \/ MarkTail
    BY <2>1 DEF Link, MarkTail, Adding
  <2>2. CASE OptimizeInternal
    BY <1>0, <2>2 DEF OptimizeInternal, Adding, Works
  <2>3. CASE OptimizeNext
    BY <2>3 DEF OptimizeNext, Adding, NoWork
  <2> QED BY <2>1, <2>2, <2>3
<1> QED BY <1>0, <1>2, <1>3, BoundedKept

LEMMA BoundedGrow ==
  ASSUME TableTypes, Bounded, Grow PROVE Bounded'
<1>x. PICK x : x = Entry(writer.key)
  OBVIOUS
<1>0. /\ MemoryType /\ writer \in Works /\ writer.pc \in Adding /\ UNCHANGED inserts /\ inserts \in Nat
      /\ x \in Locations /\ writer.key \in Keys
  BY <1>x, QedTableAssumption, KeyFacts DEF TableTypes, Grow, Adding, WorkKnows, CallPcs
<1>1. CASE bucket' = bucket
  <2>1. SizesKept
    BY <1>1 DEF SizesKept
  <2> QED BY <1>0, <2>1, BoundedKept
<1>2. CASE bucket' # bucket
  <2>n. PICK n : n = bucket[x].size
    OBVIOUS
  <2>b. PICK b : b = [bucket[x] EXCEPT !.size = (n + 1) % (MaxSize + 1), !.internal = @ \/ n = MaxSize]
    OBVIOUS
  <2>1. bucket' = [bucket EXCEPT ![x] = b] /\ writer' = NoWork
    BY <1>2, <1>x, <2>n, <2>b DEF Grow
  <2>2. b.size = (n + 1) % (MaxSize + 1)
    BY <1>0, <2>b, BucketType DEF Buckets
  <2>3. n \in Nat /\ n < inserts
    BY <1>0, <2>n, SizeNat DEF Bounded, Fewer
  <2>4. (n + 1) % (MaxSize + 1) <= inserts
    BY <1>0, <2>3 DEF MaxSize
  <2>5. \A l \in Locations : bucket'[l] = IF l = x THEN b ELSE bucket[l]
    BY <1>0, <2>1 DEF MemoryType
  <2>6. Few(inserts)'
    BY <1>0, <2>2, <2>4, <2>5 DEF Bounded, Few
  <2> QED BY <2>1, <2>6 DEF Bounded, Adding, NoWork
<1> QED BY <1>1, <1>2

LEMMA BoundedOptimizeFreeBucket ==
  ASSUME TableTypes, Bounded, NEW f \in Ids, OptimizeFreeBucket(f) PROVE Bounded'
<1>x. PICK x : x = <<TRUE, FirstUnused(root_id[<<FALSE, f>>])>>
  OBVIOUS
<1>b. PICK b : b = bucket[<<FALSE, f>>]
  OBVIOUS
<1>0. MemoryType /\ UNCHANGED inserts
  BY DEF TableTypes, OptimizeFreeBucket
<1>1. bucket' = [bucket EXCEPT ![x] = b] /\ writer'.pc = "find_parent"
  BY <1>x, <1>b DEF OptimizeFreeBucket, FirstUnused, NoWork
<1>2. \A l \in Locations : bucket'[l] = IF l = x THEN b ELSE bucket[l]
  BY <1>0, <1>1 DEF MemoryType
<1>3. b.size <= inserts
  BY <1>b, IdFacts DEF Bounded, Few
<1>4. Few(inserts)'
  BY <1>0, <1>2, <1>3 DEF Bounded, Few
<1> QED BY <1>1, <1>4 DEF Bounded, Adding

LEMMA BoundedNext ==
  ASSUME TableTypes, Bounded, Straight, [TableNext]_tableVars, ~displaced' PROVE Bounded'
<1>0. writer \in Works
  BY DEF TableTypes
<1>s. writer.pc \notin {"evict", "bypass_internal", "bypass_next", "move", "recheck"}
  BY DEF Straight, MovePcs
<1>1. ASSUME bucket' = bucket, UNCHANGED inserts, writer' = writer \/ writer' = NoWork PROVE Bounded'
  <2>1. SizesKept
    BY <1>1 DEF SizesKept
  <2>2. writer'.pc \in Adding => writer.pc \in Adding
    <3>1. CASE writer' = writer
      BY <3>1
    <3>2. CASE writer' = NoWork
      BY <3>2 DEF NoWork, Adding
    <3> QED BY <1>1, <3>1, <3>2
  <2> QED BY <1>1, <2>1, <2>2, BoundedKept
<1>2. CASE UNCHANGED tableVars
  BY <1>1, <1>2 DEF tableVars
<1>3. ASSUME NEW k \in Keys, Insert(k) \/ Find(k) PROVE Bounded'
  <2>1. CASE Find(k)
    BY <1>1, <2>1 DEF Find
  <2> QED BY <1>3, <2>1, BoundedInsert
<1>4. ASSUME NEW f \in Ids, OptimizeFreeBucket(f) PROVE Bounded'
  BY <1>4, BoundedOptimizeFreeBucket
<1>5. CASE Claim
  <2>1. root_id[Entry(writer.key)] = None
    BY <1>5 DEF Claim
  <2> QED BY <1>5, <2>1, BoundedClaim
<1>6. CASE Finish
  BY <1>1, <1>6 DEF Finish
<1>7. CASE Overwrite \/ FindParent
  <2>1. bucket' = bucket /\ UNCHANGED inserts
    BY <1>7 DEF Overwrite, FindParent
  <2>2. writer'.pc \notin Adding
    <3>1. CASE Overwrite
      <4>1. \/ writer' = NoWork
            \/ \E l, t : writer' = [writer EXCEPT !.pc = "overwrite", !.loc = l, !.todo = t]
            \/ writer' = [writer EXCEPT !.pc = "stuck"]
        BY <3>1 DEF Overwrite
      <4>2. CASE writer' = NoWork
        BY <4>2 DEF NoWork, Adding
      <4>3. CASE writer' = [writer EXCEPT !.pc = "stuck"]
        BY <1>0, <4>3 DEF Works, Adding
      <4>4. CASE \E l, t : writer' = [writer EXCEPT !.pc = "overwrite", !.loc = l, !.todo = t]
        <5>1. writer'.pc = "overwrite"
          BY <1>0, <4>4 DEF Works
        <5> QED BY <5>1 DEF Adding
      <4> QED BY <4>1, <4>2, <4>3, <4>4
    <3>2. CASE FindParent
      <4>1. \/ writer' = NoWork
            \/ \E l : writer' = [writer EXCEPT !.pc = "optimize_internal", !.last = l]
            \/ writer' = [writer EXCEPT !.pc = "stuck"]
        BY <3>2, FindParentParts
      <4>2. CASE writer' = NoWork
        BY <4>2 DEF NoWork, Adding
      <4>3. CASE writer' = [writer EXCEPT !.pc = "stuck"]
        BY <1>0, <4>3 DEF Works, Adding
      <4>4. CASE \E l : writer' = [writer EXCEPT !.pc = "optimize_internal", !.last = l]
        <5>1. writer'.pc = "optimize_internal"
          BY <1>0, <4>4 DEF Works
        <5> QED BY <5>1 DEF Adding
      <4> QED BY <4>1, <4>2, <4>3, <4>4
    <3> QED BY <1>7, <3>1, <3>2
  <2>3. SizesKept
    BY <2>1 DEF SizesKept
  <2> QED BY <2>1, <2>2, <2>3, BoundedKept
<1>8. CASE AppendNode \/ Link \/ MarkTail \/ Grow
  BY <1>8, BoundedAppendNode, BoundedLink, BoundedGrow
<1>9. CASE Evict \/ BypassInternal \/ BypassNext \/ Move \/ Recheck
  BY <1>9, <1>s DEF Evict, BypassInternal, BypassNext, Move, Recheck
<1>10. CASE OptimizeInternal \/ OptimizeNext
  BY <1>10, BoundedLink
<1>11. ASSUME NEW f \in {"lo", "hi", "key", "internal", "next"}, Store(f) PROVE Bounded'
  <2>1. writer.pc \notin Adding
    BY <1>11 DEF Store, Straight, Adding
  <2> QED BY <1>11, <2>1, BoundedStore DEF Fields
<1>12. CASE ReaderStep
  BY <1>1, <1>12 DEF ReaderStep
<1> QED BY <1>2, <1>3, <1>4, <1>5, <1>6, <1>7, <1>8, <1>9, <1>10, <1>11, <1>12 DEF TableNext, WriterStep

Short == ~displaced => Bounded

LEMMA ShortRoom ==
  ASSUME MaxInserts < MaxSize, TableTypes, Short, ~displaced PROVE RoomLeft
<1>1. SUFFICES ASSUME NEW id \in Ids PROVE bucket[<<TRUE, id>>].size # MaxSize
  BY DEF RoomLeft
<1>2. bucket[<<TRUE, id>>].size <= inserts /\ bucket[<<TRUE, id>>].size \in Nat
  BY IdFacts, SizeNat DEF Short, Bounded, Few, TableTypes
<1>3. inserts \in Nat /\ inserts <= MaxInserts /\ MaxInserts \in Nat /\ MaxSize \in Nat
  BY QedTableAssumption DEF TableTypes, MaxSize
<1> QED BY <1>2, <1>3

LEMMA ShortInit == TableInit => Short
<1> SUFFICES ASSUME TableInit PROVE Bounded
  BY DEF Short
<1>1. \A l \in Locations : bucket[l].size = 0
  BY DEF TableInit
<1>2. inserts = 0 /\ writer.pc = "idle" /\ 0 <= 0
  BY DEF TableInit, NoWork
<1> QED BY <1>1, <1>2 DEF Bounded, Few, Adding

LEMMA ShortNext ==
  ASSUME MaxInserts < MaxSize, TableTypes, Chained, Short, [TableNext]_tableVars PROVE Chained' /\ Short'
<1>1. CASE displaced'
  BY <1>1 DEF Chained, Short
<1>2. CASE ~displaced'
  <2>1. ~displaced
    BY <1>2, DisplacedStays
  <2>2. RoomLeft
    BY <2>1, ShortRoom
  <2>3. Straight
    BY <2>1 DEF Chained, ChainsHold
  <2>4. Bounded'
    BY <1>2, <2>1, <2>2, <2>3, BoundedNext DEF Short
  <2> QED BY <2>2, <2>4, ChainedNext DEF Short
<1> QED BY <1>1, <1>2

\* A table that gets fewer than MaxSize insertions: no chain can be too long.
THEOREM SmallTableCorrect ==
  ASSUME MaxInserts < MaxSize PROVE TableSpec => []TableOK
<1>1. TableTypes /\ [TableNext]_tableVars => TableTypes'
  BY TypesNext
<1>2. TableTypes /\ Chained /\ Short /\ [TableNext]_tableVars => Chained' /\ Short'
  BY ShortNext
<1>3. TableTypes /\ Chained => TableOK
  BY ChainedGives
<1> QED BY <1>1, <1>2, <1>3, TypesInit, ChainedInit, ShortInit, PTL DEF TableSpec

-----------------------------------------------------------------------------
(* Find<true> beside the writer, as long as no bucket was displaced.       *)

\* A free bucket that OptimizeFreeBucket has moved away from.  Nobody writes it
\* again, and a reader may still be on its way through it.
Old(l) == ~l[1] /\ root_id[l] = None /\ l[2] < free_id_count
OldKept == \A l \in Locations : Old(l) => Old(l)' /\ bucket'[l] = bucket[l]

\* A managed bucket that is not in use is as Reserve made it.
Fresh ==
  \A id \in Ids : root_id[<<TRUE, id>>] = None /\ ~Creating(id) =>
    bucket[<<TRUE, id>>].hi = 0 /\ bucket[<<TRUE, id>>].payload = Blank

\* The halves of a payload that are still to be written are those of p.
Was(p) ==
  /\ "lo" \in writer.todo => bucket[writer.loc].payload[1] = p[1]
  /\ "hi" \in writer.todo => bucket[writer.loc].payload[2] = p[2]
Unwritten ==
  /\ writer.pc = "create" => Was(Blank) /\ ("key" \in writer.todo => bucket[writer.loc].hi = 0)
  /\ writer.pc = "overwrite" => content[writer.key] \in Payloads /\ Was(content[writer.key])

\* What the history says of a Find is enough.
Expected ==
  Finding => /\ content[reader.key] \in reader.expect
             /\ writer.pc \in {"create", "overwrite"} /\ writer.key = reader.key
                  => reader.shared /\ writer.payload \in reader.expect

\* What Find may return.
Good(p) ==
  \/ p \in reader.expect
  \/ /\ reader.shared
     /\ \E a, b \in (reader.expect \ {NFOUND}) \cup {Blank} : p = <<a[1], b[2]>>

\* A reader that looks for k finds l in place of the j-th bucket: it is that bucket,
\* or an old one from which it was copied.
On(c, k, l, j) ==
  \/ l = c[k[2]][j]
  \/ /\ j # 0 /\ Old(l) /\ bucket[l].hi = bucket[c[k[2]][j]].hi
     /\ bucket[l].hi = Hi(k) => bucket[l].payload \in reader.expect

\* A reader that looks for k at place i of s and will visit the buckets v.
Path(c, v, k, i, s) ==
  /\ v \in [Nat -> Locations] /\ v[i] = reader.loc
  /\ i < s /\ s <= bucket[<<TRUE, k[2]>>].size
  /\ \A j \in Nat : i <= j /\ j < s => On(c, k, v[j], j)
  /\ \A j \in Nat : i <= j /\ j + 1 < s => Published(v[j]) = v[j + 1]

\* If the key was there when Find began it is still ahead.
Ahead(c, k, i, s) ==
  NFOUND \in reader.expect
    \/ \E m \in Nat : /\ i <= m /\ m < s /\ bucket[c[k[2]][m]].hi = Hi(k)
                      /\ reader.pc = "advance" => m # i

\* The link was read before OptimizeNext changed it, the flag will be read after.
Torn == ~reader.link[1] /\ Published(reader.loc)[1]

Seen(k, i, s) ==
  /\ reader.pc = "advance" => i + 1 < s /\ (reader.link = Published(reader.loc) \/ Torn)
  /\ reader.pc \in {"payload", "check", "recheck"} => bucket[reader.loc].hi = Hi(k)
  /\ Creating(k[2]) => NFOUND \in reader.expect /\ (writer.key # k => Hi(k) # 0)

Sees(c, v, k, i, s) == Path(c, v, k, i, s) /\ Ahead(c, k, i, s) /\ Seen(k, i, s)

Under == reader.pc \notin {"idle", "begin"} /\ reader.calm
Reads(c) ==
  /\ reader.pc \in {"check", "recheck"} /\ reader.calm => Good(reader.payload)
  /\ Under => \E v : Sees(c, v, reader.key, reader.i, reader.size)

-----------------------------------------------------------------------------
\* What is written is either a bucket with a root, which is neither old nor fresh.
LEMMA RootedWritten ==
  ASSUME MemoryType, Fresh, NEW x \in Locations, NEW b, bucket' = [bucket EXCEPT ![x] = b], root_id[x] # None,
         UNCHANGED <<root_id, free_id_count>>, \A id : Creating(id) => Creating(id)'
  PROVE  OldKept /\ Fresh'
<1>1. \A l \in Locations : root_id[l] = None => bucket'[l] = bucket[l]
  BY DEF MemoryType
<1>2. OldKept
  BY <1>1 DEF OldKept, Old
<1>3. Fresh'
  BY <1>1, IdFacts DEF Fresh
<1> QED BY <1>2, <1>3

LEMMA NothingWritten ==
  ASSUME Fresh, UNCHANGED <<bucket, root_id, free_id_count>>, \A id : Creating(id) => Creating(id)'
  PROVE  OldKept /\ Fresh'
BY DEF OldKept, Old, Fresh

\* The link of an old bucket is not being changed.
LEMMA OldPublished ==
  ASSUME TableTypes, NEW c, ChainsHold(c), NEW l, root_id[l] = None PROVE Published(l) = NextBucket(l)
<1>1. SUFFICES ASSUME writer.pc = "optimize_next" PROVE writer.last # l
  BY DEF Published
<1>r. PICK r : r = root_id[<<FALSE, writer.slot>>]
  OBVIOUS
<1>2. r \in Ids /\ r # None
  BY <1>1, <1>r, IdFacts DEF TableTypes, WorkKnows, MovePcs
<1>i. PICK i \in Nat : Place(r, i + 1) /\ writer.last = c[r][i]
  BY <1>1, <1>r DEF ChainsHold, Moves, MovePcs
<1>3. Place(r, i)
  BY <1>2, <1>i, PlaceBefore DEF TableTypes
<1>4. root_id[c[r][i]] = r
  BY <1>2, <1>3 DEF ChainsHold, Knows
<1> QED BY <1>2, <1>i, <1>4

LEMMA PlaceBeforeNext ==
  ASSUME MemoryType', NEW id \in Ids, NEW i \in Nat, NEW j \in Nat, Place(id, j)', i <= j
  PROVE  Place(id, i)'
<1>1. bucket'[<<TRUE, id>>].size \in Nat
  BY IdFacts, SizesType DEF MemoryType, Buckets
<1>2. j < bucket'[<<TRUE, id>>].size /\ ~Creating(id)'
  BY DEF Place
<1>3. \A a, b, n \in Nat : a <= b /\ b < n => a < n
  OBVIOUS
<1>4. i < bucket'[<<TRUE, id>>].size
  BY <1>1, <1>2, <1>3
<1> QED BY <1>2, <1>4 DEF Place

LEMMA OldPublishedNext ==
  ASSUME TableTypes', NEW d, ChainsHold(d)', NEW l, root_id'[l] = None PROVE Published(l)' = NextBucket(l)'
<1>1. SUFFICES ASSUME writer'.pc = "optimize_next" PROVE writer'.last # l
  BY DEF Published
<1>r. PICK r : r = root_id'[<<FALSE, writer'.slot>>]
  OBVIOUS
<1>2. r \in Ids /\ r # None
  BY <1>1, <1>r, IdFacts DEF TableTypes, WorkKnows, MovePcs
<1>i. PICK i \in Nat : Place(r, i + 1)' /\ writer'.last = d[r][i]
  BY <1>1, <1>r DEF ChainsHold, Moves, MovePcs
<1>3. Place(r, i)'
  BY <1>2, <1>i, PlaceBeforeNext DEF TableTypes
<1>4. root_id'[d[r][i]] = r
  BY <1>2, <1>3 DEF ChainsHold, Knows
<1> QED BY <1>2, <1>i, <1>4

LEMMA OldLinks ==
  ASSUME TableTypes, TableTypes', NEW c, ChainsHold(c), NEW d, ChainsHold(d)', OldKept, NEW l \in Locations, Old(l)
  PROVE  Published(l)' = Published(l)
<1>1. bucket'[l] = bucket[l] /\ root_id[l] = None /\ root_id'[l] = None
  BY DEF OldKept, Old
<1>2. Published(l) = NextBucket(l) /\ Published(l)' = NextBucket(l)'
  BY <1>1, OldPublished, OldPublishedNext
<1> QED BY <1>1, <1>2 DEF NextBucket

-----------------------------------------------------------------------------
(* Memory that no chain reaches, and what is still to be written.          *)

Beside == OldKept /\ Fresh' /\ Unwritten'

LEMMA OldIsFree ==
  ASSUME NEW l, Old(l), NEW id PROVE l # <<TRUE, id>>
<1>1. <<TRUE, id>>[1] = TRUE
  OBVIOUS
<1>2. ~l[1]
  BY DEF Old
<1> QED BY <1>1, <1>2

\* The writer is not about to write a payload where a reader might look.
LEMMA QuietPcs ==
  ASSUME TableTypes,
         \/ \E k \in Keys : Insert(k)
         \/ \E f \in Ids : OptimizeFreeBucket(f)
         \/ AppendNode \/ Link \/ MarkTail \/ FindParent \/ OptimizeInternal \/ OptimizeNext
  PROVE  writer'.pc \notin {"create", "overwrite"} /\ UNCHANGED <<reader, content>>
<1>0. writer \in Works
  BY DEF TableTypes
<1>1. NoWork.pc = "idle"
  BY DEF NoWork
<1>2. CASE \/ \E k \in Keys : Insert(k)
           \/ \E f \in Ids : OptimizeFreeBucket(f)
  <2>1. writer'.pc \in {"enter", "find_parent"}
    BY <1>2 DEF Insert, OptimizeFreeBucket, NoWork
  <2> QED BY <1>2, <2>1 DEF Insert, OptimizeFreeBucket
<1>3. CASE AppendNode
  <2> DEFINE f == SizeField(Entry(writer.key))
             l == Walk(writer.key[2])[bucket[Entry(writer.key)].size - 1]
  <2>1. writer' = NoWork \/ writer' = [writer EXCEPT !.pc = "link", !.slot = Slot, !.size_field = f, !.last = l]
    BY <1>3 DEF AppendNode, Fail
  <2> HIDE DEF f, l
  <2>2. writer'.pc \in {"idle", "link"}
    BY <1>0, <1>1, <2>1 DEF Works
  <2> QED BY <1>3, <2>2 DEF AppendNode
<1>4. CASE Link \/ MarkTail \/ OptimizeInternal
  <2>1. writer'.pc \in {"enter", "tail", "grow", "optimize_next"}
    BY <1>0, <1>4 DEF Link, MarkTail, OptimizeInternal, Works
  <2> QED BY <1>4, <2>1 DEF Link, MarkTail, OptimizeInternal
<1>5. CASE FindParent
  <2>1. \/ writer' = NoWork \/ writer' = [writer EXCEPT !.pc = "stuck"]
        \/ \E l : writer' = [writer EXCEPT !.pc = "optimize_internal", !.last = l]
    BY <1>5 DEF FindParent
  <2>2. writer'.pc \in {"idle", "stuck", "optimize_internal"}
    BY <1>0, <1>1, <2>1 DEF Works
  <2> QED BY <1>5, <2>2 DEF FindParent
<1>6. CASE OptimizeNext
  BY <1>1, <1>6 DEF OptimizeNext
<1> QED BY <1>2, <1>3, <1>4, <1>5, <1>6

LEMMA NotWriting ==
  ASSUME writer'.pc \notin {"create", "overwrite"} PROVE Unwritten'
BY DEF Unwritten

LEMMA BesideQuiet ==
  ASSUME Fresh, UNCHANGED <<bucket, root_id, free_id_count>>, writer.pc # "create",
         writer'.pc \notin {"create", "overwrite"}
  PROVE  Beside
BY NothingWritten, NotWriting DEF Beside, Creating

LEMMA BesideStill ==
  ASSUME Fresh, Unwritten, UNCHANGED <<bucket, root_id, free_id_count, writer, content>> PROVE Beside
<1>1. OldKept /\ Fresh'
  BY NothingWritten DEF Creating
<1>2. Unwritten'
  BY DEF Unwritten, Was
<1> QED BY <1>1, <1>2 DEF Beside

LEMMA BesideOverwrite ==
  ASSUME TableTypes, NEW c, ChainsHold(c), Fresh, Overwrite PROVE Beside
<1>k. PICK k : k = writer.key
  OBVIOUS
<1>0. /\ MemoryType /\ writer \in Works /\ k \in Keys /\ k[2] \in Ids /\ writer.pc = "enter"
      /\ UNCHANGED <<bucket, root_id, free_id_count, content>>
  BY <1>k, KeyFacts DEF Overwrite, TableTypes, WorkKnows, CallPcs
<1>1. OldKept /\ Fresh'
  BY <1>0, NothingWritten DEF Creating
<1>2. writer'.pc # "create" /\ (writer'.pc = "overwrite" => writer'.key = k)
  BY <1>0, <1>k DEF Overwrite, Works, NoWork
<1>3. ASSUME writer'.pc = "overwrite" PROVE content[k] \in Payloads /\ Was(content[k])'
  <2>1. ChainsHold(c)' /\ Lasting
    BY ChainsOverwrite DEF Untouched
  <2>2. PICK i \in Nat : Place(k[2], i)' /\ writer'.loc = c[k[2]][i] /\ bucket'[c[k[2]][i]].hi = Hi(k)
    BY <1>2, <1>3, <2>1 DEF ChainsHold, Overwrites
  <2>3. Place(k[2], i)
    BY <1>0, <2>1, <2>2 DEF Lasting
  <2>4. content[k] = bucket[c[k[2]][i]].payload
    BY <1>0, <2>2, <2>3 DEF ChainsHold, Holds, Overwriting
  <2>5. c[k[2]][i] \in Locations
    BY <1>0, ChainType DEF ChainsHold
  <2>6. content[k] \in Payloads
    BY <1>0, <2>4, <2>5, BucketType DEF Buckets
  <2>7. Was(content[k])'
    BY <1>0, <2>2, <2>4 DEF Was
  <2> QED BY <2>6, <2>7
<1>4. Unwritten'
  <2>1. CASE writer'.pc = "overwrite"
    BY <1>0, <1>2, <1>3, <2>1 DEF Unwritten, Was
  <2>2. CASE writer'.pc # "overwrite"
    BY <1>2, <2>2, NotWriting
  <2> QED BY <2>1, <2>2
<1> QED BY <1>1, <1>4 DEF Beside

LEMMA BesideClaim ==
  ASSUME TableTypes, Fresh, Claim, root_id[Entry(writer.key)] = None PROVE Beside
<1>k. PICK k : k = writer.key
  OBVIOUS
<1> DEFINE id == k[2]
           x == <<TRUE, id>>
<1>0. /\ MemoryType /\ writer \in Works /\ k \in Keys /\ id \in Ids /\ writer.pc = "enter"
      /\ x \in Locations /\ x = Entry(k) /\ bucket[x].size = 0 /\ root_id[x] = None
      /\ UNCHANGED <<root_id, free_id_count, content>>
  BY <1>k, KeyFacts, IdFacts DEF Claim, TableTypes, WorkKnows, CallPcs, Entry
<1>b. PICK b : b = [bucket[x] EXCEPT !.internal = FALSE, !.size = 1]
  OBVIOUS
<1>1. bucket' = [bucket EXCEPT ![x] = b]
  BY <1>k, <1>b DEF Claim, Entry
<1>2. b.hi = bucket[x].hi /\ b.payload = bucket[x].payload
  BY <1>0, <1>b, BucketType DEF Buckets
<1>3. writer' = [writer EXCEPT !.pc = "create", !.size_field = SizeField(x), !.loc = x, !.todo = {"lo", "hi", "key"}]
  BY <1>k, <1>0 DEF Claim
<1>4. writer'.pc = "create" /\ writer'.key = k /\ writer'.loc = x
  <2> HIDE DEF x
  <2> QED BY <1>0, <1>k, <1>3 DEF Works
<1>5. \A l \in Locations : bucket'[l] = IF l = x THEN b ELSE bucket[l]
  BY <1>0, <1>1 DEF MemoryType
<1>6. \A n : ~Creating(n)
  BY <1>0 DEF Creating
<1>7. bucket'[x].hi = 0 /\ bucket'[x].payload = Blank
  BY <1>0, <1>2, <1>5, <1>6 DEF Fresh
<1>8. Fresh'
  <2>1. SUFFICES ASSUME NEW n \in Ids, root_id'[<<TRUE, n>>] = None, ~Creating(n)'
                 PROVE  bucket'[<<TRUE, n>>].hi = 0 /\ bucket'[<<TRUE, n>>].payload = Blank
    BY DEF Fresh
  <2>2. n # id
    BY <1>4, <2>1 DEF Creating
  <2>3. <<TRUE, n>> # x /\ <<TRUE, n>> \in Locations
    BY <2>2, IdFacts
  <2>4. bucket'[<<TRUE, n>>] = bucket[<<TRUE, n>>]
    BY <1>5, <2>3
  <2> QED BY <1>0, <1>6, <2>1, <2>4 DEF Fresh
<1>9. OldKept
  <2>1. ASSUME NEW l \in Locations, Old(l) PROVE l # x
    BY <2>1, OldIsFree
  <2> QED BY <1>0, <1>5, <2>1 DEF OldKept, Old
<1>10. Unwritten'
  <2> HIDE DEF x
  <2> QED BY <1>4, <1>7 DEF Unwritten, Was
<1> QED BY <1>8, <1>9, <1>10 DEF Beside

LEMMA WasKept ==
  ASSUME TableTypes, NEW f \in {"lo", "hi", "key"}, Store(f), writer.loc \in Locations, NEW p, Was(p)
  PROVE  Was(p)' /\ ("key" \in writer'.todo => bucket'[writer.loc].hi = bucket[writer.loc].hi)
<1>1. MemoryType /\ writer \in Works
  BY DEF TableTypes
<1>l. PICK l : l = writer.loc
  OBVIOUS
<1>2. bucket[l] \in Buckets
  BY <1>1, <1>l, BucketType
<1>3. /\ writer'.loc = l /\ writer'.todo = writer.todo \ {f}
  BY <1>1, <1>l DEF Store, Works
<1>4. bucket'[l] = Stored(bucket[l], f)
  BY <1>1, <1>l DEF Store, MemoryType
<1> DEFINE s == Stored(bucket[l], f)
<1>5. /\ f # "key" => s.hi = bucket[l].hi
      /\ f = "key" => s.payload = bucket[l].payload
      /\ f = "lo" => s.payload[2] = bucket[l].payload[2]
      /\ f = "hi" => s.payload[1] = bucket[l].payload[1]
  BY <1>1, <1>2, StoredFields
<1> HIDE DEF s
<1>6. bucket'[l] = s
  BY <1>4 DEF s
<1>7. "lo" \in writer'.todo => s.payload[1] = p[1]
  BY <1>l, <1>3, <1>5 DEF Was
<1>8. "hi" \in writer'.todo => s.payload[2] = p[2]
  BY <1>l, <1>3, <1>5 DEF Was
<1>9. "key" \in writer'.todo => s.hi = bucket[l].hi
  BY <1>3, <1>5
<1> QED BY <1>l, <1>3, <1>6, <1>7, <1>8, <1>9 DEF Was

LEMMA BesideStore ==
  ASSUME TableTypes, NEW c, ChainsHold(c), Fresh, Unwritten, NEW f \in Fields, Store(f) PROVE Beside
<1>x. PICK x : x = writer.loc
  OBVIOUS
<1>0. /\ MemoryType /\ writer \in Works /\ writer.key \in Keys /\ x \in Locations /\ f \in writer.todo
      /\ UNCHANGED <<root_id, free_id_count, content>> /\ writer.pc \in {"create", "overwrite"}
  BY <1>x DEF Store, TableTypes, WorkKnows, CallPcs, ChainsHold, Straight
<1>1. f \in {"lo", "hi", "key"} /\ (writer.pc = "overwrite" => f # "key")
  BY <1>0 DEF ChainsHold, Creates, Overwrites
<1>b. PICK b : b = Stored(bucket[x], f)
  OBVIOUS
<1>2. bucket' = [bucket EXCEPT ![x] = b]
  BY <1>x, <1>b DEF Store
<1>3. /\ writer'.pc = writer.pc /\ writer'.loc = x /\ writer'.key = writer.key /\ writer'.todo = writer.todo \ {f}
  BY <1>0, <1>x DEF Store, Works
<1>4. \A n : Creating(n)' <=> Creating(n)
  BY <1>3 DEF Creating
<1>5. CASE writer.pc = "overwrite"
  <2>p. PICK p : p = content[writer.key]
    OBVIOUS
  <2>k. writer.key[2] \in Ids
    BY <1>0, KeyFacts
  <2>1. root_id[x] # None
    <3>1. PICK i \in Nat : Place(writer.key[2], i) /\ x = c[writer.key[2]][i]
      BY <1>5, <1>x DEF ChainsHold, Overwrites
    <3>2. root_id[x] = writer.key[2]
      BY <2>k, <3>1 DEF ChainsHold, Knows
    <3> QED BY <2>k, <3>2, IdFacts
  <2>2. OldKept /\ Fresh'
    BY <1>0, <1>2, <1>4, <2>1, RootedWritten
  <2>3. p \in Payloads /\ Was(p)
    BY <1>5, <2>p DEF Unwritten
  <2>4. Was(p)'
    BY <1>0, <1>1, <1>x, <2>3, WasKept
  <2>5. content'[writer'.key] = p
    BY <1>0, <1>3, <2>p
  <2>6. Unwritten'
    BY <1>3, <1>5, <2>3, <2>4, <2>5 DEF Unwritten, Was
  <2> QED BY <2>2, <2>6 DEF Beside
<1>6. CASE writer.pc = "create"
  <2>1. x = Entry(writer.key)
    BY <1>6, <1>x DEF ChainsHold, Creates
  <2>2. \A l \in Locations : bucket'[l] = IF l = x THEN b ELSE bucket[l]
    BY <1>0, <1>2 DEF MemoryType
  <2>3. OldKept
    <3>1. ASSUME NEW l \in Locations, Old(l) PROVE l # x
      BY <2>1, <3>1, OldIsFree DEF Entry
    <3> QED BY <1>0, <2>2, <3>1 DEF OldKept, Old
  <2>4. Fresh'
    <3>1. SUFFICES ASSUME NEW n \in Ids, root_id'[<<TRUE, n>>] = None, ~Creating(n)'
                   PROVE  bucket'[<<TRUE, n>>].hi = 0 /\ bucket'[<<TRUE, n>>].payload = Blank
      BY DEF Fresh
    <3>2. n # writer.key[2] /\ ~Creating(n)
      BY <1>4, <1>6, <3>1 DEF Creating
    <3>3. <<TRUE, n>> # x /\ <<TRUE, n>> \in Locations
      BY <2>1, <3>2, IdFacts DEF Entry
    <3>4. bucket'[<<TRUE, n>>] = bucket[<<TRUE, n>>]
      BY <2>2, <3>3
    <3> QED BY <1>0, <3>1, <3>2, <3>4 DEF Fresh
  <2>5. Was(Blank)
    BY <1>6 DEF Unwritten
  <2>6. Was(Blank)' /\ ("key" \in writer'.todo => bucket'[x].hi = bucket[x].hi)
    BY <1>0, <1>1, <1>x, <2>5, WasKept
  <2>7. "key" \in writer'.todo => bucket[x].hi = 0
    BY <1>3, <1>6, <1>x DEF Unwritten
  <2>8. Unwritten'
    BY <1>3, <1>6, <2>6, <2>7 DEF Unwritten
  <2> QED BY <2>3, <2>4, <2>8 DEF Beside
<1> QED BY <1>0, <1>5, <1>6

LEMMA BesideFinish ==
  ASSUME TableTypes, NEW c, ChainsHold(c), Fresh, Finish PROVE Beside
<1>0. /\ MemoryType /\ writer.key \in Keys /\ writer' = NoWork /\ UNCHANGED <<bucket, free_id_count>>
      /\ writer.pc \in {"create", "overwrite"}
  BY DEF Finish, TableTypes, WorkKnows, CallPcs
<1>1. writer'.pc = "idle"
  BY <1>0 DEF NoWork
<1>2. Unwritten'
  BY <1>1, NotWriting
<1>3. CASE writer.pc = "overwrite"
  BY <1>0, <1>2, <1>3, NothingWritten DEF Beside, Finish, Creating
<1>4. CASE writer.pc = "create"
  <2>k. PICK id : id = writer.key[2]
    OBVIOUS
  <2>1. writer.loc = <<TRUE, id>> /\ id \in Ids /\ id # None /\ <<TRUE, id>> \in Locations /\ <<TRUE, id>>[2] = id
    BY <1>0, <1>4, <2>k, KeyFacts, IdFacts DEF ChainsHold, Creates, Entry
  <2>2. root_id' = [root_id EXCEPT ![<<TRUE, id>>] = id]
    BY <1>4, <2>1 DEF Finish
  <2>3. \A l \in Locations : root_id'[l] = IF l = <<TRUE, id>> THEN id ELSE root_id[l]
    BY <1>0, <2>1, <2>2 DEF MemoryType
  <2>4. OldKept
    BY <1>0, <2>3, OldIsFree DEF OldKept, Old
  <2>5. Fresh'
    <3>1. SUFFICES ASSUME NEW n \in Ids, root_id'[<<TRUE, n>>] = None
                   PROVE  bucket[<<TRUE, n>>].hi = 0 /\ bucket[<<TRUE, n>>].payload = Blank
      BY <1>0 DEF Fresh
    <3>2. <<TRUE, n>> \in Locations
      BY IdFacts
    <3>3. <<TRUE, n>> # <<TRUE, id>> /\ root_id[<<TRUE, n>>] = None
      BY <2>1, <2>3, <3>1, <3>2
    <3>4. ~Creating(n)
      BY <2>k, <3>3 DEF Creating
    <3> QED BY <3>3, <3>4 DEF Fresh
  <2> QED BY <1>2, <2>4, <2>5 DEF Beside
<1> QED BY <1>0, <1>3, <1>4

\* The bucket whose link is being changed has a root.
LEMMA LastRooted ==
  ASSUME TableTypes, NEW c, ChainsHold(c), writer.pc \in {"link", "tail", "optimize_internal", "optimize_next"}
  PROVE  writer.last \in Locations /\ root_id[writer.last] # None
<1>0. MemoryType /\ writer.last \in Locations
  BY DEF TableTypes, WorkKnows
<1>1. CASE writer.pc \in {"link", "tail"}
  <2>k. PICK id : id = writer.key[2]
    OBVIOUS
  <2>n. PICK n : n = bucket[<<TRUE, id>>].size
    OBVIOUS
  <2>1. id \in Ids
    BY <1>1, <2>k, KeyFacts DEF TableTypes, WorkKnows, CallPcs
  <2>2. n # 0 /\ writer.last = c[id][n - 1]
    BY <1>1, <2>k, <2>n DEF ChainsHold, Hangs, Hanging
  <2>3. ~Creating(id)
    BY <1>1 DEF Creating
  <2>4. n - 1 \in Nat /\ Place(id, n - 1)
    BY <1>0, <2>1, <2>2, <2>3, <2>n, LastPlace
  <2>5. root_id[c[id][n - 1]] = id
    BY <2>1, <2>4 DEF ChainsHold, Knows
  <2> QED BY <1>0, <2>1, <2>2, <2>5, IdFacts
<1>2. CASE writer.pc \in {"optimize_internal", "optimize_next"}
  <2>r. PICK r : r = root_id[<<FALSE, writer.slot>>]
    OBVIOUS
  <2>1. r \in Ids /\ r # None
    BY <1>2, <2>r, IdFacts DEF TableTypes, WorkKnows, MovePcs
  <2>i. PICK i \in Nat : Place(r, i + 1) /\ writer.last = c[r][i]
    BY <1>2, <2>r DEF ChainsHold, Moves, MovePcs
  <2>2. Place(r, i)
    BY <1>0, <2>1, <2>i, PlaceBefore
  <2>3. root_id[c[r][i]] = r
    BY <2>1, <2>2 DEF ChainsHold, Knows
  <2> QED BY <1>0, <2>1, <2>i, <2>3
<1> QED BY <1>1, <1>2

LEMMA BesideLinks ==
  ASSUME TableTypes, NEW c, ChainsHold(c), Fresh, Link \/ MarkTail \/ OptimizeInternal PROVE Beside
<1>0. MemoryType /\ writer \in Works
  BY DEF TableTypes
<1>1. /\ writer.pc \in {"link", "tail", "optimize_internal"} /\ writer'.pc \notin {"create", "overwrite"}
      /\ UNCHANGED <<root_id, free_id_count>>
  BY QuietPcs DEF Link, MarkTail, OptimizeInternal
<1>2. writer.last \in Locations /\ root_id[writer.last] # None
  BY <1>1, LastRooted
<1>3. \E b : bucket' = [bucket EXCEPT ![writer.last] = b]
  <2>1. CASE Link
    BY <2>1 DEF Link
  <2>2. CASE MarkTail
    BY <2>2 DEF MarkTail
  <2>3. CASE OptimizeInternal
    BY <2>3 DEF OptimizeInternal
  <2> QED BY <2>1, <2>2, <2>3
<1>4. \A id : ~Creating(id)
  BY <1>1 DEF Creating
<1>5. OldKept /\ Fresh'
  BY <1>0, <1>1, <1>2, <1>3, <1>4, RootedWritten
<1> QED BY <1>1, <1>5, NotWriting DEF Beside

LEMMA BesideGrow ==
  ASSUME TableTypes, NEW c, ChainsHold(c), Fresh, Grow PROVE Beside
<1>0. MemoryType /\ writer \in Works /\ writer.pc = "grow" /\ UNCHANGED <<root_id, free_id_count>>
  BY DEF TableTypes, Grow
<1>1. writer'.pc \in {"idle", "enter"}
  <2>1. writer' = NoWork \/ writer' = [writer EXCEPT !.pc = "enter"]
    BY DEF Grow
  <2>2. NoWork.pc = "idle"
    BY DEF NoWork
  <2>3. [writer EXCEPT !.pc = "enter"].pc = "enter"
    BY <1>0 DEF Works
  <2> QED BY <2>1, <2>2, <2>3
<1>2. \A n : ~Creating(n)
  BY <1>0 DEF Creating
<1>3. CASE SizeField(Entry(writer.key)) # writer.size_field
  BY <1>0, <1>1, <1>3, BesideQuiet DEF Grow
<1>4. CASE SizeField(Entry(writer.key)) = writer.size_field
  <2>k. PICK id : id = writer.key[2]
    OBVIOUS
  <2>e. PICK e : e = <<TRUE, id>>
    OBVIOUS
  <2>1. id \in Ids /\ id # None /\ e \in Locations /\ e = Entry(writer.key)
    BY <1>0, <2>k, <2>e, KeyFacts, IdFacts DEF TableTypes, WorkKnows, CallPcs, Entry
  <2>2. root_id[e] # None
    <3>1. bucket[<<TRUE, id>>].size # 0
      BY <1>0, <2>k DEF ChainsHold, Hangs, Hanging
    <3>2. Place(id, 0)
      <4>1. bucket[<<TRUE, id>>].size \in Nat
        BY <1>0, <2>1, SizeType
      <4>2. 0 < bucket[<<TRUE, id>>].size
        BY <3>1, <4>1
      <4> QED BY <1>2, <4>2 DEF Place
    <3>3. c[id][0] = e
      BY <2>1, <2>e DEF ChainsHold, Rooted
    <3>4. root_id[c[id][0]] = id
      BY <2>1, <3>2 DEF ChainsHold, Knows
    <3> QED BY <2>1, <3>3, <3>4
  <2>3. \E b : bucket' = [bucket EXCEPT ![e] = b]
    <3>1. bucket' = [bucket EXCEPT ![e].size = (bucket[e].size + 1) % (MaxSize + 1),
                                   ![e].internal = @ \/ bucket[e].size = MaxSize]
      BY <1>4, <2>1 DEF Grow
    <3> QED BY <3>1
  <2>4. OldKept /\ Fresh'
    BY <1>0, <1>2, <2>1, <2>2, <2>3, RootedWritten
  <2> QED BY <1>1, <2>4, NotWriting DEF Beside
<1> QED BY <1>3, <1>4

LEMMA BesideAppendNode ==
  ASSUME TableTypes, NEW c, ChainsHold(c), Fresh, AppendNode PROVE Beside
<1>0. MemoryType /\ writer \in Works /\ writer.pc = "enter" /\ writer.key \in Keys /\ writer.slot = None
  BY DEF TableTypes, AppendNode, WorkKnows, CallPcs, ChainsHold, Straight
<1>1. writer'.pc \notin {"create", "overwrite"}
  BY QuietPcs
<1>2. \A n : ~Creating(n)
  BY <1>0 DEF Creating
<1>3. CASE IsFull(writer.key) \/ NoFreeBucket
  BY <1>0, <1>1, <1>3, BesideQuiet DEF AppendNode
<1>4. CASE ~(IsFull(writer.key) \/ NoFreeBucket)
  <2>s. PICK s : s = free_id_count
    OBVIOUS
  <2>x. PICK x : x = <<FALSE, s>>
    OBVIOUS
  <2>b. PICK b : b = NewNode(writer.key)
    OBVIOUS
  <2>1. s = Slot /\ free_id_count' = s + 1
    BY <1>0, <1>4, <2>s DEF AppendNode, Slot, TakeFreeBucketId
  <2>2. s \in Ids /\ x \in Locations /\ s \in Nat
    BY <1>0, <1>4, <2>1, <2>x, SlotType, IdFacts
  <2>3. /\ bucket' = [bucket EXCEPT ![x] = b]
        /\ root_id' = [root_id EXCEPT ![x] = writer.key[2]]
    BY <1>4, <2>1, <2>x, <2>b DEF AppendNode
  <2>4. \A l \in Locations : l # x => bucket'[l] = bucket[l] /\ root_id'[l] = root_id[l]
    BY <1>0, <2>2, <2>3 DEF MemoryType
  <2>5. OldKept
    <3>1. SUFFICES ASSUME NEW l \in Locations, Old(l) PROVE Old(l)' /\ bucket'[l] = bucket[l]
      BY DEF OldKept
    <3>2. l[2] < s /\ l[2] \in Nat
      BY <2>s, <3>1, LocationFacts, IdFacts DEF Old
    <3>3. l[2] # s /\ l[2] < s + 1
      BY <2>2, <3>2
    <3>4. x[2] = s
      BY <2>x
    <3>5. l # x
      BY <3>3, <3>4
    <3> QED BY <2>1, <2>4, <3>1, <3>3, <3>5 DEF Old
  <2>6. Fresh'
    <3>1. \A n \in Ids : <<TRUE, n>> \in Locations /\ <<TRUE, n>> # x
      BY <2>x, IdFacts
    <3> QED BY <1>2, <2>4, <3>1 DEF Fresh
  <2> QED BY <1>1, <2>5, <2>6, NotWriting DEF Beside
<1> QED BY <1>3, <1>4

LEMMA BesideOptimizeFreeBucket ==
  ASSUME TableTypes, NEW c, ChainsHold(c), Fresh, NEW g \in Ids, OptimizeFreeBucket(g) PROVE Beside
<1>r. PICK r : r = root_id[<<FALSE, g>>]
  OBVIOUS
<1>u. PICK u : u = FirstUnused(r)
  OBVIOUS
<1>x. PICK x : x = <<TRUE, u>>
  OBVIOUS
<1>b. PICK b : b = bucket[<<FALSE, g>>]
  OBVIOUS
<1>0. MemoryType /\ writer.pc = "idle" /\ r # None /\ Unused(r) # {} /\ UNCHANGED free_id_count
  BY <1>r DEF OptimizeFreeBucket, TableTypes
<1>1. r \in Ids
  BY <1>0, <1>r, IdFacts DEF MemoryType
<1>2. u \in Ids /\ x \in Locations
  BY <1>0, <1>u, <1>x, FirstUnusedType, IdFacts
<1>3. /\ bucket' = [bucket EXCEPT ![x] = b] /\ root_id' = [root_id EXCEPT ![x] = r]
      /\ writer' = [NoWork EXCEPT !.pc = "find_parent", !.slot = g, !.loc = x]
  BY <1>r, <1>u, <1>x, <1>b DEF OptimizeFreeBucket, FirstUnused
<1>4. writer'.pc = "find_parent"
  BY <1>3 DEF NoWork
<1>5. \A l \in Locations : l # x => bucket'[l] = bucket[l] /\ root_id'[l] = root_id[l]
  BY <1>0, <1>2, <1>3 DEF MemoryType
<1>6. root_id'[x] = r
  BY <1>0, <1>2, <1>3 DEF MemoryType
<1>7. OldKept
  <2>1. ASSUME NEW l \in Locations, Old(l) PROVE l # x
    BY <1>x, <2>1, OldIsFree
  <2> QED BY <1>0, <1>5, <2>1 DEF OldKept, Old
<1>8. Fresh'
  <2>1. SUFFICES ASSUME NEW n \in Ids, root_id'[<<TRUE, n>>] = None
                 PROVE  bucket'[<<TRUE, n>>].hi = 0 /\ bucket'[<<TRUE, n>>].payload = Blank
    BY DEF Fresh
  <2>2. <<TRUE, n>> \in Locations /\ <<TRUE, n>> # x
    BY <1>0, <1>6, <2>1, IdFacts
  <2>3. bucket'[<<TRUE, n>>] = bucket[<<TRUE, n>>] /\ root_id[<<TRUE, n>>] = None
    BY <1>5, <2>1, <2>2
  <2>4. ~Creating(n)
    BY <1>0 DEF Creating
  <2> QED BY <2>3, <2>4 DEF Fresh
<1> QED BY <1>4, <1>7, <1>8, NotWriting DEF Beside

LEMMA BesideOptimizeNext ==
  ASSUME TableTypes, NEW c, ChainsHold(c), Fresh, OptimizeNext PROVE Beside
<1>f. PICK f : f = <<FALSE, writer.slot>>
  OBVIOUS
<1>x. PICK x : x = writer.last
  OBVIOUS
<1>0. MemoryType /\ writer.pc = "optimize_next" /\ UNCHANGED free_id_count /\ writer' = NoWork /\ writer.slot \in Ids
  BY DEF OptimizeNext, TableTypes, WorkKnows, MovePcs
<1>1. x \in Locations /\ root_id[x] # None /\ f \in Locations /\ root_id[f] \in Ids /\ root_id[f] # None
  BY <1>0, <1>f, <1>x, LastRooted, IdFacts DEF TableTypes, WorkKnows, MovePcs
<1>b. PICK b : bucket' = [bucket EXCEPT ![x] = b]
  BY <1>x DEF OptimizeNext
<1>2. root_id' = [root_id EXCEPT ![f] = None]
  BY <1>f DEF OptimizeNext
<1>3. \A l \in Locations : /\ l # x => bucket'[l] = bucket[l]
                           /\ root_id'[l] = IF l = f THEN None ELSE root_id[l]
  BY <1>0, <1>1, <1>2, <1>b DEF MemoryType
<1>4. OldKept
  BY <1>0, <1>1, <1>3 DEF OldKept, Old
<1>5. Fresh'
  <2>1. SUFFICES ASSUME NEW n \in Ids, root_id'[<<TRUE, n>>] = None
                 PROVE  bucket'[<<TRUE, n>>].hi = 0 /\ bucket'[<<TRUE, n>>].payload = Blank
    BY DEF Fresh
  <2>2. <<TRUE, n>> \in Locations /\ <<TRUE, n>> # f
    BY <1>f, IdFacts
  <2>3. root_id[<<TRUE, n>>] = None
    BY <1>3, <2>1, <2>2
  <2>4. bucket'[<<TRUE, n>>] = bucket[<<TRUE, n>>]
    BY <1>1, <1>3, <2>2, <2>3
  <2>5. ~Creating(n)
    BY <1>0 DEF Creating
  <2> QED BY <2>3, <2>4, <2>5 DEF Fresh
<1>6. writer'.pc = "idle"
  BY <1>0 DEF NoWork
<1> QED BY <1>4, <1>5, <1>6, NotWriting DEF Beside

LEMMA BesideFindParent ==
  ASSUME TableTypes, Fresh, FindParent PROVE Beside
<1>1. writer.pc = "find_parent" /\ UNCHANGED <<bucket, root_id, free_id_count>>
  BY DEF FindParent
<1> QED BY <1>1, QuietPcs, BesideQuiet

LEMMA BesideNext ==
  ASSUME TableTypes, NEW c, ChainsHold(c), Fresh, Unwritten, [TableNext]_tableVars, ~displaced' PROVE Beside
<1>s. writer.pc \notin {"evict", "bypass_internal", "bypass_next", "move", "recheck"}
  BY DEF ChainsHold, Straight, MovePcs
<1>1. CASE UNCHANGED tableVars
  BY <1>1, BesideStill DEF tableVars
<1>2. ASSUME NEW k \in Keys, Insert(k) \/ Find(k) PROVE Beside
  <2>1. CASE Insert(k)
    BY <2>1, BesideQuiet DEF Insert, NoWork
  <2>2. CASE Find(k)
    BY <2>2, BesideStill DEF Find
  <2> QED BY <1>2, <2>1, <2>2
<1>3. ASSUME NEW f \in Ids, OptimizeFreeBucket(f) PROVE Beside
  BY <1>3, BesideOptimizeFreeBucket
<1>4. CASE Claim
  <2>1. root_id[Entry(writer.key)] = None
    BY <1>4 DEF Claim
  <2> QED BY <1>4, <2>1, BesideClaim
<1>5. CASE Finish \/ Overwrite \/ AppendNode \/ Link \/ MarkTail \/ Grow
  BY <1>5, BesideFinish, BesideOverwrite, BesideAppendNode, BesideLinks, BesideGrow
<1>6. CASE Evict \/ BypassInternal \/ BypassNext \/ Move \/ Recheck
  BY <1>6, <1>s DEF Evict, BypassInternal, BypassNext, Move, Recheck
<1>7. CASE FindParent \/ OptimizeInternal \/ OptimizeNext
  BY <1>7, BesideFindParent, BesideLinks, BesideOptimizeNext
<1>8. ASSUME NEW f \in {"lo", "hi", "key", "internal", "next"}, Store(f) PROVE Beside
  BY <1>8, BesideStore DEF Fields
<1>9. CASE ReaderStep
  BY <1>9, BesideStill DEF ReaderStep
<1> QED BY <1>1, <1>2, <1>3, <1>4, <1>5, <1>6, <1>7, <1>8, <1>9 DEF TableNext, WriterStep

-----------------------------------------------------------------------------
(* What the history adds to a Find while the writer goes on.               *)

Watching ==
  /\ reader'.pc = reader.pc /\ reader'.key = reader.key /\ reader'.i = reader.i /\ reader'.size = reader.size
  /\ reader'.loc = reader.loc /\ reader'.link = reader.link /\ reader'.payload = reader.payload
  /\ reader.expect \subseteq reader'.expect
  /\ reader.shared => reader'.shared
  /\ reader'.calm => reader.calm

LEMMA WatchSame == UNCHANGED reader => Watching
BY DEF Watching

LEMMA WatchStores ==
  ASSUME reader \in Finds, NEW l, NEW creates, ObserveStores(l, creates)
  PROVE  Watching /\ (Finding /\ reader.key = writer.key => reader'.shared /\ writer.payload \in reader'.expect)
<1>1. CASE ~Finding
  BY <1>1, WatchSame DEF ObserveStores
<1>2. CASE Finding /\ reader.key = writer.key
  <2>1. reader' = [reader EXCEPT !.expect = reader.expect \cup {writer.payload}, !.shared = TRUE]
    BY <1>2 DEF ObserveStores, Shared
  <2> QED BY <2>1 DEF Watching, Finds
<1>3. CASE Finding /\ reader.key # writer.key
  <2>1. reader' = reader \/ reader' = [reader EXCEPT !.calm = FALSE]
    BY <1>3 DEF ObserveStores
  <2>2. CASE reader' = reader
    BY <1>3, <2>2, WatchSame
  <2>3. CASE reader' = [reader EXCEPT !.calm = FALSE]
    BY <1>3, <2>3 DEF Watching, Finds
  <2> QED BY <2>1, <2>2, <2>3
<1> QED BY <1>1, <1>2, <1>3

LEMMA WatchContent ==
  ASSUME reader \in Finds, ObserveContent, ContentType, writer.key \in Keys, FindKnows, Expected,
         writer'.pc = "idle"
  PROVE  Watching /\ Expected'
<1>1. \A q \in Keys : content'[q] = IF q = writer.key THEN writer.payload ELSE content[q]
  BY DEF ObserveContent, ContentType
<1>2. CASE ~(Finding /\ reader.key = writer.key)
  <2>1. reader' = reader
    BY <1>2 DEF ObserveContent
  <2>2. Finding => content'[reader.key] \in reader.expect
    BY <1>1, <1>2 DEF Expected, FindKnows
  <2> QED BY <2>1, <2>2, WatchSame DEF Expected, Finding
<1>3. CASE Finding /\ reader.key = writer.key
  <2>1. reader' = [reader EXCEPT !.expect = reader.expect \cup {writer.payload}]
    BY <1>3 DEF ObserveContent
  <2>2. Watching /\ writer.payload \in reader'.expect /\ reader'.key = writer.key
    BY <1>3, <2>1 DEF Watching, Finds
  <2> QED BY <1>1, <2>2 DEF Expected
<1> QED BY <1>2, <1>3

\* The writer does nothing that a reader could take for its key.
LEMMA WatchQuiet ==
  ASSUME UNCHANGED <<reader, content>>, writer'.pc \notin {"create", "overwrite"}, Expected
  PROVE  Watching /\ Expected'
BY WatchSame DEF Expected, Finding

LEMMA WatchBegins ==
  ASSUME TableTypes, Expected, Claim \/ Overwrite PROVE Watching /\ Expected'
<1>0. reader \in Finds /\ writer \in Works /\ writer.pc = "enter" /\ UNCHANGED content
  BY DEF TableTypes, Claim, Overwrite
<1>1. Watching /\ (Finding /\ reader.key = writer.key => reader'.shared /\ writer.payload \in reader'.expect)
  BY <1>0, WatchStores DEF Claim, Overwrite
<1>2. writer'.pc \in {"create", "overwrite"} => writer'.key = writer.key /\ writer'.payload = writer.payload
  <2>1. CASE Claim
    BY <1>0, <2>1 DEF Claim, Works
  <2>2. CASE Overwrite
    <3>1. \/ writer' = NoWork
          \/ \E l : writer' = [writer EXCEPT !.pc = "overwrite", !.loc = l, !.todo = {"lo", "hi"}]
          \/ writer' = [writer EXCEPT !.pc = "stuck"]
      BY <2>2 DEF Overwrite
    <3>2. NoWork.pc = "idle"
      BY DEF NoWork
    <3> QED BY <1>0, <3>1, <3>2 DEF Works
  <2> QED BY <2>1, <2>2
<1>3. Finding' <=> Finding
  BY <1>1 DEF Watching, Finding
<1>4. Finding => content'[reader'.key] \in reader'.expect
  BY <1>0, <1>1 DEF Expected, Watching
<1> QED BY <1>1, <1>2, <1>3, <1>4 DEF Expected, Watching

LEMMA WatchStore ==
  ASSUME TableTypes, Expected, NEW f, Store(f) PROVE Watching /\ Expected'
<1>0. writer \in Works /\ UNCHANGED <<reader, content>>
  BY DEF TableTypes, Store
<1>1. writer'.pc = writer.pc /\ writer'.key = writer.key /\ writer'.payload = writer.payload
  BY <1>0 DEF Store, Works
<1> QED BY <1>0, <1>1, WatchSame DEF Expected, Finding

LEMMA WatchEnds ==
  ASSUME TableTypes, Expected, Finish \/ Grow PROVE Watching /\ Expected'
<1>0. reader \in Finds /\ writer \in Works /\ FindKnows /\ ContentType /\ writer.key \in Keys
  BY DEF TableTypes, ContentType, Finish, Grow, WorkKnows, CallPcs
<1>1. NoWork.pc = "idle"
  BY DEF NoWork
<1>2. CASE ObserveContent /\ writer' = NoWork
  BY <1>0, <1>1, <1>2, WatchContent
<1>3. CASE UNCHANGED <<reader, content>> /\ writer' = [writer EXCEPT !.pc = "enter"]
  <2>1. writer'.pc = "enter"
    BY <1>0, <1>3 DEF Works
  <2> QED BY <1>3, <2>1, WatchQuiet
<1> QED BY <1>2, <1>3 DEF Finish, Grow

LEMMA WatchNext ==
  ASSUME TableTypes, NEW c, ChainsHold(c), Expected, [TableNext]_tableVars,
         ~\E k \in Keys : Find(k), ~ReaderStep
  PROVE  Watching /\ Expected'
<1>s. writer.pc \notin {"evict", "bypass_internal", "bypass_next", "move", "recheck"}
  BY DEF ChainsHold, Straight, MovePcs
<1>1. CASE UNCHANGED tableVars
  <2>1. UNCHANGED <<reader, writer, content>>
    BY <1>1 DEF tableVars
  <2> QED BY <2>1, WatchSame DEF Expected, Finding
<1>2. CASE \/ \E k \in Keys : Insert(k)
           \/ \E f \in Ids : OptimizeFreeBucket(f)
           \/ AppendNode \/ Link \/ MarkTail \/ FindParent \/ OptimizeInternal \/ OptimizeNext
  BY <1>2, QuietPcs, WatchQuiet
<1>3. CASE Claim \/ Overwrite
  BY <1>3, WatchBegins
<1>4. CASE Finish \/ Grow
  BY <1>4, WatchEnds
<1>5. CASE Evict \/ BypassInternal \/ BypassNext \/ Move \/ Recheck
  BY <1>5, <1>s DEF Evict, BypassInternal, BypassNext, Move, Recheck
<1>6. ASSUME NEW f \in {"lo", "hi", "key", "internal", "next"}, Store(f) PROVE Watching /\ Expected'
  BY <1>6, WatchStore
<1> QED BY <1>1, <1>2, <1>3, <1>4, <1>5, <1>6 DEF TableNext, WriterStep

-----------------------------------------------------------------------------
(* The reader's way, while the writer goes on.                             *)

LEMMA GoodGrows == ASSUME Watching, NEW p, Good(p) PROVE Good(p)'
<1>1. CASE p \in reader.expect
  BY <1>1 DEF Watching, Good
<1>2. CASE reader.shared /\ \E a, b \in (reader.expect \ {NFOUND}) \cup {Blank} : p = <<a[1], b[2]>>
  <2>1. PICK a, b \in (reader.expect \ {NFOUND}) \cup {Blank} : p = <<a[1], b[2]>>
    BY <1>2
  <2>2. reader'.shared /\ a \in (reader'.expect \ {NFOUND}) \cup {Blank} /\ b \in (reader'.expect \ {NFOUND}) \cup {Blank}
    BY <1>2 DEF Watching
  <2> QED BY <2>1, <2>2 DEF Good
<1> QED BY <1>1, <1>2 DEF Good

\* What the reader still has to visit are places of the chain.
LEMMA PathPlaces ==
  ASSUME MemoryType, NEW k \in Keys, NEW s \in Nat, s <= bucket[<<TRUE, k[2]>>].size, ~Creating(k[2]),
         NEW j \in Nat, j < s
  PROVE  Place(k[2], j)
<1>1. bucket[<<TRUE, k[2]>>].size \in Nat
  BY SizeType, KeyFacts
<1>2. j < bucket[<<TRUE, k[2]>>].size
  BY <1>1
<1> QED BY <1>2 DEF Place

LEMMA PathLength ==
  ASSUME MemoryType', NEW id \in Ids, NEW s \in Nat, NEW i \in Nat, i < s,
         \A j \in Nat : j < s => Place(id, j)'
  PROVE  s <= bucket'[<<TRUE, id>>].size
<1>1. bucket'[<<TRUE, id>>].size \in Nat
  BY IdFacts, SizesType DEF MemoryType, Buckets
<1>2. s - 1 \in Nat /\ s - 1 < s
  OBVIOUS
<1>3. s - 1 < bucket'[<<TRUE, id>>].size
  BY <1>2 DEF Place
<1> QED BY <1>1, <1>2, <1>3

LEMMA SeesKept ==
  ASSUME TableTypes, TableTypes', NEW c, ChainsHold(c), NEW d, ChainsHold(d)', Kept(c, d), OldKept, Watching,
         NEW k \in Keys, NEW i \in Nat, NEW s \in Nat, NEW v, ~Creating(k[2]), Sees(c, v, k, i, s)
  PROVE  Sees(d, v, k, i, s)'
<1>id. PICK id : id = k[2]
  OBVIOUS
<1>0. MemoryType /\ MemoryType' /\ id \in Ids
  BY <1>id, KeyFacts DEF TableTypes
<1>1. /\ v \in [Nat -> Locations] /\ v[i] = reader.loc /\ i < s /\ s <= bucket[<<TRUE, id>>].size
      /\ \A j \in Nat : i <= j /\ j < s => On(c, k, v[j], j)
      /\ \A j \in Nat : i <= j /\ j + 1 < s => Published(v[j]) = v[j + 1]
  BY <1>id DEF Sees, Path
<1>2. \A j \in Nat : j < s => Place(id, j)
  BY <1>0, <1>1, <1>id, PathPlaces
<1>3. \A j \in Nat : j < s => /\ Place(id, j)' /\ d[id][j] = c[id][j]
                              /\ bucket'[c[id][j]].hi = bucket[c[id][j]].hi
  BY <1>0, <1>2 DEF Kept
<1>4. ASSUME NEW j \in Nat, i <= j, j < s PROVE On(d, k, v[j], j)' /\ (v[j] = c[id][j] \/ Old(v[j]))
  <2>1. On(c, k, v[j], j) /\ v[j] \in Locations
    BY <1>1, <1>4
  <2>2. CASE v[j] = c[id][j]
    BY <1>3, <1>4, <1>id, <2>2 DEF On
  <2>3. CASE v[j] # c[id][j]
    <3>1. /\ j # 0 /\ Old(v[j]) /\ bucket[v[j]].hi = bucket[c[id][j]].hi
          /\ bucket[v[j]].hi = Hi(k) => bucket[v[j]].payload \in reader.expect
      BY <1>id, <2>1, <2>3 DEF On
    <3>2. Old(v[j])' /\ bucket'[v[j]] = bucket[v[j]]
      BY <2>1, <3>1 DEF OldKept
    <3>3. bucket'[v[j]].hi = bucket'[d[id][j]].hi
      BY <1>3, <1>4, <3>1, <3>2
    <3>4. bucket'[v[j]].hi = Hi(k) => bucket'[v[j]].payload \in reader'.expect
      BY <3>1, <3>2 DEF Watching
    <3> QED BY <1>id, <3>1, <3>2, <3>3, <3>4 DEF On
  <2> QED BY <2>2, <2>3
<1>5. ASSUME NEW j \in Nat, i <= j, j + 1 < s PROVE Published(v[j])' = Published(v[j])
  <2>1. j < s /\ j + 1 \in Nat
    BY <1>5
  <2>2. v[j] \in Locations
    BY <1>1
  <2>3. CASE v[j] = c[id][j]
    <3>1. Place(id, j + 1)
      BY <1>2, <1>5, <2>1
    <3> QED BY <1>0, <2>3, <3>1 DEF Kept, LinksKept
  <2>4. CASE Old(v[j])
    BY <2>2, <2>4, OldLinks
  <2> QED BY <1>4, <1>5, <2>1, <2>3, <2>4
<1>6. Path(d, v, k, i, s)'
  <2>1. s <= bucket'[<<TRUE, id>>].size
    BY <1>0, <1>1, <1>3, PathLength
  <2>2. \A j \in Nat : i <= j /\ j + 1 < s => Published(v[j])' = v[j + 1]
    BY <1>1, <1>5
  <2>3. v[i] = reader'.loc
    BY <1>1 DEF Watching
  <2> QED BY <1>1, <1>4, <1>id, <2>1, <2>2, <2>3 DEF Path
<1>7. Ahead(d, k, i, s)'
  <2>1. CASE NFOUND \in reader.expect
    BY <2>1 DEF Ahead, Watching
  <2>2. CASE NFOUND \notin reader.expect
    <3>1. PICK m \in Nat : /\ i <= m /\ m < s /\ bucket[c[id][m]].hi = Hi(k)
                           /\ reader.pc = "advance" => m # i
      BY <1>id, <2>2 DEF Sees, Ahead
    <3>2. bucket'[d[id][m]].hi = Hi(k) /\ (reader'.pc = "advance" => m # i)
      BY <1>3, <3>1 DEF Watching
    <3> QED BY <1>id, <3>1, <3>2 DEF Ahead
  <2> QED BY <2>1, <2>2
<1>8. Seen(k, i, s)'
  <2>0. Seen(k, i, s)
    BY DEF Sees
  <2>1. i <= i /\ i \in Nat /\ (i < s)
    BY <1>1
  <2>2. ASSUME reader'.pc = "advance"
        PROVE  i + 1 < s /\ (reader'.link = Published(reader.loc)' \/ Torn')
    <3>1. i + 1 < s /\ (reader.link = Published(reader.loc) \/ Torn)
      BY <2>0, <2>2 DEF Seen, Watching
    <3>l. PICK l : l = reader.loc
      OBVIOUS
    <3>2. Published(l)' = Published(l)
      BY <1>1, <1>5, <2>1, <3>1, <3>l
    <3>3. reader'.loc = l /\ reader'.link = reader.link
      BY <3>l DEF Watching
    <3>4. Published(reader.loc)' = Published(l)'
      BY <3>3 DEF Published, NextBucket
    <3> QED BY <3>1, <3>2, <3>3, <3>4, <3>l DEF Torn
  <2>3. ASSUME reader'.pc \in {"payload", "check", "recheck"} PROVE bucket'[reader'.loc].hi = Hi(k)
    <3>1. bucket[reader.loc].hi = Hi(k) /\ reader'.loc = v[i] /\ reader.loc = v[i]
      BY <1>1, <2>0, <2>3 DEF Seen, Watching
    <3>2. CASE v[i] = c[id][i]
      BY <1>3, <2>1, <3>1, <3>2
    <3>3. CASE Old(v[i])
      <4>1. v[i] \in Locations
        BY <1>1
      <4> QED BY <3>1, <3>3, <4>1 DEF OldKept
    <3> QED BY <1>4, <2>1, <3>2, <3>3
  <2>4. ~Creating(k[2])'
    <3>1. 0 \in Nat /\ 0 < s
      BY <1>1
    <3> QED BY <1>3, <1>id, <3>1 DEF Place
  <2> QED BY <2>2, <2>3, <2>4 DEF Seen
<1> QED BY <1>6, <1>7, <1>8 DEF Sees

\* It is not the reader's step.
Aside == ~(\E k \in Keys : Find(k)) /\ ~ReaderStep

\* While a root node is created only its bucket is written.
LEMMA CreateSteps ==
  ASSUME [TableNext]_tableVars, writer.pc = "create", Aside
  PROVE  \/ \E f \in Fields : Store(f)
         \/ writer'.pc = "idle" /\ UNCHANGED bucket
         \/ UNCHANGED <<bucket, writer>>
<1>1. CASE UNCHANGED tableVars
  BY <1>1 DEF tableVars
<1>2. CASE \/ \E k \in Keys : Insert(k)
           \/ \E f \in Ids : OptimizeFreeBucket(f)
  BY <1>2 DEF Insert, OptimizeFreeBucket
<1>3. CASE Claim \/ Overwrite \/ AppendNode \/ Link \/ MarkTail \/ Grow
  BY <1>3 DEF Claim, Overwrite, AppendNode, Link, MarkTail, Grow
<1>4. CASE Evict \/ BypassInternal \/ BypassNext \/ Move \/ Recheck
  BY <1>4 DEF Evict, BypassInternal, BypassNext, Move, Recheck
<1>5. CASE FindParent \/ OptimizeInternal \/ OptimizeNext
  BY <1>5 DEF FindParent, OptimizeInternal, OptimizeNext
<1>6. CASE Finish
  BY <1>6 DEF Finish, NoWork
<1>7. CASE \E f \in {"lo", "hi", "key", "internal", "next"} : Store(f)
  BY <1>7 DEF Fields
<1> QED BY <1>1, <1>2, <1>3, <1>4, <1>5, <1>6, <1>7 DEF TableNext, WriterStep, Aside

LEMMA SeesCreating ==
  ASSUME TableTypes, NEW c, ChainsHold(c), NEW d, ChainsHold(d)', Unwritten, [TableNext]_tableVars,
         Aside, Watching,
         NEW k \in Keys, NEW i \in Nat, NEW s \in Nat, NEW v, Creating(k[2]), Sees(c, v, k, i, s)
  PROVE  Sees(d, v, k, i, s)'
<1>id. PICK id : id = k[2]
  OBVIOUS
<1>e. PICK e : e = <<TRUE, id>>
  OBVIOUS
<1>q. PICK q : q = writer.key
  OBVIOUS
<1>0. MemoryType /\ id \in Ids /\ e \in Locations /\ writer.pc = "create" /\ writer \in Works
  BY <1>id, <1>e, KeyFacts, IdFacts DEF TableTypes, Creating
<1>1. writer.loc = e /\ bucket[e].size = 1 /\ writer.todo \in SUBSET {"lo", "hi", "key"}
      /\ ("key" \in writer.todo => bucket[e].hi = 0)
  BY <1>0, <1>id, <1>e DEF ChainsHold, Creates, Creating, Entry, Unwritten
<1>2. i = 0 /\ s = 1 /\ v[0] = e /\ v \in [Nat -> Locations] /\ reader.loc = e
  <2>1. i < s /\ s <= 1 /\ v \in [Nat -> Locations] /\ v[i] = reader.loc
    BY <1>1, <1>id, <1>e DEF Sees, Path
  <2>2. i = 0 /\ s = 1
    BY <2>1
  <2>3. On(c, k, v[0], 0)
    BY <2>2 DEF Sees, Path
  <2>4. c[id][0] = e
    BY <1>0, <1>e DEF ChainsHold, Rooted
  <2> QED BY <1>id, <2>1, <2>2, <2>3, <2>4 DEF On
<1>3. Seen(k, 0, 1)
  BY <1>2 DEF Sees
<1>4. NFOUND \in reader.expect /\ (q # k => Hi(k) # 0)
  BY <1>3, <1>q DEF Seen
<1>5. bucket'[e].size = 1 /\ (bucket[e].hi = Hi(k) => bucket'[e].hi = Hi(k)) /\ (writer'.pc = "create" => writer'.key = q)
  <2>1. ASSUME NEW f \in Fields, Store(f) 
        PROVE  bucket'[e].size = 1 /\ (bucket[e].hi = Hi(k) => bucket'[e].hi = Hi(k)) /\ (writer'.pc = "create" => writer'.key = q)
    <3>1. f \in {"lo", "hi", "key"} /\ f \in writer.todo
      BY <1>1, <2>1 DEF Store
    <3>2. bucket'[e] = Stored(bucket[e], f) /\ writer'.key = q
      BY <1>0, <1>1, <1>q, <2>1 DEF Store, MemoryType, Works
    <3>3. bucket[e] \in Buckets
      BY <1>0, BucketType
    <3>4. /\ bucket'[e].size = bucket[e].size
          /\ f # "key" => bucket'[e].hi = bucket[e].hi
          /\ f = "key" => bucket'[e].hi = Hi(q)
      BY <1>0, <1>q, <3>1, <3>2, <3>3, StoredFields
    <3>5. ASSUME f = "key", bucket[e].hi = Hi(k) PROVE q = k
      BY <1>1, <1>4, <3>1, <3>5
    <3> QED BY <1>1, <3>2, <3>4, <3>5
  <2>2. CASE writer'.pc = "idle" /\ UNCHANGED bucket
    BY <1>1, <2>2
  <2>3. CASE UNCHANGED <<bucket, writer>>
    BY <1>1, <1>q, <2>3
  <2>4. \/ \E f \in Fields : Store(f)
        \/ writer'.pc = "idle" /\ UNCHANGED bucket
        \/ UNCHANGED <<bucket, writer>>
    BY <1>0, CreateSteps
  <2> QED BY <2>1, <2>2, <2>3, <2>4
<1>6. Path(d, v, k, 0, 1)'
  <2>1. d[id][0] = e
    BY <1>0, <1>e DEF ChainsHold, Rooted
  <2>2. On(d, k, v[0], 0)'
    BY <1>2, <1>id, <2>1 DEF On
  <2>3. \A j \in Nat : (0 <= j /\ j < 1 => j = 0) /\ ~(j + 1 < 1)
    OBVIOUS
  <2>4. v[0] = reader'.loc
    BY <1>2 DEF Watching
  <2>5. 0 < 1 /\ 1 <= bucket'[<<TRUE, k[2]>>].size
    BY <1>5, <1>id, <1>e
  <2> QED BY <1>2, <2>2, <2>3, <2>4, <2>5 DEF Path
<1>7. NFOUND \in reader'.expect
  BY <1>4 DEF Watching
<1>8. Seen(k, 0, 1)'
  <2>1. reader'.pc # "advance"
    BY <1>3 DEF Seen, Watching
  <2>2. reader'.pc \in {"payload", "check", "recheck"} => bucket'[reader'.loc].hi = Hi(k)
    BY <1>2, <1>3, <1>5 DEF Seen, Watching
  <2>3. Creating(k[2])' => NFOUND \in reader'.expect /\ (writer'.key # k => Hi(k) # 0)
    BY <1>4, <1>5, <1>7 DEF Creating
  <2> QED BY <2>1, <2>2, <2>3 DEF Seen
<1> QED BY <1>2, <1>6, <1>7, <1>8 DEF Sees, Ahead

\* The chain of r goes from x to l now, a copy of f, where it went to f before.
Detour(c, d, r, m, x, f, l) ==
  /\ x \in Locations /\ f \in Locations /\ l \in Locations /\ c[r][m] = x /\ c[r][m + 1] = f /\ d[r][m + 1] = l
  /\ \A p \in Ids, j \in Nat : ~(p = r /\ j = m + 1) => d[p][j] = c[p][j]
  /\ \A y \in Locations : bucket'[y].hi = bucket[y].hi
  /\ bucket'[f] = bucket[f] /\ bucket[l].hi = bucket[f].hi
  /\ Published(x) = f /\ Published(x)' = l /\ ~f[1] /\ l[1]
  /\ \A y \in Locations : y # x => Published(y)' = Published(y)
  /\ Published(l)' = Published(f)
  /\ Old(f)' /\ root_id[x] = r

LEMMA DetourTaken ==
  ASSUME TableTypes, NEW c, ChainsHold(c), NEW d, NEW r \in Ids, NEW m \in Nat, Rerouted(c, d, r, m)
  PROVE  Place(r, m) /\ Place(r, m + 1) /\ \E x, f, l : Detour(c, d, r, m, x, f, l)
<1>s. PICK s : s = writer.slot
  OBVIOUS
<1>f. PICK f : f = <<FALSE, s>>
  OBVIOUS
<1>l. PICK l : l = writer.loc
  OBVIOUS
<1>x. PICK x : x = writer.last
  OBVIOUS
<1>0. /\ MemoryType /\ writer \in Works /\ writer.pc = "optimize_next" /\ s \in Ids
      /\ l \in Locations /\ x \in Locations /\ f \in Locations
      /\ UNCHANGED free_id_count
  BY <1>s, <1>f, <1>l, <1>x, IdFacts DEF Rerouted, OptimizeNext, TableTypes, WorkKnows, MovePcs
<1>1. m + 1 \in Nat /\ m <= m + 1 /\ m # m + 1
  OBVIOUS
<1>2. /\ Place(r, m + 1) /\ c[r][m] = x /\ c[r][m + 1] = f /\ d[r][m + 1] = l
      /\ \A p \in Ids, j \in Nat : ~(p = r /\ j = m + 1) => d[p][j] = c[p][j]
  BY <1>s, <1>f, <1>l, <1>x DEF Rerouted, Changed
<1>3. Place(r, m)
  BY <1>0, <1>1, <1>2, PlaceBefore
<1>4. root_id[x] = r /\ root_id[f] = r /\ Valid(f)
  BY <1>1, <1>2, <1>3 DEF ChainsHold, Knows
<1>5. /\ l[1] /\ bucket[l] = bucket[f] /\ bucket[x].internal
      /\ \A j \in Nat : Place(r, j) => c[r][j] # l
  BY <1>0, <1>4, <1>s, <1>f, <1>l, <1>x DEF ChainsHold, Moves, MovePcs
<1>6. x # f /\ l # x /\ ~f[1]
  <2>1. x # f
    BY <1>1, <1>2, <1>3 DEF ChainsHold, Once
  <2>2. ~f[1]
    BY <1>f
  <2>3. l # x
    BY <1>2, <1>3, <1>5
  <2> QED BY <2>1, <2>2, <2>3
<1>7. bucket[x] \in Buckets /\ bucket[x].internal = TRUE
  <2>1. bucket[x] \in Buckets
    BY <1>0, BucketType
  <2> QED BY <1>5, <2>1 DEF Buckets
<1>b. PICK b : b = [bucket[x] EXCEPT !.next = l[2]]
  OBVIOUS
<1>8. b.hi = bucket[x].hi /\ b.internal = TRUE /\ b.next = l[2]
  BY <1>7, <1>b DEF Buckets
<1>9. bucket' = [bucket EXCEPT ![x] = b] /\ root_id' = [root_id EXCEPT ![f] = None] /\ writer'.pc = "idle"
  BY <1>s, <1>f, <1>l, <1>x, <1>b DEF Rerouted, OptimizeNext, NoWork
<1>10. \A y \in Locations : bucket'[y] = (IF y = x THEN b ELSE bucket[y])
  BY <1>0, <1>9 DEF MemoryType
<1>11. \A y : Published(y)' = NextBucket(y)'
  BY <1>9 DEF Published
<1>12. Published(x) = f
  BY <1>2 DEF ChainsHold, Linked
<1>13. Published(x)' = l
  <2>1. l = <<TRUE, l[2]>>
    BY <1>0, <1>5, LocationFacts
  <2>2. NextBucket(x)' = <<TRUE, l[2]>>
    BY <1>0, <1>8, <1>10 DEF NextBucket
  <2> QED BY <1>11, <2>1, <2>2
<1>14. \A y \in Locations : y # x => Published(y)' = NextBucket(y) /\ Published(y) = NextBucket(y)
  BY <1>10, <1>11, <1>x DEF Published, NextBucket
<1>15. Published(l)' = Published(f)
  <2>1. NextBucket(l) = NextBucket(f)
    BY <1>5 DEF NextBucket
  <2> QED BY <1>0, <1>6, <1>14, <2>1
<1>16. Old(f)'
  <2>1. root_id'[f] = None
    BY <1>0, <1>9 DEF MemoryType
  <2>2. f[2] < free_id_count
    BY <1>4, <1>6 DEF Valid
  <2> QED BY <1>0, <1>6, <2>1, <2>2 DEF Old
<1>17. /\ \A y \in Locations : bucket'[y].hi = bucket[y].hi
       /\ bucket'[f] = bucket[f] /\ bucket[l].hi = bucket[f].hi
  BY <1>0, <1>5, <1>6, <1>8, <1>10
<1>18. Detour(c, d, r, m, x, f, l)
  BY <1>0, <1>2, <1>4, <1>5, <1>6, <1>12, <1>13, <1>14, <1>15, <1>16, <1>17 DEF Detour
<1> QED BY <1>2, <1>3, <1>18

LEMMA SeesRerouted ==
  ASSUME TableTypes, TableTypes', NEW c, ChainsHold(c), NEW d, ChainsHold(d)', OldKept, Expected,
         NEW r \in Ids, NEW m \in Nat, Lasting, Rerouted(c, d, r, m),
         NEW k \in Keys, NEW i \in Nat, NEW s \in Nat, NEW v, Sees(c, v, k, i, s), Finding, reader.key = k
  PROVE  \E w : Sees(d, w, k, i, s)'
<1>id. PICK id : id = k[2]
  OBVIOUS
<1>n. PICK n : n = m + 1
  OBVIOUS
<1>0. /\ MemoryType /\ MemoryType' /\ id \in Ids /\ n \in Nat /\ n # 0 /\ m # n /\ UNCHANGED reader
      /\ writer.pc = "optimize_next" /\ writer'.pc = "idle"
  BY <1>id, <1>n, KeyFacts DEF TableTypes, Rerouted, OptimizeNext, NoWork
<1>p. Place(r, m) /\ Place(r, n) /\ \E x, f, l : Detour(c, d, r, m, x, f, l)
  BY <1>n, DetourTaken
<1>x. PICK x, f, l : Detour(c, d, r, m, x, f, l)
  BY <1>p
<1>a. /\ x \in Locations /\ f \in Locations /\ l \in Locations /\ c[r][m] = x /\ c[r][n] = f /\ d[r][n] = l
      /\ \A p \in Ids, j \in Nat : ~(p = r /\ j = n) => d[p][j] = c[p][j]
      /\ \A y \in Locations : bucket'[y].hi = bucket[y].hi
      /\ bucket'[f] = bucket[f] /\ bucket[l].hi = bucket[f].hi
      /\ Published(x) = f /\ Published(x)' = l /\ ~f[1] /\ l[1]
      /\ \A y \in Locations : y # x => Published(y)' = Published(y)
      /\ Published(l)' = Published(f)
      /\ Old(f)' /\ root_id[x] = r
  BY <1>x, <1>n DEF Detour
<1>1. /\ v \in [Nat -> Locations] /\ v[i] = reader.loc /\ i < s /\ s <= bucket[<<TRUE, id>>].size
      /\ \A j \in Nat : i <= j /\ j < s => On(c, k, v[j], j)
      /\ \A j \in Nat : i <= j /\ j + 1 < s => Published(v[j]) = v[j + 1]
  BY <1>id DEF Sees, Path
<1>2. \A j \in Nat : j < s => Place(id, j)
  <2>1. ~Creating(id)
    BY <1>0 DEF Creating
  <2> QED BY <1>0, <1>1, <1>id, <2>1, PathPlaces
<1>3. \A j \in Nat : j < s => c[id][j] \in Locations /\ bucket'[d[id][j]].hi = bucket[c[id][j]].hi
  <2>1. SUFFICES ASSUME NEW j \in Nat, j < s
                 PROVE  c[id][j] \in Locations /\ bucket'[d[id][j]].hi = bucket[c[id][j]].hi
    OBVIOUS
  <2>2. c[id][j] \in Locations
    BY <1>0, ChainType DEF ChainsHold
  <2>3. CASE id = r /\ j = n
    BY <1>a, <2>2, <2>3
  <2>4. CASE ~(id = r /\ j = n)
    BY <1>0, <1>a, <2>1, <2>2, <2>4
  <2> QED BY <2>2, <2>3, <2>4
\* The reader is at x only as the m-th bucket of the chain of r.
<1>4. ASSUME NEW j \in Nat, i <= j, j < s, v[j] = x PROVE id = r /\ j = m
  <2>1. On(c, k, x, j)
    BY <1>1, <1>4
  <2>2. x = c[id][j]
    <3>1. ~Old(x)
      BY <1>a, IdFacts DEF Old
    <3> QED BY <1>id, <2>1, <3>1 DEF On
  <2>3. root_id[c[id][j]] = id
    BY <1>0, <1>2, <1>4 DEF ChainsHold, Knows
  <2>4. id = r
    BY <1>a, <2>2, <2>3
  <2>5. j = m
    BY <1>0, <1>2, <1>4, <1>a, <1>p, <2>2, <2>4 DEF ChainsHold, Once
  <2> QED BY <2>4, <2>5
<1>5. ASSUME NEW j \in Nat, i <= j, j < s, ~(id = r /\ j = n) PROVE On(d, k, v[j], j)'
  <2>1. On(c, k, v[j], j) /\ v[j] \in Locations /\ d[id][j] = c[id][j]
    BY <1>0, <1>1, <1>5, <1>a
  <2>2. CASE v[j] = c[id][j]
    BY <1>id, <2>1, <2>2 DEF On
  <2>3. CASE v[j] # c[id][j]
    <3>1. /\ j # 0 /\ Old(v[j]) /\ bucket[v[j]].hi = bucket[c[id][j]].hi
          /\ bucket[v[j]].hi = Hi(k) => bucket[v[j]].payload \in reader.expect
      BY <1>id, <2>1, <2>3 DEF On
    <3>2. Old(v[j])' /\ bucket'[v[j]] = bucket[v[j]]
      BY <2>1, <3>1 DEF OldKept
    <3>3. bucket'[v[j]].hi = bucket'[d[id][j]].hi
      BY <1>3, <1>5, <3>1, <3>2
    <3> QED BY <1>0, <1>id, <3>1, <3>2, <3>3 DEF On
  <2> QED BY <2>2, <2>3
<1>6. Ahead(d, k, i, s)'
  <2>1. CASE NFOUND \in reader.expect
    BY <1>0, <2>1 DEF Ahead
  <2>2. CASE NFOUND \notin reader.expect
    <3>1. PICK q \in Nat : /\ i <= q /\ q < s /\ bucket[c[id][q]].hi = Hi(k)
                           /\ reader.pc = "advance" => q # i
      BY <1>id, <2>2 DEF Sees, Ahead
    <3>2. bucket'[d[id][q]].hi = Hi(k) /\ (reader'.pc = "advance" => q # i)
      BY <1>0, <1>3, <3>1
    <3> QED BY <1>id, <3>1, <3>2 DEF Ahead
  <2> QED BY <2>1, <2>2
<1>7. Seen(k, i, s)'
  <2>0. Seen(k, i, s) /\ reader.loc \in Locations
    BY <1>1 DEF Sees
  <2>y. PICK y : y = reader.loc
    OBVIOUS
  <2>l. PICK ln : ln = reader.link
    OBVIOUS
  <2>2. ASSUME reader'.pc = "advance"
        PROVE  i + 1 < s /\ (ln = Published(y)' \/ (~ln[1] /\ Published(y)'[1]))
    <3>1. i + 1 < s /\ (ln = Published(y) \/ (~ln[1] /\ Published(y)[1]))
      BY <1>0, <2>0, <2>2, <2>y, <2>l DEF Seen, Torn
    <3>2. CASE y = x
      BY <1>a, <3>1, <3>2
    <3>3. CASE y # x
      BY <1>a, <2>0, <2>y, <3>1, <3>3
    <3> QED BY <3>2, <3>3
  <2>3. reader'.link = ln /\ reader'.loc = y
    BY <1>0, <2>y, <2>l
  <2>4. Published(reader.loc)' = Published(y)'
    BY <2>3 DEF Published, NextBucket
  <2>5. reader'.pc = "advance" => i + 1 < s /\ (reader'.link = Published(reader.loc)' \/ Torn')
    BY <2>2, <2>3, <2>4 DEF Torn
  <2>6. reader'.pc \in {"payload", "check", "recheck"} => bucket'[reader'.loc].hi = Hi(k)
    BY <1>0, <1>a, <2>0 DEF Seen
  <2>7. ~Creating(k[2])'
    BY <1>0 DEF Creating
  <2> QED BY <2>5, <2>6, <2>7 DEF Seen
<1>8. s <= bucket'[<<TRUE, id>>].size
  <2>1. \A j \in Nat : j < s => Place(id, j)'
    BY <1>0, <1>2 DEF Lasting
  <2> QED BY <1>0, <1>1, <2>1, PathLength
<1>9. SUFFICES \E w : Path(d, w, k, i, s)'
  BY <1>6, <1>7 DEF Sees
<1>10. CASE id = r /\ i <= m /\ n < s /\ v[m] = x
  <2>w. PICK w : w = [v EXCEPT ![n] = l]
    OBVIOUS
  <2>1. w \in [Nat -> Locations] /\ w[n] = l /\ \A j \in Nat : j # n => w[j] = v[j]
    BY <1>0, <1>1, <1>a, <2>w
  <2>2. m < s /\ i # n /\ i <= n /\ m + 1 = n /\ \A j \in Nat : j + 1 = n => j = m
    BY <1>10, <1>n
  <2>3. v[n] = f
    BY <1>1, <1>10, <1>a, <2>2
  <2>4. ASSUME NEW j \in Nat, i <= j, j < s PROVE On(d, k, w[j], j)'
    <3>1. CASE j = n
      BY <1>10, <1>a, <1>id, <2>1, <3>1 DEF On
    <3>2. CASE j # n
      <4>1. On(d, k, v[j], j)'
        BY <1>5, <2>4, <3>2
      <4>2. w[j] = v[j]
        BY <2>1, <3>2
      <4> QED BY <4>1, <4>2
    <3> QED BY <3>1, <3>2
  <2>5. ASSUME NEW j \in Nat, i <= j, j + 1 < s PROVE Published(w[j])' = w[j + 1]
    <3>0. j < s /\ j + 1 \in Nat /\ j + 1 # j
      BY <2>5
    <3>v. Published(v[j]) = v[j + 1]
      BY <1>1, <2>5
    <3>1. CASE j = m
      <4>1. w[j] = x /\ w[j + 1] = l
        BY <1>0, <1>10, <1>n, <2>1, <3>1
      <4> QED BY <1>a, <4>1
    <3>2. CASE j = n
      <4>1. w[j] = l /\ w[j + 1] = v[j + 1] /\ v[j] = f
        BY <2>1, <2>3, <3>0, <3>2
      <4> QED BY <1>a, <3>v, <4>1
    <3>3. CASE j # m /\ j # n
      <4>1. w[j] = v[j] /\ w[j + 1] = v[j + 1] /\ v[j] \in Locations
        BY <1>1, <2>1, <2>2, <3>0, <3>3
      <4>2. v[j] # x
        BY <1>4, <2>5, <3>0, <3>3
      <4> QED BY <1>a, <3>v, <4>1, <4>2
    <3> QED BY <3>1, <3>2, <3>3
  <2>6. w[i] = reader'.loc
    BY <1>0, <1>1, <2>1, <2>2
  <2> QED BY <1>1, <1>8, <1>id, <2>1, <2>4, <2>5, <2>6 DEF Path
<1>11. CASE ~(id = r /\ i <= m /\ n < s /\ v[m] = x)
  <2>1. ASSUME NEW j \in Nat, i <= j, j < s PROVE On(d, k, v[j], j)'
    <3>1. CASE ~(id = r /\ j = n)
      BY <1>5, <2>1, <3>1
    <3>2. CASE id = r /\ j = n
      <4>1. On(c, k, v[j], j) /\ v[j] \in Locations
        BY <1>1, <2>1
      <4>2. CASE v[j] = f
        <5>1. bucket'[f].hi = bucket'[d[id][j]].hi
          BY <1>a, <3>2
        <5>2. ASSUME bucket'[f].hi = Hi(k) PROVE bucket'[f].payload \in reader'.expect
          <6>1. bucket[c[id][j]].hi = Hi(k)
            BY <1>a, <3>2, <5>2
          <6>2. content[k] = bucket[c[id][j]].payload
            BY <1>0, <1>2, <1>id, <2>1, <6>1 DEF ChainsHold, Holds, Overwriting
          <6>3. content[k] \in reader.expect
            BY DEF Expected
          <6> QED BY <1>0, <1>a, <3>2, <6>2, <6>3
        <5> QED BY <1>0, <1>a, <1>id, <3>2, <4>2, <5>1, <5>2 DEF On
      <4>3. CASE v[j] # f
        <5>1. /\ Old(v[j]) /\ bucket[v[j]].hi = bucket[c[id][j]].hi
              /\ bucket[v[j]].hi = Hi(k) => bucket[v[j]].payload \in reader.expect
          BY <1>a, <1>id, <3>2, <4>1, <4>3 DEF On
        <5>2. Old(v[j])' /\ bucket'[v[j]] = bucket[v[j]]
          BY <4>1, <5>1 DEF OldKept
        <5>3. bucket'[v[j]].hi = bucket'[d[id][j]].hi
          BY <1>3, <2>1, <5>1, <5>2
        <5> QED BY <1>0, <1>id, <3>2, <5>1, <5>2, <5>3 DEF On
      <4> QED BY <4>2, <4>3
    <3> QED BY <3>1, <3>2
  <2>2. ASSUME NEW j \in Nat, i <= j, j + 1 < s PROVE Published(v[j])' = v[j + 1]
    <3>1. j < s /\ v[j] \in Locations /\ Published(v[j]) = v[j + 1]
      BY <1>1, <2>2
    <3>2. v[j] # x
      BY <1>4, <1>11, <1>n, <2>2, <3>1
    <3> QED BY <1>a, <3>1, <3>2
  <2>3. v[i] = reader'.loc
    BY <1>0, <1>1
  <2> QED BY <1>1, <1>8, <1>id, <2>1, <2>2, <2>3 DEF Path
<1> QED BY <1>10, <1>11

LEMMA ReadsBeside ==
  ASSUME TableTypes, TableTypes', NEW c, ChainsHold(c), Expected, Fresh, Unwritten, Reads(c),
         [TableNext]_tableVars, ~displaced', RoomLeft, Aside
  PROVE  \E d : ChainsHold(d)' /\ Reads(d)'
<1>1. Watching /\ OldKept
  BY WatchNext, BesideNext DEF Aside, Beside
<1>d. PICK d : ChainsHold(d)' /\ (Kept(c, d) \/ \E r, i : Lasting /\ Rerouted(c, d, r, i))
  BY ChainsNext
<1>2. reader'.pc \in {"check", "recheck"} /\ reader'.calm => Good(reader.payload)'
  <2>1. SUFFICES ASSUME reader'.pc \in {"check", "recheck"} /\ reader'.calm PROVE Good(reader.payload)'
    OBVIOUS
  <2>p. PICK p : p = reader.payload
    OBVIOUS
  <2>2. Good(p)
    BY <1>1, <2>1, <2>p DEF Watching, Reads
  <2>3. Good(p)' /\ reader'.payload = p
    BY <1>1, <2>2, <2>p, GoodGrows DEF Watching
  <2> QED BY <2>3 DEF Good
<1>3. ASSUME Under' PROVE \E v : Sees(d, v, reader.key, reader.i, reader.size)'
  <2>k. PICK k : k = reader.key
    OBVIOUS
  <2>i. PICK i : i = reader.i
    OBVIOUS
  <2>s. PICK s : s = reader.size
    OBVIOUS
  <2>1. Under /\ Finding
    BY <1>1, <1>3 DEF Under, Watching, Finding
  <2>2. k \in Keys /\ i \in Nat /\ s \in Nat
    BY <2>1, <2>k, <2>i, <2>s, SizesType DEF TableTypes, FindKnows, Finds
  <2>v. PICK v : Sees(c, v, k, i, s)
    BY <2>1, <2>k, <2>i, <2>s DEF Reads
  <2>3. \E w : Sees(d, w, k, i, s)'
    <3>1. CASE Creating(k[2])
      BY <1>1, <1>d, <2>2, <2>v, <3>1, SeesCreating
    <3>2. CASE ~Creating(k[2]) /\ Kept(c, d)
      BY <1>1, <1>d, <2>2, <2>v, <3>2, SeesKept
    <3>3. ASSUME NEW r, NEW m, Lasting, Rerouted(c, d, r, m) PROVE \E w : Sees(d, w, k, i, s)'
      <4>1. r \in Ids /\ m \in Nat
        BY <3>3 DEF Rerouted
      <4> QED BY <1>1, <1>d, <2>1, <2>2, <2>k, <2>v, <3>3, <4>1, SeesRerouted
    <3> QED BY <1>d, <3>1, <3>2, <3>3
  <2>4. reader'.key = k /\ reader'.i = i /\ reader'.size = s
    BY <1>1, <2>k, <2>i, <2>s DEF Watching
  <2>w. PICK w : Sees(d, w, k, i, s)'
    BY <2>3
  <2>5. Sees(d, w, reader.key, reader.i, reader.size)'
    BY <2>4, <2>w DEF Sees, Path, Ahead, Seen, On
  <2> QED BY <2>5
<1> QED BY <1>d, <1>2, <1>3 DEF Reads

-----------------------------------------------------------------------------
(* The steps of the reader.                                                *)

Still == UNCHANGED <<bucket, root_id, free_id_count, writer, content>>

LEMMA StillFacts ==
  ASSUME Still
  PROVE  /\ \A l : Published(l)' = Published(l) /\ (Old(l)' <=> Old(l))
         /\ \A id : Creating(id)' <=> Creating(id)
BY DEF Still, Published, NextBucket, Old, Creating

\* The reader goes on along its path.
LEMMA PathStill ==
  ASSUME Still, NEW c, NEW v, NEW k, NEW i \in Nat, NEW s \in Nat, Path(c, v, k, i, s),
         NEW n \in Nat, i <= n, n < s, reader'.loc = v[n], reader'.expect = reader.expect
  PROVE  Path(c, v, k, n, s)'
<1>1. /\ v \in [Nat -> Locations] /\ s <= bucket[<<TRUE, k[2]>>].size
      /\ \A j \in Nat : i <= j /\ j < s => On(c, k, v[j], j)
      /\ \A j \in Nat : i <= j /\ j + 1 < s => Published(v[j]) = v[j + 1]
  BY DEF Path
<1>2. \A j \in Nat : n <= j => i <= j
  OBVIOUS
<1>3. ASSUME NEW j \in Nat, n <= j, j < s PROVE On(c, k, v[j], j)'
  <2>1. On(c, k, v[j], j)
    BY <1>1, <1>2, <1>3
  <2> QED BY <2>1, StillFacts DEF On, Still
<1>4. ASSUME NEW j \in Nat, n <= j, j + 1 < s PROVE Published(v[j])' = v[j + 1]
  BY <1>1, <1>2, <1>4, StillFacts
<1>5. s <= bucket'[<<TRUE, k[2]>>].size
  BY <1>1 DEF Still
<1> QED BY <1>1, <1>3, <1>4, <1>5 DEF Path

LEMMA ReadsFirstSize ==
  ASSUME TableTypes, NEW c, ChainsHold(c), Still, NEW found \in Finds, found.key \in Keys,
         content[found.key] \in found.expect,
         writer.pc \in {"create", "overwrite"} /\ writer.key = found.key
           => found.shared /\ writer.payload \in found.expect,
         FirstSize(found)
  PROVE  Reads(c)' /\ Expected'
<1>k. PICK k : k = found.key
  OBVIOUS
<1>id. PICK id : id = k[2]
  OBVIOUS
<1>e. PICK e : e = <<TRUE, id>>
  OBVIOUS
<1>s. PICK s : s = bucket[e].size
  OBVIOUS
<1>0. MemoryType /\ k \in Keys /\ id \in Ids /\ e = Entry(k) /\ s \in Nat /\ c \in Chains
  BY <1>k, <1>id, <1>e, <1>s, KeyFacts, SizeType DEF TableTypes, Entry, ChainsHold
<1> DEFINE bare == writer.pc = "create" /\ writer.key # k /\ Bare(k, writer.loc)
<1>1. CASE s = 0
  <2>1. reader'.pc = "idle"
    BY <1>0, <1>1, <1>k, <1>s DEF FirstSize, Return, NoFind
  <2> QED BY <2>1 DEF Reads, Under, Expected, Finding
<1>2. CASE s # 0
  <2>b. PICK b : b = ~bare
    OBVIOUS
  <2>1. reader' = [found EXCEPT !.pc = "compare", !.i = 0, !.size = s, !.loc = e, !.calm = b]
    BY <1>0, <1>2, <1>k, <1>s, <2>b DEF FirstSize
  <2>2. /\ reader'.pc = "compare" /\ reader'.i = 0 /\ reader'.size = s /\ reader'.loc = e /\ reader'.key = k
        /\ reader'.expect = found.expect /\ reader'.shared = found.shared /\ (reader'.calm => ~bare)
    BY <1>k, <2>1, <2>b DEF Finds
  <2>3. Expected'
    BY <1>k, <2>2 DEF Expected, Still
  <2>v. PICK v : v = c[id]
    OBVIOUS
  <2>4. v \in [Nat -> Locations] /\ v[0] = e /\ 0 < s
    <3>1. v[0] = e
      BY <1>0, <1>e, <2>v DEF ChainsHold, Rooted
    <3>2. v \in [Nat -> Locations]
      BY <1>0, <2>v DEF Chains
    <3>3. 0 < s
      BY <1>0, <1>2
    <3> QED BY <3>1, <3>2, <3>3
  <2>5. Creating(id) => s = 1 /\ writer.loc = e
    BY <1>0, <1>e, <1>s DEF ChainsHold, Creates, Creating, Entry
  <2>6. Path(c, v, k, 0, s)'
    <3>1. \A j \in Nat : On(c, k, v[j], j)'
      BY <1>id, <2>v DEF On
    <3>2. ASSUME NEW j \in Nat, j + 1 < s PROVE Published(v[j])' = v[j + 1]
      <4>1. ~Creating(id)
        BY <2>5, <3>2
      <4>2. Place(id, j + 1)
        BY <1>e, <1>s, <3>2, <4>1 DEF Place
      <4>3. Published(c[id][j]) = c[id][j + 1]
        BY <1>0, <4>2 DEF ChainsHold, Linked
      <4> QED BY <2>v, <4>3, StillFacts
    <3>3. s <= bucket'[<<TRUE, k[2]>>].size
      BY <1>0, <1>id, <1>e, <1>s DEF Still
    <3> QED BY <2>2, <2>4, <3>1, <3>2, <3>3 DEF Path
  <2>7. Creating(id) => NFOUND \in found.expect
    BY <1>0, <1>id, <1>k DEF ChainsHold, Holds, Place
  <2>8. Ahead(c, k, 0, s)'
    <3>1. CASE NFOUND \in found.expect
      BY <2>2, <3>1 DEF Ahead
    <3>2. CASE NFOUND \notin found.expect
      <4>1. PICK m \in Nat : Place(id, m) /\ bucket[c[id][m]].hi = Hi(k)
        BY <1>0, <1>id, <1>k, <3>2 DEF ChainsHold, Holds
      <4>2. m < s /\ 0 <= m
        BY <1>e, <1>s, <4>1 DEF Place
      <4> QED BY <1>id, <2>2, <4>1, <4>2 DEF Ahead, Still
    <3> QED BY <3>1, <3>2
  <2>9. ASSUME reader'.calm PROVE Seen(k, 0, s)'
    <3>1. ASSUME Creating(id), writer.key # k PROVE Hi(k) # 0
      BY <1>0, <2>2, <2>5, <2>9, <3>1 DEF Bare, Creating
    <3> QED BY <1>id, <2>2, <2>7, <3>1, StillFacts DEF Seen, Still
  <2>10. ASSUME Under' PROVE \E w : Sees(c, w, reader.key, reader.i, reader.size)'
    <3>1. Sees(c, v, k, 0, s)'
      BY <2>6, <2>8, <2>9, <2>10 DEF Under, Sees
    <3>2. Sees(c, v, reader.key, reader.i, reader.size)'
      BY <2>2, <3>1 DEF Sees, Path, Ahead, Seen, On
    <3> QED BY <3>2
  <2>11. reader'.pc \notin {"check", "recheck"}
    BY <2>2
  <2> QED BY <2>3, <2>10, <2>11 DEF Reads
<1> QED BY <1>1, <1>2

LEMMA PayloadFound == ASSUME NEW p \in Payloads PROVE p # NFOUND
<1>1. p \in (0..MaxInserts) \X (0..MaxInserts)
  BY DEF Payloads
<1> QED BY <1>1, QedTableAssumption

\* A payload that is made of halves of two expected ones.
LEMMA HalvesGood ==
  ASSUME reader.shared, NEW p \in Payloads,
         NEW a \in (reader.expect \ {NFOUND}) \cup {Blank}, NEW b \in (reader.expect \ {NFOUND}) \cup {Blank},
         p[1] \in {a[1], b[1]}, p[2] \in {a[2], b[2]}
  PROVE  Good(p)
<1>1. p = <<p[1], p[2]>>
  BY PayloadFacts
<1>2. PICK x \in {a, b} : p[1] = x[1]
  OBVIOUS
<1>3. PICK y \in {a, b} : p[2] = y[2]
  OBVIOUS
<1>4. p = <<x[1], y[2]>>
  BY <1>1, <1>2, <1>3
<1> QED BY <1>2, <1>3, <1>4 DEF Good

LEMMA GoodPayload ==
  ASSUME TableTypes, NEW c, ChainsHold(c), Unwritten, Expected, Finding,
         NEW k \in Keys, k = reader.key, NEW i \in Nat, NEW s \in Nat, NEW v, Sees(c, v, k, i, s),
         bucket[reader.loc].hi = Hi(k)
  PROVE  Good(bucket[reader.loc].payload)
<1>id. PICK id : id = k[2]
  OBVIOUS
<1>l. PICK l : l = reader.loc
  OBVIOUS
<1>p. PICK p : p = bucket[l].payload
  OBVIOUS
<1>0. MemoryType /\ id \in Ids /\ writer \in Works /\ l \in Locations
  BY <1>id, <1>l, KeyFacts DEF TableTypes, FindKnows
<1>1. p \in Payloads
  BY <1>0, <1>p, BucketType DEF Buckets
<1>2. i < s /\ s <= bucket[<<TRUE, id>>].size /\ On(c, k, l, i) /\ Seen(k, i, s)
  <2>1. i <= i
    OBVIOUS
  <2> QED BY <1>id, <1>l, <2>1 DEF Sees, Path
<1>3. content[k] \in reader.expect
  BY DEF Expected
<1>4. CASE l # c[id][i]
  BY <1>2, <1>4, <1>id, <1>l, <1>p DEF On, Good
<1>5. CASE l = c[id][i] /\ Creating(id)
  <2>1. /\ writer.pc = "create" /\ writer.key[2] = id /\ writer.key \in Keys
        /\ writer.loc = <<TRUE, id>> /\ bucket[<<TRUE, id>>].size = 1
    BY <1>5 DEF Creating, ChainsHold, Creates, Entry, TableTypes, WorkKnows, CallPcs
  <2>2. i = 0
    BY <1>2, <2>1
  <2>3. writer.loc = l
    BY <1>0, <1>5, <2>1, <2>2 DEF ChainsHold, Rooted
  <2>4. /\ Written(l) /\ Was(Blank) /\ ("key" \notin writer.todo => bucket[l].hi = Hi(writer.key))
        /\ ("key" \in writer.todo => bucket[l].hi = 0)
    BY <2>1, <2>3 DEF ChainsHold, Creates, Unwritten
  <2>5. writer.key = k
    <3>1. SUFFICES ASSUME writer.key # k PROVE FALSE
      OBVIOUS
    <3>2. Hi(k) # 0
      BY <1>2, <1>5, <1>id, <3>1 DEF Seen
    <3>3. Hi(writer.key) = Hi(k)
      BY <1>l, <2>4, <3>2
    <3> QED BY <1>id, <2>1, <3>1, <3>3, KeyFacts DEF Hi
  <2>6. reader.shared /\ writer.payload \in reader.expect \ {NFOUND}
    <3>1. reader.shared /\ writer.payload \in reader.expect
      BY <2>1, <2>5 DEF Expected
    <3>2. writer.payload \in Payloads
      BY <1>0 DEF Works
    <3> QED BY <3>1, <3>2, PayloadFound
  <2>7. p[1] \in {writer.payload[1], Blank[1]} /\ p[2] \in {writer.payload[2], Blank[2]}
    BY <1>p, <2>3, <2>4 DEF Written, Was
  <2> QED BY <1>1, <1>l, <1>p, <2>6, <2>7, HalvesGood
<1>6. CASE l = c[id][i] /\ ~Creating(id)
  <2>1. Place(id, i)
    BY <1>0, <1>2, <1>6, <1>id, PathPlaces
  <2>2. CASE ~Overwriting(k)
    <3>1. content[k] = p
      BY <1>6, <1>id, <1>l, <1>p, <2>1, <2>2 DEF ChainsHold, Holds
    <3> QED BY <1>3, <1>l, <1>p, <3>1 DEF Good
  <2>3. CASE Overwriting(k)
    <3>0. writer.pc = "overwrite" /\ writer.key = k
      BY <2>3 DEF Overwriting
    <3>1. PICK n \in Nat : Place(id, n) /\ writer.loc = c[id][n] /\ bucket[c[id][n]].hi = Hi(k)
      BY <1>id, <3>0 DEF ChainsHold, Overwrites
    <3>2. n = i
      BY <1>0, <1>6, <1>l, <2>1, <3>1 DEF ChainsHold, KeysOnce
    <3>3. writer.loc = l
      BY <1>6, <3>1, <3>2
    <3>4. Written(l) /\ Was(content[k]) /\ content[k] \in Payloads
      BY <3>0, <3>3 DEF ChainsHold, Overwrites, Unwritten
    <3>5. p[1] \in {writer.payload[1], content[k][1]} /\ p[2] \in {writer.payload[2], content[k][2]}
      BY <1>p, <3>3, <3>4 DEF Written, Was
    <3>6. reader.shared /\ writer.payload \in reader.expect /\ writer.payload \in Payloads
      BY <1>0, <3>0 DEF Expected, Works
    <3>7. content[k] \in reader.expect \ {NFOUND} /\ writer.payload \in reader.expect \ {NFOUND}
      BY <1>3, <3>4, <3>6, PayloadFound
    <3> QED BY <1>1, <1>l, <1>p, <3>5, <3>6, <3>7, HalvesGood
  <2> QED BY <2>2, <2>3
<1> QED BY <1>4, <1>5, <1>6

\* If the reader has only found out something about its bucket the rest is as before.
LEMMA SeesStill ==
  ASSUME Still, NEW c, NEW v, NEW k, NEW i \in Nat, NEW s \in Nat, Sees(c, v, k, i, s),
         reader'.loc = reader.loc, reader'.expect = reader.expect,
         reader'.pc # "advance",
         reader'.pc \in {"payload", "check", "recheck"} => bucket[reader.loc].hi = Hi(k)
  PROVE  Sees(c, v, k, i, s)'
<1>1. Path(c, v, k, i, s)'
  <2>1. i <= i /\ i < s /\ reader'.loc = v[i] /\ Path(c, v, k, i, s)
    BY DEF Sees, Path
  <2> QED BY <2>1, PathStill
<1>2. Ahead(c, k, i, s)'
  BY DEF Sees, Ahead, Still
<1>3. Seen(k, i, s)'
  BY StillFacts DEF Sees, Seen, Still
<1> QED BY <1>1, <1>2, <1>3 DEF Sees

\* What the reader's steps inside a Find do not change.
Goes == reader'.key = reader.key /\ reader'.expect = reader.expect /\ reader'.shared = reader.shared
        /\ reader'.pc # "idle"

LEMMA ExpectedGoes == ASSUME Still, Goes, Finding, Expected PROVE Expected'
BY DEF Still, Goes, Finding, Expected

LEMMA ReaderIdle == ASSUME reader'.pc = "idle", NEW c PROVE Reads(c)' /\ Expected'
BY DEF Reads, Under, Expected, Finding

LEMMA ReaderUnder ==
  ASSUME TableTypes, NEW c, Reads(c), Under
  PROVE  /\ Finding /\ reader.key \in Keys /\ reader.i \in Nat /\ reader.size \in Nat /\ reader.loc \in Locations
         /\ \E v : Sees(c, v, reader.key, reader.i, reader.size)
<1>1. Finding
  BY DEF Under, Finding
<1> QED BY <1>1, SizesType DEF TableTypes, FindKnows, Finds, Reads

\* The reader stays where it is and has not read a link.
LEMMA ReadsHere ==
  ASSUME TableTypes, NEW c, Reads(c), Still, Goes, Finding, Expected,
         UNCHANGED <<reader.i, reader.size, reader.loc, reader.calm>>, reader'.pc # "advance",
         Under' => Under,
         reader'.pc \in {"payload", "check", "recheck"} /\ reader.calm => bucket[reader.loc].hi = Hi(reader.key),
         reader'.pc \in {"check", "recheck"} /\ reader.calm => Good(reader'.payload)
  PROVE  Reads(c)' /\ Expected'
<1>1. Expected'
  BY ExpectedGoes
<1>2. ASSUME reader'.pc \in {"check", "recheck"}, reader'.calm PROVE Good(reader.payload)'
  <2>1. Good(reader'.payload)
    BY <1>2
  <2> QED BY <2>1 DEF Good, Goes
<1>3. ASSUME Under' PROVE \E v : Sees(c, v, reader.key, reader.i, reader.size)'
  <2>k. PICK k : k = reader.key
    OBVIOUS
  <2>i. PICK i : i = reader.i
    OBVIOUS
  <2>s. PICK s : s = reader.size
    OBVIOUS
  <2>0. Under /\ reader'.calm
    BY <1>3 DEF Under
  <2>1. i \in Nat /\ s \in Nat
    BY <2>0, <2>i, <2>s, ReaderUnder
  <2>v. PICK v : Sees(c, v, k, i, s)
    BY <2>0, <2>k, <2>i, <2>s, ReaderUnder
  <2>2. Sees(c, v, k, i, s)'
    BY <2>0, <2>1, <2>k, <2>v, SeesStill DEF Goes
  <2>3. Sees(c, v, reader.key, reader.i, reader.size)'
    BY <2>2, <2>k, <2>i, <2>s DEF Sees, Path, Ahead, Seen, On, Goes
  <2> QED BY <2>3
<1> QED BY <1>1, <1>2, <1>3 DEF Reads

LEMMA ReadsCompare ==
  ASSUME TableTypes, NEW c, ChainsHold(c), Expected, Reads(c), Still, Compare PROVE Reads(c)' /\ Expected'
<1>0. reader \in Finds /\ reader.pc = "compare" /\ Finding
  BY DEF TableTypes, Compare, Finding
<1>1. CASE bucket[reader.loc].hi = Hi(reader.key)
  <2>1. reader' = [reader EXCEPT !.pc = "payload"]
    BY <1>1 DEF Compare
  <2>2. Goes /\ UNCHANGED <<reader.i, reader.size, reader.loc, reader.calm>> /\ reader'.pc = "payload"
    BY <1>0, <2>1 DEF Goes, Finds
  <2>3. Under' => Under
    BY <1>0, <2>2 DEF Under
  <2> QED BY <1>0, <1>1, <2>2, <2>3, ReadsHere
<1>2. CASE bucket[reader.loc].hi # Hi(reader.key) /\ reader.i + 1 = reader.size
  <2>1. reader'.pc = "idle"
    BY <1>2 DEF Compare, Return, NoFind
  <2> QED BY <2>1, ReaderIdle
<1>3. CASE bucket[reader.loc].hi # Hi(reader.key) /\ reader.i + 1 # reader.size
  <2>k. PICK k : k = reader.key
    OBVIOUS
  <2>i. PICK i : i = reader.i
    OBVIOUS
  <2>s. PICK s : s = reader.size
    OBVIOUS
  <2>l. PICK l : l = reader.loc
    OBVIOUS
  <2>n. PICK n : n = Published(l)
    OBVIOUS
  <2>1. reader' = [reader EXCEPT !.pc = "advance", !.link = n]
    BY <1>3, <2>l, <2>n DEF Compare
  <2>2. /\ Goes /\ reader'.pc = "advance" /\ reader'.link = n /\ reader'.key = k /\ reader'.i = i /\ reader'.size = s
        /\ reader'.loc = l /\ reader'.calm = reader.calm /\ reader'.expect = reader.expect
    BY <1>0, <2>1, <2>k, <2>i, <2>s, <2>l DEF Goes, Finds
  <2>3. Expected'
    BY <1>0, <2>2, ExpectedGoes
  <2>4. ASSUME Under' PROVE \E v : Sees(c, v, reader.key, reader.i, reader.size)'
    <3>1. Under
      BY <1>0, <2>2, <2>4 DEF Under
    <3>2. k \in Keys /\ i \in Nat /\ s \in Nat /\ \E v : Sees(c, v, k, i, s)
      BY <2>k, <2>i, <2>s, <3>1, ReaderUnder
    <3>v. PICK v : Sees(c, v, k, i, s)
      BY <3>2
    <3>3. Path(c, v, k, i, s) /\ Ahead(c, k, i, s) /\ Seen(k, i, s)
      BY <3>v DEF Sees
    <3>4. i <= i /\ i < s /\ v[i] = l /\ i + 1 < s
      <4>1. i < s /\ v[i] = l
        BY <2>l, <3>3 DEF Path
      <4>2. i + 1 # s
        BY <1>3, <2>i, <2>s
      <4> QED BY <3>2, <4>1, <4>2
    <3>5. Path(c, v, k, i, s)'
      BY <2>2, <3>2, <3>3, <3>4, PathStill
    <3>6. bucket[c[k[2]][i]].hi # Hi(k)
      <4>1. On(c, k, l, i)
        BY <3>2, <3>3, <3>4 DEF Path
      <4>2. bucket[l].hi # Hi(k)
        BY <1>3, <2>k, <2>l
      <4> QED BY <4>1, <4>2 DEF On
    <3>7. Ahead(c, k, i, s)'
      BY <2>2, <3>3, <3>6 DEF Ahead, Still
    <3>8. Seen(k, i, s)'
      <4>1. Published(reader.loc)' = Published(l)'
        BY <2>2 DEF Published, NextBucket
      <4>2. reader'.link = Published(reader.loc)'
        BY <2>2, <2>n, <4>1, StillFacts
      <4> QED BY <2>2, <3>3, <3>4, <4>2, StillFacts DEF Seen, Still
    <3>9. Sees(c, v, reader.key, reader.i, reader.size)'
      BY <2>2, <3>5, <3>7, <3>8 DEF Sees, Path, Ahead, Seen, On
    <3> QED BY <3>9
  <2>5. reader'.pc \notin {"check", "recheck"}
    BY <2>2
  <2> QED BY <2>3, <2>4, <2>5 DEF Reads
<1> QED BY <1>1, <1>2, <1>3

LEMMA ReadsAdvance ==
  ASSUME TableTypes, NEW c, ChainsHold(c), Expected, Reads(c), Still, Advance PROVE Reads(c)' /\ Expected'
<1>0. reader \in Finds /\ reader.pc = "advance" /\ Finding /\ reader.link \in Locations /\ MemoryType
  BY DEF TableTypes, FindKnows, Advance, Finding
<1>k. PICK k : k = reader.key
  OBVIOUS
<1>i. PICK i : i = reader.i
  OBVIOUS
<1>n. PICK n : n = i + 1
  OBVIOUS
<1>s. PICK s : s = reader.size
  OBVIOUS
<1>l. PICK l : l = reader.loc
  OBVIOUS
<1>b. PICK b : b = bucket[l].internal
  OBVIOUS
<1>t. PICK t : t = <<b, reader.link[2]>>
  OBVIOUS
<1>c. PICK calm : calm = (reader.calm /\ b = reader.link[1])
  OBVIOUS
<1>1. reader' = [reader EXCEPT !.pc = "compare", !.i = n, !.loc = t, !.link = None, !.calm = calm]
  BY <1>i, <1>n, <1>l, <1>b, <1>t, <1>c DEF Advance
<1>2. /\ Goes /\ reader'.pc = "compare" /\ reader'.key = k /\ reader'.i = n /\ reader'.size = s /\ reader'.loc = t
      /\ reader'.calm = calm /\ reader'.expect = reader.expect
  BY <1>0, <1>1, <1>k, <1>s DEF Goes, Finds
<1>3. Expected'
  BY <1>0, <1>2, ExpectedGoes
<1>4. ASSUME Under' PROVE \E v : Sees(c, v, reader.key, reader.i, reader.size)'
  <2>1. Under /\ b = reader.link[1]
    BY <1>0, <1>2, <1>4, <1>c DEF Under
  <2>2. k \in Keys /\ i \in Nat /\ s \in Nat /\ l \in Locations /\ \E v : Sees(c, v, k, i, s)
    BY <1>k, <1>i, <1>s, <1>l, <2>1, ReaderUnder
  <2>v. PICK v : Sees(c, v, k, i, s)
    BY <2>2
  <2>3. Path(c, v, k, i, s) /\ Ahead(c, k, i, s) /\ Seen(k, i, s)
    BY <2>v DEF Sees
  <2>4. n < s /\ n \in Nat /\ i <= n /\ i <= i
    BY <1>0, <1>n, <2>2, <2>3 DEF Seen
  <2>5. reader.link = Published(l)
    <3>1. reader.link = Published(l) \/ (~reader.link[1] /\ Published(l)[1])
      BY <1>0, <1>l, <2>3 DEF Seen, Torn
    <3>2. b \in BOOLEAN
      BY <1>0, <1>b, <2>2, BucketType DEF Buckets
    <3>3. Published(l)[1] => b
      BY <1>b, <3>2 DEF Published, NextBucket
    <3> QED BY <2>1, <3>1, <3>3
  <2>6. t = v[n]
    <3>1. v[i] = l /\ Published(v[i]) = v[n]
      BY <1>l, <1>n, <2>2, <2>3, <2>4 DEF Path
    <3>2. t = reader.link
      BY <1>0, <1>t, <2>1, LocationFacts
    <3> QED BY <2>5, <3>1, <3>2
  <2>7. Path(c, v, k, n, s)'
    BY <1>2, <2>2, <2>3, <2>4, <2>6, PathStill
  <2>8. Ahead(c, k, n, s)'
    <3>1. CASE NFOUND \in reader.expect
      BY <1>2, <3>1 DEF Ahead
    <3>2. CASE NFOUND \notin reader.expect
      <4>1. PICK m \in Nat : i <= m /\ m < s /\ bucket[c[k[2]][m]].hi = Hi(k) /\ m # i
        BY <1>0, <2>3, <3>2 DEF Ahead
      <4>2. n <= m
        BY <1>n, <2>2, <4>1
      <4> QED BY <1>2, <4>1, <4>2 DEF Ahead, Still
    <3> QED BY <3>1, <3>2
  <2>9. Seen(k, n, s)'
    BY <1>2, <2>3, StillFacts DEF Seen, Still
  <2>10. Sees(c, v, reader.key, reader.i, reader.size)'
    BY <1>2, <2>7, <2>8, <2>9 DEF Sees, Path, Ahead, Seen, On
  <2> QED BY <2>10
<1>5. reader'.pc \notin {"check", "recheck"}
  BY <1>2
<1> QED BY <1>3, <1>4, <1>5 DEF Reads

LEMMA ReadsPayload ==
  ASSUME TableTypes, NEW c, ChainsHold(c), Unwritten, Expected, Reads(c), Still, ReadPayload
  PROVE  Reads(c)' /\ Expected'
<1>0. reader \in Finds /\ reader.pc = "payload" /\ Finding
  BY DEF TableTypes, ReadPayload, Finding
<1>1. /\ Goes /\ UNCHANGED <<reader.i, reader.size, reader.loc, reader.calm>> /\ reader'.pc = "check"
      /\ reader'.payload = bucket[reader.loc].payload
  BY <1>0 DEF ReadPayload, Goes, Finds
<1>2. Under' => Under
  BY <1>0, <1>1 DEF Under
<1>3. ASSUME reader.calm PROVE bucket[reader.loc].hi = Hi(reader.key) /\ Good(bucket[reader.loc].payload)
  <2>1. Under
    BY <1>0, <1>3 DEF Under
  <2>k. PICK k : k = reader.key
    OBVIOUS
  <2>i. PICK i : i = reader.i
    OBVIOUS
  <2>s. PICK s : s = reader.size
    OBVIOUS
  <2>2. k \in Keys /\ i \in Nat /\ s \in Nat /\ \E v : Sees(c, v, k, i, s)
    BY <2>1, <2>k, <2>i, <2>s, ReaderUnder
  <2>v. PICK v : Sees(c, v, k, i, s)
    BY <2>2
  <2>3. bucket[reader.loc].hi = Hi(k)
    BY <1>0, <2>v DEF Sees, Seen
  <2>4. Good(bucket[reader.loc].payload)
    BY <1>0, <2>2, <2>3, <2>k, <2>v, GoodPayload
  <2> QED BY <2>3, <2>4, <2>k
<1> QED BY <1>0, <1>1, <1>2, <1>3, ReadsHere

LEMMA ReadsChecks ==
  ASSUME TableTypes, NEW c, Expected, Reads(c), Still, CheckSize \/ CheckPayload
  PROVE  Reads(c)' /\ Expected'
<1>0. reader \in Finds /\ reader.pc \in {"check", "recheck"} /\ Finding
  BY DEF TableTypes, CheckSize, CheckPayload, Finding
<1>1. \/ reader' = Return(reader.payload)
      \/ \E pc \in {"begin", "recheck"} : reader' = [reader EXCEPT !.pc = pc]
  BY DEF CheckSize, CheckPayload
<1>2. CASE reader' = Return(reader.payload)
  <2>1. reader'.pc = "idle"
    BY <1>2 DEF Return, NoFind
  <2> QED BY <2>1, ReaderIdle
<1>3. CASE \E pc \in {"begin", "recheck"} : reader' = [reader EXCEPT !.pc = pc]
  <2>1. PICK pc \in {"begin", "recheck"} : reader' = [reader EXCEPT !.pc = pc]
    BY <1>3
  <2>2. /\ Goes /\ UNCHANGED <<reader.i, reader.size, reader.loc, reader.calm, reader.payload>> /\ reader'.pc = pc
    BY <1>0, <2>1 DEF Goes, Finds
  <2>3. Under' => Under
    BY <1>0, <2>2 DEF Under
  <2>4. ASSUME reader.calm PROVE bucket[reader.loc].hi = Hi(reader.key) /\ Good(reader'.payload)
    <3>1. Under
      BY <1>0, <2>4 DEF Under
    <3>2. Good(reader.payload)
      BY <1>0, <2>4 DEF Reads
    <3>v. PICK v : Sees(c, v, reader.key, reader.i, reader.size)
      BY <3>1, ReaderUnder
    <3>3. bucket[reader.loc].hi = Hi(reader.key)
      BY <1>0, <3>v DEF Sees, Seen
    <3> QED BY <2>2, <3>2, <3>3
  <2> QED BY <1>0, <2>2, <2>3, <2>4, ReadsHere
<1> QED BY <1>1, <1>2, <1>3

LEMMA ReadsFind ==
  ASSUME TableTypes, NEW c, ChainsHold(c), Still, NEW k \in Keys, Find(k) PROVE Reads(c)' /\ Expected'
<1>w. PICK own : own = (writer.pc \in {"create", "overwrite"} /\ writer.key = k)
  OBVIOUS
<1>x. PICK expect : expect = {content[k]} \cup (IF own THEN {writer.payload} ELSE {})
  OBVIOUS
<1>f. PICK found : found = [NoFind EXCEPT !.key = k, !.expect = expect, !.shared = own]
  OBVIOUS
<1>1. own \in BOOLEAN /\ expect \in SUBSET (Payloads \cup {NFOUND})
  BY <1>w, <1>x DEF TableTypes, Works
<1>2. FirstSize(found)
  BY <1>w, <1>x, <1>f DEF Find
<1>3. found \in Finds /\ found.key = k /\ found.expect = expect /\ found.shared = own
  BY <1>1, <1>f, NoFindType DEF Finds, NoFind
<1>4. content[found.key] \in found.expect
  BY <1>3, <1>x
<1>5. writer.pc \in {"create", "overwrite"} /\ writer.key = found.key => found.shared /\ writer.payload \in found.expect
  BY <1>3, <1>w, <1>x
<1> QED BY <1>2, <1>3, <1>4, <1>5, ReadsFirstSize

LEMMA ReadsFindAgain ==
  ASSUME TableTypes, NEW c, ChainsHold(c), Expected, Still, FindAgain PROVE Reads(c)' /\ Expected'
<1>1. reader \in Finds /\ Finding /\ reader.key \in Keys /\ FirstSize(reader)
  BY DEF TableTypes, FindKnows, Finding, FindAgain
<1>2. content[reader.key] \in reader.expect
  BY <1>1 DEF Expected
<1>3. writer.pc \in {"create", "overwrite"} /\ writer.key = reader.key => reader.shared /\ writer.payload \in reader.expect
  BY <1>1 DEF Expected
<1> QED BY <1>1, <1>2, <1>3, ReadsFirstSize

LEMMA ReadsStep ==
  ASSUME TableTypes, NEW c, ChainsHold(c), Unwritten, Expected, Reads(c), ReaderStep \/ \E k \in Keys : Find(k)
  PROVE  Still /\ Reads(c)' /\ Expected'
<1>1. Still
  BY DEF ReaderStep, Find, Still
<1>2. CASE \E k \in Keys : Find(k)
  BY <1>1, <1>2, ReadsFind
<1>3. CASE FindAgain
  BY <1>1, <1>3, ReadsFindAgain
<1>4. CASE Compare \/ Advance
  BY <1>1, <1>4, ReadsCompare, ReadsAdvance
<1>5. CASE ReadPayload \/ CheckSize \/ CheckPayload
  BY <1>1, <1>5, ReadsPayload, ReadsChecks
<1> QED BY <1>1, <1>2, <1>3, <1>4, <1>5 DEF ReaderStep

-----------------------------------------------------------------------------
ReadOK(c) == ChainsHold(c) /\ Expected /\ Fresh /\ Unwritten /\ Reads(c)
Regular == ~displaced => \E c : ReadOK(c)

LEMMA RegularInit == TableInit => Regular
<1> SUFFICES ASSUME TableInit PROVE \E c : ReadOK(c)
  BY DEF Regular
<1>1. PICK c : ChainsHold(c)
  BY ChainsInit
<1>2. reader.pc = "idle" /\ writer.pc = "idle"
  BY DEF TableInit, NoFind, NoWork
<1>3. Expected /\ Reads(c)
  BY <1>2 DEF Expected, Finding, Reads, Under
<1>4. \A l \in Locations : bucket[l].hi = 0 /\ bucket[l].payload = Blank
  BY DEF TableInit
<1>5. Fresh
  BY <1>4, IdFacts DEF Fresh
<1>6. Unwritten
  BY <1>2 DEF Unwritten
<1> QED BY <1>1, <1>3, <1>5, <1>6 DEF ReadOK

LEMMA RegularNext ==
  ASSUME TableTypes, Regular, [TableNext]_tableVars, RoomLeft PROVE Regular'
<1>1. SUFFICES ASSUME ~displaced' PROVE \E d : ReadOK(d)'
  BY DEF Regular
<1>2. PICK c : ReadOK(c)
  BY <1>1, DisplacedStays DEF Regular
<1>3. ChainsHold(c) /\ Expected /\ Fresh /\ Unwritten /\ Reads(c) /\ TableTypes'
  BY <1>2, TypesNext DEF ReadOK
<1>4. Fresh' /\ Unwritten'
  BY <1>1, <1>3, BesideNext DEF Beside
<1>5. CASE Aside
  <2>1. Expected'
    BY <1>3, <1>5, WatchNext DEF Aside
  <2>2. PICK d : ChainsHold(d)' /\ Reads(d)'
    BY <1>1, <1>3, <1>5, ReadsBeside
  <2> QED BY <1>4, <2>1, <2>2 DEF ReadOK
<1>6. CASE ~Aside
  <2>1. Still /\ Reads(c)' /\ Expected'
    BY <1>3, <1>6, ReadsStep DEF Aside
  <2>2. ChainsHold(c)'
    BY <1>3, <2>1, ChainsStill DEF Still
  <2> QED BY <1>4, <2>1, <2>2 DEF ReadOK
<1> QED BY <1>5, <1>6

\* Every way a Find can end.
LEMMA RegularGives ==
  ASSUME TableTypes, Regular, [TableNext]_tableVars, Finding, reader'.pc = "idle", reader.calm, ~displaced
  PROVE  Good(reader'.payload)
<1>1. PICK c : ReadOK(c)
  BY DEF Regular
<1>2. ChainsHold(c) /\ Expected /\ Unwritten /\ Reads(c)
  BY <1>1 DEF ReadOK
<1>3. CASE Aside
  <2>1. Watching
    BY <1>2, <1>3, WatchNext DEF Aside
  <2> QED BY <2>1 DEF Watching, Finding
<1>4. CASE \E k \in Keys : Find(k)
  BY <1>4 DEF Find
<1>k. PICK k : k = reader.key
  OBVIOUS
<1>i. PICK i : i = reader.i
  OBVIOUS
<1>s. PICK s : s = reader.size
  OBVIOUS
<1>5. k \in Keys /\ k[2] \in Ids /\ content[k] \in reader.expect /\ reader \in Finds
  BY <1>2, <1>k, KeyFacts DEF TableTypes, FindKnows, Expected
<1>6. CASE FindAgain
  <2>1. bucket[Entry(k)].size = 0 /\ reader' = Return(NFOUND)
    <3>1. CASE bucket[Entry(k)].size # 0
      <4>1. \E b, e, n : reader' = [reader EXCEPT !.pc = "compare", !.i = 0, !.size = n, !.loc = e, !.calm = b]
        BY <1>6, <1>k, <3>1 DEF FindAgain, FirstSize
      <4>2. reader'.pc = "compare"
        BY <1>5, <4>1 DEF Finds
      <4> QED BY <4>2
    <3>2. CASE bucket[Entry(k)].size = 0
      BY <1>6, <1>k, <3>2 DEF FindAgain, FirstSize
    <3> QED BY <3>1, <3>2
  <2>2. \A j \in Nat : ~Place(k[2], j)
    BY <2>1 DEF Place, Entry
  <2>3. content[k] = NFOUND
    BY <1>2, <1>5, <2>2 DEF ChainsHold, Holds
  <2>4. reader'.payload = NFOUND
    BY <2>1 DEF Return, NoFind
  <2> QED BY <1>5, <2>3, <2>4 DEF Good
<1>7. CASE Compare
  <2>0. reader.pc = "compare" /\ Under
    BY <1>7 DEF Compare, Under
  <2>1. bucket[reader.loc].hi # Hi(k) /\ i + 1 = s /\ reader' = Return(NFOUND)
    <3>1. \/ reader' = [reader EXCEPT !.pc = "payload"]
          \/ \E l : reader' = [reader EXCEPT !.pc = "advance", !.link = l]
          \/ bucket[reader.loc].hi # Hi(k) /\ i + 1 = s /\ reader' = Return(NFOUND)
      BY <1>7, <1>k, <1>i, <1>s DEF Compare
    <3>2. reader' # [reader EXCEPT !.pc = "payload"]
      BY <1>5 DEF Finds
    <3>3. ASSUME NEW l, reader' = [reader EXCEPT !.pc = "advance", !.link = l] PROVE FALSE
      <4>1. reader'.pc = "advance"
        BY <1>5, <3>3 DEF Finds
      <4> QED BY <4>1
    <3> QED BY <3>1, <3>2, <3>3
  <2>2. i \in Nat /\ s \in Nat /\ \E v : Sees(c, v, k, i, s)
    BY <1>2, <1>k, <1>i, <1>s, <2>0, ReaderUnder
  <2>v. PICK v : Sees(c, v, k, i, s)
    BY <2>2
  <2>3. Ahead(c, k, i, s) /\ On(c, k, reader.loc, i)
    <3>1. i <= i /\ i < s
      BY <2>1, <2>2
    <3> QED BY <2>2, <2>v, <3>1 DEF Sees, Path
  <2>4. NFOUND \in reader.expect
    <3>1. SUFFICES ASSUME NFOUND \notin reader.expect PROVE FALSE
      OBVIOUS
    <3>2. PICK m \in Nat : i <= m /\ m < s /\ bucket[c[k[2]][m]].hi = Hi(k)
      BY <2>3, <3>1 DEF Ahead
    <3>3. m = i
      BY <2>1, <2>2, <3>2
    <3>4. bucket[reader.loc].hi = Hi(k)
      BY <2>3, <3>2, <3>3 DEF On
    <3> QED BY <2>1, <3>4
  <2>5. reader'.payload = NFOUND
    BY <2>1 DEF Return, NoFind
  <2> QED BY <2>4, <2>5 DEF Good
<1>8. CASE CheckPayload
  <2>0. reader.pc = "recheck"
    BY <1>8 DEF CheckPayload
  <2>1. reader' = Return(reader.payload) \/ reader' = [reader EXCEPT !.pc = "begin"]
    BY <1>8 DEF CheckPayload
  <2>2. reader' = Return(reader.payload)
    BY <1>5, <2>1 DEF Finds
  <2>3. reader'.payload = reader.payload
    BY <2>2 DEF Return, NoFind
  <2> QED BY <1>2, <2>0, <2>3 DEF Reads
<1>9. CASE Advance \/ ReadPayload
  <2>1. reader'.pc \in {"compare", "check"}
    BY <1>5, <1>9 DEF Advance, ReadPayload, Finds
  <2> QED BY <2>1
<1>10. CASE CheckSize
  <2>1. \E pc \in {"begin", "recheck"} : reader' = [reader EXCEPT !.pc = pc]
    BY <1>10 DEF CheckSize
  <2>2. reader'.pc \in {"begin", "recheck"}
    BY <1>5, <2>1 DEF Finds
  <2> QED BY <2>2
<1> QED BY <1>3, <1>4, <1>6, <1>7, <1>8, <1>9, <1>10 DEF Aside, ReaderStep

LEMMA RegularFinds ==
  TableTypes /\ Regular /\ [TableNext]_tableVars =>
    [Finding /\ reader'.pc = "idle" /\ reader.calm /\ ~displaced =>
       \/ reader'.payload \in reader.expect
       \/ /\ reader.shared
          /\ \E a, b \in (reader.expect \ {NFOUND}) \cup {Blank} :
               reader'.payload = <<a[1], b[2]>>]_tableVars
BY RegularGives DEF Good

\* Find<true> beside Insert and OptimizeFreeBucket: what it returns is what its key
\* had during the call, or a mixture of that where the payload was written in
\* place, for tables of every size, as long as Insert sees which chains are full.
THEOREM FindCorrect == TableSpec /\ []RoomLeft => RegularFind
<1>1. TableTypes /\ [TableNext]_tableVars => TableTypes'
  BY TypesNext
<1>2. TableTypes /\ Regular /\ [TableNext]_tableVars /\ RoomLeft => Regular'
  BY RegularNext
<1> QED BY <1>1, <1>2, TypesInit, RegularInit, RegularFinds, PTL DEF TableSpec, RegularFind

LEMMA RegularShort ==
  ASSUME MaxInserts < MaxSize, TableTypes, Regular, Short, [TableNext]_tableVars PROVE Regular' /\ Short'
<1>1. CASE displaced'
  BY <1>1 DEF Regular, Short
<1>2. CASE ~displaced'
  <2>1. ~displaced
    BY <1>2, DisplacedStays
  <2>2. RoomLeft
    BY <2>1, ShortRoom
  <2>3. Chained
    BY DEF Regular, Chained, ReadOK
  <2> QED BY <2>2, <2>3, RegularNext, ShortNext
<1> QED BY <1>1, <1>2

\* A table that gets fewer than MaxSize insertions: every Find is regular.
THEOREM SmallTableFindCorrect ==
  ASSUME MaxInserts < MaxSize PROVE TableSpec => RegularFind
<1>1. TableTypes /\ [TableNext]_tableVars => TableTypes'
  BY TypesNext
<1>2. TableTypes /\ Regular /\ Short /\ [TableNext]_tableVars => Regular' /\ Short'
  BY RegularShort
<1> QED BY <1>1, <1>2, TypesInit, RegularInit, ShortInit, RegularFinds, PTL DEF TableSpec, RegularFind
=============================================================================

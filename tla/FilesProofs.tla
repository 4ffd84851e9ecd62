----------------------------- MODULE FilesProofs -----------------------------
(***************************************************************************)
(* The parts of a server that live off files.  The counters that processes *)
(* share through a mapped file: CountersOK for any processes, threads and  *)
(* keys, and any number of copies of the map.  The monitor of changed      *)
(* files: MonitorOK for any threads, files and directories.  The graphs    *)
(* that are built from the workflow file, with its reloads: GraphsOK for   *)
(* any threads, workflows and sizes of the pool.  The reader of the file   *)
(* of counters beside its updaters: ReaderOK for any names, slices,        *)
(* thresholds and widths.                                                  *)
(***************************************************************************)
EXTENDS FileMonitor, MonitorStatus, MsReader, ExecutionGraphPool, FiniteSetTheorems, FunctionTheorems,
        SequenceTheorems, WellFoundedInduction, TLAPS

MsStages == {"start", "create", "setval", "ready"}
MsPlaces == {"idle", "lookup", "semp", "count"} \cup Inside
CacheIndex == 0..(MAX_CACHE_SIZE - 1)
Maps(n) == UNION {[K -> 1..n] : K \in SUBSET MsKeys}
Caches(n) == [Kinds -> [index : CacheIndex, maps : [CacheIndex -> Maps(n)]]]
MsEntries == [key : MsKeys \cup {NoKey}, whole : BOOLEAN, value : Nat]
ThreadStates(n) ==
  {r \in [pc : MsPlaces, key : MsKeys \cup {NoKey}, index : CacheIndex, entry : 0..n, since : Nat] :
     /\ r.pc # "idle" => r.key \in MsKeys
     /\ r.pc \in {"fill", "cache", "count"} => r.entry # NoEntry}

MsTypeOK ==
  /\ msFile \in Seq(MsEntries)
  /\ msSem \in [made : BOOLEAN, val : Nat, set : Nat]
  /\ msProc \in [MsProcs -> [stage : MsStages, cache : Caches(Len(msFile))]]
  /\ msThread \in [MsThreads -> ThreadStates(Len(msFile))]
  /\ msGhost \in [torn : BOOLEAN, counted : [MsKeys -> Nat], clashes : SUBSET Nat, deaths : Nat]

\* Who has the semaphore, as long as it was set up once.
Adders == {t \in MsThreads : msThread[t].pc \in Inside}
SemFits == msSem.set <= 1 => msSem.val + Cardinality(Adders) = msSem.set

\* A reader knows how far the index has moved on since it read it.
ReadersFit ==
  \A t \in MsThreads :
    msThread[t].pc = "lookup" /\ msThread[t].since < MAX_CACHE_SIZE =>
      \/ CacheOf(t).index = msThread[t].index + msThread[t].since
      \/ CacheOf(t).index + MAX_CACHE_SIZE = msThread[t].index + msThread[t].since

\* Entry i is complete and belongs to key k.
Owns(i, k) == i \in 1..Len(msFile) /\ msFile[i].whole /\ msFile[i].key = k

Good == ~SetTwice /\ ~msGhost.torn

EntriesFit ==
  /\ \A i \in 1..Len(msFile) :
       IF msFile[i].whole
       THEN msFile[i].key \in MsKeys /\ msFile[i].value = msGhost.counted[msFile[i].key]
       ELSE msFile[i].key = NoKey /\ \E t \in MsThreads : msThread[t].pc = "fill" /\ msThread[t].entry = i
  /\ \A i, j \in 1..Len(msFile) :
       msFile[i].whole /\ msFile[j].whole /\ msFile[i].key = msFile[j].key => i = j
  /\ \A k \in MsKeys : msGhost.counted[k] > 0 => \E i \in 1..Len(msFile) : Owns(i, k)

ThreadsFit ==
  \A t \in MsThreads :
    /\ msThread[t].pc = "fill" => /\ ~msFile[msThread[t].entry].whole
                                  /\ \A i \in 1..Len(msFile) : ~Owns(i, msThread[t].key)
    /\ msThread[t].pc \in {"cache", "count"} => Owns(msThread[t].entry, msThread[t].key)

CachesFit ==
  \A p \in MsProcs, kind \in Kinds, x \in CacheIndex :
    LET map == msProc[p].cache[kind].maps[x]
    IN  \A k \in DOMAIN map : Owns(map[k], k)

MsInv ==
  /\ MsTypeOK /\ SemFits /\ ReadersFit /\ ReadersUndisturbed
  /\ Good => EntriesFit /\ ThreadsFit /\ CachesFit

LEMMA LeastNat ==
  ASSUME NEW T \in SUBSET Nat, T # {}
  PROVE  \E x \in T : \A y \in T : x <= y
<1> DEFINE R == OpToRel(<, Nat)
<1>1. IsWellFoundedOn(R, Nat)  BY NatLessThanWellFounded
<1>2. R = {ss \in Nat \X Nat : ss[1] < ss[2]}  BY DEF OpToRel
<1> HIDE DEF R
<1>3. PICK x \in T : \A y \in T : ~(<<y, x>> \in R)  BY <1>1, WFMin
<1>4. ASSUME NEW y \in T, y < x PROVE FALSE
  <2> DEFINE yx == <<y, x>>
  <2>1. yx \in Nat \X Nat /\ yx[1] = y /\ yx[2] = x  OBVIOUS
  <2>2. yx \in R
    <3> HIDE DEF yx
    <3> QED  BY <1>2, <1>4, <2>1
  <2> QED  BY <1>3, <2>2
<1>5. \A y \in T : x <= y  BY <1>4
<1> QED  BY <1>5

LEMMA MsConstants ==
  /\ MAX_CACHE_SIZE \in Nat \ {0} /\ 0 \in CacheIndex /\ NoKey \notin MsKeys
  /\ \A t \in MsThreads : MsProcess[t] \in MsProcs /\ MsUses[t] \subseteq MsKeys
  /\ \A k \in MsKeys : k[1] \in Kinds
<1>1. MAX_CACHE_SIZE \in Nat \ {0}  BY MsAssumption
<1>2. NoKey \notin MsKeys
  <2>1. NoKey[1] \notin {"C", "T", "B"}  BY DEF NoKey
  <2> QED  BY <2>1, MsAssumption
<1> QED  BY <1>1, <1>2 DEF CacheIndex, MsProcs, MsKeys, Kinds

\* The next index, without the modulus.
LEMMA NextIndexIs ==
  ASSUME NEW i \in CacheIndex
  PROVE  NextIndex(i) \in CacheIndex /\ NextIndex(i) = IF i + 1 = MAX_CACHE_SIZE THEN 0 ELSE i + 1
<1>1. MAX_CACHE_SIZE \in Nat \ {0} /\ i \in Nat /\ i < MAX_CACHE_SIZE  BY MsConstants DEF CacheIndex
<1>2. CASE i + 1 = MAX_CACHE_SIZE
  <2>1. MAX_CACHE_SIZE % MAX_CACHE_SIZE = 0  BY <1>1
  <2> QED  BY <1>1, <1>2, <2>1 DEF NextIndex, CacheIndex
<1>3. CASE i + 1 < MAX_CACHE_SIZE
  <2>1. (i + 1) % MAX_CACHE_SIZE = i + 1  BY <1>1, <1>3
  <2> QED  BY <1>1, <1>3, <2>1 DEF NextIndex, CacheIndex
<1> QED  BY <1>1, <1>2, <1>3

\* EndOfList is the first entry that is not complete, or the place behind all.
LEMMA EndOfListIs ==
  ASSUME msFile \in Seq(MsEntries)
  PROVE  /\ EndOfList \in 1..(Len(msFile) + 1)
         /\ EndOfList = Len(msFile) + 1 \/ ~msFile[EndOfList].whole
         /\ \A j \in 1..(EndOfList - 1) : msFile[j].whole
<1> DEFINE n == Len(msFile)
           T == {i \in 1..(n + 1) : i = n + 1 \/ ~msFile[i].whole}
<1>1. n \in Nat  OBVIOUS
<1>2. T \in SUBSET Nat /\ n + 1 \in T  BY <1>1
<1> HIDE DEF T
<1>3. PICK x \in T : \A y \in T : x <= y  BY <1>2, LeastNat
<1>4. x \in 1..(n + 1) /\ (x = n + 1 \/ ~msFile[x].whole)  BY <1>3 DEF T
<1>5. \A j \in 1..(x - 1) : msFile[j].whole
  <2> SUFFICES ASSUME NEW j \in 1..(x - 1), ~msFile[j].whole PROVE FALSE  OBVIOUS
  <2>1. j \in T  BY <1>1, <1>4 DEF T
  <2> QED  BY <1>1, <1>3, <1>4, <2>1
<1> QED  BY <1>4, <1>5 DEF EndOfList

LEMMA TypesGrow ==
  ASSUME NEW n \in Nat, NEW m \in Nat, n <= m
  PROVE  /\ Maps(n) \subseteq Maps(m) /\ Caches(n) \subseteq Caches(m)
         /\ ThreadStates(n) \subseteq ThreadStates(m)
<1>1. 1..n \subseteq 1..m /\ 0..n \subseteq 0..m  OBVIOUS
<1>2. Maps(n) \subseteq Maps(m)
  <2> SUFFICES ASSUME NEW K \in SUBSET MsKeys, NEW f \in [K -> 1..n] PROVE f \in [K -> 1..m]  BY DEF Maps
  <2> QED  BY <1>1
<1>3. Caches(n) \subseteq Caches(m)
  <2>1. [CacheIndex -> Maps(n)] \subseteq [CacheIndex -> Maps(m)]  BY <1>2
  <2>2. [index : CacheIndex, maps : [CacheIndex -> Maps(n)]]
          \subseteq [index : CacheIndex, maps : [CacheIndex -> Maps(m)]]
    BY <2>1
  <2> QED  BY <2>2 DEF Caches
<1>4. ThreadStates(n) \subseteq ThreadStates(m)  BY <1>1 DEF ThreadStates
<1> QED  BY <1>2, <1>3, <1>4

LEMMA MapFacts ==
  ASSUME NEW n \in Nat, NEW f \in Maps(n)
  PROVE  DOMAIN f \subseteq MsKeys /\ \A k \in DOMAIN f : f[k] \in 1..n
  BY DEF Maps

\* The cache of a thread's process for the kind of its key.
LEMMA CacheFacts ==
  ASSUME MsTypeOK, NEW t \in MsThreads, NEW k \in MsKeys
  PROVE  /\ Len(msFile) \in Nat
         /\ msProc[MsProcess[t]].cache[k[1]] \in [index : CacheIndex, maps : [CacheIndex -> Maps(Len(msFile))]]
         /\ \A x \in CacheIndex :
              msProc[MsProcess[t]].cache[k[1]].maps[x] \in Maps(Len(msFile))
<1>1. MsProcess[t] \in MsProcs /\ k[1] \in Kinds  BY MsConstants
<1>2. Len(msFile) \in Nat  BY DEF MsTypeOK
<1>3. msProc[MsProcess[t]].cache \in Caches(Len(msFile))  BY <1>1 DEF MsTypeOK
<1> QED  BY <1>1, <1>2, <1>3 DEF Caches

LEMMA AddersFinite == IsFiniteSet(Adders) /\ Cardinality(Adders) \in Nat
<1>1. Adders \subseteq MsThreads /\ IsFiniteSet(MsThreads)  BY MsAssumption DEF Adders
<1> QED  BY <1>1, FS_Subset, FS_CardinalityType

\* Nobody enters or leaves.
LEMMA AddersSame ==
  ASSUME SemFits, msSem' = msSem,
         \A t \in MsThreads : msThread'[t].pc \in Inside <=> msThread[t].pc \in Inside
  PROVE  SemFits'
<1>1. Adders' = Adders  BY DEF Adders
<1> QED  BY <1>1 DEF SemFits

\* As long as the semaphore was set up once, one thread is inside.
LEMMA OnlyAdder ==
  ASSUME MsTypeOK, SemFits, ~SetTwice
  PROVE  /\ Cardinality(Adders) <= 1
         /\ \A t, u \in Adders : t = u
<1>1. msSem.set \in Nat /\ msSem.val \in Nat /\ msSem.set <= 1  BY DEF MsTypeOK, SetTwice
<1>2. Cardinality(Adders) <= 1  BY <1>1, AddersFinite DEF SemFits
<1>3. ASSUME NEW t \in Adders, NEW u \in Adders, t # u PROVE FALSE
  <2>1. IsFiniteSet({t, u}) /\ Cardinality({t, u}) = 2
    <3>1. IsFiniteSet({t}) /\ Cardinality({t}) = 1  BY FS_Singleton
    <3>2. u \notin {t}  BY <1>3
    <3>3. IsFiniteSet({t} \cup {u}) /\ Cardinality({t} \cup {u}) = 2  BY <3>1, <3>2, FS_AddElement
    <3>4. {t} \cup {u} = {t, u}  OBVIOUS
    <3> QED  BY <3>3, <3>4
  <2>2. {t, u} \subseteq Adders  OBVIOUS
  <2>3. Cardinality({t, u}) <= Cardinality(Adders)  BY <2>2, AddersFinite, FS_Subset
  <2> QED  BY <1>2, <2>1, <2>3, AddersFinite
<1> QED  BY <1>2, <1>3

\* One thread moves, and the rest of the state but the semaphore stays.
LEMMA ThreadStep ==
  ASSUME MsInv, NEW t \in MsThreads, NEW r \in ThreadStates(Len(msFile)),
         msThread' = [msThread EXCEPT ![t] = r], UNCHANGED <<msFile, msProc, msGhost>>,
         msSem' \in [made : BOOLEAN, val : Nat, set : Nat], msSem'.set = msSem.set, SemFits',
         r.pc = "lookup" => r.since = 0 /\ r.index = msProc[MsProcess[t]].cache[r.key[1]].index,
         msThread[t].pc # "fill", r.pc # "fill",
         Good /\ r.pc \in {"cache", "count"} => Owns(r.entry, r.key)
  PROVE  MsInv'
<1>1. MsTypeOK  BY DEF MsInv
<1>2. msThread \in [MsThreads -> ThreadStates(Len(msFile))]  BY <1>1 DEF MsTypeOK
<1>3. /\ msThread' \in [MsThreads -> ThreadStates(Len(msFile))]
      /\ \A u \in MsThreads : msThread'[u] = IF u = t THEN r ELSE msThread[u]
  BY <1>2
<1>4. MsTypeOK'  BY <1>1, <1>3 DEF MsTypeOK
<1>5. ReadersFit'
  <2> SUFFICES ASSUME NEW u \in MsThreads, msThread'[u].pc = "lookup", msThread'[u].since < MAX_CACHE_SIZE
               PROVE  (\/ CacheOf(u).index = msThread[u].index + msThread[u].since
                       \/ CacheOf(u).index + MAX_CACHE_SIZE = msThread[u].index + msThread[u].since)'
    BY DEF ReadersFit
  <2>1. CASE u = t
    <3>1. msThread'[u].index = CacheOf(u)'.index /\ msThread'[u].since = 0  BY <1>3, <2>1 DEF CacheOf
    <3>2. msThread'[u].index \in Nat  BY <1>3, <2>1 DEF ThreadStates, CacheIndex
    <3> QED  BY <3>1, <3>2
  <2>2. CASE u # t
    <3>1. msThread'[u] = msThread[u] /\ CacheOf(u)' = CacheOf(u)  BY <1>3, <2>2 DEF CacheOf
    <3> QED  BY <3>1 DEF MsInv, ReadersFit
  <2> QED  BY <2>1, <2>2
<1>6. ReadersUndisturbed'  BY DEF MsInv, ReadersUndisturbed
<1>7. (Good => EntriesFit /\ ThreadsFit /\ CachesFit)'
  <2> SUFFICES ASSUME Good' PROVE (EntriesFit /\ ThreadsFit /\ CachesFit)'  OBVIOUS
  <2>1. Good  BY DEF Good, SetTwice
  <2>2. EntriesFit /\ ThreadsFit /\ CachesFit  BY <2>1 DEF MsInv
  <2>3. \A i, k : Owns(i, k)' <=> Owns(i, k)  BY DEF Owns
  <2>4. CachesFit'  BY <2>2, <2>3 DEF CachesFit
  <2>5. ThreadsFit'
    <3> SUFFICES ASSUME NEW u \in MsThreads
                 PROVE  /\ msThread'[u].pc = "fill" =>
                             /\ ~msFile'[msThread'[u].entry].whole
                             /\ \A i \in 1..Len(msFile') : ~Owns(i, msThread[u].key)'
                        /\ msThread'[u].pc \in {"cache", "count"} => Owns(msThread[u].entry, msThread[u].key)'
      BY DEF ThreadsFit
    <3>1. CASE u = t  BY <1>3, <2>1, <2>3, <3>1 DEF Owns
    <3>2. CASE u # t  BY <1>3, <2>2, <3>2 DEF ThreadsFit, Owns
    <3> QED  BY <3>1, <3>2
  <2>6. EntriesFit'
    <3>1. \A i : (\E u \in MsThreads : msThread[u].pc = "fill" /\ msThread[u].entry = i)
                 => \E u \in MsThreads : msThread'[u].pc = "fill" /\ msThread'[u].entry = i
      BY <1>3
    <3> QED  BY <2>2, <2>3, <3>1 DEF EntriesFit, Owns
  <2> QED  BY <2>4, <2>5, <2>6
<1> QED  BY <1>4, <1>5, <1>6, <1>7 DEF MsInv

LEMMA IdleFacts ==
  ASSUME NEW n \in Nat
  PROVE  /\ IdleThread \in ThreadStates(n) /\ IdleThread.pc = "idle"
         /\ EmptyCache \in Caches(n)
         /\ \A kind \in Kinds, x \in CacheIndex : EmptyCache[kind].maps[x] = <<>>
         /\ DOMAIN <<>> = {}
<1>1. <<>> \in Maps(n)
  <2>1. <<>> \in [{} -> 1..n] /\ {} \in SUBSET MsKeys  OBVIOUS
  <2> QED  BY <2>1 DEF Maps
<1>2. EmptyCache \in Caches(n)  BY <1>1, MsConstants DEF EmptyCache, Caches, CacheIndex
<1>3. IdleThread \in ThreadStates(n)
  BY MsConstants DEF IdleThread, ThreadStates, MsPlaces, Inside, NoEntry
<1>4. \A kind \in Kinds, x \in CacheIndex : EmptyCache[kind].maps[x] = <<>>  BY DEF EmptyCache, CacheIndex
<1>5. IdleThread.pc = "idle"  BY DEF IdleThread
<1>6. DOMAIN <<>> = {}  OBVIOUS
<1> QED  BY <1>2, <1>3, <1>4, <1>5, <1>6

LEMMA MsInvInit == MsInit => MsInv
<1> SUFFICES ASSUME MsInit PROVE MsInv  OBVIOUS
<1>1. msFile = <<>> /\ Len(msFile) = 0 /\ 0 \in Nat /\ msFile \in Seq(MsEntries)  BY DEF MsInit
<1>2. \A t \in MsThreads : msThread[t].pc = "idle"  BY <1>1, IdleFacts DEF MsInit
<1>3. MsTypeOK
  <2>1. msProc \in [MsProcs -> [stage : MsStages, cache : Caches(Len(msFile))]]
    BY <1>1, IdleFacts DEF MsInit, MsStages
  <2>2. msThread \in [MsThreads -> ThreadStates(Len(msFile))]  BY <1>1, IdleFacts DEF MsInit
  <2> QED  BY <1>1, <2>1, <2>2 DEF MsInit, MsTypeOK
<1>4. SemFits
  <2>1. Adders = {}  BY <1>2 DEF Adders, Inside
  <2> QED  BY <2>1, FS_EmptySet DEF MsInit, SemFits
<1>5. ReadersFit /\ ReadersUndisturbed  BY <1>2 DEF ReadersFit, ReadersUndisturbed, MsInit
<1>6. EntriesFit  BY <1>1 DEF EntriesFit, MsInit
<1>7. ThreadsFit  BY <1>2 DEF ThreadsFit
<1>8. CachesFit
  <2>1. \A p \in MsProcs : msProc[p].cache = EmptyCache  BY DEF MsInit
  <2> QED  BY <2>1, <1>1, IdleFacts DEF CachesFit
<1> QED  BY <1>3, <1>4, <1>5, <1>6, <1>7, <1>8 DEF MsInv

\* Init: the semaphore is looked up, created and set.
LEMMA StageStep ==
  ASSUME MsInv, NEW p \in MsProcs, SemGet(p) \/ SemCreate(p) \/ SemSetVal(p)
  PROVE  MsInv'
<1>1. MsTypeOK /\ UNCHANGED <<msFile, msThread, msGhost>>
  BY DEF MsInv, SemGet, SemCreate, SemSetVal
<1>2. /\ msProc' \in [MsProcs -> [stage : MsStages, cache : Caches(Len(msFile))]]
      /\ \A q \in MsProcs : msProc'[q].cache = msProc[q].cache
  <2>1. PICK s \in MsStages : msProc' = [msProc EXCEPT ![p].stage = s]
    BY DEF SemGet, SemCreate, SemSetVal, MsStages
  <2> QED  BY <1>1, <2>1 DEF MsTypeOK
<1>3. /\ msSem' \in [made : BOOLEAN, val : Nat, set : Nat]
      /\ msSem'.set >= msSem.set /\ msSem.set \in Nat
      /\ \/ msSem'.val = msSem.val /\ msSem'.set = msSem.set
         \/ msSem'.val = 1 /\ msSem'.set = msSem.set + 1
  <2>1. msSem \in [made : BOOLEAN, val : Nat, set : Nat]  BY <1>1 DEF MsTypeOK
  <2>2. CASE SemGet(p)  BY <2>1, <2>2 DEF SemGet
  <2>3. CASE SemCreate(p)
    <3>1. msSem' = [msSem EXCEPT !.made = TRUE]  BY <2>3 DEF SemCreate
    <3>2. msSem' \in [made : BOOLEAN, val : Nat, set : Nat]  BY <2>1, <3>1
    <3>3. msSem'.val = msSem.val /\ msSem'.set = msSem.set  BY <2>1, <3>1
    <3> QED  BY <2>1, <3>2, <3>3
  <2>4. CASE SemSetVal(p)
    <3>1. msSem' = [[msSem EXCEPT !.val = 1] EXCEPT !.set = msSem.set + 1]  BY <2>4 DEF SemSetVal
    <3>2. [msSem EXCEPT !.val = 1] \in [made : BOOLEAN, val : Nat, set : Nat] /\ msSem.set + 1 \in Nat  BY <2>1
    <3>3. msSem' \in [made : BOOLEAN, val : Nat, set : Nat]  BY <3>1, <3>2
    <3>4. msSem'.val = 1 /\ msSem'.set = msSem.set + 1  BY <2>1, <3>1
    <3> QED  BY <2>1, <3>3, <3>4
  <2> QED  BY <2>2, <2>3, <2>4
<1>4. MsTypeOK'  BY <1>1, <1>2, <1>3 DEF MsTypeOK
<1>5. SemFits'
  <2>1. Adders' = Adders  BY <1>1 DEF Adders
  <2>2. SemFits /\ msSem.val \in Nat  BY <1>1 DEF MsInv, MsTypeOK
  <2>3. CASE msSem'.val = msSem.val /\ msSem'.set = msSem.set  BY <2>1, <2>2, <2>3 DEF SemFits
  <2>4. CASE msSem'.val = 1 /\ msSem'.set = msSem.set + 1
    BY <1>3, <2>1, <2>2, <2>4, AddersFinite DEF SemFits
  <2> QED  BY <1>3, <2>3, <2>4
<1>6. ReadersFit'
  <2> SUFFICES ASSUME NEW t \in MsThreads, msThread[t].pc = "lookup", msThread[t].since < MAX_CACHE_SIZE
               PROVE  \/ CacheOf(t)'.index = msThread[t].index + msThread[t].since
                      \/ CacheOf(t)'.index + MAX_CACHE_SIZE = msThread[t].index + msThread[t].since
    BY <1>1 DEF ReadersFit
  <2>1. CacheOf(t)' = CacheOf(t)  BY <1>1, <1>2, MsConstants DEF CacheOf
  <2> QED  BY <2>1 DEF MsInv, ReadersFit
<1>7. ReadersUndisturbed'  BY <1>1 DEF MsInv, ReadersUndisturbed
<1>8. (Good => EntriesFit /\ ThreadsFit /\ CachesFit)'
  <2> SUFFICES ASSUME Good' PROVE (EntriesFit /\ ThreadsFit /\ CachesFit)'  OBVIOUS
  <2>1. Good  BY <1>1, <1>3 DEF Good, SetTwice
  <2>2. EntriesFit /\ ThreadsFit /\ CachesFit  BY <2>1 DEF MsInv
  <2>3. \A i, k : Owns(i, k)' <=> Owns(i, k)  BY <1>1 DEF Owns
  <2>4. EntriesFit' /\ ThreadsFit'  BY <1>1, <2>2 DEF EntriesFit, ThreadsFit, Owns
  <2>5. CachesFit'  BY <1>2, <2>2, <2>3 DEF CachesFit
  <2> QED  BY <2>4, <2>5
<1> QED  BY <1>4, <1>5, <1>6, <1>7, <1>8 DEF MsInv

\* Get and Lookup write several fields of a thread.
LEMMA FieldsOfGet ==
  ASSUME NEW P, NEW K, NEW I, NEW E, NEW S,
         NEW m \in [pc : P, key : K, index : I, entry : E, since : S],
         NEW a \in P, NEW k \in K, NEW i \in I,
         NEW r, r = [m EXCEPT !.pc = a, !.key = k, !.index = i]
  PROVE  /\ r \in [pc : P, key : K, index : I, entry : E, since : S]
         /\ r.pc = a /\ r.key = k /\ r.index = i /\ r.since = m.since
  OBVIOUS

LEMMA FieldsOfLookup ==
  ASSUME NEW P, NEW K, NEW I, NEW E, NEW S,
         NEW m \in [pc : P, key : K, index : I, entry : E, since : S],
         NEW a \in P, NEW i \in I, NEW s \in S, NEW e \in E,
         NEW r, r = [m EXCEPT !.pc = a, !.index = i, !.since = s, !.entry = e]
  PROVE  /\ r \in [pc : P, key : K, index : I, entry : E, since : S]
         /\ r.pc = a /\ r.key = m.key /\ r.entry = e
  OBVIOUS

LEMMA GetKeeps ==
  ASSUME MsInv, NEW t \in MsThreads, NEW k \in MsUses[t], Get(t, k)
  PROVE  MsInv'
<1> DEFINE n == Len(msFile)
           i == msProc[MsProcess[t]].cache[k[1]].index
           r == [IdleThread EXCEPT !.pc = "lookup", !.key = k, !.index = i]
<1>1. MsTypeOK /\ SemFits /\ k \in MsKeys  BY MsConstants DEF MsInv
<1>2. i \in CacheIndex /\ n \in Nat  BY <1>1, CacheFacts
<1>3. /\ msThread[t].pc = "idle" /\ msThread' = [msThread EXCEPT ![t] = r]
      /\ UNCHANGED <<msFile, msSem, msProc, msGhost>>
  BY DEF Get
<1>4. r \in ThreadStates(n) /\ r.pc = "lookup" /\ r.key = k /\ r.index = i /\ r.since = 0
  <2>1. /\ IdleThread \in [pc : MsPlaces, key : MsKeys \cup {NoKey}, index : CacheIndex, entry : 0..n, since : Nat]
        /\ IdleThread.since = 0
    BY <1>2, IdleFacts DEF IdleThread, ThreadStates
  <2>2. "lookup" \in MsPlaces /\ k \in MsKeys \cup {NoKey}  BY <1>1 DEF MsPlaces
  <2> HIDE DEF i, r, n
  <2>3. r = [IdleThread EXCEPT !.pc = "lookup", !.key = k, !.index = i]  BY DEF r
  <2>4. /\ r \in [pc : MsPlaces, key : MsKeys \cup {NoKey}, index : CacheIndex, entry : 0..n, since : Nat]
        /\ r.pc = "lookup" /\ r.key = k /\ r.index = i /\ r.since = IdleThread.since
    BY <1>2, <2>1, <2>2, <2>3, FieldsOfGet
  <2> QED  BY <1>1, <2>1, <2>4 DEF ThreadStates
<1> HIDE DEF r, i
<1>5. SemFits'
  <2>1. \A u \in MsThreads : msThread'[u].pc \in Inside <=> msThread[u].pc \in Inside
    BY <1>1, <1>3, <1>4 DEF MsTypeOK, Inside
  <2> QED  BY <1>1, <1>3, <2>1, AddersSame
<1>6. msSem' \in [made : BOOLEAN, val : Nat, set : Nat]  BY <1>1, <1>3 DEF MsTypeOK
<1>7. r.index = msProc[MsProcess[t]].cache[r.key[1]].index  BY <1>4 DEF i
<1> QED  BY <1>3, <1>4, <1>5, <1>6, <1>7, ThreadStep

LEMMA LookupKeeps ==
  ASSUME MsInv, NEW t \in MsThreads, Lookup(t)
  PROVE  MsInv'
<1> DEFINE n == Len(msFile)
           key == msThread[t].key
           map == CacheOf(t).maps[msThread[t].index]
           hit == key \in DOMAIN map
           pc == IF hit THEN "count" ELSE "semp"
           entry == IF hit THEN map[key] ELSE NoEntry
           r == [msThread[t] EXCEPT !.pc = pc, !.index = 0, !.since = 0, !.entry = entry]
<1>1. MsTypeOK /\ SemFits /\ msThread[t].pc = "lookup" /\ UNCHANGED <<msFile, msSem, msProc, msGhost>>
  BY DEF MsInv, Lookup
<1>2. msThread[t] \in ThreadStates(n) /\ key \in MsKeys /\ msThread[t].index \in CacheIndex
  BY <1>1 DEF MsTypeOK, ThreadStates
<1>3. n \in Nat /\ map \in Maps(n)  BY <1>1, <1>2, CacheFacts DEF CacheOf
<1>4. msThread' = [msThread EXCEPT ![t] = r]  BY <1>1, <1>2 DEF Lookup, MsTypeOK, ThreadStates
<1>5. hit => map[key] \in 1..n  BY <1>3, MapFacts
<1>6. Good /\ hit => Owns(map[key], key)
  <2>1. MsProcess[t] \in MsProcs /\ key[1] \in Kinds  BY <1>2, MsConstants
  <2> QED  BY <1>2, <2>1 DEF MsInv, CachesFit, CacheOf
<1> HIDE DEF map, n, key
<1>7. /\ pc \in {"count", "semp"} /\ entry \in 0..n
      /\ pc = "count" => hit /\ entry = map[key] /\ entry # NoEntry
  BY <1>3, <1>5 DEF NoEntry
<1> HIDE DEF hit, pc, entry
<1>8. r \in ThreadStates(n) /\ r.pc = pc /\ r.key = key /\ r.entry = entry
  <2>1. pc \in MsPlaces /\ 0 \in CacheIndex  BY <1>7, MsConstants DEF MsPlaces
  <2>2. msThread[t] \in [pc : MsPlaces, key : MsKeys \cup {NoKey}, index : CacheIndex, entry : 0..n, since : Nat]
    BY <1>2 DEF ThreadStates
  <2> HIDE DEF r
  <2>3. r = [msThread[t] EXCEPT !.pc = pc, !.index = 0, !.since = 0, !.entry = entry]  BY DEF r
  <2>4. /\ r \in [pc : MsPlaces, key : MsKeys \cup {NoKey}, index : CacheIndex, entry : 0..n, since : Nat]
        /\ r.pc = pc /\ r.key = msThread[t].key /\ r.entry = entry
    BY <1>7, <2>1, <2>2, <2>3, FieldsOfLookup
  <2>5. r.key = key  BY <2>4 DEF key
  <2> QED  BY <1>2, <1>7, <2>4, <2>5 DEF ThreadStates
<1> HIDE DEF r
<1>9. SemFits'
  <2>1. \A u \in MsThreads : msThread'[u].pc \in Inside <=> msThread[u].pc \in Inside
    BY <1>1, <1>4, <1>7, <1>8 DEF MsTypeOK, Inside
  <2> QED  BY <1>1, <2>1, AddersSame
<1>10. msSem' \in [made : BOOLEAN, val : Nat, set : Nat]  BY <1>1 DEF MsTypeOK
<1>11. Good /\ r.pc \in {"cache", "count"} => Owns(r.entry, r.key)  BY <1>6, <1>7, <1>8
<1>12. r \in ThreadStates(Len(msFile))  BY <1>8 DEF n
<1> QED  BY <1>1, <1>4, <1>7, <1>8, <1>9, <1>10, <1>11, <1>12, ThreadStep

LEMMA SemPKeeps ==
  ASSUME MsInv, NEW t \in MsThreads, SemP(t)
  PROVE  MsInv'
<1> DEFINE r == [msThread[t] EXCEPT !.pc = "find"]
<1>1. /\ MsTypeOK /\ SemFits /\ msThread[t].pc = "semp" /\ UNCHANGED <<msFile, msProc, msGhost>>
      /\ msSem.val > 0
  BY DEF MsInv, SemP, SemFree
<1>2. msThread[t] \in ThreadStates(Len(msFile)) /\ msThread \in [MsThreads -> ThreadStates(Len(msFile))]
  BY <1>1 DEF MsTypeOK
<1>3. msThread' = [msThread EXCEPT ![t] = r]  BY <1>1, <1>2 DEF SemP
<1>4. r \in ThreadStates(Len(msFile)) /\ r.pc = "find"
  BY <1>1, <1>2 DEF ThreadStates, MsPlaces, Inside
<1> HIDE DEF r
<1>5. /\ msSem' \in [made : BOOLEAN, val : Nat, set : Nat]
      /\ msSem'.set = msSem.set /\ msSem'.val = msSem.val - 1 /\ msSem.val \in Nat /\ msSem.set \in Nat
  <2>1. msSem \in [made : BOOLEAN, val : Nat, set : Nat]  BY <1>1 DEF MsTypeOK
  <2>2. msSem' = [msSem EXCEPT !.val = IF msSem.val = 0 THEN 0 ELSE msSem.val - 1]  BY DEF SemP
  <2> QED  BY <1>1, <2>1, <2>2
<1>6. SemFits'
  <2>1. Adders' = Adders \cup {t} /\ t \notin Adders
    BY <1>1, <1>2, <1>3, <1>4 DEF Adders, Inside
  <2>2. Cardinality(Adders') = Cardinality(Adders) + 1  BY <2>1, AddersFinite, FS_AddElement
  <2> QED  BY <1>1, <1>5, <2>2, AddersFinite DEF SemFits
<1> QED  BY <1>1, <1>3, <1>4, <1>5, <1>6, ThreadStep

\* What RawMMapList::Find returns: an entry of the list or none, and when
\* every entry is complete, the entry of the key if there is one.
LEMMA FindIs ==
  ASSUME msFile \in Seq(MsEntries), NEW key
  PROVE  /\ Find(key) \in 0..Len(msFile)
         /\ (\A i \in 1..Len(msFile) : msFile[i].whole) =>
              IF Find(key) = NoEntry THEN \A i \in 1..Len(msFile) : ~Owns(i, key)
                                     ELSE Owns(Find(key), key)
<1> DEFINE n == Len(msFile)
           found == {i \in 1..(EndOfList - 1) : msFile[i].key = key}
<1>1. n \in Nat  OBVIOUS
<1>2. /\ EndOfList \in 1..(n + 1) /\ (EndOfList = n + 1 \/ ~msFile[EndOfList].whole)
      /\ \A j \in 1..(EndOfList - 1) : msFile[j].whole
  BY EndOfListIs
<1>3. found \in SUBSET Nat /\ \A i \in found : i \in 1..n /\ msFile[i].whole /\ msFile[i].key = key
  BY <1>1, <1>2
<1>4. Find(key) = IF found # {} THEN CHOOSE i \in found : \A j \in found : i <= j
                  ELSE IF EndOfList <= n THEN EndOfList ELSE NoEntry
  BY DEF Find
<1>5. (\A i \in 1..n : msFile[i].whole) => EndOfList = n + 1  BY <1>1, <1>2
<1>6. (\A i \in 1..n : msFile[i].whole) /\ found = {} => \A i \in 1..n : msFile[i].key # key
  BY <1>1, <1>5
<1> HIDE DEF found
<1>7. CASE found # {}
  <2>1. \E i \in found : \A j \in found : i <= j  BY <1>3, <1>7, LeastNat
  <2>2. Find(key) \in found  BY <1>4, <1>7, <2>1
  <2>3. Find(key) \in 1..n /\ Owns(Find(key), key)  BY <1>3, <2>2 DEF Owns
  <2> QED  BY <1>1, <2>3 DEF NoEntry
<1>8. CASE found = {} /\ EndOfList <= n
  <2>1. Find(key) = EndOfList  BY <1>4, <1>8
  <2> QED  BY <1>1, <1>2, <1>5, <1>8, <2>1
<1>9. CASE found = {} /\ ~(EndOfList <= n)
  <2>1. Find(key) = NoEntry  BY <1>4, <1>9
  <2> QED  BY <1>1, <1>6, <1>9, <2>1 DEF NoEntry, Owns
<1> QED  BY <1>7, <1>8, <1>9

\* While nobody else is inside, every entry is complete.
LEMMA AllWhole ==
  ASSUME MsInv, Good, NEW t \in MsThreads, msThread[t].pc \in Inside, msThread[t].pc # "fill"
  PROVE  \A i \in 1..Len(msFile) : msFile[i].whole
<1> SUFFICES ASSUME NEW i \in 1..Len(msFile), ~msFile[i].whole PROVE FALSE  OBVIOUS
<1>1. PICK u \in MsThreads : msThread[u].pc = "fill"  BY DEF MsInv, EntriesFit
<1>2. t \in Adders /\ u \in Adders  BY <1>1 DEF Adders, Inside
<1> QED  BY <1>1, <1>2, OnlyAdder DEF MsInv, Good

LEMMA FindKeeps ==
  ASSUME MsInv, NEW t \in MsThreads, FindOrStart(t), Find(msThread[t].key) # NoEntry
  PROVE  MsInv'
<1> DEFINE e == Find(msThread[t].key)
           r == [[msThread[t] EXCEPT !.pc = "cache"] EXCEPT !.entry = e]
<1>1. /\ MsTypeOK /\ SemFits /\ msThread[t].pc = "find" /\ UNCHANGED <<msFile, msSem, msProc, msGhost>>
      /\ e # NoEntry
  BY DEF MsInv, FindOrStart
<1>2. msThread[t] \in ThreadStates(Len(msFile)) /\ msThread \in [MsThreads -> ThreadStates(Len(msFile))]
  BY <1>1 DEF MsTypeOK
<1>3. e \in 0..Len(msFile)  BY <1>1, FindIs DEF MsTypeOK
<1>4. Good => Owns(e, msThread[t].key)
  <2> SUFFICES ASSUME Good PROVE Owns(e, msThread[t].key)  OBVIOUS
  <2>1. \A i \in 1..Len(msFile) : msFile[i].whole  BY <1>1, AllWhole DEF Inside
  <2> QED  BY <1>1, <2>1, FindIs DEF MsTypeOK
<1>5. msThread' = [msThread EXCEPT ![t].pc = "cache", ![t].entry = e]  BY <1>1 DEF FindOrStart
<1> HIDE DEF e
<1>6. msThread' = [msThread EXCEPT ![t] = r]  BY <1>2, <1>5
<1>7. r \in ThreadStates(Len(msFile))
  BY <1>1, <1>2, <1>3 DEF ThreadStates, MsPlaces, Inside
<1>8. r.pc = "cache" /\ r.key = msThread[t].key /\ r.entry = e  BY <1>2 DEF ThreadStates
<1> HIDE DEF r
<1>9. SemFits'
  <2>1. \A u \in MsThreads : msThread'[u].pc \in Inside <=> msThread[u].pc \in Inside
    BY <1>1, <1>2, <1>6, <1>8 DEF Inside
  <2> QED  BY <1>1, <2>1, AddersSame
<1>10. msSem' \in [made : BOOLEAN, val : Nat, set : Nat]  BY <1>1 DEF MsTypeOK
<1> QED  BY <1>1, <1>4, <1>6, <1>7, <1>8, <1>9, <1>10, ThreadStep

\* One thread inside the list changes the file and stays inside.
LEMMA FileStep ==
  ASSUME MsInv, NEW t \in MsThreads, NEW r \in ThreadStates(Len(msFile')),
         msThread[t].pc \in Inside, r.pc \in Inside,
         msThread' = [msThread EXCEPT ![t] = r], UNCHANGED <<msSem, msProc, msGhost>>,
         msFile' \in Seq(MsEntries), Len(msFile') >= Len(msFile)
  PROVE  /\ MsTypeOK' /\ SemFits' /\ ReadersFit' /\ ReadersUndisturbed'
         /\ msThread' \in [MsThreads -> ThreadStates(Len(msFile'))]
         /\ \A u \in MsThreads : msThread'[u] = IF u = t THEN r ELSE msThread[u]
<1>1. MsTypeOK /\ SemFits  BY DEF MsInv
<1>2. Len(msFile) \in Nat /\ Len(msFile') \in Nat  BY <1>1 DEF MsTypeOK
<1>3. /\ Caches(Len(msFile)) \subseteq Caches(Len(msFile'))
      /\ ThreadStates(Len(msFile)) \subseteq ThreadStates(Len(msFile'))
  BY <1>2, TypesGrow
<1>4. msThread \in [MsThreads -> ThreadStates(Len(msFile'))]  BY <1>1, <1>3 DEF MsTypeOK
<1>5. /\ msThread' \in [MsThreads -> ThreadStates(Len(msFile'))]
      /\ \A u \in MsThreads : msThread'[u] = IF u = t THEN r ELSE msThread[u]
  BY <1>4
<1>6. msProc' \in [MsProcs -> [stage : MsStages, cache : Caches(Len(msFile'))]]
  BY <1>1, <1>3 DEF MsTypeOK
<1>7. MsTypeOK'  BY <1>1, <1>5, <1>6 DEF MsTypeOK
<1>8. SemFits'
  <2>1. \A u \in MsThreads : msThread'[u].pc \in Inside <=> msThread[u].pc \in Inside  BY <1>5
  <2> QED  BY <1>1, <2>1, AddersSame
<1>9. ReadersFit'
  <2> SUFFICES ASSUME NEW u \in MsThreads, msThread'[u].pc = "lookup", msThread'[u].since < MAX_CACHE_SIZE
               PROVE  (\/ CacheOf(u).index = msThread[u].index + msThread[u].since
                       \/ CacheOf(u).index + MAX_CACHE_SIZE = msThread[u].index + msThread[u].since)'
    BY DEF ReadersFit
  <2>1. msThread'[u] = msThread[u]  BY <1>5 DEF Inside
  <2>2. CacheOf(u)' = CacheOf(u)  BY <2>1 DEF CacheOf
  <2> QED  BY <2>1, <2>2 DEF MsInv, ReadersFit
<1>10. ReadersUndisturbed'  BY DEF MsInv, ReadersUndisturbed
<1> QED  BY <1>5, <1>7, <1>8, <1>9, <1>10

LEMMA StartKeeps ==
  ASSUME MsInv, NEW t \in MsThreads, FindOrStart(t), Find(msThread[t].key) = NoEntry
  PROVE  MsInv'
<1> DEFINE n == Len(msFile)
           new == [key |-> NoKey, whole |-> FALSE, value |-> 0]
           r == [[msThread[t] EXCEPT !.pc = "fill"] EXCEPT !.entry = n + 1]
<1>1. /\ MsTypeOK /\ SemFits /\ msThread[t].pc = "find" /\ UNCHANGED <<msSem, msProc, msGhost>>
      /\ msFile' = Append(msFile, new)
      /\ msThread' = [msThread EXCEPT ![t].pc = "fill", ![t].entry = n + 1]
  BY DEF MsInv, FindOrStart
<1>2. msFile \in Seq(MsEntries) /\ n \in Nat /\ new \in MsEntries  BY <1>1 DEF MsTypeOK, MsEntries
<1>3. /\ msFile' \in Seq(MsEntries) /\ Len(msFile') = n + 1 /\ msFile'[n + 1] = new
      /\ \A i \in 1..n : msFile'[i] = msFile[i]
  <2> HIDE DEF new
  <2> QED  BY <1>1, <1>2
<1>4. ~new.whole /\ new.key = NoKey  OBVIOUS
<1> HIDE DEF new
<1>5. msThread[t] \in ThreadStates(n) /\ msThread \in [MsThreads -> ThreadStates(n)]  BY <1>1 DEF MsTypeOK
<1> HIDE DEF n
<1>6. msThread' = [msThread EXCEPT ![t] = r]  BY <1>1, <1>5
<1>7. r \in ThreadStates(n + 1)
  <2>1. msThread[t] \in ThreadStates(n + 1)  BY <1>2, <1>5, TypesGrow
  <2>2. n + 1 \in 0..(n + 1) /\ n + 1 # NoEntry  BY <1>2 DEF NoEntry
  <2> QED  BY <1>1, <2>1, <2>2 DEF ThreadStates, MsPlaces, Inside
<1>8. r.pc = "fill" /\ r.key = msThread[t].key /\ r.entry = n + 1  BY <1>5 DEF ThreadStates
<1> HIDE DEF r
<1>9. /\ MsTypeOK' /\ SemFits' /\ ReadersFit' /\ ReadersUndisturbed'
      /\ \A u \in MsThreads : msThread'[u] = IF u = t THEN r ELSE msThread[u]
  <2>1. Len(msFile') >= Len(msFile)  BY <1>2, <1>3 DEF n
  <2>2. msThread[t].pc \in Inside /\ r.pc \in Inside  BY <1>1, <1>8 DEF Inside
  <2> QED  BY <1>1, <1>3, <1>6, <1>7, <2>1, <2>2, FileStep
<1>10. (Good => EntriesFit /\ ThreadsFit /\ CachesFit)'
  <2> SUFFICES ASSUME Good' PROVE (EntriesFit /\ ThreadsFit /\ CachesFit)'  OBVIOUS
  <2>1. Good  BY <1>1 DEF Good, SetTwice
  <2>2. EntriesFit /\ ThreadsFit /\ CachesFit  BY <2>1 DEF MsInv
  <2>3. \A i \in 1..n : msFile[i].whole  BY <1>1, <2>1, AllWhole DEF Inside, n
  <2>4. \A i \in 1..n : ~Owns(i, msThread[t].key)
    BY <1>2, <2>3, FindIs DEF n
  <2>5. \A i, k : Owns(i, k)' <=> Owns(i, k)
    <3> SUFFICES ASSUME NEW i, NEW k PROVE Owns(i, k)' <=> Owns(i, k)  OBVIOUS
    <3>1. CASE i \in 1..n  BY <1>2, <1>3, <3>1 DEF Owns, n
    <3>2. CASE i = n + 1  BY <1>2, <1>3, <1>4, <3>2 DEF Owns, n
    <3>3. CASE i \notin 1..(n + 1)  BY <1>2, <1>3, <3>3 DEF Owns, n
    <3> QED  BY <1>2, <3>1, <3>2, <3>3
  <2>6. CachesFit'  BY <1>1, <2>2, <2>5 DEF CachesFit
  <2>7. ThreadsFit'
    <3> SUFFICES ASSUME NEW u \in MsThreads
                 PROVE  /\ msThread'[u].pc = "fill" =>
                             /\ ~msFile'[msThread'[u].entry].whole
                             /\ \A i \in 1..Len(msFile') : ~Owns(i, msThread[u].key)'
                        /\ msThread'[u].pc \in {"cache", "count"} => Owns(msThread[u].entry, msThread[u].key)'
      BY DEF ThreadsFit
    <3>1. CASE u = t
      <4>1. msThread'[u] = r  BY <1>9, <3>1
      <4>2. ~msFile'[msThread'[u].entry].whole  BY <1>3, <1>4, <1>8, <4>1
      <4>3. \A i : ~Owns(i, msThread[u].key)'
        <5>1. \A i : ~Owns(i, msThread[t].key)  BY <2>4 DEF Owns, n
        <5> QED  BY <1>8, <2>5, <4>1, <5>1 DEF Owns
      <4>4. msThread'[u].pc \notin {"cache", "count"}  BY <1>8, <4>1
      <4> QED  BY <4>2, <4>3, <4>4
    <3>2. CASE u # t
      <4>1. msThread'[u] = msThread[u]  BY <1>9, <3>2
      <4>2. msThread[u].pc # "fill"
        <5>1. t \in Adders /\ (msThread[u].pc = "fill" => u \in Adders)  BY <1>1 DEF Adders, Inside
        <5> QED  BY <1>1, <2>1, <3>2, <5>1, OnlyAdder DEF Good
      <4>3. msThread[u].pc \in {"cache", "count"} => Owns(msThread[u].entry, msThread[u].key)
        BY <2>2 DEF ThreadsFit
      <4> QED  BY <2>5, <4>1, <4>2, <4>3 DEF Owns
    <3> QED  BY <3>1, <3>2
  <2>8. EntriesFit'
    <3>1. ASSUME NEW i \in 1..Len(msFile')
          PROVE  IF msFile'[i].whole
                 THEN msFile'[i].key \in MsKeys /\ msFile'[i].value = msGhost'.counted[msFile'[i].key]
                 ELSE msFile'[i].key = NoKey /\ \E u \in MsThreads : msThread'[u].pc = "fill" /\ msThread'[u].entry = i
      <4>1. CASE i \in 1..n
        <5>1. msFile'[i] = msFile[i] /\ msFile[i].whole  BY <1>3, <2>3, <4>1
        <5> QED  BY <1>1, <2>2, <4>1, <5>1 DEF EntriesFit, n
      <4>2. CASE i = n + 1
        <5>1. msThread'[t].pc = "fill" /\ msThread'[t].entry = i  BY <1>8, <1>9, <4>2
        <5> QED  BY <1>3, <1>4, <4>2, <5>1
      <4> QED  BY <1>2, <1>3, <4>1, <4>2
    <3>2. ASSUME NEW i \in 1..Len(msFile'), NEW j \in 1..Len(msFile'),
                 msFile'[i].whole, msFile'[j].whole, msFile'[i].key = msFile'[j].key
          PROVE  i = j
      <4>1. i \in 1..n /\ j \in 1..n  BY <1>2, <1>3, <1>4, <3>2
      <4> QED  BY <1>3, <2>2, <3>2, <4>1 DEF EntriesFit, n
    <3>3. \A k \in MsKeys : msGhost'.counted[k] > 0 => \E i \in 1..Len(msFile') : Owns(i, k)'
      <4> SUFFICES ASSUME NEW k \in MsKeys, msGhost'.counted[k] > 0
                   PROVE  \E i \in 1..Len(msFile') : Owns(i, k)'
        OBVIOUS
      <4>1. PICK i \in 1..Len(msFile) : Owns(i, k)  BY <1>1, <2>2 DEF EntriesFit
      <4>2. Owns(i, k)'  BY <2>5, <4>1
      <4> QED  BY <1>2, <1>3, <4>2 DEF n
    <3> QED  BY <3>1, <3>2, <3>3 DEF EntriesFit
  <2> QED  BY <2>6, <2>7, <2>8
<1> QED  BY <1>9, <1>10 DEF MsInv

LEMMA FillKeeps ==
  ASSUME MsInv, NEW t \in MsThreads, Fill(t)
  PROVE  MsInv'
<1> DEFINE n == Len(msFile)
           e == msThread[t].entry
           key == msThread[t].key
           new == [key |-> key, whole |-> TRUE, value |-> 0]
           r == [msThread[t] EXCEPT !.pc = "cache"]
<1>1. /\ MsTypeOK /\ SemFits /\ msThread[t].pc = "fill" /\ UNCHANGED <<msSem, msProc, msGhost>>
      /\ msFile' = [msFile EXCEPT ![e] = new]
      /\ msThread' = [msThread EXCEPT ![t].pc = "cache"]
  BY DEF MsInv, Fill
<1>2. msThread[t] \in ThreadStates(n) /\ msThread \in [MsThreads -> ThreadStates(n)]  BY <1>1 DEF MsTypeOK
<1>3. msFile \in Seq(MsEntries) /\ n \in Nat  BY <1>1 DEF MsTypeOK
<1>4. e \in 1..n /\ key \in MsKeys  BY <1>1, <1>2, <1>3 DEF ThreadStates, NoEntry
<1>5. new \in MsEntries /\ new.whole /\ new.key = key /\ new.value = 0  BY <1>4 DEF MsEntries
<1>6. msThread' = [msThread EXCEPT ![t] = r]  BY <1>1, <1>2
<1>7. r \in ThreadStates(n) /\ r.pc = "cache" /\ r.key = key /\ r.entry = e
  BY <1>1, <1>2 DEF ThreadStates, MsPlaces, Inside
<1> HIDE DEF new, r, e, key
<1>8. /\ msFile' \in Seq(MsEntries) /\ Len(msFile') = n /\ msFile'[e] = new
      /\ \A i \in 1..n : i # e => msFile'[i] = msFile[i]
  BY <1>1, <1>3, <1>4, <1>5, ExceptSeq
<1>9. /\ MsTypeOK' /\ SemFits' /\ ReadersFit' /\ ReadersUndisturbed'
      /\ \A u \in MsThreads : msThread'[u] = IF u = t THEN r ELSE msThread[u]
  <2>1. msThread[t].pc \in Inside /\ r.pc \in Inside  BY <1>1, <1>7 DEF Inside
  <2>2. Len(msFile') >= Len(msFile) /\ r \in ThreadStates(Len(msFile'))  BY <1>3, <1>7, <1>8
  <2> QED  BY <1>1, <1>6, <1>8, <2>1, <2>2, FileStep
<1>10. (Good => EntriesFit /\ ThreadsFit /\ CachesFit)'
  <2> SUFFICES ASSUME Good' PROVE (EntriesFit /\ ThreadsFit /\ CachesFit)'  OBVIOUS
  <2>1. Good  BY <1>1 DEF Good, SetTwice
  <2>2. EntriesFit /\ ThreadsFit /\ CachesFit  BY <2>1 DEF MsInv
  <2>3. ~msFile[e].whole /\ \A i \in 1..n : ~Owns(i, key)  BY <1>1, <2>2 DEF ThreadsFit, e, key
  <2>4. \A i, k : Owns(i, k)' <=> Owns(i, k) \/ (i = e /\ k = key)
    <3> SUFFICES ASSUME NEW i, NEW k PROVE Owns(i, k)' <=> Owns(i, k) \/ (i = e /\ k = key)  OBVIOUS
    <3>1. CASE i = e  BY <1>4, <1>5, <1>8, <2>3, <3>1 DEF Owns
    <3>2. CASE i # e  BY <1>8, <3>2 DEF Owns
    <3> QED  BY <3>1, <3>2
  <2>5. CachesFit'  BY <1>1, <2>2, <2>4 DEF CachesFit
  <2>6. \A u \in MsThreads : u # t => msThread'[u] = msThread[u] /\ msThread[u].pc # "fill"
    <3> SUFFICES ASSUME NEW u \in MsThreads, u # t PROVE msThread[u].pc # "fill"  BY <1>9
    <3>1. t \in Adders /\ (msThread[u].pc = "fill" => u \in Adders)  BY <1>1 DEF Adders, Inside
    <3> QED  BY <1>1, <2>1, <3>1, OnlyAdder DEF Good
  <2>7. ThreadsFit'
    <3> SUFFICES ASSUME NEW u \in MsThreads
                 PROVE  /\ msThread'[u].pc # "fill"
                        /\ msThread'[u].pc \in {"cache", "count"} => Owns(msThread[u].entry, msThread[u].key)'
      BY DEF ThreadsFit
    <3>1. CASE u = t
      <4>1. msThread'[u].pc = "cache" /\ msThread'[u].entry = e /\ msThread'[u].key = key
        BY <1>7, <1>9, <3>1
      <4>2. Owns(msThread[u].entry, msThread[u].key)'  BY <1>4, <1>5, <1>8, <4>1 DEF Owns
      <4> QED  BY <4>1, <4>2
    <3>2. CASE u # t
      <4>1. msThread'[u] = msThread[u] /\ msThread[u].pc # "fill"  BY <2>6, <3>2
      <4>2. msThread[u].pc \in {"cache", "count"} => Owns(msThread[u].entry, msThread[u].key)
        BY <2>2 DEF ThreadsFit
      <4> QED  BY <2>4, <4>1, <4>2 DEF Owns
    <3> QED  BY <3>1, <3>2
  <2>8. EntriesFit'
    <3>1. ASSUME NEW i \in 1..Len(msFile')
          PROVE  /\ msFile'[i].whole /\ msFile'[i].key \in MsKeys
                 /\ msFile'[i].value = msGhost'.counted[msFile'[i].key]
      <4>1. CASE i = e
        <5>1. msGhost.counted[key] = 0
          <6>1. msGhost.counted[key] \in Nat  BY <1>1, <1>4 DEF MsTypeOK
          <6>2. ~(msGhost.counted[key] > 0)  BY <1>4, <2>2, <2>3 DEF EntriesFit
          <6> QED  BY <6>1, <6>2
        <5> QED  BY <1>1, <1>4, <1>5, <1>8, <4>1, <5>1
      <4>2. CASE i # e
        <5>1. i \in 1..n /\ msFile'[i] = msFile[i]  BY <1>8, <4>2
        <5>2. msFile[i].whole
          <6> SUFFICES ASSUME ~msFile[i].whole PROVE FALSE  OBVIOUS
          <6>1. PICK u \in MsThreads : msThread[u].pc = "fill" /\ msThread[u].entry = i
            BY <2>2, <5>1 DEF EntriesFit
          <6>2. u = t  BY <2>6, <6>1
          <6> QED  BY <4>2, <6>1, <6>2 DEF e
        <5> QED  BY <1>1, <2>2, <5>1, <5>2 DEF EntriesFit
      <4> QED  BY <4>1, <4>2
    <3>2. ASSUME NEW i \in 1..Len(msFile'), NEW j \in 1..Len(msFile'), msFile'[i].key = msFile'[j].key
          PROVE  i = j
      <4> DEFINE k == msFile'[j].key
      <4>2. (Owns(i, k) \/ (i = e /\ k = key)) /\ (Owns(j, k) \/ (j = e /\ k = key))
        <5>1. /\ i \in 1..n /\ j \in 1..n
              /\ i # e => msFile'[i] = msFile[i]
              /\ j # e => msFile'[j] = msFile[j]
          BY <1>8
        <5>2. \A x \in 1..n : x # e => msFile[x].whole
          <6> SUFFICES ASSUME NEW x \in 1..n, x # e, ~msFile[x].whole PROVE FALSE  OBVIOUS
          <6>1. PICK u \in MsThreads : msThread[u].pc = "fill" /\ msThread[u].entry = x
            BY <2>2 DEF EntriesFit
          <6>2. u = t  BY <2>6, <6>1
          <6> QED  BY <6>1, <6>2 DEF e
        <5> QED  BY <1>5, <1>8, <3>2, <5>1, <5>2 DEF Owns
      <4> HIDE DEF k
      <4>3. CASE Owns(i, k) /\ Owns(j, k)  BY <2>2, <4>3 DEF EntriesFit, Owns
      <4>4. CASE k = key
        <5>1. ~Owns(i, k) /\ ~Owns(j, k)  BY <1>8, <2>3, <4>4
        <5> QED  BY <4>2, <5>1
      <4> QED  BY <4>2, <4>3, <4>4
    <3>3. \A k \in MsKeys : msGhost'.counted[k] > 0 => \E i \in 1..Len(msFile') : Owns(i, k)'
      <4> SUFFICES ASSUME NEW k \in MsKeys, msGhost'.counted[k] > 0
                   PROVE  \E i \in 1..Len(msFile') : Owns(i, k)'
        OBVIOUS
      <4>1. PICK i \in 1..Len(msFile) : Owns(i, k)  BY <1>1, <2>2 DEF EntriesFit
      <4>2. Owns(i, k)'  BY <2>4, <4>1
      <4> QED  BY <1>8, <4>2
    <3> QED  BY <3>1, <3>2, <3>3 DEF EntriesFit
  <2> QED  BY <2>5, <2>7, <2>8
<1> QED  BY <1>9, <1>10 DEF MsInv

\* SemV by a thread that leaves.
LEMMA SemVFits ==
  ASSUME MsTypeOK, SemFits, NEW t \in MsThreads, msThread[t].pc \in Inside, msSem' = SemV,
         Adders' = Adders \ {t}
  PROVE  msSem' \in [made : BOOLEAN, val : Nat, set : Nat] /\ msSem'.set = msSem.set /\ SemFits'
<1>1. msSem \in [made : BOOLEAN, val : Nat, set : Nat]  BY DEF MsTypeOK
<1>2. msSem' = [msSem EXCEPT !.val = msSem.val + 1]  BY DEF SemV
<1>3. msSem' \in [made : BOOLEAN, val : Nat, set : Nat]  BY <1>1, <1>2
<1>4. msSem'.set = msSem.set /\ msSem'.val = msSem.val + 1  BY <1>1, <1>2
<1>5. msSem.val \in Nat /\ msSem.set \in Nat  BY <1>1
<1>6. t \in Adders  BY DEF Adders
<1>7. Cardinality(Adders') = Cardinality(Adders) - 1  BY <1>6, AddersFinite, FS_RemoveElement
<1> QED  BY <1>3, <1>4, <1>5, <1>7, AddersFinite DEF SemFits

LEMMA KnownKeeps ==
  ASSUME MsInv, NEW t \in MsThreads, CacheInsert(t), msThread[t].key \in DOMAIN MapOf(t)
  PROVE  MsInv'
<1> DEFINE r == [msThread[t] EXCEPT !.pc = "count"]
<1>1. /\ MsTypeOK /\ SemFits /\ msThread[t].pc = "cache" /\ UNCHANGED <<msFile, msProc, msGhost>>
      /\ msSem' = SemV /\ msThread' = [msThread EXCEPT ![t].pc = "count"]
  BY DEF MsInv, CacheInsert
<1>2. msThread[t] \in ThreadStates(Len(msFile)) /\ msThread \in [MsThreads -> ThreadStates(Len(msFile))]
  BY <1>1 DEF MsTypeOK
<1>3. msThread' = [msThread EXCEPT ![t] = r]  BY <1>1, <1>2
<1>4. r \in ThreadStates(Len(msFile))  BY <1>1, <1>2 DEF ThreadStates, MsPlaces
<1>5. r.pc = "count" /\ r.key = msThread[t].key /\ r.entry = msThread[t].entry  BY <1>2 DEF ThreadStates
<1> HIDE DEF r
<1>6. Adders' = Adders \ {t}  BY <1>2, <1>3, <1>5 DEF Adders, Inside
<1>7. msSem' \in [made : BOOLEAN, val : Nat, set : Nat] /\ msSem'.set = msSem.set /\ SemFits'
  BY <1>1, <1>6, SemVFits DEF Inside
<1>8. Good => Owns(r.entry, r.key)  BY <1>1, <1>5 DEF MsInv, ThreadsFit
<1> QED  BY <1>1, <1>3, <1>4, <1>5, <1>7, <1>8, ThreadStep

\* The counts of a file step: an entry and its ghost count grow together.
LEMMA CountKeeps ==
  ASSUME MsInv, NEW t \in MsThreads, Count(t)
  PROVE  MsInv'
<1> DEFINE n == Len(msFile)
           e == msThread[t].entry
           key == msThread[t].key
           new == [msFile[e] EXCEPT !.value = msFile[e].value + 1]
<1>1. /\ MsTypeOK /\ SemFits /\ msThread[t].pc = "count" /\ UNCHANGED <<msSem, msProc>>
      /\ msFile' = [msFile EXCEPT ![e].value = @ + 1]
      /\ msGhost' = [msGhost EXCEPT !.counted[key] = @ + 1]
      /\ msThread' = [msThread EXCEPT ![t] = IdleThread]
  BY DEF MsInv, Count
<1>2. msThread[t] \in ThreadStates(n) /\ msThread \in [MsThreads -> ThreadStates(n)]  BY <1>1 DEF MsTypeOK
<1>3. msFile \in Seq(MsEntries) /\ n \in Nat  BY <1>1 DEF MsTypeOK
<1>4. e \in 1..n /\ key \in MsKeys  BY <1>1, <1>2, <1>3 DEF ThreadStates, NoEntry
<1>5. msFile[e] \in MsEntries  BY <1>3, <1>4
<1>6. new \in MsEntries  BY <1>5 DEF MsEntries
<1>7. new.whole = msFile[e].whole /\ new.key = msFile[e].key /\ new.value = msFile[e].value + 1
  BY <1>5 DEF MsEntries
<1>8. msFile' = [msFile EXCEPT ![e] = new]  BY <1>1
<1> HIDE DEF new, e, key
<1>9. /\ msFile' \in Seq(MsEntries) /\ Len(msFile') = n /\ msFile'[e] = new
      /\ \A i \in 1..n : i # e => msFile'[i] = msFile[i]
  BY <1>3, <1>4, <1>6, <1>8, ExceptSeq
<1>10. /\ msGhost' \in [torn : BOOLEAN, counted : [MsKeys -> Nat], clashes : SUBSET Nat, deaths : Nat]
       /\ msGhost'.torn = msGhost.torn /\ msGhost'.clashes = msGhost.clashes
       /\ \A k \in MsKeys : msGhost'.counted[k] = IF k = key THEN msGhost.counted[k] + 1 ELSE msGhost.counted[k]
       /\ \A k \in MsKeys : msGhost.counted[k] \in Nat
  <2> DEFINE c == [msGhost.counted EXCEPT ![key] = msGhost.counted[key] + 1]
  <2>1. msGhost \in [torn : BOOLEAN, counted : [MsKeys -> Nat], clashes : SUBSET Nat, deaths : Nat]
    BY <1>1 DEF MsTypeOK
  <2>2. msGhost.counted \in [MsKeys -> Nat]  BY <2>1
  <2>3. /\ c \in [MsKeys -> Nat]
        /\ \A k \in MsKeys : c[k] = IF k = key THEN msGhost.counted[k] + 1 ELSE msGhost.counted[k]
    BY <1>4, <2>2
  <2>4. msGhost' = [msGhost EXCEPT !.counted = c]  BY <1>1
  <2> HIDE DEF c
  <2>5. msGhost' \in [torn : BOOLEAN, counted : [MsKeys -> Nat], clashes : SUBSET Nat, deaths : Nat]
    BY <2>1, <2>3, <2>4
  <2>6. msGhost'.torn = msGhost.torn  BY <2>1, <2>4, Zenon
  <2>7. msGhost'.clashes = msGhost.clashes /\ msGhost'.counted = c  BY <2>1, <2>4
  <2> QED  BY <2>2, <2>3, <2>5, <2>6, <2>7
<1>11. /\ msThread' \in [MsThreads -> ThreadStates(n)]
       /\ \A u \in MsThreads : msThread'[u] = IF u = t THEN IdleThread ELSE msThread[u]
  BY <1>1, <1>2, <1>3, IdleFacts
<1>12. IdleThread.pc = "idle"  BY <1>3, IdleFacts
<1>13. MsTypeOK'  BY <1>1, <1>9, <1>10, <1>11 DEF MsTypeOK
<1>14. SemFits'
  <2>1. \A u \in MsThreads : msThread'[u].pc \in Inside <=> msThread[u].pc \in Inside
    BY <1>1, <1>11, <1>12 DEF Inside
  <2> QED  BY <1>1, <2>1, AddersSame
<1>15. ReadersFit'
  <2> SUFFICES ASSUME NEW u \in MsThreads, msThread'[u].pc = "lookup", msThread'[u].since < MAX_CACHE_SIZE
               PROVE  (\/ CacheOf(u).index = msThread[u].index + msThread[u].since
                       \/ CacheOf(u).index + MAX_CACHE_SIZE = msThread[u].index + msThread[u].since)'
    BY DEF ReadersFit
  <2>1. msThread'[u] = msThread[u]  BY <1>11, <1>12
  <2>2. CacheOf(u)' = CacheOf(u)  BY <1>1, <2>1 DEF CacheOf
  <2> QED  BY <2>1, <2>2 DEF MsInv, ReadersFit
<1>16. ReadersUndisturbed'  BY <1>10 DEF MsInv, ReadersUndisturbed
<1>17. (Good => EntriesFit /\ ThreadsFit /\ CachesFit)'
  <2> SUFFICES ASSUME Good' PROVE (EntriesFit /\ ThreadsFit /\ CachesFit)'  OBVIOUS
  <2>1. Good  BY <1>1, <1>10 DEF Good, SetTwice
  <2>2. EntriesFit /\ ThreadsFit /\ CachesFit  BY <2>1 DEF MsInv
  <2>3. \A i \in 1..n : msFile'[i].whole = msFile[i].whole /\ msFile'[i].key = msFile[i].key
    BY <1>7, <1>9
  <2>4. \A i, k : Owns(i, k)' <=> Owns(i, k)  BY <1>9, <2>3 DEF Owns
  <2>5. CachesFit'  BY <1>1, <2>2, <2>4 DEF CachesFit
  <2>6. ThreadsFit'
    <3> SUFFICES ASSUME NEW u \in MsThreads, u # t
                 PROVE  /\ msThread'[u].pc = "fill" =>
                             /\ ~msFile'[msThread'[u].entry].whole
                             /\ \A i \in 1..Len(msFile') : ~Owns(i, msThread[u].key)'
                        /\ msThread'[u].pc \in {"cache", "count"} => Owns(msThread[u].entry, msThread[u].key)'
      BY <1>11, <1>12 DEF ThreadsFit
    <3>1. msThread'[u] = msThread[u] /\ msThread[u] \in ThreadStates(n)  BY <1>2, <1>11
    <3>2. /\ msThread[u].pc = "fill" => /\ ~msFile[msThread[u].entry].whole
                                        /\ \A i \in 1..n : ~Owns(i, msThread[u].key)
          /\ msThread[u].pc \in {"cache", "count"} => Owns(msThread[u].entry, msThread[u].key)
      BY <2>2 DEF ThreadsFit
    <3>3. msThread[u].pc = "fill" => msThread[u].entry \in 1..n
      BY <1>3, <3>1 DEF ThreadStates, NoEntry
    <3> QED  BY <1>9, <2>3, <2>4, <3>1, <3>2, <3>3 DEF Owns
  <2>7. EntriesFit'
    <3>1. Owns(e, key)  BY <1>1, <2>2 DEF ThreadsFit, e, key
    <3>2. ASSUME NEW i \in 1..Len(msFile')
          PROVE  IF msFile'[i].whole
                 THEN msFile'[i].key \in MsKeys /\ msFile'[i].value = msGhost'.counted[msFile'[i].key]
                 ELSE msFile'[i].key = NoKey /\ \E u \in MsThreads : msThread'[u].pc = "fill" /\ msThread'[u].entry = i
      <4>1. i \in 1..n  BY <1>9
      <4>2. CASE i = e
        <5>1. msFile[i].value = msGhost.counted[key] /\ msFile[i].key = key /\ msFile[i].whole
          BY <2>2, <3>1, <4>1, <4>2 DEF EntriesFit, Owns
        <5>2. msFile'[i].whole /\ msFile'[i].key = key  BY <2>3, <4>1, <5>1
        <5>3. msFile'[i].value = msFile[i].value + 1  BY <1>7, <1>9, <4>2
        <5>4. msGhost'.counted[key] = msGhost.counted[key] + 1  BY <1>4, <1>10
        <5> QED  BY <1>4, <5>1, <5>2, <5>3, <5>4
      <4>3. CASE i # e /\ msFile[i].whole
        <5>1. msFile[i].key # key  BY <2>2, <3>1, <4>1, <4>3 DEF EntriesFit, Owns
        <5>2. msFile[i].key \in MsKeys /\ msFile[i].value = msGhost.counted[msFile[i].key]
          BY <2>2, <4>1, <4>3 DEF EntriesFit
        <5> QED  BY <1>9, <1>10, <4>1, <4>3, <5>1, <5>2
      <4>4. CASE ~msFile[i].whole
        <5>1. PICK u \in MsThreads : msThread[u].pc = "fill" /\ msThread[u].entry = i /\ msFile[i].key = NoKey
          BY <2>2, <4>1, <4>4 DEF EntriesFit
        <5>2. msThread'[u] = msThread[u]  BY <1>1, <1>11, <5>1
        <5> QED  BY <2>3, <4>1, <4>4, <5>1, <5>2
      <4> QED  BY <4>2, <4>3, <4>4
    <3>3. ASSUME NEW i \in 1..Len(msFile'), NEW j \in 1..Len(msFile'),
                 msFile'[i].whole, msFile'[j].whole, msFile'[i].key = msFile'[j].key
          PROVE  i = j
      BY <1>9, <2>2, <2>3, <3>3 DEF EntriesFit
    <3>4. \A k \in MsKeys : msGhost'.counted[k] > 0 => \E i \in 1..Len(msFile') : Owns(i, k)'
      <4> SUFFICES ASSUME NEW k \in MsKeys, msGhost'.counted[k] > 0
                   PROVE  \E i \in 1..Len(msFile') : Owns(i, k)'
        OBVIOUS
      <4>1. PICK i \in 1..Len(msFile) : Owns(i, k)
        <5>1. CASE k = key  BY <1>4, <3>1, <5>1
        <5>2. CASE k # key  BY <1>10, <2>2, <5>2 DEF EntriesFit
        <5> QED  BY <5>1, <5>2
      <4>2. Owns(i, k)'  BY <2>4, <4>1
      <4> QED  BY <1>9, <4>2
    <3> QED  BY <3>2, <3>3, <3>4 DEF EntriesFit
  <2> QED  BY <2>5, <2>6, <2>7
<1> QED  BY <1>13, <1>14, <1>15, <1>16, <1>17 DEF MsInv

\* CacheInsert of a key that the current map does not have: the next copy of
\* the map becomes the current one.
LEMMA InsertKeeps ==
  ASSUME MsInv, NEW t \in MsThreads, CacheInsert(t), msThread[t].key \notin DOMAIN MapOf(t)
  PROVE  MsInv'
<1> DEFINE n == Len(msFile)
           p == MsProcess[t]
           key == msThread[t].key
           kind == key[1]
           c == CacheOf(t)
           new == NextIndex(c.index)
           readers == {u \in MsThreads : /\ MsProcess[u] = p /\ msThread[u].pc = "lookup"
                                         /\ msThread[u].key[1] = kind}
           map == [k \in DOMAIN MapOf(t) \cup {key} |-> IF k = key THEN msThread[t].entry ELSE MapOf(t)[k]]
           maps == [c.maps EXCEPT ![new] = map]
           d == [index |-> new, maps |-> maps]
           met == {msThread[u].since + 1 : u \in {x \in readers : msThread[x].index = new}}
           r(u) == IF u = t THEN [msThread[u] EXCEPT !.pc = "count"]
                   ELSE IF u \in readers THEN [msThread[u] EXCEPT !.since = msThread[u].since + 1]
                   ELSE msThread[u]
<1>1. /\ MsTypeOK /\ SemFits /\ msThread[t].pc = "cache" /\ UNCHANGED msFile /\ msSem' = SemV
      /\ msProc' = [msProc EXCEPT ![p].cache[kind] = d]
      /\ msThread' = [u \in MsThreads |-> r(u)]
      /\ msGhost' = [msGhost EXCEPT !.clashes = msGhost.clashes \cup met]
  <2>1. MsTypeOK /\ SemFits  BY DEF MsInv
  <2>2. /\ msThread[t].pc = "cache" /\ UNCHANGED msFile /\ msSem' = SemV
        /\ msThread' = [u \in MsThreads |-> r(u)]
        /\ msGhost' = [msGhost EXCEPT !.clashes = msGhost.clashes \cup met]
    BY DEF CacheInsert
  <2>3. msProc' = [msProc EXCEPT ![p].cache[kind] = [index |-> new, maps |-> [@.maps EXCEPT ![new] = map]]]
    BY DEF CacheInsert
  <2>4. msProc' = [msProc EXCEPT ![p].cache[kind] = d]  BY <2>3 DEF CacheOf
  <2> QED  BY <2>1, <2>2, <2>4
<1>2. n \in Nat /\ msThread \in [MsThreads -> ThreadStates(n)]  BY <1>1 DEF MsTypeOK
<1>3. key \in MsKeys /\ msThread[t].entry \in 1..n /\ kind \in Kinds /\ p \in MsProcs
  <2>1. key \in MsKeys /\ msThread[t].entry \in 1..n  BY <1>1, <1>2 DEF ThreadStates, NoEntry
  <2> QED  BY <2>1, MsConstants
<1>4. /\ c \in [index : CacheIndex, maps : [CacheIndex -> Maps(n)]]
      /\ c = msProc[p].cache[kind]
  BY <1>1, <1>3, CacheFacts DEF CacheOf
<1>5. c.index \in CacheIndex /\ MapOf(t) = c.maps[c.index]  BY <1>4 DEF MapOf
<1>6. MapOf(t) \in Maps(n)
  <2>1. c.maps \in [CacheIndex -> Maps(n)]  BY <1>4
  <2> HIDE DEF c
  <2> QED  BY <1>5, <2>1
<1>7. map \in Maps(n)
  <2> DEFINE K == DOMAIN MapOf(t) \cup {key}
  <2>1. K \in SUBSET MsKeys /\ \A k \in DOMAIN MapOf(t) : MapOf(t)[k] \in 1..n  BY <1>2, <1>3, <1>6, MapFacts
  <2>2. map \in [K -> 1..n]  BY <1>3, <2>1
  <2> HIDE DEF map, K
  <2> QED  BY <2>1, <2>2 DEF Maps
<1>8. /\ \A k \in DOMAIN map : map[k] = IF k = key THEN msThread[t].entry ELSE MapOf(t)[k]
      /\ DOMAIN map = DOMAIN MapOf(t) \cup {key}
  OBVIOUS
<1>9. new \in CacheIndex /\ new = IF c.index + 1 = MAX_CACHE_SIZE THEN 0 ELSE c.index + 1
  BY <1>5, NextIndexIs
<1> HIDE DEF map, new
<1>10. /\ maps \in [CacheIndex -> Maps(n)]
       /\ \A x \in CacheIndex : maps[x] = IF x = new THEN map ELSE c.maps[x]
  BY <1>4, <1>7, <1>9
<1> HIDE DEF maps
<1>11. d \in [index : CacheIndex, maps : [CacheIndex -> Maps(n)]] /\ d.index = new /\ d.maps = maps
  BY <1>9, <1>10
<1> HIDE DEF d, c
<1>12. /\ msProc' \in [MsProcs -> [stage : MsStages, cache : Caches(n)]]
       /\ \A q \in MsProcs, h \in Kinds :
            msProc'[q].cache[h] = IF q = p /\ h = kind THEN d ELSE msProc[q].cache[h]
  <2> DEFINE C == [msProc[p].cache EXCEPT ![kind] = d]
  <2>1. msProc \in [MsProcs -> [stage : MsStages, cache : Caches(n)]]  BY <1>1 DEF MsTypeOK
  <2>2. msProc[p].cache \in Caches(n)  BY <1>3, <2>1
  <2>3. C \in Caches(n) /\ \A h \in Kinds : C[h] = IF h = kind THEN d ELSE msProc[p].cache[h]
    BY <1>3, <1>11, <2>2 DEF Caches
  <2>4. msProc' = [msProc EXCEPT ![p].cache = C]  BY <1>1
  <2> HIDE DEF C, p, kind
  <2>5. msProc' \in [MsProcs -> [stage : MsStages, cache : Caches(n)]]  BY <1>3, <2>1, <2>3, <2>4
  <2>6. \A q \in MsProcs : msProc'[q].cache = IF q = p THEN C ELSE msProc[q].cache  BY <1>3, <2>1, <2>4
  <2> QED  BY <2>3, <2>5, <2>6
<1>13. \A u \in MsThreads : msThread'[u] = r(u)  BY <1>1
<1>14. \A u \in MsThreads : /\ r(u) \in ThreadStates(n) /\ r(u).key = msThread[u].key
                            /\ r(u).entry = msThread[u].entry /\ r(u).index = msThread[u].index
                            /\ r(u).pc = IF u = t THEN "count" ELSE msThread[u].pc
                            /\ u # t /\ u \in readers => r(u).since = msThread[u].since + 1
                            /\ u # t /\ u \notin readers => r(u) = msThread[u]
  <2> SUFFICES ASSUME NEW u \in MsThreads
               PROVE  /\ r(u) \in ThreadStates(n) /\ r(u).key = msThread[u].key
                      /\ r(u).entry = msThread[u].entry /\ r(u).index = msThread[u].index
                      /\ r(u).pc = IF u = t THEN "count" ELSE msThread[u].pc
                      /\ u # t /\ u \in readers => r(u).since = msThread[u].since + 1
                      /\ u # t /\ u \notin readers => r(u) = msThread[u]
    OBVIOUS
  <2>1. msThread[u] \in ThreadStates(n)  BY <1>2
  <2>2. CASE u = t
    <3>1. r(u) = [msThread[u] EXCEPT !.pc = "count"]  BY <2>2
    <3>2. r(u) \in ThreadStates(n)  BY <1>1, <2>1, <2>2, <3>1 DEF ThreadStates, MsPlaces
    <3>3. r(u).key = msThread[u].key /\ r(u).entry = msThread[u].entry /\ r(u).index = msThread[u].index
          /\ r(u).pc = "count"
      BY <2>1, <3>1 DEF ThreadStates
    <3> QED  BY <2>2, <3>2, <3>3
  <2>3. CASE u # t /\ u \in readers
    <3>1. r(u) = [msThread[u] EXCEPT !.since = msThread[u].since + 1]  BY <2>3
    <3>2. msThread[u].since + 1 \in Nat  BY <2>1 DEF ThreadStates
    <3>3. r(u) \in ThreadStates(n)  BY <2>1, <3>1, <3>2 DEF ThreadStates
    <3>4. r(u).key = msThread[u].key /\ r(u).entry = msThread[u].entry /\ r(u).index = msThread[u].index
          /\ r(u).pc = msThread[u].pc /\ r(u).since = msThread[u].since + 1
      BY <2>1, <3>1 DEF ThreadStates
    <3> QED  BY <2>3, <3>3, <3>4
  <2>4. CASE u # t /\ u \notin readers  BY <2>1, <2>4
  <2> QED  BY <2>2, <2>3, <2>4
<1> HIDE DEF r
<1>15. msThread' \in [MsThreads -> ThreadStates(n)]  BY <1>1, <1>14
<1>16. /\ msGhost' \in [torn : BOOLEAN, counted : [MsKeys -> Nat], clashes : SUBSET Nat, deaths : Nat]
       /\ msGhost'.torn = msGhost.torn /\ msGhost'.counted = msGhost.counted
       /\ msGhost'.clashes = msGhost.clashes \cup met
  <2>1. msGhost \in [torn : BOOLEAN, counted : [MsKeys -> Nat], clashes : SUBSET Nat, deaths : Nat]
    BY <1>1 DEF MsTypeOK
  <2>2. met \in SUBSET Nat  BY <1>2 DEF ThreadStates
  <2> HIDE DEF met
  <2>3. msGhost'.torn = msGhost.torn  BY <1>1, <2>1, Zenon
  <2>4. msGhost'.counted = msGhost.counted /\ msGhost'.clashes = msGhost.clashes \cup met  BY <1>1, <2>1
  <2>5. msGhost' \in [torn : BOOLEAN, counted : [MsKeys -> Nat], clashes : SUBSET Nat, deaths : Nat]
    <3>1. msGhost.clashes \cup met \in SUBSET Nat  BY <2>1, <2>2
    <3> QED  BY <1>1, <2>1, <3>1
  <2> QED  BY <2>3, <2>4, <2>5
<1>17. Adders' = Adders \ {t}  BY <1>13, <1>14 DEF Adders, Inside
<1>18. msSem' \in [made : BOOLEAN, val : Nat, set : Nat] /\ msSem'.set = msSem.set /\ SemFits'
  BY <1>1, <1>17, SemVFits DEF Inside
<1>19. MsTypeOK'  BY <1>1, <1>12, <1>15, <1>16, <1>18 DEF MsTypeOK
\* A reader of this cache is one step further behind.
<1>20. \A u \in readers :
         /\ u # t /\ msThread[u].since \in Nat /\ msThread[u].index \in CacheIndex
         /\ msThread[u].since + 1 < MAX_CACHE_SIZE =>
              \/ new = msThread[u].index + msThread[u].since + 1
              \/ new + MAX_CACHE_SIZE = msThread[u].index + msThread[u].since + 1
  <2> SUFFICES ASSUME NEW u \in readers
               PROVE  /\ u # t /\ msThread[u].since \in Nat /\ msThread[u].index \in CacheIndex
                      /\ msThread[u].since + 1 < MAX_CACHE_SIZE =>
                           \/ new = msThread[u].index + msThread[u].since + 1
                           \/ new + MAX_CACHE_SIZE = msThread[u].index + msThread[u].since + 1
    OBVIOUS
  <2>1. u \in MsThreads /\ u # t /\ msThread[u].pc = "lookup"  BY <1>1
  <2>2. msThread[u].since \in Nat /\ msThread[u].index \in CacheIndex  BY <1>2, <2>1 DEF ThreadStates
  <2>3. CacheOf(u) = c  BY <1>4 DEF CacheOf
  <2>4. msThread[u].since < MAX_CACHE_SIZE =>
          \/ c.index = msThread[u].index + msThread[u].since
          \/ c.index + MAX_CACHE_SIZE = msThread[u].index + msThread[u].since
    BY <2>1, <2>3 DEF MsInv, ReadersFit
  <2> HIDE DEF readers
  <2> QED  BY <1>5, <1>9, <2>1, <2>2, <2>4, MsConstants DEF CacheIndex
<1>21. ReadersFit'
  <2> SUFFICES ASSUME NEW u \in MsThreads, msThread'[u].pc = "lookup", msThread'[u].since < MAX_CACHE_SIZE
               PROVE  (\/ CacheOf(u).index = msThread[u].index + msThread[u].since
                       \/ CacheOf(u).index + MAX_CACHE_SIZE = msThread[u].index + msThread[u].since)'
    BY DEF ReadersFit
  <2>1. u # t /\ msThread[u].pc = "lookup" /\ msThread[u] \in ThreadStates(n)  BY <1>2, <1>13, <1>14
  <2>2. MsProcess[u] \in MsProcs /\ msThread[u].key[1] \in Kinds  BY <2>1, MsConstants DEF ThreadStates
  <2>3. CASE u \in readers
    <3>1. CacheOf(u)' = d  BY <1>3, <1>12, <1>13, <1>14, <2>3 DEF CacheOf
    <3>2. msThread'[u].index = msThread[u].index /\ msThread'[u].since = msThread[u].since + 1
      BY <1>13, <1>14, <2>1, <2>3
    <3>3. CacheOf(u)'.index = new  BY <1>11, <3>1
    <3> HIDE DEF readers
    <3> QED  BY <1>20, <2>3, <3>2, <3>3, MsConstants DEF CacheIndex
  <2>4. CASE u \notin readers
    <3>1. msThread'[u] = msThread[u]  BY <1>13, <1>14, <2>1, <2>4
    <3>2. ~(MsProcess[u] = p /\ msThread[u].key[1] = kind)  BY <2>1, <2>4
    <3>3. CacheOf(u)' = CacheOf(u)  BY <1>12, <2>2, <3>1, <3>2 DEF CacheOf
    <3> QED  BY <3>1, <3>3 DEF MsInv, ReadersFit
  <2> QED  BY <2>3, <2>4
<1>22. ReadersUndisturbed'
  <2> SUFFICES ASSUME NEW x \in met PROVE x >= MAX_CACHE_SIZE  BY <1>16 DEF MsInv, ReadersUndisturbed
  <2>1. PICK u \in readers : msThread[u].index = new /\ x = msThread[u].since + 1  OBVIOUS
  <2> HIDE DEF readers, met
  <2> QED  BY <1>9, <1>20, <2>1, MsConstants DEF CacheIndex
<1>23. (Good => EntriesFit /\ ThreadsFit /\ CachesFit)'
  <2> SUFFICES ASSUME Good' PROVE (EntriesFit /\ ThreadsFit /\ CachesFit)'  OBVIOUS
  <2>1. Good  BY <1>16, <1>18 DEF Good, SetTwice
  <2>2. EntriesFit /\ ThreadsFit /\ CachesFit  BY <2>1 DEF MsInv
  <2>3. \A i, k : Owns(i, k)' <=> Owns(i, k)  BY <1>1 DEF Owns
  <2>4. Owns(msThread[t].entry, key)  BY <1>1, <2>2 DEF ThreadsFit
  <2>5. CachesFit'
    <3> SUFFICES ASSUME NEW q \in MsProcs, NEW h \in Kinds, NEW x \in CacheIndex,
                        NEW k \in DOMAIN msProc'[q].cache[h].maps[x]
                 PROVE  Owns(msProc[q].cache[h].maps[x][k], k)'
      BY DEF CachesFit
    <3>1. CASE q = p /\ h = kind /\ x = new
      <4>1. msProc'[q].cache[h].maps[x] = map  BY <1>10, <1>11, <1>12, <3>1
      <4>2. CASE k = key
        <5>1. map[k] = msThread[t].entry  BY <1>8, <4>1, <4>2
        <5>2. Owns(map[k], k)  BY <2>4, <4>2, <5>1
        <5> QED  BY <1>1, <4>1, <5>2 DEF Owns
      <4>3. CASE k # key
        <5>1. k \in DOMAIN MapOf(t) /\ map[k] = MapOf(t)[k]  BY <1>8, <4>1, <4>3
        <5>2. MapOf(t) = msProc[p].cache[kind].maps[c.index]  BY <1>4, <1>5
        <5>3. Owns(map[k], k)  BY <1>3, <1>5, <2>2, <5>1, <5>2 DEF CachesFit
        <5> QED  BY <1>1, <4>1, <5>3 DEF Owns
      <4> QED  BY <4>2, <4>3
    <3>2. CASE ~(q = p /\ h = kind /\ x = new)
      <4>1. msProc'[q].cache[h].maps[x] = msProc[q].cache[h].maps[x]
        <5>1. CASE q = p /\ h = kind  BY <1>4, <1>10, <1>11, <1>12, <3>2, <5>1
        <5>2. CASE ~(q = p /\ h = kind)  BY <1>12, <5>2
        <5> QED  BY <5>1, <5>2
      <4>2. Owns(msProc[q].cache[h].maps[x][k], k)  BY <2>2, <4>1 DEF CachesFit
      <4> QED  BY <1>1, <4>1, <4>2 DEF Owns
    <3> QED  BY <3>1, <3>2
  <2>6. ThreadsFit'
    <3> SUFFICES ASSUME NEW u \in MsThreads
                 PROVE  /\ msThread'[u].pc = "fill" =>
                             /\ ~msFile'[msThread'[u].entry].whole
                             /\ \A i \in 1..Len(msFile') : ~Owns(i, msThread[u].key)'
                        /\ msThread'[u].pc \in {"cache", "count"} => Owns(msThread[u].entry, msThread[u].key)'
      BY DEF ThreadsFit
    <3>1. /\ msThread'[u].key = msThread[u].key /\ msThread'[u].entry = msThread[u].entry
          /\ msThread'[u].pc = IF u = t THEN "count" ELSE msThread[u].pc
      BY <1>13, <1>14
    <3>2. /\ msThread[u].pc = "fill" => /\ ~msFile[msThread[u].entry].whole
                                        /\ \A i \in 1..n : ~Owns(i, msThread[u].key)
          /\ msThread[u].pc \in {"cache", "count"} => Owns(msThread[u].entry, msThread[u].key)
      BY <2>2 DEF ThreadsFit
    <3> QED  BY <1>1, <2>4, <3>1, <3>2 DEF Owns
  <2>7. EntriesFit'
    <3>1. \A i : (\E u \in MsThreads : msThread[u].pc = "fill" /\ msThread[u].entry = i)
                 => \E u \in MsThreads : msThread'[u].pc = "fill" /\ msThread'[u].entry = i
      BY <1>1, <1>13, <1>14
    <3>2. msGhost'.counted = msGhost.counted  BY <1>16
    <3>3. msFile' = msFile  BY <1>1
    <3>4. \A i \in 1..Len(msFile) :
            IF msFile[i].whole
            THEN msFile[i].key \in MsKeys /\ msFile[i].value = msGhost'.counted[msFile[i].key]
            ELSE msFile[i].key = NoKey /\ \E u \in MsThreads : msThread'[u].pc = "fill" /\ msThread'[u].entry = i
      BY <2>2, <3>1, <3>2 DEF EntriesFit
    <3>5. \A k \in MsKeys : msGhost'.counted[k] > 0 => \E i \in 1..Len(msFile) : Owns(i, k)
      BY <2>2, <3>2 DEF EntriesFit
    <3> QED  BY <2>2, <3>3, <3>4, <3>5 DEF EntriesFit, Owns
  <2> QED  BY <2>5, <2>6, <2>7
<1> QED  BY <1>18, <1>19, <1>21, <1>22, <1>23 DEF MsInv

LEMMA DiesKeeps ==
  ASSUME MsInv, NEW p \in MsProcs, ProcessDies(p)
  PROVE  MsInv'
<1> DEFINE n == Len(msFile)
           mine == {t \in MsThreads : MsProcess[t] = p}
           inside == {t \in mine : msThread[t].pc \in Inside}
           fresh == [stage |-> "start", cache |-> EmptyCache]
           cut == \E t \in mine : msThread[t].pc = "fill"
<1>1. /\ MsTypeOK /\ SemFits /\ UNCHANGED msFile
      /\ msProc' = [msProc EXCEPT ![p] = fresh]
      /\ msThread' = [t \in MsThreads |-> IF t \in mine THEN IdleThread ELSE msThread[t]]
      /\ msSem' = [msSem EXCEPT !.val = msSem.val + Cardinality(inside)]
      /\ msGhost' = [msGhost EXCEPT !.deaths = msGhost.deaths + 1, !.torn = msGhost.torn \/ cut]
  BY DEF MsInv, ProcessDies
<1>2. n \in Nat /\ msThread \in [MsThreads -> ThreadStates(n)]  BY <1>1 DEF MsTypeOK
<1>3. IdleThread.pc = "idle" /\ IdleThread \in ThreadStates(n)  BY <1>2, IdleFacts
<1>4. /\ msThread' \in [MsThreads -> ThreadStates(n)]
      /\ \A t \in MsThreads : msThread'[t] = IF t \in mine THEN IdleThread ELSE msThread[t]
  BY <1>1, <1>2, <1>3
<1>5. fresh \in [stage : MsStages, cache : Caches(n)] /\ fresh.cache = EmptyCache
  BY <1>2, IdleFacts DEF MsStages
<1> HIDE DEF fresh
<1>6. /\ msProc' \in [MsProcs -> [stage : MsStages, cache : Caches(n)]]
      /\ \A q \in MsProcs : msProc'[q] = IF q = p THEN fresh ELSE msProc[q]
  BY <1>1, <1>5 DEF MsTypeOK
<1>7. inside = Adders \cap mine /\ Adders' = Adders \ mine  BY <1>3, <1>4 DEF Adders, Inside
<1>8. /\ Cardinality(inside) \in Nat
      /\ Cardinality(Adders') = Cardinality(Adders) - Cardinality(inside)
  <2>1. inside \in SUBSET Adders  BY <1>7
  <2>2. IsFiniteSet(inside)  BY <2>1, AddersFinite, FS_Subset
  <2>3. Cardinality(inside) \in Nat  BY <2>2, FS_CardinalityType
  <2>4. Cardinality(Adders \ mine) = Cardinality(Adders) - Cardinality(Adders \cap mine)
    BY AddersFinite, FS_Difference
  <2> QED  BY <1>7, <2>3, <2>4
<1>9. /\ msSem' \in [made : BOOLEAN, val : Nat, set : Nat]
      /\ msSem'.set = msSem.set /\ msSem'.val = msSem.val + Cardinality(inside)
      /\ msSem.set \in Nat /\ msSem.val \in Nat
  <2> DEFINE v == msSem.val + Cardinality(inside)
  <2>1. msSem \in [made : BOOLEAN, val : Nat, set : Nat]  BY <1>1 DEF MsTypeOK
  <2>2. v \in Nat  BY <1>8, <2>1
  <2>3. msSem' = [msSem EXCEPT !.val = v]  BY <1>1
  <2> HIDE DEF v
  <2>4. msSem' \in [made : BOOLEAN, val : Nat, set : Nat]  BY <2>1, <2>2, <2>3
  <2>5. msSem'.set = msSem.set /\ msSem'.val = v  BY <2>1, <2>3
  <2> QED  BY <2>1, <2>4, <2>5 DEF v
<1>10. SemFits'  BY <1>1, <1>8, <1>9, AddersFinite DEF SemFits
<1>11. /\ msGhost' \in [torn : BOOLEAN, counted : [MsKeys -> Nat], clashes : SUBSET Nat, deaths : Nat]
       /\ msGhost'.torn = (msGhost.torn \/ cut) /\ msGhost'.counted = msGhost.counted
       /\ msGhost'.clashes = msGhost.clashes
  <2> DEFINE m == [msGhost EXCEPT !.deaths = msGhost.deaths + 1]
             b == msGhost.torn \/ cut
  <2>1. msGhost \in [torn : BOOLEAN, counted : [MsKeys -> Nat], clashes : SUBSET Nat, deaths : Nat]
    BY <1>1 DEF MsTypeOK
  <2>2. m \in [torn : BOOLEAN, counted : [MsKeys -> Nat], clashes : SUBSET Nat, deaths : Nat]  BY <2>1
  <2>3. m.counted = msGhost.counted /\ m.clashes = msGhost.clashes  BY <2>1
  <2>4. msGhost' = [m EXCEPT !.torn = b]  BY <1>1
  <2>5. b \in BOOLEAN  BY <2>1
  <2> HIDE DEF m, b
  <2>6. msGhost' \in [torn : BOOLEAN, counted : [MsKeys -> Nat], clashes : SUBSET Nat, deaths : Nat]
    BY <2>2, <2>4, <2>5
  <2>7. msGhost'.counted = m.counted /\ msGhost'.clashes = m.clashes  BY <2>2, <2>4
  <2>8. msGhost'.torn = b  BY <2>2, <2>4, <2>5
  <2> QED  BY <2>3, <2>6, <2>7, <2>8 DEF b
<1>12. MsTypeOK'  BY <1>1, <1>4, <1>6, <1>9, <1>11 DEF MsTypeOK
<1>13. ReadersFit'
  <2> SUFFICES ASSUME NEW u \in MsThreads, msThread'[u].pc = "lookup", msThread'[u].since < MAX_CACHE_SIZE
               PROVE  (\/ CacheOf(u).index = msThread[u].index + msThread[u].since
                       \/ CacheOf(u).index + MAX_CACHE_SIZE = msThread[u].index + msThread[u].since)'
    BY DEF ReadersFit
  <2>1. u \notin mine /\ msThread'[u] = msThread[u]  BY <1>3, <1>4
  <2>2. CacheOf(u)' = CacheOf(u)  BY <1>6, <2>1, MsConstants DEF CacheOf
  <2> QED  BY <2>1, <2>2 DEF MsInv, ReadersFit
<1>14. ReadersUndisturbed'  BY <1>11 DEF MsInv, ReadersUndisturbed
<1>15. (Good => EntriesFit /\ ThreadsFit /\ CachesFit)'
  <2> SUFFICES ASSUME Good' PROVE (EntriesFit /\ ThreadsFit /\ CachesFit)'  OBVIOUS
  <2>1. Good /\ ~cut  BY <1>9, <1>11 DEF Good, SetTwice
  <2>2. EntriesFit /\ ThreadsFit /\ CachesFit  BY <2>1 DEF MsInv
  <2>3. \A i, k : Owns(i, k)' <=> Owns(i, k)  BY <1>1 DEF Owns
  <2>4. CachesFit'
    <3> SUFFICES ASSUME NEW q \in MsProcs, NEW h \in Kinds, NEW x \in CacheIndex,
                        NEW k \in DOMAIN msProc'[q].cache[h].maps[x]
                 PROVE  Owns(msProc[q].cache[h].maps[x][k], k)'
      BY DEF CachesFit
    <3>1. q # p
      <4> SUFFICES ASSUME q = p PROVE FALSE  OBVIOUS
      <4>1. msProc'[q].cache[h].maps[x] = <<>>  BY <1>2, <1>5, <1>6, IdleFacts
      <4> QED  BY <1>2, <4>1, IdleFacts
    <3>2. msProc'[q] = msProc[q]  BY <1>6, <3>1
    <3>3. Owns(msProc[q].cache[h].maps[x][k], k)  BY <2>2, <3>2 DEF CachesFit
    <3> QED  BY <1>1, <3>2, <3>3 DEF Owns
  <2>5. ThreadsFit'
    <3> SUFFICES ASSUME NEW u \in MsThreads, u \notin mine
                 PROVE  /\ msThread'[u].pc = "fill" =>
                             /\ ~msFile'[msThread'[u].entry].whole
                             /\ \A i \in 1..Len(msFile') : ~Owns(i, msThread[u].key)'
                        /\ msThread'[u].pc \in {"cache", "count"} => Owns(msThread[u].entry, msThread[u].key)'
      BY <1>3, <1>4 DEF ThreadsFit
    <3>1. msThread'[u] = msThread[u]  BY <1>4
    <3> QED  BY <1>1, <2>2, <3>1 DEF ThreadsFit, Owns
  <2>6. EntriesFit'
    <3>1. \A i : (\E u \in MsThreads : msThread[u].pc = "fill" /\ msThread[u].entry = i)
                 => \E u \in MsThreads : msThread'[u].pc = "fill" /\ msThread'[u].entry = i
      BY <1>4, <2>1
    <3>2. msGhost'.counted = msGhost.counted /\ msFile' = msFile  BY <1>1, <1>11
    <3> HIDE DEF mine, inside, cut
    <3>3. ASSUME NEW i \in 1..Len(msFile)
          PROVE  IF msFile[i].whole
                 THEN msFile[i].key \in MsKeys /\ msFile[i].value = msGhost.counted[msFile[i].key]
                 ELSE msFile[i].key = NoKey /\ \E t \in MsThreads : msThread'[t].pc = "fill" /\ msThread'[t].entry = i
      BY <2>2, <3>1 DEF EntriesFit
    <3>4. /\ \A i, j \in 1..Len(msFile) :
               msFile[i].whole /\ msFile[j].whole /\ msFile[i].key = msFile[j].key => i = j
          /\ \A k \in MsKeys : msGhost.counted[k] > 0 => \E i \in 1..Len(msFile) : Owns(i, k)
      BY <2>2 DEF EntriesFit
    <3>5. \A k \in MsKeys : msGhost.counted[k] > 0 => \E i \in 1..Len(msFile) : Owns(i, k)'
      BY <2>3, <3>4
    <3> QED  BY <3>2, <3>3, <3>4, <3>5 DEF EntriesFit
  <2> QED  BY <2>4, <2>5, <2>6
<1> QED  BY <1>10, <1>12, <1>13, <1>14, <1>15 DEF MsInv

LEMMA MsInvNext == MsInv /\ [MsNext]_msVars => MsInv'
<1> SUFFICES ASSUME MsInv, [MsNext]_msVars PROVE MsInv'  OBVIOUS
<1>1. ASSUME NEW p \in MsProcs, SemGet(p) \/ SemCreate(p) \/ SemSetVal(p) PROVE MsInv'
  BY <1>1, StageStep
<1>2. ASSUME NEW p \in MsProcs, ProcessDies(p) PROVE MsInv'  BY <1>2, DiesKeeps
<1>3. ASSUME NEW t \in MsThreads, NEW k \in MsUses[t],
             GetCounter(t, k[2]) \/ GetTimerCounter(t, k[2]) \/ GetBinaryCounter(t, k[2])
      PROVE  MsInv'
  <2>1. CASE GetCounter(t, k[2])  BY <2>1, GetKeeps DEF GetCounter
  <2>2. CASE GetTimerCounter(t, k[2])  BY <2>2, GetKeeps DEF GetTimerCounter
  <2>3. CASE GetBinaryCounter(t, k[2])  BY <2>3, GetKeeps DEF GetBinaryCounter
  <2> QED  BY <1>3, <2>1, <2>2, <2>3
<1>4. ASSUME NEW t \in MsThreads, Lookup(t) PROVE MsInv'  BY <1>4, LookupKeeps
<1>5. ASSUME NEW t \in MsThreads, SemP(t) PROVE MsInv'  BY <1>5, SemPKeeps
<1>6. ASSUME NEW t \in MsThreads, FindOrStart(t) PROVE MsInv'  BY <1>6, FindKeeps, StartKeeps
<1>7. ASSUME NEW t \in MsThreads, Fill(t) PROVE MsInv'  BY <1>7, FillKeeps
<1>8. ASSUME NEW t \in MsThreads, CacheInsert(t) PROVE MsInv'  BY <1>8, KnownKeeps, InsertKeeps
<1>9. ASSUME NEW t \in MsThreads, Count(t) PROVE MsInv'  BY <1>9, CountKeeps
<1>10. CASE UNCHANGED msVars
  <2>1. UNCHANGED <<msFile, msSem, msProc, msThread, msGhost>>  BY <1>10 DEF msVars
  <2>2. MsTypeOK' /\ SemFits' /\ ReadersFit' /\ ReadersUndisturbed'
    BY <2>1 DEF MsInv, MsTypeOK, SemFits, Adders, ReadersFit, CacheOf, ReadersUndisturbed
  <2>3. (Good => EntriesFit /\ ThreadsFit /\ CachesFit)'
    BY <2>1 DEF MsInv, Good, SetTwice, EntriesFit, ThreadsFit, CachesFit, Owns
  <2> QED  BY <2>2, <2>3 DEF MsInv
<1> QED  BY <1>1, <1>2, <1>3, <1>4, <1>5, <1>6, <1>7, <1>8, <1>9, <1>10 DEF MsNext

\* AddEntry, FindEntry and the per-process caches: for any number of
\* processes, threads, keys and copies of the map, and however often
\* processes die, one thread at a time changes the list and every count is
\* in the one entry of its key, unless the semaphore was set up twice or a
\* process died between the two stores of AddEntry; and a map is only
\* overwritten under a reader that is MAX_CACHE_SIZE insertions behind.
THEOREM CountersCorrect == MsSpec => []CountersOK
<1>1. MsInv => CountersOK
  <2> SUFFICES ASSUME MsInv PROVE CountersOK  OBVIOUS
  <2>1. OneAdder  BY OnlyAdder DEF MsInv, OneAdder, Adders
  <2>2. ReadersUndisturbed  BY DEF MsInv
  <2>3. CountsExact
    <3> SUFFICES ASSUME Good
                 PROVE  /\ \A i, j \in DOMAIN msFile : msFile[i].whole /\ msFile[i].key = msFile[j].key => i = j
                        /\ \A i \in DOMAIN msFile : msFile[i].whole => msFile[i].value = msGhost.counted[msFile[i].key]
                        /\ \A k \in MsKeys : msGhost.counted[k] > 0 => \E i \in DOMAIN msFile : msFile[i].key = k
      BY DEF CountsExact, Good
    <3>1. EntriesFit  BY DEF MsInv
    <3>2. DOMAIN msFile = 1..Len(msFile)  BY DEF MsInv, MsTypeOK
    <3>3. ASSUME NEW i \in 1..Len(msFile), NEW j \in 1..Len(msFile), msFile[i].whole, msFile[i].key = msFile[j].key
          PROVE  i = j
      <4>1. msFile[j].whole  BY <3>1, <3>3, MsConstants DEF EntriesFit
      <4> QED  BY <3>1, <3>3, <4>1 DEF EntriesFit
    <3>4. \A i \in 1..Len(msFile) : msFile[i].whole => msFile[i].value = msGhost.counted[msFile[i].key]
      BY <3>1 DEF EntriesFit
    <3>5. \A k \in MsKeys : msGhost.counted[k] > 0 => \E i \in 1..Len(msFile) : msFile[i].key = k
      BY <3>1 DEF EntriesFit, Owns
    <3> QED  BY <3>2, <3>3, <3>4, <3>5
  <2> QED  BY <2>1, <2>2, <2>3 DEF CountersOK
<1> QED  BY <1>1, MsInvInit, MsInvNext, PTL DEF MsSpec

-----------------------------------------------------------------------------
\* The monitor of changed files.
FmCommands == [type : {"Observe", "Forget"}, cookie : Nat]
FmPlaces == {"none", "loop", "commands", "process", "epoll", "exited"}
FmCalls == {"idle", "observe", "queue observe", "queue forget"}

FmTypeOK ==
  /\ status_ \in {"start", "stop"} /\ worker_stop_ \in BOOLEAN
  /\ worker \in [pc : FmPlaces, cmds : Seq(FmCommands)]
  /\ cmds_ \in Seq(FmCommands) /\ cookies \in Seq(MonitoredFiles)
  /\ cookie_bookmark_ \subseteq 1..Len(cookies)
  /\ name_entry_map_ \in [DOMAIN name_entry_map_ -> [wd : Nat, entries : SUBSET Nat]]
  /\ fileUser \in [FileUsers -> [pc : FmCalls, cookie : Nat, mine : SUBSET Nat]]
  /\ monitorGhost \in [misuse : BOOLEAN, overlapped : BOOLEAN, unwatched : SUBSET Nat]
  /\ monitorUsed \in [starts : Nat, gone : Nat, wds : Nat]

\* The worker is told to stop by Stop only, and has commands while it is at them.
WorkerFits ==
  /\ worker_stop_ => status_ = "stop"
  /\ worker.pc = "exited" => worker_stop_
  /\ worker.pc = "process" <=> worker.cmds # <<>>

\* Watches are numbered upwards.
WatchesFit ==
  /\ WatchesOwned
  /\ \A d \in DOMAIN name_entry_map_ : name_entry_map_[d].wd <= monitorUsed.wds

\* The commands that are to be applied, in their order.
Line == worker.cmds \o cmds_

\* A thread that is about to queue a command.
Queues(u) == fileUser[u].pc \in {"queue observe", "queue forget"}

\* Every command that is to come is about a cookie that is alive, and the
\* Forget of a cookie is behind its Observe and the last there is of it.
LineFits ==
  /\ \A i \in DOMAIN Line : Line[i].cookie \in cookie_bookmark_
  /\ \A i, j \in DOMAIN Line : i < j /\ Line[i].cookie = Line[j].cookie =>
                                 Line[i].type = "Observe" /\ Line[j].type = "Forget"

\* A cookie is in the hands of one thread.
UserFits(u) ==
  /\ fileUser[u].mine \subseteq cookie_bookmark_
  /\ \A i \in DOMAIN Line : Line[i].cookie \in fileUser[u].mine => Line[i].type = "Observe"
  /\ Queues(u) => /\ fileUser[u].cookie \in cookie_bookmark_
                  /\ \A i \in DOMAIN Line : Line[i].cookie = fileUser[u].cookie =>
                       fileUser[u].pc = "queue forget" /\ Line[i].type = "Observe"
Apart(u, v) ==
  /\ Queues(v) => fileUser[v].cookie \notin fileUser[u].mine
  /\ u # v => fileUser[u].mine \cap fileUser[v].mine = {}
  /\ u # v /\ Queues(u) /\ Queues(v) => fileUser[u].cookie # fileUser[v].cookie
UsersFit ==
  /\ status_ = "stop" => \A u \in FileUsers : fileUser[u].pc = "idle"
  /\ \A u \in FileUsers : UserFits(u)
  /\ \A u, v \in FileUsers : Apart(u, v)

\* The entries are those of live cookies whose Observe is through.
Observing == {fileUser[u].cookie : u \in {v \in FileUsers : fileUser[v].pc = "queue observe"}}
ObserveQueued == {Line[i].cookie : i \in {j \in DOMAIN Line : Line[j].type = "Observe"}}
TablesFit ==
  /\ \A d \in DOMAIN name_entry_map_ : \A c \in name_entry_map_[d].entries :
       c \in 1..Len(cookies) /\ FileDir[cookies[c]] = d
  /\ monitorGhost.unwatched \subseteq 1..Len(cookies)
  /\ \A c \in 1..Len(cookies) :
       (\E d \in DOMAIN name_entry_map_ : c \in name_entry_map_[d].entries) <=>
         /\ c \in cookie_bookmark_ /\ c \notin monitorGhost.unwatched
         /\ c \notin Observing /\ c \notin ObserveQueued
  /\ (Observing \cup ObserveQueued) \cap monitorGhost.unwatched = {}

FmInv ==
  /\ FmTypeOK /\ WorkerFits /\ WatchesFit
  /\ ~monitorGhost.overlapped => ~monitorGhost.misuse /\ LineFits /\ UsersFit /\ TablesFit

\* The commands of the worker are in front of the queued ones.
LEMMA LineIs ==
  ASSUME NEW s \in Seq(FmCommands), NEW q \in Seq(FmCommands)
  PROVE  /\ s \o q \in Seq(FmCommands)
         /\ s # <<>> => Tail(s) \o q = Tail(s \o q) /\ s \o q # <<>> /\ (s \o q)[1] = Head(s)
         /\ \A x \in FmCommands : s \o Append(q, x) = Append(s \o q, x)
         /\ \A x : (\E i \in DOMAIN (s \o q) : (s \o q)[i] = x) <=>
                   (\E i \in DOMAIN s : s[i] = x) \/ (\E i \in DOMAIN q : q[i] = x)
<1>1. /\ s \o q \in Seq(FmCommands) /\ Len(s \o q) = Len(s) + Len(q)
      /\ \A i \in 1..(Len(s) + Len(q)) : (s \o q)[i] = IF i <= Len(s) THEN s[i] ELSE q[i - Len(s)]
  BY ConcatProperties
<1>2. Len(s) \in Nat /\ Len(q) \in Nat /\ DOMAIN s = 1..Len(s) /\ DOMAIN q = 1..Len(q)
      /\ DOMAIN (s \o q) = 1..(Len(s) + Len(q))
  BY <1>1
<1> DEFINE r == s \o q
<1>3. ASSUME s # <<>> PROVE Tail(s) \o q = Tail(r) /\ r # <<>> /\ r[1] = Head(s)
  <2>1. /\ Tail(s) \in Seq(FmCommands) /\ Len(Tail(s)) = Len(s) - 1
        /\ \A i \in 1..Len(Tail(s)) : Tail(s)[i] = s[i + 1]
    BY <1>3, HeadTailProperties
  <2>2. Len(s) > 0 /\ Head(s) = s[1]  BY <1>2, <1>3
  <2>3. r # <<>> /\ r[1] = Head(s)  BY <1>1, <1>2, <2>2
  <2>4. /\ Tail(r) \in Seq(FmCommands) /\ Len(Tail(r)) = Len(r) - 1
        /\ \A i \in 1..Len(Tail(r)) : Tail(r)[i] = r[i + 1]
    <3> HIDE DEF r
    <3>1. r \in Seq(FmCommands)  BY <1>1 DEF r
    <3> QED  BY <2>3, <3>1, HeadTailProperties
  <2>5. /\ Tail(s) \o q \in Seq(FmCommands) /\ Len(Tail(s) \o q) = Len(s) - 1 + Len(q)
        /\ \A i \in 1..(Len(s) - 1 + Len(q)) :
             (Tail(s) \o q)[i] = IF i <= Len(s) - 1 THEN Tail(s)[i] ELSE q[i - (Len(s) - 1)]
    BY <2>1, ConcatProperties
  <2>6. Len(Tail(r)) = Len(s) - 1 + Len(q)  BY <1>1, <1>2, <2>4
  <2>7. ASSUME NEW i \in 1..(Len(s) - 1 + Len(q)) PROVE (Tail(s) \o q)[i] = Tail(r)[i]
    <3>1. Tail(r)[i] = IF i + 1 <= Len(s) THEN s[i + 1] ELSE q[i + 1 - Len(s)]
      BY <1>1, <1>2, <2>4, <2>6
    <3>2. CASE i <= Len(s) - 1  BY <1>2, <2>1, <2>5, <3>1, <3>2
    <3>3. CASE ~(i <= Len(s) - 1)
      <4>1. i - (Len(s) - 1) = i + 1 - Len(s) /\ ~(i + 1 <= Len(s))  BY <1>2, <3>3
      <4> QED  BY <2>5, <3>1, <3>3, <4>1
    <3> QED  BY <3>2, <3>3
  <2>8. Tail(s) \o q = Tail(r)  BY <2>4, <2>5, <2>6, <2>7, SeqEqual
  <2> QED  BY <2>3, <2>8
<1>4. ASSUME NEW x \in FmCommands PROVE s \o Append(q, x) = Append(r, x)
  <2>1. <<x>> \in Seq(FmCommands)  OBVIOUS
  <2>2. Append(q, x) = q \o <<x>> /\ Append(s \o q, x) = (s \o q) \o <<x>>  BY <1>1, AppendIsConcat
  <2> QED  BY <2>1, <2>2, ConcatAssociative
<1>5. ASSUME NEW x
      PROVE  (\E i \in DOMAIN r : r[i] = x) <=> (\E i \in DOMAIN s : s[i] = x) \/ (\E i \in DOMAIN q : q[i] = x)
  <2>1. ASSUME NEW i \in DOMAIN r, r[i] = x
        PROVE  (\E j \in DOMAIN s : s[j] = x) \/ (\E j \in DOMAIN q : q[j] = x)
    <3>1. CASE i <= Len(s)  BY <1>1, <1>2, <2>1, <3>1
    <3>2. CASE ~(i <= Len(s))
      <4>1. i - Len(s) \in DOMAIN q /\ q[i - Len(s)] = x  BY <1>1, <1>2, <2>1, <3>2
      <4> QED  BY <4>1
    <3> QED  BY <3>1, <3>2
  <2>2. ASSUME NEW i \in DOMAIN s, s[i] = x PROVE \E j \in DOMAIN r : r[j] = x
    <3>1. i \in DOMAIN r /\ r[i] = x  BY <1>1, <1>2, <2>2
    <3> QED  BY <3>1
  <2>3. ASSUME NEW i \in DOMAIN q, q[i] = x PROVE \E j \in DOMAIN r : r[j] = x
    <3>1. i + Len(s) \in DOMAIN r /\ ~(i + Len(s) <= Len(s)) /\ i + Len(s) - Len(s) = i  BY <1>2
    <3>2. r[i + Len(s)] = x  BY <1>1, <1>2, <2>3, <3>1
    <3> QED  BY <3>1, <3>2
  <2> QED  BY <2>1, <2>2, <2>3
<1> QED  BY <1>1, <1>3, <1>4, <1>5

LEMMA FmInvInit == MonitorInit => FmInv
<1> SUFFICES ASSUME MonitorInit PROVE FmInv  OBVIOUS
<1> DEFINE idle == [pc |-> "idle", cookie |-> NoCookie, mine |-> {}]
<1>1. /\ worker.pc = "none" /\ worker.cmds = <<>> /\ cmds_ = <<>> /\ cookies = <<>> /\ name_entry_map_ = <<>>
      /\ wd_entry_map_ = <<>> /\ watches = <<>> /\ cookie_bookmark_ = {}
      /\ monitorGhost.misuse = FALSE /\ monitorGhost.unwatched = {} /\ monitorUsed.gone = 0
  BY DEF MonitorInit
<1>2. DOMAIN <<>> = {} /\ Len(<<>>) = 0 /\ <<>> \o <<>> = <<>>  OBVIOUS
<1>3. fileUser = [u \in FileUsers |-> idle]  BY DEF MonitorInit
<1>4. idle \in [pc : FmCalls, cookie : Nat, mine : SUBSET Nat]  BY DEF FmCalls, NoCookie
<1>5. idle.pc = "idle" /\ idle.mine = {}  OBVIOUS
<1> HIDE DEF idle
<1>6. \A u \in FileUsers : fileUser[u].pc = "idle" /\ fileUser[u].mine = {}  BY <1>3, <1>5
<1>7. FmTypeOK
  <2>1. worker \in [pc : FmPlaces, cmds : Seq(FmCommands)]  BY DEF MonitorInit, FmPlaces
  <2>2. fileUser \in [FileUsers -> [pc : FmCalls, cookie : Nat, mine : SUBSET Nat]]  BY <1>3, <1>4
  <2>3. name_entry_map_ \in [DOMAIN name_entry_map_ -> [wd : Nat, entries : SUBSET Nat]]
    BY <1>1, <1>2
  <2>4. /\ monitorGhost \in [misuse : BOOLEAN, overlapped : BOOLEAN, unwatched : SUBSET Nat]
        /\ monitorUsed \in [starts : Nat, gone : Nat, wds : Nat]
    BY DEF MonitorInit
  <2>5. cmds_ \in Seq(FmCommands) /\ cookies \in Seq(MonitoredFiles)  BY <1>1
  <2> QED  BY <1>1, <2>1, <2>2, <2>3, <2>4, <2>5 DEF MonitorInit, FmTypeOK
<1>8. WorkerFits  BY <1>1 DEF WorkerFits, MonitorInit
<1>9. WatchesFit  BY <1>1, <1>2 DEF WatchesFit, WatchesOwned
<1>10. Line = <<>>  BY <1>1, <1>2 DEF Line
<1>11. LineFits  BY <1>2, <1>10 DEF LineFits
<1>12. UsersFit  BY <1>2, <1>6, <1>10 DEF UsersFit, UserFits, Apart, Queues
<1>13. TablesFit  BY <1>1, <1>2, <1>6, <1>10 DEF TablesFit, Observing, ObserveQueued
<1> QED  BY <1>1, <1>7, <1>8, <1>9, <1>11, <1>12, <1>13 DEF FmInv

\* A step that moves neither a command nor a cookie.
LEMMA QuietStep ==
  ASSUME FmInv, FmTypeOK', WorkerFits', WatchesFit', Line' = Line,
         UNCHANGED <<cookies, cookie_bookmark_, name_entry_map_>>,
         monitorGhost'.unwatched = monitorGhost.unwatched,
         monitorGhost.overlapped => monitorGhost'.overlapped,
         ~monitorGhost'.overlapped => ~monitorGhost'.misuse,
         \A u \in FileUsers : /\ fileUser'[u].mine = fileUser[u].mine /\ fileUser'[u].cookie = fileUser[u].cookie
                              /\ \/ fileUser'[u].pc = fileUser[u].pc
                                 \/ fileUser[u].pc \in {"idle", "observe"} /\ fileUser'[u].pc \in {"idle", "observe"},
         ~monitorGhost'.overlapped /\ status_' = "stop" => \A u \in FileUsers : fileUser'[u].pc = "idle"
  PROVE  FmInv'
<1> SUFFICES ASSUME ~monitorGhost'.overlapped PROVE (LineFits /\ UsersFit /\ TablesFit)'  BY DEF FmInv
<1>1. LineFits /\ UsersFit /\ TablesFit  BY DEF FmInv
<1>2. \A u \in FileUsers : /\ fileUser'[u].pc = "queue observe" <=> fileUser[u].pc = "queue observe"
                           /\ fileUser'[u].pc = "queue forget" <=> fileUser[u].pc = "queue forget"
  OBVIOUS
<1>3. LineFits'  BY <1>1 DEF LineFits
<1>4. UsersFit'
  <2>1. ASSUME NEW u \in FileUsers PROVE UserFits(u)'
    <3>1. UserFits(u)  BY <1>1 DEF UsersFit
    <3> QED  BY <1>2, <3>1 DEF UserFits, Queues
  <2>2. ASSUME NEW u \in FileUsers, NEW v \in FileUsers PROVE Apart(u, v)'
    <3>1. Apart(u, v)  BY <1>1 DEF UsersFit
    <3> QED  BY <1>2, <3>1 DEF Apart, Queues
  <2> QED  BY <2>1, <2>2 DEF UsersFit
<1>5. Observing' = Observing /\ ObserveQueued' = ObserveQueued
  <2>2. ASSUME NEW c PROVE c \in Observing' <=> c \in Observing
    <3>1. c \in Observing' <=> \E v \in FileUsers : fileUser'[v].pc = "queue observe" /\ c = fileUser'[v].cookie
      BY DEF Observing
    <3>2. c \in Observing <=> \E v \in FileUsers : fileUser[v].pc = "queue observe" /\ c = fileUser[v].cookie
      BY DEF Observing
    <3> QED  BY <1>2, <3>1, <3>2
  <2>3. ObserveQueued' = ObserveQueued  BY DEF ObserveQueued
  <2> QED  BY <2>2, <2>3
<1>6. TablesFit'  BY <1>1, <1>5 DEF TablesFit
<1> QED  BY <1>3, <1>4, <1>6

\* Parts of the state that a step leaves alone keep their part of FmTypeOK.
LEMMA UserChange ==
  ASSUME FmTypeOK, NEW u \in FileUsers, NEW p \in FmCalls, fileUser' = [fileUser EXCEPT ![u].pc = p]
  PROVE  /\ fileUser' \in [FileUsers -> [pc : FmCalls, cookie : Nat, mine : SUBSET Nat]]
         /\ \A v \in FileUsers : /\ fileUser'[v].mine = fileUser[v].mine /\ fileUser'[v].cookie = fileUser[v].cookie
                                 /\ fileUser'[v].pc = IF v = u THEN p ELSE fileUser[v].pc
  BY DEF FmTypeOK

LEMMA StartKeepsFm == FmInv /\ Start => FmInv'
<1> SUFFICES ASSUME FmInv, Start PROVE FmInv'  OBVIOUS
<1>1. /\ FmTypeOK /\ WorkerFits /\ WatchesFit /\ worker.pc = "none" /\ status_' = "start" /\ worker_stop_' = FALSE
      /\ worker' = [pc |-> "loop", cmds |-> <<>>]
      /\ monitorUsed' = [monitorUsed EXCEPT !.starts = @ + 1]
      /\ UNCHANGED <<cmds_, cookies, cookie_bookmark_, name_entry_map_, wd_entry_map_, watches, inotify,
                     fileUser, monitorGhost>>
  BY DEF FmInv, Start, cookieVars, tableVars
<1>2. worker' \in [pc : FmPlaces, cmds : Seq(FmCommands)] /\ worker'.pc = "loop" /\ worker'.cmds = <<>>
  BY <1>1 DEF FmPlaces
<1>3. /\ monitorUsed' \in [starts : Nat, gone : Nat, wds : Nat]
      /\ monitorUsed'.gone = monitorUsed.gone /\ monitorUsed'.wds = monitorUsed.wds
  <2>1. monitorUsed \in [starts : Nat, gone : Nat, wds : Nat]  BY <1>1 DEF FmTypeOK
  <2>2. monitorUsed' \in [starts : Nat, gone : Nat, wds : Nat]  BY <1>1, <2>1
  <2>3. monitorUsed'.gone = monitorUsed.gone /\ monitorUsed'.wds = monitorUsed.wds  BY <1>1, <2>1
  <2> QED  BY <2>2, <2>3
<1>4. FmTypeOK'  BY <1>1, <1>2, <1>3 DEF FmTypeOK
<1>5. WorkerFits'  BY <1>1, <1>2 DEF WorkerFits
<1>6. WatchesFit'  BY <1>1, <1>3 DEF WatchesFit, WatchesOwned
<1>7. Line' = Line
  <2>1. worker.cmds = <<>>  BY <1>1 DEF WorkerFits
  <2> QED  BY <1>1, <1>2, <2>1 DEF Line
<1>8. ~monitorGhost'.overlapped => ~monitorGhost'.misuse  BY <1>1 DEF FmInv
<1> QED  BY <1>1, <1>4, <1>5, <1>6, <1>7, <1>8, QuietStep

LEMMA StopKeepsFm == FmInv /\ Stop => FmInv'
<1> SUFFICES ASSUME FmInv, Stop PROVE FmInv'  OBVIOUS
<1> DEFINE busy == \E u \in FileUsers : fileUser[u].pc # "idle"
           b == monitorGhost.overlapped \/ busy
<1>1. /\ FmTypeOK /\ WorkerFits /\ WatchesFit /\ status_' = "stop" /\ worker_stop_' = TRUE
      /\ monitorGhost' = [monitorGhost EXCEPT !.overlapped = b]
      /\ UNCHANGED <<worker, cmds_, cookies, cookie_bookmark_, name_entry_map_, wd_entry_map_, watches, inotify,
                     fileUser, monitorUsed>>
  BY DEF FmInv, Stop, cookieVars, tableVars
<1>2. monitorGhost \in [misuse : BOOLEAN, overlapped : BOOLEAN, unwatched : SUBSET Nat]
  BY <1>1 DEF FmTypeOK
<1>3. b \in BOOLEAN  BY <1>2
<1>4. b = FALSE => ~monitorGhost.overlapped /\ \A u \in FileUsers : fileUser[u].pc = "idle"  OBVIOUS
<1>5. monitorGhost.overlapped => b = TRUE  BY <1>2
<1> HIDE DEF b
<1>6. monitorGhost' \in [misuse : BOOLEAN, overlapped : BOOLEAN, unwatched : SUBSET Nat]
  BY <1>1, <1>2, <1>3
<1>7. monitorGhost'.unwatched = monitorGhost.unwatched  BY <1>1, <1>2
<1>8. monitorGhost'.misuse = monitorGhost.misuse /\ monitorGhost'.overlapped = b  BY <1>1, <1>2
<1>9. FmTypeOK'  BY <1>1, <1>6 DEF FmTypeOK
<1>10. WorkerFits'  BY <1>1 DEF WorkerFits
<1>11. WatchesFit'  BY <1>1 DEF WatchesFit, WatchesOwned
<1>12. Line' = Line  BY <1>1 DEF Line
<1>13. ~monitorGhost'.overlapped => ~monitorGhost.overlapped /\ \A u \in FileUsers : fileUser[u].pc = "idle"
  BY <1>3, <1>4, <1>8
<1>14. ~monitorGhost'.overlapped => ~monitorGhost'.misuse  BY <1>8, <1>13 DEF FmInv
<1>15. monitorGhost.overlapped => monitorGhost'.overlapped  BY <1>5, <1>8
<1> QED  BY <1>1, <1>7, <1>9, <1>10, <1>11, <1>12, <1>13, <1>14, <1>15, QuietStep

LEMMA CallStepsKeepFm ==
  ASSUME FmInv, NEW u \in FileUsers, ObserveCheck(u) \/ ObserveFails(u)
  PROVE  FmInv'
<1>1. /\ FmTypeOK /\ WorkerFits /\ WatchesFit
      /\ UNCHANGED <<status_, worker_stop_, worker, cmds_, cookies, cookie_bookmark_, name_entry_map_,
                     wd_entry_map_, watches, inotify, monitorGhost, monitorUsed>>
  BY DEF FmInv, ObserveCheck, ObserveFails, lifeVars, cookieVars, tableVars
<1>2. PICK p \in {"idle", "observe"} :
        /\ fileUser' = [fileUser EXCEPT ![u].pc = p] /\ fileUser[u].pc \in {"idle", "observe"}
        /\ p = "observe" => status_ = "start"
  BY DEF ObserveCheck, ObserveFails
<1>3. p \in FmCalls  BY DEF FmCalls
<1>4. /\ fileUser' \in [FileUsers -> [pc : FmCalls, cookie : Nat, mine : SUBSET Nat]]
      /\ \A v \in FileUsers : /\ fileUser'[v].mine = fileUser[v].mine /\ fileUser'[v].cookie = fileUser[v].cookie
                              /\ fileUser'[v].pc = IF v = u THEN p ELSE fileUser[v].pc
  BY <1>1, <1>2, <1>3, UserChange
<1>5. FmTypeOK'  BY <1>1, <1>4 DEF FmTypeOK
<1>6. WorkerFits' /\ WatchesFit' /\ Line' = Line  BY <1>1 DEF WorkerFits, WatchesFit, WatchesOwned, Line
<1>7. ~monitorGhost'.overlapped => ~monitorGhost'.misuse  BY <1>1 DEF FmInv
<1>8. ~monitorGhost'.overlapped /\ status_' = "stop" => \A v \in FileUsers : fileUser'[v].pc = "idle"
  <2> SUFFICES ASSUME ~monitorGhost'.overlapped, status_' = "stop", NEW v \in FileUsers
               PROVE  fileUser'[v].pc = "idle"
    OBVIOUS
  <2>1. UsersFit /\ status_ = "stop"  BY <1>1 DEF FmInv
  <2> QED  BY <1>2, <1>4, <2>1 DEF UsersFit
<1>9. \A v \in FileUsers : \/ fileUser'[v].pc = fileUser[v].pc
                           \/ fileUser[v].pc \in {"idle", "observe"} /\ fileUser'[v].pc \in {"idle", "observe"}
  BY <1>2, <1>4
<1> QED  BY <1>1, <1>4, <1>5, <1>6, <1>7, <1>8, <1>9, QuietStep

LEMMA WorkerStepsKeepFm ==
  ASSUME FmInv, WorkLoop \/ TakeCommands
  PROVE  FmInv'
<1>1. /\ FmTypeOK /\ WorkerFits /\ WatchesFit
      /\ UNCHANGED <<status_, worker_stop_, cookies, cookie_bookmark_, name_entry_map_,
                     wd_entry_map_, watches, inotify, fileUser, monitorGhost, monitorUsed>>
  BY DEF FmInv, WorkLoop, TakeCommands, lifeVars, cookieVars, tableVars
<1>2. worker \in [pc : FmPlaces, cmds : Seq(FmCommands)] /\ cmds_ \in Seq(FmCommands)  BY <1>1 DEF FmTypeOK
<1>3. /\ worker' \in [pc : FmPlaces, cmds : Seq(FmCommands)] /\ cmds_' \in Seq(FmCommands)
      /\ worker'.cmds \o cmds_' = worker.cmds \o cmds_
      /\ worker'.pc = "exited" => worker_stop_
      /\ worker'.pc = "process" <=> worker'.cmds # <<>>
  <2>1. <<>> \o cmds_ = cmds_ /\ cmds_ \o <<>> = cmds_ /\ <<>> \in Seq(FmCommands)  BY <1>2, ConcatEmptySeq
  <2>2. CASE WorkLoop
    <3>1. /\ worker.pc = "loop" /\ UNCHANGED cmds_
          /\ worker' = [worker EXCEPT !.pc = IF worker_stop_ THEN "exited" ELSE "commands"]
      BY <2>2 DEF WorkLoop
    <3>2. worker'.cmds = worker.cmds /\ worker'.pc = IF worker_stop_ THEN "exited" ELSE "commands"
      BY <1>2, <3>1
    <3>3. worker.cmds = <<>>  BY <1>1, <3>1 DEF WorkerFits
    <3>4. worker' \in [pc : FmPlaces, cmds : Seq(FmCommands)]  BY <1>2, <3>1 DEF FmPlaces
    <3> QED  BY <1>2, <3>1, <3>2, <3>3, <3>4
  <2>3. CASE TakeCommands
    <3>1. worker.cmds = <<>>  BY <1>1, <2>3 DEF TakeCommands, WorkerFits
    <3>2. CASE worker' = [pc |-> "epoll", cmds |-> <<>>] /\ UNCHANGED cmds_
      <4>1. worker'.pc = "epoll" /\ worker'.cmds = <<>>  BY <3>2
      <4>2. worker' \in [pc : FmPlaces, cmds : Seq(FmCommands)]  BY <2>1, <3>2 DEF FmPlaces
      <4> QED  BY <1>2, <3>1, <3>2, <4>1, <4>2
    <3>3. CASE cmds_ # <<>> /\ worker' = [pc |-> "process", cmds |-> cmds_] /\ cmds_' = <<>>
      <4>1. worker'.pc = "process" /\ worker'.cmds = cmds_  BY <3>3
      <4>2. worker' \in [pc : FmPlaces, cmds : Seq(FmCommands)]  BY <1>2, <3>3 DEF FmPlaces
      <4> QED  BY <2>1, <3>1, <3>3, <4>1, <4>2
    <3> QED  BY <2>3, <3>2, <3>3 DEF TakeCommands
  <2> QED  BY <2>2, <2>3
<1>4. FmTypeOK'  BY <1>1, <1>3 DEF FmTypeOK
<1>5. WorkerFits'  BY <1>1, <1>3 DEF WorkerFits
<1>6. WatchesFit' /\ Line' = Line  BY <1>1, <1>3 DEF WatchesFit, WatchesOwned, Line
<1>7. ~monitorGhost'.overlapped => ~monitorGhost'.misuse  BY <1>1 DEF FmInv
<1>8. ~monitorGhost'.overlapped /\ status_' = "stop" => \A v \in FileUsers : fileUser'[v].pc = "idle"
  BY <1>1 DEF FmInv, UsersFit
<1> QED  BY <1>1, <1>4, <1>5, <1>6, <1>7, <1>8, QuietStep

\* An event of a known watch is about an entry of live cookies.
LEMMA InotifyKeepsFm == FmInv /\ ProcessInotify => FmInv'
<1> SUFFICES ASSUME FmInv, ProcessInotify PROVE FmInv'  OBVIOUS
<1> DEFINE bad == \E i \in DOMAIN inotify :
             /\ inotify[i].wd \in DOMAIN wd_entry_map_
             /\ \E c \in name_entry_map_[wd_entry_map_[inotify[i].wd]].entries :
                  cookies[c] = inotify[i].file /\ c \notin cookie_bookmark_
           b == monitorGhost.misuse \/ bad
<1>1. /\ FmTypeOK /\ WorkerFits /\ WatchesFit /\ worker.pc = "epoll"
      /\ worker' = [worker EXCEPT !.pc = "loop"]
      /\ monitorGhost' = [monitorGhost EXCEPT !.misuse = b]
      /\ UNCHANGED <<status_, worker_stop_, cmds_, cookies, cookie_bookmark_, name_entry_map_,
                     wd_entry_map_, watches, fileUser, monitorUsed>>
  BY DEF FmInv, ProcessInotify, lifeVars, cookieVars, tableVars
<1>2. /\ monitorGhost \in [misuse : BOOLEAN, overlapped : BOOLEAN, unwatched : SUBSET Nat]
      /\ worker \in [pc : FmPlaces, cmds : Seq(FmCommands)]
  BY <1>1 DEF FmTypeOK
<1>3. ~monitorGhost.overlapped => ~bad
  <2> SUFFICES ASSUME ~monitorGhost.overlapped, NEW i \in DOMAIN inotify,
                      inotify[i].wd \in DOMAIN wd_entry_map_,
                      NEW c \in name_entry_map_[wd_entry_map_[inotify[i].wd]].entries
               PROVE  c \in cookie_bookmark_
    OBVIOUS
  <2>1. PICK d \in DOMAIN name_entry_map_ : name_entry_map_[d].wd = inotify[i].wd
    BY <1>1 DEF WatchesFit, WatchesOwned
  <2>2. wd_entry_map_[inotify[i].wd] = d  BY <1>1, <2>1 DEF WatchesFit, WatchesOwned
  <2>3. c \in name_entry_map_[d].entries  BY <2>2
  <2>4. TablesFit  BY DEF FmInv
  <2>5. c \in 1..Len(cookies)  BY <2>3, <2>4 DEF TablesFit
  <2> QED  BY <2>3, <2>4, <2>5 DEF TablesFit
<1>4. b \in BOOLEAN /\ (~monitorGhost.overlapped => b = FALSE)  BY <1>2, <1>3 DEF FmInv
<1> HIDE DEF b
<1>5. monitorGhost' \in [misuse : BOOLEAN, overlapped : BOOLEAN, unwatched : SUBSET Nat]
  BY <1>1, <1>2, <1>4
<1>6. monitorGhost'.unwatched = monitorGhost.unwatched  BY <1>1, <1>2
<1>7. monitorGhost'.overlapped = monitorGhost.overlapped /\ monitorGhost'.misuse = b  BY <1>1, <1>2
<1>8. worker' \in [pc : FmPlaces, cmds : Seq(FmCommands)]  BY <1>1, <1>2 DEF FmPlaces
<1>9. worker'.pc = "loop" /\ worker'.cmds = worker.cmds  BY <1>1, <1>2
<1>10. FmTypeOK'  BY <1>1, <1>5, <1>8 DEF FmTypeOK
<1>11. WorkerFits'  BY <1>1, <1>9 DEF WorkerFits
<1>12. WatchesFit' /\ Line' = Line  BY <1>1, <1>9 DEF WatchesFit, WatchesOwned, Line
<1>13. ~monitorGhost'.overlapped => ~monitorGhost'.misuse  BY <1>4, <1>7
<1>14. ~monitorGhost'.overlapped /\ status_' = "stop" => \A v \in FileUsers : fileUser'[v].pc = "idle"
  BY <1>1, <1>7 DEF FmInv, UsersFit
<1> QED  BY <1>1, <1>6, <1>7, <1>10, <1>11, <1>12, <1>13, <1>14, QuietStep

\* The kernel queues events and drops watches.
LEMMA KernelKeepsFm ==
  ASSUME FmInv, (\E f \in MonitoredFiles : FileChanges(f)) \/ (\E wd \in DOMAIN watches : DirectoryGone(wd))
  PROVE  FmInv'
<1>1. /\ FmTypeOK /\ WorkerFits /\ WatchesFit
      /\ UNCHANGED <<status_, worker_stop_, worker, cmds_, cookies, cookie_bookmark_, name_entry_map_,
                     wd_entry_map_, fileUser, monitorGhost>>
  BY DEF FmInv, FileChanges, DirectoryGone, lifeVars, cookieVars, tableVars
<1>2. monitorUsed \in [starts : Nat, gone : Nat, wds : Nat]  BY <1>1 DEF FmTypeOK
<1>3. /\ monitorUsed' \in [starts : Nat, gone : Nat, wds : Nat] /\ monitorUsed'.wds = monitorUsed.wds
      /\ DOMAIN watches' \subseteq DOMAIN watches
      /\ monitorUsed'.gone = 0 => monitorUsed.gone = 0 /\ watches' = watches
  <2>1. CASE \E f \in MonitoredFiles : FileChanges(f)
    <3>1. UNCHANGED <<watches, monitorUsed>>  BY <2>1 DEF FileChanges, tableVars
    <3> QED  BY <1>2, <3>1
  <2>2. CASE \E wd \in DOMAIN watches : DirectoryGone(wd)
    <3>1. PICK wd \in DOMAIN watches : DirectoryGone(wd)  BY <2>2
    <3>2. watches' = Without(watches, wd) /\ monitorUsed' = [monitorUsed EXCEPT !.gone = @ + 1]
      BY <3>1 DEF DirectoryGone
    <3>3. DOMAIN watches' \subseteq DOMAIN watches  BY <3>2 DEF Without
    <3>4. /\ monitorUsed' \in [starts : Nat, gone : Nat, wds : Nat] /\ monitorUsed'.wds = monitorUsed.wds
          /\ monitorUsed'.gone # 0
      BY <1>2, <3>2
    <3> QED  BY <3>3, <3>4
  <2> QED  BY <2>1, <2>2
<1>4. FmTypeOK'  BY <1>1, <1>3 DEF FmTypeOK
<1>5. WorkerFits' /\ Line' = Line  BY <1>1 DEF WorkerFits, Line
<1>6. WatchesFit'  BY <1>1, <1>3 DEF WatchesFit, WatchesOwned
<1>7. ~monitorGhost'.overlapped => ~monitorGhost'.misuse  BY <1>1 DEF FmInv
<1>8. ~monitorGhost'.overlapped /\ status_' = "stop" => \A v \in FileUsers : fileUser'[v].pc = "idle"
  BY <1>1 DEF FmInv, UsersFit
<1> QED  BY <1>1, <1>4, <1>5, <1>6, <1>7, <1>8, QuietStep

\* The rest of Stop: everything is dropped.
LEMMA StopJoinedKeepsFm == FmInv /\ StopJoined => FmInv'
<1> SUFFICES ASSUME FmInv, StopJoined PROVE FmInv'  OBVIOUS
<1> DEFINE r(u) == [fileUser[u] EXCEPT !.mine = {}]
<1>1. /\ FmTypeOK /\ WorkerFits /\ worker.pc = "exited" /\ worker' = [worker EXCEPT !.pc = "none"]
      /\ cmds_' = <<>> /\ name_entry_map_' = <<>> /\ wd_entry_map_' = <<>> /\ watches' = <<>>
      /\ cookie_bookmark_' = {} /\ fileUser' = [u \in FileUsers |-> r(u)]
      /\ UNCHANGED <<status_, worker_stop_, cookies, monitorGhost, monitorUsed>>
  BY DEF FmInv, StopJoined, lifeVars, Leftover
<1>2. worker \in [pc : FmPlaces, cmds : Seq(FmCommands)]  BY <1>1 DEF FmTypeOK
<1>3. worker'.pc = "none" /\ worker'.cmds = worker.cmds  BY <1>1, <1>2
<1>4. worker' \in [pc : FmPlaces, cmds : Seq(FmCommands)]  BY <1>1, <1>2 DEF FmPlaces
<1>5. DOMAIN <<>> = {} /\ <<>> \o <<>> = <<>> /\ <<>> \in Seq(FmCommands)  OBVIOUS
<1>6. \A u \in FileUsers :
        /\ r(u) \in [pc : FmCalls, cookie : Nat, mine : SUBSET Nat]
        /\ r(u).pc = fileUser[u].pc /\ r(u).mine = {}
  <2> SUFFICES ASSUME NEW u \in FileUsers
               PROVE  /\ r(u) \in [pc : FmCalls, cookie : Nat, mine : SUBSET Nat]
                      /\ r(u).pc = fileUser[u].pc /\ r(u).mine = {}
    OBVIOUS
  <2>1. fileUser[u] \in [pc : FmCalls, cookie : Nat, mine : SUBSET Nat]  BY <1>1 DEF FmTypeOK
  <2> QED  BY <2>1
<1> HIDE DEF r
<1>7. FmTypeOK'
  <2>1. fileUser' \in [FileUsers -> [pc : FmCalls, cookie : Nat, mine : SUBSET Nat]]  BY <1>1, <1>6
  <2>2. name_entry_map_' \in [DOMAIN name_entry_map_' -> [wd : Nat, entries : SUBSET Nat]]
    BY <1>1, <1>5
  <2> QED  BY <1>1, <1>4, <1>5, <2>1, <2>2 DEF FmTypeOK
<1>8. worker'.cmds = <<>>  BY <1>1, <1>3 DEF WorkerFits
<1>9. WorkerFits'  BY <1>1, <1>3, <1>8 DEF WorkerFits
<1>10. WatchesFit'  BY <1>1, <1>5 DEF WatchesFit, WatchesOwned
<1>11. Line' = <<>>  BY <1>1, <1>5, <1>8 DEF Line
<1>12. (~monitorGhost.overlapped => ~monitorGhost.misuse /\ LineFits /\ UsersFit /\ TablesFit)'
  <2> SUFFICES ASSUME ~monitorGhost.overlapped PROVE ~monitorGhost.misuse /\ (LineFits /\ UsersFit /\ TablesFit)'
    BY <1>1
  <2>1. ~monitorGhost.misuse /\ UsersFit  BY DEF FmInv
  <2>2. status_ = "stop"  BY <1>1 DEF WorkerFits
  <2>3. \A u \in FileUsers : fileUser'[u].pc = "idle" /\ fileUser'[u].mine = {}
    BY <1>1, <1>6, <2>1, <2>2 DEF UsersFit
  <2>4. LineFits'  BY <1>5, <1>11 DEF LineFits
  <2>5. UsersFit'  BY <1>5, <1>11, <2>3 DEF UsersFit, UserFits, Apart, Queues
  <2>6. Observing' = {} /\ ObserveQueued' = {}  BY <1>5, <1>11, <2>3 DEF Observing, ObserveQueued
  <2>7. monitorGhost.unwatched \subseteq 1..Len(cookies)  BY DEF FmInv, TablesFit
  <2>8. TablesFit'
    <3>1. DOMAIN name_entry_map_' = {}  BY <1>1, <1>5
    <3> QED  BY <1>1, <2>6, <2>7, <3>1 DEF TablesFit
  <2> QED  BY <2>1, <2>4, <2>5, <2>8
<1> QED  BY <1>7, <1>9, <1>10, <1>12 DEF FmInv

\* AcquireCookie: the new cookie is one that nobody has seen.
LEMMA AcquireKeepsFm ==
  ASSUME FmInv, NEW u \in FileUsers, NEW f \in MonitoredFiles, ObserveAcquire(u, f)
  PROVE  FmInv'
<1> DEFINE n == Len(cookies)
           c == n + 1
           r == [[fileUser[u] EXCEPT !.pc = "queue observe"] EXCEPT !.cookie = c]
<1>1. /\ FmTypeOK /\ WorkerFits /\ WatchesFit /\ fileUser[u].pc = "observe"
      /\ cookies' = Append(cookies, f) /\ cookie_bookmark_' = cookie_bookmark_ \cup {Len(cookies')}
      /\ fileUser' = [fileUser EXCEPT ![u].pc = "queue observe", ![u].cookie = Len(cookies')]
      /\ UNCHANGED <<status_, worker_stop_, worker, cmds_, name_entry_map_, wd_entry_map_, watches, inotify,
                     monitorGhost, monitorUsed>>
  BY DEF FmInv, ObserveAcquire, lifeVars, tableVars
<1>2. cookies \in Seq(MonitoredFiles) /\ n \in Nat
  <2>1. cookies \in Seq(MonitoredFiles)  BY <1>1 DEF FmTypeOK
  <2> QED  BY <2>1
<1>3. /\ cookies' \in Seq(MonitoredFiles) /\ Len(cookies') = c
      /\ \A i \in 1..n : cookies'[i] = cookies[i]
  <2>1. cookies' = Append(cookies, f)  BY <1>1
  <2> QED  BY <1>2, <2>1, AppendProperties
<1>4. 1..n \subseteq 1..c /\ c \in 1..c /\ c \notin 1..n /\ c \in Nat  BY <1>2
<1>5. fileUser \in [FileUsers -> [pc : FmCalls, cookie : Nat, mine : SUBSET Nat]]  BY <1>1 DEF FmTypeOK
<1> HIDE DEF n, c
<1>6. fileUser' = [fileUser EXCEPT ![u] = r]  BY <1>1, <1>3, <1>5
<1>7. r \in [pc : FmCalls, cookie : Nat, mine : SUBSET Nat]  BY <1>4, <1>5 DEF FmCalls
<1>8. r.pc = "queue observe" /\ r.cookie = c /\ r.mine = fileUser[u].mine  BY <1>5
<1> HIDE DEF r
<1>9. /\ fileUser' \in [FileUsers -> [pc : FmCalls, cookie : Nat, mine : SUBSET Nat]]
      /\ \A v \in FileUsers : fileUser'[v] = IF v = u THEN r ELSE fileUser[v]
  BY <1>5, <1>6, <1>7
<1>10. FmTypeOK'
  <2>1. cookie_bookmark_' \subseteq 1..c  BY <1>1, <1>3, <1>4 DEF FmTypeOK, n
  <2> QED  BY <1>1, <1>3, <1>9, <2>1 DEF FmTypeOK
<1>11. WorkerFits' /\ WatchesFit' /\ Line' = Line
  <2>1. UNCHANGED <<status_, worker_stop_, worker, cmds_, name_entry_map_, wd_entry_map_, watches, monitorUsed>>
    BY <1>1
  <2>2. WorkerFits /\ WatchesFit  BY DEF FmInv
  <2>3. WatchesFit'  BY <2>1, <2>2 DEF WatchesFit, WatchesOwned
  <2>4. WorkerFits' /\ Line' = Line  BY <2>1, <2>2 DEF WorkerFits, Line
  <2> QED  BY <2>3, <2>4
<1>12. (~monitorGhost.overlapped => ~monitorGhost.misuse /\ LineFits /\ UsersFit /\ TablesFit)'
  <2> SUFFICES ASSUME ~monitorGhost.overlapped PROVE ~monitorGhost.misuse /\ (LineFits /\ UsersFit /\ TablesFit)'
    BY <1>1
  <2>1. ~monitorGhost.misuse /\ LineFits /\ UsersFit /\ TablesFit  BY DEF FmInv
  <2>2. cookie_bookmark_' = cookie_bookmark_ \cup {c} /\ cookie_bookmark_ \subseteq 1..n /\ c \notin cookie_bookmark_
    BY <1>1, <1>3, <1>4 DEF FmTypeOK, n
  <2>3. LineFits'  BY <1>11, <2>1, <2>2 DEF LineFits
  <2>4. status_' # "stop"  BY <1>1, <2>1 DEF UsersFit
  <2>5. ASSUME NEW v \in FileUsers PROVE UserFits(v)'
    <3>1. UserFits(v) /\ UserFits(u)  BY <2>1 DEF UsersFit
    <3>2. CASE v # u
      <4>1. fileUser'[v] = fileUser[v]  BY <1>9, <3>2
      <4> QED  BY <1>11, <2>2, <3>1, <4>1 DEF UserFits, Queues
    <3>3. CASE v = u
      <4>1. fileUser'[v].pc = "queue observe" /\ fileUser'[v].cookie = c /\ fileUser'[v].mine = fileUser[v].mine
        BY <1>8, <1>9, <3>3
      <4>2. \A i \in DOMAIN Line : Line[i].cookie # c  BY <2>1, <2>2 DEF LineFits
      <4> QED  BY <1>11, <2>2, <3>1, <4>1, <4>2 DEF UserFits, Queues
    <3> QED  BY <3>2, <3>3
  <2>6. ASSUME NEW v \in FileUsers, NEW w \in FileUsers PROVE Apart(v, w)'
    <3>1. Apart(v, w) /\ UserFits(v) /\ UserFits(w)  BY <2>1 DEF UsersFit
    <3>2. \A x \in FileUsers : /\ fileUser'[x].mine = fileUser[x].mine
                               /\ x # u => fileUser'[x] = fileUser[x]
      BY <1>8, <1>9
    <3>3. fileUser'[u].cookie = c  BY <1>8, <1>9
    <3>4. c \notin fileUser[v].mine /\ c \notin fileUser[w].mine  BY <2>2, <3>1 DEF UserFits
    <3>5. /\ Queues(v) => fileUser[v].cookie # c
          /\ Queues(w) => fileUser[w].cookie # c
      BY <2>2, <3>1 DEF UserFits
    <3>6. CASE v # u /\ w # u  BY <3>1, <3>2, <3>6 DEF Apart, Queues
    <3>7. CASE v = u /\ w # u  BY <3>1, <3>2, <3>3, <3>4, <3>5, <3>7 DEF Apart, Queues
    <3>8. CASE v # u /\ w = u  BY <3>1, <3>2, <3>3, <3>4, <3>5, <3>8 DEF Apart, Queues
    <3>9. CASE v = u /\ w = u  BY <3>2, <3>3, <3>4, <3>9 DEF Apart
    <3> QED  BY <3>6, <3>7, <3>8, <3>9
  <2>7. UsersFit'  BY <2>4, <2>5, <2>6 DEF UsersFit
  <2>8. ObserveQueued' = ObserveQueued  BY <1>11 DEF ObserveQueued
  <2>9. Observing' = Observing \cup {c}
    <3> SUFFICES ASSUME NEW x PROVE x \in Observing' <=> x \in Observing \/ x = c  OBVIOUS
    <3>1. x \in Observing' <=> \E v \in FileUsers : fileUser'[v].pc = "queue observe" /\ x = fileUser'[v].cookie
      BY DEF Observing
    <3>2. x \in Observing <=> \E v \in FileUsers : fileUser[v].pc = "queue observe" /\ x = fileUser[v].cookie
      BY DEF Observing
    <3>3. fileUser'[u].pc = "queue observe" /\ fileUser'[u].cookie = c  BY <1>8, <1>9
    <3>4. \A v \in FileUsers : v # u => fileUser'[v] = fileUser[v]  BY <1>9
    <3> QED  BY <1>1, <3>1, <3>2, <3>3, <3>4
  <2>10. TablesFit'
    <3>1. \A d \in DOMAIN name_entry_map_ : name_entry_map_[d].entries \subseteq 1..n  BY <2>1 DEF TablesFit, n
    <3>2. \A d \in DOMAIN name_entry_map_ : \A x \in name_entry_map_[d].entries :
            x \in 1..c /\ FileDir[cookies'[x]] = d
      BY <1>3, <1>4, <2>1, <3>1 DEF TablesFit
    <3>3. monitorGhost.unwatched \subseteq 1..n /\ monitorGhost.unwatched \subseteq 1..c
      BY <1>4, <2>1 DEF TablesFit, n
    <3>4. ASSUME NEW x \in 1..c
          PROVE  (\E d \in DOMAIN name_entry_map_ : x \in name_entry_map_[d].entries) <=>
                   /\ x \in cookie_bookmark_' /\ x \notin monitorGhost.unwatched
                   /\ x \notin Observing' /\ x \notin ObserveQueued'
      <4>1. CASE x = c
        <5>1. \A d \in DOMAIN name_entry_map_ : x \notin name_entry_map_[d].entries  BY <1>4, <3>1, <4>1
        <5> QED  BY <2>9, <4>1, <5>1
      <4>2. CASE x # c
        <5>1. x \in 1..Len(cookies)  BY <1>2, <4>2 DEF c, n
        <5>2. (x \in cookie_bookmark_' <=> x \in cookie_bookmark_) /\ (x \in Observing' <=> x \in Observing)
          BY <2>2, <2>9, <4>2
        <5> QED  BY <2>1, <2>8, <5>1, <5>2 DEF TablesFit
      <4> QED  BY <4>1, <4>2
    <3>5. (Observing' \cup ObserveQueued') \cap monitorGhost.unwatched = {}
      BY <1>4, <2>1, <2>8, <2>9, <3>3 DEF TablesFit
    <3> QED  BY <1>1, <1>3, <3>2, <3>3, <3>4, <3>5 DEF TablesFit
  <2> QED  BY <2>1, <2>3, <2>7, <2>10
<1> QED  BY <1>10, <1>11, <1>12 DEF FmInv

LEMMA ForgetCheckKeepsFm ==
  ASSUME FmInv, NEW u \in FileUsers, NEW c \in fileUser[u].mine, ForgetCheck(u, c)
  PROVE  FmInv'
<1> DEFINE r == [pc |-> "queue forget", cookie |-> c, mine |-> fileUser[u].mine \ {c}]
<1>1. /\ FmTypeOK /\ WorkerFits /\ WatchesFit /\ fileUser[u].pc = "idle" /\ status_ = "start"
      /\ fileUser' = [fileUser EXCEPT ![u] = r]
      /\ UNCHANGED <<status_, worker_stop_, worker, cmds_, cookies, cookie_bookmark_, name_entry_map_,
                     wd_entry_map_, watches, inotify, monitorGhost, monitorUsed>>
  BY DEF FmInv, ForgetCheck, lifeVars, cookieVars, tableVars
<1>2. fileUser \in [FileUsers -> [pc : FmCalls, cookie : Nat, mine : SUBSET Nat]]  BY <1>1 DEF FmTypeOK
<1>3. c \in Nat  BY <1>2
<1>4. r \in [pc : FmCalls, cookie : Nat, mine : SUBSET Nat]  BY <1>2, <1>3 DEF FmCalls
<1>5. r.pc = "queue forget" /\ r.cookie = c /\ r.mine = fileUser[u].mine \ {c}  OBVIOUS
<1> HIDE DEF r
<1>6. /\ fileUser' \in [FileUsers -> [pc : FmCalls, cookie : Nat, mine : SUBSET Nat]]
      /\ \A v \in FileUsers : fileUser'[v] = IF v = u THEN r ELSE fileUser[v]
  BY <1>1, <1>2, <1>4
<1>7. FmTypeOK'  BY <1>1, <1>6 DEF FmTypeOK
<1>8. WorkerFits' /\ WatchesFit' /\ Line' = Line  BY <1>1 DEF WorkerFits, WatchesFit, WatchesOwned, Line
<1>9. (~monitorGhost.overlapped => ~monitorGhost.misuse /\ LineFits /\ UsersFit /\ TablesFit)'
  <2> SUFFICES ASSUME ~monitorGhost.overlapped PROVE ~monitorGhost.misuse /\ (LineFits /\ UsersFit /\ TablesFit)'
    BY <1>1
  <2>1. ~monitorGhost.misuse /\ LineFits /\ UsersFit /\ TablesFit  BY DEF FmInv
  <2>2. LineFits'  BY <1>1, <1>8, <2>1 DEF LineFits
  <2>3. fileUser'[u].pc = "queue forget" /\ fileUser'[u].cookie = c /\ fileUser'[u].mine = fileUser[u].mine \ {c}
    BY <1>5, <1>6
  <2>4. \A v \in FileUsers : v # u => fileUser'[v] = fileUser[v]  BY <1>6
  <2>5. ASSUME NEW v \in FileUsers PROVE UserFits(v)'
    <3>1. UserFits(v)  BY <2>1 DEF UsersFit
    <3>2. CASE v # u
      <4>1. fileUser'[v] = fileUser[v] /\ cookie_bookmark_' = cookie_bookmark_  BY <1>1, <2>4, <3>2
      <4> QED  BY <1>8, <3>1, <4>1 DEF UserFits, Queues
    <3>3. CASE v = u  BY <1>1, <1>8, <2>3, <3>1, <3>3 DEF UserFits, Queues
    <3> QED  BY <3>2, <3>3
  <2>6. ASSUME NEW v \in FileUsers, NEW w \in FileUsers PROVE Apart(v, w)'
    <3>1. Apart(v, w) /\ Apart(w, v)  BY <2>1 DEF UsersFit
    <3>2. CASE v # u /\ w # u  BY <2>4, <3>1, <3>2 DEF Apart, Queues
    <3>3. CASE v = u /\ w # u  BY <2>3, <2>4, <3>1, <3>3 DEF Apart, Queues
    <3>4. CASE v # u /\ w = u  BY <2>3, <2>4, <3>1, <3>4 DEF Apart, Queues
    <3>5. CASE v = u /\ w = u  BY <2>3, <3>5 DEF Apart
    <3> QED  BY <3>2, <3>3, <3>4, <3>5
  <2>7. UsersFit'  BY <1>1, <2>5, <2>6 DEF UsersFit
  <2>8. Observing' = Observing /\ ObserveQueued' = ObserveQueued
    <3>1. ASSUME NEW x PROVE x \in Observing' <=> x \in Observing
      <4>1. x \in Observing' <=> \E v \in FileUsers : fileUser'[v].pc = "queue observe" /\ x = fileUser'[v].cookie
        BY DEF Observing
      <4>2. x \in Observing <=> \E v \in FileUsers : fileUser[v].pc = "queue observe" /\ x = fileUser[v].cookie
        BY DEF Observing
      <4> QED  BY <1>1, <2>3, <2>4, <4>1, <4>2
    <3>2. ObserveQueued' = ObserveQueued  BY <1>8 DEF ObserveQueued
    <3> QED  BY <3>1, <3>2
  <2>9. TablesFit'  BY <1>1, <2>1, <2>8 DEF TablesFit
  <2> QED  BY <2>1, <2>2, <2>7, <2>9
<1> QED  BY <1>7, <1>8, <1>9 DEF FmInv

\* The end of Observe and of Forget: the command goes to the end of the line.
LEMMA EnqueueKeepsFm ==
  ASSUME FmInv, NEW u \in FileUsers, Enqueue(u)
  PROVE  FmInv'
<1> DEFINE c == fileUser[u].cookie
           observe == fileUser[u].pc = "queue observe"
           type == IF observe THEN "Observe" ELSE "Forget"
           x == [type |-> type, cookie |-> c]
           mine == IF observe THEN fileUser[u].mine \cup {c} ELSE fileUser[u].mine
           r == [pc |-> "idle", cookie |-> NoCookie, mine |-> mine]
<1>1. /\ FmTypeOK /\ WorkerFits /\ WatchesFit
      /\ fileUser[u].pc \in {"queue observe", "queue forget"}
      /\ cmds_' = Append(cmds_, x) /\ fileUser' = [fileUser EXCEPT ![u] = r]
  BY DEF FmInv, Enqueue
<1>2. UNCHANGED <<status_, worker_stop_, worker, cookies, cookie_bookmark_, name_entry_map_,
                  wd_entry_map_, watches, inotify, monitorGhost, monitorUsed>>
  BY DEF Enqueue, lifeVars, cookieVars, tableVars
<1>3. /\ fileUser \in [FileUsers -> [pc : FmCalls, cookie : Nat, mine : SUBSET Nat]]
      /\ worker \in [pc : FmPlaces, cmds : Seq(FmCommands)] /\ cmds_ \in Seq(FmCommands)
  BY <1>1 DEF FmTypeOK
<1>4. c \in Nat /\ type \in {"Observe", "Forget"} /\ mine \in SUBSET Nat  BY <1>3
<1>5. /\ type = "Observe" => fileUser[u].pc = "queue observe" /\ mine = fileUser[u].mine \cup {c}
      /\ type = "Forget" => fileUser[u].pc = "queue forget" /\ mine = fileUser[u].mine
  BY <1>1
<1> HIDE DEF c, observe, type, mine
<1>6. x \in FmCommands /\ x.type = type /\ x.cookie = c  BY <1>4 DEF FmCommands
<1>7. r \in [pc : FmCalls, cookie : Nat, mine : SUBSET Nat] /\ r.pc = "idle" /\ r.mine = mine
  BY <1>4 DEF FmCalls, NoCookie
<1> HIDE DEF x, r
<1>8. /\ fileUser' \in [FileUsers -> [pc : FmCalls, cookie : Nat, mine : SUBSET Nat]]
      /\ \A v \in FileUsers : fileUser'[v] = IF v = u THEN r ELSE fileUser[v]
  BY <1>1, <1>3, <1>7
<1>9. cmds_' \in Seq(FmCommands)  BY <1>1, <1>3, <1>6, AppendProperties
<1>10. FmTypeOK'  BY <1>1, <1>2, <1>8, <1>9 DEF FmTypeOK
<1>11. WorkerFits'
  <2>1. WorkerFits  BY <1>1
  <2> QED  BY <1>2, <2>1 DEF WorkerFits
<1>12. WatchesFit'
  <2>1. WatchesFit  BY <1>1
  <2> QED  BY <1>2, <2>1 DEF WatchesFit, WatchesOwned
<1>13. /\ Line \in Seq(FmCommands) /\ Line' = Append(Line, x)
       /\ DOMAIN Line = 1..Len(Line) /\ Len(Line) \in Nat /\ DOMAIN Line' = 1..(Len(Line) + 1)
       /\ \A i \in DOMAIN Line : Line'[i] = Line[i]
       /\ Line'[Len(Line) + 1] = x
  <2>1. worker.cmds \in Seq(FmCommands) /\ worker' = worker  BY <1>2, <1>3
  <2>2. Line \in Seq(FmCommands)  BY <1>3, <2>1, LineIs DEF Line
  <2>3. worker.cmds \o Append(cmds_, x) = Append(worker.cmds \o cmds_, x)  BY <1>3, <1>6, <2>1, LineIs
  <2>4. Line' = Append(Line, x)  BY <1>1, <2>1, <2>3 DEF Line
  <2>5. Line' \in Seq(FmCommands) /\ Len(Line') = Len(Line) + 1 /\ (\A i \in 1..Len(Line) : Line'[i] = Line[i])
        /\ Line'[Len(Line) + 1] = x
    BY <1>6, <2>2, <2>4, AppendProperties
  <2> QED  BY <2>2, <2>4, <2>5
<1>14. (~monitorGhost.overlapped => ~monitorGhost.misuse /\ LineFits /\ UsersFit /\ TablesFit)'
  <2> SUFFICES ASSUME ~monitorGhost.overlapped PROVE ~monitorGhost.misuse /\ (LineFits /\ UsersFit /\ TablesFit)'
    BY <1>2
  <2>1. ~monitorGhost.misuse /\ LineFits /\ UsersFit /\ TablesFit  BY DEF FmInv
  <2>2. UserFits(u) /\ Queues(u)  BY <1>1, <2>1 DEF UsersFit, Queues
  <2>3. /\ c \in cookie_bookmark_
        /\ \A i \in DOMAIN Line : Line[i].cookie = c => type = "Forget" /\ Line[i].type = "Observe"
    BY <1>4, <1>5, <2>2 DEF UserFits, c
  <2>4. \A i \in DOMAIN Line' : (i \in DOMAIN Line /\ Line'[i] = Line[i]) \/ (i = Len(Line) + 1 /\ Line'[i] = x)
    <3> SUFFICES ASSUME NEW i \in DOMAIN Line', ~(i = Len(Line) + 1 /\ Line'[i] = x)
                 PROVE  i \in DOMAIN Line /\ Line'[i] = Line[i]
      OBVIOUS
    <3>1. Len(Line) \in Nat /\ i \in 1..(Len(Line) + 1) /\ i # Len(Line) + 1  BY <1>13
    <3>2. i \in 1..Len(Line)  BY <3>1
    <3> QED  BY <1>13, <3>2
  <2>5. LineFits'
    <3>1. \A i \in DOMAIN Line' : Line'[i].cookie \in cookie_bookmark_
      BY <1>6, <2>1, <2>3, <2>4 DEF LineFits
    <3>2. ASSUME NEW i \in DOMAIN Line', NEW j \in DOMAIN Line', i < j, Line'[i].cookie = Line'[j].cookie
          PROVE  Line'[i].type = "Observe" /\ Line'[j].type = "Forget"
      <4>1. i \in DOMAIN Line /\ Line'[i] = Line[i]  BY <1>13, <3>2
      <4>2. CASE j \in DOMAIN Line /\ Line'[j] = Line[j]  BY <2>1, <3>2, <4>1, <4>2 DEF LineFits
      <4>3. CASE Line'[j] = x  BY <1>6, <2>3, <3>2, <4>1, <4>3
      <4> QED  BY <2>4, <4>2, <4>3
    <3> QED  BY <1>2, <3>1, <3>2 DEF LineFits
  <2>6. \A v \in FileUsers : /\ v # u => fileUser'[v] = fileUser[v]
                             /\ v = u => fileUser'[v].pc = "idle" /\ fileUser'[v].mine = mine
    BY <1>7, <1>8
  <2>7. \A v \in FileUsers : Apart(v, u) /\ Apart(u, v)  BY <2>1 DEF UsersFit
  <2>8. \A v \in FileUsers : c \notin fileUser[v].mine /\ (v # u /\ Queues(v) => fileUser[v].cookie # c)
    BY <2>2, <2>7 DEF Apart, c
  <2>9. ASSUME NEW v \in FileUsers PROVE UserFits(v)'
    <3>1. UserFits(v)  BY <2>1 DEF UsersFit
    <3>2. CASE v # u
      <4>1. fileUser'[v] = fileUser[v]  BY <2>6, <3>2
      <4>2. \A i \in DOMAIN Line' : Line'[i].cookie \in fileUser[v].mine => Line'[i].type = "Observe"
        BY <1>6, <2>4, <2>8, <3>1 DEF UserFits
      <4>3. Queues(v) => \A i \in DOMAIN Line' : Line'[i].cookie = fileUser[v].cookie =>
                           fileUser[v].pc = "queue forget" /\ Line'[i].type = "Observe"
        <5> SUFFICES ASSUME Queues(v), NEW i \in DOMAIN Line', Line'[i].cookie = fileUser[v].cookie
                     PROVE  fileUser[v].pc = "queue forget" /\ Line'[i].type = "Observe"
          OBVIOUS
        <5>1. Line'[i] # x  BY <1>6, <2>8, <3>2
        <5>2. i \in DOMAIN Line /\ Line'[i] = Line[i]  BY <2>4, <5>1
        <5> QED  BY <3>1, <5>2 DEF UserFits
      <4> QED  BY <1>2, <3>1, <4>1, <4>2, <4>3 DEF UserFits, Queues
    <3>3. CASE v = u
      <4>1. fileUser'[v].pc = "idle" /\ fileUser'[v].mine = mine  BY <2>6, <3>3
      <4>2. mine \subseteq cookie_bookmark_  BY <1>4, <1>5, <2>3, <3>1, <3>3 DEF UserFits
      <4>3. ASSUME NEW i \in DOMAIN Line', Line'[i].cookie \in mine PROVE Line'[i].type = "Observe"
        <5>1. CASE type = "Observe"
          <6>1. mine = fileUser[u].mine \cup {c}  BY <1>5, <5>1
          <6>2. CASE i \in DOMAIN Line /\ Line'[i] = Line[i]
            BY <2>3, <3>1, <3>3, <4>3, <5>1, <6>1, <6>2 DEF UserFits
          <6>3. CASE Line'[i] = x  BY <1>6, <5>1, <6>3
          <6> QED  BY <2>4, <6>2, <6>3
        <5>2. CASE type = "Forget"
          <6>1. mine = fileUser[u].mine  BY <1>5, <5>2
          <6>2. Line'[i] # x  BY <1>6, <2>8, <4>3, <6>1
          <6> QED  BY <2>4, <3>1, <3>3, <4>3, <6>1, <6>2 DEF UserFits
        <5> QED  BY <1>4, <5>1, <5>2
      <4> QED  BY <1>2, <4>1, <4>2, <4>3 DEF UserFits, Queues
    <3> QED  BY <3>2, <3>3
  <2>10. ASSUME NEW v \in FileUsers, NEW w \in FileUsers PROVE Apart(v, w)'
    <3>1. Apart(v, w) /\ Apart(w, v)  BY <2>1 DEF UsersFit
    <3>2. mine \subseteq fileUser[u].mine \cup {c}  BY <1>4, <1>5
    <3>3. CASE v # u /\ w # u  BY <2>6, <3>1, <3>3 DEF Apart, Queues
    <3>4. CASE v = u /\ w # u
      <4>1. fileUser'[w] = fileUser[w] /\ fileUser'[v].mine = mine /\ fileUser'[v].pc = "idle"  BY <2>6, <3>4
      <4>2. Queues(w) => fileUser[w].cookie \notin mine  BY <2>8, <3>1, <3>2, <3>4 DEF Apart
      <4>3. mine \cap fileUser[w].mine = {}  BY <2>8, <3>1, <3>2, <3>4 DEF Apart
      <4> QED  BY <4>1, <4>2, <4>3 DEF Apart, Queues
    <3>5. CASE v # u /\ w = u
      <4>1. fileUser'[v] = fileUser[v] /\ fileUser'[w].mine = mine /\ fileUser'[w].pc = "idle"  BY <2>6, <3>5
      <4>2. fileUser[v].mine \cap mine = {}  BY <2>8, <3>1, <3>2, <3>5 DEF Apart
      <4> QED  BY <4>1, <4>2 DEF Apart, Queues
    <3>6. CASE v = u /\ w = u  BY <2>6, <3>6 DEF Apart, Queues
    <3> QED  BY <3>3, <3>4, <3>5, <3>6
  <2>11. UsersFit'
    <3>1. status_ # "stop"  BY <1>1, <2>1 DEF UsersFit
    <3> QED  BY <1>2, <2>9, <2>10, <3>1 DEF UsersFit
  <2>12. Observing' \cup ObserveQueued' = Observing \cup ObserveQueued
    <3> SUFFICES ASSUME NEW y PROVE y \in Observing' \/ y \in ObserveQueued' <=> y \in Observing \/ y \in ObserveQueued
      OBVIOUS
    <3>1. y \in Observing' <=> \E v \in FileUsers : fileUser'[v].pc = "queue observe" /\ y = fileUser'[v].cookie
      BY DEF Observing
    <3>2. y \in Observing <=> \E v \in FileUsers : fileUser[v].pc = "queue observe" /\ y = fileUser[v].cookie
      BY DEF Observing
    <3>3. y \in ObserveQueued' <=> \E i \in DOMAIN Line' : Line'[i].type = "Observe" /\ y = Line'[i].cookie
      BY DEF ObserveQueued
    <3>4. y \in ObserveQueued <=> \E i \in DOMAIN Line : Line[i].type = "Observe" /\ y = Line[i].cookie
      BY DEF ObserveQueued
    <3>5. y \in Observing' <=> \E v \in FileUsers : v # u /\ fileUser[v].pc = "queue observe" /\ y = fileUser[v].cookie
      BY <2>6, <3>1
    <3>6. y \in Observing <=> y \in Observing' \/ (type = "Observe" /\ y = c)
      BY <1>4, <1>5, <3>2, <3>5 DEF c
    <3>7. y \in ObserveQueued' <=> y \in ObserveQueued \/ (type = "Observe" /\ y = c)
      <4>1. \A i \in DOMAIN Line : i \in DOMAIN Line' /\ Line'[i] = Line[i]  BY <1>13
      <4>2. Len(Line) + 1 \in DOMAIN Line' /\ Line'[Len(Line) + 1] = x  BY <1>13
      <4> QED  BY <1>6, <2>4, <3>3, <3>4, <4>1, <4>2
    <3> QED  BY <3>6, <3>7
  <2>13. TablesFit'
    <3>1. TablesFit  BY <2>1
    <3>2. \A y : y \notin Observing' /\ y \notin ObserveQueued' <=> y \notin Observing /\ y \notin ObserveQueued
      BY <2>12
    <3> QED  BY <1>2, <2>12, <3>1, <3>2 DEF TablesFit
  <2> QED  BY <2>1, <2>5, <2>11, <2>13
<1> QED  BY <1>10, <1>11, <1>12, <1>14 DEF FmInv

\* A command is done: the line loses its first one.
LEMMA CommandStep ==
  ASSUME FmTypeOK, WorkerFits, worker.pc = "process", CommandDone, UNCHANGED <<status_, worker_stop_, cmds_>>
  PROVE  /\ worker' \in [pc : FmPlaces, cmds : Seq(FmCommands)] /\ WorkerFits'
         /\ 1 \in DOMAIN Line /\ Line[1] = Head(worker.cmds) /\ Line[1] \in FmCommands
         /\ \A i \in DOMAIN Line' : i \in Nat /\ i + 1 \in DOMAIN Line /\ 1 < i + 1 /\ Line'[i] = Line[i + 1]
         /\ \A j \in DOMAIN Line : j = 1 \/ \E i \in DOMAIN Line' : Line'[i] = Line[j]
<1> DEFINE p == IF Len(worker.cmds) = 1 THEN "epoll" ELSE worker.pc
           s == Tail(worker.cmds)
<1>1. worker \in [pc : FmPlaces, cmds : Seq(FmCommands)] /\ cmds_ \in Seq(FmCommands)  BY DEF FmTypeOK
<1>2. worker.cmds \in Seq(FmCommands) /\ worker.cmds # <<>>  BY <1>1 DEF WorkerFits
<1>3. s \in Seq(FmCommands) /\ Len(s) = Len(worker.cmds) - 1  BY <1>2, HeadTailProperties
<1> HIDE DEF s
<1>4. p \in FmPlaces /\ (p = "process" <=> s # <<>>) /\ p # "exited"
  <2>1. Len(worker.cmds) \in Nat /\ Len(worker.cmds) # 0  BY <1>2
  <2>2. CASE Len(worker.cmds) = 1
    <3>1. s = <<>>  BY <1>3, <2>2
    <3> QED  BY <2>2, <3>1 DEF FmPlaces
  <2>3. CASE Len(worker.cmds) # 1
    <3>1. s # <<>>
      <4>1. Len(s) # 0  BY <1>3, <2>1, <2>3
      <4>2. Len(<<>>) = 0  OBVIOUS
      <4> QED  BY <4>1, <4>2
    <3> QED  BY <2>3, <3>1 DEF FmPlaces
  <2> QED  BY <2>2, <2>3
<1>5. worker' = [[worker EXCEPT !.cmds = s] EXCEPT !.pc = p]  BY <1>1 DEF CommandDone, s
<1> HIDE DEF p
<1>6. worker' \in [pc : FmPlaces, cmds : Seq(FmCommands)]  BY <1>1, <1>3, <1>4, <1>5
<1>7. worker'.pc = p /\ worker'.cmds = s  BY <1>1, <1>5
<1>8. WorkerFits'  BY <1>4, <1>7 DEF WorkerFits
<1>9. Line \in Seq(FmCommands) /\ Line # <<>> /\ Line[1] = Head(worker.cmds) /\ Line' = Tail(Line)
  <2>1. /\ worker.cmds \o cmds_ \in Seq(FmCommands)
        /\ s \o cmds_ = Tail(worker.cmds \o cmds_) /\ worker.cmds \o cmds_ # <<>>
        /\ (worker.cmds \o cmds_)[1] = Head(worker.cmds)
    BY <1>1, <1>2, LineIs DEF s
  <2> QED  BY <1>7, <2>1 DEF Line
<1>10. Len(Line) \in Nat /\ Len(Line) # 0 /\ DOMAIN Line = 1..Len(Line)  BY <1>9
<1>11. /\ DOMAIN Line' = 1..(Len(Line) - 1)
       /\ \A i \in 1..(Len(Line) - 1) : Line'[i] = Line[i + 1]
  <2>1. /\ Tail(Line) \in Seq(FmCommands) /\ Len(Tail(Line)) = Len(Line) - 1
        /\ \A i \in 1..Len(Tail(Line)) : Tail(Line)[i] = Line[i + 1]
    BY <1>9, HeadTailProperties
  <2> QED  BY <1>9, <2>1
<1>12. 1 \in DOMAIN Line /\ Line[1] \in FmCommands  BY <1>9, <1>10
<1>13. \A i \in DOMAIN Line' : i \in Nat /\ i + 1 \in DOMAIN Line /\ 1 < i + 1 /\ Line'[i] = Line[i + 1]
  BY <1>10, <1>11
<1>14. ASSUME NEW j \in DOMAIN Line, j # 1 PROVE \E i \in DOMAIN Line' : Line'[i] = Line[j]
  <2>1. j - 1 \in DOMAIN Line' /\ (j - 1) + 1 = j  BY <1>10, <1>11, <1>14
  <2>2. Line'[j - 1] = Line[j]  BY <1>11, <2>1
  <2> QED  BY <2>1, <2>2
<1> QED  BY <1>6, <1>8, <1>9, <1>12, <1>13, <1>14

\* Reading a cookie is misuse only when it was freed.
LEMMA UseOfCookie ==
  ASSUME FmTypeOK, NEW c \in Nat
  PROVE  /\ Use(c) \in [misuse : BOOLEAN, overlapped : BOOLEAN, unwatched : SUBSET Nat]
         /\ Use(c).overlapped = monitorGhost.overlapped /\ Use(c).unwatched = monitorGhost.unwatched
         /\ c \in cookie_bookmark_ => Use(c).misuse = monitorGhost.misuse
<1> DEFINE b == monitorGhost.misuse \/ c \notin cookie_bookmark_
<1>1. monitorGhost \in [misuse : BOOLEAN, overlapped : BOOLEAN, unwatched : SUBSET Nat]  BY DEF FmTypeOK
<1>2. b \in BOOLEAN  OBVIOUS
<1>3. c \in cookie_bookmark_ => b = monitorGhost.misuse
  <2>1. monitorGhost.misuse \in BOOLEAN  BY <1>1
  <2> QED  BY <2>1, Zenon
<1>4. Use(c) = [monitorGhost EXCEPT !.misuse = b]  BY DEF Use
<1> HIDE DEF b
<1>5. Use(c) \in [misuse : BOOLEAN, overlapped : BOOLEAN, unwatched : SUBSET Nat]  BY <1>1, <1>2, <1>4
<1>6. Use(c).overlapped = monitorGhost.overlapped /\ Use(c).misuse = b  BY <1>1, <1>4
<1>7. Use(c).unwatched = monitorGhost.unwatched  BY <1>1, <1>4
<1> QED  BY <1>3, <1>5, <1>6, <1>7

\* x is in some entry.
Entered(x) == \E d \in DOMAIN name_entry_map_ : x \in name_entry_map_[d].entries

\* What ProcessObserve does to the tables.
ObserveTables(c, dir) ==
  \/ /\ dir \in DOMAIN name_entry_map_
     /\ name_entry_map_' = [name_entry_map_ EXCEPT ![dir].entries = @ \cup {c}]
     /\ UNCHANGED <<wd_entry_map_, watches, monitorUsed>>
  \/ /\ dir \notin DOMAIN name_entry_map_
     /\ name_entry_map_' = With(name_entry_map_, dir, [wd |-> monitorUsed.wds + 1, entries |-> {c}])
     /\ wd_entry_map_' = With(wd_entry_map_, monitorUsed.wds + 1, dir)
     /\ watches' = With(watches, monitorUsed.wds + 1, dir)
     /\ monitorUsed' = [monitorUsed EXCEPT !.wds = monitorUsed.wds + 1]

\* The entry of dir has the cookie c, and the others are as they were.
LEMMA ObserveTablesStep ==
  ASSUME FmTypeOK, WatchesFit, NEW c \in Nat, NEW dir, ObserveTables(c, dir)
  PROVE  /\ name_entry_map_' \in [DOMAIN name_entry_map_' -> [wd : Nat, entries : SUBSET Nat]]
         /\ monitorUsed' \in [starts : Nat, gone : Nat, wds : Nat]
         /\ WatchesFit'
         /\ \A d \in DOMAIN name_entry_map_' : \A x \in name_entry_map_'[d].entries :
              (x = c /\ d = dir) \/ (d \in DOMAIN name_entry_map_ /\ x \in name_entry_map_[d].entries)
         /\ \A x : (\E d \in DOMAIN name_entry_map_' : x \in name_entry_map_'[d].entries) <=> Entered(x) \/ x = c
<1>1. /\ name_entry_map_ \in [DOMAIN name_entry_map_ -> [wd : Nat, entries : SUBSET Nat]]
      /\ monitorUsed \in [starts : Nat, gone : Nat, wds : Nat]
  BY DEF FmTypeOK
<1>2. CASE /\ dir \in DOMAIN name_entry_map_
           /\ name_entry_map_' = [name_entry_map_ EXCEPT ![dir].entries = @ \cup {c}]
           /\ UNCHANGED <<wd_entry_map_, watches, monitorUsed>>
  <2>1. /\ name_entry_map_' \in [DOMAIN name_entry_map_ -> [wd : Nat, entries : SUBSET Nat]]
        /\ DOMAIN name_entry_map_' = DOMAIN name_entry_map_
    BY <1>1, <1>2
  <2>2. \A d \in DOMAIN name_entry_map_ :
          /\ name_entry_map_'[d].wd = name_entry_map_[d].wd
          /\ d # dir => name_entry_map_'[d].entries = name_entry_map_[d].entries
    BY <1>1, <1>2
  <2>3. name_entry_map_'[dir].entries = name_entry_map_[dir].entries \cup {c}  BY <1>1, <1>2
  <2>4. WatchesFit'
    <3>1. {name_entry_map_'[d].wd : d \in DOMAIN name_entry_map_} = {name_entry_map_[d].wd : d \in DOMAIN name_entry_map_}
      BY <2>2
    <3>2. \A d \in DOMAIN name_entry_map_ : name_entry_map_'[d].entries # {}
      <4> SUFFICES ASSUME NEW d \in DOMAIN name_entry_map_ PROVE name_entry_map_'[d].entries # {}  OBVIOUS
      <4>1. name_entry_map_[d].entries # {}  BY DEF WatchesFit, WatchesOwned
      <4> QED  BY <2>2, <2>3, <4>1
    <3> QED  BY <1>2, <2>1, <2>2, <3>1, <3>2 DEF WatchesFit, WatchesOwned
  <2>5. \A d \in DOMAIN name_entry_map_ : \A x \in name_entry_map_'[d].entries :
          (x = c /\ d = dir) \/ x \in name_entry_map_[d].entries
    BY <2>2, <2>3
  <2>6. ASSUME NEW x
        PROVE  (\E d \in DOMAIN name_entry_map_ : x \in name_entry_map_'[d].entries) <=> Entered(x) \/ x = c
    <3>1. \A d \in DOMAIN name_entry_map_ : x \in name_entry_map_[d].entries => x \in name_entry_map_'[d].entries
      BY <2>2, <2>3
    <3> QED  BY <1>2, <2>3, <2>5, <3>1 DEF Entered
  <2> QED  BY <1>1, <1>2, <2>1, <2>4, <2>5, <2>6
<1>3. CASE /\ dir \notin DOMAIN name_entry_map_
           /\ name_entry_map_' = With(name_entry_map_, dir, [wd |-> monitorUsed.wds + 1, entries |-> {c}])
           /\ wd_entry_map_' = With(wd_entry_map_, monitorUsed.wds + 1, dir)
           /\ watches' = With(watches, monitorUsed.wds + 1, dir)
           /\ monitorUsed' = [monitorUsed EXCEPT !.wds = monitorUsed.wds + 1]
  <2> DEFINE wd == monitorUsed.wds + 1
             D == DOMAIN name_entry_map_
             e == [wd |-> wd, entries |-> {c}]
  <2>1. wd \in Nat /\ monitorUsed.wds \in Nat /\ ~(wd <= monitorUsed.wds)  BY <1>1
  <2>2. e \in [wd : Nat, entries : SUBSET Nat] /\ e.wd = wd /\ e.entries = {c}  BY <2>1
  <2>3. monitorUsed' \in [starts : Nat, gone : Nat, wds : Nat]  BY <1>1, <1>3
  <2>4. monitorUsed'.wds = wd /\ monitorUsed'.gone = monitorUsed.gone  BY <1>1, <1>3
  <2> HIDE DEF wd, e
  <2>5. /\ DOMAIN name_entry_map_' = D \cup {dir} /\ name_entry_map_'[dir] = e
        /\ \A d \in D : name_entry_map_'[d] = name_entry_map_[d]
    BY <1>3 DEF With, e, wd
  <2>6. /\ DOMAIN wd_entry_map_' = DOMAIN wd_entry_map_ \cup {wd} /\ DOMAIN watches' = DOMAIN watches \cup {wd}
        /\ \A y \in DOMAIN wd_entry_map_' : wd_entry_map_'[y] = IF y = wd THEN dir ELSE wd_entry_map_[y]
    BY <1>3 DEF With, wd
  <2>7. name_entry_map_' \in [DOMAIN name_entry_map_' -> [wd : Nat, entries : SUBSET Nat]]
    <3>1. name_entry_map_' = [y \in D \cup {dir} |-> IF y = dir THEN e ELSE name_entry_map_[y]]
      BY <1>3 DEF With, e, wd
    <3> QED  BY <1>1, <2>2, <2>5, <3>1
  <2>8. \A d \in D : /\ name_entry_map_[d].wd <= monitorUsed.wds /\ name_entry_map_[d].wd # wd
                     /\ name_entry_map_[d].wd <= wd
    <3> SUFFICES ASSUME NEW d \in D
                 PROVE  /\ name_entry_map_[d].wd <= monitorUsed.wds /\ name_entry_map_[d].wd # wd
                        /\ name_entry_map_[d].wd <= wd
      OBVIOUS
    <3>1. name_entry_map_[d].wd \in Nat /\ name_entry_map_[d].wd <= monitorUsed.wds  BY <1>1 DEF WatchesFit
    <3> QED  BY <2>1, <3>1 DEF wd
  <2>9. /\ DOMAIN wd_entry_map_ = {name_entry_map_[d].wd : d \in D}
        /\ \A d \in D : name_entry_map_[d].entries # {} /\ wd_entry_map_[name_entry_map_[d].wd] = d
        /\ DOMAIN watches \subseteq DOMAIN wd_entry_map_
        /\ monitorUsed.gone = 0 => DOMAIN watches = DOMAIN wd_entry_map_
    BY DEF WatchesFit, WatchesOwned
  <2>10. WatchesFit'
    <3>1. DOMAIN wd_entry_map_' = {name_entry_map_'[d].wd : d \in D \cup {dir}}
      <4> SUFFICES ASSUME NEW y
                   PROVE  y \in DOMAIN wd_entry_map_' <=> \E d \in D \cup {dir} : y = name_entry_map_'[d].wd
        OBVIOUS
      <4>1. y \in DOMAIN wd_entry_map_ <=> \E d \in D : y = name_entry_map_[d].wd  BY <2>9
      <4> QED  BY <2>2, <2>5, <2>6, <4>1
    <3>2. ASSUME NEW d \in D \cup {dir}
          PROVE  /\ name_entry_map_'[d].entries # {} /\ wd_entry_map_'[name_entry_map_'[d].wd] = d
                 /\ name_entry_map_'[d].wd <= wd
      <4>1. CASE d = dir  BY <2>1, <2>2, <2>5, <2>6, <4>1
      <4>2. CASE d \in D
        <5>1. name_entry_map_'[d] = name_entry_map_[d]  BY <2>5, <4>2
        <5>2. name_entry_map_[d].wd \in DOMAIN wd_entry_map_' /\ name_entry_map_[d].wd # wd
          BY <2>6, <2>8, <2>9, <4>2
        <5>3. wd_entry_map_'[name_entry_map_[d].wd] = wd_entry_map_[name_entry_map_[d].wd]  BY <2>6, <5>2
        <5> QED  BY <2>8, <2>9, <4>2, <5>1, <5>3
      <4> QED  BY <4>1, <4>2
    <3>3. /\ DOMAIN watches' \subseteq DOMAIN wd_entry_map_'
          /\ monitorUsed'.gone = 0 => DOMAIN watches' = DOMAIN wd_entry_map_'
      BY <2>4, <2>6, <2>9
    <3> QED  BY <2>4, <2>5, <3>1, <3>2, <3>3 DEF WatchesFit, WatchesOwned
  <2>11. \A d \in DOMAIN name_entry_map_' : \A x \in name_entry_map_'[d].entries :
           (x = c /\ d = dir) \/ (d \in D /\ x \in name_entry_map_[d].entries)
    BY <2>2, <2>5
  <2>12. ASSUME NEW x
         PROVE  (\E d \in DOMAIN name_entry_map_' : x \in name_entry_map_'[d].entries) <=> Entered(x) \/ x = c
    BY <2>2, <2>5 DEF Entered
  <2> QED  BY <2>3, <2>7, <2>10, <2>11, <2>12
<1> QED  BY <1>2, <1>3 DEF ObserveTables

\* ProcessObserve: the cookie of the first command goes into an entry, or
\* inotify has refused it.
LEMMA ObserveKeepsFm == FmInv /\ ProcessObserve => FmInv'
<1> SUFFICES ASSUME FmInv, ProcessObserve PROVE FmInv'  OBVIOUS
<1> DEFINE c == Head(worker.cmds).cookie
           dir == FileDir[cookies[c]]
<1>1. /\ FmTypeOK /\ WorkerFits /\ WatchesFit /\ worker.pc = "process" /\ CommandDone
      /\ Head(worker.cmds).type = "Observe"
  BY DEF FmInv, ProcessObserve
<1>2. UNCHANGED <<status_, worker_stop_, cmds_, cookies, cookie_bookmark_, fileUser>>
  BY DEF ProcessObserve, lifeVars, cookieVars
<1>3. \/ ObserveTables(c, dir) /\ monitorGhost' = Use(c)
      \/ /\ monitorGhost' = [Use(c) EXCEPT !.unwatched = @ \cup {c}]
         /\ UNCHANGED <<name_entry_map_, wd_entry_map_, watches, monitorUsed>>
  BY DEF ProcessObserve, ObserveTables, tableVars
<1>4. /\ worker' \in [pc : FmPlaces, cmds : Seq(FmCommands)] /\ WorkerFits'
      /\ 1 \in DOMAIN Line /\ Line[1] = Head(worker.cmds) /\ Line[1] \in FmCommands
      /\ \A i \in DOMAIN Line' : i \in Nat /\ i + 1 \in DOMAIN Line /\ 1 < i + 1 /\ Line'[i] = Line[i + 1]
      /\ \A j \in DOMAIN Line : j = 1 \/ \E i \in DOMAIN Line' : Line'[i] = Line[j]
  BY <1>1, <1>2, CommandStep
<1>5. c \in Nat /\ Line[1].cookie = c /\ Line[1].type = "Observe"  BY <1>1, <1>4 DEF FmCommands
<1> HIDE DEF c, dir
<1>6. /\ Use(c) \in [misuse : BOOLEAN, overlapped : BOOLEAN, unwatched : SUBSET Nat]
      /\ Use(c).overlapped = monitorGhost.overlapped /\ Use(c).unwatched = monitorGhost.unwatched
      /\ c \in cookie_bookmark_ => Use(c).misuse = monitorGhost.misuse
  BY <1>1, <1>5, UseOfCookie
<1>7. /\ monitorGhost' \in [misuse : BOOLEAN, overlapped : BOOLEAN, unwatched : SUBSET Nat]
      /\ monitorGhost'.overlapped = monitorGhost.overlapped
      /\ c \in cookie_bookmark_ => monitorGhost'.misuse = monitorGhost.misuse
      /\ name_entry_map_' \in [DOMAIN name_entry_map_' -> [wd : Nat, entries : SUBSET Nat]]
      /\ monitorUsed' \in [starts : Nat, gone : Nat, wds : Nat]
      /\ WatchesFit'
      /\ \A d \in DOMAIN name_entry_map_' : \A x \in name_entry_map_'[d].entries :
           (x = c /\ d = dir) \/ (d \in DOMAIN name_entry_map_ /\ x \in name_entry_map_[d].entries)
      /\ \/ /\ monitorGhost'.unwatched = monitorGhost.unwatched
            /\ \A x : (\E d \in DOMAIN name_entry_map_' : x \in name_entry_map_'[d].entries) <=> Entered(x) \/ x = c
         \/ /\ monitorGhost'.unwatched = monitorGhost.unwatched \cup {c}
            /\ \A x : (\E d \in DOMAIN name_entry_map_' : x \in name_entry_map_'[d].entries) <=> Entered(x)
  <2>1. CASE ObserveTables(c, dir) /\ monitorGhost' = Use(c)
    BY <1>1, <1>5, <1>6, <2>1, ObserveTablesStep
  <2>2. CASE /\ monitorGhost' = [Use(c) EXCEPT !.unwatched = @ \cup {c}]
             /\ UNCHANGED <<name_entry_map_, wd_entry_map_, watches, monitorUsed>>
    <3> DEFINE g == Use(c)
    <3>1. /\ g \in [misuse : BOOLEAN, overlapped : BOOLEAN, unwatched : SUBSET Nat]
          /\ monitorGhost' = [g EXCEPT !.unwatched = g.unwatched \cup {c}]
      BY <1>6, <2>2
    <3>2. g.overlapped = monitorGhost.overlapped /\ g.unwatched = monitorGhost.unwatched
          /\ (c \in cookie_bookmark_ => g.misuse = monitorGhost.misuse)
      BY <1>6
    <3> HIDE DEF g
    <3>3. monitorGhost' \in [misuse : BOOLEAN, overlapped : BOOLEAN, unwatched : SUBSET Nat]  BY <1>5, <3>1
    <3>4. monitorGhost'.overlapped = g.overlapped /\ monitorGhost'.misuse = g.misuse  BY <3>1
    <3>5. monitorGhost'.unwatched = g.unwatched \cup {c}  BY <3>1
    <3>6. WatchesFit'  BY <1>1, <2>2 DEF WatchesFit, WatchesOwned
    <3>7. /\ name_entry_map_' = name_entry_map_ /\ monitorUsed' = monitorUsed
          /\ name_entry_map_ \in [DOMAIN name_entry_map_ -> [wd : Nat, entries : SUBSET Nat]]
          /\ monitorUsed \in [starts : Nat, gone : Nat, wds : Nat]
      BY <1>1, <2>2 DEF FmTypeOK
    <3> QED  BY <3>2, <3>3, <3>4, <3>5, <3>6, <3>7 DEF Entered
  <2> QED  BY <1>3, <2>1, <2>2
<1>8. FmTypeOK'  BY <1>1, <1>2, <1>4, <1>7 DEF FmTypeOK
<1>9. (~monitorGhost.overlapped => ~monitorGhost.misuse /\ LineFits /\ UsersFit /\ TablesFit)'
  <2> SUFFICES ASSUME ~monitorGhost.overlapped PROVE ~monitorGhost'.misuse /\ (LineFits /\ UsersFit /\ TablesFit)'
    BY <1>7
  <2>1. ~monitorGhost.misuse /\ LineFits /\ UsersFit /\ TablesFit  BY DEF FmInv
  <2>2. c \in cookie_bookmark_ /\ c \in 1..Len(cookies)  BY <1>1, <1>4, <1>5, <2>1 DEF LineFits, FmTypeOK
  <2>3. ~monitorGhost'.misuse  BY <1>7, <2>1, <2>2
  <2>4. LineFits'
    <3>1. \A i \in DOMAIN Line' : Line'[i].cookie \in cookie_bookmark_  BY <1>4, <2>1 DEF LineFits
    <3>2. ASSUME NEW i \in DOMAIN Line', NEW j \in DOMAIN Line', i < j, Line'[i].cookie = Line'[j].cookie
          PROVE  Line'[i].type = "Observe" /\ Line'[j].type = "Forget"
      <4>1. /\ i + 1 \in DOMAIN Line /\ j + 1 \in DOMAIN Line /\ i + 1 < j + 1
            /\ Line'[i] = Line[i + 1] /\ Line'[j] = Line[j + 1]
        BY <1>4, <3>2
      <4> QED  BY <2>1, <3>2, <4>1 DEF LineFits
    <3> QED  BY <1>2, <3>1, <3>2 DEF LineFits
  <2>5. UsersFit'
    <3>1. ASSUME NEW u \in FileUsers PROVE UserFits(u)'
      <4>1. UserFits(u)  BY <2>1 DEF UsersFit
      <4>2. \A i \in DOMAIN Line' : \E j \in DOMAIN Line : Line'[i] = Line[j]  BY <1>4
      <4> QED  BY <1>2, <4>1, <4>2 DEF UserFits, Queues
    <3>2. ASSUME NEW u \in FileUsers, NEW v \in FileUsers PROVE Apart(u, v)'
      <4>1. Apart(u, v)  BY <2>1 DEF UsersFit
      <4> QED  BY <1>2, <4>1 DEF Apart, Queues
    <3> QED  BY <1>2, <2>1, <3>1, <3>2 DEF UsersFit
  <2>6. Observing' = Observing  BY <1>2 DEF Observing
  <2>7. c \notin Observing
    <3> SUFFICES ASSUME NEW v \in FileUsers, fileUser[v].pc = "queue observe", fileUser[v].cookie = c PROVE FALSE
      BY DEF Observing
    <3>1. UserFits(v) /\ Queues(v)  BY <2>1 DEF UsersFit, Queues
    <3> QED  BY <1>4, <1>5, <3>1 DEF UserFits
  <2>8. \A y : /\ y \in ObserveQueued' <=> y \in ObserveQueued /\ y # c
               /\ c \in ObserveQueued
    <3> SUFFICES ASSUME NEW y PROVE (y \in ObserveQueued' <=> y \in ObserveQueued /\ y # c) /\ c \in ObserveQueued
      OBVIOUS
    <3>1. y \in ObserveQueued' <=> \E i \in DOMAIN Line' : Line'[i].type = "Observe" /\ y = Line'[i].cookie
      BY DEF ObserveQueued
    <3>2. y \in ObserveQueued <=> \E i \in DOMAIN Line : Line[i].type = "Observe" /\ y = Line[i].cookie
      BY DEF ObserveQueued
    <3>3. c \in ObserveQueued  BY <1>4, <1>5 DEF ObserveQueued
    <3>4. ASSUME NEW i \in DOMAIN Line', Line'[i].type = "Observe" PROVE Line'[i].cookie # c
      <4>1. i + 1 \in DOMAIN Line /\ 1 < i + 1 /\ Line'[i] = Line[i + 1]  BY <1>4
      <4> QED  BY <1>4, <1>5, <2>1, <3>4, <4>1 DEF LineFits
    <3>5. \A i \in DOMAIN Line' : \E j \in DOMAIN Line : Line'[i] = Line[j]  BY <1>4
    <3>6. \A j \in DOMAIN Line : Line[j].cookie # c => \E i \in DOMAIN Line' : Line'[i] = Line[j]  BY <1>4, <1>5
    <3> QED  BY <3>1, <3>2, <3>3, <3>4, <3>5, <3>6
  <2>9. TablesFit'
    <3>1. \A d \in DOMAIN name_entry_map_' : \A x \in name_entry_map_'[d].entries :
            x \in 1..Len(cookies) /\ FileDir[cookies[x]] = d
      BY <1>7, <2>1, <2>2 DEF TablesFit, dir
    <3>2. c \notin monitorGhost.unwatched  BY <2>1, <2>8 DEF TablesFit
    <3>3. monitorGhost'.unwatched \subseteq 1..Len(cookies)  BY <1>7, <2>1, <2>2 DEF TablesFit
    <3>4. ASSUME NEW x \in 1..Len(cookies)
          PROVE  (\E d \in DOMAIN name_entry_map_' : x \in name_entry_map_'[d].entries) <=>
                   /\ x \in cookie_bookmark_ /\ x \notin monitorGhost'.unwatched
                   /\ x \notin Observing /\ x \notin ObserveQueued'
      <4>1. Entered(x) <=> /\ x \in cookie_bookmark_ /\ x \notin monitorGhost.unwatched
                           /\ x \notin Observing /\ x \notin ObserveQueued
        BY <2>1 DEF TablesFit, Entered
      <4>2. CASE x = c
        <5>1. ~Entered(x)  BY <2>8, <4>1, <4>2
        <5> QED  BY <1>7, <2>2, <2>7, <2>8, <3>2, <4>2, <5>1
      <4>3. CASE x # c
        <5>1. x \in monitorGhost'.unwatched <=> x \in monitorGhost.unwatched  BY <1>7, <4>3
        <5>2. (\E d \in DOMAIN name_entry_map_' : x \in name_entry_map_'[d].entries) <=> Entered(x)  BY <1>7, <4>3
        <5>3. x \in ObserveQueued' <=> x \in ObserveQueued  BY <2>8, <4>3
        <5> QED  BY <4>1, <5>1, <5>2, <5>3
      <4> QED  BY <4>2, <4>3
    <3>5. (Observing' \cup ObserveQueued') \cap monitorGhost'.unwatched = {}
      <4> SUFFICES ASSUME NEW x \in monitorGhost'.unwatched PROVE x \notin Observing /\ x \notin ObserveQueued'
        BY <2>6
      <4>1. CASE x = c  BY <2>7, <2>8, <4>1
      <4>2. CASE x # c
        <5>1. x \in monitorGhost.unwatched  BY <1>7, <4>2
        <5> QED  BY <2>1, <2>8, <5>1 DEF TablesFit
      <4> QED  BY <4>1, <4>2
    <3> QED  BY <1>2, <2>6, <3>1, <3>3, <3>4, <3>5 DEF TablesFit
  <2> QED  BY <2>3, <2>4, <2>5, <2>9
<1> QED  BY <1>4, <1>7, <1>8, <1>9 DEF FmInv

\* What ProcessForget does to the tables.
ForgetTables(c, dir) ==
  IF dir \in DOMAIN name_entry_map_
  THEN IF name_entry_map_[dir].entries \ {c} = {}
       THEN /\ name_entry_map_' = Without(name_entry_map_, dir)
            /\ wd_entry_map_' = Without(wd_entry_map_, name_entry_map_[dir].wd)
            /\ watches' = Without(watches, name_entry_map_[dir].wd)
       ELSE /\ name_entry_map_' = [name_entry_map_ EXCEPT ![dir].entries = name_entry_map_[dir].entries \ {c}]
            /\ UNCHANGED <<wd_entry_map_, watches>>
  ELSE UNCHANGED <<name_entry_map_, wd_entry_map_, watches>>

\* The entry of dir loses c, and an entry without a file goes with its watch.
LEMMA ForgetTablesStep ==
  ASSUME FmTypeOK, WatchesFit, NEW c, NEW dir, ForgetTables(c, dir), monitorUsed' = monitorUsed
  PROVE  /\ name_entry_map_' \in [DOMAIN name_entry_map_' -> [wd : Nat, entries : SUBSET Nat]]
         /\ WatchesFit'
         /\ \A d \in DOMAIN name_entry_map_' :
              /\ d \in DOMAIN name_entry_map_ /\ name_entry_map_'[d].entries \subseteq name_entry_map_[d].entries
              /\ d = dir => c \notin name_entry_map_'[d].entries
         /\ \A d \in DOMAIN name_entry_map_ : \A x \in name_entry_map_[d].entries :
              x # c => d \in DOMAIN name_entry_map_' /\ x \in name_entry_map_'[d].entries
<1> DEFINE D == DOMAIN name_entry_map_
           w == name_entry_map_[dir].wd
<1>1. name_entry_map_ \in [D -> [wd : Nat, entries : SUBSET Nat]]  BY DEF FmTypeOK
<1>2. /\ DOMAIN wd_entry_map_ = {name_entry_map_[d].wd : d \in D}
      /\ \A d \in D : name_entry_map_[d].entries # {} /\ wd_entry_map_[name_entry_map_[d].wd] = d
      /\ DOMAIN watches \subseteq DOMAIN wd_entry_map_
      /\ monitorUsed.gone = 0 => DOMAIN watches = DOMAIN wd_entry_map_
      /\ \A d \in D : name_entry_map_[d].wd <= monitorUsed.wds
  BY DEF WatchesFit, WatchesOwned
<1>3. CASE dir \notin D
  <2>1. UNCHANGED <<name_entry_map_, wd_entry_map_, watches>>  BY <1>3 DEF ForgetTables
  <2>2. WatchesFit'  BY <2>1 DEF WatchesFit, WatchesOwned
  <2> QED  BY <1>1, <1>3, <2>1, <2>2
<1>4. CASE dir \in D /\ name_entry_map_[dir].entries \ {c} = {}
  <2>1. /\ name_entry_map_' = [d \in D \ {dir} |-> name_entry_map_[d]]
        /\ wd_entry_map_' = [y \in DOMAIN wd_entry_map_ \ {w} |-> wd_entry_map_[y]]
        /\ watches' = [y \in DOMAIN watches \ {w} |-> watches[y]]
    BY <1>4 DEF ForgetTables, Without
  <2> HIDE DEF w
  <2>2. /\ name_entry_map_' \in [D \ {dir} -> [wd : Nat, entries : SUBSET Nat]]
        /\ DOMAIN name_entry_map_' = D \ {dir} /\ \A d \in D \ {dir} : name_entry_map_'[d] = name_entry_map_[d]
    BY <1>1, <2>1
  <2>3. /\ DOMAIN wd_entry_map_' = DOMAIN wd_entry_map_ \ {w} /\ DOMAIN watches' = DOMAIN watches \ {w}
        /\ \A y \in DOMAIN wd_entry_map_ \ {w} : wd_entry_map_'[y] = wd_entry_map_[y]
    BY <2>1
  <2>4. \A d \in D \ {dir} : name_entry_map_[d].wd \in DOMAIN wd_entry_map_ \ {w}
    BY <1>2, <1>4 DEF w
  <2>5. DOMAIN wd_entry_map_' = {name_entry_map_'[d].wd : d \in D \ {dir}}
    <3> SUFFICES ASSUME NEW y
                 PROVE  y \in DOMAIN wd_entry_map_' <=> \E d \in D \ {dir} : y = name_entry_map_'[d].wd
      OBVIOUS
    <3>1. y \in DOMAIN wd_entry_map_ <=> \E d \in D : y = name_entry_map_[d].wd  BY <1>2
    <3> QED  BY <2>2, <2>3, <2>4, <3>1 DEF w
  <2>6. WatchesFit'
    <3>1. ASSUME NEW d \in D \ {dir}
          PROVE  /\ name_entry_map_'[d].entries # {} /\ wd_entry_map_'[name_entry_map_'[d].wd] = d
                 /\ name_entry_map_'[d].wd <= monitorUsed.wds
      <4>1. name_entry_map_'[d] = name_entry_map_[d]  BY <2>2
      <4>2. wd_entry_map_'[name_entry_map_[d].wd] = wd_entry_map_[name_entry_map_[d].wd]  BY <2>3, <2>4
      <4> QED  BY <1>2, <4>1, <4>2
    <3>2. /\ DOMAIN watches' \subseteq DOMAIN wd_entry_map_'
          /\ monitorUsed.gone = 0 => DOMAIN watches' = DOMAIN wd_entry_map_'
      BY <1>2, <2>3
    <3> QED  BY <2>2, <2>5, <3>1, <3>2 DEF WatchesFit, WatchesOwned
  <2>7. \A d \in D : \A x \in name_entry_map_[d].entries : x # c => d # dir  BY <1>4
  <2> QED  BY <2>2, <2>6, <2>7
<1>5. CASE dir \in D /\ name_entry_map_[dir].entries \ {c} # {}
  <2> DEFINE left == name_entry_map_[dir].entries \ {c}
  <2>1. left \in SUBSET Nat /\ left # {}  BY <1>1, <1>5
  <2>2. /\ name_entry_map_' = [name_entry_map_ EXCEPT ![dir].entries = left]
        /\ UNCHANGED <<wd_entry_map_, watches>>
    BY <1>5 DEF ForgetTables
  <2>3. c \notin left /\ left \subseteq name_entry_map_[dir].entries
        /\ \A x \in name_entry_map_[dir].entries : x # c => x \in left
    OBVIOUS
  <2> HIDE DEF left
  <2>4. /\ name_entry_map_' \in [D -> [wd : Nat, entries : SUBSET Nat]] /\ DOMAIN name_entry_map_' = D
    BY <1>1, <1>5, <2>1, <2>2
  <2>5. \A d \in D : /\ name_entry_map_'[d].wd = name_entry_map_[d].wd
                     /\ d # dir => name_entry_map_'[d].entries = name_entry_map_[d].entries
    BY <1>1, <1>5, <2>2
  <2>6. name_entry_map_'[dir].entries = left  BY <1>1, <1>5, <2>2
  <2>7. WatchesFit'
    <3>1. {name_entry_map_'[d].wd : d \in D} = {name_entry_map_[d].wd : d \in D}  BY <2>5
    <3>2. \A d \in D : name_entry_map_'[d].entries # {}  BY <1>2, <2>1, <2>5, <2>6
    <3> QED  BY <1>2, <2>2, <2>4, <2>5, <3>1, <3>2 DEF WatchesFit, WatchesOwned
  <2>8. \A d \in D : /\ name_entry_map_'[d].entries \subseteq name_entry_map_[d].entries
                     /\ d = dir => c \notin name_entry_map_'[d].entries
    BY <2>3, <2>5, <2>6
  <2>9. \A d \in D : \A x \in name_entry_map_[d].entries : x # c => x \in name_entry_map_'[d].entries
    BY <2>3, <2>5, <2>6
  <2> QED  BY <2>4, <2>7, <2>8, <2>9
<1> QED  BY <1>3, <1>4, <1>5

\* ProcessForget: the cookie of the first command goes from the entries and
\* is freed, and no command and no thread speaks of it any more.
LEMMA ForgetKeepsFm == FmInv /\ ProcessForget => FmInv'
<1> SUFFICES ASSUME FmInv, ProcessForget PROVE FmInv'  OBVIOUS
<1> DEFINE c == Head(worker.cmds).cookie
           dir == FileDir[cookies[c]]
<1>1. /\ FmTypeOK /\ WorkerFits /\ WatchesFit /\ worker.pc = "process" /\ CommandDone
      /\ Head(worker.cmds).type = "Forget"
  BY DEF FmInv, ProcessForget
<1>2. /\ UNCHANGED <<status_, worker_stop_, cmds_, cookies, fileUser, monitorUsed>>
      /\ cookie_bookmark_' = cookie_bookmark_ \ {c} /\ monitorGhost' = Use(c)
  BY DEF ProcessForget, lifeVars
<1>3. ForgetTables(c, dir)
  BY DEF ProcessForget, ForgetTables, EntriesLeft, DroppedWatch, tableVars
<1>4. /\ worker' \in [pc : FmPlaces, cmds : Seq(FmCommands)] /\ WorkerFits'
      /\ 1 \in DOMAIN Line /\ Line[1] = Head(worker.cmds) /\ Line[1] \in FmCommands
      /\ \A i \in DOMAIN Line' : i \in Nat /\ i + 1 \in DOMAIN Line /\ 1 < i + 1 /\ Line'[i] = Line[i + 1]
      /\ \A j \in DOMAIN Line : j = 1 \/ \E i \in DOMAIN Line' : Line'[i] = Line[j]
  BY <1>1, <1>2, CommandStep
<1>5. c \in Nat /\ Line[1].cookie = c /\ Line[1].type = "Forget"  BY <1>1, <1>4 DEF FmCommands
<1> HIDE DEF c, dir
<1>6. /\ monitorGhost' \in [misuse : BOOLEAN, overlapped : BOOLEAN, unwatched : SUBSET Nat]
      /\ monitorGhost'.overlapped = monitorGhost.overlapped /\ monitorGhost'.unwatched = monitorGhost.unwatched
      /\ c \in cookie_bookmark_ => monitorGhost'.misuse = monitorGhost.misuse
  BY <1>1, <1>2, <1>5, UseOfCookie
<1>7. /\ name_entry_map_' \in [DOMAIN name_entry_map_' -> [wd : Nat, entries : SUBSET Nat]]
      /\ WatchesFit'
      /\ \A d \in DOMAIN name_entry_map_' :
           /\ d \in DOMAIN name_entry_map_ /\ name_entry_map_'[d].entries \subseteq name_entry_map_[d].entries
           /\ d = dir => c \notin name_entry_map_'[d].entries
      /\ \A d \in DOMAIN name_entry_map_ : \A x \in name_entry_map_[d].entries :
           x # c => d \in DOMAIN name_entry_map_' /\ x \in name_entry_map_'[d].entries
  BY <1>1, <1>2, <1>3, ForgetTablesStep
<1>8. FmTypeOK'
  <2>1. cookie_bookmark_' \subseteq 1..Len(cookies)  BY <1>1, <1>2 DEF FmTypeOK
  <2> QED  BY <1>1, <1>2, <1>4, <1>6, <1>7, <2>1 DEF FmTypeOK
<1>9. (~monitorGhost.overlapped => ~monitorGhost.misuse /\ LineFits /\ UsersFit /\ TablesFit)'
  <2> SUFFICES ASSUME ~monitorGhost.overlapped PROVE ~monitorGhost'.misuse /\ (LineFits /\ UsersFit /\ TablesFit)'
    BY <1>6
  <2>1. ~monitorGhost.misuse /\ LineFits /\ UsersFit /\ TablesFit  BY DEF FmInv
  <2>2. c \in cookie_bookmark_  BY <1>4, <1>5, <2>1 DEF LineFits
  <2>3. ~monitorGhost'.misuse  BY <1>6, <2>1, <2>2
  <2>4. \A i \in DOMAIN Line' : Line'[i].cookie # c
    <3> SUFFICES ASSUME NEW i \in DOMAIN Line', Line'[i].cookie = c PROVE FALSE  OBVIOUS
    <3>1. i + 1 \in DOMAIN Line /\ 1 < i + 1 /\ Line'[i] = Line[i + 1]  BY <1>4
    <3> QED  BY <1>4, <1>5, <2>1, <3>1 DEF LineFits
  <2>5. LineFits'
    <3>1. \A i \in DOMAIN Line' : Line'[i].cookie \in cookie_bookmark_'  BY <1>2, <1>4, <2>1, <2>4 DEF LineFits
    <3>2. ASSUME NEW i \in DOMAIN Line', NEW j \in DOMAIN Line', i < j, Line'[i].cookie = Line'[j].cookie
          PROVE  Line'[i].type = "Observe" /\ Line'[j].type = "Forget"
      <4>1. /\ i + 1 \in DOMAIN Line /\ j + 1 \in DOMAIN Line /\ i + 1 < j + 1
            /\ Line'[i] = Line[i + 1] /\ Line'[j] = Line[j + 1]
        BY <1>4, <3>2
      <4> QED  BY <2>1, <3>2, <4>1 DEF LineFits
    <3> QED  BY <3>1, <3>2 DEF LineFits
  <2>6. UsersFit'
    <3>1. ASSUME NEW u \in FileUsers PROVE UserFits(u)'
      <4>1. UserFits(u)  BY <2>1 DEF UsersFit
      <4>2. \A i \in DOMAIN Line' : \E j \in DOMAIN Line : Line'[i] = Line[j]  BY <1>4
      <4>3. c \notin fileUser[u].mine /\ (Queues(u) => fileUser[u].cookie # c)  BY <1>4, <1>5, <4>1 DEF UserFits
      <4> QED  BY <1>2, <4>1, <4>2, <4>3 DEF UserFits, Queues
    <3>2. ASSUME NEW u \in FileUsers, NEW v \in FileUsers PROVE Apart(u, v)'
      <4>1. Apart(u, v)  BY <2>1 DEF UsersFit
      <4> QED  BY <1>2, <4>1 DEF Apart, Queues
    <3> QED  BY <1>2, <2>1, <3>1, <3>2 DEF UsersFit
  <2>7. Observing' = Observing  BY <1>2 DEF Observing
  <2>8. \A y : y \in ObserveQueued' <=> y \in ObserveQueued
    <3> SUFFICES ASSUME NEW y PROVE y \in ObserveQueued' <=> y \in ObserveQueued  OBVIOUS
    <3>1. y \in ObserveQueued' <=> \E i \in DOMAIN Line' : Line'[i].type = "Observe" /\ y = Line'[i].cookie
      BY DEF ObserveQueued
    <3>2. y \in ObserveQueued <=> \E i \in DOMAIN Line : Line[i].type = "Observe" /\ y = Line[i].cookie
      BY DEF ObserveQueued
    <3>3. \A i \in DOMAIN Line' : \E j \in DOMAIN Line : Line'[i] = Line[j]  BY <1>4
    <3>4. \A j \in DOMAIN Line : Line[j].type = "Observe" => \E i \in DOMAIN Line' : Line'[i] = Line[j]  BY <1>4, <1>5
    <3> QED  BY <3>1, <3>2, <3>3, <3>4
  <2>9. TablesFit'
    <3>1. \A d \in DOMAIN name_entry_map_ : \A x \in name_entry_map_[d].entries :
            x \in 1..Len(cookies) /\ FileDir[cookies[x]] = d
      BY <2>1 DEF TablesFit
    <3>2. \A d \in DOMAIN name_entry_map_' : \A x \in name_entry_map_'[d].entries :
            x \in 1..Len(cookies) /\ FileDir[cookies[x]] = d /\ x # c
      BY <1>7, <3>1 DEF dir
    <3>3. monitorGhost'.unwatched \subseteq 1..Len(cookies)  BY <1>6, <2>1 DEF TablesFit
    <3>4. ASSUME NEW x \in 1..Len(cookies)
          PROVE  (\E d \in DOMAIN name_entry_map_' : x \in name_entry_map_'[d].entries) <=>
                   /\ x \in cookie_bookmark_' /\ x \notin monitorGhost'.unwatched
                   /\ x \notin Observing /\ x \notin ObserveQueued'
      <4>1. Entered(x) <=> /\ x \in cookie_bookmark_ /\ x \notin monitorGhost.unwatched
                           /\ x \notin Observing /\ x \notin ObserveQueued
        BY <2>1 DEF TablesFit, Entered
      <4>2. CASE x = c  BY <1>2, <3>2, <4>2
      <4>3. CASE x # c
        <5>1. (\E d \in DOMAIN name_entry_map_' : x \in name_entry_map_'[d].entries) <=> Entered(x)
          BY <1>7, <4>3 DEF Entered
        <5> QED  BY <1>2, <1>6, <2>8, <4>1, <4>3, <5>1
      <4> QED  BY <4>2, <4>3
    <3>5. (Observing' \cup ObserveQueued') \cap monitorGhost'.unwatched = {}
      BY <1>6, <2>1, <2>7, <2>8 DEF TablesFit
    <3> QED  BY <1>2, <2>7, <3>2, <3>3, <3>4, <3>5 DEF TablesFit
  <2> QED  BY <2>3, <2>5, <2>6, <2>9
<1> QED  BY <1>4, <1>7, <1>8, <1>9 DEF FmInv

LEMMA FmInvNext == FmInv /\ [MonitorNext]_monitorVars => FmInv'
<1> SUFFICES ASSUME FmInv, [MonitorNext]_monitorVars PROVE FmInv'  OBVIOUS
<1>1. CASE UNCHANGED monitorVars
  <2>1. UNCHANGED <<status_, worker_stop_, worker, cmds_, cookies, cookie_bookmark_, name_entry_map_,
                    wd_entry_map_, watches, inotify, fileUser, monitorGhost, monitorUsed>>
    BY <1>1 DEF monitorVars, lifeVars, cookieVars, tableVars
  <2>2. FmTypeOK' /\ WorkerFits' /\ WatchesFit' /\ Line' = Line
    BY <2>1 DEF FmInv, FmTypeOK, WorkerFits, WatchesFit, WatchesOwned, Line
  <2>3. ~monitorGhost'.overlapped => ~monitorGhost'.misuse  BY <2>1 DEF FmInv
  <2>4. ~monitorGhost'.overlapped /\ status_' = "stop" => \A u \in FileUsers : fileUser'[u].pc = "idle"
    BY <2>1 DEF FmInv, UsersFit
  <2> QED  BY <2>1, <2>2, <2>3, <2>4, QuietStep
<1>2. CASE Start  BY <1>2, StartKeepsFm
<1>3. CASE Stop  BY <1>3, StopKeepsFm
<1>4. CASE StopJoined  BY <1>4, StopJoinedKeepsFm
<1>5. ASSUME NEW u \in FileUsers, ObserveCheck(u) \/ ObserveFails(u) PROVE FmInv'  BY <1>5, CallStepsKeepFm
<1>6. ASSUME NEW u \in FileUsers, Enqueue(u) PROVE FmInv'  BY <1>6, EnqueueKeepsFm
<1>7. ASSUME NEW u \in FileUsers, NEW f \in MonitoredFiles, ObserveAcquire(u, f) PROVE FmInv'
  BY <1>7, AcquireKeepsFm
<1>8. ASSUME NEW u \in FileUsers, NEW c \in fileUser[u].mine, ForgetCheck(u, c) PROVE FmInv'
  BY <1>8, ForgetCheckKeepsFm
<1>9. CASE WorkLoop \/ TakeCommands  BY <1>9, WorkerStepsKeepFm
<1>10. CASE ProcessObserve  BY <1>10, ObserveKeepsFm
<1>11. CASE ProcessForget  BY <1>11, ForgetKeepsFm
<1>12. CASE ProcessInotify  BY <1>12, InotifyKeepsFm
<1>13. CASE (\E f \in MonitoredFiles : FileChanges(f)) \/ (\E wd \in DOMAIN watches : DirectoryGone(wd))
  BY <1>13, KernelKeepsFm
<1> QED
  BY <1>1, <1>2, <1>3, <1>4, <1>5, <1>6, <1>7, <1>8, <1>9, <1>10, <1>11, <1>12, <1>13 DEF MonitorNext

\* What is said of the tables and the cookies follows from the invariant.
LEMMA FmInvSays == FmInv => MonitorOK
<1> SUFFICES ASSUME FmInv PROVE MonitorOK  OBVIOUS
<1>1. CookiesAlive  BY DEF FmInv, CookiesAlive
<1>2. WatchesOwned  BY DEF FmInv, WatchesFit
<1>3. ASSUME ~monitorGhost.overlapped
      PROVE  UNION {name_entry_map_[d].entries : d \in DOMAIN name_entry_map_}
               = cookie_bookmark_ \ (Coming \cup monitorGhost.unwatched)
  <2>1. FmTypeOK /\ TablesFit  BY <1>3 DEF FmInv
  <2>2. worker.cmds \in Seq(FmCommands) /\ cmds_ \in Seq(FmCommands)  BY <2>1 DEF FmTypeOK
  <2>3. \A x : (\E i \in DOMAIN Line : Line[i] = x) <=>
                 (\E i \in DOMAIN worker.cmds : worker.cmds[i] = x) \/ (\E i \in DOMAIN cmds_ : cmds_[i] = x)
    BY <2>2, LineIs DEF Line
  <2>4. ASSUME NEW c PROVE c \in Coming <=> c \in Observing \/ c \in ObserveQueued
    <3> DEFINE queued == {cmds_[i] : i \in DOMAIN cmds_} \cup {worker.cmds[i] : i \in DOMAIN worker.cmds}
    <3>1. c \in ObserveQueued <=> \E i \in DOMAIN Line : Line[i].type = "Observe" /\ c = Line[i].cookie
      BY DEF ObserveQueued
    <3>2. \A q : q \in queued <=> \E i \in DOMAIN Line : Line[i] = q  BY <2>3
    <3>3. c \in Coming <=> c \in Observing \/ \E q \in queued : q.type = "Observe" /\ c = q.cookie
      BY DEF Coming, Observing
    <3> HIDE DEF queued
    <3> QED  BY <3>1, <3>2, <3>3
  <2>5. ASSUME NEW c
        PROVE  (\E d \in DOMAIN name_entry_map_ : c \in name_entry_map_[d].entries) <=>
                 c \in cookie_bookmark_ /\ c \notin Coming /\ c \notin monitorGhost.unwatched
    <3>1. (\E d \in DOMAIN name_entry_map_ : c \in name_entry_map_[d].entries) => c \in 1..Len(cookies)
      BY <2>1 DEF TablesFit
    <3>2. c \in cookie_bookmark_ => c \in 1..Len(cookies)  BY <2>1 DEF FmTypeOK
    <3> QED  BY <2>1, <2>4, <3>1, <3>2 DEF TablesFit
  <2> QED  BY <2>5
<1> QED  BY <1>1, <1>2, <1>3 DEF MonitorOK, EntriesMeanObserved

\* Observe, Forget, Stop, the worker, inotify: for every number of threads,
\* files and directories and every change the kernel reports, the two maps
\* and the watches have the same entries; and unless a call ran across a
\* Stop, the worker uses no freed cookie and the entries are the files that
\* are observed.
THEOREM MonitorCorrect == MonitorSpec => []MonitorOK
<1>1. MonitorSpec => []FmInv  BY FmInvInit, FmInvNext, PTL DEF MonitorSpec
<1> QED  BY <1>1, FmInvSays, PTL

-----------------------------------------------------------------------------
\* The pool of execution graphs.
GraphTypeOK ==
  /\ mode_ \in {"singleton", "pool"} /\ use_tls_ \in BOOLEAN
  /\ version_ \in 1..(MaxReloads + 1) /\ exe_graphs_ \in Seq(Graph)
  /\ tls_exe_graphs_ \in [GraphThreads -> Seq(Graph)]
  /\ inUse \in [GraphUsers -> Graph \cup {NoGraph}]
  /\ releasing \in [GraphThreads -> Graph \cup {NoGraph}]
  /\ served \in [Graph -> Nat]
  /\ \A t \in GraphThreads : Len(tls_exe_graphs_[t]) <= tls_size_

\* The four places of a graph.
Has(s, g) == \E i \in DOMAIN s : s[i] = g
Distinct(s) == \A i, j \in DOMAIN s : s[i] = s[j] => i = j
Queued(g) == Has(exe_graphs_, g)
Kept(g) == \E t \in GraphThreads : Has(tls_exe_graphs_[t], g)
Used(g) == \E u \in GraphUsers : inUse[u] = g
Leaving(g) == \E t \in GraphThreads : releasing[t] = g

\* No place has a graph twice.
QueuesOnce ==
  /\ Distinct(exe_graphs_)
  /\ \A t \in GraphThreads : Distinct(tls_exe_graphs_[t])
  /\ \A g \in Graph : \A t, w \in GraphThreads :
       Has(tls_exe_graphs_[t], g) /\ Has(tls_exe_graphs_[w], g) => t = w
HoldersOnce ==
  /\ \A u, v \in GraphUsers : inUse[u] # NoGraph /\ inUse[u] = inUse[v] => u = v
  /\ \A t, w \in GraphThreads : releasing[t] # NoGraph /\ releasing[t] = releasing[w] => t = w

\* A graph is of a version there has been, in one place, in none only when
\* it is old; and once it was handed out late it is not handed out again.
GraphFits(g) ==
  /\ Queued(g) \/ Kept(g) \/ Used(g) \/ Leaving(g) => g[1] <= version_
  /\ ~(Queued(g) /\ Kept(g)) /\ ~(Queued(g) /\ Used(g)) /\ ~(Queued(g) /\ Leaving(g))
  /\ ~(Kept(g) /\ Used(g)) /\ ~(Kept(g) /\ Leaving(g)) /\ ~(Used(g) /\ Leaving(g))
  /\ g[1] = version_ => Queued(g) \/ Kept(g) \/ Used(g) \/ Leaving(g)
  /\ served[g] <= 1
  /\ served[g] = 1 => g[1] < version_ /\ ~Queued(g) /\ ~Kept(g) /\ ~Leaving(g)

GraphInv ==
  /\ GraphTypeOK
  /\ mode_ = "singleton" => /\ version_ = 1 /\ \A g \in Graph : served[g] = 0
                            /\ \A i \in DOMAIN exe_graphs_ : exe_graphs_[i][1] = 1
                            /\ \A t \in GraphThreads : releasing[t] = NoGraph
  /\ mode_ = "pool" => QueuesOnce /\ HoldersOnce /\ \A g \in Graph : GraphFits(g)

LEMMA QuotientIs ==
  ASSUME NEW a \in Nat, NEW b \in Nat \ {0}
  PROVE  a \div b \in Nat /\ a \div b <= a
  OBVIOUS

\* worker_num divides the pool among the workers.
LEMMA TlsSizeIs ==
  ASSUME mode_ \in {"singleton", "pool"}
  PROVE  /\ pool_size_ \in 1..GraphPoolSize /\ (mode_ = "pool" => pool_size_ = GraphPoolSize)
         /\ tls_size_ \in Nat /\ tls_size_ <= GraphPoolSize
<1>1. GraphPoolSize \in Nat /\ GraphPoolSize >= 1  BY GraphAssumption
<1>2. pool_size_ \in 1..GraphPoolSize /\ (mode_ = "pool" => pool_size_ = GraphPoolSize)
  BY <1>1 DEF pool_size_
<1>3. Cardinality(GraphWorkers) \in Nat \ {0}
  BY GraphAssumption, FS_CardinalityType, FS_EmptySet
<1>4. tls_size_ \in Nat /\ tls_size_ <= pool_size_  BY <1>1, <1>2, <1>3, QuotientIs DEF tls_size_
<1> QED  BY <1>1, <1>2, <1>4

LEMMA GraphIs ==
  /\ \A g \in Graph : g[1] \in 1..(MaxReloads + 1) /\ g[2] \in 1..GraphPoolSize /\ g = <<g[1], g[2]>>
  /\ \A v \in 1..(MaxReloads + 1), i \in 1..GraphPoolSize : <<v, i>> \in Graph
  /\ NoGraph \notin Graph
  BY GraphAssumption DEF Graph, NoGraph

\* The first of a queue is taken.
LEMMA TakenFrom ==
  ASSUME NEW S, NEW s \in Seq(S), s # <<>>, Distinct(s)
  PROVE  /\ Head(s) \in S /\ Has(s, Head(s)) /\ Tail(s) \in Seq(S) /\ Len(Tail(s)) <= Len(s)
         /\ Distinct(Tail(s)) /\ \A x : Has(Tail(s), x) <=> Has(s, x) /\ x # Head(s)
<1> DEFINE r == Tail(s)
<1>1. Len(s) \in Nat /\ Len(s) # 0 /\ DOMAIN s = 1..Len(s) /\ Head(s) = s[1]  OBVIOUS
<1>2. r \in Seq(S) /\ Len(r) = Len(s) - 1 /\ (\A i \in 1..Len(r) : r[i] = s[i + 1])  BY HeadTailProperties
<1> HIDE DEF r
<1>3. DOMAIN r = 1..(Len(s) - 1)  BY <1>2
<1>4. Head(s) \in S /\ 1 \in DOMAIN s  BY <1>1
<1>5. \A i \in DOMAIN r : i + 1 \in DOMAIN s /\ i + 1 # 1 /\ r[i] = s[i + 1]  BY <1>1, <1>2, <1>3
<1>6. \A j \in DOMAIN s : j # 1 => j - 1 \in DOMAIN r /\ r[j - 1] = s[j]  BY <1>1, <1>2, <1>3
<1>7. Has(s, Head(s))  BY <1>1, <1>4 DEF Has
<1>8. Distinct(r)
  <2> SUFFICES ASSUME NEW i \in DOMAIN r, NEW j \in DOMAIN r, r[i] = r[j] PROVE i = j  BY DEF Distinct
  <2>1. i + 1 = j + 1  BY <1>5 DEF Distinct
  <2> QED  BY <1>1, <1>3, <2>1
<1>9. ASSUME NEW x PROVE Has(r, x) <=> Has(s, x) /\ x # Head(s)
  <2>1. ASSUME NEW i \in DOMAIN r, r[i] = x PROVE Has(s, x) /\ x # Head(s)
    <3>1. i + 1 \in DOMAIN s /\ i + 1 # 1 /\ s[i + 1] = x  BY <1>5, <2>1
    <3> QED  BY <1>1, <1>4, <3>1 DEF Has, Distinct
  <2>2. ASSUME NEW j \in DOMAIN s, s[j] = x, x # Head(s) PROVE Has(r, x)
    <3>1. j # 1  BY <1>1, <2>2
    <3> QED  BY <1>6, <2>2, <3>1 DEF Has
  <2> QED  BY <2>1, <2>2 DEF Has
<1> QED  BY <1>1, <1>2, <1>4, <1>7, <1>8, <1>9 DEF r

\* One is put behind a queue.
LEMMA PutBehind ==
  ASSUME NEW S, NEW s \in Seq(S), NEW g \in S, Distinct(s), ~Has(s, g)
  PROVE  /\ Append(s, g) \in Seq(S) /\ Len(Append(s, g)) = Len(s) + 1
         /\ Distinct(Append(s, g)) /\ \A x : Has(Append(s, g), x) <=> Has(s, x) \/ x = g
<1> DEFINE r == Append(s, g)
<1>1. Len(s) \in Nat /\ DOMAIN s = 1..Len(s)  OBVIOUS
<1>2. /\ r \in Seq(S) /\ Len(r) = Len(s) + 1 /\ (\A i \in 1..Len(s) : r[i] = s[i]) /\ r[Len(s) + 1] = g
  BY AppendProperties
<1> HIDE DEF r
<1>3. DOMAIN r = 1..(Len(s) + 1)  BY <1>2
<1>4. \A i \in DOMAIN r : i \in DOMAIN s \/ i = Len(s) + 1  BY <1>1, <1>3
<1>5. \A i \in DOMAIN s : i \in DOMAIN r /\ r[i] = s[i]  BY <1>1, <1>2, <1>3
<1>6. Len(s) + 1 \in DOMAIN r  BY <1>1, <1>3
<1>7. Distinct(r)
  <2> SUFFICES ASSUME NEW i \in DOMAIN r, NEW j \in DOMAIN r, r[i] = r[j] PROVE i = j  BY DEF Distinct
  <2>1. CASE i \in DOMAIN s /\ j \in DOMAIN s  BY <1>5, <2>1 DEF Distinct
  <2>2. CASE i = Len(s) + 1 /\ j = Len(s) + 1  BY <2>2
  <2>3. CASE i \in DOMAIN s /\ j = Len(s) + 1  BY <1>2, <1>5, <2>3 DEF Has
  <2>4. CASE i = Len(s) + 1 /\ j \in DOMAIN s  BY <1>2, <1>5, <2>4 DEF Has
  <2> QED  BY <1>4, <2>1, <2>2, <2>3, <2>4
<1>8. ASSUME NEW x PROVE Has(r, x) <=> Has(s, x) \/ x = g
  BY <1>2, <1>4, <1>5, <1>6 DEF Has
<1> QED  BY <1>2, <1>7, <1>8 DEF r

\* ReloadExeGraph: the new graphs are those of the new version.
LEMMA NewGraphsAre ==
  ASSUME NEW v \in 1..(MaxReloads + 1), NEW n \in 1..GraphPoolSize
  PROVE  /\ NewGraphs(v, n) \in Seq(Graph) /\ Distinct(NewGraphs(v, n))
         /\ \A g \in Graph : Has(NewGraphs(v, n), g) <=> g[1] = v /\ g[2] <= n
         /\ \A i \in DOMAIN NewGraphs(v, n) : NewGraphs(v, n)[i][1] = v
<1> DEFINE s == [i \in 1..n |-> <<v, i>>]
<1>1. n \in Nat /\ n >= 1 /\ n <= GraphPoolSize /\ GraphPoolSize \in Nat  BY GraphAssumption
<1>2. NewGraphs(v, n) = s  BY DEF NewGraphs
<1>3. \A i \in 1..n : <<v, i>> \in Graph  BY <1>1, GraphIs
<1>4. s \in Seq(Graph)
  <2>1. s \in [1..n -> Graph]  BY <1>3
  <2> QED  BY <1>1, <2>1
<1>5. Distinct(s)  BY DEF Distinct
<1>6. ASSUME NEW g \in Graph PROVE Has(s, g) <=> g[1] = v /\ g[2] <= n
  <2>1. g = <<g[1], g[2]>> /\ g[2] \in Nat /\ g[2] >= 1  BY <1>1, GraphIs
  <2>2. ASSUME NEW i \in 1..n, s[i] = g PROVE g[1] = v /\ g[2] <= n
    <3>1. <<v, i>> = g  BY <2>2
    <3> QED  BY <1>1, <3>1
  <2>3. ASSUME g[1] = v, g[2] <= n PROVE Has(s, g)
    <3>1. g[2] \in 1..n  BY <1>1, <2>1, <2>3
    <3>2. s[g[2]] = g  BY <2>1, <2>3, <3>1
    <3> QED  BY <3>1, <3>2 DEF Has
  <2> QED  BY <2>2, <2>3 DEF Has
<1>7. \A i \in DOMAIN s : s[i][1] = v  OBVIOUS
<1> HIDE DEF s
<1> QED  BY <1>2, <1>4, <1>5, <1>6, <1>7

LEMMA GraphInvInit == GraphInit => GraphInv
<1> SUFFICES ASSUME GraphInit PROVE GraphInv  OBVIOUS
<1>1. /\ mode_ \in {"singleton", "pool"} /\ use_tls_ \in BOOLEAN /\ version_ = 1
      /\ exe_graphs_ = NewGraphs(1, pool_size_)
      /\ tls_exe_graphs_ = [t \in GraphThreads |-> <<>>] /\ inUse = [u \in GraphUsers |-> NoGraph]
      /\ releasing = [t \in GraphThreads |-> NoGraph] /\ served = [g \in Graph |-> 0]
  BY DEF GraphInit
<1>2. 1 \in 1..(MaxReloads + 1)  BY GraphAssumption
<1>3. /\ pool_size_ \in 1..GraphPoolSize /\ (mode_ = "pool" => pool_size_ = GraphPoolSize)
      /\ tls_size_ \in Nat
  BY <1>1, TlsSizeIs
<1>4. /\ exe_graphs_ \in Seq(Graph) /\ Distinct(exe_graphs_)
      /\ \A g \in Graph : Has(exe_graphs_, g) <=> g[1] = 1 /\ g[2] <= pool_size_
      /\ \A i \in DOMAIN exe_graphs_ : exe_graphs_[i][1] = 1
  BY <1>1, <1>2, <1>3, NewGraphsAre
<1>5. \A t \in GraphThreads : tls_exe_graphs_[t] = <<>> /\ releasing[t] = NoGraph  BY <1>1
<1>6. \A g \in Graph : served[g] = 0  BY <1>1
<1>7. <<>> \in Seq(Graph) /\ Len(<<>>) = 0 /\ DOMAIN <<>> = {}  OBVIOUS
<1>8. GraphTypeOK  BY <1>1, <1>2, <1>3, <1>4, <1>5, <1>7 DEF GraphTypeOK
<1>9. \A x : ~Has(<<>>, x)  BY <1>7 DEF Has
<1>10. Distinct(<<>>)  BY <1>7 DEF Distinct
<1>11. ASSUME mode_ = "pool" PROVE QueuesOnce /\ HoldersOnce /\ \A g \in Graph : GraphFits(g)
  <2>1. QueuesOnce  BY <1>4, <1>5, <1>9, <1>10 DEF QueuesOnce
  <2>2. HoldersOnce  BY <1>1 DEF HoldersOnce
  <2>3. ASSUME NEW g \in Graph PROVE GraphFits(g)
    <3>1. ~Kept(g)  BY <1>5, <1>9 DEF Kept
    <3>2. ~Used(g) /\ ~Leaving(g)  BY <1>1, GraphIs DEF Used, Leaving
    <3>3. Queued(g) <=> g[1] = 1
      <4>1. g[2] <= pool_size_  BY <1>3, <1>11, GraphIs
      <4> QED  BY <1>4, <4>1 DEF Queued
    <3>4. served[g] = 0  BY <1>6
    <3> QED  BY <1>1, <3>1, <3>2, <3>3, <3>4 DEF GraphFits
  <2> QED  BY <2>1, <2>2, <2>3
<1> QED  BY <1>1, <1>4, <1>5, <1>6, <1>8, <1>11 DEF GraphInv

\* A graph that a step does not move.
LEMMA GraphStays ==
  ASSUME NEW g, GraphFits(g), version_' = version_, served'[g] = served[g],
         Queued(g)' <=> Queued(g), Kept(g)' <=> Kept(g), Used(g)' <=> Used(g), Leaving(g)' <=> Leaving(g)
  PROVE  GraphFits(g)'
  BY DEF GraphFits

LEMMA ReloadKeepsGraphs == GraphInv /\ ReloadGraph => GraphInv'
<1> SUFFICES ASSUME GraphInv, ReloadGraph PROVE GraphInv'  OBVIOUS
<1> DEFINE v == version_ + 1
<1>1. /\ mode_ = "pool" /\ version_ <= MaxReloads /\ version_' = v /\ exe_graphs_' = NewGraphs(v, pool_size_)
      /\ UNCHANGED <<mode_, use_tls_, tls_exe_graphs_, inUse, releasing, served>>
  BY DEF ReloadGraph
<1>2. GraphTypeOK /\ QueuesOnce /\ HoldersOnce /\ \A g \in Graph : GraphFits(g)  BY <1>1 DEF GraphInv
<1>3. v \in 1..(MaxReloads + 1) /\ version_ \in Nat /\ version_ < v  BY <1>1, <1>2, GraphAssumption DEF GraphTypeOK
<1> HIDE DEF v
<1>4. pool_size_ \in 1..GraphPoolSize /\ pool_size_ = GraphPoolSize  BY <1>1, TlsSizeIs
<1>5. /\ exe_graphs_' \in Seq(Graph) /\ Distinct(exe_graphs_)'
      /\ \A g \in Graph : Has(exe_graphs_', g) <=> g[1] = v /\ g[2] <= pool_size_
  BY <1>1, <1>3, <1>4, NewGraphsAre
<1>6. tls_size_' = tls_size_  BY <1>1 DEF tls_size_, pool_size_
<1>7. GraphTypeOK'  BY <1>1, <1>2, <1>3, <1>5, <1>6 DEF GraphTypeOK
<1>8. QueuesOnce'  BY <1>1, <1>2, <1>5 DEF QueuesOnce
<1>9. HoldersOnce'  BY <1>1, <1>2 DEF HoldersOnce
<1>10. ASSUME NEW g \in Graph PROVE GraphFits(g)'
  <2>1. GraphFits(g) /\ g[1] \in Nat /\ g[2] <= GraphPoolSize  BY <1>2, GraphIs, GraphAssumption
  <2>2. Queued(g)' <=> g[1] = v  BY <1>4, <1>5, <2>1 DEF Queued
  <2>3. (Kept(g)' <=> Kept(g)) /\ (Used(g)' <=> Used(g)) /\ (Leaving(g)' <=> Leaving(g))
    BY <1>1 DEF Kept, Used, Leaving
  <2>4. Kept(g) \/ Used(g) \/ Leaving(g) => g[1] < v /\ g[1] # v  BY <1>3, <2>1 DEF GraphFits
  <2>5. served[g] <= 1 /\ (served[g] = 1 => g[1] < v /\ g[1] # v /\ ~Kept(g) /\ ~Leaving(g))
    BY <1>3, <2>1 DEF GraphFits
  <2> QED  BY <1>1, <1>3, <2>1, <2>2, <2>3, <2>4, <2>5 DEF GraphFits
<1> QED  BY <1>1, <1>7, <1>8, <1>9, <1>10 DEF GraphInv

\* GetExeGraph: the graph goes from a queue to the workflow.
LEMMA HandedKeepsGraphs ==
  ASSUME GraphInv, mode_ = "pool", NEW u \in GraphUsers, inUse[u] = NoGraph, NEW h \in Graph, Handed(u, h),
         UNCHANGED <<mode_, use_tls_, version_, releasing>>,
         exe_graphs_' \in Seq(Graph), tls_exe_graphs_' \in [GraphThreads -> Seq(Graph)],
         \A t \in GraphThreads : Len(tls_exe_graphs_'[t]) <= tls_size_, QueuesOnce',
         Queued(h) \/ Kept(h),
         \A g \in Graph : /\ Queued(g)' <=> Queued(g) /\ g # h
                          /\ Kept(g)' <=> Kept(g) /\ g # h
  PROVE  GraphInv'
<1>1. GraphTypeOK /\ HoldersOnce /\ \A g \in Graph : GraphFits(g)  BY DEF GraphInv
<1>2. /\ inUse' = [inUse EXCEPT ![u] = h] /\ inUse \in [GraphUsers -> Graph \cup {NoGraph}]
      /\ served' = (IF h[1] < version_ THEN [served EXCEPT ![h] = @ + 1] ELSE served)
      /\ served \in [Graph -> Nat]
  BY <1>1 DEF Handed, GraphTypeOK
<1>3. tls_size_' = tls_size_  BY DEF tls_size_, pool_size_
<1>4. /\ inUse' \in [GraphUsers -> Graph \cup {NoGraph}] /\ inUse'[u] = h
      /\ \A w \in GraphUsers : w # u => inUse'[w] = inUse[w]
  BY <1>2
<1>5. /\ served' \in [Graph -> Nat] /\ served'[h] = (IF h[1] < version_ THEN served[h] + 1 ELSE served[h])
      /\ \A g \in Graph : g # h => served'[g] = served[g]
  BY <1>2
<1>6. GraphTypeOK'  BY <1>1, <1>3, <1>4, <1>5 DEF GraphTypeOK
<1>7. h # NoGraph /\ h[1] \in Nat /\ version_ \in Nat  BY <1>1, GraphIs, GraphAssumption DEF GraphTypeOK
<1>8. GraphFits(h) /\ ~Used(h) /\ ~Leaving(h) /\ served[h] = 0 /\ h[1] <= version_
  <2>1. GraphFits(h) /\ served[h] \in Nat  BY <1>1, <1>2
  <2> QED  BY <2>1 DEF GraphFits
<1>9. HoldersOnce'
  <2>1. \A w \in GraphUsers : inUse[w] # h  BY <1>8 DEF Used
  <2>2. ASSUME NEW w \in GraphUsers, NEW x \in GraphUsers, inUse'[w] # NoGraph, inUse'[w] = inUse'[x] PROVE w = x
    <3>1. CASE w # u /\ x # u  BY <1>1, <1>4, <2>2, <3>1 DEF HoldersOnce
    <3>2. CASE w = u \/ x = u  BY <1>4, <2>1, <2>2, <3>2
    <3> QED  BY <3>1, <3>2
  <2> QED  BY <1>1, <2>2 DEF HoldersOnce
<1>10. ASSUME NEW g \in Graph PROVE GraphFits(g)'
  <2>1. Leaving(g)' <=> Leaving(g)  BY DEF Leaving
  <2>2. Used(g)' <=> Used(g) \/ g = h
    <3>1. g # NoGraph  BY GraphIs
    <3> QED  BY <1>4, <3>1 DEF Used
  <2>3. CASE g # h
    <3>1. GraphFits(g) /\ served'[g] = served[g]  BY <1>1, <1>5, <2>3
    <3>2. (Queued(g)' <=> Queued(g)) /\ (Kept(g)' <=> Kept(g)) /\ (Used(g)' <=> Used(g))  BY <2>2, <2>3
    <3> QED  BY <2>1, <3>1, <3>2, GraphStays
  <2>4. CASE g = h
    <3>1. ~Queued(g)' /\ ~Kept(g)' /\ Used(g)' /\ ~Leaving(g)'  BY <1>8, <2>1, <2>2, <2>4
    <3>2. served'[g] <= 1 /\ (served'[g] = 1 => g[1] < version_)  BY <1>5, <1>7, <1>8, <2>4
    <3> QED  BY <1>8, <2>4, <3>1, <3>2 DEF GraphFits
  <2> QED  BY <2>3, <2>4
<1> QED  BY <1>6, <1>9, <1>10 DEF GraphInv

LEMMA GetKeepsGraphs ==
  ASSUME GraphInv, NEW t \in GraphWorkers, NEW u \in GraphUsers, GetExeGraph(t, u)
  PROVE  GraphInv'
<1>1. /\ GraphTypeOK /\ inUse[u] = NoGraph /\ UNCHANGED <<mode_, use_tls_, version_, releasing>>
      /\ FromSingleton(u) \/ FromTls(t, u) \/ FromPool(t, u)
  BY DEF GraphInv, GetExeGraph
<1>2. /\ t \in GraphThreads /\ exe_graphs_ \in Seq(Graph) /\ tls_exe_graphs_ \in [GraphThreads -> Seq(Graph)]
      /\ \A w \in GraphThreads : tls_exe_graphs_[w] \in Seq(Graph) /\ Len(tls_exe_graphs_[w]) <= tls_size_
  BY <1>1 DEF GraphTypeOK, GraphThreads
<1>3. CASE FromSingleton(u)
  <2> DEFINE h == Head(exe_graphs_)
  <2>1. /\ mode_ = "singleton" /\ exe_graphs_ # <<>> /\ UNCHANGED <<exe_graphs_, tls_exe_graphs_>>
        /\ inUse' = [inUse EXCEPT ![u] = h]
        /\ served' = IF h[1] < version_ THEN [served EXCEPT ![h] = @ + 1] ELSE served
    BY <1>3 DEF FromSingleton, Handed
  <2>2. h \in Graph /\ 1 \in DOMAIN exe_graphs_ /\ h = exe_graphs_[1]  BY <1>2, <2>1
  <2>3. h[1] = 1 /\ version_ = 1  BY <2>1, <2>2 DEF GraphInv
  <2> HIDE DEF h
  <2>4. served' = served  BY <2>1, <2>3
  <2>5. inUse' \in [GraphUsers -> Graph \cup {NoGraph}]  BY <1>1, <2>1, <2>2 DEF GraphTypeOK
  <2>6. tls_size_' = tls_size_  BY <1>1 DEF tls_size_, pool_size_
  <2>7. GraphTypeOK'  BY <1>1, <2>1, <2>4, <2>5, <2>6 DEF GraphTypeOK
  <2> QED  BY <1>1, <2>1, <2>4, <2>7 DEF GraphInv
<1>4. CASE FromTls(t, u)
  <2> DEFINE s == tls_exe_graphs_[t]
             h == Head(s)
  <2>1. /\ mode_ = "pool" /\ s # <<>> /\ Handed(u, h) /\ exe_graphs_' = exe_graphs_
        /\ tls_exe_graphs_' = [tls_exe_graphs_ EXCEPT ![t] = Tail(s)]
    BY <1>4 DEF FromTls
  <2>2. QueuesOnce /\ \A g \in Graph : GraphFits(g)  BY <2>1 DEF GraphInv
  <2>3. s \in Seq(Graph) /\ Distinct(s)  BY <1>2, <2>2 DEF QueuesOnce
  <2> HIDE DEF s
  <2>4. /\ h \in Graph /\ Has(s, h) /\ Tail(s) \in Seq(Graph) /\ Len(Tail(s)) <= Len(s)
        /\ Distinct(Tail(s)) /\ \A x : Has(Tail(s), x) <=> Has(s, x) /\ x # h
    BY <2>1, <2>3, TakenFrom
  <2> HIDE DEF h
  <2>5. /\ tls_exe_graphs_' \in [GraphThreads -> Seq(Graph)] /\ tls_exe_graphs_'[t] = Tail(s)
        /\ \A w \in GraphThreads : w # t => tls_exe_graphs_'[w] = tls_exe_graphs_[w]
    BY <1>2, <2>1, <2>4
  <2>6. ASSUME NEW w \in GraphThreads
        PROVE  Len(tls_exe_graphs_'[w]) <= tls_size_
    <3>1. CASE w # t  BY <1>2, <2>5, <3>1
    <3>2. CASE w = t
      <4>1. Len(s) \in Nat /\ Len(Tail(s)) \in Nat /\ Len(s) <= tls_size_ /\ tls_size_ \in Nat
        BY <1>1, <1>2, <2>3, <2>4, TlsSizeIs DEF s, GraphTypeOK
      <4> QED  BY <2>4, <2>5, <3>2, <4>1
    <3> QED  BY <3>1, <3>2
  <2>7. \A w \in GraphThreads : \A x : Has(tls_exe_graphs_'[w], x) <=>
                                     Has(tls_exe_graphs_[w], x) /\ (w = t => x # h)
    BY <2>4, <2>5 DEF s
  <2>8. ASSUME NEW x \in Graph PROVE Kept(x)' <=> Kept(x) /\ x # h
    <3>1. Kept(x)' <=> \E w \in GraphThreads : Has(tls_exe_graphs_'[w], x)  BY DEF Kept
    <3>2. Kept(x) <=> \E w \in GraphThreads : Has(tls_exe_graphs_[w], x)  BY DEF Kept
    <3>3. \A w \in GraphThreads : Has(tls_exe_graphs_[w], h) => w = t  BY <1>2, <2>2, <2>4 DEF QueuesOnce, s
    <3> QED  BY <2>7, <3>1, <3>2, <3>3
  <2>9. Kept(h)  BY <1>2, <2>4 DEF Kept, s
  <2>10. QueuesOnce'
    <3>1. \A w \in GraphThreads : Distinct(tls_exe_graphs_'[w])  BY <2>2, <2>4, <2>5 DEF QueuesOnce
    <3>2. \A g \in Graph : \A v, w \in GraphThreads :
            Has(tls_exe_graphs_'[v], g) /\ Has(tls_exe_graphs_'[w], g) => v = w
      BY <2>2, <2>7 DEF QueuesOnce
    <3> QED  BY <2>1, <2>2, <3>1, <3>2 DEF QueuesOnce
  <2>11. ASSUME NEW x \in Graph PROVE Queued(x)' <=> Queued(x) /\ x # h
    <3>1. ~Queued(h)  BY <2>2, <2>4, <2>9 DEF GraphFits
    <3>2. Queued(x)' <=> Queued(x)  BY <2>1 DEF Queued
    <3> QED  BY <3>1, <3>2
  <2>12. exe_graphs_' \in Seq(Graph)  BY <1>2, <2>1
  <2> QED  BY <1>1, <2>1, <2>4, <2>5, <2>6, <2>8, <2>9, <2>10, <2>11, <2>12, HandedKeepsGraphs
<1>5. CASE FromPool(t, u)
  <2> DEFINE h == Head(exe_graphs_)
  <2>1. /\ mode_ = "pool" /\ exe_graphs_ # <<>> /\ Handed(u, h) /\ exe_graphs_' = Tail(exe_graphs_)
        /\ tls_exe_graphs_' = tls_exe_graphs_
    BY <1>5 DEF FromPool
  <2>2. QueuesOnce /\ \A g \in Graph : GraphFits(g)  BY <2>1 DEF GraphInv
  <2>3. Distinct(exe_graphs_)  BY <2>2 DEF QueuesOnce
  <2>4. /\ h \in Graph /\ Has(exe_graphs_, h) /\ exe_graphs_' \in Seq(Graph)
        /\ Distinct(exe_graphs_') /\ \A x : Has(exe_graphs_', x) <=> Has(exe_graphs_, x) /\ x # h
    BY <1>2, <2>1, <2>3, TakenFrom
  <2> HIDE DEF h
  <2>5. Queued(h)  BY <2>4 DEF Queued
  <2>6. ASSUME NEW x \in Graph PROVE (Queued(x)' <=> Queued(x) /\ x # h) /\ (Kept(x)' <=> Kept(x) /\ x # h)
    <3>1. ~Kept(h)  BY <2>2, <2>4, <2>5 DEF GraphFits
    <3>2. Kept(x)' <=> Kept(x)  BY <2>1 DEF Kept
    <3>3. Queued(x)' <=> Queued(x) /\ x # h  BY <2>4 DEF Queued
    <3> QED  BY <3>1, <3>2, <3>3
  <2>7. QueuesOnce'  BY <2>1, <2>2, <2>4 DEF QueuesOnce
  <2>8. /\ tls_exe_graphs_' \in [GraphThreads -> Seq(Graph)]
        /\ \A w \in GraphThreads : Len(tls_exe_graphs_'[w]) <= tls_size_
    BY <1>2, <2>1
  <2> QED  BY <1>1, <2>1, <2>4, <2>5, <2>6, <2>7, <2>8, HandedKeepsGraphs
<1> QED  BY <1>1, <1>3, <1>4, <1>5

\* ReleaseExeGraph: the workflow gives its graph to the thread that ends it,
\* or an old one is deleted.
LEMMA ReleaseKeepsGraphs ==
  ASSUME GraphInv, NEW t \in GraphThreads, NEW u \in GraphUsers, ReleaseExeGraph(t, u)
  PROVE  GraphInv'
<1> DEFINE h == inUse[u]
           r == IF mode_ = "singleton" \/ Outdated(h) THEN NoGraph ELSE h
<1>1. /\ GraphTypeOK /\ releasing[t] = NoGraph /\ h # NoGraph
      /\ inUse' = [inUse EXCEPT ![u] = NoGraph] /\ releasing' = [releasing EXCEPT ![t] = r]
      /\ UNCHANGED <<mode_, use_tls_, version_, exe_graphs_, tls_exe_graphs_, served>>
  BY DEF GraphInv, ReleaseExeGraph
<1>2. /\ inUse \in [GraphUsers -> Graph \cup {NoGraph}] /\ releasing \in [GraphThreads -> Graph \cup {NoGraph}]
      /\ h \in Graph /\ r \in Graph \cup {NoGraph}
  BY <1>1 DEF GraphTypeOK
<1>3. /\ mode_ = "singleton" => r = NoGraph
      /\ mode_ = "pool" => r = (IF h[1] # version_ THEN NoGraph ELSE h)
  BY DEF Outdated
<1> HIDE DEF r
<1>4. /\ inUse' \in [GraphUsers -> Graph \cup {NoGraph}] /\ inUse'[u] = NoGraph
      /\ \A w \in GraphUsers : w # u => inUse'[w] = inUse[w]
  BY <1>1, <1>2
<1>5. /\ releasing' \in [GraphThreads -> Graph \cup {NoGraph}] /\ releasing'[t] = r
      /\ \A w \in GraphThreads : w # t => releasing'[w] = releasing[w]
  BY <1>1, <1>2
<1>6. tls_size_' = tls_size_  BY <1>1 DEF tls_size_, pool_size_
<1>7. GraphTypeOK'  BY <1>1, <1>4, <1>5, <1>6 DEF GraphTypeOK
<1>8. CASE mode_ = "singleton"
  <2>1. \A w \in GraphThreads : releasing'[w] = NoGraph  BY <1>3, <1>5, <1>8 DEF GraphInv
  <2> QED  BY <1>1, <1>7, <1>8, <2>1 DEF GraphInv
<1>9. CASE mode_ = "pool"
  <2>1. QueuesOnce /\ HoldersOnce /\ \A g \in Graph : GraphFits(g)  BY <1>9 DEF GraphInv
  <2>2. QueuesOnce'  BY <1>1, <2>1 DEF QueuesOnce
  <2>3. Used(h)  BY DEF Used
  <2>4. ~Queued(h) /\ ~Kept(h) /\ ~Leaving(h) /\ h[1] <= version_  BY <1>2, <2>1, <2>3 DEF GraphFits
  <2>5. HoldersOnce'
    <3>1. ASSUME NEW w \in GraphUsers, NEW x \in GraphUsers, inUse'[w] # NoGraph, inUse'[w] = inUse'[x] PROVE w = x
      BY <1>4, <2>1, <3>1 DEF HoldersOnce
    <3>2. ASSUME NEW w \in GraphThreads, NEW x \in GraphThreads, releasing'[w] # NoGraph, releasing'[w] = releasing'[x]
          PROVE  w = x
      <4>1. \A y \in GraphThreads : releasing[y] # h  BY <2>4 DEF Leaving
      <4>2. r = NoGraph \/ r = h  BY <1>3, <1>9
      <4>3. CASE w # t /\ x # t  BY <1>5, <2>1, <3>2, <4>3 DEF HoldersOnce
      <4>4. CASE w = t \/ x = t  BY <1>5, <3>2, <4>1, <4>2, <4>4
      <4> QED  BY <4>3, <4>4
    <3> QED  BY <3>1, <3>2 DEF HoldersOnce
  <2>6. ASSUME NEW g \in Graph PROVE GraphFits(g)'
    <3>1. GraphFits(g) /\ g # NoGraph  BY <2>1, GraphIs
    <3>2. (Queued(g)' <=> Queued(g)) /\ (Kept(g)' <=> Kept(g))  BY <1>1 DEF Queued, Kept
    <3>3. Used(g)' <=> Used(g) /\ g # h
      <4>1. \A w \in GraphUsers : inUse[w] = h => w = u  BY <1>1, <2>1 DEF HoldersOnce
      <4> QED  BY <1>4, <3>1, <4>1 DEF Used
    <3>4. Leaving(g)' <=> Leaving(g) \/ g = r  BY <1>1, <1>5, <3>1 DEF Leaving
    <3>5. CASE g # h
      <4>1. g # r  BY <1>3, <1>9, <3>1, <3>5
      <4>2. (Used(g)' <=> Used(g)) /\ (Leaving(g)' <=> Leaving(g))  BY <3>3, <3>4, <3>5, <4>1
      <4> QED  BY <1>1, <3>1, <3>2, <4>2, GraphStays
    <3>6. CASE g = h
      <4>1. ~Queued(g)' /\ ~Kept(g)' /\ ~Used(g)'  BY <2>4, <3>2, <3>3, <3>6
      <4>2. Leaving(g)' <=> g[1] = version_  BY <1>3, <1>9, <2>4, <3>1, <3>4, <3>6
      <4>3. version_ \in Nat /\ g[1] \in Nat  BY <1>1, GraphIs, GraphAssumption DEF GraphTypeOK
      <4>4. served'[g] <= 1 /\ (served'[g] = 1 => g[1] < version_)  BY <1>1, <3>1 DEF GraphFits
      <4> QED  BY <1>1, <2>4, <3>6, <4>1, <4>2, <4>3, <4>4 DEF GraphFits
    <3> QED  BY <3>5, <3>6
  <2> QED  BY <1>1, <1>7, <1>9, <2>2, <2>5, <2>6 DEF GraphInv
<1> QED  BY <1>1, <1>8, <1>9 DEF GraphTypeOK

\* The rest of it: the graph goes to the pool of the thread or to the queue.
LEMMA PutBackKeepsGraphs ==
  ASSUME GraphInv, NEW t \in GraphThreads, PutBack(t)
  PROVE  GraphInv'
<1> DEFINE h == releasing[t]
           s == tls_exe_graphs_[t]
<1>1. /\ GraphTypeOK /\ h # NoGraph /\ releasing' = [releasing EXCEPT ![t] = NoGraph]
      /\ UNCHANGED <<mode_, use_tls_, version_, inUse, served>>
  BY DEF GraphInv, PutBack
<1>2. \/ /\ Len(s) < tls_size_ /\ tls_exe_graphs_' = [tls_exe_graphs_ EXCEPT ![t] = Append(s, h)]
         /\ exe_graphs_' = exe_graphs_
      \/ exe_graphs_' = Append(exe_graphs_, h) /\ tls_exe_graphs_' = tls_exe_graphs_
  BY DEF PutBack, TlsRoom
<1>3. /\ releasing \in [GraphThreads -> Graph \cup {NoGraph}] /\ h \in Graph
      /\ exe_graphs_ \in Seq(Graph) /\ tls_exe_graphs_ \in [GraphThreads -> Seq(Graph)] /\ s \in Seq(Graph)
      /\ \A w \in GraphThreads : Len(tls_exe_graphs_[w]) <= tls_size_
  BY <1>1 DEF GraphTypeOK
<1>4. mode_ = "pool"  BY <1>1 DEF GraphInv, GraphTypeOK
<1>5. QueuesOnce /\ HoldersOnce /\ \A g \in Graph : GraphFits(g)  BY <1>4 DEF GraphInv
<1>6. Leaving(h)  BY DEF Leaving
<1>7. GraphFits(h) /\ ~Queued(h) /\ ~Kept(h) /\ ~Used(h) /\ h[1] <= version_ /\ served[h] # 1
  <2>1. GraphFits(h)  BY <1>3, <1>5
  <2> QED  BY <1>6, <2>1 DEF GraphFits
<1>8. /\ releasing' \in [GraphThreads -> Graph \cup {NoGraph}] /\ releasing'[t] = NoGraph
      /\ \A w \in GraphThreads : w # t => releasing'[w] = releasing[w]
  BY <1>1, <1>3
<1>9. \A w \in GraphThreads : releasing[w] = h => w = t  BY <1>1, <1>5 DEF HoldersOnce
<1> HIDE DEF h, s
<1>10. tls_size_' = tls_size_ /\ tls_size_ \in Nat  BY <1>1, TlsSizeIs DEF tls_size_, pool_size_, GraphTypeOK
<1>11. /\ exe_graphs_' \in Seq(Graph) /\ tls_exe_graphs_' \in [GraphThreads -> Seq(Graph)]
       /\ \A w \in GraphThreads : Len(tls_exe_graphs_'[w]) <= tls_size_
       /\ QueuesOnce'
       /\ \/ \A g \in Graph : (Queued(g)' <=> Queued(g) \/ g = h) /\ (Kept(g)' <=> Kept(g))
          \/ \A g \in Graph : (Queued(g)' <=> Queued(g)) /\ (Kept(g)' <=> Kept(g) \/ g = h)
  <2>1. CASE exe_graphs_' = Append(exe_graphs_, h) /\ tls_exe_graphs_' = tls_exe_graphs_
    <3>1. Distinct(exe_graphs_) /\ ~Has(exe_graphs_, h)  BY <1>5, <1>7 DEF QueuesOnce, Queued
    <3>2. /\ exe_graphs_' \in Seq(Graph) /\ Distinct(exe_graphs_')
          /\ \A x : Has(exe_graphs_', x) <=> Has(exe_graphs_, x) \/ x = h
      BY <1>3, <2>1, <3>1, PutBehind
    <3>3. QueuesOnce'  BY <1>5, <2>1, <3>2 DEF QueuesOnce
    <3>4. \A g \in Graph : (Queued(g)' <=> Queued(g) \/ g = h) /\ (Kept(g)' <=> Kept(g))
      BY <2>1, <3>2 DEF Queued, Kept
    <3>5. tls_exe_graphs_' \in [GraphThreads -> Seq(Graph)]
          /\ \A w \in GraphThreads : Len(tls_exe_graphs_'[w]) <= tls_size_
      BY <1>3, <2>1
    <3> QED  BY <3>2, <3>3, <3>4, <3>5
  <2>2. CASE /\ Len(s) < tls_size_ /\ tls_exe_graphs_' = [tls_exe_graphs_ EXCEPT ![t] = Append(s, h)]
             /\ exe_graphs_' = exe_graphs_
    <3> DEFINE r == Append(s, h)
    <3>1. Distinct(s) /\ ~Has(s, h)  BY <1>5, <1>7 DEF QueuesOnce, Kept, s
    <3>2. /\ r \in Seq(Graph) /\ Len(r) = Len(s) + 1 /\ Distinct(r)
          /\ \A x : Has(r, x) <=> Has(s, x) \/ x = h
      BY <1>3, <3>1, PutBehind
    <3> HIDE DEF r
    <3>3. /\ tls_exe_graphs_' \in [GraphThreads -> Seq(Graph)] /\ tls_exe_graphs_'[t] = r
          /\ \A w \in GraphThreads : w # t => tls_exe_graphs_'[w] = tls_exe_graphs_[w]
      BY <1>3, <2>2, <3>2 DEF r
    <3>4. Len(r) <= tls_size_
      <4>1. Len(s) \in Nat  BY <1>3
      <4> QED  BY <1>10, <2>2, <3>2, <4>1
    <3>5. \A w \in GraphThreads : Len(tls_exe_graphs_'[w]) <= tls_size_  BY <1>3, <3>3, <3>4
    <3>6. \A w \in GraphThreads : \A x : Has(tls_exe_graphs_'[w], x) <=>
                                       Has(tls_exe_graphs_[w], x) \/ (w = t /\ x = h)
      BY <3>2, <3>3 DEF s
    <3>7. \A w \in GraphThreads : ~Has(tls_exe_graphs_[w], h)  BY <1>7 DEF Kept
    <3>8. QueuesOnce'
      <4>1. \A w \in GraphThreads : Distinct(tls_exe_graphs_'[w])  BY <1>5, <3>2, <3>3 DEF QueuesOnce
      <4>2. \A g \in Graph : \A v, w \in GraphThreads :
              Has(tls_exe_graphs_'[v], g) /\ Has(tls_exe_graphs_'[w], g) => v = w
        BY <1>5, <3>6, <3>7 DEF QueuesOnce
      <4> QED  BY <1>5, <2>2, <4>1, <4>2 DEF QueuesOnce
    <3>9. ASSUME NEW g \in Graph PROVE (Queued(g)' <=> Queued(g)) /\ (Kept(g)' <=> Kept(g) \/ g = h)
      <4>1. Kept(g)' <=> \E w \in GraphThreads : Has(tls_exe_graphs_'[w], g)  BY DEF Kept
      <4>2. Kept(g) <=> \E w \in GraphThreads : Has(tls_exe_graphs_[w], g)  BY DEF Kept
      <4>3. Kept(g)' <=> Kept(g) \/ g = h  BY <3>6, <4>1, <4>2
      <4>4. Queued(g)' <=> Queued(g)  BY <2>2 DEF Queued
      <4> QED  BY <4>3, <4>4
    <3>10. exe_graphs_' \in Seq(Graph)  BY <1>3, <2>2
    <3> QED  BY <3>3, <3>5, <3>8, <3>9, <3>10
  <2> QED  BY <1>2, <2>1, <2>2
<1>12. GraphTypeOK'  BY <1>1, <1>8, <1>10, <1>11 DEF GraphTypeOK
<1>13. HoldersOnce'
  <2>1. ASSUME NEW w \in GraphThreads, NEW x \in GraphThreads, releasing'[w] # NoGraph, releasing'[w] = releasing'[x]
        PROVE  w = x
    BY <1>5, <1>8, <2>1 DEF HoldersOnce
  <2> QED  BY <1>1, <1>5, <2>1 DEF HoldersOnce
<1>14. ASSUME NEW g \in Graph PROVE GraphFits(g)'
  <2>1. GraphFits(g) /\ g # NoGraph  BY <1>5, GraphIs
  <2>2. Used(g)' <=> Used(g)  BY <1>1 DEF Used
  <2>3. Leaving(g)' <=> Leaving(g) /\ g # h  BY <1>8, <1>9, <2>1 DEF Leaving, h
  <2>4. CASE g # h
    <3>1. (Queued(g)' <=> Queued(g)) /\ (Kept(g)' <=> Kept(g)) /\ (Leaving(g)' <=> Leaving(g))
      BY <1>11, <2>3, <2>4
    <3> QED  BY <1>1, <2>1, <2>2, <3>1, GraphStays
  <2>5. CASE g = h
    <3>1. /\ (Queued(g)' /\ ~Kept(g)') \/ (~Queued(g)' /\ Kept(g)')
          /\ ~Used(g)' /\ ~Leaving(g)'
      BY <1>3, <1>7, <1>11, <2>2, <2>3, <2>5
    <3>2. served[g] <= 1 /\ served[g] # 1  BY <1>7, <2>1, <2>5 DEF GraphFits
    <3> QED  BY <1>1, <1>7, <2>5, <3>1, <3>2 DEF GraphFits
  <2> QED  BY <2>4, <2>5
<1> QED  BY <1>1, <1>4, <1>11, <1>12, <1>13, <1>14 DEF GraphInv

LEMMA GraphInvNext == GraphInv /\ [GraphNext]_graphVars => GraphInv'
<1> SUFFICES ASSUME GraphInv, [GraphNext]_graphVars PROVE GraphInv'  OBVIOUS
<1>1. CASE UNCHANGED graphVars
  <2>1. UNCHANGED <<mode_, use_tls_, version_, exe_graphs_, tls_exe_graphs_, inUse, releasing, served>>
    BY <1>1 DEF graphVars
  <2>2. GraphTypeOK'  BY <2>1 DEF GraphInv, GraphTypeOK, tls_size_, pool_size_
  <2>3. (QueuesOnce' <=> QueuesOnce) /\ (HoldersOnce' <=> HoldersOnce)  BY <2>1 DEF QueuesOnce, HoldersOnce
  <2>4. \A g \in Graph : GraphFits(g)' <=> GraphFits(g)
    BY <2>1 DEF GraphFits, Queued, Kept, Used, Leaving
  <2> QED  BY <2>1, <2>2, <2>3, <2>4 DEF GraphInv
<1>2. CASE ReloadGraph  BY <1>2, ReloadKeepsGraphs
<1>3. ASSUME NEW t \in GraphWorkers, NEW u \in GraphUsers, GetExeGraph(t, u) PROVE GraphInv'
  BY <1>3, GetKeepsGraphs
<1>4. ASSUME NEW t \in GraphThreads, NEW u \in GraphUsers, ReleaseExeGraph(t, u) PROVE GraphInv'
  BY <1>4, ReleaseKeepsGraphs
<1>5. ASSUME NEW t \in GraphThreads, PutBack(t) PROVE GraphInv'  BY <1>5, PutBackKeepsGraphs
<1> QED  BY <1>1, <1>2, <1>3, <1>4, <1>5 DEF GraphNext

\* A set with at most one element.
LEMMA OneAtMost ==
  ASSUME NEW S, \A x, y \in S : x = y
  PROVE  /\ S = {} => Cardinality(S) = 0
         /\ S # {} => Cardinality(S) = 1
<1>1. S = {} => Cardinality(S) = 0  BY FS_EmptySet
<1>2. ASSUME S # {} PROVE Cardinality(S) = 1
  <2>1. PICK x : x \in S  BY <1>2
  <2>2. S = {x}  BY <2>1
  <2> QED  BY <2>2, FS_Singleton
<1> QED  BY <1>1, <1>2

\* The four numbers that Places adds up are 1 or 0.
LEMMA PlacesAre ==
  ASSUME GraphInv, mode_ = "pool", NEW g \in Graph
  PROVE  Places(g) = IF Queued(g) \/ Kept(g) \/ Used(g) \/ Leaving(g) THEN 1 ELSE 0
<1> DEFINE Q == {i \in DOMAIN exe_graphs_ : exe_graphs_[i] = g}
           K == {p \in GraphThreads \X (1..GraphPoolSize) :
                   p[2] <= Len(tls_exe_graphs_[p[1]]) /\ tls_exe_graphs_[p[1]][p[2]] = g}
           U == {u \in GraphUsers : inUse[u] = g}
           L == {t \in GraphThreads : releasing[t] = g}
<1>1. GraphTypeOK /\ QueuesOnce /\ HoldersOnce /\ GraphFits(g) /\ g # NoGraph  BY GraphIs DEF GraphInv
<1>2. Cardinality(Q) = IF Queued(g) THEN 1 ELSE 0
  <2>1. \A x, y \in Q : x = y  BY <1>1 DEF QueuesOnce, Distinct
  <2>2. Queued(g) <=> Q # {}  BY DEF Queued, Has
  <2> HIDE DEF Q
  <2> QED  BY <2>1, <2>2, OneAtMost
<1>3. Cardinality(U) = IF Used(g) THEN 1 ELSE 0
  <2>1. \A x, y \in U : x = y  BY <1>1 DEF HoldersOnce
  <2>2. Used(g) <=> U # {}  BY DEF Used
  <2> HIDE DEF U
  <2> QED  BY <2>1, <2>2, OneAtMost
<1>4. Cardinality(L) = IF Leaving(g) THEN 1 ELSE 0
  <2>1. \A x, y \in L : x = y  BY <1>1 DEF HoldersOnce
  <2>2. Leaving(g) <=> L # {}  BY DEF Leaving
  <2> HIDE DEF L
  <2> QED  BY <2>1, <2>2, OneAtMost
<1>5. Cardinality(K) = IF Kept(g) THEN 1 ELSE 0
  <2>1. \A t \in GraphThreads : /\ DOMAIN tls_exe_graphs_[t] = 1..Len(tls_exe_graphs_[t])
                                /\ Len(tls_exe_graphs_[t]) \in Nat /\ Len(tls_exe_graphs_[t]) <= GraphPoolSize
    <3> SUFFICES ASSUME NEW t \in GraphThreads
                 PROVE  /\ DOMAIN tls_exe_graphs_[t] = 1..Len(tls_exe_graphs_[t])
                        /\ Len(tls_exe_graphs_[t]) \in Nat /\ Len(tls_exe_graphs_[t]) <= GraphPoolSize
      OBVIOUS
    <3>1. tls_exe_graphs_[t] \in Seq(Graph) /\ Len(tls_exe_graphs_[t]) <= tls_size_  BY <1>1 DEF GraphTypeOK
    <3>2. tls_size_ \in Nat /\ tls_size_ <= GraphPoolSize /\ GraphPoolSize \in Nat
      BY <1>1, TlsSizeIs, GraphAssumption DEF GraphTypeOK
    <3> QED  BY <3>1, <3>2
  <2>2. ASSUME NEW p \in K
        PROVE  /\ p = <<p[1], p[2]>> /\ p[1] \in GraphThreads /\ p[2] \in DOMAIN tls_exe_graphs_[p[1]]
               /\ tls_exe_graphs_[p[1]][p[2]] = g
    <3>1. /\ p = <<p[1], p[2]>> /\ p[1] \in GraphThreads /\ p[2] \in 1..GraphPoolSize
          /\ p[2] <= Len(tls_exe_graphs_[p[1]]) /\ tls_exe_graphs_[p[1]][p[2]] = g
      OBVIOUS
    <3>2. p[2] \in 1..Len(tls_exe_graphs_[p[1]])  BY <2>1, <3>1, GraphAssumption
    <3> QED  BY <2>1, <3>1, <3>2
  <2>3. ASSUME NEW t \in GraphThreads, NEW i \in DOMAIN tls_exe_graphs_[t], tls_exe_graphs_[t][i] = g
        PROVE  <<t, i>> \in K
    <3>1. i \in 1..GraphPoolSize /\ i <= Len(tls_exe_graphs_[t])  BY <2>1, GraphAssumption
    <3> QED  BY <2>3, <3>1
  <2> HIDE DEF K
  <2>4. ASSUME NEW x \in K, NEW y \in K PROVE x = y
    <3>1. Has(tls_exe_graphs_[x[1]], g) /\ Has(tls_exe_graphs_[y[1]], g)  BY <2>2 DEF Has
    <3>2. x[1] = y[1]  BY <1>1, <2>2, <3>1 DEF QueuesOnce
    <3>3. Distinct(tls_exe_graphs_[x[1]])  BY <1>1, <2>2 DEF QueuesOnce
    <3>4. x[2] = y[2]  BY <2>2, <3>2, <3>3 DEF Distinct
    <3> QED  BY <2>2, <3>2, <3>4
  <2>5. Kept(g) <=> K # {}
    <3>1. ASSUME NEW t \in GraphThreads, Has(tls_exe_graphs_[t], g) PROVE K # {}
      <4>1. PICK i \in DOMAIN tls_exe_graphs_[t] : tls_exe_graphs_[t][i] = g  BY <3>1 DEF Has
      <4>2. <<t, i>> \in K  BY <2>3, <4>1
      <4> QED  BY <4>2
    <3>2. ASSUME NEW p \in K PROVE Kept(g)
      <4>1. p[1] \in GraphThreads /\ Has(tls_exe_graphs_[p[1]], g)  BY <2>2 DEF Has
      <4> QED  BY <4>1 DEF Kept
    <3> QED  BY <3>1, <3>2 DEF Kept
  <2> QED  BY <2>4, <2>5, OneAtMost
<1>6. Places(g) = Cardinality(Q) + Cardinality(K) + Cardinality(U) + Cardinality(L)
  BY DEF Places, Occurrences
<1> HIDE DEF Q, K, U, L
<1> QED  BY <1>1, <1>2, <1>3, <1>4, <1>5, <1>6 DEF GraphFits

\* The graphs of this version that are not in use are in the pools of threads
\* that have room for tls_size_ each.
LEMMA BusyGraphs ==
  ASSUME GraphInv, mode_ = "pool", NEW t \in GraphWorkers, tls_exe_graphs_[t] = <<>>, exe_graphs_ = <<>>
  PROVE  Cardinality({u \in GraphUsers : inUse[u] # NoGraph} \cup {w \in GraphThreads : releasing[w] # NoGraph})
           >= GraphPoolSize - tls_size_ * (Cardinality(GraphThreads) - 1)
<1> DEFINE U == {u \in GraphUsers : inUse[u] # NoGraph}
           L == {w \in GraphThreads : releasing[w] # NoGraph}
           C == {g \in Graph : g[1] = version_}
           K == {g \in C : Kept(g)}
           B == {g \in C : Used(g) \/ Leaving(g)}
           others == GraphThreads \ {t}
           room == others \X (1..tls_size_)
<1>1. GraphTypeOK /\ QueuesOnce /\ HoldersOnce /\ \A g \in Graph : GraphFits(g)  BY DEF GraphInv
<1>2. t \in GraphThreads /\ IsFiniteSet(GraphThreads) /\ IsFiniteSet(GraphUsers)
  BY GraphAssumption, FS_Union DEF GraphThreads
<1>3. tls_size_ \in Nat /\ GraphPoolSize \in Nat  BY <1>1, TlsSizeIs, GraphAssumption DEF GraphTypeOK
<1>4. IsFiniteSet(C) /\ Cardinality(C) = GraphPoolSize
  <2> DEFINE f == [i \in 1..GraphPoolSize |-> <<version_, i>>]
  <2>1. version_ \in 1..(MaxReloads + 1)  BY <1>1 DEF GraphTypeOK
  <2>2. f \in Bijection(1..GraphPoolSize, C)
    <3>1. \A i \in 1..GraphPoolSize : <<version_, i>> \in Graph  BY <2>1, GraphIs
    <3>2. f \in [1..GraphPoolSize -> C]  BY <3>1
    <3>3. \A i, j \in 1..GraphPoolSize : f[i] = f[j] => i = j  OBVIOUS
    <3>4. \A g \in C : \E i \in 1..GraphPoolSize : f[i] = g
      <4> SUFFICES ASSUME NEW g \in C PROVE \E i \in 1..GraphPoolSize : f[i] = g  OBVIOUS
      <4>1. g[2] \in 1..GraphPoolSize /\ g = <<version_, g[2]>>  BY GraphIs
      <4> QED  BY <4>1
    <3> HIDE DEF f, C
    <3> QED  BY <3>2, <3>3, <3>4, Fun_IsBij
  <2>3. IsFiniteSet(1..GraphPoolSize) /\ Cardinality(1..GraphPoolSize) = GraphPoolSize
    <3>1. 1 \in Int /\ GraphPoolSize \in Int /\ ~(1 > GraphPoolSize)  BY GraphAssumption
    <3>2. /\ IsFiniteSet(1..GraphPoolSize)
          /\ Cardinality(1..GraphPoolSize) = IF 1 > GraphPoolSize THEN 0 ELSE GraphPoolSize - 1 + 1
      BY <3>1, FS_Interval
    <3> QED  BY <3>1, <3>2
  <2> HIDE DEF f, C
  <2>4. ExistsBijection(1..GraphPoolSize, C)  BY <2>2 DEF ExistsBijection
  <2> QED  BY <2>3, <2>4, FS_Bijection
<1>5. C = K \cup B
  <2> SUFFICES ASSUME NEW g \in C PROVE Kept(g) \/ Used(g) \/ Leaving(g)  OBVIOUS
  <2>1. ~Queued(g)  BY DEF Queued, Has
  <2> QED  BY <1>1, <2>1 DEF GraphFits
<1>6. IsFiniteSet(K) /\ IsFiniteSet(B)  BY <1>4, FS_Subset
<1>7. IsFiniteSet(U \cup L)  BY <1>2, FS_Subset, FS_Union
<1>8. IsFiniteSet(others) /\ Cardinality(others) = Cardinality(GraphThreads) - 1  BY <1>2, FS_RemoveElement
<1>9. IsFiniteSet(room) /\ Cardinality(room) = Cardinality(others) * tls_size_
  <2>1. IsFiniteSet(1..tls_size_) /\ Cardinality(1..tls_size_) = tls_size_  BY <1>3, FS_Interval
  <2> HIDE DEF others
  <2> QED  BY <1>8, <2>1, FS_Product
<1>10. Cardinality(K) <= Cardinality(room)
  <2> DEFINE at(g) == CHOOSE p \in room : p[2] \in DOMAIN tls_exe_graphs_[p[1]] /\ tls_exe_graphs_[p[1]][p[2]] = g
             f == [g \in K |-> at(g)]
  <2>1. ASSUME NEW g \in K
        PROVE  at(g) \in room /\ tls_exe_graphs_[at(g)[1]][at(g)[2]] = g
    <3>1. PICK w \in GraphThreads : Has(tls_exe_graphs_[w], g)  BY DEF Kept
    <3>2. PICK i \in DOMAIN tls_exe_graphs_[w] : tls_exe_graphs_[w][i] = g  BY <3>1 DEF Has
    <3>3. w # t  BY <3>2
    <3>4. i \in 1..tls_size_
      <4>1. tls_exe_graphs_[w] \in Seq(Graph) /\ Len(tls_exe_graphs_[w]) <= tls_size_  BY <1>1 DEF GraphTypeOK
      <4>2. Len(tls_exe_graphs_[w]) \in Nat /\ i \in 1..Len(tls_exe_graphs_[w])  BY <4>1
      <4> QED  BY <1>3, <4>1, <4>2
    <3>5. <<w, i>> \in room  BY <3>3, <3>4
    <3>6. \E p \in room : p[2] \in DOMAIN tls_exe_graphs_[p[1]] /\ tls_exe_graphs_[p[1]][p[2]] = g
      BY <3>2, <3>5
    <3> HIDE DEF room
    <3> QED  BY <3>6
  <2>2. f \in Injection(K, room)
    <3> HIDE DEF at, room, K
    <3>1. f \in [K -> room]  BY <2>1
    <3>2. ASSUME NEW x \in K, NEW y \in K, f[x] = f[y] PROVE x = y
      <4>1. at(x) = at(y)  BY <3>2
      <4> QED  BY <2>1, <4>1
    <3> HIDE DEF f
    <3> QED  BY <3>1, <3>2, Fun_IsInj
  <2> HIDE DEF f, room, K
  <2> QED  BY <1>9, <2>2, FS_Injection
<1>11. Cardinality(B) <= Cardinality(U \cup L)
  <2> DEFINE holds(g, x) == (x \in GraphUsers /\ inUse[x] = g) \/ (x \in GraphThreads /\ releasing[x] = g)
             at(g) == CHOOSE x \in U \cup L : holds(g, x)
             f == [g \in B |-> at(g)]
  <2>1. GraphUsers \cap GraphThreads = {}  BY GraphAssumption DEF GraphThreads
  <2>2. ASSUME NEW g \in B PROVE at(g) \in U \cup L /\ holds(g, at(g))
    <3>1. g # NoGraph  BY GraphIs
    <3>2. \E x \in U \cup L : holds(g, x)  BY <3>1 DEF Used, Leaving
    <3> HIDE DEF U, L, holds
    <3> QED  BY <3>2
  <2>3. f \in Injection(B, U \cup L)
    <3> HIDE DEF at, B, U, L
    <3>1. f \in [B -> U \cup L]  BY <2>2
    <3>2. ASSUME NEW x \in B, NEW y \in B, f[x] = f[y] PROVE x = y
      <4>1. at(x) = at(y)  BY <3>2
      <4> QED  BY <2>1, <2>2, <4>1
    <3> HIDE DEF f
    <3> QED  BY <3>1, <3>2, Fun_IsInj
  <2> HIDE DEF f, B, U, L
  <2> QED  BY <1>7, <2>3, FS_Injection
<1> HIDE DEF U, L, C, K, B, others, room
<1>12. Cardinality(C) <= Cardinality(K) + Cardinality(B)
  <2>1. /\ Cardinality(K \cup B) = Cardinality(K) + Cardinality(B) - Cardinality(K \cap B)
        /\ Cardinality(K \cap B) \in Nat /\ Cardinality(K) \in Nat /\ Cardinality(B) \in Nat
    BY <1>6, FS_Union, FS_Intersection, FS_CardinalityType
  <2> QED  BY <1>5, <2>1
<1>13. /\ Cardinality(K) \in Nat /\ Cardinality(B) \in Nat /\ Cardinality(U \cup L) \in Nat
       /\ Cardinality(GraphThreads) \in Nat /\ Cardinality(others) \in Nat /\ Cardinality(room) \in Nat
  BY <1>2, <1>6, <1>7, <1>8, <1>9, FS_CardinalityType
<1>14. Cardinality(room) = tls_size_ * (Cardinality(GraphThreads) - 1)  BY <1>3, <1>8, <1>9, <1>13
<1>15. Cardinality(U \cup L) >= GraphPoolSize - Cardinality(room)  BY <1>3, <1>4, <1>10, <1>11, <1>12, <1>13
<1> QED  BY <1>14, <1>15 DEF U, L

LEMMA GraphInvSays == GraphInv => GraphsOK
<1> SUFFICES ASSUME GraphInv PROVE GraphsOK  OBVIOUS
<1>1. ExclusiveGraph
  <2> SUFFICES ASSUME mode_ = "pool", NEW g \in Graph PROVE Places(g) <= 1 /\ (g[1] = version_ => Places(g) = 1)
    BY DEF ExclusiveGraph
  <2>1. GraphFits(g)  BY DEF GraphInv
  <2> QED  BY <2>1, PlacesAre DEF GraphFits
<1>2. StaleServedOnce
  <2> SUFFICES ASSUME NEW g \in Graph PROVE served[g] <= 1  BY DEF StaleServedOnce
  <2>1. mode_ = "singleton" => served[g] = 0  BY DEF GraphInv
  <2>2. mode_ = "pool" => served[g] <= 1  BY DEF GraphInv, GraphFits
  <2> QED  BY <2>1, <2>2 DEF GraphInv, GraphTypeOK
<1>3. StarvesOnlyWhenBusy  BY BusyGraphs DEF StarvesOnlyWhenBusy
<1> QED  BY <1>1, <1>2, <1>3 DEF GraphsOK

\* GetExeGraph, ReleaseExeGraph and ReloadGraph, for any numbers of workers,
\* callback threads, workflows, graphs and reloads: a graph is in one place
\* and none of the current version is lost, an old one is handed out once at
\* most, and a worker that finds none does so because so many are in use.
THEOREM GraphsCorrect == GraphSpec => []GraphsOK
<1>1. GraphSpec => []GraphInv  BY GraphInvInit, GraphInvNext, PTL DEF GraphSpec
<1> QED  BY <1>1, GraphInvSays, PTL

-----------------------------------------------------------------------------
(* The reader: the samples it has taken fit the file, and what it printed   *)
(* fits the samples (ReaderInv).                                            *)

Timers == [count : Nat, time : Nat, slices : [Slots -> Nat]]
CounterMaps == UNION {[D -> Nat] : D \in SUBSET CounterNames}
TimerMaps == UNION {[D -> Timers] : D \in SUBSET CounterNames}

\* Three maps, of which those of counters and timers are described.
Sample(m) ==
  /\ m = [kind \in CounterKinds |-> m[kind]]
  /\ m["C"] \in CounterMaps /\ m["T"] \in TimerMaps

\* The file, or a sample of it, at an earlier and at a later time.
Grown(a, b) ==
  /\ \A n \in DOMAIN a["C"] : n \in DOMAIN b["C"] /\ a["C"][n] <= b["C"][n]
  /\ \A n \in DOMAIN a["T"] : n \in DOMAIN b["T"] /\ a["T"][n].count <= b["T"][n].count

GotC == readerPc \in {<<"get", "T">>, <<"get", "B">>, <<"filter">>}
GotT == readerPc \in {<<"get", "B">>, <<"filter">>}
Ready == readerPc \in {<<"print">>, <<"printed">>}

SamplesFit ==
  /\ Sample(entries) /\ Sample(all) /\ Sample(filtered) /\ Sample(old)
  /\ Sample(msShown) /\ Sample(msBase)
  /\ \A kind \in {"C", "T"} : /\ DOMAIN filtered[kind] \subseteq DOMAIN all[kind]
                              /\ DOMAIN all[kind] \subseteq DOMAIN entries[kind]

\* What was printed adds up to the values of the old map.
ShownFits ==
  /\ DOMAIN msShown["C"] = DOMAIN old["C"] /\ DOMAIN msShown["T"] = DOMAIN old["T"]
  /\ \A n \in DOMAIN old["C"] : msShown["C"][n] = old["C"][n] % CountMod
  /\ \A n \in DOMAIN old["T"] :
       IF options.slices THEN msShown["T"][n].slices = old["T"][n].slices
       ELSE msShown["T"][n].count = old["T"][n].count /\ msShown["T"][n].time = old["T"][n].time
  /\ Printed => old = filtered

\* A sample is as old as the table before at most.
CurrentC(m, n) ==
  n \in DOMAIN msBase["C"] => n \in DOMAIN m["C"] /\ msBase["C"][n] <= m["C"][n] /\ m["C"][n] <= entries["C"][n]
CurrentT(m, n) ==
  n \in DOMAIN msBase["T"] => /\ n \in DOMAIN m["T"] /\ msBase["T"][n].count <= m["T"][n].count
                              /\ m["T"][n].count <= entries["T"][n].count

CurrentFits ==
  /\ Grown(msBase, entries)
  /\ GotC => \A n \in CounterNames : CurrentC(all, n)
  /\ GotT => \A n \in CounterNames : CurrentT(all, n)
  /\ Ready => \A n \in Matched : CurrentC(filtered, n) /\ CurrentT(filtered, n)

ReaderInv == SamplesFit /\ ShownFits /\ CurrentFits

-----------------------------------------------------------------------------
LEMMA SampleFacts ==
  ASSUME NEW m, Sample(m)
  PROVE  /\ DOMAIN m = CounterKinds
         /\ DOMAIN m["C"] \subseteq CounterNames /\ \A n \in DOMAIN m["C"] : m["C"][n] \in Nat
         /\ DOMAIN m["T"] \subseteq CounterNames /\ \A n \in DOMAIN m["T"] : m["T"][n] \in Timers
         /\ m["C"] = [n \in DOMAIN m["C"] |-> m["C"][n]]
         /\ m["T"] = [n \in DOMAIN m["T"] |-> m["T"][n]]
<1>1. DOMAIN m = CounterKinds
  BY DEF Sample
<1>2. PICK D \in SUBSET CounterNames : m["C"] \in [D -> Nat]
  BY DEF Sample, CounterMaps
<1>3. PICK E \in SUBSET CounterNames : m["T"] \in [E -> Timers]
  BY DEF Sample, TimerMaps
<1> QED BY <1>1, <1>2, <1>3

LEMMA SampleIs ==
  ASSUME NEW m, DOMAIN m = CounterKinds, m = [kind \in CounterKinds |-> m[kind]],
         NEW D \in SUBSET CounterNames, m["C"] \in [D -> Nat],
         NEW E \in SUBSET CounterNames, m["T"] \in [E -> Timers]
  PROVE  Sample(m)
BY DEF Sample, CounterMaps, TimerMaps

LEMMA GrownTwice ==
  ASSUME NEW a, NEW b, NEW c, Sample(a), Sample(b), Sample(c), Grown(a, b), Grown(b, c)
  PROVE  Grown(a, c)
<1>1. ASSUME NEW n \in DOMAIN a["C"] PROVE n \in DOMAIN c["C"] /\ a["C"][n] <= c["C"][n]
  <2>1. /\ n \in DOMAIN b["C"] /\ n \in DOMAIN c["C"] /\ a["C"][n] <= b["C"][n] /\ b["C"][n] <= c["C"][n]
        /\ a["C"][n] \in Nat /\ b["C"][n] \in Nat /\ c["C"][n] \in Nat
    BY SampleFacts DEF Grown
  <2> QED BY <2>1
<1>2. ASSUME NEW n \in DOMAIN a["T"] PROVE n \in DOMAIN c["T"] /\ a["T"][n].count <= c["T"][n].count
  <2>1. /\ n \in DOMAIN b["T"] /\ n \in DOMAIN c["T"]
        /\ a["T"][n].count <= b["T"][n].count /\ b["T"][n].count <= c["T"][n].count
    BY DEF Grown
  <2>2. a["T"][n].count \in Nat /\ b["T"][n].count \in Nat /\ c["T"][n].count \in Nat
    BY <2>1, SampleFacts DEF Timers
  <2> QED BY <2>1, <2>2
<1> QED BY <1>1, <1>2 DEF Grown

\* The servers only add to the file.
LEMMA ServersKeepReader ==
  ASSUME ReaderInv, Sample(entries'), Grown(entries, entries'), UpdaterOnly
  PROVE  ReaderInv'
<1>1. /\ UNCHANGED <<impl, options, all, filtered, old, readerPc, msShown, msBase>>
  BY DEF UpdaterOnly
<1>2. DOMAIN entries["C"] \subseteq DOMAIN entries'["C"] /\ DOMAIN entries["T"] \subseteq DOMAIN entries'["T"]
  BY DEF Grown
<1>3. SamplesFit'
  BY <1>1, <1>2 DEF SamplesFit, ReaderInv
<1>4. ShownFits'
  BY <1>1 DEF ShownFits, ReaderInv, Printed
<1>5. Grown(msBase, entries')
  BY GrownTwice DEF ReaderInv, SamplesFit, CurrentFits
<1>6. ASSUME NEW m, Sample(m), NEW n, CurrentC(m, n)
      PROVE  n \in DOMAIN msBase["C"] => n \in DOMAIN m["C"] /\ msBase["C"][n] <= m["C"][n] /\ m["C"][n] <= entries'["C"][n]
  <2> SUFFICES ASSUME n \in DOMAIN msBase["C"] PROVE n \in DOMAIN m["C"] /\ msBase["C"][n] <= m["C"][n] /\ m["C"][n] <= entries'["C"][n]
    OBVIOUS
  <2>1. n \in DOMAIN m["C"] /\ msBase["C"][n] <= m["C"][n] /\ m["C"][n] <= entries["C"][n]
    BY <1>6 DEF CurrentC
  <2>2. n \in DOMAIN entries["C"] /\ entries["C"][n] <= entries'["C"][n] /\ n \in DOMAIN entries'["C"]
    BY DEF ReaderInv, CurrentFits, Grown
  <2>3. m["C"][n] \in Nat
    BY <1>6, <2>1, SampleFacts
  <2>4. entries["C"][n] \in Nat /\ entries'["C"][n] \in Nat
    BY <2>2, SampleFacts DEF ReaderInv, SamplesFit
  <2> QED BY <2>1, <2>2, <2>3, <2>4
<1>7. ASSUME NEW m, Sample(m), NEW n, CurrentT(m, n)
      PROVE  n \in DOMAIN msBase["T"] => /\ n \in DOMAIN m["T"] /\ msBase["T"][n].count <= m["T"][n].count
                                         /\ m["T"][n].count <= entries'["T"][n].count
  <2> SUFFICES ASSUME n \in DOMAIN msBase["T"]
               PROVE  /\ n \in DOMAIN m["T"] /\ msBase["T"][n].count <= m["T"][n].count
                      /\ m["T"][n].count <= entries'["T"][n].count
    OBVIOUS
  <2>1. n \in DOMAIN m["T"] /\ msBase["T"][n].count <= m["T"][n].count /\ m["T"][n].count <= entries["T"][n].count
    BY <1>7 DEF CurrentT
  <2>2. n \in DOMAIN entries["T"] /\ entries["T"][n].count <= entries'["T"][n].count /\ n \in DOMAIN entries'["T"]
    BY DEF ReaderInv, CurrentFits, Grown
  <2>3. m["T"][n].count \in Nat
    BY <1>7, <2>1, SampleFacts DEF Timers
  <2>4. entries["T"][n].count \in Nat /\ entries'["T"][n].count \in Nat
    BY <2>2, SampleFacts DEF ReaderInv, SamplesFit, Timers
  <2> QED BY <2>1, <2>2, <2>3, <2>4
<1>8. CurrentFits'
  <2>1. GotC => \A n \in CounterNames : CurrentC(all, n)'
    BY <1>1, <1>6 DEF CurrentFits, ReaderInv, SamplesFit, CurrentC
  <2>2. GotT => \A n \in CounterNames : CurrentT(all, n)'
    BY <1>1, <1>7 DEF CurrentFits, ReaderInv, SamplesFit, CurrentT
  <2>3. ASSUME Ready, NEW n \in Matched PROVE CurrentC(filtered, n)'
    BY <1>1, <1>6, <2>3 DEF CurrentFits, ReaderInv, SamplesFit, CurrentC
  <2>4. ASSUME Ready, NEW n \in Matched PROVE CurrentT(filtered, n)'
    BY <1>1, <1>7, <2>4 DEF CurrentFits, ReaderInv, SamplesFit, CurrentT
  <2>5. Matched' = Matched
    BY <1>1 DEF Matched
  <2> QED BY <1>1, <1>5, <2>1, <2>2, <2>3, <2>4, <2>5 DEF CurrentFits, GotC, GotT, Ready
<1> QED BY <1>3, <1>4, <1>8 DEF ReaderInv

LEMMA GrownSelf ==
  ASSUME NEW m, Sample(m)
  PROVE  Grown(m, m)
<1>1. \A n \in DOMAIN m["C"] : m["C"][n] \in Nat
  BY SampleFacts
<1>2. \A n \in DOMAIN m["T"] : m["T"][n].count \in Nat
  BY SampleFacts DEF Timers
<1> QED BY <1>1, <1>2 DEF Grown

LEMMA ReaderStarts ==
  ASSUME ReaderAssumption, ReaderInit
  PROVE  ReaderInv
<1>1. Sample(Empty) /\ DOMAIN Empty["C"] = {} /\ DOMAIN Empty["T"] = {}
  <2>1. Empty["C"] = <<>> /\ Empty["T"] = <<>> /\ DOMAIN Empty = CounterKinds
    BY DEF Empty, CounterKinds
  <2>2. <<>> \in [{} -> Nat] /\ <<>> \in [{} -> Timers] /\ DOMAIN <<>> = {}
    OBVIOUS
  <2>3. Empty = [kind \in CounterKinds |-> Empty[kind]]
    BY DEF Empty
  <2> QED BY <2>1, <2>2, <2>3, SampleIs
<1>2. Zero["C"] \in Nat /\ Zero["T"] \in Timers
  BY DEF Zero, Timers
<1>3. Sample(entries)
  <2>1. DOMAIN entries = CounterKinds /\ entries = [kind \in CounterKinds |-> entries[kind]]
    BY DEF ReaderInit
  <2>2. entries["C"] \in [OldNames -> Nat] /\ entries["T"] \in [OldNames -> Timers]
    BY <1>2 DEF ReaderInit, CounterKinds
  <2> QED BY <2>1, <2>2, SampleIs DEF ReaderAssumption
<1>4. impl = Empty /\ all = Empty /\ filtered = Empty /\ old = Empty /\ msShown = Empty
      /\ msBase = entries /\ readerPc = <<"main">>
  BY DEF ReaderInit
<1>5. SamplesFit
  BY <1>1, <1>3, <1>4 DEF SamplesFit
<1>6. ~Printed /\ ~GotC /\ ~GotT /\ ~Ready
  BY <1>4 DEF Printed, GotC, GotT, Ready
<1>7. ShownFits
  BY <1>1, <1>4, <1>6 DEF ShownFits
<1>8. Grown(entries, entries)
  BY <1>3, GrownSelf
<1> QED BY <1>4, <1>5, <1>6, <1>7, <1>8 DEF ReaderInv, CurrentFits

LEMMA Parsed ==
  /\ ParseCounters["C"] = entries["C"] /\ ParseCounters["T"] = entries["T"]
BY DEF ParseCounters, Counters

\* A map of one kind replaced by what was parsed.
LEMMA SampleTaken ==
  ASSUME NEW m, Sample(m), NEW e, Sample(e), NEW kind \in CounterKinds, NEW w, w = [k \in CounterKinds |-> w[k]],
         \A k \in CounterKinds : k # kind => w[k] = m[k],
         kind = "C" => w[kind] = e["C"], kind = "T" => w[kind] = e["T"]
  PROVE  /\ Sample(w)
         /\ w["C"] = IF kind = "C" THEN e["C"] ELSE m["C"]
         /\ w["T"] = IF kind = "T" THEN e["T"] ELSE m["T"]
<1>1. w["C"] = (IF kind = "C" THEN e["C"] ELSE m["C"]) /\ w["T"] = (IF kind = "T" THEN e["T"] ELSE m["T"])
  BY DEF CounterKinds
<1> QED BY <1>1 DEF Sample

LEMMA MainKeepsReader ==
  ASSUME ReaderInv, Main \/ PrintOnce \/ Again
  PROVE  ReaderInv'
<1>1. UNCHANGED <<entries, options, all, filtered, old, msShown>> /\ (msBase' = msBase \/ msBase' = entries)
  BY DEF Main, PrintOnce, Again, ReaderOnly
<1>2. ~GotC' /\ ~GotT' /\ ~Ready' /\ ~Printed'
  <2>1. readerPc' \in {<<"usage">>, <<"first", "C">>, <<"get", "C">>, <<"end">>}
    BY DEF Main, PrintOnce, Again
  <2> QED BY <2>1 DEF GotC, GotT, Ready, Printed
<1>3. Sample(msBase')
  BY <1>1 DEF ReaderInv, SamplesFit
<1>4. SamplesFit'
  BY <1>1, <1>3 DEF ReaderInv, SamplesFit
<1>5. ShownFits'
  BY <1>1, <1>2 DEF ReaderInv, ShownFits
<1>6. Grown(entries, entries)
  BY GrownSelf DEF ReaderInv, SamplesFit
<1>7. Grown(msBase', entries)
  BY <1>1, <1>6 DEF ReaderInv, CurrentFits
<1> QED BY <1>1, <1>2, <1>4, <1>5, <1>7 DEF ReaderInv, CurrentFits

LEMMA FirstKeepsReader ==
  ASSUME ReaderAssumption, ReaderInv, NEW kind \in CounterKinds, First(kind)
  PROVE  ReaderInv'
<1>1. UNCHANGED <<entries, options, all, filtered, msBase>>
  BY DEF First, ReaderOnly
<1>2. ~GotC' /\ ~GotT' /\ ~Ready' /\ ~Printed'
  <2>1. readerPc' \in {<<"get", "C">>, <<"first", After[kind]>>}
    BY DEF First
  <2> QED BY <2>1 DEF GotC, GotT, Ready, Printed
<1>3. /\ Sample(old') /\ old'["C"] = (IF kind = "C" THEN entries["C"] ELSE old["C"])
      /\ old'["T"] = (IF kind = "T" THEN entries["T"] ELSE old["T"])
  <2>1. old' = [old EXCEPT ![kind] = ParseCounters[kind]]
    BY DEF First
  <2>2. Sample(old) /\ Sample(entries)
    BY DEF ReaderInv, SamplesFit
  <2>3. DOMAIN old = CounterKinds
    BY <2>2, SampleFacts
  <2>4. /\ old' = [k \in CounterKinds |-> old'[k]]
        /\ \A k \in CounterKinds : k # kind => old'[k] = old[k]
        /\ old'[kind] = ParseCounters[kind]
    BY <2>1, <2>3
  <2>5. /\ kind = "C" => old'[kind] = entries["C"]
        /\ kind = "T" => old'[kind] = entries["T"]
    BY <2>4, Parsed
  <2> QED BY <2>2, <2>4, <2>5, SampleTaken
<1>4. /\ Sample(msShown')
      /\ msShown'["C"] = (IF kind = "C" THEN [n \in DOMAIN entries["C"] |-> entries["C"][n] % CountMod] ELSE msShown["C"])
      /\ msShown'["T"] = (IF kind = "T" THEN entries["T"] ELSE msShown["T"])
  <2>1. msShown' = [msShown EXCEPT ![kind] = IF kind = "C" THEN [n \in DOMAIN old'.C |-> old'.C[n] % CountMod] ELSE old'[kind]]
    BY DEF First
  <2>2. Sample(msShown) /\ Sample(entries)
    BY DEF ReaderInv, SamplesFit
  <2>3. DOMAIN msShown = CounterKinds
    BY <2>2, SampleFacts
  <2>4. /\ msShown'["C"] = (IF kind = "C" THEN [n \in DOMAIN entries["C"] |-> entries["C"][n] % CountMod] ELSE msShown["C"])
        /\ msShown'["T"] = (IF kind = "T" THEN entries["T"] ELSE msShown["T"])
    BY <1>3, <2>1, <2>3 DEF CounterKinds
  <2>5. msShown' = [k \in CounterKinds |-> msShown'[k]]
    BY <2>1, <2>3
  <2>6. msShown'["C"] \in CounterMaps
    <3>1. CASE kind = "C"
      <4>1. DOMAIN entries["C"] \in SUBSET CounterNames /\ \A n \in DOMAIN entries["C"] : entries["C"][n] \in Nat
        BY <2>2, SampleFacts
      <4>2. \A n \in DOMAIN entries["C"] : entries["C"][n] % CountMod \in Nat
        BY <4>1 DEF ReaderAssumption
      <4> QED BY <2>4, <3>1, <4>1, <4>2 DEF CounterMaps
    <3>2. CASE kind # "C"
      BY <2>2, <2>4, <3>2 DEF Sample
    <3> QED BY <3>1, <3>2
  <2>7. msShown'["T"] \in TimerMaps
    BY <2>2, <2>4 DEF Sample
  <2> QED BY <2>4, <2>5, <2>6, <2>7 DEF Sample
<1>5. SamplesFit'
  BY <1>1, <1>3, <1>4 DEF ReaderInv, SamplesFit
<1>6. DOMAIN msShown'["C"] = DOMAIN old'["C"] /\ \A n \in DOMAIN old'["C"] : msShown'["C"][n] = old'["C"][n] % CountMod
  BY <1>3, <1>4 DEF ReaderInv, ShownFits
<1>7. DOMAIN msShown'["T"] = DOMAIN old'["T"]
      /\ \A n \in DOMAIN old'["T"] :
           IF options.slices THEN msShown'["T"][n].slices = old'["T"][n].slices
           ELSE msShown'["T"][n].count = old'["T"][n].count /\ msShown'["T"][n].time = old'["T"][n].time
  BY <1>3, <1>4 DEF ReaderInv, ShownFits
<1>8. ShownFits'
  BY <1>1, <1>2, <1>6, <1>7 DEF ShownFits
<1> QED BY <1>1, <1>2, <1>5, <1>8 DEF ReaderInv, CurrentFits

LEMMA GetAllKeepsReader ==
  ASSUME ReaderInv, NEW kind \in CounterKinds, GetAll(kind)
  PROVE  ReaderInv'
<1>1. UNCHANGED <<entries, options, filtered, old, msShown, msBase>>
  BY DEF GetAll, ReaderOnly
<1>2. /\ ~Ready' /\ ~Printed'
      /\ GotC' => kind = "C" \/ GotC
      /\ GotT' => kind = "T" \/ GotT
  <2>1. readerPc = <<"get", kind>> /\ readerPc' = (IF kind = "B" THEN <<"filter">> ELSE <<"get", After[kind]>>)
    BY DEF GetAll
  <2>2. /\ kind = "C" => readerPc' = <<"get", "T">>
        /\ kind = "T" => readerPc = <<"get", "T">> /\ readerPc' = <<"get", "B">>
        /\ kind = "B" => readerPc = <<"get", "B">> /\ readerPc' = <<"filter">>
    BY <2>1 DEF After
  <2> QED BY <2>2 DEF GotC, GotT, Ready, Printed, CounterKinds
<1>3. /\ Sample(all') /\ all'["C"] = (IF kind = "C" THEN entries["C"] ELSE all["C"])
      /\ all'["T"] = (IF kind = "T" THEN entries["T"] ELSE all["T"])
  <2>1. all' = [all EXCEPT ![kind] = ParseCounters[kind]]
    BY DEF GetAll
  <2>2. Sample(all) /\ Sample(entries)
    BY DEF ReaderInv, SamplesFit
  <2>3. DOMAIN all = CounterKinds
    BY <2>2, SampleFacts
  <2>4. /\ all' = [k \in CounterKinds |-> all'[k]]
        /\ \A k \in CounterKinds : k # kind => all'[k] = all[k]
        /\ all'[kind] = ParseCounters[kind]
    BY <2>1, <2>3
  <2>5. /\ kind = "C" => all'[kind] = entries["C"]
        /\ kind = "T" => all'[kind] = entries["T"]
    BY <2>4, Parsed
  <2> QED BY <2>2, <2>4, <2>5, SampleTaken
<1>4. SamplesFit'
  BY <1>1, <1>3 DEF ReaderInv, SamplesFit
<1>5. ShownFits'
  BY <1>1, <1>2 DEF ReaderInv, ShownFits
<1>6. ASSUME GotC', NEW n \in CounterNames PROVE CurrentC(all, n)'
  <2>1. CASE kind = "C"
    <3>1. ASSUME n \in DOMAIN msBase["C"]
          PROVE  n \in DOMAIN entries["C"] /\ msBase["C"][n] <= entries["C"][n] /\ entries["C"][n] \in Nat
      BY <3>1, SampleFacts DEF ReaderInv, SamplesFit, CurrentFits, Grown
    <3>2. all'["C"] = entries["C"]
      BY <1>3, <2>1
    <3> QED BY <1>1, <3>1, <3>2 DEF CurrentC
  <2>2. CASE kind # "C"
    BY <1>1, <1>2, <1>3, <1>6, <2>2 DEF CurrentC, ReaderInv, CurrentFits
  <2> QED BY <2>1, <2>2
<1>7. ASSUME GotT', NEW n \in CounterNames PROVE CurrentT(all, n)'
  <2>1. CASE kind = "T"
    <3>1. ASSUME n \in DOMAIN msBase["T"]
          PROVE  n \in DOMAIN entries["T"] /\ msBase["T"][n].count <= entries["T"][n].count /\ entries["T"][n].count \in Nat
      <4>1. n \in DOMAIN entries["T"] /\ msBase["T"][n].count <= entries["T"][n].count
        BY <3>1 DEF ReaderInv, CurrentFits, Grown
      <4>2. entries["T"][n].count \in Nat
        BY <4>1, SampleFacts DEF ReaderInv, SamplesFit, Timers
      <4> QED BY <4>1, <4>2
    <3>2. all'["T"] = entries["T"]
      BY <1>3, <2>1
    <3> QED BY <1>1, <3>1, <3>2 DEF CurrentT
  <2>2. CASE kind # "T"
    BY <1>1, <1>2, <1>3, <1>7, <2>2 DEF CurrentT, ReaderInv, CurrentFits
  <2> QED BY <2>1, <2>2
<1>8. Grown(msBase', entries')
  BY <1>1 DEF ReaderInv, CurrentFits
<1> QED BY <1>2, <1>4, <1>5, <1>6, <1>7, <1>8 DEF ReaderInv, CurrentFits

LEMMA FilterKeepsReader ==
  ASSUME ReaderInv, CounterFilter
  PROVE  ReaderInv'
<1> DEFINE OfKind(kind) == DOMAIN filtered[kind] \cup {m \in DOMAIN all[kind] : options.search => m \in Searched}
<1>1. UNCHANGED <<entries, options, all, old, msShown, msBase>>
  BY DEF CounterFilter, ReaderOnly
<1>2. ~GotC' /\ ~GotT' /\ ~Printed' /\ GotC /\ GotT
  <2>1. readerPc = <<"filter">> /\ readerPc' \in {<<"json">>, <<"text">>, <<"print">>}
    BY DEF CounterFilter
  <2> QED BY <2>1 DEF GotC, GotT, Printed
<1>3. /\ Sample(all) /\ Sample(filtered)
      /\ \A kind \in {"C", "T"} : DOMAIN filtered[kind] \subseteq DOMAIN all[kind]
  BY DEF ReaderInv, SamplesFit
<1>4. /\ filtered' = [kind \in CounterKinds |-> filtered'[kind]]
      /\ \A kind \in CounterKinds :
           filtered'[kind] = [n \in OfKind(kind) |->
             IF options.search => n \in Searched THEN all[kind][n] ELSE filtered[kind][n]]
  BY DEF CounterFilter
<1>5. \A kind \in {"C", "T"} : OfKind(kind) \subseteq DOMAIN all[kind]
  BY <1>3
<1>6. \A n \in OfKind("C") : n \in CounterNames /\ filtered'["C"][n] \in Nat
  <2> TAKE n \in OfKind("C")
  <2>1. n \in DOMAIN all["C"] /\ n \in CounterNames /\ all["C"][n] \in Nat
    BY <1>3, <1>5, SampleFacts
  <2>2. ~(options.search => n \in Searched) => n \in DOMAIN filtered["C"]
    OBVIOUS
  <2>3. n \in DOMAIN filtered["C"] => filtered["C"][n] \in Nat
    BY <1>3, SampleFacts
  <2> QED BY <1>4, <2>1, <2>2, <2>3 DEF CounterKinds
<1>7. \A n \in OfKind("T") : n \in CounterNames /\ filtered'["T"][n] \in Timers
  <2> TAKE n \in OfKind("T")
  <2>1. n \in DOMAIN all["T"] /\ n \in CounterNames /\ all["T"][n] \in Timers
    BY <1>3, <1>5, SampleFacts
  <2>2. ~(options.search => n \in Searched) => n \in DOMAIN filtered["T"]
    OBVIOUS
  <2>3. n \in DOMAIN filtered["T"] => filtered["T"][n] \in Timers
    BY <1>3, SampleFacts
  <2> QED BY <1>4, <2>1, <2>2, <2>3 DEF CounterKinds
<1>8. /\ DOMAIN filtered'["C"] = OfKind("C") /\ DOMAIN filtered'["T"] = OfKind("T")
      /\ DOMAIN filtered' = CounterKinds
  BY <1>4 DEF CounterKinds
<1>9. \A n \in Matched : /\ n \in DOMAIN all["C"] => n \in OfKind("C") /\ filtered'["C"][n] = all["C"][n]
                         /\ n \in DOMAIN all["T"] => n \in OfKind("T") /\ filtered'["T"][n] = all["T"][n]
  BY <1>4 DEF Matched, CounterKinds
<1>10. filtered'["C"] = [n \in OfKind("C") |-> filtered'["C"][n]] /\ filtered'["T"] = [n \in OfKind("T") |-> filtered'["T"][n]]
  BY <1>4 DEF CounterKinds
<1> HIDE DEF OfKind
<1>11. Sample(filtered')
  <2>1. OfKind("C") \in SUBSET CounterNames /\ OfKind("T") \in SUBSET CounterNames
    BY <1>6, <1>7
  <2>2. filtered'["C"] \in [OfKind("C") -> Nat]
    BY <1>6, <1>8, <1>10
  <2>3. filtered'["T"] \in [OfKind("T") -> Timers]
    BY <1>7, <1>8, <1>10
  <2> QED BY <1>4, <2>1, <2>2, <2>3 DEF Sample, CounterMaps, TimerMaps
<1>12. SamplesFit'
  BY <1>1, <1>5, <1>8, <1>11 DEF ReaderInv, SamplesFit
<1>13. ShownFits'
  BY <1>1, <1>2 DEF ReaderInv, ShownFits
<1>14. Matched' = Matched
  BY <1>1 DEF Matched
<1>15. ASSUME NEW n \in Matched PROVE CurrentC(filtered, n)'
  <2>1. CurrentC(all, n)
    BY <1>2 DEF ReaderInv, CurrentFits, Matched
  <2> QED BY <1>1, <1>8, <1>9, <2>1 DEF CurrentC
<1>16. ASSUME NEW n \in Matched PROVE CurrentT(filtered, n)'
  <2>1. CurrentT(all, n)
    BY <1>2 DEF ReaderInv, CurrentFits, Matched
  <2> QED BY <1>1, <1>8, <1>9, <2>1 DEF CurrentT
<1>17. Grown(msBase', entries')
  BY <1>1 DEF ReaderInv, CurrentFits
<1> QED BY <1>2, <1>12, <1>13, <1>14, <1>15, <1>16, <1>17 DEF ReaderInv, CurrentFits

\* The sum of a difference and of what it was taken from, as 32 bits hold it.
LEMMA DifferenceIn32 ==
  ASSUME ReaderAssumption, NEW x \in Nat, NEW y \in Nat
  PROVE  ((y % CountMod) + (x % CountMod) + CountMod - (y % CountMod)) % CountMod = x % CountMod
<1> DEFINE M == CountMod
<1>1. M \in Nat /\ M > 0
  BY DEF ReaderAssumption
<1> HIDE DEF M
<1>2. x % M \in 0..(M - 1) /\ y % M \in Nat
  BY <1>1
<1>3. \A a, b \in Nat : b + a + M - b = a + M
  BY <1>1
<1>4. (y % M) + (x % M) + M - (y % M) = (x % M) + M
  BY <1>2, <1>3
<1>5. \A a \in 0..(M - 1) : (a + M) % M = a
  BY <1>1
<1> QED BY <1>2, <1>4, <1>5 DEF M

LEMMA PrintKeepsReader ==
  ASSUME ReaderAssumption, ReaderInv, PrintTables
  PROVE  ReaderInv'
<1>1. UNCHANGED <<entries, options, all, filtered, msBase>> /\ old' = filtered
  BY DEF PrintTables, ReaderOnly, OldMaps
<1>2. ~GotC' /\ ~GotT' /\ Ready
  <2>1. readerPc = <<"print">> /\ readerPc' = <<"printed">>
    BY DEF PrintTables
  <2> QED BY <2>1 DEF GotC, GotT, Ready
<1>3. msShown' = [C |-> PrintCounterMap, T |-> PrintTimerMap, B |-> PrintBinaryMap]
  BY DEF PrintTables
<1>4. /\ msShown' = [kind \in CounterKinds |-> msShown'[kind]]
      /\ msShown'["C"] = PrintCounterMap /\ msShown'["T"] = PrintTimerMap
  BY <1>3 DEF CounterKinds
<1>5. Sample(filtered) /\ Sample(old) /\ Sample(msShown) /\ ShownFits
  BY DEF ReaderInv, SamplesFit
<1>6. Zero["C"] = 0 /\ Zero["C"] \in Nat /\ Zero["T"] \in Timers
  BY DEF Zero, Timers
<1>7. \A n \in DOMAIN filtered["C"] : PrintCounterMap[n] = filtered["C"][n] % CountMod
  <2> TAKE n \in DOMAIN filtered["C"]
  <2>1. filtered["C"][n] \in Nat
    BY <1>5, SampleFacts
  <2>2. OldOf("C", n) \in Nat
    BY <1>5, <1>6, SampleFacts DEF OldOf
  <2>3. 0 % CountMod = 0
    BY DEF ReaderAssumption
  <2>4. ShownOf("C", n) = OldOf("C", n) % CountMod
    BY <1>5, <1>6, <2>3 DEF ShownOf, OldOf, ShownFits
  <2>5. PrintCounterMap[n] =
          ((OldOf("C", n) % CountMod) + (filtered["C"][n] % CountMod) + CountMod - (OldOf("C", n) % CountMod)) % CountMod
    BY <2>4 DEF PrintCounterMap
  <2> QED BY <2>1, <2>2, <2>5, DifferenceIn32
<1>8. \A n \in DOMAIN filtered["C"] : PrintCounterMap[n] \in Nat
  <2>1. \A n \in DOMAIN filtered["C"] : filtered["C"][n] \in Nat
    BY <1>5, SampleFacts
  <2>2. \A x \in Nat : x % CountMod \in Nat
    BY DEF ReaderAssumption
  <2> QED BY <1>7, <2>1, <2>2
<1>9. PrintCounterMap = [n \in DOMAIN filtered["C"] |-> PrintCounterMap[n]]
  BY DEF PrintCounterMap
<1>10. ASSUME NEW n \in DOMAIN filtered["T"]
       PROVE  /\ filtered["T"][n] \in Timers /\ OldOf("T", n) \in Timers /\ ShownOf("T", n) \in Timers
              /\ IF options.slices THEN ShownOf("T", n).slices = OldOf("T", n).slices
                 ELSE ShownOf("T", n).count = OldOf("T", n).count /\ ShownOf("T", n).time = OldOf("T", n).time
  <2>1. filtered["T"][n] \in Timers
    BY <1>5, SampleFacts
  <2>2. OldOf("T", n) \in Timers
    BY <1>5, <1>6, SampleFacts DEF OldOf
  <2>3. ShownOf("T", n) \in Timers
    BY <1>5, <1>6, SampleFacts DEF ShownOf
  <2>4. n \in DOMAIN old["T"] <=> n \in DOMAIN msShown["T"]
    BY <1>5 DEF ShownFits
  <2>5. CASE n \in DOMAIN old["T"]
    BY <1>5, <2>1, <2>2, <2>3, <2>4, <2>5 DEF ShownOf, OldOf, ShownFits
  <2>6. CASE n \notin DOMAIN old["T"]
    BY <2>1, <2>2, <2>3, <2>4, <2>6 DEF ShownOf, OldOf
  <2> QED BY <2>5, <2>6
<1>11. ASSUME NEW n \in DOMAIN filtered["T"]
       PROVE  /\ PrintTimerMap[n] \in Timers
              /\ IF options.slices THEN PrintTimerMap[n].slices = filtered["T"][n].slices
                 ELSE PrintTimerMap[n].count = filtered["T"][n].count /\ PrintTimerMap[n].time = filtered["T"][n].time
  <2> DEFINE f == filtered["T"][n]
             o == OldOf("T", n)
             w == ShownOf("T", n)
  <2>1. f \in Timers /\ o \in Timers /\ w \in Timers
    BY <1>10
  <2>2. \A a, b \in Nat : a + b - a = b
    OBVIOUS
  <2>3. CASE options.slices
    <3>1. w.slices = o.slices
      BY <1>10, <2>3
    <3>2. PrintTimerMap[n] = [w EXCEPT !.slices = [i \in Slots |-> @[i] + f.slices[i] - o.slices[i]]]
      BY <2>3 DEF PrintTimerMap, ShowTimeSlice
    <3> HIDE DEF f, o, w
    <3>3. f.slices \in [Slots -> Nat] /\ o.slices \in [Slots -> Nat]
      BY <2>1 DEF Timers
    <3>4. \A i \in Slots : w.slices[i] + f.slices[i] - o.slices[i] = f.slices[i]
      BY <2>2, <3>1, <3>3
    <3>5. [i \in Slots |-> w.slices[i] + f.slices[i] - o.slices[i]] = f.slices
      BY <3>3, <3>4
    <3>6. PrintTimerMap[n] = [w EXCEPT !.slices = f.slices]
      BY <3>2, <3>5
    <3>7. PrintTimerMap[n] \in Timers /\ PrintTimerMap[n].slices = f.slices
      BY <2>1, <3>3, <3>6 DEF Timers
    <3> QED BY <2>3, <3>7 DEF f
  <2>4. CASE ~options.slices
    <3>1. w.count = o.count /\ w.time = o.time
      BY <1>10, <2>4
    <3>2. PrintTimerMap[n] = [w EXCEPT !.count = @ + f.count - o.count, !.time = @ + f.time - o.time]
      BY <2>4 DEF PrintTimerMap, PrintTimes
    <3> HIDE DEF f, o, w
    <3>3. f.count \in Nat /\ o.count \in Nat /\ f.time \in Nat /\ o.time \in Nat
      BY <2>1 DEF Timers
    <3>4. w.count + f.count - o.count = f.count /\ w.time + f.time - o.time = f.time
      BY <2>2, <3>1, <3>3
    <3>5. PrintTimerMap[n] = [w EXCEPT !.count = f.count, !.time = f.time]
      BY <3>2, <3>4
    <3>6. PrintTimerMap[n] \in Timers /\ PrintTimerMap[n].count = f.count /\ PrintTimerMap[n].time = f.time
      BY <2>1, <3>3, <3>5 DEF Timers
    <3> QED BY <2>4, <3>6 DEF f
  <2> QED BY <2>3, <2>4
<1>12. PrintTimerMap = [n \in DOMAIN filtered["T"] |-> PrintTimerMap[n]]
  BY DEF PrintTimerMap, ShowTimeSlice, PrintTimes
<1>13. Sample(msShown')
  <2>1. DOMAIN filtered["C"] \in SUBSET CounterNames /\ DOMAIN filtered["T"] \in SUBSET CounterNames
    BY <1>5, SampleFacts
  <2>2. PrintCounterMap \in [DOMAIN filtered["C"] -> Nat]
    BY <1>8, <1>9
  <2>3. PrintTimerMap \in [DOMAIN filtered["T"] -> Timers]
    BY <1>11, <1>12
  <2> QED BY <1>4, <2>1, <2>2, <2>3 DEF Sample, CounterMaps, TimerMaps
<1>14. SamplesFit'
  BY <1>1, <1>13 DEF ReaderInv, SamplesFit
<1>15. DOMAIN PrintCounterMap = DOMAIN filtered["C"] /\ DOMAIN PrintTimerMap = DOMAIN filtered["T"]
  BY <1>9, <1>12
<1>16. ShownFits'
  BY <1>1, <1>4, <1>7, <1>11, <1>15 DEF ShownFits
<1>17. Matched' = Matched
  BY <1>1 DEF Matched
<1>18. CurrentFits'
  BY <1>1, <1>2, <1>17 DEF ReaderInv, CurrentFits, CurrentC, CurrentT
<1> QED BY <1>14, <1>16, <1>18 DEF ReaderInv

-----------------------------------------------------------------------------
\* The updates of a timer that are under way, of updaters in the states f.
Flying(f, name, pcs) == {u \in Updaters : f[u].name = name /\ f[u].pc \in pcs}

Counting == {"time", "slice"}

\* What a timer holds while l updates have still to be put in a slice and
\* h of the last slice in a threshold.
SlicesFit(t, l, h) ==
  LET low == Marks(t.slices, 1, TimeSlot)
      high == Marks(t.slices, TimeSlot + 1, TimeSlot + Len(Thresholds))
  IN  /\ IsFiniteSet(low) /\ Cardinality(low) + l = t.count
      /\ IsFiniteSet(high) /\ Cardinality(high) + h <= t.slices[TimeSlot]

TimerFits(e, f, n) ==
  SlicesFit(e["T"][n], Cardinality(Flying(f, n, Counting)), Cardinality(Flying(f, n, {"threshold"})))

Updates == [pc : {"idle", "time", "slice", "threshold", "count"}, name : CounterNames \cup {"none"}, arg : Nat]
Under == {"time", "slice", "threshold"}

UpdaterFits ==
  /\ updater \in [Updaters -> Updates]
  /\ \A u \in Updaters : updater[u].pc \in Under => updater[u].name \in DOMAIN entries["T"]

TimersFit == UpdaterFits /\ \A n \in DOMAIN entries["T"] : TimerFits(entries, updater, n)

\* One more in slice j.
OneMore(s, r, j, S) == s[j] \in Nat /\ r[j] = s[j] + 1 /\ \A i \in S : i # j => r[i] = s[i]

LEMMA MarksMore ==
  ASSUME NEW a \in Nat, NEW b \in Nat, NEW j, NEW s, NEW r, OneMore(s, r, j, a..b), IsFiniteSet(Marks(s, a, b))
  PROVE  /\ IsFiniteSet(Marks(r, a, b))
         /\ Cardinality(Marks(s, a, b)) \in Nat /\ Cardinality(Marks(r, a, b)) \in Nat
         /\ j \in a..b => Cardinality(Marks(r, a, b)) = Cardinality(Marks(s, a, b)) + 1
         /\ j \notin a..b => Cardinality(Marks(r, a, b)) = Cardinality(Marks(s, a, b))
<1> USE DEF OneMore
<1>1. ASSUME NEW q PROVE \A p : p \in Marks(q, a, b) <=> \E i \in a..b : \E k \in 1..q[i] : p = <<i, k>>
  BY DEF Marks
<1>2. CASE j \in a..b
  <2> DEFINE p0 == <<j, s[j] + 1>>
  <2>1. p0 \notin Marks(s, a, b)
    <3> SUFFICES ASSUME p0 \in Marks(s, a, b) PROVE FALSE
      OBVIOUS
    <3>1. PICK i \in a..b, k \in Nat : k \in 1..s[i] /\ p0 = <<i, k>>
      BY <1>1
    <3>2. i = j /\ k = s[j] + 1
      BY <3>1
    <3> QED BY <3>1, <3>2
  <2>2. Marks(r, a, b) = Marks(s, a, b) \cup {p0}
    <3>1. ASSUME NEW p \in Marks(r, a, b) PROVE p \in Marks(s, a, b) \cup {p0}
      <4>1. PICK i \in a..b, k \in Nat : k \in 1..r[i] /\ p = <<i, k>>
        BY <1>1
      <4>2. CASE i = j
        <5>1. k \in 1..s[j] \/ k = s[j] + 1
          BY <4>1, <4>2
        <5> QED BY <1>1, <4>1, <4>2, <5>1
      <4>3. CASE i # j
        BY <1>1, <4>1, <4>3
      <4> QED BY <4>2, <4>3
    <3>2. ASSUME NEW p \in Marks(s, a, b) PROVE p \in Marks(r, a, b)
      <4>1. PICK i \in a..b, k \in Nat : k \in 1..s[i] /\ p = <<i, k>>
        BY <1>1
      <4>2. k \in 1..r[i]
        <5>1. CASE i = j
          BY <4>1, <5>1
        <5>2. CASE i # j
          BY <4>1, <5>2
        <5> QED BY <5>1, <5>2
      <4> QED BY <1>1, <4>1, <4>2
    <3>3. p0 \in Marks(r, a, b)
      <4>1. s[j] + 1 \in 1..r[j]
        OBVIOUS
      <4> QED BY <1>1, <1>2, <4>1
    <3> QED BY <3>1, <3>2, <3>3
  <2> HIDE DEF p0
  <2> QED BY <1>2, <2>1, <2>2, FS_AddElement, FS_CardinalityType
<1>3. CASE j \notin a..b
  <2>1. \A i \in a..b : r[i] = s[i]
    BY <1>3
  <2>2. Marks(r, a, b) = Marks(s, a, b)
    BY <2>1 DEF Marks
  <2> QED BY <1>3, <2>2, FS_CardinalityType
<1> QED BY <1>2, <1>3

Aloft(w, n, P) == w.name = n /\ w.pc \in P
Moved(f, g, u) == \A v \in Updaters \ {u} : g[v] = f[v]

\* One updater goes on.
LEMMA FlightMoves ==
  ASSUME ReaderAssumption, NEW f, NEW g, NEW u \in Updaters, Moved(f, g, u), NEW n, NEW P
  PROVE  /\ Cardinality(Flying(f, n, P)) \in Nat /\ Cardinality(Flying(g, n, P)) \in Nat
         /\ (Aloft(f[u], n, P) <=> Aloft(g[u], n, P))
              => Cardinality(Flying(g, n, P)) = Cardinality(Flying(f, n, P))
         /\ ~Aloft(f[u], n, P) /\ Aloft(g[u], n, P)
              => Cardinality(Flying(g, n, P)) = Cardinality(Flying(f, n, P)) + 1
         /\ Aloft(f[u], n, P) /\ ~Aloft(g[u], n, P)
              => Cardinality(Flying(f, n, P)) = Cardinality(Flying(g, n, P)) + 1
<1> DEFINE A == Flying(f, n, P)
           B == Flying(g, n, P)
<1>1. IsFiniteSet(A) /\ IsFiniteSet(B)
  <2>1. A \subseteq Updaters /\ B \subseteq Updaters
    BY DEF Flying
  <2> QED BY <2>1, FS_Subset DEF ReaderAssumption
<1>2. A \ {u} = B \ {u}
  BY DEF Flying, Moved
<1>3. (u \in A <=> Aloft(f[u], n, P)) /\ (u \in B <=> Aloft(g[u], n, P))
  BY DEF Flying, Aloft
<1> HIDE DEF A, B
<1>4. Cardinality(A) \in Nat /\ Cardinality(B) \in Nat
  BY <1>1, FS_CardinalityType
<1>5. (u \in A <=> u \in B) => A = B
  <2>1. \A v : v # u => (v \in A <=> v \in B)
    BY <1>2
  <2>2. (u \in A <=> u \in B) => \A v : v \in A <=> v \in B
    BY <2>1
  <2>3. (\A v : v \in A <=> v \in B) => A = B
    BY Zenon
  <2> QED BY <2>2, <2>3, Zenon
<1>6. u \notin A /\ u \in B => B = A \cup {u}
  BY <1>2
<1>7. u \in A /\ u \notin B => A = B \cup {u}
  BY <1>2
<1>8. u \notin A /\ u \in B => Cardinality(B) = Cardinality(A) + 1
  BY <1>1, <1>6, FS_AddElement
<1>9. u \in A /\ u \notin B => Cardinality(A) = Cardinality(B) + 1
  BY <1>1, <1>7, FS_AddElement
<1> QED BY <1>3, <1>4, <1>5, <1>8, <1>9 DEF A, B

LEMMA FlightSame ==
  ASSUME ReaderAssumption, NEW f, NEW g, NEW u \in Updaters, Moved(f, g, u), NEW n, NEW P,
         ~Aloft(f[u], n, P), ~Aloft(g[u], n, P)
  PROVE  Cardinality(Flying(g, n, P)) = Cardinality(Flying(f, n, P))
<1>1. Aloft(f[u], n, P) <=> Aloft(g[u], n, P)
  OBVIOUS
<1> QED BY <1>1, FlightMoves

LEMMA FlightStays ==
  ASSUME ReaderAssumption, NEW f, NEW g, NEW u \in Updaters, Moved(f, g, u), NEW n, NEW P,
         Aloft(f[u], n, P), Aloft(g[u], n, P)
  PROVE  Cardinality(Flying(g, n, P)) = Cardinality(Flying(f, n, P))
<1>1. Aloft(f[u], n, P) <=> Aloft(g[u], n, P)
  OBVIOUS
<1> QED BY <1>1, FlightMoves

\* A timer is written, and no count is lowered.
LEMMA TimerWritten ==
  ASSUME NEW e, Sample(e), NEW n \in DOMAIN e["T"], NEW t \in Timers, e["T"][n].count <= t.count,
         NEW d, d = [k \in CounterKinds |-> d[k]], d["C"] = e["C"], d["T"] = [e["T"] EXCEPT ![n] = t]
  PROVE  Sample(d) /\ Grown(e, d)
<1>1. DOMAIN e["T"] \in SUBSET CounterNames /\ \A m \in DOMAIN e["T"] : e["T"][m] \in Timers
  BY SampleFacts
<1>2. d["T"] \in [DOMAIN e["T"] -> Timers]
  BY <1>1, SampleFacts
<1>3. Sample(d)
  BY <1>1, <1>2 DEF Sample, TimerMaps
<1>4. \A m \in DOMAIN e["C"] : e["C"][m] \in Nat
  BY SampleFacts
<1>5. ASSUME NEW m \in DOMAIN e["T"] PROVE m \in DOMAIN d["T"] /\ e["T"][m].count <= d["T"][m].count
  <2>1. e["T"][m].count \in Nat
    BY <1>1 DEF Timers
  <2> QED BY <2>1
<1> QED BY <1>3, <1>4, <1>5 DEF Grown

\* An updater u of the timer n writes t in it and goes on to w.
TimerWrite(u, w, n, t) ==
  /\ updater' = [updater EXCEPT ![u] = w] /\ UpdaterOnly
  /\ n \in DOMAIN entries["T"] /\ entries["T"][n].count <= t.count
  /\ entries' = [k \in CounterKinds |-> entries'[k]] /\ entries'["C"] = entries["C"]
  /\ entries'["T"] = [entries["T"] EXCEPT ![n] = t]
  /\ updater[u].pc \in Under => updater[u].name = n
  /\ w.pc \in Under => w.name = n
  /\ SlicesFit(t, Cardinality(Flying(updater', n, Counting)), Cardinality(Flying(updater', n, {"threshold"})))

LEMMA TimerStep ==
  ASSUME ReaderAssumption, ReaderInv, TimersFit, NEW u \in Updaters, NEW w \in Updates, NEW n, NEW t \in Timers,
         TimerWrite(u, w, n, t)
  PROVE  ReaderInv' /\ TimersFit'
<1> USE DEF TimerWrite
<1>1. Sample(entries)
  BY DEF ReaderInv, SamplesFit
<1>2. Sample(entries') /\ Grown(entries, entries')
  BY <1>1, TimerWritten
<1>3. ReaderInv'
  BY <1>2, ServersKeepReader
<1>4. DOMAIN entries'["T"] = DOMAIN entries["T"] /\ \A m \in DOMAIN entries["T"] : m # n => entries'["T"][m] = entries["T"][m]
  BY <1>1, SampleFacts
<1>5. entries'["T"][n] = t
  BY <1>1, SampleFacts
<1>6. updater \in [Updaters -> Updates] /\ \A v \in Updaters : updater[v].pc \in Under => updater[v].name \in DOMAIN entries["T"]
  BY DEF TimersFit, UpdaterFits
<1>7. updater'[u] = w /\ \A v \in Updaters \ {u} : updater'[v] = updater[v]
  BY <1>6
<1>8. UpdaterFits'
  <2>1. updater' \in [Updaters -> Updates]
    BY <1>6
  <2>2. \A v \in Updaters : updater'[v].pc \in Under => updater'[v].name \in DOMAIN entries'["T"]
    BY <1>4, <1>6, <1>7
  <2> QED BY <2>1, <2>2 DEF UpdaterFits
<1>9. ASSUME NEW m \in DOMAIN entries["T"], m # n PROVE TimerFits(entries', updater', m)
  <2>1. Counting \subseteq Under /\ {"threshold"} \subseteq Under
    BY DEF Counting, Under
  <2>2. ASSUME NEW P, P \subseteq Under PROVE Cardinality(Flying(updater', m, P)) = Cardinality(Flying(updater, m, P))
    <3>1. ~Aloft(updater[u], m, P) /\ ~Aloft(updater'[u], m, P)
      BY <1>7, <1>9, <2>2 DEF Aloft
    <3>2. Moved(updater, updater', u)
      BY <1>7 DEF Moved
    <3> HIDE DEF TimerWrite
    <3> QED BY <3>1, <3>2, FlightSame
  <2>3. TimerFits(entries, updater, m)
    BY DEF TimersFit
  <2> QED BY <1>4, <1>9, <2>1, <2>2, <2>3 DEF TimerFits
<1>10. TimerFits(entries', updater', n)
  BY <1>5 DEF TimerFits
<1>11. \A m \in DOMAIN entries'["T"] : TimerFits(entries', updater', m)
  BY <1>4, <1>9, <1>10
<1> QED BY <1>3, <1>8, <1>11 DEF TimersFit

LEMMA TimerByKeeps ==
  ASSUME ReaderAssumption, ReaderInv, TimersFit, NEW u \in Updaters, NEW n \in CounterNames,
         NEW time \in UpdateTimes, TimerBy(u, n, time)
  PROVE  ReaderInv' /\ TimersFit'
<1> DEFINE s == entries["T"][n]
           t == [s EXCEPT !.count = @ + 1]
           w == [pc |-> "time", name |-> n, arg |-> time]
<1>1. /\ updater[u] = NoUpdate /\ n \in DOMAIN entries["T"] /\ UpdaterOnly
      /\ updater' = [updater EXCEPT ![u] = w]
      /\ entries' = [entries EXCEPT !.T[n].count = @ + 1]
  BY DEF TimerBy, Begin
<1>2. Sample(entries) /\ DOMAIN entries = CounterKinds
  BY SampleFacts DEF ReaderInv, SamplesFit
<1>3. s \in Timers
  BY <1>1, <1>2, SampleFacts
<1> HIDE DEF s
<1>4. t \in Timers /\ t.count = s.count + 1 /\ t.slices = s.slices /\ s.count <= t.count
  BY <1>3 DEF Timers
<1>5. /\ entries' = [k \in CounterKinds |-> entries'[k]] /\ entries'["C"] = entries["C"]
      /\ entries'["T"] = [entries["T"] EXCEPT ![n] = t]
  BY <1>1, <1>2 DEF CounterKinds, s
<1>6. w \in Updates /\ w.pc = "time" /\ w.name = n /\ updater[u].pc = "idle"
  BY <1>1 DEF Updates, NoUpdate, ReaderAssumption
<1> HIDE DEF w, t
<1>7. updater'[u] = w /\ Moved(updater, updater', u)
  BY <1>1 DEF TimersFit, UpdaterFits, Moved
<1>8. /\ Cardinality(Flying(updater, n, Counting)) \in Nat
      /\ Cardinality(Flying(updater', n, Counting)) = Cardinality(Flying(updater, n, Counting)) + 1
  <2>1. ~Aloft(updater[u], n, Counting) /\ Aloft(updater'[u], n, Counting)
    BY <1>6, <1>7 DEF Aloft, Counting
  <2> QED BY <1>7, <2>1, FlightMoves
<1>9. Cardinality(Flying(updater', n, {"threshold"})) = Cardinality(Flying(updater, n, {"threshold"}))
  <2>1. ~Aloft(updater[u], n, {"threshold"}) /\ ~Aloft(updater'[u], n, {"threshold"})
    BY <1>6, <1>7 DEF Aloft
  <2> QED BY <1>7, <2>1, FlightMoves
<1>10. SlicesFit(t, Cardinality(Flying(updater', n, Counting)), Cardinality(Flying(updater', n, {"threshold"})))
  <2>1. SlicesFit(s, Cardinality(Flying(updater, n, Counting)), Cardinality(Flying(updater, n, {"threshold"})))
    BY <1>1 DEF TimersFit, TimerFits, s
  <2>2. Cardinality(Marks(s.slices, 1, TimeSlot)) \in Nat
    BY <2>1, FS_CardinalityType DEF SlicesFit
  <2> QED BY <1>4, <1>8, <1>9, <2>1, <2>2 DEF SlicesFit
<1>11. (updater[u].pc \in Under => updater[u].name = n) /\ (w.pc \in Under => w.name = n)
  BY <1>6 DEF Under
<1>12. entries["T"][n].count <= t.count
  BY <1>4 DEF s
<1>13. TimerWrite(u, w, n, t)
  BY <1>1, <1>5, <1>10, <1>11, <1>12 DEF TimerWrite
<1> QED BY <1>4, <1>6, <1>13, TimerStep

LEMMA TimerTimeKeeps ==
  ASSUME ReaderAssumption, ReaderInv, TimersFit, NEW u \in Updaters, TimerTime(u)
  PROVE  ReaderInv' /\ TimersFit'
<1> DEFINE n == updater[u].name
           arg == updater[u].arg
           s == entries["T"][n]
           t == [s EXCEPT !.time = @ + arg]
           w == [updater[u] EXCEPT !.pc = "slice"]
<1>1. /\ updater[u].pc = "time" /\ UpdaterOnly
      /\ updater' = [updater EXCEPT ![u] = w]
      /\ entries' = [entries EXCEPT !.T[n].time = @ + arg]
  BY DEF TimerTime, Continue
<1>2. Sample(entries) /\ DOMAIN entries = CounterKinds
  BY SampleFacts DEF ReaderInv, SamplesFit
<1>3. updater[u] \in Updates /\ n \in DOMAIN entries["T"] /\ updater \in [Updaters -> Updates]
  BY <1>1 DEF TimersFit, UpdaterFits, Under
<1>4. s \in Timers
  BY <1>2, <1>3, SampleFacts
<1>5. w \in Updates /\ w.pc = "slice" /\ w.name = n /\ arg \in Nat
  BY <1>3 DEF Updates
<1>6. updater'[u] = w /\ Moved(updater, updater', u)
  BY <1>1, <1>3 DEF Moved
<1>7. (updater[u].pc \in Under => updater[u].name = n) /\ (w.pc \in Under => w.name = n)
  BY <1>5
<1>8. /\ entries' = [k \in CounterKinds |-> entries'[k]] /\ entries'["C"] = entries["C"]
      /\ entries'["T"] = [entries["T"] EXCEPT ![n] = t]
  BY <1>1, <1>2 DEF CounterKinds
<1>9. updater[u].name = n
  OBVIOUS
<1> HIDE DEF s, arg, w, n
<1>10. t \in Timers /\ t.count = s.count /\ t.slices = s.slices /\ s.count <= t.count
  BY <1>4, <1>5 DEF Timers
<1>11. Cardinality(Flying(updater', n, Counting)) = Cardinality(Flying(updater, n, Counting))
  <2>1. Aloft(updater[u], n, Counting) /\ Aloft(updater'[u], n, Counting)
    BY <1>1, <1>5, <1>6, <1>9 DEF Aloft, Counting
  <2> QED BY <1>6, <2>1, FlightStays
<1>12. Cardinality(Flying(updater', n, {"threshold"})) = Cardinality(Flying(updater, n, {"threshold"}))
  <2>1. ~Aloft(updater[u], n, {"threshold"}) /\ ~Aloft(updater'[u], n, {"threshold"})
    BY <1>1, <1>5, <1>6 DEF Aloft
  <2> QED BY <1>6, <2>1, FlightSame
<1>13. SlicesFit(t, Cardinality(Flying(updater', n, Counting)), Cardinality(Flying(updater', n, {"threshold"})))
  <2>1. SlicesFit(s, Cardinality(Flying(updater, n, Counting)), Cardinality(Flying(updater, n, {"threshold"})))
    BY <1>3 DEF TimersFit, TimerFits, s
  <2> QED BY <1>10, <1>11, <1>12, <2>1 DEF SlicesFit
<1>14. entries["T"][n].count <= t.count
  BY <1>10 DEF s
<1> HIDE DEF t
<1>15. TimerWrite(u, w, n, t)
  BY <1>1, <1>3, <1>7, <1>8, <1>13, <1>14 DEF TimerWrite
<1> QED BY <1>5, <1>10, <1>15, TimerStep

\* One more in slice j of the timer s.
Bumped(s, j, t) == t = [s EXCEPT !.slices = [s.slices EXCEPT ![j] = @ + 1]]

LEMMA SliceFacts ==
  ASSUME ReaderAssumption, NEW s \in Timers, NEW j \in Slots, NEW t, Bumped(s, j, t)
  PROVE  t \in Timers /\ t.count = s.count /\ s.count <= t.count /\ OneMore(s.slices, t.slices, j, Slots)
<1> DEFINE r == [s.slices EXCEPT ![j] = @ + 1]
<1>1. s.slices \in [Slots -> Nat] /\ s.count \in Nat
  BY DEF Timers
<1>2. r \in [Slots -> Nat] /\ r[j] = s.slices[j] + 1 /\ s.slices[j] \in Nat
      /\ \A i \in Slots : i # j => r[i] = s.slices[i]
  BY <1>1
<1>3. t = [s EXCEPT !.slices = r]
  BY DEF Bumped
<1> HIDE DEF r
<1>4. t \in Timers /\ t.count = s.count /\ t.slices = r
  BY <1>2, <1>3 DEF Timers
<1> QED BY <1>1, <1>2, <1>4 DEF OneMore

LEMMA MarksBumped ==
  ASSUME ReaderAssumption, NEW s \in Timers, NEW j \in Slots, NEW t \in Timers,
         OneMore(s.slices, t.slices, j, Slots), NEW l, NEW h, SlicesFit(s, l, h)
  PROVE  LET H == TimeSlot + Len(Thresholds)
         IN  /\ IsFiniteSet(Marks(t.slices, 1, TimeSlot)) /\ IsFiniteSet(Marks(t.slices, TimeSlot + 1, H))
             /\ Cardinality(Marks(s.slices, 1, TimeSlot)) \in Nat /\ Cardinality(Marks(s.slices, TimeSlot + 1, H)) \in Nat
             /\ Cardinality(Marks(t.slices, 1, TimeSlot))
                  = Cardinality(Marks(s.slices, 1, TimeSlot)) + (IF j <= TimeSlot THEN 1 ELSE 0)
             /\ Cardinality(Marks(t.slices, TimeSlot + 1, H))
                  = Cardinality(Marks(s.slices, TimeSlot + 1, H)) + (IF j <= TimeSlot THEN 0 ELSE 1)
<1> DEFINE H == TimeSlot + Len(Thresholds)
<1>1. TimeSlot \in Nat /\ TimeSlot > 0 /\ Len(Thresholds) \in Nat
  BY DEF ReaderAssumption
<1>2. 1..TimeSlot \subseteq Slots /\ (TimeSlot + 1)..H \subseteq Slots /\ H \in Nat /\ TimeSlot + 1 \in Nat
  BY <1>1 DEF Slots
<1>3. IsFiniteSet(Marks(s.slices, 1, TimeSlot)) /\ IsFiniteSet(Marks(s.slices, TimeSlot + 1, H))
  BY DEF SlicesFit
<1>4. j \in 1..TimeSlot <=> j <= TimeSlot
  BY <1>1 DEF Slots
<1>5. j \in (TimeSlot + 1)..H <=> ~(j <= TimeSlot)
  BY <1>1 DEF Slots
<1> HIDE DEF H
<1>6. OneMore(s.slices, t.slices, j, 1..TimeSlot) /\ OneMore(s.slices, t.slices, j, (TimeSlot + 1)..H)
  BY <1>2 DEF OneMore
<1>7. /\ IsFiniteSet(Marks(t.slices, 1, TimeSlot)) /\ Cardinality(Marks(s.slices, 1, TimeSlot)) \in Nat
      /\ j \in 1..TimeSlot => Cardinality(Marks(t.slices, 1, TimeSlot)) = Cardinality(Marks(s.slices, 1, TimeSlot)) + 1
      /\ j \notin 1..TimeSlot => Cardinality(Marks(t.slices, 1, TimeSlot)) = Cardinality(Marks(s.slices, 1, TimeSlot))
  <2>1. 1 \in Nat
    OBVIOUS
  <2> QED BY <1>1, <1>3, <1>6, <2>1, MarksMore
<1>8. /\ IsFiniteSet(Marks(t.slices, TimeSlot + 1, H)) /\ Cardinality(Marks(s.slices, TimeSlot + 1, H)) \in Nat
      /\ j \in (TimeSlot + 1)..H
           => Cardinality(Marks(t.slices, TimeSlot + 1, H)) = Cardinality(Marks(s.slices, TimeSlot + 1, H)) + 1
      /\ j \notin (TimeSlot + 1)..H
           => Cardinality(Marks(t.slices, TimeSlot + 1, H)) = Cardinality(Marks(s.slices, TimeSlot + 1, H))
  BY <1>2, <1>3, <1>6, MarksMore
<1> QED BY <1>4, <1>5, <1>7, <1>8 DEF H

LEMMA SlotIn ==
  ASSUME ReaderAssumption, NEW time \in Nat
  PROVE  /\ SlotOf(time) \in 0..(TimeSlot - 1) /\ SlotOf(time) + 1 \in Slots
         /\ TimeSlot \in Slots
<1>1. TimeSlice \in Nat /\ TimeSlice > 0 /\ TimeSlot \in Nat /\ TimeSlot > 0 /\ Len(Thresholds) \in Nat
  BY DEF ReaderAssumption
<1>2. time \div TimeSlice \in Nat
  BY <1>1
<1>3. SlotOf(time) \in 0..(TimeSlot - 1)
  BY <1>1, <1>2 DEF SlotOf
<1> QED BY <1>1, <1>3 DEF Slots

LEMMA TimerSliceKeeps ==
  ASSUME ReaderAssumption, ReaderInv, TimersFit, NEW u \in Updaters, TimerSlice(u)
  PROVE  ReaderInv' /\ TimersFit'
<1> DEFINE n == updater[u].name
           slot == SlotOf(updater[u].arg)
           s == entries["T"][n]
           j == slot + 1
           t == [s EXCEPT !.slices = [s.slices EXCEPT ![slot + 1] = @ + 1]]
           pc == IF slot = TimeSlot - 1 THEN "threshold" ELSE "idle"
           w == IF pc = "idle" THEN NoUpdate ELSE [updater[u] EXCEPT !.pc = pc]
<1>1. /\ updater[u].pc = "slice" /\ UpdaterOnly
      /\ updater' = [updater EXCEPT ![u] = w]
      /\ entries' = [entries EXCEPT !.T[n].slices[slot + 1] = @ + 1]
  BY DEF TimerSlice, Continue
<1>2. Sample(entries) /\ DOMAIN entries = CounterKinds
  BY SampleFacts DEF ReaderInv, SamplesFit
<1>3. updater[u] \in Updates /\ n \in DOMAIN entries["T"] /\ updater \in [Updaters -> Updates]
  BY <1>1 DEF TimersFit, UpdaterFits, Under
<1>4. s \in Timers
  BY <1>2, <1>3, SampleFacts
<1>5. slot \in 0..(TimeSlot - 1) /\ slot + 1 \in Slots /\ TimeSlot \in Slots
  BY <1>3, SlotIn DEF Updates
<1>6. /\ slot = TimeSlot - 1 => w = [updater[u] EXCEPT !.pc = "threshold"]
      /\ slot # TimeSlot - 1 => w = NoUpdate
  OBVIOUS
<1>7. [updater[u] EXCEPT !.pc = "threshold"] \in Updates /\ NoUpdate \in Updates
  BY <1>3 DEF Updates, NoUpdate
<1>8. /\ w \in Updates /\ w.pc \notin Counting
      /\ slot = TimeSlot - 1 => w.pc = "threshold" /\ w.name = n
      /\ slot # TimeSlot - 1 => w.pc = "idle"
  <2>1. [updater[u] EXCEPT !.pc = "threshold"].pc = "threshold" /\ [updater[u] EXCEPT !.pc = "threshold"].name = n
    BY <1>3 DEF Updates
  <2>2. NoUpdate.pc = "idle"
    BY DEF NoUpdate
  <2> HIDE DEF w, slot, n
  <2> QED BY <1>6, <1>7, <2>1, <2>2 DEF Counting
<1>9. /\ entries' = [k \in CounterKinds |-> entries'[k]] /\ entries'["C"] = entries["C"]
      /\ entries'["T"] = [entries["T"] EXCEPT ![n] = t]
  BY <1>1, <1>2 DEF CounterKinds
<1>10. updater[u].name = n /\ Bumped(s, j, t)
  BY DEF Bumped
<1>20. j \in Slots /\ j <= TimeSlot /\ (j = TimeSlot <=> slot = TimeSlot - 1)
  BY <1>5 DEF ReaderAssumption
<1> HIDE DEF s, w, n, slot, j, t
<1>11. updater'[u] = w /\ Moved(updater, updater', u)
  BY <1>1, <1>3 DEF Moved
<1>12. t \in Timers /\ t.count = s.count /\ s.count <= t.count /\ OneMore(s.slices, t.slices, j, Slots)
  BY <1>4, <1>10, <1>20, SliceFacts
<1>13. /\ Cardinality(Flying(updater, n, Counting)) = Cardinality(Flying(updater', n, Counting)) + 1
       /\ Cardinality(Flying(updater', n, Counting)) \in Nat
  <2>1. Aloft(updater[u], n, Counting) /\ ~Aloft(updater'[u], n, Counting)
    BY <1>1, <1>8, <1>10, <1>11 DEF Aloft, Counting
  <2> QED BY <1>11, <2>1, FlightMoves
<1>14. /\ Cardinality(Flying(updater, n, {"threshold"})) \in Nat
       /\ Cardinality(Flying(updater', n, {"threshold"}))
            = Cardinality(Flying(updater, n, {"threshold"})) + (IF slot = TimeSlot - 1 THEN 1 ELSE 0)
  <2>1. ~Aloft(updater[u], n, {"threshold"})
    BY <1>1 DEF Aloft
  <2>2. Aloft(updater'[u], n, {"threshold"}) <=> slot = TimeSlot - 1
    BY <1>8, <1>11 DEF Aloft
  <2>3. Cardinality(Flying(updater, n, {"threshold"})) \in Nat
    BY <1>11, FlightMoves
  <2>4. CASE slot = TimeSlot - 1
    BY <1>11, <2>1, <2>2, <2>3, <2>4, FlightMoves
  <2>5. CASE slot # TimeSlot - 1
    BY <1>11, <2>1, <2>2, <2>3, <2>5, FlightSame
  <2> QED BY <2>3, <2>4, <2>5
<1>15. SlicesFit(s, Cardinality(Flying(updater, n, Counting)), Cardinality(Flying(updater, n, {"threshold"})))
  BY <1>3 DEF TimersFit, TimerFits, s
<1>16. SlicesFit(t, Cardinality(Flying(updater', n, Counting)), Cardinality(Flying(updater', n, {"threshold"})))
  <2> DEFINE H == TimeSlot + Len(Thresholds)
  <2>1. /\ IsFiniteSet(Marks(t.slices, 1, TimeSlot)) /\ IsFiniteSet(Marks(t.slices, TimeSlot + 1, H))
        /\ Cardinality(Marks(s.slices, 1, TimeSlot)) \in Nat /\ Cardinality(Marks(s.slices, TimeSlot + 1, H)) \in Nat
        /\ Cardinality(Marks(t.slices, 1, TimeSlot)) = Cardinality(Marks(s.slices, 1, TimeSlot)) + 1
        /\ Cardinality(Marks(t.slices, TimeSlot + 1, H)) = Cardinality(Marks(s.slices, TimeSlot + 1, H)) + 0
    BY <1>4, <1>20, <1>12, <1>15, MarksBumped
  <2>2. /\ Cardinality(Marks(s.slices, 1, TimeSlot)) + Cardinality(Flying(updater, n, Counting)) = s.count
        /\ Cardinality(Marks(s.slices, TimeSlot + 1, H)) + Cardinality(Flying(updater, n, {"threshold"})) <= s.slices[TimeSlot]
    BY <1>15 DEF SlicesFit
  <2> HIDE DEF H
  <2>3. Cardinality(Marks(t.slices, 1, TimeSlot)) + Cardinality(Flying(updater', n, Counting)) = t.count
    BY <1>12, <1>13, <2>1, <2>2
  <2>4. t.slices[TimeSlot] = s.slices[TimeSlot] + (IF slot = TimeSlot - 1 THEN 1 ELSE 0) /\ s.slices[TimeSlot] \in Nat
    <3>1. s.slices[TimeSlot] \in Nat
      BY <1>4, <1>5 DEF Timers
    <3> QED BY <1>5, <1>20, <1>12, <3>1 DEF OneMore
  <2>5. Cardinality(Marks(t.slices, TimeSlot + 1, H)) + Cardinality(Flying(updater', n, {"threshold"})) <= t.slices[TimeSlot]
    BY <1>14, <2>1, <2>2, <2>4
  <2> QED BY <2>1, <2>3, <2>5 DEF SlicesFit, H
<1>17. entries["T"][n].count <= t.count
  BY <1>12 DEF s
<1>18. (updater[u].pc \in Under => updater[u].name = n) /\ (w.pc \in Under => w.name = n)
  BY <1>8, <1>10 DEF Under
<1>19. TimerWrite(u, w, n, t)
  BY <1>1, <1>3, <1>9, <1>16, <1>17, <1>18 DEF TimerWrite
<1> QED BY <1>8, <1>12, <1>19, TimerStep

LEMMA TimerThresholdKeeps ==
  ASSUME ReaderAssumption, ReaderInv, TimersFit, NEW u \in Updaters, TimerThreshold(u)
  PROVE  ReaderInv' /\ TimersFit'
<1> DEFINE n == updater[u].name
           over == {i \in DOMAIN Thresholds : updater[u].arg > Thresholds[i]}
           s == entries["T"][n]
           j == TimeSlot + Cardinality(over)
           t == IF over = {} THEN s ELSE [s EXCEPT !.slices = [s.slices EXCEPT ![j] = @ + 1]]
           w == NoUpdate
<1>1. /\ updater[u].pc = "threshold" /\ UpdaterOnly
      /\ updater' = [updater EXCEPT ![u] = w]
      /\ entries' = IF over = {} THEN entries ELSE [entries EXCEPT !.T[n].slices[j] = @ + 1]
  BY DEF TimerThreshold, Continue
<1>2. Sample(entries) /\ DOMAIN entries = CounterKinds
  BY SampleFacts DEF ReaderInv, SamplesFit
<1>3. updater[u] \in Updates /\ n \in DOMAIN entries["T"] /\ updater \in [Updaters -> Updates]
  BY <1>1 DEF TimersFit, UpdaterFits, Under
<1>4. s \in Timers
  BY <1>2, <1>3, SampleFacts
<1>5. TimeSlot \in Nat \ {0} /\ Len(Thresholds) \in Nat /\ TimeSlot \in Slots
  BY DEF ReaderAssumption, Slots
<1>6. over # {} => Cardinality(over) \in 1..Len(Thresholds)
  <2>1. over \subseteq 1..Len(Thresholds)
    BY DEF ReaderAssumption
  <2> HIDE DEF over
  <2>2. IsFiniteSet(1..Len(Thresholds)) /\ Cardinality(1..Len(Thresholds)) = Len(Thresholds)
    <3>1. 1 \in Int /\ Len(Thresholds) \in Int
      BY <1>5
    <3>2. /\ IsFiniteSet(1..Len(Thresholds))
          /\ Cardinality(1..Len(Thresholds)) = IF 1 > Len(Thresholds) THEN 0 ELSE Len(Thresholds) - 1 + 1
      BY <3>1, FS_Interval, Zenon
    <3> QED BY <1>5, <3>2
  <2>3. IsFiniteSet(over) /\ Cardinality(over) \in Nat /\ Cardinality(over) <= Len(Thresholds)
    BY <2>1, <2>2, FS_Subset, FS_CardinalityType
  <2>4. over # {} => Cardinality(over) # 0
    BY <2>3, FS_EmptySet
  <2> QED BY <1>5, <2>3, <2>4
<1>7. w \in Updates /\ w.pc = "idle"
  BY DEF Updates, NoUpdate
<1>8. /\ entries' = [k \in CounterKinds |-> entries'[k]] /\ entries'["C"] = entries["C"]
      /\ entries'["T"] = [entries["T"] EXCEPT ![n] = t]
  <2>1. CASE over = {}
    <3>1. entries' = entries /\ t = s
      BY <1>1, <2>1
    <3>2. entries["T"] = [entries["T"] EXCEPT ![n] = s]
      BY <1>2, SampleFacts
    <3>3. entries = [k \in CounterKinds |-> entries[k]]
      BY <1>2 DEF Sample
    <3> QED BY <3>1, <3>2, <3>3
  <2>2. CASE over # {}
    BY <1>1, <1>2, <2>2 DEF CounterKinds
  <2> QED BY <2>1, <2>2
<1>9. updater[u].name = n /\ (over # {} => Bumped(s, j, t)) /\ (over = {} => t = s)
  BY DEF Bumped
<1>10. over # {} => j \in Slots /\ ~(j <= TimeSlot) /\ j # TimeSlot
  <2> HIDE DEF over
  <2> QED BY <1>5, <1>6 DEF Slots
<1> HIDE DEF s, w, n, over, j, t
<1>11. updater'[u] = w /\ Moved(updater, updater', u)
  BY <1>1, <1>3 DEF Moved
<1>12. Cardinality(Flying(updater', n, Counting)) = Cardinality(Flying(updater, n, Counting))
  <2>1. ~Aloft(updater[u], n, Counting) /\ ~Aloft(updater'[u], n, Counting)
    BY <1>1, <1>7, <1>11 DEF Aloft, Counting
  <2> QED BY <1>11, <2>1, FlightSame
<1>13. /\ Cardinality(Flying(updater, n, {"threshold"})) = Cardinality(Flying(updater', n, {"threshold"})) + 1
       /\ Cardinality(Flying(updater', n, {"threshold"})) \in Nat
  <2>1. Aloft(updater[u], n, {"threshold"}) /\ ~Aloft(updater'[u], n, {"threshold"})
    BY <1>1, <1>7, <1>9, <1>11 DEF Aloft
  <2> QED BY <1>11, <2>1, FlightMoves
<1>14. SlicesFit(s, Cardinality(Flying(updater, n, Counting)), Cardinality(Flying(updater, n, {"threshold"})))
  BY <1>3 DEF TimersFit, TimerFits, s
<1>15. s.slices[TimeSlot] \in Nat
  BY <1>4, <1>5 DEF Timers
<1>16. /\ t \in Timers /\ s.count <= t.count
       /\ SlicesFit(t, Cardinality(Flying(updater', n, Counting)), Cardinality(Flying(updater', n, {"threshold"})))
  <2> DEFINE H == TimeSlot + Len(Thresholds)
  <2>1. /\ IsFiniteSet(Marks(s.slices, 1, TimeSlot)) /\ IsFiniteSet(Marks(s.slices, TimeSlot + 1, H))
        /\ Cardinality(Marks(s.slices, 1, TimeSlot)) + Cardinality(Flying(updater, n, Counting)) = s.count
        /\ Cardinality(Marks(s.slices, TimeSlot + 1, H)) + Cardinality(Flying(updater, n, {"threshold"})) <= s.slices[TimeSlot]
    BY <1>14 DEF SlicesFit
  <2>2. Cardinality(Marks(s.slices, TimeSlot + 1, H)) \in Nat
    BY <2>1, FS_CardinalityType
  <2>3. CASE over = {}
    <3>1. t = s
      BY <1>9, <2>3
    <3> HIDE DEF H
    <3>2. Cardinality(Marks(s.slices, TimeSlot + 1, H)) + Cardinality(Flying(updater', n, {"threshold"})) <= s.slices[TimeSlot]
      BY <1>13, <1>15, <2>1, <2>2
    <3>3. s.count <= s.count
      BY <1>4 DEF Timers
    <3> QED BY <1>4, <1>12, <2>1, <3>1, <3>2, <3>3 DEF SlicesFit, H
  <2>4. CASE over # {}
    <3>1. t \in Timers /\ t.count = s.count /\ s.count <= t.count /\ OneMore(s.slices, t.slices, j, Slots)
      BY <1>4, <1>9, <1>10, <2>4, SliceFacts
    <3>2. /\ IsFiniteSet(Marks(t.slices, 1, TimeSlot)) /\ IsFiniteSet(Marks(t.slices, TimeSlot + 1, H))
          /\ Cardinality(Marks(s.slices, 1, TimeSlot)) \in Nat
          /\ Cardinality(Marks(t.slices, 1, TimeSlot)) = Cardinality(Marks(s.slices, 1, TimeSlot)) + 0
          /\ Cardinality(Marks(t.slices, TimeSlot + 1, H)) = Cardinality(Marks(s.slices, TimeSlot + 1, H)) + 1
      BY <1>4, <1>10, <1>14, <2>4, <3>1, MarksBumped
    <3>3. t.slices[TimeSlot] = s.slices[TimeSlot]
      BY <1>5, <1>10, <2>4, <3>1 DEF OneMore
    <3> HIDE DEF H
    <3>4. Cardinality(Marks(t.slices, TimeSlot + 1, H)) + Cardinality(Flying(updater', n, {"threshold"})) <= t.slices[TimeSlot]
      BY <1>13, <1>15, <2>1, <2>2, <3>2, <3>3
    <3>5. Cardinality(Marks(t.slices, 1, TimeSlot)) + Cardinality(Flying(updater', n, Counting)) = t.count
      <4>1. Cardinality(Marks(t.slices, 1, TimeSlot)) = Cardinality(Marks(s.slices, 1, TimeSlot))
        BY <3>2
      <4> QED BY <1>12, <2>1, <3>1, <4>1
    <3> QED BY <3>1, <3>2, <3>4, <3>5 DEF SlicesFit, H
  <2> QED BY <2>3, <2>4
<1>17. entries["T"][n].count <= t.count
  BY <1>16 DEF s
<1>18. (updater[u].pc \in Under => updater[u].name = n) /\ (w.pc \in Under => w.name = n)
  BY <1>7, <1>9 DEF Under
<1>19. TimerWrite(u, w, n, t)
  BY <1>1, <1>3, <1>8, <1>16, <1>17, <1>18 DEF TimerWrite
<1> QED BY <1>7, <1>16, <1>19, TimerStep

\* A step of an updater that is not of a timer.
OtherWrite(u, w) ==
  /\ updater' = [updater EXCEPT ![u] = w] /\ UpdaterOnly
  /\ entries' = [k \in CounterKinds |-> entries'[k]]
  /\ entries'["T"] = entries["T"] /\ entries'["C"] \in CounterMaps
  /\ \A n \in DOMAIN entries["C"] : n \in DOMAIN entries'["C"] /\ entries["C"][n] <= entries'["C"][n]
  /\ updater[u].pc \notin Under /\ w.pc \notin Under

LEMMA OtherStep ==
  ASSUME ReaderAssumption, ReaderInv, TimersFit, NEW u \in Updaters, NEW w \in Updates, OtherWrite(u, w)
  PROVE  ReaderInv' /\ TimersFit'
<1>1. Sample(entries)
  BY DEF ReaderInv, SamplesFit
<1>2. entries'["T"] = entries["T"] /\ updater' = [updater EXCEPT ![u] = w] /\ updater[u].pc \notin Under /\ w.pc \notin Under
  BY DEF OtherWrite
<1>3. Sample(entries')
  BY <1>1 DEF OtherWrite, Sample
<1>4. Grown(entries, entries')
  <2>1. \A n \in DOMAIN entries["T"] : entries["T"][n].count \in Nat
    BY <1>1, SampleFacts DEF Timers
  <2> QED BY <2>1 DEF Grown, OtherWrite
<1>5. ReaderInv'
  BY <1>3, <1>4, ServersKeepReader DEF OtherWrite
<1>6. updater \in [Updaters -> Updates] /\ \A v \in Updaters : updater[v].pc \in Under => updater[v].name \in DOMAIN entries["T"]
  BY DEF TimersFit, UpdaterFits
<1>7. updater'[u] = w /\ Moved(updater, updater', u)
  BY <1>2, <1>6 DEF Moved
<1>8. UpdaterFits'
  <2>1. updater' \in [Updaters -> Updates]
    BY <1>2, <1>6
  <2>2. \A v \in Updaters : updater'[v].pc \in Under => updater'[v].name \in DOMAIN entries'["T"]
    BY <1>2, <1>6, <1>7 DEF Moved
  <2> QED BY <2>1, <2>2 DEF UpdaterFits
<1>9. ASSUME NEW m \in DOMAIN entries["T"] PROVE TimerFits(entries', updater', m)
  <2>1. Counting \subseteq Under /\ {"threshold"} \subseteq Under
    BY DEF Counting, Under
  <2>2. ASSUME NEW P, P \subseteq Under PROVE Cardinality(Flying(updater', m, P)) = Cardinality(Flying(updater, m, P))
    <3>1. ~Aloft(updater[u], m, P) /\ ~Aloft(updater'[u], m, P)
      BY <1>2, <1>7, <2>2 DEF Aloft
    <3> QED BY <1>7, <3>1, FlightSame
  <2>3. TimerFits(entries, updater, m)
    BY DEF TimersFit
  <2> QED BY <1>2, <2>1, <2>2, <2>3 DEF TimerFits
<1>10. \A m \in DOMAIN entries'["T"] : TimerFits(entries', updater', m)
  BY <1>2, <1>9
<1> QED BY <1>5, <1>8, <1>10 DEF TimersFit

LEMMA OthersKeep ==
  ASSUME ReaderAssumption, ReaderInv, TimersFit, NEW u \in Updaters,
         \/ \E name \in CounterNames :
              \/ CounterBy(u, name)
              \/ \E flag \in {0, 1} : BinaryBy(u, name, flag)
         \/ BinaryCount(u)
  PROVE  ReaderInv' /\ TimersFit'
<1>1. Sample(entries) /\ DOMAIN entries = CounterKinds /\ entries["C"] \in CounterMaps
  BY SampleFacts DEF ReaderInv, SamplesFit, Sample
<1>2. DOMAIN entries["C"] \in SUBSET CounterNames /\ \A n \in DOMAIN entries["C"] : entries["C"][n] \in Nat
  BY <1>1, SampleFacts
<1>3. NoUpdate \in Updates /\ NoUpdate.pc = "idle" /\ NoUpdate.pc \notin Under
  BY DEF Updates, NoUpdate, Under
<1>4. ASSUME NEW name \in CounterNames, CounterBy(u, name) PROVE ReaderInv' /\ TimersFit'
  <2>1. /\ updater[u] = NoUpdate /\ updater' = [updater EXCEPT ![u] = NoUpdate] /\ UpdaterOnly
        /\ entries' = [entries EXCEPT !.C[name] = @ + 1] /\ name \in DOMAIN entries["C"]
    BY <1>4 DEF CounterBy, Begin
  <2>2. /\ entries' = [k \in CounterKinds |-> entries'[k]] /\ entries'["T"] = entries["T"]
        /\ entries'["C"] = [entries["C"] EXCEPT ![name] = @ + 1]
    BY <1>1, <2>1 DEF CounterKinds
  <2>3. entries["C"] \in [DOMAIN entries["C"] -> Nat]
    BY <1>1, <1>2, SampleFacts
  <2>4. entries'["C"] \in [DOMAIN entries["C"] -> Nat]
    BY <2>1, <2>2, <2>3
  <2>5. \A n \in DOMAIN entries["C"] : n \in DOMAIN entries'["C"] /\ entries["C"][n] <= entries'["C"][n]
    BY <2>2, <2>3
  <2>6. OtherWrite(u, NoUpdate)
    BY <1>2, <1>3, <2>1, <2>2, <2>4, <2>5 DEF OtherWrite, CounterMaps
  <2> QED BY <1>3, <2>6, OtherStep
<1>5. \A n \in DOMAIN entries["C"] : n \in DOMAIN entries["C"] /\ entries["C"][n] <= entries["C"][n]
  BY <1>2
<1>6. ASSUME NEW name \in CounterNames, NEW flag \in {0, 1}, BinaryBy(u, name, flag) PROVE ReaderInv' /\ TimersFit'
  <2> DEFINE w == [pc |-> "count", name |-> name, arg |-> flag]
  <2>1. /\ updater[u] = NoUpdate /\ updater' = [updater EXCEPT ![u] = w] /\ UpdaterOnly
        /\ entries' = [entries EXCEPT !.B[name].flag = flag]
    BY <1>6 DEF BinaryBy, Begin
  <2>2. /\ entries' = [k \in CounterKinds |-> entries'[k]] /\ entries'["T"] = entries["T"] /\ entries'["C"] = entries["C"]
    BY <1>1, <2>1 DEF CounterKinds
  <2>3. w \in Updates /\ w.pc \notin Under
    BY DEF Updates, Under
  <2> HIDE DEF w
  <2>4. OtherWrite(u, w)
    BY <1>1, <1>3, <1>5, <2>1, <2>2, <2>3 DEF OtherWrite
  <2> QED BY <2>3, <2>4, OtherStep
<1>7. ASSUME BinaryCount(u) PROVE ReaderInv' /\ TimersFit'
  <2>1. /\ updater[u].pc = "count" /\ updater' = [updater EXCEPT ![u] = NoUpdate] /\ UpdaterOnly
    BY <1>7 DEF BinaryCount, Continue
  <2>2. \E v : entries' = [entries EXCEPT !.B = v]
    BY <1>7 DEF BinaryCount
  <2>3. /\ entries' = [k \in CounterKinds |-> entries'[k]] /\ entries'["T"] = entries["T"] /\ entries'["C"] = entries["C"]
    BY <1>1, <2>2 DEF CounterKinds
  <2>4. OtherWrite(u, NoUpdate)
    BY <1>1, <1>3, <1>5, <2>1, <2>3 DEF OtherWrite, Under
  <2> QED BY <1>3, <2>4, OtherStep
<1> QED BY <1>4, <1>6, <1>7

\* A new timer has counted nothing, and no update of it is under way.
LEMMA NewTimerFits ==
  ASSUME ReaderAssumption, NEW f, NEW n, \A u \in Updaters : f[u].pc \in Under => f[u].name # n
  PROVE  SlicesFit(Zero["T"], Cardinality(Flying(f, n, Counting)), Cardinality(Flying(f, n, {"threshold"})))
<1>1. Flying(f, n, Counting) = {} /\ Flying(f, n, {"threshold"}) = {}
  BY DEF Flying, Counting, Under
<1>2. TimeSlot \in Nat \ {0} /\ Len(Thresholds) \in Nat
  BY DEF ReaderAssumption
<1>3. Zero["T"].slices = [i \in Slots |-> 0] /\ Zero["T"].count = 0
  BY DEF Zero
<1> DEFINE z == [i \in Slots |-> 0]
           H == TimeSlot + Len(Thresholds)
<1>4. \A i \in Slots : z[i] = 0
  OBVIOUS
<1>5. TimeSlot \in Slots /\ 1..TimeSlot \subseteq Slots /\ (TimeSlot + 1)..H \subseteq Slots
  BY <1>2 DEF Slots
<1> HIDE DEF z
<1>6. 1..0 = {}
  OBVIOUS
<1>7. Marks(z, 1, TimeSlot) = {}
  BY <1>4, <1>5, <1>6 DEF Marks
<1>8. Marks(z, TimeSlot + 1, H) = {}
  BY <1>4, <1>5, <1>6 DEF Marks
<1>9. IsFiniteSet({}) /\ Cardinality({}) = 0
  BY FS_EmptySet
<1>10. z[TimeSlot] = 0
  BY <1>4, <1>5
<1>11. Zero["T"].slices = z
  BY <1>3 DEF z
<1>12. SlicesFit(Zero["T"], 0, 0)
  <2>1. Marks(Zero["T"].slices, 1, TimeSlot) = {} /\ Marks(Zero["T"].slices, TimeSlot + 1, TimeSlot + Len(Thresholds)) = {}
    BY <1>7, <1>8, <1>11
  <2>2. Zero["T"].count = 0 /\ Zero["T"].slices[TimeSlot] = 0
    BY <1>3, <1>10, <1>11
  <2>3. 0 + 0 = 0 /\ 0 <= 0
    OBVIOUS
  <2> QED BY <1>9, <2>1, <2>2, <2>3 DEF SlicesFit
<1> QED BY <1>1, <1>9, <1>12

LEMMA AddEntryKeeps ==
  ASSUME ReaderAssumption, ReaderInv, TimersFit, NEW kind \in CounterKinds, NEW name \in CounterNames, AddEntry(kind, name)
  PROVE  ReaderInv' /\ TimersFit'
<1> DEFINE D == DOMAIN entries[kind] \cup {name}
           v == [n \in D |-> IF n = name THEN Zero[kind] ELSE entries[kind][n]]
<1>1. /\ name \notin DOMAIN entries[kind] /\ entries' = [entries EXCEPT ![kind] = v]
      /\ UpdaterOnly /\ updater' = updater
  BY DEF AddEntry
<1>2. Sample(entries) /\ DOMAIN entries = CounterKinds
  BY SampleFacts DEF ReaderInv, SamplesFit
<1>3. Zero["C"] = 0 /\ Zero["C"] \in Nat /\ Zero["T"] \in Timers
  BY DEF Zero, Timers
<1>4. DOMAIN v = D /\ v = [n \in D |-> v[n]] /\ v[name] = Zero[kind]
      /\ \A n \in DOMAIN entries[kind] : n \in DOMAIN v /\ v[n] = entries[kind][n]
  BY <1>1
<1>5. D = DOMAIN entries[kind] \cup {name}
  OBVIOUS
<1> HIDE DEF v, D
<1>6. /\ entries' = [k \in CounterKinds |-> entries'[k]] /\ entries'[kind] = v
      /\ \A k \in CounterKinds : k # kind => entries'[k] = entries[k]
  BY <1>1, <1>2
<1>7. /\ DOMAIN entries["C"] \subseteq CounterNames /\ DOMAIN entries["T"] \subseteq CounterNames
      /\ \A n \in DOMAIN entries["C"] : entries["C"][n] \in Nat
      /\ \A n \in DOMAIN entries["T"] : entries["T"][n] \in Timers
  BY <1>2, SampleFacts
<1>8. entries'["C"] \in CounterMaps
  <2>1. CASE kind = "C"
    <3>1. D \in SUBSET CounterNames /\ v \in [D -> Nat]
      BY <1>3, <1>4, <1>5, <1>7, <2>1
    <3> QED BY <1>6, <2>1, <3>1 DEF CounterMaps
  <2>2. CASE kind # "C"
    BY <1>2, <1>6, <2>2 DEF Sample, CounterKinds
  <2> QED BY <2>1, <2>2
<1>9. entries'["T"] \in TimerMaps
  <2>1. CASE kind = "T"
    <3>1. D \in SUBSET CounterNames /\ v \in [D -> Timers]
      BY <1>3, <1>4, <1>5, <1>7, <2>1
    <3> QED BY <1>6, <2>1, <3>1 DEF TimerMaps
  <2>2. CASE kind # "T"
    BY <1>2, <1>6, <2>2 DEF Sample, CounterKinds
  <2> QED BY <2>1, <2>2
<1>10. Sample(entries')
  BY <1>6, <1>8, <1>9 DEF Sample
<1>11. /\ \A n \in DOMAIN entries["C"] : n \in DOMAIN entries'["C"] /\ entries'["C"][n] = entries["C"][n]
       /\ \A n \in DOMAIN entries["T"] : n \in DOMAIN entries'["T"] /\ entries'["T"][n] = entries["T"][n]
  BY <1>4, <1>6 DEF CounterKinds
<1>12. Grown(entries, entries')
  <2>1. \A n \in DOMAIN entries["T"] : entries["T"][n].count \in Nat
    BY <1>7 DEF Timers
  <2> QED BY <1>7, <1>11, <2>1 DEF Grown
<1>13. ReaderInv'
  BY <1>1, <1>10, <1>12, ServersKeepReader
<1>14. UpdaterFits /\ UpdaterFits'
  BY <1>1, <1>11 DEF TimersFit, UpdaterFits
<1>15. ASSUME NEW n \in DOMAIN entries'["T"] PROVE TimerFits(entries', updater', n)
  <2>1. CASE n \in DOMAIN entries["T"]
    BY <1>1, <1>11, <2>1 DEF TimersFit, TimerFits
  <2>2. CASE n \notin DOMAIN entries["T"]
    <3>1. kind = "T" /\ n = name
      BY <1>4, <1>5, <1>6, <1>15, <2>2 DEF CounterKinds
    <3>2. entries'["T"][n] = Zero["T"]
      BY <1>4, <1>6, <3>1
    <3>3. \A u \in Updaters : updater[u].pc \in Under => updater[u].name # n
      BY <1>14, <2>2 DEF UpdaterFits
    <3> QED BY <1>1, <3>2, <3>3, NewTimerFits DEF TimerFits
  <2> QED BY <2>1, <2>2
<1> QED BY <1>13, <1>14, <1>15 DEF TimersFit

LEMMA TimersStart ==
  ASSUME ReaderAssumption, ReaderInit
  PROVE  TimersFit
<1>1. updater = [u \in Updaters |-> NoUpdate] /\ NoUpdate \in Updates /\ NoUpdate.pc \notin Under
  BY DEF ReaderInit, NoUpdate, Updates, Under
<1>2. UpdaterFits
  BY <1>1 DEF UpdaterFits
<1>3. DOMAIN entries["T"] = OldNames /\ \A n \in OldNames : entries["T"][n] = Zero["T"]
  BY DEF ReaderInit, CounterKinds
<1>4. ASSUME NEW n \in DOMAIN entries["T"] PROVE TimerFits(entries, updater, n)
  <2>1. \A u \in Updaters : updater[u].pc \in Under => updater[u].name # n
    BY <1>1
  <2> QED BY <1>3, <2>1, NewTimerFits DEF TimerFits
<1> QED BY <1>2, <1>4 DEF TimersFit

\* A step of the reader.
LEMMA ReaderLeavesTimers ==
  ASSUME TimersFit, ReaderOnly
  PROVE  TimersFit'
BY DEF TimersFit, ReaderOnly, UpdaterFits, TimerFits

LEMMA ReaderStep ==
  ASSUME ReaderAssumption, ReaderInv, TimersFit, [ReaderNext]_readerVars
  PROVE  ReaderInv' /\ TimersFit'
<1>1. ASSUME NEW u \in Updaters, NEW name \in CounterNames, NEW time \in UpdateTimes, TimerBy(u, name, time)
      PROVE  ReaderInv' /\ TimersFit'
  BY <1>1, TimerByKeeps
<1>2. ASSUME NEW u \in Updaters,
             \/ \E name \in CounterNames :
                  \/ CounterBy(u, name)
                  \/ \E flag \in {0, 1} : BinaryBy(u, name, flag)
             \/ BinaryCount(u)
      PROVE  ReaderInv' /\ TimersFit'
  BY <1>2, OthersKeep
<1>3. ASSUME NEW u \in Updaters, TimerTime(u) \/ TimerSlice(u) \/ TimerThreshold(u) PROVE ReaderInv' /\ TimersFit'
  BY <1>3, TimerTimeKeeps, TimerSliceKeeps, TimerThresholdKeeps
<1>4. ASSUME NEW kind \in CounterKinds, NEW name \in CounterNames, AddEntry(kind, name) PROVE ReaderInv' /\ TimersFit'
  BY <1>4, AddEntryKeeps
<1>5. ASSUME NEW kind \in CounterKinds, First(kind) PROVE ReaderInv' /\ TimersFit'
  BY <1>5, FirstKeepsReader, ReaderLeavesTimers DEF First
<1>6. ASSUME NEW kind \in CounterKinds, GetAll(kind) PROVE ReaderInv' /\ TimersFit'
  BY <1>6, GetAllKeepsReader, ReaderLeavesTimers DEF GetAll
<1>7. ASSUME Main \/ PrintOnce \/ Again PROVE ReaderInv' /\ TimersFit'
  <2>1. ReaderOnly
    BY <1>7 DEF Main, PrintOnce, Again
  <2> QED BY <1>7, <2>1, MainKeepsReader, ReaderLeavesTimers
<1>8. CASE CounterFilter
  BY <1>8, FilterKeepsReader, ReaderLeavesTimers DEF CounterFilter
<1>9. CASE PrintTables
  BY <1>9, PrintKeepsReader, ReaderLeavesTimers DEF PrintTables
<1>10. CASE UNCHANGED readerVars
  <2>1. UNCHANGED <<entries, updater, options, all, filtered, old, readerPc, msShown, msBase>>
    BY <1>10 DEF readerVars
  <2>2. SamplesFit'
    BY <2>1 DEF ReaderInv, SamplesFit
  <2>3. ShownFits'
    BY <2>1 DEF ReaderInv, ShownFits, Printed
  <2>4. CurrentFits'
    BY <2>1 DEF ReaderInv, CurrentFits, CurrentC, CurrentT, GotC, GotT, Ready, Matched
  <2>5. TimersFit'
    BY <2>1, ReaderLeavesTimers DEF ReaderOnly
  <2> QED BY <2>2, <2>3, <2>4, <2>5 DEF ReaderInv
<1> QED BY <1>1, <1>2, <1>3, <1>4, <1>5, <1>6, <1>7, <1>8, <1>9, <1>10 DEF ReaderNext

LEMMA ReaderInvImplies ==
  ASSUME ReaderAssumption, ReaderInv, TimersFit
  PROVE  ReaderOK
<1>1. SlicesAddUp
  <2> SUFFICES ASSUME NEW n \in DOMAIN entries["T"]
               PROVE  LET t == entries["T"][n]
                      IN  /\ Cardinality(Marks(t.slices, 1, TimeSlot)) + InFlight(n, Counting) = t.count
                          /\ Cardinality(Marks(t.slices, TimeSlot + 1, TimeSlot + Len(Thresholds)))
                               <= t.slices[TimeSlot]
    BY DEF SlicesAddUp, Counting
  <2> DEFINE t == entries["T"][n]
             h == Cardinality(Flying(updater, n, {"threshold"}))
  <2>1. SlicesFit(t, Cardinality(Flying(updater, n, Counting)), h)
    BY DEF TimersFit, TimerFits
  <2>2. InFlight(n, Counting) = Cardinality(Flying(updater, n, Counting))
    BY DEF InFlight, Flying
  <2>3. h \in Nat
    <3>1. Flying(updater, n, {"threshold"}) \subseteq Updaters
      BY DEF Flying
    <3> QED BY <3>1, FS_Subset, FS_CardinalityType DEF ReaderAssumption
  <2>4. t \in Timers /\ TimeSlot \in Slots
    <3>1. t \in Timers
      BY SampleFacts DEF ReaderInv, SamplesFit
    <3>2. TimeSlot \in Slots
      BY DEF ReaderAssumption, Slots
    <3> QED BY <3>1, <3>2
  <2>5. t.slices[TimeSlot] \in Nat
    BY <2>4 DEF Timers
  <2> HIDE DEF t, h
  <2> DEFINE high == Marks(t.slices, TimeSlot + 1, TimeSlot + Len(Thresholds))
  <2>6. Cardinality(high) \in Nat /\ Cardinality(high) + h <= t.slices[TimeSlot]
    BY <2>1, FS_CardinalityType DEF SlicesFit
  <2>7. Cardinality(high) <= t.slices[TimeSlot]
    <3> HIDE DEF high
    <3> QED BY <2>3, <2>5, <2>6
  <2>8. Cardinality(Marks(t.slices, 1, TimeSlot)) + InFlight(n, Counting) = t.count
    BY <2>1, <2>2 DEF SlicesFit
  <2> QED BY <2>7, <2>8 DEF t
<1>2. DiffsExact
  <2> SUFFICES ASSUME Printed PROVE DiffsExact
    BY DEF DiffsExact
  <2>1. old = filtered
    BY DEF ReaderInv, ShownFits
  <2> QED BY <2>1 DEF DiffsExact, ReaderInv, ShownFits
<1>3. TablesCurrent
  <2> SUFFICES ASSUME Printed, NEW n \in Matched
               PROVE  /\ n \in DOMAIN msBase["C"] => filtered["C"][n] \in msBase["C"][n]..entries["C"][n]
                      /\ n \in DOMAIN msBase["T"] => filtered["T"][n].count \in msBase["T"][n].count..entries["T"][n].count
    BY DEF TablesCurrent
  <2>1. CurrentC(filtered, n) /\ CurrentT(filtered, n)
    BY DEF ReaderInv, CurrentFits, Ready, Printed
  <2>2. Sample(filtered) /\ Sample(msBase) /\ Sample(entries) /\ Grown(msBase, entries)
    BY DEF ReaderInv, SamplesFit, CurrentFits
  <2>3. ASSUME n \in DOMAIN msBase["C"] PROVE filtered["C"][n] \in msBase["C"][n]..entries["C"][n]
    <3>1. /\ n \in DOMAIN filtered["C"] /\ n \in DOMAIN entries["C"]
          /\ msBase["C"][n] <= filtered["C"][n] /\ filtered["C"][n] <= entries["C"][n]
      BY <2>1, <2>2, <2>3 DEF CurrentC, Grown
    <3>2. msBase["C"][n] \in Nat /\ filtered["C"][n] \in Nat /\ entries["C"][n] \in Nat
      BY <2>2, <2>3, <3>1, SampleFacts
    <3> QED BY <3>1, <3>2
  <2>4. ASSUME n \in DOMAIN msBase["T"] PROVE filtered["T"][n].count \in msBase["T"][n].count..entries["T"][n].count
    <3>1. /\ n \in DOMAIN filtered["T"] /\ n \in DOMAIN entries["T"]
          /\ msBase["T"][n].count <= filtered["T"][n].count /\ filtered["T"][n].count <= entries["T"][n].count
      BY <2>1, <2>2, <2>4 DEF CurrentT, Grown
    <3>2. msBase["T"][n].count \in Nat /\ filtered["T"][n].count \in Nat /\ entries["T"][n].count \in Nat
      BY <2>2, <2>4, <3>1, SampleFacts DEF Timers
    <3> QED BY <3>1, <3>2
  <2> QED BY <2>3, <2>4
<1> QED BY <1>1, <1>2, <1>3 DEF ReaderOK

\* main of ms_reader and the updaters of the servers, for every number of
\* names, slices, thresholds and updaters and every width of the counts: the
\* slices of a timer add up to its count, the differences that are printed
\* to the values, and a table is never older than the one before.
THEOREM ReaderCorrect == ReaderSpec => []ReaderOK
<1>1. ReaderInit => ReaderInv /\ TimersFit
  BY ReaderAssumption, ReaderStarts, TimersStart
<1>2. ReaderInv /\ TimersFit /\ [ReaderNext]_readerVars => (ReaderInv /\ TimersFit)'
  BY ReaderAssumption, ReaderStep
<1>3. ReaderInv /\ TimersFit => ReaderOK
  BY ReaderAssumption, ReaderInvImplies
<1> QED BY <1>1, <1>2, <1>3, PTL DEF ReaderSpec
=============================================================================

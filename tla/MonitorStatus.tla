---------------------------- MODULE MonitorStatus ----------------------------
(***************************************************************************)
(* common/monitor/monitor_status_impl.cc: counters in a file that several  *)
(* processes map into memory.  A semaphore guards the list of entries; each*)
(* process keeps, for each kind of counter, MAX_CACHE_SIZE copies of its   *)
(* map from keys to entries, and looks keys up in the current copy without *)
(* a lock.  A process may die anywhere; SEM_UNDO gives its P back.         *)
(*                                                                         *)
(* A key is a pair of kind and name: the prefixes keep the kinds apart.    *)
(* Names longer than the buffer of GetCounter are left out, and so is a    *)
(* list that outgrows its 64 KB.                                           *)
(***************************************************************************)
EXTENDS Naturals, Sequences, FiniteSets

CONSTANTS
  MsProcess,        \* thread -> process
  MsUses,           \* thread -> the keys it counts, pairs <<kind, name>>
  MAX_CACHE_SIZE,   \* 10 in the code
  MaxIncrements, MaxDeathsOfMs   \* bounds

VARIABLES
  msFile,      \* the list: [key, whole, value]; whole: total_size is set
  msSem,       \* [made, val, set]: set counts the SETVALs
  msProc,      \* process -> [stage, cache], cache: kind -> [index, maps]
  msThread,    \* thread -> [pc, key, index, entry, since]
  msGhost      \* [torn, counted, clashes, deaths]

msVars == <<msFile, msSem, msProc, msThread, msGhost>>

MsThreads == DOMAIN MsProcess
MsProcs == {MsProcess[t] : t \in MsThreads}
MsKeys == UNION {MsUses[t] : t \in MsThreads}
Kinds == {k[1] : k \in MsKeys}
NoKey == <<"none", "none">>
NoEntry == 0

ASSUME MsAssumption ==
  /\ IsFiniteSet(MsThreads) /\ DOMAIN MsUses = MsThreads
  /\ \A k \in MsKeys : k = <<k[1], k[2]>> /\ k[1] \in {"C", "T", "B"}
  /\ MAX_CACHE_SIZE \in Nat \ {0}

IdleThread == [pc |-> "idle", key |-> NoKey, index |-> 0, entry |-> NoEntry, since |-> 0]
EmptyCache == [kind \in Kinds |-> [index |-> 0, maps |-> [i \in 0..(MAX_CACHE_SIZE - 1) |-> <<>>]]]
Inside == {"find", "fill", "cache"}

MsInit ==
  /\ msFile = <<>>
  /\ msSem = [made |-> FALSE, val |-> 0, set |-> 0]
  /\ msProc = [p \in MsProcs |-> [stage |-> "start", cache |-> EmptyCache]]
  /\ msThread = [t \in MsThreads |-> IdleThread]
  /\ msGhost = [torn |-> FALSE, counted |-> [k \in MsKeys |-> 0], clashes |-> {}, deaths |-> 0]

-----------------------------------------------------------------------------
(* Init: the semaphore is looked up; who does not find it creates it and    *)
(* gives it its first value.  Nothing keeps two processes from doing so.    *)

SemGet(p) ==
  /\ msProc[p].stage = "start"
  /\ msProc' = [msProc EXCEPT ![p].stage = IF msSem.made THEN "ready" ELSE "create"]
  /\ UNCHANGED <<msFile, msSem, msThread, msGhost>>

SemCreate(p) ==
  /\ msProc[p].stage = "create"
  /\ msProc' = [msProc EXCEPT ![p].stage = "setval"]
  /\ msSem' = [msSem EXCEPT !.made = TRUE]
  /\ UNCHANGED <<msFile, msThread, msGhost>>

SemSetVal(p) ==
  /\ msProc[p].stage = "setval"
  /\ msProc' = [msProc EXCEPT ![p].stage = "ready"]
  /\ msSem' = [msSem EXCEPT !.val = 1, !.set = @ + 1]
  /\ UNCHANGED <<msFile, msThread, msGhost>>

-----------------------------------------------------------------------------
(* GetCounter, GetTimerCounter, GetBinaryCounter: one for each kind.        *)

CacheOf(t) == msProc[MsProcess[t]].cache[msThread[t].key[1]]
MapOf(t) == CacheOf(t).maps[CacheOf(t).index]

Get(t, key) ==
  /\ msThread[t].pc = "idle" /\ msProc[MsProcess[t]].stage = "ready"
  /\ msThread' = [msThread EXCEPT ![t] =
       [IdleThread EXCEPT !.pc = "lookup", !.key = key,
                          !.index = msProc[MsProcess[t]].cache[key[1]].index]]
  /\ UNCHANGED <<msFile, msSem, msProc, msGhost>>

GetCounter(t, name) == <<"C", name>> \in MsUses[t] /\ Get(t, <<"C", name>>)
GetTimerCounter(t, name) == <<"T", name>> \in MsUses[t] /\ Get(t, <<"T", name>>)
GetBinaryCounter(t, name) == <<"B", name>> \in MsUses[t] /\ Get(t, <<"B", name>>)

\* The map of the index that was read, which may have moved on.
Lookup(t) ==
  LET map == CacheOf(t).maps[msThread[t].index]
      key == msThread[t].key
  IN  /\ msThread[t].pc = "lookup"
      /\ msThread' = [msThread EXCEPT ![t].pc = IF key \in DOMAIN map THEN "count" ELSE "semp",
                                      ![t].index = 0, ![t].since = 0,
                                      ![t].entry = IF key \in DOMAIN map THEN map[key] ELSE NoEntry]
      /\ UNCHANGED <<msFile, msSem, msProc, msGhost>>

SemFree == msSem.val > 0

SemP(t) ==
  /\ msThread[t].pc = "semp" /\ SemFree
  /\ msSem' = [msSem EXCEPT !.val = IF @ = 0 THEN 0 ELSE @ - 1]
  /\ msThread' = [msThread EXCEPT ![t].pc = "find"]
  /\ UNCHANGED <<msFile, msProc, msGhost>>

\* The first entry without a total_size, where the list ends for a reader.
EndOfList == CHOOSE i \in 1..(Len(msFile) + 1) :
  /\ i = Len(msFile) + 1 \/ ~msFile[i].whole
  /\ \A j \in 1..(i - 1) : msFile[j].whole

\* Slip: AddEntry relies on the cache of its own process.
FindNothing(key) == NoEntry

\* RawMMapList::Find: an entry of the key; at the end of the list an entry
\* that has a key_size and no total_size yet is taken for it.
Find(key) ==
  LET found == {i \in 1..(EndOfList - 1) : msFile[i].key = key}
  IN  IF found # {} THEN CHOOSE i \in found : \A j \in found : i <= j
      ELSE IF EndOfList <= Len(msFile) THEN EndOfList ELSE NoEntry

\* AddEntry up to the store of key_size.
FindOrStart(t) ==
  /\ msThread[t].pc = "find"
  /\ LET i == Find(msThread[t].key)
     IN  IF i # NoEntry
         THEN /\ msThread' = [msThread EXCEPT ![t].pc = "cache", ![t].entry = i]
              /\ UNCHANGED msFile
         ELSE /\ msFile' = Append(msFile, [key |-> NoKey, whole |-> FALSE, value |-> 0])
              /\ msThread' = [msThread EXCEPT ![t].pc = "fill", ![t].entry = Len(msFile) + 1]
  /\ UNCHANGED <<msSem, msProc, msGhost>>

\* The rest of AddEntry: key, value, and then total_size.
Fill(t) ==
  /\ msThread[t].pc = "fill"
  /\ msFile' = [msFile EXCEPT ![msThread[t].entry] = [key |-> msThread[t].key, whole |-> TRUE, value |-> 0]]
  /\ msThread' = [msThread EXCEPT ![t].pc = "cache"]
  /\ UNCHANGED <<msSem, msProc, msGhost>>

SemV == [msSem EXCEPT !.val = @ + 1]

NextIndex(index) == (index + 1) % MAX_CACHE_SIZE

\* The next copy of the map is written and becomes the current one; SemV.
CacheInsert(t) ==
  LET p == MsProcess[t]
      key == msThread[t].key
      new == NextIndex(CacheOf(t).index)
      readers == {u \in MsThreads : /\ MsProcess[u] = p /\ msThread[u].pc = "lookup"
                                    /\ msThread[u].key[1] = key[1]}
      map == [k \in DOMAIN MapOf(t) \cup {key} |-> IF k = key THEN msThread[t].entry ELSE MapOf(t)[k]]
  IN  /\ msThread[t].pc = "cache"
      /\ IF key \in DOMAIN MapOf(t)
         THEN /\ msThread' = [msThread EXCEPT ![t].pc = "count"]
              /\ UNCHANGED <<msProc, msGhost>>
         ELSE /\ msProc' = [msProc EXCEPT ![p].cache[key[1]] =
                   [index |-> new, maps |-> [@.maps EXCEPT ![new] = map]]]
              /\ msThread' = [u \in MsThreads |->
                   IF u = t THEN [msThread[u] EXCEPT !.pc = "count"]
                   ELSE IF u \in readers THEN [msThread[u] EXCEPT !.since = @ + 1] ELSE msThread[u]]
              /\ msGhost' = [msGhost EXCEPT !.clashes =
                   @ \cup {msThread[u].since + 1 : u \in {r \in readers : msThread[r].index = new}}]
      /\ msSem' = SemV
      /\ UNCHANGED msFile

Total == LET sum[S \in SUBSET MsKeys] ==
               IF S = {} THEN 0 ELSE LET k == CHOOSE x \in S : TRUE
                                     IN  msGhost.counted[k] + sum[S \ {k}]
         IN  sum[MsKeys]

\* __sync_fetch_and_add on the value of the entry.
Count(t) ==
  /\ msThread[t].pc = "count" /\ Total < MaxIncrements
  /\ msFile' = [msFile EXCEPT ![msThread[t].entry].value = @ + 1]
  /\ msGhost' = [msGhost EXCEPT !.counted[msThread[t].key] = @ + 1]
  /\ msThread' = [msThread EXCEPT ![t] = IdleThread]
  /\ UNCHANGED <<msSem, msProc>>

\* A process dies and starts again with empty caches; SEM_UNDO.
ProcessDies(p) ==
  LET mine == {t \in MsThreads : MsProcess[t] = p}
      inside == {t \in mine : msThread[t].pc \in Inside}
  IN  /\ msGhost.deaths < MaxDeathsOfMs
      /\ msProc' = [msProc EXCEPT ![p] = [stage |-> "start", cache |-> EmptyCache]]
      /\ msThread' = [t \in MsThreads |-> IF t \in mine THEN IdleThread ELSE msThread[t]]
      /\ msSem' = [msSem EXCEPT !.val = @ + Cardinality(inside)]
      /\ msGhost' = [msGhost EXCEPT !.deaths = @ + 1,
                       !.torn = @ \/ \E t \in mine : msThread[t].pc = "fill"]
      /\ UNCHANGED msFile

MsNext ==
  \/ \E p \in MsProcs : SemGet(p) \/ SemCreate(p) \/ SemSetVal(p) \/ ProcessDies(p)
  \/ \E t \in MsThreads :
       \/ \E k \in MsUses[t] : GetCounter(t, k[2]) \/ GetTimerCounter(t, k[2]) \/ GetBinaryCounter(t, k[2])
       \/ Lookup(t) \/ SemP(t) \/ FindOrStart(t) \/ Fill(t) \/ CacheInsert(t) \/ Count(t)

MsSpec == MsInit /\ [][MsNext]_msVars

-----------------------------------------------------------------------------
\* Two processes gave the semaphore its first value.
SetTwice == msSem.set > 1

\* SemP, SemV and SEM_UNDO: one thread of all processes changes the list,
\* also after a process died in the middle, unless two processes set the
\* semaphore up at the same time.
OneAdder == ~SetTwice => Cardinality({t \in MsThreads : msThread[t].pc \in Inside}) <= 1

\* AddEntry and the caches: every count goes to the one entry of its key,
\* in whatever process, unless two processes set the semaphore up or a
\* process died between the stores of key_size and total_size, which leaves
\* an entry that every later key is given.
CountsExact ==
  ~SetTwice /\ ~msGhost.torn =>
    /\ \A i, j \in DOMAIN msFile : msFile[i].whole /\ msFile[i].key = msFile[j].key => i = j
    /\ \A i \in DOMAIN msFile : msFile[i].whole => msFile[i].value = msGhost.counted[msFile[i].key]
    /\ \A k \in MsKeys : msGhost.counted[k] > 0 => \E i \in DOMAIN msFile : msFile[i].key = k

\* A map is only written while a thread reads it without the lock when
\* MAX_CACHE_SIZE keys were added since that thread read the index.
ReadersUndisturbed == \A n \in msGhost.clashes : n >= MAX_CACHE_SIZE

\* AddEntry, FindEntry and the caches: counts of several processes are exact.
CountersOK == OneAdder /\ CountsExact /\ ReadersUndisturbed
=============================================================================

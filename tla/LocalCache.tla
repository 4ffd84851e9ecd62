------------------------------ MODULE LocalCache ------------------------------
(***************************************************************************)
(* orc/util/local_cache.h: a cache of limited size with an age limit, used *)
(* by one thread.  The entries are cells that move between the list of the *)
(* cached entries, most recent first, and a list of free cells; the index  *)
(* maps a key to its cell and is itself keyed by the key inside the cell.  *)
(***************************************************************************)
EXTENDS Integers, Sequences, FiniteSets

CONSTANTS
  CacheKeys, CacheValues,
  Capacities,   \* the capacities to check
  Expire,       \* expire_
  Now,          \* the times a caller passes
  TimeMod       \* 2^64 in the code

\* A difference of two times is never as far below 0 as to look recent.
ASSUME CacheAssumption ==
  /\ Capacities \subseteq Nat
  /\ Expire \in Nat /\ TimeMod \in Nat \ {0} /\ Now \subseteq 0..(TimeMod - Expire)

VARIABLES
  capacity_, cache_size_,     \* size_; the task queue has one too
  entry_list_, free_entry_,   \* sequences of cells
  cell,                       \* cell -> [key, val, ts]
  entry_index_,               \* key -> cell
  lastGet,                    \* what a Get has just returned: [hit, key, val, now]
  recent,                     \* ghost: what was put, most recently used first
  cacheCrashed                \* the back of an empty list was used

cacheVars == <<capacity_, cache_size_, entry_list_, free_entry_, cell, entry_index_, lastGet,
               recent, cacheCrashed>>

NoGet == [hit |-> FALSE]

CacheInit ==
  /\ capacity_ \in Capacities
  /\ cache_size_ = 0
  /\ entry_list_ = <<>> /\ free_entry_ = <<>> /\ cell = <<>> /\ entry_index_ = <<>>
  /\ lastGet = NoGet
  /\ recent = <<>>
  /\ cacheCrashed = FALSE

IndexWithout(k) == [x \in DOMAIN entry_index_ \ {k} |-> entry_index_[x]]

Without(list, i) == [j \in 1..Len(list)-1 |-> IF j < i THEN list[j] ELSE list[j + 1]]
Place(list, c) == CHOOSE i \in DOMAIN list : list[i] = c
Unlinked(list, c) == Without(list, Place(list, c))
ToFront(list, c) == <<c>> \o Unlinked(list, c)

\* Where the order of use has a key, and the order without that key.
UseOf(k) == {i \in DOMAIN recent : recent[i].key = k}
LastUse(k) == CHOOSE i \in UseOf(k) : TRUE
Forgotten(k) == IF UseOf(k) = {} THEN recent ELSE Without(recent, LastUse(k))

\* The difference is unsigned: an entry from the future is too old.
Fresh(now, ts) == (now - ts) % TimeMod < Expire

GetHit(k, now) ==
  /\ k \in DOMAIN entry_index_ /\ Fresh(now, cell[entry_index_[k]].ts)
  /\ LET c == entry_index_[k]
     IN  /\ lastGet' = [hit |-> TRUE, key |-> k, val |-> cell[c].val, now |-> now]
         /\ entry_list_' = ToFront(entry_list_, c)
  /\ recent' = <<recent[LastUse(k)]>> \o Forgotten(k)
  /\ UNCHANGED <<capacity_, cache_size_, free_entry_, cell, entry_index_, cacheCrashed>>

\* An entry that is too old is given up.
GetExpired(k, now) ==
  /\ k \in DOMAIN entry_index_ /\ ~Fresh(now, cell[entry_index_[k]].ts)
  /\ LET c == entry_index_[k]
     IN  /\ entry_index_' = IndexWithout(cell[c].key)
         /\ free_entry_' = <<c>> \o free_entry_
         /\ entry_list_' = Unlinked(entry_list_, c)
  /\ cache_size_' = cache_size_ - 1
  /\ lastGet' = NoGet
  /\ recent' = Forgotten(k)
  /\ UNCHANGED <<capacity_, cell, cacheCrashed>>

GetMiss(k) ==
  /\ k \notin DOMAIN entry_index_
  /\ lastGet' = NoGet
  /\ UNCHANGED <<capacity_, cache_size_, entry_list_, free_entry_, cell, entry_index_, recent,
                 cacheCrashed>>

PutKnown(k, v, now) ==
  /\ k \in DOMAIN entry_index_
  /\ LET c == entry_index_[k]
     IN  /\ cell' = [cell EXCEPT ![c].val = v, ![c].ts = now]
         /\ entry_list_' = ToFront(entry_list_, c)
  /\ recent' = <<[key |-> k, val |-> v, ts |-> now]>> \o Forgotten(k)
  /\ lastGet' = NoGet
  /\ UNCHANGED <<capacity_, cache_size_, free_entry_, entry_index_, cacheCrashed>>

\* Slip: the cell is freed and stays in the index.
EvictedIndexed == entry_index_

\* The index without the last entry of the list.
EvictedIndex == IndexWithout(cell[entry_list_[Len(entry_list_)]].key)

\* The loop runs at most once, as cache_size_ never exceeds the capacity; with
\* capacity 0 it takes the last element of an empty list.
PutNew(k, v, now) ==
  LET full == cache_size_ >= capacity_
      last == entry_list_[Len(entry_list_)]
      list == IF full THEN SubSeq(entry_list_, 1, Len(entry_list_) - 1) ELSE entry_list_
      free == IF full THEN <<last>> \o free_entry_ ELSE free_entry_
      index == IF full THEN EvictedIndex ELSE entry_index_
      c == IF free = <<>> THEN Len(cell) + 1 ELSE Head(free)
      entry == [key |-> k, val |-> v, ts |-> now]
  IN  /\ k \notin DOMAIN entry_index_
      /\ full => entry_list_ # <<>>
      /\ cell' = IF free = <<>> THEN Append(cell, entry) ELSE [cell EXCEPT ![c] = entry]
      /\ entry_list_' = <<c>> \o list
      /\ free_entry_' = IF free = <<>> THEN <<>> ELSE Tail(free)
      /\ cache_size_' = IF full THEN cache_size_ ELSE cache_size_ + 1
      /\ entry_index_' = [x \in DOMAIN index \cup {k} |-> IF x = k THEN c ELSE index[x]]
      /\ recent' = <<entry>> \o Forgotten(k)
      /\ lastGet' = NoGet
      /\ UNCHANGED <<capacity_, cacheCrashed>>

PutCrashes(k) ==
  /\ k \notin DOMAIN entry_index_ /\ cache_size_ >= capacity_ /\ entry_list_ = <<>>
  /\ cacheCrashed' = TRUE
  /\ UNCHANGED <<capacity_, cache_size_, entry_list_, free_entry_, cell, entry_index_, lastGet, recent>>

CacheNext ==
  /\ ~cacheCrashed
  /\ \E k \in CacheKeys, now \in Now :
       \/ GetHit(k, now) \/ GetExpired(k, now) \/ GetMiss(k) \/ PutCrashes(k)
       \/ \E v \in CacheValues : PutKnown(k, v, now) \/ PutNew(k, v, now)

CacheSpec == CacheInit /\ [][CacheNext]_cacheVars

-----------------------------------------------------------------------------
\* Get: a hit is what was last put under the key, and not too old.
HitsAreFresh ==
  lastGet.hit =>
    \E e \in {recent[i] : i \in DOMAIN recent} :
      /\ e.key = lastGet.key /\ e.val = lastGet.val
      /\ e.ts <= lastGet.now /\ lastGet.now < e.ts + Expire

\* Put evicts the least recently used entry: the cached entries, in their
\* order, are the most recently used ones of all that were put and did not
\* expire.
KeepsMostRecent ==
  [i \in DOMAIN entry_list_ |-> cell[entry_list_[i]]] = SubSeq(recent, 1, cache_size_)

\* The index leads from each cached key to its cell, and to no free cell; no
\* cell is in both lists; the cells are no more than the capacity; only a
\* cache of capacity 0 can fail.
IndexMatchesCells ==
  /\ Len(entry_list_) = cache_size_
  /\ Cardinality({entry_index_[k] : k \in DOMAIN entry_index_}) = cache_size_
  /\ \A k \in DOMAIN entry_index_ :
       /\ cell[entry_index_[k]].key = k
       /\ entry_index_[k] \in {entry_list_[i] : i \in DOMAIN entry_list_}
  /\ Len(entry_list_) + Len(free_entry_) = Len(cell) /\ Len(cell) <= capacity_
  /\ cacheCrashed => capacity_ = 0

\* Get and Put: the cache is the beginning of the order of use, found through
\* an index that knows its cells and no others.
CacheOK == HitsAreFresh /\ KeepsMostRecent /\ IndexMatchesCells
=============================================================================

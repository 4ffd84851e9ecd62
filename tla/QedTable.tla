------------------------------ MODULE QedTable ------------------------------
(***************************************************************************)
(* The hash table of qed: Builder::Insert and Builder::OptimizeFreeBucket  *)
(* (qed/builder.cc), which change mapped files, and HashTable::Find<true>  *)
(* (qed/hashtable.h), which reads them in another thread or process.       *)
(*                                                                         *)
(* There are managed buckets and free buckets; location_t is a pair        *)
(* <<managed, id>>.  The chain of a managed bucket starts with the bucket  *)
(* itself and goes on through free buckets, or through managed buckets of  *)
(* its cache line that OptimizeFreeBucket has put to use.  The first       *)
(* bucket's size is the length of the chain; size is 0 in all others.      *)
(*                                                                         *)
(* Memory is written store by store.  A bucket has three parts that are    *)
(* stored separately: key_info_field (hi and next), size_field (internal   *)
(* and size), and payload, a 56 bit field that compilers write in several  *)
(* pieces: two halves here.  Compare-and-swaps are barriers; plain stores  *)
(* between two of them come in any order.  Stores to a bucket that no      *)
(* chain reaches are one step.  There is one writer, as the note in        *)
(* hashtable.h demands, so that a compare-and-swap fails only if the       *)
(* writer itself has changed the word.                                     *)
(*                                                                         *)
(* A key is a pair <<hi, bucket_id>>, what the mask makes of key_id.       *)
(* The n-th insertion has the payload <<n, n>>; 0 is what Reserve fills    *)
(* the files with.                                                         *)
(***************************************************************************)
EXTENDS Naturals

CONSTANTS
  Keys,
  BucketCount,   \* 1 << bucket_type
  Taken,         \* free ids a caller took before, with TakeFreeBucketId
  None,          \* QED_ALL_MASK_64 in the tables of root ids, UINT64_MAX as a slot
  NFOUND,
  MaxInserts,    \* bound on calls of Insert
  MaxOptimized   \* bound on calls of OptimizeFreeBucket

ASSUME QedTableAssumption ==
  /\ BucketCount \in Nat /\ BucketCount % 4 = 0 /\ BucketCount > 0
  /\ Keys \subseteq Nat \X (0..BucketCount-1)
  /\ Taken \in SUBSET (0..BucketCount)
  /\ None \notin Nat
  /\ MaxInserts \in Nat /\ MaxOptimized \in Nat
  \* 64 set bits; a payload has 56.
  /\ NFOUND \notin (0..MaxInserts) \X (0..MaxInserts)

VARIABLES
  bucket,         \* location -> its contents
  root_id,        \* location -> root of its chain (two tables in the code)
  free_id_count,
  writer,
  reader,
  content,        \* history: key -> payload last inserted
  displaced,      \* history: an insertion met a foreign bucket in its slot
  inserts, optimized

tableVars == <<bucket, root_id, free_id_count, writer, reader, content, displaced,
          inserts, optimized>>

Ids == 0..BucketCount-1
Locations == BOOLEAN \X Ids
Hi(k) == k[1]
Entry(k) == <<TRUE, k[2]>>
Blank == <<0, 0>>
MaxSize == 127

SizeField(l) == <<bucket[l].internal, bucket[l].size>>
NextBucket(l) == <<bucket[l].internal, bucket[l].next>>

\* The locations a walk from a managed bucket visits.
Walk(id) == LET node[i \in Nat] == IF i = 0 THEN <<TRUE, id>> ELSE NextBucket(node[i-1])
            IN  node

\* bucket_by_location returns no null pointer.
Valid(l) == l[1] \/ l[2] < free_id_count

-----------------------------------------------------------------------------
(* What the history has to know about a Find that is under way.            *)

Finding == reader.pc # "idle"

\* The Find looks for the key whose bucket is written in place: its payload
\* may be seen half written.
Shared == [reader EXCEPT !.expect = @ \cup {writer.payload}, !.shared = TRUE]

\* A bucket that has a size but no key yet looks as if it held the key with
\* high bits 0.
Bare(k, l) == Hi(k) = 0 /\ Entry(k) = l

ObserveStores(l, creates) ==
  reader' = IF ~Finding THEN reader
            ELSE IF reader.key = writer.key THEN Shared
            ELSE IF creates /\ Bare(reader.key, l) THEN [reader EXCEPT !.calm = FALSE]
            ELSE reader

ObserveContent ==
  /\ content' = [content EXCEPT ![writer.key] = writer.payload]
  /\ reader' = IF Finding /\ reader.key = writer.key
               THEN [reader EXCEPT !.expect = @ \cup {writer.payload}]
               ELSE reader

-----------------------------------------------------------------------------
(* The writer.                                                             *)

NoWork == [pc |-> "idle", key |-> None, payload |-> Blank, slot |-> None,
           size_field |-> <<FALSE, 0>>, loc |-> None, last |-> None, todo |-> {}]

Insert(k) ==
  /\ writer.pc = "idle"
  /\ inserts < MaxInserts
  /\ inserts' = inserts + 1
  /\ writer' = [NoWork EXCEPT !.pc = "enter", !.key = k,
                              !.payload = <<inserts + 1, inserts + 1>>]
  /\ UNCHANGED <<bucket, root_id, free_id_count, reader, content, displaced, optimized>>

\* The slot is empty: claim it by its size.  It may be in use for another chain.
Claim ==
  LET entry == Entry(writer.key)
      foreign == root_id[entry] # None
  IN  /\ writer.pc = "enter"
      /\ bucket[entry].size = 0
      /\ bucket' = [bucket EXCEPT ![entry].internal = FALSE, ![entry].size = 1]
      /\ writer' = [writer EXCEPT !.pc = IF foreign THEN "evict" ELSE "create",
                                  !.size_field = SizeField(entry),
                                  !.loc = entry,
                                  !.todo = IF foreign THEN {} ELSE {"lo", "hi", "key"}]
      /\ displaced' = (displaced \/ foreign)
      /\ ObserveStores(entry, TRUE)
      /\ UNCHANGED <<root_id, free_id_count, content, inserts, optimized>>

\* One plain store of a root node, an overwritten payload, or a link.
Stored(b, f) ==
  CASE f = "lo"       -> [b EXCEPT !.payload[1] = writer.payload[1]]
    [] f = "hi"       -> [b EXCEPT !.payload[2] = writer.payload[2]]
    [] f = "key"      -> [b EXCEPT !.hi = Hi(writer.key), !.next = writer.key[2]]
    [] f = "internal" -> [b EXCEPT !.internal = FALSE]
    [] f = "next"     -> [b EXCEPT !.next = writer.slot]

Store(f) ==
  /\ f \in writer.todo
  /\ bucket' = [bucket EXCEPT ![writer.loc] = Stored(@, f)]
  /\ writer' = [writer EXCEPT !.todo = @ \ {f}]
  /\ UNCHANGED <<root_id, free_id_count, reader, content, displaced, inserts, optimized>>

\* A new root node, or a new payload, is complete.
Finish ==
  /\ writer.pc \in {"create", "overwrite"}
  /\ writer.todo = {}
  /\ root_id' = IF writer.pc = "create"
                THEN [root_id EXCEPT ![writer.loc] = writer.loc[2]]
                ELSE root_id
  /\ ObserveContent
  /\ writer' = NoWork
  /\ UNCHANGED <<bucket, free_id_count, displaced, inserts, optimized>>

\* Insert failed; what was changed remains.
Fail == writer' = NoWork

\* find_root, and the parent of the bucket that is in the way: the last of all
\* that match.  The walk ends at the last bucket of the chain.
Parents(id, size) ==
  {i \in 0..size-2 : NextBucket(Walk(root_id[<<TRUE, id>>])[i]) = <<TRUE, id>>}

\* Find the chain the bucket belongs to and shorten it by one.
Evict ==
  LET entry == Entry(writer.key)
      root == <<TRUE, root_id[entry]>>
      size == bucket[root].size
      parents == Parents(entry[2], size)
      parent == CHOOSE i \in parents : \A j \in parents : j <= i
  IN  /\ writer.pc = "evict"
      /\ IF size < 2 \/ parents = {}
         THEN Fail /\ UNCHANGED bucket
         ELSE IF ~bucket[root].internal
         THEN writer' = [writer EXCEPT !.pc = "enter"] /\ UNCHANGED bucket
         ELSE /\ bucket' = [bucket EXCEPT ![root].size = size - 1]
              /\ writer' = [writer EXCEPT !.pc = "bypass_internal",
                                          !.last = Walk(root[2])[parent],
                                          !.loc = Walk(root[2])[size - 1]]
      /\ UNCHANGED <<root_id, free_id_count, reader, content, displaced, inserts, optimized>>

\* TrySetNextBucketId: the parent's two words, one after the other.
BypassInternal ==
  /\ writer.pc = "bypass_internal"
  /\ bucket' = [bucket EXCEPT ![writer.last].internal = bucket[Entry(writer.key)].internal]
  /\ writer' = [writer EXCEPT !.pc = "bypass_next"]
  /\ UNCHANGED <<root_id, free_id_count, reader, content, displaced, inserts, optimized>>

BypassNext ==
  /\ writer.pc = "bypass_next"
  /\ bucket' = [bucket EXCEPT ![writer.last].next = bucket[Entry(writer.key)].next]
  /\ writer' = [writer EXCEPT !.pc = "move"]
  /\ UNCHANGED <<root_id, free_id_count, reader, content, displaced, inserts, optimized>>

\* TakeFreeBucketId, unless there is a slot from an earlier attempt.
NoFreeBucket == writer.slot = None /\ free_id_count + 1 > BucketCount

Slot == IF writer.slot = None THEN free_id_count ELSE writer.slot
TakeFreeBucketId ==
  free_id_count' = IF writer.slot = None THEN free_id_count + 1 ELSE free_id_count

\* Copy the bucket to a free one and hang that after the last of the chain.
Move ==
  /\ writer.pc = "move"
  /\ IF NoFreeBucket
     THEN Fail /\ UNCHANGED <<bucket, root_id, free_id_count>>
     ELSE /\ TakeFreeBucketId
          /\ bucket' = [bucket EXCEPT ![<<FALSE, Slot>>] =
                          [bucket[Entry(writer.key)] EXCEPT !.internal = TRUE, !.size = 0]]
          /\ root_id' = [root_id EXCEPT ![<<FALSE, Slot>>] = writer.key[2]]
          /\ writer' = [writer EXCEPT !.pc = "recheck", !.slot = Slot,
                                      !.todo = {"internal", "next"}]
  /\ UNCHANGED <<reader, content, displaced, inserts, optimized>>

\* The size is compared with the one it had before Claim.
Recheck ==
  LET same == SizeField(Entry(writer.key)) = writer.size_field
  IN  /\ writer.pc = "recheck"
      /\ writer.todo = {}
      /\ writer' = IF same
                   THEN [writer EXCEPT !.pc = "create", !.loc = Entry(writer.key),
                                       !.todo = {"lo", "hi", "key"}]
                   ELSE [writer EXCEPT !.pc = "enter", !.slot = None]
      /\ UNCHANGED <<bucket, root_id, free_id_count, reader, content, displaced,
                     inserts, optimized>>

\* size_field is UINT8_MAX: Insert gives up.
IsFull(k) == SizeField(Entry(k)) = <<TRUE, MaxSize>>

\* Positions in the chain of the key where its high bits are.
Matches(k) == {i \in 0..bucket[Entry(k)].size-1 : bucket[Walk(k[2])[i]].hi = Hi(k)}

\* The key is there: write its payload in place.  If the bucket belongs to
\* another chain Insert calls itself with the same arguments, again and again.
Overwrite ==
  LET k == writer.key
      i == CHOOSE m \in Matches(k) : \A n \in Matches(k) : m <= n
      l == Walk(k[2])[i]
  IN  /\ writer.pc = "enter"
      /\ bucket[Entry(k)].size # 0
      /\ Matches(k) # {}
      /\ writer' = IF IsFull(k) THEN NoWork
                   ELSE IF ~l[1] \/ i = 0 \/ root_id[l] = k[2]
                   THEN [writer EXCEPT !.pc = "overwrite", !.loc = l, !.todo = {"lo", "hi"}]
                   ELSE [writer EXCEPT !.pc = "stuck"]
      /\ ObserveStores(l, FALSE)
      /\ UNCHANGED <<bucket, root_id, free_id_count, content, displaced, inserts, optimized>>

\* Slip: the new bucket gets a size, as a root has.
NewNodeSized(k) ==
  [hi |-> Hi(k), next |-> k[2], internal |-> TRUE, size |-> 1, payload |-> writer.payload]

\* What a free bucket is filled with; as the tail it points to the root.
NewNode(k) ==
  [hi |-> Hi(k), next |-> k[2], internal |-> TRUE, size |-> 0, payload |-> writer.payload]

\* The key is not there: fill a free bucket.
AppendNode ==
  LET k == writer.key
      size == bucket[Entry(k)].size
  IN  /\ writer.pc = "enter"
      /\ size # 0
      /\ Matches(k) = {}
      /\ IF IsFull(k) \/ NoFreeBucket
         THEN Fail /\ UNCHANGED <<bucket, root_id, free_id_count>>
         ELSE /\ TakeFreeBucketId
              /\ bucket' = [bucket EXCEPT ![<<FALSE, Slot>>] = NewNode(k)]
              /\ root_id' = [root_id EXCEPT ![<<FALSE, Slot>>] = k[2]]
              /\ writer' = [writer EXCEPT !.pc = "link", !.slot = Slot,
                                          !.size_field = SizeField(Entry(k)),
                                          !.last = Walk(k[2])[size - 1]]
      /\ UNCHANGED <<reader, content, displaced, inserts, optimized>>

\* The last bucket of the chain gets the new one as its next.
Link ==
  LET taken == writer.last # Entry(writer.key) /\ bucket[writer.last].size # 0
  IN  /\ writer.pc = "link"
      /\ bucket' = [bucket EXCEPT ![writer.last].next = writer.slot]
      /\ writer' = [writer EXCEPT !.pc = IF taken THEN "enter" ELSE "tail"]
      /\ UNCHANGED <<root_id, free_id_count, reader, content, displaced, inserts, optimized>>

\* Slip: the flag is left alone.
TailFlagged ==
  /\ writer.pc = "tail"
  /\ writer' = [writer EXCEPT !.pc = "grow"]
  /\ UNCHANGED <<bucket, root_id, free_id_count, reader, content, displaced, inserts,
                 optimized>>

\* The new next is in the free buckets.
MarkTail ==
  /\ writer.pc = "tail"
  /\ bucket' = [bucket EXCEPT ![writer.last].internal = FALSE]
  /\ writer' = [writer EXCEPT !.pc = "grow"]
  /\ UNCHANGED <<root_id, free_id_count, reader, content, displaced, inserts, optimized>>

\* Make the new bucket visible.  The sum runs into the flag at MaxSize.
Grow ==
  LET entry == Entry(writer.key)
      size == bucket[entry].size
  IN  /\ writer.pc = "grow"
      /\ IF SizeField(entry) # writer.size_field
         THEN /\ writer' = [writer EXCEPT !.pc = "enter"]
              /\ UNCHANGED <<bucket, content, reader>>
         ELSE /\ bucket' = [bucket EXCEPT ![entry].size = (size + 1) % (MaxSize + 1),
                                          ![entry].internal = @ \/ size = MaxSize]
              /\ ObserveContent
              /\ writer' = NoWork
      /\ UNCHANGED <<root_id, free_id_count, displaced, inserts, optimized>>

-----------------------------------------------------------------------------
(* OptimizeFreeBucket: move a free bucket into the root's cache line.      *)

\* Buckets of the cache line (level is 0) that are not used for anything.
Unused(root) ==
  {i \in Ids : /\ i \div 4 = root \div 4
               /\ i # root
               /\ root_id[<<TRUE, i>>] = None
               /\ bucket[<<TRUE, i>>].size = 0}

\* Claim the first unused bucket and copy the free one to it.
OptimizeFreeBucket(f) ==
  LET root == root_id[<<FALSE, f>>]
      iter == <<TRUE, CHOOSE i \in Unused(root) : \A j \in Unused(root) : i <= j>>
  IN  /\ writer.pc = "idle"
      /\ optimized < MaxOptimized
      /\ optimized' = optimized + 1
      /\ Valid(<<FALSE, f>>)
      /\ root # None
      /\ Unused(root) # {}
      /\ bucket' = [bucket EXCEPT ![iter] = bucket[<<FALSE, f>>]]
      /\ root_id' = [root_id EXCEPT ![iter] = root]
      /\ writer' = [NoWork EXCEPT !.pc = "find_parent", !.slot = f, !.loc = iter]
      /\ UNCHANGED <<free_id_count, reader, content, displaced, inserts>>

\* Follow the chain to the bucket that points to the free one.  At a bucket with
\* a wrong size FindParent calls itself with the same arguments, again and again.
FindParent ==
  LET f == <<FALSE, writer.slot>>
      node == Walk(root_id[f])
      wrong(i) == (i = 0) = (bucket[node[i]].size = 0)
      stops == {i \in 0..bucket[<<TRUE, root_id[f]>>].size-1 :
                  ~Valid(node[i]) \/ wrong(i) \/ NextBucket(node[i]) = f}
      first == CHOOSE i \in stops : \A j \in stops : i <= j
  IN  /\ writer.pc = "find_parent"
      /\ writer' = IF stops = {} \/ ~Valid(node[first]) THEN NoWork
                   ELSE IF wrong(first) THEN [writer EXCEPT !.pc = "stuck"]
                   ELSE [writer EXCEPT !.pc = "optimize_internal", !.last = node[first]]
      /\ UNCHANGED <<bucket, root_id, free_id_count, reader, content, displaced,
                     inserts, optimized>>

\* The parent's flag first, then the id it goes with.
OptimizeInternal ==
  /\ writer.pc = "optimize_internal"
  /\ bucket' = [bucket EXCEPT ![writer.last].internal = TRUE]
  /\ writer' = [writer EXCEPT !.pc = "optimize_next"]
  /\ UNCHANGED <<root_id, free_id_count, reader, content, displaced, inserts, optimized>>

OptimizeNext ==
  /\ writer.pc = "optimize_next"
  /\ bucket' = [bucket EXCEPT ![writer.last].next = writer.loc[2]]
  /\ root_id' = [root_id EXCEPT ![<<FALSE, writer.slot>>] = None]
  /\ writer' = NoWork
  /\ UNCHANGED <<free_id_count, reader, content, displaced, inserts, optimized>>

-----------------------------------------------------------------------------
(* The reader: Find<true>.                                                 *)

NoFind == [pc |-> "idle", key |-> None, i |-> 0, size |-> 0, loc |-> None, link |-> None,
           payload |-> Blank, expect |-> {}, calm |-> TRUE, shared |-> FALSE]

\* The result stays behind as payload.
Return(v) == [NoFind EXCEPT !.payload = v]

\* The bucket's size is the number of buckets to look at.
FirstSize(now) ==
  LET size == bucket[Entry(now.key)].size
      bare == /\ writer.pc = "create" /\ writer.key # now.key
              /\ Bare(now.key, writer.loc)
  IN  reader' = IF size = 0 THEN Return(NFOUND)
                ELSE [now EXCEPT !.pc = "compare", !.i = 0, !.size = size,
                                 !.loc = Entry(now.key), !.calm = ~bare]

Find(k) ==
  LET own == writer.pc \in {"create", "overwrite"} /\ writer.key = k
  IN  /\ ~Finding
      /\ FirstSize([NoFind EXCEPT
                      !.key = k,
                      !.expect = {content[k]} \cup (IF own THEN {writer.payload} ELSE {}),
                      !.shared = own])
      /\ UNCHANGED <<bucket, root_id, free_id_count, writer, content, displaced,
                     inserts, optimized>>

FindAgain == reader.pc = "begin" /\ FirstSize(reader)

\* The link that a bucket had before, while OptimizeFreeBucket changes it.
Published(l) ==
  IF writer.pc = "optimize_next" /\ writer.last = l THEN <<FALSE, bucket[l].next>>
  ELSE NextBucket(l)

\* Slip: one bucket too many is looked at.
CompareLate ==
  /\ reader.pc = "compare"
  /\ reader' = IF bucket[reader.loc].hi = Hi(reader.key)
               THEN [reader EXCEPT !.pc = "payload"]
               ELSE IF reader.i = reader.size
               THEN Return(NFOUND)
               ELSE [reader EXCEPT !.pc = "advance", !.link = Published(reader.loc)]

\* key_info_field is loaded once: the high bits and, with them, the next id.
Compare ==
  /\ reader.pc = "compare"
  /\ reader' = IF bucket[reader.loc].hi = Hi(reader.key)
               THEN [reader EXCEPT !.pc = "payload"]
               ELSE IF reader.i + 1 = reader.size
               THEN Return(NFOUND)
               ELSE [reader EXCEPT !.pc = "advance", !.link = Published(reader.loc)]

\* The flag is loaded after it.  A link of which one half is older than the other
\* is noted.
Advance ==
  LET internal == bucket[reader.loc].internal
  IN  /\ reader.pc = "advance"
      /\ reader' = [reader EXCEPT !.pc = "compare", !.i = @ + 1,
                                  !.loc = <<internal, reader.link[2]>>, !.link = None,
                                  !.calm = @ /\ internal = reader.link[1]]

ReadPayload ==
  /\ reader.pc = "payload"
  /\ reader' = [reader EXCEPT !.pc = "check", !.payload = bucket[reader.loc].payload]

\* The first bucket has a size, the others have none; if not, start again.
CheckSize ==
  LET changed == (reader.i = 0) = (bucket[reader.loc].size = 0)
  IN  /\ reader.pc = "check"
      /\ reader' = [reader EXCEPT !.pc = IF changed THEN "begin" ELSE "recheck"]

CheckPayload ==
  /\ reader.pc = "recheck"
  /\ reader' = IF reader.payload = bucket[reader.loc].payload
               THEN Return(reader.payload)
               ELSE [reader EXCEPT !.pc = "begin"]

-----------------------------------------------------------------------------
\* Reserve has filled the files.
TableInit ==
  /\ bucket = [l \in Locations |-> [hi |-> 0, next |-> 0, internal |-> FALSE, size |-> 0,
                                    payload |-> Blank]]
  /\ root_id = [l \in Locations |-> None]
  /\ free_id_count \in Taken
  /\ writer = NoWork
  /\ reader = NoFind
  /\ content = [k \in Keys |-> NFOUND]
  /\ displaced = FALSE
  /\ inserts = 0
  /\ optimized = 0

WriterStep ==
  \/ Claim \/ Finish \/ Overwrite \/ AppendNode \/ Link \/ MarkTail \/ Grow
  \/ Evict \/ BypassInternal \/ BypassNext \/ Move \/ Recheck
  \/ FindParent \/ OptimizeInternal \/ OptimizeNext
  \/ \E f \in {"lo", "hi", "key", "internal", "next"} : Store(f)

ReaderStep ==
  /\ FindAgain \/ Compare \/ Advance \/ ReadPayload \/ CheckSize \/ CheckPayload
  /\ UNCHANGED <<bucket, root_id, free_id_count, writer, content, displaced,
                 inserts, optimized>>

TableNext ==
  \/ \E k \in Keys : Insert(k) \/ Find(k)
  \/ \E f \in Ids : OptimizeFreeBucket(f)
  \/ WriterStep
  \/ ReaderStep

\* A call that has been begun goes on.
TableSpec ==
  TableInit /\ [][TableNext]_tableVars /\ WF_tableVars(WriterStep) /\ WF_tableVars(ReaderStep)

-----------------------------------------------------------------------------
Payloads == {<<a, b>> : a, b \in 0..MaxInserts}

\* Types.
TableTypeOK ==
  /\ bucket \in [Locations -> [hi : {Hi(k) : k \in Keys} \cup {0}, next : Ids,
                               internal : BOOLEAN, size : 0..MaxSize, payload : Payloads]]
  /\ root_id \in [Locations -> Ids \cup {None}]
  /\ free_id_count \in 0..BucketCount
  /\ writer.key \in Keys \cup {None} /\ writer.slot \in Ids \cup {None}
  /\ reader.key \in Keys \cup {None} /\ reader.loc \in Locations \cup {None}
  /\ content \in [Keys -> Payloads \cup {NFOUND}]

\* A volatile Find returns what its key had at some time during the call.  If the
\* key's payload is written in place meanwhile it may be a mixture of what it had,
\* and of the zeros of a bucket that is being created.  Not promised: for a Find
\* that read the two halves of a link on both sides of OptimizeFreeBucket's second
\* store, for one that looks for high bits 0 while another key's root is without
\* its key, or after an insertion has displaced a bucket.
RegularFind ==
  [][Finding /\ reader'.pc = "idle" /\ reader.calm /\ ~displaced =>
       \/ reader'.payload \in reader.expect
       \/ /\ reader.shared
          /\ \E a, b \in (reader.expect \ {NFOUND}) \cup {Blank} :
               reader'.payload = <<a[1], b[2]>>]_tableVars

\* Between two calls the chains hold exactly what was inserted, in the last
\* version, wherever OptimizeFreeBucket has moved it.
TableIsMap ==
  writer.pc = "idle" /\ ~displaced =>
    \A k \in Keys :
      content[k] = IF Matches(k) = {} THEN NFOUND
                   ELSE LET i == CHOOSE m \in Matches(k) : \A n \in Matches(k) : m <= n
                        IN  bucket[Walk(k[2])[i]].payload

\* Between two calls every bucket of a chain knows its root, only the first one
\* has a size, and no bucket is in two chains.  Insert and FindParent call
\* themselves without end when they meet a bucket for which this is wrong.
ChainsOwned ==
  writer.pc \in {"idle", "stuck"} /\ ~displaced =>
    /\ writer.pc # "stuck"
    /\ \A id \in Ids : \A i \in 0..bucket[<<TRUE, id>>].size-1 :
         LET l == Walk(id)[i]
         IN  /\ Valid(l)
             /\ root_id[l] = id
             /\ i # 0 => bucket[l].size = 0
             /\ \A j \in 0..i-1 : Walk(id)[j] # l

\* Insert, OptimizeFreeBucket: between two calls the buckets make up chains
\* that hold the map.
TableOK == TableTypeOK /\ TableIsMap /\ ChainsOwned

\* Every Find ends, unless an insertion has displaced a bucket.
FindEnds == Finding ~> (~Finding \/ displaced)
=============================================================================

------------------------------- MODULE Bihash -------------------------------
(***************************************************************************)
(* The bounded-index extensible hash (vppinfra/bihash_template.c): buckets *)
(* of one or more pages of (key, value) pairs, a lock for the threads that *)
(* change the table, and none for those that search it.  While a bucket is *)
(* changed its readers are sent to a working copy of it.  A page without   *)
(* room makes the bucket grow: the pairs are dealt to twice, or four       *)
(* times, the pages by more bits of their hashes, and if these collide the *)
(* bucket becomes a list that is searched from one end to the other.       *)
(***************************************************************************)
EXTENDS Integers, Sequences, FiniteSetsExt, SequencesExt

CONSTANTS
  Keys, Values,
  NBuckets,     \* h->nbuckets
  KvpPerPage,   \* BIHASH_KVP_PER_PAGE
  MaxLog2,      \* bound: log2 of the pages of a bucket
  Writers,      \* threads that change the table, one working copy each
  Readers,      \* threads that search it
  Tables,       \* tables and their users, see TablesAssumption
  NoKey, NoValue, None

\* A hash function for the keys that are used, the values that are stored, the
\* threads that change the table and the keys that are searched for.
ASSUME TablesAssumption ==
  \A t \in Tables :
    /\ t.hash \in [DOMAIN t.hash -> Nat] /\ DOMAIN t.hash \subseteq Keys
    /\ t.values \subseteq Values
    /\ t.writers \subseteq Writers /\ t.searched \subseteq DOMAIN t.hash
ASSUME PagesAssumption ==
  NBuckets \in Nat \ {0} /\ KvpPerPage \in Nat \ {0} /\ MaxLog2 \in Nat
ASSUME NamesAssumption ==
  /\ NoKey \notin Keys /\ NoValue \notin Values
  /\ None \notin Keys \cup {NoKey} \cup Writers
  /\ Writers \cap Nat = {}

VARIABLES
  table,         \* which table it is; never changes
  buckets,       \* bucket: where its pages are, how many, in what order
  heap,          \* blocks of pages, known by their place in the sequence
  freelists,     \* for each size the free blocks, the last one is used first
  working_copies,    \* a block for each writer
  saved_bucket,
  writer_lock,   \* the writer inside clib_bihash_add_del, or None
  w_pc,          \* where it is
  add_v,         \* its argument; the value is NoValue when is_add is 0
  search,        \* the state of each reader's clib_bihash_search
  overlap,       \* history: writers that have made an update during the search
  disturbed      \* history: one of them has made another, or the key has been
                 \* updated, or its bucket has grown

memory == <<heap, freelists>>
writer == <<saved_bucket, writer_lock, w_pc, add_v>>
readers == <<search, overlap, disturbed>>
bihash_vars == <<table, buckets, memory, working_copies, writer, readers>>

Pair(k, v) == [key |-> k, value |-> v]
FreePair == Pair(NoKey, NoValue)

Size(log2) == KvpPerPage * 2 ^ log2
Blank(log2) == [i \in 1..Size(log2) |-> FreePair]

\* A bucket with offset 0 has no pages.
NoBucket == [offset |-> 0, log2_pages |-> 0, linear_search |-> FALSE]

Idle == [pc |-> "idle", key |-> NoKey, bucket |-> NoBucket]

\* clib_bihash_init
BihashInit ==
  /\ table \in Tables
  /\ buckets = [i \in 0..(NBuckets - 1) |-> NoBucket]
  /\ heap = <<>>
  /\ freelists = [n \in 0..MaxLog2 |-> <<>>]
  /\ working_copies = [w \in Writers |-> <<>>]
  /\ saved_bucket = NoBucket
  /\ writer_lock = None /\ w_pc = "idle" /\ add_v = FreePair
  /\ search = [r \in Readers |-> Idle]
  /\ overlap = [r \in Readers |-> {}]
  /\ disturbed = [r \in Readers |-> FALSE]

BucketIndex(k) == table.hash[k] % NBuckets
PageIndex(k, log2) == (table.hash[k] \div NBuckets) % 2 ^ log2

\* clib_bihash_get_value: an offset is a block, or the working copy of a writer.
Block(offset) == IF offset \in Writers THEN working_copies[offset] ELSE heap[offset]

\* The places in the block of bucket b where key k may be: those of its page, or
\* all when the bucket is searched linearly.
Places(k, b) ==
  IF b.linear_search THEN 1..Size(b.log2_pages)
  ELSE LET first == PageIndex(k, b.log2_pages) * KvpPerPage
       IN  (first + 1)..(first + KvpPerPage)

Holding(block, places, k) == {i \in places \cap DOMAIN block : block[i].key = k}

\* The value of k in a block of bucket b.
Lookup(k, block, b) ==
  LET hits == Holding(block, Places(k, b), k)
  IN  IF hits = {} THEN NoValue ELSE block[Min(hits)].value

-----------------------------------------------------------------------------
(***************************************************************************)
(* Blocks.  m is a pair: the heap and the free lists.                      *)
(***************************************************************************)

\* value_alloc: a free block of this size, or a new one, all pairs free.
Alloc(m, log2) ==
  IF m.free[log2] = <<>>
  THEN [heap |-> Append(m.heap, Blank(log2)), free |-> m.free, id |-> Len(m.heap) + 1]
  ELSE [heap |-> [m.heap EXCEPT ![Last(m.free[log2])] = Blank(log2)],
        free |-> [m.free EXCEPT ![log2] = Front(@)],
        id   |-> Last(m.free[log2])]

\* value_free: next_free takes the place of the first key.
Release(m, id, log2) ==
  [heap |-> [m.heap EXCEPT ![id][1].key = None],
   free |-> [m.free EXCEPT ![log2] = Append(@, id)]]

\* The places of the pairs that are in use, and of those that go to page p of
\* 2^log2.
InUse(pairs) == {i \in DOMAIN pairs : pairs[i].key # NoKey}
Dealt(pairs, log2, p) == {i \in InUse(pairs) : PageIndex(pairs[i].key, log2) = p}

\* The pair at the place that has n of these places before it.
After(pairs, places, n) ==
  IF n < Cardinality(places)
  THEN pairs[CHOOSE i \in places : Cardinality({j \in places : j < i}) = n]
  ELSE FreePair

\* split_and_rehash, and the pair to be added after it, find room on every page.
Fits(pairs, log2) ==
  \A p \in 0..(2 ^ log2 - 1) : Cardinality(Dealt(pairs, log2, p)) <= KvpPerPage

\* split_and_rehash: each page takes the pairs that go there, in their order.
split_and_rehash(pairs, log2) ==
  [i \in 1..Size(log2) |->
     After(pairs, Dealt(pairs, log2, (i - 1) \div KvpPerPage), (i - 1) % KvpPerPage)]

\* split_and_rehash_linear
split_and_rehash_linear(pairs, log2) ==
  [i \in 1..Size(log2) |-> After(pairs, InUse(pairs), i - 1)]

-----------------------------------------------------------------------------
(***************************************************************************)
(* clib_bihash_add_del                                                     *)
(***************************************************************************)

ThisBucket == BucketIndex(add_v.key)

Unlock ==
  /\ writer_lock' = None
  /\ w_pc' = "idle"
  /\ add_v' = FreePair
  /\ saved_bucket' = NoBucket

\* Take writer_lock.  v is NoValue for a delete.
Lock(w, k, v) ==
  /\ writer_lock = None
  /\ writer_lock' = w
  /\ add_v' = Pair(k, v)
  /\ w_pc' = "locked"
  /\ disturbed' = [r \in Readers |-> disturbed[r] \/ search[r].key = k \/ w \in overlap[r]]
  /\ overlap' = [r \in Readers |-> IF search[r].pc = "idle" THEN {} ELSE overlap[r] \cup {w}]
  /\ UNCHANGED <<table, buckets, memory, working_copies, saved_bucket, search>>

\* "First elt in the bucket?"
First ==
  LET a == Alloc([heap |-> heap, free |-> freelists], 0) IN
  /\ w_pc = "locked"
  /\ buckets[ThisBucket].offset = 0
  /\ IF add_v.value = NoValue THEN UNCHANGED <<buckets, memory>>
     ELSE /\ heap' = [a.heap EXCEPT ![a.id][1] = add_v]
          /\ freelists' = a.free
          /\ buckets' = [buckets EXCEPT ![ThisBucket] = [NoBucket EXCEPT !.offset = a.id]]
  /\ Unlock
  /\ UNCHANGED <<table, working_copies, readers>>

\* Wrong: one working copy for all threads.
MutOneCopy ==
  LET b == buckets[ThisBucket]
      c == CHOOSE w \in Writers : TRUE
  IN
  /\ w_pc = "locked"
  /\ b.offset # 0
  /\ saved_bucket' = b
  /\ working_copies' = [w \in Writers |-> Block(b.offset)]
  /\ buckets' = [buckets EXCEPT ![ThisBucket].offset = c]
  /\ w_pc' = "copied"
  /\ UNCHANGED <<table, memory, writer_lock, add_v, readers>>

\* make_working_copy: save the bucket, copy its pages, send readers to the copy.
make_working_copy ==
  LET b == buckets[ThisBucket] IN
  /\ w_pc = "locked"
  /\ b.offset # 0
  /\ saved_bucket' = b
  /\ working_copies' = [working_copies EXCEPT ![writer_lock] = Block(b.offset)]
  /\ buckets' = [buckets EXCEPT ![ThisBucket].offset = writer_lock]
  /\ w_pc' = "copied"
  /\ UNCHANGED <<table, memory, writer_lock, add_v, readers>>

InPlaces(k) == Holding(heap[saved_bucket.offset], Places(add_v.key, saved_bucket), k)

\* Wrong: look for an empty place first.
MutFreeFirst ==
  IF InPlaces(NoKey) = {} \/ add_v.value = NoValue THEN InPlaces(add_v.key)
  ELSE InPlaces(NoKey)

\* Where the pair goes: the place of the key, else, for an add, the first that is
\* free.
Targets ==
  IF InPlaces(add_v.key) # {} \/ add_v.value = NoValue THEN InPlaces(add_v.key)
  ELSE InPlaces(NoKey)

\* Replace, add or delete in the pages nobody is sent to any more.  A key that is
\* not there is not deleted.
Change ==
  /\ w_pc = "copied"
  /\ Targets # {} \/ add_v.value = NoValue
  /\ heap' = IF Targets = {} THEN heap
             ELSE [heap EXCEPT ![saved_bucket.offset][Min(Targets)] =
                     IF add_v.value = NoValue THEN FreePair ELSE add_v]
  /\ w_pc' = "changed"
  /\ UNCHANGED <<table, buckets, freelists, working_copies, saved_bucket, writer_lock,
                 add_v, readers>>

\* Send the readers back.
Restore ==
  /\ w_pc = "changed"
  /\ buckets' = [buckets EXCEPT ![ThisBucket] = saved_bucket]
  /\ Unlock
  /\ UNCHANGED <<table, memory, working_copies, readers>>

(***************************************************************************)
(* "no room at the inn... split case...": try twice the pages, then four   *)
(* times as many, then twice as many searched linearly.  A block that does *)
(* not do is given back.                                                   *)
(***************************************************************************)
Grow ==
  LET twice  == saved_bucket.log2_pages + 1
      pairs  == Append(working_copies[writer_lock], add_v)
      ok(n)  == Fits(pairs, n)
      linear == ~ok(twice) /\ ~ok(twice + 1)
      log2   == IF linear \/ ok(twice) THEN twice ELSE twice + 1
      Try(m, n) == LET a == Alloc(m, n) IN Release(a, a.id, n)
      now    == [heap |-> heap, free |-> freelists]
      tried  == IF ok(twice) THEN now
                ELSE IF ~linear THEN Try(now, twice) ELSE Try(Try(now, twice), twice + 1)
      a      == Alloc(tried, log2)
  IN
  /\ w_pc = "copied"
  /\ Targets = {} /\ add_v.value # NoValue
  /\ twice < MaxLog2
  /\ heap' = [a.heap EXCEPT ![a.id] = IF linear THEN split_and_rehash_linear(pairs, log2)
                                      ELSE split_and_rehash(pairs, log2)]
  /\ freelists' = a.free
  /\ buckets' = [buckets EXCEPT ![ThisBucket] =
                   [offset |-> a.id, log2_pages |-> log2, linear_search |-> linear]]
  /\ disturbed' = [r \in Readers |-> disturbed[r] \/ (search[r].pc # "idle" /\
                                     BucketIndex(search[r].key) = ThisBucket)]
  /\ w_pc' = "grown"
  /\ UNCHANGED <<table, working_copies, saved_bucket, writer_lock, add_v, search, overlap>>

\* Free the old pages.
FreeOld ==
  LET m == Release([heap |-> heap, free |-> freelists], saved_bucket.offset,
                   saved_bucket.log2_pages)
  IN
  /\ w_pc = "grown"
  /\ heap' = m.heap
  /\ freelists' = m.free
  /\ Unlock
  /\ UNCHANGED <<table, buckets, working_copies, readers>>

-----------------------------------------------------------------------------
(***************************************************************************)
(* clib_bihash_search                                                      *)
(***************************************************************************)

\* Read the offset.  A bucket without pages is the end of the search.
SearchBegins(r, k) ==
  /\ search[r].pc = "idle"
  /\ buckets[BucketIndex(k)].offset # 0
  /\ search' = [search EXCEPT ![r] =
                  [pc |-> "offset", key |-> k,
                   bucket |-> [NoBucket EXCEPT !.offset = buckets[BucketIndex(k)].offset]]]
  /\ overlap' = [overlap EXCEPT ![r] = {writer_lock} \ {None}]
  /\ disturbed' = [disturbed EXCEPT ![r] = add_v.key = k]
  /\ UNCHANGED <<table, buckets, memory, working_copies, writer>>

\* Read linear_search and log2_pages, by then perhaps those of another offset.
SearchShape(r) ==
  LET b == buckets[BucketIndex(search[r].key)] IN
  /\ search[r].pc = "offset"
  /\ search' = [search EXCEPT ![r].pc = "shape",
                              ![r].bucket = [b EXCEPT !.offset = search[r].bucket.offset]]
  /\ UNCHANGED <<table, buckets, memory, working_copies, writer, overlap, disturbed>>

\* What the search may return when it looks through the page now.  Beyond the end
\* of the block there may be anything.
Outcomes(r) ==
  LET s     == search[r]
      block == Block(s.bucket.offset)
  IN  {Lookup(s.key, block, s.bucket)} \cup
      (IF Places(s.key, s.bucket) \subseteq DOMAIN block THEN {} ELSE Values)

\* Return one of the outcomes.
SearchReturns(r) ==
  /\ search[r].pc = "shape"
  /\ search' = [search EXCEPT ![r] = Idle]
  /\ overlap' = [overlap EXCEPT ![r] = {}]
  /\ disturbed' = [disturbed EXCEPT ![r] = FALSE]
  /\ UNCHANGED <<table, buckets, memory, working_copies, writer>>

Update ==
  \/ \E w \in table.writers, k \in DOMAIN table.hash, v \in table.values \cup {NoValue} :
       Lock(w, k, v)
  \/ First \/ make_working_copy \/ Change \/ Restore \/ Grow \/ FreeOld

Search(r) ==
  \/ \E k \in table.searched : SearchBegins(r, k)
  \/ SearchShape(r) \/ SearchReturns(r)

BihashNext == Update \/ \E r \in Readers : Search(r)

BihashSpec == BihashInit /\ [][BihashNext]_bihash_vars

-----------------------------------------------------------------------------
\* What a search that nobody interferes with finds now.
Found(k) ==
  LET b == buckets[BucketIndex(k)]
  IN  IF b.offset = 0 THEN NoValue ELSE Lookup(k, Block(b.offset), b)

Map == INSTANCE KeyValueMap WITH
  map <- [k \in Keys |-> IF k \in DOMAIN table.hash THEN Found(k) ELSE NoValue],
  op  <- IF w_pc = "grown" THEN FreePair ELSE add_v

\* At every moment, in the middle of an update too, the table is a map, and each
\* update changes it in one step as it was told: no key is lost, comes back or is
\* found twice when pages are copied, split, split again or given up for a list.
ImplementsMap == Map!Spec

\* A search finds what is in the table although no lock keeps the pages it reads
\* from being changed: as long as no thread makes more than one update meanwhile,
\* and the key itself is left alone and its bucket does not grow.
SearchExact ==
  \A r \in Readers :
    search[r].pc = "shape" /\ ~disturbed[r] => Outcomes(r) = {Found(search[r].key)}
=============================================================================

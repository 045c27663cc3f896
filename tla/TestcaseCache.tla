--------------------------- MODULE TestcaseCache ----------------------------
(***************************************************************************)
(* The cache of test case buffers of afl-fuzz (afl-fuzz-queue.c):          *)
(* queue_testcase_get with its random eviction, queue_testcase_store_mem,  *)
(* and the two functions that follow a trimmed test case,                  *)
(* queue_testcase_retake and queue_testcase_retake_mem, in the order in    *)
(* which fuzz_one and save_if_interesting call them.                       *)
(*                                                                         *)
(* Abstractions.  Buffers have lengths and no contents.  A weight is       *)
(* either below 1.0 or not.  The file behind an entry can be read.  The    *)
(* cache is configured (AFL_TESTCACHE_SIZE is not 0).                      *)
(***************************************************************************)
EXTENDS Integers, FiniteSets

CONSTANTS
    Entries,        \* queue entries, those in the queue and those to be found
    NoEntry,        \* NULL
    Lengths,        \* the lengths of test cases
    MaxCacheSize,   \* q_testcase_max_cache_size
    MaxEntries,     \* q_testcase_max_cache_entries as configured
    Slack,          \* 1024 in queue_testcase_retake(_mem)
    U32, U64        \* 2^32 and 2^64

ASSUME CacheAssumption ==
    /\ NoEntry \notin Entries
    /\ IsFiniteSet(Entries)
    /\ Lengths \subseteq Nat \ {0}
    /\ MaxCacheSize \in Nat
    /\ \A l \in Lengths : 2 * l <= MaxCacheSize  \* 2 * MAX_FILE, checked in main
    /\ MaxEntries \in Nat /\ MaxEntries >= 3
    /\ Slack \in Nat
    /\ U32 \in Nat \ {0} /\ U64 \in Nat \ {0}

VARIABLES
    queued,             \* the entries of the queue
    len,                \* q->len
    cached,             \* the entries whose testcase_buf is not NULL
    light,              \* the entries whose weight is below 1.0
    trim_done,          \* q->trim_done
    queue_cur,          \* the entry being fuzzed, or the last one
    pc,                 \* where fuzz_one is
    wanted,             \* the entry queue_testcase_get has been called for
    tid,                \* its local variable
    cache,              \* q_testcase_cache: slot -> entry
    cache_size,         \* q_testcase_cache_size
    cache_count,        \* q_testcase_cache_count
    max_cache_count,    \* q_testcase_max_cache_count
    max_cache_entries,  \* q_testcase_max_cache_entries
    smallest_free,      \* q_testcase_smallest_free
    do_once             \* the static of queue_testcase_get

queueVars == <<queued, len, light, trim_done, queue_cur>>
slotVars == <<cached, cache, cache_count, max_cache_count, smallest_free>>
limitVars == <<max_cache_entries, do_once>>
callVars == <<pc, wanted, tid>>
vars == <<queueVars, slotVars, limitVars, callVars, cache_size>>

Slots == 0..MaxEntries

\* How many slots q_testcase_cache has.
Allocated == IF do_once THEN max_cache_entries + 1 ELSE MaxEntries

Points == {"main",      \* between two rounds
           "get",       \* in the eviction loop of queue_testcase_get
           "trim",      \* the buffer of queue_cur is at hand, trim_case is next
           "fuzzing"}   \* in the stages

\* The types of the cache's fields in afl_state_t: the marks of q_testcase_cache
\* stay within its slots, and only queue entries are cached.
TypeOK ==
    /\ queued \subseteq Entries
    /\ len \in [Entries -> Lengths]
    /\ cached \subseteq queued
    /\ light \subseteq queued
    /\ trim_done \subseteq queued
    /\ queue_cur \in queued \cup {NoEntry}
    /\ pc \in Points
    /\ wanted \in queued \cup {NoEntry}
    /\ tid \in Slots
    /\ cache \in [Slots -> queued \cup {NoEntry}]
    /\ cache_size \in 0..(U64 - 1)
    /\ cache_count \in Nat
    /\ max_cache_count \in 0..(MaxEntries + 1)
    /\ max_cache_entries \in 3..MaxEntries
    /\ smallest_free \in 0..(MaxEntries + 1)
    /\ do_once \in BOOLEAN

\* The seeds are in the queue, the cache has just been allocated.
Init ==
    /\ queued \in SUBSET Entries \ {{}}
    /\ len \in [Entries -> Lengths]
    /\ cached = {}
    /\ light = {}
    /\ trim_done = {}
    /\ queue_cur = NoEntry
    /\ pc = "main"
    /\ wanted = NoEntry
    /\ tid = 0
    /\ cache = [s \in Slots |-> NoEntry]
    /\ cache_size = 0
    /\ cache_count = 0
    /\ max_cache_count = 0
    /\ max_cache_entries = MaxEntries
    /\ smallest_free = 0
    /\ do_once = FALSE

----------------------------------------------------------------------------
(***************************************************************************)
(* queue_testcase_get                                                      *)
(***************************************************************************)

\* A cached entry, or one that is read into a scratch buffer, needs no room;
\* fuzz_one goes on at the given point.
Get(q, point) ==
    IF q \in cached \/ q \in light
      THEN pc' = point /\ UNCHANGED <<wanted, tid>>
      ELSE /\ pc' = "get"
           /\ wanted' = q
           /\ tid' = max_cache_count

\* fuzz_one is called with the next entry and does not skip it.
SelectEntry(q) ==
    /\ pc = "main"
    /\ q \in queued
    /\ queue_cur' = q
    /\ Get(q, "trim")
    /\ UNCHANGED <<queued, len, light, trim_done, slotVars, limitVars, cache_size>>

\* A target for splicing, or for a custom mutator; never the entry itself.
GetTarget(q) ==
    /\ pc = "fuzzing"
    /\ q \in queued \ {queue_cur}
    /\ Get(q, "fuzzing")
    /\ UNCHANGED <<queueVars, slotVars, limitVars, cache_size>>

NoSpaceFor(q) == cache_size + len[q] >= MaxCacheSize

NoSlotLeft == cache_count >= max_cache_entries - 1

\* The condition of the eviction loop.
MustEvict(q) == (NoSpaceFor(q) /\ cache_count > 1) \/ NoSlotLeft

\* Mutant: the entry that is being fuzzed is as good as any.
Evictable_Any(s) == cache[s] # NoEntry

\* "Get a random one which is not in use"
Evictable(s) == cache[s] \notin {NoEntry, queue_cur}

Larger(a, b) == IF a > b THEN a ELSE b

\* Mutant: no room for the entry that the table is learned with.
LearnedLimit_Tight == Larger(max_cache_count, cache_count)

LearnedLimit == Larger(max_cache_count, cache_count) + 1

\* "once the cache is filled by size - that is the max", the first time.
LearnLimit ==
    IF /\ NoSpaceFor(wanted)
       /\ cache_count < max_cache_entries
       /\ max_cache_count < max_cache_entries
       /\ ~do_once
      THEN max_cache_entries' = LearnedLimit /\ do_once' = TRUE
      ELSE UNCHANGED limitVars

\* One turn of the eviction loop, slot s having been drawn.
Evict(s) ==
    /\ pc = "get"
    /\ MustEvict(wanted)
    /\ s < max_cache_count
    /\ Evictable(s)
    /\ LearnLimit
    /\ tid' = s
    /\ cached' = cached \ {cache[s]}
    /\ cache_size' = (cache_size - len[cache[s]]) % U64
    /\ cache' = [cache EXCEPT ![s] = NoEntry]
    /\ cache_count' = cache_count - 1
    /\ smallest_free' = IF s < smallest_free THEN s ELSE smallest_free
    /\ UNCHANGED <<queueVars, max_cache_count, pc, wanted>>

\* Where the search for a free slot starts, and the slot it finds.
SearchFrom(start) ==
    IF start >= max_cache_entries THEN smallest_free ELSE start

FreeFrom(start) == {s \in Slots : s >= start /\ cache[s] = NoEntry}

Found(start, s) ==
    /\ s \in FreeFrom(SearchFrom(start))
    /\ \A r \in FreeFrom(SearchFrom(start)) : s <= r

\* Mutant: smallest_free moves past the slot wherever it is.
Bookkeeping_AlwaysMoved(s) ==
    /\ cache_count' = cache_count + 1
    /\ max_cache_count' = IF s >= max_cache_count THEN s + 1 ELSE max_cache_count
    /\ smallest_free' = s + 1

Bookkeeping(s) ==
    /\ cache_count' = cache_count + 1
    /\ max_cache_count' = IF s >= max_cache_count THEN s + 1 ELSE max_cache_count
    /\ smallest_free' = IF s < max_cache_count /\ s = smallest_free
                          THEN s + 1 ELSE smallest_free

\* "Register testcase as cached"
Register(q, l, s) ==
    /\ cache' = [cache EXCEPT ![s] = q]
    /\ cached' = cached \cup {q}
    /\ cache_size' = (cache_size + l) % U64
    /\ Bookkeeping(s)

\* The loop is over: the test case is read and entered in a free slot.
Load(s) ==
    /\ pc = "get"
    /\ ~MustEvict(wanted)
    /\ Found(tid, s)
    /\ Register(wanted, len[wanted], s)
    /\ pc' = IF wanted = queue_cur THEN "trim" ELSE "fuzzing"
    /\ wanted' = NoEntry
    /\ tid' = 0
    /\ UNCHANGED <<queueVars, limitVars>>

----------------------------------------------------------------------------
(***************************************************************************)
(* A new entry, and a trimmed one.                                         *)
(***************************************************************************)

\* "no space or uninteresting? will be loaded regularly later."
StoreRefused(l) == cache_size + l >= MaxCacheSize \/ NoSlotLeft

\* save_if_interesting: add_to_queue, then queue_testcase_store_mem.
Save(q, l) ==
    /\ pc \in {"main", "fuzzing"}
    /\ q \in Entries \ queued
    /\ queued' = queued \cup {q}
    /\ len' = [len EXCEPT ![q] = l]
    /\ IF StoreRefused(l)
         THEN UNCHANGED <<slotVars, cache_size>>
         ELSE \E s \in Slots : Found(max_cache_count, s) /\ Register(q, l, s)
    /\ UNCHANGED <<light, trim_done, queue_cur, limitVars, callVars>>

\* cache_size += len - old_len, where len and old_len are 32 bits wide.
Adjusted(l, old) == (cache_size + ((l - old) % U32)) % U64

TrimCurrent(l) ==
    /\ pc = "trim"
    /\ queue_cur \notin trim_done
    /\ trim_done' = trim_done \cup {queue_cur}
    /\ len' = [len EXCEPT ![queue_cur] = l]
    /\ pc' = "fuzzing"
    /\ UNCHANGED <<queued, light, queue_cur, slotVars, limitVars, wanted, tid>>

\* trim_case shortens the buffer of the cache itself: nothing to replace.
TrimInPlace(l) ==
    /\ TrimCurrent(l)
    /\ l <= len[queue_cur]
    /\ UNCHANGED cache_size

\* A post-processor returns another buffer: queue_testcase_retake_mem.
TrimReplaced(l) ==
    /\ TrimCurrent(l)
    /\ cache_size' = IF queue_cur \in cached /\ l < len[queue_cur] + Slack
                       THEN Adjusted(l, len[queue_cur]) ELSE cache_size

\* A custom mutator trims: queue_testcase_retake.
CustomTrim(l) ==
    /\ TrimCurrent(l)
    /\ cache_size' = IF queue_cur \in cached
                        /\ (l > len[queue_cur] \/ l < len[queue_cur] + Slack)
                       THEN Adjusted(l, len[queue_cur]) ELSE cache_size

\* The entry has been trimmed before.
NoTrim ==
    /\ pc = "trim"
    /\ queue_cur \in trim_done
    /\ pc' = "fuzzing"
    /\ UNCHANGED <<queueVars, slotVars, limitVars, wanted, tid, cache_size>>

\* fuzz_one returns, from the stages or because calibration or trimming failed.
EndRound ==
    /\ pc \in {"trim", "fuzzing"}
    /\ pc' = "main"
    /\ UNCHANGED <<queueVars, slotVars, limitVars, wanted, tid, cache_size>>

\* create_alias_table weighs the entries anew.
Reweigh(S) ==
    /\ pc = "main"
    /\ light' = S
    /\ UNCHANGED <<queued, len, trim_done, queue_cur, slotVars, limitVars,
                   callVars, cache_size>>

Next ==
    \/ \E q \in queued : SelectEntry(q)
    \/ \E q \in queued : GetTarget(q)
    \/ \E s \in Slots : Evict(s)
    \/ \E s \in Slots : Load(s)
    \/ \E q \in Entries, l \in Lengths : Save(q, l)
    \/ \E l \in Lengths : TrimInPlace(l)
    \/ \E l \in Lengths : TrimReplaced(l)
    \/ \E l \in Lengths : CustomTrim(l)
    \/ NoTrim
    \/ EndRound
    \/ \E S \in SUBSET queued : Reweigh(S)

Spec == Init /\ [][Next]_vars

----------------------------------------------------------------------------
(***************************************************************************)
(* Properties.                                                             *)
(***************************************************************************)

Occupied == {s \in Slots : cache[s] # NoEntry}

\* The table and the entries agree: an entry has a buffer exactly when one
\* slot holds it, the count counts them, every slot in use lies below the high
\* mark, and below smallest_free there is no free slot to be overlooked.
TableConsistent ==
    /\ \A s, r \in Occupied : cache[s] = cache[r] => s = r
    /\ cached = {cache[s] : s \in Occupied}
    /\ cache_count = Cardinality(Occupied)
    /\ \A s \in Occupied : s < max_cache_count
    /\ \A s \in Slots : s < smallest_free => s \in Occupied

\* The search for a free slot, which tests nothing but the slots, finds one
\* inside the table as it is allocated, before and after the limit has been
\* learned and the table reallocated; and the eviction loop, which draws slots
\* until one is not empty and not that of the entry being fuzzed, has one to
\* draw.
SearchesSucceed ==
    /\ pc = "get" /\ ~MustEvict(wanted) =>
         \E s \in FreeFrom(SearchFrom(tid)) : s < Allocated
    /\ (\E l \in Lengths : ~StoreRefused(l)) =>
         \E s \in FreeFrom(SearchFrom(max_cache_count)) : s < Allocated
    /\ pc = "get" /\ MustEvict(wanted) =>
         \E s \in Slots : s < max_cache_count /\ Evictable(s)

\* While an entry is fuzzed its buffer, to which in_buf points, is not freed.
CurrentStaysCached ==
    [][queue_cur' = queue_cur /\ queue_cur \in cached => queue_cur \in cached']_vars

=============================================================================

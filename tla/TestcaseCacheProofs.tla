------------------------ MODULE TestcaseCacheProofs -------------------------
(***************************************************************************)
(* The cache of test cases for every number of entries, lengths and        *)
(* limits: its table stays consistent, its two unbounded searches end      *)
(* inside it, and the buffer in use is not freed.                          *)
(*                                                                         *)
(* The argument.  Of the slots below max_cache_entries one is free unless  *)
(* NoSlotLeft, because the count counts the slots in use; it is not below  *)
(* smallest_free, so that a search from there meets it.  A search that     *)
(* starts at tid, or at the high mark, starts on a free slot.  Hence the   *)
(* slot that is found lies below max_cache_entries, and the high mark      *)
(* never passes that limit, also when it is learned and lowered.           *)
(***************************************************************************)
EXTENDS TestcaseCache, FiniteSetTheorems, TLAPS

\* The high mark respects the limit, which is only ever lowered once.
WithinLimit ==
    /\ max_cache_count <= max_cache_entries
    /\ ~do_once => max_cache_entries = MaxEntries

\* In the eviction loop: the entry has no buffer yet, and tid is a free slot.
Getting ==
    pc = "get" => wanted \in queued \ cached /\ cache[tid] = NoEntry

IInv == TypeOK /\ TableConsistent /\ WithinLimit /\ Getting

----------------------------------------------------------------------------
(***************************************************************************)
(* The slots in use, and the search for a free one.                        *)
(***************************************************************************)

\* There are finitely many slots in use.
LEMMA OccupiedFinite == IsFiniteSet(Occupied) /\ Cardinality(Occupied) \in Nat
<1>1. IsFiniteSet(Slots)
  BY CacheAssumption, FS_Interval DEF Slots
<1>2. Occupied \in SUBSET Slots
  BY DEF Occupied
<1>3. IsFiniteSet(Occupied)
  BY <1>1, <1>2, FS_Subset
<1> QED
  BY <1>3, FS_CardinalityType

\* smallest_free does not pass the high mark.
LEMMA SmallestFree ==
    ASSUME IInv
    PROVE  smallest_free <= max_cache_count
<1>1. max_cache_count \in Slots
  BY CacheAssumption DEF IInv, TypeOK, WithinLimit, Slots
<1>2. max_cache_count \notin Occupied
  BY <1>1 DEF IInv, TypeOK, TableConsistent, Slots
<1> QED
  BY <1>1, <1>2 DEF IInv, TypeOK, TableConsistent

\* One of the slots below the limit is free: there are more of them than the
\* count of slots in use.
LEMMA FreeSlot ==
    ASSUME IInv, ~NoSlotLeft
    PROVE  \E s \in FreeFrom(smallest_free) : s < max_cache_entries
<1> DEFINE T == 0..(max_cache_entries - 1)
<1>1. max_cache_entries \in Nat /\ max_cache_entries >= 3 /\ max_cache_entries <= MaxEntries
      /\ cache_count \in Nat /\ cache_count < max_cache_entries - 1
  BY CacheAssumption DEF IInv, TypeOK, NoSlotLeft
<1>2. Cardinality(T) = max_cache_entries
  BY <1>1, FS_Interval
<1>3. T \subseteq Slots
  BY <1>1, CacheAssumption DEF Slots
<1>4. ~(T \subseteq Occupied)
  <2>1. SUFFICES ASSUME T \in SUBSET Occupied PROVE FALSE
    OBVIOUS
  <2>2. Cardinality(T) <= Cardinality(Occupied)
    BY <2>1, OccupiedFinite, FS_Subset
  <2>3. cache_count = Cardinality(Occupied)
    BY DEF IInv, TableConsistent
  <2> QED
    BY <1>1, <1>2, <2>2, <2>3
<1>5. PICK s \in T : s \notin Occupied
  BY <1>4
<1>6. s \in Slots /\ cache[s] = NoEntry /\ s < max_cache_entries
  BY <1>1, <1>3, <1>5 DEF Occupied
<1>7. s >= smallest_free
  BY <1>5, <1>6 DEF IInv, TypeOK, TableConsistent, Slots
<1> QED
  BY <1>6, <1>7 DEF FreeFrom

\* A search that starts on a free slot, or past the limit, meets a free slot
\* below the limit.
LEMMA SearchMeets ==
    ASSUME IInv, ~NoSlotLeft, NEW start \in Slots, cache[start] = NoEntry
    PROVE  \E s \in FreeFrom(SearchFrom(start)) : s < max_cache_entries
<1>1. CASE start >= max_cache_entries
  BY <1>1, FreeSlot DEF SearchFrom
<1>2. CASE ~(start >= max_cache_entries)
  <2>1. start \in FreeFrom(start) /\ start < max_cache_entries
    BY <1>2 DEF FreeFrom, Slots, IInv, TypeOK
  <2> QED
    BY <1>2, <2>1 DEF SearchFrom
<1> QED
  BY <1>1, <1>2

\* What the search finds.
LEMMA FoundSlot ==
    ASSUME IInv, ~NoSlotLeft, NEW start \in Slots, cache[start] = NoEntry,
           NEW s \in Slots, Found(start, s)
    PROVE  /\ cache[s] = NoEntry
           /\ s < max_cache_entries
           /\ s >= smallest_free
<1>1. PICK r \in FreeFrom(SearchFrom(start)) : r < max_cache_entries
  BY SearchMeets
<1>2. s \in FreeFrom(SearchFrom(start)) /\ s <= r
  BY <1>1 DEF Found
<1>3. r \in Nat /\ s \in Nat /\ max_cache_entries \in Nat
  BY <1>1 DEF FreeFrom, Slots, IInv, TypeOK
<1>4. cache[s] = NoEntry /\ s < max_cache_entries
  BY <1>1, <1>2, <1>3 DEF FreeFrom
<1>5. s >= smallest_free
  BY <1>4 DEF IInv, TypeOK, TableConsistent, Occupied, Slots
<1> QED
  BY <1>4, <1>5

\* The slot at the high mark is free.
LEMMA HighMarkFree ==
    ASSUME IInv
    PROVE  max_cache_count \in Slots /\ cache[max_cache_count] = NoEntry
<1>1. max_cache_count \in Slots
  BY CacheAssumption DEF IInv, TypeOK, WithinLimit, Slots
<1>2. max_cache_count \notin Occupied
  BY <1>1 DEF IInv, TypeOK, TableConsistent, Slots
<1> QED
  BY <1>1, <1>2 DEF Occupied

----------------------------------------------------------------------------
(***************************************************************************)
(* Entering an entry in a free slot, and evicting one.                     *)
(***************************************************************************)

\* Register keeps the table consistent when it is given a free slot and an
\* entry without a buffer.
LEMMA RegisterKeeps ==
    ASSUME IInv, NEW q \in Entries, q \notin cached, NEW l \in Lengths,
           NEW s \in Slots, cache[s] = NoEntry, s < max_cache_entries,
           s >= smallest_free, Register(q, l, s), UNCHANGED limitVars,
           q \in queued', queued \subseteq queued'
    PROVE  /\ TableConsistent'
           /\ WithinLimit'
           /\ cached' \subseteq queued'
           /\ cache' \in [Slots -> queued' \cup {NoEntry}]
           /\ cache_size' \in 0..(U64 - 1)
           /\ cache_count' \in Nat
           /\ max_cache_count' \in 0..(MaxEntries + 1)
           /\ smallest_free' \in 0..(MaxEntries + 1)
<1> USE CacheAssumption
<1>1. q # NoEntry /\ cached' = cached \cup {q} /\ cache' = [cache EXCEPT ![s] = q]
  BY DEF Register
<1>2. s \notin Occupied /\ Occupied' = Occupied \cup {s}
  BY <1>1 DEF Occupied, IInv, TypeOK
<1>3. \A r \in Occupied : cache'[r] = cache[r] /\ cache[r] # q
  <2>1. \A r \in Occupied : cache[r] \in cached
    BY DEF IInv, TableConsistent
  <2> QED
    BY <1>1, <1>2, <2>1 DEF IInv, TypeOK, Occupied
<1>4. cache'[s] = q
  BY <1>1 DEF IInv, TypeOK
<1>5. cached' = {cache'[r] : r \in Occupied'}
  BY <1>1, <1>2, <1>3, <1>4 DEF IInv, TableConsistent
<1>6. \A r, t \in Occupied' : cache'[r] = cache'[t] => r = t
  BY <1>2, <1>3, <1>4 DEF IInv, TableConsistent
<1>7. cache_count' = Cardinality(Occupied')
  BY <1>2, OccupiedFinite, FS_AddElement DEF Register, Bookkeeping, IInv, TableConsistent
<1>8. /\ max_cache_count \in Nat /\ max_cache_count' \in Nat
      /\ max_cache_count <= max_cache_count' /\ s < max_cache_count'
      /\ max_cache_count' <= max_cache_entries
  BY DEF Register, Bookkeeping, IInv, TypeOK, WithinLimit, Slots
<1>9. \A r \in Occupied' : r < max_cache_count'
  BY <1>2, <1>8 DEF IInv, TableConsistent, Occupied, Slots
<1>10. /\ smallest_free' \in Nat
       /\ smallest_free' <= max_cache_count'
       /\ smallest_free' = smallest_free \/ (s = smallest_free /\ smallest_free' = s + 1)
  BY <1>8, SmallestFree DEF Register, Bookkeeping, IInv, TypeOK, Slots
<1>11. \A r \in Slots : r < smallest_free' => r \in Occupied'
  <2>1. smallest_free \in Nat /\ \A r \in Slots : r < smallest_free => r \in Occupied
    BY DEF IInv, TableConsistent, TypeOK
  <2>2. \A r \in Slots : r \in Nat
    BY DEF Slots
  <2> QED
    BY <1>2, <1>10, <2>1, <2>2
<1>12. TableConsistent'
  BY <1>5, <1>6, <1>7, <1>9, <1>11 DEF TableConsistent
<1>13. WithinLimit'
  BY <1>8 DEF WithinLimit, IInv, limitVars
<1>14. cache_size' \in 0..(U64 - 1)
  <2>1. cache_size + l \in Int
    BY DEF IInv, TypeOK
  <2> QED
    BY <2>1 DEF Register
<1>15. cache' \in [Slots -> queued' \cup {NoEntry}] /\ cached' \subseteq queued'
  BY <1>1 DEF IInv, TypeOK
<1>16. max_cache_entries <= MaxEntries /\ max_cache_entries \in Nat
  BY DEF IInv, TypeOK
<1>17. cache_count' \in Nat
  BY DEF Register, Bookkeeping, IInv, TypeOK
<1> QED
  BY <1>8, <1>10, <1>12, <1>13, <1>14, <1>15, <1>16, <1>17

\* The learned limit is not below the high mark, leaves three slots, and does
\* not exceed the configured limit.
LEMMA LearnKeeps ==
    ASSUME IInv, pc = "get", MustEvict(wanted), LearnLimit
    PROVE  /\ max_cache_entries' \in 3..MaxEntries
           /\ do_once' \in BOOLEAN
           /\ max_cache_count <= max_cache_entries'
           /\ ~do_once' => max_cache_entries' = MaxEntries
<1>1. cache_count >= 2
  BY DEF MustEvict, NoSlotLeft, IInv, TypeOK
<1>2. /\ max_cache_entries \in 3..MaxEntries /\ MaxEntries \in Nat
      /\ max_cache_count \in Nat /\ cache_count \in Nat
      /\ max_cache_count <= max_cache_entries
      /\ ~do_once => max_cache_entries = MaxEntries
  BY CacheAssumption DEF IInv, TypeOK, WithinLimit
<1>3. CASE max_cache_entries' = LearnedLimit /\ do_once' = TRUE
           /\ cache_count < max_cache_entries /\ max_cache_count < max_cache_entries
  <2>1. /\ LearnedLimit \in Nat /\ LearnedLimit >= 3 /\ LearnedLimit <= max_cache_entries
        /\ max_cache_count < LearnedLimit
    BY <1>1, <1>2, <1>3 DEF LearnedLimit, Larger
  <2> QED
    BY <1>2, <1>3, <2>1
<1>4. CASE UNCHANGED limitVars
  <2>1. max_cache_entries' = max_cache_entries /\ do_once' = do_once /\ do_once \in BOOLEAN
    BY <1>4 DEF limitVars, IInv, TypeOK
  <2> QED
    BY <1>2, <2>1
<1> QED
  BY <1>3, <1>4 DEF LearnLimit

\* An eviction.
LEMMA EvictKeeps ==
    ASSUME IInv, NEW s \in Slots, Evict(s)
    PROVE  IInv'
<1> USE CacheAssumption
<1>1. s \in Occupied /\ cache[s] \in cached
  BY DEF Evict, Evictable, Occupied, IInv, TableConsistent
<1>2. cache' = [cache EXCEPT ![s] = NoEntry] /\ Occupied' = Occupied \ {s}
  BY DEF Evict, Occupied, IInv, TypeOK
<1>3. \A r \in Occupied' : cache'[r] = cache[r]
  BY <1>2 DEF Occupied, IInv, TypeOK
<1>4. cached' = {cache'[r] : r \in Occupied'}
  BY <1>1, <1>2, <1>3 DEF Evict, IInv, TableConsistent
<1>5. \A r, t \in Occupied' : cache'[r] = cache'[t] => r = t
  BY <1>2, <1>3 DEF IInv, TableConsistent
<1>6. cache_count' = Cardinality(Occupied') /\ cache_count' \in Nat
  <2>1. cache_count = Cardinality(Occupied) /\ cache_count \in Nat /\ cache_count' = cache_count - 1
    BY OccupiedFinite DEF Evict, IInv, TableConsistent
  <2>2. IsFiniteSet(Occupied') /\ Cardinality(Occupied') = Cardinality(Occupied) - 1
    BY <1>1, <1>2, OccupiedFinite, FS_RemoveElement
  <2>3. Cardinality(Occupied') \in Nat
    BY <2>2, FS_CardinalityType
  <2> QED
    BY <2>1, <2>2, <2>3
<1>7. \A r \in Occupied' : r < max_cache_count'
  BY <1>2 DEF Evict, IInv, TableConsistent
<1>8. /\ smallest_free' \in 0..(MaxEntries + 1)
      /\ \A r \in Slots : r < smallest_free' => r \in Occupied'
  <2>1. smallest_free \in 0..(MaxEntries + 1) /\ \A r \in Slots : r < smallest_free => r \in Occupied
    BY DEF IInv, TableConsistent, TypeOK
  <2>2. s \in 0..MaxEntries /\ \A r \in Slots : r \in Nat
    BY DEF Slots
  <2>3. smallest_free' = IF s < smallest_free THEN s ELSE smallest_free
    BY DEF Evict
  <2> QED
    BY <1>2, <2>1, <2>2, <2>3
<1>9. TableConsistent'
  BY <1>4, <1>5, <1>6, <1>7, <1>8 DEF TableConsistent
<1>10. WithinLimit' /\ max_cache_entries' \in 3..MaxEntries /\ do_once' \in BOOLEAN
  BY LearnKeeps DEF Evict, WithinLimit
<1>11. cache_size' \in 0..(U64 - 1)
  <2>1. len[cache[s]] \in Lengths /\ cache_size \in 0..(U64 - 1)
    BY <1>1 DEF IInv, TypeOK
  <2>2. \A l \in Lengths, n \in 0..(U64 - 1) : n - l \in Int
    OBVIOUS
  <2>3. cache_size - len[cache[s]] \in Int
    BY <2>1, <2>2
  <2> QED
    BY <2>3 DEF Evict
<1>12. TypeOK'
  BY <1>2, <1>6, <1>8, <1>10, <1>11 DEF TypeOK, Evict, queueVars, IInv, Slots, Points
<1>13. Getting'
  BY <1>2 DEF Getting, Evict, queueVars, IInv, TypeOK
<1> QED
  BY <1>9, <1>10, <1>12, <1>13 DEF IInv

\* Loading a test case.
LEMMA LoadKeeps ==
    ASSUME IInv, NEW s \in Slots, Load(s)
    PROVE  IInv'
<1> USE CacheAssumption
<1>1. wanted \in queued /\ wanted \notin cached /\ cache[tid] = NoEntry /\ tid \in Slots
      /\ ~NoSlotLeft /\ len[wanted] \in Lengths /\ wanted \in Entries
  BY DEF Load, MustEvict, IInv, Getting, TypeOK
<1>2. cache[s] = NoEntry /\ s < max_cache_entries /\ s >= smallest_free
  BY <1>1, FoundSlot DEF Load
<1>3. Register(wanted, len[wanted], s) /\ UNCHANGED limitVars /\ UNCHANGED queueVars
      /\ queued' = queued
  BY DEF Load, queueVars
<1>4. /\ TableConsistent'
      /\ WithinLimit'
      /\ cached' \subseteq queued'
      /\ cache' \in [Slots -> queued' \cup {NoEntry}]
      /\ cache_size' \in 0..(U64 - 1)
      /\ cache_count' \in Nat
      /\ max_cache_count' \in 0..(MaxEntries + 1)
      /\ smallest_free' \in 0..(MaxEntries + 1)
  BY <1>1, <1>2, <1>3, RegisterKeeps
<1>5. TypeOK' /\ Getting'
  BY <1>3, <1>4 DEF TypeOK, Getting, Load, IInv, queueVars, limitVars, Points, Slots
<1> QED
  BY <1>4, <1>5 DEF IInv

\* A new entry.
LEMMA SaveKeeps ==
    ASSUME IInv, NEW q \in Entries, NEW l \in Lengths, Save(q, l)
    PROVE  IInv'
<1> USE CacheAssumption
<1>1. q \notin cached /\ q \in queued' /\ queued \subseteq queued' /\ UNCHANGED limitVars
      /\ queued' \subseteq Entries /\ len' \in [Entries -> Lengths]
  BY DEF Save, IInv, TypeOK
<1>2. CASE StoreRefused(l)
  <2>1. UNCHANGED <<slotVars, cache_size>>
    BY <1>2 DEF Save
  <2> QED
    BY <1>1, <2>1 DEF Save, slotVars, limitVars, callVars, IInv, TypeOK, TableConsistent,
       Occupied, WithinLimit, Getting
<1>3. CASE ~StoreRefused(l)
  <2>1. PICK s \in Slots : Found(max_cache_count, s) /\ Register(q, l, s)
    BY <1>3 DEF Save
  <2>2. ~NoSlotLeft
    BY <1>3 DEF StoreRefused
  <2>3. cache[s] = NoEntry /\ s < max_cache_entries /\ s >= smallest_free
    BY <2>1, <2>2, HighMarkFree, FoundSlot
  <2>4. /\ TableConsistent'
        /\ WithinLimit'
        /\ cached' \subseteq queued'
        /\ cache' \in [Slots -> queued' \cup {NoEntry}]
        /\ cache_size' \in 0..(U64 - 1)
        /\ cache_count' \in Nat
        /\ max_cache_count' \in 0..(MaxEntries + 1)
        /\ smallest_free' \in 0..(MaxEntries + 1)
    BY <1>1, <2>1, <2>3, RegisterKeeps
  <2>5. TypeOK'
    BY <1>1, <2>4 DEF TypeOK, Save, IInv, callVars, limitVars
  <2>6. Getting'
    BY DEF Getting, Save, callVars
  <2> QED
    BY <2>4, <2>5, <2>6 DEF IInv
<1> QED
  BY <1>2, <1>3

\* Trimming changes neither the table nor its limits.
LEMMA TrimKeeps ==
    ASSUME IInv, NEW l \in Lengths, TrimCurrent(l), cache_size' \in 0..(U64 - 1)
    PROVE  IInv'
<1>1. queue_cur \in Entries \cup {NoEntry}
  BY DEF IInv, TypeOK
<1>2. len' \in [Entries -> Lengths]
  BY <1>1 DEF TrimCurrent, IInv, TypeOK
<1> QED
  BY <1>2, CacheAssumption DEF TrimCurrent, IInv, TypeOK, TableConsistent, WithinLimit, Getting,
     Occupied, slotVars, limitVars, Points

\* An adjusted size is a size.
LEMMA AdjustedType ==
    ASSUME IInv, NEW l \in Lengths, NEW old \in Lengths
    PROVE  Adjusted(l, old) \in 0..(U64 - 1)
<1>1. l - old \in Int /\ U32 \in Nat \ {0} /\ U64 \in Nat \ {0} /\ cache_size \in Int
  BY CacheAssumption DEF IInv, TypeOK
<1>2. (l - old) % U32 \in Int
  BY <1>1
<1>3. cache_size + ((l - old) % U32) \in Int
  BY <1>1, <1>2
<1> QED
  BY <1>1, <1>3 DEF Adjusted

----------------------------------------------------------------------------

\* The invariant holds initially and is kept by every step of the cache.
LEMMA Invariance == Spec => []IInv
<1> USE CacheAssumption
<1>1. Init => IInv
  <2>1. SUFFICES ASSUME Init PROVE IInv
    OBVIOUS
  <2>2. TypeOK
    <3>1. 0 \in Slots /\ 0 \in 0..(U64 - 1) /\ 0 \in 0..(MaxEntries + 1) /\ MaxEntries \in 3..MaxEntries
      BY DEF Slots
    <3>2. cache \in [Slots -> queued \cup {NoEntry}]
      BY <2>1 DEF Init
    <3> QED
      BY <2>1, <3>1, <3>2 DEF Init, TypeOK, Points
  <2>3. Occupied = {}
    BY <2>1 DEF Init, Occupied
  <2>4. TableConsistent
    <3>1. Cardinality(Occupied) = 0
      BY <2>3, FS_EmptySet
    <3>2. \A s \in Slots : ~(s < 0)
      BY DEF Slots
    <3> QED
      BY <2>1, <2>3, <3>1, <3>2 DEF Init, TableConsistent
  <2> QED
    BY <2>1, <2>2, <2>4 DEF IInv, Init, WithinLimit, Getting
<1>2. IInv /\ [Next]_vars => IInv'
  <2>1. SUFFICES ASSUME IInv, [Next]_vars PROVE IInv'
    OBVIOUS
  <2>2. CASE UNCHANGED vars
    BY <2>1, <2>2 DEF vars, queueVars, slotVars, limitVars, callVars, IInv, TypeOK,
       TableConsistent, Occupied, WithinLimit, Getting
  <2>3. ASSUME NEW q \in queued, SelectEntry(q) PROVE IInv'
    BY <2>1, <2>3, HighMarkFree DEF SelectEntry, Get, slotVars, limitVars, IInv, TypeOK,
       TableConsistent, Occupied, WithinLimit, Getting, Points
  <2>4. ASSUME NEW q \in queued, GetTarget(q) PROVE IInv'
    BY <2>1, <2>4, HighMarkFree DEF GetTarget, Get, queueVars, slotVars, limitVars, IInv,
       TypeOK, TableConsistent, Occupied, WithinLimit, Getting, Points
  <2>5. ASSUME NEW l \in Lengths, TrimInPlace(l) PROVE IInv'
    BY <2>1, <2>5, TrimKeeps DEF TrimInPlace, IInv, TypeOK
  <2>6. ASSUME NEW l \in Lengths, TrimReplaced(l) PROVE IInv'
    <3>1. queue_cur \in cached => len[queue_cur] \in Lengths
      BY <2>1 DEF IInv, TypeOK
    <3>2. cache_size' \in 0..(U64 - 1)
      BY <2>1, <2>6, <3>1, AdjustedType DEF TrimReplaced, IInv, TypeOK
    <3> QED
      BY <2>1, <2>6, <3>2, TrimKeeps DEF TrimReplaced
  <2>7. ASSUME NEW l \in Lengths, CustomTrim(l) PROVE IInv'
    <3>1. queue_cur \in cached => len[queue_cur] \in Lengths
      BY <2>1 DEF IInv, TypeOK
    <3>2. cache_size' \in 0..(U64 - 1)
      BY <2>1, <2>7, <3>1, AdjustedType DEF CustomTrim, IInv, TypeOK
    <3> QED
      BY <2>1, <2>7, <3>2, TrimKeeps DEF CustomTrim
  <2>8. CASE NoTrim
    BY <2>1, <2>8 DEF NoTrim, queueVars, slotVars, limitVars, IInv, TypeOK,
       TableConsistent, Occupied, WithinLimit, Getting, Points
  <2>9. CASE EndRound
    BY <2>1, <2>9 DEF EndRound, queueVars, slotVars, limitVars, IInv, TypeOK,
       TableConsistent, Occupied, WithinLimit, Getting, Points
  <2>10. ASSUME NEW S \in SUBSET queued, Reweigh(S) PROVE IInv'
    BY <2>1, <2>10 DEF Reweigh, slotVars, limitVars, callVars, IInv, TypeOK,
       TableConsistent, Occupied, WithinLimit, Getting
  <2> QED
    BY <2>1, <2>2, <2>3, <2>4, <2>5, <2>6, <2>7, <2>8, <2>9, <2>10, EvictKeeps, LoadKeeps,
       SaveKeeps DEF Next
<1> QED
  BY <1>1, <1>2, PTL DEF Spec

\* The fields of the cache keep their types: the high mark and smallest_free do
\* not leave the table, and the learned limit is one of 3..MaxEntries.
THEOREM TypeCorrect == Spec => []TypeOK
  BY Invariance, PTL DEF IInv

\* Slots, buffers, count, high mark and smallest_free agree after any sequence
\* of loads, evictions, stores and trims.
THEOREM TableStaysConsistent == Spec => []TableConsistent
  BY Invariance, PTL DEF IInv

\* The searches of queue_testcase_get and queue_testcase_store_mem, which know
\* no bound, succeed inside the table as it is allocated.
THEOREM SearchesEnd == Spec => []SearchesSucceed
<1>1. IInv => SearchesSucceed
  <2>1. SUFFICES ASSUME IInv PROVE SearchesSucceed
    OBVIOUS
  <2>2. max_cache_entries \in Nat /\ max_cache_entries <= Allocated /\ Allocated \in Nat
    BY <2>1, CacheAssumption DEF IInv, TypeOK, WithinLimit, Allocated
  <2>3. \A start \in Slots : cache[start] = NoEntry /\ ~NoSlotLeft =>
            \E s \in FreeFrom(SearchFrom(start)) : s < Allocated
    <3>1. SUFFICES ASSUME NEW start \in Slots, cache[start] = NoEntry, ~NoSlotLeft
                   PROVE  \E s \in FreeFrom(SearchFrom(start)) : s < Allocated
      OBVIOUS
    <3>2. PICK s \in FreeFrom(SearchFrom(start)) : s < max_cache_entries
      BY <2>1, <3>1, SearchMeets
    <3>3. s \in Nat
      BY <3>2 DEF FreeFrom, Slots
    <3> QED
      BY <2>2, <3>2, <3>3
  <2>4. pc = "get" /\ ~MustEvict(wanted) =>
            \E s \in FreeFrom(SearchFrom(tid)) : s < Allocated
    BY <2>1, <2>3 DEF MustEvict, IInv, Getting, TypeOK
  <2>5. (\E l \in Lengths : ~StoreRefused(l)) =>
            \E s \in FreeFrom(SearchFrom(max_cache_count)) : s < Allocated
    BY <2>1, <2>3, HighMarkFree DEF StoreRefused
  <2>6. ASSUME pc = "get", MustEvict(wanted)
        PROVE  \E s \in Slots : s < max_cache_count /\ Evictable(s)
    <3>1. Cardinality(Occupied) >= 2
      BY <2>1, <2>6 DEF MustEvict, NoSlotLeft, IInv, TypeOK, TableConsistent
    <3>2. Occupied # {}
      BY <3>1, FS_EmptySet
    <3>3. PICK r \in Occupied : TRUE
      BY <3>2
    <3>4. Occupied \ {r} # {}
      BY <3>1, <3>3, OccupiedFinite, FS_RemoveElement, FS_EmptySet
    <3>5. PICK t \in Occupied : t # r
      BY <3>4
    <3>6. cache[r] # cache[t]
      BY <2>1, <3>5 DEF IInv, TableConsistent
    <3>7. \E s \in {r, t} : cache[s] # queue_cur
      BY <3>6
    <3> QED
      BY <2>1, <3>3, <3>5, <3>7 DEF Evictable, IInv, TableConsistent, Occupied
  <2> QED
    BY <2>4, <2>5, <2>6 DEF SearchesSucceed
<1> QED
  BY <1>1, Invariance, PTL

\* The buffer of the entry that is being fuzzed is never freed under it.
THEOREM CurrentBufferStays == Spec => CurrentStaysCached
<1>1. [Next]_vars => [queue_cur' = queue_cur /\ queue_cur \in cached => queue_cur \in cached']_vars
  <2>1. SUFFICES ASSUME Next, queue_cur \in cached PROVE queue_cur \in cached'
    OBVIOUS
  <2>2. ASSUME NEW s \in Slots, Evict(s) PROVE queue_cur \in cached'
    BY <2>1, <2>2 DEF Evict, Evictable
  <2>3. ASSUME NEW s \in Slots, Load(s) PROVE queue_cur \in cached'
    BY <2>1, <2>3 DEF Load, Register
  <2>4. ASSUME NEW q \in Entries, NEW l \in Lengths, Save(q, l) PROVE queue_cur \in cached'
    BY <2>1, <2>4 DEF Save, Register, slotVars
  <2> QED
    BY <2>1, <2>2, <2>3, <2>4 DEF Next, SelectEntry, GetTarget, TrimInPlace, TrimReplaced,
       CustomTrim, TrimCurrent, NoTrim, EndRound, Reweigh, slotVars
<1> QED
  BY <1>1, PTL DEF Spec, CurrentStaysCached

=============================================================================

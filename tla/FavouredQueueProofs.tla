------------------------- MODULE FavouredQueueProofs -------------------------
(***************************************************************************)
(* Theorems about FavouredQueue, for every size of the map and of the      *)
(* queue, everything the target may do and every set of options: the types *)
(* of the queue and of its counters, that the counters count what they are *)
(* said to count, that the next entry can be counted, that a top rated     *)
(* entry has its trace_mini, and that the favoured entries cover the map.  *)
(*                                                                         *)
(* The operators of FavouredQueue come first: what update_bitmap_score     *)
(* (RatedTo), a run of it over several entries (UpdateAllScore), the loop  *)
(* of cull_queue (PickedSoFar) and cull_queue itself (CulledTo) do to any  *)
(* sound score.  The loops are recursive functions; that they exist and    *)
(* keep what one step keeps is shown by induction over a set of numbers    *)
(* (Induction).  Then one lemma per action for the invariant IInv.         *)
(***************************************************************************)
EXTENDS FavouredQueue, FiniteSetTheorems, TLAPS

\* The bytes that entry q is top rated for.
Held(top, q) == {b \in Bytes : top[b] = q}

\* The entries that the four counters are about.
Active(qu) == {q \in 1..Len(qu) : ~qu[q].disabled}
Waiting(qu) == {q \in 1..Len(qu) : ~qu[q].disabled /\ ~qu[q].was_fuzzed}
Favs(qu) == {q \in 1..Len(qu) : qu[q].favored}
Pends(qu) == {q \in 1..Len(qu) : qu[q].favored /\ ~qu[q].was_fuzzed}

\* A queue, and best entries that are in it.
GoodQueue(qu, top) ==
    /\ qu \in Seq(Entry) /\ Len(qu) \in 1..MaxItems
    /\ top \in [Bytes -> {None} \cup 1..Len(qu)]

\* TraceMiniPresent, for any queue.
Refs(qu, top) ==
    \A q \in 1..Len(qu) :
        /\ qu[q].tc_ref >= Cardinality(Held(top, q))
        /\ (qu[q].tc_ref > 0) <=> (qu[q].trace_mini # {})

\* CountersExact, for any queue, and what is left of it when entries are
\* disabled behind the back of the counters: they are never too small.
Counts(qu) ==
    /\ active_items >= Cardinality(Active(qu))
    /\ active_items <= Len(qu)
    /\ pending_not_fuzzed >= Cardinality(Waiting(qu))
    /\ pending_not_fuzzed <= Len(qu)
    /\ pc # "exited" /\ ~DisablesRedundant =>
          /\ active_items = Cardinality(Active(qu))
          /\ pending_not_fuzzed = Cardinality(Waiting(qu))
    /\ queued_favored = Cardinality(Favs(qu))
    /\ pending_favored = Cardinality(Pends(qu))

\* Where the main thread is.  In the dry run the seeds that are still to come
\* are as they were read, nothing is favoured, and what is disabled counts as
\* fuzzed; an entry that is being trimmed has been calibrated.
Control ==
    /\ pc = "dry_run" =>
          /\ resumes = 0
          /\ \A q \in Ids : /\ ~queue[q].favored
                            /\ queue[q].was_fuzzed <=> queue[q].disabled
          /\ \A q \in dry_idx..Len(queue) :
                queue[q].cal_failed = 0 /\ ~queue[q].disabled
          /\ \A b \in Bytes : top_rated[b] < dry_idx
    /\ pc \in {"fuzz_one", "trim", "stages", "abandon"} =>
          queue_cur \in Ids /\ Cur.fuzz_level < MaxLevel
    /\ pc = "trim" => Cur.cal_failed = 0
    /\ ~DisablesRedundant => \A q \in Ids : queue[q].disabled => queue[q].was_fuzzed

\* Every rating has been made with the entry's own trace: a best entry is
\* calibrated and sets its byte, trace_mini is the entry's trace, every byte of
\* a measured entry has a best one, and these are covered unless the score has
\* changed since the last culling.
RatedWell(qu, top, changed) ==
    /\ \A b \in Bytes : top[b] # None =>
          qu[top[b]].cal_failed = 0 /\ b \in traces[qu[top[b]].tc]
    /\ \A q \in 1..Len(qu) : qu[q].trace_mini \in {{}, traces[qu[q].tc]}
    /\ \A q \in 1..Len(qu) : qu[q].exec_us > 0 =>
          \A b \in traces[qu[q].tc] : top[b] # None
    /\ ~changed =>
          \A b \in Bytes : top[b] # None =>
             \E f \in 1..Len(qu) : qu[f].favored /\ b \in traces[qu[f].tc]

\* A resume and the end of a cycle rate with whatever is in the map.
Rated ==
    FirstSession /\ ~CyclesSchedules /\ pc # "exited" =>
        RatedWell(queue, top_rated, score_changed)

\* The inductive invariant.
IInv ==
    /\ TypeOK
    /\ Refs(queue, top_rated)
    /\ Counts(queue)
    /\ Control
    /\ NextCanBeCounted
    /\ Rated

-----------------------------------------------------------------------------
(* Numbers, sets and sequences.                                            *)

\* Induction over a set of numbers, here over the steps of the two loops that
\* the module writes as recursive functions.
LEMMA Induction ==
  ASSUME NEW S, 0 \in S, \A n \in Nat : n \in S => n + 1 \in S
  PROVE  \A n \in Nat : n \in S
<1> DEFINE R == OpToRel(<, Nat)
<1> SUFFICES ASSUME Nat \ S # {} PROVE FALSE
  OBVIOUS
<1>1. IsWellFoundedOn(R, Nat)
  BY NatLessThanWellFounded
<1>2. \A x, y \in Nat : x < y => <<x, y>> \in R
  BY DEF OpToRel
<1> HIDE DEF R
<1>3. PICK x \in Nat \ S : \A y \in Nat \ S : <<y, x>> \notin R
  BY <1>1, WFMin
<1>4. x # 0 /\ x - 1 \in Nat /\ x - 1 < x
  BY <1>3
<1>5. x - 1 \in S
  BY <1>2, <1>3, <1>4
<1> QED
  BY <1>3, <1>4, <1>5

\* Every set of bytes and every set of positions in the queue is finite, and
\* its cardinality a number.
LEMMA Finite ==
  /\ \A S \in SUBSET Bytes : IsFiniteSet(S) /\ Cardinality(S) \in Nat
  /\ \A n \in Nat : \A S \in SUBSET (1..n) :
        IsFiniteSet(S) /\ Cardinality(S) \in 0..n
<1>1. ASSUME NEW n \in Nat, NEW S \in SUBSET (1..n)
      PROVE  IsFiniteSet(S) /\ Cardinality(S) \in 0..n
  <2>1. IsFiniteSet(1..n) /\ Cardinality(1..n) = n
    BY FS_Interval
  <2>2. IsFiniteSet(S) /\ Cardinality(S) <= n
    BY <2>1, FS_Subset
  <2>3. Cardinality(S) \in Nat
    BY <2>2, FS_CardinalityType
  <2> QED
    BY <2>2, <2>3
<1>2. MapSize \in Nat
  BY QueueAssumption
<1> QED
  BY <1>1, <1>2 DEF Bytes

\* A set that loses the members of one of its subsets.
LEMMA CardinalityDifference ==
  ASSUME NEW S, NEW T \in SUBSET S, IsFiniteSet(S)
  PROVE  /\ Cardinality(S \ T) = Cardinality(S) - Cardinality(T)
         /\ Cardinality(S) \in Nat /\ Cardinality(T) \in Nat
         /\ Cardinality(T) <= Cardinality(S)
<1>1. S \cap T = T
  OBVIOUS
<1>2. Cardinality(S \ T) = Cardinality(S) - Cardinality(S \cap T)
  BY FS_Difference
<1> QED
  BY <1>1, <1>2, FS_Subset, FS_CardinalityType

\* Two sets without common members.
LEMMA CardinalityUnion ==
  ASSUME NEW S, NEW T, IsFiniteSet(S), IsFiniteSet(T), S \cap T = {}
  PROVE  Cardinality(S \cup T) = Cardinality(S) + Cardinality(T)
<1>1. /\ Cardinality(S \cup T)
            = Cardinality(S) + Cardinality(T) - Cardinality(S \cap T)
      /\ Cardinality(S) \in Nat /\ Cardinality(T) \in Nat
  BY FS_Union, FS_CardinalityType
<1>2. Cardinality(S \cap T) = 0
  BY FS_EmptySet
<1> QED
  BY <1>1, <1>2

\* A sequence of which one member is replaced.
LEMMA ExceptSeq ==
  ASSUME NEW S, NEW s \in Seq(S), NEW i \in 1..Len(s), NEW x \in S
  PROVE  /\ [s EXCEPT ![i] = x] \in Seq(S)
         /\ Len([s EXCEPT ![i] = x]) = Len(s)
         /\ [s EXCEPT ![i] = x][i] = x
         /\ \A j \in 1..Len(s) : j # i => [s EXCEPT ![i] = x][j] = s[j]
  OBVIOUS

\* A sequence all members of which are replaced.
LEMMA MapSeq ==
  ASSUME NEW S, NEW s \in Seq(S), NEW f, f = [i \in 1..Len(s) |-> f[i]],
         \A i \in 1..Len(s) : f[i] \in S
  PROVE  f \in Seq(S) /\ Len(f) = Len(s) /\ DOMAIN f = 1..Len(s)
<1>1. f \in [1..Len(s) -> S] /\ Len(s) \in Nat
  OBVIOUS
<1> QED
  BY <1>1

-----------------------------------------------------------------------------
(* Entries and their flags.                                                *)

\* What the steps assign to the fields of an entry keeps its type.
LEMMA EntryExcept ==
  ASSUME NEW e \in Entry
  PROVE  /\ \A v \in 0..CAL_CHANCES : [e EXCEPT !.cal_failed = v] \in Entry
         /\ \A v \in Times \cup {0} : [e EXCEPT !.exec_us = v] \in Entry
         /\ \A v \in Lengths : [e EXCEPT !.len = v] \in Entry
         /\ \A v \in BOOLEAN : [e EXCEPT !.trim_done = v] \in Entry
         /\ \A v \in BOOLEAN : [e EXCEPT !.was_fuzzed = v] \in Entry
         /\ \A v \in BOOLEAN : [e EXCEPT !.disabled = v] \in Entry
         /\ \A v \in BOOLEAN : [e EXCEPT !.favored = v] \in Entry
         /\ \A v \in 0..MaxLevel : [e EXCEPT !.fuzz_level = v] \in Entry
  BY DEF Entry

\* Also what update_bitmap_score and a resume assign.
LEMMA EntryRated ==
  ASSUME NEW e \in Entry, NEW v \in Nat, NEW m \in SUBSET Bytes
  PROVE  [e EXCEPT !.tc_ref = v, !.trace_mini = m] \in Entry
  BY DEF Entry

\* What a resume takes from another file.
LEMMA EntryRestored ==
  ASSUME NEW e \in Entry, NEW t \in TestCases, NEW l \in Lengths
  PROVE  [e EXCEPT !.tc = t, !.len = l] \in Entry
  BY DEF Entry

\* What calibrate_case, trim_case and abandon_entry assign.
LEMMA EntryCalibrated ==
  ASSUME NEW e \in Entry, NEW us \in Times
  PROVE  [e EXCEPT !.exec_us = us, !.cal_failed = 0] \in Entry
<1>1. 0 \in 0..CAL_CHANCES
  BY QueueAssumption
<1>2. us \in Times \cup {0}
  OBVIOUS
<1> QED
  BY <1>1, <1>2 DEF Entry

\* A calibration that fails; the caller has seen that a chance is left.
LEMMA EntryFailed ==
  ASSUME NEW e \in Entry, e.cal_failed < CAL_CHANCES
  PROVE  [e EXCEPT !.cal_failed = e.cal_failed + 1] \in Entry
<1>1. e.cal_failed + 1 \in 0..CAL_CHANCES
  BY QueueAssumption DEF Entry
<1> QED
  BY <1>1, EntryExcept

\* A trim that has found something to cut.
LEMMA EntryTrimmed ==
  ASSUME NEW e \in Entry, NEW l \in Lengths
  PROVE  [e EXCEPT !.len = l, !.trim_done = TRUE] \in Entry
  BY DEF Entry

\* The end of a turn.
LEMMA EntryFuzzed ==
  ASSUME NEW e \in Entry, e.fuzz_level < MaxLevel, NEW w \in BOOLEAN
  PROVE  [e EXCEPT !.fuzz_level = e.fuzz_level + 1, !.was_fuzzed = w] \in Entry
<1>1. e.fuzz_level + 1 \in 0..MaxLevel
  BY QueueAssumption DEF Entry
<1> QED
  BY <1>1 DEF Entry

\* What perform_dry_run assigns to a seed that fails.
LEMMA EntryDropped ==
  ASSUME NEW e \in Entry, NEW failed \in 0..CAL_CHANCES
  PROVE  [e EXCEPT !.cal_failed = failed, !.was_fuzzed = TRUE,
                   !.disabled = TRUE] \in Entry
  BY DEF Entry

\* The entry of a new test case.
LEMMA NewEntryType ==
  ASSUME NEW t \in TestCases, NEW l \in Lengths
  PROVE  NewEntry(t, l) \in Entry
  BY QueueAssumption DEF NewEntry, Entry

\* The entries of qu and qv carry the same marks.
SameMarks(qu, qv) ==
    /\ Len(qv) = Len(qu)
    /\ \A q \in 1..Len(qu) : /\ qv[q].disabled = qu[q].disabled
                             /\ qv[q].was_fuzzed = qu[q].was_fuzzed
                             /\ qv[q].favored = qu[q].favored

\* Then the sets that the counters count are the same.
LEMMA SameSets ==
  ASSUME NEW qu, NEW qv, SameMarks(qu, qv)
  PROVE  /\ Active(qv) = Active(qu) /\ Waiting(qv) = Waiting(qu)
         /\ Favs(qv) = Favs(qu) /\ Pends(qv) = Pends(qu)
  BY DEF SameMarks, Active, Waiting, Favs, Pends

-----------------------------------------------------------------------------
(* update_bitmap_score.                                                    *)

\* qv is qu but for what update_bitmap_score writes.
OnlyRated(qu, qv) ==
    /\ Len(qv) = Len(qu)
    /\ \A q \in 1..Len(qu) :
          /\ qv[q].tc = qu[q].tc /\ qv[q].len = qu[q].len
          /\ qv[q].exec_us = qu[q].exec_us
          /\ qv[q].fuzz_level = qu[q].fuzz_level
          /\ qv[q].cal_failed = qu[q].cal_failed
          /\ qv[q].was_fuzzed = qu[q].was_fuzzed
          /\ qv[q].disabled = qu[q].disabled
          /\ qv[q].favored = qu[q].favored
          /\ qv[q].trim_done = qu[q].trim_done

\* The bytes that entry p loses.
Lost(top, wins, p) == {b \in wins : top[b] = p}

\* Who holds the bytes then.
TopAfter(top, wins, q) == [b \in Bytes |-> IF b \in wins THEN q ELSE top[b]]

\* What an entry loses and wins: the bytes it holds before and after the loop.
LEMMA HeldAfter ==
  ASSUME NEW top, NEW wins \in SUBSET Bytes, NEW q
  PROVE  LET after == TopAfter(top, wins, q)
         IN  /\ \A p : p # q =>
                   Cardinality(Held(after, p))
                      = Cardinality(Held(top, p)) - Cardinality(Lost(top, wins, p))
             /\ Cardinality(Held(after, q))
                   = Cardinality(Held(top, q)) + Cardinality(wins)
                     - Cardinality(Lost(top, wins, q))
             /\ \A p : /\ Cardinality(Lost(top, wins, p)) \in Nat
                       /\ Cardinality(Held(top, p)) \in Nat
                       /\ Cardinality(Lost(top, wins, p))
                             <= Cardinality(Held(top, p))
             /\ Cardinality(wins) \in Nat
             /\ Cardinality(Lost(top, wins, q)) <= Cardinality(wins)
             /\ wins # {} => Cardinality(wins) > 0
<1> DEFINE after == TopAfter(top, wins, q)
<1>1. \A p : /\ Lost(top, wins, p) \in SUBSET Held(top, p)
             /\ Held(top, p) \in SUBSET Bytes
             /\ IsFiniteSet(Held(top, p))
             /\ IsFiniteSet(Lost(top, wins, p)) /\ IsFiniteSet(wins)
  BY Finite DEF Held, Lost, TopAfter
<1>2. \A p : /\ Cardinality(Held(top, p) \ Lost(top, wins, p))
                  = Cardinality(Held(top, p)) - Cardinality(Lost(top, wins, p))
             /\ Cardinality(Lost(top, wins, p)) \in Nat
             /\ Cardinality(Held(top, p)) \in Nat
             /\ Cardinality(Lost(top, wins, p)) <= Cardinality(Held(top, p))
  BY <1>1, CardinalityDifference
<1>3. \A p : p # q => Held(after, p) = Held(top, p) \ Lost(top, wins, p)
  BY DEF Held, Lost, TopAfter
<1>4. /\ Held(after, q) = (Held(top, q) \ Lost(top, wins, q)) \cup wins
      /\ (Held(top, q) \ Lost(top, wins, q)) \cap wins = {}
  BY DEF Held, Lost, TopAfter
<1>5. IsFiniteSet(Held(top, q) \ Lost(top, wins, q))
  BY <1>1, FS_Subset
<1>6. Cardinality(Held(after, q))
         = Cardinality(Held(top, q) \ Lost(top, wins, q)) + Cardinality(wins)
  <2> QED
    BY <1>1, <1>4, <1>5, CardinalityUnion
<1>7. Cardinality(wins) \in Nat /\ (wins # {} => Cardinality(wins) > 0)
  <2>1. IsFiniteSet(wins) /\ Cardinality(wins) \in Nat
    BY Finite
  <2>2. wins # {} => Cardinality(wins) # 0
    BY <2>1, FS_EmptySet
  <2> QED
    BY <2>1, <2>2
<1>8. Cardinality(Lost(top, wins, q)) <= Cardinality(wins)
  <2>1. Lost(top, wins, q) \in SUBSET wins
    BY DEF Lost
  <2> QED
    BY <1>1, <2>1, FS_Subset
<1>9. /\ \A p : p # q =>
            Cardinality(Held(after, p))
               = Cardinality(Held(top, p)) - Cardinality(Lost(top, wins, p))
      /\ Cardinality(Held(after, q))
            = Cardinality(Held(top, q)) + Cardinality(wins)
              - Cardinality(Lost(top, wins, q))
  <2>1. ASSUME NEW p, p # q
        PROVE  Cardinality(Held(after, p))
                  = Cardinality(Held(top, p)) - Cardinality(Lost(top, wins, p))
    BY <1>2, <1>3, <2>1
  <2>2. /\ Cardinality(Held(top, q) \ Lost(top, wins, q))
              = Cardinality(Held(top, q)) - Cardinality(Lost(top, wins, q))
        /\ Cardinality(Lost(top, wins, q)) \in Nat
        /\ Cardinality(Held(top, q)) \in Nat
    BY <1>2
  <2>3. Cardinality(Held(after, q))
           = Cardinality(Held(top, q)) + Cardinality(wins)
             - Cardinality(Lost(top, wins, q))
    BY <1>6, <1>7, <2>2
  <2> QED
    BY <2>1, <2>3
<1> QED
  BY <1>2, <1>7, <1>8, <1>9

\* u is a sound score after entry q of s has been rated with trace: q took the
\* bytes in wins, and nothing but reference counts and traces changed.
RatedTo(s, q, trace, wins, u) ==
    /\ GoodQueue(u.queue, u.top)
    /\ Refs(u.queue, u.top)
    /\ OnlyRated(s.queue, u.queue)
    /\ \A p \in 1..Len(s.queue) :
          \/ u.queue[p].trace_mini \in {{}, s.queue[p].trace_mini}
          \/ p = q /\ u.queue[p].trace_mini = trace
    /\ u.top = TopAfter(s.top, wins, q)
    /\ wins = {} => u = s
    /\ wins # {} => u.changed = TRUE

\* What update_bitmap_score does to a sound score; above all, everybody's
\* reference count stays at least the number of bytes held.
LEMMA UpdateScore ==
  ASSUME NEW s, GoodQueue(s.queue, s.top), Refs(s.queue, s.top),
         NEW q \in 1..Len(s.queue), NEW trace \in SUBSET Bytes
  PROVE  RatedTo(s, q, trace, Wins(s, q, trace), UpdateBitmapScore(s, q, trace))
<1> DEFINE u == UpdateBitmapScore(s, q, trace)
           wins == Wins(s, q, trace)
<1>0. u = UpdateBitmapScore(s, q, trace) /\ wins = Wins(s, q, trace)
  OBVIOUS
<1> HIDE DEF u, wins
<1> SUFFICES RatedTo(s, q, trace, wins, u)
  BY DEF u, wins
<1> DEFINE lost(p) == Cardinality(Lost(s.top, wins, p))
           Ref(p) == s.queue[p].tc_ref - lost(p)
                     + (IF p = q THEN Cardinality(wins) ELSE 0)
           renewed == \/ s.queue[q].trace_mini = {}
                      \/ s.queue[q].tc_ref = 1 /\ s.top[Min(wins)] = q
           Mini(p) == CASE p = q /\ renewed -> trace
                        [] p # q /\ DropsTrace(s.queue[p].tc_ref, lost(p)) -> {}
                        [] OTHER -> s.queue[p].trace_mini
           qv == [p \in DOMAIN s.queue |->
                     [s.queue[p] EXCEPT !.tc_ref = Ref(p),
                                        !.trace_mini = Mini(p)]]
           top == TopAfter(s.top, wins, q)
<1>1. CASE wins = {}
  <2>1. u = s
    BY <1>0, <1>1 DEF UpdateBitmapScore
  <2>2. s.top = top
    BY <1>1 DEF GoodQueue, TopAfter
  <2>3. OnlyRated(s.queue, s.queue)
    BY DEF OnlyRated
  <2> HIDE DEF top
  <2> QED
    BY <1>1, <2>1, <2>2, <2>3 DEF top, RatedTo
<1>2. CASE wins # {}
  <2>1. u.queue = qv /\ u.top = top /\ u.changed = TRUE
    BY <1>0, <1>2 DEF UpdateBitmapScore, Lost, TopAfter
  <2>2. /\ s.queue \in Seq(Entry) /\ Len(s.queue) \in 1..MaxItems
        /\ DOMAIN s.queue = 1..Len(s.queue)
        /\ \A p \in 1..Len(s.queue) : s.queue[p] \in Entry
        /\ s.top \in [Bytes -> {None} \cup 1..Len(s.queue)]
    BY DEF GoodQueue
  <2>3. wins \in SUBSET trace /\ wins \in SUBSET Bytes
    BY <1>0 DEF Wins
  <2>4. /\ \A p : p # q =>
              Cardinality(Held(top, p)) = Cardinality(Held(s.top, p)) - lost(p)
        /\ Cardinality(Held(top, q))
              = Cardinality(Held(s.top, q)) + Cardinality(wins) - lost(q)
        /\ \A p : /\ lost(p) \in Nat /\ Cardinality(Held(s.top, p)) \in Nat
                  /\ lost(p) <= Cardinality(Held(s.top, p))
        /\ Cardinality(wins) \in Nat /\ lost(q) <= Cardinality(wins)
        /\ Cardinality(wins) > 0
    <3> HIDE DEF Ref, renewed, Mini, qv
    <3>1. ASSUME NEW p, p # q
          PROVE  Cardinality(Held(top, p)) = Cardinality(Held(s.top, p)) - lost(p)
      BY <2>3, <3>1, HeldAfter
    <3>2. Cardinality(Held(top, q))
             = Cardinality(Held(s.top, q)) + Cardinality(wins) - lost(q)
      BY <2>3, HeldAfter
    <3>3. ASSUME NEW p
          PROVE  /\ lost(p) \in Nat /\ Cardinality(Held(s.top, p)) \in Nat
                 /\ lost(p) <= Cardinality(Held(s.top, p))
      BY <2>3, HeldAfter
    <3>4. /\ Cardinality(wins) \in Nat /\ lost(q) <= Cardinality(wins)
          /\ Cardinality(wins) > 0
      BY <1>2, <2>3, HeldAfter
    <3> HIDE DEF top, lost
    <3> QED
      BY <3>1, <3>2, <3>3, <3>4
  <2>5. \A p \in 1..Len(s.queue) :
           /\ s.queue[p].tc_ref \in Nat
           /\ s.queue[p].tc_ref >= Cardinality(Held(s.top, p))
           /\ (s.queue[p].tc_ref > 0) <=> (s.queue[p].trace_mini # {})
           /\ s.queue[p].trace_mini \in SUBSET Bytes
    BY <2>2 DEF Refs, Entry
  <2> HIDE DEF lost, renewed
  <2>6. \A p \in 1..Len(s.queue) :
           /\ Ref(p) \in Nat
           /\ Ref(p) >= Cardinality(Held(top, p))
           /\ (Ref(p) > 0) <=> (Mini(p) # {})
           /\ Mini(p) \in {{}, s.queue[p].trace_mini}
                             \cup (IF p = q THEN {trace} ELSE {})
    <3> SUFFICES ASSUME NEW p \in 1..Len(s.queue)
                 PROVE  /\ Ref(p) \in Nat
                        /\ Ref(p) >= Cardinality(Held(top, p))
                        /\ (Ref(p) > 0) <=> (Mini(p) # {})
                        /\ Mini(p) \in {{}, s.queue[p].trace_mini}
                                          \cup (IF p = q THEN {trace} ELSE {})
      OBVIOUS
    <3>1. CASE p = q
      <4>1. Ref(q) = s.queue[q].tc_ref - lost(q) + Cardinality(wins)
        OBVIOUS
      <4>2. /\ Ref(q) \in Nat /\ Ref(q) > 0
            /\ Ref(q) >= Cardinality(Held(top, q))
        <5>1. /\ Cardinality(Held(top, q))
                    = Cardinality(Held(s.top, q)) + Cardinality(wins) - lost(q)
              /\ lost(q) \in Nat /\ Cardinality(Held(s.top, q)) \in Nat
              /\ lost(q) <= Cardinality(wins)
              /\ Cardinality(wins) \in Nat /\ Cardinality(wins) > 0
          BY <2>4
        <5>2. /\ s.queue[q].tc_ref \in Nat
              /\ s.queue[q].tc_ref >= Cardinality(Held(s.top, q))
          BY <2>5
        <5>3. lost(q) <= Cardinality(Held(s.top, q))
          BY <2>4
        <5> HIDE DEF Ref, top
        <5> QED
          BY <4>1, <5>1, <5>2, <5>3
      <4>3. Mini(q) = IF renewed THEN trace ELSE s.queue[q].trace_mini
        OBVIOUS
      <4>4. trace # {} /\ (~renewed => s.queue[q].trace_mini # {})
        BY <1>2, <2>3 DEF renewed
      <4> QED
        BY <3>1, <4>2, <4>3, <4>4
    <3>2. CASE p # q
      <4>1. Ref(p) = s.queue[p].tc_ref - lost(p)
        BY <2>4, <2>5, <3>2
      <4>2. /\ Ref(p) \in Nat
            /\ Ref(p) >= Cardinality(Held(top, p))
        <5>1. /\ Cardinality(Held(top, p)) = Cardinality(Held(s.top, p)) - lost(p)
              /\ lost(p) \in Nat /\ Cardinality(Held(s.top, p)) \in Nat
              /\ lost(p) <= Cardinality(Held(s.top, p))
          BY <2>4, <3>2
        <5>2. /\ s.queue[p].tc_ref \in Nat
              /\ s.queue[p].tc_ref >= Cardinality(Held(s.top, p))
          BY <2>5
        <5> HIDE DEF Ref, top
        <5> QED
          BY <4>1, <5>1, <5>2
      <4>3. Mini(p) = IF DropsTrace(s.queue[p].tc_ref, lost(p)) THEN {}
                      ELSE s.queue[p].trace_mini
        BY <3>2
      <4>4. (Ref(p) > 0) <=> (Mini(p) # {})
        <5>1. /\ s.queue[p].tc_ref \in Nat /\ lost(p) \in Nat
              /\ s.queue[p].tc_ref >= lost(p)
              /\ (s.queue[p].tc_ref > 0) <=> (s.queue[p].trace_mini # {})
          <6> HIDE DEF top
          <6> QED
            BY <2>4, <2>5
        <5> HIDE DEF Ref, Mini, top
        <5>2. CASE lost(p) = 0
          BY <4>1, <4>3, <5>1, <5>2 DEF DropsTrace
        <5>3. CASE lost(p) > 0 /\ s.queue[p].tc_ref = lost(p)
          BY <4>1, <4>3, <5>1, <5>3 DEF DropsTrace
        <5>4. CASE s.queue[p].tc_ref > lost(p) /\ lost(p) > 0
          BY <4>1, <4>3, <5>1, <5>4 DEF DropsTrace
        <5> QED
          BY <5>1, <5>2, <5>3, <5>4
      <4> QED
        BY <4>2, <4>3, <4>4
    <3> QED
      BY <3>1, <3>2
  <2> HIDE DEF Ref, Mini
  <2>7. /\ \A p \in 1..Len(s.queue) : qv[p] \in Entry
        /\ \A p \in 1..Len(s.queue) :
              qv[p].tc_ref = Ref(p) /\ qv[p].trace_mini = Mini(p)
    <3> SUFFICES ASSUME NEW p \in 1..Len(s.queue)
                 PROVE  /\ qv[p] \in Entry
                        /\ qv[p].tc_ref = Ref(p) /\ qv[p].trace_mini = Mini(p)
      OBVIOUS
    <3>1. qv[p] = [s.queue[p] EXCEPT !.tc_ref = Ref(p), !.trace_mini = Mini(p)]
      BY <2>2
    <3>2. s.queue[p] \in Entry /\ Ref(p) \in Nat /\ Mini(p) \in SUBSET Bytes
      BY <2>2, <2>5, <2>6
    <3>3. [s.queue[p] EXCEPT !.tc_ref = Ref(p), !.trace_mini = Mini(p)] \in Entry
      BY <3>2, EntryRated
    <3>4. qv[p].tc_ref = Ref(p) /\ qv[p].trace_mini = Mini(p)
      BY <3>1, <3>2 DEF Entry
    <3> HIDE DEF qv
    <3> QED
      BY <3>1, <3>3, <3>4
  <2>8. qv \in Seq(Entry) /\ Len(qv) = Len(s.queue)
    <3>1. qv = [p \in 1..Len(s.queue) |-> qv[p]]
      BY <2>2
    <3> HIDE DEF qv
    <3> QED
      BY <2>2, <2>7, <3>1, MapSeq
  <2>9. GoodQueue(qv, top)
    BY <2>2, <2>3, <2>8 DEF GoodQueue, TopAfter
  <2>10. Refs(qv, top)
    BY <2>6, <2>7, <2>8 DEF Refs
  <2>11. OnlyRated(s.queue, qv)
    BY <2>2, <2>8 DEF OnlyRated, Entry
  <2> HIDE DEF qv, top
  <2>12. \A p \in 1..Len(s.queue) :
            \/ u.queue[p].trace_mini \in {{}, s.queue[p].trace_mini}
            \/ p = q /\ u.queue[p].trace_mini = trace
    BY <2>1, <2>6, <2>7
  <2> QED
    BY <1>2, <2>1, <2>9, <2>10, <2>11, <2>12 DEF top, RatedTo
<1> QED
  BY <1>1, <1>2

-----------------------------------------------------------------------------
(* update_bitmap_score for several entries.                                *)

\* The score after entry i, when before is the score after the entries below.
RateOne(i, before, qs, trace) ==
    IF i \in qs THEN UpdateBitmapScore(before, i, trace) ELSE before

\* The scores of the first n entries, as the loop goes through them.
Rating(f, n, s, qs, trace) ==
    f = [i \in 0..n |-> IF i = 0 THEN s ELSE RateOne(i, f[i - 1], qs, trace)]

\* The loop has a result, after any number of entries.
LEMMA RatingExists ==
  ASSUME NEW s, NEW qs, NEW trace, NEW n \in Nat
  PROVE  \E f : Rating(f, n, s, qs, trace)
<1> DEFINE S == {m \in Nat : \E f : Rating(f, m, s, qs, trace)}
<1>1. 0 \in S
  <2>1. Rating([i \in 0..0 |-> s], 0, s, qs, trace)
    BY DEF Rating
  <2> QED
    BY <2>1
<1>2. ASSUME NEW m \in Nat, m \in S PROVE m + 1 \in S
  <2>1. PICK f : Rating(f, m, s, qs, trace)
    BY <1>2
  <2> DEFINE h == [i \in 0..m + 1 |-> IF i = m + 1 THEN RateOne(m + 1, f[m], qs, trace)
                                      ELSE f[i]]
  <2>2. \A i \in 0..m + 1 :
           h[i] = IF i = 0 THEN s ELSE RateOne(i, h[i - 1], qs, trace)
    <3> SUFFICES ASSUME NEW i \in 0..m + 1
                 PROVE  h[i] = IF i = 0 THEN s ELSE RateOne(i, h[i - 1], qs, trace)
      OBVIOUS
    <3>1. CASE i = m + 1
      <4>1. i - 1 = m /\ h[m] = f[m] /\ i # 0
        BY <3>1
      <4> QED
        BY <3>1, <4>1
    <3>2. CASE i = 0
      BY <2>1, <3>2 DEF Rating
    <3>3. CASE i \in 1..m
      <4>1. i - 1 \in 0..m /\ i \in 0..m /\ i # 0
        BY <3>3
      <4>2. h[i] = f[i] /\ h[i - 1] = f[i - 1]
        BY <3>3
      <4>3. f[i] = RateOne(i, f[i - 1], qs, trace)
        BY <2>1, <4>1 DEF Rating
      <4> QED
        BY <4>1, <4>2, <4>3
    <3> QED
      BY <3>1, <3>2, <3>3
  <2>3. Rating(h, m + 1, s, qs, trace)
    BY <2>2 DEF Rating
  <2> QED
    BY <2>3
<1> HIDE DEF S
<1>3. n \in S
  BY <1>1, <1>2, Induction
<1> QED
  BY <1>3 DEF S

\* UpdateAll is the last of the scores of the loop.
LEMMA UpdateAllIsLast ==
  ASSUME NEW s, NEW qs, NEW trace, Len(s.queue) \in Nat
  PROVE  \E f : /\ Rating(f, Len(s.queue), s, qs, trace)
                /\ UpdateAll(s, qs, trace) = f[Len(s.queue)]
<1> DEFINE n == Len(s.queue)
           F == CHOOSE f : f = [i \in 0..n |->
                    IF i = 0 THEN s
                    ELSE IF i \in qs THEN UpdateBitmapScore(f[i - 1], i, trace)
                    ELSE f[i - 1]]
<1>1. UpdateAll(s, qs, trace) = F[n]
  BY DEF UpdateAll
<1>2. \E f : f = [i \in 0..n |->
                    IF i = 0 THEN s
                    ELSE IF i \in qs THEN UpdateBitmapScore(f[i - 1], i, trace)
                    ELSE f[i - 1]]
  <2>1. PICK f : Rating(f, n, s, qs, trace)
    BY RatingExists
  <2>2. f = [i \in 0..n |->
                    IF i = 0 THEN s
                    ELSE IF i \in qs THEN UpdateBitmapScore(f[i - 1], i, trace)
                    ELSE f[i - 1]]
    BY <2>1 DEF Rating, RateOne
  <2> QED
    BY <2>2
<1>3. F = [i \in 0..n |->
                    IF i = 0 THEN s
                    ELSE IF i \in qs THEN UpdateBitmapScore(F[i - 1], i, trace)
                    ELSE F[i - 1]]
  BY <1>2
<1> HIDE DEF F
<1>4. Rating(F, n, s, qs, trace)
  BY <1>3 DEF Rating, RateOne
<1> QED
  BY <1>1, <1>4

\* What the loop does to a sound score: as update_bitmap_score, several times.
LEMMA UpdateAllScore ==
  ASSUME NEW s, GoodQueue(s.queue, s.top), Refs(s.queue, s.top),
         s.changed \in BOOLEAN,
         NEW qs, NEW trace \in SUBSET Bytes,
         NEW u, u = UpdateAll(s, qs, trace)
  PROVE  /\ GoodQueue(u.queue, u.top)
         /\ Refs(u.queue, u.top)
         /\ OnlyRated(s.queue, u.queue)
         /\ u.changed \in BOOLEAN
<1> DEFINE n == Len(s.queue)
<1>1. n \in Nat
  BY DEF GoodQueue
<1>2. PICK f : Rating(f, n, s, qs, trace) /\ u = f[n]
  BY <1>1, UpdateAllIsLast
<1> DEFINE Sound(t) == /\ GoodQueue(t.queue, t.top)
                       /\ Refs(t.queue, t.top)
                       /\ OnlyRated(s.queue, t.queue)
                       /\ t.changed \in BOOLEAN
           S == {m \in Nat : m <= n => Sound(f[m])}
<1>3. f[0] = s /\ \A m \in 1..n : f[m] = RateOne(m, f[m - 1], qs, trace)
  BY <1>1, <1>2 DEF Rating
<1>4. 0 \in S
  BY <1>3 DEF OnlyRated
<1>5. ASSUME NEW m \in Nat, m \in S PROVE m + 1 \in S
  <2> SUFFICES ASSUME m + 1 <= n PROVE Sound(f[m + 1])
    OBVIOUS
  <2>1. m <= n /\ m + 1 \in 1..n /\ (m + 1) - 1 = m
    BY <1>1
  <2>2. Sound(f[m])
    BY <1>5, <2>1
  <2>3. f[m + 1] = RateOne(m + 1, f[m], qs, trace)
    BY <1>3, <2>1
  <2>4. CASE m + 1 \notin qs
    BY <2>2, <2>3, <2>4 DEF RateOne
  <2>5. CASE m + 1 \in qs
    <3> DEFINE t == f[m]
               v == f[m + 1]
    <3>1. v = UpdateBitmapScore(t, m + 1, trace)
      BY <2>3, <2>5 DEF RateOne
    <3>2. m + 1 \in 1..Len(t.queue)
      BY <2>1, <2>2 DEF OnlyRated
    <3>3. Sound(t)
      BY <2>2
    <3> HIDE DEF t, v
    <3>4. /\ GoodQueue(v.queue, v.top) /\ Refs(v.queue, v.top)
          /\ OnlyRated(t.queue, v.queue)
          /\ v = t \/ v.changed = TRUE
      <4>1. GoodQueue(t.queue, t.top) /\ Refs(t.queue, t.top)
        BY <3>3
      <4> DEFINE k == m + 1
      <4>2. k \in 1..Len(t.queue) /\ v = UpdateBitmapScore(t, k, trace)
        BY <3>1, <3>2
      <4> HIDE DEF k, Sound
      <4>3. /\ GoodQueue(v.queue, v.top) /\ Refs(v.queue, v.top)
            /\ OnlyRated(t.queue, v.queue)
            /\ v = t \/ v.changed = TRUE
        BY <4>1, <4>2, UpdateScore DEF RatedTo
      <4> QED
        BY <4>3
    <3>5. OnlyRated(s.queue, v.queue)
      BY <3>3, <3>4 DEF OnlyRated
    <3>6. v.changed \in BOOLEAN
      BY <3>3, <3>4
    <3>7. Sound(v)
      BY <3>4, <3>5, <3>6
    <3> QED
      BY <3>7 DEF v
  <2> QED
    BY <2>4, <2>5
<1> HIDE DEF S
<1>6. n \in S
  BY <1>1, <1>4, <1>5, Induction
<1> QED
  BY <1>1, <1>2, <1>6 DEF S

-----------------------------------------------------------------------------
(* cull_queue.                                                             *)

\* The entries of P that wait to be fuzzed.
Waits(s, P) == {q \in P : ~s.queue[q].was_fuzzed}

\* What holds of acc after the first n bytes: its counters count what has been
\* favoured, what is not in temp_v any more is in the trace of a favoured entry,
\* and every byte that was visited and is left has its best entry favoured.
PickedSoFar(s, n, acc) ==
    /\ acc.favoured \subseteq 1..Len(s.queue)
    /\ \A q \in acc.favoured : \E b \in Bytes : s.top[b] = q
    /\ acc.queued = Cardinality(acc.favoured)
    /\ acc.pending = Cardinality(Waits(s, acc.favoured))
    /\ acc.smallest \in {None} \cup Waits(s, acc.favoured)
    /\ \A b \in Bytes : b \in acc.temp_v \/
          \E q \in acc.favoured : b \in s.queue[q].trace_mini
    /\ \A b \in Bytes : b <= n =>
          s.top[b] = None \/ s.top[b] \in acc.favoured \/ b \notin acc.temp_v

\* One byte keeps that.
LEMMA VisitKeeps ==
  ASSUME NEW s, GoodQueue(s.queue, s.top), NEW n \in Nat, n + 1 \in Bytes,
         NEW acc, PickedSoFar(s, n, acc)
  PROVE  PickedSoFar(s, n + 1, Visit(s, n + 1, acc))
<1> DEFINE i == n + 1
           q == s.top[i]
           v == Visit(s, i, acc)
           new == q \notin acc.favoured
           waits == new /\ ~s.queue[q].was_fuzzed
<1>1. /\ i \in Bytes /\ n < i /\ \A b \in Bytes : b <= i => b <= n \/ b = i
      /\ q \in {None} \cup 1..Len(s.queue) /\ Len(s.queue) \in Nat
  <2>1. i \in Bytes /\ s.top \in [Bytes -> {None} \cup 1..Len(s.queue)]
    BY DEF GoodQueue
  <2>2. Len(s.queue) \in Nat
    BY DEF GoodQueue
  <2>3. n < i /\ \A b \in Bytes : b <= i => b <= n \/ b = i
    BY DEF Bytes
  <2>4. s.top[i] \in {None} \cup 1..Len(s.queue)
    <3> HIDE DEF i
    <3> QED
      BY <2>1
  <2> QED
    BY <2>1, <2>2, <2>3, <2>4
<1>2. CASE ~NeedsEntry(s.top, i, acc.temp_v)
  <2>1. v = acc
    BY <1>2 DEF Visit
  <2>2. s.top[i] = None \/ i \notin acc.temp_v
    BY <1>2 DEF NeedsEntry
  <2>3. \A b \in Bytes : b <= i =>
           s.top[b] = None \/ s.top[b] \in acc.favoured \/ b \notin acc.temp_v
    BY <1>1, <2>2 DEF PickedSoFar
  <2> HIDE DEF v, i
  <2>4. PickedSoFar(s, i, v)
    BY <2>1, <2>3 DEF PickedSoFar
  <2> QED
    BY <2>4 DEF v, i
<1>3. CASE NeedsEntry(s.top, i, acc.temp_v)
  <2>1. q \in 1..Len(s.queue)
    BY <1>1, <1>3 DEF NeedsEntry
  <2>2. v = [temp_v |-> acc.temp_v \ s.queue[q].trace_mini,
             favoured |-> acc.favoured \cup {q},
             queued |-> IF new THEN acc.queued + 1 ELSE acc.queued,
             pending |-> IF waits THEN acc.pending + 1 ELSE acc.pending,
             smallest |-> IF waits /\ acc.smallest = None THEN q
                          ELSE acc.smallest]
    BY <1>3 DEF Visit
  <2>3. /\ v.temp_v = acc.temp_v \ s.queue[q].trace_mini
        /\ v.favoured = acc.favoured \cup {q}
        /\ v.queued = IF new THEN acc.queued + 1 ELSE acc.queued
        /\ v.pending = IF waits THEN acc.pending + 1 ELSE acc.pending
        /\ v.smallest = IF waits /\ acc.smallest = None THEN q
                        ELSE acc.smallest
    <3> HIDE DEF v, new, waits, q
    <3> QED
      BY <2>2
  <2> DEFINE P == acc.favoured
  <2>4. /\ P \in SUBSET (1..Len(s.queue)) /\ IsFiniteSet(P)
        /\ Waits(s, P) \in SUBSET (1..Len(s.queue)) /\ IsFiniteSet(Waits(s, P))
        /\ Cardinality(P) \in Nat /\ Cardinality(Waits(s, P)) \in Nat
    <3>1. /\ P \in SUBSET (1..Len(s.queue))
          /\ Waits(s, P) \in SUBSET (1..Len(s.queue))
      BY DEF PickedSoFar, Waits
    <3> QED
      BY <1>1, <3>1, Finite
  <2>5. v.favoured = P \cup {q}
    BY <2>3
  <2>6. v.queued = Cardinality(v.favoured)
    <3>1. Cardinality(P \cup {q}) = IF q \in P THEN Cardinality(P)
                                    ELSE Cardinality(P) + 1
      BY <2>4, FS_AddElement
    <3>2. acc.queued = Cardinality(P)
      BY DEF PickedSoFar
    <3> HIDE DEF v, P, q
    <3> QED
      BY <2>3, <2>5, <3>1, <3>2 DEF P
  <2>7. Waits(s, v.favoured) = IF s.queue[q].was_fuzzed THEN Waits(s, P)
                               ELSE Waits(s, P) \cup {q}
    <3> HIDE DEF v, P, q
    <3> QED
      BY <2>5 DEF Waits
  <2>8. (q \in Waits(s, P)) <=> (~new /\ ~s.queue[q].was_fuzzed)
    BY DEF Waits
  <2>9. v.pending = Cardinality(Waits(s, v.favoured))
    <3>1. Cardinality(Waits(s, P) \cup {q})
             = IF q \in Waits(s, P) THEN Cardinality(Waits(s, P))
               ELSE Cardinality(Waits(s, P)) + 1
      BY <2>4, FS_AddElement
    <3>2. acc.pending = Cardinality(Waits(s, P))
      BY DEF PickedSoFar
    <3>3. CASE s.queue[q].was_fuzzed
      <4>1. v.pending = acc.pending
        BY <2>3, <3>3
      <4>2. Waits(s, v.favoured) = Waits(s, P)
        BY <2>7, <3>3
      <4> QED
        BY <3>2, <4>1, <4>2
    <3>4. CASE ~s.queue[q].was_fuzzed /\ new
      <4>1. v.pending = acc.pending + 1
        BY <2>3, <3>4
      <4>2. Waits(s, v.favoured) = Waits(s, P) \cup {q} /\ q \notin Waits(s, P)
        BY <2>7, <2>8, <3>4
      <4> HIDE DEF v, P, q, new
      <4> QED
        BY <3>1, <3>2, <4>1, <4>2
    <3>5. CASE ~s.queue[q].was_fuzzed /\ ~new
      <4>1. v.pending = acc.pending
        BY <2>3, <3>5
      <4>2. Waits(s, v.favoured) = Waits(s, P) \cup {q} /\ q \in Waits(s, P)
        BY <2>7, <2>8, <3>5
      <4> HIDE DEF v, P, q, new
      <4> QED
        BY <3>1, <3>2, <4>1, <4>2
    <3> QED
      BY <3>3, <3>4, <3>5
  <2>10. v.smallest \in {None} \cup Waits(s, v.favoured)
    <3>1. acc.smallest \in {None} \cup Waits(s, P)
      BY DEF PickedSoFar
    <3>2. Waits(s, P) \subseteq Waits(s, v.favoured)
      BY <2>5 DEF Waits
    <3>3. waits => q \in Waits(s, v.favoured)
      BY <2>5 DEF Waits
    <3> HIDE DEF v, P, q, waits
    <3> QED
      BY <2>3, <3>1, <3>2, <3>3
  <2> HIDE DEF v
  <2>11. /\ v.favoured \subseteq 1..Len(s.queue)
         /\ \A p \in v.favoured : \E b \in Bytes : s.top[b] = p
    BY <1>1, <2>1, <2>5 DEF PickedSoFar
  <2>12. \A b \in Bytes : b \in v.temp_v \/
            \E p \in v.favoured : b \in s.queue[p].trace_mini
    BY <2>3, <2>5 DEF PickedSoFar
  <2>13. \A b \in Bytes : b <= i =>
            s.top[b] = None \/ s.top[b] \in v.favoured \/ b \notin v.temp_v
    BY <1>1, <2>3, <2>5 DEF PickedSoFar
  <2> HIDE DEF i, q
  <2>14. PickedSoFar(s, i, v)
    BY <2>6, <2>9, <2>10, <2>11, <2>12, <2>13 DEF PickedSoFar
  <2> QED
    BY <2>14 DEF v, i
<1> QED
  BY <1>2, <1>3

\* What the loop starts from.
NothingPicked ==
    [temp_v |-> Bytes, favoured |-> {}, queued |-> 0, pending |-> 0,
     smallest |-> None]

\* What the loop has after each of the first n bytes.
Picking(f, n, s) ==
    f = [i \in 0..n |-> IF i = 0 THEN NothingPicked ELSE Visit(s, i, f[i - 1])]

\* The loop has a result, after any number of bytes.
LEMMA PickingExists ==
  ASSUME NEW s, NEW n \in Nat
  PROVE  \E f : Picking(f, n, s)
<1> DEFINE S == {m \in Nat : \E f : Picking(f, m, s)}
<1>1. 0 \in S
  <2>1. Picking([i \in 0..0 |-> NothingPicked], 0, s)
    BY DEF Picking
  <2> QED
    BY <2>1
<1>2. ASSUME NEW m \in Nat, m \in S PROVE m + 1 \in S
  <2>1. PICK f : Picking(f, m, s)
    BY <1>2
  <2> DEFINE h == [i \in 0..m + 1 |-> IF i = m + 1 THEN Visit(s, m + 1, f[m])
                                      ELSE f[i]]
  <2>2. \A i \in 0..m + 1 :
           h[i] = IF i = 0 THEN NothingPicked ELSE Visit(s, i, h[i - 1])
    <3> SUFFICES ASSUME NEW i \in 0..m + 1
                 PROVE  h[i] = IF i = 0 THEN NothingPicked
                               ELSE Visit(s, i, h[i - 1])
      OBVIOUS
    <3>1. CASE i = m + 1
      <4>1. i - 1 = m /\ h[m] = f[m] /\ i # 0
        BY <3>1
      <4> QED
        BY <3>1, <4>1
    <3>2. CASE i = 0
      BY <2>1, <3>2 DEF Picking
    <3>3. CASE i \in 1..m
      <4>1. i - 1 \in 0..m /\ i \in 0..m /\ i # 0
        BY <3>3
      <4>2. h[i] = f[i] /\ h[i - 1] = f[i - 1]
        BY <3>3
      <4>3. f[i] = Visit(s, i, f[i - 1])
        BY <2>1, <4>1 DEF Picking
      <4> QED
        BY <4>1, <4>2, <4>3
    <3> QED
      BY <3>1, <3>2, <3>3
  <2>3. Picking(h, m + 1, s)
    BY <2>2 DEF Picking
  <2> QED
    BY <2>3
<1> HIDE DEF S
<1>3. n \in S
  BY <1>1, <1>2, Induction
<1> QED
  BY <1>3 DEF S

\* Picked is what the loop has after the last byte.
LEMMA PickedIsLast ==
  ASSUME NEW s
  PROVE  \E f : Picking(f, MapSize, s) /\ Picked(s) = f[MapSize]
<1> DEFINE F == CHOOSE f : f = [i \in 0..MapSize |->
                    IF i = 0
                    THEN [temp_v |-> Bytes, favoured |-> {}, queued |-> 0,
                          pending |-> 0, smallest |-> None]
                    ELSE Visit(s, i, f[i - 1])]
<1>1. Picked(s) = F[MapSize]
  BY DEF Picked
<1>2. \E f : f = [i \in 0..MapSize |->
                    IF i = 0
                    THEN [temp_v |-> Bytes, favoured |-> {}, queued |-> 0,
                          pending |-> 0, smallest |-> None]
                    ELSE Visit(s, i, f[i - 1])]
  <2>1. PICK f : Picking(f, MapSize, s)
    BY PickingExists, QueueAssumption
  <2>2. f = [i \in 0..MapSize |->
                    IF i = 0
                    THEN [temp_v |-> Bytes, favoured |-> {}, queued |-> 0,
                          pending |-> 0, smallest |-> None]
                    ELSE Visit(s, i, f[i - 1])]
    BY <2>1 DEF Picking, NothingPicked
  <2> QED
    BY <2>2
<1>3. F = [i \in 0..MapSize |->
                    IF i = 0
                    THEN [temp_v |-> Bytes, favoured |-> {}, queued |-> 0,
                          pending |-> 0, smallest |-> None]
                    ELSE Visit(s, i, F[i - 1])]
  BY <1>2
<1> HIDE DEF F
<1>4. Picking(F, MapSize, s)
  BY <1>3 DEF Picking, NothingPicked
<1> QED
  BY <1>1, <1>4

\* The result of the whole loop: every byte that anybody holds is in the trace
\* of a favoured entry, or its best entry is favoured.
LEMMA PickedSound ==
  ASSUME NEW s, GoodQueue(s.queue, s.top)
  PROVE  PickedSoFar(s, MapSize, Picked(s))
<1>1. PICK f : Picking(f, MapSize, s) /\ Picked(s) = f[MapSize]
  BY PickedIsLast
<1> DEFINE S == {m \in Nat : m <= MapSize => PickedSoFar(s, m, f[m])}
<1>2. MapSize \in Nat
  BY QueueAssumption
<1>3. f[0] = NothingPicked /\ \A m \in 1..MapSize : f[m] = Visit(s, m, f[m - 1])
  BY <1>1, <1>2 DEF Picking
<1>4. PickedSoFar(s, 0, NothingPicked)
  <2>1. Waits(s, {}) = {} /\ Cardinality({}) = 0
    BY FS_EmptySet DEF Waits
  <2>2. \A b \in Bytes : ~(b <= 0)
    BY DEF Bytes
  <2> QED
    BY <2>1, <2>2 DEF PickedSoFar, NothingPicked
<1>5. 0 \in S
  BY <1>3, <1>4
<1>6. ASSUME NEW m \in Nat, m \in S PROVE m + 1 \in S
  <2> SUFFICES ASSUME m + 1 <= MapSize PROVE PickedSoFar(s, m + 1, f[m + 1])
    OBVIOUS
  <2>1. m <= MapSize /\ m + 1 \in 1..MapSize /\ (m + 1) - 1 = m
    BY <1>2
  <2>2. PickedSoFar(s, m, f[m]) /\ m + 1 \in Bytes
    BY <1>6, <2>1 DEF Bytes
  <2>3. f[m + 1] = Visit(s, m + 1, f[m])
    BY <1>3, <2>1
  <2> QED
    BY <2>2, <2>3, VisitKeeps
<1> HIDE DEF S
<1>7. MapSize \in S
  BY <1>2, <1>5, <1>6, Induction
<1> QED
  BY <1>1, <1>2, <1>7 DEF S

\* Two entries that differ at most in the marks that cull_queue sets.
SameFields(e, f) ==
    /\ f.tc = e.tc /\ f.len = e.len /\ f.exec_us = e.exec_us
    /\ f.fuzz_level = e.fuzz_level /\ f.cal_failed = e.cal_failed
    /\ f.was_fuzzed = e.was_fuzzed /\ f.trim_done = e.trim_done
    /\ f.tc_ref = e.tc_ref /\ f.trace_mini = e.trace_mini

\* The entries of qv are those of qu but for these marks.
OnlyMarked(qu, qv) ==
    /\ Len(qv) = Len(qu)
    /\ \A q \in 1..Len(qu) :
          /\ SameFields(qu[q], qv[q])
          /\ qu[q].disabled => qv[q].disabled
          /\ ~DisablesRedundant => qv[q].disabled = qu[q].disabled

\* The culling of a score that has not changed does nothing.
LEMMA CulledUnchanged ==
  ASSUME NEW s, ~s.changed
  PROVE  Culled(s) = [queue |-> s.queue, queued |-> queued_favored,
                      pending |-> pending_favored, smallest |-> smallest_favored]
  BY DEF Culled

\* What mark_as_redundant leaves alone.
LEMMA RedundantFields ==
  ASSUME NEW e \in Entry
  PROVE  /\ Redundant(e) \in Entry
         /\ SameFields(e, Redundant(e))
         /\ Redundant(e).favored = e.favored
         /\ e.disabled => Redundant(e).disabled
         /\ ~DisablesRedundant => Redundant(e).disabled = e.disabled
<1> DEFINE d == e.disabled \/ ("disable_redundant" \in options /\ ~e.favored)
<1>1. Redundant(e) = [e EXCEPT !.disabled = d]
  BY DEF Redundant
<1>2. /\ d \in BOOLEAN /\ e.disabled \in BOOLEAN /\ (e.disabled => d)
      /\ ~DisablesRedundant => d = e.disabled
  BY DEF DisablesRedundant, Entry
<1> HIDE DEF d
<1>3. [e EXCEPT !.disabled = d] \in Entry
  BY <1>2, EntryExcept
<1>4. SameFields(e, Redundant(e))
  BY <1>1 DEF Entry, SameFields
<1> QED
  BY <1>1, <1>2, <1>3, <1>4 DEF Entry

\* The culling of one that has: the marks and the counters agree, what is
\* favoured is the best entry of some byte, and every byte that has a best entry
\* is covered.
LEMMA CulledChanged ==
  ASSUME NEW s, GoodQueue(s.queue, s.top), s.changed
  PROVE  LET c == Culled(s)
         IN  /\ GoodQueue(c.queue, s.top)
             /\ OnlyMarked(s.queue, c.queue)
             /\ c.queued = Cardinality(Favs(c.queue))
             /\ c.pending = Cardinality(Pends(c.queue))
             /\ c.smallest \in {None} \cup Pends(c.queue)
             /\ \A q \in 1..Len(s.queue) : c.queue[q].favored =>
                   \E b \in Bytes : s.top[b] = q
             /\ \A b \in Bytes : s.top[b] # None =>
                   \E q \in 1..Len(s.queue) :
                      /\ c.queue[q].favored
                      /\ q = s.top[b] \/ b \in s.queue[q].trace_mini
<1> DEFINE P == Picked(s)
           marked == [q \in DOMAIN s.queue |->
                         [s.queue[q] EXCEPT !.favored = q \in P.favoured]]
           qv == [q \in DOMAIN marked |-> Redundant(marked[q])]
           c == Culled(s)
<1>1. c = [queue |-> qv, queued |-> P.queued, pending |-> P.pending,
           smallest |-> P.smallest]
  BY DEF Culled
<1> HIDE DEF c, P
<1>2. /\ c.queue = qv /\ c.queued = P.queued /\ c.pending = P.pending
      /\ c.smallest = P.smallest
  <2> HIDE DEF qv
  <2> QED
    BY <1>1
<1>3. /\ s.queue \in Seq(Entry) /\ Len(s.queue) \in 1..MaxItems
      /\ DOMAIN s.queue = 1..Len(s.queue)
      /\ \A q \in 1..Len(s.queue) : s.queue[q] \in Entry
      /\ s.top \in [Bytes -> {None} \cup 1..Len(s.queue)]
  BY DEF GoodQueue
<1>4. /\ PickedSoFar(s, MapSize, P)
  BY PickedSound DEF P
<1>5. \A q \in 1..Len(s.queue) :
         /\ marked[q] = [s.queue[q] EXCEPT !.favored = q \in P.favoured]
         /\ qv[q] = Redundant(marked[q])
  BY <1>3
<1>6. DOMAIN qv = 1..Len(s.queue)
  BY <1>3
<1>7. \A q \in 1..Len(s.queue) : marked[q] \in Entry
  <2> SUFFICES ASSUME NEW q \in 1..Len(s.queue) PROVE marked[q] \in Entry
    OBVIOUS
  <2>1. s.queue[q] \in Entry /\ (q \in P.favoured) \in BOOLEAN
    BY <1>3
  <2> HIDE DEF marked
  <2> QED
    BY <1>5, <2>1, EntryExcept
<1>8. \A q \in 1..Len(s.queue) :
         /\ SameFields(s.queue[q], marked[q])
         /\ marked[q].disabled = s.queue[q].disabled
         /\ marked[q].favored <=> q \in P.favoured
  <2> SUFFICES ASSUME NEW q \in 1..Len(s.queue)
               PROVE  /\ SameFields(s.queue[q], marked[q])
                      /\ marked[q].disabled = s.queue[q].disabled
                      /\ marked[q].favored <=> q \in P.favoured
    OBVIOUS
  <2> DEFINE e == s.queue[q]
             v == q \in P.favoured
             m == marked[q]
  <2>1. e \in Entry /\ v \in BOOLEAN /\ m = [e EXCEPT !.favored = v]
    BY <1>3, <1>5
  <2> HIDE DEF e, v, m
  <2>2. SameFields(e, m) /\ m.disabled = e.disabled /\ m.favored = v
    BY <2>1 DEF Entry, SameFields
  <2> QED
    BY <2>2 DEF e, v, m
<1> HIDE DEF marked
<1>9. \A q \in 1..Len(s.queue) :
         /\ qv[q] \in Entry
         /\ SameFields(marked[q], qv[q])
         /\ qv[q].favored = marked[q].favored
         /\ marked[q].disabled => qv[q].disabled
         /\ ~DisablesRedundant => qv[q].disabled = marked[q].disabled
  <2> HIDE DEF qv
  <2> QED
    BY <1>5, <1>7, RedundantFields
<1>10. qv \in Seq(Entry) /\ Len(qv) = Len(s.queue)
  <2>1. qv = [q \in 1..Len(s.queue) |-> qv[q]]
    BY <1>6
  <2>2. \A q \in 1..Len(s.queue) : qv[q] \in Entry
    BY <1>9
  <2> HIDE DEF qv
  <2> QED
    BY <1>3, <2>1, <2>2, MapSeq
<1> HIDE DEF qv
<1>11. \A q \in 1..Len(s.queue) : qv[q].favored <=> q \in P.favoured
  BY <1>8, <1>9
<1>12. GoodQueue(c.queue, s.top)
  BY <1>2, <1>3, <1>10 DEF GoodQueue
<1>13. OnlyMarked(s.queue, c.queue)
  BY <1>2, <1>8, <1>9, <1>10 DEF OnlyMarked, SameFields
<1>14. Favs(c.queue) = P.favoured
  BY <1>2, <1>4, <1>10, <1>11 DEF PickedSoFar, Favs
<1>15. Pends(c.queue) = Waits(s, P.favoured)
  BY <1>2, <1>4, <1>8, <1>9, <1>10, <1>11
     DEF PickedSoFar, Pends, Waits, SameFields
<1>16. /\ c.queued = Cardinality(Favs(c.queue))
       /\ c.pending = Cardinality(Pends(c.queue))
       /\ c.smallest \in {None} \cup Pends(c.queue)
  BY <1>2, <1>4, <1>14, <1>15 DEF PickedSoFar
<1>17. \A q \in 1..Len(s.queue) : c.queue[q].favored => \E b \in Bytes : s.top[b] = q
  BY <1>2, <1>4, <1>11 DEF PickedSoFar
<1>18. ASSUME NEW b \in Bytes, s.top[b] # None
       PROVE  \E q \in 1..Len(s.queue) :
                 /\ c.queue[q].favored
                 /\ q = s.top[b] \/ b \in s.queue[q].trace_mini
  <2>1. b <= MapSize
    BY DEF Bytes
  <2>2. s.top[b] \in P.favoured \/ b \notin P.temp_v
    BY <1>4, <1>18, <2>1 DEF PickedSoFar
  <2>3. CASE s.top[b] \in P.favoured
    BY <1>2, <1>4, <1>11, <2>3 DEF PickedSoFar
  <2>4. CASE b \notin P.temp_v
    <3>1. PICK q \in P.favoured : b \in s.queue[q].trace_mini
      BY <1>4, <2>4 DEF PickedSoFar
    <3> QED
      BY <1>2, <1>4, <1>11, <3>1 DEF PickedSoFar
  <2> QED
    BY <2>2, <2>3, <2>4
<1> QED
  BY <1>12, <1>13, <1>16, <1>17, <1>18 DEF c

-----------------------------------------------------------------------------
(* Single entries of a sound score.                                        *)

\* What the target sets are bytes of the map.
LEMMA TraceType ==
  ASSUME traces \in TraceChoices
  PROVE  \A t \in TestCases : traces[t] \in SUBSET Bytes /\ traces[t] # {}
  BY QueueAssumption

\* An entry that keeps its trace, its reference count and its mark replaces
\* another; what is rated well stays so unless a rated entry loses its
\* calibration.
LEMMA ReplaceEntry ==
  ASSUME NEW qu, NEW top, GoodQueue(qu, top), Refs(qu, top),
         NEW q \in 1..Len(qu), NEW e \in Entry,
         e.tc = qu[q].tc, e.favored = qu[q].favored,
         e.tc_ref = qu[q].tc_ref, e.trace_mini = qu[q].trace_mini
  PROVE  LET qv == [qu EXCEPT ![q] = e]
         IN  /\ GoodQueue(qv, top) /\ Refs(qv, top)
             /\ Len(qv) = Len(qu) /\ qv[q] = e
             /\ \A p \in 1..Len(qu) : p # q => qv[p] = qu[p]
             /\ \A changed : RatedWell(qu, top, changed)
                   /\ e.exec_us = qu[q].exec_us
                   /\ (e.cal_failed = 0 \/ \A b \in Bytes : top[b] # q)
                => RatedWell(qv, top, changed)
<1> DEFINE qv == [qu EXCEPT ![q] = e]
<1>1. /\ qu \in Seq(Entry) /\ Len(qu) \in 1..MaxItems
      /\ top \in [Bytes -> {None} \cup 1..Len(qu)]
  BY DEF GoodQueue
<1>2. /\ qv \in Seq(Entry) /\ Len(qv) = Len(qu) /\ qv[q] = e
      /\ \A p \in 1..Len(qu) : p # q => qv[p] = qu[p]
  BY <1>1, ExceptSeq
<1> HIDE DEF qv
<1>3. GoodQueue(qv, top)
  BY <1>1, <1>2 DEF GoodQueue
<1>4. \A p \in 1..Len(qu) : /\ qv[p].tc = qu[p].tc
                            /\ qv[p].favored = qu[p].favored
                            /\ qv[p].tc_ref = qu[p].tc_ref
                            /\ qv[p].trace_mini = qu[p].trace_mini
  BY <1>2
<1>5. Refs(qv, top)
  BY <1>2, <1>4 DEF Refs
<1>6. ASSUME NEW changed, RatedWell(qu, top, changed),
             e.exec_us = qu[q].exec_us,
             e.cal_failed = 0 \/ \A b \in Bytes : top[b] # q
      PROVE  RatedWell(qv, top, changed)
  <2>1. \A p \in 1..Len(qu) : qv[p].exec_us = qu[p].exec_us
    BY <1>2, <1>6
  <2>2. ASSUME NEW b \in Bytes, top[b] # None
        PROVE  qv[top[b]].cal_failed = 0 /\ b \in traces[qv[top[b]].tc]
    <3>1. top[b] \in 1..Len(qu)
      BY <1>1, <2>2
    <3>2. qu[top[b]].cal_failed = 0 /\ b \in traces[qu[top[b]].tc]
      BY <1>6, <2>2 DEF RatedWell
    <3> QED
      BY <1>2, <1>4, <1>6, <3>1, <3>2
  <2>3. \A p \in 1..Len(qu) : qv[p].trace_mini \in {{}, traces[qv[p].tc]}
    BY <1>4, <1>6 DEF RatedWell
  <2>4. \A p \in 1..Len(qu) : qv[p].exec_us > 0 =>
           \A b \in traces[qv[p].tc] : top[b] # None
    BY <1>4, <1>6, <2>1 DEF RatedWell
  <2>5. ~changed => \A b \in Bytes : top[b] # None =>
           \E f \in 1..Len(qu) : qv[f].favored /\ b \in traces[qv[f].tc]
    BY <1>4, <1>6 DEF RatedWell
  <2> QED
    BY <1>2, <2>2, <2>3, <2>4, <2>5 DEF RatedWell
<1> QED
  BY <1>2, <1>3, <1>5, <1>6 DEF qv

\* An entry is rated with its own trace: what is rated well stays so.
LEMMA RateOwnTrace ==
  ASSUME NEW s, GoodQueue(s.queue, s.top), Refs(s.queue, s.top),
         s.changed \in BOOLEAN, traces \in TraceChoices,
         NEW q \in 1..Len(s.queue)
  PROVE  LET u == UpdateBitmapScore(s, q, traces[s.queue[q].tc])
         IN  /\ GoodQueue(u.queue, u.top) /\ Refs(u.queue, u.top)
             /\ u.changed \in BOOLEAN
             /\ OnlyRated(s.queue, u.queue)
             /\ \A b \in Bytes : u.top[b] \in {s.top[b], q}
             /\ /\ s.queue[q].cal_failed = 0
                /\ \A b \in Bytes : s.top[b] # None =>
                      /\ s.queue[s.top[b]].cal_failed = 0
                      /\ b \in traces[s.queue[s.top[b]].tc]
                /\ \A p \in 1..Len(s.queue) :
                      s.queue[p].trace_mini \in {{}, traces[s.queue[p].tc]}
                /\ \A p \in 1..Len(s.queue) :
                      p # q /\ s.queue[p].exec_us > 0 =>
                         \A b \in traces[s.queue[p].tc] : s.top[b] # None
                /\ ~s.changed =>
                      \A b \in Bytes : s.top[b] # None =>
                         \E f \in 1..Len(s.queue) :
                            s.queue[f].favored /\ b \in traces[s.queue[f].tc]
                => RatedWell(u.queue, u.top, u.changed)
<1> DEFINE T == traces[s.queue[q].tc]
           u == UpdateBitmapScore(s, q, T)
           wins == Wins(s, q, T)
<1>1. /\ s.queue \in Seq(Entry) /\ Len(s.queue) \in 1..MaxItems
      /\ \A p \in 1..Len(s.queue) : s.queue[p].tc \in TestCases
      /\ s.top \in [Bytes -> {None} \cup 1..Len(s.queue)]
  <2>1. \A p \in 1..Len(s.queue) : s.queue[p] \in Entry
    BY DEF GoodQueue
  <2>2. \A e \in Entry : e.tc \in TestCases
    BY DEF Entry
  <2> QED
    BY <2>1, <2>2 DEF GoodQueue
<1>2. T \in SUBSET Bytes
  BY <1>1, TraceType
<1> HIDE DEF T
<1>3. RatedTo(s, q, T, wins, u)
  BY <1>2, UpdateScore
<1>4. /\ wins \subseteq T
      /\ \A b \in T : b \notin wins => s.top[b] # None
  BY DEF Wins
<1> HIDE DEF u, wins
<1>5. /\ u.changed \in BOOLEAN
      /\ GoodQueue(u.queue, u.top) /\ Refs(u.queue, u.top)
      /\ OnlyRated(s.queue, u.queue)
  BY <1>3 DEF RatedTo
<1>6. \A b \in Bytes : u.top[b] = IF b \in wins THEN q ELSE s.top[b]
  BY <1>3 DEF TopAfter, RatedTo
<1>7. \A p \in 1..Len(s.queue) :
         /\ u.queue[p].tc = s.queue[p].tc
         /\ u.queue[p].cal_failed = s.queue[p].cal_failed
         /\ u.queue[p].exec_us = s.queue[p].exec_us
         /\ u.queue[p].favored = s.queue[p].favored
  BY <1>5 DEF OnlyRated
<1>8. Len(u.queue) = Len(s.queue) /\ q # None
  BY <1>1, <1>5 DEF OnlyRated, None
<1>9. ASSUME s.queue[q].cal_failed = 0,
             \A b \in Bytes : s.top[b] # None =>
                /\ s.queue[s.top[b]].cal_failed = 0
                /\ b \in traces[s.queue[s.top[b]].tc],
             \A p \in 1..Len(s.queue) :
                s.queue[p].trace_mini \in {{}, traces[s.queue[p].tc]},
             \A p \in 1..Len(s.queue) : p # q /\ s.queue[p].exec_us > 0 =>
                \A b \in traces[s.queue[p].tc] : s.top[b] # None,
             ~s.changed =>
                \A b \in Bytes : s.top[b] # None =>
                   \E f \in 1..Len(s.queue) :
                      s.queue[f].favored /\ b \in traces[s.queue[f].tc]
      PROVE  RatedWell(u.queue, u.top, u.changed)
  <2>1. ASSUME NEW b \in Bytes, u.top[b] # None
        PROVE  u.queue[u.top[b]].cal_failed = 0 /\ b \in traces[u.queue[u.top[b]].tc]
    <3>1. CASE b \in wins
      <4>1. u.top[b] = q /\ b \in T
        BY <1>4, <1>6, <3>1
      <4> QED
        BY <1>7, <1>9, <4>1 DEF T
    <3>2. CASE b \notin wins
      <4>1. u.top[b] = s.top[b] /\ s.top[b] \in 1..Len(s.queue)
        BY <1>1, <1>6, <2>1, <3>2
      <4> QED
        BY <1>7, <1>9, <2>1, <4>1
    <3> QED
      BY <3>1, <3>2
  <2>2. ASSUME NEW p \in 1..Len(s.queue)
        PROVE  u.queue[p].trace_mini \in {{}, traces[u.queue[p].tc]}
    BY <1>3, <1>7, <1>9 DEF T, RatedTo
  <2>3. ASSUME NEW p \in 1..Len(s.queue), u.queue[p].exec_us > 0,
               NEW b \in traces[u.queue[p].tc]
        PROVE  u.top[b] # None
    <3>1. b \in Bytes /\ b \in traces[s.queue[p].tc]
      BY <1>1, <1>7, <2>3, TraceType
    <3>2. CASE p = q
      <4>1. b \in T
        BY <3>1, <3>2 DEF T
      <4> QED
        BY <1>4, <1>6, <1>8, <3>1, <4>1
    <3>3. CASE p # q
      <4>1. s.top[b] # None
        BY <1>7, <1>9, <2>3, <3>1, <3>3
      <4> QED
        BY <1>6, <1>8, <3>1, <4>1
    <3> QED
      BY <3>2, <3>3
  <2>4. ASSUME ~u.changed, NEW b \in Bytes, u.top[b] # None
        PROVE  \E f \in 1..Len(s.queue) :
                  u.queue[f].favored /\ b \in traces[u.queue[f].tc]
    <3>1. u = s
      BY <1>3, <2>4 DEF RatedTo
    <3> QED
      BY <1>9, <2>4, <3>1
  <2> QED
    BY <1>8, <2>1, <2>2, <2>3, <2>4 DEF RatedWell
<1> QED
  BY <1>5, <1>6, <1>9 DEF u, T

\* A new test case joins the queue: nothing is known of it yet.
LEMMA AppendEntry ==
  ASSUME NEW qu, NEW top, GoodQueue(qu, top), Refs(qu, top),
         Len(qu) < MaxItems, NEW l \in Lengths
  PROVE  LET e == NewEntry(Len(qu) + 1, l)
             qv == Append(qu, e)
         IN  /\ GoodQueue(qv, top) /\ Refs(qv, top)
             /\ Len(qv) = Len(qu) + 1 /\ qv[Len(qu) + 1] = e
             /\ \A p \in 1..Len(qu) : qv[p] = qu[p]
             /\ \A b \in Bytes : top[b] # Len(qu) + 1
             /\ \A changed : RatedWell(qu, top, changed)
                                => RatedWell(qv, top, changed)
<1> DEFINE e == NewEntry(Len(qu) + 1, l)
           qv == Append(qu, e)
           n == Len(qu)
<1>1. /\ qu \in Seq(Entry) /\ n \in 1..MaxItems /\ n \in Nat
      /\ top \in [Bytes -> {None} \cup 1..n]
      /\ MaxItems \in Nat
  BY QueueAssumption DEF GoodQueue
<1>2. e \in Entry
  <2>1. n + 1 \in TestCases
    BY <1>1 DEF TestCases
  <2> QED
    BY <2>1, NewEntryType
<1>3. /\ e.tc_ref = 0 /\ e.trace_mini = {} /\ e.exec_us = 0
      /\ e.favored = FALSE
  BY DEF NewEntry
<1> HIDE DEF e
<1>4. /\ qv \in Seq(Entry) /\ Len(qv) = n + 1 /\ qv[n + 1] = e
      /\ \A p \in 1..n : qv[p] = qu[p]
      /\ \A p \in 1..n + 1 : p \in 1..n \/ p = n + 1
  BY <1>1, <1>2
<1> HIDE DEF qv
<1>5. \A b \in Bytes : top[b] # n + 1
  BY <1>1 DEF None
<1>6. GoodQueue(qv, top)
  <2>1. top \in [Bytes -> {None} \cup 1..n + 1]
    BY <1>1
  <2> QED
    BY <1>1, <1>4, <2>1 DEF GoodQueue
<1>7. Refs(qv, top)
  <2>1. Held(top, n + 1) = {}
    BY <1>5 DEF Held
  <2>2. Cardinality(Held(top, n + 1)) = 0
    BY <2>1, FS_EmptySet
  <2>3. /\ qv[n + 1].tc_ref >= Cardinality(Held(top, n + 1))
        /\ (qv[n + 1].tc_ref > 0) <=> (qv[n + 1].trace_mini # {})
    BY <1>3, <1>4, <2>2
  <2>4. ASSUME NEW p \in 1..n
        PROVE  /\ qv[p].tc_ref >= Cardinality(Held(top, p))
               /\ (qv[p].tc_ref > 0) <=> (qv[p].trace_mini # {})
    BY <1>4 DEF Refs
  <2> QED
    BY <1>4, <2>3, <2>4 DEF Refs
<1>8. ASSUME NEW changed, RatedWell(qu, top, changed)
      PROVE  RatedWell(qv, top, changed)
  <2>1. ASSUME NEW b \in Bytes, top[b] # None
        PROVE  qv[top[b]].cal_failed = 0 /\ b \in traces[qv[top[b]].tc]
    <3>1. top[b] \in 1..n
      BY <1>1, <2>1
    <3> QED
      BY <1>4, <1>8, <2>1, <3>1 DEF RatedWell
  <2>2. ASSUME NEW p \in 1..n + 1
        PROVE  qv[p].trace_mini \in {{}, traces[qv[p].tc]}
    BY <1>3, <1>4, <1>8 DEF RatedWell
  <2>3. ASSUME NEW p \in 1..n + 1, qv[p].exec_us > 0
        PROVE  \A b \in traces[qv[p].tc] : top[b] # None
    <3>1. p \in 1..n
      BY <1>3, <1>4, <2>3
    <3> QED
      BY <1>4, <1>8, <2>3, <3>1 DEF RatedWell
  <2>4. ASSUME ~changed, NEW b \in Bytes, top[b] # None
        PROVE  \E f \in 1..n + 1 : qv[f].favored /\ b \in traces[qv[f].tc]
    <3>1. PICK f \in 1..n : qu[f].favored /\ b \in traces[qu[f].tc]
      BY <1>8, <2>4 DEF RatedWell
    <3> QED
      BY <1>1, <1>4, <3>1
  <2> QED
    BY <1>4, <2>1, <2>2, <2>3, <2>4 DEF RatedWell
<1> QED
  BY <1>4, <1>5, <1>6, <1>7, <1>8 DEF qv, e

-----------------------------------------------------------------------------
(* The culled queue.                                                       *)

\* The entry that goes before all others can be counted.
NextWell(qu, pending, smallest) ==
    pending > 0 /\ smallest # None =>
        /\ qu[smallest].favored /\ ~qu[smallest].was_fuzzed
        /\ ~qu[smallest].disabled /\ qu[smallest].cal_failed = 0

\* What cull_queue leaves, whether the score has changed or not.
CulledTo(c) ==
    /\ GoodQueue(c.queue, top_rated) /\ Refs(c.queue, top_rated)
    /\ OnlyMarked(queue, c.queue)
    /\ c.queued = Cardinality(Favs(c.queue))
    /\ c.pending = Cardinality(Pends(c.queue))
    /\ c.smallest \in {None} \cup Ids
    /\ RatedWell(queue, top_rated, score_changed)
          => RatedWell(c.queue, top_rated, FALSE)
    /\ /\ ~DisablesRedundant
       /\ RatedWell(queue, top_rated, score_changed)
       /\ \A q \in Ids : queue[q].disabled => queue[q].was_fuzzed
       /\ NextWell(queue, pending_favored, smallest_favored)
       => NextWell(c.queue, c.pending, c.smallest)

\* What holds of the queue holds of the culled queue, and if it had changed the
\* favoured entries cover what is rated.
LEMMA CulledWell ==
  ASSUME GoodQueue(queue, top_rated), Refs(queue, top_rated),
         score_changed \in BOOLEAN,
         smallest_favored \in {None} \cup Ids,
         queued_favored = Cardinality(Favs(queue)),
         pending_favored = Cardinality(Pends(queue))
  PROVE  CulledTo(Culled(Score))
<1> DEFINE s == Score
           c == Culled(s)
<1>1. s.queue = queue /\ s.top = top_rated /\ s.changed = score_changed
  BY DEF Score
<1> HIDE DEF s, c
<1>2. CASE ~score_changed
  <2>1. c = [queue |-> queue, queued |-> queued_favored,
             pending |-> pending_favored, smallest |-> smallest_favored]
    BY <1>1, <1>2, CulledUnchanged DEF c
  <2>2. /\ c.queue = queue /\ c.queued = queued_favored
        /\ c.pending = pending_favored /\ c.smallest = smallest_favored
    BY <2>1
  <2>3. OnlyMarked(queue, c.queue)
    BY <2>2 DEF OnlyMarked, SameFields
  <2>4. RatedWell(queue, top_rated, score_changed)
           => RatedWell(c.queue, top_rated, FALSE)
    BY <1>2, <2>2 DEF RatedWell
  <2> QED
    BY <2>2, <2>3, <2>4 DEF CulledTo, c, s
<1>3. CASE score_changed
  <2>1. GoodQueue(s.queue, s.top) /\ s.changed
    BY <1>1, <1>3
  <2>2. /\ GoodQueue(c.queue, s.top)
        /\ OnlyMarked(s.queue, c.queue)
        /\ c.queued = Cardinality(Favs(c.queue))
        /\ c.pending = Cardinality(Pends(c.queue))
        /\ c.smallest \in {None} \cup Pends(c.queue)
    BY <2>1, CulledChanged DEF c
  <2>3. /\ GoodQueue(c.queue, top_rated)
        /\ OnlyMarked(queue, c.queue)
    BY <1>1, <2>2
  <2>4. /\ \A q \in Ids : c.queue[q].favored =>
              \E b \in Bytes : top_rated[b] = q
        /\ \A b \in Bytes : top_rated[b] # None =>
              \E q \in Ids : /\ c.queue[q].favored
                             /\ q = top_rated[b] \/ b \in queue[q].trace_mini
    <3>1. \A q \in 1..Len(s.queue) : c.queue[q].favored =>
              \E b \in Bytes : s.top[b] = q
      BY <2>1, CulledChanged DEF c
    <3>2. \A b \in Bytes : s.top[b] # None =>
              \E q \in 1..Len(s.queue) :
                 /\ c.queue[q].favored
                 /\ q = s.top[b] \/ b \in s.queue[q].trace_mini
      BY <2>1, CulledChanged DEF c
    <3> QED
      BY <1>1, <3>1, <3>2 DEF Ids
  <2>5. \A q \in Ids : SameFields(queue[q], c.queue[q])
    BY <2>3 DEF OnlyMarked, Ids
  <2>6. Len(c.queue) = Len(queue) /\ Ids = 1..Len(queue)
    BY <2>3 DEF OnlyMarked, Ids
  <2>7. Refs(c.queue, top_rated)
    BY <2>5, <2>6 DEF Refs, SameFields
  <2>8. top_rated \in [Bytes -> {None} \cup Ids]
    BY <2>6 DEF GoodQueue
  <2>9. ASSUME RatedWell(queue, top_rated, score_changed)
        PROVE  RatedWell(c.queue, top_rated, FALSE)
    <3>1. ASSUME NEW b \in Bytes, top_rated[b] # None
          PROVE  /\ c.queue[top_rated[b]].cal_failed = 0
                 /\ b \in traces[c.queue[top_rated[b]].tc]
      <4>1. top_rated[b] \in Ids
        BY <2>8, <3>1
      <4> QED
        BY <2>5, <2>9, <3>1, <4>1 DEF RatedWell, SameFields
    <3>2. ASSUME NEW q \in Ids
          PROVE  /\ c.queue[q].trace_mini \in {{}, traces[c.queue[q].tc]}
                 /\ c.queue[q].exec_us > 0 =>
                       \A b \in traces[c.queue[q].tc] : top_rated[b] # None
      BY <2>5, <2>6, <2>9 DEF RatedWell, SameFields
    <3>3. ASSUME NEW b \in Bytes, top_rated[b] # None
          PROVE  \E f \in Ids : c.queue[f].favored /\ b \in traces[c.queue[f].tc]
      <4>1. PICK f \in Ids : /\ c.queue[f].favored
                             /\ f = top_rated[b] \/ b \in queue[f].trace_mini
        BY <2>4, <3>3
      <4>2. b \in traces[queue[f].tc]
        BY <2>6, <2>9, <3>3, <4>1 DEF RatedWell
      <4> QED
        BY <2>5, <4>1, <4>2 DEF SameFields
    <3> QED
      BY <2>6, <3>1, <3>2, <3>3 DEF RatedWell
  <2>10. ASSUME ~DisablesRedundant,
                RatedWell(queue, top_rated, score_changed),
                \A q \in Ids : queue[q].disabled => queue[q].was_fuzzed,
                c.smallest # None
         PROVE  /\ c.queue[c.smallest].favored /\ ~c.queue[c.smallest].was_fuzzed
                /\ ~c.queue[c.smallest].disabled
                /\ c.queue[c.smallest].cal_failed = 0
    <3> DEFINE q == c.smallest
    <3>1. q \in Ids /\ c.queue[q].favored /\ ~c.queue[q].was_fuzzed
      BY <2>2, <2>6, <2>10 DEF Pends
    <3>2. c.queue[q].disabled = queue[q].disabled /\ ~queue[q].was_fuzzed
      BY <2>3, <2>5, <2>6, <2>10, <3>1 DEF OnlyMarked, SameFields
    <3>3. PICK b \in Bytes : top_rated[b] = q
      BY <2>4, <3>1
    <3>4. queue[q].cal_failed = 0
      BY <2>10, <3>1, <3>3 DEF RatedWell
    <3> QED
      BY <2>5, <2>10, <3>1, <3>2, <3>4 DEF SameFields
  <2>11. c.smallest \in {None} \cup Ids
    BY <2>2, <2>6 DEF Pends
  <2>12. CulledTo(c)
    BY <2>2, <2>3, <2>7, <2>9, <2>10, <2>11 DEF CulledTo, NextWell
  <2> QED
    BY <2>12 DEF c, s
<1> QED
  BY <1>2, <1>3

-----------------------------------------------------------------------------
(* The invariant, piece by piece.                                          *)

\* What the invariant says of the score, for the lemmas about scores.
LEMMA Sound ==
  ASSUME IInv
  PROVE  /\ GoodQueue(queue, top_rated) /\ Refs(queue, top_rated)
         /\ score_changed \in BOOLEAN
         /\ traces \in TraceChoices /\ options \in OptionChoices
         /\ queue \in Seq(Entry) /\ Len(queue) \in 1..MaxItems
         /\ Ids = 1..Len(queue)
         /\ \A q \in Ids : queue[q] \in Entry
         /\ top_rated \in [Bytes -> {None} \cup Ids]
         /\ Score.queue = queue /\ Score.top = top_rated
         /\ Score.changed = score_changed
<1>1. queue \in Seq(Entry) /\ Len(queue) \in 1..MaxItems
  BY DEF IInv, TypeOK
<1>2. \A q \in Ids : queue[q] \in Entry
  BY <1>1 DEF Ids
<1> QED
  BY <1>1, <1>2 DEF IInv, TypeOK, GoodQueue, Ids, Score

\* What the steps may leave in the variables that are not part of the score.
ControlTypes ==
    /\ traces \in TraceChoices /\ options \in OptionChoices
    /\ stop_soon \in BOOLEAN
    /\ smallest_favored \in {None} \cup Ids
    /\ queue_cur \in {None} \cup Ids
    /\ dry_idx \in 1..Len(queue) + 1
    /\ pc \in {"dry_run", "start", "top", "select", "fuzz_one",
               "trim", "stages", "abandon", "exited", "fatal"}
    /\ resumes \in 0..MaxResumes

\* No set of entries is larger than the queue.
LEMMA CardTypes ==
  ASSUME NEW qu, Len(qu) \in Nat
  PROVE  /\ Cardinality(Active(qu)) \in 0..Len(qu)
         /\ Cardinality(Waiting(qu)) \in 0..Len(qu)
         /\ Cardinality(Favs(qu)) \in 0..Len(qu)
         /\ Cardinality(Pends(qu)) \in 0..Len(qu)
<1>1. /\ Active(qu) \in SUBSET (1..Len(qu))
      /\ Waiting(qu) \in SUBSET (1..Len(qu))
      /\ Favs(qu) \in SUBSET (1..Len(qu))
      /\ Pends(qu) \in SUBSET (1..Len(qu))
  BY DEF Active, Waiting, Favs, Pends
<1> QED
  BY <1>1, Finite

\* Sound scores and counts have the right types.
LEMMA TypesFromParts ==
  ASSUME ControlTypes, GoodQueue(queue, top_rated), Counts(queue),
         score_changed \in BOOLEAN,
         active_items \in Int, pending_not_fuzzed \in Int
  PROVE  TypeOK
<1>1. /\ queue \in Seq(Entry) /\ Len(queue) \in 1..MaxItems
      /\ top_rated \in [Bytes -> {None} \cup Ids]
      /\ Len(queue) \in Nat
  BY DEF GoodQueue, Ids
<1>2. /\ Cardinality(Active(queue)) \in 0..Len(queue)
      /\ Cardinality(Waiting(queue)) \in 0..Len(queue)
      /\ Cardinality(Favs(queue)) \in 0..Len(queue)
      /\ Cardinality(Pends(queue)) \in 0..Len(queue)
  BY <1>1, CardTypes
<1>3. /\ active_items \in 0..Len(queue)
      /\ pending_not_fuzzed \in 0..Len(queue)
  BY <1>1, <1>2 DEF Counts
<1>4. /\ queued_favored \in 0..Len(queue)
      /\ pending_favored \in 0..Len(queue)
  BY <1>2 DEF Counts
<1> QED
  BY <1>1, <1>3, <1>4 DEF TypeOK, ControlTypes

\* The same after a step.
LEMMA TypesAfter ==
  ASSUME ControlTypes', GoodQueue(queue', top_rated'), Counts(queue)',
         score_changed' \in BOOLEAN,
         active_items' \in Int, pending_not_fuzzed' \in Int
  PROVE  TypeOK'
<1>1. /\ queue' \in Seq(Entry) /\ Len(queue') \in 1..MaxItems
      /\ top_rated' \in [Bytes -> {None} \cup Ids']
      /\ Len(queue') \in Nat
  BY DEF GoodQueue, Ids
<1>2. /\ Cardinality(Active(queue')) \in 0..Len(queue')
      /\ Cardinality(Waiting(queue')) \in 0..Len(queue')
      /\ Cardinality(Favs(queue')) \in 0..Len(queue')
      /\ Cardinality(Pends(queue')) \in 0..Len(queue')
  BY <1>1, CardTypes
<1>3. /\ active_items' \in 0..Len(queue')
      /\ pending_not_fuzzed' \in 0..Len(queue')
  BY <1>1, <1>2 DEF Counts
<1>4. /\ queued_favored' \in 0..Len(queue')
      /\ pending_favored' \in 0..Len(queue')
  BY <1>2 DEF Counts
<1> QED
  BY <1>1, <1>3, <1>4 DEF TypeOK, ControlTypes

\* The counts are right after a step that changes no mark and no counter.
LEMMA CountsStay ==
  ASSUME Counts(queue), SameMarks(queue, queue'), pc # "exited",
         UNCHANGED <<countVars, favVars, options>>
  PROVE  Counts(queue)'
<1>1. /\ Active(queue') = Active(queue) /\ Waiting(queue') = Waiting(queue)
      /\ Favs(queue') = Favs(queue) /\ Pends(queue') = Pends(queue)
  BY SameSets
<1>2. Len(queue') = Len(queue)
  BY DEF SameMarks
<1> QED
  BY <1>1, <1>2 DEF Counts, countVars, favVars, DisablesRedundant

\* A step that leaves queue, score and counters alone.
LEMMA QuietStep ==
  ASSUME IInv, pc # "exited",
         UNCHANGED <<envVars, favVars, countVars, queue, top_rated,
                     score_changed, dry_idx>>,
         pc' \in {"dry_run", "start", "top", "select", "fuzz_one",
                  "trim", "stages", "abandon", "fatal"},
         stop_soon' \in BOOLEAN, queue_cur' \in {None} \cup Ids,
         pc' = "dry_run" => pc = "dry_run",
         pc' \in {"fuzz_one", "trim", "stages", "abandon"} =>
            queue_cur' \in Ids /\ queue[queue_cur'].fuzz_level < MaxLevel,
         pc' = "trim" => queue[queue_cur'].cal_failed = 0
  PROVE  IInv'
<1>1. /\ queue' = queue /\ top_rated' = top_rated
      /\ score_changed' = score_changed /\ dry_idx' = dry_idx
      /\ traces' = traces /\ options' = options /\ resumes' = resumes
      /\ queued_favored' = queued_favored /\ pending_favored' = pending_favored
      /\ smallest_favored' = smallest_favored
      /\ pending_not_fuzzed' = pending_not_fuzzed /\ active_items' = active_items
  BY DEF envVars, favVars, countVars
<1>2. Ids' = Ids
  BY <1>1 DEF Ids
<1>3. TypeOK'
  BY <1>1, <1>2 DEF IInv, TypeOK
<1>4. Refs(queue, top_rated)'
  BY <1>1 DEF IInv, Refs
<1>5. Counts(queue)'
  BY <1>1 DEF IInv, Counts, DisablesRedundant
<1>6. Control'
  BY <1>1, <1>2 DEF IInv, Control, Cur, DisablesRedundant
<1>7. NextCanBeCounted'
  BY <1>1 DEF IInv, NextCanBeCounted, FirstSession, DisablesRedundant,
              CyclesSchedules
<1>8. Rated'
  <2>1. Rated
    BY DEF IInv
  <2> QED
    BY <1>1, <2>1 DEF Rated, RatedWell, FirstSession, CyclesSchedules
<1> QED
  BY <1>3, <1>4, <1>5, <1>6, <1>7, <1>8 DEF IInv

\* The invariant holds at the start.
LEMMA InitIInv == Init => IInv
<1> SUFFICES ASSUME Init PROVE IInv
  OBVIOUS
<1>0. /\ traces \in TraceChoices /\ options \in OptionChoices
      /\ top_rated = [b \in Bytes |-> None]
      /\ score_changed = FALSE /\ stop_soon = FALSE
      /\ queued_favored = 0 /\ pending_favored = 0 /\ smallest_favored = 1
      /\ queue_cur = None /\ dry_idx = 1 /\ pc = "dry_run" /\ resumes = 0
  BY DEF Init
<1>a. PICK n \in 1..MaxSeeds : \E l \in [1..n -> Lengths] :
         /\ queue = [i \in 1..n |-> NewEntry(i, l[i])]
         /\ pending_not_fuzzed = n
         /\ active_items = n
  BY DEF Init
<1>1. PICK l \in [1..n -> Lengths] :
         /\ queue = [i \in 1..n |-> NewEntry(i, l[i])]
         /\ pending_not_fuzzed = n
         /\ active_items = n
  BY <1>a
<1>2. n \in Nat /\ n >= 1 /\ n <= MaxItems
  BY QueueAssumption
<1>3. \A i \in 1..n : NewEntry(i, l[i]) \in Entry
  <2> SUFFICES ASSUME NEW i \in 1..n PROVE NewEntry(i, l[i]) \in Entry
    OBVIOUS
  <2>1. i \in TestCases /\ l[i] \in Lengths
    BY <1>2, QueueAssumption DEF TestCases
  <2> QED
    BY <2>1, NewEntryType
<1>4. /\ queue \in Seq(Entry) /\ Len(queue) = n /\ Ids = 1..n
      /\ \A i \in 1..n : queue[i] = NewEntry(i, l[i])
  BY <1>1, <1>2, <1>3 DEF Ids
<1>5. \A i \in 1..n : /\ queue[i].tc_ref = 0 /\ queue[i].trace_mini = {}
                      /\ queue[i].exec_us = 0 /\ queue[i].cal_failed = 0
                      /\ ~queue[i].disabled /\ ~queue[i].was_fuzzed
                      /\ ~queue[i].favored
  BY <1>4 DEF NewEntry
<1>6. GoodQueue(queue, top_rated)
  BY <1>0, <1>2, <1>4, QueueAssumption DEF GoodQueue
<1>7. Refs(queue, top_rated)
  <2>1. \A i \in 1..n : Held(top_rated, i) = {}
    BY <1>0 DEF Held, None
  <2>2. \A i \in 1..n : Cardinality(Held(top_rated, i)) = 0
    BY <2>1, FS_EmptySet
  <2> QED
    BY <1>4, <1>5, <2>2 DEF Refs
<1>8. Counts(queue)
  <2>1. /\ Active(queue) = 1..n /\ Waiting(queue) = 1..n
        /\ Favs(queue) = {} /\ Pends(queue) = {}
    BY <1>4, <1>5 DEF Active, Waiting, Favs, Pends
  <2>2. Cardinality(1..n) = n /\ Cardinality({}) = 0
    <3>1. IsFiniteSet(1..n)
          /\ Cardinality(1..n) = IF 1 > n THEN 0 ELSE n - 1 + 1
      BY <1>2, FS_Interval
    <3>2. Cardinality({}) = 0
      BY FS_EmptySet
    <3> QED
      BY <1>2, <3>1, <3>2
  <2>3. active_items = n /\ pending_not_fuzzed = n /\ Len(queue) = n
    BY <1>1, <1>4
  <2>4. /\ Cardinality(Active(queue)) = n /\ Cardinality(Waiting(queue)) = n
        /\ Cardinality(Favs(queue)) = 0 /\ Cardinality(Pends(queue)) = 0
    BY <2>1, <2>2
  <2>5. n >= n /\ n <= n
    BY <1>2
  <2> QED
    BY <1>0, <2>3, <2>4, <2>5 DEF Counts
<1>9. ControlTypes
  <2>1. 1 \in Ids /\ 1 \in 1..Len(queue) + 1
    BY <1>2, <1>4
  <2>2. 0 \in 0..MaxResumes
    BY QueueAssumption
  <2> QED
    BY <1>0, <2>1, <2>2 DEF ControlTypes
<1>10. TypeOK
  <2>1. active_items \in Int /\ pending_not_fuzzed \in Int
    BY <1>1, <1>2
  <2>2. score_changed \in BOOLEAN
    BY <1>0
  <2> QED
    BY <1>6, <1>8, <1>9, <2>1, <2>2, TypesFromParts
<1>11. Control
  BY <1>0, <1>2, <1>4, <1>5 DEF Control, None
<1>12. NextCanBeCounted
  BY <1>0 DEF NextCanBeCounted
<1>13. Rated
  BY <1>0, <1>4, <1>5 DEF Rated, RatedWell
<1> QED
  BY <1>7, <1>8, <1>10, <1>11, <1>12, <1>13 DEF IInv

-----------------------------------------------------------------------------
(* The steps that leave the queue and the score alone.                     *)

\* What the invariant says of the place the main thread is at.
LEMMA ControlFacts ==
  ASSUME IInv
  PROVE  /\ stop_soon \in BOOLEAN /\ queue_cur \in {None} \cup Ids
         /\ smallest_favored \in {None} \cup Ids
         /\ pc \in {"dry_run", "start", "top", "select", "fuzz_one",
                    "trim", "stages", "abandon", "exited", "fatal"}
         /\ pc \in {"fuzz_one", "trim", "stages", "abandon"} =>
               queue_cur \in Ids /\ queue[queue_cur].fuzz_level < MaxLevel
         /\ pc = "trim" => queue[queue_cur].cal_failed = 0
  BY DEF IInv, TypeOK, Control, Cur

\* A fatal seed ends the program and changes nothing else.
LEMMA DryRunFatalIInv == IInv /\ DryRunFatal => IInv'
<1> SUFFICES ASSUME IInv, DryRunFatal PROVE IInv'
  OBVIOUS
<1>1. /\ stop_soon \in BOOLEAN /\ queue_cur \in {None} \cup Ids
  BY ControlFacts
<1>2. /\ UNCHANGED <<envVars, favVars, countVars, queue, top_rated,
                     score_changed, queue_cur, dry_idx, stop_soon>>
      /\ pc = "dry_run" /\ pc' = "fatal"
  BY DEF DryRunFatal
<1> QED
  BY <1>1, <1>2, QuietStep

\* The entry that is drawn, pending favourite or not, is one of the queue.
LEMMA SelectIInv == IInv /\ Select => IInv'
<1> SUFFICES ASSUME IInv, Select PROVE IInv'
  OBVIOUS
<1>1. /\ stop_soon \in BOOLEAN /\ smallest_favored \in {None} \cup Ids
  BY ControlFacts
<1>2. PICK q \in Candidates : queue[q].fuzz_level < MaxLevel /\ queue_cur' = q
  BY DEF Select
<1>3. q \in Ids
  BY <1>1, <1>2 DEF Candidates, Drawable
<1>4. /\ UNCHANGED <<envVars, favVars, countVars, queue, top_rated,
                     score_changed, dry_idx, stop_soon>>
      /\ pc = "select" /\ pc' = "fuzz_one"
  BY DEF Select
<1> QED
  BY <1>1, <1>2, <1>3, <1>4, QuietStep

\* The steps between fuzz_one and its stages that change nothing.
LEMMA FuzzOneQuiet ==
  ASSUME IInv,
         UNCHANGED <<envVars, favVars, countVars, queue, top_rated,
                     score_changed, queue_cur, dry_idx, stop_soon>>,
         pc \in {"fuzz_one", "trim"},
         pc' \in {"top", "select", "trim", "stages", "abandon"},
         pc' = "trim" => Cur.cal_failed = 0
  PROVE  IInv'
<1>1. /\ stop_soon \in BOOLEAN /\ queue_cur \in {None} \cup Ids
      /\ queue_cur \in Ids /\ queue[queue_cur].fuzz_level < MaxLevel
  BY ControlFacts
<1>2. pc' = "trim" => queue[queue_cur].cal_failed = 0
  BY DEF Cur
<1> QED
  BY <1>1, <1>2, QuietStep

\* A skipped entry leaves no trace.
LEMMA SkipIInv == IInv /\ Skip => IInv'
  BY FuzzOneQuiet DEF Skip, AfterSkip

\* Only a calibrated entry gets as far as trimming.
LEMMA NeedsNoCalibrationIInv == IInv /\ NeedsNoCalibration => IInv'
  BY FuzzOneQuiet DEF NeedsNoCalibration

\* An entry that cannot be calibrated is abandoned as it is.
LEMMA NoChancesLeftIInv == IInv /\ NoChancesLeft => IInv'
  BY FuzzOneQuiet DEF NoChancesLeft

\* An entry that has been trimmed goes straight to the stages.
LEMMA NoTrimIInv == IInv /\ NoTrim => IInv'
  BY FuzzOneQuiet DEF NoTrim

\* The stop signal only sets stop_soon.
LEMMA StopIInv == IInv /\ Stop => IInv'
<1> SUFFICES ASSUME IInv, Stop PROVE IInv'
  OBVIOUS
<1>1. UNCHANGED <<envVars, favVars, countVars, queue, top_rated,
                  score_changed, queue_cur, dry_idx, pc>>
      /\ pc \notin {"exited", "fatal"} /\ stop_soon' = TRUE
  BY DEF Stop
<1>2. /\ queue_cur \in {None} \cup Ids
      /\ pc \in {"dry_run", "start", "top", "select", "fuzz_one",
                 "trim", "stages", "abandon", "exited", "fatal"}
      /\ pc \in {"fuzz_one", "trim", "stages", "abandon"} =>
            queue_cur \in Ids /\ queue[queue_cur].fuzz_level < MaxLevel
      /\ pc = "trim" => queue[queue_cur].cal_failed = 0
  BY ControlFacts
<1> QED
  BY <1>1, <1>2, QuietStep

-----------------------------------------------------------------------------
(* The steps that calibrate, rate or trim one entry.                       *)

\* The entry that goes before all others stays one that can be counted.
CalibrationKept(qu, qv) ==
    \A q \in 1..Len(qu) :
        /\ qv[q].fuzz_level = qu[q].fuzz_level
        /\ qu[q].cal_failed = 0 /\ qu[q].favored => qv[q].cal_failed = 0

\* A step of the dry run does nothing to the seeds that come later.
DryRunGoesOn(qu, qv, top, idx) ==
    /\ \A q \in idx..Len(qu) : qv[q].cal_failed = 0
    /\ \A b \in Bytes : top[b] < idx

\* A step that changes no marks.
LEMMA ScoreStep ==
  ASSUME IInv, pc # "exited",
         UNCHANGED <<envVars, favVars, countVars, queue_cur, stop_soon>>,
         GoodQueue(queue', top_rated'), Refs(queue', top_rated'),
         score_changed' \in BOOLEAN,
         SameMarks(queue, queue'), CalibrationKept(queue, queue'),
         FirstSession /\ ~CyclesSchedules
            => RatedWell(queue', top_rated', score_changed'),
         dry_idx' \in dry_idx..Len(queue) + 1,
         pc' \in {"dry_run", "start", "trim", "stages", "abandon"},
         pc' = "dry_run" => /\ pc = "dry_run"
                            /\ DryRunGoesOn(queue, queue', top_rated', dry_idx'),
         pc' \in {"trim", "stages", "abandon"} => pc \in {"fuzz_one", "trim"},
         pc' = "trim" => queue'[queue_cur].cal_failed = 0
  PROVE  IInv'
<1>1. /\ traces' = traces /\ options' = options /\ resumes' = resumes
      /\ queued_favored' = queued_favored /\ pending_favored' = pending_favored
      /\ smallest_favored' = smallest_favored
      /\ pending_not_fuzzed' = pending_not_fuzzed /\ active_items' = active_items
      /\ queue_cur' = queue_cur /\ stop_soon' = stop_soon
  BY DEF envVars, favVars, countVars
<1>2. Len(queue') = Len(queue) /\ Ids' = Ids /\ Ids = 1..Len(queue)
  BY DEF Ids, SameMarks
<1>3. Counts(queue)'
  <2>1. Counts(queue)
    BY DEF IInv
  <2>2. UNCHANGED <<countVars, favVars, options>>
    BY <1>1 DEF countVars, favVars
  <2> QED
    BY <2>1, <2>2, CountsStay
<1>4. TypeOK'
  <2>0. TypeOK
    BY DEF IInv
  <2>1. dry_idx' \in 1..Len(queue') + 1
    <3>1. dry_idx \in 1..Len(queue) + 1 /\ Len(queue) \in Nat
      BY <2>0 DEF TypeOK
    <3> QED
      BY <1>2, <3>1
  <2>2. ControlTypes'
    BY <1>1, <1>2, <2>0, <2>1 DEF TypeOK, ControlTypes
  <2>3. active_items' \in Int /\ pending_not_fuzzed' \in Int
    BY <1>1, <2>0 DEF TypeOK
  <2> QED
    BY <1>3, <2>2, <2>3, TypesAfter
<1>5. Control'
  <2>0. Control
    BY DEF IInv
  <2>1. \A q \in Ids : /\ queue'[q].disabled = queue[q].disabled
                       /\ queue'[q].was_fuzzed = queue[q].was_fuzzed
                       /\ queue'[q].favored = queue[q].favored
                       /\ queue'[q].fuzz_level = queue[q].fuzz_level
    BY <1>2 DEF SameMarks, CalibrationKept
  <2>2. ASSUME pc' = "dry_run"
        PROVE  /\ resumes' = 0
               /\ \A q \in Ids' : /\ ~queue'[q].favored
                                  /\ queue'[q].was_fuzzed <=> queue'[q].disabled
               /\ \A q \in dry_idx'..Len(queue') :
                     queue'[q].cal_failed = 0 /\ ~queue'[q].disabled
               /\ \A b \in Bytes : top_rated'[b] < dry_idx'
    <3>1. /\ pc = "dry_run"
          /\ DryRunGoesOn(queue, queue', top_rated', dry_idx')
      BY <2>2
    <3>2. /\ resumes = 0
          /\ \A q \in Ids : /\ ~queue[q].favored
                            /\ queue[q].was_fuzzed <=> queue[q].disabled
          /\ \A q \in dry_idx..Len(queue) : ~queue[q].disabled
      BY <2>0, <3>1 DEF Control
    <3>3. \A q \in dry_idx'..Len(queue) : q \in dry_idx..Len(queue) /\ q \in Ids
      <4>1. dry_idx \in 1..Len(queue) + 1 /\ Len(queue) \in Nat
        BY DEF IInv, TypeOK
      <4> QED
        BY <1>2, <4>1
    <3> QED
      BY <1>1, <1>2, <2>1, <3>1, <3>2, <3>3 DEF DryRunGoesOn
  <2>3. pc' \in {"fuzz_one", "trim", "stages", "abandon"} =>
           queue_cur' \in Ids' /\ queue'[queue_cur'].fuzz_level < MaxLevel
    BY <1>1, <1>2, <2>1, ControlFacts
  <2>4. pc' = "trim" => queue'[queue_cur'].cal_failed = 0
    BY <1>1
  <2>5. ~DisablesRedundant' =>
           \A q \in Ids' : queue'[q].disabled => queue'[q].was_fuzzed
    <3>1. ~DisablesRedundant =>
             \A q \in Ids : queue[q].disabled => queue[q].was_fuzzed
      BY <2>0 DEF Control
    <3> QED
      BY <1>1, <1>2, <2>1, <3>1 DEF DisablesRedundant
  <2> QED
    BY <2>2, <2>3, <2>4, <2>5 DEF Control, Cur
<1>6. NextCanBeCounted'
  <2>1. smallest_favored \in {None} \cup Ids /\ NextCanBeCounted
    BY ControlFacts DEF IInv
  <2>2. ASSUME FirstSession', ~DisablesRedundant', ~CyclesSchedules',
               pending_favored' > 0, smallest_favored' # None
        PROVE  /\ queue'[smallest_favored].favored
               /\ ~queue'[smallest_favored].was_fuzzed
               /\ ~queue'[smallest_favored].disabled
               /\ queue'[smallest_favored].cal_failed = 0
    <3>1. /\ FirstSession /\ ~DisablesRedundant /\ ~CyclesSchedules
          /\ pending_favored > 0 /\ smallest_favored # None
      BY <1>1, <2>2 DEF FirstSession, DisablesRedundant, CyclesSchedules
    <3>2. /\ queue[smallest_favored].favored
          /\ ~queue[smallest_favored].was_fuzzed
          /\ ~queue[smallest_favored].disabled
          /\ queue[smallest_favored].cal_failed = 0
          /\ smallest_favored \in 1..Len(queue)
      BY <1>2, <2>1, <3>1 DEF NextCanBeCounted
    <3> QED
      BY <3>2 DEF SameMarks, CalibrationKept
  <2> QED
    BY <1>1, <2>2 DEF NextCanBeCounted
<1>7. Rated'
  BY <1>1 DEF Rated, FirstSession, CyclesSchedules, RatedWell
<1> QED
  BY <1>3, <1>4, <1>5, <1>6, <1>7 DEF IInv

\* Entries that differ in what calibrate_case and trim_case write.
SameButMeasured(e, f) ==
    /\ f.tc = e.tc /\ f.favored = e.favored /\ f.disabled = e.disabled
    /\ f.was_fuzzed = e.was_fuzzed /\ f.fuzz_level = e.fuzz_level
    /\ f.tc_ref = e.tc_ref /\ f.trace_mini = e.trace_mini

\* The score after entry q has been measured and rated with its own trace.
RatedAnew(q, u) ==
    /\ GoodQueue(u.queue, u.top) /\ Refs(u.queue, u.top)
    /\ u.changed \in BOOLEAN
    /\ SameMarks(queue, u.queue) /\ CalibrationKept(queue, u.queue)
    /\ u.queue[q].cal_failed = 0
    /\ \A p \in Ids : p # q => u.queue[p].cal_failed = queue[p].cal_failed
    /\ \A b \in Bytes : u.top[b] \in {top_rated[b], q}
    /\ FirstSession /\ ~CyclesSchedules /\ pc # "exited"
          => RatedWell(u.queue, u.top, u.changed)

\* A sound score in which entry q is replaced by its measured self e and
\* rated: this is a calibration as well as a trim.
LEMMA MeasuredAndRated ==
  ASSUME IInv, NEW q \in Ids, NEW e \in Entry, SameButMeasured(queue[q], e),
         e.cal_failed = 0,
         NEW s, s.queue = [queue EXCEPT ![q] = e], s.top = top_rated,
         s.changed = score_changed
  PROVE  RatedAnew(q, UpdateBitmapScore(s, q, traces[queue[q].tc]))
<1> DEFINE u == UpdateBitmapScore(s, q, traces[queue[q].tc])
<1>1. /\ GoodQueue(queue, top_rated) /\ Refs(queue, top_rated)
      /\ score_changed \in BOOLEAN /\ traces \in TraceChoices
      /\ Ids = 1..Len(queue)
  BY Sound
<1>2. /\ GoodQueue(s.queue, s.top) /\ Refs(s.queue, s.top)
      /\ Len(s.queue) = Len(queue) /\ s.queue[q] = e
      /\ \A p \in 1..Len(queue) : p # q => s.queue[p] = queue[p]
  <2>1. q \in 1..Len(queue)
    BY <1>1
  <2>2. /\ e.tc = queue[q].tc /\ e.favored = queue[q].favored
        /\ e.tc_ref = queue[q].tc_ref /\ e.trace_mini = queue[q].trace_mini
    BY DEF SameButMeasured
  <2> DEFINE qv == [queue EXCEPT ![q] = e]
  <2>3. /\ GoodQueue(qv, top_rated) /\ Refs(qv, top_rated)
        /\ Len(qv) = Len(queue) /\ qv[q] = e
        /\ \A p \in 1..Len(queue) : p # q => qv[p] = queue[p]
    BY <1>1, <2>1, <2>2, ReplaceEntry
  <2> QED
    BY <2>3
<1>3. s.changed \in BOOLEAN /\ q \in 1..Len(s.queue) /\ s.queue[q].tc = queue[q].tc
  BY <1>1, <1>2 DEF SameButMeasured
<1>4. /\ GoodQueue(u.queue, u.top) /\ Refs(u.queue, u.top)
      /\ u.changed \in BOOLEAN
      /\ OnlyRated(s.queue, u.queue)
      /\ \A b \in Bytes : u.top[b] \in {s.top[b], q}
  BY <1>1, <1>2, <1>3, RateOwnTrace
<1>5. ASSUME FirstSession, ~CyclesSchedules, pc # "exited"
      PROVE  RatedWell(u.queue, u.top, u.changed)
  <2>1. RatedWell(queue, top_rated, score_changed)
    BY <1>5 DEF IInv, Rated
  <2>0. \A b \in Bytes : top_rated[b] # None => top_rated[b] \in 1..Len(queue)
    BY <1>1 DEF GoodQueue
  <2>2. \A p \in 1..Len(queue) : /\ s.queue[p].tc = queue[p].tc
                                 /\ s.queue[p].trace_mini = queue[p].trace_mini
                                 /\ s.queue[p].favored = queue[p].favored
    BY <1>2 DEF SameButMeasured
  <2>3. \A b \in Bytes : s.top[b] # None =>
           /\ s.queue[s.top[b]].cal_failed = 0
           /\ b \in traces[s.queue[s.top[b]].tc]
    BY <1>2, <2>0, <2>1, <2>2 DEF RatedWell
  <2>4. \A p \in 1..Len(s.queue) :
           s.queue[p].trace_mini \in {{}, traces[s.queue[p].tc]}
    BY <1>2, <2>1, <2>2 DEF RatedWell
  <2>5. \A p \in 1..Len(s.queue) :
           p # q /\ s.queue[p].exec_us > 0 =>
              \A b \in traces[s.queue[p].tc] : s.top[b] # None
    BY <1>2, <2>1 DEF RatedWell
  <2>6. ~s.changed =>
           \A b \in Bytes : s.top[b] # None =>
              \E f \in 1..Len(s.queue) :
                 s.queue[f].favored /\ b \in traces[s.queue[f].tc]
    BY <1>2, <2>1, <2>2 DEF RatedWell
  <2>7. s.queue[q].cal_failed = 0
    BY <1>2
  <2> QED
    BY <1>1, <1>2, <1>3, <2>3, <2>4, <2>5, <2>6, <2>7, RateOwnTrace
<1>6. \A p \in 1..Len(queue) :
         /\ u.queue[p].cal_failed = s.queue[p].cal_failed
         /\ u.queue[p].was_fuzzed = queue[p].was_fuzzed
         /\ u.queue[p].disabled = queue[p].disabled
         /\ u.queue[p].favored = queue[p].favored
         /\ u.queue[p].fuzz_level = queue[p].fuzz_level
  <2>1. \A p \in 1..Len(queue) : /\ s.queue[p].was_fuzzed = queue[p].was_fuzzed
                                 /\ s.queue[p].disabled = queue[p].disabled
                                 /\ s.queue[p].favored = queue[p].favored
                                 /\ s.queue[p].fuzz_level = queue[p].fuzz_level
    BY <1>2 DEF SameButMeasured
  <2>2. \A p \in 1..Len(queue) :
           /\ u.queue[p].cal_failed = s.queue[p].cal_failed
           /\ u.queue[p].was_fuzzed = s.queue[p].was_fuzzed
           /\ u.queue[p].disabled = s.queue[p].disabled
           /\ u.queue[p].favored = s.queue[p].favored
           /\ u.queue[p].fuzz_level = s.queue[p].fuzz_level
    <3> HIDE DEF u
    <3> QED
      BY <1>2, <1>4 DEF OnlyRated
  <2> HIDE DEF u
  <2> QED
    BY <2>1, <2>2
<1>7. Len(u.queue) = Len(queue)
  BY <1>2, <1>4 DEF OnlyRated
<1>8. SameMarks(queue, u.queue)
  BY <1>6, <1>7 DEF SameMarks
<1>9. /\ u.queue[q].cal_failed = 0
      /\ \A p \in Ids : p # q => u.queue[p].cal_failed = queue[p].cal_failed
  BY <1>1, <1>2, <1>6
<1>10. CalibrationKept(queue, u.queue)
  BY <1>1, <1>6, <1>9 DEF CalibrationKept
<1> HIDE DEF u
<1>11. RatedAnew(q, u)
  BY <1>4, <1>5, <1>8, <1>9, <1>10 DEF RatedAnew
<1> QED
  BY <1>11 DEF u

\* A calibration that succeeds.
LEMMA CalibratedWell ==
  ASSUME IInv, NEW q \in Ids, NEW us \in Times
  PROVE  RatedAnew(q, Calibrated(Score, q, us))
<1> DEFINE e == [queue[q] EXCEPT !.exec_us = us, !.cal_failed = 0]
           s == [Score EXCEPT !.queue[q].exec_us = us, !.queue[q].cal_failed = 0]
<1>1. queue[q] \in Entry /\ queue \in Seq(Entry) /\ Ids = 1..Len(queue)
  BY Sound
<1>2. e \in Entry
  BY <1>1, EntryCalibrated
<1>3. e.cal_failed = 0 /\ SameButMeasured(queue[q], e)
  BY <1>1 DEF Entry, SameButMeasured
<1>4. /\ s.queue = [queue EXCEPT ![q] = e] /\ s.top = top_rated
      /\ s.changed = score_changed
  BY <1>1 DEF Score
<1> HIDE DEF e
<1>5. RatedAnew(q, UpdateBitmapScore(s, q, traces[queue[q].tc]))
  <2> HIDE DEF s
  <2> QED
    BY <1>2, <1>3, <1>4, MeasuredAndRated
<1>6. Score.queue[q].tc = queue[q].tc
  BY DEF Score
<1> QED
  BY <1>5, <1>6 DEF Calibrated

\* A calibration that fails.
FailedTo(q, s) ==
    /\ s.top = top_rated /\ s.changed = score_changed
    /\ GoodQueue(s.queue, top_rated) /\ Refs(s.queue, top_rated)
    /\ SameMarks(queue, s.queue)
    /\ \A p \in Ids : s.queue[p].fuzz_level = queue[p].fuzz_level
    /\ \A p \in Ids : p # q => s.queue[p].cal_failed = queue[p].cal_failed
    /\ s.queue[q].cal_failed # 0
    /\ \A changed : /\ RatedWell(queue, top_rated, changed)
                    /\ \A b \in Bytes : top_rated[b] # q
                    => RatedWell(s.queue, top_rated, changed)

\* calibrate_case has incremented cal_failed and left the score alone.
LEMMA CalFailedWell ==
  ASSUME IInv, NEW q \in Ids, queue[q].cal_failed < CAL_CHANCES
  PROVE  FailedTo(q, CalFailed(Score, q))
<1> DEFINE e == [queue[q] EXCEPT !.cal_failed = @ + 1]
           s == CalFailed(Score, q)
           qv == [queue EXCEPT ![q] = e]
<1>1. /\ queue[q] \in Entry /\ queue \in Seq(Entry) /\ Ids = 1..Len(queue)
      /\ GoodQueue(queue, top_rated) /\ Refs(queue, top_rated)
  BY Sound
<1>2. e \in Entry
  BY <1>1, EntryFailed
<1>3. /\ e.cal_failed # 0 /\ e.exec_us = queue[q].exec_us
      /\ SameButMeasured(queue[q], e)
  BY <1>1 DEF Entry, SameButMeasured
<1>4. /\ s.queue = qv /\ s.top = top_rated /\ s.changed = score_changed
  BY <1>1 DEF Score, CalFailed
<1> HIDE DEF e, s
<1>a. q \in 1..Len(queue)
  BY <1>1
<1>b. /\ e.tc = queue[q].tc /\ e.favored = queue[q].favored
      /\ e.tc_ref = queue[q].tc_ref /\ e.trace_mini = queue[q].trace_mini
  BY <1>3 DEF SameButMeasured
<1>5. /\ GoodQueue(qv, top_rated) /\ Refs(qv, top_rated)
      /\ Len(qv) = Len(queue) /\ qv[q] = e
      /\ \A p \in 1..Len(queue) : p # q => qv[p] = queue[p]
  BY <1>1, <1>2, <1>a, <1>b, ReplaceEntry
<1>6. ASSUME NEW changed, RatedWell(queue, top_rated, changed),
             \A b \in Bytes : top_rated[b] # q
      PROVE  RatedWell(qv, top_rated, changed)
  BY <1>1, <1>2, <1>3, <1>a, <1>b, <1>6, ReplaceEntry
<1> HIDE DEF qv
<1>7. \A p \in Ids : /\ qv[p].fuzz_level = queue[p].fuzz_level
                     /\ qv[p].disabled = queue[p].disabled
                     /\ qv[p].was_fuzzed = queue[p].was_fuzzed
                     /\ qv[p].favored = queue[p].favored
  BY <1>1, <1>3, <1>5 DEF SameButMeasured
<1>8. SameMarks(queue, qv)
  BY <1>1, <1>5, <1>7 DEF SameMarks
<1>9. /\ qv[q].cal_failed # 0
      /\ \A p \in Ids : p # q => qv[p].cal_failed = queue[p].cal_failed
  BY <1>1, <1>3, <1>5
<1>10. FailedTo(q, s)
  BY <1>4, <1>5, <1>6, <1>7, <1>8, <1>9 DEF FailedTo
<1> QED
  BY <1>10 DEF s

\* A score that has been rated anew is one that ScoreStep can take.
LEMMA RatedStep ==
  ASSUME IInv, pc # "exited", NEW q \in Ids, NEW u, RatedAnew(q, u), SetScore(u),
         UNCHANGED <<envVars, favVars, countVars, queue_cur, stop_soon>>,
         dry_idx' \in dry_idx..Len(queue) + 1,
         pc' \in {"dry_run", "trim", "stages", "abandon"},
         pc' = "dry_run" => pc = "dry_run" /\ q = dry_idx /\ dry_idx' = q + 1,
         pc' \in {"trim", "stages", "abandon"} =>
            pc \in {"fuzz_one", "trim"} /\ q = queue_cur
  PROVE  IInv'
<1>1. /\ queue' = u.queue /\ top_rated' = u.top /\ score_changed' = u.changed
  BY DEF SetScore
<1>2. /\ GoodQueue(queue', top_rated') /\ Refs(queue', top_rated')
      /\ score_changed' \in BOOLEAN
      /\ SameMarks(queue, queue') /\ CalibrationKept(queue, queue')
      /\ queue'[q].cal_failed = 0
      /\ \A p \in Ids : p # q => queue'[p].cal_failed = queue[p].cal_failed
      /\ \A b \in Bytes : top_rated'[b] \in {top_rated[b], q}
      /\ FirstSession /\ ~CyclesSchedules
            => RatedWell(queue', top_rated', score_changed')
  BY <1>1 DEF RatedAnew
<1>3. pc' = "dry_run" => /\ pc = "dry_run"
                         /\ DryRunGoesOn(queue, queue', top_rated', dry_idx')
  <2> SUFFICES ASSUME pc' = "dry_run"
               PROVE  /\ pc = "dry_run"
                      /\ DryRunGoesOn(queue, queue', top_rated', dry_idx')
    OBVIOUS
  <2>1. pc = "dry_run" /\ q = dry_idx /\ dry_idx' = q + 1
    OBVIOUS
  <2>2. /\ \A p \in dry_idx..Len(queue) : queue[p].cal_failed = 0
        /\ \A b \in Bytes : top_rated[b] < dry_idx
    BY <2>1 DEF IInv, Control
  <2>3. dry_idx \in Nat /\ dry_idx >= 1 /\ Len(queue) \in Nat /\ Ids = 1..Len(queue)
    <3>1. TypeOK
      BY DEF IInv
    <3> QED
      BY <3>1 DEF TypeOK, Ids
  <2>4. \A p \in dry_idx'..Len(queue) : queue'[p].cal_failed = 0
    <3> SUFFICES ASSUME NEW p \in dry_idx'..Len(queue)
                 PROVE  queue'[p].cal_failed = 0
      OBVIOUS
    <3>1. p \in dry_idx..Len(queue) /\ p \in Ids /\ p # q
      BY <2>1, <2>3
    <3> QED
      BY <1>2, <2>2, <3>1
  <2>5. \A b \in Bytes : top_rated'[b] < dry_idx'
    <3> SUFFICES ASSUME NEW b \in Bytes PROVE top_rated'[b] < dry_idx'
      OBVIOUS
    <3>1. top_rated[b] < dry_idx /\ top_rated[b] \in Int
      <4>1. top_rated \in [Bytes -> {None} \cup Ids]
        BY DEF IInv, TypeOK
      <4> QED
        BY <2>2, <2>3, <4>1 DEF None
    <3>2. top_rated'[b] = top_rated[b] \/ top_rated'[b] = q
      BY <1>2
    <3> QED
      BY <2>1, <2>3, <3>1, <3>2
  <2> QED
    BY <2>1, <2>4, <2>5 DEF DryRunGoesOn
<1>4. pc' = "trim" => queue'[queue_cur].cal_failed = 0
  BY <1>2
<1> QED
  BY <1>2, <1>3, <1>4, ScoreStep

\* The calibration of a seed rates it; later seeds are untouched.
LEMMA DryRunOkIInv == IInv /\ DryRunOk => IInv'
<1> SUFFICES ASSUME IInv, DryRunOk PROVE IInv'
  OBVIOUS
<1>1. /\ pc = "dry_run" /\ dry_idx <= Len(queue) /\ dry_idx' = dry_idx + 1
      /\ UNCHANGED <<envVars, favVars, countVars, queue_cur, pc, stop_soon>>
  BY DEF DryRunOk
<1>2. PICK us \in Times : SetScore(Calibrated(Score, dry_idx, us))
  BY DEF DryRunOk
<1>3. dry_idx \in Ids /\ dry_idx' \in dry_idx..Len(queue) + 1
  <2>1. TypeOK
    BY DEF IInv
  <2>2. dry_idx \in 1..Len(queue) + 1 /\ Len(queue) \in Nat
    BY <2>1 DEF TypeOK
  <2> QED
    BY <1>1, <2>2 DEF Ids
<1>4. RatedAnew(dry_idx, Calibrated(Score, dry_idx, us))
  BY <1>3, CalibratedWell
<1>5. UNCHANGED <<envVars, favVars, countVars, queue_cur, stop_soon>> /\ pc' = pc
  BY <1>1
<1> QED
  BY <1>1, <1>2, <1>3, <1>4, <1>5, RatedStep

\* A failed calibration does no harm to an entry that is neither favoured nor
\* top rated.
LEMMA FailedStep ==
  ASSUME IInv, pc # "exited", NEW q \in Ids, NEW u, FailedTo(q, u), SetScore(u),
         UNCHANGED <<envVars, favVars, countVars, queue_cur, dry_idx, stop_soon>>,
         pc' \in {"start", "abandon"}, pc' = "abandon" => pc = "fuzz_one",
         queue[q].cal_failed = 0 => ~queue[q].favored,
         FirstSession /\ ~CyclesSchedules => \A b \in Bytes : top_rated[b] # q
  PROVE  IInv'
<1>1. /\ queue' = u.queue /\ top_rated' = top_rated
      /\ score_changed' = score_changed
  BY DEF SetScore, FailedTo
<1>2. /\ GoodQueue(queue', top_rated') /\ Refs(queue', top_rated')
      /\ SameMarks(queue, queue')
      /\ \A p \in Ids : queue'[p].fuzz_level = queue[p].fuzz_level
      /\ \A p \in Ids : p # q => queue'[p].cal_failed = queue[p].cal_failed
  BY <1>1 DEF FailedTo
<1>3. score_changed' \in BOOLEAN /\ Ids = 1..Len(queue)
  BY <1>1, Sound
<1>4. CalibrationKept(queue, queue')
  BY <1>2, <1>3 DEF CalibrationKept
<1>5. ASSUME FirstSession, ~CyclesSchedules
      PROVE  RatedWell(queue', top_rated', score_changed')
  <2>1. RatedWell(queue, top_rated, score_changed)
    BY <1>5 DEF IInv, Rated
  <2> QED
    BY <1>1, <1>5, <2>1 DEF FailedTo
<1>6. dry_idx' \in dry_idx..Len(queue) + 1
  <2>1. TypeOK
    BY DEF IInv
  <2>2. dry_idx \in 1..Len(queue) + 1 /\ Len(queue) \in Nat
    BY <2>1 DEF TypeOK
  <2> QED
    BY <2>2
<1>7. UNCHANGED <<envVars, favVars, countVars, queue_cur, stop_soon>>
  OBVIOUS
<1> QED
  BY <1>2, <1>3, <1>4, <1>5, <1>6, <1>7, ScoreStep

\* A seed whose calibration is cut short is neither rated nor favoured yet.
LEMMA DryRunStoppedIInv == IInv /\ DryRunStopped => IInv'
<1> SUFFICES ASSUME IInv, DryRunStopped PROVE IInv'
  OBVIOUS
<1>1. /\ pc = "dry_run" /\ dry_idx <= Len(queue) /\ pc' = "start"
      /\ SetScore(CalFailed(Score, dry_idx))
      /\ UNCHANGED <<envVars, favVars, countVars, queue_cur, dry_idx, stop_soon>>
  BY DEF DryRunStopped
<1>2. dry_idx \in 1..Len(queue) /\ Len(queue) \in Nat /\ dry_idx \in Ids
  <2>1. TypeOK
    BY DEF IInv
  <2>2. dry_idx \in 1..Len(queue) + 1 /\ Len(queue) \in Nat
    BY <2>1 DEF TypeOK
  <2> QED
    BY <1>1, <2>2 DEF Ids
<1>3. /\ queue[dry_idx].cal_failed = 0 /\ ~queue[dry_idx].favored
      /\ \A b \in Bytes : top_rated[b] < dry_idx
  <2>1. Control
    BY DEF IInv
  <2>2. dry_idx \in dry_idx..Len(queue)
    BY <1>2
  <2> QED
    BY <1>1, <1>2, <2>1, <2>2 DEF Control
<1>4. FailedTo(dry_idx, CalFailed(Score, dry_idx))
  <2>1. queue[dry_idx].cal_failed < CAL_CHANCES
    BY <1>3, QueueAssumption
  <2> QED
    BY <1>2, <2>1, CalFailedWell
<1>5. \A b \in Bytes : top_rated[b] # dry_idx
  BY <1>2, <1>3
<1> QED
  BY <1>1, <1>2, <1>3, <1>4, <1>5, FailedStep

\* A second chance: an entry that has failed so far holds no byte, so that it
\* may fail again.
LEMMA RecalibrateIInv == IInv /\ Recalibrate => IInv'
<1> SUFFICES ASSUME IInv, Recalibrate PROVE IInv'
  OBVIOUS
<1>1. /\ pc = "fuzz_one" /\ queue[queue_cur].cal_failed \in 1..CAL_CHANCES - 1
      /\ UNCHANGED <<envVars, favVars, countVars, queue_cur, dry_idx, stop_soon>>
  BY DEF Recalibrate, Cur
<1>2. queue_cur \in Ids
  BY <1>1, ControlFacts
<1>3. CASE /\ \E us \in Times : SetScore(Calibrated(Score, queue_cur, us))
           /\ pc' \in {"trim", "abandon"}
  <2>1. PICK us \in Times : SetScore(Calibrated(Score, queue_cur, us))
    BY <1>3
  <2>2. RatedAnew(queue_cur, Calibrated(Score, queue_cur, us))
    BY <1>2, CalibratedWell
  <2>3. dry_idx' \in dry_idx..Len(queue) + 1
    <3>1. TypeOK
      BY DEF IInv
    <3>2. dry_idx \in 1..Len(queue) + 1 /\ Len(queue) \in Nat
      BY <3>1 DEF TypeOK
    <3> QED
      BY <1>1, <3>2
  <2>4. UNCHANGED <<envVars, favVars, countVars, queue_cur, stop_soon>>
    BY <1>1
  <2> QED
    BY <1>1, <1>2, <1>3, <2>1, <2>2, <2>3, <2>4, RatedStep
<1>4. CASE /\ SetScore(CalFailed(Score, queue_cur)) /\ pc' = "abandon"
  <2>1. queue[queue_cur].cal_failed < CAL_CHANCES /\ queue[queue_cur].cal_failed # 0
    BY <1>1, QueueAssumption
  <2>2. FailedTo(queue_cur, CalFailed(Score, queue_cur))
    BY <1>2, <2>1, CalFailedWell
  <2>3. ASSUME FirstSession, ~CyclesSchedules
        PROVE  \A b \in Bytes : top_rated[b] # queue_cur
    <3>1. RatedWell(queue, top_rated, score_changed)
      BY <1>1, <2>3 DEF IInv, Rated
    <3>2. queue_cur # None
      BY <1>2 DEF Ids, None
    <3> QED
      BY <2>1, <3>1, <3>2 DEF RatedWell
  <2> QED
    BY <1>1, <1>2, <1>4, <2>1, <2>2, <2>3, FailedStep
<1> QED
  BY <1>3, <1>4 DEF Recalibrate

\* Shorter or not, a trimmed entry is calibrated and keeps its marks.
LEMMA TrimIInv == IInv /\ Trim => IInv'
<1> SUFFICES ASSUME IInv, Trim PROVE IInv'
  OBVIOUS
<1>1. /\ pc = "trim" /\ pc' \in {"stages", "abandon"}
      /\ UNCHANGED <<envVars, favVars, countVars, queue_cur, dry_idx, stop_soon>>
  BY DEF Trim
<1>2. /\ queue_cur \in Ids /\ queue[queue_cur].cal_failed = 0
      /\ queue[queue_cur] \in Entry /\ queue \in Seq(Entry)
      /\ Ids = 1..Len(queue)
  BY <1>1, ControlFacts, Sound
<1>3. dry_idx' \in dry_idx..Len(queue) + 1
  <2>1. TypeOK
    BY DEF IInv
  <2>2. dry_idx \in 1..Len(queue) + 1 /\ Len(queue) \in Nat
    BY <2>1 DEF TypeOK
  <2> QED
    BY <1>1, <2>2
<1>4. UNCHANGED <<envVars, favVars, countVars, queue_cur, stop_soon>>
  BY <1>1
<1>5. CASE \E l \in Lengths :
              SetScore(UpdateBitmapScore(
                 [Score EXCEPT !.queue[queue_cur].len = l,
                               !.queue[queue_cur].trim_done = TRUE],
                 queue_cur, traces[Cur.tc]))
  <2>1. PICK l \in Lengths :
              SetScore(UpdateBitmapScore(
                 [Score EXCEPT !.queue[queue_cur].len = l,
                               !.queue[queue_cur].trim_done = TRUE],
                 queue_cur, traces[Cur.tc]))
    BY <1>5
  <2> DEFINE e == [queue[queue_cur] EXCEPT !.len = l, !.trim_done = TRUE]
             s == [Score EXCEPT !.queue[queue_cur].len = l,
                                !.queue[queue_cur].trim_done = TRUE]
  <2>2. e \in Entry
    BY <1>2, EntryTrimmed
  <2>3. e.cal_failed = 0 /\ SameButMeasured(queue[queue_cur], e)
    BY <1>2 DEF Entry, SameButMeasured
  <2>4. /\ s.queue = [queue EXCEPT ![queue_cur] = e] /\ s.top = top_rated
        /\ s.changed = score_changed
    BY <1>2 DEF Score
  <2> DEFINE u == UpdateBitmapScore(s, queue_cur, traces[queue[queue_cur].tc])
  <2>5. SetScore(u)
    BY <2>1 DEF Cur
  <2> HIDE DEF e, s
  <2>6. RatedAnew(queue_cur, u)
    BY <1>2, <2>2, <2>3, <2>4, MeasuredAndRated
  <2> HIDE DEF u
  <2> QED
    BY <1>1, <1>2, <1>3, <1>4, <2>5, <2>6, RatedStep
<1>6. CASE /\ SetScore([Score EXCEPT !.queue[queue_cur].trim_done = TRUE])
           /\ pc' = "stages"
  <2> DEFINE e == [queue[queue_cur] EXCEPT !.trim_done = TRUE]
             qv == [queue EXCEPT ![queue_cur] = e]
  <2>1. e \in Entry
    BY <1>2, EntryExcept
  <2>2. /\ e.cal_failed = queue[queue_cur].cal_failed
        /\ e.exec_us = queue[queue_cur].exec_us
        /\ SameButMeasured(queue[queue_cur], e)
    BY <1>2 DEF Entry, SameButMeasured
  <2>3. queue' = qv /\ top_rated' = top_rated /\ score_changed' = score_changed
    BY <1>2, <1>6 DEF SetScore, Score
  <2> HIDE DEF e
  <2>4. /\ queue_cur \in 1..Len(queue)
        /\ GoodQueue(queue, top_rated) /\ Refs(queue, top_rated)
        /\ score_changed \in BOOLEAN
    BY <1>2, Sound
  <2>5. /\ e.tc = queue[queue_cur].tc /\ e.favored = queue[queue_cur].favored
        /\ e.tc_ref = queue[queue_cur].tc_ref
        /\ e.trace_mini = queue[queue_cur].trace_mini
    BY <2>2 DEF SameButMeasured
  <2>6. /\ GoodQueue(qv, top_rated) /\ Refs(qv, top_rated)
        /\ Len(qv) = Len(queue) /\ qv[queue_cur] = e
        /\ \A p \in 1..Len(queue) : p # queue_cur => qv[p] = queue[p]
    BY <2>1, <2>4, <2>5, ReplaceEntry
  <2>7. ASSUME FirstSession, ~CyclesSchedules
        PROVE  RatedWell(qv, top_rated, score_changed)
    <3>1. RatedWell(queue, top_rated, score_changed)
      BY <1>1, <2>7 DEF IInv, Rated
    <3> QED
      BY <1>2, <2>1, <2>2, <2>4, <2>5, <3>1, ReplaceEntry
  <2> HIDE DEF qv
  <2>8. \A p \in Ids : /\ qv[p].fuzz_level = queue[p].fuzz_level
                       /\ qv[p].cal_failed = queue[p].cal_failed
                       /\ qv[p].disabled = queue[p].disabled
                       /\ qv[p].was_fuzzed = queue[p].was_fuzzed
                       /\ qv[p].favored = queue[p].favored
    BY <1>2, <2>2, <2>6 DEF SameButMeasured
  <2>9. SameMarks(queue, qv) /\ CalibrationKept(queue, qv)
    BY <1>2, <2>6, <2>8 DEF SameMarks, CalibrationKept
  <2> QED
    BY <1>1, <1>3, <1>4, <1>6, <2>3, <2>4, <2>6, <2>7, <2>9, ScoreStep
<1>7. CASE SetScore(Score) /\ pc' = "abandon"
  <2>1. UNCHANGED <<queue, top_rated, score_changed>>
    BY <1>7 DEF SetScore, Score
  <2> QED
    BY <1>1, <1>7, <2>1, FuzzOneQuiet
<1> QED
  BY <1>5, <1>6, <1>7 DEF Trim

-----------------------------------------------------------------------------
(* The steps that change marks.                                            *)

\* One entry more or less in a set of entries.
LEMMA OneLess ==
  ASSUME NEW n \in Nat, NEW S \in SUBSET (1..n), NEW q \in S
  PROVE  Cardinality(S \ {q}) = Cardinality(S) - 1 /\ Cardinality(S) \in Nat
<1>1. IsFiniteSet(S) /\ Cardinality(S) \in Nat
  BY Finite
<1> QED
  BY <1>1, FS_RemoveElement

\* A new entry gets the next number.
LEMMA OneMore ==
  ASSUME NEW n \in Nat, NEW S \in SUBSET (1..n)
  PROVE  Cardinality(S \cup {n + 1}) = Cardinality(S) + 1 /\ Cardinality(S) \in Nat
<1>1. IsFiniteSet(S) /\ Cardinality(S) \in Nat /\ n + 1 \notin S
  BY Finite
<1> QED
  BY <1>1, FS_AddElement

\* In the dry run nothing is favoured and a seed is fuzzed iff it is disabled.
LEMMA DryRunFacts ==
  ASSUME IInv, pc = "dry_run"
  PROVE  /\ resumes = 0 /\ pending_favored = 0
         /\ Favs(queue) = {} /\ Pends(queue) = {}
         /\ \A q \in Ids : /\ ~queue[q].favored
                           /\ queue[q].was_fuzzed <=> queue[q].disabled
         /\ \A q \in dry_idx..Len(queue) :
               queue[q].cal_failed = 0 /\ ~queue[q].disabled
         /\ \A b \in Bytes : top_rated[b] < dry_idx
         /\ dry_idx \in 1..Len(queue) + 1 /\ Len(queue) \in Nat
<1>1. Control /\ Counts(queue) /\ TypeOK
  BY DEF IInv
<1>2. /\ resumes = 0
      /\ \A q \in Ids : /\ ~queue[q].favored
                        /\ queue[q].was_fuzzed <=> queue[q].disabled
      /\ \A q \in dry_idx..Len(queue) :
            queue[q].cal_failed = 0 /\ ~queue[q].disabled
      /\ \A b \in Bytes : top_rated[b] < dry_idx
  BY <1>1 DEF Control
<1>3. Favs(queue) = {} /\ Pends(queue) = {}
  BY <1>2 DEF Favs, Pends, Ids
<1>4. pending_favored = 0
  <2>1. pending_favored = Cardinality(Pends(queue))
    BY <1>1 DEF Counts
  <2> QED
    BY <1>3, <2>1, FS_EmptySet
<1>5. dry_idx \in 1..Len(queue) + 1 /\ Len(queue) \in Nat
  BY <1>1 DEF TypeOK
<1> QED
  BY <1>2, <1>3, <1>4, <1>5

\* A seed that is dropped was counted, as active and as waiting, until now.
LEMMA DryRunDisablesIInv == IInv /\ DryRunDisables => IInv'
<1> SUFFICES ASSUME IInv, DryRunDisables PROVE IInv'
  OBVIOUS
<1>1. /\ pc = "dry_run" /\ dry_idx <= Len(queue) /\ dry_idx' = dry_idx + 1
      /\ traces' = traces /\ options' = options /\ resumes' = resumes
      /\ queued_favored' = queued_favored /\ pending_favored' = pending_favored
      /\ smallest_favored' = smallest_favored
      /\ pending_not_fuzzed' = pending_not_fuzzed - 1
      /\ active_items' = active_items - 1
      /\ top_rated' = top_rated /\ score_changed' = score_changed
      /\ queue_cur' = queue_cur /\ pc' = pc /\ stop_soon' = stop_soon
  BY DEF DryRunDisables, envVars, favVars
<1>2. PICK failed \in {1, CAL_CHANCES} :
         queue' = [queue EXCEPT ![dry_idx].cal_failed = failed,
                                ![dry_idx].was_fuzzed = TRUE,
                                ![dry_idx].disabled = TRUE]
  BY DEF DryRunDisables
<1>3. /\ resumes = 0 /\ pending_favored = 0
      /\ Favs(queue) = {} /\ Pends(queue) = {}
      /\ \A q \in Ids : /\ ~queue[q].favored
                        /\ queue[q].was_fuzzed <=> queue[q].disabled
      /\ \A q \in dry_idx..Len(queue) :
            queue[q].cal_failed = 0 /\ ~queue[q].disabled
      /\ \A b \in Bytes : top_rated[b] < dry_idx
      /\ dry_idx \in 1..Len(queue) + 1 /\ Len(queue) \in Nat
  BY <1>1, DryRunFacts
<1>4. /\ GoodQueue(queue, top_rated) /\ Refs(queue, top_rated)
      /\ score_changed \in BOOLEAN /\ Ids = 1..Len(queue)
      /\ queue \in Seq(Entry) /\ TypeOK /\ Counts(queue)
  BY Sound DEF IInv
<1>5. dry_idx \in 1..Len(queue) /\ dry_idx \in dry_idx..Len(queue)
  BY <1>1, <1>3
<1> DEFINE e == [queue[dry_idx] EXCEPT !.cal_failed = failed, !.was_fuzzed = TRUE,
                                       !.disabled = TRUE]
           qv == [queue EXCEPT ![dry_idx] = e]
<1>6. queue[dry_idx] \in Entry /\ queue' = qv
  <2>1. queue[dry_idx] \in Entry
    BY <1>4, <1>5
  <2>2. /\ queue' = [[[queue EXCEPT ![dry_idx].cal_failed = failed]
                             EXCEPT ![dry_idx].was_fuzzed = TRUE]
                             EXCEPT ![dry_idx].disabled = TRUE]
    BY <1>2, Zenon
  <2>3. /\ DOMAIN queue = 1..Len(queue) /\ dry_idx \in DOMAIN queue
        /\ queue = [p \in DOMAIN queue |-> queue[p]]
    BY <1>4, <1>5
  <2>4. [[queue EXCEPT ![dry_idx].cal_failed = failed]
                EXCEPT ![dry_idx].was_fuzzed = TRUE]
        = [queue EXCEPT ![dry_idx] = [queue[dry_idx] EXCEPT
               !.cal_failed = failed, !.was_fuzzed = TRUE]]
    BY <2>3
  <2>5. queue' = [queue EXCEPT ![dry_idx] = [queue[dry_idx] EXCEPT
               !.cal_failed = failed, !.was_fuzzed = TRUE, !.disabled = TRUE]]
    BY <2>2, <2>3, <2>4
  <2> QED
    BY <2>1, <2>5
<1>7. e \in Entry
  <2>1. failed \in 0..CAL_CHANCES
    BY QueueAssumption
  <2> QED
    BY <1>6, <2>1, EntryDropped
<1>8. /\ e.tc = queue[dry_idx].tc /\ e.favored = queue[dry_idx].favored
      /\ e.tc_ref = queue[dry_idx].tc_ref
      /\ e.trace_mini = queue[dry_idx].trace_mini
      /\ e.exec_us = queue[dry_idx].exec_us
      /\ e.fuzz_level = queue[dry_idx].fuzz_level
      /\ e.was_fuzzed = TRUE /\ e.disabled = TRUE
  BY <1>6 DEF Entry
<1>9. \A b \in Bytes : top_rated[b] # dry_idx
  BY <1>3
<1> HIDE DEF e
<1>10. /\ GoodQueue(qv, top_rated) /\ Refs(qv, top_rated)
       /\ Len(qv) = Len(queue) /\ qv[dry_idx] = e
       /\ \A p \in 1..Len(queue) : p # dry_idx => qv[p] = queue[p]
  BY <1>4, <1>5, <1>7, <1>8, ReplaceEntry
<1>11. ASSUME FirstSession, ~CyclesSchedules
       PROVE  RatedWell(qv, top_rated, score_changed)
  <2>1. RatedWell(queue, top_rated, score_changed)
    BY <1>1, <1>11 DEF IInv, Rated
  <2> QED
    BY <1>4, <1>5, <1>7, <1>8, <1>9, <2>1, ReplaceEntry
<1> HIDE DEF qv
<1>12. /\ Active(qv) = Active(queue) \ {dry_idx}
       /\ Waiting(qv) = Waiting(queue) \ {dry_idx}
       /\ Favs(qv) = Favs(queue) /\ Pends(qv) = Pends(queue)
  BY <1>3, <1>4, <1>5, <1>8, <1>10 DEF Active, Waiting, Favs, Pends
<1>13. dry_idx \in Active(queue) /\ dry_idx \in Waiting(queue)
  BY <1>3, <1>4, <1>5 DEF Active, Waiting
<1>14. /\ Cardinality(Active(qv)) = Cardinality(Active(queue)) - 1
       /\ Cardinality(Waiting(qv)) = Cardinality(Waiting(queue)) - 1
       /\ Cardinality(Active(queue)) \in Nat /\ Cardinality(Waiting(queue)) \in Nat
  <2>1. Active(queue) \in SUBSET (1..Len(queue)) /\ Waiting(queue) \in SUBSET (1..Len(queue))
    BY DEF Active, Waiting
  <2> QED
    BY <1>3, <1>12, <1>13, <2>1, OneLess
<1>15. active_items \in Nat /\ pending_not_fuzzed \in Nat
  BY <1>4 DEF TypeOK
<1>16. Counts(queue)'
  <2>1. ~DisablesRedundant' => ~DisablesRedundant
    BY <1>1 DEF DisablesRedundant
  <2>2. /\ active_items' >= Cardinality(Active(qv)) /\ active_items' <= Len(qv)
        /\ pending_not_fuzzed' >= Cardinality(Waiting(qv))
        /\ pending_not_fuzzed' <= Len(qv)
    BY <1>1, <1>3, <1>4, <1>10, <1>14, <1>15 DEF Counts
  <2>3. pc' # "exited" /\ ~DisablesRedundant' =>
           /\ active_items' = Cardinality(Active(qv))
           /\ pending_not_fuzzed' = Cardinality(Waiting(qv))
    BY <1>1, <1>4, <1>14, <1>15, <2>1 DEF Counts
  <2>4. /\ queued_favored' = Cardinality(Favs(qv))
        /\ pending_favored' = Cardinality(Pends(qv))
    BY <1>1, <1>4, <1>12 DEF Counts
  <2> QED
    BY <1>6, <2>2, <2>3, <2>4 DEF Counts
<1>17. Ids' = Ids
  BY <1>6, <1>10 DEF Ids
<1>18. TypeOK'
  <2>1. dry_idx' \in 1..Len(queue') + 1
    BY <1>1, <1>3, <1>6, <1>10
  <2>2. ControlTypes'
    BY <1>1, <1>4, <1>17, <2>1 DEF TypeOK, ControlTypes
  <2>3. active_items' \in Int /\ pending_not_fuzzed' \in Int
    BY <1>1, <1>15
  <2> QED
    BY <1>1, <1>4, <1>6, <1>10, <1>16, <2>2, <2>3, TypesAfter
<1>19. Control'
  <2>1. \A q \in Ids : /\ ~qv[q].favored
                       /\ qv[q].was_fuzzed <=> qv[q].disabled
    BY <1>3, <1>4, <1>8, <1>10
  <2>2. \A q \in dry_idx'..Len(qv) : qv[q].cal_failed = 0 /\ ~qv[q].disabled
    <3> SUFFICES ASSUME NEW q \in dry_idx'..Len(qv)
                 PROVE  qv[q].cal_failed = 0 /\ ~qv[q].disabled
      OBVIOUS
    <3>1. q \in dry_idx..Len(queue) /\ q \in 1..Len(queue) /\ q # dry_idx
      BY <1>1, <1>3, <1>10
    <3> QED
      BY <1>3, <1>10, <3>1
  <2>3. \A b \in Bytes : top_rated[b] < dry_idx'
    <3> SUFFICES ASSUME NEW b \in Bytes PROVE top_rated[b] < dry_idx'
      OBVIOUS
    <3>1. top_rated[b] < dry_idx /\ top_rated[b] \in Int
      BY <1>3, <1>4 DEF TypeOK, None
    <3> QED
      BY <1>1, <1>3, <3>1
  <2> QED
    BY <1>1, <1>3, <1>6, <1>17, <2>1, <2>2, <2>3 DEF Control
<1>20. NextCanBeCounted'
  BY <1>1, <1>3 DEF NextCanBeCounted
<1>21. Rated'
  BY <1>1, <1>6, <1>11 DEF Rated, FirstSession, CyclesSchedules, RatedWell
<1>22. Refs(queue, top_rated)'
  BY <1>1, <1>6, <1>10 DEF Refs
<1> QED
  BY <1>16, <1>18, <1>19, <1>20, <1>21, <1>22 DEF IInv

\* The entries of qv are those of qu but for how often they have been fuzzed,
\* and whether they still take part.
SameButFuzzed(qu, qv) ==
    /\ Len(qv) = Len(qu)
    /\ \A q \in 1..Len(qu) :
          /\ qv[q].tc = qu[q].tc /\ qv[q].exec_us = qu[q].exec_us
          /\ qv[q].cal_failed = qu[q].cal_failed /\ qv[q].favored = qu[q].favored
          /\ qv[q].tc_ref = qu[q].tc_ref /\ qv[q].trace_mini = qu[q].trace_mini

\* Nothing of that is what a rating goes by.
LEMMA FuzzedWell ==
  ASSUME NEW qu, NEW top, GoodQueue(qu, top), Refs(qu, top),
         NEW qv \in Seq(Entry), SameButFuzzed(qu, qv)
  PROVE  /\ GoodQueue(qv, top) /\ Refs(qv, top)
         /\ \A changed : RatedWell(qu, top, changed) => RatedWell(qv, top, changed)
<1>1. GoodQueue(qv, top)
  BY DEF GoodQueue, SameButFuzzed
<1>2. Refs(qv, top)
  BY DEF Refs, SameButFuzzed
<1>3. ASSUME NEW changed, RatedWell(qu, top, changed)
      PROVE  RatedWell(qv, top, changed)
  <2>1. \A b \in Bytes : top[b] # None => top[b] \in 1..Len(qu)
    BY DEF GoodQueue
  <2>2. \A b \in Bytes : top[b] # None =>
           qv[top[b]].cal_failed = 0 /\ b \in traces[qv[top[b]].tc]
    BY <1>3, <2>1 DEF RatedWell, SameButFuzzed
  <2>3. \A q \in 1..Len(qv) : qv[q].trace_mini \in {{}, traces[qv[q].tc]}
    BY <1>3 DEF RatedWell, SameButFuzzed
  <2>4. \A q \in 1..Len(qv) : qv[q].exec_us > 0 =>
           \A b \in traces[qv[q].tc] : top[b] # None
    BY <1>3 DEF RatedWell, SameButFuzzed
  <2>5. ~changed =>
           \A b \in Bytes : top[b] # None =>
              \E f \in 1..Len(qv) : qv[f].favored /\ b \in traces[qv[f].tc]
    BY <1>3 DEF RatedWell, SameButFuzzed
  <2> QED
    BY <2>2, <2>3, <2>4, <2>5 DEF RatedWell
<1> QED
  BY <1>1, <1>2, <1>3

\* The queue without the duplicates among the seeds.
Deduped ==
    [q \in Ids |-> IF q \in Duplicates
                   THEN [queue[q] EXCEPT !.disabled = TRUE, !.was_fuzzed = TRUE]
                   ELSE queue[q]]

\* What the search for duplicates leaves of the queue.
LEMMA DedupedWell ==
  ASSUME IInv
  PROVE  /\ Deduped \in Seq(Entry) /\ SameButFuzzed(queue, Deduped)
         /\ Active(Deduped) = Active(queue) \ Duplicates
         /\ Waiting(Deduped) = Waiting(queue) \ Duplicates
         /\ \A q \in Ids : Deduped[q].disabled =>
               Deduped[q].was_fuzzed \/ (queue[q].disabled /\ ~queue[q].was_fuzzed)
<1>1. /\ queue \in Seq(Entry) /\ Ids = 1..Len(queue) /\ Len(queue) \in Nat
      /\ \A q \in Ids : queue[q] \in Entry
  BY Sound
<1>2. \A q \in Ids :
         Deduped[q] = IF q \in Duplicates
                      THEN [queue[q] EXCEPT !.disabled = TRUE, !.was_fuzzed = TRUE]
                      ELSE queue[q]
  BY DEF Deduped
<1>3. ASSUME NEW q \in Ids
      PROVE  /\ Deduped[q] \in Entry
             /\ Deduped[q].tc = queue[q].tc
             /\ Deduped[q].exec_us = queue[q].exec_us
             /\ Deduped[q].cal_failed = queue[q].cal_failed
             /\ Deduped[q].favored = queue[q].favored
             /\ Deduped[q].tc_ref = queue[q].tc_ref
             /\ Deduped[q].trace_mini = queue[q].trace_mini
             /\ q \in Duplicates => Deduped[q].disabled /\ Deduped[q].was_fuzzed
             /\ q \notin Duplicates => Deduped[q] = queue[q]
  <2>1. CASE q \in Duplicates
    <3>1. queue[q] \in Entry
      BY <1>1
    <3>2. Deduped[q] = [queue[q] EXCEPT !.disabled = TRUE, !.was_fuzzed = TRUE]
      BY <1>2, <2>1
    <3> QED
      BY <2>1, <3>1, <3>2 DEF Entry
  <2>2. CASE q \notin Duplicates
    BY <1>1, <1>2, <2>2
  <2> QED
    BY <2>1, <2>2
<1>4. Deduped \in Seq(Entry) /\ Len(Deduped) = Len(queue)
  <2>1. Deduped = [p \in 1..Len(queue) |-> Deduped[p]]
    BY <1>1 DEF Deduped
  <2>2. \A p \in 1..Len(queue) : Deduped[p] \in Entry
    BY <1>1, <1>3
  <2> QED
    BY <1>1, <2>1, <2>2, MapSeq
<1>5. SameButFuzzed(queue, Deduped)
  BY <1>1, <1>3, <1>4 DEF SameButFuzzed
<1>6. Active(Deduped) = Active(queue) \ Duplicates
  BY <1>1, <1>3, <1>4 DEF Active
<1>7. Waiting(Deduped) = Waiting(queue) \ Duplicates
  BY <1>1, <1>3, <1>4 DEF Waiting
<1>8. \A q \in Ids : Deduped[q].disabled =>
         Deduped[q].was_fuzzed \/ (queue[q].disabled /\ ~queue[q].was_fuzzed)
  BY <1>3
<1> QED
  BY <1>4, <1>5, <1>6, <1>7, <1>8

\* Each duplicate was counted, as active and as waiting, until now.
LEMMA DedupIInv == IInv /\ Dedup => IInv'
<1> SUFFICES ASSUME IInv, Dedup PROVE IInv'
  OBVIOUS
<1>1. /\ pc = "dry_run" /\ pc' = "start"
      /\ traces' = traces /\ options' = options /\ resumes' = resumes
      /\ queued_favored' = queued_favored /\ pending_favored' = pending_favored
      /\ smallest_favored' = smallest_favored
      /\ pending_not_fuzzed' = pending_not_fuzzed - Cardinality(Duplicates)
      /\ active_items' = active_items - Cardinality(Duplicates)
      /\ top_rated' = top_rated /\ score_changed' = score_changed
      /\ queue_cur' = queue_cur /\ dry_idx' = dry_idx /\ stop_soon' = stop_soon
      /\ queue' = Deduped
  BY DEF Dedup, Deduped, envVars, favVars
<1>2. /\ pending_favored = 0
      /\ \A q \in Ids : /\ ~queue[q].favored
                        /\ queue[q].was_fuzzed <=> queue[q].disabled
  BY <1>1, DryRunFacts
<1>3. /\ GoodQueue(queue, top_rated) /\ Refs(queue, top_rated)
      /\ score_changed \in BOOLEAN /\ Ids = 1..Len(queue)
      /\ queue \in Seq(Entry) /\ Len(queue) \in Nat
      /\ TypeOK /\ Counts(queue)
  BY Sound DEF IInv
<1>4. /\ Deduped \in Seq(Entry) /\ SameButFuzzed(queue, Deduped)
      /\ Active(Deduped) = Active(queue) \ Duplicates
      /\ Waiting(Deduped) = Waiting(queue) \ Duplicates
      /\ \A q \in Ids : Deduped[q].disabled => Deduped[q].was_fuzzed
  BY <1>2, DedupedWell
<1>5. /\ GoodQueue(Deduped, top_rated) /\ Refs(Deduped, top_rated)
      /\ \A changed : RatedWell(queue, top_rated, changed)
            => RatedWell(Deduped, top_rated, changed)
  BY <1>3, <1>4, FuzzedWell
<1>6. Len(Deduped) = Len(queue)
  BY <1>4 DEF SameButFuzzed
<1>7. Favs(Deduped) = {} /\ Pends(Deduped) = {} /\ Favs(queue) = {} /\ Pends(queue) = {}
  BY <1>2, <1>3, <1>4 DEF Favs, Pends, SameButFuzzed
<1>8. Duplicates \in SUBSET Active(queue) /\ Duplicates \in SUBSET Waiting(queue)
  BY <1>2, <1>3 DEF Duplicates, Active, Waiting
<1>9. /\ Cardinality(Active(Deduped)) = Cardinality(Active(queue)) - Cardinality(Duplicates)
      /\ Cardinality(Waiting(Deduped)) = Cardinality(Waiting(queue)) - Cardinality(Duplicates)
      /\ Cardinality(Active(queue)) \in Nat /\ Cardinality(Waiting(queue)) \in Nat
      /\ Cardinality(Duplicates) \in Nat
  <2>1. Active(queue) \in SUBSET (1..Len(queue)) /\ Waiting(queue) \in SUBSET (1..Len(queue))
    BY DEF Active, Waiting
  <2>2. IsFiniteSet(Active(queue)) /\ IsFiniteSet(Waiting(queue))
    BY <1>3, <2>1, Finite
  <2> QED
    BY <1>4, <1>8, <2>2, CardinalityDifference
<1>10. active_items \in Nat /\ pending_not_fuzzed \in Nat
  BY <1>3 DEF TypeOK
<1>11. Counts(queue)'
  <2>1. ~DisablesRedundant' => ~DisablesRedundant
    BY <1>1 DEF DisablesRedundant
  <2>2. /\ active_items' >= Cardinality(Active(Deduped))
        /\ active_items' <= Len(Deduped)
        /\ pending_not_fuzzed' >= Cardinality(Waiting(Deduped))
        /\ pending_not_fuzzed' <= Len(Deduped)
    BY <1>1, <1>3, <1>6, <1>9, <1>10 DEF Counts
  <2>3. pc' # "exited" /\ ~DisablesRedundant' =>
           /\ active_items' = Cardinality(Active(Deduped))
           /\ pending_not_fuzzed' = Cardinality(Waiting(Deduped))
    BY <1>1, <1>3, <1>9, <1>10, <2>1 DEF Counts
  <2>4. /\ queued_favored' = Cardinality(Favs(Deduped))
        /\ pending_favored' = Cardinality(Pends(Deduped))
    BY <1>1, <1>3, <1>7 DEF Counts
  <2> QED
    BY <1>1, <2>2, <2>3, <2>4 DEF Counts
<1>12. Ids' = Ids
  BY <1>1, <1>6 DEF Ids
<1>13. TypeOK'
  <2>1. ControlTypes'
    BY <1>1, <1>3, <1>6, <1>12 DEF TypeOK, ControlTypes
  <2>2. active_items' \in Int /\ pending_not_fuzzed' \in Int
    BY <1>1, <1>9, <1>10
  <2> QED
    BY <1>1, <1>3, <1>5, <1>11, <2>1, <2>2, TypesAfter
<1>14. Control'
  BY <1>1, <1>4, <1>12 DEF Control
<1>15. NextCanBeCounted'
  BY <1>1, <1>2 DEF NextCanBeCounted
<1>16. Rated'
  <2>1. Rated
    BY DEF IInv
  <2> QED
    BY <1>1, <1>5, <2>1 DEF Rated, FirstSession, CyclesSchedules, RatedWell
<1>17. Refs(queue, top_rated)'
  BY <1>1, <1>5 DEF Refs
<1> QED
  BY <1>11, <1>13, <1>14, <1>15, <1>16, <1>17 DEF IInv

-----------------------------------------------------------------------------
(* The steps that cull the queue.                                          *)

\* What culling does to the marks that active_items and pending_not_fuzzed
\* depend on.
MarksCulled(qu, qv) ==
    /\ Len(qv) = Len(qu)
    /\ \A q \in 1..Len(qu) :
          /\ qv[q].was_fuzzed = qu[q].was_fuzzed
          /\ qu[q].disabled => qv[q].disabled
          /\ ~DisablesRedundant => qv[q].disabled = qu[q].disabled

\* Only AFL_DISABLE_REDUNDANT makes the counters too large.
LEMMA CulledCounts ==
  ASSUME TypeOK, Counts(queue), MarksCulled(queue, queue'), pc # "exited",
         UNCHANGED <<countVars, options>>,
         queued_favored' = Cardinality(Favs(queue')),
         pending_favored' = Cardinality(Pends(queue'))
  PROVE  Counts(queue)'
<1>1. Len(queue') = Len(queue) /\ Len(queue) \in Nat
  BY DEF MarksCulled, TypeOK
<1>2. /\ active_items' = active_items
      /\ pending_not_fuzzed' = pending_not_fuzzed
      /\ DisablesRedundant' <=> DisablesRedundant
      /\ active_items \in Nat /\ pending_not_fuzzed \in Nat
  BY DEF countVars, DisablesRedundant, TypeOK
<1>3. Active(queue') \subseteq Active(queue) /\ Waiting(queue') \subseteq Waiting(queue)
  BY DEF MarksCulled, Active, Waiting
<1>4. ~DisablesRedundant => /\ Active(queue') = Active(queue)
                            /\ Waiting(queue') = Waiting(queue)
  BY DEF MarksCulled, Active, Waiting
<1>5. /\ Cardinality(Active(queue')) <= Cardinality(Active(queue))
      /\ Cardinality(Waiting(queue')) <= Cardinality(Waiting(queue))
      /\ Cardinality(Active(queue)) \in Nat /\ Cardinality(Waiting(queue)) \in Nat
      /\ Cardinality(Active(queue')) \in Nat /\ Cardinality(Waiting(queue')) \in Nat
  <2>1. Active(queue) \in SUBSET (1..Len(queue)) /\ Waiting(queue) \in SUBSET (1..Len(queue))
    BY DEF Active, Waiting
  <2>2. IsFiniteSet(Active(queue)) /\ IsFiniteSet(Waiting(queue))
    BY <1>1, <2>1, Finite
  <2>3. /\ Cardinality(Active(queue')) <= Cardinality(Active(queue))
        /\ Cardinality(Waiting(queue')) <= Cardinality(Waiting(queue))
    BY <1>3, <2>2, FS_Subset
  <2>4. /\ Cardinality(Active(queue)) \in Nat /\ Cardinality(Waiting(queue)) \in Nat
        /\ Cardinality(Active(queue')) \in Nat /\ Cardinality(Waiting(queue')) \in Nat
    BY <1>1, CardTypes
  <2> QED
    BY <2>3, <2>4
<1>6. /\ active_items' >= Cardinality(Active(queue')) /\ active_items' <= Len(queue')
      /\ pending_not_fuzzed' >= Cardinality(Waiting(queue'))
      /\ pending_not_fuzzed' <= Len(queue')
  BY <1>1, <1>2, <1>5 DEF Counts
<1>7. ~DisablesRedundant' => /\ active_items' = Cardinality(Active(queue'))
                             /\ pending_not_fuzzed' = Cardinality(Waiting(queue'))
  BY <1>2, <1>4 DEF Counts
<1> QED
  BY <1>6, <1>7 DEF Counts

\* A step that culls the queue, and perhaps rates it anew afterwards.
LEMMA CullingStep ==
  ASSUME IInv, pc \in {"start", "top"}, pc' \in {"fatal", "top", "select"},
         UNCHANGED <<envVars, countVars, queue_cur, dry_idx, stop_soon>>,
         GoodQueue(queue', top_rated'), Refs(queue', top_rated'),
         score_changed' \in BOOLEAN,
         MarksCulled(queue, queue'),
         queued_favored' = Cardinality(Favs(queue')),
         pending_favored' = Cardinality(Pends(queue')),
         smallest_favored' \in {None} \cup Ids,
         FirstSession /\ ~CyclesSchedules =>
            /\ RatedWell(queue', top_rated', score_changed')
            /\ ~DisablesRedundant =>
                  NextWell(queue', pending_favored', smallest_favored')
  PROVE  IInv'
<1>1. /\ traces' = traces /\ options' = options /\ resumes' = resumes
      /\ pending_not_fuzzed' = pending_not_fuzzed /\ active_items' = active_items
      /\ queue_cur' = queue_cur /\ dry_idx' = dry_idx /\ stop_soon' = stop_soon
  BY DEF envVars, countVars
<1>2. TypeOK /\ Counts(queue) /\ Control
  BY DEF IInv
<1>3. Len(queue') = Len(queue) /\ Ids' = Ids /\ Ids = 1..Len(queue)
  BY DEF MarksCulled, Ids
<1>4. Counts(queue)'
  <2>1. UNCHANGED <<countVars, options>>
    BY <1>1 DEF countVars
  <2> QED
    BY <1>2, <2>1, CulledCounts
<1>5. TypeOK'
  <2>1. ControlTypes'
    BY <1>1, <1>2, <1>3 DEF TypeOK, ControlTypes
  <2>2. active_items' \in Int /\ pending_not_fuzzed' \in Int
    BY <1>1, <1>2 DEF TypeOK
  <2> QED
    BY <1>4, <2>1, <2>2, TypesAfter
<1>6. Control'
  <2>1. ~DisablesRedundant' =>
           \A q \in Ids' : queue'[q].disabled => queue'[q].was_fuzzed
    <3>1. ~DisablesRedundant' => ~DisablesRedundant
      BY <1>1 DEF DisablesRedundant
    <3> QED
      BY <1>2, <1>3, <3>1 DEF Control, MarksCulled
  <2> QED
    BY <2>1 DEF Control
<1>7. NextCanBeCounted'
  BY <1>1 DEF NextCanBeCounted, NextWell, FirstSession, DisablesRedundant,
              CyclesSchedules
<1>8. Rated'
  BY <1>1 DEF Rated, FirstSession, CyclesSchedules, RatedWell
<1> QED
  BY <1>4, <1>5, <1>6, <1>7, <1>8 DEF IInv

\* What the culled queue is, before it is rated anew.
LEMMA CulledFacts ==
  ASSUME IInv, pc \in {"start", "top"}
  PROVE  /\ CulledTo(Culled(Score))
         /\ MarksCulled(queue, Culled(Score).queue)
         /\ FirstSession /\ ~CyclesSchedules =>
               /\ RatedWell(Culled(Score).queue, top_rated, FALSE)
               /\ ~DisablesRedundant =>
                     NextWell(Culled(Score).queue, Culled(Score).pending,
                              Culled(Score).smallest)
<1> DEFINE c == Culled(Score)
<1>1. CulledTo(c)
  <2>1. /\ GoodQueue(queue, top_rated) /\ Refs(queue, top_rated)
        /\ score_changed \in BOOLEAN /\ smallest_favored \in {None} \cup Ids
    BY Sound, ControlFacts
  <2>2. /\ queued_favored = Cardinality(Favs(queue))
        /\ pending_favored = Cardinality(Pends(queue))
    BY DEF IInv, Counts
  <2> QED
    BY <2>1, <2>2, CulledWell
<1> HIDE DEF c
<1>2. MarksCulled(queue, c.queue)
  BY <1>1 DEF CulledTo, OnlyMarked, SameFields, MarksCulled
<1>3. ASSUME FirstSession, ~CyclesSchedules
      PROVE  /\ RatedWell(c.queue, top_rated, FALSE)
             /\ ~DisablesRedundant => NextWell(c.queue, c.pending, c.smallest)
  <2>1. RatedWell(queue, top_rated, score_changed)
    BY <1>3 DEF IInv, Rated
  <2>2. RatedWell(c.queue, top_rated, FALSE)
    BY <1>1, <2>1 DEF CulledTo
  <2>3. ASSUME ~DisablesRedundant
        PROVE  NextWell(c.queue, c.pending, c.smallest)
    <3>1. \A q \in Ids : queue[q].disabled => queue[q].was_fuzzed
      BY <2>3 DEF IInv, Control
    <3>2. NextWell(queue, pending_favored, smallest_favored)
      <4>1. NextCanBeCounted
        BY DEF IInv
      <4> QED
        BY <1>3, <2>3, <4>1 DEF NextCanBeCounted, NextWell
    <3> QED
      BY <1>1, <2>1, <2>3, <3>1, <3>2 DEF CulledTo
  <2> QED
    BY <2>2, <2>3
<1> QED
  BY <1>1, <1>2, <1>3 DEF c

\* cull_queue alone.
LEMMA CullOnlyStep ==
  ASSUME IInv, pc \in {"start", "top"}, pc' \in {"fatal", "top", "select"},
         UNCHANGED <<envVars, countVars, top_rated, queue_cur, dry_idx, stop_soon>>,
         queue' = Culled(Score).queue, SetFavoured(Culled(Score)),
         score_changed' = FALSE
  PROVE  IInv'
<1> DEFINE c == Culled(Score)
<1>1. /\ CulledTo(c) /\ MarksCulled(queue, c.queue)
      /\ FirstSession /\ ~CyclesSchedules =>
            /\ RatedWell(c.queue, top_rated, FALSE)
            /\ ~DisablesRedundant => NextWell(c.queue, c.pending, c.smallest)
  BY CulledFacts
<1>2. /\ queue' = c.queue
      /\ queued_favored' = c.queued /\ pending_favored' = c.pending
      /\ smallest_favored' = c.smallest
  BY DEF SetFavoured
<1> HIDE DEF c
<1>3. /\ GoodQueue(queue', top_rated') /\ Refs(queue', top_rated')
      /\ queued_favored' = Cardinality(Favs(queue'))
      /\ pending_favored' = Cardinality(Pends(queue'))
      /\ smallest_favored' \in {None} \cup Ids
  BY <1>1, <1>2 DEF CulledTo
<1>4. FirstSession /\ ~CyclesSchedules =>
         /\ RatedWell(queue', top_rated', score_changed')
         /\ ~DisablesRedundant =>
               NextWell(queue', pending_favored', smallest_favored')
  BY <1>1, <1>2
<1>5. score_changed' \in BOOLEAN /\ MarksCulled(queue, queue')
      /\ UNCHANGED <<envVars, countVars, queue_cur, dry_idx, stop_soon>>
  BY <1>1, <1>2
<1> QED
  BY <1>3, <1>4, <1>5, CullingStep

\* The first cull_queue.
LEMMA StartIInv == IInv /\ Start => IInv'
<1> SUFFICES ASSUME IInv, Start PROVE IInv'
  OBVIOUS
<1>1. /\ pc = "start" /\ pc' \in {"fatal", "top"} /\ score_changed' = FALSE
      /\ queue' = Culled(Score).queue /\ SetFavoured(Culled(Score))
      /\ UNCHANGED <<envVars, countVars, top_rated, queue_cur, dry_idx, stop_soon>>
  BY DEF Start
<1> QED
  BY <1>1, CullOnlyStep

\* cull_queue at the top of the main loop.
LEMMA TopOfLoopIInv == IInv /\ TopOfLoop => IInv'
<1> SUFFICES ASSUME IInv, TopOfLoop PROVE IInv'
  OBVIOUS
<1>1. /\ pc = "top" /\ pc' = "select" /\ score_changed' = FALSE
      /\ queue' = Culled(Score).queue /\ SetFavoured(Culled(Score))
      /\ UNCHANGED <<envVars, countVars, top_rated, queue_cur, dry_idx, stop_soon>>
  BY DEF TopOfLoop
<1> QED
  BY <1>1, CullOnlyStep

\* cull_queue and then a rating of all entries with a stale trace: the counts
\* and the references stay right.
LEMMA NewCycleIInv == IInv /\ NewCycle => IInv'
<1> SUFFICES ASSUME IInv, NewCycle PROVE IInv'
  OBVIOUS
<1> DEFINE c == Culled(Score)
           active == {q \in Ids : ~c.queue[q].disabled}
           s == [queue |-> c.queue, top |-> top_rated, changed |-> FALSE]
<1>1. /\ pc = "top" /\ pc' = "select" /\ "cycle_schedules" \in options
      /\ UNCHANGED <<envVars, countVars, queue_cur, dry_idx, stop_soon>>
      /\ SetFavoured(c)
  BY DEF NewCycle
<1>2. PICK trace_bits \in Residues : SetScore(UpdateAll(s, active, trace_bits))
  BY DEF NewCycle
<1>3. CulledTo(c) /\ MarksCulled(queue, c.queue)
  BY <1>1, CulledFacts
<1> HIDE DEF c
<1>4. /\ GoodQueue(s.queue, s.top) /\ Refs(s.queue, s.top)
      /\ s.changed \in BOOLEAN
  BY <1>3 DEF CulledTo
<1> DEFINE u == UpdateAll(s, active, trace_bits)
<1>5. /\ GoodQueue(u.queue, u.top) /\ Refs(u.queue, u.top)
      /\ OnlyRated(s.queue, u.queue) /\ u.changed \in BOOLEAN
  <2>1. trace_bits \in SUBSET Bytes
    BY QueueAssumption
  <2> HIDE DEF s, active
  <2> QED
    BY <1>4, <2>1, UpdateAllScore
<1>6. OnlyRated(c.queue, u.queue)
  BY <1>5
<1>7. queue' = u.queue /\ top_rated' = u.top /\ score_changed' = u.changed
  BY <1>2 DEF SetScore
<1>8. /\ queued_favored' = c.queued /\ pending_favored' = c.pending
      /\ smallest_favored' = c.smallest
  BY <1>1 DEF SetFavoured
<1> HIDE DEF u, s, active
<1>9. MarksCulled(queue, u.queue) /\ SameMarks(c.queue, u.queue)
  BY <1>3, <1>6 DEF MarksCulled, OnlyRated, SameMarks
<1>10. Favs(u.queue) = Favs(c.queue) /\ Pends(u.queue) = Pends(c.queue)
  BY <1>9, SameSets
<1>11. /\ queued_favored' = Cardinality(Favs(queue'))
       /\ pending_favored' = Cardinality(Pends(queue'))
       /\ smallest_favored' \in {None} \cup Ids
  BY <1>3, <1>7, <1>8, <1>10 DEF CulledTo
<1>12. CyclesSchedules
  BY <1>1 DEF CyclesSchedules
<1> QED
  BY <1>1, <1>5, <1>7, <1>9, <1>11, <1>12, CullingStep

-----------------------------------------------------------------------------
(* A new entry.                                                            *)

\* The score with one more entry, which has been calibrated or has failed.
AddedTo(w) ==
    /\ GoodQueue(w.queue, w.top) /\ Refs(w.queue, w.top)
    /\ w.changed \in BOOLEAN
    /\ Len(w.queue) = Len(queue) + 1
    /\ \A p \in Ids : /\ w.queue[p].disabled = queue[p].disabled
                      /\ w.queue[p].was_fuzzed = queue[p].was_fuzzed
                      /\ w.queue[p].favored = queue[p].favored
                      /\ w.queue[p].fuzz_level = queue[p].fuzz_level
                      /\ w.queue[p].cal_failed = queue[p].cal_failed
    /\ ~w.queue[Len(queue) + 1].disabled /\ ~w.queue[Len(queue) + 1].was_fuzzed
    /\ ~w.queue[Len(queue) + 1].favored
    /\ FirstSession /\ ~CyclesSchedules /\ pc # "exited" =>
          RatedWell(w.queue, w.top, w.changed)

\* The queue with one more entry.
LEMMA Appended ==
  ASSUME IInv, Len(queue) < MaxItems, NEW l \in Lengths
  PROVE  LET e == NewEntry(Len(queue) + 1, l)
             qv == Append(queue, e)
         IN  /\ e \in Entry /\ qv \in Seq(Entry)
             /\ Len(queue) + 1 \in 1..Len(qv)
             /\ GoodQueue(qv, top_rated) /\ Refs(qv, top_rated)
             /\ Len(qv) = Len(queue) + 1 /\ qv[Len(queue) + 1] = e
             /\ \A p \in 1..Len(queue) : qv[p] = queue[p]
             /\ \A b \in Bytes : top_rated[b] # Len(queue) + 1
             /\ FirstSession /\ ~CyclesSchedules /\ pc # "exited" =>
                   RatedWell(qv, top_rated, score_changed)
<1> DEFINE e == NewEntry(Len(queue) + 1, l)
           qv == Append(queue, e)
<1>1. GoodQueue(queue, top_rated) /\ Refs(queue, top_rated) /\ Len(queue) \in Nat
  BY Sound
<1>2. /\ GoodQueue(qv, top_rated) /\ Refs(qv, top_rated)
      /\ Len(qv) = Len(queue) + 1 /\ qv[Len(queue) + 1] = e
      /\ \A p \in 1..Len(queue) : qv[p] = queue[p]
      /\ \A b \in Bytes : top_rated[b] # Len(queue) + 1
  BY <1>1, AppendEntry
<1>3. ASSUME FirstSession, ~CyclesSchedules, pc # "exited"
      PROVE  RatedWell(qv, top_rated, score_changed)
  <2>1. RatedWell(queue, top_rated, score_changed)
    BY <1>3 DEF IInv, Rated
  <2> QED
    BY <1>1, <2>1, AppendEntry
<1>4. e \in Entry
  <2>1. Len(queue) + 1 \in TestCases
    BY <1>1, QueueAssumption DEF TestCases
  <2> QED
    BY <2>1, NewEntryType
<1> HIDE DEF qv, e
<1>5. qv \in Seq(Entry) /\ Len(queue) + 1 \in 1..Len(qv)
  BY <1>1, <1>2 DEF GoodQueue
<1> QED
  BY <1>2, <1>3, <1>4, <1>5 DEF qv, e

\* add_to_queue, and a first calibration that fails.
LEMMA AddedFailing ==
  ASSUME IInv, Len(queue) < MaxItems, NEW l \in Lengths
  PROVE  AddedTo(CalFailed([Score EXCEPT !.queue =
                               Append(@, NewEntry(Len(queue) + 1, l))],
                           Len(queue) + 1))
<1> DEFINE q == Len(queue) + 1
           s == [Score EXCEPT !.queue = Append(@, NewEntry(q, l))]
           e == NewEntry(q, l)
           qv == Append(queue, e)
           f == [e EXCEPT !.cal_failed = @ + 1]
           qw == [qv EXCEPT ![q] = f]
           w == CalFailed(s, q)
<1>1. /\ e \in Entry /\ qv \in Seq(Entry) /\ q \in 1..Len(qv)
      /\ GoodQueue(qv, top_rated) /\ Refs(qv, top_rated)
      /\ Len(qv) = Len(queue) + 1 /\ qv[q] = e
      /\ \A p \in 1..Len(queue) : qv[p] = queue[p]
      /\ \A b \in Bytes : top_rated[b] # q
      /\ FirstSession /\ ~CyclesSchedules /\ pc # "exited" =>
            RatedWell(qv, top_rated, score_changed)
  BY Appended
<1>2. /\ f.tc = e.tc /\ f.favored = e.favored
      /\ f.tc_ref = e.tc_ref /\ f.trace_mini = e.trace_mini
      /\ f.exec_us = e.exec_us
      /\ ~f.disabled /\ ~f.was_fuzzed /\ ~f.favored /\ e.cal_failed < CAL_CHANCES
  BY QueueAssumption DEF NewEntry
<1>3. s.queue = qv /\ s.top = top_rated /\ s.changed = score_changed
  BY DEF Score
<1> HIDE DEF e, qv
<1>4. f \in Entry
  BY <1>1, <1>2, EntryFailed
<1>5. w.queue = qw /\ w.top = top_rated /\ w.changed = score_changed
  <2>2. s = [queue |-> qv, top |-> top_rated, changed |-> score_changed]
    BY DEF Score, qv, e
  <2> HIDE DEF q, s
  <2>3. qv[q] = e /\ q \in DOMAIN qv
    BY <1>1
  <2> QED
    BY <2>2, <2>3 DEF CalFailed
<1> HIDE DEF f, w, s
<1>6. /\ GoodQueue(qw, top_rated) /\ Refs(qw, top_rated)
      /\ Len(qw) = Len(qv) /\ qw[q] = f
      /\ \A p \in 1..Len(qv) : p # q => qw[p] = qv[p]
  <2> HIDE DEF q
  <2>1. qv[q] = e
    BY <1>1
  <2>2. /\ f.tc = qv[q].tc /\ f.favored = qv[q].favored
        /\ f.tc_ref = qv[q].tc_ref /\ f.trace_mini = qv[q].trace_mini
    BY <1>2, <2>1
  <2>3. GoodQueue(qv, top_rated) /\ Refs(qv, top_rated) /\ q \in 1..Len(qv)
        /\ qv \in Seq(Entry)
    BY <1>1
  <2>4. GoodQueue(qw, top_rated) /\ Refs(qw, top_rated)
    BY <1>4, <2>2, <2>3, ReplaceEntry
  <2>5. /\ Len(qw) = Len(qv) /\ qw[q] = f
        /\ \A p \in 1..Len(qv) : p # q => qw[p] = qv[p]
    BY <1>4, <2>3, ExceptSeq
  <2> QED
    BY <2>4, <2>5
<1>7. FirstSession /\ ~CyclesSchedules /\ pc # "exited" =>
         RatedWell(qw, top_rated, score_changed)
  <2> HIDE DEF q
  <2>1. qv[q] = e
    BY <1>1
  <2> QED
    BY <1>1, <1>2, <1>4, <2>1, ReplaceEntry
<1> HIDE DEF qw
<1>8. Len(queue) \in Nat /\ Ids = 1..Len(queue) /\ score_changed \in BOOLEAN
  BY Sound
<1>9. \A p \in Ids : qw[p] = queue[p]
  <2> SUFFICES ASSUME NEW p \in Ids PROVE qw[p] = queue[p]
    OBVIOUS
  <2>1. p \in 1..Len(qv) /\ p # q /\ p \in 1..Len(queue)
    BY <1>1, <1>8
  <2> QED
    BY <1>1, <1>6, <2>1
<1>10. AddedTo(w)
  BY <1>1, <1>2, <1>5, <1>6, <1>7, <1>8, <1>9 DEF AddedTo
<1> QED
  BY <1>10 DEF w, s

\* add_to_queue, and a first calibration that succeeds.
LEMMA AddedCalibrated ==
  ASSUME IInv, Len(queue) < MaxItems, NEW l \in Lengths, NEW us \in Times
  PROVE  AddedTo(Calibrated([Score EXCEPT !.queue =
                                Append(@, NewEntry(Len(queue) + 1, l))],
                            Len(queue) + 1, us))
<1> DEFINE q == Len(queue) + 1
           s == [Score EXCEPT !.queue = Append(@, NewEntry(q, l))]
           e == NewEntry(q, l)
           qv == Append(queue, e)
           f == [e EXCEPT !.exec_us = us, !.cal_failed = 0]
           qw == [qv EXCEPT ![q] = f]
           r == [queue |-> qw, top |-> top_rated, changed |-> score_changed]
           w == Calibrated(s, q, us)
           trace == traces[q]
<1>1. /\ e \in Entry /\ qv \in Seq(Entry) /\ q \in 1..Len(qv)
      /\ GoodQueue(qv, top_rated) /\ Refs(qv, top_rated)
      /\ Len(qv) = Len(queue) + 1 /\ qv[q] = e
      /\ \A p \in 1..Len(queue) : qv[p] = queue[p]
      /\ \A b \in Bytes : top_rated[b] # q
      /\ FirstSession /\ ~CyclesSchedules /\ pc # "exited" =>
            RatedWell(qv, top_rated, score_changed)
  BY Appended
<1>2. /\ f.tc = e.tc /\ f.favored = e.favored
      /\ f.tc_ref = e.tc_ref /\ f.trace_mini = e.trace_mini
      /\ ~f.disabled /\ ~f.was_fuzzed /\ ~f.favored /\ f.cal_failed = 0
      /\ f.tc = q
  BY DEF NewEntry
<1> HIDE DEF e, qv, q
<1>3. s = [queue |-> qv, top |-> top_rated, changed |-> score_changed]
  BY DEF Score, qv, e
<1> HIDE DEF s
<1>4. f \in Entry
  BY <1>1, EntryCalibrated
<1>5. w = UpdateBitmapScore(r, q, traces[r.queue[q].tc])
  <2>1. qv[q] = e /\ q \in DOMAIN qv /\ qv[q].tc = f.tc
    BY <1>1, <1>2
  <2>2. [s EXCEPT !.queue[q].exec_us = us, !.queue[q].cal_failed = 0] = r
    <3> DEFINE e1 == [e EXCEPT !.exec_us = us]
               qv1 == [qv EXCEPT ![q] = e1]
               s1 == [queue |-> qv1, top |-> top_rated, changed |-> score_changed]
    <3>1. [s EXCEPT !.queue[q].exec_us = us] = s1
      BY <1>3, <2>1
    <3>2. qv1[q] = e1 /\ q \in DOMAIN qv1 /\ [qv1 EXCEPT ![q] = f] = qw
      BY <2>1
    <3>3. [e1 EXCEPT !.cal_failed = 0] = f
      OBVIOUS
    <3> HIDE DEF e1, qv1, f, qw
    <3>4. [s1 EXCEPT !.queue[q].cal_failed = 0] = r
      BY <3>2, <3>3
    <3> QED
      BY <3>1, <3>4
  <2>3. s.queue[q].tc = q /\ r.queue[q].tc = q
    BY <1>2, <1>3, <2>1
  <2> HIDE DEF r
  <2> QED
    BY <2>2, <2>3 DEF Calibrated
<1> HIDE DEF f, w
<1>6. /\ GoodQueue(qw, top_rated) /\ Refs(qw, top_rated)
      /\ Len(qw) = Len(qv) /\ qw[q] = f
      /\ \A p \in 1..Len(qv) : p # q => qw[p] = qv[p]
  <2>1. qv[q] = e
    BY <1>1
  <2>2. /\ f.tc = qv[q].tc /\ f.favored = qv[q].favored
        /\ f.tc_ref = qv[q].tc_ref /\ f.trace_mini = qv[q].trace_mini
    BY <1>2, <2>1
  <2>3. GoodQueue(qv, top_rated) /\ Refs(qv, top_rated) /\ q \in 1..Len(qv)
        /\ qv \in Seq(Entry)
    BY <1>1
  <2>4. GoodQueue(qw, top_rated) /\ Refs(qw, top_rated)
    BY <1>4, <2>2, <2>3, ReplaceEntry
  <2>5. /\ Len(qw) = Len(qv) /\ qw[q] = f
        /\ \A p \in 1..Len(qv) : p # q => qw[p] = qv[p]
    BY <1>4, <2>3, ExceptSeq
  <2> QED
    BY <2>4, <2>5
<1> HIDE DEF qw
<1>7. /\ Len(queue) \in Nat /\ Ids = 1..Len(queue) /\ score_changed \in BOOLEAN
      /\ traces \in TraceChoices
  BY Sound
<1>8. \A p \in Ids : qw[p] = queue[p] /\ p \in 1..Len(qw)
  <2> SUFFICES ASSUME NEW p \in Ids PROVE qw[p] = queue[p] /\ p \in 1..Len(qw)
    OBVIOUS
  <2>1. p \in 1..Len(qv) /\ p # q /\ p \in 1..Len(queue)
    BY <1>1, <1>7 DEF q
  <2> QED
    BY <1>1, <1>6, <2>1
<1>9. /\ r.queue = qw /\ r.top = top_rated /\ r.changed = score_changed
      /\ q \in 1..Len(qw)
  BY <1>1, <1>6
<1> HIDE DEF r
<1>10. /\ GoodQueue(r.queue, r.top) /\ Refs(r.queue, r.top)
       /\ r.changed \in BOOLEAN /\ q \in 1..Len(r.queue)
  BY <1>6, <1>7, <1>9
<1>11. /\ GoodQueue(w.queue, w.top) /\ Refs(w.queue, w.top)
       /\ w.changed \in BOOLEAN
       /\ OnlyRated(r.queue, w.queue)
  BY <1>5, <1>7, <1>10, RateOwnTrace
<1>12. ASSUME FirstSession, ~CyclesSchedules, pc # "exited"
       PROVE  RatedWell(w.queue, w.top, w.changed)
  <2>1. RatedWell(qv, top_rated, score_changed)
    BY <1>1, <1>12
  <2>2. \A b \in Bytes : top_rated[b] # None => top_rated[b] \in 1..Len(qv)
    BY <1>1 DEF GoodQueue
  <2>3. \A p \in 1..Len(qw) : /\ qw[p].tc = qv[p].tc
                              /\ qw[p].trace_mini = qv[p].trace_mini
                              /\ qw[p].favored = qv[p].favored
    BY <1>1, <1>2, <1>6
  <2>4. \A b \in Bytes : r.top[b] # None =>
           /\ r.queue[r.top[b]].cal_failed = 0
           /\ b \in traces[r.queue[r.top[b]].tc]
    BY <1>1, <1>6, <1>9, <2>1, <2>2, <2>3 DEF RatedWell
  <2>5. \A p \in 1..Len(r.queue) :
           r.queue[p].trace_mini \in {{}, traces[r.queue[p].tc]}
    BY <1>6, <1>9, <2>1, <2>3 DEF RatedWell
  <2>6. \A p \in 1..Len(r.queue) :
           p # q /\ r.queue[p].exec_us > 0 =>
              \A b \in traces[r.queue[p].tc] : r.top[b] # None
    BY <1>6, <1>9, <2>1 DEF RatedWell
  <2>7. ~r.changed =>
           \A b \in Bytes : r.top[b] # None =>
              \E g \in 1..Len(r.queue) :
                 r.queue[g].favored /\ b \in traces[r.queue[g].tc]
    BY <1>6, <1>9, <2>1, <2>3 DEF RatedWell
  <2>8. r.queue[q].cal_failed = 0
    BY <1>2, <1>6, <1>9
  <2> QED
    BY <1>5, <1>7, <1>10, <2>4, <2>5, <2>6, <2>7, <2>8, RateOwnTrace
<1>13. \A p \in 1..Len(qw) : /\ w.queue[p].disabled = qw[p].disabled
                             /\ w.queue[p].was_fuzzed = qw[p].was_fuzzed
                             /\ w.queue[p].favored = qw[p].favored
                             /\ w.queue[p].fuzz_level = qw[p].fuzz_level
                             /\ w.queue[p].cal_failed = qw[p].cal_failed
  BY <1>9, <1>11 DEF OnlyRated
<1>14. Len(w.queue) = Len(queue) + 1
  BY <1>1, <1>6, <1>9, <1>11 DEF OnlyRated
<1>15. ~w.queue[q].disabled /\ ~w.queue[q].was_fuzzed /\ ~w.queue[q].favored
  BY <1>2, <1>6, <1>9, <1>13
<1>16. AddedTo(w)
  <2>1. \A p \in Ids : /\ w.queue[p].disabled = queue[p].disabled
                       /\ w.queue[p].was_fuzzed = queue[p].was_fuzzed
                       /\ w.queue[p].favored = queue[p].favored
                       /\ w.queue[p].fuzz_level = queue[p].fuzz_level
                       /\ w.queue[p].cal_failed = queue[p].cal_failed
    BY <1>8, <1>13
  <2> QED
    BY <1>11, <1>12, <1>14, <1>15, <2>1 DEF AddedTo, q
<1> QED
  BY <1>16 DEF w, s, q

\* A find adds one to what is active and to what waits.
LEMMA FindIInv == IInv /\ Find => IInv'
<1> SUFFICES ASSUME IInv, Find PROVE IInv'
  OBVIOUS
<1>1. /\ pc \in {"stages", "top"} /\ pc' = pc /\ Len(queue) < MaxItems
      /\ traces' = traces /\ options' = options /\ resumes' = resumes
      /\ queued_favored' = queued_favored /\ pending_favored' = pending_favored
      /\ smallest_favored' = smallest_favored
      /\ pending_not_fuzzed' = pending_not_fuzzed + 1
      /\ active_items' = active_items + 1
      /\ queue_cur' = queue_cur /\ dry_idx' = dry_idx /\ stop_soon' = stop_soon
  BY DEF Find, envVars, favVars
<1> DEFINE q == Len(queue) + 1
           s(l) == [Score EXCEPT !.queue = Append(@, NewEntry(q, l))]
<1>2. \E w : AddedTo(w) /\ SetScore(w)
  <2>1. PICK l \in Lengths :
           \/ SetScore(CalFailed(s(l), q))
           \/ \E us \in Times : SetScore(Calibrated(s(l), q, us))
    BY DEF Find
  <2>2. CASE SetScore(CalFailed(s(l), q))
    <3>1. AddedTo(CalFailed(s(l), q))
      BY <1>1, AddedFailing
    <3> HIDE DEF s, q
    <3> QED
      BY <2>2, <3>1
  <2>3. CASE \E us \in Times : SetScore(Calibrated(s(l), q, us))
    <3>1. PICK us \in Times : SetScore(Calibrated(s(l), q, us))
      BY <2>3
    <3>2. AddedTo(Calibrated(s(l), q, us))
      BY <1>1, AddedCalibrated
    <3> HIDE DEF s, q
    <3> QED
      BY <3>1, <3>2
  <2> QED
    BY <2>1, <2>2, <2>3
<1>3. PICK w : AddedTo(w) /\ SetScore(w)
  BY <1>2
<1>4. queue' = w.queue /\ top_rated' = w.top /\ score_changed' = w.changed
  BY <1>3 DEF SetScore
<1>5. /\ GoodQueue(queue', top_rated') /\ Refs(queue', top_rated')
      /\ score_changed' \in BOOLEAN
      /\ Len(queue') = Len(queue) + 1
      /\ \A p \in Ids : /\ queue'[p].disabled = queue[p].disabled
                        /\ queue'[p].was_fuzzed = queue[p].was_fuzzed
                        /\ queue'[p].favored = queue[p].favored
                        /\ queue'[p].fuzz_level = queue[p].fuzz_level
                        /\ queue'[p].cal_failed = queue[p].cal_failed
      /\ ~queue'[q].disabled /\ ~queue'[q].was_fuzzed /\ ~queue'[q].favored
      /\ FirstSession /\ ~CyclesSchedules =>
            RatedWell(queue', top_rated', score_changed')
  BY <1>1, <1>3, <1>4 DEF AddedTo
<1>6. /\ TypeOK /\ Counts(queue) /\ Control /\ NextCanBeCounted
      /\ Len(queue) \in Nat /\ Ids = 1..Len(queue)
  BY Sound DEF IInv
<1>7. /\ Ids' = Ids \cup {q} /\ Ids' = 1..q /\ q \notin Ids
      /\ 1..Len(queue') = 1..Len(queue) \cup {q}
  BY <1>5, <1>6 DEF Ids
<1>8. /\ Active(queue') = Active(queue) \cup {q}
      /\ Waiting(queue') = Waiting(queue) \cup {q}
      /\ Favs(queue') = Favs(queue) /\ Pends(queue') = Pends(queue)
  <2> HIDE DEF q
  <2> QED
    BY <1>5, <1>6, <1>7 DEF Active, Waiting, Favs, Pends
<1>9. /\ Cardinality(Active(queue')) = Cardinality(Active(queue)) + 1
      /\ Cardinality(Waiting(queue')) = Cardinality(Waiting(queue)) + 1
      /\ Cardinality(Active(queue)) \in Nat /\ Cardinality(Waiting(queue)) \in Nat
  <2>1. Active(queue) \in SUBSET (1..Len(queue)) /\ Waiting(queue) \in SUBSET (1..Len(queue))
    BY DEF Active, Waiting
  <2> QED
    BY <1>6, <1>8, <2>1, OneMore
<1>10. active_items \in Nat /\ pending_not_fuzzed \in Nat
  BY <1>6 DEF TypeOK
<1>11. Counts(queue)'
  <2>1. ~DisablesRedundant' => ~DisablesRedundant
    BY <1>1 DEF DisablesRedundant
  <2>2. /\ active_items' >= Cardinality(Active(queue')) /\ active_items' <= Len(queue')
        /\ pending_not_fuzzed' >= Cardinality(Waiting(queue'))
        /\ pending_not_fuzzed' <= Len(queue')
    BY <1>1, <1>5, <1>6, <1>9, <1>10 DEF Counts
  <2>3. pc' # "exited" /\ ~DisablesRedundant' =>
           /\ active_items' = Cardinality(Active(queue'))
           /\ pending_not_fuzzed' = Cardinality(Waiting(queue'))
    BY <1>1, <1>6, <1>9, <1>10, <2>1 DEF Counts
  <2>4. /\ queued_favored' = Cardinality(Favs(queue'))
        /\ pending_favored' = Cardinality(Pends(queue'))
    BY <1>1, <1>6, <1>8 DEF Counts
  <2> QED
    BY <2>2, <2>3, <2>4 DEF Counts
<1>12. TypeOK'
  <2>1. dry_idx' \in 1..Len(queue') + 1
    <3>1. dry_idx \in 1..Len(queue) + 1
      BY <1>6 DEF TypeOK
    <3> QED
      BY <1>1, <1>5, <1>6, <3>1
  <2>2. ControlTypes'
    <3> HIDE DEF q
    <3> QED
      BY <1>1, <1>6, <1>7, <2>1 DEF TypeOK, ControlTypes
  <2>3. active_items' \in Int /\ pending_not_fuzzed' \in Int
    BY <1>1, <1>10
  <2> QED
    BY <1>5, <1>11, <2>2, <2>3, TypesAfter
<1> HIDE DEF q
<1>13. Control'
  <2>1. pc' \in {"fuzz_one", "trim", "stages", "abandon"} =>
           queue_cur' \in Ids' /\ queue'[queue_cur'].fuzz_level < MaxLevel
    BY <1>1, <1>5, <1>7, ControlFacts
  <2>2. ~DisablesRedundant' =>
           \A p \in Ids' : queue'[p].disabled => queue'[p].was_fuzzed
    <3>1. ~DisablesRedundant' => ~DisablesRedundant
      BY <1>1 DEF DisablesRedundant
    <3>2. ~DisablesRedundant => \A p \in Ids : queue[p].disabled => queue[p].was_fuzzed
      BY <1>6 DEF Control
    <3> QED
      BY <1>5, <1>7, <3>1, <3>2
  <2> QED
    BY <1>1, <2>1, <2>2 DEF Control, Cur
<1>14. NextCanBeCounted'
  <2>1. smallest_favored \in {None} \cup Ids
    BY <1>6 DEF TypeOK
  <2> QED
    BY <1>1, <1>5, <1>6, <2>1 DEF NextCanBeCounted, FirstSession,
                                  DisablesRedundant, CyclesSchedules
<1>15. Rated'
  BY <1>1, <1>5 DEF Rated, FirstSession, CyclesSchedules, RatedWell
<1> QED
  BY <1>5, <1>11, <1>12, <1>13, <1>14, <1>15 DEF IInv

-----------------------------------------------------------------------------
(* The end of a turn.                                                      *)

\* The queue after abandon_entry.
TurnEnded ==
    [queue EXCEPT ![queue_cur].fuzz_level = @ + 1,
                  ![queue_cur].was_fuzzed = @ \/ CountsAsFuzzed]

\* Only the entry of the turn changes.
LEMMA AbandonedQueue ==
  ASSUME IInv, pc \in {"stages", "abandon"}
  PROVE  /\ queue_cur \in Ids
         /\ TurnEnded \in Seq(Entry) /\ SameButFuzzed(queue, TurnEnded)
         /\ \A p \in Ids :
               /\ TurnEnded[p].disabled = queue[p].disabled
               /\ p # queue_cur => TurnEnded[p] = queue[p]
         /\ TurnEnded[queue_cur].was_fuzzed
               = (queue[queue_cur].was_fuzzed \/ CountsAsFuzzed)
<1> DEFINE q == queue_cur
           e == [queue[q] EXCEPT !.fuzz_level = @ + 1,
                                 !.was_fuzzed = @ \/ CountsAsFuzzed]
           qv == [queue EXCEPT ![q] = e]
<1>1. /\ q \in Ids /\ queue[q].fuzz_level < MaxLevel
  BY ControlFacts
<1>2. /\ queue \in Seq(Entry) /\ Ids = 1..Len(queue) /\ Len(queue) \in Nat
      /\ q \in 1..Len(queue) /\ queue[q] \in Entry
  BY <1>1, Sound
<1>3. (queue[q].was_fuzzed \/ CountsAsFuzzed) \in BOOLEAN
  OBVIOUS
<1>4. e \in Entry
  BY <1>1, <1>2, <1>3, EntryFuzzed
<1>5. TurnEnded = qv
  <2>1. q \in DOMAIN queue
    BY <1>2
  <2> QED
    BY <2>1 DEF TurnEnded
<1>6. /\ e.tc = queue[q].tc /\ e.exec_us = queue[q].exec_us
      /\ e.cal_failed = queue[q].cal_failed /\ e.favored = queue[q].favored
      /\ e.tc_ref = queue[q].tc_ref /\ e.trace_mini = queue[q].trace_mini
      /\ e.disabled = queue[q].disabled
      /\ e.was_fuzzed = (queue[q].was_fuzzed \/ CountsAsFuzzed)
  BY <1>2 DEF Entry
<1> HIDE DEF e, q
<1>7. /\ qv \in Seq(Entry) /\ Len(qv) = Len(queue) /\ qv[q] = e
      /\ \A p \in 1..Len(queue) : p # q => qv[p] = queue[p]
  BY <1>2, <1>4, ExceptSeq
<1> HIDE DEF qv
<1>8. SameButFuzzed(queue, qv)
  BY <1>2, <1>6, <1>7 DEF SameButFuzzed
<1>9. \A p \in Ids : /\ qv[p].disabled = queue[p].disabled
                     /\ p # q => qv[p] = queue[p]
  BY <1>2, <1>6, <1>7
<1>10. qv[q].was_fuzzed = (queue[q].was_fuzzed \/ CountsAsFuzzed)
  BY <1>6, <1>7
<1> QED
  BY <1>1, <1>5, <1>7, <1>8, <1>9, <1>10 DEF q

\* abandon_entry counts an entry at most once, and takes it off the pending
\* favourites only if it was one of these.
LEMMA AbandonIInv == IInv /\ Abandon => IInv'
<1> SUFFICES ASSUME IInv, Abandon PROVE IInv'
  OBVIOUS
<1>1. /\ pc \in {"stages", "abandon"} /\ pc' \in {"top", "select"}
      /\ traces' = traces /\ options' = options /\ resumes' = resumes
      /\ queued_favored' = queued_favored
      /\ active_items' = active_items
      /\ top_rated' = top_rated /\ score_changed' = score_changed
      /\ queue_cur' = queue_cur /\ dry_idx' = dry_idx /\ stop_soon' = stop_soon
      /\ queue' = TurnEnded
  BY DEF Abandon, TurnEnded, envVars, AfterSkip
<1>2. IF CountsAsFuzzed
      THEN /\ pending_not_fuzzed' = pending_not_fuzzed - 1
           /\ pending_favored' = PendingFavoured
           /\ smallest_favored' = NextFavoured
      ELSE /\ pending_not_fuzzed' = pending_not_fuzzed
           /\ pending_favored' = pending_favored
           /\ smallest_favored' = smallest_favored
  BY DEF Abandon
<1>3. /\ queue_cur \in Ids
      /\ TurnEnded \in Seq(Entry) /\ SameButFuzzed(queue, TurnEnded)
      /\ \A p \in Ids : /\ TurnEnded[p].disabled = queue[p].disabled
                        /\ p # queue_cur => TurnEnded[p] = queue[p]
      /\ TurnEnded[queue_cur].was_fuzzed
            = (queue[queue_cur].was_fuzzed \/ CountsAsFuzzed)
  BY <1>1, AbandonedQueue
<1>4. /\ GoodQueue(queue, top_rated) /\ Refs(queue, top_rated)
      /\ score_changed \in BOOLEAN /\ Ids = 1..Len(queue)
      /\ Len(queue) \in Nat
      /\ TypeOK /\ Counts(queue) /\ Control /\ NextCanBeCounted
  BY Sound DEF IInv
<1>5. /\ GoodQueue(queue', top_rated') /\ Refs(queue', top_rated')
      /\ \A changed : RatedWell(queue, top_rated, changed)
            => RatedWell(queue', top_rated, changed)
  BY <1>1, <1>3, <1>4, FuzzedWell
<1>6. Len(queue') = Len(queue) /\ Ids' = Ids
  BY <1>1, <1>3 DEF SameButFuzzed, Ids
<1>7. /\ \A p \in Ids : /\ queue'[p].disabled = queue[p].disabled
                        /\ queue'[p].favored = queue[p].favored
                        /\ queue'[p].cal_failed = queue[p].cal_failed
                        /\ p # queue_cur => queue'[p] = queue[p]
      /\ queue'[queue_cur].was_fuzzed
            = (queue[queue_cur].was_fuzzed \/ CountsAsFuzzed)
  BY <1>1, <1>3, <1>4 DEF SameButFuzzed
<1>8. Active(queue') = Active(queue) /\ Favs(queue') = Favs(queue)
  BY <1>4, <1>6, <1>7 DEF Active, Favs
<1>9. /\ active_items \in Nat /\ pending_not_fuzzed \in Nat
      /\ pending_favored \in Nat /\ smallest_favored \in {None} \cup Ids
  BY <1>4 DEF TypeOK
<1>10. ASSUME CountsAsFuzzed
       PROVE  /\ pending_not_fuzzed' = pending_not_fuzzed - 1
              /\ Cardinality(Waiting(queue')) = Cardinality(Waiting(queue)) - 1
              /\ pending_favored' = Cardinality(Pends(queue'))
              /\ Cardinality(Waiting(queue)) \in Nat
              /\ smallest_favored' \in {None, smallest_favored}
              /\ pending_favored' > 0 /\ smallest_favored' # None
                 => pending_favored > 0 /\ ~queue[queue_cur].favored
  <2>1. /\ ~queue[queue_cur].was_fuzzed /\ ~queue[queue_cur].disabled
    BY <1>10 DEF CountsAsFuzzed, Cur
  <2>2. Waiting(queue') = Waiting(queue) \ {queue_cur} /\ queue_cur \in Waiting(queue)
    BY <1>3, <1>4, <1>6, <1>7, <1>10, <2>1 DEF Waiting
  <2>3. /\ Cardinality(Waiting(queue')) = Cardinality(Waiting(queue)) - 1
        /\ Cardinality(Waiting(queue)) \in Nat
    <3>1. Waiting(queue) \in SUBSET (1..Len(queue))
      BY DEF Waiting
    <3> QED
      BY <1>4, <2>2, <3>1, OneLess
  <2>4. CASE queue[queue_cur].favored
    <3>1. /\ Pends(queue') = Pends(queue) \ {queue_cur}
          /\ queue_cur \in Pends(queue)
      BY <1>3, <1>4, <1>6, <1>7, <1>10, <2>1, <2>4 DEF Pends
    <3>2. Pends(queue) \in SUBSET (1..Len(queue))
      BY DEF Pends
    <3>3. Cardinality(Pends(queue')) = Cardinality(Pends(queue)) - 1
      BY <1>4, <3>1, <3>2, OneLess
    <3>4. pending_favored = Cardinality(Pends(queue))
      BY <1>4 DEF Counts
    <3>5. pending_favored' = pending_favored - 1 /\ smallest_favored' = None
      BY <1>2, <1>10, <2>4 DEF PendingFavoured, NextFavoured, Cur
    <3> QED
      BY <1>2, <1>10, <2>3, <3>3, <3>4, <3>5
  <2>5. CASE ~queue[queue_cur].favored
    <3>1. Pends(queue') = Pends(queue)
      BY <1>3, <1>4, <1>6, <1>7, <2>5 DEF Pends
    <3>2. pending_favored = Cardinality(Pends(queue))
      BY <1>4 DEF Counts
    <3>3. /\ pending_favored' = pending_favored
          /\ smallest_favored' = smallest_favored
      BY <1>2, <1>10, <2>5 DEF PendingFavoured, NextFavoured, Cur
    <3> QED
      BY <1>2, <1>10, <2>3, <2>5, <3>1, <3>2, <3>3
  <2> QED
    BY <2>4, <2>5
<1>11. ASSUME ~CountsAsFuzzed
       PROVE  /\ pending_not_fuzzed' = pending_not_fuzzed
              /\ Waiting(queue') = Waiting(queue)
              /\ pending_favored' = Cardinality(Pends(queue'))
              /\ pending_favored' = pending_favored
              /\ smallest_favored' = smallest_favored
              /\ \A p \in Ids : queue'[p].was_fuzzed = queue[p].was_fuzzed
  <2>1. \A p \in Ids : queue'[p].was_fuzzed = queue[p].was_fuzzed
    <3>1. queue[queue_cur] \in Entry
      BY <1>3, Sound
    <3>2. queue'[queue_cur].was_fuzzed = queue[queue_cur].was_fuzzed
      BY <1>7, <1>11, <3>1 DEF Entry
    <3> QED
      BY <1>7, <3>2
  <2>2. Waiting(queue') = Waiting(queue) /\ Pends(queue') = Pends(queue)
    BY <1>4, <1>6, <1>7, <2>1 DEF Waiting, Pends
  <2>3. pending_favored = Cardinality(Pends(queue))
    BY <1>4 DEF Counts
  <2> QED
    BY <1>2, <1>11, <2>1, <2>2, <2>3
<1>12. Counts(queue)'
  <2>1. ~DisablesRedundant' => ~DisablesRedundant
    BY <1>1 DEF DisablesRedundant
  <2>2. active_items' >= Cardinality(Active(queue')) /\ active_items' <= Len(queue')
    BY <1>1, <1>4, <1>6, <1>8 DEF Counts
  <2>3. /\ pending_not_fuzzed' >= Cardinality(Waiting(queue'))
        /\ pending_not_fuzzed' <= Len(queue')
    BY <1>4, <1>6, <1>9, <1>10, <1>11 DEF Counts
  <2>4. pc' # "exited" /\ ~DisablesRedundant' =>
           /\ active_items' = Cardinality(Active(queue'))
           /\ pending_not_fuzzed' = Cardinality(Waiting(queue'))
    BY <1>1, <1>4, <1>8, <1>9, <1>10, <1>11, <2>1 DEF Counts
  <2>5. /\ queued_favored' = Cardinality(Favs(queue'))
        /\ pending_favored' = Cardinality(Pends(queue'))
    BY <1>1, <1>4, <1>8, <1>10, <1>11 DEF Counts
  <2> QED
    BY <2>2, <2>3, <2>4, <2>5 DEF Counts
<1>13. smallest_favored' \in {None} \cup Ids
  BY <1>9, <1>10, <1>11
<1>14. TypeOK'
  <2>1. ControlTypes'
    BY <1>1, <1>4, <1>6, <1>13 DEF TypeOK, ControlTypes
  <2>2. active_items' \in Int /\ pending_not_fuzzed' \in Int
    BY <1>1, <1>9, <1>10, <1>11
  <2>3. score_changed' \in BOOLEAN
    BY <1>1, <1>4
  <2> QED
    BY <1>5, <1>12, <2>1, <2>2, <2>3, TypesAfter
<1>15. Control'
  <2>1. ~DisablesRedundant' =>
           \A p \in Ids' : queue'[p].disabled => queue'[p].was_fuzzed
    <3>1. ~DisablesRedundant' => ~DisablesRedundant
      BY <1>1 DEF DisablesRedundant
    <3>2. ~DisablesRedundant => \A p \in Ids : queue[p].disabled => queue[p].was_fuzzed
      BY <1>4 DEF Control
    <3> QED
      BY <1>6, <1>7, <3>1, <3>2
  <2> QED
    BY <1>1, <2>1 DEF Control
<1>16. NextCanBeCounted'
  <2> SUFFICES ASSUME FirstSession', ~DisablesRedundant', ~CyclesSchedules',
                      pending_favored' > 0, smallest_favored' # None
               PROVE  /\ queue'[smallest_favored'].favored
                      /\ ~queue'[smallest_favored'].was_fuzzed
                      /\ ~queue'[smallest_favored'].disabled
                      /\ queue'[smallest_favored'].cal_failed = 0
    BY DEF NextCanBeCounted
  <2>1. smallest_favored' = smallest_favored /\ smallest_favored \in Ids
        /\ smallest_favored # None /\ pending_favored > 0
    BY <1>9, <1>10, <1>11
  <2>2. /\ queue[smallest_favored].favored /\ ~queue[smallest_favored].was_fuzzed
        /\ ~queue[smallest_favored].disabled
        /\ queue[smallest_favored].cal_failed = 0
    <3>1. FirstSession /\ ~DisablesRedundant /\ ~CyclesSchedules
      BY <1>1 DEF FirstSession, DisablesRedundant, CyclesSchedules
    <3> QED
      BY <1>4, <2>1, <3>1 DEF NextCanBeCounted
  <2>3. ~queue'[smallest_favored].was_fuzzed
    <3>1. CASE CountsAsFuzzed
      <4>1. smallest_favored # queue_cur
        BY <1>10, <2>2, <3>1
      <4> QED
        BY <1>7, <2>1, <2>2, <4>1
    <3>2. CASE ~CountsAsFuzzed
      BY <1>11, <2>1, <2>2, <3>2
    <3> QED
      BY <3>1, <3>2
  <2> QED
    BY <1>7, <2>1, <2>2, <2>3
<1>17. Rated'
  <2>1. Rated
    BY DEF IInv
  <2> QED
    BY <1>1, <1>5, <2>1 DEF Rated, FirstSession, CyclesSchedules, RatedWell
<1> QED
  BY <1>5, <1>12, <1>14, <1>15, <1>16, <1>17 DEF IInv

-----------------------------------------------------------------------------
(* The end of a session and the next one.                                  *)

\* Nobody holds a byte any more, and the counters are those of a queue that is
\* read anew.
LEMMA ExitIInv == IInv /\ Exit => IInv'
<1> SUFFICES ASSUME IInv, Exit PROVE IInv'
  OBVIOUS
<1>1. /\ pc' = "exited" /\ top_rated' = [b \in Bytes |-> None]
      /\ score_changed' = FALSE /\ queue_cur' = None
      /\ pending_not_fuzzed' = Len(queue) /\ active_items' = Len(queue)
      /\ traces' = traces /\ options' = options /\ resumes' = resumes
      /\ queued_favored' = queued_favored /\ pending_favored' = pending_favored
      /\ smallest_favored' = smallest_favored
      /\ queue' = queue /\ dry_idx' = dry_idx /\ stop_soon' = stop_soon
  BY DEF Exit, envVars, favVars
<1>2. /\ GoodQueue(queue, top_rated) /\ Refs(queue, top_rated)
      /\ Ids = 1..Len(queue) /\ Len(queue) \in Nat /\ Ids' = Ids
      /\ TypeOK /\ Counts(queue) /\ Control /\ NextCanBeCounted
  BY <1>1, Sound DEF IInv, Ids
<1>3. GoodQueue(queue', top_rated')
  BY <1>1, <1>2 DEF GoodQueue
<1>4. Refs(queue', top_rated')
  <2>1. \A q \in 1..Len(queue) : /\ queue[q].tc_ref \in Nat
                                 /\ (queue[q].tc_ref > 0) <=> (queue[q].trace_mini # {})
    <3>1. \A q \in 1..Len(queue) : queue[q] \in Entry
      BY <1>2, Sound
    <3> QED
      BY <1>2, <3>1 DEF Refs, Entry
  <2>2. \A q \in 1..Len(queue) : Held(top_rated', q) = {}
    BY <1>1, <1>2 DEF Held, None
  <2>3. Cardinality({}) = 0
    BY FS_EmptySet
  <2>4. \A q \in 1..Len(queue) : Cardinality(Held(top_rated', q)) = 0
    BY <2>2, <2>3
  <2>5. Refs(queue, top_rated')
    BY <2>1, <2>4 DEF Refs
  <2> QED
    BY <1>1, <2>5
<1>5. Counts(queue)'
  <2>1. /\ Cardinality(Active(queue)) \in 0..Len(queue)
        /\ Cardinality(Waiting(queue)) \in 0..Len(queue)
    BY <1>2, CardTypes
  <2> QED
    BY <1>1, <1>2, <2>1 DEF Counts
<1>6. TypeOK'
  <2>1. ControlTypes'
    BY <1>1, <1>2 DEF TypeOK, ControlTypes
  <2>2. active_items' = Len(queue) /\ pending_not_fuzzed' = Len(queue)
    BY <1>1
  <2>3. active_items' \in Int /\ pending_not_fuzzed' \in Int
    BY <1>2, <2>2
  <2>4. score_changed' \in BOOLEAN
    BY <1>1
  <2> QED
    BY <1>3, <1>5, <2>1, <2>3, <2>4, TypesAfter
<1>7. Control'
  BY <1>1, <1>2 DEF Control, DisablesRedundant
<1>8. NextCanBeCounted'
  BY <1>1, <1>2 DEF NextCanBeCounted, FirstSession, DisablesRedundant,
                    CyclesSchedules
<1>9. Rated'
  BY <1>1 DEF Rated
<1> QED
  BY <1>4, <1>5, <1>6, <1>7, <1>8, <1>9 DEF IInv

\* The queue that a fast resume reads.
RestoredQueue == [i \in Ids |-> Restored(i)]

\* It has the marks and the references that the old one had at each place.
LEMMA RestoredWell ==
  ASSUME IInv
  PROVE  /\ SameMarks(queue, RestoredQueue)
         /\ GoodQueue(RestoredQueue, top_rated)
         /\ Refs(RestoredQueue, top_rated)
<1>1. /\ queue \in Seq(Entry) /\ Ids = 1..Len(queue) /\ Len(queue) \in Nat
      /\ \A q \in Ids : queue[q] \in Entry
      /\ GoodQueue(queue, top_rated) /\ Refs(queue, top_rated)
  BY Sound
<1>2. \A q \in Ids : RestoredQueue[q] = Restored(q)
  BY DEF RestoredQueue
<1>3. ASSUME NEW q \in Ids
      PROVE  /\ RestoredQueue[q] \in Entry
             /\ RestoredQueue[q].disabled = queue[q].disabled
             /\ RestoredQueue[q].was_fuzzed = queue[q].was_fuzzed
             /\ RestoredQueue[q].favored = queue[q].favored
             /\ RestoredQueue[q].tc_ref = queue[q].tc_ref
             /\ RestoredQueue[q].trace_mini = queue[q].trace_mini
  <2> DEFINE p == ReadOrder(q)
  <2>1. p \in Ids
    BY <1>1 DEF ReadOrder
  <2>2. queue[p].tc \in TestCases /\ queue[p].len \in Lengths
    BY <1>1, <2>1 DEF Entry
  <2>3. queue[q] \in Entry
    BY <1>1
  <2>4. RestoredQueue[q] = [queue[q] EXCEPT !.tc = queue[p].tc, !.len = queue[p].len]
    BY <1>2 DEF Restored
  <2> HIDE DEF p
  <2>5. RestoredQueue[q] \in Entry
    BY <2>2, <2>3, <2>4, EntryRestored
  <2> QED
    BY <2>3, <2>4, <2>5 DEF Entry
<1>4. RestoredQueue \in Seq(Entry) /\ Len(RestoredQueue) = Len(queue)
  <2>1. RestoredQueue = [p \in 1..Len(queue) |-> RestoredQueue[p]]
    BY <1>1 DEF RestoredQueue
  <2>2. \A p \in 1..Len(queue) : RestoredQueue[p] \in Entry
    BY <1>1, <1>3
  <2> QED
    BY <1>1, <2>1, <2>2, MapSeq
<1>5. SameMarks(queue, RestoredQueue)
  BY <1>1, <1>3, <1>4 DEF SameMarks
<1>6. GoodQueue(RestoredQueue, top_rated)
  BY <1>1, <1>4 DEF GoodQueue
<1>7. Refs(RestoredQueue, top_rated)
  BY <1>1, <1>3, <1>4 DEF Refs
<1> QED
  BY <1>5, <1>6, <1>7

\* Marks and reference counts are those of the dump; the counters are counted
\* from it.
LEMMA ResumeIInv == IInv /\ Resume => IInv'
<1> SUFFICES ASSUME IInv, Resume PROVE IInv'
  OBVIOUS
<1> DEFINE s == [Score EXCEPT !.queue = RestoredQueue]
           live == {q \in Ids : ~queue[q].disabled}
           favoured == {q \in Ids : queue[q].favored}
           unfuzzed == {q \in Ids : ~queue[q].was_fuzzed}
<1>1. /\ pc' = "start" /\ smallest_favored' = 1 /\ stop_soon' = FALSE
      /\ resumes < MaxResumes /\ resumes' = resumes + 1
      /\ traces' = traces /\ options' = options
      /\ queue_cur' = queue_cur /\ dry_idx' = dry_idx
      /\ active_items' = Cardinality(live)
      /\ pending_not_fuzzed' = Cardinality(live \cap unfuzzed)
      /\ queued_favored' = Cardinality(favoured)
      /\ pending_favored' = Cardinality(favoured \cap unfuzzed)
  BY DEF Resume
<1>2. PICK trace_bits \in Residues : SetScore(UpdateAll(s, Ids, trace_bits))
  BY DEF Resume, RestoredQueue
<1>3. /\ Ids = 1..Len(queue) /\ Len(queue) \in Nat /\ Len(queue) >= 1
      /\ score_changed \in BOOLEAN /\ TypeOK /\ Control
  BY Sound DEF IInv
<1>4. /\ SameMarks(queue, RestoredQueue)
      /\ GoodQueue(RestoredQueue, top_rated) /\ Refs(RestoredQueue, top_rated)
  BY RestoredWell
<1>5. /\ s.queue = RestoredQueue /\ s.top = top_rated /\ s.changed = score_changed
  BY DEF Score
<1> HIDE DEF s
<1> DEFINE u == UpdateAll(s, Ids, trace_bits)
<1>6. /\ GoodQueue(u.queue, u.top) /\ Refs(u.queue, u.top)
      /\ OnlyRated(s.queue, u.queue) /\ u.changed \in BOOLEAN
  <2>1. trace_bits \in SUBSET Bytes
    BY QueueAssumption
  <2>2. /\ GoodQueue(s.queue, s.top) /\ Refs(s.queue, s.top)
        /\ s.changed \in BOOLEAN
    BY <1>3, <1>4, <1>5
  <2> QED
    BY <2>1, <2>2, UpdateAllScore
<1>7. queue' = u.queue /\ top_rated' = u.top /\ score_changed' = u.changed
  BY <1>2 DEF SetScore
<1> HIDE DEF u
<1>8. SameMarks(queue, queue')
  BY <1>4, <1>5, <1>6, <1>7 DEF SameMarks, OnlyRated
<1>9. /\ Len(queue') = Len(queue) /\ Ids' = Ids
      /\ Active(queue') = Active(queue) /\ Waiting(queue') = Waiting(queue)
      /\ Favs(queue') = Favs(queue) /\ Pends(queue') = Pends(queue)
  BY <1>8, SameSets DEF SameMarks, Ids
<1>10. /\ live = Active(queue) /\ live \cap unfuzzed = Waiting(queue)
       /\ favoured = Favs(queue) /\ favoured \cap unfuzzed = Pends(queue)
  BY <1>3 DEF Active, Waiting, Favs, Pends
<1> HIDE DEF live, unfuzzed, favoured
<1>11. /\ active_items' = Cardinality(Active(queue'))
       /\ pending_not_fuzzed' = Cardinality(Waiting(queue'))
       /\ queued_favored' = Cardinality(Favs(queue'))
       /\ pending_favored' = Cardinality(Pends(queue'))
  BY <1>1, <1>9, <1>10
<1>12. /\ active_items' \in 0..Len(queue')
       /\ pending_not_fuzzed' \in 0..Len(queue')
  BY <1>3, <1>9, <1>11, CardTypes
<1>13. Counts(queue)'
  BY <1>3, <1>9, <1>11, <1>12 DEF Counts
<1>14. resumes' \in 0..MaxResumes /\ resumes' # 0
  BY <1>1, <1>3, QueueAssumption DEF TypeOK
<1>15. TypeOK'
  <2>1. 1 \in Ids
    BY <1>3
  <2>2. ControlTypes'
    BY <1>1, <1>3, <1>9, <1>14, <2>1 DEF TypeOK, ControlTypes
  <2>3. active_items' \in Int /\ pending_not_fuzzed' \in Int
    BY <1>3, <1>9, <1>12
  <2> QED
    BY <1>6, <1>7, <1>13, <2>2, <2>3, TypesAfter
<1>16. Control'
  <2>1. ~DisablesRedundant' =>
           \A p \in Ids' : queue'[p].disabled => queue'[p].was_fuzzed
    <3>1. ~DisablesRedundant' => ~DisablesRedundant
      BY <1>1 DEF DisablesRedundant
    <3>2. ~DisablesRedundant => \A p \in Ids : queue[p].disabled => queue[p].was_fuzzed
      BY <1>3 DEF Control
    <3> QED
      BY <1>3, <1>8, <1>9, <3>1, <3>2 DEF SameMarks
  <2> QED
    BY <1>1, <2>1 DEF Control
<1>17. NextCanBeCounted'
  BY <1>14 DEF NextCanBeCounted, FirstSession
<1>18. Rated'
  BY <1>14 DEF Rated, FirstSession
<1>19. Refs(queue', top_rated')
  BY <1>6, <1>7
<1> QED
  BY <1>13, <1>15, <1>16, <1>17, <1>18, <1>19 DEF IInv

-----------------------------------------------------------------------------
(* The theorems.                                                           *)

\* The invariant is inductive: one step for each action of Next.
LEMMA NextIInv == IInv /\ [Next]_vars => IInv'
<1> SUFFICES ASSUME IInv, [Next]_vars PROVE IInv'
  OBVIOUS
<1>1. CASE DryRunOk
  BY <1>1, DryRunOkIInv
<1>2. CASE DryRunDisables
  BY <1>2, DryRunDisablesIInv
<1>3. CASE DryRunFatal
  BY <1>3, DryRunFatalIInv
<1>4. CASE DryRunStopped
  BY <1>4, DryRunStoppedIInv
<1>5. CASE Dedup
  BY <1>5, DedupIInv
<1>6. CASE Start
  BY <1>6, StartIInv
<1>7. CASE TopOfLoop
  BY <1>7, TopOfLoopIInv
<1>8. CASE NewCycle
  BY <1>8, NewCycleIInv
<1>9. CASE Select
  BY <1>9, SelectIInv
<1>10. CASE Skip
  BY <1>10, SkipIInv
<1>11. CASE NeedsNoCalibration
  BY <1>11, NeedsNoCalibrationIInv
<1>12. CASE Recalibrate
  BY <1>12, RecalibrateIInv
<1>13. CASE NoChancesLeft
  BY <1>13, NoChancesLeftIInv
<1>14. CASE Trim
  BY <1>14, TrimIInv
<1>15. CASE NoTrim
  BY <1>15, NoTrimIInv
<1>16. CASE Find
  BY <1>16, FindIInv
<1>17. CASE Abandon
  BY <1>17, AbandonIInv
<1>18. CASE Stop
  BY <1>18, StopIInv
<1>19. CASE Exit
  BY <1>19, ExitIInv
<1>20. CASE Resume
  BY <1>20, ResumeIInv
<1>21. CASE UNCHANGED vars
  <2>1. /\ UNCHANGED <<traces, options, resumes, queued_favored, pending_favored,
                       smallest_favored, pending_not_fuzzed, active_items>>
        /\ UNCHANGED <<queue, top_rated, score_changed, queue_cur, dry_idx, pc,
                       stop_soon>>
    BY <1>21 DEF vars, envVars, favVars, countVars
  <2>2. Ids' = Ids
    BY <2>1 DEF Ids
  <2>3. TypeOK'
    BY <2>1, <2>2 DEF IInv, TypeOK
  <2>4. Refs(queue, top_rated)'
    BY <2>1 DEF IInv, Refs
  <2>5. Counts(queue)'
    BY <2>1 DEF IInv, Counts, DisablesRedundant
  <2>6. Control'
    BY <2>1, <2>2 DEF IInv, Control, Cur, DisablesRedundant
  <2>7. NextCanBeCounted'
    BY <2>1 DEF IInv, NextCanBeCounted, FirstSession, DisablesRedundant,
                CyclesSchedules
  <2>8. Rated'
    <3>1. Rated
      BY DEF IInv
    <3> QED
      BY <2>1, <3>1 DEF Rated, RatedWell, FirstSession, CyclesSchedules
  <2> QED
    BY <2>3, <2>4, <2>5, <2>6, <2>7, <2>8 DEF IInv
<1> QED
  BY <1>1, <1>2, <1>3, <1>4, <1>5, <1>6, <1>7, <1>8, <1>9, <1>10, <1>11, <1>12,
     <1>13, <1>14, <1>15, <1>16, <1>17, <1>18, <1>19, <1>20, <1>21 DEF Next

\* All of the invariant, for every queue, every target and every set of options.
THEOREM Invariance == Spec => []IInv
  BY InitIInv, NextIInv, PTL DEF Spec

\* The types of queue, top_rated and the counters: no counter falls below zero
\* or exceeds the queue, and top_rated and smallest_favored name entries of the
\* queue, whatever is read back by a fast resume.
THEOREM TypeCorrect == Spec => []TypeOK
<1>1. IInv => TypeOK
  BY DEF IInv
<1> QED
  BY <1>1, Invariance, PTL

\* active_items, pending_not_fuzzed, queued_favored and pending_favored agree
\* with the marks of the entries: each place that sets or clears disabled,
\* was_fuzzed or favored keeps its counter, cull_queue counts what it marks, and
\* perform_fast_resume counts what it reads.
THEOREM CountersAreExact == Spec => []CountersExact
<1>1. IInv => CountersExact
  <2> SUFFICES ASSUME IInv PROVE CountersExact
    OBVIOUS
  <2>1. Counts(queue)
    BY DEF IInv
  <2>2. /\ {q \in Ids : ~queue[q].disabled} = Active(queue)
        /\ {q \in Ids : ~queue[q].disabled /\ ~queue[q].was_fuzzed} = Waiting(queue)
        /\ Favoured = Favs(queue)
        /\ {q \in Favoured : ~queue[q].was_fuzzed} = Pends(queue)
    BY DEF Ids, Active, Waiting, Favoured, Favs, Pends
  <2> QED
    BY <2>1, <2>2 DEF CountersExact, Counts
<1> QED
  BY <1>1, Invariance, PTL

\* smallest_favored, which the main loop takes before all others, is favoured,
\* unfuzzed, in use and calibrated, so abandon_entry will count it.
THEOREM TheNextCanBeCounted == Spec => []NextCanBeCounted
<1>1. IInv => NextCanBeCounted
  BY DEF IInv
<1> QED
  BY <1>1, Invariance, PTL

\* The tc_ref of an entry counts at least the bytes it is top rated for, and
\* trace_mini is there as long as tc_ref is not 0: cull_queue never follows the
\* trace_mini of a top rated entry that has none.
THEOREM TraceMiniIsPresent == Spec => []TraceMiniPresent
<1>1. IInv => TraceMiniPresent
  BY DEF IInv, Refs, TraceMiniPresent, Ids, Held
<1> QED
  BY <1>1, Invariance, PTL

\* Once the queue is culled the favoured entries set every byte that any
\* calibrated entry sets.
THEOREM FavouredCovers == Spec => []FavouredCover
<1>1. IInv => FavouredCover
  <2> SUFFICES ASSUME IInv, FirstSession, ~CyclesSchedules, ~score_changed,
                      pc # "exited", NEW q \in Ids, queue[q].exec_us > 0,
                      NEW b \in traces[queue[q].tc]
               PROVE  \E f \in Favoured : b \in traces[queue[f].tc]
    BY DEF FavouredCover
  <2>1. RatedWell(queue, top_rated, score_changed)
    BY DEF IInv, Rated
  <2>2. Ids = 1..Len(queue) /\ q \in 1..Len(queue)
    BY DEF Ids
  <2>3. b \in Bytes
    <3>1. queue[q].tc \in TestCases /\ traces \in TraceChoices
      BY Sound DEF Entry
    <3> QED
      BY <3>1, TraceType
  <2>4. top_rated[b] # None
    BY <2>1, <2>2 DEF RatedWell
  <2>5. \E f \in 1..Len(queue) : queue[f].favored /\ b \in traces[queue[f].tc]
    BY <2>1, <2>3, <2>4 DEF RatedWell
  <2> QED
    BY <2>2, <2>5 DEF Favoured
<1> QED
  BY <1>1, Invariance, PTL

\* Until a session is resumed, or a cycle ends under AFL_CYCLE_SCHEDULES, the
\* trace_mini of an entry is the trace of that entry: all other paths to
\* update_bitmap_score come straight from a run of the entry they rate.
THEOREM TraceMiniIsOwnAtFirst ==
  Spec => [](FirstSession /\ ~CyclesSchedules /\ pc # "exited" => TraceMiniIsOwn)
<1>1. IInv => (FirstSession /\ ~CyclesSchedules /\ pc # "exited" => TraceMiniIsOwn)
  BY DEF IInv, Rated, RatedWell, TraceMiniIsOwn, Ids
<1> QED
  BY <1>1, Invariance, PTL

=============================================================================

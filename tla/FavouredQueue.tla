--------------------------- MODULE FavouredQueue ----------------------------
(***************************************************************************)
(* The queue of afl-fuzz and the favoured entries in it: update_bitmap_    *)
(* score, which keeps for every byte of the map the best entry that sets   *)
(* it, cull_queue, which picks a set of entries that covers the map, and   *)
(* everything that depends on them: the dry run of the seeds, the choice   *)
(* of the next entry, the part of fuzz_one that calibrates, trims and      *)
(* finally counts an entry, new finds, the dump that is written at the     *)
(* end and the fast resume that reads it.                                  *)
(*                                                                         *)
(* Abstractions.  Test cases are numbered in the order they enter the      *)
(* queue.  The target sets the same bytes in every run of a test case, and *)
(* a run that fails does so on its own account.  Entry numbers are one     *)
(* higher than in the code, so that 0 stands for its -1 and for NULL.  The *)
(* weights of the alias table are left out: any entry whose weight is not  *)
(* zero can be drawn.  When a cycle ends is left open.  Schedules from     *)
(* RARE on, which rate by length alone, and crash mode are not modelled.   *)
(***************************************************************************)
EXTENDS Integers, Sequences, FiniteSets, FiniteSetsExt, Functions

CONSTANTS
    MapSize,        \* fsrv.map_size
    MaxItems,       \* how many entries the queue may get
    MaxSeeds,       \* how many of them may be seeds
    Lengths,        \* lengths of test cases
    Times,          \* execution times a calibration may measure
    TraceChoices,   \* what the target may do: test case -> bytes it sets
    Residues,       \* what else may be in the map when entries are rated
    OptionChoices,  \* sets of environment options the fuzzer may be run with
    ByLevel,        \* TRUE for the schedules below FAST, which compare levels
    CAL_CHANCES,    \* how often an entry is calibrated
    ManyItems,      \* 10 in the rules by which fuzz_one skips an entry
    MaxLevel,       \* bound on fuzz_level
    MaxResumes,     \* bound on the number of resumed sessions
    MaxResumed      \* bound on the length of a queue that is resumed

Bytes == 1..MapSize
TestCases == 1..MaxItems
None == 0

ASSUME QueueAssumption ==
    /\ MapSize \in Nat \ {0}
    /\ MaxItems \in Nat /\ MaxSeeds \in 1..MaxItems
    /\ Lengths \subseteq Nat \ {0} /\ Times \subseteq Nat \ {0}
    /\ TraceChoices \subseteq [TestCases -> (SUBSET Bytes) \ {{}}]
    /\ Residues \subseteq SUBSET Bytes
    /\ OptionChoices \subseteq SUBSET {"disable_redundant", "cycle_schedules"}
    /\ ByLevel \in BOOLEAN
    /\ CAL_CHANCES \in Nat \ {0}
    /\ ManyItems \in Nat /\ MaxLevel \in Nat /\ MaxResumes \in Nat
    /\ MaxResumed \in Nat

VARIABLES
    traces,             \* what the target does with each test case
    options,            \* the environment options of the session
    queue,              \* queue_buf: the entries
    top_rated,          \* byte -> its best entry
    score_changed,
    pending_not_fuzzed,
    active_items,
    queued_favored,
    pending_favored,
    smallest_favored,
    queue_cur,          \* the entry being fuzzed
    dry_idx,            \* the next seed of perform_dry_run
    pc,                 \* where the main thread is
    stop_soon,
    resumes             \* how many sessions have been resumed

favVars == <<queued_favored, pending_favored, smallest_favored>>
countVars == <<pending_not_fuzzed, active_items>>
envVars == <<traces, options, resumes>>
vars == <<envVars, favVars, countVars, queue, top_rated, score_changed,
          queue_cur, dry_idx, pc, stop_soon>>

Ids == 1..Len(queue)

\* struct queue_entry as add_to_queue leaves it.
NewEntry(t, l) ==
    [tc |-> t, len |-> l, exec_us |-> 0, fuzz_level |-> 0, cal_failed |-> 0,
     was_fuzzed |-> FALSE, disabled |-> FALSE, favored |-> FALSE,
     trim_done |-> FALSE, tc_ref |-> 0, trace_mini |-> {}]

Entry ==
    [tc : TestCases, len : Lengths, exec_us : Times \cup {0},
     fuzz_level : 0..MaxLevel, cal_failed : 0..CAL_CHANCES,
     was_fuzzed : BOOLEAN, disabled : BOOLEAN, favored : BOOLEAN,
     trim_done : BOOLEAN, tc_ref : Nat, trace_mini : SUBSET Bytes]

\* The types of the queue entries, of top_rated and of the counters in
\* afl_state_t; no counter falls below zero or
\* exceeds the queue.
TypeOK ==
    /\ traces \in TraceChoices /\ options \in OptionChoices
    /\ queue \in Seq(Entry) /\ Len(queue) \in 1..MaxItems
    /\ top_rated \in [Bytes -> {None} \cup Ids]
    /\ score_changed \in BOOLEAN /\ stop_soon \in BOOLEAN
    /\ pending_not_fuzzed \in 0..Len(queue) /\ active_items \in 0..Len(queue)
    /\ queued_favored \in 0..Len(queue) /\ pending_favored \in 0..Len(queue)
    /\ smallest_favored \in {None} \cup Ids
    /\ queue_cur \in {None} \cup Ids
    /\ dry_idx \in 1..Len(queue) + 1
    /\ pc \in {"dry_run", "start", "top", "select", "fuzz_one",
               "trim", "stages", "abandon", "exited", "fatal"}
    /\ resumes \in 0..MaxResumes

\* read_testcases on a new output directory.
Init ==
    /\ traces \in TraceChoices
    /\ options \in OptionChoices
    /\ \E n \in 1..MaxSeeds : \E l \in [1..n -> Lengths] :
          /\ queue = [i \in 1..n |-> NewEntry(i, l[i])]
          /\ pending_not_fuzzed = n
          /\ active_items = n
    /\ top_rated = [b \in Bytes |-> None]
    /\ score_changed = FALSE
    /\ queued_favored = 0
    /\ pending_favored = 0
    /\ smallest_favored = 1     \* 0 in the code, from calloc
    /\ queue_cur = None
    /\ dry_idx = 1
    /\ pc = "dry_run"
    /\ stop_soon = FALSE
    /\ resumes = 0

-----------------------------------------------------------------------------
(* update_bitmap_score and cull_queue, as functions of                     *)
(* [queue, top, changed].                                                  *)

Score == [queue |-> queue, top |-> top_rated, changed |-> score_changed]

Level(e) == IF ByLevel THEN e.fuzz_level ELSE 0
FavFactor(e) == e.exec_us * e.len

\* Whether entry e takes a byte from entry f: not fuzzed more often, and not
\* slower and larger.
Beats(e, f) == Level(e) <= Level(f) /\ FavFactor(e) <= FavFactor(f)

Wins(s, q, trace) ==
    {b \in trace : \/ s.top[b] = None
                   \/ Beats(s.queue[q], s.queue[s.top[b]])}

\* The count is tested before it is decremented.
DropsTrace_Late(ref, lost) == lost > 0 /\ ref = 0

\* An entry with ref bytes that loses some of them has none left.
DropsTrace(ref, lost) == lost > 0 /\ ref = lost

\* The loop over the map in one step: nothing it compares changes during it.
\* An entry that loses its last byte loses its trace_mini; q itself does so,
\* and gets a new one, when the first byte it wins is its only one so far.
UpdateBitmapScore(s, q, trace) ==
    LET wins == Wins(s, q, trace)
        Lost(p) == Cardinality({b \in wins : s.top[b] = p})
        Ref(p) == s.queue[p].tc_ref - Lost(p)
                  + (IF p = q THEN Cardinality(wins) ELSE 0)
        renewed == \/ s.queue[q].trace_mini = {}
                   \/ s.queue[q].tc_ref = 1 /\ s.top[Min(wins)] = q
        Mini(p) == CASE p = q /\ renewed -> trace
                     [] p # q /\ DropsTrace(s.queue[p].tc_ref, Lost(p)) -> {}
                     [] OTHER -> s.queue[p].trace_mini
    IN  IF wins = {} THEN s
        ELSE [queue |-> [p \in DOMAIN s.queue |->
                            [s.queue[p] EXCEPT !.tc_ref = Ref(p),
                                               !.trace_mini = Mini(p)]],
              top |-> [b \in Bytes |-> IF b \in wins THEN q ELSE s.top[b]],
              changed |-> TRUE]

\* update_bitmap_score for several entries, one after the other.
UpdateAll(s, qs, trace) ==
    LET upTo[i \in 0..Len(s.queue)] ==
            IF i = 0 THEN s
            ELSE IF i \in qs THEN UpdateBitmapScore(upTo[i - 1], i, trace)
            ELSE upTo[i - 1]
    IN  upTo[Len(s.queue)]

\* The loop starts one byte too late.
NeedsEntry_Late(top, i, temp_v) == i > 1 /\ top[i] # None /\ i \in temp_v

\* A byte that has a top rated entry and is not covered so far.
NeedsEntry(top, i, temp_v) == top[i] # None /\ i \in temp_v

\* One byte of the loop of cull_queue; acc is what the bytes before it have
\* left: what is not covered yet, the entries favoured so far, how many these
\* are, how many of them wait to be fuzzed and the first of these.
Visit(s, i, acc) ==
    LET q == s.top[i]
        new == q \notin acc.favoured
        waits == new /\ ~s.queue[q].was_fuzzed
    IN  IF ~NeedsEntry(s.top, i, acc.temp_v) THEN acc
        ELSE [temp_v |-> acc.temp_v \ s.queue[q].trace_mini,
              favoured |-> acc.favoured \cup {q},
              queued |-> IF new THEN acc.queued + 1 ELSE acc.queued,
              pending |-> IF waits THEN acc.pending + 1 ELSE acc.pending,
              smallest |-> IF waits /\ acc.smallest = None THEN q
                           ELSE acc.smallest]

\* The whole loop.
Picked(s) ==
    LET scan[i \in 0..MapSize] ==
            IF i = 0 THEN [temp_v |-> Bytes, favoured |-> {}, queued |-> 0,
                           pending |-> 0, smallest |-> None]
            ELSE Visit(s, i, scan[i - 1])
    IN  scan[MapSize]

\* mark_as_redundant: only AFL_DISABLE_REDUNDANT gives it an effect on the
\* queue.
Redundant(e) ==
    [e EXCEPT !.disabled = @ \/ ("disable_redundant" \in options /\ ~e.favored)]

\* What cull_queue makes of the queue and of the counters.
Culled(s) ==
    LET picked == Picked(s)
        marked == [q \in DOMAIN s.queue |->
                      [s.queue[q] EXCEPT !.favored = q \in picked.favoured]]
    IN  IF ~s.changed
        THEN [queue |-> s.queue, queued |-> queued_favored,
              pending |-> pending_favored, smallest |-> smallest_favored]
        ELSE [queue |-> [q \in DOMAIN marked |-> Redundant(marked[q])],
              queued |-> picked.queued, pending |-> picked.pending,
              smallest |-> picked.smallest]

SetFavoured(c) ==
    /\ queued_favored' = c.queued
    /\ pending_favored' = c.pending
    /\ smallest_favored' = c.smallest

SetScore(s) ==
    /\ queue' = s.queue
    /\ top_rated' = s.top
    /\ score_changed' = s.changed

-----------------------------------------------------------------------------
(* calibrate_case.                                                         *)

\* It fails: a crash, a timeout, or a stop signal in between.
CalFailed(s, q) == [s EXCEPT !.queue[q].cal_failed = @ + 1]

\* It succeeds with execution time us.
Calibrated(s, q, us) ==
    UpdateBitmapScore(
        [s EXCEPT !.queue[q].exec_us = us, !.queue[q].cal_failed = 0],
        q, traces[s.queue[q].tc])

-----------------------------------------------------------------------------
(* The dry run of the seeds.                                               *)

DryRunOk ==
    /\ pc = "dry_run" /\ dry_idx <= Len(queue) /\ ~stop_soon
    /\ \E us \in Times : SetScore(Calibrated(Score, dry_idx, us))
    /\ dry_idx' = dry_idx + 1
    /\ UNCHANGED <<envVars, favVars, countVars, queue_cur, pc, stop_soon>>

\* The seed crashes or times out: it leaves the fuzzing queue.
DryRunDisables ==
    /\ pc = "dry_run" /\ dry_idx <= Len(queue) /\ ~stop_soon
    /\ \E failed \in {1, CAL_CHANCES} :
          queue' = [queue EXCEPT ![dry_idx].cal_failed = failed,
                                 ![dry_idx].was_fuzzed = TRUE,
                                 ![dry_idx].disabled = TRUE]
    /\ pending_not_fuzzed' = pending_not_fuzzed - 1
    /\ active_items' = active_items - 1
    /\ dry_idx' = dry_idx + 1
    /\ UNCHANGED <<envVars, favVars, top_rated, score_changed, queue_cur, pc,
                   stop_soon>>

\* The same with AFL_EXIT_ON_SEED_ISSUES or a timeout without -t.
DryRunFatal ==
    /\ pc = "dry_run" /\ dry_idx <= Len(queue) /\ ~stop_soon
    /\ pc' = "fatal"
    /\ UNCHANGED <<envVars, favVars, countVars, queue, top_rated,
                   score_changed, queue_cur, dry_idx, stop_soon>>

\* A stop signal ends the dry run without the search for duplicates.
DryRunStopped ==
    /\ pc = "dry_run" /\ dry_idx <= Len(queue) /\ stop_soon
    /\ SetScore(CalFailed(Score, dry_idx))
    /\ pc' = "start"
    /\ UNCHANGED <<envVars, favVars, countVars, queue_cur, dry_idx, stop_soon>>

\* Seeds with the same trace: the shortest is kept, the first of these.
Keeps(q, p) == queue[q].len < queue[p].len \/ (queue[q].len = queue[p].len /\ q < p)

Duplicates ==
    LET live == {q \in Ids : ~queue[q].disabled /\ queue[q].cal_failed = 0}
    IN  {p \in live : \E q \in live \ {p} :
            /\ traces[queue[q].tc] = traces[queue[p].tc]
            /\ Keeps(q, p)}

\* The loops over all pairs in one step.
Dedup ==
    /\ pc = "dry_run" /\ dry_idx > Len(queue)
    /\ queue' = [q \in Ids |->
                    IF q \in Duplicates
                    THEN [queue[q] EXCEPT !.disabled = TRUE,
                                          !.was_fuzzed = TRUE]
                    ELSE queue[q]]
    /\ pending_not_fuzzed' = pending_not_fuzzed - Cardinality(Duplicates)
    /\ active_items' = active_items - Cardinality(Duplicates)
    /\ pc' = "start"
    /\ UNCHANGED <<envVars, favVars, top_rated, score_changed, queue_cur,
                   dry_idx, stop_soon>>

\* The first cull_queue, and the check that there is something to fuzz.
Start ==
    /\ pc = "start"
    /\ LET c == Culled(Score)
       IN  /\ queue' = c.queue
           /\ SetFavoured(c)
           /\ pc' = IF \/ pending_not_fuzzed = 0
                       \/ \A q \in Ids : c.queue[q].disabled
                    THEN "fatal" ELSE "top"
    /\ score_changed' = FALSE
    /\ UNCHANGED <<envVars, countVars, top_rated, queue_cur, dry_idx,
                   stop_soon>>

-----------------------------------------------------------------------------
(* The main loop.                                                          *)

TopOfLoop ==
    /\ pc = "top" /\ ~stop_soon
    /\ LET c == Culled(Score)
       IN  queue' = c.queue /\ SetFavoured(c)
    /\ score_changed' = FALSE
    /\ pc' = "select"
    /\ UNCHANGED <<envVars, countVars, top_rated, queue_cur, dry_idx,
                   stop_soon>>

\* The same when a cycle has ended under AFL_CYCLE_SCHEDULES: all entries are
\* rated anew, after the culling, with whatever trace the last run has left.
NewCycle ==
    /\ pc = "top" /\ ~stop_soon
    /\ "cycle_schedules" \in options
    /\ \E trace_bits \in Residues :
          LET c == Culled(Score)
              active == {q \in Ids : ~c.queue[q].disabled}
          IN  /\ SetFavoured(c)
              /\ SetScore(UpdateAll([queue |-> c.queue, top |-> top_rated,
                                     changed |-> FALSE], active, trace_bits))
    /\ pc' = "select"
    /\ UNCHANGED <<envVars, countVars, queue_cur, dry_idx, stop_soon>>

\* What the alias table may draw: a disabled entry has weight 0.
Drawable == {q \in Ids : ~queue[q].disabled}

\* The pending favoured entry, if one is known, goes before all others.
Candidates ==
    IF pending_favored > 0 /\ smallest_favored # None
    THEN {smallest_favored} ELSE Drawable

Select ==
    /\ pc = "select"
    /\ \E q \in Candidates :
          /\ queue[q].fuzz_level < MaxLevel
          /\ queue_cur' = q
    /\ pc' = "fuzz_one"
    /\ UNCHANGED <<envVars, favVars, countVars, queue, top_rated,
                   score_changed, dry_idx, stop_soon>>

Cur == queue[queue_cur]

\* skipped_fuzz: the loop selects again, and does not cull before.
AfterSkip == IF stop_soon THEN "top" ELSE "select"

\* fuzz_one passes over an entry to get to pending favoured ones, or, when
\* there are many, because it is not favoured.
Skip ==
    /\ pc = "fuzz_one"
    /\ \/ pending_favored > 0 /\ (Cur.fuzz_level > 0 \/ ~Cur.favored)
       \/ pending_favored = 0 /\ ~Cur.favored /\ Len(queue) > ManyItems
    /\ pc' = AfterSkip
    /\ UNCHANGED <<envVars, favVars, countVars, queue, top_rated,
                   score_changed, queue_cur, dry_idx, stop_soon>>

\* The entry is fuzzed.  It is calibrated first if that has failed so far.
NeedsNoCalibration ==
    /\ pc = "fuzz_one" /\ Cur.cal_failed = 0
    /\ pc' = "trim"
    /\ UNCHANGED <<envVars, favVars, countVars, queue, top_rated,
                   score_changed, queue_cur, dry_idx, stop_soon>>

\* A success without new bits in the map, FSRV_RUN_NOBITS, is not good enough
\* to go on.
Recalibrate ==
    /\ pc = "fuzz_one" /\ Cur.cal_failed \in 1..CAL_CHANCES - 1
    /\ \/ /\ ~stop_soon
          /\ \E us \in Times : SetScore(Calibrated(Score, queue_cur, us))
          /\ pc' \in {"trim", "abandon"}
       \/ /\ SetScore(CalFailed(Score, queue_cur))
          /\ pc' = "abandon"
    /\ UNCHANGED <<envVars, favVars, countVars, queue_cur, dry_idx, stop_soon>>

NoChancesLeft ==
    /\ pc = "fuzz_one" /\ Cur.cal_failed >= CAL_CHANCES
    /\ pc' = "abandon"
    /\ UNCHANGED <<envVars, favVars, countVars, queue, top_rated,
                   score_changed, queue_cur, dry_idx, stop_soon>>

\* trim_case has found something to cut: the entry is rated again, with the
\* trace it had.  What an interrupted trim_case has cut is not seen again.
Trim ==
    /\ pc = "trim" /\ ~Cur.trim_done
    /\ \/ /\ ~stop_soon
          /\ \E l \in Lengths :
                /\ l < Cur.len
                /\ SetScore(UpdateBitmapScore(
                       [Score EXCEPT !.queue[queue_cur].len = l,
                                     !.queue[queue_cur].trim_done = TRUE],
                       queue_cur, traces[Cur.tc]))
          /\ pc' = "stages"
       \/ /\ ~stop_soon
          /\ SetScore([Score EXCEPT !.queue[queue_cur].trim_done = TRUE])
          /\ pc' = "stages"
       \/ /\ stop_soon
          /\ SetScore(Score)
          /\ pc' = "abandon"
    /\ UNCHANGED <<envVars, favVars, countVars, queue_cur, dry_idx, stop_soon>>

NoTrim ==
    /\ pc = "trim" /\ Cur.trim_done
    /\ pc' = "stages"
    /\ UNCHANGED <<envVars, favVars, countVars, queue, top_rated,
                   score_changed, queue_cur, dry_idx, stop_soon>>

\* save_if_interesting keeps a test case, found by a stage or, at the end of
\* a turn of the loop, imported by sync_fuzzers: add_to_queue and a first
\* calibration.
Find ==
    /\ pc \in {"stages", "top"} /\ ~(pc = "top" /\ stop_soon)
    /\ Len(queue) < MaxItems
    /\ LET q == Len(queue) + 1
       IN  \E l \in Lengths :
              LET s == [Score EXCEPT !.queue = Append(@, NewEntry(q, l))]
              IN  \/ SetScore(CalFailed(s, q))
                  \/ /\ ~stop_soon
                     /\ \E us \in Times : SetScore(Calibrated(s, q, us))
    /\ pending_not_fuzzed' = pending_not_fuzzed + 1
    /\ active_items' = active_items + 1
    /\ UNCHANGED <<envVars, favVars, queue_cur, dry_idx, pc, stop_soon>>

\* Without asking whether it has been counted before.
CountsAsFuzzed_EachTime == ~stop_soon /\ Cur.cal_failed = 0 /\ ~Cur.disabled

\* Whether abandon_entry counts the entry as fuzzed.
CountsAsFuzzed ==
    ~stop_soon /\ Cur.cal_failed = 0 /\ ~Cur.was_fuzzed /\ ~Cur.disabled

\* pending_favored after an entry has been counted, favoured or not.
PendingFavoured_Any == pending_favored - 1

\* pending_favored after an entry has been counted.
PendingFavoured ==
    IF Cur.favored THEN pending_favored - 1 ELSE pending_favored

\* The entry stays the next one.
NextFavoured_Kept == smallest_favored

\* smallest_favored after an entry has been counted.
NextFavoured == IF Cur.favored THEN None ELSE smallest_favored

\* abandon_entry.  Only a turn that came through all stages ends the inner
\* loop.
Abandon ==
    /\ pc \in {"stages", "abandon"}
    /\ queue' = [queue EXCEPT ![queue_cur].fuzz_level = @ + 1,
                              ![queue_cur].was_fuzzed = @ \/ CountsAsFuzzed]
    /\ IF CountsAsFuzzed
       THEN /\ pending_not_fuzzed' = pending_not_fuzzed - 1
            /\ pending_favored' = PendingFavoured
            /\ smallest_favored' = NextFavoured
       ELSE UNCHANGED <<pending_not_fuzzed, pending_favored, smallest_favored>>
    /\ \/ pc = "stages" /\ pc' = "top"
       \/ pc' = AfterSkip
    /\ UNCHANGED <<envVars, active_items, queued_favored, top_rated,
                   score_changed, queue_cur, dry_idx, stop_soon>>

-----------------------------------------------------------------------------
(* The end of a session and the next one.                                  *)

Stop ==
    /\ pc \notin {"exited", "fatal"} /\ ~stop_soon
    /\ stop_soon' = TRUE
    /\ UNCHANGED <<envVars, favVars, countVars, queue, top_rated,
                   score_changed, queue_cur, dry_idx, pc>>

\* What is left are the files of the queue and, in fastresume.bin, the
\* entries in the order of queue_buf, each with its trace_mini.
Exit ==
    /\ pc = "top" /\ stop_soon
    /\ pc' = "exited"
    /\ top_rated' = [b \in Bytes |-> None]
    /\ score_changed' = FALSE
    /\ queue_cur' = None
    /\ pending_not_fuzzed' = Len(queue)
    /\ active_items' = Len(queue)
    /\ UNCHANGED <<envVars, favVars, queue, dry_idx, stop_soon>>

\* read_testcases of an in-place resume goes through the sorted names from
\* the last to the first.
ReadOrder(i) == Len(queue) + 1 - i

\* The i-th entry of the new session: name and length are those of the file
\* that was read, the other fields come from the dump.
Restored(i) ==
    [queue[i] EXCEPT !.tc = queue[ReadOrder(i)].tc,
                     !.len = queue[ReadOrder(i)].len]

\* A fast resume: no dry run; update_bitmap_score for every entry, with what
\* the start of the fork server has left in the map.
Resume ==
    /\ pc = "exited" /\ resumes < MaxResumes
    /\ Len(queue) <= MaxResumed
    /\ \E trace_bits \in Residues :
          SetScore(UpdateAll([Score EXCEPT !.queue =
                                  [i \in Ids |-> Restored(i)]],
                             Ids, trace_bits))
    /\ LET live == {q \in Ids : ~queue[q].disabled}
           favoured == {q \in Ids : queue[q].favored}
           unfuzzed == {q \in Ids : ~queue[q].was_fuzzed}
       IN  /\ active_items' = Cardinality(live)
           /\ pending_not_fuzzed' = Cardinality(live \cap unfuzzed)
           /\ queued_favored' = Cardinality(favoured)
           /\ pending_favored' = Cardinality(favoured \cap unfuzzed)
    /\ smallest_favored' = 1
    /\ stop_soon' = FALSE
    /\ resumes' = resumes + 1
    /\ pc' = "start"
    /\ UNCHANGED <<traces, options, queue_cur, dry_idx>>

Next ==
    \/ DryRunOk \/ DryRunDisables \/ DryRunFatal \/ DryRunStopped
    \/ Dedup \/ Start
    \/ TopOfLoop \/ NewCycle \/ Select \/ Skip
    \/ NeedsNoCalibration \/ Recalibrate \/ NoChancesLeft
    \/ Trim \/ NoTrim \/ Find \/ Abandon
    \/ Stop \/ Exit \/ Resume

Spec == Init /\ [][Next]_vars

-----------------------------------------------------------------------------
(* Properties.                                                             *)

FirstSession == resumes = 0
DisablesRedundant == "disable_redundant" \in options
CyclesSchedules == "cycle_schedules" \in options

Favoured == {q \in Ids : queue[q].favored}

\* The counters that steer the loop and the skipping agree with the queue:
\* pending_not_fuzzed and active_items as long as AFL_DISABLE_REDUNDANT does
\* not disable entries behind their back, and the two counters of favoured
\* entries always, also across a fast resume.  pending_favored wrong by one
\* would make fuzz_one skip for ever, or wrap.
CountersExact ==
    /\ pc # "exited" /\ ~DisablesRedundant =>
          /\ active_items = Cardinality({q \in Ids : ~queue[q].disabled})
          /\ pending_not_fuzzed =
                Cardinality({q \in Ids : ~queue[q].disabled
                                         /\ ~queue[q].was_fuzzed})
    /\ queued_favored = Cardinality(Favoured)
    /\ pending_favored = Cardinality({q \in Favoured : ~queue[q].was_fuzzed})

\* The entry that the main loop takes before all others is one that can end
\* its turn: favoured, not yet fuzzed, in use and calibrated.  If it were not,
\* abandon_entry would not count it, smallest_favored would stay, and the
\* loop would take the same entry for ever.
NextCanBeCounted ==
    FirstSession /\ ~DisablesRedundant /\ ~CyclesSchedules
        /\ pending_favored > 0 /\ smallest_favored # None =>
    LET e == queue[smallest_favored]
    IN  e.favored /\ ~e.was_fuzzed /\ ~e.disabled /\ e.cal_failed = 0

\* A top rated entry has its trace_mini, which cull_queue follows without
\* looking: its tc_ref counts at least the bytes it holds, also when it comes
\* from a dump, and trace_mini is there exactly as long as tc_ref is not 0.
TraceMiniPresent ==
    \A q \in Ids :
        /\ queue[q].tc_ref >= Cardinality({b \in Bytes : top_rated[b] = q})
        /\ (queue[q].tc_ref > 0) <=> (queue[q].trace_mini # {})

\* The purpose of it all, as the comment on update_bitmap_score has it: once
\* culled, the favoured entries together set every byte that any calibrated
\* entry sets.
FavouredCover ==
    FirstSession /\ ~CyclesSchedules /\ ~score_changed /\ pc # "exited" =>
    \A q \in Ids : queue[q].exec_us > 0 =>
        traces[queue[q].tc] \subseteq
            UNION {traces[queue[f].tc] : f \in Favoured}

\* trace_mini holds "trace bytes" of its entry (afl-fuzz.h).
TraceMiniIsOwn ==
    \A q \in Ids : queue[q].trace_mini \in {{}, traces[queue[q].tc]}

=============================================================================

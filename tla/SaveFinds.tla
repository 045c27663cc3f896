------------------------------ MODULE SaveFinds -----------------------------
(***************************************************************************)
(* What afl-fuzz keeps of what it executes: save_if_interesting with       *)
(* has_new_bits and the classification of traces (afl-fuzz-bitmap.c,       *)
(* coverage-64.h), calibrate_case (afl-fuzz-run.c) and the second attempt  *)
(* at a calibration (fuzz_one).                                            *)
(*                                                                         *)
(* There is one trace map.  Every execution overwrites it, and the code    *)
(* that follows relies on whose trace it holds and on whether it has been  *)
(* classified yet.  A step is one execution of the target, or the          *)
(* computation between two of them; the signal handler may set stop_soon   *)
(* between any two steps.                                                  *)
(*                                                                         *)
(* Abstractions.  A byte of a trace is a number, a byte of a virgin map    *)
(* the set of the bits that are left.  The hash of a trace is the trace.   *)
(* discover_word works on eight bytes at a time, which comes to the same   *)
(* as byte by byte: a pristine byte that is hit is always a new bit of its *)
(* word.  first_trace is written before it is read in every calibration,   *)
(* and is kept with the local variables.  Statistics, n_fuzz, has_new_cov, *)
(* file names, scores (module FavouredQueue), the test case cache (module  *)
(* TestcaseCache) and the mode without instrumentation are left out.       *)
(***************************************************************************)
EXTENDS Integers, FiniteSets, Sequences

CONSTANTS
    Edges,          \* the bytes of the map
    Inputs,         \* the test cases that may be executed
    Runs,           \* Runs[t][w]: what t may do under the timeout w
    OptionSets,
    NoTrace,        \* exec_cksum = 0
    CAL_CYCLES, CAL_CYCLES_LONG, CAL_CHANCES,
    KEEP_UNIQUE_HANG, KEEP_UNIQUE_CRASH

Timeouts == {"exec", "calibrate", "hang"}
Faults == {"ok", "tmout", "crash", "error"}
Traces == [Edges -> 0..255]
Outcomes == [fault : Faults, trace : Traces]
Options == [seed : Inputs,              \* the first test case
            inputs : SUBSET Inputs,     \* what the mutations come up with
            fast : BOOLEAN,             \* a schedule from FAST to RARE
            crash_mode : {"ok", "crash"},
            keep_timeouts : BOOLEAN,    \* AFL_KEEP_TIMEOUTS
            ignore_timeouts : BOOLEAN,  \* AFL_IGNORE_TIMEOUTS
            cmplog : BOOLEAN,           \* with a CmpLog map
            rerun : BOOLEAN]            \* exec_tmout < hang_tmout

ASSUME SaveAssumption ==
    /\ \A t \in Inputs, w \in Timeouts : Runs[t][w] \subseteq Outcomes
    /\ NoTrace \notin Traces
    /\ OptionSets \subseteq Options
    /\ CAL_CYCLES \in Nat \ {0} /\ CAL_CYCLES_LONG \in Nat \ {0}
    /\ CAL_CHANCES \in Nat \ {0}
    /\ KEEP_UNIQUE_HANG \in Nat /\ KEEP_UNIQUE_CRASH \in Nat

VARIABLES
    options,        \* never changes
    stop_soon,
    pc,
    trace_bits,     \* the trace map
    virgin_bits, virgin_tmout, virgin_crash,
    var_bytes,      \* the bytes found to vary
    queue,
    crashes, hangs, \* the traces of the saved ones
    save,           \* the local variables of save_if_interesting
    cal,            \* those of calibrate_case, and first_trace
    observed        \* history: crashes and timeouts, with their traces

mapVars == <<trace_bits, virgin_bits, virgin_tmout, virgin_crash, var_bytes>>
vars == <<options, stop_soon, pc, mapVars, queue, crashes, hangs, save, cal, observed>>

----------------------------------------------------------------------------
(***************************************************************************)
(* Traces and virgin maps.                                                 *)
(***************************************************************************)

Buckets == {1, 2, 4, 8, 16, 32, 64, 128}
Pristine == [e \in Edges |-> Buckets]
Bits(n) == {b \in Buckets : (n \div b) % 2 = 1}

\* count_class_lookup8.
CountClass(n) ==
    CASE n \in 0..2 -> n
      [] n = 3 -> 4
      [] n \in 4..7 -> 8
      [] n \in 8..15 -> 16
      [] n \in 16..31 -> 32
      [] n \in 32..127 -> 64
      [] n \in 128..255 -> 128

classify_counts(trace) == [e \in Edges |-> CountClass(trace[e])]

\* simplify_trace: a byte that is not hit counts, too.
simplify_trace(trace) == [e \in Edges |-> IF trace[e] = 0 THEN 1 ELSE 128]

\* has_new_bits: its result, and what it leaves of the virgin map.
NewBits(trace, virgin) ==
    CASE \E e \in Edges : trace[e] # 0 /\ virgin[e] = Buckets -> 2
      [] \E e \in Edges : Bits(trace[e]) \cap virgin[e] # {} -> 1
      [] OTHER -> 0

Remaining(trace, virgin) == [e \in Edges |-> virgin[e] \ Bits(trace[e])]

\* The look ahead of has_new_bits_unclassified.
skim(trace, virgin) == \E e \in Edges : Bits(CountClass(trace[e])) \cap virgin[e] # {}

\* The bytes that are hit.
Hit(trace) == {e \in Edges : trace[e] # 0}

----------------------------------------------------------------------------

Entry(t, cksum) ==
    [mem |-> t, exec_cksum |-> cksum, cal_failed |-> 0, var_behavior |-> FALSE]

NoSave == [mem |-> options.seed, fault |-> "ok", new_bits |-> 0, classified |-> FALSE,
           need_hash |-> TRUE, unique |-> NoTrace]

NoCal == [q |-> 0, stage_cur |-> 0, stage_max |-> 0, first_trace |-> NoTrace,
          var_detected |-> FALSE, dummy |-> FALSE, return |-> "idle"]

\* After start-up, with perform_dry_run about to calibrate the seed.
Init ==
    /\ options \in OptionSets
    /\ stop_soon = FALSE
    /\ trace_bits = [e \in Edges |-> 0]
    /\ virgin_bits = Pristine /\ virgin_tmout = Pristine /\ virgin_crash = Pristine
    /\ var_bytes = {}
    /\ queue = <<Entry(options.seed, NoTrace)>>
    /\ crashes = {} /\ hangs = {} /\ observed = {}
    /\ save = NoSave
    /\ cal = [NoCal EXCEPT !.q = 1]
    /\ pc = "begin_cal"

\* save_if_interesting returns.
Return ==
    /\ pc' = "idle"
    /\ save' = NoSave

----------------------------------------------------------------------------
(***************************************************************************)
(* calibrate_case.                                                         *)
(***************************************************************************)

\* Up to the first execution.  An entry that has just been found brings along
\* the trace it was found with.
BeginCal ==
    LET q == queue[cal.q]
        cksum == IF options.cmplog THEN NoTrace ELSE q.exec_cksum
        own == cksum # NoTrace
    IN  /\ pc = "begin_cal"
        /\ queue' = [queue EXCEPT ![cal.q] = [q EXCEPT !.exec_cksum = cksum,
                                                       !.cal_failed = @ + 1]]
        /\ virgin_bits' = IF own THEN Remaining(trace_bits, virgin_bits) ELSE virgin_bits
        /\ cal' = [cal EXCEPT !.first_trace = IF own THEN trace_bits ELSE NoTrace,
                              !.stage_max = CAL_CYCLES,
                              !.dummy = options.cmplog]
        /\ pc' = "calibrate"
        /\ UNCHANGED <<options, stop_soon, trace_bits, virgin_tmout, virgin_crash,
                       var_bytes, crashes, hangs, save, observed>>

\* What follows the label abort_calibration, and the return to the caller;
\* "Unable to execute target application" ends the program.
EndCal(fault, q) ==
    /\ queue' = [queue EXCEPT ![cal.q] = [q EXCEPT !.var_behavior = @ \/ cal.var_detected]]
    /\ cal' = NoCal
    /\ pc' = IF fault = "error" THEN "dead" ELSE cal.return

\* A run that ends the calibration: the trace stays as it is.
Aborts(o) ==
    \/ stop_soon
    \/ o.fault # options.crash_mode
    \/ cal.stage_cur = 0 /\ Hit(o.trace) = {}

AbortCal(o) ==
    /\ pc = "calibrate"
    /\ cal.stage_cur < cal.stage_max
    /\ Aborts(o)
    /\ trace_bits' = o.trace
    /\ EndCal(o.fault, queue[cal.q])
    /\ UNCHANGED <<options, stop_soon, virgin_bits, virgin_tmout,
                   virgin_crash, var_bytes, crashes, hangs, save, observed>>

\* "we need a dummy run if this is LTO + cmplog".  stage_cur is still the
\* caller's, so that an empty trace may pass here.
DummyRun(o) ==
    /\ pc = "calibrate"
    /\ cal.dummy
    /\ ~stop_soon /\ o.fault = options.crash_mode
    /\ trace_bits' = o.trace
    /\ cal' = [cal EXCEPT !.dummy = FALSE]
    /\ UNCHANGED <<options, stop_soon, pc, virgin_bits, virgin_tmout,
                   virgin_crash, var_bytes, queue, crashes, hangs, save, observed>>

\* The bytes that turn out to vary.
Varying(trace) == {e \in Edges \ var_bytes : cal.first_trace[e] # trace[e]}

\* Mutant: a run that differs starts the longer calibration from its beginning.
NextCycle_Restarts(differs) == IF differs THEN 0 ELSE cal.stage_cur + 1

\* The runs that have been done count for the longer calibration, too.
NextCycle(differs) == cal.stage_cur + 1

\* One of the runs that are compared.  "ignore the variable edge by setting it
\* to fully discovered".
CalRun(o) ==
    LET trace == classify_counts(o.trace)
        cksum == queue[cal.q].exec_cksum
        first == cksum = NoTrace
        differs == ~first /\ cksum # trace
        varying == IF differs THEN Varying(trace) ELSE {}
    IN  /\ pc = "calibrate"
        /\ ~cal.dummy
        /\ cal.stage_cur < cal.stage_max
        /\ ~Aborts(o)
        /\ trace_bits' = trace
        /\ virgin_bits' = IF cksum = trace THEN virgin_bits
                          ELSE [e \in Edges |-> IF e \in varying THEN {}
                                                ELSE Remaining(trace, virgin_bits)[e]]
        /\ var_bytes' = var_bytes \cup varying
        /\ queue' = [queue EXCEPT ![cal.q].exec_cksum = IF first THEN trace ELSE @]
        /\ cal' = [cal EXCEPT !.stage_cur = NextCycle(differs),
                              !.first_trace = IF first THEN trace ELSE @,
                              !.stage_max = IF differs THEN CAL_CYCLES_LONG ELSE @,
                              !.var_detected = @ \/ differs]
        /\ UNCHANGED <<options, stop_soon, pc, virgin_tmout, virgin_crash, crashes,
                       hangs, save, observed>>

CompleteCal ==
    /\ pc = "calibrate"
    /\ ~cal.dummy
    /\ cal.stage_cur >= cal.stage_max
    /\ EndCal(options.crash_mode, [queue[cal.q] EXCEPT !.cal_failed = 0])
    /\ UNCHANGED <<options, stop_soon, mapVars, crashes, hangs, save, observed>>

\* Mutant: the hash stays, as if the trace map still held the trace of the entry.
SecondChance_KeepsHash(q) == q

\* What fuzz_one does to an entry first.
SecondChance(q) == [q EXCEPT !.exec_cksum = NoTrace]

\* fuzz_one: "CALIBRATION (only if failed earlier on)".
Recalibrate(i) ==
    /\ pc = "idle" /\ ~stop_soon
    /\ queue[i].cal_failed \in 1..(CAL_CHANCES - 1)
    /\ queue' = [queue EXCEPT ![i] = SecondChance(@)]
    /\ cal' = [NoCal EXCEPT !.q = i]
    /\ pc' = "begin_cal"
    /\ UNCHANGED <<options, stop_soon, mapVars, crashes, hangs, save, observed>>

----------------------------------------------------------------------------
(***************************************************************************)
(* Fuzzing, and save_if_interesting.                                       *)
(***************************************************************************)

\* common_fuzz_stuff: a new test case is executed.
FuzzRun(t, o) ==
    /\ pc = "idle" /\ ~stop_soon
    /\ trace_bits' = o.trace
    /\ save' = [NoSave EXCEPT !.mem = t, !.fault = o.fault]
    /\ pc' = "save"
    /\ UNCHANGED <<options, stop_soon, virgin_bits, virgin_tmout,
                   virgin_crash, var_bytes, queue, crashes, hangs, cal, observed>>

\* stop_soon, too many timeouts in a row, or SIGUSR1: the result is not looked at.
Abandon ==
    /\ pc = "save"
    /\ Return
    /\ UNCHANGED <<options, stop_soon, mapVars, queue, crashes, hangs, cal, observed>>

Ignored == save.fault = "tmout" /\ options.ignore_timeouts

\* AFL_IGNORE_TIMEOUTS.
IgnoreTimeout ==
    /\ pc = "save" /\ Ignored
    /\ trace_bits' = IF options.fast THEN classify_counts(trace_bits) ELSE trace_bits
    /\ Return
    /\ UNCHANGED <<options, stop_soon, virgin_bits, virgin_tmout,
                   virgin_crash, var_bytes, queue, crashes, hangs, cal, observed>>

Observe(fault, trace) ==
    observed' = IF fault = "ok" THEN observed
                ELSE observed \cup {[fault |-> fault, mem |-> save.mem,
                                     trace |-> simplify_trace(trace)]}

\* Mutant: that the trace has been classified is not remembered.
Classified_Forgotten == FALSE

Classified == options.fast

\* "Update path frequency": these schedules need the hash of every trace.
UpdateFrequency ==
    /\ pc = "save" /\ ~Ignored
    /\ trace_bits' = IF options.fast THEN classify_counts(trace_bits) ELSE trace_bits
    /\ save' = [save EXCEPT !.classified = Classified, !.need_hash = ~options.fast]
    /\ Observe(save.fault, trace_bits)
    /\ pc' = IF save.fault = options.crash_mode THEN "check" ELSE "switch"
    /\ UNCHANGED <<options, stop_soon, virgin_bits, virgin_tmout,
                   virgin_crash, var_bytes, queue, crashes, hangs, cal>>

\* "Keep only if there are new bits in the map".  has_new_bits_unclassified
\* leaves the trace as it is when it sees none.
CheckCoverage ==
    LET trace == IF save.classified \/ ~skim(trace_bits, virgin_bits)
                   THEN trace_bits ELSE classify_counts(trace_bits)
        new_bits == IF save.classified \/ skim(trace_bits, virgin_bits)
                      THEN NewBits(trace, virgin_bits) ELSE 0
    IN  /\ pc = "check"
        /\ trace_bits' = trace
        /\ IF new_bits = 0
             THEN /\ Return
                  /\ UNCHANGED virgin_bits
             ELSE /\ virgin_bits' = Remaining(trace, virgin_bits)
                  /\ save' = [save EXCEPT !.classified = TRUE, !.new_bits = new_bits]
                  /\ pc' = "queue"
        /\ UNCHANGED <<options, stop_soon, virgin_tmout, virgin_crash,
                       var_bytes, queue, crashes, hangs, cal, observed>>

\* save_to_queue, up to the call of calibrate_case.
SaveToQueue ==
    LET hash == save.need_hash /\ save.new_bits # 0
    IN  /\ pc = "queue"
        /\ queue' = Append(queue, Entry(save.mem, IF hash THEN trace_bits ELSE NoTrace))
        /\ save' = [save EXCEPT !.need_hash = @ /\ ~hash]
        /\ cal' = [NoCal EXCEPT !.q = Len(queue) + 1, !.return = "switch"]
        /\ pc' = "begin_cal"
        /\ UNCHANGED <<options, stop_soon, mapVars, crashes, hangs, observed>>

\* No crash and no timeout: done.  FSRV_RUN_ERROR is fatal.
EndSwitch ==
    /\ pc = "switch"
    /\ save.fault \in {"ok", "error"}
    /\ save' = NoSave
    /\ pc' = IF save.fault = "error" THEN "dead" ELSE "idle"
    /\ UNCHANGED <<options, stop_soon, mapVars, queue, crashes, hangs, cal, observed>>

KeepHang(trace) == hangs' = hangs \cup {trace}

\* Mutant: no limit.
HangRoom_Unlimited == TRUE

HangRoom == Cardinality(hangs) < KEEP_UNIQUE_HANG

\* A timeout: "We use the presence of new bits in the hang-specific bitmap as a
\* signal of uniqueness".
HandleTimeout ==
    LET trace == simplify_trace(trace_bits)
        unique == HangRoom /\ NewBits(trace, virgin_tmout) # 0
    IN  /\ pc = "switch" /\ save.fault = "tmout"
        /\ trace_bits' = IF HangRoom THEN trace ELSE trace_bits
        /\ IF ~unique
             THEN Return /\ UNCHANGED <<virgin_tmout, hangs>>
             ELSE /\ virgin_tmout' = Remaining(trace, virgin_tmout)
                  /\ IF options.rerun
                       THEN /\ save' = [save EXCEPT !.classified = TRUE, !.unique = trace]
                            /\ pc' = "rerun"
                            /\ UNCHANGED hangs
                       ELSE KeepHang(trace) /\ Return
        /\ UNCHANGED <<options, stop_soon, virgin_bits, virgin_crash,
                       var_bytes, queue, crashes, cal, observed>>

\* Mutant: whatever is not a hang is dropped.
Uncovered_Dropped(o) == FALSE

\* "increasing the timeout actually uncovers a crash".
Uncovered(o) == ~stop_soon /\ o.fault = "crash"

\* "we make sure that it's a genuine hang by re-running the target with a more
\* generous timeout".
Rerun(o) ==
    LET hang == ~stop_soon /\ o.fault = "tmout"
    IN  /\ pc = "rerun"
        /\ trace_bits' = classify_counts(o.trace)
        /\ Observe(IF ~stop_soon /\ o.fault = "crash" THEN "crash" ELSE "ok", o.trace)
        /\ CASE Uncovered(o) -> pc' = "keep_as_crash" /\ UNCHANGED <<save, hangs>>
             [] hang -> KeepHang(save.unique) /\ Return
             [] ~Uncovered(o) /\ ~hang /\ options.keep_timeouts ->
                  pc' = "queue" /\ UNCHANGED <<save, hangs>>
             [] ~Uncovered(o) /\ ~hang /\ ~options.keep_timeouts ->
                  Return /\ UNCHANGED hangs
        /\ UNCHANGED <<options, stop_soon, virgin_bits, virgin_tmout,
                       virgin_crash, var_bytes, queue, crashes, cal>>

\* keep_as_crash.
KeepAsCrash ==
    LET trace == simplify_trace(trace_bits)
        room == Cardinality(crashes) < KEEP_UNIQUE_CRASH
        unique == room /\ NewBits(trace, virgin_crash) # 0
    IN  /\ pc = "keep_as_crash" \/ (pc = "switch" /\ save.fault = "crash")
        /\ trace_bits' = IF room THEN trace ELSE trace_bits
        /\ virgin_crash' = IF unique THEN Remaining(trace, virgin_crash) ELSE virgin_crash
        /\ crashes' = IF unique THEN crashes \cup {trace} ELSE crashes
        /\ Return
        /\ UNCHANGED <<options, stop_soon, virgin_bits, virgin_tmout,
                       var_bytes, queue, hangs, cal, observed>>

\* Ctrl-C, at any moment.
Stop ==
    /\ ~stop_soon
    /\ stop_soon' = TRUE
    /\ UNCHANGED <<options, pc, mapVars, queue, crashes, hangs, save, cal, observed>>

----------------------------------------------------------------------------

Calibrated == queue[cal.q].mem

\* What the program does once an execution has been started.
Step ==
    \/ BeginCal
    \/ /\ pc = "calibrate"
       /\ \E o \in Runs[Calibrated]["calibrate"] : AbortCal(o) \/ DummyRun(o) \/ CalRun(o)
    \/ CompleteCal
    \/ Abandon
    \/ IgnoreTimeout
    \/ UpdateFrequency
    \/ CheckCoverage
    \/ SaveToQueue
    \/ EndSwitch
    \/ HandleTimeout
    \/ \E o \in Runs[save.mem]["hang"] : Rerun(o)
    \/ KeepAsCrash

Next ==
    \/ Step
    \/ \E t \in options.inputs : \E o \in Runs[t]["exec"] : FuzzRun(t, o)
    \/ \E i \in DOMAIN queue : Recalibrate(i)
    \/ Stop

Spec == Init /\ [][Next]_vars /\ WF_vars(Step)

----------------------------------------------------------------------------
(***************************************************************************)
(* Properties.                                                             *)
(***************************************************************************)

VirginMaps == [Edges -> SUBSET Buckets]
MaybeTrace == Traces \cup {NoTrace}
QueueEntry == [mem : Inputs, exec_cksum : MaybeTrace, cal_failed : 0..CAL_CHANCES,
               var_behavior : BOOLEAN]
SaveVars == [mem : Inputs, fault : Faults, new_bits : 0..2, classified : BOOLEAN,
             need_hash : BOOLEAN, unique : MaybeTrace]
CalVars == [q : Nat, stage_cur : Nat, stage_max : Nat, first_trace : MaybeTrace,
            var_detected : BOOLEAN, dummy : BOOLEAN, return : {"idle", "switch"}]

\* The types of the maps and of the queue; no more crashes and hangs are kept
\* than KEEP_UNIQUE_CRASH and KEEP_UNIQUE_HANG, no entry has more than
\* CAL_CHANCES failed calibrations, and calibrate_case works on an entry.
TypeOK ==
    /\ options \in OptionSets
    /\ stop_soon \in BOOLEAN
    /\ pc \in {"idle", "save", "check", "queue", "begin_cal", "calibrate", "switch",
               "rerun", "keep_as_crash", "dead"}
    /\ trace_bits \in Traces
    /\ virgin_bits \in VirginMaps /\ virgin_tmout \in VirginMaps /\ virgin_crash \in VirginMaps
    /\ var_bytes \subseteq Edges
    /\ queue \in Seq(QueueEntry) /\ save \in SaveVars /\ cal \in CalVars
    /\ crashes \subseteq Traces /\ hangs \subseteq Traces
    /\ Cardinality(crashes) <= KEEP_UNIQUE_CRASH /\ Cardinality(hangs) <= KEEP_UNIQUE_HANG
    /\ pc \in {"begin_cal", "calibrate"} <=> cal.q \in DOMAIN queue

\* What an input may show in the runs that are compared with virgin_bits.
Shown(t) == {classify_counts(o.trace) :
                o \in {p \in Runs[t]["exec"] \cup Runs[t]["calibrate"] :
                          p.fault = options.crash_mode}}

\* The entries of the queue, with the one that is about to be added.
Kept == {queue[i].mem : i \in DOMAIN queue} \cup (IF pc = "queue" THEN {save.mem} ELSE {})

\* Coverage is not forgotten: whatever virgin_bits has crossed off, there is an
\* entry in the queue that shows it, so that it is fuzzed further and survives
\* a restart; only the bytes that vary are given up.  It would not be so if
\* traces were classified twice, or if those of timeouts and crashes were
\* counted.
CoverageIsKept ==
    \A e \in Edges \ var_bytes : \A b \in Buckets \ virgin_bits[e] :
        \E t \in Kept : \E trace \in Shown(t) : trace[e] = b

\* A byte is given up as variable only when there is an entry whose own runs
\* differ in it: the runs that are compared are always those of one entry,
\* whatever was executed between its discovery and its calibration.
VariableBytesVary ==
    \A e \in var_bytes : \E t \in Kept :
        \E trace1, trace2 \in Shown(t) : trace1[e] # trace2[e]

Covered(trace, saved) == \A e \in Edges : \E other \in saved : other[e] = trace[e]

\* "Crashes [...] are considered 'unique' if the associated execution paths
\* involve any state transitions not seen in previously-recorded faults": a
\* crash of which nothing has been saved has nothing that the saved ones do not
\* have, be it found at once or when a hang was given more time.  In the crash
\* exploration mode crashes are queue entries instead.
CrashesAreKept ==
    pc = "idle" /\ options.crash_mode = "ok" =>
        \/ Cardinality(crashes) = KEEP_UNIQUE_CRASH
        \/ \A r \in observed : r.fault = "crash" => Covered(r.trace, crashes)

\* save_if_interesting returns, also with AFL_KEEP_TIMEOUTS, where a timeout
\* that turns out to be none goes back to save_to_queue and is handled as a
\* timeout once more.
SaveReturns == pc # "idle" ~> pc \in {"idle", "dead"}

=============================================================================

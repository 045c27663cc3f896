--------------------------- MODULE SaveFindsProofs ---------------------------
(***************************************************************************)
(* Proofs about SaveFinds, for any map, any test cases with any runs, and  *)
(* any limits: the types and the limits, that coverage is not forgotten    *)
(* (CoverageIsKept), that only bytes that vary are given up                *)
(* (VariableBytesVary), and that no new crash is dropped (CrashesAreKept). *)
(*                                                                         *)
(* The argument.  There is one trace map, and each use of it relies on     *)
(* whose trace it holds and on whether it has been classified: Executed    *)
(* says so for save_if_interesting, Compared for calibrate_case.  What a   *)
(* virgin map crosses off is then a value that the trace of a test case    *)
(* that is kept has (a byte of a classified trace is one bit, or none);    *)
(* for virgin_crash, Explored says the same of the crashes that are saved, *)
(* and Handled that a crash not saved yet is still the one in the map.     *)
(***************************************************************************)
EXTENDS SaveFinds, FiniteSetTheorems, SequenceTheorems, TLAPS

Calibrating == pc \in {"begin_cal", "calibrate"}

\* The test case whose trace is in the map, and whether it has been classified.
Executed ==
    /\ pc \in {"save", "check"} =>
          \E o \in Runs[save.mem]["exec"] :
              /\ o.fault = save.fault
              /\ trace_bits = IF save.classified THEN classify_counts(o.trace) ELSE o.trace
    /\ pc = "save" => ~save.classified
    /\ pc = "check" => save.fault = options.crash_mode
    /\ save.new_bits # 0 => save.fault = options.crash_mode
    /\ pc = "queue" /\ save.new_bits # 0 => trace_bits \in Shown(save.mem)
    /\ pc = "rerun" => save.fault = "tmout"

\* The traces that calibrate_case starts from are those of its entry.
Compared ==
    /\ pc = "begin_cal" /\ queue[cal.q].exec_cksum # NoTrace =>
          trace_bits \in Shown(queue[cal.q].mem)
    /\ pc = "calibrate" /\ queue[cal.q].exec_cksum # NoTrace =>
          cal.first_trace \in Shown(queue[cal.q].mem)

\* The limits are kept because they are looked at in time.
Limits ==
    /\ IsFiniteSet(crashes) /\ IsFiniteSet(hangs)
    /\ pc = "begin_cal" => queue[cal.q].cal_failed < CAL_CHANCES
    /\ ~Calibrating => cal.q = 0
    /\ pc = "rerun" => HangRoom /\ save.unique \in Traces

\* What virgin_crash has crossed off, a saved crash has.
Explored ==
    \A e \in Edges : \A b \in Buckets \ virgin_crash[e] :
        \E other \in crashes : other[e] = b

\* keep_as_crash is next.
AtCrash == pc = "keep_as_crash" \/ (pc = "switch" /\ save.fault = "crash")

\* A crash that is not covered by the saved ones is about to be saved.
Handled ==
    options.crash_mode = "ok" =>
        \/ Cardinality(crashes) = KEEP_UNIQUE_CRASH
        \/ \A r \in observed : r.fault = "crash" =>
              \/ Covered(r.trace, crashes)
              \/ AtCrash /\ r.trace = simplify_trace(trace_bits)

IInv ==
    /\ TypeOK /\ Executed /\ Compared /\ Limits
    /\ CoverageIsKept /\ VariableBytesVary
    /\ Explored /\ Handled

----------------------------------------------------------------------------
(***************************************************************************)
(* Bytes and traces.                                                       *)
(***************************************************************************)

\* A classified byte is one bucket, or none.
LEMMA OneBucket ==
    ASSUME NEW n \in 0..255
    PROVE  /\ CountClass(n) \in {0} \cup Buckets
           /\ CountClass(n) = 0 <=> n = 0
<1>1. CASE n \in 0..2
  BY <1>1 DEF CountClass, Buckets
<1>2. CASE n = 3
  BY <1>2 DEF CountClass, Buckets
<1>3. CASE n \in 4..7
  BY <1>3 DEF CountClass, Buckets
<1>4. CASE n \in 8..15
  BY <1>4 DEF CountClass, Buckets
<1>5. CASE n \in 16..31
  BY <1>5 DEF CountClass, Buckets
<1>6. CASE n \in 32..127
  BY <1>6 DEF CountClass, Buckets
<1>7. CASE n \in 128..255
  BY <1>7 DEF CountClass, Buckets
<1> QED
  BY <1>1, <1>2, <1>3, <1>4, <1>5, <1>6, <1>7

\* A bucket is its only bit.
LEMMA OneBit ==
    ASSUME NEW n \in {0} \cup Buckets
    PROVE  Bits(n) = {n} \cap Buckets
<1>1. ASSUME NEW b \in Buckets PROVE (n \div b) % 2 = 1 <=> b = n
  <2>1. CASE b = 1
    BY <2>1 DEF Buckets
  <2>2. CASE b = 2
    BY <2>2 DEF Buckets
  <2>3. CASE b = 4
    BY <2>3 DEF Buckets
  <2>4. CASE b = 8
    BY <2>4 DEF Buckets
  <2>5. CASE b = 16
    BY <2>5 DEF Buckets
  <2>6. CASE b = 32
    BY <2>6 DEF Buckets
  <2>7. CASE b = 64
    BY <2>7 DEF Buckets
  <2>8. CASE b = 128
    BY <2>8 DEF Buckets
  <2> QED BY <2>1, <2>2, <2>3, <2>4, <2>5, <2>6, <2>7, <2>8 DEF Buckets
<1> QED
  BY <1>1 DEF Bits

LEMMA BucketValues == 0 \notin Buckets /\ Buckets \subseteq 0..255 /\ 1 \in Buckets /\ 128 \in Buckets
  BY DEF Buckets

\* The traces of classify_counts and of simplify_trace, byte by byte.
LEMMA ClassifiedTraces ==
    ASSUME NEW trace \in Traces
    PROVE  /\ classify_counts(trace) \in Traces
           /\ \A e \in Edges : /\ classify_counts(trace)[e] \in {0} \cup Buckets
                               /\ classify_counts(trace)[e] = 0 <=> trace[e] = 0
<1>1. \A e \in Edges : trace[e] \in 0..255
  BY DEF Traces
<1>2. \A e \in Edges : /\ CountClass(trace[e]) \in {0} \cup Buckets
                       /\ CountClass(trace[e]) = 0 <=> trace[e] = 0
  BY <1>1, OneBucket
<1>3. {0} \cup Buckets \subseteq 0..255
  BY BucketValues
<1> QED
  BY <1>2, <1>3 DEF classify_counts, Traces

LEMMA Simplified ==
    ASSUME NEW trace \in Traces
    PROVE  /\ simplify_trace(trace) \in Traces
           /\ \A e \in Edges : simplify_trace(trace)[e] \in {1, 128}
           /\ simplify_trace(classify_counts(trace)) = simplify_trace(trace)
<1>1. \A e \in Edges : simplify_trace(trace)[e] \in {1, 128}
  BY DEF simplify_trace
<1>2. simplify_trace(trace) \in Traces
  BY <1>1, BucketValues DEF simplify_trace, Traces
<1>3. \A e \in Edges : classify_counts(trace)[e] = 0 <=> trace[e] = 0
  BY ClassifiedTraces
<1>4. simplify_trace(classify_counts(trace)) = simplify_trace(trace)
  BY <1>3 DEF simplify_trace
<1> QED
  BY <1>1, <1>2, <1>4

\* What is crossed off a virgin map is a value of the trace.
LEMMA CrossedOff ==
    ASSUME NEW trace, \A e \in Edges : trace[e] \in {0} \cup Buckets,
           NEW virgin \in VirginMaps
    PROVE  /\ Remaining(trace, virgin) \in VirginMaps
           /\ \A e \in Edges : \A b \in Buckets \ Remaining(trace, virgin)[e] :
                 b \notin virgin[e] \/ b = trace[e]
<1>1. \A e \in Edges : Remaining(trace, virgin)[e] = virgin[e] \ ({trace[e]} \cap Buckets)
  BY OneBit DEF Remaining
<1>2. Remaining(trace, virgin) \in VirginMaps
  BY DEF Remaining, VirginMaps
<1> QED
  BY <1>1, <1>2

\* A simplified trace that has no new bits has been crossed off everywhere.
LEMMA NothingNew ==
    ASSUME NEW trace, \A e \in Edges : trace[e] \in {1, 128}, NEW virgin, NewBits(trace, virgin) = 0
    PROVE  \A e \in Edges : trace[e] \in Buckets \ virgin[e]
<1>1. \A e \in Edges : Bits(trace[e]) \cap virgin[e] = {}
  <2>1. ~ \E e \in Edges : Bits(trace[e]) \cap virgin[e] # {}
    BY DEF NewBits
  <2> QED BY <2>1
<1>2. \A e \in Edges : Bits(trace[e]) = {trace[e]} /\ trace[e] \in Buckets
  BY OneBit, BucketValues
<1> QED
  BY <1>1, <1>2

----------------------------------------------------------------------------
(***************************************************************************)
(* Types.                                                                  *)
(***************************************************************************)

LEMMA OptionTypes ==
    ASSUME NEW o \in OptionSets
    PROVE  /\ o.seed \in Inputs /\ o.inputs \in SUBSET Inputs
           /\ o.crash_mode \in {"ok", "crash"} /\ o.fast \in BOOLEAN
           /\ o.cmplog \in BOOLEAN
  BY SaveAssumption DEF Options

LEMMA RunTypes ==
    ASSUME NEW t \in Inputs, NEW w \in Timeouts, NEW o \in Runs[t][w]
    PROVE  o.fault \in Faults /\ o.trace \in Traces
<1>1. o \in Outcomes
  BY SaveAssumption
<1> QED
  BY <1>1 DEF Outcomes

LEMMA NothingToSave ==
    ASSUME options \in OptionSets
    PROVE  NoSave \in SaveVars
  BY OptionTypes DEF NoSave, SaveVars, MaybeTrace, Faults

LEMMA NothingToCalibrate == NoCal \in CalVars
  BY DEF NoCal, CalVars, MaybeTrace

\* An entry of the queue is changed, but not its test case.
LEMMA EntryChanged ==
    ASSUME NEW s \in Seq(QueueEntry), NEW i \in DOMAIN s, NEW q \in QueueEntry,
           q.mem = s[i].mem, NEW t, t = [s EXCEPT ![i] = q]
    PROVE  /\ t \in Seq(QueueEntry) /\ DOMAIN t = DOMAIN s /\ Len(t) = Len(s)
           /\ t[i] = q
           /\ \A j \in DOMAIN s : t[j].mem = s[j].mem
           /\ \A j \in DOMAIN s \ {i} : t[j] = s[j]
  OBVIOUS

\* A new one.
LEMMA EntryAdded ==
    ASSUME NEW s \in Seq(QueueEntry), NEW q \in QueueEntry, NEW t, t = Append(s, q)
    PROVE  /\ t \in Seq(QueueEntry) /\ DOMAIN s \subseteq DOMAIN t
           /\ Len(s) + 1 \in DOMAIN t /\ t[Len(s) + 1] = q /\ Len(s) \in Nat
           /\ \A j \in DOMAIN s : t[j] = s[j]
  OBVIOUS

MapTypes ==
    /\ trace_bits \in Traces
    /\ virgin_bits \in VirginMaps /\ virgin_tmout \in VirginMaps /\ virgin_crash \in VirginMaps
    /\ var_bytes \subseteq Edges

\* The queue, and the entry that is calibrated.
QueueTypes ==
    /\ queue \in Seq(QueueEntry) /\ cal \in CalVars
    /\ Calibrating <=> cal.q \in DOMAIN queue
    /\ ~Calibrating => cal.q = 0
    /\ pc = "begin_cal" => queue[cal.q].cal_failed < CAL_CHANCES

\* The saved faults.
FaultTypes ==
    /\ crashes \subseteq Traces /\ hangs \subseteq Traces
    /\ IsFiniteSet(crashes) /\ IsFiniteSet(hangs)
    /\ Cardinality(crashes) <= KEEP_UNIQUE_CRASH /\ Cardinality(hangs) <= KEEP_UNIQUE_HANG

\* The variables of save_if_interesting.
SaveTypes ==
    /\ save \in SaveVars
    /\ pc = "rerun" => HangRoom /\ save.unique \in Traces

Points == {"idle", "save", "check", "queue", "begin_cal", "calibrate", "switch",
           "rerun", "keep_as_crash", "dead"}

PointTypes == options \in OptionSets /\ stop_soon \in BOOLEAN /\ pc \in Points

LEMMA TypeParts ==
    /\ TypeOK /\ Limits <=>
          PointTypes /\ MapTypes /\ QueueTypes /\ FaultTypes /\ SaveTypes
    /\ TypeOK' /\ Limits' <=>
          PointTypes' /\ MapTypes' /\ QueueTypes' /\ FaultTypes' /\ SaveTypes'
  BY DEF TypeOK, Limits, PointTypes, Points, MapTypes, QueueTypes, FaultTypes, SaveTypes,
         Calibrating

\* The runs of the steps are runs of test cases.
LEMMA StepRuns ==
    ASSUME TypeOK
    PROVE  /\ pc = "calibrate" => \A o \in Runs[Calibrated]["calibrate"] :
                 o.fault \in Faults /\ o.trace \in Traces
           /\ \A o \in Runs[save.mem]["hang"] : o.fault \in Faults /\ o.trace \in Traces
           /\ \A t \in options.inputs : \A o \in Runs[t]["exec"] :
                 o.fault \in Faults /\ o.trace \in Traces /\ t \in Inputs
<1>1. "calibrate" \in Timeouts /\ "hang" \in Timeouts /\ "exec" \in Timeouts
  BY DEF Timeouts
<1>2. pc = "calibrate" => Calibrated \in Inputs
  <2>1. \A i \in DOMAIN queue : queue[i] \in QueueEntry
    BY DEF TypeOK
  <2>2. pc = "calibrate" => cal.q \in DOMAIN queue
    BY DEF TypeOK
  <2> QED BY <2>1, <2>2 DEF Calibrated, QueueEntry
<1>3. save.mem \in Inputs /\ options.inputs \in SUBSET Inputs
  BY OptionTypes DEF TypeOK, SaveVars
<1> QED
  BY <1>1, <1>2, <1>3, RunTypes

LEMMA PointTypesStep ==
    ASSUME TypeOK, Next
    PROVE  PointTypes'
<1> USE DEF PointTypes, Points
<1>1. options \in OptionSets /\ stop_soon \in BOOLEAN /\ pc \in Points /\ cal.return \in {"idle", "switch"}
  BY DEF TypeOK, CalVars
<1>2. options' = options
  BY DEF Next, Step, BeginCal, AbortCal, DummyRun, CalRun, CompleteCal, Abandon, IgnoreTimeout,
         UpdateFrequency, CheckCoverage, SaveToQueue, EndSwitch, HandleTimeout, Rerun,
         KeepAsCrash, FuzzRun, Recalibrate, Stop
<1>3. stop_soon' \in BOOLEAN
  BY <1>1 DEF Next, Step, BeginCal, AbortCal, DummyRun, CalRun, CompleteCal, Abandon,
         IgnoreTimeout, UpdateFrequency, CheckCoverage, SaveToQueue, EndSwitch, HandleTimeout,
         Rerun, KeepAsCrash, FuzzRun, Recalibrate, Stop
<1>4. pc' \in Points
  <2>1. CASE \E o \in Runs[save.mem]["hang"] : Rerun(o)
    BY <1>1, <2>1 DEF Rerun, Uncovered, Return
  <2>2. CASE ~ \E o \in Runs[save.mem]["hang"] : Rerun(o)
    BY <1>1, <2>2 DEF Next, Step, BeginCal, AbortCal, DummyRun, CalRun, CompleteCal, EndCal,
         Abandon, IgnoreTimeout, UpdateFrequency, CheckCoverage, SaveToQueue, EndSwitch,
         HandleTimeout, KeepAsCrash, FuzzRun, Recalibrate, Stop, Return
  <2> QED BY <2>1, <2>2
<1> QED
  BY <1>1, <1>2, <1>3, <1>4

\* The maps, trace by trace.
LEMMA MapTypesStep ==
    ASSUME TypeOK, Next
    PROVE  MapTypes'
<1> USE DEF MapTypes
<1>1. /\ trace_bits \in Traces
      /\ virgin_bits \in VirginMaps /\ virgin_tmout \in VirginMaps /\ virgin_crash \in VirginMaps
      /\ var_bytes \subseteq Edges
  BY DEF TypeOK
<1>2. \A trace : \A virgin \in VirginMaps : Remaining(trace, virgin) \in VirginMaps
  BY DEF Remaining, VirginMaps
<1>3. /\ classify_counts(trace_bits) \in Traces
      /\ simplify_trace(trace_bits) \in Traces
  BY <1>1, ClassifiedTraces, Simplified
<1>4. CASE UNCHANGED mapVars
  BY <1>1, <1>4 DEF mapVars
<1>5. CASE BeginCal
  BY <1>1, <1>2, <1>5 DEF BeginCal
<1>6. CASE pc = "calibrate" /\ \E o \in Runs[Calibrated]["calibrate"] :
              AbortCal(o) \/ DummyRun(o) \/ CalRun(o)
  <2>1. PICK o \in Runs[Calibrated]["calibrate"] : AbortCal(o) \/ DummyRun(o) \/ CalRun(o)
    BY <1>6
  <2>2. o.trace \in Traces /\ classify_counts(o.trace) \in Traces
    BY <1>6, StepRuns, ClassifiedTraces
  <2>3. CASE AbortCal(o) \/ DummyRun(o)
    BY <1>1, <2>2, <2>3 DEF AbortCal, DummyRun
  <2>4. CASE CalRun(o)
    <3> DEFINE trace == classify_counts(o.trace)
               varying == IF queue[cal.q].exec_cksum # NoTrace
                             /\ queue[cal.q].exec_cksum # trace
                          THEN Varying(trace) ELSE {}
               crossed == [e \in Edges |-> IF e \in varying THEN {}
                                           ELSE Remaining(trace, virgin_bits)[e]]
    <3>1. varying \subseteq Edges
      BY DEF Varying
    <3>2. Remaining(trace, virgin_bits) \in VirginMaps
      BY <1>1, <1>2
    <3>3. crossed \in VirginMaps
      BY <3>2 DEF VirginMaps
    <3>4. /\ trace_bits' = trace
          /\ virgin_bits' = virgin_bits \/ virgin_bits' = crossed
          /\ var_bytes' = var_bytes \cup varying
          /\ UNCHANGED <<virgin_tmout, virgin_crash>>
      BY <2>4 DEF CalRun
    <3> HIDE DEF varying, crossed, trace
    <3> QED BY <1>1, <2>2, <3>1, <3>3, <3>4 DEF trace
  <2> QED BY <2>1, <2>3, <2>4
<1>7. CASE IgnoreTimeout \/ UpdateFrequency
  BY <1>1, <1>3, <1>7 DEF IgnoreTimeout, UpdateFrequency
<1>8. CASE CheckCoverage
  BY <1>1, <1>2, <1>3, <1>8 DEF CheckCoverage
<1>9. CASE HandleTimeout
  BY <1>1, <1>2, <1>3, <1>9 DEF HandleTimeout
<1>10. CASE \E o \in Runs[save.mem]["hang"] : Rerun(o)
  <2>1. PICK o \in Runs[save.mem]["hang"] : Rerun(o)
    BY <1>10
  <2>2. classify_counts(o.trace) \in Traces
    BY StepRuns, ClassifiedTraces
  <2> QED BY <1>1, <2>1, <2>2 DEF Rerun
<1>11. CASE KeepAsCrash
  BY <1>1, <1>2, <1>3, <1>11 DEF KeepAsCrash
<1>12. CASE \E t \in options.inputs : \E o \in Runs[t]["exec"] : FuzzRun(t, o)
  BY <1>1, <1>12, StepRuns DEF FuzzRun
<1> QED
  BY <1>4, <1>5, <1>6, <1>7, <1>8, <1>9, <1>10, <1>11, <1>12
  DEF Next, Step, CompleteCal, Abandon, SaveToQueue, EndSwitch, Recalibrate, Stop

\* The entry that is calibrated, and what is done to it.
LEMMA CalEntry ==
    ASSUME TypeOK, Calibrating
    PROVE  /\ cal.q \in DOMAIN queue /\ queue[cal.q] \in QueueEntry
           /\ cal \in CalVars /\ queue \in Seq(QueueEntry)
  BY DEF TypeOK, Calibrating

LEMMA EntryTypes ==
    ASSUME NEW q \in QueueEntry
    PROVE  /\ q.mem \in Inputs /\ q.exec_cksum \in MaybeTrace /\ q.cal_failed \in 0..CAL_CHANCES
           /\ \A cksum \in MaybeTrace :
                 /\ [q EXCEPT !.exec_cksum = cksum] \in QueueEntry
                 /\ q.cal_failed < CAL_CHANCES =>
                       [q EXCEPT !.exec_cksum = cksum, !.cal_failed = @ + 1] \in QueueEntry
           /\ [q EXCEPT !.cal_failed = 0] \in QueueEntry
           /\ \A v \in BOOLEAN : [q EXCEPT !.var_behavior = @ \/ v] \in QueueEntry
<1>0. CAL_CHANCES \in Nat \ {0}
  BY SaveAssumption
<1>1. q.mem \in Inputs /\ q.exec_cksum \in MaybeTrace /\ q.cal_failed \in 0..CAL_CHANCES
      /\ q.var_behavior \in BOOLEAN
  BY DEF QueueEntry
<1>2. ASSUME NEW cksum \in MaybeTrace
      PROVE  [q EXCEPT !.exec_cksum = cksum] \in QueueEntry
  BY DEF QueueEntry
<1>3. ASSUME NEW cksum \in MaybeTrace, q.cal_failed < CAL_CHANCES
      PROVE  [q EXCEPT !.exec_cksum = cksum, !.cal_failed = @ + 1] \in QueueEntry
  <2>1. q.cal_failed + 1 \in 0..CAL_CHANCES
    BY <1>0, <1>1, <1>3
  <2>2. \A n \in 0..CAL_CHANCES : [q EXCEPT !.exec_cksum = cksum, !.cal_failed = n] \in QueueEntry
    BY DEF QueueEntry
  <2> QED BY <2>1, <2>2
<1>4. [q EXCEPT !.cal_failed = 0] \in QueueEntry
  BY <1>0 DEF QueueEntry
<1>5. ASSUME NEW v \in BOOLEAN PROVE [q EXCEPT !.var_behavior = @ \/ v] \in QueueEntry
  <2>1. \A w \in BOOLEAN : [q EXCEPT !.var_behavior = w] \in QueueEntry
    BY DEF QueueEntry
  <2> QED BY <1>1, <2>1
<1> QED
  BY <1>1, <1>2, <1>3, <1>4, <1>5

\* A calibration that ends, however it does.
LEMMA EndedCal ==
    ASSUME TypeOK, pc = "calibrate", NEW fault, NEW q \in QueueEntry,
           q.mem = queue[cal.q].mem, EndCal(fault, q)
    PROVE  /\ queue' \in Seq(QueueEntry) /\ cal' = NoCal /\ DOMAIN queue' = DOMAIN queue
           /\ \A i \in DOMAIN queue : queue'[i].mem = queue[i].mem
           /\ pc' \in {"dead", "idle", "switch"}
<1> DEFINE e == [q EXCEPT !.var_behavior = @ \/ cal.var_detected]
<1>1. /\ cal.q \in DOMAIN queue /\ cal \in CalVars /\ queue \in Seq(QueueEntry)
  BY CalEntry DEF Calibrating
<1>2. cal.var_detected \in BOOLEAN /\ cal.return \in {"idle", "switch"}
  BY <1>1 DEF CalVars
<1>3. e \in QueueEntry /\ e.mem = q.mem
  BY <1>2, EntryTypes DEF QueueEntry
<1>4. queue' = [queue EXCEPT ![cal.q] = e] /\ cal' = NoCal
      /\ pc' = IF fault = "error" THEN "dead" ELSE cal.return
  BY DEF EndCal
<1> HIDE DEF e
<1>5. queue' \in Seq(QueueEntry) /\ DOMAIN queue' = DOMAIN queue
      /\ \A i \in DOMAIN queue : queue'[i].mem = queue[i].mem
  BY <1>1, <1>3, <1>4, EntryChanged
<1> QED
  BY <1>2, <1>4, <1>5

\* The first trace, and a new entry.
LEMMA FreshCal ==
    ASSUME TypeOK
    PROVE  /\ NoCal \in CalVars /\ NoCal.q = 0
           /\ \A q \in Nat, return \in {"idle", "switch"} :
                 [NoCal EXCEPT !.q = q, !.return = return] \in CalVars
           /\ \A q \in Nat : [NoCal EXCEPT !.q = q] \in CalVars
           /\ \A t \in Inputs, cksum \in MaybeTrace : Entry(t, cksum) \in QueueEntry
           /\ 0 \notin DOMAIN queue
<1>1. NoCal \in CalVars /\ NoCal.q = 0
  BY NothingToCalibrate DEF NoCal
<1>2. \A q \in Nat, return \in {"idle", "switch"} :
          [NoCal EXCEPT !.q = q, !.return = return] \in CalVars
  BY <1>1 DEF CalVars
<1>3. \A q \in Nat : [NoCal EXCEPT !.q = q] \in CalVars
  BY <1>1 DEF CalVars
<1>4. \A t \in Inputs, cksum \in MaybeTrace : Entry(t, cksum) \in QueueEntry
  BY SaveAssumption DEF Entry, QueueEntry
<1>5. 0 \notin DOMAIN queue
  BY DEF TypeOK
<1> QED
  BY <1>1, <1>2, <1>3, <1>4, <1>5

\* What a calibration does to the entry, to its variables and to the maps.
LEMMA CalRunEffect ==
    ASSUME TypeOK, pc = "calibrate", NEW o \in Runs[Calibrated]["calibrate"], CalRun(o)
    PROVE  LET trace == classify_counts(o.trace)
               cksum == queue[cal.q].exec_cksum
           IN  /\ queue' \in Seq(QueueEntry) /\ DOMAIN queue' = DOMAIN queue
               /\ \A i \in DOMAIN queue : queue'[i].mem = queue[i].mem
               /\ queue'[cal.q].exec_cksum # NoTrace
               /\ cal' \in CalVars /\ cal'.q = cal.q
               /\ cal'.first_trace = IF cksum = NoTrace THEN trace ELSE cal.first_trace
<1> DEFINE trace == classify_counts(o.trace)
           q == queue[cal.q]
           cksum == q.exec_cksum
           new == IF cksum = NoTrace THEN trace ELSE cksum
           differs == cksum # NoTrace /\ cksum # trace
<1>1. /\ cal.q \in DOMAIN queue /\ q \in QueueEntry
      /\ cal \in CalVars /\ queue \in Seq(QueueEntry)
  BY CalEntry DEF Calibrating
<1>2. trace \in Traces
  BY StepRuns, ClassifiedTraces
<1>3. NoTrace \notin Traces /\ CAL_CYCLES_LONG \in Nat
  BY SaveAssumption
<1>4. new \in MaybeTrace /\ new # NoTrace
  BY <1>1, <1>2, <1>3, EntryTypes DEF MaybeTrace
<1>5. [q EXCEPT !.exec_cksum = new] \in QueueEntry
      /\ [q EXCEPT !.exec_cksum = new].mem = q.mem
      /\ [q EXCEPT !.exec_cksum = new].exec_cksum = new
  BY <1>1, <1>4, EntryTypes DEF QueueEntry
<1>6. queue' = [queue EXCEPT ![cal.q] = [q EXCEPT !.exec_cksum = new]]
  BY <1>1 DEF CalRun
<1> HIDE DEF new
<1>7. /\ queue' \in Seq(QueueEntry) /\ DOMAIN queue' = DOMAIN queue
      /\ \A i \in DOMAIN queue : queue'[i].mem = queue[i].mem
      /\ queue'[cal.q] = [q EXCEPT !.exec_cksum = new]
  BY <1>1, <1>5, <1>6, EntryChanged
<1> DEFINE first == IF cksum = NoTrace THEN trace ELSE cal.first_trace
           max == IF differs THEN CAL_CYCLES_LONG ELSE cal.stage_max
           var == cal.var_detected \/ differs
<1>8. cal' = [cal EXCEPT !.stage_cur = cal.stage_cur + 1, !.first_trace = first,
                         !.stage_max = max, !.var_detected = var]
  BY <1>1 DEF CalRun, NextCycle, CalVars
<1>9. cal.stage_cur + 1 \in Nat /\ first \in MaybeTrace /\ max \in Nat /\ var \in BOOLEAN
  BY <1>1, <1>2, <1>3 DEF CalVars, MaybeTrace
<1> HIDE DEF first, max, var
<1>10. cal' \in CalVars /\ cal'.q = cal.q /\ cal'.first_trace = first
  BY <1>1, <1>8, <1>9 DEF CalVars
<1> QED
  BY <1>4, <1>5, <1>7, <1>10 DEF first

LEMMA QueueTypesStep ==
    ASSUME TypeOK, Limits, Next
    PROVE  /\ QueueTypes'
           /\ DOMAIN queue \subseteq DOMAIN queue'
           /\ \A i \in DOMAIN queue : queue'[i].mem = queue[i].mem
<1> USE DEF QueueTypes, Calibrating
<1>1. /\ queue \in Seq(QueueEntry) /\ cal \in CalVars
      /\ Calibrating <=> cal.q \in DOMAIN queue
      /\ ~Calibrating => cal.q = 0
      /\ pc = "begin_cal" => queue[cal.q].cal_failed < CAL_CHANCES
      /\ save \in SaveVars /\ options \in OptionSets /\ trace_bits \in Traces
  BY DEF TypeOK, Limits
<1>2. ASSUME UNCHANGED <<queue, cal>>, Calibrating', Calibrating, pc' # "begin_cal" \/ pc = "begin_cal"
      PROVE  QueueTypes'
  BY <1>1, <1>2
<1>3. ASSUME UNCHANGED <<queue, cal>>, ~Calibrating', ~Calibrating
      PROVE  QueueTypes'
  BY <1>1, <1>3
<1>4. CASE BeginCal
  <2> DEFINE q == queue[cal.q]
             cksum == IF options.cmplog THEN NoTrace ELSE q.exec_cksum
             e == [q EXCEPT !.exec_cksum = cksum, !.cal_failed = @ + 1]
             first == IF cksum # NoTrace THEN trace_bits ELSE NoTrace
  <2>1. cal.q \in DOMAIN queue /\ q \in QueueEntry
    BY <1>4, CalEntry DEF BeginCal
  <2>2. cksum \in MaybeTrace
    BY <2>1, EntryTypes DEF MaybeTrace
  <2>3. q.cal_failed < CAL_CHANCES
    BY <1>1, <1>4 DEF BeginCal
  <2> HIDE DEF cksum
  <2>4. e \in QueueEntry
    BY <2>1, <2>2, <2>3, EntryTypes
  <2>5. e.mem = q.mem
    BY <2>1 DEF QueueEntry
  <2>6. queue' = [queue EXCEPT ![cal.q] = e]
    BY <1>4 DEF BeginCal, cksum
  <2>7. cal' = [cal EXCEPT !.first_trace = first, !.stage_max = CAL_CYCLES,
                           !.dummy = options.cmplog]
    BY <1>4 DEF BeginCal, cksum
  <2>8. first \in MaybeTrace /\ CAL_CYCLES \in Nat /\ options.cmplog \in BOOLEAN
    BY <1>1, SaveAssumption, OptionTypes DEF MaybeTrace
  <2> HIDE DEF first, e
  <2>9. cal' \in CalVars /\ cal'.q = cal.q
    BY <1>1, <2>7, <2>8 DEF CalVars
  <2>10. queue' \in Seq(QueueEntry) /\ DOMAIN queue' = DOMAIN queue
         /\ \A i \in DOMAIN queue : queue'[i].mem = queue[i].mem
    BY <1>1, <2>1, <2>4, <2>5, <2>6, EntryChanged
  <2>11. pc = "begin_cal" /\ pc' = "calibrate"
    BY <1>4 DEF BeginCal
  <2> QED BY <1>1, <2>9, <2>10, <2>11
<1>5. CASE pc = "calibrate" /\ \E o \in Runs[Calibrated]["calibrate"] :
              AbortCal(o) \/ DummyRun(o) \/ CalRun(o)
  <2> PICK o \in Runs[Calibrated]["calibrate"] : AbortCal(o) \/ DummyRun(o) \/ CalRun(o)
    BY <1>5
  <2>1. CASE AbortCal(o)
    <3>1. queue[cal.q] \in QueueEntry /\ EndCal(o.fault, queue[cal.q])
      BY <1>5, <2>1, CalEntry DEF AbortCal
    <3>2. /\ queue' \in Seq(QueueEntry) /\ cal' = NoCal /\ DOMAIN queue' = DOMAIN queue
          /\ \A i \in DOMAIN queue : queue'[i].mem = queue[i].mem
          /\ pc' \in {"dead", "idle", "switch"}
      BY <1>5, <3>1, EndedCal
    <3> QED BY <3>2, FreshCal
  <2>2. CASE DummyRun(o)
    <3>1. /\ cal' = [cal EXCEPT !.dummy = FALSE] /\ UNCHANGED <<queue, pc>>
      BY <2>2 DEF DummyRun
    <3>2. cal' \in CalVars /\ cal'.q = cal.q
      BY <1>1, <3>1 DEF CalVars
    <3> QED BY <1>1, <1>5, <3>1, <3>2
  <2>3. CASE CalRun(o)
    <3>1. /\ queue' \in Seq(QueueEntry) /\ DOMAIN queue' = DOMAIN queue
          /\ \A i \in DOMAIN queue : queue'[i].mem = queue[i].mem
          /\ cal' \in CalVars /\ cal'.q = cal.q
      BY <1>5, <2>3, CalRunEffect
    <3>2. pc' = pc
      BY <2>3 DEF CalRun
    <3> QED BY <1>1, <1>5, <3>1, <3>2
  <2> QED BY <2>1, <2>2, <2>3
<1>6. CASE CompleteCal
  <2> DEFINE q == [queue[cal.q] EXCEPT !.cal_failed = 0]
  <2>1. pc = "calibrate" /\ EndCal(options.crash_mode, q)
    BY <1>6 DEF CompleteCal
  <2>2. q \in QueueEntry /\ q.mem = queue[cal.q].mem
    BY <2>1, CalEntry, EntryTypes DEF QueueEntry
  <2> HIDE DEF q
  <2>3. /\ queue' \in Seq(QueueEntry) /\ cal' = NoCal /\ DOMAIN queue' = DOMAIN queue
        /\ \A i \in DOMAIN queue : queue'[i].mem = queue[i].mem
        /\ pc' \in {"dead", "idle", "switch"}
    BY <2>1, <2>2, EndedCal
  <2> QED BY <2>3, FreshCal
<1>7. CASE SaveToQueue
  <2> DEFINE hash == save.need_hash /\ save.new_bits # 0
             e == Entry(save.mem, IF hash THEN trace_bits ELSE NoTrace)
  <2>1. e \in QueueEntry /\ e.cal_failed = 0
    BY <1>1, FreshCal DEF SaveVars, MaybeTrace, Entry
  <2>2. /\ queue' = Append(queue, e) /\ pc' = "begin_cal" /\ pc = "queue"
        /\ cal' = [NoCal EXCEPT !.q = Len(queue) + 1, !.return = "switch"]
    BY <1>7 DEF SaveToQueue
  <2> HIDE DEF e
  <2>3. /\ queue' \in Seq(QueueEntry) /\ DOMAIN queue \subseteq DOMAIN queue'
        /\ Len(queue) + 1 \in DOMAIN queue' /\ queue'[Len(queue) + 1] = e /\ Len(queue) \in Nat
        /\ \A j \in DOMAIN queue : queue'[j] = queue[j]
    BY <1>1, <2>1, <2>2, EntryAdded
  <2>4. cal' \in CalVars
    <3> DEFINE n == Len(queue) + 1
    <3>1. n \in Nat /\ cal' = [NoCal EXCEPT !.q = n, !.return = "switch"]
      BY <2>2, <2>3
    <3> HIDE DEF n
    <3> QED BY <3>1, FreshCal
  <2>5. cal'.q = Len(queue) + 1
    BY <2>2 DEF NoCal
  <2>6. 0 < CAL_CHANCES
    BY SaveAssumption
  <2> QED BY <2>1, <2>2, <2>3, <2>4, <2>5, <2>6
<1>8. CASE \E i \in DOMAIN queue : Recalibrate(i)
  <2> PICK i \in DOMAIN queue : Recalibrate(i)
    BY <1>8
  <2> DEFINE e == [queue[i] EXCEPT !.exec_cksum = NoTrace]
  <2>1. /\ queue' = [queue EXCEPT ![i] = e] /\ cal' = [NoCal EXCEPT !.q = i]
        /\ pc' = "begin_cal" /\ queue[i].cal_failed \in 1..(CAL_CHANCES - 1)
    BY <1>1 DEF Recalibrate, SecondChance
  <2>2. queue[i] \in QueueEntry /\ i \in Nat
    BY <1>1
  <2>3. e \in QueueEntry
    BY <2>2, EntryTypes DEF MaybeTrace
  <2>4. e.mem = queue[i].mem /\ e.cal_failed = queue[i].cal_failed
    BY <2>2 DEF QueueEntry
  <2> HIDE DEF e
  <2>5. /\ queue' \in Seq(QueueEntry) /\ DOMAIN queue' = DOMAIN queue /\ queue'[i] = e
        /\ \A j \in DOMAIN queue : queue'[j].mem = queue[j].mem
    BY <1>1, <2>1, <2>3, <2>4, EntryChanged
  <2>6. cal' \in CalVars /\ cal'.q = i
    BY <2>1, <2>2, FreshCal DEF NoCal
  <2>7. queue[i].cal_failed < CAL_CHANCES
    BY <2>1, SaveAssumption
  <2> QED BY <2>1, <2>4, <2>5, <2>6, <2>7
<1>9. CASE Stop
  BY <1>1, <1>9 DEF Stop
<1>10. CASE Abandon \/ IgnoreTimeout \/ UpdateFrequency \/ CheckCoverage \/ EndSwitch
            \/ HandleTimeout \/ KeepAsCrash
            \/ \E t \in options.inputs : \E o \in Runs[t]["exec"] : FuzzRun(t, o)
  <2>1. UNCHANGED <<queue, cal>> /\ pc \notin {"begin_cal", "calibrate"}
        /\ pc' \notin {"begin_cal", "calibrate"}
    BY <1>10 DEF Abandon, IgnoreTimeout, UpdateFrequency, CheckCoverage, EndSwitch,
         HandleTimeout, KeepAsCrash, FuzzRun, Return
  <2> QED BY <1>3, <2>1
<1>11. CASE \E o \in Runs[save.mem]["hang"] : Rerun(o)
  <2>1. UNCHANGED <<queue, cal>> /\ pc \notin {"begin_cal", "calibrate"}
        /\ pc' \notin {"begin_cal", "calibrate"}
    BY <1>11 DEF Rerun, Return, Uncovered
  <2> QED BY <1>3, <2>1
<1> QED
  BY <1>4, <1>5, <1>6, <1>7, <1>8, <1>9, <1>10, <1>11 DEF Next, Step

\* One more is kept, while there is room.
LEMMA OneMore ==
    ASSUME NEW S \in SUBSET Traces, IsFiniteSet(S), NEW limit \in Nat, Cardinality(S) < limit,
           NEW t \in Traces
    PROVE  /\ S \cup {t} \subseteq Traces /\ IsFiniteSet(S \cup {t})
           /\ Cardinality(S \cup {t}) <= limit
<1>1. Cardinality(S) \in Nat
  BY FS_CardinalityType
<1>2. IsFiniteSet(S \cup {t})
      /\ Cardinality(S \cup {t}) = IF t \in S THEN Cardinality(S) ELSE Cardinality(S) + 1
  BY FS_AddElement
<1> QED
  BY <1>1, <1>2

\* No more than the limits, as each is looked at before one is added.
LEMMA FaultTypesStep ==
    ASSUME TypeOK, Limits, Next
    PROVE  FaultTypes'
<1> USE DEF FaultTypes
<1>1. FaultTypes
  BY TypeParts
<1>2. KEEP_UNIQUE_HANG \in Nat /\ KEEP_UNIQUE_CRASH \in Nat
  BY SaveAssumption
<1>3. simplify_trace(trace_bits) \in Traces
  BY Simplified DEF TypeOK
<1>4. ASSUME UNCHANGED <<crashes, hangs>> PROVE FaultTypes'
  BY <1>1, <1>4
<1>5. ASSUME NEW t \in Traces, HangRoom, KeepHang(t), UNCHANGED crashes PROVE FaultTypes'
  BY <1>1, <1>2, <1>5, OneMore DEF HangRoom, KeepHang
<1>6. CASE HandleTimeout
  BY <1>3, <1>4, <1>5, <1>6 DEF HandleTimeout
<1>7. CASE \E o \in Runs[save.mem]["hang"] : Rerun(o)
  <2>1. HangRoom /\ save.unique \in Traces
    BY <1>7 DEF Limits, Rerun
  <2> QED BY <1>4, <1>5, <1>7, <2>1 DEF Rerun, Uncovered
<1>8. CASE KeepAsCrash
  <2> DEFINE trace == simplify_trace(trace_bits)
  <2>1. UNCHANGED hangs
    BY <1>8 DEF KeepAsCrash
  <2>2. UNCHANGED crashes
        \/ (Cardinality(crashes) < KEEP_UNIQUE_CRASH /\ crashes' = crashes \cup {trace})
    BY <1>8 DEF KeepAsCrash
  <2> QED BY <1>1, <1>2, <1>3, <1>4, <2>1, <2>2, OneMore
<1> QED
  BY <1>4, <1>6, <1>7, <1>8
  DEF Next, Step, BeginCal, AbortCal, DummyRun, CalRun, CompleteCal, Abandon, IgnoreTimeout,
      UpdateFrequency, CheckCoverage, SaveToQueue, EndSwitch, FuzzRun, Recalibrate, Stop

\* How the variables of save_if_interesting change.
LEMMA SaveChanges ==
    ASSUME NEW s \in SaveVars
    PROVE  /\ \A c, n \in BOOLEAN : [s EXCEPT !.classified = c, !.need_hash = n] \in SaveVars
           /\ \A n \in 0..2 : [s EXCEPT !.classified = TRUE, !.new_bits = n] \in SaveVars
           /\ \A n \in BOOLEAN : [s EXCEPT !.need_hash = @ /\ n] \in SaveVars
           /\ \A t \in Traces : [s EXCEPT !.classified = TRUE, !.unique = t] \in SaveVars
           /\ \A t \in Inputs, f \in Faults : [s EXCEPT !.mem = t, !.fault = f] \in SaveVars
<1>1. ASSUME NEW c \in BOOLEAN, NEW n \in BOOLEAN
      PROVE  [s EXCEPT !.classified = c, !.need_hash = n] \in SaveVars
  BY DEF SaveVars
<1>2. ASSUME NEW n \in 0..2
      PROVE  [s EXCEPT !.classified = TRUE, !.new_bits = n] \in SaveVars
  BY DEF SaveVars
<1>3. ASSUME NEW n \in BOOLEAN
      PROVE  [s EXCEPT !.need_hash = @ /\ n] \in SaveVars
  <2>1. s.need_hash \in BOOLEAN /\ \A m \in BOOLEAN : [s EXCEPT !.need_hash = m] \in SaveVars
    BY DEF SaveVars
  <2> QED BY <2>1
<1>4. ASSUME NEW t \in Traces
      PROVE  [s EXCEPT !.classified = TRUE, !.unique = t] \in SaveVars
  BY DEF SaveVars, MaybeTrace
<1>5. ASSUME NEW t \in Inputs, NEW f \in Faults
      PROVE  [s EXCEPT !.mem = t, !.fault = f] \in SaveVars
  BY DEF SaveVars
<1> QED
  BY <1>1, <1>2, <1>3, <1>4, <1>5

LEMMA SaveTypesStep ==
    ASSUME TypeOK, Limits, Next
    PROVE  SaveTypes'
<1> USE DEF SaveTypes
<1>1. save \in SaveVars /\ options \in OptionSets /\ trace_bits \in Traces
      /\ (pc = "rerun" => HangRoom /\ save.unique \in Traces)
  BY DEF TypeOK, Limits
<1>2. NoSave \in SaveVars
  BY <1>1, NothingToSave
<1>3. CASE UNCHANGED save /\ pc' # "rerun"
  BY <1>1, <1>3
<1>4. ASSUME Return PROVE SaveTypes'
  BY <1>2, <1>4 DEF Return
<1>5. CASE Abandon \/ IgnoreTimeout \/ KeepAsCrash
  BY <1>4, <1>5 DEF Abandon, IgnoreTimeout, KeepAsCrash
<1>6. CASE UpdateFrequency
  <2>1. options.fast \in BOOLEAN
    BY <1>1, OptionTypes
  <2>2. save' = [save EXCEPT !.classified = options.fast, !.need_hash = ~options.fast]
        /\ pc' \in {"check", "switch"}
    BY <1>6 DEF UpdateFrequency, Classified
  <2> QED BY <1>1, <2>1, <2>2, SaveChanges
<1>7. CASE CheckCoverage
  <2>1. \A trace, virgin : NewBits(trace, virgin) \in 0..2
    BY DEF NewBits
  <2>2. CASE Return
    BY <1>4, <2>2
  <2>3. CASE ~Return
    <3>1. PICK n \in 0..2 : save' = [save EXCEPT !.classified = TRUE, !.new_bits = n]
      BY <1>7, <2>1, <2>3 DEF CheckCoverage
    <3>2. pc' = "queue"
      BY <1>7, <2>3 DEF CheckCoverage
    <3> QED BY <1>1, <3>1, <3>2, SaveChanges
  <2> QED BY <2>2, <2>3
<1>8. CASE SaveToQueue
  <2>1. save.need_hash \in BOOLEAN
    BY <1>1 DEF SaveVars
  <2>2. PICK n \in BOOLEAN : save' = [save EXCEPT !.need_hash = @ /\ n]
    BY <1>8, <2>1 DEF SaveToQueue
  <2> QED BY <1>1, <1>8, <2>2, SaveChanges DEF SaveToQueue
<1>9. CASE EndSwitch
  BY <1>2, <1>9 DEF EndSwitch
<1>10. CASE HandleTimeout
  <2> DEFINE trace == simplify_trace(trace_bits)
  <2>1. trace \in Traces
    BY <1>1, Simplified
  <2>2. CASE Return
    BY <1>4, <2>2
  <2>3. CASE ~Return
    <3>1. /\ HangRoom /\ UNCHANGED hangs
          /\ save' = [save EXCEPT !.classified = TRUE, !.unique = trace]
      BY <1>10, <2>3 DEF HandleTimeout
    <3>2. save' \in SaveVars /\ save'.unique = trace
      BY <1>1, <2>1, <3>1, SaveChanges DEF SaveVars
    <3> QED BY <2>1, <3>1, <3>2 DEF HangRoom
  <2> QED BY <2>2, <2>3
<1>11. CASE \E o \in Runs[save.mem]["hang"] : Rerun(o)
  <2>1. Return \/ (UNCHANGED save /\ pc' # "rerun")
    BY <1>11 DEF Rerun, Uncovered
  <2> QED BY <1>3, <1>4, <2>1
<1>12. CASE \E t \in options.inputs : \E o \in Runs[t]["exec"] : FuzzRun(t, o)
  <2> PICK t \in options.inputs : \E o \in Runs[t]["exec"] : FuzzRun(t, o)
    BY <1>12
  <2> PICK o \in Runs[t]["exec"] : FuzzRun(t, o)
    OBVIOUS
  <2>1. t \in Inputs /\ o.fault \in Faults
    BY StepRuns
  <2>2. save' = [NoSave EXCEPT !.mem = t, !.fault = o.fault] /\ pc' = "save"
    BY DEF FuzzRun
  <2> QED BY <1>2, <2>1, <2>2, SaveChanges
<1>13. CASE Stop
  BY <1>1, <1>13 DEF Stop, HangRoom
<1>14. CASE BeginCal \/ CompleteCal \/ \E i \in DOMAIN queue : Recalibrate(i)
  <2>1. cal.return \in {"idle", "switch"}
    BY DEF TypeOK, CalVars
  <2> QED BY <1>3, <1>14, <2>1 DEF BeginCal, CompleteCal, EndCal, Recalibrate
<1>15. CASE pc = "calibrate" /\ \E o \in Runs[Calibrated]["calibrate"] :
              AbortCal(o) \/ DummyRun(o) \/ CalRun(o)
  <2>1. cal.return \in {"idle", "switch"}
    BY DEF TypeOK, CalVars
  <2> QED BY <1>3, <1>15, <2>1 DEF AbortCal, DummyRun, CalRun, EndCal
<1> QED
  BY <1>5, <1>6, <1>7, <1>8, <1>9, <1>10, <1>11, <1>12, <1>13, <1>14, <1>15 DEF Next, Step

LEMMA TypesStep ==
    ASSUME TypeOK, Limits, Next
    PROVE  TypeOK' /\ Limits'
  BY TypeParts, PointTypesStep, MapTypesStep, QueueTypesStep, FaultTypesStep, SaveTypesStep

----------------------------------------------------------------------------
(***************************************************************************)
(* Whose trace the map holds.                                              *)
(***************************************************************************)

LEMMA OptionsStay ==
    ASSUME Next
    PROVE  options' = options /\ \A t : Shown(t)' = Shown(t)
<1>1. options' = options
  BY DEF Next, Step, BeginCal, AbortCal, DummyRun, CalRun, CompleteCal, Abandon, IgnoreTimeout,
         UpdateFrequency, CheckCoverage, SaveToQueue, EndSwitch, HandleTimeout, Rerun,
         KeepAsCrash, FuzzRun, Recalibrate, Stop
<1> QED
  BY <1>1 DEF Shown

\* A run that is compared shows the classified trace.
LEMMA RunShows ==
    ASSUME NEW t, NEW w \in {"exec", "calibrate"}, NEW o \in Runs[t][w],
           o.fault = options.crash_mode
    PROVE  classify_counts(o.trace) \in Shown(t)
  BY DEF Shown

LEMMA ShownTraces ==
    ASSUME NEW t \in Inputs, NEW trace \in Shown(t)
    PROVE  \A e \in Edges : trace[e] \in {0} \cup Buckets
<1>1. PICK o \in Runs[t]["exec"] \cup Runs[t]["calibrate"] : trace = classify_counts(o.trace)
  BY DEF Shown
<1>2. o.trace \in Traces
  BY RunTypes DEF Timeouts
<1> QED
  BY <1>1, <1>2, ClassifiedTraces

\* A trace that is compared with virgin_bits is a classified one of a run
\* without a fault.
LEMMA CheckedTrace ==
    ASSUME TypeOK, Executed, CheckCoverage, ~Return
    PROVE  /\ trace_bits' \in Shown(save.mem)
           /\ virgin_bits' = Remaining(trace_bits', virgin_bits)
           /\ pc' = "queue" /\ save'.mem = save.mem /\ save'.fault = save.fault
           /\ save.fault = options.crash_mode
<1>1. /\ trace_bits' = IF save.classified THEN trace_bits ELSE classify_counts(trace_bits)
      /\ virgin_bits' = Remaining(trace_bits', virgin_bits)
      /\ pc = "check" /\ pc' = "queue"
  BY DEF CheckCoverage
<1>2. save'.mem = save.mem /\ save'.fault = save.fault
  <2>1. PICK n : save' = [save EXCEPT !.classified = TRUE, !.new_bits = n]
    BY DEF CheckCoverage
  <2> QED BY <2>1 DEF TypeOK, SaveVars
<1>3. save.fault = options.crash_mode
  BY <1>1 DEF Executed
<1>4. PICK o \in Runs[save.mem]["exec"] :
          /\ o.fault = save.fault
          /\ trace_bits = IF save.classified THEN classify_counts(o.trace) ELSE o.trace
  BY <1>1 DEF Executed
<1>5. trace_bits' = classify_counts(o.trace)
  BY <1>1, <1>4
<1> QED
  BY <1>1, <1>2, <1>3, <1>4, <1>5, RunShows

LEMMA ExecutedStep ==
    ASSUME TypeOK, Executed, Next
    PROVE  Executed'
<1> USE DEF Executed
<1>1. save \in SaveVars /\ options \in OptionSets /\ options.crash_mode \in {"ok", "crash"}
  BY OptionTypes DEF TypeOK
<1>2. options' = options /\ \A t : Shown(t)' = Shown(t)
  BY OptionsStay
<1>3. NoSave.new_bits = 0 /\ NoSave.classified = FALSE
  BY DEF NoSave
<1>4. ASSUME save' = NoSave, pc' \in {"idle", "dead"} PROVE Executed'
  BY <1>3, <1>4
<1>5. ASSUME UNCHANGED save, pc' \notin {"save", "check", "queue", "rerun"} PROVE Executed'
  BY <1>2, <1>5
<1>6. CASE BeginCal \/ CompleteCal \/ \E i \in DOMAIN queue : Recalibrate(i)
  <2>1. cal.return \in {"idle", "switch"}
    BY DEF TypeOK, CalVars
  <2> QED BY <1>5, <1>6, <2>1 DEF BeginCal, CompleteCal, EndCal, Recalibrate
<1>7. CASE pc = "calibrate" /\ \E o \in Runs[Calibrated]["calibrate"] :
              AbortCal(o) \/ DummyRun(o) \/ CalRun(o)
  <2>1. cal.return \in {"idle", "switch"}
    BY DEF TypeOK, CalVars
  <2>2. UNCHANGED save /\ pc' \in {"calibrate", "dead", "idle", "switch"}
    BY <1>7, <2>1 DEF AbortCal, DummyRun, CalRun, EndCal
  <2> QED BY <1>5, <2>2
<1>8. CASE Abandon \/ IgnoreTimeout \/ KeepAsCrash \/ EndSwitch
  BY <1>4, <1>8 DEF Abandon, IgnoreTimeout, KeepAsCrash, EndSwitch, Return
<1>9. CASE UpdateFrequency
  <2>1. options.fast \in BOOLEAN
    BY <1>1, OptionTypes
  <2>2. save' = [save EXCEPT !.classified = options.fast, !.need_hash = ~options.fast]
    BY <1>9 DEF UpdateFrequency, Classified
  <2>3. /\ save'.mem = save.mem /\ save'.fault = save.fault /\ save'.new_bits = save.new_bits
        /\ save'.classified = options.fast
    BY <1>1, <2>2 DEF SaveVars
  <2>4. /\ trace_bits' = IF options.fast THEN classify_counts(trace_bits) ELSE trace_bits
        /\ pc' \in {"check", "switch"}
        /\ pc' = "check" => save.fault = options.crash_mode
        /\ pc = "save"
    BY <1>9 DEF UpdateFrequency
  <2>5. PICK o \in Runs[save.mem]["exec"] : o.fault = save.fault /\ trace_bits = o.trace
    BY <2>4
  <2>6. trace_bits' = IF save'.classified THEN classify_counts(o.trace) ELSE o.trace
    BY <2>3, <2>4, <2>5
  <2>7. \E p \in Runs[save'.mem]["exec"] :
            /\ p.fault = save'.fault
            /\ trace_bits' = IF save'.classified THEN classify_counts(p.trace) ELSE p.trace
    BY <2>3, <2>5, <2>6
  <2>8. save.new_bits # 0 => save.fault = options.crash_mode
    OBVIOUS
  <2>9. pc' = "check" => save'.fault = options.crash_mode
    BY <2>3, <2>4
  <2>10. save'.new_bits # 0 => save'.fault = options'.crash_mode
    BY <1>2, <2>3, <2>8
  <2>11. pc' # "save" /\ pc' # "queue" /\ pc' # "rerun"
    BY <2>4
  <2> QED BY <1>2, <2>7, <2>9, <2>10, <2>11
<1>10. CASE CheckCoverage
  <2>1. CASE Return
    BY <1>4, <2>1 DEF Return
  <2>2. CASE ~Return
    BY <1>2, <1>10, <2>2, CheckedTrace
  <2> QED BY <2>1, <2>2
<1>11. CASE SaveToQueue
  <2>1. PICK n : save' = [save EXCEPT !.need_hash = @ /\ n]
    BY <1>11 DEF SaveToQueue
  <2>2. save'.mem = save.mem /\ save'.fault = save.fault /\ save'.new_bits = save.new_bits
    BY <1>1, <2>1 DEF SaveVars
  <2>3. pc' = "begin_cal"
    BY <1>11 DEF SaveToQueue
  <2> QED BY <1>2, <2>2, <2>3
<1>12. CASE HandleTimeout
  <2>1. CASE Return
    BY <1>4, <2>1 DEF Return
  <2>2. CASE ~Return
    <3>1. PICK u : save' = [save EXCEPT !.classified = TRUE, !.unique = u]
      BY <1>12, <2>2 DEF HandleTimeout
    <3>2. save'.fault = save.fault /\ save'.new_bits = save.new_bits
      BY <1>1, <3>1 DEF SaveVars
    <3>3. pc' = "rerun" /\ save.fault = "tmout"
      BY <1>12, <2>2 DEF HandleTimeout
    <3> QED BY <1>2, <3>2, <3>3
  <2> QED BY <2>1, <2>2
<1>13. CASE \E o \in Runs[save.mem]["hang"] : Rerun(o)
  <2>1. pc = "rerun" /\ (Return \/ (UNCHANGED save /\ pc' \in {"keep_as_crash", "queue"}))
    BY <1>13 DEF Rerun, Uncovered
  <2>2. save.fault = "tmout"
    BY <2>1
  <2>3. save.new_bits = 0
    BY <1>1, <2>2 DEF SaveVars
  <2> QED BY <1>2, <1>4, <2>1, <2>2, <2>3 DEF Return
<1>14. CASE \E t \in options.inputs : \E o \in Runs[t]["exec"] : FuzzRun(t, o)
  <2>1. PICK t \in options.inputs : \E o \in Runs[t]["exec"] : FuzzRun(t, o)
    BY <1>14
  <2>2. PICK o \in Runs[t]["exec"] : FuzzRun(t, o)
    BY <2>1
  <2>3. save' = [NoSave EXCEPT !.mem = t, !.fault = o.fault] /\ pc' = "save"
        /\ trace_bits' = o.trace
    BY <2>2 DEF FuzzRun
  <2>4. save'.mem = t /\ save'.fault = o.fault /\ save'.new_bits = 0 /\ save'.classified = FALSE
    BY <2>3 DEF NoSave
  <2> QED BY <1>2, <2>3, <2>4
<1>15. CASE Stop
  <2>1. UNCHANGED <<pc, save, trace_bits>>
    BY <1>15 DEF Stop, mapVars
  <2> QED BY <1>2, <2>1
<1> QED
  BY <1>6, <1>7, <1>8, <1>9, <1>10, <1>11, <1>12, <1>13, <1>14, <1>15 DEF Next, Step

LEMMA ComparedStep ==
    ASSUME TypeOK, Limits, Executed, Compared, Next
    PROVE  Compared'
<1> USE DEF Compared
<1>1. /\ queue \in Seq(QueueEntry) /\ cal \in CalVars /\ save \in SaveVars
      /\ options \in OptionSets
  BY DEF TypeOK
<1>2. \A t : Shown(t)' = Shown(t)
  BY OptionsStay
<1>3. CASE BeginCal
  <2> DEFINE q == queue[cal.q]
             cksum == IF options.cmplog THEN NoTrace ELSE q.exec_cksum
             e == [q EXCEPT !.exec_cksum = cksum, !.cal_failed = @ + 1]
  <2>1. pc = "begin_cal" /\ pc' = "calibrate"
        /\ queue' = [queue EXCEPT ![cal.q] = e]
        /\ cal' = [cal EXCEPT !.first_trace = IF cksum # NoTrace THEN trace_bits ELSE NoTrace,
                              !.stage_max = CAL_CYCLES, !.dummy = options.cmplog]
    BY <1>3 DEF BeginCal
  <2>2. cal.q \in DOMAIN queue /\ q \in QueueEntry
    BY <2>1, CalEntry DEF Calibrating
  <2>3. e.exec_cksum = cksum /\ e.mem = q.mem
    BY <2>2 DEF QueueEntry
  <2>4. cal'.q = cal.q /\ (cksum # NoTrace => cal'.first_trace = trace_bits)
    BY <1>1, <2>1 DEF CalVars
  <2>5. queue'[cal.q] = e
    BY <1>1, <2>1, <2>2
  <2>6. cksum # NoTrace => q.exec_cksum # NoTrace
    OBVIOUS
  <2> HIDE DEF cksum, e
  <2> QED BY <1>2, <2>1, <2>3, <2>4, <2>5, <2>6
<1>4. CASE pc = "calibrate" /\ \E o \in Runs[Calibrated]["calibrate"] :
              AbortCal(o) \/ DummyRun(o) \/ CalRun(o)
  <2> PICK o \in Runs[Calibrated]["calibrate"] : AbortCal(o) \/ DummyRun(o) \/ CalRun(o)
    BY <1>4
  <2>1. CASE AbortCal(o)
    <3>1. cal.return \in {"idle", "switch"}
      BY <1>1 DEF CalVars
    <3>2. pc' \in {"dead", "idle", "switch"}
      BY <2>1, <3>1 DEF AbortCal, EndCal
    <3> QED BY <3>2
  <2>2. CASE DummyRun(o)
    <3>1. cal' = [cal EXCEPT !.dummy = FALSE] /\ UNCHANGED <<queue, pc>>
      BY <2>2 DEF DummyRun
    <3>2. cal'.q = cal.q /\ cal'.first_trace = cal.first_trace
      BY <1>1, <3>1 DEF CalVars
    <3> QED BY <1>2, <1>4, <3>1, <3>2
  <2>3. CASE CalRun(o)
    <3>1. cal.q \in DOMAIN queue
      BY <1>4, CalEntry DEF Calibrating
    <3>2. pc' = "calibrate" /\ ~Aborts(o)
      BY <1>4, <2>3 DEF CalRun
    <3>3. classify_counts(o.trace) \in Shown(queue[cal.q].mem)
      BY <3>2, RunShows DEF Aborts, Calibrated
    <3>4. /\ queue'[cal.q].mem = queue[cal.q].mem /\ cal'.q = cal.q
          /\ queue[cal.q].exec_cksum = NoTrace => cal'.first_trace = classify_counts(o.trace)
          /\ queue[cal.q].exec_cksum # NoTrace => cal'.first_trace = cal.first_trace
      BY <1>4, <2>3, <3>1, CalRunEffect
    <3> QED BY <1>2, <1>4, <3>2, <3>3, <3>4
  <2> QED BY <2>1, <2>2, <2>3
<1>5. CASE CompleteCal
  <2>1. cal.return \in {"idle", "switch"}
    BY <1>1 DEF CalVars
  <2>2. pc' \in {"dead", "idle", "switch"}
    BY <1>5, <2>1 DEF CompleteCal, EndCal
  <2> QED BY <2>2
<1>6. CASE SaveToQueue
  <2> DEFINE hash == save.need_hash /\ save.new_bits # 0
             e == Entry(save.mem, IF hash THEN trace_bits ELSE NoTrace)
  <2>1. /\ queue' = Append(queue, e) /\ pc' = "begin_cal" /\ pc = "queue"
        /\ cal' = [NoCal EXCEPT !.q = Len(queue) + 1, !.return = "switch"]
        /\ UNCHANGED trace_bits
    BY <1>6 DEF SaveToQueue, mapVars
  <2>2. e \in QueueEntry
    BY <1>1, FreshCal DEF SaveVars, MaybeTrace, TypeOK
  <2>3. e.mem = save.mem /\ (e.exec_cksum # NoTrace => save.new_bits # 0)
    BY DEF Entry
  <2> HIDE DEF e
  <2>4. queue'[Len(queue) + 1] = e
    BY <1>1, <2>1, <2>2, EntryAdded
  <2>5. cal'.q = Len(queue) + 1
    BY <2>1 DEF NoCal
  <2>6. save.new_bits # 0 => trace_bits \in Shown(save.mem)
    BY <2>1 DEF Executed
  <2> QED BY <1>2, <2>1, <2>3, <2>4, <2>5, <2>6
<1>7. CASE \E i \in DOMAIN queue : Recalibrate(i)
  <2> PICK i \in DOMAIN queue : Recalibrate(i)
    BY <1>7
  <2>1. /\ queue' = [queue EXCEPT ![i] = [queue[i] EXCEPT !.exec_cksum = NoTrace]]
        /\ cal' = [NoCal EXCEPT !.q = i] /\ pc' = "begin_cal"
    BY <1>1 DEF Recalibrate, SecondChance
  <2>2. queue[i] \in QueueEntry /\ i \in Nat
    BY <1>1
  <2>3. [queue[i] EXCEPT !.exec_cksum = NoTrace].exec_cksum = NoTrace
    BY <2>2 DEF QueueEntry
  <2>4. queue'[i].exec_cksum = NoTrace
    BY <1>1, <2>1, <2>3
  <2>5. cal'.q = i
    BY <2>1 DEF NoCal
  <2> QED BY <2>1, <2>4, <2>5
<1>8. CASE Abandon \/ IgnoreTimeout \/ UpdateFrequency \/ CheckCoverage \/ EndSwitch
           \/ HandleTimeout \/ KeepAsCrash
           \/ \E t \in options.inputs : \E o \in Runs[t]["exec"] : FuzzRun(t, o)
  <2>1. pc' \notin {"begin_cal", "calibrate"}
    BY <1>8 DEF Abandon, IgnoreTimeout, UpdateFrequency, CheckCoverage, EndSwitch,
         HandleTimeout, KeepAsCrash, FuzzRun, Return
  <2> QED BY <2>1
<1>9. CASE \E o \in Runs[save.mem]["hang"] : Rerun(o)
  <2>1. pc' \notin {"begin_cal", "calibrate"}
    BY <1>9 DEF Rerun, Return, Uncovered
  <2> QED BY <2>1
<1>10. CASE Stop
  <2>1. UNCHANGED <<pc, queue, cal, trace_bits>>
    BY <1>10 DEF Stop, mapVars
  <2> QED BY <1>2, <2>1
<1> QED
  BY <1>3, <1>4, <1>5, <1>6, <1>7, <1>8, <1>9, <1>10 DEF Next, Step

----------------------------------------------------------------------------
(***************************************************************************)
(* What the virgin maps cross off.                                         *)
(***************************************************************************)

\* The queue never forgets a test case.
LEMMA KeptGrows ==
    ASSUME TypeOK, Limits, Next
    PROVE  Kept \subseteq Kept'
<1>1. DOMAIN queue \subseteq DOMAIN queue' /\ \A i \in DOMAIN queue : queue'[i].mem = queue[i].mem
  BY QueueTypesStep
<1>2. {queue[i].mem : i \in DOMAIN queue} \subseteq {queue'[i].mem : i \in DOMAIN queue'}
  BY <1>1
<1>3. ASSUME pc = "queue" PROVE save.mem \in Kept'
  <2>1. CASE SaveToQueue
    <3> DEFINE e == Entry(save.mem, IF save.need_hash /\ save.new_bits # 0
                                    THEN trace_bits ELSE NoTrace)
    <3>1. queue' = Append(queue, e)
      BY <2>1 DEF SaveToQueue
    <3>2. e \in QueueEntry /\ queue \in Seq(QueueEntry)
      BY FreshCal DEF TypeOK, SaveVars, MaybeTrace
    <3>3. e.mem = save.mem
      BY DEF Entry
    <3> HIDE DEF e
    <3>4. Len(queue) + 1 \in DOMAIN queue' /\ queue'[Len(queue) + 1] = e
      BY <3>1, <3>2, EntryAdded
    <3> QED BY <3>3, <3>4 DEF Kept
  <2>2. CASE Stop
    BY <1>3, <2>2 DEF Stop, Kept
  <2> QED
    BY <1>3, <2>1, <2>2 DEF Next, Step, BeginCal, AbortCal, DummyRun, CalRun, CompleteCal,
       Abandon, IgnoreTimeout, UpdateFrequency, CheckCoverage, EndSwitch, HandleTimeout, Rerun,
       KeepAsCrash, FuzzRun, Recalibrate
<1> QED
  BY <1>2, <1>3 DEF Kept

LEMMA KeptEntry ==
    ASSUME NEW i \in DOMAIN queue
    PROVE  queue[i].mem \in Kept
  BY DEF Kept

\* Every step crosses off nothing, or values of one trace of one test case that
\* is kept, and gives up bytes only in which two traces of it differ.
LEMMA OneTrace ==
    ASSUME TypeOK, Limits, Executed, Compared, Next
    PROVE  \/ UNCHANGED <<virgin_bits, var_bytes>>
           \/ \E t \in Kept' : \E trace \in Shown(t) :
                 /\ var_bytes \subseteq var_bytes'
                 /\ \A e \in Edges \ var_bytes' :
                       virgin_bits'[e] \in {virgin_bits[e], Remaining(trace, virgin_bits)[e]}
                 /\ \A e \in var_bytes' \ var_bytes :
                       \E other \in Shown(t) : other[e] # trace[e]
<1>1. Kept \subseteq Kept'
  BY KeptGrows
<1>2. CASE BeginCal
  <2> DEFINE t == queue[cal.q].mem
  <2>1. CASE options.cmplog \/ queue[cal.q].exec_cksum = NoTrace
    BY <1>2, <2>1 DEF BeginCal
  <2>2. CASE ~options.cmplog /\ queue[cal.q].exec_cksum # NoTrace
    <3>1. /\ virgin_bits' = Remaining(trace_bits, virgin_bits) /\ UNCHANGED var_bytes
          /\ pc = "begin_cal"
      BY <1>2, <2>2 DEF BeginCal
    <3>2. trace_bits \in Shown(t)
      BY <2>2, <3>1 DEF Compared
    <3>3. t \in Kept
      BY <3>1, CalEntry, KeptEntry DEF Calibrating
    <3>4. virgin_bits \in VirginMaps
      BY DEF TypeOK
    <3> QED BY <1>1, <3>1, <3>2, <3>3
  <2> QED BY <2>1, <2>2
<1>3. CASE pc = "calibrate" /\ \E o \in Runs[Calibrated]["calibrate"] :
              AbortCal(o) \/ DummyRun(o) \/ CalRun(o)
  <2> PICK o \in Runs[Calibrated]["calibrate"] : AbortCal(o) \/ DummyRun(o) \/ CalRun(o)
    BY <1>3
  <2>1. CASE AbortCal(o) \/ DummyRun(o)
    BY <2>1 DEF AbortCal, DummyRun
  <2>2. CASE CalRun(o)
    <3> DEFINE t == queue[cal.q].mem
               trace == classify_counts(o.trace)
               cksum == queue[cal.q].exec_cksum
               differs == cksum # NoTrace /\ cksum # trace
               varying == IF differs THEN Varying(trace) ELSE {}
               remaining == Remaining(trace, virgin_bits)
    <3>1. ~Aborts(o)
          /\ virgin_bits' = (IF cksum = trace THEN virgin_bits
                             ELSE [e \in Edges |-> IF e \in varying THEN {} ELSE remaining[e]])
          /\ var_bytes' = var_bytes \cup varying
      BY <2>2 DEF CalRun
    <3>2. trace \in Shown(t)
      BY <3>1, RunShows DEF Aborts, Calibrated
    <3>3. t \in Kept'
      BY <1>1, <1>3, CalEntry, KeptEntry DEF Calibrating
    <3>4. \A e \in varying : \E other \in Shown(t) : other[e] # trace[e]
      <4>1. differs => cal.first_trace \in Shown(t)
        BY <1>3 DEF Compared
      <4>2. \A e \in varying : differs /\ cal.first_trace[e] # trace[e]
        BY DEF Varying
      <4> QED BY <4>1, <4>2
    <3> HIDE DEF varying, remaining
    <3>5. \A e \in Edges \ var_bytes' : virgin_bits'[e] \in {virgin_bits[e], remaining[e]}
      BY <3>1
    <3>6. var_bytes \subseteq var_bytes'
      BY <3>1
    <3>7. \A e \in var_bytes' \ var_bytes : \E other \in Shown(t) : other[e] # trace[e]
      BY <3>1, <3>4
    <3> QED BY <3>2, <3>3, <3>5, <3>6, <3>7 DEF remaining
  <2> QED BY <2>1, <2>2
<1>4. CASE CheckCoverage
  <2>1. CASE Return
    BY <1>4, <2>1 DEF CheckCoverage, Return
  <2>2. CASE ~Return
    <3>1. /\ trace_bits' \in Shown(save.mem)
          /\ virgin_bits' = Remaining(trace_bits', virgin_bits)
          /\ pc' = "queue" /\ save'.mem = save.mem
      BY <1>4, <2>2, CheckedTrace
    <3>2. UNCHANGED var_bytes
      BY <1>4 DEF CheckCoverage
    <3>3. save.mem \in Kept'
      BY <3>1 DEF Kept
    <3> QED BY <3>1, <3>2, <3>3
  <2> QED BY <2>1, <2>2
<1> QED
  BY <1>2, <1>3, <1>4 DEF Next, Step, CompleteCal, EndCal, Abandon, IgnoreTimeout,
     UpdateFrequency, SaveToQueue, EndSwitch, HandleTimeout, Rerun, KeepAsCrash, FuzzRun,
     Recalibrate, Stop, mapVars

LEMMA CoverageStep ==
    ASSUME TypeOK, Limits, Executed, Compared, CoverageIsKept, VariableBytesVary, Next
    PROVE  CoverageIsKept' /\ VariableBytesVary'
<1>1. Kept \subseteq Kept' /\ \A t : Shown(t)' = Shown(t)
  BY KeptGrows, OptionsStay
<1>2. virgin_bits \in VirginMaps /\ var_bytes \subseteq Edges /\ var_bytes' \subseteq Edges
      /\ Kept' \subseteq Inputs
  <2>1. TypeOK'
    BY TypesStep
  <2>2. \A i \in DOMAIN queue' : queue'[i].mem \in Inputs
    <3>1. queue' \in Seq(QueueEntry)
      BY <2>1 DEF TypeOK
    <3>2. \A i \in DOMAIN queue' : queue'[i] \in QueueEntry
      BY <3>1
    <3> QED BY <3>2 DEF QueueEntry
  <2>3. save'.mem \in Inputs
    BY <2>1 DEF TypeOK, SaveVars
  <2>4. Kept' \subseteq Inputs
    BY <2>2, <2>3 DEF Kept
  <2> QED BY <2>1, <2>4 DEF TypeOK
<1>3. CASE UNCHANGED <<virgin_bits, var_bytes>>
  <2>1. CoverageIsKept'
    BY <1>1, <1>3 DEF CoverageIsKept
  <2>2. VariableBytesVary'
    BY <1>1, <1>3 DEF VariableBytesVary
  <2> QED BY <2>1, <2>2
<1>4. ASSUME NEW t \in Kept', NEW trace \in Shown(t),
             var_bytes \subseteq var_bytes',
             \A e \in Edges \ var_bytes' :
                 virgin_bits'[e] \in {virgin_bits[e], Remaining(trace, virgin_bits)[e]},
             \A e \in var_bytes' \ var_bytes : \E other \in Shown(t) : other[e] # trace[e]
      PROVE  CoverageIsKept' /\ VariableBytesVary'
  <2>1. ASSUME NEW e \in Edges \ var_bytes', NEW b \in Buckets \ virgin_bits'[e]
        PROVE  \E u \in Kept' : \E other \in Shown(u) : other[e] = b
    <3>1. \A d \in Edges : trace[d] \in {0} \cup Buckets
      BY <1>2, ShownTraces
    <3>2. b \notin virgin_bits[e] \/ b = trace[e]
      <4>1. \A d \in Edges : \A c \in Buckets \ Remaining(trace, virgin_bits)[d] :
                c \notin virgin_bits[d] \/ c = trace[d]
        BY <1>2, <3>1, CrossedOff
      <4> QED BY <1>4, <4>1
    <3>3. CASE b = trace[e]
      BY <3>3
    <3>4. CASE b \notin virgin_bits[e]
      <4>1. e \in Edges \ var_bytes
        BY <1>4
      <4>2. PICK u \in Kept : \E other \in Shown(u) : other[e] = b
        BY <3>4, <4>1 DEF CoverageIsKept
      <4> QED BY <1>1, <4>2
    <3> QED BY <3>2, <3>3, <3>4
  <2>2. ASSUME NEW e \in var_bytes'
        PROVE  \E u \in Kept' : \E trace1, trace2 \in Shown(u) : trace1[e] # trace2[e]
    <3>1. CASE e \in var_bytes
      <4>1. PICK u \in Kept : \E trace1, trace2 \in Shown(u) : trace1[e] # trace2[e]
        BY <3>1 DEF VariableBytesVary
      <4> QED BY <1>1, <4>1
    <3>2. CASE e \notin var_bytes
      BY <1>4, <3>2
    <3> QED BY <3>1, <3>2
  <2>3. CoverageIsKept'
    BY <1>1, <2>1 DEF CoverageIsKept
  <2>4. VariableBytesVary'
    BY <1>1, <2>2 DEF VariableBytesVary
  <2> QED BY <2>3, <2>4
<1> QED
  BY <1>3, <1>4, OneTrace

\* A crash is saved with whatever keep_as_crash crosses off.
LEMMA CrashSaved ==
    ASSUME TypeOK, Explored, KeepAsCrash
    PROVE  /\ Explored'
           /\ crashes \subseteq crashes'
           /\ Cardinality(crashes) < KEEP_UNIQUE_CRASH =>
                 Covered(simplify_trace(trace_bits), crashes')
<1> DEFINE trace == simplify_trace(trace_bits)
           room == Cardinality(crashes) < KEEP_UNIQUE_CRASH
<1>1. \A e \in Edges : trace[e] \in {1, 128} /\ trace[e] \in Buckets
  BY Simplified, BucketValues DEF TypeOK
<1>2. virgin_crash \in VirginMaps
  BY DEF TypeOK
<1>3. CASE room /\ NewBits(trace, virgin_crash) # 0
  <2>1. virgin_crash' = Remaining(trace, virgin_crash) /\ crashes' = crashes \cup {trace}
    BY <1>3 DEF KeepAsCrash
  <2>2. \A e \in Edges : trace[e] \in {0} \cup Buckets
    BY <1>1
  <2> HIDE DEF trace
  <2>3. \A e \in Edges : \A b \in Buckets \ virgin_crash'[e] :
            b \notin virgin_crash[e] \/ b = trace[e]
    BY <1>2, <2>1, <2>2, CrossedOff
  <2>4. Explored'
    BY <2>1, <2>3 DEF Explored
  <2>5. Covered(trace, crashes')
    BY <2>1 DEF Covered
  <2> QED BY <2>1, <2>4, <2>5 DEF trace
<1>4. CASE ~(room /\ NewBits(trace, virgin_crash) # 0)
  <2>1. UNCHANGED <<virgin_crash, crashes>>
    BY <1>4 DEF KeepAsCrash
  <2>2. Explored'
    BY <2>1 DEF Explored
  <2>3. ASSUME room PROVE Covered(trace, crashes)
    <3>1. NewBits(trace, virgin_crash) = 0
      BY <1>4, <2>3
    <3>2. \A e \in Edges : trace[e] \in {1, 128}
      BY <1>1
    <3> HIDE DEF trace
    <3>3. \A e \in Edges : trace[e] \in Buckets \ virgin_crash[e]
      BY <3>1, <3>2, NothingNew
    <3> QED BY <3>3 DEF Explored, Covered
  <2> QED BY <2>1, <2>2, <2>3
<1> QED
  BY <1>3, <1>4

LEMMA ExploredStep ==
    ASSUME TypeOK, Explored, Next
    PROVE  Explored'
<1>1. CASE KeepAsCrash
  BY <1>1, CrashSaved
<1>2. CASE ~KeepAsCrash
  <2>1. UNCHANGED <<virgin_crash, crashes>>
    BY <1>2 DEF Next, Step, BeginCal, AbortCal, DummyRun, CalRun, CompleteCal, Abandon,
       IgnoreTimeout, UpdateFrequency, CheckCoverage, SaveToQueue, EndSwitch, HandleTimeout,
       Rerun, FuzzRun, Recalibrate, Stop, mapVars
  <2> QED BY <2>1 DEF Explored
<1> QED
  BY <1>1, <1>2

LEMMA HandledStep ==
    ASSUME TypeOK, Limits, Executed, Explored, Handled, Next, options.crash_mode = "ok"
    PROVE  Handled'
<1> DEFINE Full == Cardinality(crashes) = KEEP_UNIQUE_CRASH
           Safe(r) == Covered(r.trace, crashes)
           Next2(r) == AtCrash /\ r.trace = simplify_trace(trace_bits)
<1>1. Full \/ \A r \in observed : r.fault = "crash" => Safe(r) \/ Next2(r)
  BY DEF Handled
<1>2. trace_bits \in Traces /\ trace_bits' \in Traces
  BY MapTypesStep DEF TypeOK, MapTypes
<1>3. CASE KeepAsCrash
  <2>1. crashes \subseteq crashes' /\ UNCHANGED observed
    BY <1>3, CrashSaved DEF KeepAsCrash
  <2>2. CASE Cardinality(crashes) < KEEP_UNIQUE_CRASH
    <3>1. Covered(simplify_trace(trace_bits), crashes') /\ ~Full
      <4>1. ~Full
        BY <2>2, SaveAssumption
      <4> QED BY <1>3, <2>2, <4>1, CrashSaved
    <3>2. ASSUME NEW r \in observed, r.fault = "crash" PROVE Covered(r.trace, crashes')
      <4>1. CASE Safe(r)
        BY <2>1, <4>1 DEF Covered
      <4>2. CASE Next2(r)
        BY <3>1, <4>2
      <4> QED BY <1>1, <3>1, <3>2, <4>1, <4>2
    <3>3. \A r \in observed' : r.fault = "crash" => Covered(r.trace, crashes')
      BY <2>1, <3>2
    <3>4. \A r \in observed' : r.fault = "crash" => Covered(r.trace, crashes)'
      BY <3>3 DEF Covered
    <3> QED BY <3>4 DEF Handled
  <2>3. CASE ~(Cardinality(crashes) < KEEP_UNIQUE_CRASH)
    <3>1. Full
      <4>1. Cardinality(crashes) <= KEEP_UNIQUE_CRASH /\ KEEP_UNIQUE_CRASH \in Nat
        BY SaveAssumption DEF TypeOK
      <4>2. Cardinality(crashes) \in Nat
        BY FS_CardinalityType DEF Limits
      <4> QED BY <2>3, <4>1, <4>2
    <3>2. UNCHANGED crashes
      BY <1>3, <2>3 DEF KeepAsCrash
    <3> QED BY <3>1, <3>2 DEF Handled
  <2> QED BY <2>2, <2>3
<1>4. ASSUME NEW trace \in Traces, UNCHANGED crashes, ~AtCrash,
             NEW fault, Observe(fault, trace),
             fault = "crash" => AtCrash' /\ simplify_trace(trace) = simplify_trace(trace_bits')
      PROVE  Handled'
  <2>1. ASSUME NEW r \in observed', r.fault = "crash", ~Full
        PROVE  \/ Covered(r.trace, crashes)
               \/ AtCrash' /\ r.trace = simplify_trace(trace_bits')
    <3>1. CASE r \in observed
      BY <1>1, <1>4, <2>1, <3>1
    <3>2. CASE r \notin observed
      <4>1. r = [fault |-> fault, mem |-> save.mem, trace |-> simplify_trace(trace)]
        BY <1>4, <3>2 DEF Observe
      <4>2. fault = "crash" /\ r.trace = simplify_trace(trace)
        BY <2>1, <4>1
      <4> QED BY <1>4, <4>2
    <3> QED BY <3>1, <3>2
  <2>2. \A t : Covered(t, crashes)' = Covered(t, crashes)
    BY <1>4 DEF Covered
  <2>3. simplify_trace(trace_bits)' = simplify_trace(trace_bits')
    BY DEF simplify_trace
  <2> QED BY <1>4, <2>1, <2>2, <2>3 DEF Handled
<1>5. CASE UpdateFrequency
  <2>1. pc = "save" /\ UNCHANGED crashes /\ Observe(save.fault, trace_bits)
        /\ trace_bits' = IF options.fast THEN classify_counts(trace_bits) ELSE trace_bits
    BY <1>5 DEF UpdateFrequency
  <2>2. simplify_trace(trace_bits') = simplify_trace(trace_bits)
    BY <1>2, <2>1, Simplified
  <2>3. ASSUME save.fault = "crash" PROVE AtCrash'
    <3>1. pc' = "switch"
      BY <1>5, <2>3 DEF UpdateFrequency
    <3>2. \E c, n : save' = [save EXCEPT !.classified = c, !.need_hash = n]
      BY <1>5 DEF UpdateFrequency
    <3>3. save'.fault = save.fault
      BY <3>2 DEF TypeOK, SaveVars
    <3> QED BY <2>3, <3>1, <3>3 DEF AtCrash
  <2>4. ~AtCrash
    BY <2>1 DEF AtCrash
  <2> QED BY <1>2, <1>4, <2>1, <2>2, <2>3, <2>4
<1>6. CASE \E o \in Runs[save.mem]["hang"] : Rerun(o)
  <2> PICK o \in Runs[save.mem]["hang"] : Rerun(o)
    BY <1>6
  <2> DEFINE fault == IF ~stop_soon /\ o.fault = "crash" THEN "crash" ELSE "ok"
  <2>1. pc = "rerun" /\ UNCHANGED crashes /\ trace_bits' = classify_counts(o.trace)
        /\ Observe(fault, o.trace)
    BY DEF Rerun
  <2>2. o.trace \in Traces
    BY StepRuns
  <2>3. simplify_trace(trace_bits') = simplify_trace(o.trace)
    BY <2>1, <2>2, Simplified
  <2>4. fault = "crash" => AtCrash'
    <3>1. ASSUME fault = "crash" PROVE Uncovered(o)
      BY <3>1 DEF Uncovered
    <3>2. ASSUME Uncovered(o) PROVE pc' = "keep_as_crash"
      BY <3>2 DEF Rerun, Uncovered
    <3> QED BY <3>1, <3>2 DEF AtCrash
  <2>5. ~AtCrash
    BY <2>1 DEF AtCrash
  <2> HIDE DEF fault
  <2> QED BY <1>4, <2>1, <2>2, <2>3, <2>4, <2>5
<1>7. CASE Stop
  <2>1. UNCHANGED <<options, crashes, observed, pc, save, trace_bits>>
    BY <1>7 DEF Stop, mapVars
  <2> QED BY <2>1 DEF Handled, AtCrash, Covered, simplify_trace
<1>8. ASSUME UNCHANGED <<crashes, observed>>, ~AtCrash PROVE Handled'
  BY <1>1, <1>8 DEF Handled, Covered
<1>9. CASE \/ BeginCal \/ CompleteCal \/ Abandon \/ IgnoreTimeout \/ CheckCoverage
           \/ SaveToQueue \/ EndSwitch \/ HandleTimeout
           \/ \E i \in DOMAIN queue : Recalibrate(i)
           \/ \E t \in options.inputs : \E o \in Runs[t]["exec"] : FuzzRun(t, o)
           \/ (pc = "calibrate" /\ \E o \in Runs[Calibrated]["calibrate"] :
                  AbortCal(o) \/ DummyRun(o) \/ CalRun(o))
  <2>1. UNCHANGED <<crashes, observed>> /\ ~AtCrash
    BY <1>9 DEF BeginCal, CompleteCal, Abandon, IgnoreTimeout, CheckCoverage, SaveToQueue,
       EndSwitch, HandleTimeout, Recalibrate, FuzzRun, AbortCal, DummyRun, CalRun, AtCrash
  <2> QED BY <1>8, <2>1
<1> QED
  BY <1>3, <1>5, <1>6, <1>7, <1>9 DEF Next, Step

----------------------------------------------------------------------------
(***************************************************************************)
(* The invariant.                                                          *)
(***************************************************************************)

LEMMA InitInv == Init => IInv
<1> SUFFICES ASSUME Init PROVE IInv
  OBVIOUS
<1>1. options \in OptionSets /\ options.seed \in Inputs
  BY OptionTypes DEF Init
<1>2. trace_bits \in Traces
  BY DEF Init, Traces
<1>3. Pristine \in VirginMaps
  BY DEF Pristine, VirginMaps
<1>4. NoSave \in SaveVars /\ NoSave.new_bits = 0
  BY <1>1, NothingToSave DEF NoSave
<1>5. cal \in CalVars /\ cal.q = 1
  <2>1. cal = [NoCal EXCEPT !.q = 1]
    BY DEF Init
  <2> QED BY <2>1, NothingToCalibrate DEF CalVars, NoCal
<1>6. Entry(options.seed, NoTrace) \in QueueEntry
  BY <1>1, SaveAssumption DEF Entry, QueueEntry, MaybeTrace
<1>7. queue \in Seq(QueueEntry) /\ DOMAIN queue = {1} /\ queue[1] = Entry(options.seed, NoTrace)
  BY <1>6 DEF Init
<1>8. IsFiniteSet({}) /\ Cardinality({}) = 0
  BY FS_EmptySet
<1>9. TypeOK
  <2>1. /\ crashes \subseteq Traces /\ hangs \subseteq Traces
        /\ Cardinality(crashes) <= KEEP_UNIQUE_CRASH /\ Cardinality(hangs) <= KEEP_UNIQUE_HANG
    BY <1>8, SaveAssumption DEF Init
  <2>2. pc = "begin_cal" /\ cal.q \in DOMAIN queue
    BY <1>5, <1>7 DEF Init
  <2>3. /\ stop_soon = FALSE /\ var_bytes = {} /\ save = NoSave
        /\ virgin_bits = Pristine /\ virgin_tmout = Pristine /\ virgin_crash = Pristine
    BY DEF Init
  <2> QED BY <1>1, <1>2, <1>3, <1>4, <1>5, <1>7, <2>1, <2>2, <2>3 DEF TypeOK
<1>10. queue[cal.q].exec_cksum = NoTrace /\ queue[cal.q].cal_failed = 0
  BY <1>5, <1>7 DEF Entry
<1>11. Executed
  BY <1>4 DEF Init, Executed
<1>12. Compared
  BY <1>10 DEF Init, Compared
<1>13. Limits
  BY <1>8, <1>10, SaveAssumption DEF Init, Limits, Calibrating
<1>14. CoverageIsKept /\ VariableBytesVary /\ Explored /\ Handled
  BY DEF Init, Pristine, CoverageIsKept, VariableBytesVary, Explored, Handled
<1> QED
  BY <1>9, <1>11, <1>12, <1>13, <1>14 DEF IInv

LEMMA NextInv == IInv /\ [Next]_vars => IInv'
<1> SUFFICES ASSUME IInv, [Next]_vars PROVE IInv'
  OBVIOUS
<1>1. CASE Next
  <2>1. TypeOK /\ Executed /\ Compared /\ Limits /\ CoverageIsKept /\ VariableBytesVary
        /\ Explored /\ Handled
    BY DEF IInv
  <2>2. TypeOK' /\ Limits' /\ Executed' /\ Compared'
    BY <1>1, <2>1, TypesStep, ExecutedStep, ComparedStep
  <2>3. CoverageIsKept' /\ VariableBytesVary' /\ Explored'
    BY <1>1, <2>1, CoverageStep, ExploredStep
  <2>4. Handled'
    <3>1. CASE options.crash_mode = "ok"
      BY <1>1, <2>1, <3>1, HandledStep
    <3>2. CASE options.crash_mode # "ok"
      <4>1. options' = options
        BY <1>1, OptionsStay
      <4> QED BY <3>2, <4>1 DEF Handled
    <3> QED BY <3>1, <3>2
  <2> QED BY <2>2, <2>3, <2>4 DEF IInv
<1>2. CASE UNCHANGED vars
  <2>1. UNCHANGED <<options, stop_soon, pc, trace_bits, virgin_bits, virgin_tmout,
                    virgin_crash, var_bytes, queue, crashes, hangs, save, cal, observed>>
    BY <1>2 DEF vars, mapVars
  <2>2. TypeOK' /\ Limits'
    BY <2>1 DEF IInv, TypeOK, Limits, Calibrating, HangRoom
  <2>3. \A t : Shown(t)' = Shown(t)
    BY <2>1 DEF Shown
  <2>4. Executed' /\ Compared'
    BY <2>1, <2>3 DEF IInv, Executed, Compared
  <2>5. Kept' = Kept
    BY <2>1 DEF Kept
  <2>6. CoverageIsKept'
    BY <2>1, <2>3, <2>5 DEF IInv, CoverageIsKept
  <2>7. VariableBytesVary'
    BY <2>1, <2>3, <2>5 DEF IInv, VariableBytesVary
  <2>8. Explored' /\ Handled'
    BY <2>1 DEF IInv, Explored, Handled, AtCrash, Covered, simplify_trace
  <2> QED BY <2>2, <2>4, <2>6, <2>7, <2>8 DEF IInv
<1> QED
  BY <1>1, <1>2

LEMMA Invariance == Spec => []IInv
<1>1. Init => IInv
  BY InitInv
<1>2. IInv /\ [Next]_vars => IInv'
  BY NextInv
<1> QED
  BY <1>1, <1>2, PTL DEF Spec

----------------------------------------------------------------------------
(***************************************************************************)
(* The theorems.                                                           *)
(***************************************************************************)

\* The types of the maps, of the queue and of the two sets of saved faults,
\* and the limits KEEP_UNIQUE_CRASH, KEEP_UNIQUE_HANG and CAL_CHANCES, which
\* save_if_interesting and fuzz_one look at before they add one.
THEOREM TypeCorrect == Spec => []TypeOK
<1>1. IInv => TypeOK
  BY DEF IInv
<1> QED
  BY <1>1, Invariance, PTL

\* Coverage is not forgotten: what has_new_bits has crossed off virgin_bits, a
\* test case in the queue shows, whatever is executed between its discovery
\* and its calibration.
THEOREM CoverageNotForgotten == Spec => []CoverageIsKept
<1>1. IInv => CoverageIsKept
  BY DEF IInv
<1> QED
  BY <1>1, Invariance, PTL

\* calibrate_case gives a byte up as variable only when the runs of one entry
\* differ in it.
THEOREM OnlyVariableBytes == Spec => []VariableBytesVary
<1>1. IInv => VariableBytesVary
  BY DEF IInv
<1> QED
  BY <1>1, Invariance, PTL

\* save_if_interesting drops a crash only when the saved ones cover it, or
\* when KEEP_UNIQUE_CRASH of them have been saved.
THEOREM NewCrashesSaved == Spec => []CrashesAreKept
<1>1. IInv => CrashesAreKept
  <2> SUFFICES ASSUME IInv, pc = "idle", options.crash_mode = "ok",
                      Cardinality(crashes) # KEEP_UNIQUE_CRASH,
                      NEW r \in observed, r.fault = "crash"
               PROVE  Covered(r.trace, crashes)
    BY DEF CrashesAreKept
  <2> QED BY DEF IInv, Handled, AtCrash
<1> QED
  BY <1>1, Invariance, PTL

=============================================================================

# TLA+ models of v8-sbfuzz

The repository is a fuzzer for the V8 sandbox: a small harness
(`sandbox_fuzzer/`) that loads a memory dump of a process into the Unicorn
emulator, driven by a vendored and modified AFL++ (`AFLplusplus/`) whose
`unicorn_mode/unicornafl` is the fork server of the emulation. What the fuzzer
reports is only as good as what nobody sees while it works: the protocol between
fuzzer, fork server and child, from the handshake to the last answer; what is kept
of the runs, in memory, on disk and between several fuzzers; the queue that decides
what is fuzzed; and the loader that rebuilds the address space. These are modelled here, checked
with TLC on small instances, and in part proved with TLAPS for all instances.

Paths below are relative to `src/AFLplusplus/` unless they start with `src/`.

## 1. Inventory

| Component | State it keeps | Operations | Talks to | Hard about it | Correct when |
|---|---|---|---|---|---|
| Fork server client (`src/afl-forkserver.c`, stop handler in `src/afl-fuzz-state.c`, `at_exit` in `src/afl-fuzz.c`) | `child_pid`, `last_run_timed_out`, `stop_soon`, shared map and test case | write a test case, run it with a timeout, kill, exit | server by two pipes, child by signals and shared memory | timeout racing the answer; signal handler between any two steps | answer, coverage and kill belong to the run asked for |
| UnicornAFL server and child (`unicorn_mode/unicornafl/unicornafl.cpp`) | child, two more pipes, `has_crash`, iteration counter | fork or wake, forward the pid, serve translation requests, collect the status | client, emulator callbacks | three message kinds on one pipe, child killed between two writes | as above; no child left behind |
| Compiler run-time server (`instrumentation/afl-compiler-rt.o.c`) | `child_stopped`, `child_pid`, cycle counter, SIGTERM handler | fork or SIGCONT, wait with WUNTRACED, `__AFL_LOOP` | client | stop/continue, wrapping counter, handler between `fork()` and its assignment | the same contract |
| Fork server handshake (`afl_fsrv_start`, both servers, the starts in `main` of `src/afl-fuzz.c`) | map sizes of fuzzer, server struct, shared map and environment; options; dictionary | version check, option exchange, up to four starts of two servers | each other, over two pipes and an environment variable | three kinds of server, four copies of one size, unchecked reads of a dead server | both sides agree or the fuzzer refuses; nobody waits for ever |
| Queue and favoured entries (`src/afl-fuzz-queue.c`) | `queue_buf`, `top_rated`, `tc_ref`/`trace_mini`, five counters | add, rate, cull, select | calibration, trimming, main loop | marks are stale between two culls, counters are changed in a dozen places | counters exact, favoured set covers the map, selection makes progress |
| Dry run and resume (`src/afl-fuzz-init.c`, `src/afl-fuzz.c`) | the files of the queue, `fastresume.bin` | calibrate and disable seeds, drop duplicates, dump, fast resume | queue | a restart restores half of the state | each entry gets its own state back |
| Test case cache (`src/afl-fuzz-queue.c`) | table of slots, size, count, high mark, learned limit | get, store, retake | `fuzz_one`, `trim_case`, `save_if_interesting` | unbounded searches that rely on five numbers agreeing | table consistent, entry in use never evicted |
| Saving of finds (`src/afl-fuzz-bitmap.c`, `include/coverage-64.h`) | virgin maps, crash and hang directories | `has_new_bits`, `save_if_interesting` | queue, cache | one trace map that every run overwrites, in place classification, reruns, jumps backwards | coverage crossed off is in the queue, unique crashes are saved |
| Calibration, trimming (`src/afl-fuzz-run.c`) | checksum, `first_trace`, variable bytes | `calibrate_case`, `trim_case` | client, queue, cache | failing or stopped in the middle, a second attempt much later | an entry is compared with its own traces only |
| Synchronisation (`src/afl-fuzz-run.c`, directories in `src/afl-fuzz-init.c`) | queue files, `.synced/` positions, `is_main_node` files, `_resume/` | import, election of a main node, in-place resume | other fuzzers by the file system | others write while one reads; a kill between any two system calls | nothing is passed for good or lost, finds reach all, the real main node prevails |
| Sandbox harness (`src/sandbox_fuzzer/`) | list of segments, Unicorn's map | map segments, load contents, set registers | Unicorn | overlaps, shared pages, the last page | every segment is mapped and loaded |
| Mutation stages, RedQueen, custom mutators, statistics, compiler passes, companion tools, network proxy, QEMU/FRIDA/Nyx modes, depot_tools | | | | | see section 8 |

## 2. Modules

    ForkserverLink          pipes, processes, signals, shared memory
       AflClient            the fuzzer's half of the protocol
          UnicornAfl        + unicornafl server and child      -> RunContract
          CompilerRt        + run-time server and child        -> RunContract
    RunContract             what a fork server promises (abstract)
    FavouredQueue           queue, dry run, main loop, resume
    TestcaseCache           the cache of test case buffers
    Handshake               how client and servers come to terms, before the above
    SaveFinds               save_if_interesting and calibrate_case
    SyncFuzzers             several fuzzers over one directory
    SegmentLoader           _map_segments of the harness
    UnicornAflProofs, CompilerRtProofs, HandshakeProofs, SegmentLoaderProofs,
    TestcaseCacheProofs, SaveFindsProofs, SyncFuzzersProofs, FavouredQueueProofs
    MC*.tla, MC*.cfg        instances for TLC

**ForkserverLink** (system level, mostly external): `ctl` and `st` are the pipes
from and to the fuzzer, `proc` the process table (free, running, zombie), `killed`
the processes with a pending SIGKILL, `trace_bits` the map and `input` the test
case in shared memory. `ran` and `truth` are history: what the target executed in
this run and what that did. `Terminate`, `ChildDies` are the kernel's part.

**AflClient** has one action per blocking system call of `afl_fsrv_run_target`,
because between two of them only shared memory is visible to others, and that is
written before the call. `apc` is its program counter: `idle`, `ready`, `read_pid`,
`wait`, `expired`, `drain`, `reap`, `exiting`, `exited`. The stop handler
(`handler`) may run in any of them: it sets `stop_soon`, kills, sleeps, reaps.
afl-fuzz installs it with SA_RESTART and ignores SIGPIPE
(`src/afl-fuzz-init.c:3162-3198`), so a blocked read goes on after the handler.

**UnicornAfl** adds `_fksrv_start` after its handshake (`spc`), the child
(`cpc[p]`) with `_child_fuzz` and `_afl_next`, and the two pipes between them. Block
hooks may ask the server to translate a block; the cache request may fail.

**CompilerRt** adds `__afl_start_forkserver` after its handshake with its SIGTERM
handler, the persistent loop, code before the first and after the last
`__AFL_LOOP`, and a cycle counter modulo `CounterRange` (2^32 in the code).
`fork_ret` is the return value of `fork()` before it is assigned to `child_pid`;
the signal may come in between.

**RunContract** is the abstract specification: submit, execute at most once, answer
truthfully or with a timeout, or close. Under fairness an answer comes or the
session is over. Both servers are mapped to it by `Contract == INSTANCE RunContract
WITH ...`, where everything after a stop maps to `over`.

**FavouredQueue** has `queue` as a sequence of records with the fields of `struct
queue_entry`, `top_rated`, the counters, and `pc` for the main thread: dry run,
start, top of the loop, select, `fuzz_one` up to trimming, stages, abandon, exited.
`UpdateBitmapScore` and `Culled` are functions of a score record so that the fast
resume and the end of a cycle can apply them to all entries in turn. `Culled` is
`cull_queue`: every mark is taken away, then `Picked` goes over the map in the order of the
code, `Visit` handling one byte of it. The loop over
the map in `update_bitmap_score` is one step: nothing it compares changes in it,
and the one thing that depends on the order, whether an entry renews its own
`trace_mini`, is `renewed`.

**TestcaseCache** follows `queue_testcase_get` with its two loops (`Evict`, `Load`) as
separate actions, the store and the two retakes, called in the order of
`fuzz_one`, `trim_case` and `save_if_interesting`; widths are U32 and U64.

**SegmentLoader** is `_map_segments`: skip, compare with the regions that exist, clip
or pass, `uc_mem_map` (external: refuses overlaps), then load the contents, which
the process does not survive if a page is missing.

**Handshake** runs `afl_fsrv_start` (`apc`: `hello`, `options`, `map_size`, `dict`, `end`) against a
server (`spc`) of one of three kinds: the run-time's with the current protocol, the same with
AFL_OLD_FORKSERVER, and unicornafl's. One read or write of a word is a step; a word is a
record that says what its sender meant by it, so that a word taken for another shows. `phase`
is the sequence of starts in `main`: probe with a large map, restart with the right one, the
CmpLog server, both again if its map is larger, or a late start by `calibrate_case`. The size
of the map lives in `map_size`, `fsrv[f].map_size`, `shm_size` and `env` (AFL_MAP_SIZE). A
server may die at any point (`Die`) or be too slow to say hello (`HelloTimeout`). Reads that
the code does not check yield, after a death, what the variable held or anything.

**SaveFinds** has one trace map, `trace_bits`, which every execution overwrites. A step is one
execution or the computation between two: `FuzzRun`, then `IgnoreTimeout` or `UpdateFrequency`
(which may classify early), `CheckCoverage`, `SaveToQueue` with its calibration
(`BeginCal`, `DummyRun` for CmpLog, `CalRun`, `CompleteCal`, `AbortCal`), the switch
(`HandleTimeout`, `Rerun`, `KeepAsCrash`, `EndSwitch`), and `Recalibrate` from `fuzz_one`. Bytes
of a trace are numbers with the real count classes; a byte of a virgin map is the set of
bits that are left. What an input does is a set of outcomes per time limit, so that it can
be flaky, slow, or crash only when given time.

**SyncFuzzers**: a step is one system call another process can notice. `files[f]` are f's queue
files, each full, empty or gone, `position[f][g]` is `<f>/.synced/<g>`, `main_file` the markers,
`resume_dir` the directory an in-place resume works from; `call[f]` are the local variables of
`sync_fuzzers`. A find or import is created empty and then written (`Discover`/`Import`,
`SaveDiscovery`/`SaveImport`); `trim_case` unlinks, recreates and writes. `Look`, `StepDown` and
`EndSync` are the election. `Stop` is noticed later, `Kill` takes effect at once, also
between any two files of a resume: `Resume` is the `rename` of `queue/` to `_resume/` (it fails
silently when an older `_resume/` is there), `ClearFile` each `unlink` of what is then left in
`queue/`, `Pivot` each link back, `NukeFile` each `unlink` of `nuke_resume_dir`, and `EndClear`,
`EndPivot` and `EndNuke` come after the last file. `lost` records what was passed over or lost in
one of the windows: a file is not there or empty when another fuzzer looks, an entry is
being trimmed when its fuzzer is killed, or `nuke_resume_dir` is cut off (`removed` is what it had
unlinked) and the next resume, working from the rest, unlinks the complete queue. The properties
name these windows and exclude nothing else.

Every definition that models code is listed with its lines in `PROJECT.json` ("map").

## 3. Runs

| Run | Config | States | Shows |
|---|---|---|---|
| unicornafl_safety | MCUnicornAfl | 267 k | result, coverage and killed process belong to the run; children are accounted for; messages stay in step |
| unicornafl_contract | MCUnicornAflLive | 375 k | implements RunContract, answers included; an idle child of a dead server ends |
| compiler_rt | MCCompilerRt | 621 k | the same for the run-time server, and that its children end with it |
| segment_loader | MCSegmentLoader | 1.15 M | passed segments are mapped; ordered lists load; the first owner keeps a shared page |
| testcase_cache | MCTestcaseCache | 3.9 M | consistent table, searches end inside it, the current entry stays |
| favoured_queue | MCFavouredQueue | 9.3 M | exact counters and reference counts, coverage by favoured entries, no entry that holds up the loop |
| handshake | MCHandshake | 861 k | when fuzzing starts, pipes are empty and both sides agree on map, test case and dictionary; no side waits for ever; the dictionary is loaded once |
| save_finds | MCSaveFinds | 185 k | coverage crossed off has an entry, bytes called variable vary, unique crashes are saved, every call returns |
| sync_fuzzers | MCSyncFuzzers | 344 k | positions pass only what was kept, the queue survives kills and resumes wherever they are cut off but for the named windows, finds spread, a temporary main node gives way |
| lost_crash, fast_resume, final_sync | MCLostCrash, MCFastResume, MCFinalSync | | disagreements, section 7 |

Bounds and why they suffice:

- *Protocol*: two test cases tell the current run from the previous one; two pids
  are all that can be in use, since a server never forks beside an uncollected
  child (which the runs check) and a pid can be used again. `persistent_iters` and the
  argument of `__AFL_LOOP` range over 0, 1 and 2 (none, one, several); the counter
  wraps at 4. There is no bound on runs, timeouts or stops.
- *Segments*: pages of 2 in an address space of 10, up to 3 segments of up to 6
  addresses in any order: a segment can begin and end inside a page, enclose others,
  touch, and reach the last page.
- *Cache*: 4 entries in at most 4 slots with a size limit of 5 and lengths 1 and 2:
  both limits are reached, and the learned limit shrinks the table.
- *Queue*: 3 entries, 3 bytes, at most 2 seeds, twin/overlapping and nested/disjoint
  traces, each entry fuzzed at most twice, two calibration chances instead of 3,
  "many items" is 3 instead of 11, one resume of up to two entries, of which two
  possible leftovers in the map are tried. Three option sets: none,
  AFL_CYCLE_SCHEDULES, AFL_DISABLE_REDUNDANT. Where a property does not hold under
  an option it says so in its hypothesis, and the hazard list says why.

- *Handshake*: every combination of server kind, version supported or not, four map sizes
  (below, at, above the default, above the initial map; not all multiples of the alignment),
  AFL_MAP_SIZE unset or one of four, dictionary, shared memory, CmpLog binary, AFL_SKIP_BIN_CHECK,
  AFL_NO_AUTODICT, and no or up to two deaths. The default sizes are 4 and 8 and the alignment 2.
- *Finds*: two bytes of map, eight inputs that between them cover each path of the switch,
  2 and 3 calibration cycles instead of 7 and 12 with 2 chances, 1 hang and 3 crashes kept
  instead of 500 and 10000. No bound on executions: the maps make the state space finite.
- *Synchronisation*: eight scenarios, each with the participants that case needs: two
  secondaries that elect themselves and are joined by a main node; a find that travels
  through the main node; trims between imports; one or two kills with resumes; a stop with final
  synchronisation; a start from nothing; a fuzzer alone with two finds that is killed up to three times,
  so that two resumes in a row can be cut off anywhere. Finds, trims, stops and kills are counted down.

Deadlock is checked except where the program really ends: FavouredQueue (FATAL, a session
that is not resumed, all entries at the bound on their level), SaveFinds (FATAL on an error
of the target), SyncFuzzers (sessions end) and Handshake (fuzzing begins, or FATAL).

## 4. Fairness

Weak fairness of: every step of the fuzzer once it is inside a run or on its way
out, its select() timer included; every step of the server; signals reaching
processes; the child's steps in its own fork server code. No fairness for the
target's code or the emulation (it may loop for ever: that is what the timeout is
for), for starting another run, for pressing Ctrl-C, or for the kernel killing the
server. This is what an ordinary scheduler and the kernel's signal delivery give.
In Handshake each side goes on when it can and a dead server's end of file is seen; a live
server need not be in time and need not die. In SaveFinds the code goes on once an execution
has begun (the client's own contract says that it ends); new executions are not forced. In
SyncFuzzers each process takes its own steps, the periodic synchronisation included (its timer
fires); finding, trimming, starting, stopping and being killed are not forced, and the two
liveness properties are conditional on everybody staying up.
FavouredQueue, TestcaseCache and SegmentLoader are checked for safety only: the
selection in the main loop and the eviction are random draws, so that progress there
holds with probability 1 and is stated instead as an invariant, that a successful
draw exists (`SearchesSucceed`, `NextCanBeCounted`).

## 5. Proofs

Each theorem holds for every value of the constants that its module's named ASSUME allows:
positive sizes, NULL values outside the sets they complement, inputs of the types the code gives
them, words in one pipe that can be told apart. SetupsAssumption of Handshake also states what the
code leaves to the user (section 8). Each proof module begins with the argument; here is what is inductive, and why the
property alone is not.

| Module | Theorems (property) | Inductive invariant |
|---|---|---|
| UnicornAflProofs | `TypeCorrect`, `MapIsQuiescent` (MapQuiescent), `ChildrenAreAccountedFor`, `WordsInStep` (MessagesInStep), `VerdictsAreRight` (VerdictMatchesRun), `CoverageIsRight` (CoverageMatchesRun), `ContractStepByStep` | `IInv`, `RunInv`, `ContractInv` |
| CompilerRtProofs | `TypeCorrect`, `MapIsQuiescent`, `ChildrenAreAccountedFor`, `AnswersAreRight` (AnswerMatchesRun), `ContractStepByStep` | `IInv`, `RunInv`, `ContractInv` |
| HandshakeProofs | `TypeCorrect`, `Agreement` (BothSidesAgree) | `IInv` |
| SegmentLoaderProofs | `TypeCorrect`, `PassedSegmentsAreMapped`, `OrderedDumpsLoad`, `FirstSegmentOwnsPage` | `IInv`, `OwnerInv` |
| TestcaseCacheProofs | `TypeCorrect`, `TableStaysConsistent`, `SearchesEnd`, `CurrentBufferStays` | `IInv` |
| SaveFindsProofs | `TypeCorrect`, `CoverageNotForgotten` (CoverageIsKept), `OnlyVariableBytes` (VariableBytesVary), `NewCrashesSaved` (CrashesAreKept) | `IInv` |
| SyncFuzzersProofs | `TypeCorrect`, `NothingSavedIsLost` (QueueSurvives), `NothingPassedIsLost` (PassedIsKept) | `IInv` |
| FavouredQueueProofs | `TypeCorrect`, `CountersAreExact` (CountersExact), `TheNextCanBeCounted` (NextCanBeCounted), `TraceMiniIsPresent` (TraceMiniPresent), `FavouredCovers` (FavouredCover), `TraceMiniIsOwnAtFirst` | `IInv` |

**The two protocols.** `MapQuiescent` alone is not inductive: that no child runs while the fuzzer is
idle follows from where the server is, that from what is still in the pipes, and that from how
far the fuzzer has got. `LinkInv` ties the three together in the phases of an exchange
(`BetweenRuns`, `AwaitingPid`, `AwaitingStatus`), with `RequestInv` and `InputInv` for the word on the
way and the state of the test case. `ChildrenInv` of CompilerRt, `BooksInv` of UnicornAfl say which
processes exist at each point of the server. UnicornAfl needs three things more:
`ConversationInv` (requests and blocks alternate in the pipe from child to server, and what is last
in it says where the child is), `IterInv` (a child that waits has rounds left), and `KillInv` (a child
that may still be asked for is not being killed). `RunInv` then follows one execution: through the
points of the child (`Progress`), the message or wait status it leaves, the status the server
holds, and the word in the pipe (`Told`). What does not
depend on the server, lemmas on AflClient alone, is the first section of both proof modules.

**The refinement.** `ContractStepByStep` is `Spec => Contract!Init /\ [][Contract!Next]_(Contract!vars)`, for
UnicornAfl from the states with `persistent_iters` 0 or 1 (with more a crash can be lost, section 7).
`ContractInv` adds that there is one child at a time even after the server has gone (`Alone`) and
that the outcome is open while it works (`Pending`). Submitting, the end of the execution, the
answer and the end of the session are the contract's steps; all others are shown to be stutters.
The fairness half of `ImplementsContract`, that an answer comes, is model-checked.

**Handshake.** `IInv` says for each point of the fuzzer where the server may be and which words are
under way (`Conversation`: what has been sent is the rest of a fixed script), which of the four
sizes agree when (`SizesFit`), where the test case is expected (`ShmemKnown`), and how often the
dictionary has been read (`DictOnce`).

**SegmentLoader.** `OrderedLoads` needs `InOrder`: on an ordered list every region ends at or below the
page of the next segment's start, so that of the loader's three tests only "starts in" can apply,
and clipping leaves nothing to overlap. `PagesOnly` (regions are whole pages) makes the arithmetic
of the two ALIGN macros usable. `FirstOwnsPage` needs that the pages of every passed segment are
mapped (`PagesMapped`): what is clipped away belonged to an earlier one.

**TestcaseCache.** The searches have no bound of their own. They end because the count is the number
of slots in use, so that one below the limit is free when the count is below it; `WithinLimit`
keeps that true when the limit is learned and lowered, and `Getting` in the loop that evicts.

**SaveFinds.** There is one trace map. `Executed` and `Compared` say whose trace it holds at each step and
whether it has been classified; without them `CoverageIsKept` says nothing about the next
comparison. `Explored` and `Handled` do the same for the crashes.

**SyncFuzzers.** What a fuzzer can still show (`Holds`) never shrinks, through stops, kills and
resumes: that is `QueueSurvives`. A resume is the hard part. `Moving` says which of its two copies is
complete: before and while links are made `_resume/` (`Linked`), while `nuke_resume_dir` works
`queue/`. After a kill `Copied` is left: all that is in `queue/` is also in `_resume/` or is in
`removed`. So what the next resume unlinks from `queue/` is in the other copy, or it goes to
`lost`. `PassedIsKept` needs `Importing`, which accounts for every file between
the position that is written and the one being counted up to: held, known, about to be written, or still in the list.

**FavouredQueue.** `CountersExact` needs `Control`: in the dry run the seeds still to come are as they were read, nothing
is favoured, and what is disabled counts as fuzzed. `Counts` also says what is left when
AFL_DISABLE_REDUNDANT disables entries behind the back of two counters: these are never too small,
which is what keeps the code's unsigned decrements from wrapping. `Refs` is `TraceMiniPresent` for any queue: `tc_ref` is at least (after a resume it may be more) the
number of bytes an entry is top rated for. `FavouredCover` needs `Rated`: each best entry is calibrated and sets its byte, `trace_mini`
is the entry's own trace, every byte of a measured entry has a best one, and those are covered
unless `score_changed` is set. It holds in the first session without AFL_CYCLE_SCHEDULES only,
because a resume and the end of a cycle rate entries with the trace that happens to be in the map.
The operators come first: `RatedTo` for `update_bitmap_score`, `UpdateAllScore` for its
repetition, `PickedSoFar` and `CulledTo` for `cull_queue`. That `cull_queue` covers the map follows from
an invariant of its scan: a byte that has left `temp_v` is in the trace of an entry picked so far,
and a byte already passed has left it, has no best entry, or has that entry picked.

## 6. Only model-checked

- The fairness half of `ImplementsContract`; `StopEndsChildren`, `IdleChildEnds`, `HandshakeEnds`, `SaveReturns`,
  `FindsSpread`, `RealMainPrevails`: liveness under fairness and ENABLED are out of the prover's reach.
- The exact result of the two recursive functions of FavouredQueue (`Picked`, `UpdateAll`) for every
  input. Proved is that they exist and what each of their steps keeps, by an induction stated
  over a set of numbers; which entries are picked, or how the ties of several rates come out, is left to TLC's runs.

## 7. Where code and its comments disagree

1. *lost_crash*: with persistent_iters > 1 a crash in the last iteration of a cycle is
   answered as a clean run (`unicornafl.cpp:295`): the child leaves the loop with `exit(0)`.
   `VerdictMatchesRun` describes exactly this exception; `CrashIsReported` is without it.
2. *fast_resume*: an in-place resume reads files backwards and the dump forwards; entries
   exchange their data (`src/afl-fuzz.c:2654`).
3. *final_sync*: AFL_FINAL_SYNC is to import what others have found before the fuzzer ends
   (`docs/env_variables.md:470`). `main` sets `stop_soon` before the call
   (`src/afl-fuzz.c:3235`), and `sync_fuzzers` leaves a directory at the first test case when
   it is set (`src/afl-fuzz-run.c:866`): nothing is imported.

The following was also met while modelling, found by TLC or by reading. It has no run of its own;
the properties that hold say where they are excused.

- When a server dies while it tells its map size, the read is not checked
  (`src/afl-forkserver.c:1123`): the fuzzer takes the default size, or whatever was on the stack, and
  `main` starts the server again with that. With AFL_MAP_SIZE below the default the two sides then
  disagree on the size.
- A fuzzer that is killed between two unlinks of `nuke_resume_dir`
  (`src/afl-fuzz-init.c:1765`) leaves an incomplete `_resume/` beside the complete `queue/`. The next
  resume takes `_resume/` all the same, because the `rename` at line 1904 fails silently, and deletes
  `queue/` (1955): what had been unlinked from `_resume/` is lost. The comment at 1892 thinks
  only of the other case, in which `queue/` is the incomplete one. TLC finds the trace as soon as
  `ClearFile` leaves `lost` alone: kill, resume, kill within `nuke_resume_dir`, resume.
- A stop between `fork()` and the write of the pid in the unicornafl server leaves an emulation
  running that nobody knows (`unicornafl.cpp:618`).
- A segment that encloses a mapped region is not merged, and the harness ends
  (`src/sandbox_fuzzer/AflUnicornEngine.cpp:145`; the comment at 103 promises a merge).
- Trimming a cached entry in place is never subtracted from the size of the cache
  (`src/afl-fuzz-queue.c:1354` and 1363; `include/afl-fuzz.h:827`).
- Of two seeds with the same trace the disabled one may stay favoured (`src/afl-fuzz-init.c:1346`).
- A timeout enters `virgin_tmout` before the run with the longer limit confirms it
  (`src/afl-fuzz-bitmap.c:681`): a later, real hang with the same trace is not saved.
- Two temporary main nodes may each see the other, step down together, and be elected
  together again, for as long as they keep in step (`src/afl-fuzz-run.c:898`, "this is not an issue").
- `use_shmem_fuzz` is taken from an unchecked read (`src/afl-forkserver.c:1085`). When the server dies
  at that point and is started again, the fuzzer writes test cases to shared memory that the
  target may not read.
- With AFL_KEEP_TIMEOUTS an input that is queued as a timeout and then finishes in time is queued
  a second time (`src/afl-fuzz-bitmap.c:752`).
- A session that stopped when every entry had been fuzzed cannot be fast-resumed
  (`src/afl-fuzz.c:2751`); after a fast resume `smallest_favored` is entry 0 whatever that is.
- AFL_CYCLE_SCHEDULES rates all entries with the last run's trace (`src/afl-fuzz.c:3058`);
  AFL_DISABLE_REDUNDANT can leave a pending favoured entry that is never counted
  (`src/afl-fuzz-queue.c:486`); an entry whose second calibration brings no new bits is counted as
  fuzzed without being fuzzed (`src/afl-fuzz-one.c:457`).
- With AFL_TESTCACHE_ENTRIES of 2 or less the eviction loop may not end (`src/afl-fuzz.c:1776`);
  the cache model starts at 3.

## 8. Limits of the models, and what is left out

- *Protocol*: the faux server, Nyx, AFL_PERSISTENT_RECORD, crash exit codes,
  EXEC_FAIL_SIG, children killed from outside, pids used by unrelated processes, a second
  Ctrl-C, compare hooks. A target reads its input once and does not end before. The map is
  the set of test cases that have written to it. A wait status is clean, signalled or
  stopped.
- `StopEndsChildren` of CompilerRt excuses the child whose pid was not assigned yet when SIGTERM
  came, and a server that fell to SIGKILL.
- *Cache*: at least 3 slots (with AFL_TESTCACHE_ENTRIES of 2 or less the eviction loop may not
  end), files readable, weights only below 1.0 or not.
- *Queue*: traces are stable; schedules from RARE on, crash mode, AFL_NO_STARTUP_CALIBRATION,
  AFL_CRASHING_SEEDS_AS_NEW_CRASH, old_seed_selection and the MOpt variant of `fuzz_one` are not
  modelled. The alias table is reduced to who can be drawn at all, in exact arithmetic.
- *Handshake*: `stop_soon` during the handshake, the options of older servers that nothing here
  sends, the other tools that start a server. Excluded setups, in which the code relies on the
  user: a vanilla server whose map is not the default one, or with AFL_SKIP_BIN_CHECK and a
  smaller AFL_MAP_SIZE (it cannot say how large its map is); AFL_OLD_FORKSERVER with a harness
  that reads shared memory (it cannot announce it); a CmpLog binary that disagrees with the
  main one on shared memory (`write_to_testcase` asks only the main one,
  `src/afl-fuzz-run.c:341`).
- *Finds*: path frequencies, file names, scores, the bitmap file, the mode without instrumentation.
  A hash of a trace is the trace, so that collisions do not exist.
- *Synchronisation*: foreign directories (-F), AFL_NO_SYNC, AFL_SHA1_FILENAMES, a restart that
  deletes the old session, unreadable files, more than 10^6 files. A resume renumbers a
  queue while others hold positions in the old numbers; `PassedIsKept` and `FindsSpread` do not
  speak of fuzzers that were resumed.
- *Loader*: sizes and places, no contents or registers.
- Not modelled: mutation stages and RedQueen (data), custom mutators and utilities
  (plug-ins), statistics (output), compiler wrappers and passes (compile time), companion tools
  (front ends of the client), QEMU/FRIDA/Nyx modes (the same protocol, sources mostly
  submodules), depot_tools (vendored build tooling).

The share of the repository's lines that is mapped is small because most of them are vendored
(QEMU's translator, radamsa, depot_tools, JSON and hash libraries) or plug-ins; the code that
carries the fuzzer's own control is what the models follow.

## 9. Plan

Done: protocol core with both servers and their contract; handshake; loader; cache; queue with dry
run and resume; saving and calibration; synchronisation; proofs of every safety property of
these, the queue included. Next, in this order:

1. Models of the colorization of RedQueen (it terminates and keeps the path), the minimisation
   loops of afl-tmin and trim_case, and the network proxy's two fork servers.
2. Liveness of the main loop: with strong fairness for the draws, a pending favoured entry is
   eventually counted or culled away.

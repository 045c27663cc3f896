---------------------------- MODULE SyncFuzzers -----------------------------
(***************************************************************************)
(* Several afl-fuzz processes that share one directory: sync_fuzzers       *)
(* (afl-fuzz-run.c) with the election of a temporary main node, the steps  *)
(* in which queue files are written (save_if_interesting, trim_case), the  *)
(* end of a session and the in-place resume (handle_existing_out_dir,      *)
(* read_testcases, pivot_inputs, nuke_resume_dir).                         *)
(*                                                                         *)
(* The processes meet only in the file system, so that a step is one       *)
(* system call that another process can notice, with the computation that  *)
(* leads to it.  The end of a session may come between any two of them     *)
(* (Kill), or be asked for and noticed later (Stop).                       *)
(*                                                                         *)
(* Abstractions.  A test case is its coverage: one that is in seen[f] is   *)
(* not interesting to f.  Files are readable and below MAX_FILE, there are *)
(* fewer than 10^6 of them, and the timers that start a synchronisation    *)
(* may fire at any moment.  Foreign directories (-F), AFL_NO_SYNC,         *)
(* AFL_SHA1_FILENAMES and a restart that deletes the old session are left  *)
(* out.                                                                    *)
(***************************************************************************)
EXTENDS Naturals, FiniteSets, Sequences, SequencesExt

CONSTANTS
    Fuzzers,        \* the sync ids
    Nobody,
    Mains,          \* those that are started with -M; the others with -S
    Finds,          \* the test cases that can be found
    Seed,           \* the one everybody starts with
    FinalSync,      \* those with AFL_FINAL_SYNC
    NoUnlink,       \* those with AFL_NO_UNLINK, see trim_case
    Scenarios       \* who takes part, and how often what may happen

ASSUME SyncAssumption ==
    /\ Mains \subseteq Fuzzers
    /\ FinalSync \subseteq Fuzzers
    /\ NoUnlink \subseteq Fuzzers
    /\ Nobody \notin Fuzzers
    /\ Seed \notin Finds
    /\ Scenarios \subseteq [fuzzers : SUBSET Fuzzers, up : SUBSET Fuzzers,
                            finds : SUBSET Finds, trims : Nat, stops : Nat, kills : Nat]

Contents == Finds \cup {Seed}

VARIABLES
    \* On disk.
    files,          \* files[f][i + 1]: queue/id:<i> of f
    resume_dir,     \* the test cases in _resume/, in the order they are read in
    main_file,      \* <f>/is_main_node exists
    position,       \* position[f][g]: what <f>/.synced/<g> says
    started,        \* the directories that exist
    \* In memory.
    pc,
    is_main_node,
    seen,           \* what virgin_bits knows
    stop_soon,
    leaving,        \* past stop_fuzzing
    call,           \* the local variables of sync_fuzzers
    edited,         \* the entry that trim_case writes
    \* History.
    lost,           \* test cases f passed over or lost, in one of the known windows
    saved,          \* test cases that were once complete in f's queue
    removed,        \* what a nuke_resume_dir that has not ended has unlinked
    resumed,        \* sessions whose files have got new ids
    scenario        \* what is left of the bounds

diskVars == <<files, resume_dir, main_file, position, started>>
memVars == <<pc, is_main_node, seen, stop_soon, leaving, call, edited>>
histVars == <<lost, saved, removed, resumed, scenario>>
vars == <<diskVars, memVars, histVars>>

\* A queue file: its test case, whether another process finds it, finds it
\* empty, or finds the test case in it, and how often it has been renamed.
File(t, on, name) == [find |-> t, on |-> on, name |-> name]

\* sync_fuzzers, between two calls of it.
NoCall == [visited |-> {}, must |-> {}, ended |-> {}, party |-> Nobody,
           list |-> <<>>, next |-> 0, entries |-> FALSE, synced |-> FALSE]

Points == {"off",       \* not running
           "clear",     \* handle_existing_out_dir
           "pivot",     \* pivot_inputs
           "nuke",      \* nuke_resume_dir
           "fuzz",      \* the main loop
           "created",   \* a find: the file is there and empty
           "unlinked",  \* trim_case: the old file is gone
           "truncated", \* trim_case: the new file is empty
           "look",      \* sync_fuzzers: the next directory
           "demote",    \* sync_fuzzers: about to remove is_main_node
           "scan",      \* sync_fuzzers: about to list a queue
           "import",    \* sync_fuzzers: the next file
           "keep",      \* sync_fuzzers: an import has been created and is empty
           "exit"}      \* about to leave

Running(f) == pc[f] # "off"

\* The members of a finite set of numbers, in order.
Sorted(indices) ==
    [k \in 1..Cardinality(indices) |->
        CHOOSE i \in indices : Cardinality({j \in indices : j <= i}) = k]

\* The complete files of f.
FullIds(f) == {i \in DOMAIN files[f] : files[f][i].on = "full"}
Fulls(f) == [k \in 1..Cardinality(FullIds(f)) |-> files[f][Sorted(FullIds(f))[k]]]

FindsOf(s) == {s[i].find : i \in DOMAIN s}

\* Some fuzzers have been running for a while and have imported each other's
\* seed.
Init ==
    /\ scenario \in Scenarios
    /\ LET Up(f) == f \in scenario.up
       IN  /\ files = [f \in Fuzzers |-> IF Up(f) THEN <<File(Seed, "full", 0)>> ELSE <<>>]
           /\ main_file = [f \in Fuzzers |-> Up(f) /\ f \in Mains]
           /\ is_main_node = [f \in Fuzzers |-> Up(f) /\ f \in Mains]
           /\ pc = [f \in Fuzzers |-> IF Up(f) THEN "fuzz" ELSE "off"]
           /\ seen = [f \in Fuzzers |-> IF Up(f) THEN {Seed} ELSE {}]
           /\ saved = [f \in Fuzzers |-> IF Up(f) THEN {Seed} ELSE {}]
           /\ position = [f \in Fuzzers |-> [g \in Fuzzers |->
                             IF Up(f) /\ Up(g) /\ f # g THEN 1 ELSE 0]]
    /\ started = scenario.up
    /\ resume_dir = [f \in Fuzzers |-> <<>>]
    /\ stop_soon = [f \in Fuzzers |-> FALSE]
    /\ leaving = [f \in Fuzzers |-> FALSE]
    /\ call = [f \in Fuzzers |-> NoCall]
    /\ edited = [f \in Fuzzers |-> 0]
    /\ lost = [f \in Fuzzers |-> {}]
    /\ removed = [f \in Fuzzers |-> {}]
    /\ resumed = {}

\* One of the bounded events takes place.
Spend(what) ==
    /\ scenario[what] > 0
    /\ scenario' = [scenario EXCEPT ![what] = @ - 1]

Go(f, point) == pc' = [pc EXCEPT ![f] = point]

----------------------------------------------------------------------------
(***************************************************************************)
(* The beginning of a session.                                             *)
(***************************************************************************)

\* setup_dirs_fds: "if (afl->is_main_node)" the marker is created.  A marker
\* that a killed session has left behind is not removed.
SetUp(f) ==
    /\ is_main_node' = [is_main_node EXCEPT ![f] = f \in Mains]
    /\ main_file' = [main_file EXCEPT ![f] = @ \/ f \in Mains]
    /\ Go(f, "pivot")

\* A first session.  The input directory takes the place of _resume/.
Start(f) ==
    /\ f \in scenario.fuzzers \ started
    /\ started' = started \cup {f}
    /\ resume_dir' = [resume_dir EXCEPT ![f] = <<[find |-> Seed, id |-> 1, name |-> 0]>>]
    /\ SetUp(f)
    /\ UNCHANGED <<files, position, seen, stop_soon, leaving, call, edited, histVars>>

\* The queue after rename(), as read_testcases goes through it: the sorted
\* names backwards, without the empty files.
OldQueue(f) ==
    LET ids == Sorted(FullIds(f))
        Old(i) == [find |-> files[f][i].find, id |-> i, name |-> files[f][i].name]
    IN  Reverse([k \in DOMAIN ids |-> Old(ids[k])])

\* Mutant: what an aborted resume has left in _resume/ is overwritten.
InDir_Overwritten(f) == OldQueue(f)

\* "If _resume/ already exists, the current queue/ may be incomplete due to an
\* earlier abort, so we want to use the old _resume/ dir instead, and we let
\* rename() fail silently."  rename() replaces a _resume/ that is empty.
InDir(f) == IF resume_dir[f] # <<>> THEN resume_dir[f] ELSE OldQueue(f)

\* A later session: the queue is moved away, unless there is an older copy.
\* Without a usable test case the fuzzer refuses to start.
Resume(f) ==
    /\ f \in started
    /\ ~Running(f)
    /\ InDir(f) # <<>>
    /\ resume_dir' = [resume_dir EXCEPT ![f] = InDir(f)]
    /\ files' = [files EXCEPT ![f] = IF resume_dir[f] = <<>> THEN <<>> ELSE @]
    /\ resumed' = resumed \cup {f}
    /\ Go(f, "clear")
    /\ UNCHANGED <<main_file, position, started, is_main_node, seen, stop_soon,
                   leaving, call, edited, lost, saved, removed, scenario>>

\* delete_files: one file of the queue that was not moved away is unlinked.
\* If its old copy has been unlinked, too, the test case is lost.
ClearFile(f, i) ==
    /\ pc[f] = "clear"
    /\ i \in DOMAIN files[f] /\ files[f][i].on # "gone"
    /\ files' = [files EXCEPT ![f][i].on = "gone"]
    /\ lost' = [lost EXCEPT ![f] = @ \cup ({files[f][i].find} \cap removed[f])]
    /\ UNCHANGED <<resume_dir, main_file, position, started, memVars, saved,
                   removed, resumed, scenario>>

\* The last one is gone; setup_dirs_fds goes on with the new queue.
EndClear(f) ==
    /\ pc[f] = "clear"
    /\ \A i \in DOMAIN files[f] : files[f][i].on = "gone"
    /\ files' = [files EXCEPT ![f] = <<>>]
    /\ removed' = [removed EXCEPT ![f] = {}]
    /\ SetUp(f)
    /\ UNCHANGED <<resume_dir, position, started, seen, stop_soon, leaving, call,
                   edited, lost, saved, resumed, scenario>>

\* pivot_inputs counts upwards and keeps a name only where the number in it is
\* the one it would give.  link_or_copy: the file appears with its contents.
Pivot(f) ==
    LET i == Len(files[f]) + 1
        q == resume_dir[f][i]
        name == IF q.id = i THEN q.name ELSE q.name + 1
    IN  /\ pc[f] = "pivot"
        /\ i <= Len(resume_dir[f])
        /\ files' = [files EXCEPT ![f] = Append(@, File(q.find, "full", name))]
        /\ saved' = [saved EXCEPT ![f] = @ \cup {q.find}]
        /\ UNCHANGED <<resume_dir, main_file, position, started, memVars, lost,
                       removed, resumed, scenario>>

\* The dry run executes every entry.
DryRun(f) ==
    /\ seen' = [seen EXCEPT ![f] = FindsOf(files[f])]
    /\ Go(f, "fuzz")

\* The last one has been linked: "if (afl->in_place_resume) nuke_resume_dir".
\* The input directory of a first session is not needed any more.
EndPivot(f) ==
    /\ pc[f] = "pivot"
    /\ Len(files[f]) = Len(resume_dir[f])
    /\ IF f \in resumed
         THEN Go(f, "nuke") /\ UNCHANGED <<resume_dir, seen>>
         ELSE DryRun(f) /\ resume_dir' = [resume_dir EXCEPT ![f] = <<>>]
    /\ UNCHANGED <<files, main_file, position, started, is_main_node, stop_soon,
                   leaving, call, edited, histVars>>

\* nuke_resume_dir: one file of _resume/ is unlinked, whichever readdir returns.
NukeFile(f, i) ==
    /\ pc[f] = "nuke"
    /\ i \in DOMAIN resume_dir[f]
    /\ resume_dir' = [resume_dir EXCEPT ![f] = RemoveAt(@, i)]
    /\ removed' = [removed EXCEPT ![f] = @ \cup {resume_dir[f][i].find}]
    /\ UNCHANGED <<files, main_file, position, started, memVars, lost, saved,
                   resumed, scenario>>

\* _resume/ is gone.
EndNuke(f) ==
    /\ pc[f] = "nuke"
    /\ resume_dir[f] = <<>>
    /\ removed' = [removed EXCEPT ![f] = {}]
    /\ DryRun(f)
    /\ UNCHANGED <<diskVars, is_main_node, stop_soon, leaving, call, edited,
                   lost, saved, resumed, scenario>>

----------------------------------------------------------------------------
(***************************************************************************)
(* Writing the queue.                                                      *)
(***************************************************************************)

\* save_if_interesting: permissive_create, with the next free id.
CreateFile(f, t) ==
    /\ files' = [files EXCEPT ![f] = Append(@, File(t, "empty", 0))]
    /\ seen' = [seen EXCEPT ![f] = @ \cup {t}]

\* ck_write.
WriteFile(f, i) ==
    /\ files' = [files EXCEPT ![f][i].on = "full"]
    /\ saved' = [saved EXCEPT ![f] = @ \cup {files[f][i].find}]

Discover(f, t) ==
    /\ pc[f] = "fuzz" /\ ~stop_soon[f]
    /\ t \in scenario.finds \ seen[f]
    /\ CreateFile(f, t)
    /\ Go(f, "created")
    /\ UNCHANGED <<resume_dir, main_file, position, started, is_main_node,
                   stop_soon, leaving, call, edited, histVars>>

SaveDiscovery(f) ==
    /\ pc[f] = "created"
    /\ WriteFile(f, Len(files[f]))
    /\ Go(f, "fuzz")
    /\ UNCHANGED <<resume_dir, main_file, position, started, is_main_node, seen,
                   stop_soon, leaving, call, edited, lost, removed, resumed, scenario>>

\* trim_case has shortened entry i and replaces its file: unlink and open,
\* or open with O_TRUNC.
StartTrim(f, i) ==
    /\ pc[f] = "fuzz" /\ ~stop_soon[f]
    /\ i \in DOMAIN files[f] /\ files[f][i].on = "full"
    /\ Spend("trims")
    /\ edited' = [edited EXCEPT ![f] = i]
    /\ IF f \in NoUnlink
         THEN /\ files' = [files EXCEPT ![f][i].on = "empty"]
              /\ Go(f, "truncated")
         ELSE /\ files' = [files EXCEPT ![f][i].on = "gone"]
              /\ Go(f, "unlinked")
    /\ UNCHANGED <<resume_dir, main_file, position, started, is_main_node, seen,
                   stop_soon, leaving, call, lost, saved, removed, resumed>>

RecreateFile(f) ==
    /\ pc[f] = "unlinked"
    /\ files' = [files EXCEPT ![f][edited[f]].on = "empty"]
    /\ Go(f, "truncated")
    /\ UNCHANGED <<resume_dir, main_file, position, started, is_main_node, seen,
                   stop_soon, leaving, call, edited, histVars>>

SaveTrimmed(f) ==
    /\ pc[f] = "truncated"
    /\ WriteFile(f, edited[f])
    /\ edited' = [edited EXCEPT ![f] = 0]
    /\ Go(f, "fuzz")
    /\ UNCHANGED <<resume_dir, main_file, position, started, is_main_node, seen,
                   stop_soon, leaving, call, lost, removed, resumed, scenario>>

----------------------------------------------------------------------------
(***************************************************************************)
(* sync_fuzzers.                                                           *)
(***************************************************************************)

Secondary(f) == f \notin Mains

\* opendir; a directory that is created later may be returned or not.
OpenSyncDir(f, ended) ==
    /\ call' = [call EXCEPT ![f] = [NoCall EXCEPT !.must = started \ {f},
                                                  !.ended = ended]]
    /\ Go(f, "look")

StartSync(f) ==
    /\ pc[f] = "fuzz" /\ ~stop_soon[f]
    /\ OpenSyncDir(f, {})
    /\ UNCHANGED <<diskVars, is_main_node, seen, stop_soon, leaving, edited, histVars>>

\* Mutant: a main node, too, looks for the marker and skips whoever has none.
Skips_Main(f, g) == ~main_file[g]

\* "secondary nodes only syncs from main, the main node syncs from everyone".
Skips(f, g) == Secondary(f) /\ ~is_main_node[f] /\ ~main_file[g]

\* "there is another main node? downgrade."
StepsDown(f, g) == Secondary(f) /\ is_main_node[f] /\ main_file[g]

\* The next directory, and the test whether its owner is a main node.
Look(f, g) ==
    /\ pc[f] = "look"
    /\ g \in started \ (call[f].visited \cup {f})
    /\ call' = [call EXCEPT ![f].visited = @ \cup {g},
                            ![f].entries = TRUE,
                            ![f].synced = @ \/ ~Skips(f, g),
                            ![f].party = IF Skips(f, g) THEN Nobody ELSE g]
    /\ is_main_node' = [is_main_node EXCEPT ![f] = @ /\ ~StepsDown(f, g)]
    /\ Go(f, CASE Skips(f, g) -> "look"
               [] StepsDown(f, g) -> "demote"
               [] OTHER -> "scan")
    /\ UNCHANGED <<diskVars, seen, stop_soon, leaving, edited, histVars>>

\* Mutant: a node that steps down leaves its marker.
Demoted_Keeps(f) == main_file

Demoted(f) == [main_file EXCEPT ![f] = FALSE]

StepDown(f) ==
    /\ pc[f] = "demote"
    /\ main_file' = Demoted(f)
    /\ Go(f, "scan")
    /\ UNCHANGED <<files, resume_dir, position, started, is_main_node, seen,
                   stop_soon, leaving, call, edited, histVars>>

\* The ids scandir returns, from id upwards, with what it takes to find the
\* file again.
Listed(g, id) ==
    LET indices == {i \in DOMAIN files[g] : i > id /\ files[g][i].on # "gone"}
    IN  [k \in 1..Cardinality(indices) |->
            LET i == Sorted(indices)[k]
            IN  [index |-> i, name |-> files[g][i].name, find |-> files[g][i].find]]

\* The end of the work on one directory.
CloseParty(f) ==
    /\ call' = [call EXCEPT ![f].party = Nobody, ![f].list = <<>>, ![f].next = 0]
    /\ Go(f, "look")

\* scandir, the position that was reached last time, and the search for the
\* file with that very id: without it there is "nothing new".  A file that is
\* being replaced is not in the list; what comes after it is counted all the
\* same, so that it may be passed over.
Scan(f) ==
    LET g == call[f].party
        id == position[f][g]
        list == Listed(g, id)
        gap == {i \in DOMAIN files[g] : /\ i > id /\ i <= id + Len(list)
                                        /\ files[g][i].on = "gone"}
    IN  /\ pc[f] = "scan"
        /\ IF list # <<>> /\ list[1].index = id + 1
             THEN /\ call' = [call EXCEPT ![f].list = list, ![f].next = id]
                  /\ lost' = [lost EXCEPT ![f] = @ \cup {files[g][i].find : i \in gap}]
                  /\ Go(f, "import")
             ELSE /\ CloseParty(f)
                  /\ UNCHANGED lost
        /\ UNCHANGED <<diskVars, is_main_node, seen, stop_soon, leaving, edited,
                       saved, removed, resumed, scenario>>

\* The file that the list names can be opened, and there is something in it.
Readable(g, entry) ==
    LET file == files[g][entry.index]
    IN  /\ entry.index \in DOMAIN files[g]
        /\ file.name = entry.name
        /\ file.on = "full"

NextEntry(f) ==
    call' = [call EXCEPT ![f].list = Tail(@), ![f].next = @ + 1]

\* "Allow this to fail in case the other fuzzer is resuming or so..." and
\* "Ignore zero-sized or oversized files."
PassOver(f) ==
    LET entry == Head(call[f].list)
    IN  /\ pc[f] = "import" /\ call[f].list # <<>>
        /\ ~Readable(call[f].party, entry)
        /\ lost' = [lost EXCEPT ![f] = @ \cup {entry.find}]
        /\ NextEntry(f)
        /\ UNCHANGED <<diskVars, pc, is_main_node, seen, stop_soon, leaving,
                       edited, saved, removed, resumed, scenario>>

\* The test case is executed and, if it is interesting, saved.
Import(f) ==
    LET entry == Head(call[f].list)
    IN  /\ pc[f] = "import" /\ call[f].list # <<>>
        /\ Readable(call[f].party, entry)
        /\ ~stop_soon[f]
        /\ NextEntry(f)
        /\ IF entry.find \in seen[f]
             THEN UNCHANGED <<files, seen, pc>>
             ELSE CreateFile(f, entry.find) /\ Go(f, "keep")
        /\ UNCHANGED <<resume_dir, main_file, position, started, is_main_node,
                       stop_soon, leaving, edited, histVars>>

SaveImport(f) ==
    /\ pc[f] = "keep"
    /\ WriteFile(f, Len(files[f]))
    /\ Go(f, "import")
    /\ UNCHANGED <<resume_dir, main_file, position, started, is_main_node, seen,
                   stop_soon, leaving, call, edited, lost, removed, resumed, scenario>>

\* Mutant: the position is written on this way out, too.
PositionAfterStop_Written(f) ==
    [position EXCEPT ![f][call[f].party] = call[f].next + 1]

PositionAfterStop(f) == position

\* "if (afl->stop_soon) { goto close_sync; }", after the test case has been
\* run; the loop over the directories goes on.
Interrupted(f) ==
    /\ pc[f] = "import" /\ call[f].list # <<>>
    /\ Readable(call[f].party, Head(call[f].list))
    /\ stop_soon[f]
    /\ position' = PositionAfterStop(f)
    /\ CloseParty(f)
    /\ UNCHANGED <<files, resume_dir, main_file, started, is_main_node, seen,
                   stop_soon, leaving, edited, histVars>>

\* The position is written after the last file.
WritePosition(f) ==
    /\ pc[f] = "import" /\ call[f].list = <<>>
    /\ position' = [position EXCEPT ![f][call[f].party] = call[f].next]
    /\ CloseParty(f)
    /\ UNCHANGED <<files, resume_dir, main_file, started, is_main_node, seen,
                   stop_soon, leaving, edited, histVars>>

\* "If we are a secondary and no main was found to sync then become the main".
Elected(f) == ~call[f].synced /\ call[f].entries /\ Secondary(f)

EndSync(f) ==
    /\ pc[f] = "look"
    /\ call[f].must \subseteq call[f].visited
    /\ is_main_node' = [is_main_node EXCEPT ![f] = @ \/ Elected(f)]
    /\ main_file' = [main_file EXCEPT ![f] = @ \/ Elected(f)]
    /\ call' = [call EXCEPT ![f] = [NoCall EXCEPT !.ended = call[f].ended]]
    /\ Go(f, IF leaving[f] THEN "exit" ELSE "fuzz")
    /\ UNCHANGED <<files, resume_dir, position, started, seen, stop_soon,
                   leaving, edited, histVars>>

----------------------------------------------------------------------------
(***************************************************************************)
(* The end of a session.                                                   *)
(***************************************************************************)

\* Ctrl-C, or a limit of the run that show_stats notices.
Stop(f) ==
    /\ Running(f) /\ ~stop_soon[f]
    /\ Spend("stops")
    /\ stop_soon' = [stop_soon EXCEPT ![f] = TRUE]
    /\ UNCHANGED <<diskVars, pc, is_main_node, seen, leaving, call, edited, lost,
                   saved, removed, resumed>>

\* stop_fuzzing: "if (afl->afl_env.afl_final_sync)" a last synchronisation.
LeaveLoop(f) ==
    /\ pc[f] = "fuzz" /\ stop_soon[f]
    /\ leaving' = [leaving EXCEPT ![f] = TRUE]
    /\ IF f \in FinalSync
         THEN OpenSyncDir(f, {g \in started : ~Running(g)})
         ELSE Go(f, "exit") /\ UNCHANGED call
    /\ UNCHANGED <<diskVars, is_main_node, seen, stop_soon, edited, histVars>>

\* The entry whose trimmed version is being written.
Trimming(f) == IF edited[f] = 0 THEN {} ELSE {files[f][edited[f]].find}

\* Mutant: the entry that was being trimmed is remembered.
EndProcess_KeepsEdited(f) ==
    /\ Go(f, "off")
    /\ is_main_node' = [is_main_node EXCEPT ![f] = FALSE]
    /\ seen' = [seen EXCEPT ![f] = {}]
    /\ stop_soon' = [stop_soon EXCEPT ![f] = FALSE]
    /\ leaving' = [leaving EXCEPT ![f] = FALSE]
    /\ call' = [call EXCEPT ![f] = NoCall]
    /\ UNCHANGED edited

\* What a process that ends takes with it.
EndProcess(f) ==
    /\ Go(f, "off")
    /\ is_main_node' = [is_main_node EXCEPT ![f] = FALSE]
    /\ seen' = [seen EXCEPT ![f] = {}]
    /\ stop_soon' = [stop_soon EXCEPT ![f] = FALSE]
    /\ leaving' = [leaving EXCEPT ![f] = FALSE]
    /\ call' = [call EXCEPT ![f] = NoCall]
    /\ edited' = [edited EXCEPT ![f] = 0]

\* The marker of a main node is removed, its own only.
Exit(f) ==
    /\ pc[f] = "exit"
    /\ main_file' = [main_file EXCEPT ![f] = @ /\ ~is_main_node[f]]
    /\ EndProcess(f)
    /\ UNCHANGED <<files, resume_dir, position, started, histVars>>

\* SIGKILL, at any moment.  A test case that is just being replaced by its
\* trimmed version is on disk in neither form.
Kill(f) ==
    /\ Running(f)
    /\ Spend("kills")
    /\ EndProcess(f)
    /\ lost' = [lost EXCEPT ![f] = @ \cup Trimming(f)]
    /\ resume_dir' = [resume_dir EXCEPT ![f] = IF f \in resumed THEN @ ELSE <<>>]
    /\ UNCHANGED <<files, main_file, position, started, saved, removed, resumed>>

----------------------------------------------------------------------------

\* What the program does of its own accord.
Step(f) ==
    \/ \E i \in DOMAIN files[f] : ClearFile(f, i)
    \/ EndClear(f)
    \/ Pivot(f)
    \/ EndPivot(f)
    \/ \E i \in DOMAIN resume_dir[f] : NukeFile(f, i)
    \/ EndNuke(f)
    \/ SaveDiscovery(f)
    \/ RecreateFile(f)
    \/ SaveTrimmed(f)
    \/ StartSync(f)
    \/ \E g \in Fuzzers : Look(f, g)
    \/ StepDown(f)
    \/ Scan(f)
    \/ PassOver(f)
    \/ Import(f)
    \/ SaveImport(f)
    \/ Interrupted(f)
    \/ WritePosition(f)
    \/ EndSync(f)
    \/ LeaveLoop(f)
    \/ Exit(f)

Next ==
    \E f \in Fuzzers :
        \/ Step(f)
        \/ Start(f)
        \/ Resume(f)
        \/ \E t \in Finds : Discover(f, t)
        \/ \E i \in DOMAIN files[f] : StartTrim(f, i)
        \/ Stop(f)
        \/ Kill(f)

Fairness == \A f \in Fuzzers : WF_vars(Step(f))

Spec == Init /\ [][Next]_vars /\ Fairness

----------------------------------------------------------------------------
(***************************************************************************)
(* Properties.                                                             *)
(***************************************************************************)

Entry == [index : Nat, name : Nat, find : Contents]
QueueFile == [find : Contents, on : {"full", "empty", "gone"}, name : Nat]
InputFile == [find : Contents, id : Nat, name : Nat]
SyncCall == [visited : SUBSET Fuzzers, must : SUBSET Fuzzers, ended : SUBSET Fuzzers,
             party : Fuzzers \cup {Nobody}, list : Seq(Entry), next : Nat,
             entries : BOOLEAN, synced : BOOLEAN]

\* The types of the files, of the positions and of sync_fuzzers' variables; the
\* entry that trim_case writes is one of the queue.
TypeOK ==
    /\ files \in [Fuzzers -> Seq(QueueFile)] /\ resume_dir \in [Fuzzers -> Seq(InputFile)]
    /\ call \in [Fuzzers -> SyncCall]
    /\ edited \in [Fuzzers -> Nat] /\ \A f \in Fuzzers : edited[f] <= Len(files[f])
    /\ main_file \in [Fuzzers -> BOOLEAN] /\ is_main_node \in [Fuzzers -> BOOLEAN]
    /\ position \in [Fuzzers -> [Fuzzers -> Nat]]
    /\ started \subseteq Fuzzers /\ resumed \subseteq started
    /\ pc \in [Fuzzers -> Points]
    /\ stop_soon \in [Fuzzers -> BOOLEAN] /\ leaving \in [Fuzzers -> BOOLEAN]
    /\ seen \in [Fuzzers -> SUBSET Contents] /\ lost \in [Fuzzers -> SUBSET Contents]
    /\ saved \in [Fuzzers -> SUBSET Contents] /\ removed \in [Fuzzers -> SUBSET Contents]

\* What f has on disk, in its queue or in what is left of an earlier one.
OnDisk(f) == FindsOf(Fulls(f)) \cup FindsOf(resume_dir[f])

\* No test case is passed for good without a trace of it: whatever lies below
\* the position that f has written for g is in f's own queue, or was in one of
\* the windows in which a file is replaced or not written yet when f looked.
\* This holds whenever f is killed and resumed, in the middle of an import too,
\* but for what f itself lost to an abort inside nuke_resume_dir (QueueSurvives),
\* as long as g has not been resumed: that gives g's files other ids.
PassedIsKept ==
    \A f, g \in Fuzzers : g \notin resumed =>
        \A i \in 1..position[f][g] :
            /\ i \in DOMAIN files[g]
            /\ files[g][i].find \in OnDisk(f) \cup Trimming(f) \cup lost[f]

\* A test case that was once complete in the queue survives the end of the
\* session, also of one that was just resuming an earlier one.  Two windows are
\* excepted: an entry whose trimmed version was being written when the process
\* was killed; and what nuke_resume_dir had unlinked when it was killed before
\* it was through with _resume/, from the moment the next resume, which goes
\* on with the rest of _resume/, deletes the complete queue.  Whatever else is
\* cut off, and however often, loses nothing.
QueueSurvives ==
    \A f \in Fuzzers : saved[f] \subseteq OnDisk(f) \cup Trimming(f) \cup lost[f]

AllUp == \A f \in scenario.fuzzers : Running(f) /\ ~stop_soon[f]

\* Everybody learns of every find in the end, the secondaries through the main
\* node, as long as all keep running: unless a fuzzer has lost a test case in
\* one of the windows, or was resumed.
FindsSpread ==
    <>[]AllUp =>
        \A t \in Finds :
            (\E f \in Fuzzers : t \in seen[f]) ~>
                \/ \A f \in scenario.fuzzers : t \in seen[f]
                \/ \E f \in Fuzzers : t \in lost[f]
                \/ resumed # {}

\* A secondary that has made itself main node gives that up when there is one,
\* and its marker goes, unless a session that was killed has left it behind.
RealMainPrevails ==
    <>[]AllUp => <>[](\A f \in scenario.fuzzers :
                          /\ is_main_node[f] <=> f \in Mains
                          /\ main_file[f] => f \in Mains \cup resumed)

\* AFL_FINAL_SYNC "will cause the fuzzer to perform a final import of test cases
\* when terminating [...] to ensure it has all unique test cases": a main node
\* that leaves has whatever a fuzzer that had ended before it left behind.
FinalSyncImports ==
    \A f \in FinalSync \cap Mains : pc[f] = "exit" =>
        \A g \in call[f].ended \ (resumed \cup {f}) :
            FindsOf(Fulls(g)) \subseteq seen[f] \cup lost[f]

=============================================================================

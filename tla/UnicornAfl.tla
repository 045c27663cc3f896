----------------------------- MODULE UnicornAfl -----------------------------
(***************************************************************************)
(* unicornafl.cpp: the fork server of a Unicorn harness and the children   *)
(* that emulate the target, driven by the fuzzer of AflClient.             *)
(*                                                                         *)
(* A child executes up to persistent_iters test cases (0: for ever).  It   *)
(* talks to the server over a pair of pipes made for it: the child asks    *)
(* for translation blocks to be cached and reports the end of a test case  *)
(* (child_pipe), the server tells it to go on (parent_pipe).  The server's *)
(* control loop is _fksrv_start with _handle_child_requests, the child is  *)
(* _child_fuzz with _afl_next and the hooks.                               *)
(*                                                                         *)
(* What the emulation does is a choice: how many blocks it executes,       *)
(* whether it ends, and whether it ends in a validated crash.              *)
(***************************************************************************)
EXTENDS AflClient

CONSTANTS
    TBs,            \* translation blocks of the emulated target
    PersistentIters \* the values of persistent_iters to consider

ASSUME UnicornAssumption ==
    /\ PersistentIters \subseteq Nat
    /\ TBs \cap {"NEXT", "FOUND_CRASH", "TSL_REQUEST"} = {}

ChildRets == {"NEXT", "FOUND_CRASH", "EXITED"}

VARIABLES
    spc,              \* where the fork server is
    child_pid,        \* its child
    child_ret,        \* how the last run of the child ended
    was_killed,       \* the last word from the fuzzer
    status,           \* the word to relay
    tb_cache,         \* blocks the server has translated
    server_ret,       \* why the server loop was left
    cpc,              \* cpc[p]: where child p is
    tc,               \* tc[p]: the test case child p has placed
    iter,             \* iter[p]: test cases child p has begun after its first
    crash_found,      \* crash_found[p]
    child_tbs,        \* child_tbs[p]: blocks child p has translated
    child_pipe,       \* child_pipe[p]: from child p to the server
    parent_pipe,      \* parent_pipe[p]: wake-up words from the server to child p
    persistent_iters, \* the parameter of uc_afl_fuzz
    last_iteration    \* history: the current test case is the last of a cycle

serverVars == <<spc, child_pid, child_ret, was_killed, status, tb_cache,
                server_ret>>
childVars == <<cpc, tc, iter, crash_found, child_tbs, child_pipe, parent_pipe>>
constVars == <<persistent_iters>>
vars == <<linkVars, clientVars, serverVars, childVars, constVars,
          last_iteration>>

ServerPoints ==
    {"read_ctl", "reap", "fork", "resume", "write_pid", "requests", "read_pc",
     "waitpid", "write_status", "returned"}

ChildPoints ==
    {"start", "place", "emulate", "request_tb", "end_of_loop", "next"}

\* Messages in child_pipe.  A translation request is followed by the block.
Messages == {"NEXT", "FOUND_CRASH", "TSL_REQUEST"} \cup TBs

\* The types of the variables of _fksrv_start and _child_fuzz and of the messages
\* in their pipes.
TypeOK ==
    /\ LinkTypeOK
    /\ ClientTypeOK
    /\ spc \in ServerPoints
    /\ child_pid \in Pids \cup {NoPid}
    /\ child_ret \in ChildRets
    /\ was_killed \in BOOLEAN
    /\ status \in Statuses
    /\ tb_cache \subseteq TBs
    /\ server_ret \in {"none", "FINISHED", "ERROR"}
    /\ cpc \in [Pids -> ChildPoints]
    /\ tc \in [Pids -> Testcases \cup {NoTestcase}]
    /\ iter \in [Pids -> Nat]
    /\ crash_found \in [Pids -> BOOLEAN]
    /\ child_tbs \in [Pids -> SUBSET TBs]
    /\ child_pipe \in [Pids -> Seq(Messages)]
    /\ parent_pipe \in [Pids -> Nat]
    /\ persistent_iters \in PersistentIters
    /\ last_iteration \in BOOLEAN

Init ==
    /\ LinkInit
    /\ ClientInit
    /\ spc = "read_ctl"
    /\ child_pid = NoPid
    /\ child_ret = "EXITED"
    /\ was_killed = FALSE
    /\ status = "exited"
    /\ tb_cache = {}
    /\ server_ret = "none"
    /\ cpc = [p \in Pids |-> "start"]
    /\ tc = [p \in Pids |-> NoTestcase]
    /\ iter = [p \in Pids |-> 0]
    /\ crash_found = [p \in Pids |-> FALSE]
    /\ child_tbs = [p \in Pids |-> {}]
    /\ child_pipe = [p \in Pids |-> <<>>]
    /\ parent_pipe = [p \in Pids |-> 0]
    /\ persistent_iters \in PersistentIters
    /\ last_iteration = FALSE

----------------------------------------------------------------------------
(***************************************************************************)
(* The fork server.                                                        *)
(***************************************************************************)

At(pc) == srv = "up" /\ spc = pc

\* The loop returns to the harness, which ends.
Return(ret) ==
    /\ spc' = "returned"
    /\ server_ret' = ret
    /\ ServerEnds

\* Mutant: was_killed is read and not looked at.
AfterRequest_IgnoresKill(word) ==
    IF child_ret = "EXITED" THEN "fork" ELSE "resume"

\* "If we stopped the child in persistent mode, but there was a race condition
\* and afl-fuzz already issued SIGKILL, write off the old process."
AfterRequest(word) ==
    IF child_ret = "EXITED" THEN "fork" ELSE IF word THEN "reap" ELSE "resume"

\* read(FORKSRV_FD, &was_killed): end of file when the fuzzer is gone.
ReadRequest ==
    /\ At("read_ctl")
    /\ IF ctl # <<>>
         THEN /\ was_killed' = Head(ctl)
              /\ ctl' = Tail(ctl)
              /\ spc' = AfterRequest(Head(ctl))
              /\ child_ret' = IF Head(ctl) THEN "EXITED" ELSE child_ret
              /\ UNCHANGED <<srv, srv_signal, server_ret>>
         ELSE /\ ~ClientUp
              /\ Return("FINISHED")
              /\ UNCHANGED <<ctl, was_killed, child_ret>>
    /\ UNCHANGED <<st, input, trace_bits, proc, exit_status, killed, ran, truth,
                   clientVars, child_pid, status, tb_cache, childVars,
                   constVars, last_iteration>>

\* waitpid(child_pid) returns: the child is a zombie, or no longer a child.
WaitReturns == child_pid \notin Pids \/ ~Live(child_pid)

\* The kernel forgets process p; its memory and its pipes are gone.
Forget(p) ==
    /\ proc' = [proc EXCEPT ![p] = "free"]
    /\ exit_status' = [exit_status EXCEPT ![p] = "exited"]
    /\ cpc' = [cpc EXCEPT ![p] = "start"]
    /\ tc' = [tc EXCEPT ![p] = NoTestcase]
    /\ iter' = [iter EXCEPT ![p] = 0]
    /\ crash_found' = [crash_found EXCEPT ![p] = FALSE]
    /\ child_tbs' = [child_tbs EXCEPT ![p] = {}]
    /\ child_pipe' = [child_pipe EXCEPT ![p] = <<>>]
    /\ parent_pipe' = [parent_pipe EXCEPT ![p] = 0]

\* "Child was killed by AFL in the meantime."
WriteOffChild ==
    /\ At("reap")
    /\ WaitReturns
    /\ IF child_pid \in Pids /\ proc[child_pid] = "zombie"
         THEN /\ Forget(child_pid)
              /\ spc' = "fork"
              /\ UNCHANGED <<srv, srv_signal, server_ret>>
         ELSE Return("ERROR") /\ UNCHANGED <<proc, exit_status, childVars>>
    /\ UNCHANGED <<ctl, st, input, trace_bits, killed, ran, truth, clientVars,
                   child_pid, child_ret, was_killed, status, tb_cache,
                   constVars, last_iteration>>

\* New pipes, then fork().  The child inherits the translated blocks.
Fork(p) ==
    /\ At("fork")
    /\ proc[p] = "free"
    /\ proc' = [proc EXCEPT ![p] = "live"]
    /\ child_pid' = p
    /\ child_tbs' = [child_tbs EXCEPT ![p] = tb_cache]
    /\ spc' = "write_pid"
    /\ UNCHANGED <<ctl, st, input, trace_bits, exit_status, killed, srv,
                   srv_signal, ran, truth, clientVars, child_ret, was_killed,
                   status, tb_cache, server_ret, cpc, tc, iter, crash_found,
                   child_pipe, parent_pipe, constVars, last_iteration>>

\* pipe() or fork() can fail whatever the state is.
ForkFails ==
    /\ At("fork")
    /\ Return("ERROR")
    /\ UNCHANGED <<ctl, st, input, trace_bits, proc, exit_status, killed, ran,
                   truth, clientVars, child_pid, child_ret, was_killed, status,
                   tb_cache, childVars, constVars, last_iteration>>

\* Wake the persistent child; its read end is gone when it is not alive.
ResumeChild ==
    /\ At("resume")
    /\ IF child_pid \in Pids /\ Live(child_pid)
         THEN /\ parent_pipe' = [parent_pipe EXCEPT ![child_pid] = @ + 1]
              /\ spc' = "write_pid"
              /\ UNCHANGED <<srv, srv_signal, server_ret>>
         ELSE Return("ERROR") /\ UNCHANGED parent_pipe
    /\ UNCHANGED <<ctl, st, input, trace_bits, proc, exit_status, killed, ran,
                   truth, clientVars, child_pid, child_ret, was_killed, status,
                   tb_cache, cpc, tc, iter, crash_found, child_tbs, child_pipe,
                   constVars, last_iteration>>

\* write(FORKSRV_FD + 1): fails when the fuzzer has closed its end.
WriteWord(word, next) ==
    IF ClientUp
      THEN /\ st' = Append(st, word)
           /\ spc' = next
           /\ UNCHANGED <<srv, srv_signal, server_ret>>
      ELSE Return("FINISHED") /\ UNCHANGED st

WritePid ==
    /\ At("write_pid")
    /\ WriteWord(child_pid, "requests")
    /\ UNCHANGED <<ctl, input, trace_bits, proc, exit_status, killed, ran,
                   truth, clientVars, child_pid, child_ret, was_killed, status,
                   tb_cache, childVars, constVars, last_iteration>>

\* The child's end of child_pipe is closed when it dies; what it wrote stays.
PipeReadable == child_pipe[child_pid] # <<>> \/ ~Live(child_pid)

\* Mutant: a translation request ends the round too.
RoundOver_AnyMessage(msg) == TRUE

RoundOver(msg) == msg \in {"NEXT", "FOUND_CRASH"}

\* 0 "tells AFL we are not crashed", the least status for which WIFSIGNALED
\* holds "tells AFL the child crashed (even though it's still alive)".
RoundStatus(msg) == IF msg = "FOUND_CRASH" THEN "signaled" ELSE "exited"

\* Mutant: the block of a translation request is not read.
AfterMessage_NoBlock(msg) == IF RoundOver(msg) THEN "write_status" ELSE "requests"

\* A message that is none of the three is logged and skipped.
AfterMessage(msg) ==
    IF RoundOver(msg) THEN "write_status"
    ELSE IF msg = "TSL_REQUEST" THEN "read_pc"
    ELSE "requests"

\* _handle_child_requests: one message, or end of file.
HandleMessage ==
    /\ At("requests")
    /\ PipeReadable
    /\ IF child_pipe[child_pid] = <<>>
         THEN /\ child_ret' = "EXITED"
              /\ spc' = "waitpid"
              /\ UNCHANGED <<child_pipe, status>>
         ELSE LET msg == Head(child_pipe[child_pid]) IN
              /\ child_pipe' = [child_pipe EXCEPT ![child_pid] = Tail(@)]
              /\ child_ret' = IF RoundOver(msg) THEN msg ELSE child_ret
              /\ status' = IF RoundOver(msg) THEN RoundStatus(msg) ELSE status
              /\ spc' = AfterMessage(msg)
    /\ UNCHANGED <<linkVars, clientVars, child_pid, was_killed, tb_cache,
                   server_ret, cpc, tc, iter, crash_found, child_tbs,
                   parent_pipe, constVars, last_iteration>>

\* The block of a translation request, or end of file in mid-request.  When
\* uc_ctl_request_cache fails the request is forgotten.
CacheBlock ==
    /\ At("read_pc")
    /\ PipeReadable
    /\ IF child_pipe[child_pid] = <<>>
         THEN /\ child_ret' = "EXITED"
              /\ spc' = "waitpid"
              /\ UNCHANGED <<child_pipe, tb_cache>>
         ELSE /\ tb_cache' \in {tb_cache,
                                tb_cache \cup (TBs \cap {Head(child_pipe[child_pid])})}
              /\ child_pipe' = [child_pipe EXCEPT ![child_pid] = Tail(@)]
              /\ spc' = "requests"
              /\ UNCHANGED child_ret
    /\ UNCHANGED <<linkVars, clientVars, child_pid, was_killed, status,
                   server_ret, cpc, tc, iter, crash_found, child_tbs,
                   parent_pipe, constVars, last_iteration>>

\* The child is gone: its wait status is what the fuzzer gets.
CollectChild ==
    /\ At("waitpid")
    /\ WaitReturns
    /\ IF child_pid \in Pids /\ proc[child_pid] = "zombie"
         THEN /\ status' = exit_status[child_pid]
              /\ Forget(child_pid)
              /\ spc' = "write_status"
              /\ UNCHANGED <<srv, srv_signal, server_ret>>
         ELSE /\ Return("ERROR")
              /\ UNCHANGED <<status, proc, exit_status, childVars>>
    /\ UNCHANGED <<ctl, st, input, trace_bits, killed, ran, truth, clientVars,
                   child_pid, child_ret, was_killed, tb_cache, constVars,
                   last_iteration>>

RelayStatus ==
    /\ At("write_status")
    /\ WriteWord(status, "read_ctl")
    /\ UNCHANGED <<ctl, input, trace_bits, proc, exit_status, killed, ran,
                   truth, clientVars, child_pid, child_ret, was_killed, status,
                   tb_cache, childVars, constVars, last_iteration>>

ServerStep ==
    \/ ReadRequest
    \/ WriteOffChild
    \/ \E p \in Pids : Fork(p)
    \/ ForkFails
    \/ ResumeChild
    \/ WritePid
    \/ HandleMessage
    \/ CacheBlock
    \/ CollectChild
    \/ RelayStatus

----------------------------------------------------------------------------
(***************************************************************************)
(* The child.                                                              *)
(***************************************************************************)

ChildAt(p, pc) == Live(p) /\ cpc[p] = pc

\* The server still holds the other ends of child p's pipes.
Attended(p) == srv = "up" /\ child_pid = p

Goto(p, pc) == cpc' = [cpc EXCEPT ![p] = pc]

\* After the fork: a clean map, then the first round of the loop.
StartChild(p) ==
    /\ ChildAt(p, "start")
    /\ trace_bits' = {}
    /\ Goto(p, "place")
    /\ UNCHANGED <<ctl, st, input, proc, exit_status, killed, srv, srv_signal,
                   ran, truth, clientVars, serverVars, tc, iter, crash_found,
                   child_tbs, child_pipe, parent_pipe, constVars,
                   last_iteration>>

\* place_input_callback_ reads the test case and accepts or rejects it.
PlaceInput(p, accepted) ==
    /\ ChildAt(p, "place")
    /\ tc' = [tc EXCEPT ![p] = input]
    /\ ran' = Append(ran, input)
    /\ truth' = IF accepted THEN truth ELSE "rejected"
    /\ last_iteration' = /\ persistent_iters > 1
                         /\ iter[p] + 1 = persistent_iters
    /\ Goto(p, IF accepted THEN "emulate" ELSE "end_of_loop")
    /\ UNCHANGED <<ctl, st, input, trace_bits, proc, exit_status, killed, srv,
                   srv_signal, clientVars, serverVars, iter, crash_found,
                   child_tbs, child_pipe, parent_pipe, constVars>>

\* Mutant: the hook writes to a map that is not the shared one.
Touched_OtherMap(p) == trace_bits

\* _uc_hook_block
Touched(p) == trace_bits \cup {tc[p]}

ExecuteBlock(p) ==
    /\ ChildAt(p, "emulate")
    /\ trace_bits' = Touched(p)
    /\ UNCHANGED <<ctl, st, input, proc, exit_status, killed, srv, srv_signal,
                   ran, truth, clientVars, serverVars, childVars, constVars,
                   last_iteration>>

\* The write end of child_pipe is broken: SIGPIPE, or EPIPE where the harness
\* (Python) ignores the signal.
BrokenPipe(p) ==
    /\ Terminate(p, "signaled")
    /\ UNCHANGED <<cpc, child_tbs, child_pipe>>

\* _uc_hook_new_tb, first write: the request.
RequestBlock(p) ==
    /\ ChildAt(p, "emulate")
    /\ child_tbs[p] # TBs
    /\ IF Attended(p)
         THEN /\ child_pipe' = [child_pipe EXCEPT ![p] = Append(@, "TSL_REQUEST")]
              /\ Goto(p, "request_tb")
              /\ UNCHANGED <<proc, exit_status, killed, child_tbs>>
         ELSE BrokenPipe(p)
    /\ UNCHANGED <<ctl, st, input, trace_bits, srv, srv_signal, ran, truth,
                   clientVars, serverVars, tc, iter, crash_found, parent_pipe,
                   constVars, last_iteration>>

\* _uc_hook_new_tb, second write: the block.
NameBlock(p, b) ==
    /\ ChildAt(p, "request_tb")
    /\ b \notin child_tbs[p]
    /\ IF Attended(p)
         THEN /\ child_pipe' = [child_pipe EXCEPT ![p] = Append(@, b)]
              /\ child_tbs' = [child_tbs EXCEPT ![p] = @ \cup {b}]
              /\ Goto(p, "emulate")
              /\ UNCHANGED <<proc, exit_status, killed>>
         ELSE BrokenPipe(p)
    /\ UNCHANGED <<ctl, st, input, trace_bits, srv, srv_signal, ran, truth,
                   clientVars, serverVars, tc, iter, crash_found, parent_pipe,
                   constVars, last_iteration>>

\* The emulation stops without a crash, or validate_crash_callback_ says no.
FinishClean(p) ==
    /\ ChildAt(p, "emulate")
    /\ truth' = "clean"
    /\ trace_bits' = Touched(p)
    /\ Goto(p, "end_of_loop")
    /\ UNCHANGED <<ctl, st, input, proc, exit_status, killed, srv, srv_signal,
                   ran, clientVars, serverVars, tc, iter, crash_found,
                   child_tbs, child_pipe, parent_pipe, constVars,
                   last_iteration>>

\* A validated crash: remembered in persistent mode, abort() otherwise.
FinishCrash(p) ==
    /\ ChildAt(p, "emulate")
    /\ truth' = "crash"
    /\ trace_bits' = Touched(p)
    /\ IF persistent_iters # 1
         THEN /\ crash_found' = [crash_found EXCEPT ![p] = TRUE]
              /\ Goto(p, "end_of_loop")
              /\ UNCHANGED <<proc, exit_status, killed>>
         ELSE /\ Terminate(p, "signaled")
              /\ UNCHANGED <<cpc, crash_found>>
    /\ UNCHANGED <<ctl, st, input, srv, srv_signal, ran, clientVars, serverVars,
                   tc, iter, child_tbs, child_pipe, parent_pipe, constVars,
                   last_iteration>>

\* The engine or a callback takes the whole process down.
EmulatorCrashes(p) ==
    /\ ChildAt(p, "emulate")
    /\ truth' = "crash"
    /\ trace_bits' = Touched(p)
    /\ Terminate(p, "signaled")
    /\ UNCHANGED <<ctl, st, input, srv, srv_signal, ran, clientVars, serverVars,
                   childVars, constVars, last_iteration>>

\* i++ and the loop's condition.
LoopEnds(p) == persistent_iters # 0 /\ iter[p] + 1 >= persistent_iters

\* exit(0): the next generation runs.
ExitLoop(p) ==
    /\ ChildAt(p, "end_of_loop")
    /\ LoopEnds(p)
    /\ Terminate(p, "exited")
    /\ UNCHANGED <<ctl, st, input, trace_bits, srv, srv_signal, ran, truth,
                   clientVars, serverVars, childVars, constVars,
                   last_iteration>>

\* Mutant: the crash flag does not reach the message.
RoundMessage_AlwaysNext(p) == "NEXT"

RoundMessage(p) == IF crash_found[p] THEN "FOUND_CRASH" ELSE "NEXT"

\* _afl_next: tell the server how the round ended; exit(1) when it is gone.
ReportRound(p) ==
    /\ ChildAt(p, "end_of_loop")
    /\ ~LoopEnds(p)
    /\ IF Attended(p)
         THEN /\ child_pipe' = [child_pipe EXCEPT ![p] = Append(@, RoundMessage(p))]
              /\ Goto(p, "next")
              /\ UNCHANGED <<proc, exit_status, killed>>
         ELSE /\ Terminate(p, "exited")
              /\ UNCHANGED <<cpc, child_pipe>>
    /\ UNCHANGED <<ctl, st, input, trace_bits, srv, srv_signal, ran, truth,
                   clientVars, serverVars, tc, iter, crash_found, child_tbs,
                   parent_pipe, constVars, last_iteration>>

\* Mutant: the child reads again at end of file.
EndOfParentPipe_Retry(p) == FALSE

EndOfParentPipe(p) == parent_pipe[p] = 0 /\ ~Attended(p)

\* _afl_next: the wake-up word, or end of file and exit(1).
NextRound(p) ==
    /\ ChildAt(p, "next")
    /\ IF parent_pipe[p] > 0
         THEN /\ parent_pipe' = [parent_pipe EXCEPT ![p] = @ - 1]
              /\ trace_bits' = {}
              /\ crash_found' = [crash_found EXCEPT ![p] = FALSE]
              /\ iter' = [iter EXCEPT ![p] =
                             IF persistent_iters = 0 THEN @ ELSE @ + 1]
              /\ Goto(p, "place")
              /\ UNCHANGED <<proc, exit_status, killed>>
         ELSE /\ EndOfParentPipe(p)
              /\ Terminate(p, "exited")
              /\ UNCHANGED <<parent_pipe, trace_bits, crash_found, iter, cpc>>
    /\ UNCHANGED <<ctl, st, input, srv, srv_signal, ran, truth, clientVars,
                   serverVars, tc, child_tbs, child_pipe, constVars,
                   last_iteration>>

ChildStep(p) ==
    \/ StartChild(p)
    \/ \E accepted \in BOOLEAN : PlaceInput(p, accepted)
    \/ ExecuteBlock(p)
    \/ RequestBlock(p)
    \/ \E b \in TBs : NameBlock(p, b)
    \/ FinishClean(p)
    \/ FinishCrash(p)
    \/ EmulatorCrashes(p)
    \/ ExitLoop(p)
    \/ ReportRound(p)
    \/ NextRound(p)

----------------------------------------------------------------------------
(***************************************************************************)
(* The environment, and the whole.                                         *)
(***************************************************************************)

\* The server has the default disposition for both signals.
ServerDies ==
    /\ srv = "up"
    /\ srv_signal # "none"
    /\ ServerEnds
    /\ UNCHANGED <<ctl, st, input, trace_bits, proc, exit_status, killed, ran,
                   truth, clientVars, serverVars, childVars, constVars,
                   last_iteration>>

\* The kernel's out-of-memory killer takes the server, which the fuzzer's
\* error messages reckon with.
ServerLost ==
    /\ srv = "up"
    /\ srv_signal # "SIGKILL"
    /\ srv_signal' = "SIGKILL"
    /\ UNCHANGED <<ctl, st, input, trace_bits, proc, exit_status, killed, srv,
                   ran, truth, clientVars, serverVars, childVars, constVars,
                   last_iteration>>

localVars == <<serverVars, childVars, constVars, last_iteration>>

\* Nothing is left to do: the fuzzer and the server are gone.
Finished ==
    /\ apc = "exited"
    /\ srv # "up"
    /\ UNCHANGED vars

Next ==
    \/ ClientStep /\ UNCHANGED localVars
    \/ ServerStep
    \/ \E p \in Pids : ChildStep(p)
    \/ ServerDies
    \/ \E p \in Pids : ChildDies(p) /\ UNCHANGED <<clientVars, localVars>>
    \/ ServerLost
    \/ Finished

\* Every process is scheduled and pending signals arrive.  Nothing makes an
\* emulation end: FinishClean, FinishCrash and EmulatorCrashes are not fair.
Fairness ==
    /\ ClientFairness
    /\ WF_vars(ServerStep)
    /\ WF_vars(ServerDies)
    /\ \A p \in Pids :
         /\ WF_vars(ChildDies(p) /\ UNCHANGED <<clientVars, localVars>>)
         /\ WF_vars(StartChild(p))
         /\ WF_vars(\E accepted \in BOOLEAN : PlaceInput(p, accepted))
         /\ WF_vars(\E b \in TBs : NameBlock(p, b))
         /\ WF_vars(ExitLoop(p))
         /\ WF_vars(ReportRound(p))
         /\ WF_vars(NextRound(p))

Spec == Init /\ [][Next]_vars /\ Fairness

----------------------------------------------------------------------------
(***************************************************************************)
(* Properties.                                                             *)
(***************************************************************************)

\* A run has been answered and nobody has asked the fuzzer to stop: its caller
\* looks at the result and at the map.
Answered == apc = "idle" /\ fault # "none" /\ ~stop_soon

\* The result of a run is about this run: unless it timed out, exactly the
\* test case that was written has been executed, once; "crash" is reported
\* only for a crash, and a crash is reported as "ok" only where the code loses
\* it, in the last iteration of a cycle of several (_child_fuzz leaves the loop
\* with exit(0) whatever crash_found says).
VerdictMatchesRun ==
    Answered =>
        /\ fault # "FSRV_RUN_TMOUT" => ran = <<input>>
        /\ fault = "FSRV_RUN_CRASH" => truth = "crash"
        /\ fault = "FSRV_RUN_OK" =>
             \/ truth \in {"clean", "rejected"}
             \/ truth = "crash" /\ last_iteration

\* As above without the exception: what the comments of unicornafl.cpp and
\* priv.h say of persistent mode ("Forward if child found a crash or not").
CrashIsReported ==
    Answered /\ truth = "crash" => fault # "FSRV_RUN_OK"

\* The coverage the fuzzer evaluates is that of the test case it wrote, and
\* all of it when the run went to its end: neither the late writes of a child
\* that was killed nor those of the previous round of a persistent child.
CoverageMatchesRun ==
    Answered =>
        /\ trace_bits \subseteq {input}
        /\ truth \in {"clean", "crash"} => trace_bits = {input}

\* Between the answer and the next request every child is dead, or blocked in
\* the read of _afl_next: nobody changes the map while it is evaluated, and
\* nobody reads the test case while it is replaced.
MapQuiescent ==
    apc \in {"idle", "ready"} /\ ~stop_soon =>
        \A p \in Pids : Live(p) => cpc[p] = "next" /\ parent_pipe[p] = 0

\* The server never waits for a process that will not die, never resumes one
\* that is dead, and never forks while another child is unaccounted for; and
\* the process the fuzzer will kill on a timeout is the child of this run, not
\* one of an earlier run whose id may be in use again.
ChildrenAccountedFor ==
    srv = "up" =>
        /\ apc \in {"wait", "expired"} => fsrv_child_pid = child_pid
        /\ spc = "reap" => ~Live(child_pid) \/ child_pid \in killed
        /\ spc = "resume" /\ ClientUp => ChildAt(child_pid, "next")
        /\ spc \in {"reap", "waitpid"} => proc[child_pid] # "free"
        /\ \A p \in Pids : proc[p] # "free" => p = child_pid /\ spc # "fork"

\* Requests and block addresses stay in step in child_pipe, whatever the
\* moment at which a child is killed: the server never takes an address for a
\* message ("Unexpected response by child") nor a message for an address.
MessagesInStep ==
    srv = "up" /\ child_pid \in Pids /\ child_pipe[child_pid] # <<>> =>
        /\ spc = "requests" => Head(child_pipe[child_pid]) \notin TBs
        /\ spc = "read_pc" => Head(child_pipe[child_pid]) \in TBs

\* The run as the fuzzer's main loop sees it, up to the moment it is over.
Over == stop_soon \/ aborted

Contract == INSTANCE RunContract WITH
    phase <- IF Over THEN "over" ELSE IF apc = "idle" THEN "idle" ELSE "running",
    submitted <- IF Over THEN NoTestcase ELSE input,
    outcome <- IF Over THEN "none" ELSE truth,
    answer <- IF Over THEN "none" ELSE fault

\* The fork server implements RunContract when it has no last iteration that
\* can lose a crash (persistent_iters 0 or 1).
ImplementsContract == Contract!Spec

\* A persistent child that waits for a wake-up word nobody has sent ends once
\* the server has gone: it is not left behind.
IdleChildEnds ==
    \A p \in Pids :
        (srv # "up" /\ ChildAt(p, "next") /\ parent_pipe[p] = 0) ~> ~Live(p)

=============================================================================

----------------------------- MODULE CompilerRt -----------------------------
(***************************************************************************)
(* afl-compiler-rt.o.c: the fork server that is linked into an             *)
(* instrumented target (__afl_start_forkserver, with the SIGTERM handler   *)
(* at_exit) and the children it forks, which run one test case each or, in *)
(* persistent mode, loop in __AFL_LOOP (__afl_persistent_loop), driven by  *)
(* the fuzzer of AflClient.                                                *)
(*                                                                         *)
(* There is no pipe between server and child here.  A persistent child     *)
(* ends a round by stopping itself with SIGSTOP, which the server's        *)
(* waitpid(WUNTRACED) reports, and is sent SIGCONT for the next round.     *)
(***************************************************************************)
EXTENDS AflClient

CONSTANTS
    MaxCounts,      \* the arguments of __AFL_LOOP to consider
    CounterRange    \* the number of values of cycle_cnt (2^32 in the code)

ASSUME CompilerRtAssumption ==
    /\ CounterRange \in Nat \ {0}
    /\ MaxCounts \subseteq 0..(CounterRange - 1)

VARIABLES
    spc,            \* where the fork server is
    child_pid,      \* its static child_pid
    fork_ret,       \* the return value of fork(), until it is assigned
    child_stopped,  \* the persistent child is stopped
    was_killed,     \* the last word from the fuzzer
    status,         \* the wait status to relay
    cpc,            \* cpc[p]: where child p is
    tc,             \* tc[p]: the test case child p has read
    cycle_cnt,      \* cycle_cnt[p]
    is_persistent,  \* whether the target has an __AFL_LOOP
    max_cnt         \* its argument

serverVars == <<spc, child_pid, fork_ret, child_stopped, was_killed, status>>
childVars == <<cpc, tc, cycle_cnt>>
constVars == <<is_persistent, max_cnt>>
localVars == <<serverVars, childVars, constVars>>
vars == <<linkVars, clientVars, localVars>>

ServerPoints ==
    {"read_ctl", "reap", "fork",
     "forked",    \* fork() is done in the kernel, child_pid not yet assigned
     "resume", "write_pid", "waitpid", "write_status",
     "at_exit",   \* in the SIGTERM handler, blocked in waitpid(child_pid)
     "gone"}

ChildPoints ==
    {"startup",   \* before __AFL_LOOP, or before main reads its input
     "read",      \* about to read the test case
     "run",       \* in the target
     "loop",      \* at the condition of __AFL_LOOP
     "stopped",   \* stopped by SIGSTOP, not yet reported by waitpid
     "parked",    \* stopped, reported
     "tail"}      \* after the loop, the map pointer moved to the dummy region

\* The types of the server's variables in __afl_start_forkserver and of a child's
\* in __afl_persistent_loop.
TypeOK ==
    /\ LinkTypeOK
    /\ ClientTypeOK
    /\ spc \in ServerPoints
    /\ child_pid \in Pids \cup {NoPid}
    /\ fork_ret \in Pids \cup {NoPid}
    /\ child_stopped \in BOOLEAN
    /\ was_killed \in BOOLEAN
    /\ status \in Statuses
    /\ cpc \in [Pids -> ChildPoints]
    /\ tc \in [Pids -> Testcases \cup {NoTestcase}]
    /\ cycle_cnt \in [Pids -> 0..(CounterRange - 1)]
    /\ is_persistent \in BOOLEAN
    /\ max_cnt \in MaxCounts

Init ==
    /\ LinkInit
    /\ ClientInit
    /\ spc = "read_ctl"
    /\ child_pid = NoPid
    /\ fork_ret = NoPid
    /\ child_stopped = FALSE
    /\ was_killed = FALSE
    /\ status = "exited"
    /\ cpc = [p \in Pids |-> "startup"]
    /\ tc = [p \in Pids |-> NoTestcase]
    /\ cycle_cnt = [p \in Pids |-> 0]
    /\ is_persistent \in BOOLEAN
    /\ max_cnt \in MaxCounts

----------------------------------------------------------------------------
(***************************************************************************)
(* The fork server.                                                        *)
(***************************************************************************)

At(pc) == srv = "up" /\ spc = pc

\* _exit(1), at any failing system call.
Quit == spc' = "gone" /\ ServerEnds

\* Mutant: was_killed is read and not looked at.
AfterRequest_IgnoresKill(word) == IF child_stopped THEN "resume" ELSE "fork"

\* "If we stopped the child in persistent mode, but there was a race condition
\* and afl-fuzz already issued SIGKILL, write off the old process."
AfterRequest(word) ==
    IF ~child_stopped THEN "fork" ELSE IF word THEN "reap" ELSE "resume"

\* Mutant: the flag outlives a child that was killed.
StillStopped_AfterKill(word) == child_stopped

StillStopped(word) == child_stopped /\ ~word

\* The read of was_killed, and the decision it leads to.
ReadRequest ==
    /\ At("read_ctl")
    /\ IF ctl # <<>>
         THEN /\ was_killed' = Head(ctl)
              /\ ctl' = Tail(ctl)
              /\ spc' = AfterRequest(Head(ctl))
              /\ child_stopped' = StillStopped(Head(ctl))
              /\ UNCHANGED <<srv, srv_signal>>
         ELSE /\ ~ClientUp
              /\ Quit
              /\ UNCHANGED <<ctl, was_killed, child_stopped>>
    /\ UNCHANGED <<st, input, trace_bits, proc, exit_status, killed, ran, truth,
                   clientVars, child_pid, status, childVars, fork_ret, constVars>>

\* The kernel forgets process p and its memory.
Forget(p) ==
    /\ proc' = [proc EXCEPT ![p] = "free"]
    /\ exit_status' = [exit_status EXCEPT ![p] = "exited"]
    /\ cpc' = [cpc EXCEPT ![p] = "startup"]
    /\ tc' = [tc EXCEPT ![p] = NoTestcase]
    /\ cycle_cnt' = [cycle_cnt EXCEPT ![p] = 0]

Zombie(p) == p \in Pids /\ proc[p] = "zombie"
NoChild(p) == p \in Pids => proc[p] = "free"

\* "write off the old process"; waitpid without WUNTRACED waits for its death.
WriteOffChild ==
    /\ At("reap")
    /\ IF Zombie(child_pid)
         THEN /\ Forget(child_pid)
              /\ spc' = "fork"
              /\ UNCHANGED <<srv, srv_signal>>
         ELSE /\ NoChild(child_pid)
              /\ Quit
              /\ UNCHANGED <<proc, exit_status, childVars>>
    /\ UNCHANGED <<ctl, st, input, trace_bits, killed, ran, truth, clientVars,
                   child_pid, fork_ret, child_stopped, was_killed, status,
                   constVars>>

\* fork(), as the kernel does it: the new process exists.
Fork(p) ==
    /\ At("fork")
    /\ proc[p] = "free"
    /\ proc' = [proc EXCEPT ![p] = "live"]
    /\ fork_ret' = p
    /\ spc' = "forked"
    /\ UNCHANGED <<ctl, st, input, trace_bits, exit_status, killed, srv,
                   srv_signal, ran, truth, clientVars, child_pid, child_stopped,
                   was_killed, status, childVars, constVars>>

\* The pid that fork() returned is assigned to child_pid.
AssignChildPid ==
    /\ At("forked")
    /\ child_pid' = fork_ret
    /\ fork_ret' = NoPid
    /\ spc' = "write_pid"
    /\ UNCHANGED <<linkVars, clientVars, child_stopped, was_killed, status,
                   childVars, constVars>>

ForkFails ==
    /\ At("fork")
    /\ Quit
    /\ UNCHANGED <<ctl, st, input, trace_bits, proc, exit_status, killed, ran,
                   truth, clientVars, child_pid, child_stopped, was_killed,
                   status, childVars, fork_ret, constVars>>

\* kill(child_pid, SIGCONT): lost on a process that is not there.
ResumeChild ==
    /\ At("resume")
    /\ cpc' = [p \in Pids |-> IF p = child_pid /\ Live(p) /\ cpc[p] = "parked"
                                THEN "read" ELSE cpc[p]]
    /\ child_stopped' = FALSE
    /\ spc' = "write_pid"
    /\ UNCHANGED <<linkVars, clientVars, child_pid, was_killed, status, tc,
                   cycle_cnt, fork_ret, constVars>>

\* write(FORKSRV_FD + 1): fails when the fuzzer has closed its end.
WriteWord(word, next) ==
    IF ClientUp
      THEN st' = Append(st, word) /\ spc' = next /\ UNCHANGED <<srv, srv_signal>>
      ELSE Quit /\ UNCHANGED st

WritePid ==
    /\ At("write_pid")
    /\ WriteWord(child_pid, "waitpid")
    /\ UNCHANGED <<ctl, input, trace_bits, proc, exit_status, killed, ran,
                   truth, clientVars, child_pid, child_stopped, was_killed,
                   status, childVars, fork_ret, constVars>>

\* waitpid(child_pid, &status, WUNTRACED): the child has ended,
CollectChild ==
    /\ At("waitpid")
    /\ Zombie(child_pid)
    /\ status' = exit_status[child_pid]
    /\ Forget(child_pid)
    /\ spc' = "write_status"
    /\ UNCHANGED <<ctl, st, input, trace_bits, killed, srv, srv_signal, ran,
                   truth, clientVars, child_pid, child_stopped, was_killed,
                   fork_ret, constVars>>

\* or has stopped itself.
ChildHasStopped ==
    /\ At("waitpid")
    /\ child_pid \in Pids
    /\ Live(child_pid)
    /\ cpc[child_pid] = "stopped"
    /\ is_persistent
    /\ status' = "stopped"
    /\ child_stopped' = TRUE
    /\ cpc' = [cpc EXCEPT ![child_pid] = "parked"]
    /\ spc' = "write_status"
    /\ UNCHANGED <<linkVars, clientVars, child_pid, was_killed, tc, cycle_cnt,
                   fork_ret, constVars>>

RelayStatus ==
    /\ At("write_status")
    /\ WriteWord(status, "read_ctl")
    /\ UNCHANGED <<ctl, input, trace_bits, proc, exit_status, killed, ran,
                   truth, clientVars, child_pid, child_stopped, was_killed,
                   status, childVars, fork_ret, constVars>>

\* Mutant: the handler leaves the child alone.
Terminating_NoKill ==
    /\ srv = "up"
    /\ srv_signal = "SIGTERM"
    /\ spc # "at_exit"
    /\ spc' = "at_exit"
    /\ UNCHANGED killed
    /\ srv_signal' = "none"
    /\ UNCHANGED <<ctl, st, input, trace_bits, proc, exit_status, srv, ran,
                   truth, clientVars, child_pid, child_stopped, was_killed,
                   status, childVars, fork_ret, constVars>>

\* SIGTERM: at_exit kills the child whose pid the server knows, and waits.
Terminating ==
    /\ srv = "up"
    /\ srv_signal = "SIGTERM"
    /\ spc # "at_exit"
    /\ spc' = "at_exit"
    /\ killed' = Signaled(child_pid)
    /\ srv_signal' = "none"
    /\ UNCHANGED <<ctl, st, input, trace_bits, proc, exit_status, srv, ran,
                   truth, clientVars, child_pid, child_stopped, was_killed,
                   status, childVars, fork_ret, constVars>>

\* waitpid(child_pid) returns the child, or ECHILD for a stale pid.
Terminated ==
    /\ At("at_exit")
    /\ IF Zombie(child_pid)
         THEN Forget(child_pid)
         ELSE NoChild(child_pid) /\ UNCHANGED <<proc, exit_status, childVars>>
    /\ child_pid' = NoPid
    /\ Quit
    /\ UNCHANGED <<ctl, st, input, trace_bits, killed, ran, truth, clientVars,
                   child_stopped, was_killed, status, fork_ret, constVars>>

\* SIGKILL cannot be handled.
ServerDies ==
    /\ srv = "up"
    /\ srv_signal = "SIGKILL"
    /\ ServerEnds
    /\ UNCHANGED <<ctl, st, input, trace_bits, proc, exit_status, killed, ran,
                   truth, clientVars, localVars>>

ServerStep ==
    \/ ReadRequest
    \/ WriteOffChild
    \/ \E p \in Pids : Fork(p)
    \/ AssignChildPid
    \/ ForkFails
    \/ ResumeChild
    \/ WritePid
    \/ CollectChild
    \/ ChildHasStopped
    \/ RelayStatus
    \/ Terminating
    \/ Terminated
    \/ ServerDies

----------------------------------------------------------------------------
(***************************************************************************)
(* The child: the target, and __afl_persistent_loop.                       *)
(***************************************************************************)

ChildAt(p, pc) == Live(p) /\ cpc[p] = pc
Goto(p, pc) == cpc' = [cpc EXCEPT ![p] = pc]

\* Instrumented code that runs before any input is read.
ExecuteStartup(p) ==
    /\ ChildAt(p, "startup")
    /\ trace_bits' = trace_bits \cup {NoTestcase}
    /\ UNCHANGED <<ctl, st, input, proc, exit_status, killed, srv, srv_signal,
                   ran, truth, clientVars, localVars>>

\* Mutant: the first __AFL_LOOP does not erase the map.
MapAtMain_NotErased == trace_bits

MapAtMain == IF is_persistent THEN {} ELSE trace_bits

\* The first __AFL_LOOP erases the traces of what came before; a target
\* without a loop goes on with the map as it is.
EnterMain(p) ==
    /\ ChildAt(p, "startup")
    /\ Goto(p, "read")
    /\ trace_bits' = MapAtMain
    /\ cycle_cnt' = [cycle_cnt EXCEPT ![p] = IF is_persistent THEN max_cnt ELSE @]
    /\ UNCHANGED <<ctl, st, input, proc, exit_status, killed, srv, srv_signal,
                   ran, truth, clientVars, serverVars, tc, constVars>>

ReadInput(p) ==
    /\ ChildAt(p, "read")
    /\ tc' = [tc EXCEPT ![p] = input]
    /\ ran' = Append(ran, input)
    /\ Goto(p, "run")
    /\ UNCHANGED <<ctl, st, input, trace_bits, proc, exit_status, killed, srv,
                   srv_signal, truth, clientVars, serverVars, cycle_cnt,
                   constVars>>

\* An instrumented edge.
ExecuteBlock(p) ==
    /\ ChildAt(p, "run")
    /\ trace_bits' = trace_bits \cup {tc[p]}
    /\ UNCHANGED <<ctl, st, input, proc, exit_status, killed, srv, srv_signal,
                   ran, truth, clientVars, localVars>>

\* The body of the loop ends.
FinishBody(p) ==
    /\ ChildAt(p, "run")
    /\ is_persistent
    /\ trace_bits' = trace_bits \cup {tc[p]}
    /\ Goto(p, "loop")
    /\ UNCHANGED <<ctl, st, input, proc, exit_status, killed, srv, srv_signal,
                   ran, truth, clientVars, serverVars, tc, cycle_cnt, constVars>>

\* The target exits: at the end of main, or from inside the loop.
TargetExits(p) ==
    /\ ChildAt(p, "run")
    /\ trace_bits' = trace_bits \cup {tc[p]}
    /\ truth' = "clean"
    /\ Terminate(p, "exited")
    /\ UNCHANGED <<ctl, st, input, srv, srv_signal, ran, clientVars, localVars>>

TargetCrashes(p) ==
    /\ ChildAt(p, "run")
    /\ trace_bits' = trace_bits \cup {tc[p]}
    /\ truth' = "crash"
    /\ Terminate(p, "signaled")
    /\ UNCHANGED <<ctl, st, input, srv, srv_signal, ran, clientVars, localVars>>

\* Mutant: the counter goes below zero.
Decremented_NoWrap(n) == n - 1

\* --cycle_cnt, an unsigned 32-bit counter.
Decremented(n) == (n + CounterRange - 1) % CounterRange

\* A further call of __AFL_LOOP: raise(SIGSTOP), or out of the loop.
NextCycle(p) ==
    /\ ChildAt(p, "loop")
    /\ cycle_cnt' = [cycle_cnt EXCEPT ![p] = Decremented(@)]
    /\ IF Decremented(cycle_cnt[p]) # 0
         THEN Goto(p, "stopped") /\ truth' = "clean"
         ELSE Goto(p, "tail") /\ UNCHANGED truth
    /\ UNCHANGED <<ctl, st, input, trace_bits, proc, exit_status, killed, srv,
                   srv_signal, ran, clientVars, serverVars, tc, constVars>>

\* The code after the loop writes to the dummy map, and ends either way.
EndTail(p, how) ==
    /\ ChildAt(p, "tail")
    /\ truth' = IF how = "signaled" THEN "crash" ELSE "clean"
    /\ Terminate(p, how)
    /\ UNCHANGED <<ctl, st, input, trace_bits, srv, srv_signal, ran, clientVars,
                   localVars>>

ChildStep(p) ==
    \/ ExecuteStartup(p)
    \/ EnterMain(p)
    \/ ReadInput(p)
    \/ ExecuteBlock(p)
    \/ FinishBody(p)
    \/ TargetExits(p)
    \/ TargetCrashes(p)
    \/ NextCycle(p)
    \/ \E how \in {"exited", "signaled"} : EndTail(p, how)

----------------------------------------------------------------------------
(***************************************************************************)
(* The environment, and the whole.                                         *)
(***************************************************************************)

\* The kernel's out-of-memory killer takes the server.
ServerLost ==
    /\ srv = "up"
    /\ srv_signal # "SIGKILL"
    /\ srv_signal' = "SIGKILL"
    /\ UNCHANGED <<ctl, st, input, trace_bits, proc, exit_status, killed, srv,
                   ran, truth, clientVars, localVars>>

Finished ==
    /\ apc = "exited"
    /\ srv # "up"
    /\ UNCHANGED vars

Next ==
    \/ ClientStep /\ UNCHANGED localVars
    \/ ServerStep
    \/ \E p \in Pids : ChildStep(p)
    \/ \E p \in Pids : ChildDies(p) /\ UNCHANGED <<clientVars, localVars>>
    \/ ServerLost
    \/ Finished

\* As for UnicornAfl: the processes are scheduled and signals arrive, but
\* nothing makes the target (or the code after its loop) come to an end.
Fairness ==
    /\ ClientFairness
    /\ WF_vars(ServerStep)
    /\ \A p \in Pids :
         /\ WF_vars(ChildDies(p) /\ UNCHANGED <<clientVars, localVars>>)
         /\ WF_vars(EnterMain(p))
         /\ WF_vars(ReadInput(p))
         /\ WF_vars(NextCycle(p))

Spec == Init /\ [][Next]_vars /\ Fairness

----------------------------------------------------------------------------
(***************************************************************************)
(* Properties.                                                             *)
(***************************************************************************)

Answered == apc = "idle" /\ fault # "none" /\ ~stop_soon

\* Result and coverage are those of the test case that was written: unless
\* the run timed out, it was executed exactly once; in persistent mode the map
\* holds nothing else, neither start-up code nor the previous round.
AnswerMatchesRun ==
    Answered =>
        /\ fault # "FSRV_RUN_TMOUT" =>
             /\ ran = <<input>>
             /\ input \in trace_bits
        /\ fault = "FSRV_RUN_CRASH" => truth = "crash"
        /\ fault = "FSRV_RUN_OK" => truth = "clean"
        /\ is_persistent /\ ran # <<>> => trace_bits \subseteq {input}
        /\ trace_bits \subseteq {input, NoTestcase}

\* Between the answer and the next request every child is dead or stopped:
\* nobody changes the map while it is evaluated.
MapQuiescent ==
    apc \in {"idle", "ready"} /\ ~stop_soon =>
        \A p \in Pids : Live(p) => cpc[p] = "parked"

\* child_stopped is true exactly when there is a process to continue; the
\* server never waits for one that will not change state, and never forks
\* while another child is unaccounted for.
ChildrenAccountedFor ==
    srv = "up" =>
        /\ child_stopped => child_pid \in Pids /\ cpc[child_pid] = "parked"
        /\ spc = "reap" => ~Live(child_pid) \/ child_pid \in killed
        /\ spc \in {"reap", "waitpid"} => proc[child_pid] # "free"
        /\ spc = "waitpid" /\ Live(child_pid) => cpc[child_pid] # "parked"
        /\ \A p \in Pids : proc[p] # "free" =>
             \/ p = fork_ret
             \/ p = child_pid /\ fork_ret = NoPid /\ spc # "fork"

Over == stop_soon \/ aborted

Contract == INSTANCE RunContract WITH
    phase <- IF Over THEN "over" ELSE IF apc = "idle" THEN "idle" ELSE "running",
    submitted <- IF Over THEN NoTestcase ELSE input,
    outcome <- IF Over THEN "none" ELSE truth,
    answer <- IF Over THEN "none" ELSE fault

\* The run-time library's fork server implements RunContract, whatever
\* __AFL_LOOP is called with.
ImplementsContract == Contract!Spec

\* "ensure we kill the child on termination": once the fuzzer is stopped no
\* child survives, but for one that was forked when SIGTERM arrived and whose
\* pid at_exit did not know yet, or when the server itself fell to SIGKILL.
StopEndsChildren ==
    stop_soon ~> \/ \A p \in Pids : Live(p) => p = fork_ret
                 \/ srv # "up" /\ spc # "gone"

=============================================================================

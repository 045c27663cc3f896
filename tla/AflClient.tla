----------------------------- MODULE AflClient ------------------------------
(***************************************************************************)
(* The fuzzer's side of the fork server protocol:                          *)
(* afl_fsrv_write_to_testcase, afl_fsrv_run_target, read_s32_timed and     *)
(* afl_fsrv_kill of afl-forkserver.c, the stop handler afl_states_stop of  *)
(* afl-fuzz-state.c and at_exit of afl-fuzz.c.  One action per blocking    *)
(* system call: what the fuzzer does between two of them no other process  *)
(* can observe, except through the map and the test case, which the        *)
(* actions below write before the system call that follows.                *)
(***************************************************************************)
EXTENDS ForkserverLink

VARIABLES
    apc,                 \* where the fuzzer is
    fsrv_child_pid,      \* fsrv->child_pid
    last_run_timed_out,  \* fsrv->last_run_timed_out
    fault,               \* what afl_fsrv_run_target returned for the last run
    stop_soon,           \* afl->stop_soon, set by the signal handler
    handler,             \* the stop handler: "off", "sleeping" or "done"
    aborted              \* FATAL was called

clientVars == <<apc, fsrv_child_pid, last_run_timed_out, fault, stop_soon,
                handler, aborted>>

ClientPoints ==
    {"idle",      \* between two runs: the map is evaluated, an input is mutated
     "ready",     \* the test case is written, afl_fsrv_run_target is entered
     "read_pid",  \* blocked in the read of the child's pid
     "wait",      \* in select() for the status, with the timeout
     "expired",   \* select() returned 0
     "drain",     \* the child was sent SIGKILL, blocked in the read of the status
     "reap",      \* in afl_fsrv_kill, after the signals
     "exiting",   \* exit() was called, at_exit has not run yet
     "exited"}

Faults == {"FSRV_RUN_OK", "FSRV_RUN_TMOUT", "FSRV_RUN_CRASH"}

ClientTypeOK ==
    /\ apc \in ClientPoints
    /\ fsrv_child_pid \in Pids \cup {NoPid}
    /\ last_run_timed_out \in BOOLEAN
    /\ fault \in Faults \cup {"none"}
    /\ stop_soon \in BOOLEAN
    /\ handler \in {"off", "sleeping", "done"}
    /\ aborted \in BOOLEAN

ClientInit ==
    /\ apc = "idle"
    /\ fsrv_child_pid = NoPid
    /\ last_run_timed_out = FALSE
    /\ fault = "none"
    /\ stop_soon = FALSE
    /\ handler = "off"
    /\ aborted = FALSE

ClientUp == apc \notin {"exiting", "exited"}

\* The fuzzer's own code runs only while the signal handler does not.
Runs(pc) == apc = pc /\ handler # "sleeping"

----------------------------------------------------------------------------
\* afl_fsrv_write_to_testcase: the only write to the shared test case.
WriteTestcase(t) ==
    /\ Runs("idle")
    /\ ~stop_soon
    /\ input' = t
    /\ apc' = "ready"
    /\ ran' = <<>>
    /\ truth' = "none"
    /\ UNCHANGED <<ctl, st, trace_bits, proc, exit_status, killed, srv,
                   srv_signal, fsrv_child_pid, last_run_timed_out, fault,
                   stop_soon, handler, aborted>>

\* The other end of the pipe is gone: return 0 (FSRV_RUN_OK) when the user is
\* quitting, FATAL otherwise.
GiveUp ==
    /\ apc' = IF stop_soon THEN "idle" ELSE "exiting"
    /\ aborted' = ~stop_soon
    /\ fault' = IF stop_soon THEN "FSRV_RUN_OK" ELSE fault

\* Clear the map, then tell the server whether the previous run timed out.
SendRequest ==
    /\ Runs("ready")
    /\ trace_bits' = {}
    /\ IF srv = "up"
         THEN /\ ctl' = Append(ctl, last_run_timed_out)
              /\ last_run_timed_out' = FALSE
              /\ apc' = "read_pid"
              /\ UNCHANGED <<fault, aborted>>
         ELSE GiveUp /\ UNCHANGED <<ctl, last_run_timed_out>>
    /\ UNCHANGED <<st, input, proc, exit_status, killed, srv, srv_signal, ran,
                   truth, fsrv_child_pid, stop_soon, handler>>

\* The status pipe delivers a word, or end of file once the server is gone.
StReadable == st # <<>> \/ srv # "up"

\* A word that is no pid (child_pid <= 0) ends the run like end of file does.
ReadChildPid ==
    /\ Runs("read_pid")
    /\ StReadable
    /\ IF st # <<>> /\ Head(st) \in Pids
         THEN /\ fsrv_child_pid' = Head(st)
              /\ apc' = "wait"
              /\ UNCHANGED <<fault, aborted>>
         ELSE /\ GiveUp
              /\ fsrv_child_pid' = IF st = <<>> THEN fsrv_child_pid ELSE NoPid
    /\ st' = IF st = <<>> THEN st ELSE Tail(st)
    /\ UNCHANGED <<ctl, input, trace_bits, proc, exit_status, killed, srv,
                   srv_signal, ran, truth, last_run_timed_out, stop_soon,
                   handler>>

\* How a wait status and the timeout flag become the result of the run.
Verdict(status) ==
    IF last_run_timed_out THEN "FSRV_RUN_TMOUT"
    ELSE IF status = "signaled" THEN "FSRV_RUN_CRASH"
    ELSE "FSRV_RUN_OK"

Conclude(status) ==
    /\ fsrv_child_pid' = IF status = "stopped" THEN fsrv_child_pid ELSE NoPid
    /\ fault' = Verdict(status)
    /\ apc' = "idle"
    /\ UNCHANGED aborted

\* select() says readable: read_s32_timed first looks at stop_soon.
ReadStatus ==
    /\ Runs("wait")
    /\ StReadable
    /\ IF stop_soon \/ st = <<>>
         THEN GiveUp /\ UNCHANGED <<st, fsrv_child_pid>>
         ELSE Conclude(Head(st)) /\ st' = Tail(st)
    /\ UNCHANGED <<ctl, input, trace_bits, proc, exit_status, killed, srv,
                   srv_signal, ran, truth, last_run_timed_out, stop_soon,
                   handler>>

\* select() returns 0: nothing was readable when the timer ran out.
TimerExpires ==
    /\ Runs("wait")
    /\ ~StReadable
    /\ apc' = "expired"
    /\ UNCHANGED <<linkVars, fsrv_child_pid, last_run_timed_out, fault,
                   stop_soon, handler, aborted>>

\* Mutant: the run ends without the status of the killed child.
KillTimedOut_NoDrain ==
    /\ Runs("expired")
    /\ killed' = Signaled(fsrv_child_pid)
    /\ fsrv_child_pid' = NoPid
    /\ last_run_timed_out' = TRUE
    /\ apc' = "idle"
    /\ fault' = "FSRV_RUN_TMOUT"
    /\ UNCHANGED <<ctl, st, input, trace_bits, proc, exit_status, srv,
                   srv_signal, ran, truth, stop_soon, handler, aborted>>

\* Mutant: the pid is read after it has been reset.
tmp_pid_Late == NoPid

tmp_pid == fsrv_child_pid

\* The status may have arrived, and the child may be gone, since the timeout.
KillTimedOut ==
    /\ Runs("expired")
    /\ killed' = Signaled(tmp_pid)
    /\ fsrv_child_pid' = NoPid
    /\ last_run_timed_out' = TRUE
    /\ apc' = "drain"
    /\ UNCHANGED <<ctl, st, input, trace_bits, proc, exit_status, srv,
                   srv_signal, ran, truth, fault, stop_soon, handler, aborted>>

\* "The forkserver should inform us afterwards."
DrainStatus ==
    /\ Runs("drain")
    /\ StReadable
    /\ IF st = <<>>
         THEN GiveUp /\ UNCHANGED <<st, fsrv_child_pid>>
         ELSE Conclude(Head(st)) /\ st' = Tail(st)
    /\ UNCHANGED <<ctl, input, trace_bits, proc, exit_status, killed, srv,
                   srv_signal, ran, truth, last_run_timed_out, stop_soon,
                   handler>>

----------------------------------------------------------------------------
\* handle_stop_sig -> afl_states_stop, at any point of the fuzzer's code.
StopSignal ==
    /\ ClientUp
    /\ ~stop_soon
    /\ stop_soon' = TRUE
    /\ killed' = Signaled(fsrv_child_pid)
    /\ SignalServer("SIGTERM")
    /\ handler' = "sleeping"
    /\ UNCHANGED <<ctl, st, input, trace_bits, proc, exit_status, srv, ran,
                   truth, apc, fsrv_child_pid, last_run_timed_out, fault,
                   aborted>>

\* usleep(100), then waitpid(fsrv_pid, NULL, WNOHANG), then back.
StopHandlerReturns ==
    /\ handler = "sleeping"
    /\ handler' = "done"
    /\ ReapServer
    /\ UNCHANGED <<ctl, st, input, trace_bits, proc, exit_status, killed,
                   srv_signal, ran, truth, apc, fsrv_child_pid,
                   last_run_timed_out, fault, stop_soon, aborted>>

\* afl_fsrv_deinit -> afl_fsrv_kill, once the fuzzing loop has seen stop_soon.
KillForkserver ==
    /\ Runs("idle")
    /\ stop_soon
    /\ killed' = Signaled(fsrv_child_pid)
    /\ SignalServer("SIGTERM")
    /\ apc' = "reap"
    /\ UNCHANGED <<ctl, st, input, trace_bits, proc, exit_status, srv, ran,
                   truth, fsrv_child_pid, last_run_timed_out, fault, stop_soon,
                   handler, aborted>>

\* usleep(25), waitpid(WNOHANG), close both pipes, forget the pids.
ForkserverKilled ==
    /\ apc = "reap"
    /\ ReapServer
    /\ fsrv_child_pid' = NoPid
    /\ apc' = "exiting"
    /\ UNCHANGED <<ctl, st, input, trace_bits, proc, exit_status, killed,
                   srv_signal, ran, truth, last_run_timed_out, fault,
                   stop_soon, handler, aborted>>

\* at_exit: SIGTERM, then SIGKILL, to the server's process group, which its
\* children share, unless getpgid() fails because the server has been reaped already.
AtExit ==
    /\ Runs("exiting")
    /\ IF srv = "reaped"
         THEN UNCHANGED <<killed, srv_signal>>
         ELSE /\ killed' = killed \cup {p \in Pids : Live(p)}
              /\ SignalServer("SIGKILL")
    /\ apc' = "exited"
    /\ UNCHANGED <<ctl, st, input, trace_bits, proc, exit_status, srv, ran,
                   truth, fsrv_child_pid, last_run_timed_out, fault,
                   stop_soon, handler, aborted>>

ClientStep ==
    \/ \E t \in Testcases : WriteTestcase(t)
    \/ SendRequest
    \/ ReadChildPid
    \/ ReadStatus
    \/ TimerExpires
    \/ KillTimedOut
    \/ DrainStatus
    \/ StopSignal
    \/ StopHandlerReturns
    \/ KillForkserver
    \/ ForkserverKilled
    \/ AtExit

\* The fuzzer's process is scheduled and its select() timer runs out; nothing
\* obliges it to start another run, and nobody has to press Ctrl-C.
ClientFairness ==
    /\ WF_<<linkVars, clientVars>>(SendRequest)
    /\ WF_<<linkVars, clientVars>>(ReadChildPid)
    /\ WF_<<linkVars, clientVars>>(ReadStatus)
    /\ WF_<<linkVars, clientVars>>(TimerExpires)
    /\ WF_<<linkVars, clientVars>>(KillTimedOut)
    /\ WF_<<linkVars, clientVars>>(DrainStatus)
    /\ WF_<<linkVars, clientVars>>(StopHandlerReturns)
    /\ WF_<<linkVars, clientVars>>(KillForkserver)
    /\ WF_<<linkVars, clientVars>>(ForkserverKilled)
    /\ WF_<<linkVars, clientVars>>(AtExit)

=============================================================================

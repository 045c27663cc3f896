--------------------------- MODULE ForkserverLink ---------------------------
(***************************************************************************)
(* What a fuzzer process and a fork server share: the control pipe (fd 198 *)
(* in the server), the status pipe (fd 199), the shared test case, the     *)
(* shared coverage map, and the kernel's process table.  The client        *)
(* (AflClient) and each server (UnicornAfl, CompilerRt) extend this module *)
(* and take turns changing these variables.                                *)
(*                                                                         *)
(* Abstractions.  A pipe is the sequence of the 32-bit words in it.  A     *)
(* test case is an opaque value.  The coverage map is the set of test      *)
(* cases whose execution has touched it since it was last cleared, which   *)
(* is what attribution of coverage to an input depends on.  A wait status  *)
(* is one of three classes that WIFSTOPPED / WIFSIGNALED tell apart.       *)
(***************************************************************************)
EXTENDS Naturals, Sequences, FiniteSets

CONSTANTS
    Testcases,      \* the inputs the fuzzer may write
    Pids,           \* the process ids fork() may return in the server
    NoPid,          \* fsrv->child_pid = -1
    NoTestcase      \* the test case buffer before the first write

Statuses == {"exited", "signaled", "stopped"}

ASSUME LinkAssumption ==
    /\ NoPid \notin Pids
    /\ Pids \cap Statuses = {}
    /\ NoTestcase \notin Testcases

VARIABLES
    ctl,            \* words written by the client, not yet read by the server
    st,             \* words written by the server, not yet read by the client
    input,          \* the test case in shared memory (or in the input file)
    trace_bits,     \* whose execution has left edges in the map (NoTestcase:
                    \* code that ran before a test case was read)
    proc,           \* proc[p]: "free", "live" or "zombie"
    exit_status,    \* exit_status[p]: the class of the wait status of zombie p
    killed,         \* processes with a SIGKILL (or SIGTERM) pending
    srv,            \* the fork server process: "up", "zombie" or "reaped"
    srv_signal,     \* the signal pending at the fork server, or "none"
    ran,            \* history: the test cases executed since the last write
    truth           \* history: what executing the current test case did

linkVars == <<ctl, st, input, trace_bits, proc, exit_status, killed, srv,
              srv_signal, ran, truth>>

Words == Pids \cup Statuses

\* "none": not executed to the end yet; "rejected": place_input refused it.
Outcomes == {"none", "clean", "rejected", "crash"}

LinkTypeOK ==
    /\ ctl \in Seq(BOOLEAN)
    /\ st \in Seq(Words)
    /\ input \in Testcases \cup {NoTestcase}
    /\ trace_bits \subseteq Testcases \cup {NoTestcase}
    /\ proc \in [Pids -> {"free", "live", "zombie"}]
    /\ exit_status \in [Pids -> Statuses]
    /\ killed \subseteq Pids
    /\ srv \in {"up", "zombie", "reaped"}
    /\ srv_signal \in {"none", "SIGTERM", "SIGKILL"}
    /\ ran \in Seq(Testcases)
    /\ truth \in Outcomes

LinkInit ==
    /\ ctl = <<>>
    /\ st = <<>>
    /\ input = NoTestcase
    /\ trace_bits = {}
    /\ proc = [p \in Pids |-> "free"]
    /\ exit_status = [p \in Pids |-> "exited"]
    /\ killed = {}
    /\ srv = "up"
    /\ srv_signal = "none"
    /\ ran = <<>>
    /\ truth = "none"

Live(p) == proc[p] = "live"

\* kill(p, SIGKILL): a live process will die; -1 and ids that are no longer
\* in use are ESRCH, and a zombie stays a zombie.
Signaled(p) == IF p \in Pids /\ Live(p) THEN killed \cup {p} ELSE killed

\* Process p ends with wait status class s.
Terminate(p, s) ==
    /\ proc' = [proc EXCEPT ![p] = "zombie"]
    /\ exit_status' = [exit_status EXCEPT ![p] = s]
    /\ killed' = killed \ {p}

\* waitpid(srv, NULL, WNOHANG)
ReapServer == srv' = IF srv = "zombie" THEN "reaped" ELSE srv

\* kill(fsrv_pid, sig): a pending SIGKILL is not superseded.
SignalServer(sig) ==
    srv_signal' = IF srv = "up" /\ srv_signal # "SIGKILL" THEN sig ELSE srv_signal

\* The server process ends: its ends of the pipes close.
ServerEnds ==
    /\ srv' = "zombie"
    /\ srv_signal' = "none"

\* A pending signal takes effect on a child of the server.
ChildDies(p) ==
    /\ Live(p)
    /\ p \in killed
    /\ Terminate(p, "signaled")
    /\ UNCHANGED <<ctl, st, input, trace_bits, srv, srv_signal, ran, truth>>

=============================================================================

---------------------------- MODULE RunContract -----------------------------
(***************************************************************************)
(* What a fork server promises the fuzzer, whatever server it is: a test   *)
(* case that is submitted is executed at most once; the answer is about    *)
(* that execution, or is a timeout; and an answer comes, or the fuzzer     *)
(* ends.  UnicornAfl and CompilerRt are shown to implement it.             *)
(***************************************************************************)
EXTENDS Naturals

CONSTANTS Testcases, NoTestcase, Outcomes, Faults

VARIABLES
    phase,      \* "idle", "running" or "over"
    submitted,  \* the test case being run
    outcome,    \* what its execution did, "none" until it ends
    answer      \* the result of the last run

vars == <<phase, submitted, outcome, answer>>

Init ==
    /\ phase = "idle"
    /\ submitted = NoTestcase
    /\ outcome = "none"
    /\ answer = "none"

Submit ==
    /\ phase = "idle"
    /\ phase' = "running"
    /\ submitted' \in Testcases
    /\ outcome' = "none"
    /\ UNCHANGED answer

Execute ==
    /\ phase = "running"
    /\ outcome = "none"
    /\ outcome' \in Outcomes \ {"none"}
    /\ UNCHANGED <<phase, submitted, answer>>

\* A timeout may be reported whatever the execution did, since it may end
\* while it is being killed.
Truthful(a) ==
    \/ a = "FSRV_RUN_TMOUT"
    \/ a = "FSRV_RUN_CRASH" /\ outcome = "crash"
    \/ a = "FSRV_RUN_OK" /\ outcome \in {"clean", "rejected"}

Answer ==
    /\ phase = "running"
    /\ phase' = "idle"
    /\ answer' \in {a \in Faults : Truthful(a)}
    /\ UNCHANGED <<submitted, outcome>>

\* The user quits, or the fork server is lost.
Close ==
    /\ phase # "over"
    /\ phase' = "over"
    /\ submitted' = NoTestcase
    /\ outcome' = "none"
    /\ answer' = "none"

Next == Submit \/ Execute \/ Answer \/ Close

Spec == Init /\ [][Next]_vars /\ WF_vars(phase = "running" /\ (Answer \/ Close))

=============================================================================

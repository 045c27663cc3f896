-------------------------- MODULE UnicornAflProofs --------------------------
(***************************************************************************)
(* Theorems about UnicornAfl, for every set of test cases, of process ids  *)
(* and of translation blocks, and for every number of iterations: the      *)
(* protocol (IInv), and what an answer and the map say of a run (RunInv).  *)
(***************************************************************************)
EXTENDS UnicornAfl, SequenceTheorems, TLAPS

----------------------------------------------------------------------------
(***************************************************************************)
(* The fuzzer's side, AflClient: these facts hold whatever the fork server *)
(* is, and CompilerRtProofs starts with the same ones, up to ClientOver.   *)
(*                                                                         *)
(* Pipes.  At most two words are ever on their way, so that the steps on a *)
(* pipe are steps between sequences of length 0, 1 and 2.                  *)
(***************************************************************************)

\* A word written after another comes second.
LEMMA AppendToOne ==
    ASSUME NEW S, NEW x \in S, NEW y \in S
    PROVE  Append(<<x>>, y) = <<x, y>>
  <1> DEFINE s == <<x>>  t == <<x, y>>  a == Append(s, y)
  <1>1. s \in Seq(S) /\ t \in Seq(S) /\ Len(s) = 1 /\ Len(t) = 2
    OBVIOUS
  <1>2. a \in Seq(S) /\ Len(a) = 2
    BY <1>1
  <1>3. \A i \in 1..2 : a[i] = t[i]
    BY <1>1
  <1> HIDE DEF s, t, a
  <1>4. a = t
    BY <1>1, <1>2, <1>3, SeqEqual
  <1>5. QED
    BY <1>4 DEF a, s, t

\* The words that are in the pipes, as sequences.
LEMMA PipeFacts ==
    /\ \A x, y : <<x>> # <<>> /\ <<x, y>> # <<>> /\ <<x>> # <<x, y>>
    /\ \A x : Head(<<x>>) = x /\ Tail(<<x>>) = <<>>
    /\ \A x, y : Head(<<x, y>>) = x /\ Tail(<<x, y>>) = <<y>>
    /\ \A x, y : <<x>> = <<y>> => x = y
    /\ \A x : Append(<<>>, x) = <<x>>
  OBVIOUS

\* What is read from a pipe has the type of its words.
LEMMA HeadTailType ==
    ASSUME NEW S, NEW s \in Seq(S), s # <<>>
    PROVE  Head(s) \in S /\ Tail(s) \in Seq(S)
  OBVIOUS

\* What is written to it has too.
LEMMA AppendType ==
    ASSUME NEW S, NEW s \in Seq(S), NEW e \in S
    PROVE  Append(s, e) \in Seq(S)
  OBVIOUS

----------------------------------------------------------------------------
(***************************************************************************)
(* Type correctness of the client and of what it shares with the server.   *)
(***************************************************************************)

SharedTypeOK == LinkTypeOK /\ ClientTypeOK

\* The shared state is well typed at the start.
LEMMA SharedInit == LinkInit /\ ClientInit => SharedTypeOK
  <1> SUFFICES ASSUME LinkInit, ClientInit PROVE SharedTypeOK
    OBVIOUS
  <1>1. LinkTypeOK
    BY DEF LinkInit, LinkTypeOK, Words, Statuses, Outcomes
  <1>2. ClientTypeOK
    BY DEF ClientInit, ClientTypeOK, ClientPoints, Faults
  <1>3. QED
    BY <1>1, <1>2 DEF SharedTypeOK

\* Every step of the fuzzer preserves the types of the shared state.
LEMMA ClientStepType == SharedTypeOK /\ ClientStep => SharedTypeOK'
  <1> SUFFICES ASSUME SharedTypeOK, ClientStep PROVE SharedTypeOK'
    OBVIOUS
  <1> USE DEF SharedTypeOK, LinkTypeOK, ClientTypeOK, ClientPoints, Faults,
              Outcomes
  <1>1. ASSUME NEW t \in Testcases, WriteTestcase(t) PROVE SharedTypeOK'
    BY <1>1 DEF WriteTestcase
  <1>2. CASE SendRequest
    <2>1. ctl' \in Seq(BOOLEAN)
      <3>1. Append(ctl, last_run_timed_out) \in Seq(BOOLEAN)
        BY AppendType
      <3>2. ctl' \in {ctl, Append(ctl, last_run_timed_out)}
        BY <1>2 DEF SendRequest
      <3>3. QED
        BY <3>1, <3>2
    <2>2. LinkTypeOK'
      BY <1>2, <2>1 DEF SendRequest
    <2>3. ClientTypeOK'
      <3>1. CASE srv = "up"
        BY <1>2, <3>1 DEF SendRequest
      <3>2. CASE srv # "up"
        BY <1>2, <3>2 DEF SendRequest, GiveUp
      <3>3. QED
        BY <3>1, <3>2
    <2>4. QED
      BY <2>2, <2>3
  <1>3. CASE ReadChildPid
    <2>1. st' \in Seq(Words)
      <3>1. st' \in {st, Tail(st)} /\ (st = <<>> => st' = st)
        BY <1>3 DEF ReadChildPid
      <3>2. st # <<>> => Tail(st) \in Seq(Words)
        BY HeadTailType
      <3>3. QED
        BY <3>1, <3>2
    <2>2. LinkTypeOK'
      BY <1>3, <2>1 DEF ReadChildPid
    <2>3. ClientTypeOK'
      <3>1. CASE st # <<>> /\ Head(st) \in Pids
        BY <1>3, <3>1 DEF ReadChildPid
      <3>2. CASE ~(st # <<>> /\ Head(st) \in Pids)
        BY <1>3, <3>2 DEF ReadChildPid, GiveUp
      <3>3. QED
        BY <3>1, <3>2
    <2>4. QED
      BY <2>2, <2>3
  <1>4. CASE ReadStatus
    <2>1. st' \in Seq(Words)
      <3>1. st' \in {st, Tail(st)} /\ (st = <<>> => st' = st)
        BY <1>4 DEF ReadStatus
      <3>2. st # <<>> => Tail(st) \in Seq(Words)
        BY HeadTailType
      <3>3. QED
        BY <3>1, <3>2
    <2>2. LinkTypeOK'
      BY <1>4, <2>1 DEF ReadStatus
    <2>3. ClientTypeOK'
      <3>1. CASE stop_soon \/ st = <<>>
        BY <1>4, <3>1 DEF ReadStatus, GiveUp
      <3>2. CASE ~(stop_soon \/ st = <<>>)
        BY <1>4, <3>2 DEF ReadStatus, Conclude, Verdict
      <3>3. QED
        BY <3>1, <3>2
    <2>4. QED
      BY <2>2, <2>3
  <1>5. CASE TimerExpires
    BY <1>5 DEF TimerExpires, linkVars
  <1>6. CASE KillTimedOut
    BY <1>6 DEF KillTimedOut, Signaled
  <1>7. CASE DrainStatus
    <2>1. st' \in Seq(Words)
      <3>1. st' \in {st, Tail(st)} /\ (st = <<>> => st' = st)
        BY <1>7 DEF DrainStatus
      <3>2. st # <<>> => Tail(st) \in Seq(Words)
        BY HeadTailType
      <3>3. QED
        BY <3>1, <3>2
    <2>2. LinkTypeOK'
      BY <1>7, <2>1 DEF DrainStatus
    <2>3. ClientTypeOK'
      <3>1. CASE st = <<>>
        BY <1>7, <3>1 DEF DrainStatus, GiveUp
      <3>2. CASE ~(st = <<>>)
        BY <1>7, <3>2 DEF DrainStatus, Conclude, Verdict
      <3>3. QED
        BY <3>1, <3>2
    <2>4. QED
      BY <2>2, <2>3
  <1>8. CASE StopSignal
    BY <1>8 DEF StopSignal, Signaled, SignalServer
  <1>9. CASE StopHandlerReturns
    BY <1>9 DEF StopHandlerReturns, ReapServer
  <1>10. CASE KillForkserver
    BY <1>10 DEF KillForkserver, Signaled, SignalServer
  <1>11. CASE ForkserverKilled
    BY <1>11 DEF ForkserverKilled, ReapServer
  <1>12. CASE AtExit
    BY <1>12 DEF AtExit, SignalServer
  <1>13. QED
    BY <1>1, <1>2, <1>3, <1>4, <1>5, <1>6, <1>7, <1>8, <1>9, <1>10, <1>11,
       <1>12 DEF ClientStep

----------------------------------------------------------------------------
\* What the fuzzer cannot do to the server and its children.
LEMMA ClientFrame ==
    ASSUME ClientStep
    PROVE  /\ proc' = proc /\ exit_status' = exit_status
           /\ killed \subseteq killed'
           /\ srv' = "up" <=> srv = "up"
  BY DEF ClientStep, WriteTestcase, SendRequest, ReadChildPid, ReadStatus,
         TimerExpires, KillTimedOut, DrainStatus, StopSignal,
         StopHandlerReturns, KillForkserver, ForkserverKilled, AtExit,
         GiveUp, Conclude, Signaled, SignalServer, ReapServer, linkVars

----------------------------------------------------------------------------
(***************************************************************************)
(* The end of a session.                                                   *)
(***************************************************************************)

\* The fuzzer leaves for good when it was stopped or has given up, and only then.
OverInv ==
    /\ aborted => apc \in {"exiting", "exited"}
    /\ apc \in {"reap", "exiting", "exited"} => stop_soon \/ aborted

\* A session that is over stays over.
LEMMA ClientOver ==
    ASSUME ClientTypeOK, OverInv, ClientStep
    PROVE  OverInv' /\ (stop_soon \/ aborted => (stop_soon \/ aborted)')
  <1> USE DEF OverInv, Runs
  <1>0. stop_soon \in BOOLEAN /\ aborted \in BOOLEAN
    BY DEF ClientTypeOK
  <1>1. ASSUME NEW t \in Testcases, WriteTestcase(t)
        PROVE  OverInv' /\ (stop_soon \/ aborted => (stop_soon \/ aborted)')
    BY <1>1 DEF WriteTestcase
  <1>2. CASE SendRequest
    BY <1>0, <1>2 DEF SendRequest, GiveUp
  <1>3. CASE ReadChildPid
    BY <1>0, <1>3 DEF ReadChildPid, GiveUp
  <1>4. CASE ReadStatus
    BY <1>0, <1>4 DEF ReadStatus, GiveUp, Conclude
  <1>5. CASE TimerExpires \/ KillTimedOut
    BY <1>5 DEF TimerExpires, KillTimedOut
  <1>6. CASE DrainStatus
    BY <1>0, <1>6 DEF DrainStatus, GiveUp, Conclude
  <1>7. CASE \/ StopSignal \/ StopHandlerReturns \/ KillForkserver
             \/ ForkserverKilled \/ AtExit
    BY <1>7 DEF StopSignal, StopHandlerReturns, KillForkserver,
                ForkserverKilled, AtExit, ClientUp
  <1>8. QED
    BY <1>1, <1>2, <1>3, <1>4, <1>5, <1>6, <1>7 DEF ClientStep

----------------------------------------------------------------------------
(***************************************************************************)
(* The inductive invariant, first half: the protocol.  What is in the four *)
(* kinds of pipes and which processes exist at every point of the server's *)
(* loop, of the child's and of the fuzzer's.                               *)
(***************************************************************************)

\* Nobody is changing the map: every child waits for a wake-up word.
Quiet == \A p \in Pids : Live(p) => cpc[p] = "next" /\ parent_pipe[p] = 0

\* A signal is on its way to every child that is left.
AllDoomed == \A p \in Pids : Live(p) => p \in killed

AllFree == \A p \in Pids : proc[p] = "free"

\* The server's child has ended its round, and the server knows.
Parked ==
    /\ child_pid \in Pids
    /\ proc[child_pid] # "free"
    /\ cpc[child_pid] = "next"
    /\ parent_pipe[child_pid] = 0
    /\ child_pipe[child_pid] = <<>>

\* The server's books: it has one child at most, and child_ret says whether it
\* can be continued.
BooksInv ==
    srv = "up" =>
        /\ spc # "returned"
        /\ \A p \in Pids : proc[p] # "free" => p = child_pid /\ spc # "fork"
        /\ spc \in {"reap", "resume", "write_pid", "requests", "read_pc", "waitpid"} =>
             child_pid \in Pids /\ proc[child_pid] # "free"
        /\ spc = "waitpid" => ~Live(child_pid)
        /\ spc = "reap" => AllDoomed /\ Parked
        /\ spc \in {"fork", "reap", "waitpid"} => child_ret = "EXITED"
        /\ spc \in {"read_ctl", "write_status"} =>
             IF child_ret = "EXITED" THEN AllFree ELSE Parked
        /\ spc = "resume" => Parked

\* A process id that is not in use has left nothing behind.
FreshInv ==
    \A p \in Pids : proc[p] = "free" =>
        /\ cpc[p] = "start"
        /\ iter[p] = 0
        /\ crash_found[p] = FALSE
        /\ child_pipe[p] = <<>>
        /\ parent_pipe[p] = 0

\* The counter of a child stays within its cycle.
IterInv ==
    persistent_iters # 0 => \A p \in Pids :
        /\ iter[p] + 1 <= persistent_iters
        /\ cpc[p] = "next" => iter[p] + 1 < persistent_iters

Rounds == {"NEXT", "FOUND_CRASH"}

\* The last word that was written to a pipe.
Final(s) == s[Len(s)]

\* Each request is followed by its block, and each block by no other.
Alternates(s) ==
    \A i \in 1..(Len(s) - 1) :
        \/ s[i] = "TSL_REQUEST" /\ s[i + 1] \in TBs
        \/ s[i] \in TBs /\ s[i + 1] \notin TBs

\* The words in the pipe between the point of the server and that of child p.
InStep(p) ==
    /\ Alternates(child_pipe[p])
    /\ child_pipe[p] # <<>> => (Head(child_pipe[p]) \in TBs <=> spc = "read_pc")
    /\ cpc[p] = "request_tb" =>
         IF child_pipe[p] = <<>> THEN spc = "read_pc"
                                 ELSE Final(child_pipe[p]) = "TSL_REQUEST"
    /\ cpc[p] \in {"start", "place", "emulate", "end_of_loop"} =>
         IF child_pipe[p] = <<>> THEN spc # "read_pc"
                                 ELSE Final(child_pipe[p]) \in TBs
    /\ cpc[p] = "next" =>
         IF child_pipe[p] = <<>> THEN spc # "read_pc" /\ parent_pipe[p] = 1
                                 ELSE Final(child_pipe[p]) \in Rounds
    /\ parent_pipe[p] = IF cpc[p] = "next" /\ child_pipe[p] = <<>> THEN 1 ELSE 0

\* Server and child agree on where they are in the conversation.
ConversationInv ==
    srv = "up" /\ spc \in {"write_pid", "requests", "read_pc"} => InStep(child_pid)

EndStatuses == {"exited", "signaled"}

\* No child is ever stopped, so no status says so.
NoStops ==
    /\ status \in EndStatuses
    /\ \A p \in Pids : exit_status[p] \in EndStatuses

\* Between two runs; once the fuzzer is quitting there is no further request.
BetweenRuns ==
    /\ apc = "ready" \/ (apc = "idle" /\ ~stop_soon) =>
         /\ st = <<>>
         /\ srv = "up" => ctl = <<>> /\ spc = "read_ctl"
         /\ fsrv_child_pid = NoPid
         /\ ~stop_soon => Quiet
    /\ apc \in {"idle", "reap"} /\ srv = "up" =>
         ctl = <<>> /\ spc \notin {"reap", "fork", "resume", "write_pid"}

\* From the request to the pid: the request is unread, or being served, or the
\* pid has been written, or the pid and the status have.
AwaitingPid ==
    apc = "read_pid" =>
        /\ fsrv_child_pid = NoPid
        /\ \/ /\ st = <<>>
              /\ srv = "up" => \/ ctl # <<>>
                               \/ spc \in {"reap", "fork", "resume", "write_pid"}
           \/ /\ \E w \in Pids : st = <<w>> /\ (srv = "up" => w = child_pid)
              /\ srv = "up" =>
                   ctl = <<>> /\ spc \in {"requests", "read_pc", "waitpid", "write_status"}
           \/ /\ \E w \in Pids, s \in EndStatuses :
                   st = <<w, s>> /\ (srv = "up" => w = child_pid)
              /\ Quiet
              /\ srv = "up" => ctl = <<>> /\ spc = "read_ctl"

\* From the pid to the status: the server listens to the child, or has told.
AwaitingStatus ==
    apc \in {"wait", "expired", "drain"} =>
        /\ srv = "up" /\ apc # "drain" => fsrv_child_pid = child_pid
        /\ srv = "up" => ctl = <<>>
        /\ \/ /\ st = <<>>
              /\ srv = "up" => spc \in {"requests", "read_pc", "waitpid", "write_status"}
           \/ /\ \E s \in EndStatuses : st = <<s>>
              /\ Quiet
              /\ srv = "up" => spc = "read_ctl"

\* A request is read before anything else happens, and one that says that the
\* last run timed out finds a child that will die.
RequestInv ==
    srv = "up" =>
        /\ ctl # <<>> =>
             /\ spc = "read_ctl"
             /\ \E w \in BOOLEAN : ctl = <<w>> /\ (w => AllDoomed)
        /\ last_run_timed_out =>
             /\ ctl = <<>>
             /\ spc \in {"requests", "read_pc", "waitpid", "write_status", "read_ctl"}
             /\ AllDoomed

\* Nothing happens before the first test case is written.
InputInv ==
    input = NoTestcase =>
        /\ AllFree
        /\ ctl = <<>>
        /\ spc \in {"read_ctl", "returned"}
        /\ apc \in {"idle", "reap", "exiting", "exited"}

\* The fuzzer may still be interested in the child: its run has not timed out,
\* or the server has been told that it has.
Wanted ==
    /\ srv = "up"
    /\ ~last_run_timed_out
    /\ ctl # <<TRUE>>
    /\ spc # "reap"
    /\ \/ apc \in {"ready", "read_pid"}
       \/ ~stop_soon /\ apc \notin {"reap", "exiting", "exited"}

\* Only a child that is not wanted is killed, and only such a child has died
\* while it was waiting for a wake-up word.
KillInv ==
    /\ \A p \in killed : Live(p)
    /\ Wanted =>
         /\ killed = {}
         /\ \A p \in Pids : proc[p] = "zombie" => cpc[p] # "next"

LinkInv ==
    /\ NoStops
    /\ BetweenRuns
    /\ AwaitingPid
    /\ AwaitingStatus
    /\ RequestInv
    /\ InputInv

IInv ==
    /\ TypeOK
    /\ BooksInv
    /\ FreshInv
    /\ IterInv
    /\ ConversationInv
    /\ LinkInv
    /\ KillInv

----------------------------------------------------------------------------
(***************************************************************************)
(* The inductive invariant, second half: whose execution an answer is      *)
(* about.  The history of the run (ran, truth, the map) is followed        *)
(* through the points of the child that serves it, the message it leaves   *)
(* in its pipe or the wait status it ends with, the status that the server *)
(* holds, and the word in the pipe to the fuzzer.                          *)
(***************************************************************************)

\* Nothing has been executed for this request.
Untouched == ran = <<>> /\ truth = "none" /\ trace_bits = {}

\* The map is that of the test case, and complete once it has been executed.
Covered ==
    /\ trace_bits \subseteq {input}
    /\ truth \in {"clean", "crash"} => trace_bits = {input}

\* What the wait status s says of the run, unless the run has timed out.
Told(s) ==
    /\ Covered
    /\ ~last_run_timed_out =>
         /\ ran = <<input>>
         /\ s = "signaled" => truth = "crash"
         /\ s # "signaled" => \/ truth \in {"clean", "rejected"}
                              \/ truth = "crash" /\ last_iteration

\* In the last iteration of a cycle of several, last_iteration says so.
Marked(p) ==
    persistent_iters > 1 /\ iter[p] + 1 = persistent_iters => last_iteration

\* How far the child p has got with the test case.
Progress(p) ==
    /\ Live(p) /\ cpc[p] \in {"start", "place"} =>
         Untouched /\ crash_found[p] = FALSE
    /\ Live(p) /\ cpc[p] \in {"emulate", "request_tb"} =>
         /\ ran = <<input>> /\ tc[p] = input /\ truth = "none"
         /\ trace_bits \subseteq {input}
         /\ crash_found[p] = FALSE
         /\ Marked(p)
    /\ Live(p) /\ cpc[p] = "end_of_loop" =>
         /\ ran = <<input>> /\ truth # "none" /\ Covered
         /\ crash_found[p] <=> truth = "crash"
         /\ truth = "crash" => persistent_iters # 1
         /\ Marked(p)
    /\ Live(p) /\ cpc[p] = "next" /\ child_pipe[p] = <<>> => Untouched
    /\ Live(p) /\ cpc[p] = "next" /\ child_pipe[p] # <<>> =>
         /\ ran = <<input>> /\ truth # "none" /\ Covered
         /\ Final(child_pipe[p]) = "FOUND_CRASH" <=> truth = "crash"
    /\ proc[p] = "zombie" =>
         /\ Told(exit_status[p])
         /\ cpc[p] = "next" => last_run_timed_out

\* A run is under way.
Busy == apc \in {"read_pid", "wait", "expired", "drain"} /\ ~stop_soon

\* Nothing has been executed for a request that has not been served yet.
NotStarted ==
    /\ Busy /\ srv = "up" /\ (ctl # <<>> \/ spc \in {"reap", "fork", "resume"}) =>
         Untouched
    /\ apc = "ready" /\ ~stop_soon => ran = <<>> /\ truth = "none"

\* While the child is at it.
UnderWay ==
    Busy /\ srv = "up" /\ spc \in {"write_pid", "requests", "read_pc", "waitpid"} =>
        \A p \in Pids : proc[p] # "free" => Progress(p)

\* The status, from the end of the round to the answer.
StatusTold ==
    /\ Busy /\ srv = "up" /\ spc = "write_status" => Told(status)
    /\ Busy /\ apc = "read_pid" => \A w, s \in Words : st = <<w, s>> => Told(s)
    /\ Busy /\ apc # "read_pid" => \A s \in Words : st = <<s>> => Told(s)

RunInv ==
    /\ NotStarted
    /\ UnderWay
    /\ StatusTold
    /\ VerdictMatchesRun
    /\ CoverageMatchesRun

----------------------------------------------------------------------------
(***************************************************************************)
(* Type correctness.                                                       *)
(***************************************************************************)

ServerTypeOK ==
    /\ spc \in ServerPoints
    /\ child_pid \in Pids \cup {NoPid}
    /\ child_ret \in ChildRets
    /\ was_killed \in BOOLEAN
    /\ status \in Statuses
    /\ tb_cache \subseteq TBs
    /\ server_ret \in {"none", "FINISHED", "ERROR"}

ChildTypeOK ==
    /\ cpc \in [Pids -> ChildPoints]
    /\ tc \in [Pids -> Testcases \cup {NoTestcase}]
    /\ iter \in [Pids -> Nat]
    /\ crash_found \in [Pids -> BOOLEAN]
    /\ child_tbs \in [Pids -> SUBSET TBs]
    /\ child_pipe \in [Pids -> Seq(Messages)]
    /\ parent_pipe \in [Pids -> Nat]

ConstTypeOK ==
    /\ persistent_iters \in PersistentIters
    /\ last_iteration \in BOOLEAN

ProcTypeOK ==
    /\ proc \in [Pids -> {"free", "live", "zombie"}]
    /\ exit_status \in [Pids -> Statuses]
    /\ killed \subseteq Pids

\* The type invariant, in the parts that the steps disturb separately.
LEMMA TypeParts ==
    TypeOK <=> SharedTypeOK /\ ServerTypeOK /\ ChildTypeOK /\ ConstTypeOK
  BY DEF TypeOK, SharedTypeOK, ServerTypeOK, ChildTypeOK, ConstTypeOK

\* The state after the handshake is well typed.
LEMMA InitType == Init => TypeOK
  <1> SUFFICES ASSUME Init PROVE TypeOK
    OBVIOUS
  <1>1. SharedTypeOK
    BY SharedInit DEF Init
  <1>2. ServerTypeOK
    BY DEF Init, ServerTypeOK, ServerPoints, Statuses, ChildRets
  <1>3. ChildTypeOK
    <2>1. <<>> \in Seq(Messages)
      OBVIOUS
    <2>2. QED
      BY <2>1 DEF Init, ChildTypeOK, ChildPoints
  <1>4. ConstTypeOK
    BY DEF Init, ConstTypeOK
  <1>5. QED
    BY <1>1, <1>2, <1>3, <1>4, TypeParts

\* A process that the kernel forgets leaves well-typed tables behind.
LEMMA ForgetType ==
    ASSUME ProcTypeOK, ChildTypeOK, NEW p, Forget(p)
    PROVE  /\ proc' \in [Pids -> {"free", "live", "zombie"}]
           /\ exit_status' \in [Pids -> Statuses]
           /\ ChildTypeOK'
  <1> USE DEF ProcTypeOK, ChildTypeOK, Forget
  <1>1. /\ proc' \in [Pids -> {"free", "live", "zombie"}]
        /\ exit_status' \in [Pids -> Statuses]
    BY DEF Statuses
  <1>2. /\ cpc' \in [Pids -> ChildPoints]
        /\ tc' \in [Pids -> Testcases \cup {NoTestcase}]
        /\ iter' \in [Pids -> Nat]
        /\ crash_found' \in [Pids -> BOOLEAN]
        /\ child_tbs' \in [Pids -> SUBSET TBs]
        /\ parent_pipe' \in [Pids -> Nat]
    BY DEF ChildPoints
  <1>3. child_pipe' \in [Pids -> Seq(Messages)]
    <2>1. <<>> \in Seq(Messages)
      OBVIOUS
    <2>2. QED
      BY <2>1
  <1>4. QED
    BY <1>1, <1>2, <1>3

\* A process that ends leaves well-typed tables behind.
LEMMA TerminateType ==
    ASSUME ProcTypeOK, NEW p, NEW s \in Statuses, Terminate(p, s)
    PROVE  ProcTypeOK'
  BY DEF ProcTypeOK, Terminate

\* A word taken from a pipe of a child, or added to it, leaves the pipes well
\* typed.
LEMMA PipeType ==
    ASSUME ChildTypeOK, NEW p \in Pids
    PROVE  /\ child_pipe[p] # <<>> =>
                /\ Head(child_pipe[p]) \in Messages
                /\ [child_pipe EXCEPT ![p] = Tail(@)] \in [Pids -> Seq(Messages)]
           /\ \A m \in Messages :
                [child_pipe EXCEPT ![p] = Append(@, m)] \in [Pids -> Seq(Messages)]
  <1>1. child_pipe[p] \in Seq(Messages) /\ child_pipe \in [Pids -> Seq(Messages)]
    BY DEF ChildTypeOK
  <1>2. ASSUME child_pipe[p] # <<>>
        PROVE  /\ Head(child_pipe[p]) \in Messages
               /\ [child_pipe EXCEPT ![p] = Tail(@)] \in [Pids -> Seq(Messages)]
    <2>1. Head(child_pipe[p]) \in Messages /\ Tail(child_pipe[p]) \in Seq(Messages)
      BY <1>1, <1>2, HeadTailType
    <2>2. QED
      BY <1>1, <2>1
  <1>3. ASSUME NEW m \in Messages
        PROVE  [child_pipe EXCEPT ![p] = Append(@, m)] \in [Pids -> Seq(Messages)]
    <2>1. Append(child_pipe[p], m) \in Seq(Messages)
      BY <1>1, AppendType
    <2>2. QED
      BY <1>1, <2>1
  <1>4. QED
    BY <1>2, <1>3

\* A word of the protocol written to the status pipe, or not.
LEMMA WriteWordType ==
    ASSUME TypeOK, NEW word \in Words, NEW next \in ServerPoints,
           WriteWord(word, next)
    PROVE  /\ st' \in Seq(Words)
           /\ spc' \in ServerPoints
           /\ srv' \in {"up", "zombie", "reaped"}
           /\ srv_signal' \in {"none", "SIGTERM", "SIGKILL"}
           /\ server_ret' \in {"none", "FINISHED", "ERROR"}
  <1>0. /\ st \in Seq(Words)
        /\ srv \in {"up", "zombie", "reaped"}
        /\ srv_signal \in {"none", "SIGTERM", "SIGKILL"}
        /\ server_ret \in {"none", "FINISHED", "ERROR"}
    BY DEF TypeOK, LinkTypeOK
  <1>1. CASE ClientUp
    <2>1. /\ st' = Append(st, word) /\ spc' = next
          /\ UNCHANGED <<srv, srv_signal, server_ret>>
      BY <1>1 DEF WriteWord
    <2>2. QED
      BY <1>0, <2>1, AppendType
  <1>2. CASE ~ClientUp
    BY <1>0, <1>2 DEF WriteWord, Return, ServerEnds, ServerPoints
  <1>3. QED
    BY <1>1, <1>2

\* The parts of TypeOK that a step of the server or of a child can change.
PartsOK ==
    /\ ctl \in Seq(BOOLEAN)
    /\ st \in Seq(Words)
    /\ input \in Testcases \cup {NoTestcase}
    /\ trace_bits \subseteq Testcases \cup {NoTestcase}
    /\ ProcTypeOK
    /\ srv \in {"up", "zombie", "reaped"}
    /\ srv_signal \in {"none", "SIGTERM", "SIGKILL"}
    /\ ran \in Seq(Testcases)
    /\ truth \in Outcomes
    /\ ClientTypeOK
    /\ ServerTypeOK
    /\ ChildTypeOK
    /\ ConstTypeOK

LEMMA PartsType == (TypeOK <=> PartsOK) /\ (TypeOK' <=> PartsOK')
  BY DEF TypeOK, LinkTypeOK, ProcTypeOK, ServerTypeOK, ChildTypeOK, ConstTypeOK,
         PartsOK

\* Every step of the fork server preserves the types; the pid that it writes
\* is one because child_pid has been assigned by then (BooksInv).
LEMMA ServerStepType == TypeOK /\ BooksInv /\ ServerStep => TypeOK'
  <1> SUFFICES ASSUME TypeOK, BooksInv, ServerStep PROVE PartsOK'
    BY PartsType
  <1>0. PartsOK
    BY PartsType
  <1> USE DEF PartsOK
  <1>a. UNCHANGED clientVars => ClientTypeOK'
    BY <1>0 DEF ClientTypeOK, clientVars
  <1>b. UNCHANGED childVars => ChildTypeOK'
    BY <1>0 DEF ChildTypeOK, childVars
  <1>c. UNCHANGED <<constVars, last_iteration>> => ConstTypeOK'
    BY <1>0 DEF ConstTypeOK, constVars
  <1>d. UNCHANGED <<proc, exit_status, killed>> => ProcTypeOK'
    BY <1>0 DEF ProcTypeOK
  <1> HIDE DEF ProcTypeOK, ClientTypeOK, ServerTypeOK, ChildTypeOK, ConstTypeOK
  <1>1. CASE ReadRequest
    <2>1. CASE ctl # <<>>
      <3>1. ctl' \in Seq(BOOLEAN) /\ was_killed' \in BOOLEAN
        BY <1>0, <1>1, <2>1, HeadTailType DEF ReadRequest
      <3>2. spc' \in ServerPoints /\ child_ret' \in ChildRets
        BY <1>0, <1>1, <2>1
           DEF ReadRequest, AfterRequest, ServerPoints, ChildRets, ServerTypeOK
      <3>3. ServerTypeOK'
        BY <1>0, <1>1, <2>1, <3>1, <3>2 DEF ReadRequest, ServerTypeOK
      <3>4. QED
        BY <1>0, <1>a, <1>b, <1>c, <1>d, <1>1, <2>1, <3>1, <3>3
           DEF ReadRequest
    <2>2. CASE ctl = <<>>
      <3>1. ServerTypeOK' /\ srv' \in {"up", "zombie", "reaped"}
            /\ srv_signal' \in {"none", "SIGTERM", "SIGKILL"}
        BY <1>0, <1>1, <2>2
           DEF ReadRequest, Return, ServerEnds, ServerTypeOK, ServerPoints
      <3>2. QED
        BY <1>0, <1>a, <1>b, <1>c, <1>d, <1>1, <2>2, <3>1
           DEF ReadRequest
    <2>3. QED
      BY <2>1, <2>2
  <1>2. CASE WriteOffChild
    <2>1. /\ ServerTypeOK' /\ srv' \in {"up", "zombie", "reaped"}
          /\ srv_signal' \in {"none", "SIGTERM", "SIGKILL"}
      BY <1>0, <1>2
         DEF WriteOffChild, Return, ServerEnds, ServerTypeOK, ServerPoints
    <2>2. ProcTypeOK' /\ ChildTypeOK'
      <3>1. CASE child_pid \in Pids /\ proc[child_pid] = "zombie"
        BY <1>0, <1>2, <3>1, ForgetType DEF WriteOffChild, ProcTypeOK
      <3>2. CASE ~(child_pid \in Pids /\ proc[child_pid] = "zombie")
        BY <1>2, <1>b, <1>d, <3>2 DEF WriteOffChild
      <3>3. QED
        BY <3>1, <3>2
    <2>3. QED
      BY <1>0, <1>a, <1>c, <1>2, <2>1, <2>2 DEF WriteOffChild
  <1>3. ASSUME NEW p \in Pids, Fork(p) PROVE PartsOK'
    <2>1. ServerTypeOK'
      BY <1>0, <1>3 DEF Fork, ServerTypeOK, ServerPoints
    <2>2. ProcTypeOK' /\ ChildTypeOK'
      BY <1>0, <1>3 DEF Fork, ProcTypeOK, ChildTypeOK, ServerTypeOK
    <2>3. QED
      BY <1>0, <1>a, <1>c, <1>3, <2>1, <2>2 DEF Fork
  <1>4. CASE ForkFails
    <2>1. /\ ServerTypeOK' /\ srv' \in {"up", "zombie", "reaped"}
          /\ srv_signal' \in {"none", "SIGTERM", "SIGKILL"}
      BY <1>0, <1>4 DEF ForkFails, Return, ServerEnds, ServerTypeOK, ServerPoints
    <2>2. QED
      BY <1>0, <1>a, <1>b, <1>c, <1>d, <1>4, <2>1 DEF ForkFails
  <1>5. CASE ResumeChild
    <2>1. /\ ServerTypeOK' /\ srv' \in {"up", "zombie", "reaped"}
          /\ srv_signal' \in {"none", "SIGTERM", "SIGKILL"}
      BY <1>0, <1>5
         DEF ResumeChild, Return, ServerEnds, ServerTypeOK, ServerPoints
    <2>2. ChildTypeOK'
      <3>1. parent_pipe' \in [Pids -> Nat]
        <4>1. parent_pipe \in [Pids -> Nat]
          BY <1>0 DEF ChildTypeOK
        <4>2. CASE child_pid \in Pids
          <5>1. parent_pipe[child_pid] + 1 \in Nat
            BY <4>1, <4>2
          <5>2. \/ parent_pipe' = parent_pipe
                \/ parent_pipe' = [parent_pipe EXCEPT ![child_pid] = parent_pipe[child_pid] + 1]
            BY <1>5 DEF ResumeChild
          <5>3. QED
            BY <4>1, <5>1, <5>2
        <4>3. CASE child_pid \notin Pids
          BY <1>5, <4>1, <4>3 DEF ResumeChild
        <4>4. QED
          BY <4>2, <4>3
      <3>2. UNCHANGED <<cpc, tc, iter, crash_found, child_tbs, child_pipe>>
        BY <1>5 DEF ResumeChild
      <3>3. QED
        BY <1>0, <3>1, <3>2 DEF ChildTypeOK
    <2>3. QED
      BY <1>0, <1>a, <1>c, <1>d, <1>5, <2>1, <2>2 DEF ResumeChild
  <1>6. CASE WritePid
    <2>1. child_pid \in Words
      BY <1>6 DEF WritePid, At, BooksInv, Words
    <2>2. /\ st' \in Seq(Words)
          /\ spc' \in ServerPoints
          /\ srv' \in {"up", "zombie", "reaped"}
          /\ srv_signal' \in {"none", "SIGTERM", "SIGKILL"}
          /\ server_ret' \in {"none", "FINISHED", "ERROR"}
      BY <1>6, <2>1, WriteWordType DEF WritePid, ServerPoints
    <2>3. ServerTypeOK'
      BY <1>0, <1>6, <2>2 DEF WritePid, ServerTypeOK
    <2>4. QED
      BY <1>0, <1>a, <1>b, <1>c, <1>d, <1>6, <2>2, <2>3 DEF WritePid
  <1>7. CASE HandleMessage
    <2>0. child_pid \in Pids
      BY <1>7 DEF HandleMessage, At, BooksInv
    <2>1. ServerTypeOK'
      <3>1. CASE child_pipe[child_pid] = <<>>
        BY <1>0, <1>7, <3>1
           DEF HandleMessage, ServerTypeOK, ServerPoints, ChildRets
      <3>2. CASE child_pipe[child_pid] # <<>>
        BY <1>0, <1>7, <3>2
           DEF HandleMessage, ServerTypeOK, ServerPoints, ChildRets, RoundOver,
               RoundStatus, AfterMessage, Statuses
      <3>3. QED
        BY <3>1, <3>2
    <2>2. child_pipe' \in [Pids -> Seq(Messages)]
      <3>1. \/ child_pipe' = child_pipe
            \/ /\ child_pipe[child_pid] # <<>>
               /\ child_pipe' = [child_pipe EXCEPT ![child_pid] = Tail(@)]
        BY <1>7 DEF HandleMessage
      <3>2. QED
        BY <1>0, <2>0, <3>1, PipeType DEF ChildTypeOK
    <2>3. ChildTypeOK'
      BY <1>0, <1>7, <2>2 DEF HandleMessage, ChildTypeOK
    <2>4. QED
      BY <1>0, <1>a, <1>c, <1>d, <1>7, <2>1, <2>3
         DEF HandleMessage, linkVars
  <1>8. CASE CacheBlock
    <2>0. child_pid \in Pids
      BY <1>8 DEF CacheBlock, At, BooksInv
    <2>1. ServerTypeOK'
      BY <1>0, <1>8 DEF CacheBlock, ServerTypeOK, ServerPoints, ChildRets
    <2>2. child_pipe' \in [Pids -> Seq(Messages)]
      <3>1. \/ child_pipe' = child_pipe
            \/ /\ child_pipe[child_pid] # <<>>
               /\ child_pipe' = [child_pipe EXCEPT ![child_pid] = Tail(@)]
        BY <1>8 DEF CacheBlock
      <3>2. QED
        BY <1>0, <2>0, <3>1, PipeType DEF ChildTypeOK
    <2>3. ChildTypeOK'
      BY <1>0, <1>8, <2>2 DEF CacheBlock, ChildTypeOK
    <2>4. QED
      BY <1>0, <1>a, <1>c, <1>d, <1>8, <2>1, <2>3
         DEF CacheBlock, linkVars
  <1>9. CASE CollectChild
    <2>1. /\ ServerTypeOK' /\ srv' \in {"up", "zombie", "reaped"}
          /\ srv_signal' \in {"none", "SIGTERM", "SIGKILL"}
      BY <1>0, <1>9
         DEF CollectChild, Return, ServerEnds, ServerTypeOK, ServerPoints,
             ProcTypeOK
    <2>2. ProcTypeOK' /\ ChildTypeOK'
      <3>1. CASE child_pid \in Pids /\ proc[child_pid] = "zombie"
        BY <1>0, <1>9, <3>1, ForgetType DEF CollectChild, ProcTypeOK
      <3>2. CASE ~(child_pid \in Pids /\ proc[child_pid] = "zombie")
        BY <1>9, <1>b, <1>d, <3>2 DEF CollectChild
      <3>3. QED
        BY <3>1, <3>2
    <2>3. QED
      BY <1>0, <1>a, <1>c, <1>9, <2>1, <2>2 DEF CollectChild
  <1>10. CASE RelayStatus
    <2>1. status \in Words
      BY <1>0 DEF ServerTypeOK, Words
    <2>2. /\ st' \in Seq(Words)
          /\ spc' \in ServerPoints
          /\ srv' \in {"up", "zombie", "reaped"}
          /\ srv_signal' \in {"none", "SIGTERM", "SIGKILL"}
          /\ server_ret' \in {"none", "FINISHED", "ERROR"}
      BY <1>10, <2>1, WriteWordType DEF RelayStatus, ServerPoints
    <2>3. ServerTypeOK'
      BY <1>0, <1>10, <2>2 DEF RelayStatus, ServerTypeOK
    <2>4. QED
      BY <1>0, <1>a, <1>b, <1>c, <1>d, <1>10, <2>2, <2>3
         DEF RelayStatus
  <1>11. QED
    BY <1>1, <1>2, <1>3, <1>4, <1>5, <1>6, <1>7, <1>8, <1>9, <1>10 DEF ServerStep

\* The steps of a child leave the server and the fuzzer alone.
LEMMA ChildFrame ==
    ASSUME NEW p \in Pids, ChildStep(p)
    PROVE  UNCHANGED <<ctl, st, input, srv, srv_signal, clientVars, serverVars,
                       constVars>>
  BY DEF ChildStep, StartChild, PlaceInput, ExecuteBlock, RequestBlock,
         NameBlock, FinishClean, FinishCrash, EmulatorCrashes, ExitLoop,
         ReportRound, NextRound

\* Every step of a child preserves the types.  It places an input only when
\* there is one.
LEMMA ChildStepType ==
    ASSUME TypeOK, NEW p \in Pids, ChildStep(p), input \in Testcases
    PROVE  TypeOK'
  <1> SUFFICES PartsOK'
    BY PartsType
  <1>0. PartsOK
    BY PartsType
  <1> USE DEF PartsOK
  <1>a. UNCHANGED <<ctl, st, input, srv, srv_signal, clientVars, serverVars,
                    constVars>>
    BY ChildFrame
  <1>b. ClientTypeOK' /\ ServerTypeOK'
    BY <1>0, <1>a DEF ClientTypeOK, ServerTypeOK, clientVars, serverVars
  <1>c. UNCHANGED last_iteration => ConstTypeOK'
    BY <1>0, <1>a DEF ConstTypeOK, constVars
  <1>d. UNCHANGED <<proc, exit_status, killed>> => ProcTypeOK'
    BY <1>0 DEF ProcTypeOK
  <1>e. \A s \in Statuses : Terminate(p, s) => ProcTypeOK'
    BY <1>0, TerminateType
  <1>f. /\ cpc \in [Pids -> ChildPoints]
        /\ tc \in [Pids -> Testcases \cup {NoTestcase}]
        /\ iter \in [Pids -> Nat]
        /\ crash_found \in [Pids -> BOOLEAN]
        /\ child_tbs \in [Pids -> SUBSET TBs]
        /\ child_pipe \in [Pids -> Seq(Messages)]
        /\ parent_pipe \in [Pids -> Nat]
    BY <1>0 DEF ChildTypeOK
  <1>g. \A pc \in ChildPoints : [cpc EXCEPT ![p] = pc] \in [Pids -> ChildPoints]
    BY <1>f
  <1>h. Touched(p) \subseteq Testcases \cup {NoTestcase}
    BY <1>0, <1>f DEF Touched
  <1>i. {"exited", "signaled"} \subseteq Statuses /\ {"none", "clean", "rejected", "crash"} = Outcomes
    BY DEF Statuses, Outcomes
  <1>j. UNCHANGED childVars => ChildTypeOK'
    BY <1>0 DEF ChildTypeOK, childVars
  <1> HIDE DEF ProcTypeOK, ClientTypeOK, ServerTypeOK, ChildTypeOK, ConstTypeOK,
               Statuses, Outcomes, Touched
  <1>1. CASE StartChild(p)
    BY <1>0, <1>a, <1>b, <1>c, <1>d, <1>f, <1>g, <1>1
       DEF StartChild, Goto, ChildTypeOK, ChildPoints
  <1>2. ASSUME NEW accepted \in BOOLEAN, PlaceInput(p, accepted) PROVE PartsOK'
    <2>1. ran' \in Seq(Testcases)
      BY <1>0, <1>2, AppendType DEF PlaceInput
    <2>2. truth' \in Outcomes
      BY <1>0, <1>i, <1>2 DEF PlaceInput
    <2>3. ConstTypeOK'
      BY <1>0, <1>a, <1>2 DEF PlaceInput, ConstTypeOK, constVars
    <2>4. ChildTypeOK'
      BY <1>f, <1>g, <1>2 DEF PlaceInput, Goto, ChildTypeOK, ChildPoints
    <2>5. QED
      BY <1>0, <1>a, <1>b, <1>d, <1>2, <2>1, <2>2, <2>3, <2>4 DEF PlaceInput
  <1>3. CASE ExecuteBlock(p)
    BY <1>0, <1>a, <1>b, <1>c, <1>d, <1>h, <1>j, <1>3 DEF ExecuteBlock
  <1>4. CASE RequestBlock(p)
    <2>1. ProcTypeOK'
      BY <1>d, <1>e, <1>i, <1>4 DEF RequestBlock, BrokenPipe
    <2>2. "TSL_REQUEST" \in Messages
      BY DEF Messages
    <2>3. child_pipe' \in [Pids -> Seq(Messages)]
      <3>1. \/ child_pipe' = child_pipe
            \/ child_pipe' = [child_pipe EXCEPT ![p] = Append(@, "TSL_REQUEST")]
        BY <1>4 DEF RequestBlock, BrokenPipe
      <3>2. [child_pipe EXCEPT ![p] = Append(@, "TSL_REQUEST")] \in [Pids -> Seq(Messages)]
        BY <1>0, <2>2, PipeType
      <3>3. QED
        BY <1>f, <3>1, <3>2
    <2>4. ChildTypeOK'
      BY <1>f, <1>g, <1>4, <2>3
         DEF RequestBlock, BrokenPipe, Goto, ChildTypeOK, ChildPoints
    <2>5. QED
      BY <1>0, <1>a, <1>b, <1>c, <1>4, <2>1, <2>4 DEF RequestBlock
  <1>5. ASSUME NEW b \in TBs, NameBlock(p, b) PROVE PartsOK'
    <2>1. ProcTypeOK'
      BY <1>d, <1>e, <1>i, <1>5 DEF NameBlock, BrokenPipe
    <2>2. b \in Messages
      BY DEF Messages
    <2>3. child_pipe' \in [Pids -> Seq(Messages)]
      <3>1. \/ child_pipe' = child_pipe
            \/ child_pipe' = [child_pipe EXCEPT ![p] = Append(@, b)]
        BY <1>5 DEF NameBlock, BrokenPipe
      <3>2. [child_pipe EXCEPT ![p] = Append(@, b)] \in [Pids -> Seq(Messages)]
        BY <1>0, <2>2, PipeType
      <3>3. QED
        BY <1>f, <3>1, <3>2
    <2>4. child_tbs' \in [Pids -> SUBSET TBs]
      <3>1. child_tbs[p] \cup {b} \in SUBSET TBs
        BY <1>f
      <3>2. \/ child_tbs' = child_tbs
            \/ child_tbs' = [child_tbs EXCEPT ![p] = child_tbs[p] \cup {b}]
        BY <1>5 DEF NameBlock, BrokenPipe
      <3>3. QED
        BY <1>f, <3>1, <3>2
    <2>5. ChildTypeOK'
      <3>1. cpc' \in {cpc, [cpc EXCEPT ![p] = "emulate"]}
        BY <1>5 DEF NameBlock, BrokenPipe, Goto
      <3>2. cpc' \in [Pids -> ChildPoints]
        BY <1>f, <1>g, <3>1 DEF ChildPoints
      <3>3. UNCHANGED <<tc, iter, crash_found, parent_pipe>>
        BY <1>5 DEF NameBlock
      <3>4. QED
        BY <1>f, <2>3, <2>4, <3>2, <3>3 DEF ChildTypeOK
    <2>6. QED
      BY <1>0, <1>a, <1>b, <1>c, <1>5, <2>1, <2>5 DEF NameBlock
  <1>6. CASE FinishClean(p)
    <2>1. ChildTypeOK'
      BY <1>f, <1>g, <1>6 DEF FinishClean, Goto, ChildTypeOK, ChildPoints
    <2>2. QED
      BY <1>0, <1>a, <1>b, <1>c, <1>d, <1>h, <1>i, <1>6, <2>1 DEF FinishClean
  <1>7. CASE FinishCrash(p)
    <2>1. ProcTypeOK'
      BY <1>d, <1>e, <1>i, <1>7 DEF FinishCrash
    <2>2. crash_found' \in [Pids -> BOOLEAN] /\ cpc' \in [Pids -> ChildPoints]
      <3>1. /\ crash_found' \in {crash_found, [crash_found EXCEPT ![p] = TRUE]}
            /\ cpc' \in {cpc, [cpc EXCEPT ![p] = "end_of_loop"]}
        BY <1>7 DEF FinishCrash, Goto
      <3>2. [crash_found EXCEPT ![p] = TRUE] \in [Pids -> BOOLEAN]
        BY <1>f
      <3>3. [cpc EXCEPT ![p] = "end_of_loop"] \in [Pids -> ChildPoints]
        BY <1>g DEF ChildPoints
      <3>4. QED
        BY <1>f, <3>1, <3>2, <3>3
    <2>3. ChildTypeOK'
      BY <1>f, <1>7, <2>2 DEF FinishCrash, ChildTypeOK
    <2>4. QED
      BY <1>0, <1>a, <1>b, <1>c, <1>h, <1>i, <1>7, <2>1, <2>3 DEF FinishCrash
  <1>8. CASE EmulatorCrashes(p)
    BY <1>0, <1>a, <1>b, <1>c, <1>e, <1>h, <1>i, <1>j, <1>8 DEF EmulatorCrashes
  <1>9. CASE ExitLoop(p)
    BY <1>0, <1>a, <1>b, <1>c, <1>e, <1>i, <1>j, <1>9 DEF ExitLoop
  <1>10. CASE ReportRound(p)
    <2>1. ProcTypeOK'
      BY <1>d, <1>e, <1>i, <1>10 DEF ReportRound
    <2>2. RoundMessage(p) \in Messages
      BY DEF Messages, RoundMessage
    <2>3. child_pipe' \in [Pids -> Seq(Messages)]
      <3>1. \/ child_pipe' = child_pipe
            \/ child_pipe' = [child_pipe EXCEPT ![p] = Append(@, RoundMessage(p))]
        BY <1>10 DEF ReportRound
      <3>2. [child_pipe EXCEPT ![p] = Append(@, RoundMessage(p))] \in [Pids -> Seq(Messages)]
        BY <1>0, <2>2, PipeType
      <3>3. QED
        BY <1>f, <3>1, <3>2
    <2>4. ChildTypeOK'
      BY <1>f, <1>g, <1>10, <2>3 DEF ReportRound, Goto, ChildTypeOK, ChildPoints
    <2>5. QED
      BY <1>0, <1>a, <1>b, <1>c, <1>10, <2>1, <2>4 DEF ReportRound
  <1>11. CASE NextRound(p)
    <2>1. CASE parent_pipe[p] > 0
      <3>1. parent_pipe' = [parent_pipe EXCEPT ![p] = parent_pipe[p] - 1]
        BY <1>11, <2>1 DEF NextRound
      <3>2. parent_pipe[p] - 1 \in Nat /\ iter[p] + 1 \in Nat
        BY <1>f, <2>1
      <3>3. parent_pipe' \in [Pids -> Nat]
        BY <1>f, <3>1, <3>2
      <3>4. iter' \in [Pids -> Nat]
        <4>1. iter' = [iter EXCEPT ![p] =
                          IF persistent_iters = 0 THEN @ ELSE @ + 1]
          BY <1>11, <2>1 DEF NextRound
        <4>2. CASE persistent_iters = 0
          <5>1. iter' = iter
            BY <1>f, <4>1, <4>2
          <5>2. QED
            BY <1>f, <5>1
        <4>3. CASE persistent_iters # 0
          <5>1. iter' = [iter EXCEPT ![p] = iter[p] + 1]
            BY <4>1, <4>3
          <5>2. QED
            BY <1>f, <3>2, <5>1
        <4>4. QED
          BY <4>2, <4>3
      <3>5. ChildTypeOK'
        <4>1. /\ cpc' = [cpc EXCEPT ![p] = "place"]
              /\ crash_found' = [crash_found EXCEPT ![p] = FALSE]
              /\ UNCHANGED <<tc, child_tbs, child_pipe>>
          BY <1>11, <2>1 DEF NextRound, Goto
        <4>2. "place" \in ChildPoints
          BY DEF ChildPoints
        <4>3. cpc' \in [Pids -> ChildPoints] /\ crash_found' \in [Pids -> BOOLEAN]
          BY <1>f, <1>g, <4>1, <4>2
        <4>4. QED
          BY <1>f, <3>3, <3>4, <4>1, <4>3 DEF ChildTypeOK
      <3>6. QED
        BY <1>0, <1>a, <1>b, <1>c, <1>d, <1>11, <2>1, <3>5 DEF NextRound
    <2>2. CASE ~(parent_pipe[p] > 0)
      <3>1. ProcTypeOK'
        BY <1>e, <1>i, <1>11, <2>2 DEF NextRound
      <3>2. UNCHANGED childVars
        BY <1>11, <2>2 DEF NextRound, childVars
      <3>3. QED
        BY <1>0, <1>a, <1>b, <1>c, <1>j, <1>11, <2>2, <3>1, <3>2 DEF NextRound
    <2>3. QED
      BY <2>1, <2>2
  <1>12. QED
    BY <1>1, <1>2, <1>3, <1>4, <1>5, <1>6, <1>7, <1>8, <1>9, <1>10, <1>11
       DEF ChildStep

----------------------------------------------------------------------------
(***************************************************************************)
(* The words in the pipe from a child.                                     *)
(***************************************************************************)

\* Only the empty pipe has length zero.
LEMMA LengthZero ==
    ASSUME NEW S, NEW s \in Seq(S)
    PROVE  Len(s) \in Nat /\ (s = <<>> <=> Len(s) = 0)
  OBVIOUS

\* A word that may follow the last one keeps the words in turn.
LEMMA AppendInTurn ==
    ASSUME NEW s \in Seq(Messages), NEW m \in Messages, NEW t, t = Append(s, m),
           Alternates(s),
           \/ s = <<>>
           \/ Final(s) \in TBs /\ m \notin TBs
           \/ Final(s) = "TSL_REQUEST" /\ m \in TBs
    PROVE  /\ Alternates(t)
           /\ t # <<>>
           /\ Final(t) = m
           /\ s # <<>> => Head(t) = Head(s)
           /\ s = <<>> => Head(t) = m
  <1> DEFINE n == Len(s)
  <1>1. n \in Nat /\ Len(t) = n + 1 /\ (s = <<>> <=> n = 0)
    OBVIOUS
  <1>2. /\ \A i \in 1..n : t[i] = s[i]
        /\ t[n + 1] = m
        /\ t # <<>>
    OBVIOUS
  <1>3. /\ s # <<>> => Head(t) = Head(s)
        /\ s = <<>> => Head(t) = m
    OBVIOUS
  <1>4. Final(t) = m
    BY <1>1, <1>2 DEF Final
  <1>5. /\ \A i \in 1..(n - 1) : \/ s[i] = "TSL_REQUEST" /\ s[i + 1] \in TBs
                                 \/ s[i] \in TBs /\ s[i + 1] \notin TBs
        /\ n # 0 => \/ s[n] \in TBs /\ m \notin TBs
                    \/ s[n] = "TSL_REQUEST" /\ m \in TBs
    BY <1>1 DEF Alternates, Final
  <1> HIDE DEF n
  <1>6. ASSUME NEW i \in 1..n
        PROVE  \/ t[i] = "TSL_REQUEST" /\ t[i + 1] \in TBs
               \/ t[i] \in TBs /\ t[i + 1] \notin TBs
    <2>1. CASE i = n
      BY <1>1, <1>2, <1>5, <2>1
    <2>2. CASE i # n
      <3>1. i \in 1..(n - 1) /\ i + 1 \in 1..n
        BY <1>1, <2>2
      <3>2. QED
        BY <1>2, <1>5, <3>1
    <2>3. QED
      BY <2>1, <2>2
  <1>7. Alternates(t)
    <2>1. Len(t) - 1 = n
      BY <1>1
    <2>2. QED
      BY <1>6, <2>1 DEF Alternates
  <1>8. QED
    BY <1>2, <1>3, <1>4, <1>7

\* Reading the first word keeps the rest in turn, and tells what comes next.
LEMMA TailInTurn ==
    ASSUME NEW s \in Seq(Messages), NEW t, t = Tail(s), s # <<>>, Alternates(s)
    PROVE  /\ Alternates(t)
           /\ t = <<>> => Head(s) = Final(s)
           /\ t # <<>> => /\ Final(t) = Final(s)
                          /\ \/ Head(s) = "TSL_REQUEST" /\ Head(t) \in TBs
                             \/ Head(s) \in TBs /\ Head(t) \notin TBs
  <1> DEFINE n == Len(t)
  <1>1. n \in Nat /\ Len(s) = n + 1 /\ (t = <<>> <=> n = 0)
    <2>1. n \in Nat /\ Len(s) \in Nat /\ (t = <<>> <=> n = 0)
      <3>1. t \in Seq(Messages)
        OBVIOUS
      <3>2. QED
        BY <3>1, LengthZero
    <2>2. n = Len(s) - 1
      OBVIOUS
    <2> HIDE DEF n
    <2>3. QED
      BY <2>1, <2>2
  <1>2. /\ \A i \in 1..n : t[i] = s[i + 1]
        /\ Head(s) = s[1]
        /\ t # <<>> => Head(t) = t[1]
    OBVIOUS
  <1>3. \A i \in 1..n : \/ s[i] = "TSL_REQUEST" /\ s[i + 1] \in TBs
                        \/ s[i] \in TBs /\ s[i + 1] \notin TBs
    <2>1. Len(s) - 1 = n
      BY <1>1
    <2>2. QED
      BY <2>1 DEF Alternates
  <1>4. Final(t) = t[n] /\ Final(s) = s[n + 1]
    BY <1>1 DEF Final
  <1> HIDE DEF n
  <1>5. ASSUME NEW i \in 1..(n - 1)
        PROVE  \/ t[i] = "TSL_REQUEST" /\ t[i + 1] \in TBs
               \/ t[i] \in TBs /\ t[i + 1] \notin TBs
    <2>1. i \in 1..n /\ i + 1 \in 1..n
      BY <1>1
    <2>2. QED
      BY <1>2, <1>3, <2>1
  <1>6. Alternates(t)
    <2>1. Len(t) = n
      BY DEF n
    <2>2. QED
      BY <1>5, <2>1 DEF Alternates
  <1>7. t = <<>> => Head(s) = Final(s)
    BY <1>1, <1>2, <1>4
  <1>8. ASSUME t # <<>>
        PROVE  /\ Final(t) = Final(s)
               /\ \/ Head(s) = "TSL_REQUEST" /\ Head(t) \in TBs
                  \/ Head(s) \in TBs /\ Head(t) \notin TBs
    <2>1. 1 \in 1..n /\ n \in 1..n
      BY <1>1, <1>8
    <2>2. t[n] = s[n + 1] /\ t[1] = s[1 + 1]
      BY <1>2, <2>1
    <2>3. QED
      BY <1>2, <1>3, <1>4, <1>8, <2>1, <2>2
  <1>9. QED
    BY <1>6, <1>7, <1>8

\* The three kinds of words differ.
LEMMA MessageKinds ==
    /\ "TSL_REQUEST" \notin TBs
    /\ \A m \in Rounds : m \notin TBs /\ m # "TSL_REQUEST"
    /\ \A m \in Messages : m \in TBs \/ m = "TSL_REQUEST" \/ m \in Rounds
  BY UnicornAssumption DEF Rounds, Messages

----------------------------------------------------------------------------
(***************************************************************************)
(* The first half of the invariant: the start, and the steps of the        *)
(* fuzzer.                                                                 *)
(***************************************************************************)

\* The state after the handshake satisfies the protocol's invariant.
LEMMA InitInv == Init => IInv
  <1> SUFFICES ASSUME Init PROVE IInv
    OBVIOUS
  <1> USE DEF Init, LinkInit, ClientInit
  <1>1. TypeOK
    BY InitType
  <1>2. BooksInv /\ FreshInv /\ ConversationInv
    BY DEF BooksInv, FreshInv, ConversationInv, AllFree
  <1>3. IterInv
    <2>1. ASSUME persistent_iters # 0 PROVE 1 <= persistent_iters
      <3>1. persistent_iters \in Nat
        BY UnicornAssumption
      <3>2. QED
        BY <2>1, <3>1
    <2>2. \A p \in Pids : iter[p] = 0 /\ cpc[p] = "start"
      OBVIOUS
    <2>3. QED
      BY <2>1, <2>2 DEF IterInv
  <1>4. LinkInv
    BY DEF LinkInv, NoStops, EndStatuses, BetweenRuns, AwaitingPid,
           AwaitingStatus, RequestInv, InputInv, Quiet, Live, AllFree
  <1>5. KillInv
    BY DEF KillInv
  <1>6. QED
    BY <1>1, <1>2, <1>3, <1>4, <1>5 DEF IInv

\* The fuzzer's only influence on the server's books is the signals it sends.
LEMMA ClientKeepsBooks ==
    ASSUME IInv, ClientStep, UNCHANGED localVars
    PROVE  BooksInv' /\ FreshInv' /\ IterInv' /\ ConversationInv' /\ NoStops'
  <1>1. /\ UNCHANGED <<proc, exit_status, cpc, iter, crash_found, child_pipe,
                       parent_pipe, spc, child_pid, child_ret, status,
                       persistent_iters>>
        /\ killed \subseteq killed'
        /\ srv' = "up" <=> srv = "up"
    BY ClientFrame DEF localVars, serverVars, childVars, constVars
  <1>2. BooksInv'
    BY <1>1 DEF IInv, BooksInv, AllDoomed, AllFree, Parked, Live
  <1>3. FreshInv' /\ IterInv' /\ NoStops'
    BY <1>1 DEF IInv, LinkInv, FreshInv, IterInv, NoStops
  <1>4. ConversationInv'
    BY <1>1 DEF IInv, ConversationInv, InStep, Alternates, Final
  <1>5. QED
    BY <1>2, <1>3, <1>4

\* Every step of the fuzzer leaves the words in the pipes that its next read,
\* and the server's, reckon with.
LEMMA ClientKeepsLinkInv ==
    ASSUME IInv, ClientStep, UNCHANGED localVars
    PROVE  BetweenRuns' /\ AwaitingPid' /\ AwaitingStatus' /\ RequestInv' /\ InputInv'
  <1> DEFINE Goal == BetweenRuns /\ AwaitingPid /\ AwaitingStatus /\ RequestInv
                       /\ InputInv
  <1> SUFFICES Goal'
    OBVIOUS
  <1>0. /\ Quiet' <=> Quiet
        /\ AllDoomed => AllDoomed'
        /\ AllFree' <=> AllFree
        /\ srv' = "up" <=> srv = "up"
        /\ UNCHANGED <<spc, child_pid>>
    BY ClientFrame
       DEF Quiet, AllDoomed, AllFree, Live, localVars, serverVars, childVars
  <1> USE PipeFacts
          DEF IInv, LinkInv, BetweenRuns, AwaitingPid, AwaitingStatus,
              RequestInv, InputInv, Runs
  <1>1. ASSUME NEW t \in Testcases, WriteTestcase(t) PROVE Goal'
    BY <1>0, <1>1, LinkAssumption DEF WriteTestcase
  <1>2. CASE SendRequest
    <2>1. CASE srv = "up"
      <3>1. ctl' = <<last_run_timed_out>> /\ last_run_timed_out \in BOOLEAN
        BY <1>2, <2>1 DEF SendRequest, TypeOK, ClientTypeOK
      <3>2. /\ st' = <<>> /\ apc' = "read_pid" /\ ~last_run_timed_out'
            /\ fsrv_child_pid' = NoPid
            /\ input' # NoTestcase
        BY <1>2, <2>1 DEF SendRequest
      <3>3. last_run_timed_out => AllDoomed'
        BY <1>0, <2>1
      <3>4. spc' = "read_ctl"
        BY <1>0, <1>2, <2>1 DEF SendRequest
      <3>5. BetweenRuns' /\ AwaitingPid' /\ AwaitingStatus' /\ InputInv'
        BY <3>1, <3>2, <3>4
      <3>6. RequestInv'
        BY <3>1, <3>2, <3>3, <3>4
      <3>7. QED
        BY <3>5, <3>6
    <2>2. CASE srv # "up"
      BY <1>0, <1>2, <2>2 DEF SendRequest, GiveUp
    <2>3. QED
      BY <2>1, <2>2
  <1>3. CASE ReadChildPid
    <2>1. CASE st # <<>> /\ Head(st) \in Pids
      <3>1. /\ apc' = "wait" /\ fsrv_child_pid' = Head(st) /\ st' = Tail(st)
            /\ UNCHANGED <<ctl, input, last_run_timed_out>>
        BY <1>3, <2>1 DEF ReadChildPid
      <3>2. \/ /\ st' = <<>>
               /\ srv = "up" => spc \in {"requests", "read_pc", "waitpid", "write_status"}
            \/ /\ \E s \in EndStatuses : st' = <<s>>
               /\ Quiet
               /\ srv = "up" => spc = "read_ctl"
        <4>1. CASE st = <<>>
          BY <2>1, <4>1
        <4>2. ASSUME NEW w \in Pids, st = <<w>>,
                     srv = "up" => spc \in {"requests", "read_pc", "waitpid", "write_status"}
              PROVE  /\ st' = <<>>
                     /\ srv = "up" => spc \in {"requests", "read_pc", "waitpid", "write_status"}
          BY <3>1, <4>2
        <4>3. ASSUME NEW w \in Pids, NEW s \in EndStatuses, st = <<w, s>>
              PROVE  st' = <<s>>
          BY <3>1, <4>3
        <4>4. QED
          BY <1>3, <4>1, <4>2, <4>3 DEF ReadChildPid
      <3>3. srv = "up" => Head(st) = child_pid /\ ctl = <<>>
        BY <1>3, <2>1 DEF ReadChildPid
      <3>4. BetweenRuns' /\ AwaitingPid' /\ RequestInv' /\ InputInv'
        BY <1>0, <1>3, <3>1 DEF ReadChildPid
      <3>5. AwaitingStatus'
        BY <1>0, <3>1, <3>2, <3>3
      <3>6. QED
        BY <3>4, <3>5
    <2>2. CASE ~(st # <<>> /\ Head(st) \in Pids)
      <3>1. srv # "up"
        BY <1>3, <2>2 DEF ReadChildPid, StReadable
      <3>2. QED
        BY <1>0, <1>3, <2>2, <3>1 DEF ReadChildPid, GiveUp
    <2>3. QED
      BY <2>1, <2>2
  <1>4. ASSUME ReadStatus \/ DrainStatus PROVE Goal'
    <2>1. CASE (ReadStatus /\ stop_soon) \/ st = <<>>
      <3>1. /\ apc \in {"wait", "drain"}
            /\ apc' = IF stop_soon THEN "idle" ELSE "exiting"
            /\ srv = "up" => stop_soon /\ apc = "wait"
            /\ UNCHANGED <<ctl, st, input, last_run_timed_out, stop_soon>>
        BY <1>4, <2>1 DEF ReadStatus, DrainStatus, GiveUp, StReadable
      <3>2. QED
        BY <1>0, <3>1
    <2>2. CASE ~((ReadStatus /\ stop_soon) \/ st = <<>>)
      <3>1. /\ apc \in {"wait", "drain"}
            /\ apc' = "idle"
            /\ st' = Tail(st) /\ st # <<>>
            /\ fsrv_child_pid' = IF Head(st) = "stopped" THEN fsrv_child_pid ELSE NoPid
            /\ UNCHANGED <<ctl, input, last_run_timed_out, stop_soon>>
        BY <1>4, <2>2 DEF ReadStatus, DrainStatus, Conclude
      <3>2. /\ st' = <<>> /\ Quiet /\ (srv = "up" => ctl = <<>> /\ spc = "read_ctl")
            /\ Head(st) \in EndStatuses
        <4>1. /\ \E s \in EndStatuses : st = <<s>>
              /\ Quiet
              /\ srv = "up" => ctl = <<>> /\ spc = "read_ctl"
          BY <3>1
        <4>2. PICK s \in EndStatuses : st = <<s>>
          BY <4>1
        <4>3. Head(st) = s /\ Tail(st) = <<>>
          BY <4>2
        <4>4. QED
          BY <3>1, <4>1, <4>2, <4>3
      <3>3. fsrv_child_pid' = NoPid
        BY <3>1, <3>2 DEF EndStatuses
      <3>4. QED
        BY <1>0, <3>1, <3>2, <3>3
    <2>3. QED
      BY <2>1, <2>2
  <1>5. CASE TimerExpires
    BY <1>0, <1>5 DEF TimerExpires, linkVars
  <1>6. CASE KillTimedOut
    <2>1. killed' = Signaled(fsrv_child_pid)
      BY <1>6 DEF KillTimedOut, tmp_pid
    <2>2. srv = "up" => fsrv_child_pid = child_pid
      BY <1>6 DEF KillTimedOut
    <2>3. srv = "up" => \A p \in Pids : Live(p) => p = fsrv_child_pid
      BY <2>2 DEF BooksInv, Live
    <2>4. srv = "up" => AllDoomed'
      BY <2>1, <2>3, ClientFrame DEF AllDoomed, Signaled, Live
    <2>5. /\ apc = "expired" /\ apc' = "drain"
          /\ UNCHANGED <<ctl, st, input, srv, stop_soon>>
      BY <1>6 DEF KillTimedOut
    <2>6. srv = "up" => spc \in {"requests", "read_pc", "waitpid", "write_status", "read_ctl"}
      BY <2>5
    <2>7. QED
      BY <1>0, <2>4, <2>5, <2>6
  <1>7. CASE StopSignal
    BY <1>0, <1>7 DEF StopSignal, SignalServer
  <1>8. CASE StopHandlerReturns
    BY <1>0, <1>8 DEF StopHandlerReturns
  <1>9. CASE KillForkserver
    BY <1>0, <1>9 DEF KillForkserver
  <1>10. CASE ForkserverKilled
    BY <1>0, <1>10 DEF ForkserverKilled
  <1>11. CASE AtExit
    BY <1>0, <1>11 DEF AtExit
  <1>12. QED
    BY <1>1, <1>2, <1>3, <1>4, <1>5, <1>6, <1>7, <1>8, <1>9, <1>10, <1>11
       DEF ClientStep

\* The fuzzer signals a child only when its run has timed out or the user quits,
\* and before the pid of the run is known there is nothing it could signal.
LEMMA ClientKeepsKillInv ==
    ASSUME IInv, ClientStep, UNCHANGED localVars
    PROVE  KillInv'
  <1>0. /\ UNCHANGED <<proc, spc, cpc>>
        /\ srv' = "up" <=> srv = "up"
    BY ClientFrame DEF localVars, serverVars, childVars
  <1>1. ASSUME NEW p \in killed' PROVE Live(p)'
    BY <1>0, <1>1
       DEF ClientStep, WriteTestcase, SendRequest, ReadChildPid, ReadStatus,
           TimerExpires, KillTimedOut, DrainStatus, StopSignal,
           StopHandlerReturns, KillForkserver, ForkserverKilled, AtExit,
           Signaled, linkVars, Live, IInv, KillInv
  <1>2. CASE SendRequest
    <2>1. ASSUME Wanted' PROVE Wanted
      <3>1. srv = "up" /\ apc = "ready"
        BY <1>0, <1>2, <2>1 DEF Wanted, SendRequest, Runs
      <3>2. ctl = <<>> /\ spc = "read_ctl"
        BY <3>1 DEF IInv, LinkInv, BetweenRuns
      <3>3. ctl' = <<last_run_timed_out>>
        BY <1>2, <3>1, <3>2, PipeFacts DEF SendRequest
      <3>4. last_run_timed_out \in BOOLEAN
        BY DEF IInv, TypeOK, ClientTypeOK
      <3>5. ~last_run_timed_out
        BY <2>1, <3>3, <3>4 DEF Wanted
      <3>6. QED
        BY <3>1, <3>2, <3>5, PipeFacts DEF Wanted
    <2>2. killed' = killed
      BY <1>2 DEF SendRequest
    <2>3. QED
      BY <1>0, <1>1, <2>1, <2>2 DEF IInv, KillInv
  <1>3. ASSUME NEW t \in Testcases, WriteTestcase(t) PROVE KillInv'
    BY <1>0, <1>1, <1>3 DEF WriteTestcase, Runs, IInv, KillInv, Wanted
  <1>4. CASE ReadChildPid
    <2>1. killed' = killed /\ ctl' = ctl /\ UNCHANGED <<last_run_timed_out, stop_soon>>
          /\ apc = "read_pid"
      BY <1>4 DEF ReadChildPid, Runs
    <2>2. QED
      BY <1>0, <1>1, <2>1 DEF IInv, KillInv, Wanted
  <1>5. CASE ReadStatus \/ DrainStatus
    <2>1. /\ killed' = killed /\ ctl' = ctl
          /\ UNCHANGED <<last_run_timed_out, stop_soon>>
          /\ apc \in {"wait", "drain"} /\ apc' \in {"idle", "exiting"}
      BY <1>5 DEF ReadStatus, DrainStatus, Runs, GiveUp, Conclude
    <2>2. QED
      BY <1>0, <1>1, <2>1 DEF IInv, KillInv, Wanted
  <1>6. CASE TimerExpires
    BY <1>0, <1>1, <1>6 DEF TimerExpires, Runs, linkVars, IInv, KillInv, Wanted
  <1>7. CASE KillTimedOut
    BY <1>1, <1>7 DEF KillTimedOut, KillInv, Wanted
  <1>8. CASE StopSignal
    <2>1. /\ stop_soon' /\ killed' = Signaled(fsrv_child_pid)
          /\ UNCHANGED <<ctl, apc, last_run_timed_out, srv>>
      BY <1>8 DEF StopSignal
    <2>2. ASSUME Wanted' PROVE Wanted /\ killed' = killed
      <3>1. apc \in {"ready", "read_pid"}
        BY <2>1, <2>2 DEF Wanted
      <3>2. fsrv_child_pid = NoPid
        BY <3>1 DEF IInv, LinkInv, BetweenRuns, AwaitingPid
      <3>3. QED
        BY <1>0, <2>1, <2>2, <3>1, <3>2, LinkAssumption DEF Wanted, Signaled
    <2>3. QED
      BY <1>0, <1>1, <2>2 DEF IInv, KillInv
  <1>9. CASE StopHandlerReturns
    BY <1>0, <1>1, <1>9 DEF StopHandlerReturns, IInv, KillInv, Wanted
  <1>10. CASE KillForkserver \/ ForkserverKilled \/ AtExit
    <2>1. apc' \in {"reap", "exiting", "exited"}
      BY <1>10 DEF KillForkserver, ForkserverKilled, AtExit
    <2>2. QED
      BY <1>1, <2>1 DEF KillInv, Wanted
  <1>11. QED
    BY <1>2, <1>3, <1>4, <1>5, <1>6, <1>7, <1>8, <1>9, <1>10 DEF ClientStep

----------------------------------------------------------------------------
(***************************************************************************)
(* The steps of the fork server.                                           *)
(***************************************************************************)

\* The protocol's invariant without the types.
ProtocolInv ==
    /\ BooksInv /\ FreshInv /\ IterInv /\ ConversationInv
    /\ LinkInv
    /\ KillInv

\* A server that returns to the harness, or is killed, leaves everything else
\* alone, and no part of the invariant says more of a server that is gone.
LEMMA EndKeeps ==
    ASSUME IInv, srv' # "up", spc' \in {spc, "returned"},
           UNCHANGED <<ctl, st, input, proc, exit_status, killed, status,
                       clientVars, childVars, constVars>>
    PROVE  ProtocolInv'
  <1> USE DEF IInv, LinkInv, clientVars, childVars, constVars
  <1>1. BooksInv' /\ ConversationInv' /\ RequestInv'
    BY DEF BooksInv, ConversationInv, RequestInv
  <1>2. FreshInv' /\ IterInv' /\ NoStops'
    BY DEF FreshInv, IterInv, NoStops
  <1>3. (Quiet' <=> Quiet) /\ (AllFree' <=> AllFree)
    BY DEF Quiet, AllFree, Live
  <1>4. BetweenRuns'
    BY <1>3 DEF BetweenRuns
  <1>5. AwaitingPid'
    BY <1>3 DEF AwaitingPid
  <1>6. AwaitingStatus'
    BY <1>3 DEF AwaitingStatus
  <1>7. InputInv'
    BY <1>3 DEF InputInv
  <1>8. KillInv'
    BY DEF KillInv, Wanted, Live
  <1>9. QED
    BY <1>1, <1>2, <1>4, <1>5, <1>6, <1>7, <1>8 DEF ProtocolInv

\* A step that makes the server return does nothing else.
LEMMA EndingStep ==
    ASSUME ServerStep, srv' # "up"
    PROVE  /\ spc' = "returned"
           /\ UNCHANGED <<ctl, st, input, proc, exit_status, killed, status,
                          clientVars, childVars, constVars>>
  <1> USE DEF At, Return, ServerEnds, WriteWord, linkVars, childVars
  <1>1. CASE ReadRequest
    BY <1>1 DEF ReadRequest
  <1>2. CASE WriteOffChild
    BY <1>2 DEF WriteOffChild
  <1>3. CASE \E p \in Pids : Fork(p)
    BY <1>3 DEF Fork
  <1>4. CASE ForkFails
    BY <1>4 DEF ForkFails
  <1>5. CASE ResumeChild
    BY <1>5 DEF ResumeChild
  <1>6. CASE WritePid
    BY <1>6 DEF WritePid
  <1>7. CASE HandleMessage
    BY <1>7 DEF HandleMessage
  <1>8. CASE CacheBlock
    BY <1>8 DEF CacheBlock
  <1>9. CASE CollectChild
    BY <1>9 DEF CollectChild
  <1>10. CASE RelayStatus
    BY <1>10 DEF RelayStatus
  <1>11. QED
    BY <1>1, <1>2, <1>3, <1>4, <1>5, <1>6, <1>7, <1>8, <1>9, <1>10 DEF ServerStep

\* What no step of the server changes.
LEMMA ServerFrame ==
    ASSUME ServerStep
    PROVE  /\ srv = "up"
           /\ UNCHANGED <<input, trace_bits, killed, ran, truth, clientVars,
                          constVars, last_iteration>>
  BY DEF ServerStep, ReadRequest, WriteOffChild, Fork, ForkFails, ResumeChild,
         WritePid, HandleMessage, CacheBlock, CollectChild, RelayStatus, At,
         linkVars

\* The message that ends a round is the last word of its child, which waits.
LEMMA RoundIsLast ==
    ASSUME IInv, srv = "up", spc = "requests", child_pipe[child_pid] # <<>>
    PROVE  LET s == child_pipe[child_pid] IN
           /\ Head(s) \notin TBs
           /\ Head(s) = "TSL_REQUEST" \/ Head(s) \in Rounds
           /\ Head(s) \in Rounds =>
                /\ Tail(s) = <<>> /\ Head(s) = Final(s)
                /\ cpc[child_pid] = "next" /\ parent_pipe[child_pid] = 0
  <1> DEFINE s == child_pipe[child_pid]
  <1>1. child_pid \in Pids /\ InStep(child_pid)
    BY DEF IInv, BooksInv, ConversationInv
  <1>2. s \in Seq(Messages) /\ s # <<>> /\ cpc[child_pid] \in ChildPoints
    BY <1>1 DEF IInv, TypeOK
  <1>3. Alternates(s) /\ Head(s) \notin TBs
    BY <1>1, <1>2 DEF InStep
  <1>4. Head(s) = "TSL_REQUEST" \/ Head(s) \in Rounds
    BY <1>2, <1>3, HeadTailType, MessageKinds
  <1>5. ASSUME Head(s) \in Rounds
        PROVE  /\ Tail(s) = <<>> /\ Head(s) = Final(s)
               /\ cpc[child_pid] = "next" /\ parent_pipe[child_pid] = 0
    <2>1. Tail(s) = <<>>
      BY <1>2, <1>3, <1>5, TailInTurn, MessageKinds
    <2>2. Head(s) = Final(s) /\ Final(s) \in Rounds
      BY <1>2, <1>3, <1>5, <2>1, TailInTurn
    <2>3. Final(s) \notin TBs /\ Final(s) # "TSL_REQUEST"
      BY <2>2, MessageKinds
    <2>4. cpc[child_pid] = "next"
      BY <1>1, <1>2, <2>3 DEF InStep, ChildPoints
    <2>5. parent_pipe[child_pid] = 0
      BY <1>1, <1>2 DEF InStep
    <2>6. QED
      BY <2>1, <2>2, <2>4, <2>5
  <1>6. QED
    BY <1>3, <1>4, <1>5

\* What has become of the child that a step of the server has forgotten.
LEMMA ForgetFacts ==
    ASSUME IInv, NEW p \in Pids, Forget(p), proc[p] = "zombie"
    PROVE  /\ \A q \in Pids : Live(q)' <=> Live(q)
           /\ \A q \in Pids : proc'[q] # "free" <=> q # p /\ proc[q] # "free"
           /\ \A q \in Pids : q # p => /\ cpc'[q] = cpc[q] /\ iter'[q] = iter[q]
                                       /\ crash_found'[q] = crash_found[q]
                                       /\ child_pipe'[q] = child_pipe[q]
                                       /\ parent_pipe'[q] = parent_pipe[q]
                                       /\ exit_status'[q] = exit_status[q]
           /\ cpc'[p] = "start" /\ iter'[p] = 0 /\ crash_found'[p] = FALSE
           /\ child_pipe'[p] = <<>> /\ parent_pipe'[p] = 0
           /\ exit_status'[p] = "exited"
  BY DEF IInv, TypeOK, LinkTypeOK, Forget, Live

\* The server forks only when its last child is gone, goes on with a child only
\* when that child waits, and knows which of the two is the case.
LEMMA ServerKeepsBooks ==
    ASSUME IInv, ServerStep, srv' = "up"
    PROVE  BooksInv'
  <1> USE DEF IInv, At
  <1>a. srv = "up" /\ killed' = killed
    BY ServerFrame
  <1>b. proc \in [Pids -> {"free", "live", "zombie"}]
    BY DEF TypeOK, LinkTypeOK
  <1>1. CASE ReadRequest
    <2>1. ctl # <<>>
      BY <1>1 DEF ReadRequest, Return, ServerEnds
    <2>2. /\ spc = "read_ctl" /\ UNCHANGED <<proc, child_pid, childVars>>
          /\ spc' = AfterRequest(Head(ctl))
          /\ child_ret' = IF Head(ctl) THEN "EXITED" ELSE child_ret
      BY <1>1, <2>1 DEF ReadRequest
    <2>3. Head(ctl) => AllDoomed
      BY <1>a, <2>1, PipeFacts DEF LinkInv, RequestInv
    <2>4. Head(ctl) \in BOOLEAN
      BY <2>1, HeadTailType DEF TypeOK, LinkTypeOK
    <2>5. CASE child_ret = "EXITED"
      BY <1>a, <2>2, <2>5
         DEF AfterRequest, BooksInv, AllFree, childVars
    <2>6. CASE child_ret # "EXITED"
      BY <1>a, <2>2, <2>3, <2>4, <2>6
         DEF AfterRequest, BooksInv, AllDoomed, Parked, Live, childVars
    <2>7. QED
      BY <2>5, <2>6
  <1>2. CASE WriteOffChild
    <2>1. /\ child_pid \in Pids /\ proc[child_pid] = "zombie"
          /\ Forget(child_pid) /\ spc' = "fork"
          /\ spc = "reap" /\ UNCHANGED <<child_pid, child_ret>>
      BY <1>2 DEF WriteOffChild, Return, ServerEnds
    <2>2. \A q \in Pids : proc'[q] = "free"
      BY <1>a, <1>b, <2>1, ForgetFacts DEF BooksInv
    <2>3. QED
      BY <1>a, <2>1, <2>2 DEF BooksInv
  <1>3. ASSUME NEW p \in Pids, Fork(p) PROVE BooksInv'
    BY <1>a, <1>b, <1>3 DEF Fork, BooksInv
  <1>4. CASE ResumeChild
    <2>1. /\ spc = "resume" /\ spc' = "write_pid"
          /\ UNCHANGED <<proc, child_pid, child_ret>>
      BY <1>4 DEF ResumeChild, Return, ServerEnds
    <2>2. QED
      BY <1>a, <2>1 DEF BooksInv
  <1>5. CASE WritePid
    <2>1. /\ spc = "write_pid" /\ spc' = "requests"
          /\ UNCHANGED <<proc, child_pid, child_ret>>
      BY <1>5 DEF WritePid, WriteWord, Return, ServerEnds
    <2>2. QED
      BY <1>a, <2>1 DEF BooksInv
  <1>6. CASE HandleMessage
    <2>1. /\ spc = "requests"
          /\ UNCHANGED <<proc, child_pid, cpc, parent_pipe>>
      BY <1>6 DEF HandleMessage, linkVars
    <2>2. CASE child_pipe[child_pid] = <<>>
      BY <1>a, <1>6, <2>1, <2>2 DEF HandleMessage, BooksInv, PipeReadable, Live
    <2>3. CASE child_pipe[child_pid] # <<>>
      <3>1. child_pid \in Pids /\ proc[child_pid] # "free"
        BY <1>a, <2>1 DEF BooksInv
      <3>2. CASE Head(child_pipe[child_pid]) \in Rounds
        <4>1. child_pipe'[child_pid] = Tail(child_pipe[child_pid])
          BY <1>6, <2>3, <3>1 DEF HandleMessage, TypeOK
        <4>2. Parked'
          BY <1>a, <2>1, <2>3, <3>1, <3>2, <4>1, RoundIsLast DEF Parked
        <4>3. spc' = "write_status" /\ child_ret' \in Rounds
          BY <1>6, <2>3, <3>2
             DEF HandleMessage, AfterMessage, RoundOver, Rounds
        <4>4. QED
          BY <1>a, <2>1, <4>2, <4>3 DEF BooksInv, Rounds
      <3>3. CASE Head(child_pipe[child_pid]) \notin Rounds
        <4>1. spc' \in {"read_pc", "requests"} /\ child_ret' = child_ret
          BY <1>6, <2>3, <3>3 DEF HandleMessage, AfterMessage, RoundOver, Rounds
        <4>2. QED
          BY <1>a, <2>1, <4>1 DEF BooksInv
      <3>4. QED
        BY <3>2, <3>3
    <2>4. QED
      BY <2>2, <2>3
  <1>7. CASE CacheBlock
    BY <1>a, <1>7 DEF CacheBlock, BooksInv, PipeReadable, Live, linkVars
  <1>8. CASE CollectChild
    <2>1. /\ child_pid \in Pids /\ proc[child_pid] = "zombie"
          /\ Forget(child_pid) /\ spc' = "write_status"
          /\ spc = "waitpid" /\ UNCHANGED <<child_pid, child_ret>>
      BY <1>8 DEF CollectChild, Return, ServerEnds
    <2>2. \A q \in Pids : proc'[q] = "free"
      BY <1>a, <1>b, <2>1, ForgetFacts DEF BooksInv
    <2>3. QED
      BY <1>a, <2>1, <2>2 DEF BooksInv, AllFree
  <1>9. CASE RelayStatus
    <2>1. /\ spc = "write_status" /\ spc' = "read_ctl"
          /\ UNCHANGED <<proc, child_pid, child_ret, childVars>>
      BY <1>9 DEF RelayStatus, WriteWord, Return, ServerEnds
    <2>2. QED
      BY <1>a, <2>1 DEF BooksInv, AllFree, Parked, childVars
  <1>10. CASE ForkFails
    BY <1>10 DEF ForkFails, Return, ServerEnds
  <1>11. QED
    BY <1>1, <1>2, <1>3, <1>4, <1>5, <1>6, <1>7, <1>8, <1>9, <1>10 DEF ServerStep

\* A process id is taken only when it is not in use, and everything that was
\* kept for the last process with that id is gone by then.
LEMMA ServerKeepsFresh ==
    ASSUME IInv, ServerStep, srv' = "up"
    PROVE  FreshInv' /\ IterInv' /\ NoStops'
  <1> USE DEF IInv, At
  <1>a. srv = "up" /\ UNCHANGED <<killed, constVars>>
    BY ServerFrame
  <1>b. /\ persistent_iters \in Nat
        /\ iter \in [Pids -> Nat]
    BY UnicornAssumption DEF TypeOK
  <1>1. CASE WriteOffChild \/ CollectChild
    <2>1. /\ child_pid \in Pids /\ proc[child_pid] = "zombie"
          /\ Forget(child_pid)
          /\ status' \in {status, exit_status[child_pid]}
      BY <1>1 DEF WriteOffChild, CollectChild, Return, ServerEnds
    <2>2. FreshInv'
      BY <2>1, ForgetFacts DEF FreshInv
    <2>3. IterInv'
      <3>1. ASSUME persistent_iters # 0, NEW p \in Pids
            PROVE  /\ iter'[p] + 1 <= persistent_iters
                   /\ cpc'[p] = "next" => iter'[p] + 1 < persistent_iters
        <4>1. CASE p = child_pid
          <5>1. iter'[p] = 0 /\ cpc'[p] = "start"
            BY <2>1, <4>1, ForgetFacts
          <5>2. 0 + 1 <= persistent_iters
            BY <1>b, <3>1
          <5>3. QED
            BY <5>1, <5>2
        <4>2. CASE p # child_pid
          BY <2>1, <3>1, <4>2, ForgetFacts DEF IterInv
        <4>3. QED
          BY <4>1, <4>2
      <3>2. QED
        BY <1>a, <3>1 DEF IterInv, constVars
    <2>4. NoStops'
      <3>1. \A p \in Pids : exit_status'[p] \in EndStatuses
        BY <2>1, ForgetFacts DEF LinkInv, NoStops, EndStatuses
      <3>2. status' \in EndStatuses
        BY <2>1 DEF LinkInv, NoStops
      <3>3. QED
        BY <3>1, <3>2 DEF NoStops
    <2>5. QED
      BY <2>2, <2>3, <2>4
  <1>2. CASE ~(WriteOffChild \/ CollectChild)
    <2>1. UNCHANGED <<exit_status, cpc, iter, crash_found>>
      BY <1>2
         DEF ServerStep, ReadRequest, Fork, ForkFails, ResumeChild, WritePid,
             HandleMessage, CacheBlock, RelayStatus, linkVars, childVars
    <2>2. status' \in EndStatuses
      BY <1>2
         DEF ServerStep, ReadRequest, Fork, ForkFails, ResumeChild, WritePid,
             HandleMessage, CacheBlock, RelayStatus, RoundStatus, LinkInv,
             NoStops, EndStatuses
    <2>3. \A p \in Pids :
            proc'[p] = "free" => /\ proc[p] = "free"
                                 /\ child_pipe'[p] = child_pipe[p]
                                 /\ parent_pipe'[p] = parent_pipe[p]
      <3>1. CASE \E p \in Pids : Fork(p)
        BY <3>1 DEF Fork, TypeOK, LinkTypeOK
      <3>2. CASE ResumeChild
        BY <1>a, <3>2 DEF ResumeChild, BooksInv, TypeOK
      <3>3. CASE HandleMessage \/ CacheBlock
        BY <1>a, <3>3 DEF HandleMessage, CacheBlock, BooksInv, TypeOK, linkVars
      <3>4. CASE ReadRequest \/ ForkFails \/ WritePid \/ RelayStatus
        BY <3>4 DEF ReadRequest, ForkFails, WritePid, RelayStatus, childVars
      <3>5. QED
        BY <1>2, <3>1, <3>2, <3>3, <3>4 DEF ServerStep
    <2>4. FreshInv'
      BY <2>1, <2>3 DEF FreshInv
    <2>5. IterInv'
      BY <1>a, <2>1 DEF IterInv, constVars
    <2>6. QED
      BY <2>1, <2>2, <2>4, <2>5 DEF NoStops, LinkInv
  <1>3. QED
    BY <1>1, <1>2

\* The server takes the words of its child one by one, a block after each
\* request and nothing after the end of the round.
LEMMA ServerKeepsConversation ==
    ASSUME IInv, ServerStep, srv' = "up"
    PROVE  ConversationInv'
  <1> USE DEF IInv, At
  <1>a. srv = "up"
    BY ServerFrame
  <1>b. /\ cpc \in [Pids -> ChildPoints]
        /\ child_pipe \in [Pids -> Seq(Messages)]
        /\ parent_pipe \in [Pids -> Nat]
    BY DEF TypeOK
  <1>1. CASE ReadRequest \/ WriteOffChild \/ CollectChild \/ RelayStatus \/ ForkFails
    <2>1. spc' \notin {"write_pid", "requests", "read_pc"}
      BY <1>1
         DEF ReadRequest, AfterRequest, WriteOffChild, CollectChild, RelayStatus,
             WriteWord, ForkFails, Return, ServerEnds
    <2>2. QED
      BY <2>1 DEF ConversationInv
  <1>2. ASSUME NEW p \in Pids, Fork(p) PROVE ConversationInv'
    <2>1. /\ cpc'[p] = "start" /\ child_pipe'[p] = <<>> /\ parent_pipe'[p] = 0
          /\ spc' = "write_pid" /\ child_pid' = p
      BY <1>2 DEF Fork, FreshInv
    <2>2. Alternates(<<>>)
      BY DEF Alternates
    <2>3. QED
      BY <2>1, <2>2 DEF ConversationInv, InStep, Alternates
  <1>3. CASE ResumeChild
    <2>1. /\ Parked /\ spc' = "write_pid"
          /\ parent_pipe' = [parent_pipe EXCEPT ![child_pid] = @ + 1]
          /\ UNCHANGED <<child_pid, cpc, child_pipe>>
      BY <1>a, <1>3 DEF ResumeChild, Return, ServerEnds, BooksInv
    <2>2. /\ cpc'[child_pid] = "next" /\ child_pipe'[child_pid] = <<>>
          /\ parent_pipe'[child_pid] = 1
      BY <1>b, <2>1 DEF Parked
    <2>3. Alternates(<<>>)
      BY DEF Alternates
    <2>4. QED
      BY <2>1, <2>2, <2>3 DEF ConversationInv, InStep, Alternates
  <1>4. CASE WritePid
    <2>1. /\ spc = "write_pid" /\ spc' = "requests"
          /\ UNCHANGED <<child_pid, cpc, child_pipe, parent_pipe>>
      BY <1>4 DEF WritePid, WriteWord, Return, ServerEnds, childVars
    <2>2. InStep(child_pid)
      BY <1>a, <2>1 DEF ConversationInv
    <2>3. InStep(child_pid)'
      BY <2>1, <2>2 DEF InStep, Alternates, Final
    <2>4. QED
      BY <2>1, <2>3 DEF ConversationInv
  <1>5. ASSUME HandleMessage \/ CacheBlock PROVE ConversationInv'
    <2> DEFINE s == child_pipe[child_pid]
    <2>1. /\ child_pid \in Pids /\ InStep(child_pid)
          /\ spc \in {"requests", "read_pc"}
          /\ UNCHANGED <<child_pid, cpc, parent_pipe>>
      BY <1>a, <1>5 DEF HandleMessage, CacheBlock, BooksInv, ConversationInv
    <2>2. s \in Seq(Messages)
      BY <1>b, <2>1
    <2>3. CASE s = <<>>
      <3>1. spc' = "waitpid"
        BY <1>5, <2>3 DEF HandleMessage, CacheBlock
      <3>2. QED
        BY <3>1 DEF ConversationInv
    <2>4. CASE s # <<>> /\ Head(s) \in Rounds
      <3>1. spc = "requests" /\ spc' = "write_status"
        <4>1. spc # "read_pc"
          BY <2>1, <2>4, MessageKinds DEF InStep
        <4>2. QED
          BY <1>5, <2>1, <2>4, <4>1
             DEF HandleMessage, CacheBlock, AfterMessage, RoundOver, Rounds
      <3>2. QED
        BY <3>1 DEF ConversationInv
    <2>5. CASE s # <<>> /\ Head(s) \notin Rounds
      <3> DEFINE t == Tail(s)
      <3>1. /\ Alternates(s)
            /\ Head(s) \in TBs <=> spc = "read_pc"
        BY <2>1, <2>5 DEF InStep
      <3>2. Head(s) = "TSL_REQUEST" \/ Head(s) \in TBs
        BY <2>2, <2>5, HeadTailType, MessageKinds
      <3>3. /\ Alternates(t)
            /\ t = <<>> => Head(s) = Final(s)
            /\ t # <<>> => /\ Final(t) = Final(s)
                           /\ Head(s) = "TSL_REQUEST" => Head(t) \in TBs
                           /\ Head(s) \in TBs => Head(t) \notin TBs
        BY <2>2, <2>5, <3>1, TailInTurn, MessageKinds
      <3>4. child_pipe'[child_pid] = t
        <4>1. child_pipe' = [child_pipe EXCEPT ![child_pid] = Tail(@)]
          BY <1>5, <2>5 DEF HandleMessage, CacheBlock
        <4>2. QED
          BY <1>b, <2>1, <4>1
      <3>5. spc' = IF Head(s) = "TSL_REQUEST" THEN "read_pc" ELSE "requests"
        <4>1. CASE spc = "requests"
          BY <1>5, <2>5, <3>1, <3>2, <4>1
             DEF HandleMessage, CacheBlock, AfterMessage, RoundOver, Rounds
        <4>2. CASE spc = "read_pc"
          BY <1>5, <2>5, <3>1, <4>2, MessageKinds DEF HandleMessage, CacheBlock
        <4>3. QED
          BY <2>1, <4>1, <4>2
      <3>6. Head(s) = "TSL_REQUEST" => Head(s) \notin TBs
        BY MessageKinds
      <3>7. /\ cpc[child_pid] = "request_tb" => Final(s) = "TSL_REQUEST"
            /\ cpc[child_pid] \in {"start", "place", "emulate", "end_of_loop"} =>
                 Final(s) \in TBs
            /\ cpc[child_pid] = "next" => Final(s) \in Rounds
            /\ parent_pipe[child_pid] = 0
        BY <2>1, <2>5 DEF InStep
      <3>8. \A m \in Rounds : m \notin TBs /\ m # "TSL_REQUEST"
        BY MessageKinds
      <3> HIDE DEF s, t
      <3>9. CASE t = <<>>
        <4>1. /\ cpc[child_pid] = "request_tb" => Head(s) = "TSL_REQUEST"
              /\ cpc[child_pid] \in {"start", "place", "emulate", "end_of_loop"} =>
                   Head(s) \in TBs
              /\ cpc[child_pid] # "next"
          BY <3>2, <3>3, <3>7, <3>8, <3>9
        <4>2. InStep(child_pid)'
          BY <2>1, <3>3, <3>4, <3>5, <3>6, <3>7, <3>9, <4>1 DEF InStep
        <4>3. QED
          BY <2>1, <4>2 DEF ConversationInv
      <3>10. CASE t # <<>>
        <4>1. Head(t) \in TBs <=> Head(s) = "TSL_REQUEST"
          BY <3>2, <3>3, <3>6, <3>10
        <4>2. InStep(child_pid)'
          BY <2>1, <3>3, <3>4, <3>5, <3>7, <3>10, <4>1 DEF InStep
        <4>3. QED
          BY <2>1, <4>2 DEF ConversationInv
      <3>11. QED
        BY <3>9, <3>10
    <2>6. QED
      BY <2>3, <2>4, <2>5
  <1>6. QED
    BY <1>1, <1>2, <1>3, <1>4, <1>5 DEF ServerStep

\* Only a server that has told the end of a run reads on, and the pipe to the
\* fuzzer then holds what the fuzzer waits for.
LEMMA ServerKeepsLink ==
    ASSUME IInv, ServerStep, srv' = "up"
    PROVE  BetweenRuns' /\ AwaitingPid' /\ AwaitingStatus' /\ RequestInv' /\ InputInv'
  <1> DEFINE Goal == BetweenRuns /\ AwaitingPid /\ AwaitingStatus /\ RequestInv
                       /\ InputInv
  <1> SUFFICES Goal'
    OBVIOUS
  <1> USE DEF IInv, At, LinkInv, clientVars
  <1>a. srv = "up" /\ UNCHANGED <<input, killed, clientVars>>
    BY ServerFrame
  <1>1. CASE ReadRequest
    <2>1. ctl # <<>>
      BY <1>1 DEF ReadRequest, Return, ServerEnds
    <2>2. \E w \in BOOLEAN : ctl = <<w>> /\ (w => AllDoomed)
      BY <1>a, <2>1 DEF RequestInv
    <2>3. ctl' = <<>> /\ spc' \in {"fork", "reap", "resume"}
      <3>1. ctl' = Tail(ctl) /\ spc' = AfterRequest(Head(ctl))
        BY <1>1, <2>1 DEF ReadRequest
      <3>2. AfterRequest(Head(ctl)) \in {"fork", "reap", "resume"}
        BY DEF AfterRequest
      <3>3. QED
        BY <2>2, <3>1, <3>2, PipeFacts
    <2>4. UNCHANGED <<st, proc, cpc, parent_pipe, child_pid>>
      BY <1>1, <2>1 DEF ReadRequest, childVars
    <2>5. /\ apc \notin {"ready", "wait", "expired", "drain", "idle", "reap"}
          /\ ~last_run_timed_out
          /\ input # NoTestcase
          /\ apc = "read_pid" => st = <<>>
      BY <1>a, <2>1
         DEF BetweenRuns, AwaitingPid, AwaitingStatus, RequestInv, InputInv
    <2>6. apc = "read_pid" => fsrv_child_pid = NoPid
      BY DEF AwaitingPid
    <2>7. QED
      BY <1>a, <2>3, <2>4, <2>5, <2>6
         DEF BetweenRuns, AwaitingPid, AwaitingStatus, RequestInv, InputInv
  <1>2. CASE WriteOffChild
    <2>1. /\ spc = "reap" /\ spc' = "fork" /\ UNCHANGED <<ctl, st, child_pid>>
      BY <1>2 DEF WriteOffChild, Return, ServerEnds
    <2>2. QED
      BY <1>a, <2>1
         DEF BetweenRuns, AwaitingPid, AwaitingStatus, RequestInv, InputInv
  <1>3. ASSUME NEW p \in Pids, Fork(p) PROVE Goal'
    <2>1. /\ spc = "fork" /\ spc' = "write_pid" /\ UNCHANGED <<ctl, st>>
      BY <1>3 DEF Fork
    <2>2. QED
      BY <1>a, <2>1
         DEF BetweenRuns, AwaitingPid, AwaitingStatus, RequestInv, InputInv
  <1>4. CASE ResumeChild
    <2>1. /\ spc = "resume" /\ spc' = "write_pid" /\ UNCHANGED <<ctl, st>>
      BY <1>4 DEF ResumeChild, Return, ServerEnds
    <2>2. QED
      BY <1>a, <2>1
         DEF BetweenRuns, AwaitingPid, AwaitingStatus, RequestInv, InputInv
  <1>5. CASE WritePid
    <2>1. /\ spc = "write_pid" /\ spc' = "requests"
          /\ st' = Append(st, child_pid)
          /\ UNCHANGED <<ctl, child_pid>>
      BY <1>5 DEF WritePid, WriteWord, Return, ServerEnds
    <2>2. /\ apc \notin {"ready", "wait", "expired", "drain", "idle", "reap"}
          /\ ctl = <<>> /\ ~last_run_timed_out
          /\ input # NoTestcase
          /\ apc = "read_pid" => st = <<>>
      BY <1>a, <2>1
         DEF BetweenRuns, AwaitingPid, AwaitingStatus, RequestInv, InputInv
    <2>3. child_pid \in Pids
      BY <1>a, <2>1 DEF BooksInv
    <2>4. apc = "read_pid" => st' = <<child_pid>>
      BY <2>1, <2>2, PipeFacts
    <2>5. apc = "read_pid" => fsrv_child_pid = NoPid
      BY DEF AwaitingPid
    <2>6. QED
      BY <1>a, <2>1, <2>2, <2>3, <2>4, <2>5
         DEF BetweenRuns, AwaitingPid, AwaitingStatus, RequestInv, InputInv
  <1>6. CASE HandleMessage \/ CacheBlock
    <2>1. /\ spc \in {"requests", "read_pc"}
          /\ spc' \in {"requests", "read_pc", "waitpid", "write_status"}
          /\ UNCHANGED <<ctl, st, proc, child_pid>>
      BY <1>6 DEF HandleMessage, CacheBlock, AfterMessage, linkVars
    <2>2. AllDoomed' <=> AllDoomed
      BY <1>a, <2>1 DEF AllDoomed, Live
    <2>3. QED
      BY <1>a, <2>1, <2>2
         DEF BetweenRuns, AwaitingPid, AwaitingStatus, RequestInv, InputInv
  <1>7. CASE CollectChild
    <2>1. /\ spc = "waitpid" /\ spc' = "write_status"
          /\ UNCHANGED <<ctl, st, child_pid>>
          /\ child_pid \in Pids /\ proc[child_pid] = "zombie" /\ Forget(child_pid)
      BY <1>7 DEF CollectChild, Return, ServerEnds
    <2>2. AllDoomed => AllDoomed'
      BY <1>a, <2>1, ForgetFacts DEF AllDoomed
    <2>3. QED
      BY <1>a, <2>1, <2>2
         DEF BetweenRuns, AwaitingPid, AwaitingStatus, RequestInv, InputInv
  <1>8. CASE RelayStatus
    <2>1. /\ spc = "write_status" /\ spc' = "read_ctl"
          /\ st' = Append(st, status)
          /\ UNCHANGED <<ctl, child_pid, proc, cpc, parent_pipe>>
      BY <1>8 DEF RelayStatus, WriteWord, Return, ServerEnds, childVars
    <2>2. /\ apc # "ready" /\ ~(apc = "idle" /\ ~stop_soon)
          /\ ctl = <<>>
          /\ input # NoTestcase
          /\ apc = "read_pid" => st = <<child_pid>>
          /\ apc \in {"wait", "expired", "drain"} => st = <<>>
          /\ apc \in {"wait", "expired"} => fsrv_child_pid = child_pid
          /\ apc = "read_pid" => fsrv_child_pid = NoPid
          /\ last_run_timed_out => AllDoomed
      BY <1>a, <2>1
         DEF BetweenRuns, AwaitingPid, AwaitingStatus, RequestInv, InputInv
    <2>3. Quiet' /\ (AllDoomed => AllDoomed')
      <3>1. AllFree \/ Parked
        BY <1>a, <2>1 DEF BooksInv
      <3>2. \A p \in Pids : Live(p) => p = child_pid
        BY <1>a DEF BooksInv, Live
      <3>3. Quiet
        BY <3>1, <3>2 DEF Quiet, AllFree, Parked, Live
      <3>4. QED
        BY <1>a, <2>1, <3>3 DEF Quiet, AllDoomed, Live
    <2>4. status \in EndStatuses /\ status \in Words
      BY DEF NoStops, TypeOK, Words
    <2>5. apc = "read_pid" => child_pid \in Pids /\ st' = <<child_pid, status>>
      <3>1. CASE st = <<child_pid>>
        <4>1. child_pid \in Words
          BY <3>1, HeadTailType, PipeFacts DEF TypeOK, LinkTypeOK
        <4>2. st' = <<child_pid, status>>
          BY <2>1, <2>4, <3>1, <4>1, AppendToOne
        <4>3. apc = "read_pid" => \E w \in Pids : st = <<w>>
          BY <1>a, <2>1, <3>1, PipeFacts DEF AwaitingPid
        <4>4. QED
          BY <3>1, <4>2, <4>3, PipeFacts
      <3>2. QED
        BY <2>2, <3>1
    <2>6. apc \in {"wait", "expired", "drain"} => st' = <<status>>
      BY <2>1, <2>2, PipeFacts
    <2>7. BetweenRuns' /\ RequestInv' /\ InputInv'
      BY <1>a, <2>1, <2>2, <2>3 DEF BetweenRuns, RequestInv, InputInv
    <2>8. AwaitingPid'
      BY <1>a, <2>1, <2>2, <2>3, <2>4, <2>5 DEF AwaitingPid
    <2>9. AwaitingStatus'
      BY <1>a, <2>1, <2>2, <2>3, <2>4, <2>6 DEF AwaitingStatus
    <2>10. QED
      BY <2>7, <2>8, <2>9
  <1>9. CASE ForkFails
    BY <1>9 DEF ForkFails, Return, ServerEnds
  <1>10. QED
    BY <1>1, <1>2, <1>3, <1>4, <1>5, <1>6, <1>7, <1>8, <1>9 DEF ServerStep

\* The server lets go only of children that are dead.
LEMMA ServerKeepsKillInv ==
    ASSUME IInv, ServerStep, srv' = "up"
    PROVE  KillInv'
  <1> USE DEF IInv, At, clientVars
  <1>a. srv = "up" /\ UNCHANGED <<killed, clientVars>>
    BY ServerFrame
  <1>1. CASE WriteOffChild \/ CollectChild
    <2>1. /\ child_pid \in Pids /\ proc[child_pid] = "zombie" /\ Forget(child_pid)
          /\ UNCHANGED <<ctl, child_pid>>
          /\ \/ spc = "reap" /\ spc' = "fork"
             \/ spc = "waitpid" /\ spc' = "write_status"
      BY <1>1 DEF WriteOffChild, CollectChild, Return, ServerEnds
    <2>2. AllFree'
      <3>1. \A q \in Pids : proc[q] # "free" => q = child_pid
        BY <1>a DEF BooksInv
      <3>2. QED
        BY <2>1, <3>1, ForgetFacts DEF AllFree
    <2>3. killed \subseteq Pids
      BY DEF TypeOK, LinkTypeOK
    <2>4. \A q \in killed : Live(q)'
      BY <2>1, <2>3, ForgetFacts DEF KillInv
    <2>5. killed' = {}
      BY <1>a, <2>2, <2>3, <2>4 DEF AllFree, Live
    <2>6. QED
      BY <2>2, <2>5 DEF KillInv, AllFree
  <1>2. CASE \E p \in Pids : Fork(p)
    <2>1. PICK p \in Pids : Fork(p)
      BY <1>2
    <2>2. AllFree
      BY <1>a, <2>1 DEF Fork, BooksInv, AllFree
    <2>3. killed = {}
      BY <2>2 DEF KillInv, AllFree, Live, TypeOK, LinkTypeOK
    <2>4. \A q \in Pids : proc'[q] # "zombie"
      BY <2>1, <2>2 DEF Fork, AllFree, TypeOK, LinkTypeOK
    <2>5. QED
      BY <1>a, <2>3, <2>4 DEF KillInv
  <1>3. CASE ReadRequest
    <2>1. ctl # <<>>
      BY <1>3 DEF ReadRequest, Return, ServerEnds
    <2>2. PICK w \in BOOLEAN : ctl = <<w>>
      BY <1>a, <2>1 DEF LinkInv, RequestInv
    <2>3. /\ spc = "read_ctl" /\ spc' = AfterRequest(w)
          /\ UNCHANGED <<proc, cpc>>
      BY <1>3, <2>1, <2>2, PipeFacts DEF ReadRequest, childVars
    <2>4. ASSUME Wanted' PROVE Wanted \/ AllFree
      <3>1. CASE w = TRUE
        BY <1>a, <2>3, <2>4, <3>1 DEF AfterRequest, Wanted, BooksInv
      <3>2. CASE w = FALSE
        <4>1. ctl # <<TRUE>>
          BY <2>2, <3>2, PipeFacts
        <4>2. QED
          BY <1>a, <2>3, <2>4, <4>1 DEF Wanted
      <3>3. QED
        BY <3>1, <3>2
    <2>5. AllFree => killed = {} /\ \A q \in Pids : proc[q] # "zombie"
      BY DEF AllFree, KillInv, Live, TypeOK, LinkTypeOK
    <2>6. QED
      BY <1>a, <2>3, <2>4, <2>5 DEF KillInv, Live
  <1>4. CASE ResumeChild \/ WritePid \/ HandleMessage \/ CacheBlock \/ RelayStatus
    <2>1. /\ UNCHANGED <<ctl, proc, cpc>> /\ spc # "reap"
      BY <1>4
         DEF ResumeChild, WritePid, HandleMessage, CacheBlock, RelayStatus,
             linkVars, childVars
    <2>2. QED
      BY <1>a, <2>1 DEF KillInv, Wanted, Live
  <1>5. CASE ForkFails
    BY <1>5 DEF ForkFails, Return, ServerEnds
  <1>6. QED
    BY <1>1, <1>2, <1>3, <1>4, <1>5 DEF ServerStep

\* Every step of the server preserves the protocol's invariant.
LEMMA ServerKeeps == IInv /\ ServerStep => ProtocolInv'
  <1> SUFFICES ASSUME IInv, ServerStep PROVE ProtocolInv'
    OBVIOUS
  <1>1. CASE srv' = "up"
    BY <1>1, ServerKeepsBooks, ServerKeepsFresh, ServerKeepsConversation,
       ServerKeepsLink, ServerKeepsKillInv DEF ProtocolInv, LinkInv
  <1>2. CASE srv' # "up"
    BY <1>2, EndingStep, EndKeeps
  <1>3. QED
    BY <1>1, <1>2

----------------------------------------------------------------------------
(***************************************************************************)
(* The steps of the children.                                              *)
(***************************************************************************)

\* A step of a child is about that child; it goes on, or it ends with a status
\* that is not a stop, and at its read of the wake-up word only at end of file.
LEMMA ChildMoves ==
    ASSUME TypeOK, NEW p \in Pids, ChildStep(p)
    PROVE  /\ Live(p)
           /\ \/ UNCHANGED <<proc, exit_status, killed>>
              \/ /\ \E s \in EndStatuses : Terminate(p, s)
                 /\ UNCHANGED <<cpc, iter, crash_found, child_pipe, parent_pipe>>
                 /\ cpc[p] = "next" => ~Attended(p) /\ parent_pipe[p] = 0
           /\ \A q \in Pids : q # p => /\ cpc'[q] = cpc[q] /\ iter'[q] = iter[q]
                                       /\ crash_found'[q] = crash_found[q]
                                       /\ child_pipe'[q] = child_pipe[q]
                                       /\ parent_pipe'[q] = parent_pipe[q]
  <1> USE DEF TypeOK, ChildAt, Goto, EndStatuses
  <1>1. CASE StartChild(p)
    BY <1>1 DEF StartChild
  <1>2. CASE \E accepted \in BOOLEAN : PlaceInput(p, accepted)
    BY <1>2 DEF PlaceInput
  <1>3. CASE ExecuteBlock(p)
    BY <1>3 DEF ExecuteBlock, childVars
  <1>4. CASE RequestBlock(p)
    BY <1>4 DEF RequestBlock, BrokenPipe
  <1>5. CASE \E b \in TBs : NameBlock(p, b)
    BY <1>5 DEF NameBlock, BrokenPipe
  <1>6. CASE FinishClean(p)
    BY <1>6 DEF FinishClean
  <1>7. CASE FinishCrash(p)
    BY <1>7 DEF FinishCrash
  <1>8. CASE EmulatorCrashes(p)
    BY <1>8 DEF EmulatorCrashes, childVars
  <1>9. CASE ExitLoop(p)
    BY <1>9 DEF ExitLoop, childVars
  <1>10. CASE ReportRound(p)
    BY <1>10 DEF ReportRound
  <1>11. CASE NextRound(p)
    BY <1>11 DEF NextRound, EndOfParentPipe
  <1>12. QED
    BY <1>1, <1>2, <1>3, <1>4, <1>5, <1>6, <1>7, <1>8, <1>9, <1>10, <1>11
       DEF ChildStep

\* A child moves only while its server is listening to it or gone.
LEMMA ActiveChild ==
    ASSUME IInv, NEW p \in Pids, ChildStep(p)
    PROVE  srv = "up" =>
             /\ p = child_pid
             /\ spc \in {"write_pid", "requests", "read_pc"}
             /\ InStep(p)
  <1> USE DEF IInv
  <1> SUFFICES ASSUME srv = "up"
               PROVE  /\ p = child_pid
                      /\ spc \in {"write_pid", "requests", "read_pc"}
                      /\ InStep(p)
    OBVIOUS
  <1>1. Live(p) /\ proc[p] # "free"
    BY ChildMoves DEF Live
  <1>2. p = child_pid
    BY <1>1 DEF BooksInv
  <1>3. Attended(p)
    BY <1>2 DEF Attended
  <1>4. ~(cpc[p] = "next" /\ parent_pipe[p] = 0)
    <2> SUFFICES ASSUME cpc[p] = "next", parent_pipe[p] = 0 PROVE FALSE
      OBVIOUS
    <2>1. NextRound(p)
      BY DEF ChildStep, StartChild, PlaceInput, ExecuteBlock, RequestBlock,
             NameBlock, FinishClean, FinishCrash, EmulatorCrashes, ExitLoop,
             ReportRound, ChildAt
    <2>2. EndOfParentPipe(p)
      BY <2>1 DEF NextRound
    <2>3. QED
      BY <1>3, <2>2 DEF EndOfParentPipe
  <1>5. ~Parked /\ ~AllFree
    BY <1>1, <1>2, <1>4 DEF Parked, AllFree
  <1>6. spc \in {"write_pid", "requests", "read_pc"}
    BY <1>1, <1>2, <1>5 DEF BooksInv, TypeOK, ServerPoints
  <1>7. QED
    BY <1>2, <1>6 DEF ConversationInv

\* What the step of a child means for the others.
LEMMA ChildEffects ==
    ASSUME IInv, NEW p \in Pids, ChildStep(p)
    PROVE  /\ ~AllFree
           /\ \A q \in Pids : proc'[q] = "free" <=> proc[q] = "free"
           /\ Quiet => Quiet'
           /\ AllDoomed => AllDoomed'
           /\ \A q \in killed' : Live(q)'
  <1> USE DEF IInv, TypeOK, LinkTypeOK, Live
  <1>1. Live(p) /\ ~AllFree
    BY ChildMoves DEF AllFree
  <1>2. /\ \A q \in Pids : proc'[q] = "free" <=> proc[q] = "free"
        /\ \A q \in Pids : Live(q)' => Live(q)
        /\ AllDoomed => AllDoomed'
        /\ \A q \in killed' : Live(q)'
    <2>1. CASE UNCHANGED <<proc, exit_status, killed>>
      BY <2>1 DEF AllDoomed, KillInv
    <2>2. ASSUME NEW s \in EndStatuses, Terminate(p, s)
          PROVE  /\ \A q \in Pids : proc'[q] = "free" <=> proc[q] = "free"
                 /\ \A q \in Pids : Live(q)' => Live(q)
                 /\ AllDoomed => AllDoomed'
                 /\ \A q \in killed' : Live(q)'
      BY <1>1, <2>2 DEF AllDoomed, KillInv, Terminate
    <2>3. QED
      BY <2>1, <2>2, ChildMoves
  <1>3. ASSUME Quiet PROVE Quiet'
    <2>1. cpc[p] = "next" /\ parent_pipe[p] = 0
      BY <1>1, <1>3 DEF Quiet
    <2>2. UNCHANGED <<cpc, parent_pipe>>
      BY <2>1
         DEF ChildStep, StartChild, PlaceInput, ExecuteBlock, RequestBlock,
             NameBlock, FinishClean, FinishCrash, EmulatorCrashes, ExitLoop,
             ReportRound, NextRound, ChildAt
    <2>3. QED
      BY <1>2, <1>3, <2>2 DEF Quiet
  <1>4. QED
    BY <1>1, <1>2, <1>3

\* No step of a child touches the server's books, and the counter of a child
\* moves only when there is another round.
LEMMA ChildKeepsBooks ==
    ASSUME IInv, NEW p \in Pids, ChildStep(p)
    PROVE  BooksInv' /\ FreshInv' /\ IterInv' /\ NoStops'
  <1> USE DEF IInv
  <1>a. UNCHANGED <<srv, spc, child_pid, child_ret, status, persistent_iters>>
    BY ChildFrame DEF serverVars, constVars
  <1>b. \A q \in Pids : proc'[q] = "free" <=> proc[q] = "free"
    BY ChildEffects
  <1>1. BooksInv'
    BY <1>a, <1>b, ActiveChild DEF BooksInv
  <1>2. FreshInv'
    BY <1>b, ChildMoves DEF FreshInv, Live
  <1>3. IterInv'
    <2>1. persistent_iters \in Nat /\ iter \in [Pids -> Nat]
          /\ parent_pipe \in [Pids -> Nat] /\ cpc \in [Pids -> ChildPoints]
      BY UnicornAssumption DEF TypeOK
    <2>2. ASSUME persistent_iters # 0
          PROVE  /\ iter'[p] + 1 <= persistent_iters
                 /\ cpc'[p] = "next" => iter'[p] + 1 < persistent_iters
      <3>0. /\ iter[p] + 1 <= persistent_iters
            /\ cpc[p] = "next" => iter[p] + 1 < persistent_iters
        BY <2>2 DEF IterInv
      <3>1. CASE NextRound(p)
        <4>1. CASE parent_pipe[p] > 0
          <5>1. iter'[p] = iter[p] + 1 /\ cpc[p] = "next" /\ cpc'[p] = "place"
            BY <2>1, <2>2, <3>1, <4>1 DEF NextRound, ChildAt, Goto
          <5>2. iter[p] \in Nat
            BY <2>1
          <5>3. iter[p] + 1 + 1 <= persistent_iters
            BY <2>1, <3>0, <5>1, <5>2
          <5>4. QED
            BY <5>1, <5>3
        <4>2. CASE ~(parent_pipe[p] > 0)
          BY <3>0, <3>1, <4>2 DEF NextRound
        <4>3. QED
          BY <4>1, <4>2
      <3>2. CASE ReportRound(p)
        <4>1. iter'[p] = iter[p] /\ iter[p] \in Nat
          BY <2>1, <3>2 DEF ReportRound
        <4>2. iter[p] + 1 < persistent_iters
          BY <2>1, <2>2, <3>2, <4>1 DEF ReportRound, LoopEnds
        <4>3. QED
          BY <3>0, <4>1, <4>2
      <3>3. CASE ~(NextRound(p) \/ ReportRound(p))
        <4>1. iter' = iter
          BY <3>3
             DEF ChildStep, StartChild, PlaceInput, ExecuteBlock, RequestBlock,
                 NameBlock, FinishClean, FinishCrash, EmulatorCrashes, ExitLoop,
                 BrokenPipe, childVars
        <4>2. cpc'[p] = "next" => cpc[p] = "next"
          BY <2>1, <3>3
             DEF ChildStep, StartChild, PlaceInput, ExecuteBlock, RequestBlock,
                 NameBlock, FinishClean, FinishCrash, EmulatorCrashes, ExitLoop,
                 BrokenPipe, Goto, childVars
        <4>3. QED
          BY <3>0, <4>1, <4>2
      <3>4. QED
        BY <3>1, <3>2, <3>3
    <2>3. \A q \in Pids : q # p => iter'[q] = iter[q] /\ cpc'[q] = cpc[q]
      BY ChildMoves
    <2>4. QED
      BY <1>a, <2>2, <2>3 DEF IterInv
  <1>4. NoStops'
    <2>1. CASE exit_status' = exit_status
      BY <1>a, <2>1 DEF LinkInv, NoStops
    <2>2. ASSUME NEW s \in EndStatuses, Terminate(p, s) PROVE NoStops'
      BY <1>a, <2>2 DEF LinkInv, NoStops, Terminate, TypeOK, LinkTypeOK
    <2>3. QED
      BY <2>1, <2>2, ChildMoves
  <1>5. QED
    BY <1>1, <1>2, <1>3, <1>4

\* A child writes a block after each request, and nothing after the end of its
\* round until it has been woken up.
LEMMA ChildKeepsConversation ==
    ASSUME IInv, NEW p \in Pids, ChildStep(p)
    PROVE  ConversationInv'
  <1> USE DEF IInv
  <1>a. UNCHANGED <<srv, spc, child_pid>>
    BY ChildFrame DEF serverVars
  <1> SUFFICES ASSUME srv = "up" PROVE InStep(p)'
    BY <1>a, ActiveChild DEF ConversationInv
  <1>b. /\ Attended(p) /\ InStep(p)
        /\ child_pipe[p] \in Seq(Messages) /\ cpc[p] \in ChildPoints
    BY ActiveChild DEF Attended, TypeOK
  <1>c. /\ cpc \in [Pids -> ChildPoints]
        /\ child_pipe \in [Pids -> Seq(Messages)]
        /\ parent_pipe \in [Pids -> Nat]
    BY DEF TypeOK
  <1> DEFINE s == child_pipe[p]
             t == child_pipe'[p]
  <1>1. CASE UNCHANGED <<cpc, child_pipe, parent_pipe>>
    <2>1. InStep(p)' <=> InStep(p)
      BY <1>a, <1>1 DEF InStep
    <2>2. QED
      BY <1>b, <2>1
  <1>2. ASSUME t = s, parent_pipe'[p] = parent_pipe[p],
               cpc[p] \in {"start", "place", "emulate", "end_of_loop"},
               cpc'[p] \in {"start", "place", "emulate", "end_of_loop"}
        PROVE  InStep(p)'
    BY <1>a, <1>b, <1>2 DEF InStep
  <1>3. CASE StartChild(p) \/ (\E accepted \in BOOLEAN : PlaceInput(p, accepted))
             \/ FinishClean(p)
    BY <1>2, <1>3, <1>c DEF StartChild, PlaceInput, FinishClean, ChildAt, Goto
  <1>4. CASE FinishCrash(p)
    BY <1>1, <1>2, <1>4, <1>c DEF FinishCrash, ChildAt, Goto
  <1>5. CASE ExecuteBlock(p) \/ EmulatorCrashes(p) \/ ExitLoop(p)
    BY <1>1, <1>5 DEF ExecuteBlock, EmulatorCrashes, ExitLoop, childVars
  <1>6. ASSUME NEW m \in Messages, t = Append(s, m),
               parent_pipe'[p] = parent_pipe[p],
               \/ /\ cpc[p] = "emulate" /\ cpc'[p] = "request_tb"
                  /\ m = "TSL_REQUEST"
               \/ /\ cpc[p] = "request_tb" /\ cpc'[p] = "emulate"
                  /\ m \in TBs
               \/ /\ cpc[p] = "end_of_loop" /\ cpc'[p] = "next"
                  /\ m \in Rounds
        PROVE  InStep(p)'
    <2>1. /\ Alternates(s)
          /\ s # <<>> => (Head(s) \in TBs <=> spc = "read_pc")
          /\ parent_pipe[p] = 0
          /\ cpc[p] = "request_tb" =>
               IF s = <<>> THEN spc = "read_pc" ELSE Final(s) = "TSL_REQUEST"
          /\ cpc[p] # "request_tb" =>
               IF s = <<>> THEN spc # "read_pc" ELSE Final(s) \in TBs
      BY <1>b, <1>6 DEF InStep
    <2>2. /\ m = "TSL_REQUEST" => m \notin TBs
          /\ m \in Rounds => m \notin TBs /\ m # "TSL_REQUEST"
      BY MessageKinds
    <2>3. \/ s = <<>>
          \/ Final(s) \in TBs /\ m \notin TBs
          \/ Final(s) = "TSL_REQUEST" /\ m \in TBs
      BY <1>6, <2>1, <2>2
    <2>4. /\ Alternates(t) /\ t # <<>> /\ Final(t) = m
          /\ s # <<>> => Head(t) = Head(s)
          /\ s = <<>> => Head(t) = m
      <3>1. s \in Seq(Messages)
        BY <1>b
      <3> HIDE DEF s, t
      <3>2. QED
        BY <1>6, <2>1, <2>3, <3>1, AppendInTurn
    <2>5. Head(t) \in TBs <=> spc = "read_pc"
      BY <1>6, <2>1, <2>2, <2>4
    <2>6. QED
      BY <1>a, <1>6, <2>1, <2>4, <2>5 DEF InStep
  <1>7. CASE RequestBlock(p)
    <2>1. "TSL_REQUEST" \in Messages
      BY DEF Messages
    <2>2. /\ child_pipe' = [child_pipe EXCEPT ![p] = Append(s, "TSL_REQUEST")]
          /\ cpc' = [cpc EXCEPT ![p] = "request_tb"]
          /\ cpc[p] = "emulate" /\ parent_pipe' = parent_pipe
      BY <1>7, <1>b DEF RequestBlock, ChildAt, Goto
    <2>3. QED
      BY <1>6, <1>c, <2>1, <2>2
  <1>8. ASSUME NEW b \in TBs, NameBlock(p, b) PROVE InStep(p)'
    <2>1. b \in Messages
      BY DEF Messages
    <2>2. /\ child_pipe' = [child_pipe EXCEPT ![p] = Append(s, b)]
          /\ cpc' = [cpc EXCEPT ![p] = "emulate"]
          /\ cpc[p] = "request_tb" /\ parent_pipe' = parent_pipe
      BY <1>8, <1>b DEF NameBlock, ChildAt, Goto
    <2>3. QED
      BY <1>6, <1>c, <2>1, <2>2
  <1>9. CASE ReportRound(p)
    <2>1. RoundMessage(p) \in Messages /\ RoundMessage(p) \in Rounds
      BY DEF Messages, Rounds, RoundMessage
    <2>2. /\ child_pipe' = [child_pipe EXCEPT ![p] = Append(s, RoundMessage(p))]
          /\ cpc' = [cpc EXCEPT ![p] = "next"]
          /\ cpc[p] = "end_of_loop" /\ parent_pipe' = parent_pipe
      BY <1>9, <1>b DEF ReportRound, ChildAt, Goto
    <2>3. QED
      BY <1>6, <1>c, <2>1, <2>2
  <1>10. CASE NextRound(p)
    <2>1. parent_pipe[p] > 0 /\ cpc[p] = "next"
      BY <1>10, <1>b DEF NextRound, EndOfParentPipe, ChildAt
    <2>2. parent_pipe[p] = 1 /\ s = <<>>
      BY <1>b, <2>1 DEF InStep
    <2>3. spc # "read_pc"
      BY <1>b, <2>1, <2>2 DEF InStep
    <2>4. parent_pipe' = [parent_pipe EXCEPT ![p] = parent_pipe[p] - 1]
      BY <1>10, <2>1 DEF NextRound
    <2>5. parent_pipe'[p] = 0
      BY <1>c, <2>2, <2>4
    <2>6. cpc'[p] = "place" /\ t = <<>>
      BY <1>10, <1>c, <2>1, <2>2 DEF NextRound, Goto
    <2>7. Alternates(<<>>)
      BY DEF Alternates
    <2>8. QED
      BY <1>a, <2>3, <2>5, <2>6, <2>7 DEF InStep, Alternates
  <1>11. QED
    BY <1>3, <1>4, <1>5, <1>7, <1>8, <1>9, <1>10 DEF ChildStep

\* A child writes to neither pipe of the fuzzer, and kills nobody.
LEMMA ChildKeepsLink ==
    ASSUME IInv, NEW p \in Pids, ChildStep(p)
    PROVE  BetweenRuns' /\ AwaitingPid' /\ AwaitingStatus' /\ RequestInv'
           /\ InputInv' /\ KillInv'
  <1> USE DEF IInv, LinkInv, clientVars, serverVars
  <1>a. UNCHANGED <<ctl, st, input, srv, clientVars, serverVars>>
    BY ChildFrame
  <1>b. /\ ~AllFree
        /\ Quiet => Quiet'
        /\ AllDoomed => AllDoomed'
        /\ \A q \in killed' : Live(q)'
    BY ChildEffects
  <1>1. BetweenRuns'
    BY <1>a, <1>b DEF BetweenRuns
  <1>2. AwaitingPid'
    BY <1>a, <1>b DEF AwaitingPid
  <1>3. AwaitingStatus'
    BY <1>a, <1>b DEF AwaitingStatus
  <1>4. RequestInv' /\ InputInv'
    BY <1>a, <1>b DEF RequestInv, InputInv
  <1>5. KillInv'
    <2>1. Wanted' <=> Wanted
      BY <1>a DEF Wanted
    <2>2. ASSUME Wanted
          PROVE  /\ killed' = {}
                 /\ \A q \in Pids : proc'[q] = "zombie" => cpc'[q] # "next"
      <3>1. killed = {} /\ \A q \in Pids : proc[q] = "zombie" => cpc[q] # "next"
        BY <2>2 DEF KillInv
      <3>2. Live(p) /\ Attended(p)
        BY <2>2, ActiveChild, ChildMoves DEF Wanted, Attended
      <3>3. CASE UNCHANGED <<proc, exit_status, killed>>
        BY <3>1, <3>2, <3>3, ChildMoves DEF Live
      <3>4. ASSUME NEW s \in EndStatuses, Terminate(p, s), UNCHANGED cpc,
                   cpc[p] # "next"
            PROVE  /\ killed' = {}
                   /\ \A q \in Pids : proc'[q] = "zombie" => cpc'[q] # "next"
        BY <3>1, <3>4 DEF Terminate, TypeOK, LinkTypeOK
      <3>5. QED
        BY <3>2, <3>3, <3>4, ChildMoves
    <2>3. QED
      BY <1>b, <2>1, <2>2 DEF KillInv
  <1>6. QED
    BY <1>1, <1>2, <1>3, <1>4, <1>5

\* Nor does a child that dies, which only a child can that nobody wants.
LEMMA DeathKeeps ==
    ASSUME IInv, NEW p \in Pids, ChildDies(p), UNCHANGED <<clientVars, localVars>>
    PROVE  ProtocolInv'
  <1> USE DEF IInv, LinkInv
  <1>a. /\ UNCHANGED <<ctl, st, input, srv, clientVars, serverVars, childVars,
                       constVars>>
        /\ Live(p) /\ p \in killed /\ Terminate(p, "signaled")
    BY DEF ChildDies, localVars
  <1>b. /\ proc \in [Pids -> {"free", "live", "zombie"}]
        /\ exit_status \in [Pids -> Statuses] /\ killed \subseteq Pids
    BY DEF TypeOK, LinkTypeOK
  <1>c. /\ \A q \in Pids : proc'[q] = "free" <=> proc[q] = "free"
        /\ \A q \in Pids : Live(q)' <=> Live(q) /\ q # p
        /\ \A q \in Pids : exit_status'[q] \in {exit_status[q], "signaled"}
        /\ killed' = killed \ {p}
    BY <1>a, <1>b DEF Terminate, Live
  <1>d. /\ ~AllFree
        /\ AllFree' <=> AllFree
        /\ Quiet => Quiet'
        /\ AllDoomed => AllDoomed'
        /\ Parked' <=> Parked
    BY <1>a, <1>c DEF AllFree, Quiet, AllDoomed, Live, Parked, childVars, serverVars
  <1>1. BooksInv'
    BY <1>a, <1>c, <1>d DEF BooksInv, serverVars
  <1>2. FreshInv' /\ IterInv'
    BY <1>a, <1>c DEF FreshInv, IterInv, childVars, constVars
  <1>3. ConversationInv'
    <2>1. \A q : InStep(q)' <=> InStep(q)
      BY <1>a DEF InStep, childVars, serverVars
    <2>2. QED
      BY <1>a, <2>1 DEF ConversationInv, serverVars
  <1>4. NoStops'
    BY <1>a, <1>c DEF NoStops, EndStatuses, serverVars
  <1>5. BetweenRuns'
    BY <1>a, <1>d DEF BetweenRuns, clientVars, serverVars
  <1>6. AwaitingPid'
    BY <1>a, <1>d DEF AwaitingPid, clientVars, serverVars
  <1>7. AwaitingStatus'
    BY <1>a, <1>d DEF AwaitingStatus, clientVars, serverVars
  <1>8. RequestInv' /\ InputInv'
    BY <1>a, <1>d DEF RequestInv, InputInv, clientVars, serverVars
  <1>9. KillInv'
    <2>1. ~Wanted
      BY <1>a DEF KillInv
    <2>2. Wanted' <=> Wanted
      BY <1>a DEF Wanted, clientVars, serverVars
    <2>3. QED
      BY <1>b, <1>c, <2>1, <2>2 DEF KillInv
  <1>10. QED
    BY <1>1, <1>2, <1>3, <1>4, <1>5, <1>6, <1>7, <1>8, <1>9 DEF ProtocolInv

----------------------------------------------------------------------------
(***************************************************************************)
(* The theorems about the protocol.                                        *)
(***************************************************************************)

\* A state with the same variables but for the signal to the server satisfies
\* the invariant as well.
LEMMA SameState ==
    ASSUME IInv,
           UNCHANGED <<ctl, st, input, trace_bits, proc, exit_status, killed,
                       srv, ran, truth, clientVars, localVars>>
    PROVE  ProtocolInv'
  <1> USE DEF IInv, LinkInv, clientVars, localVars, serverVars, childVars,
              constVars
  <1>1. /\ AllFree' <=> AllFree
        /\ Quiet' <=> Quiet
        /\ AllDoomed' <=> AllDoomed
        /\ Parked' <=> Parked
    BY DEF AllFree, Quiet, AllDoomed, Parked, Live
  <1>2. BooksInv'
    BY <1>1 DEF BooksInv, Live
  <1>3. FreshInv' /\ IterInv' /\ NoStops'
    BY DEF FreshInv, IterInv, NoStops
  <1>4. ConversationInv'
    BY DEF ConversationInv, InStep, Alternates, Final
  <1>5. BetweenRuns'
    BY <1>1 DEF BetweenRuns
  <1>6. AwaitingPid'
    BY <1>1 DEF AwaitingPid
  <1>7. AwaitingStatus'
    BY <1>1 DEF AwaitingStatus
  <1>8. RequestInv' /\ InputInv'
    BY <1>1 DEF RequestInv, InputInv
  <1>9. KillInv'
    BY DEF KillInv, Wanted, Live
  <1>10. QED
    BY <1>2, <1>3, <1>4, <1>5, <1>6, <1>7, <1>8, <1>9 DEF ProtocolInv

\* IInv holds initially and every step preserves it.
LEMMA NextKeepsInv == IInv /\ [Next]_vars => IInv'
  <1> SUFFICES ASSUME IInv, [Next]_vars PROVE IInv'
    OBVIOUS
  <1>a. IInv' <=> TypeOK' /\ ProtocolInv'
    BY DEF IInv, ProtocolInv
  <1>1. CASE ClientStep /\ UNCHANGED localVars
    <2>1. TypeOK'
      <3>1. SharedTypeOK'
        BY <1>1, ClientStepType, TypeParts DEF IInv
      <3>2. ServerTypeOK' /\ ChildTypeOK' /\ ConstTypeOK'
        BY <1>1, TypeParts
           DEF IInv, ServerTypeOK, ChildTypeOK, ConstTypeOK, localVars,
               serverVars, childVars, constVars
      <3>3. QED
        BY <3>1, <3>2
           DEF TypeOK, SharedTypeOK, ServerTypeOK, ChildTypeOK, ConstTypeOK
    <2>2. QED
      BY <1>a, <1>1, <2>1, ClientKeepsBooks, ClientKeepsLinkInv,
         ClientKeepsKillInv DEF ProtocolInv, LinkInv
  <1>2. CASE ServerStep
    BY <1>a, <1>2, ServerStepType, ServerKeeps DEF IInv
  <1>3. ASSUME NEW p \in Pids, ChildStep(p) PROVE IInv'
    <2>1. input \in Testcases
      <3>1. ~AllFree
        BY <1>3, ChildEffects
      <3>2. QED
        BY <3>1 DEF IInv, LinkInv, InputInv, TypeOK, LinkTypeOK
    <2>2. TypeOK'
      BY <1>3, <2>1, ChildStepType DEF IInv
    <2>3. QED
      BY <1>a, <1>3, <2>2, ChildKeepsBooks, ChildKeepsConversation,
         ChildKeepsLink DEF ProtocolInv, LinkInv
  <1>4. CASE ServerDies
    <2>1. TypeOK'
      BY <1>4
         DEF IInv, TypeOK, LinkTypeOK, ClientTypeOK, ServerDies, ServerEnds,
             clientVars, serverVars, childVars, constVars
    <2>2. ProtocolInv'
      BY <1>4, EndKeeps DEF ServerDies, ServerEnds, serverVars
    <2>3. QED
      BY <1>a, <2>1, <2>2
  <1>5. ASSUME NEW p \in Pids, ChildDies(p), UNCHANGED <<clientVars, localVars>>
        PROVE  IInv'
    <2>1. TypeOK'
      <3>1. LinkTypeOK'
        BY <1>5 DEF IInv, TypeOK, LinkTypeOK, ChildDies, Terminate, Statuses
      <3>2. QED
        BY <1>5, <3>1
           DEF IInv, TypeOK, ClientTypeOK, clientVars, localVars, serverVars,
               childVars, constVars
    <2>2. QED
      BY <1>a, <1>5, <2>1, DeathKeeps
  <1>6. CASE ServerLost
    <2>1. TypeOK'
      BY <1>6
         DEF IInv, TypeOK, LinkTypeOK, ClientTypeOK, ServerLost, clientVars,
             serverVars, childVars, constVars
    <2>2. ProtocolInv'
      BY <1>6, SameState DEF ServerLost, localVars
    <2>3. QED
      BY <1>a, <2>1, <2>2
  <1>7. CASE UNCHANGED vars
    <2>1. TypeOK'
      BY <1>7
         DEF IInv, TypeOK, LinkTypeOK, ClientTypeOK, vars, linkVars, clientVars,
             serverVars, childVars, constVars
    <2>2. ProtocolInv'
      BY <1>7, SameState DEF vars, linkVars, localVars
    <2>3. QED
      BY <1>a, <2>1, <2>2
  <1>8. QED
    BY <1>1, <1>2, <1>3, <1>4, <1>5, <1>6, <1>7 DEF Next, Finished

\* The first half of the inductive invariant holds throughout: what is in the
\* four kinds of pipes, and which children exist, at every point of the exchange.
THEOREM Invariance == Spec => []IInv
  BY InitInv, NextKeepsInv, PTL DEF Spec

\* Every variable of the protocol keeps its type; in particular no word but a
\* pid and a wait status is written to the fuzzer.
THEOREM TypeCorrect == Spec => []TypeOK
  <1>1. IInv => TypeOK
    BY DEF IInv
  <1>2. QED
    BY <1>1, Invariance, PTL

\* When afl_fsrv_run_target has returned, every child of the fork server is
\* dead or blocked in _afl_next, so the map does not change and the test case
\* is not read until the next request.
THEOREM MapIsQuiescent == Spec => []MapQuiescent
  <1>1. IInv => MapQuiescent
    BY DEF IInv, LinkInv, BetweenRuns, Quiet, MapQuiescent
  <1>2. QED
    BY <1>1, Invariance, PTL

\* The server has one child at most and knows whether it can be continued; it
\* waits only for one that will die and wakes only one that waits; and the pid
\* that the fuzzer would kill on a timeout is that child's.
THEOREM ChildrenAreAccountedFor == Spec => []ChildrenAccountedFor
  <1>1. IInv => ChildrenAccountedFor
    <2> SUFFICES ASSUME IInv, srv = "up" PROVE ChildrenAccountedFor
      BY DEF ChildrenAccountedFor
    <2> USE DEF IInv, LinkInv
    <2>1. apc \in {"wait", "expired"} => fsrv_child_pid = child_pid
      BY DEF AwaitingStatus
    <2>2. spc = "reap" => ~Live(child_pid) \/ child_pid \in killed
      BY DEF BooksInv, AllDoomed
    <2>3. ASSUME spc = "resume", ClientUp PROVE ChildAt(child_pid, "next")
      <3>1. Parked
        BY <2>3 DEF BooksInv
      <3>2. apc = "read_pid"
        BY <2>3
           DEF BetweenRuns, AwaitingStatus, ClientUp, TypeOK, ClientTypeOK,
               ClientPoints
      <3>3. ctl = <<>> /\ ~last_run_timed_out
        BY <2>3 DEF RequestInv
      <3>4. Wanted
        BY <2>3, <3>2, <3>3, PipeFacts DEF Wanted
      <3>5. proc[child_pid] # "zombie" /\ proc[child_pid] # "free"
        BY <3>1, <3>4 DEF KillInv, Parked
      <3>6. QED
        BY <3>1, <3>5 DEF Parked, ChildAt, Live, TypeOK, LinkTypeOK
    <2>4. spc \in {"reap", "waitpid"} => proc[child_pid] # "free"
      BY DEF BooksInv
    <2>5. \A p \in Pids : proc[p] # "free" => p = child_pid /\ spc # "fork"
      BY DEF BooksInv
    <2>6. QED
      BY <2>1, <2>2, <2>3, <2>4, <2>5 DEF ChildrenAccountedFor
  <1>2. QED
    BY <1>1, Invariance, PTL

\* Whatever the moment at which a child is killed, the server never takes the
\* address of a block for a message, nor a message for an address.
THEOREM WordsInStep == Spec => []MessagesInStep
  <1>1. IInv => MessagesInStep
    BY DEF IInv, BooksInv, ConversationInv, InStep, MessagesInStep
  <1>2. QED
    BY <1>1, Invariance, PTL

----------------------------------------------------------------------------
(***************************************************************************)
(* Whose execution an answer is about: the steps of the fuzzer.            *)
(***************************************************************************)

\* What the first half of the invariant says where a run begins and ends.
LEMMA PointFacts ==
    ASSUME IInv
    PROVE  /\ apc \in {"ready", "idle"} /\ ~stop_soon =>
                /\ st = <<>> /\ Quiet
                /\ srv = "up" => ctl = <<>> /\ spc = "read_ctl"
           /\ apc \in {"wait", "expired", "drain"} =>
                /\ st = <<>> \/ \E s \in Words : st = <<s>> /\ Quiet
                /\ srv = "up" => ctl = <<>>
                /\ srv = "up" =>
                     spc \in {"requests", "read_pc", "waitpid", "write_status", "read_ctl"}
                /\ srv = "up" /\ spc # "read_ctl" => st = <<>>
           /\ apc = "read_pid" =>
                \/ st = <<>>
                \/ \E w \in Words : st = <<w>>
                \/ \E w, s \in Words : st = <<w, s>> /\ Quiet
           /\ srv = "up" /\ ctl # <<>> => spc = "read_ctl"
  <1> USE PipeFacts DEF IInv, LinkInv
  <1>1. apc \in {"ready", "idle"} /\ ~stop_soon =>
                /\ st = <<>> /\ Quiet
                /\ srv = "up" => ctl = <<>> /\ spc = "read_ctl"
    BY DEF BetweenRuns
  <1>2. apc \in {"wait", "expired", "drain"} =>
                /\ st = <<>> \/ \E s \in Words : st = <<s>> /\ Quiet
                /\ srv = "up" => ctl = <<>>
                /\ srv = "up" =>
                     spc \in {"requests", "read_pc", "waitpid", "write_status", "read_ctl"}
                /\ srv = "up" /\ spc # "read_ctl" => st = <<>>
    BY DEF AwaitingStatus, EndStatuses, Words, Statuses
  <1>3. apc = "read_pid" =>
                \/ st = <<>>
                \/ \E w \in Words : st = <<w>>
                \/ \E w, s \in Words : st = <<w, s>> /\ Quiet
    BY DEF AwaitingPid, EndStatuses, Words, Statuses
  <1>4. srv = "up" /\ ctl # <<>> => spc = "read_ctl"
    BY DEF RequestInv
  <1>5. QED
    BY <1>1, <1>2, <1>3, <1>4

\* A step that leaves the history of the run, the children and their pipes
\* alone leaves what is known of it alone; the timeout only takes from it.
LEMMA SameRun ==
    ASSUME UNCHANGED <<input, trace_bits, ran, truth, last_iteration>>,
           last_run_timed_out => last_run_timed_out'
    PROVE  /\ Untouched' <=> Untouched
           /\ Covered' <=> Covered
           /\ \A s : Told(s) => Told(s)'
           /\ UNCHANGED <<proc, exit_status, childVars, persistent_iters>> =>
                \A p : Progress(p) => Progress(p)'
  <1>1. /\ Untouched' <=> Untouched
        /\ Covered' <=> Covered
    BY DEF Untouched, Covered
  <1>2. \A s : Told(s) => Told(s)'
    BY <1>1 DEF Told
  <1>3. ASSUME UNCHANGED <<proc, exit_status, childVars, persistent_iters>>, NEW p,
               Progress(p)
        PROVE  Progress(p)'
    <2>1. Marked(p)' <=> Marked(p)
      BY <1>3 DEF Marked, childVars
    <2>2. Final(child_pipe[p])' = Final(child_pipe[p])
      BY <1>3 DEF Final, childVars
    <2>3. Told(exit_status[p]) => Told(exit_status[p])'
      BY <1>2, <1>3
    <2>4. QED
      BY <1>1, <1>3, <2>1, <2>2, <2>3 DEF Progress, Live, childVars
  <1>4. QED
    BY <1>1, <1>2, <1>3

\* The fuzzer starts a run with nothing executed, and what it reads at its end
\* is what the server has been told.
LEMMA ClientKeepsRun ==
    ASSUME IInv, RunInv, ClientStep, UNCHANGED localVars
    PROVE  RunInv'
  <1>0. /\ UNCHANGED <<proc, exit_status, childVars, persistent_iters,
                       last_iteration, spc, child_pid, status>>
        /\ srv' = "up" <=> srv = "up"
    BY ClientFrame DEF localVars, serverVars, constVars
  <1> USE PipeFacts, PointFacts
          DEF RunInv, NotStarted, UnderWay, StatusTold, VerdictMatchesRun,
              CoverageMatchesRun, Busy, Runs, Answered
  <1>1. ASSUME NEW t \in Testcases, WriteTestcase(t) PROVE RunInv'
    BY <1>0, <1>1 DEF WriteTestcase
  <1>2. CASE SendRequest
    <2>1. CASE stop_soon
      BY <1>2, <2>1 DEF SendRequest
    <2>2. CASE ~stop_soon /\ srv = "up"
      <3>1. /\ apc' = "read_pid" /\ trace_bits' = {} /\ st' = <<>>
            /\ ran' = <<>> /\ truth' = "none"
            /\ spc' = "read_ctl"
        BY <1>0, <1>2, <2>2 DEF SendRequest
      <3>2. QED
        BY <1>0, <2>2, <3>1 DEF Untouched
    <2>3. CASE ~stop_soon /\ srv # "up"
      BY <1>0, <1>2, <2>3 DEF SendRequest, GiveUp
    <2>4. QED
      BY <2>1, <2>2, <2>3
  <1>3. CASE ReadChildPid
    <2>1. CASE stop_soon
      BY <1>3, <2>1 DEF ReadChildPid
    <2>2. CASE ~stop_soon /\ st # <<>> /\ Head(st) \in Pids
      <3>1. /\ apc = "read_pid" /\ apc' = "wait" /\ st' = Tail(st) /\ ~stop_soon'
            /\ UNCHANGED <<ctl, input, trace_bits, ran, truth, last_run_timed_out>>
        BY <1>3, <2>2 DEF ReadChildPid
      <3>2. ASSUME NEW s \in Words, st' = <<s>> PROVE Told(s)
        BY <2>2, <3>1, <3>2
      <3>3. /\ Untouched' <=> Untouched
            /\ \A s : Told(s) => Told(s)'
            /\ \A p : Progress(p) => Progress(p)'
        BY <1>0, <3>1, SameRun
      <3>4. QED
        BY <1>0, <2>2, <3>1, <3>2, <3>3
    <2>3. CASE ~stop_soon /\ ~(st # <<>> /\ Head(st) \in Pids)
      BY <1>3, <2>3 DEF ReadChildPid, GiveUp
    <2>4. QED
      BY <2>1, <2>2, <2>3
  <1>4. CASE ReadStatus \/ DrainStatus
    <2>1. CASE stop_soon
      BY <1>4, <2>1 DEF ReadStatus, DrainStatus
    <2>2. CASE ~stop_soon /\ st # <<>>
      <3>1. /\ apc \in {"wait", "drain"} /\ apc' = "idle"
            /\ fault' = Verdict(Head(st))
            /\ UNCHANGED <<input, trace_bits, ran, truth>>
        BY <1>0, <1>4, <2>2 DEF ReadStatus, DrainStatus, Conclude
      <3>2. PICK s \in Words : st = <<s>>
        BY <2>2, <3>1
      <3>3. Told(s) /\ Head(st) = s
        BY <2>2, <3>1, <3>2
      <3>4. VerdictMatchesRun'
        BY <1>0, <3>1, <3>3 DEF Told, Verdict
      <3>5. CoverageMatchesRun'
        BY <3>1, <3>3 DEF Told, Covered
      <3>6. QED
        BY <3>1, <3>4, <3>5
    <2>3. CASE ~stop_soon /\ st = <<>>
      BY <1>4, <2>3 DEF ReadStatus, DrainStatus, GiveUp
    <2>4. QED
      BY <2>1, <2>2, <2>3
  <1>5. CASE TimerExpires \/ KillTimedOut
    <2>1. /\ apc \in {"wait", "expired"} /\ apc' \in {"expired", "drain"}
          /\ UNCHANGED <<ctl, st, input, trace_bits, ran, truth, stop_soon>>
          /\ last_run_timed_out => last_run_timed_out'
      BY <1>5 DEF TimerExpires, KillTimedOut, linkVars
    <2>2. /\ Untouched' <=> Untouched
          /\ \A s : Told(s) => Told(s)'
          /\ \A p : Progress(p) => Progress(p)'
      BY <1>0, <2>1, SameRun
    <2>3. QED
      BY <1>0, <2>1, <2>2
  <1>6. CASE \/ StopSignal \/ StopHandlerReturns \/ KillForkserver
             \/ ForkserverKilled \/ AtExit
    <2>1. CASE stop_soon' \/ apc' \in {"reap", "exiting", "exited"}
      BY <2>1
    <2>2. CASE ~stop_soon' /\ apc' \notin {"reap", "exiting", "exited"}
      <3>1. UNCHANGED <<ctl, st, input, trace_bits, ran, truth, last_run_timed_out,
                        apc, fault, stop_soon>>
        BY <1>6, <2>2 DEF StopSignal, StopHandlerReturns, KillForkserver,
                          ForkserverKilled, AtExit
      <3>2. /\ Untouched' <=> Untouched
            /\ \A s : Told(s) => Told(s)'
            /\ \A p : Progress(p) => Progress(p)'
        BY <1>0, <3>1, SameRun
      <3>3. QED
        BY <1>0, <3>1, <3>2
    <2>3. QED
      BY <2>1, <2>2
  <1>7. QED
    BY <1>1, <1>2, <1>3, <1>4, <1>5, <1>6 DEF ClientStep

----------------------------------------------------------------------------
(***************************************************************************)
(* Whose execution an answer is about: the steps of the children.          *)
(***************************************************************************)

\* A child that waits for a wake-up word in vain touches nothing.
LEMMA QuietChild ==
    ASSUME IInv, Quiet, NEW p \in Pids, ChildStep(p)
    PROVE  UNCHANGED <<trace_bits, ran, truth, last_iteration>>
  <1>1. cpc[p] = "next" /\ parent_pipe[p] = 0
    BY ChildMoves DEF IInv, Quiet
  <1>2. NextRound(p)
    BY <1>1
       DEF ChildStep, StartChild, PlaceInput, ExecuteBlock, RequestBlock,
           NameBlock, FinishClean, FinishCrash, EmulatorCrashes, ExitLoop,
           ReportRound, ChildAt
  <1>3. ~(parent_pipe[p] > 0)
    BY <1>1
  <1>4. QED
    BY <1>2, <1>3 DEF NextRound

\* What a child that is attended to does to the history of its run.
LEMMA ChildMakesProgress ==
    ASSUME IInv, srv = "up", NEW p \in Pids, ChildStep(p), Progress(p)
    PROVE  Progress(p)'
  <1>0. /\ proc[p] = "live" /\ Attended(p) /\ InStep(p)
        /\ input' = input /\ last_run_timed_out' = last_run_timed_out
        /\ persistent_iters' = persistent_iters
    BY ChildMoves, ActiveChild, ChildFrame
       DEF IInv, Live, Attended, clientVars, constVars
  <1>a. /\ proc \in [Pids -> {"free", "live", "zombie"}]
        /\ exit_status \in [Pids -> Statuses]
        /\ cpc \in [Pids -> ChildPoints]
        /\ tc \in [Pids -> Testcases \cup {NoTestcase}]
        /\ iter \in [Pids -> Nat]
        /\ crash_found \in [Pids -> BOOLEAN]
        /\ child_pipe \in [Pids -> Seq(Messages)]
        /\ parent_pipe \in [Pids -> Nat]
        /\ truth \in Outcomes
        /\ last_iteration \in BOOLEAN
        /\ persistent_iters \in Nat
    BY UnicornAssumption DEF IInv, TypeOK, LinkTypeOK
  <1> USE DEF ChildAt, Goto, Live
  <1>1. CASE StartChild(p)
    BY <1>0, <1>a, <1>1 DEF StartChild, Progress, Untouched
  <1>2. ASSUME NEW accepted \in BOOLEAN, PlaceInput(p, accepted)
        PROVE  Progress(p)'
    <2>1. ran = <<>> /\ truth = "none" /\ trace_bits = {} /\ crash_found[p] = FALSE
      BY <1>0, <1>2 DEF PlaceInput, Progress, Untouched
    <2>2. /\ ran' = <<input>> /\ tc'[p] = input /\ trace_bits' = {}
          /\ crash_found'[p] = FALSE /\ proc'[p] = "live"
          /\ cpc'[p] = IF accepted THEN "emulate" ELSE "end_of_loop"
          /\ truth' = IF accepted THEN "none" ELSE "rejected"
      BY <1>0, <1>a, <1>2, <2>1, PipeFacts DEF PlaceInput
    <2>3. Marked(p)'
      BY <1>0, <1>2 DEF PlaceInput, Marked
    <2>4. QED
      BY <1>0, <2>2, <2>3 DEF Progress, Covered
  <1>3. CASE ExecuteBlock(p)
    <2>1. /\ cpc[p] = "emulate" /\ trace_bits' = trace_bits \cup {tc[p]}
          /\ UNCHANGED <<proc, exit_status, ran, truth, childVars, last_iteration>>
      BY <1>3 DEF ExecuteBlock, Touched
    <2>2. Marked(p)' <=> Marked(p)
      BY <1>0, <2>1 DEF Marked, childVars
    <2>3. QED
      BY <1>0, <2>1, <2>2 DEF Progress, childVars
  <1>4. CASE RequestBlock(p) \/ \E b \in TBs : NameBlock(p, b)
    <2>1. /\ cpc[p] \in {"emulate", "request_tb"}
          /\ cpc'[p] \in {"emulate", "request_tb"}
          /\ UNCHANGED <<proc, exit_status, ran, truth, trace_bits, tc, iter,
                         crash_found, last_iteration>>
      BY <1>0, <1>a, <1>4 DEF RequestBlock, NameBlock
    <2>2. Marked(p)' <=> Marked(p)
      BY <1>0, <2>1 DEF Marked
    <2>3. QED
      BY <1>0, <2>1, <2>2 DEF Progress
  <1>5. CASE FinishClean(p)
    <2>1. /\ cpc[p] = "emulate" /\ cpc'[p] = "end_of_loop"
          /\ trace_bits' = trace_bits \cup {tc[p]} /\ truth' = "clean"
          /\ UNCHANGED <<proc, exit_status, ran, iter, crash_found, last_iteration>>
      BY <1>a, <1>5 DEF FinishClean, Touched
    <2>2. Marked(p)' <=> Marked(p)
      BY <1>0, <2>1 DEF Marked
    <2>3. QED
      BY <1>0, <2>1, <2>2 DEF Progress, Covered
  <1>6. ASSUME FinishCrash(p) \/ EmulatorCrashes(p) PROVE Progress(p)'
    <2>1. /\ cpc[p] = "emulate"
          /\ trace_bits' = trace_bits \cup {tc[p]} /\ truth' = "crash"
          /\ UNCHANGED <<ran, iter, last_iteration>>
      BY <1>6 DEF FinishCrash, EmulatorCrashes, Touched, childVars
    <2>2. Marked(p)' <=> Marked(p)
      BY <1>0, <2>1 DEF Marked
    <2>3. /\ ran' = <<input>> /\ trace_bits' = {input} /\ Marked(p)'
      BY <1>0, <2>1, <2>2 DEF Progress
    <2>4. CASE Terminate(p, "signaled") /\ UNCHANGED cpc
      <3>1. proc'[p] = "zombie" /\ exit_status'[p] = "signaled" /\ cpc'[p] = "emulate"
        BY <1>a, <2>1, <2>4 DEF Terminate
      <3>2. Told("signaled")'
        BY <1>0, <2>1, <2>3 DEF Told, Covered
      <3>3. QED
        BY <3>1, <3>2 DEF Progress
    <2>5. CASE /\ UNCHANGED proc /\ cpc'[p] = "end_of_loop"
               /\ crash_found'[p] = TRUE /\ persistent_iters # 1
      BY <1>0, <2>1, <2>3, <2>5 DEF Progress, Covered
    <2>6. QED
      BY <1>6, <1>a, <2>4, <2>5 DEF FinishCrash, EmulatorCrashes, childVars
  <1>7. CASE ExitLoop(p)
    <2>1. /\ cpc[p] = "end_of_loop" /\ LoopEnds(p)
          /\ Terminate(p, "exited")
          /\ UNCHANGED <<ran, truth, trace_bits, childVars, last_iteration>>
      BY <1>7 DEF ExitLoop
    <2>2. /\ ran = <<input>> /\ truth # "none" /\ Covered
          /\ truth = "crash" => persistent_iters # 1
          /\ Marked(p)
      BY <1>0, <2>1 DEF Progress
    <2>3. truth = "crash" => last_iteration
      <3>1. persistent_iters # 0 /\ iter[p] + 1 >= persistent_iters
        BY <2>1 DEF LoopEnds
      <3>2. iter[p] + 1 <= persistent_iters
        BY <3>1 DEF IInv, IterInv
      <3>3. iter[p] \in Nat
        BY <1>a
      <3>4. iter[p] + 1 = persistent_iters
        BY <1>a, <3>1, <3>2, <3>3
      <3>5. truth = "crash" => persistent_iters > 1
        BY <1>a, <2>2, <3>1
      <3>6. QED
        BY <2>2, <3>4, <3>5 DEF Marked
    <2>4. Told("exited")'
      <3>1. Covered'
        BY <1>0, <2>1, <2>2 DEF Covered
      <3>2. truth \in {"clean", "rejected", "crash"}
        BY <1>a, <2>2 DEF Outcomes
      <3>3. QED
        BY <1>0, <2>1, <2>2, <2>3, <3>1, <3>2 DEF Told
    <2>5. proc'[p] = "zombie" /\ exit_status'[p] = "exited" /\ cpc'[p] = "end_of_loop"
      BY <1>a, <2>1 DEF Terminate, childVars
    <2>6. QED
      BY <2>4, <2>5 DEF Progress
  <1>8. CASE ReportRound(p)
    <2>1. /\ cpc[p] = "end_of_loop" /\ cpc'[p] = "next"
          /\ child_pipe' = [child_pipe EXCEPT ![p] = Append(child_pipe[p], RoundMessage(p))]
          /\ UNCHANGED <<proc, ran, truth, trace_bits, last_iteration>>
      BY <1>0, <1>a, <1>8 DEF ReportRound
    <2>2. child_pipe'[p] # <<>> /\ Final(child_pipe'[p]) = RoundMessage(p)
      <3>1. RoundMessage(p) \in Messages /\ RoundMessage(p) \in Rounds
        BY DEF RoundMessage, Messages, Rounds
      <3>2. child_pipe'[p] = Append(child_pipe[p], RoundMessage(p))
        BY <1>a, <2>1
      <3>3. /\ child_pipe[p] \in Seq(Messages)
            /\ Alternates(child_pipe[p])
            /\ child_pipe[p] = <<>> \/ Final(child_pipe[p]) \in TBs
        BY <1>0, <1>a, <2>1 DEF InStep
      <3>4. RoundMessage(p) \notin TBs
        BY <3>1, MessageKinds
      <3>5. QED
        BY <3>1, <3>2, <3>3, <3>4, AppendInTurn
    <2>3. /\ ran = <<input>> /\ truth # "none" /\ Covered
          /\ crash_found[p] <=> truth = "crash"
      BY <1>0, <2>1 DEF Progress
    <2>4. RoundMessage(p) = "FOUND_CRASH" <=> truth = "crash"
      BY <2>3 DEF RoundMessage
    <2>5. Covered'
      BY <1>0, <2>1, <2>3 DEF Covered
    <2>6. Final(child_pipe[p])' = Final(child_pipe'[p])
      BY DEF Final
    <2>7. QED
      BY <1>0, <2>1, <2>2, <2>3, <2>4, <2>5, <2>6 DEF Progress
  <1>9. CASE NextRound(p)
    <2>1. parent_pipe[p] > 0 /\ cpc[p] = "next"
      BY <1>0, <1>9 DEF NextRound, EndOfParentPipe
    <2>2. child_pipe[p] = <<>>
      BY <1>0, <2>1 DEF InStep
    <2>3. Untouched
      BY <1>0, <2>1, <2>2 DEF Progress
    <2>4. /\ cpc'[p] = "place" /\ crash_found'[p] = FALSE /\ trace_bits' = {}
          /\ UNCHANGED <<proc, ran, truth>>
      BY <1>a, <1>9, <2>1 DEF NextRound
    <2>5. QED
      BY <1>0, <2>3, <2>4 DEF Progress, Untouched
  <1>10. QED
    BY <1>1, <1>2, <1>3, <1>4, <1>5, <1>6, <1>7, <1>8, <1>9 DEF ChildStep

\* A child that runs takes its run along the way that Progress describes.
LEMMA ChildKeepsRun ==
    ASSUME IInv, RunInv, NEW p \in Pids, ChildStep(p)
    PROVE  RunInv'
  <1>0. UNCHANGED <<ctl, st, input, srv, apc, stop_soon, last_run_timed_out,
                    fault, spc, status, child_pid>>
    BY ChildFrame DEF clientVars, serverVars
  <1>1. srv = "up" => spc \in {"write_pid", "requests", "read_pc"} /\ ctl = <<>>
    BY ActiveChild, PointFacts
  <1>2. Busy' <=> Busy
    BY <1>0 DEF Busy
  <1>3. CASE Quiet
    <2>1. UNCHANGED <<trace_bits, ran, truth, last_iteration>>
      BY <1>3, QuietChild
    <2>2. /\ Untouched' <=> Untouched
          /\ \A s : Told(s) => Told(s)'
      BY <1>0, <2>1, SameRun
    <2>3. NotStarted' /\ StatusTold' /\ VerdictMatchesRun' /\ CoverageMatchesRun'
      BY <1>0, <1>1, <1>2, <2>1, <2>2
         DEF RunInv, NotStarted, StatusTold, VerdictMatchesRun,
             CoverageMatchesRun, Answered
    <2>4. UnderWay'
      <3>1. srv # "up"
        <4>1. ASSUME srv = "up" PROVE FALSE
          <5>1. Live(p) /\ cpc[p] = "next" /\ parent_pipe[p] = 0 /\ Attended(p)
            BY <1>3, <4>1, ChildMoves, ActiveChild DEF IInv, Quiet, Attended
          <5>2. NextRound(p)
            BY <5>1
               DEF ChildStep, StartChild, PlaceInput, ExecuteBlock, RequestBlock,
                   NameBlock, FinishClean, FinishCrash, EmulatorCrashes,
                   ExitLoop, ReportRound, ChildAt
          <5>3. QED
            BY <5>1, <5>2 DEF NextRound, EndOfParentPipe
        <4>2. QED
          BY <4>1
      <3>2. QED
        BY <1>0, <3>1 DEF UnderWay
    <2>5. QED
      BY <2>3, <2>4 DEF RunInv
  <1>4. CASE ~Quiet
    <2>1. /\ ~(apc \in {"idle", "ready"} /\ ~stop_soon)
          /\ apc = "read_pid" => \A w, s \in Words : st # <<w, s>>
          /\ apc \in {"wait", "expired", "drain"} => st = <<>>
      BY <1>4, PointFacts, PipeFacts
    <2>2. NotStarted' /\ StatusTold' /\ VerdictMatchesRun' /\ CoverageMatchesRun'
      BY <1>0, <1>1, <1>2, <2>1, PipeFacts
         DEF NotStarted, StatusTold, VerdictMatchesRun, CoverageMatchesRun,
             Answered, Busy
    <2>3. UnderWay'
      <3> SUFFICES ASSUME Busy, srv = "up", NEW q \in Pids, proc'[q] # "free"
                   PROVE  Progress(q)'
        BY <1>0, <1>2 DEF UnderWay
      <3>1. proc[q] # "free" /\ proc[p] # "free"
        BY ChildEffects, ChildMoves DEF IInv, Live
      <3>2. q = p
        BY <3>1 DEF IInv, BooksInv
      <3>3. Progress(p)
        BY <1>1, <3>1 DEF RunInv, UnderWay
      <3>4. QED
        BY <3>2, <3>3, ChildMakesProgress
    <2>4. QED
      BY <2>2, <2>3 DEF RunInv
  <1>5. QED
    BY <1>3, <1>4

\* A child that dies of a signal belongs to a run that has timed out, or to a
\* session that is over.
LEMMA DeathKeepsRun ==
    ASSUME IInv, RunInv, NEW p \in Pids, ChildDies(p),
           UNCHANGED <<clientVars, localVars>>
    PROVE  RunInv'
  <1>0. /\ UNCHANGED <<ctl, st, input, trace_bits, ran, truth, last_iteration,
                       srv, apc, stop_soon, last_run_timed_out, fault, spc,
                       status, child_pid, cpc>>
        /\ Live(p) /\ p \in killed /\ Terminate(p, "signaled")
    BY DEF ChildDies, clientVars, localVars, serverVars, childVars
  <1>1. /\ proc \in [Pids -> {"free", "live", "zombie"}]
        /\ exit_status \in [Pids -> Statuses]
    BY DEF IInv, TypeOK, LinkTypeOK
  <1>2. /\ Untouched' <=> Untouched
        /\ Covered' <=> Covered
        /\ \A s : Told(s) => Told(s)'
        /\ Busy' <=> Busy
    BY <1>0, SameRun DEF Busy
  <1>3. NotStarted' /\ StatusTold' /\ VerdictMatchesRun' /\ CoverageMatchesRun'
    BY <1>0, <1>2
       DEF RunInv, NotStarted, StatusTold, VerdictMatchesRun,
           CoverageMatchesRun, Answered
  <1>4. UnderWay'
    <2> SUFFICES ASSUME Busy, srv = "up",
                        spc \in {"write_pid", "requests", "read_pc", "waitpid"},
                        NEW q \in Pids, proc'[q] # "free"
                 PROVE  Progress(q)'
      BY <1>0, <1>2 DEF UnderWay
    <2>1. proc[q] # "free" /\ proc[p] # "free"
      BY <1>0, <1>1 DEF Terminate, Live
    <2>2. q = p
      BY <2>1 DEF IInv, BooksInv
    <2>3. Progress(p)
      BY <2>1 DEF RunInv, UnderWay
    <2>4. last_run_timed_out
      <3>1. ~Wanted
        BY <1>0 DEF IInv, KillInv
      <3>2. ctl = <<>>
        BY PointFacts
      <3>3. QED
        BY <3>1, <3>2, PipeFacts DEF Wanted, Busy
    <2>5. Covered
      <3>1. Live(p) /\ cpc[p] \in ChildPoints
        BY <1>0 DEF IInv, TypeOK
      <3>2. QED
        BY <2>3, <3>1 DEF Progress, ChildPoints, Covered, Untouched
    <2>6. Told("signaled")'
      BY <1>0, <1>2, <2>4, <2>5 DEF Told
    <2>7. proc'[p] = "zombie" /\ exit_status'[p] = "signaled"
      BY <1>0, <1>1 DEF Terminate
    <2>8. QED
      BY <1>0, <2>2, <2>4, <2>6, <2>7 DEF Progress, Live
  <1>5. QED
    BY <1>3, <1>4 DEF RunInv

----------------------------------------------------------------------------
(***************************************************************************)
(* Whose execution an answer is about: the steps of the fork server.       *)
(***************************************************************************)

\* A server that takes a word from its child's pipe leaves the child's
\* progress alone: what says how the round ended is still to come.
LEMMA ReadKeepsProgress ==
    ASSUME IInv, srv = "up", spc \in {"requests", "read_pc"},
           NEW p \in Pids, p = child_pid, Progress(p),
           child_pipe[p] # <<>>, Head(child_pipe[p]) \notin Rounds,
           child_pipe' = [child_pipe EXCEPT ![p] = Tail(@)],
           UNCHANGED <<linkVars, clientVars, cpc, tc, iter, crash_found,
                       persistent_iters, last_iteration>>
    PROVE  Progress(p)'
  <1> DEFINE s == child_pipe[p]
             t == Tail(s)
  <1>1. InStep(p) /\ child_pipe \in [Pids -> Seq(Messages)]
    BY DEF IInv, ConversationInv, TypeOK
  <1>2. child_pipe'[p] = t /\ s \in Seq(Messages) /\ s # <<>> /\ Alternates(s)
    BY <1>1 DEF InStep
  <1>3. cpc[p] = "next" => Final(s) \in Rounds
    BY <1>1, <1>2 DEF InStep
  <1>4. cpc[p] = "next" => t # <<>> /\ Final(t) = Final(s)
    BY <1>2, <1>3, TailInTurn
  <1>5. /\ Untouched' <=> Untouched
        /\ Covered' <=> Covered
        /\ Told(exit_status[p])' <=> Told(exit_status[p])
        /\ Marked(p)' <=> Marked(p)
        /\ Final(child_pipe[p])' = Final(child_pipe'[p])
    BY DEF Untouched, Covered, Told, Marked, Final, linkVars, clientVars
  <1>6. UNCHANGED <<proc, ran, truth, trace_bits, input, last_run_timed_out>>
    BY DEF linkVars, clientVars
  <1>7. s = child_pipe[p] /\ s # <<>>
    BY <1>2
  <1> HIDE DEF s, t
  <1>8. CASE cpc[p] = "next"
    <2>1. Final(child_pipe[p])' = Final(child_pipe[p])
      BY <1>2, <1>4, <1>5, <1>7, <1>8
    <2>2. child_pipe'[p] # <<>> /\ child_pipe[p] # <<>>
      BY <1>2, <1>4, <1>7, <1>8
    <2>3. QED
      BY <1>5, <1>6, <1>8, <2>1, <2>2 DEF Progress, Live
  <1>9. CASE cpc[p] # "next"
    BY <1>5, <1>6, <1>9 DEF Progress, Live
  <1>10. QED
    BY <1>8, <1>9

\* The server starts or continues a child for a run that nothing has been
\* executed for, and what it relays is how that child's execution ended.
LEMMA ServerKeepsRun ==
    ASSUME IInv, RunInv, ServerStep
    PROVE  RunInv'
  <1>0. /\ srv = "up"
        /\ UNCHANGED <<input, trace_bits, killed, ran, truth, clientVars,
                       constVars, last_iteration>>
    BY ServerFrame
  <1>a. UNCHANGED <<apc, stop_soon, last_run_timed_out, fault, persistent_iters>>
    BY <1>0 DEF clientVars, constVars
  <1>1. /\ Untouched' <=> Untouched
        /\ Covered' <=> Covered
        /\ \A s : Told(s)' <=> Told(s)
        /\ Busy' <=> Busy
    BY <1>0, <1>a DEF Untouched, Covered, Told, Busy
  <1>2. /\ VerdictMatchesRun' /\ CoverageMatchesRun'
        /\ apc' = "ready" /\ ~stop_soon' => ran' = <<>> /\ truth' = "none"
    BY <1>0, <1>a
       DEF RunInv, NotStarted, VerdictMatchesRun, CoverageMatchesRun, Answered
  <1>3. ASSUME st' = st, \/ srv' # "up"
                         \/ spc' # "write_status"
                         \/ Busy => Told(status')
        PROVE  StatusTold'
    BY <1>0, <1>a, <1>1, <1>3 DEF RunInv, StatusTold
  <1>b. ASSUME UNCHANGED <<proc, exit_status, childVars>>
        PROVE  \A p : Progress(p) => Progress(p)'
    BY <1>0, <1>a, <1>b, SameRun
  <1>4. CASE ~Busy
    BY <1>1, <1>2, <1>4 DEF RunInv, NotStarted, UnderWay, StatusTold
  <1>5. CASE Busy /\ srv' # "up"
    <2>1. st' = st
      BY <1>5, EndingStep
    <2>2. QED
      BY <1>2, <1>3, <1>5, <2>1 DEF RunInv, NotStarted, UnderWay
  <1>6. CASE Busy /\ srv' = "up"
    <2> USE DEF At
    <2>c. spc # "read_ctl" => ctl = <<>>
      BY <1>0, PointFacts
    <2>1. CASE ReadRequest
      <3>1. ctl # <<>> /\ st' = st /\ spc' \in {"reap", "fork", "resume"}
        BY <1>6, <2>1 DEF ReadRequest, AfterRequest, Return, ServerEnds
      <3>2. Untouched
        BY <1>0, <1>6, <3>1 DEF RunInv, NotStarted
      <3>3. QED
        BY <1>1, <1>2, <1>3, <3>1, <3>2 DEF RunInv, NotStarted, UnderWay
    <2>2. CASE WriteOffChild
      <3>1. spc = "reap" /\ spc' = "fork" /\ st' = st
        BY <1>6, <2>2 DEF WriteOffChild, Return, ServerEnds
      <3>2. Untouched
        BY <1>0, <1>6, <3>1 DEF RunInv, NotStarted
      <3>3. QED
        BY <1>1, <1>2, <1>3, <3>1, <3>2 DEF RunInv, NotStarted, UnderWay
    <2>3. ASSUME NEW p \in Pids, Fork(p) PROVE RunInv'
      <3>1. /\ spc = "fork" /\ spc' = "write_pid"
            /\ proc' = [proc EXCEPT ![p] = "live"]
            /\ UNCHANGED <<st, ctl, cpc, crash_found>>
        BY <2>3 DEF Fork
      <3>2. Untouched
        BY <1>0, <1>6, <3>1 DEF RunInv, NotStarted
      <3>3. \A q \in Pids : proc[q] = "free" /\ cpc[q] = "start" /\ crash_found[q] = FALSE
        BY <1>0, <3>1 DEF IInv, BooksInv, FreshInv
      <3>4. ASSUME NEW q \in Pids, proc'[q] # "free" PROVE Progress(q)'
        <4>1. proc'[q] = "live" /\ cpc'[q] = "start" /\ crash_found'[q] = FALSE
          BY <3>1, <3>3, <3>4 DEF IInv, TypeOK, LinkTypeOK
        <4>2. QED
          BY <1>1, <3>2, <4>1 DEF Progress
      <3>5. QED
        BY <1>2, <1>3, <2>c, <3>1, <3>4 DEF RunInv, NotStarted, UnderWay
    <2>4. CASE ResumeChild
      <3>1. /\ spc = "resume" /\ spc' = "write_pid"
            /\ UNCHANGED <<ctl, st, proc, cpc, child_pipe, crash_found>>
            /\ Live(child_pid)
        BY <1>6, <2>4 DEF ResumeChild, Return, ServerEnds
      <3>2. Untouched
        BY <1>0, <1>6, <3>1 DEF RunInv, NotStarted
      <3>3. Parked
        BY <1>0, <3>1 DEF IInv, BooksInv
      <3>4. ASSUME NEW q \in Pids, proc'[q] # "free" PROVE Progress(q)'
        <4>1. q = child_pid
          BY <1>0, <3>1, <3>4 DEF IInv, BooksInv
        <4>2. proc'[q] = "live" /\ cpc'[q] = "next" /\ child_pipe'[q] = <<>>
          BY <3>1, <3>3, <4>1 DEF Parked, Live
        <4>3. QED
          BY <1>1, <3>2, <4>2 DEF Progress
      <3>5. QED
        BY <1>2, <1>3, <2>c, <3>1, <3>4 DEF RunInv, NotStarted, UnderWay
    <2>5. CASE WritePid
      <3>1. /\ spc = "write_pid" /\ spc' = "requests"
            /\ UNCHANGED <<ctl, proc, exit_status, childVars>>
            /\ st' = Append(st, child_pid)
        BY <1>6, <2>5 DEF WritePid, WriteWord, Return, ServerEnds
      <3>2. apc = "read_pid" /\ st = <<>>
        BY <1>0, <1>6, <3>1, PointFacts DEF Busy, IInv, LinkInv, AwaitingPid
      <3>3. st' = <<child_pid>>
        BY <3>1, <3>2, PipeFacts
      <3>4. StatusTold'
        BY <1>a, <3>1, <3>2, <3>3, PipeFacts DEF StatusTold
      <3>5. UnderWay'
        BY <1>0, <1>1, <1>b, <1>6, <3>1 DEF RunInv, UnderWay
      <3>6. QED
        BY <1>2, <2>c, <3>1, <3>4, <3>5 DEF RunInv, NotStarted
    <2>6. CASE HandleMessage \/ CacheBlock
      <3>0. /\ spc \in {"requests", "read_pc"} /\ UNCHANGED <<linkVars, child_pid>>
            /\ UNCHANGED <<cpc, tc, iter, crash_found, parent_pipe>>
        BY <2>6 DEF HandleMessage, CacheBlock
      <3>1. child_pid \in Pids /\ proc[child_pid] # "free" /\ InStep(child_pid)
        BY <1>0, <3>0 DEF IInv, BooksInv, ConversationInv
      <3>2. Progress(child_pid)
        BY <1>0, <1>6, <3>0, <3>1 DEF RunInv, UnderWay
      <3>3. \A q \in Pids : proc'[q] # "free" => q = child_pid
        BY <1>0, <3>0 DEF IInv, BooksInv, linkVars
      <3>4. st' = st /\ ctl' = <<>>
        BY <2>c, <3>0 DEF linkVars
      <3>5. CASE child_pipe[child_pid] = <<>>
        <4>1. spc' = "waitpid" /\ child_pipe' = child_pipe
          BY <2>6, <3>5 DEF HandleMessage, CacheBlock
        <4>2. UNCHANGED <<proc, exit_status>>
          BY <3>0 DEF linkVars
        <4>3. /\ Final(child_pipe[child_pid])' = Final(child_pipe[child_pid])
              /\ Told(exit_status[child_pid])' <=> Told(exit_status[child_pid])
              /\ Marked(child_pid)' <=> Marked(child_pid)
          BY <1>0, <1>a, <3>0, <4>1, <4>2 DEF Final, Told, Covered, Marked
        <4>4. Progress(child_pid)'
          BY <1>0, <1>a, <1>1, <3>0, <3>2, <4>1, <4>2, <4>3 DEF Progress, Live
        <4>5. UnderWay'
          BY <3>0, <3>3, <4>4 DEF UnderWay
        <4>6. QED
          BY <1>2, <1>3, <3>4, <4>1, <4>5 DEF RunInv, NotStarted
      <3>6. CASE child_pipe[child_pid] # <<>> /\ Head(child_pipe[child_pid]) \in Rounds
        <4> DEFINE msg == Head(child_pipe[child_pid])
        <4>1. spc = "requests"
          BY <3>0, <3>1, <3>6, MessageKinds DEF InStep
        <4>2. spc' = "write_status" /\ status' = RoundStatus(msg)
          BY <2>6, <3>6, <4>1
             DEF HandleMessage, CacheBlock, AfterMessage, RoundOver, Rounds
        <4>3. msg = Final(child_pipe[child_pid]) /\ cpc[child_pid] = "next"
          BY <1>0, <3>6, <4>1, RoundIsLast
        <4>4. Told(RoundStatus(msg))
          <5>1. CASE Live(child_pid)
            <6>1. /\ ran = <<input>> /\ truth # "none" /\ Covered
                  /\ msg = "FOUND_CRASH" <=> truth = "crash"
              BY <3>2, <3>6, <4>3, <5>1 DEF Progress
            <6>2. truth \in {"clean", "rejected", "crash"}
              BY <6>1 DEF IInv, TypeOK, LinkTypeOK, Outcomes
            <6>3. RoundStatus(msg) = "signaled" <=> truth = "crash"
              BY <6>1 DEF RoundStatus
            <6>4. QED
              BY <6>1, <6>2, <6>3 DEF Told
          <5>2. CASE proc[child_pid] = "zombie"
            BY <3>2, <4>3, <5>2 DEF Progress, Told
          <5>3. QED
            BY <3>1, <5>1, <5>2 DEF IInv, TypeOK, LinkTypeOK, Live
        <4>5. StatusTold'
          BY <1>3, <3>4, <4>2, <4>4
        <4>6. QED
          BY <1>2, <3>4, <4>2, <4>5 DEF RunInv, NotStarted, UnderWay
      <3>7. CASE child_pipe[child_pid] # <<>> /\ Head(child_pipe[child_pid]) \notin Rounds
        <4>1. /\ spc' \in {"requests", "read_pc"}
              /\ child_pipe' = [child_pipe EXCEPT ![child_pid] = Tail(@)]
          BY <2>6, <3>7
             DEF HandleMessage, CacheBlock, AfterMessage, RoundOver, Rounds
        <4>2. \A p \in Pids : p = child_pid => Progress(p)'
          BY <1>0, <1>a, <3>0, <3>2, <3>7, <4>1, ReadKeepsProgress
        <4>3. UnderWay'
          BY <3>3, <4>2 DEF UnderWay
        <4>4. QED
          BY <1>2, <1>3, <3>4, <4>1, <4>3 DEF RunInv, NotStarted
      <3>8. QED
        BY <3>5, <3>6, <3>7
    <2>7. CASE CollectChild
      <3>1. /\ spc = "waitpid" /\ spc' = "write_status"
            /\ UNCHANGED <<ctl, st>>
            /\ child_pid \in Pids /\ proc[child_pid] = "zombie"
            /\ status' = exit_status[child_pid]
        BY <1>6, <2>7 DEF CollectChild, Return, ServerEnds
      <3>2. Told(status')
        BY <1>0, <1>6, <3>1 DEF RunInv, UnderWay, Progress
      <3>3. QED
        BY <1>2, <1>3, <2>c, <3>1, <3>2 DEF RunInv, NotStarted, UnderWay
    <2>8. CASE RelayStatus
      <3>1. /\ spc = "write_status" /\ spc' = "read_ctl"
            /\ ctl' = ctl /\ st' = Append(st, status) /\ status' = status
        BY <1>6, <2>8 DEF RelayStatus, WriteWord, Return, ServerEnds
      <3>2. Told(status)
        BY <1>0, <1>6, <3>1 DEF RunInv, StatusTold
      <3>3. CASE apc = "read_pid"
        <4>1. \E w \in Pids : st = <<w>>
          BY <1>0, <2>c, <3>1, <3>3 DEF IInv, LinkInv, AwaitingPid
        <4>2. PICK w \in Pids : st = <<w>>
          BY <4>1
        <4>3. w \in Words /\ status \in Words
          BY DEF Words, IInv, TypeOK
        <4>4. st' = <<w, status>>
          BY <3>1, <4>2, <4>3, AppendToOne
        <4>5. \A v, s : <<v, s>> = <<w, status>> => s = status
          OBVIOUS
        <4>6. StatusTold'
          BY <1>a, <1>1, <3>1, <3>2, <3>3, <4>4, <4>5 DEF StatusTold
        <4>7. QED
          BY <1>2, <2>c, <3>1, <4>6 DEF RunInv, NotStarted, UnderWay
      <3>4. CASE apc # "read_pid"
        <4>1. st = <<>>
          BY <1>0, <1>6, <3>1, <3>4, PointFacts DEF Busy
        <4>2. st' = <<status>>
          BY <3>1, <4>1, PipeFacts
        <4>3. StatusTold'
          BY <1>a, <1>1, <3>1, <3>2, <3>4, <4>2, PipeFacts DEF StatusTold
        <4>4. QED
          BY <1>2, <2>c, <3>1, <4>3 DEF RunInv, NotStarted, UnderWay
      <3>5. QED
        BY <3>3, <3>4
    <2>9. CASE ForkFails
      BY <1>6, <2>9 DEF ForkFails, Return, ServerEnds
    <2>10. QED
      BY <2>1, <2>2, <2>3, <2>4, <2>5, <2>6, <2>7, <2>8, <2>9 DEF ServerStep
  <1>7. QED
    BY <1>4, <1>5, <1>6

----------------------------------------------------------------------------
(***************************************************************************)
(* The theorems about the answers.                                         *)
(***************************************************************************)

\* Nothing has been executed when the fuzzer starts.
LEMMA InitRunInv == Init => RunInv
  BY DEF Init, LinkInit, ClientInit, RunInv, NotStarted, UnderWay, StatusTold,
         VerdictMatchesRun, CoverageMatchesRun, Answered, Busy

\* RunInv is preserved by every step, given what is in the pipes.
LEMMA NextKeepsRunInv == IInv /\ RunInv /\ [Next]_vars => RunInv'
  <1> SUFFICES ASSUME IInv, RunInv, [Next]_vars PROVE RunInv'
    OBVIOUS
  <1>1. CASE ClientStep /\ UNCHANGED localVars
    BY <1>1, ClientKeepsRun
  <1>2. CASE ServerStep
    BY <1>2, ServerKeepsRun
  <1>3. ASSUME NEW p \in Pids, ChildStep(p) PROVE RunInv'
    BY <1>3, ChildKeepsRun
  <1>4. ASSUME NEW p \in Pids, ChildDies(p), UNCHANGED <<clientVars, localVars>>
        PROVE  RunInv'
    BY <1>4, DeathKeepsRun
  <1>5. CASE ServerDies \/ ServerLost \/ UNCHANGED vars
    <2>1. /\ UNCHANGED <<ctl, st, input, trace_bits, proc, exit_status, ran, truth,
                         clientVars, localVars>>
          /\ srv' = "up" => srv = "up"
      BY <1>5 DEF ServerDies, ServerEnds, ServerLost, vars, linkVars, localVars
    <2>2. UNCHANGED <<apc, stop_soon, last_run_timed_out, fault, spc, status,
                      childVars, persistent_iters, last_iteration>>
      BY <2>1 DEF clientVars, localVars, serverVars, constVars
    <2>3. /\ Untouched' <=> Untouched
          /\ \A s : Told(s) => Told(s)'
          /\ \A p : Progress(p) => Progress(p)'
      BY <2>1, <2>2, SameRun
    <2>4. QED
      BY <2>1, <2>2, <2>3
         DEF RunInv, NotStarted, UnderWay, StatusTold, VerdictMatchesRun,
             CoverageMatchesRun, Answered, Busy
  <1>6. QED
    BY <1>1, <1>2, <1>3, <1>4, <1>5 DEF Next, Finished

\* Both halves of the inductive invariant hold throughout.
THEOREM RunInvariance == Spec => []RunInv
  BY Invariance, InitRunInv, NextKeepsRunInv, PTL DEF Spec

\* The result of a run that has not timed out is about one execution of exactly
\* the test case that was written; a crash that is reported is one, and a crash
\* that is not is one of the last iteration of a cycle, where _child_fuzz leaves
\* with exit(0).
THEOREM VerdictsAreRight == Spec => []VerdictMatchesRun
  <1>1. RunInv => VerdictMatchesRun
    BY DEF RunInv
  <1>2. QED
    BY <1>1, RunInvariance, PTL

\* The map that the fuzzer evaluates holds the edges of the test case it wrote
\* and of no other, and all of them when the run went to its end.
THEOREM CoverageIsRight == Spec => []CoverageMatchesRun
  <1>1. RunInv => CoverageMatchesRun
    BY DEF RunInv
  <1>2. QED
    BY <1>1, RunInvariance, PTL


----------------------------------------------------------------------------
(***************************************************************************)
(* UnicornAfl implements RunContract, step by step, when persistent_iters  *)
(* is 0 or 1.  (With more, a crash in the last iteration is answered as a  *)
(* clean run: see CrashIsReported.)  WriteTestcase is the contract's       *)
(* Submit, the end of the emulation or the refusal of the input is its     *)
(* Execute, the read of the status its Answer, and a stop or a lost server *)
(* its Close; every other step is a stutter.                               *)
(***************************************************************************)

\* No cycle of several iterations has a last one.
NoLastIteration == persistent_iters \in {0, 1} /\ last_iteration = FALSE

\* There is one child at a time, even after the server is gone,
Alone == \A p, q \in Pids : Live(p) /\ Live(q) => p = q

\* it is woken up once, and only when it waits for it,
WokenOnce ==
    \A p \in Pids : /\ parent_pipe[p] \in {0, 1}
                    /\ cpc[p] # "next" => parent_pipe[p] = 0

\* A child that has a round before it, or is in the middle of one.
Open(p) ==
    /\ Live(p)
    /\ \/ cpc[p] \in {"start", "place", "emulate", "request_tb"}
       \/ cpc[p] = "next" /\ parent_pipe[p] = 1

\* and as long as it is at it, the outcome of the run is open.
Pending == ~Over => \A p \in Pids : Open(p) => truth = "none"

ContractInv ==
    /\ IInv
    /\ RunInv
    /\ OverInv
    /\ NoLastIteration
    /\ Alone
    /\ WokenOnce
    /\ Pending

\* The step of a server that forks or wakes a child finds the outcome of the run
\* open.
LEMMA OutcomeOpen ==
    ASSUME IInv, RunInv, OverInv, ~Over, srv = "up", spc \in {"fork", "resume"}
    PROVE  truth = "none"
  <1>1. ~stop_soon /\ apc \notin {"reap", "exiting", "exited"}
    BY DEF OverInv, Over
  <1>2. apc \notin {"idle", "ready"}
    BY <1>1, PointFacts
  <1>3. Busy
    BY <1>1, <1>2 DEF Busy, IInv, TypeOK, ClientTypeOK, ClientPoints
  <1>4. QED
    BY <1>3 DEF RunInv, NotStarted, Untouched

\* A step of a child leaves it with nothing more to do than it had, and changes
\* the outcome only when it was open.
LEMMA ChildCloses ==
    ASSUME IInv, NoLastIteration, WokenOnce, NEW p \in Pids, ChildStep(p)
    PROVE  /\ Open(p)' => Open(p) /\ truth' = truth
           /\ truth' # truth => Open(p) /\ truth' \in {"clean", "crash", "rejected"}
           /\ NoLastIteration'
           /\ WokenOnce'
  <1> USE DEF WokenOnce, Open, ChildAt, Goto, Live, NoLastIteration, constVars
  <1>0. /\ cpc \in [Pids -> ChildPoints] /\ parent_pipe \in [Pids -> Nat]
        /\ proc \in [Pids -> {"free", "live", "zombie"}]
        /\ proc[p] = "live"
    BY ChildMoves DEF IInv, TypeOK, LinkTypeOK
  <1>1. CASE StartChild(p)
    BY <1>0, <1>1 DEF StartChild
  <1>2. ASSUME NEW accepted \in BOOLEAN, PlaceInput(p, accepted)
        PROVE  /\ Open(p)' => Open(p) /\ truth' = truth
               /\ truth' # truth => Open(p) /\ truth' \in {"clean", "crash", "rejected"}
               /\ NoLastIteration'
               /\ WokenOnce'
    BY <1>0, <1>2 DEF PlaceInput
  <1>3. CASE ExecuteBlock(p)
    BY <1>0, <1>3 DEF ExecuteBlock, childVars
  <1>4. CASE RequestBlock(p)
    BY <1>0, <1>4 DEF RequestBlock, BrokenPipe, Terminate
  <1>5. ASSUME NEW b \in TBs, NameBlock(p, b)
        PROVE  /\ Open(p)' => Open(p) /\ truth' = truth
               /\ truth' # truth => Open(p) /\ truth' \in {"clean", "crash", "rejected"}
               /\ NoLastIteration'
               /\ WokenOnce'
    BY <1>0, <1>5 DEF NameBlock, BrokenPipe, Terminate
  <1>6. CASE FinishClean(p)
    BY <1>0, <1>6 DEF FinishClean
  <1>7. CASE FinishCrash(p)
    BY <1>0, <1>7 DEF FinishCrash, Terminate
  <1>8. CASE EmulatorCrashes(p)
    BY <1>0, <1>8 DEF EmulatorCrashes, Terminate, childVars
  <1>9. CASE ExitLoop(p)
    BY <1>0, <1>9 DEF ExitLoop, Terminate, childVars
  <1>10. CASE ReportRound(p)
    BY <1>0, <1>10 DEF ReportRound, Terminate
  <1>11. CASE NextRound(p)
    BY <1>0, <1>11 DEF NextRound, Terminate
  <1>12. QED
    BY <1>1, <1>2, <1>3, <1>4, <1>5, <1>6, <1>7, <1>8, <1>9, <1>10, <1>11
       DEF ChildStep

\* The server gives a child something to do only by a fork or a wake-up word.
LEMMA ServerOpens ==
    ASSUME IInv, WokenOnce, ServerStep
    PROVE  /\ WokenOnce'
           /\ \A p \in Pids : Open(p)' => Open(p) \/ spc \in {"fork", "resume"}
           /\ Alone => Alone'
  <1> USE DEF WokenOnce, Open, Alone, Live, At
  <1>0. /\ cpc \in [Pids -> ChildPoints] /\ parent_pipe \in [Pids -> Nat]
        /\ proc \in [Pids -> {"free", "live", "zombie"}]
    BY DEF IInv, TypeOK, LinkTypeOK
  <1>1. ASSUME NEW p \in Pids, Fork(p)
        PROVE  WokenOnce' /\ Alone' /\ spc \in {"fork", "resume"}
    <2>1. AllFree
      BY <1>1 DEF Fork, IInv, BooksInv, AllFree
    <2>2. QED
      BY <1>0, <1>1, <2>1 DEF Fork, AllFree
  <1>2. CASE ResumeChild
    <2>1. Parked
      BY <1>2 DEF ResumeChild, IInv, BooksInv
    <2>2. QED
      BY <1>0, <1>2, <2>1 DEF ResumeChild, Parked
  <1>3. CASE WriteOffChild \/ CollectChild
    <2>1. CASE UNCHANGED <<proc, childVars>>
      BY <2>1 DEF childVars
    <2>2. ASSUME NEW p \in Pids, Forget(p)
          PROVE  /\ WokenOnce'
                 /\ \A q \in Pids : Open(q)' => Open(q)
                 /\ Alone => Alone'
      BY <1>0, <2>2 DEF Forget
    <2>3. QED
      BY <1>3, <2>1, <2>2 DEF WriteOffChild, CollectChild
  <1>4. CASE \/ ReadRequest \/ ForkFails \/ WritePid \/ HandleMessage
             \/ CacheBlock \/ RelayStatus
    <2>1. UNCHANGED <<proc, cpc, parent_pipe>>
      BY <1>4
         DEF ReadRequest, ForkFails, WritePid, HandleMessage, CacheBlock,
             RelayStatus, childVars, linkVars
    <2>2. QED
      BY <2>1
  <1>5. QED
    BY <1>1, <1>2, <1>3, <1>4 DEF ServerStep

\* The invariant that the simulation needs is preserved by every step.
LEMMA NextKeepsContractInv == ContractInv /\ [Next]_vars => ContractInv'
  <1> SUFFICES ASSUME ContractInv, [Next]_vars
               PROVE  OverInv' /\ NoLastIteration' /\ Alone' /\ WokenOnce' /\ Pending'
    BY NextKeepsInv, NextKeepsRunInv DEF ContractInv
  <1> USE DEF ContractInv
  <1>1. CASE ClientStep /\ UNCHANGED localVars
    <2>1. OverInv' /\ (Over => Over')
      BY <1>1, ClientOver DEF Over, IInv, TypeOK
    <2>2. UNCHANGED <<proc, cpc, parent_pipe, persistent_iters, last_iteration>>
      BY <1>1, ClientFrame DEF IInv, localVars, childVars, constVars
    <2>3. truth' \in {truth, "none"}
      BY <1>1
         DEF ClientStep, WriteTestcase, SendRequest, ReadChildPid, ReadStatus,
             TimerExpires, KillTimedOut, DrainStatus, StopSignal,
             StopHandlerReturns, KillForkserver, ForkserverKilled, AtExit,
             linkVars
    <2>4. NoLastIteration' /\ Alone' /\ WokenOnce'
      BY <2>2 DEF NoLastIteration, Alone, WokenOnce, Live
    <2>5. Pending'
      BY <2>1, <2>2, <2>3 DEF Pending, Open, Live
    <2>6. QED
      BY <2>1, <2>4, <2>5
  <1>2. CASE ServerStep
    <2>1. /\ srv = "up"
          /\ UNCHANGED <<truth, apc, stop_soon, aborted, persistent_iters,
                         last_iteration>>
      BY <1>2, ServerFrame DEF clientVars, constVars
    <2>2. OverInv' /\ NoLastIteration' /\ (Over' <=> Over)
      BY <2>1 DEF OverInv, Over, NoLastIteration
    <2>3. Pending'
      BY <1>2, <2>1, <2>2, ServerOpens, OutcomeOpen DEF Pending
    <2>4. QED
      BY <1>2, <2>2, <2>3, ServerOpens
  <1>3. ASSUME NEW p \in Pids, ChildStep(p)
        PROVE  OverInv' /\ NoLastIteration' /\ Alone' /\ WokenOnce' /\ Pending'
    <2>1. UNCHANGED <<apc, stop_soon, aborted>>
      BY <1>3, ChildFrame DEF clientVars
    <2>2. Live(p) /\ \A q \in Pids : Live(q)' => Live(q)
      <3>1. \/ UNCHANGED proc
            \/ \E s \in EndStatuses : Terminate(p, s)
        BY <1>3, ChildMoves DEF IInv
      <3>2. Live(p) /\ proc \in [Pids -> {"free", "live", "zombie"}]
        BY <1>3, ChildMoves DEF IInv, TypeOK, LinkTypeOK
      <3>3. QED
        BY <3>1, <3>2 DEF Terminate, Live
    <2>3. Alone'
      BY <2>2 DEF Alone
    <2>4. \A q \in Pids : Open(q)' => q = p
      BY <2>2 DEF Alone, Open
    <2>5. QED
      BY <1>3, <2>1, <2>3, <2>4, ChildCloses DEF OverInv, Over, Pending
  <1>4. ASSUME NEW p \in Pids, ChildDies(p), UNCHANGED <<clientVars, localVars>>
        PROVE  OverInv' /\ NoLastIteration' /\ Alone' /\ WokenOnce' /\ Pending'
    <2>1. /\ proc' = [proc EXCEPT ![p] = "zombie"]
          /\ UNCHANGED <<cpc, parent_pipe, persistent_iters, last_iteration,
                         truth, apc, stop_soon, aborted>>
      BY <1>4 DEF ChildDies, Terminate, clientVars, localVars, childVars, constVars
    <2>2. \A q \in Pids : Live(q)' => Live(q)
      BY <2>1 DEF Live, IInv, TypeOK, LinkTypeOK
    <2>3. OverInv' /\ NoLastIteration' /\ Alone' /\ WokenOnce'
      BY <2>1, <2>2 DEF OverInv, NoLastIteration, Alone, WokenOnce
    <2>4. Pending'
      BY <2>1, <2>2 DEF Pending, Over, Open
    <2>5. QED
      BY <2>3, <2>4
  <1>5. CASE ServerDies \/ ServerLost \/ UNCHANGED vars
    <2>1. UNCHANGED <<proc, cpc, parent_pipe, persistent_iters, last_iteration,
                      truth, apc, stop_soon, aborted>>
      BY <1>5
         DEF ServerDies, ServerLost, vars, linkVars, clientVars, localVars,
             childVars, constVars
    <2>2. QED
      BY <2>1
         DEF OverInv, NoLastIteration, Alone, WokenOnce, Pending, Over, Open, Live
  <1>6. QED
    BY <1>1, <1>2, <1>3, <1>4, <1>5 DEF Next, Finished


\* A step that changes nothing that the contract speaks of is a stutter, and so
\* is every step once the session is over.
LEMMA Stutter ==
    ASSUME \/ Over /\ Over'
           \/ /\ Over' <=> Over
              /\ apc' = "idle" <=> apc = "idle"
              /\ UNCHANGED <<input, truth, fault>>
    PROVE  UNCHANGED Contract!vars
  BY DEF Contract!vars

\* A step that ends the session is the contract's Close.
LEMMA Closing ==
    ASSUME ~Over, Over'
    PROVE  Contract!Next
  BY DEF Contract!Next, Contract!Close

\* Every step is one of the contract's, or none.
LEMMA NextSimulates ==
    ContractInv /\ [Next]_vars => [Contract!Next]_(Contract!vars)
  <1> SUFFICES ASSUME ContractInv, [Next]_vars
               PROVE  Contract!Next \/ UNCHANGED Contract!vars
    OBVIOUS
  <1> USE DEF ContractInv
  <1>1. CASE ~Over /\ Over'
    BY <1>1, Closing
  <1>2. CASE Over
    <2>1. CASE ClientStep
      BY <1>2, <2>1, ClientOver, Stutter DEF Over, IInv, TypeOK
    <2>2. CASE ~ClientStep
      <3>1. UNCHANGED <<stop_soon, aborted>>
        BY <2>2, ServerFrame, ChildFrame
           DEF Next, Finished, ServerDies, ServerLost, clientVars, vars
      <3>2. QED
        BY <1>2, <3>1, Stutter DEF Over
    <2>3. QED
      BY <2>1, <2>2
  <1>3. CASE ~Over /\ ~Over'
    <2>0. ~stop_soon /\ ~aborted /\ ~stop_soon' /\ ~aborted'
      BY <1>3 DEF Over
    <2>1. CASE ClientStep /\ UNCHANGED localVars
      <3>1. ASSUME NEW t \in Testcases, WriteTestcase(t) PROVE Contract!Next
        BY <1>3, <3>1 DEF WriteTestcase, Runs, Contract!Next, Contract!Submit
      <3>2. ASSUME ReadStatus \/ DrainStatus PROVE Contract!Next
        <4>1. /\ apc \in {"wait", "drain"} /\ apc' = "idle"
              /\ st # <<>>
              /\ fault' = Verdict(Head(st))
              /\ UNCHANGED <<input, truth>>
          BY <2>0, <3>2 DEF ReadStatus, DrainStatus, Conclude, GiveUp, Runs
        <4>2. PICK s \in Words : st = <<s>>
          BY <4>1, PointFacts
        <4>3. Told(s) /\ Head(st) = s
          BY <2>0, <4>1, <4>2, PipeFacts DEF RunInv, StatusTold, Busy
        <4>4. fault' \in {a \in Faults : Contract!Truthful(a)}
          BY <1>3, <4>1, <4>3
             DEF Verdict, Told, NoLastIteration, Faults, Contract!Truthful
        <4>5. QED
          BY <1>3, <4>1, <4>4 DEF Contract!Next, Contract!Answer
      <3>3. ASSUME \/ SendRequest \/ ReadChildPid \/ TimerExpires
                   \/ KillTimedOut \/ StopHandlerReturns
            PROVE  /\ apc' = "idle" <=> apc = "idle"
                   /\ UNCHANGED <<input, truth, fault>>
        BY <2>0, <3>3
           DEF SendRequest, ReadChildPid, TimerExpires, KillTimedOut, GiveUp,
               StopHandlerReturns, Runs, linkVars
      <3>4. ~StopSignal /\ ~KillForkserver /\ ~ForkserverKilled /\ ~AtExit
        BY <1>3, <2>0
           DEF StopSignal, KillForkserver, ForkserverKilled, AtExit, Runs,
               OverInv
      <3>5. QED
        BY <1>3, <2>1, <3>1, <3>2, <3>3, <3>4, Stutter DEF ClientStep
    <2>2. CASE ServerStep
      BY <1>3, <2>2, ServerFrame, Stutter DEF clientVars
    <2>3. ASSUME NEW p \in Pids, ChildStep(p)
          PROVE  Contract!Next \/ UNCHANGED Contract!vars
      <3>1. UNCHANGED <<input, apc, fault>>
        BY <2>3, ChildFrame DEF clientVars
      <3>2. CASE truth' = truth
        BY <1>3, <3>1, <3>2, Stutter
      <3>3. CASE truth' # truth
        <4>1. truth = "none" /\ truth' \in {"clean", "crash", "rejected"}
          BY <1>3, <2>3, <3>3, ChildCloses DEF Pending
        <4>2. ~Quiet
          BY <2>3, <3>3, QuietChild
        <4>3. apc # "idle"
          BY <2>0, <4>2, PointFacts
        <4>4. QED
          BY <1>3, <3>1, <4>1, <4>3 DEF Outcomes, Contract!Next, Contract!Execute
      <3>4. QED
        BY <3>2, <3>3
    <2>4. ASSUME NEW p \in Pids, ChildDies(p), UNCHANGED <<clientVars, localVars>>
          PROVE  UNCHANGED Contract!vars
      BY <1>3, <2>4, Stutter DEF ChildDies, clientVars
    <2>5. CASE ServerDies \/ ServerLost \/ UNCHANGED vars
      BY <1>3, <2>5, Stutter DEF ServerDies, ServerLost, vars, linkVars, clientVars
    <2>6. QED
      BY <2>1, <2>2, <2>3, <2>4, <2>5 DEF Next, Finished
  <1>4. QED
    BY <1>1, <1>2, <1>3

\* What the unicornafl fork server and its persistent child do, with timeouts,
\* kills, stops and translation requests, is what RunContract allows, if the
\* child is not renewed after several iterations: a test case is executed at
\* most once between its submission and the answer, and an answer that is not a
\* timeout is about that execution.
THEOREM ContractStepByStep ==
    Spec /\ persistent_iters \in {0, 1}
      => Contract!Init /\ [][Contract!Next]_(Contract!vars)
  <1>1. Init /\ persistent_iters \in {0, 1} => ContractInv /\ Contract!Init
    BY InitInv, InitRunInv
       DEF Init, LinkInit, ClientInit, ContractInv, OverInv, NoLastIteration,
           Over, Alone, WokenOnce, Pending, Open, Live, Contract!Init
  <1>2. QED
    BY <1>1, NextKeepsContractInv, NextSimulates, PTL DEF Spec

=============================================================================

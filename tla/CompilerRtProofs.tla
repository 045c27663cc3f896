-------------------------- MODULE CompilerRtProofs --------------------------
(***************************************************************************)
(* Theorems about CompilerRt, for every set of test cases and of process   *)
(* ids, every set of loop arguments and every width of the cycle counter:  *)
(* the protocol (IInv), what an answer says (RunInv), and that every step  *)
(* is one of RunContract's or none (ContractInv).                          *)
(***************************************************************************)
EXTENDS CompilerRt, SequenceTheorems, TLAPS

----------------------------------------------------------------------------
(***************************************************************************)
(* The fuzzer's side, AflClient: these facts hold whatever the fork server *)
(* is, and UnicornAflProofs starts with the same ones, up to ClientOver.   *)
(*                                                                         *)
(* Pipes.  At most two words are ever on their way, so that the steps on a *)
(* pipe are steps between sequences of length 0, 1 and 2.                  *)
(***************************************************************************)

\* A word written after another comes second.
LEMMA AppendToOne ==
    ASSUME NEW S, NEW x \in S, NEW y \in S
    PROVE  Append(<<x>>, y) = <<x, y>>
  <1> DEFINE s == <<x>>  t == <<x, y>>  a == Append(s, y)
  <1>1. s \in Seq(S) /\ t \in Seq(S) /\ Len(s) = 1 /\ Len(t) = 2
    OBVIOUS
  <1>2. a \in Seq(S) /\ Len(a) = 2
    BY <1>1
  <1>3. \A i \in 1..2 : a[i] = t[i]
    BY <1>1
  <1> HIDE DEF s, t, a
  <1>4. a = t
    BY <1>1, <1>2, <1>3, SeqEqual
  <1>5. QED
    BY <1>4 DEF a, s, t

\* The words that are in the pipes, as sequences.
LEMMA PipeFacts ==
    /\ \A x, y : <<x>> # <<>> /\ <<x, y>> # <<>> /\ <<x>> # <<x, y>>
    /\ \A x : Head(<<x>>) = x /\ Tail(<<x>>) = <<>>
    /\ \A x, y : Head(<<x, y>>) = x /\ Tail(<<x, y>>) = <<y>>
    /\ \A x, y : <<x>> = <<y>> => x = y
    /\ \A x : Append(<<>>, x) = <<x>>
  OBVIOUS

\* What is read from a pipe has the type of its words.
LEMMA HeadTailType ==
    ASSUME NEW S, NEW s \in Seq(S), s # <<>>
    PROVE  Head(s) \in S /\ Tail(s) \in Seq(S)
  OBVIOUS

\* What is written to it has too.
LEMMA AppendType ==
    ASSUME NEW S, NEW s \in Seq(S), NEW e \in S
    PROVE  Append(s, e) \in Seq(S)
  OBVIOUS

----------------------------------------------------------------------------
(***************************************************************************)
(* Type correctness of the client and of what it shares with the server.   *)
(***************************************************************************)

SharedTypeOK == LinkTypeOK /\ ClientTypeOK

\* The shared state is well typed at the start.
LEMMA SharedInit == LinkInit /\ ClientInit => SharedTypeOK
  <1> SUFFICES ASSUME LinkInit, ClientInit PROVE SharedTypeOK
    OBVIOUS
  <1>1. LinkTypeOK
    BY DEF LinkInit, LinkTypeOK, Words, Statuses, Outcomes
  <1>2. ClientTypeOK
    BY DEF ClientInit, ClientTypeOK, ClientPoints, Faults
  <1>3. QED
    BY <1>1, <1>2 DEF SharedTypeOK

\* Every step of the fuzzer preserves the types of the shared state.
LEMMA ClientStepType == SharedTypeOK /\ ClientStep => SharedTypeOK'
  <1> SUFFICES ASSUME SharedTypeOK, ClientStep PROVE SharedTypeOK'
    OBVIOUS
  <1> USE DEF SharedTypeOK, LinkTypeOK, ClientTypeOK, ClientPoints, Faults,
              Outcomes
  <1>1. ASSUME NEW t \in Testcases, WriteTestcase(t) PROVE SharedTypeOK'
    BY <1>1 DEF WriteTestcase
  <1>2. CASE SendRequest
    <2>1. ctl' \in Seq(BOOLEAN)
      <3>1. Append(ctl, last_run_timed_out) \in Seq(BOOLEAN)
        BY AppendType
      <3>2. ctl' \in {ctl, Append(ctl, last_run_timed_out)}
        BY <1>2 DEF SendRequest
      <3>3. QED
        BY <3>1, <3>2
    <2>2. LinkTypeOK'
      BY <1>2, <2>1 DEF SendRequest
    <2>3. ClientTypeOK'
      <3>1. CASE srv = "up"
        BY <1>2, <3>1 DEF SendRequest
      <3>2. CASE srv # "up"
        BY <1>2, <3>2 DEF SendRequest, GiveUp
      <3>3. QED
        BY <3>1, <3>2
    <2>4. QED
      BY <2>2, <2>3
  <1>3. CASE ReadChildPid
    <2>1. st' \in Seq(Words)
      <3>1. st' \in {st, Tail(st)} /\ (st = <<>> => st' = st)
        BY <1>3 DEF ReadChildPid
      <3>2. st # <<>> => Tail(st) \in Seq(Words)
        BY HeadTailType
      <3>3. QED
        BY <3>1, <3>2
    <2>2. LinkTypeOK'
      BY <1>3, <2>1 DEF ReadChildPid
    <2>3. ClientTypeOK'
      <3>1. CASE st # <<>> /\ Head(st) \in Pids
        BY <1>3, <3>1 DEF ReadChildPid
      <3>2. CASE ~(st # <<>> /\ Head(st) \in Pids)
        BY <1>3, <3>2 DEF ReadChildPid, GiveUp
      <3>3. QED
        BY <3>1, <3>2
    <2>4. QED
      BY <2>2, <2>3
  <1>4. CASE ReadStatus
    <2>1. st' \in Seq(Words)
      <3>1. st' \in {st, Tail(st)} /\ (st = <<>> => st' = st)
        BY <1>4 DEF ReadStatus
      <3>2. st # <<>> => Tail(st) \in Seq(Words)
        BY HeadTailType
      <3>3. QED
        BY <3>1, <3>2
    <2>2. LinkTypeOK'
      BY <1>4, <2>1 DEF ReadStatus
    <2>3. ClientTypeOK'
      <3>1. CASE stop_soon \/ st = <<>>
        BY <1>4, <3>1 DEF ReadStatus, GiveUp
      <3>2. CASE ~(stop_soon \/ st = <<>>)
        BY <1>4, <3>2 DEF ReadStatus, Conclude, Verdict
      <3>3. QED
        BY <3>1, <3>2
    <2>4. QED
      BY <2>2, <2>3
  <1>5. CASE TimerExpires
    BY <1>5 DEF TimerExpires, linkVars
  <1>6. CASE KillTimedOut
    BY <1>6 DEF KillTimedOut, Signaled
  <1>7. CASE DrainStatus
    <2>1. st' \in Seq(Words)
      <3>1. st' \in {st, Tail(st)} /\ (st = <<>> => st' = st)
        BY <1>7 DEF DrainStatus
      <3>2. st # <<>> => Tail(st) \in Seq(Words)
        BY HeadTailType
      <3>3. QED
        BY <3>1, <3>2
    <2>2. LinkTypeOK'
      BY <1>7, <2>1 DEF DrainStatus
    <2>3. ClientTypeOK'
      <3>1. CASE st = <<>>
        BY <1>7, <3>1 DEF DrainStatus, GiveUp
      <3>2. CASE ~(st = <<>>)
        BY <1>7, <3>2 DEF DrainStatus, Conclude, Verdict
      <3>3. QED
        BY <3>1, <3>2
    <2>4. QED
      BY <2>2, <2>3
  <1>8. CASE StopSignal
    BY <1>8 DEF StopSignal, Signaled, SignalServer
  <1>9. CASE StopHandlerReturns
    BY <1>9 DEF StopHandlerReturns, ReapServer
  <1>10. CASE KillForkserver
    BY <1>10 DEF KillForkserver, Signaled, SignalServer
  <1>11. CASE ForkserverKilled
    BY <1>11 DEF ForkserverKilled, ReapServer
  <1>12. CASE AtExit
    BY <1>12 DEF AtExit, SignalServer
  <1>13. QED
    BY <1>1, <1>2, <1>3, <1>4, <1>5, <1>6, <1>7, <1>8, <1>9, <1>10, <1>11,
       <1>12 DEF ClientStep

----------------------------------------------------------------------------
\* What the fuzzer cannot do to the server and its children.
LEMMA ClientFrame ==
    ASSUME ClientStep
    PROVE  /\ proc' = proc /\ exit_status' = exit_status
           /\ killed \subseteq killed'
           /\ srv' = "up" <=> srv = "up"
  BY DEF ClientStep, WriteTestcase, SendRequest, ReadChildPid, ReadStatus,
         TimerExpires, KillTimedOut, DrainStatus, StopSignal,
         StopHandlerReturns, KillForkserver, ForkserverKilled, AtExit,
         GiveUp, Conclude, Signaled, SignalServer, ReapServer, linkVars

----------------------------------------------------------------------------
(***************************************************************************)
(* The end of a session.                                                   *)
(***************************************************************************)

\* The fuzzer leaves for good when it was stopped or has given up, and only then.
OverInv ==
    /\ aborted => apc \in {"exiting", "exited"}
    /\ apc \in {"reap", "exiting", "exited"} => stop_soon \/ aborted

\* A session that is over stays over.
LEMMA ClientOver ==
    ASSUME ClientTypeOK, OverInv, ClientStep
    PROVE  OverInv' /\ (stop_soon \/ aborted => (stop_soon \/ aborted)')
  <1> USE DEF OverInv, Runs
  <1>0. stop_soon \in BOOLEAN /\ aborted \in BOOLEAN
    BY DEF ClientTypeOK
  <1>1. ASSUME NEW t \in Testcases, WriteTestcase(t)
        PROVE  OverInv' /\ (stop_soon \/ aborted => (stop_soon \/ aborted)')
    BY <1>1 DEF WriteTestcase
  <1>2. CASE SendRequest
    BY <1>0, <1>2 DEF SendRequest, GiveUp
  <1>3. CASE ReadChildPid
    BY <1>0, <1>3 DEF ReadChildPid, GiveUp
  <1>4. CASE ReadStatus
    BY <1>0, <1>4 DEF ReadStatus, GiveUp, Conclude
  <1>5. CASE TimerExpires \/ KillTimedOut
    BY <1>5 DEF TimerExpires, KillTimedOut
  <1>6. CASE DrainStatus
    BY <1>0, <1>6 DEF DrainStatus, GiveUp, Conclude
  <1>7. CASE \/ StopSignal \/ StopHandlerReturns \/ KillForkserver
             \/ ForkserverKilled \/ AtExit
    BY <1>7 DEF StopSignal, StopHandlerReturns, KillForkserver,
                ForkserverKilled, AtExit, ClientUp
  <1>8. QED
    BY <1>1, <1>2, <1>3, <1>4, <1>5, <1>6, <1>7 DEF ClientStep

----------------------------------------------------------------------------
(***************************************************************************)
(* The inductive invariant.  MapQuiescent is about the end of a run, and   *)
(* depends on how far the other side may have got at every point of the    *)
(* exchange: which words are in the pipes, which of the server's children  *)
(* exist, and that a request that reports a timeout finds a dying child.   *)
(***************************************************************************)

\* The server answers requests: it is there and not in its SIGTERM handler.
Serving == srv = "up" /\ spc # "at_exit"

\* Nobody is changing the map.
Quiet == \A p \in Pids : Live(p) => cpc[p] = "parked"

\* A SIGKILL is on its way to every child that is left.
AllDoomed == \A p \in Pids : Live(p) => p \in killed

AllFree == \A p \in Pids : proc[p] = "free"

\* The children, as the server knows them.
ChildrenInv ==
    srv = "up" =>
        /\ \A p \in Pids : proc[p] # "free" =>
             \/ p = fork_ret
             \/ p = child_pid /\ fork_ret = NoPid /\ spc # "fork"
        /\ \A p \in Pids : proc[p] = "free" => cpc[p] = "startup"
        /\ fork_ret # NoPid => spc \in {"forked", "at_exit"}
        /\ spc = "forked" => fork_ret \in Pids /\ proc[fork_ret] # "free"
        /\ spc \in {"reap", "resume", "write_pid", "waitpid"} =>
             child_pid \in Pids /\ proc[child_pid] # "free"
        /\ spc \in {"forked", "write_pid", "waitpid"} =>
             \A p \in Pids : Live(p) => cpc[p] # "parked"
        /\ child_stopped =>
             /\ child_pid \in Pids /\ cpc[child_pid] = "parked"
             /\ spc \in {"write_status", "read_ctl", "resume", "at_exit"}
        /\ spc \in {"read_ctl", "write_status"} => child_stopped \/ AllFree
        /\ spc = "reap" => AllDoomed

\* Nothing is under way between two runs.
BetweenRuns ==
    apc = "ready" \/ (apc = "idle" /\ ~stop_soon) =>
        /\ st = <<>>
        /\ Serving => ctl = <<>> /\ spc = "read_ctl"
        /\ ~stop_soon => Quiet

\* From the request to the pid: the request is unread, or being served, or the
\* pid has been written, or the pid and the status have.
AwaitingPid ==
    apc = "read_pid" =>
        \/ /\ st = <<>>
           /\ Serving => \/ ctl # <<>>
                         \/ spc \in {"reap", "fork", "forked", "resume", "write_pid"}
        \/ /\ \E w \in Words : st = <<w>>
           /\ Serving => /\ ctl = <<>> /\ st = <<child_pid>>
                         /\ spc \in {"waitpid", "write_status"}
        \/ /\ \E w, s \in Words : st = <<w, s>> /\ (Serving => w = child_pid)
           /\ Quiet
           /\ Serving => ctl = <<>> /\ spc = "read_ctl"

\* From the pid to the status: the server waits for the child, or has told.
AwaitingStatus ==
    apc \in {"wait", "expired", "drain"} =>
        /\ Serving /\ apc # "drain" => fsrv_child_pid = child_pid
        /\ Serving => ctl = <<>>
        /\ \/ st = <<>> /\ (Serving => spc \in {"waitpid", "write_status"})
           \/ /\ \E s \in Words : st = <<s>>
              /\ Quiet
              /\ Serving => spc = "read_ctl"

\* A request is read before anything else happens, and one that says that the
\* last run timed out finds a child that will die.
RequestInv ==
    /\ Serving /\ ctl # <<>> =>
         /\ spc = "read_ctl"
         /\ \E w \in BOOLEAN : ctl = <<w>> /\ (w => AllDoomed)
    /\ Serving /\ last_run_timed_out =>
         /\ ctl = <<>>
         /\ spc \in {"waitpid", "write_status", "read_ctl"}
         /\ AllDoomed

\* Nothing happens before the first test case is written.
InputInv ==
    input = NoTestcase =>
        /\ AllFree
        /\ ctl = <<>>
        /\ spc \in {"read_ctl", "at_exit", "gone"}
        /\ apc \in {"idle", "reap", "exiting", "exited"}

LinkInv ==
    /\ BetweenRuns
    /\ AwaitingPid
    /\ AwaitingStatus
    /\ RequestInv
    /\ InputInv

IInv == TypeOK /\ ChildrenInv /\ LinkInv

----------------------------------------------------------------------------
(***************************************************************************)
(* Type correctness.                                                       *)
(***************************************************************************)

ServerTypeOK ==
    /\ spc \in ServerPoints
    /\ child_pid \in Pids \cup {NoPid}
    /\ fork_ret \in Pids \cup {NoPid}
    /\ child_stopped \in BOOLEAN
    /\ was_killed \in BOOLEAN
    /\ status \in Statuses

ChildTypeOK ==
    /\ cpc \in [Pids -> ChildPoints]
    /\ tc \in [Pids -> Testcases \cup {NoTestcase}]
    /\ cycle_cnt \in [Pids -> 0..(CounterRange - 1)]

ConstTypeOK ==
    /\ is_persistent \in BOOLEAN
    /\ max_cnt \in MaxCounts

\* The type invariant, in the parts that the steps disturb separately.
LEMMA TypeParts ==
    TypeOK <=> SharedTypeOK /\ ServerTypeOK /\ ChildTypeOK /\ ConstTypeOK
  BY DEF TypeOK, SharedTypeOK, ServerTypeOK, ChildTypeOK, ConstTypeOK

\* The decremented counter stays in its range, 0 wrapping to the top.
LEMMA DecrementedType ==
    ASSUME NEW n \in 0..(CounterRange - 1)
    PROVE  Decremented(n) \in 0..(CounterRange - 1)
  BY CompilerRtAssumption DEF Decremented

\* The state after the handshake is well typed.
LEMMA InitType == Init => TypeOK
  <1> SUFFICES ASSUME Init PROVE TypeOK
    OBVIOUS
  <1>1. SharedTypeOK
    BY SharedInit DEF Init
  <1>2. ServerTypeOK
    BY DEF Init, ServerTypeOK, ServerPoints, Statuses
  <1>3. ChildTypeOK
    BY CompilerRtAssumption DEF Init, ChildTypeOK, ChildPoints
  <1>4. ConstTypeOK
    BY DEF Init, ConstTypeOK
  <1>5. QED
    BY <1>1, <1>2, <1>3, <1>4, TypeParts

\* A process that the kernel forgets leaves well-typed tables behind.
LEMMA ForgetType ==
    ASSUME TypeOK, NEW p, Forget(p)
    PROVE  /\ proc' \in [Pids -> {"free", "live", "zombie"}]
           /\ exit_status' \in [Pids -> Statuses]
           /\ ChildTypeOK'
  <1> USE DEF TypeOK, LinkTypeOK, ChildTypeOK, Forget
  <1>1. proc' \in [Pids -> {"free", "live", "zombie"}]
    OBVIOUS
  <1>2. exit_status' \in [Pids -> Statuses]
    BY DEF Statuses
  <1>3. cpc' \in [Pids -> ChildPoints]
    BY DEF ChildPoints
  <1>4. tc' \in [Pids -> Testcases \cup {NoTestcase}]
    OBVIOUS
  <1>5. cycle_cnt' \in [Pids -> 0..(CounterRange - 1)]
    <2>1. 0 \in 0..(CounterRange - 1)
      BY CompilerRtAssumption
    <2>2. QED
      BY <2>1
  <1>6. QED
    BY <1>1, <1>2, <1>3, <1>4, <1>5

\* A word of the protocol written to the status pipe, or not.
LEMMA WriteWordType ==
    ASSUME TypeOK, NEW word \in Words, NEW next \in ServerPoints,
           WriteWord(word, next)
    PROVE  /\ st' \in Seq(Words)
           /\ spc' \in ServerPoints
           /\ srv' \in {"up", "zombie", "reaped"}
           /\ srv_signal' \in {"none", "SIGTERM", "SIGKILL"}
  <1>0. /\ st \in Seq(Words)
        /\ srv \in {"up", "zombie", "reaped"}
        /\ srv_signal \in {"none", "SIGTERM", "SIGKILL"}
    BY DEF TypeOK, LinkTypeOK
  <1>1. CASE ClientUp
    <2>1. st' = Append(st, word) /\ spc' = next /\ UNCHANGED <<srv, srv_signal>>
      BY <1>1 DEF WriteWord
    <2>2. QED
      BY <1>0, <2>1, AppendType
  <1>2. CASE ~ClientUp
    BY <1>0, <1>2 DEF WriteWord, Quit, ServerEnds, ServerPoints
  <1>3. QED
    BY <1>1, <1>2

\* Every step of the fork server preserves the types; the pid that it writes
\* is one because child_pid has been assigned by then (ChildrenInv).
LEMMA ServerStepType == TypeOK /\ ChildrenInv /\ ServerStep => TypeOK'
  <1> SUFFICES ASSUME TypeOK, ChildrenInv, ServerStep PROVE TypeOK'
    OBVIOUS
  <1> USE DEF TypeOK, LinkTypeOK, ClientTypeOK, Outcomes, clientVars,
              serverVars, childVars, constVars, ServerPoints
  <1>1. CASE ReadRequest
    <2>1. CASE ctl # <<>>
      <3>1. ctl' \in Seq(BOOLEAN) /\ was_killed' \in BOOLEAN
        BY <1>1, <2>1, HeadTailType DEF ReadRequest
      <3>2. spc' \in ServerPoints /\ child_stopped' \in BOOLEAN
        BY <1>1, <2>1 DEF ReadRequest, AfterRequest, StillStopped
      <3>3. QED
        BY <1>1, <2>1, <3>1, <3>2 DEF ReadRequest
    <2>2. CASE ctl = <<>>
      BY <1>1, <2>2 DEF ReadRequest, Quit, ServerEnds
    <2>3. QED
      BY <2>1, <2>2
  <1>2. CASE WriteOffChild
    <2>1. CASE Zombie(child_pid)
      BY <1>2, <2>1, ForgetType DEF WriteOffChild, ChildTypeOK
    <2>2. CASE ~Zombie(child_pid)
      BY <1>2, <2>2 DEF WriteOffChild, Quit, ServerEnds
    <2>3. QED
      BY <2>1, <2>2
  <1>3. ASSUME NEW p \in Pids, Fork(p) PROVE TypeOK'
    BY <1>3 DEF Fork
  <1>4. CASE AssignChildPid
    BY <1>4 DEF AssignChildPid, linkVars
  <1>5. CASE ForkFails
    BY <1>5 DEF ForkFails, Quit, ServerEnds
  <1>6. CASE ResumeChild
    <2>1. cpc' \in [Pids -> ChildPoints]
      <3> DEFINE next(p) == IF p = child_pid /\ Live(p) /\ cpc[p] = "parked"
                              THEN "read" ELSE cpc[p]
      <3>1. \A p \in Pids : next(p) \in ChildPoints
        BY DEF ChildPoints
      <3>2. cpc' = [p \in Pids |-> next(p)]
        BY <1>6 DEF ResumeChild
      <3> HIDE DEF next
      <3>3. QED
        BY <3>1, <3>2
    <2>2. /\ child_stopped' = FALSE
          /\ spc' = "write_pid"
          /\ UNCHANGED <<linkVars, clientVars, child_pid, was_killed, status,
                         tc, cycle_cnt, fork_ret, constVars>>
      BY <1>6 DEF ResumeChild
    <2>3. LinkTypeOK'
      BY <2>2 DEF linkVars
    <2>4. ClientTypeOK'
      BY <2>2
    <2>5. /\ ServerTypeOK'
          /\ ChildTypeOK'
          /\ ConstTypeOK'
      BY <2>1, <2>2 DEF ServerTypeOK, ChildTypeOK, ConstTypeOK
    <2>6. QED
      BY <2>3, <2>4, <2>5 DEF ServerTypeOK, ChildTypeOK, ConstTypeOK
  <1>7. CASE WritePid
    <2>1. child_pid \in Words
      BY <1>7 DEF WritePid, At, ChildrenInv, Words
    <2>2. QED
      BY <1>7, <2>1, WriteWordType DEF WritePid
  <1>8. CASE CollectChild
    <2>1. status' \in Statuses
      BY <1>8 DEF CollectChild, Zombie
    <2>2. QED
      BY <1>8, <2>1, ForgetType DEF CollectChild, ChildTypeOK
  <1>9. CASE ChildHasStopped
    BY <1>9 DEF ChildHasStopped, linkVars, Statuses, ChildPoints
  <1>10. CASE RelayStatus
    <2>1. status \in Words
      BY DEF Words
    <2>2. QED
      BY <1>10, <2>1, WriteWordType DEF RelayStatus
  <1>11. CASE Terminating
    BY <1>11 DEF Terminating, Signaled
  <1>12. CASE Terminated
    <2>1. CASE Zombie(child_pid)
      BY <1>12, <2>1, ForgetType DEF Terminated, ChildTypeOK, Quit, ServerEnds
    <2>2. CASE ~Zombie(child_pid)
      BY <1>12, <2>2 DEF Terminated, Quit, ServerEnds
    <2>3. QED
      BY <2>1, <2>2
  <1>13. CASE ServerDies
    BY <1>13 DEF ServerDies, ServerEnds, localVars
  <1>14. QED
    BY <1>1, <1>2, <1>3, <1>4, <1>5, <1>6, <1>7, <1>8, <1>9, <1>10, <1>11,
       <1>12, <1>13 DEF ServerStep

\* Every step of a child preserves the types.  A persistent child reads the
\* test case only when there is one.
LEMMA ChildStepType ==
    ASSUME TypeOK, NEW p \in Pids, ChildStep(p), input \in Testcases
    PROVE  TypeOK'
  <1> USE DEF TypeOK, LinkTypeOK, ClientTypeOK, Outcomes, clientVars,
              serverVars, childVars, constVars, localVars, ChildPoints,
              ChildAt, Goto
  <1>1. tc[p] \in Testcases \cup {NoTestcase}
    OBVIOUS
  <1>2. CASE ExecuteStartup(p)
    BY <1>2 DEF ExecuteStartup
  <1>3. CASE EnterMain(p)
    <2>1. max_cnt \in 0..(CounterRange - 1)
      BY CompilerRtAssumption
    <2>2. cycle_cnt' \in [Pids -> 0..(CounterRange - 1)]
      BY <1>3, <2>1 DEF EnterMain
    <2>3. QED
      BY <1>3, <2>2 DEF EnterMain, MapAtMain
  <1>4. CASE ReadInput(p)
    <2>1. ran' \in Seq(Testcases)
      BY <1>4, AppendType DEF ReadInput
    <2>2. QED
      BY <1>4, <2>1 DEF ReadInput
  <1>5. CASE ExecuteBlock(p)
    BY <1>1, <1>5 DEF ExecuteBlock
  <1>6. CASE FinishBody(p)
    BY <1>1, <1>6 DEF FinishBody
  <1>7. CASE TargetExits(p)
    BY <1>1, <1>7 DEF TargetExits, Terminate, Statuses
  <1>8. CASE TargetCrashes(p)
    BY <1>1, <1>8 DEF TargetCrashes, Terminate, Statuses
  <1>9. CASE NextCycle(p)
    <2>1. cycle_cnt' \in [Pids -> 0..(CounterRange - 1)]
      BY <1>9, DecrementedType DEF NextCycle
    <2>2. cpc' \in [Pids -> ChildPoints] /\ truth' \in Outcomes
      BY <1>9 DEF NextCycle
    <2>3. QED
      BY <1>9, <2>1, <2>2 DEF NextCycle
  <1>10. ASSUME NEW how \in {"exited", "signaled"}, EndTail(p, how) PROVE TypeOK'
    BY <1>10 DEF EndTail, Terminate, Statuses
  <1>11. QED
    BY <1>2, <1>3, <1>4, <1>5, <1>6, <1>7, <1>8, <1>9, <1>10 DEF ChildStep

----------------------------------------------------------------------------
(***************************************************************************)
(* ChildrenInv is inductive.                                               *)
(***************************************************************************)

\* The state after the handshake satisfies the inductive invariant.
LEMMA InitInv == Init => IInv
  <1> SUFFICES ASSUME Init PROVE IInv
    OBVIOUS
  <1> USE DEF Init, LinkInit, ClientInit
  <1>1. TypeOK
    BY InitType
  <1>2. ChildrenInv
    BY DEF ChildrenInv, AllFree
  <1>3. LinkInv
    BY DEF LinkInv, BetweenRuns, AwaitingPid, AwaitingStatus, RequestInv,
           InputInv, Quiet, Live, AllFree
  <1>4. QED
    BY <1>1, <1>2, <1>3 DEF IInv

\* The fuzzer's only influence on the children is the signals it sends.
LEMMA ClientKeepsChildrenInv ==
    ASSUME IInv, ClientStep, UNCHANGED localVars
    PROVE  ChildrenInv'
  BY ClientFrame
     DEF IInv, ChildrenInv, AllFree, AllDoomed, Live, localVars, serverVars,
         childVars

\* fork(), SIGCONT, waitpid and the SIGTERM handler keep the books of the
\* children straight.
LEMMA ServerKeepsChildrenInv ==
    ASSUME IInv, ServerStep
    PROVE  ChildrenInv'
  <1> USE LinkAssumption
          DEF IInv, TypeOK, LinkTypeOK, ServerPoints, At, ChildrenInv, AllFree,
              AllDoomed, Live, childVars
  <1>1. CASE ReadRequest
    <2>1. CASE ctl # <<>>
      <3>1. Serving /\ \E w \in BOOLEAN : ctl = <<w>> /\ (w => AllDoomed)
        BY <1>1, <2>1 DEF ReadRequest, Serving, LinkInv, RequestInv
      <3>2. PICK w \in BOOLEAN : ctl = <<w>> /\ (w => AllDoomed)
        BY <3>1
      <3>3. Head(ctl) = w
        BY <3>2
      <3>4. /\ spc' = AfterRequest(w) /\ child_stopped' = StillStopped(w)
            /\ UNCHANGED <<proc, killed, cpc, child_pid, fork_ret, srv, srv_signal>>
        BY <1>1, <2>1, <3>3 DEF ReadRequest
      <3>5. spc = "read_ctl"
        BY <1>1 DEF ReadRequest
      <3>6. QED
        BY <3>2, <3>4, <3>5 DEF AfterRequest, StillStopped
    <2>2. CASE ctl = <<>>
      BY <1>1, <2>2 DEF ReadRequest, Quit, ServerEnds
    <2>3. QED
      BY <2>1, <2>2
  <1>2. CASE WriteOffChild
    <2>1. CASE Zombie(child_pid)
      <3>1. /\ child_pid \in Pids
            /\ proc' = [proc EXCEPT ![child_pid] = "free"]
            /\ cpc' = [cpc EXCEPT ![child_pid] = "startup"]
            /\ spc = "reap" /\ spc' = "fork"
            /\ UNCHANGED <<killed, child_pid, fork_ret, child_stopped, srv>>
        BY <1>2, <2>1 DEF WriteOffChild, Zombie, Forget
      <3>2. AllFree'
        BY <1>2, <3>1 DEF WriteOffChild
      <3>3. QED
        BY <3>1, <3>2
    <2>2. CASE ~Zombie(child_pid)
      BY <1>2, <2>2 DEF WriteOffChild, Quit, ServerEnds
    <2>3. QED
      BY <2>1, <2>2
  <1>3. ASSUME NEW p \in Pids, Fork(p) PROVE ChildrenInv'
    BY <1>3 DEF Fork
  <1>4. CASE AssignChildPid
    BY <1>4 DEF AssignChildPid, linkVars
  <1>5. CASE ForkFails
    BY <1>5 DEF ForkFails, Quit, ServerEnds
  <1>6. CASE ResumeChild
    BY <1>6 DEF ResumeChild, linkVars
  <1>7. CASE WritePid
    BY <1>7 DEF WritePid, WriteWord, Quit, ServerEnds
  <1>8. CASE CollectChild
    BY <1>8 DEF CollectChild, Zombie, Forget
  <1>9. CASE ChildHasStopped
    BY <1>9 DEF ChildHasStopped, linkVars
  <1>10. CASE RelayStatus
    BY <1>10 DEF RelayStatus, WriteWord, Quit, ServerEnds
  <1>11. CASE Terminating
    BY <1>11 DEF Terminating, Signaled
  <1>12. CASE Terminated
    BY <1>12 DEF Terminated, Quit, ServerEnds
  <1>13. CASE ServerDies
    BY <1>13 DEF ServerDies, ServerEnds
  <1>14. QED
    BY <1>1, <1>2, <1>3, <1>4, <1>5, <1>6, <1>7, <1>8, <1>9, <1>10, <1>11,
       <1>12, <1>13 DEF ServerStep

\* A child that runs is not the parked one, and it does not park itself.
LEMMA ChildFrame ==
    ASSUME TypeOK, NEW p \in Pids, ChildStep(p)
    PROVE  /\ Live(p) /\ cpc[p] # "parked"
           /\ proc'[p] \in {"live", "zombie"}
           /\ cpc'[p] # "parked"
           /\ \A q \in Pids \ {p} : proc'[q] = proc[q] /\ cpc'[q] = cpc[q]
           /\ proc'[p] = "live" => killed' = killed
           /\ killed \ {p} \subseteq killed'
           /\ UNCHANGED <<ctl, st, input, srv, srv_signal, clientVars,
                          serverVars, constVars>>
  <1> USE DEF TypeOK, LinkTypeOK, ChildAt, Goto, Terminate, Live, localVars
  <1>1. CASE ExecuteStartup(p)
    BY <1>1 DEF ExecuteStartup, childVars
  <1>2. CASE EnterMain(p)
    BY <1>2 DEF EnterMain
  <1>3. CASE ReadInput(p)
    BY <1>3 DEF ReadInput
  <1>4. CASE ExecuteBlock(p)
    BY <1>4 DEF ExecuteBlock, childVars
  <1>5. CASE FinishBody(p)
    BY <1>5 DEF FinishBody
  <1>6. CASE TargetExits(p)
    BY <1>6 DEF TargetExits, childVars
  <1>7. CASE TargetCrashes(p)
    BY <1>7 DEF TargetCrashes, childVars
  <1>8. CASE NextCycle(p)
    BY <1>8 DEF NextCycle
  <1>9. ASSUME NEW how \in {"exited", "signaled"}, EndTail(p, how)
        PROVE  cpc' = cpc
    BY <1>9 DEF EndTail, childVars
  <1>10. ASSUME NEW how \in {"exited", "signaled"}, EndTail(p, how)
         PROVE  /\ Live(p) /\ cpc[p] # "parked"
                /\ proc'[p] = "zombie"
                /\ \A q \in Pids \ {p} : proc'[q] = proc[q]
                /\ killed \ {p} \subseteq killed'
                /\ UNCHANGED <<ctl, st, input, srv, srv_signal, clientVars,
                               serverVars, constVars>>
    BY <1>10 DEF EndTail
  <1>11. QED
    BY <1>1, <1>2, <1>3, <1>4, <1>5, <1>6, <1>7, <1>8, <1>9, <1>10
       DEF ChildStep

\* So does a child, whatever it does.
LEMMA ChildKeepsChildrenInv ==
    ASSUME IInv, NEW p \in Pids, ChildStep(p)
    PROVE  ChildrenInv'
  BY ChildFrame
     DEF IInv, ChildrenInv, AllFree, AllDoomed, Live, serverVars

\* So does the death of a child that was signalled.
LEMMA DeathKeepsChildrenInv ==
    ASSUME IInv, NEW p \in Pids, ChildDies(p), UNCHANGED <<clientVars, localVars>>
    PROVE  ChildrenInv'
  BY DEF IInv, TypeOK, LinkTypeOK, ChildDies, Terminate, ChildrenInv, AllFree,
         AllDoomed, Live, localVars, serverVars, childVars

----------------------------------------------------------------------------
(***************************************************************************)
(* LinkInv is inductive.                                                   *)
(***************************************************************************)

\* Every step of the fuzzer leaves the words in the pipes that its next read,
\* and the server's, reckon with.
LEMMA ClientKeepsLinkInv ==
    ASSUME IInv, ClientStep, UNCHANGED localVars
    PROVE  LinkInv'
  <1>0. /\ Quiet' <=> Quiet
        /\ AllDoomed => AllDoomed'
        /\ AllFree => AllFree'
        /\ Serving' <=> Serving
        /\ UNCHANGED <<spc, child_pid>>
    BY ClientFrame
       DEF Quiet, AllDoomed, AllFree, Live, Serving, localVars, serverVars,
           childVars, IInv
  <1> USE PipeFacts
          DEF IInv, LinkInv, BetweenRuns, AwaitingPid, AwaitingStatus,
              RequestInv, InputInv, Runs
  <1>1. ASSUME NEW t \in Testcases, WriteTestcase(t) PROVE LinkInv'
    BY <1>0, <1>1, LinkAssumption DEF WriteTestcase
  <1>2. CASE SendRequest
    <2>1. CASE srv = "up" /\ Serving
      <3>1. ctl' = <<last_run_timed_out>> /\ last_run_timed_out \in BOOLEAN
        BY <1>2, <2>1 DEF SendRequest, TypeOK, ClientTypeOK
      <3>2. /\ st' = <<>> /\ apc' = "read_pid" /\ ~last_run_timed_out'
            /\ input' # NoTestcase
        BY <1>2, <2>1 DEF SendRequest
      <3>3. last_run_timed_out => AllDoomed'
        BY <1>0, <2>1
      <3>4. spc' = "read_ctl"
        BY <1>0, <1>2, <2>1 DEF SendRequest
      <3>5. BetweenRuns' /\ AwaitingPid' /\ AwaitingStatus' /\ InputInv'
        BY <3>1, <3>2, <3>4
      <3>6. RequestInv'
        BY <3>1, <3>2, <3>3, <3>4
      <3>7. QED
        BY <3>5, <3>6
    <2>2. CASE srv = "up" /\ ~Serving
      BY <1>0, <1>2, <2>2 DEF SendRequest
    <2>3. CASE srv # "up"
      BY <1>0, <1>2, <2>3 DEF SendRequest, GiveUp, Serving
    <2>4. QED
      BY <2>1, <2>2, <2>3
  <1>3. CASE ReadChildPid
    <2>1. CASE st # <<>> /\ Head(st) \in Pids
      <3>1. apc' = "wait" /\ fsrv_child_pid' = Head(st) /\ st' = Tail(st)
        BY <1>3, <2>1 DEF ReadChildPid
      <3>2. \/ st' = <<>> /\ (Serving => spc \in {"waitpid", "write_status"})
            \/ /\ \E s \in Words : st' = <<s>>
               /\ Quiet
               /\ Serving => spc = "read_ctl"
        <4>1. CASE st = <<>>
          BY <2>1, <4>1
        <4>2. ASSUME NEW w \in Words, st = <<w>>,
                     Serving => spc \in {"waitpid", "write_status"}
              PROVE  st' = <<>> /\ (Serving => spc \in {"waitpid", "write_status"})
          BY <3>1, <4>2
        <4>3. ASSUME NEW w \in Words, NEW s \in Words, st = <<w, s>>
              PROVE  st' = <<s>>
          BY <3>1, <4>3
        <4>4. QED
          BY <1>3, <4>1, <4>2, <4>3 DEF ReadChildPid
      <3>3. Serving => Head(st) = child_pid /\ ctl = <<>>
        BY <1>3, <2>1 DEF ReadChildPid
      <3>4. QED
        BY <1>0, <1>3, <2>1, <3>1, <3>2, <3>3 DEF ReadChildPid
    <2>2. CASE ~(st # <<>> /\ Head(st) \in Pids)
      BY <1>0, <1>3, <2>2 DEF ReadChildPid, GiveUp
    <2>3. QED
      BY <2>1, <2>2
  <1>4. CASE ReadStatus
    <2>1. CASE stop_soon \/ st = <<>>
      BY <1>0, <1>4, <2>1 DEF ReadStatus, GiveUp
    <2>2. CASE ~(stop_soon \/ st = <<>>)
      <3>1. /\ apc' = "idle"
            /\ st' = Tail(st)
            /\ UNCHANGED <<ctl, input, last_run_timed_out, stop_soon>>
        BY <1>4, <2>2 DEF ReadStatus, Conclude
      <3>2. st' = <<>> /\ Quiet /\ (Serving => ctl = <<>> /\ spc = "read_ctl")
        BY <1>4, <2>2, <3>1 DEF ReadStatus
      <3>3. QED
        BY <1>0, <1>4, <3>1, <3>2 DEF ReadStatus
    <2>3. QED
      BY <2>1, <2>2
  <1>5. CASE TimerExpires
    BY <1>0, <1>5 DEF TimerExpires, linkVars
  <1>6. CASE KillTimedOut
    <2>1. killed' = Signaled(fsrv_child_pid)
      BY <1>6 DEF KillTimedOut, tmp_pid
    <2>2. Serving => fsrv_child_pid = child_pid /\ spc \notin {"forked", "fork"}
      BY <1>6 DEF KillTimedOut
    <2>3. Serving => \A p \in Pids : Live(p) => p = fsrv_child_pid
      BY <2>2, LinkAssumption DEF ChildrenInv, Serving, Live
    <2>4. Serving => AllDoomed'
      BY <2>1, <2>3, ClientFrame DEF AllDoomed, Signaled, Live
    <2>5. QED
      BY <1>0, <1>6, <2>4 DEF KillTimedOut
  <1>7. CASE DrainStatus
    <2>1. CASE st = <<>>
      BY <1>0, <1>7, <2>1 DEF DrainStatus, GiveUp
    <2>2. CASE ~(st = <<>>)
      <3>1. /\ apc' = "idle"
            /\ st' = Tail(st)
            /\ UNCHANGED <<ctl, input, last_run_timed_out, stop_soon>>
        BY <1>7, <2>2 DEF DrainStatus, Conclude
      <3>2. st' = <<>> /\ Quiet /\ (Serving => ctl = <<>> /\ spc = "read_ctl")
        BY <1>7, <2>2, <3>1 DEF DrainStatus
      <3>3. QED
        BY <1>0, <1>7, <3>1, <3>2 DEF DrainStatus
    <2>3. QED
      BY <2>1, <2>2
  <1>8. CASE StopSignal
    BY <1>0, <1>8 DEF StopSignal, SignalServer
  <1>9. CASE StopHandlerReturns
    BY <1>0, <1>9 DEF StopHandlerReturns, ReapServer
  <1>10. CASE KillForkserver
    BY <1>0, <1>10 DEF KillForkserver
  <1>11. CASE ForkserverKilled
    BY <1>0, <1>11 DEF ForkserverKilled, ReapServer
  <1>12. CASE AtExit
    BY <1>0, <1>12 DEF AtExit
  <1>13. QED
    BY <1>1, <1>2, <1>3, <1>4, <1>5, <1>6, <1>7, <1>8, <1>9, <1>10, <1>11,
       <1>12 DEF ClientStep

\* A server that is on its way out leaves the pipes and a quiet map alone.
LEMMA EndKeepsLinkInv ==
    ASSUME LinkInv, ~Serving', Quiet => Quiet', AllFree => AllFree',
           UNCHANGED <<ctl, st, input, clientVars>>,
           spc' \in {spc, "at_exit", "gone"}
    PROVE  LinkInv'
  <1> USE DEF LinkInv, clientVars
  <1>1. BetweenRuns'
    BY DEF BetweenRuns
  <1>2. AwaitingPid'
    BY DEF AwaitingPid
  <1>3. AwaitingStatus'
    BY DEF AwaitingStatus
  <1>4. RequestInv' /\ InputInv'
    BY DEF RequestInv, InputInv
  <1>5. QED
    BY <1>1, <1>2, <1>3, <1>4

\* So does every step of the fork server.
LEMMA ServerKeepsLinkInv ==
    ASSUME IInv, ServerStep
    PROVE  LinkInv'
  <1> USE DEF IInv, At, Serving, clientVars
  <1>1. CASE ReadRequest
    <2>1. CASE ctl # <<>>
      <3>1. Serving /\ \E w \in BOOLEAN : ctl = <<w>> /\ (w => AllDoomed)
        BY <1>1, <2>1 DEF ReadRequest, LinkInv, RequestInv
      <3>2. ctl' = <<>> /\ spc' \in {"fork", "reap", "resume"}
        <4>1. /\ ctl' = Tail(ctl) /\ spc' = AfterRequest(Head(ctl))
          BY <1>1, <2>1 DEF ReadRequest
        <4>2. AfterRequest(Head(ctl)) \in {"fork", "reap", "resume"}
          BY DEF AfterRequest
        <4>3. QED
          BY <3>1, <4>1, <4>2, PipeFacts
      <3>3. UNCHANGED <<st, input, clientVars, srv, killed, proc, cpc, child_pid>>
        BY <1>1, <2>1 DEF ReadRequest, childVars
      <3>4. /\ apc \notin {"ready", "wait", "expired", "drain"}
            /\ ~(apc = "idle" /\ ~stop_soon)
            /\ ~last_run_timed_out
            /\ input # NoTestcase
            /\ apc = "read_pid" => st = <<>>
        BY <1>1, <2>1, <3>1
           DEF ReadRequest, LinkInv, BetweenRuns, AwaitingPid, AwaitingStatus,
               RequestInv, InputInv
      <3>5. QED
        BY <3>1, <3>2, <3>3, <3>4
           DEF LinkInv, BetweenRuns, AwaitingPid, AwaitingStatus, RequestInv,
               InputInv
    <2>2. CASE ctl = <<>>
      BY <1>1, <2>2, EndKeepsLinkInv
         DEF ReadRequest, Quit, ServerEnds, Quiet, AllFree, Live, childVars
    <2>3. QED
      BY <2>1, <2>2
  <1>2. CASE WriteOffChild
    <2>1. CASE Zombie(child_pid)
      BY <1>2, <2>1
         DEF WriteOffChild, Zombie, Forget, TypeOK, LinkTypeOK, LinkInv,
             BetweenRuns, AwaitingPid, AwaitingStatus, RequestInv, InputInv
    <2>2. CASE ~Zombie(child_pid)
      BY <1>2, <2>2, EndKeepsLinkInv
         DEF WriteOffChild, Quit, ServerEnds, Quiet, AllFree, Live, childVars
    <2>3. QED
      BY <2>1, <2>2
  <1>3. ASSUME NEW p \in Pids, Fork(p) PROVE LinkInv'
    BY <1>3 DEF Fork, LinkInv, BetweenRuns, AwaitingPid, AwaitingStatus,
                RequestInv, InputInv
  <1>4. CASE AssignChildPid
    BY <1>4 DEF AssignChildPid, linkVars, LinkInv, BetweenRuns, AwaitingPid,
                AwaitingStatus, RequestInv, InputInv
  <1>5. CASE ForkFails
    BY <1>5, EndKeepsLinkInv
       DEF ForkFails, Quit, ServerEnds, Quiet, AllFree, Live, childVars
  <1>6. CASE ResumeChild
    BY <1>6 DEF ResumeChild, linkVars, LinkInv, BetweenRuns, AwaitingPid,
                AwaitingStatus, RequestInv, InputInv
  <1>7. CASE WritePid
    <2>1. CASE ClientUp
      <3>1. /\ spc = "write_pid" /\ Serving /\ spc' = "waitpid" /\ Serving'
            /\ st' = Append(st, child_pid)
            /\ UNCHANGED <<ctl, input, clientVars, child_pid>>
        BY <1>7, <2>1 DEF WritePid, WriteWord
      <3>2. /\ apc \notin {"ready", "wait", "expired", "drain"}
            /\ ~(apc = "idle" /\ ~stop_soon)
            /\ ctl = <<>> /\ ~last_run_timed_out
            /\ input # NoTestcase
            /\ apc = "read_pid" => st = <<>>
        BY <3>1
           DEF LinkInv, BetweenRuns, AwaitingPid, AwaitingStatus, RequestInv,
               InputInv
      <3>3. child_pid \in Words
        BY <3>1 DEF ChildrenInv, Words
      <3>4. apc = "read_pid" => st' = <<child_pid>>
        BY <3>1, <3>2, PipeFacts
      <3>5. QED
        BY <3>1, <3>2, <3>3, <3>4
           DEF LinkInv, BetweenRuns, AwaitingPid, AwaitingStatus, RequestInv,
               InputInv
    <2>2. CASE ~ClientUp
      BY <1>7, <2>2, EndKeepsLinkInv
         DEF WritePid, WriteWord, Quit, ServerEnds, Quiet, AllFree, Live,
             childVars
    <2>3. QED
      BY <2>1, <2>2
  <1>8. CASE CollectChild
    <2>1. AllDoomed => AllDoomed'
      BY <1>8 DEF CollectChild, Zombie, Forget, AllDoomed, Live, TypeOK,
                  LinkTypeOK
    <2>2. /\ spc = "waitpid" /\ spc' = "write_status"
          /\ UNCHANGED <<ctl, st, input, clientVars, child_pid, srv>>
      BY <1>8 DEF CollectChild
    <2>3. QED
      BY <1>8, <2>1, <2>2
         DEF CollectChild, LinkInv, BetweenRuns, AwaitingPid, AwaitingStatus,
             RequestInv, InputInv
  <1>9. CASE ChildHasStopped
    BY <1>9
       DEF ChildHasStopped, linkVars, LinkInv, BetweenRuns, AwaitingPid,
           AwaitingStatus, RequestInv, InputInv, AllDoomed, Live
  <1>10. CASE RelayStatus
    <2>1. CASE ClientUp
      <3>1. /\ spc = "write_status" /\ Serving /\ spc' = "read_ctl" /\ Serving'
            /\ st' = Append(st, status)
            /\ UNCHANGED <<ctl, input, clientVars, child_pid, proc, cpc, killed>>
        BY <1>10, <2>1 DEF RelayStatus, WriteWord, childVars
      <3>2. /\ apc # "ready" /\ ~(apc = "idle" /\ ~stop_soon)
            /\ ctl = <<>>
            /\ input # NoTestcase
            /\ apc = "read_pid" => st = <<child_pid>>
            /\ apc \in {"wait", "expired", "drain"} => st = <<>>
            /\ apc \in {"wait", "expired"} => fsrv_child_pid = child_pid
            /\ last_run_timed_out => AllDoomed
        BY <3>1
           DEF LinkInv, BetweenRuns, AwaitingPid, AwaitingStatus, RequestInv,
               InputInv
      <3>3. Quiet' /\ (AllDoomed => AllDoomed')
        BY <3>1, LinkAssumption
           DEF ChildrenInv, Quiet, AllFree, AllDoomed, Live
      <3>4. status \in Words /\ (st = <<child_pid>> => child_pid \in Words)
        <4>1. status \in Words
          BY DEF TypeOK, Words
        <4>2. st = <<child_pid>> => child_pid \in Words
          BY HeadTailType, PipeFacts DEF TypeOK, LinkTypeOK
        <4>3. QED
          BY <4>1, <4>2
      <3>5. /\ apc = "read_pid" => st' = <<child_pid, status>>
            /\ apc \in {"wait", "expired", "drain"} => st' = <<status>>
        <4>1. CASE st = <<child_pid>>
          BY <3>1, <3>2, <3>4, <4>1, PipeFacts, AppendToOne
        <4>2. CASE st = <<>>
          BY <3>1, <3>2, <4>2, PipeFacts
        <4>3. QED
          BY <3>2, <4>1, <4>2
      <3>6. BetweenRuns' /\ RequestInv' /\ InputInv'
        BY <3>1, <3>2, <3>3 DEF BetweenRuns, RequestInv, InputInv
      <3>7. AwaitingPid' /\ AwaitingStatus'
        BY <3>1, <3>2, <3>3, <3>4, <3>5 DEF AwaitingPid, AwaitingStatus
      <3>8. QED
        BY <3>6, <3>7 DEF LinkInv
    <2>2. CASE ~ClientUp
      BY <1>10, <2>2, EndKeepsLinkInv
         DEF RelayStatus, WriteWord, Quit, ServerEnds, Quiet, AllFree, Live,
             childVars
    <2>3. QED
      BY <2>1, <2>2
  <1>11. CASE Terminating
    BY <1>11, EndKeepsLinkInv DEF Terminating, Quiet, AllFree, Live, childVars
  <1>12. CASE Terminated
    <2>1. (Quiet => Quiet') /\ (AllFree => AllFree')
      BY <1>12 DEF Terminated, Forget, Zombie, Quiet, AllFree, Live, TypeOK,
                   LinkTypeOK, childVars
    <2>2. QED
      BY <1>12, <2>1, EndKeepsLinkInv DEF Terminated, Quit, ServerEnds
  <1>13. CASE ServerDies
    BY <1>13, EndKeepsLinkInv
       DEF ServerDies, ServerEnds, Quiet, AllFree, Live, localVars, serverVars,
           childVars
  <1>14. QED
    BY <1>1, <1>2, <1>3, <1>4, <1>5, <1>6, <1>7, <1>8, <1>9, <1>10, <1>11,
       <1>12, <1>13 DEF ServerStep

\* A child writes to neither pipe, and moves only while a run is on.
LEMMA ChildKeepsLinkInv ==
    ASSUME IInv, NEW p \in Pids, ChildStep(p)
    PROVE  LinkInv'
  <1>1. /\ ~Quiet /\ ~AllFree
        /\ AllDoomed => AllDoomed'
        /\ UNCHANGED <<ctl, st, input, srv, clientVars, serverVars>>
    BY ChildFrame DEF IInv, Quiet, AllFree, AllDoomed, Live
  <1>2. QED
    BY <1>1
       DEF IInv, LinkInv, BetweenRuns, AwaitingPid, AwaitingStatus, RequestInv,
           InputInv, Serving, clientVars, serverVars

\* Nor does a child that dies.
LEMMA DeathKeepsLinkInv ==
    ASSUME IInv, NEW p \in Pids, ChildDies(p), UNCHANGED <<clientVars, localVars>>
    PROVE  LinkInv'
  <1>1. /\ ~AllFree
        /\ Quiet => Quiet'
        /\ AllDoomed => AllDoomed'
        /\ UNCHANGED <<ctl, st, input, srv, clientVars, serverVars>>
    BY DEF IInv, TypeOK, LinkTypeOK, ChildDies, Terminate, Quiet, AllFree,
           AllDoomed, Live, localVars, childVars
  <1>2. QED
    BY <1>1
       DEF IInv, LinkInv, BetweenRuns, AwaitingPid, AwaitingStatus, RequestInv,
           InputInv, Serving, clientVars, serverVars

----------------------------------------------------------------------------
(***************************************************************************)
(* The theorems.                                                           *)
(***************************************************************************)

\* IInv holds initially and every step preserves it.
LEMMA NextKeepsInv == IInv /\ [Next]_vars => IInv'
  <1> SUFFICES ASSUME IInv, [Next]_vars PROVE IInv'
    OBVIOUS
  <1>1. CASE ClientStep /\ UNCHANGED localVars
    <2>1. TypeOK'
      <3>1. SharedTypeOK'
        BY <1>1, ClientStepType, TypeParts DEF IInv
      <3>2. ServerTypeOK' /\ ChildTypeOK' /\ ConstTypeOK'
        BY <1>1, TypeParts
           DEF IInv, ServerTypeOK, ChildTypeOK, ConstTypeOK, localVars,
               serverVars, childVars, constVars
      <3>3. QED
        BY <3>1, <3>2
           DEF TypeOK, SharedTypeOK, ServerTypeOK, ChildTypeOK, ConstTypeOK
    <2>2. QED
      BY <1>1, <2>1, ClientKeepsChildrenInv, ClientKeepsLinkInv DEF IInv
  <1>2. CASE ServerStep
    BY <1>2, ServerStepType, ServerKeepsChildrenInv, ServerKeepsLinkInv DEF IInv
  <1>3. ASSUME NEW p \in Pids, ChildStep(p) PROVE IInv'
    <2>1. input \in Testcases
      <3>1. ~AllFree
        BY <1>3, ChildFrame DEF IInv, AllFree, Live
      <3>2. QED
        BY <3>1 DEF IInv, LinkInv, InputInv, TypeOK, LinkTypeOK
    <2>2. QED
      BY <1>3, <2>1, ChildStepType, ChildKeepsChildrenInv, ChildKeepsLinkInv
         DEF IInv
  <1>4. ASSUME NEW p \in Pids, ChildDies(p), UNCHANGED <<clientVars, localVars>>
        PROVE  IInv'
    <2>1. TypeOK'
      <3>1. LinkTypeOK'
        BY <1>4 DEF IInv, TypeOK, LinkTypeOK, ChildDies, Terminate, Statuses
      <3>2. QED
        BY <1>4, <3>1
           DEF IInv, TypeOK, ClientTypeOK, clientVars, localVars, serverVars,
               childVars, constVars
    <2>2. QED
      BY <1>4, <2>1, DeathKeepsChildrenInv, DeathKeepsLinkInv DEF IInv
  <1>5. CASE ServerLost
    <2>1. TypeOK'
      BY <1>5
         DEF IInv, TypeOK, LinkTypeOK, ClientTypeOK, ServerLost, clientVars,
             localVars, serverVars, childVars, constVars
    <2>2. ChildrenInv'
      BY <1>5 DEF IInv, ChildrenInv, AllFree, AllDoomed, Live, ServerLost,
                  localVars, serverVars, childVars
    <2>3. LinkInv'
      BY <1>5
         DEF IInv, LinkInv, BetweenRuns, AwaitingPid, AwaitingStatus,
             RequestInv, InputInv, Serving, Quiet, AllDoomed, AllFree, Live,
             ServerLost, clientVars, localVars, serverVars, childVars
    <2>4. QED
      BY <2>1, <2>2, <2>3 DEF IInv
  <1>6. CASE UNCHANGED vars
    <2>1. TypeOK'
      BY <1>6
         DEF IInv, TypeOK, LinkTypeOK, ClientTypeOK, vars, linkVars, clientVars,
             localVars, serverVars, childVars, constVars
    <2>2. ChildrenInv'
      BY <1>6 DEF IInv, ChildrenInv, AllFree, AllDoomed, Live, vars, linkVars,
                  localVars, serverVars, childVars
    <2>3. LinkInv'
      BY <1>6
         DEF IInv, LinkInv, BetweenRuns, AwaitingPid, AwaitingStatus,
             RequestInv, InputInv, Serving, Quiet, AllDoomed, AllFree, Live,
             vars, linkVars, clientVars, localVars, serverVars, childVars
    <2>4. QED
      BY <2>1, <2>2, <2>3 DEF IInv
  <1>7. QED
    BY <1>1, <1>2, <1>3, <1>4, <1>5, <1>6 DEF Next, Finished

\* The inductive invariant holds throughout: what is in the pipes and which
\* children exist at every point of the exchange.
THEOREM Invariance == Spec => []IInv
  BY InitInv, NextKeepsInv, PTL DEF Spec

\* Every variable of the protocol keeps its type: no counter of __AFL_LOOP
\* leaves its range, and no word that is not a pid or a status is written.
THEOREM TypeCorrect == Spec => []TypeOK
  <1>1. IInv => TypeOK
    BY DEF IInv
  <1>2. QED
    BY <1>1, Invariance, PTL

\* When afl_fsrv_run_target has returned, every child of the fork server is
\* dead or stopped, so the coverage map does not change until the next request.
THEOREM MapIsQuiescent == Spec => []MapQuiescent
  <1>1. IInv => MapQuiescent
    BY DEF IInv, LinkInv, BetweenRuns, Quiet, MapQuiescent
  <1>2. QED
    BY <1>1, Invariance, PTL

\* The server has at most one child that it has not collected, knows whether
\* it is stopped, and waits only for one that will die or stop.
THEOREM ChildrenAreAccountedFor == Spec => []ChildrenAccountedFor
  <1>1. IInv => ChildrenAccountedFor
    BY DEF IInv, ChildrenInv, AllDoomed, Live, ChildrenAccountedFor
  <1>2. QED
    BY <1>1, Invariance, PTL

----------------------------------------------------------------------------
(***************************************************************************)
(* Whose execution an answer is about.  From the request to the answer the *)
(* history of the run (ran, truth and the map) is followed through the     *)
(* child that serves it, the status that the server holds, and the word in *)
(* the pipe.  What makes it true in spite of the kills is that a child is  *)
(* signalled only in a run that is reported as a timeout, and that such a  *)
(* child is written off before the next run.                               *)
(***************************************************************************)

\* The map holds what the test case that was written has left in it.
Attributed == trace_bits \subseteq (IF is_persistent THEN {input} ELSE {input, NoTestcase})

\* The test case has been executed once.
Executed == ran = <<input>> /\ input \in trace_bits /\ Attributed

\* What the wait status s says of the run, unless the run has timed out.
Told(s) ==
    /\ trace_bits \subseteq {input, NoTestcase}
    /\ is_persistent /\ ran # <<>> => trace_bits \subseteq {input}
    /\ ~last_run_timed_out =>
         Executed /\ truth = IF s = "signaled" THEN "crash" ELSE "clean"

\* How far the child p has got with the test case.
Progress(p) ==
    /\ Live(p) =>
         /\ cpc[p] \in {"startup", "read"} =>
              /\ ran = <<>> /\ truth = "none"
              /\ trace_bits \subseteq {NoTestcase}
              /\ cpc[p] = "read" /\ is_persistent => trace_bits = {}
         /\ cpc[p] = "run" =>
              ran = <<input>> /\ tc[p] = input /\ truth = "none" /\ Attributed
         /\ cpc[p] \in {"loop", "tail"} => Executed /\ truth = "none"
         /\ cpc[p] = "stopped" => Executed /\ truth = "clean"
    /\ proc[p] = "zombie" => exit_status[p] # "stopped" /\ Told(exit_status[p])

\* A run is under way.
Busy == apc \in {"read_pid", "wait", "expired", "drain"} /\ ~stop_soon

\* Nothing has been executed for a request that has not been served yet.
NotStarted ==
    /\ Busy /\ Serving /\ (ctl # <<>> \/ spc \in {"reap", "fork", "resume"}) =>
         ran = <<>> /\ truth = "none" /\ trace_bits = {}
    /\ apc = "ready" /\ ~stop_soon => ran = <<>> /\ truth = "none"

\* While the child is at it.
UnderWay ==
    Busy /\ Serving /\ spc \in {"forked", "write_pid", "waitpid"} =>
        \A p \in Pids : proc[p] # "free" => Progress(p)

\* The status, from waitpid to the answer.
StatusTold ==
    /\ Busy /\ Serving /\ spc = "write_status" => Told(status)
    /\ Busy /\ apc = "read_pid" => \A w, s \in Words : st = <<w, s>> => Told(s)
    /\ Busy /\ apc # "read_pid" => \A s \in Words : st = <<s>> => Told(s)

\* A child is signalled only when its run has timed out, and is not continued.
Signalled ==
    /\ \A p \in killed : p \in Pids /\ Live(p)
    /\ srv = "up" => spc # "gone"
    /\ srv = "up" /\ spc \in {"reap", "resume"} =>
         child_pid \in Pids /\ cpc[child_pid] = "parked"
    /\ /\ ~stop_soon /\ Serving /\ apc \notin {"reap", "exiting", "exited"}
       /\ ~last_run_timed_out /\ ctl # <<TRUE>> /\ spc # "reap"
       => /\ killed = {}
          /\ spc \in {"read_ctl", "write_status", "resume"} =>
               \A p \in Pids : proc[p] # "zombie"

RunInv == NotStarted /\ UnderWay /\ StatusTold /\ Signalled /\ AnswerMatchesRun

----------------------------------------------------------------------------
(***************************************************************************)
(* The steps of the fuzzer.                                                *)
(***************************************************************************)

\* What the inductive invariant says at the points where a run begins and ends.
LEMMA PointFacts ==
    ASSUME IInv
    PROVE  /\ apc = "ready" /\ ~stop_soon => st = <<>> /\ Quiet
           /\ apc = "ready" /\ ~stop_soon /\ Serving => ctl = <<>> /\ spc = "read_ctl"
           /\ apc = "idle" /\ ~stop_soon => Quiet /\ st = <<>>
           /\ apc = "idle" /\ ~stop_soon /\ Serving => ctl = <<>> /\ spc = "read_ctl"
           /\ apc \in {"wait", "expired", "drain"} =>
                /\ st = <<>> \/ \E s \in Words : st = <<s>> /\ Quiet
                /\ Serving => ctl = <<>>
                /\ Serving => spc \in {"waitpid", "write_status", "read_ctl"}
                /\ Serving /\ spc \in {"waitpid", "write_status"} => st = <<>>
           /\ apc = "read_pid" =>
                \/ st = <<>>
                \/ \E w \in Words : st = <<w>>
                \/ \E w, s \in Words : st = <<w, s>> /\ Quiet
  <1> USE PipeFacts DEF IInv, LinkInv
  <1>1. /\ apc = "ready" /\ ~stop_soon => st = <<>> /\ Quiet
        /\ apc = "ready" /\ ~stop_soon /\ Serving => ctl = <<>> /\ spc = "read_ctl"
        /\ apc = "idle" /\ ~stop_soon => Quiet /\ st = <<>>
        /\ apc = "idle" /\ ~stop_soon /\ Serving => ctl = <<>> /\ spc = "read_ctl"
    BY DEF BetweenRuns
  <1>2. apc \in {"wait", "expired", "drain"} =>
                /\ st = <<>> \/ \E s \in Words : st = <<s>> /\ Quiet
                /\ Serving => ctl = <<>>
                /\ Serving => spc \in {"waitpid", "write_status", "read_ctl"}
                /\ Serving /\ spc \in {"waitpid", "write_status"} => st = <<>>
    BY DEF AwaitingStatus
  <1>3. apc = "read_pid" =>
                \/ st = <<>>
                \/ \E w \in Words : st = <<w>>
                \/ \E w, s \in Words : st = <<w, s>> /\ Quiet
    BY DEF AwaitingPid
  <1>4. QED
    BY <1>1, <1>2, <1>3

\* Only live children are signalled, and only by a stop or for a timeout.
LEMMA ClientKeepsSignalled ==
    ASSUME IInv, Signalled, ClientStep, UNCHANGED localVars
    PROVE  Signalled'
  <1>0. UNCHANGED <<proc, spc, child_pid, cpc>> /\ (srv' = "up" <=> srv = "up")
    BY ClientFrame DEF IInv, localVars, serverVars, childVars
  <1>1. \A p \in killed' : p \in Pids /\ Live(p)'
    BY <1>0 DEF ClientStep, WriteTestcase, SendRequest, ReadChildPid, ReadStatus,
         TimerExpires, KillTimedOut, DrainStatus, StopSignal,
         StopHandlerReturns, KillForkserver, ForkserverKilled, AtExit,
         Signaled, linkVars, Live, Signalled
  <1>2. (srv = "up" /\ spc \in {"reap", "resume"} =>
         child_pid \in Pids /\ cpc[child_pid] = "parked")'
    BY <1>0 DEF Signalled
  <1>3. ASSUME ~stop_soon', Serving', apc' \notin {"reap", "exiting", "exited"},
               ~last_run_timed_out', ctl' # <<TRUE>>, spc' # "reap"
        PROVE  /\ killed' = {}
               /\ spc' \in {"read_ctl", "write_status", "resume"} =>
                    \A p \in Pids : proc'[p] # "zombie"
    <2>1. Serving /\ spc # "reap" /\ ~stop_soon
      BY <1>0, <1>3 DEF Serving, ClientStep, WriteTestcase, SendRequest, ReadChildPid, ReadStatus,
         TimerExpires, KillTimedOut, DrainStatus, StopSignal,
         StopHandlerReturns, KillForkserver, ForkserverKilled, AtExit
    <2>2. apc \notin {"reap", "exiting", "exited"} /\ killed' = killed
      BY <1>3, <2>1 DEF ClientStep, WriteTestcase, SendRequest, ReadChildPid, ReadStatus,
         TimerExpires, KillTimedOut, DrainStatus, StopSignal,
         StopHandlerReturns, KillForkserver, ForkserverKilled, AtExit, Runs,
         linkVars
    <2>3. ~last_run_timed_out /\ ctl # <<TRUE>>
      <3>1. CASE SendRequest
        <4>1. ctl = <<>> /\ srv = "up"
          BY <2>1, <3>1, PointFacts DEF SendRequest, Runs, Serving
        <4>2. ctl' = <<last_run_timed_out>>
          BY <3>1, <4>1, PipeFacts DEF SendRequest
        <4>3. last_run_timed_out \in BOOLEAN
          BY DEF IInv, TypeOK, ClientTypeOK
        <4>4. QED
          BY <1>3, <4>1, <4>2, <4>3
      <3>2. CASE ~SendRequest
        <4>1. ctl' = ctl /\ (last_run_timed_out = TRUE => last_run_timed_out' = TRUE)
          BY <3>2
             DEF ClientStep, WriteTestcase, ReadChildPid, ReadStatus,
                 TimerExpires, KillTimedOut, DrainStatus, StopSignal,
                 StopHandlerReturns, KillForkserver, ForkserverKilled, AtExit,
                 linkVars
        <4>2. last_run_timed_out \in BOOLEAN
          BY DEF IInv, TypeOK, ClientTypeOK
        <4>3. QED
          BY <1>3, <4>1, <4>2
      <3>3. QED
        BY <3>1, <3>2
    <2>4. QED
      BY <1>0, <2>1, <2>2, <2>3 DEF Signalled
  <1>4. srv' = "up" => spc' # "gone"
    BY <1>0 DEF Signalled
  <1>5. QED
    BY <1>1, <1>2, <1>3, <1>4 DEF Signalled

\* The fuzzer starts a run with nothing executed, and what it reads at its end
\* is what the server has been told.
LEMMA ClientKeepsRun ==
    ASSUME IInv, RunInv, ClientStep, UNCHANGED localVars
    PROVE  NotStarted' /\ UnderWay' /\ StatusTold' /\ AnswerMatchesRun'
  <1>0. /\ UNCHANGED <<proc, exit_status, spc, child_pid, cpc, tc, status, is_persistent>>
        /\ Serving' <=> Serving
    BY ClientFrame DEF IInv, localVars, serverVars, childVars, constVars, Serving
  <1> USE PipeFacts, PointFacts DEF RunInv, Busy, Runs, Answered
  <1>1. ASSUME NEW t \in Testcases, WriteTestcase(t)
        PROVE  NotStarted' /\ UnderWay' /\ StatusTold' /\ AnswerMatchesRun'
    BY <1>0, <1>1 DEF WriteTestcase, NotStarted, UnderWay, StatusTold, AnswerMatchesRun
  <1>2. CASE SendRequest
    <2>1. CASE stop_soon
      BY <1>2, <2>1 DEF SendRequest, NotStarted, UnderWay, StatusTold, AnswerMatchesRun
    <2>2. CASE ~stop_soon /\ srv = "up"
      <3>1. /\ apc' = "read_pid" /\ trace_bits' = {} /\ st' = <<>>
            /\ ran' = <<>> /\ truth' = "none"
            /\ Serving => spc' = "read_ctl"
        BY <1>0, <1>2, <2>2 DEF SendRequest, NotStarted
      <3>2. QED
        BY <1>0, <2>2, <3>1 DEF NotStarted, UnderWay, StatusTold, AnswerMatchesRun
    <2>3. CASE ~stop_soon /\ srv # "up"
      BY <1>0, <1>2, <2>3
         DEF SendRequest, GiveUp, NotStarted, UnderWay, StatusTold, AnswerMatchesRun
    <2>4. QED
      BY <2>1, <2>2, <2>3
  <1>3. CASE ReadChildPid
    <2>1. CASE stop_soon
      BY <1>3, <2>1 DEF ReadChildPid, NotStarted, UnderWay, StatusTold, AnswerMatchesRun
    <2>2. CASE ~stop_soon /\ st # <<>> /\ Head(st) \in Pids
      <3>1. /\ apc = "read_pid" /\ apc' = "wait" /\ st' = Tail(st) /\ ~stop_soon'
            /\ UNCHANGED <<ctl, input, trace_bits, ran, truth, last_run_timed_out>>
        BY <1>3, <2>2 DEF ReadChildPid
      <3>2. ASSUME NEW s \in Words, st' = <<s>> PROVE Told(s)
        BY <2>2, <3>1, <3>2 DEF StatusTold
      <3>3. \A s : Told(s)' <=> Told(s)
        BY <1>0, <3>1 DEF Told, Executed, Attributed
      <3>4. \A p : Progress(p)' <=> Progress(p)
        BY <1>0, <3>1, <3>3 DEF Progress, Executed, Attributed, Live
      <3>5. QED
        BY <1>0, <2>2, <3>1, <3>2, <3>3, <3>4
           DEF NotStarted, UnderWay, StatusTold, AnswerMatchesRun
    <2>3. CASE ~stop_soon /\ ~(st # <<>> /\ Head(st) \in Pids)
      BY <1>3, <2>3 DEF ReadChildPid, GiveUp, NotStarted, UnderWay, StatusTold, AnswerMatchesRun
    <2>4. QED
      BY <2>1, <2>2, <2>3
  <1>4. ASSUME ReadStatus \/ DrainStatus
        PROVE  NotStarted' /\ UnderWay' /\ StatusTold' /\ AnswerMatchesRun'
    <2>1. CASE stop_soon
      BY <1>4, <2>1 DEF ReadStatus, DrainStatus, NotStarted, UnderWay, StatusTold, AnswerMatchesRun
    <2>2. CASE ~stop_soon /\ st # <<>>
      <3>1. /\ apc \in {"wait", "drain"} /\ apc' = "idle"
            /\ fault' = Verdict(Head(st))
            /\ UNCHANGED <<input, trace_bits, ran, truth, is_persistent>>
        BY <1>0, <1>4, <2>2 DEF ReadStatus, DrainStatus, Conclude
      <3>2. PICK s \in Words : st = <<s>>
        BY <2>2, <3>1
      <3>3. Told(s) /\ Head(st) = s
        BY <2>2, <3>1, <3>2 DEF StatusTold
      <3>4. AnswerMatchesRun'
        BY <3>1, <3>3 DEF AnswerMatchesRun, Told, Executed, Verdict
      <3>5. QED
        BY <3>1, <3>4 DEF NotStarted, UnderWay, StatusTold
    <2>3. CASE ~stop_soon /\ st = <<>>
      BY <1>4, <2>3 DEF ReadStatus, DrainStatus, GiveUp, NotStarted, UnderWay, StatusTold, AnswerMatchesRun
    <2>4. QED
      BY <2>1, <2>2, <2>3
  <1>5. ASSUME TimerExpires \/ KillTimedOut
        PROVE  NotStarted' /\ UnderWay' /\ StatusTold' /\ AnswerMatchesRun'
    <2>1. /\ apc \in {"wait", "expired"} /\ apc' \in {"expired", "drain"}
          /\ UNCHANGED <<ctl, st, input, trace_bits, ran, truth, stop_soon>>
          /\ last_run_timed_out => last_run_timed_out'
      BY <1>5 DEF TimerExpires, KillTimedOut, linkVars
    <2>2. \A s : Told(s) => Told(s)'
      BY <1>0, <2>1 DEF Told, Executed, Attributed
    <2>3. \A p : Progress(p) => Progress(p)'
      BY <1>0, <2>1, <2>2 DEF Progress, Executed, Attributed, Live
    <2>4. QED
      BY <1>0, <2>1, <2>2, <2>3 DEF NotStarted, UnderWay, StatusTold, AnswerMatchesRun
  <1>6. ASSUME \/ StopSignal \/ StopHandlerReturns \/ KillForkserver
               \/ ForkserverKilled \/ AtExit
        PROVE  NotStarted' /\ UnderWay' /\ StatusTold' /\ AnswerMatchesRun'
    <2>1. CASE stop_soon' \/ apc' \in {"reap", "exiting", "exited"}
      BY <2>1 DEF NotStarted, UnderWay, StatusTold, AnswerMatchesRun
    <2>2. CASE ~stop_soon' /\ apc' \notin {"reap", "exiting", "exited"}
      <3>1. UNCHANGED <<ctl, st, input, trace_bits, ran, truth, last_run_timed_out,
                        apc, fault, stop_soon>>
        BY <1>6, <2>2 DEF StopSignal, StopHandlerReturns, KillForkserver,
                          ForkserverKilled, AtExit
      <3>2. \A s : Told(s) => Told(s)'
        BY <1>0, <3>1 DEF Told, Executed, Attributed
      <3>3. \A p : Progress(p) => Progress(p)'
        BY <1>0, <3>1, <3>2 DEF Progress, Executed, Attributed, Live
      <3>4. QED
        BY <1>0, <3>1, <3>2, <3>3 DEF NotStarted, UnderWay, StatusTold, AnswerMatchesRun
    <2>3. QED
      BY <2>1, <2>2
  <1>7. QED
    BY <1>1, <1>2, <1>3, <1>4, <1>5, <1>6 DEF ClientStep

----------------------------------------------------------------------------
(***************************************************************************)
(* The steps of the children.                                              *)
(***************************************************************************)

\* While the server has one child to wait for, that child is alone.
LEMMA OneChild ==
    ASSUME IInv, Serving, spc \in {"forked", "write_pid", "waitpid"},
           NEW p \in Pids, NEW q \in Pids, proc[p] # "free", proc[q] # "free"
    PROVE  p = q
  BY LinkAssumption DEF IInv, ChildrenInv, Serving

\* A child that runs is one that the server waits for, in a run whose status
\* has not been told.
LEMMA RunningChild ==
    ASSUME IInv, Signalled, NEW p \in Pids, Live(p), cpc[p] # "parked"
    PROVE  /\ Serving => ctl = <<>> /\ spc \in {"forked", "write_pid", "waitpid"}
           /\ ~Quiet
           /\ ~(apc \in {"idle", "ready"} /\ ~stop_soon)
           /\ apc = "read_pid" => \A w, s \in Words : st # <<w, s>>
           /\ apc \in {"wait", "expired", "drain"} => st = <<>>
  <1>1. ~Quiet
    BY DEF Quiet
  <1>2. Serving => spc \in {"forked", "write_pid", "waitpid"}
    <2>1. SUFFICES ASSUME Serving, spc \notin {"forked", "write_pid", "waitpid"}
                   PROVE  FALSE
      OBVIOUS
    <2>2. spc \in {"reap", "resume", "read_ctl", "write_status", "fork"}
      BY <2>1 DEF IInv, TypeOK, Serving, ServerPoints, Signalled
    <2>3. srv = "up" /\ p = child_pid /\ spc # "fork"
      BY <2>1, LinkAssumption DEF IInv, ChildrenInv, Serving, Live
    <2>4. spc \notin {"reap", "resume"}
      BY <2>3 DEF Signalled
    <2>5. spc \notin {"read_ctl", "write_status"}
      BY <2>3 DEF IInv, ChildrenInv, AllFree, Live
    <2>6. QED
      BY <2>2, <2>3, <2>4, <2>5
  <1>3. QED
    BY <1>1, <1>2, PointFacts, PipeFacts DEF IInv, LinkInv, RequestInv


\* What a child does to the history of its run.
LEMMA ChildMakesProgress ==
    ASSUME TypeOK, NEW p \in Pids, ChildStep(p), Progress(p)
    PROVE  Progress(p)'
  <1> USE DEF TypeOK, LinkTypeOK, ChildAt, Goto, Terminate, Live, Executed,
              Attributed, localVars, childVars, constVars
  <1>0. proc[p] = "live"
    BY ChildFrame DEF Live
  <1>1. CASE ExecuteStartup(p)
    BY <1>0, <1>1 DEF ExecuteStartup, Progress
  <1>2. CASE EnterMain(p)
    BY <1>0, <1>2 DEF EnterMain, MapAtMain, Progress
  <1>3. CASE ReadInput(p)
    <2>1. ran' = <<input>>
      BY <1>0, <1>3, PipeFacts DEF ReadInput, Progress
    <2>2. QED
      BY <1>0, <1>3, <2>1 DEF ReadInput, Progress
  <1>4. CASE ExecuteBlock(p)
    BY <1>0, <1>4 DEF ExecuteBlock, Progress
  <1>5. CASE FinishBody(p)
    BY <1>0, <1>5 DEF FinishBody, Progress
  <1>6. CASE TargetExits(p)
    BY <1>0, <1>6 DEF TargetExits, Progress, Told
  <1>7. CASE TargetCrashes(p)
    BY <1>0, <1>7 DEF TargetCrashes, Progress, Told
  <1>8. CASE NextCycle(p)
    BY <1>0, <1>8 DEF NextCycle, Progress
  <1>9. ASSUME NEW how \in {"exited", "signaled"}, EndTail(p, how)
        PROVE  Progress(p)'
    BY <1>0, <1>9 DEF EndTail, Progress, Told
  <1>10. QED
    BY <1>1, <1>2, <1>3, <1>4, <1>5, <1>6, <1>7, <1>8, <1>9 DEF ChildStep

\* A child that goes on or ends by itself is not one that is signalled.
LEMMA ChildKeepsSignalled ==
    ASSUME IInv, Signalled, NEW p \in Pids, ChildStep(p)
    PROVE  Signalled'
  <1>1. killed' \subseteq killed /\ (proc'[p] = "live" \/ p \notin killed')
    BY DEF ChildStep, ExecuteStartup, EnterMain, ReadInput, ExecuteBlock,
           FinishBody, TargetExits, TargetCrashes, NextCycle, EndTail,
           Terminate, IInv, TypeOK, LinkTypeOK, ChildAt, Live
  <1>2. Live(p) /\ cpc[p] # "parked"
    BY ChildFrame DEF IInv
  <1>3. Serving => spc \in {"forked", "write_pid", "waitpid"}
    BY <1>2, RunningChild
  <1>4. /\ \A q \in Pids \ {p} : proc'[q] = proc[q] /\ cpc'[q] = cpc[q]
        /\ UNCHANGED <<ctl, srv, clientVars, serverVars>>
    BY ChildFrame DEF IInv
  <1>5. QED
    BY <1>1, <1>2, <1>3, <1>4
       DEF Signalled, Serving, Live, clientVars, serverVars

\* A child that runs takes its run along the way that Progress describes.
LEMMA ChildKeepsRun ==
    ASSUME IInv, RunInv, NEW p \in Pids, ChildStep(p)
    PROVE  NotStarted' /\ UnderWay' /\ StatusTold' /\ AnswerMatchesRun'
  <1>1. Live(p) /\ cpc[p] # "parked"
    BY ChildFrame DEF IInv
  <1>2. /\ Serving => ctl = <<>> /\ spc \in {"forked", "write_pid", "waitpid"}
        /\ ~(apc \in {"idle", "ready"} /\ ~stop_soon)
        /\ apc = "read_pid" => \A w, s \in Words : st # <<w, s>>
        /\ apc \in {"wait", "expired", "drain"} => st = <<>>
    BY <1>1, RunningChild DEF RunInv
  <1>3. /\ \A q \in Pids \ {p} : proc'[q] = proc[q]
        /\ proc[p] # "free"
        /\ UNCHANGED <<ctl, st, srv, apc, stop_soon, spc>>
    BY <1>1, ChildFrame DEF IInv, Live, clientVars, serverVars
  <1>4. NotStarted' /\ StatusTold' /\ AnswerMatchesRun'
    BY <1>2, <1>3, PipeFacts
       DEF NotStarted, StatusTold, AnswerMatchesRun, Answered, Busy, Serving
  <1>5. UnderWay'
    <2>1. SUFFICES ASSUME Busy, Serving, NEW q \in Pids, proc'[q] # "free"
                   PROVE  Progress(q)'
      BY <1>3 DEF UnderWay, Busy, Serving
    <2>2. p = q
      BY <1>2, <1>3, <2>1, OneChild
    <2>3. Progress(p)
      BY <1>2, <1>3, <2>1 DEF RunInv, UnderWay
    <2>4. QED
      BY <2>2, <2>3, ChildMakesProgress DEF IInv
  <1>6. QED
    BY <1>4, <1>5

\* A child that dies of a signal belongs to a run that has timed out, to a
\* session that is over, or to one whose fuzzer will write it off.
LEMMA DeathKeepsRunInv ==
    ASSUME IInv, RunInv, NEW p \in Pids, ChildDies(p),
           UNCHANGED <<clientVars, localVars>>
    PROVE  RunInv'
  <1>1. /\ proc' = [proc EXCEPT ![p] = "zombie"]
        /\ exit_status' = [exit_status EXCEPT ![p] = "signaled"]
        /\ killed' = killed \ {p}
        /\ p \in killed /\ Live(p)
    BY DEF ChildDies, Terminate
  <1>2. UNCHANGED <<ctl, st, input, trace_bits, srv, srv_signal, ran, truth, apc,
                    stop_soon, last_run_timed_out, fault, spc, status,
                    child_pid, cpc, tc, is_persistent, fsrv_child_pid>>
    BY DEF ChildDies, clientVars, localVars, serverVars, childVars, constVars
  <1>3. proc \in [Pids -> {"free", "live", "zombie"}] /\ exit_status \in [Pids -> Statuses]
    BY DEF IInv, TypeOK, LinkTypeOK
  <1>4. Signalled'
    BY <1>1, <1>2, <1>3 DEF RunInv, Signalled, Serving, Live
  <1>5. NotStarted' /\ StatusTold' /\ AnswerMatchesRun'
    BY <1>2
       DEF RunInv, NotStarted, StatusTold, AnswerMatchesRun, Answered, Busy,
           Serving, Told, Executed, Attributed
  <1>6. UnderWay'
    <2>1. SUFFICES ASSUME Busy, Serving, spc \in {"forked", "write_pid", "waitpid"},
                          NEW q \in Pids, proc'[q] # "free"
                   PROVE  Progress(q)'
      BY <1>2 DEF UnderWay, Busy, Serving
    <2>2. p = q
      BY <1>1, <1>3, <2>1, OneChild DEF Live
    <2>3. Progress(p)
      BY <1>1, <2>1 DEF RunInv, UnderWay, Live
    <2>4. last_run_timed_out
      <3>1. ctl # <<TRUE>>
        BY <2>1, PipeFacts DEF IInv, LinkInv, RequestInv
      <3>2. QED
        BY <1>1, <2>1, <3>1 DEF RunInv, Signalled, Busy
    <2>5. cpc[p] # "parked" /\ cpc[p] \in ChildPoints
      BY <1>1, <2>1 DEF IInv, ChildrenInv, Serving, TypeOK
    <2>6. /\ trace_bits \subseteq {input, NoTestcase}
          /\ is_persistent /\ ran # <<>> => trace_bits \subseteq {input}
      BY <1>1, <2>3, <2>5 DEF Progress, ChildPoints, Executed, Attributed
    <2>7. Told("signaled")'
      BY <1>2, <2>4, <2>6 DEF Told
    <2>8. proc'[p] = "zombie" /\ exit_status'[p] = "signaled"
      BY <1>1, <1>3
    <2>9. QED
      BY <2>2, <2>7, <2>8 DEF Progress, Live
  <1>7. QED
    BY <1>4, <1>5, <1>6 DEF RunInv

----------------------------------------------------------------------------
(***************************************************************************)
(* The steps of the fork server.                                           *)
(***************************************************************************)

\* The server changes neither the history of a run nor what the fuzzer knows.
LEMMA ServerFrame ==
    ASSUME ServerStep
    PROVE  /\ UNCHANGED <<input, trace_bits, ran, truth, is_persistent, apc,
                          stop_soon, last_run_timed_out, fault>>
           /\ srv = "up"
  BY DEF ServerStep, ReadRequest, WriteOffChild, Fork, AssignChildPid,
         ForkFails, ResumeChild, WritePid, CollectChild, ChildHasStopped,
         RelayStatus, Terminating, Terminated, ServerDies, clientVars,
         constVars, localVars, linkVars, At

\* The server goes on serving by one of these steps, or it ends.
LEMMA ServingStep ==
    ASSUME ServerStep, Serving'
    PROVE  /\ Serving
           /\ \/ ReadRequest /\ ctl # <<>>
              \/ WriteOffChild /\ Zombie(child_pid)
              \/ \E p \in Pids : Fork(p)
              \/ AssignChildPid
              \/ ResumeChild
              \/ WritePid /\ ClientUp
              \/ CollectChild
              \/ ChildHasStopped
              \/ RelayStatus /\ ClientUp
  BY DEF ServerStep, Serving, ReadRequest, WriteOffChild, Fork, AssignChildPid,
         ForkFails, ResumeChild, WritePid, CollectChild, ChildHasStopped,
         RelayStatus, Terminating, Terminated, ServerDies, localVars,
         serverVars, linkVars, At, WriteWord, Quit, ServerEnds

\* A child is collected before another is forked, and continued only when it is
\* stopped and will not be killed.
LEMMA ServerKeepsSignalled ==
    ASSUME IInv, Signalled, ServerStep
    PROVE  Signalled'
  <1>0. /\ UNCHANGED <<stop_soon, apc, last_run_timed_out>>
        /\ srv = "up"
    BY ServerFrame
  <1>1. proc \in [Pids -> {"free", "live", "zombie"}]
    BY DEF IInv, TypeOK, LinkTypeOK
  <1>2. ASSUME NEW q \in killed' PROVE q \in Pids /\ Live(q)'
    BY <1>0, <1>1, <1>2
       DEF ServerStep, ReadRequest, WriteOffChild, Fork, AssignChildPid,
           ForkFails, ResumeChild, WritePid, CollectChild, ChildHasStopped,
           RelayStatus, Terminating, Terminated, ServerDies, At, Forget, Zombie,
           Signaled, Live, Signalled, linkVars
  <1>3. srv' = "up" => spc' # "gone"
    BY <1>0
       DEF ServerStep, ReadRequest, WriteOffChild, Fork, AssignChildPid,
           ForkFails, ResumeChild, WritePid, CollectChild, ChildHasStopped,
           RelayStatus, Terminating, Terminated, ServerDies, At, WriteWord,
           AfterRequest, Quit, ServerEnds, Signalled
  <1>4. CASE ~Serving'
    <2>1. ~(srv' = "up" /\ spc' \in {"reap", "resume"})
      BY <1>4 DEF Serving
    <2>2. QED
      BY <1>2, <1>3, <1>4, <2>1 DEF Signalled
  <1>5. CASE Serving'
    <2> DEFINE Books == srv = "up" /\ spc \in {"reap", "resume"} =>
                          child_pid \in Pids /\ cpc[child_pid] = "parked"
               Going == ~stop_soon /\ apc \notin {"reap", "exiting", "exited"}
                          /\ ~last_run_timed_out
               Clean == Going /\ ctl # <<TRUE>> /\ spc # "reap" =>
                          /\ killed = {}
                          /\ spc \in {"read_ctl", "write_status", "resume"} =>
                               \A p \in Pids : proc[p] # "zombie"
    <2> SUFFICES Books' /\ Clean'
      BY <1>2, <1>3 DEF Signalled
    <2>0. Serving /\ Clean /\ (Going' <=> Going)
      BY <1>0, <1>5, ServingStep DEF Signalled
    <2>1. CASE ReadRequest /\ ctl # <<>>
      <3>1. PICK w \in BOOLEAN : ctl = <<w>>
        BY <2>0, <2>1 DEF IInv, LinkInv, RequestInv
      <3>2. /\ spc = "read_ctl" /\ spc' = AfterRequest(w) /\ ctl' = <<>>
            /\ UNCHANGED <<proc, killed, cpc, child_pid, srv>>
        BY <2>1, <3>1, PipeFacts DEF ReadRequest, At, childVars
      <3>3. Books'
        BY <2>0, <3>2 DEF AfterRequest, IInv, ChildrenInv, Serving
      <3>4. Clean'
        <4>1. CASE w = FALSE
          BY <2>0, <3>1, <3>2, <4>1, PipeFacts
        <4>2. CASE w = TRUE /\ child_stopped
          BY <3>2, <4>2 DEF AfterRequest
        <4>3. CASE w = TRUE /\ ~child_stopped
          <5>1. AllFree
            BY <2>0, <3>2, <4>3 DEF IInv, ChildrenInv, Serving
          <5>2. killed = {} /\ \A p \in Pids : proc[p] # "zombie"
            BY <5>1 DEF AllFree, Signalled, Live
          <5>3. QED
            BY <3>2, <5>2
        <4>4. QED
          BY <4>1, <4>2, <4>3
      <3>5. QED
        BY <3>3, <3>4
    <2>2. CASE WriteOffChild /\ Zombie(child_pid)
      <3>1. proc' = [proc EXCEPT ![child_pid] = "free"] /\ child_pid \in Pids
            /\ spc = "reap" /\ spc' = "fork"
            /\ UNCHANGED <<killed, ctl>>
        BY <2>2 DEF WriteOffChild, Forget, Zombie, At
      <3>2. \A p \in Pids : proc'[p] = "free"
        BY <1>0, <1>1, <3>1, LinkAssumption DEF IInv, ChildrenInv
      <3>3. killed' = {}
        BY <1>2, <3>2 DEF Live
      <3>4. QED
        BY <3>1, <3>2, <3>3
    <2>3. ASSUME NEW p \in Pids, Fork(p) PROVE Books' /\ Clean'
      BY <2>0, <2>3 DEF Fork, At
    <2>4. CASE AssignChildPid
      BY <2>0, <2>4 DEF AssignChildPid, At, linkVars
    <2>5. CASE ResumeChild
      BY <2>0, <2>5 DEF ResumeChild, At, linkVars
    <2>6. CASE WritePid /\ ClientUp
      BY <2>0, <2>6 DEF WritePid, At, WriteWord
    <2>7. CASE CollectChild
      <3>1. proc' = [proc EXCEPT ![child_pid] = "free"] /\ child_pid \in Pids
            /\ spc = "waitpid" /\ spc' = "write_status"
            /\ proc[child_pid] = "zombie"
            /\ UNCHANGED <<killed, ctl>>
        BY <2>7 DEF CollectChild, Forget, Zombie, At
      <3>2. \A p \in Pids : proc'[p] = "free"
        BY <2>0, <1>1, <3>1, OneChild DEF Zombie
      <3>3. QED
        BY <2>0, <3>1, <3>2
    <2>8. CASE ChildHasStopped
      <3>1. child_pid \in Pids /\ proc[child_pid] = "live"
            /\ spc = "waitpid" /\ spc' = "write_status"
            /\ UNCHANGED <<killed, ctl, proc>>
        BY <2>8 DEF ChildHasStopped, At, Live, linkVars
      <3>2. \A p \in Pids : proc[p] # "zombie"
        BY <2>0, <3>1, OneChild
      <3>3. QED
        BY <2>0, <3>1, <3>2
    <2>9. CASE RelayStatus /\ ClientUp
      BY <2>0, <2>9 DEF RelayStatus, At, WriteWord
    <2>10. QED
      BY <1>5, <2>1, <2>2, <2>3, <2>4, <2>5, <2>6, <2>7, <2>8, <2>9, ServingStep
  <1>6. QED
    BY <1>4, <1>5

\* The server follows the run of its child: from the fork or the SIGCONT, with
\* nothing executed yet, to the status that it relays.
LEMMA ServerKeepsRun ==
    ASSUME IInv, RunInv, ServerStep
    PROVE  NotStarted' /\ UnderWay' /\ StatusTold' /\ AnswerMatchesRun'
  <1>0. UNCHANGED <<input, trace_bits, ran, truth, is_persistent, apc, stop_soon,
                    last_run_timed_out, fault>>
    BY ServerFrame
  <1>1. /\ \A s : Told(s)' <=> Told(s)
        /\ Executed' <=> Executed
        /\ Attributed' <=> Attributed
        /\ Busy' <=> Busy
    BY <1>0 DEF Told, Executed, Attributed, Busy
  <1>2. AnswerMatchesRun' /\ (apc' = "ready" /\ ~stop_soon' => ran' = <<>> /\ truth' = "none")
    BY <1>0 DEF RunInv, NotStarted, AnswerMatchesRun, Answered
  <1>3. ASSUME st' = st, \/ ~Serving'
                         \/ spc' # "write_status"
                         \/ Busy => Told(status')
        PROVE  StatusTold'
    BY <1>0, <1>1, <1>3 DEF RunInv, StatusTold
  <1>4. CASE ~Busy
    BY <1>1, <1>2, <1>4 DEF NotStarted, UnderWay, StatusTold
  <1>5. CASE Busy /\ ~Serving'
    <2>1. st' = st
      BY <1>5
         DEF ServerStep, Serving, ReadRequest, WriteOffChild, Fork,
             AssignChildPid, ForkFails, ResumeChild, WritePid, CollectChild,
             ChildHasStopped, RelayStatus, Terminating, Terminated, ServerDies,
             linkVars, At, WriteWord, Quit, ServerEnds
    <2>2. QED
      BY <1>2, <1>3, <1>5, <2>1 DEF NotStarted, UnderWay
  <1>6. CASE Busy /\ Serving'
    <2>0. Serving
      BY <1>6, ServingStep
    <2>1. CASE ReadRequest /\ ctl # <<>>
      <3>1. /\ st' = st /\ spc' \in {"reap", "fork", "resume"}
        BY <2>1 DEF ReadRequest, AfterRequest
      <3>2. ran = <<>> /\ truth = "none" /\ trace_bits = {}
        BY <1>6, <2>0, <2>1 DEF RunInv, NotStarted
      <3>3. QED
        BY <1>0, <1>2, <1>3, <3>1, <3>2 DEF NotStarted, UnderWay
    <2>2. CASE WriteOffChild /\ Zombie(child_pid)
      <3>1. spc = "reap" /\ spc' = "fork" /\ st' = st
        BY <2>2 DEF WriteOffChild, At
      <3>2. ran = <<>> /\ truth = "none" /\ trace_bits = {}
        BY <1>6, <2>0, <3>1 DEF RunInv, NotStarted
      <3>3. QED
        BY <1>0, <1>2, <1>3, <3>1, <3>2 DEF NotStarted, UnderWay
    <2>3. ASSUME NEW p \in Pids, Fork(p)
          PROVE  NotStarted' /\ UnderWay' /\ StatusTold' /\ AnswerMatchesRun'
      <3>1. /\ spc = "fork" /\ spc' = "forked"
            /\ proc' = [proc EXCEPT ![p] = "live"]
            /\ UNCHANGED <<st, ctl, cpc>>
        BY <2>3 DEF Fork, At, childVars
      <3>2. ran = <<>> /\ truth = "none" /\ trace_bits = {} /\ ctl = <<>>
        BY <1>6, <2>0, <3>1
           DEF RunInv, NotStarted, IInv, LinkInv, RequestInv
      <3>3. AllFree /\ \A q \in Pids : cpc[q] = "startup"
        BY <2>0, <3>1, LinkAssumption
           DEF IInv, ChildrenInv, Serving, AllFree
      <3>4. ASSUME NEW q \in Pids, proc'[q] # "free" PROVE Progress(q)'
        <4>1. proc'[q] = "live" /\ cpc'[q] = "startup"
          BY <3>1, <3>3, <3>4 DEF AllFree, IInv, TypeOK, LinkTypeOK
        <4>2. QED
          BY <1>0, <3>2, <4>1 DEF Progress
      <3>5. QED
        BY <1>0, <1>2, <1>3, <3>1, <3>2, <3>4 DEF NotStarted, UnderWay
    <2>4. ASSUME AssignChildPid \/ (WritePid /\ ClientUp)
          PROVE  NotStarted' /\ UnderWay' /\ StatusTold' /\ AnswerMatchesRun'
      <3>1. /\ spc \in {"forked", "write_pid"} /\ spc' \in {"write_pid", "waitpid"}
            /\ UNCHANGED <<ctl, proc, cpc, exit_status, tc>>
            /\ st' = st \/ (spc = "write_pid" /\ st' = Append(st, child_pid))
        BY <2>4 DEF AssignChildPid, WritePid, WriteWord, At, linkVars, childVars
      <3>2. ctl = <<>>
        BY <2>0, <3>1 DEF IInv, LinkInv, RequestInv
      <3>3. \A p : Progress(p)' <=> Progress(p)
        BY <1>0, <1>1, <3>1 DEF Progress, Live
      <3>4. NotStarted' /\ UnderWay'
        BY <1>2, <1>6, <2>0, <3>1, <3>2, <3>3 DEF RunInv, NotStarted, UnderWay
      <3>5. StatusTold'
        <4>1. CASE st' = st
          BY <1>3, <3>1, <4>1
        <4>2. CASE spc = "write_pid" /\ st' = Append(st, child_pid)
          <5>1. apc = "read_pid" /\ st = <<>>
            BY <1>6, <2>0, <4>2, PointFacts
               DEF Busy, IInv, LinkInv, AwaitingPid, AwaitingStatus
          <5>2. st' = <<child_pid>>
            BY <4>2, <5>1, PipeFacts
          <5>3. QED
            BY <1>0, <3>1, <5>1, <5>2, PipeFacts DEF StatusTold
        <4>3. QED
          BY <3>1, <4>1, <4>2
      <3>6. QED
        BY <1>2, <3>4, <3>5
    <2>5. CASE ResumeChild
      <3>1. /\ spc = "resume" /\ spc' = "write_pid"
            /\ UNCHANGED <<ctl, st, proc>>
            /\ \A p \in Pids : cpc'[p] = IF p = child_pid /\ Live(p) /\ cpc[p] = "parked"
                                           THEN "read" ELSE cpc[p]
        BY <2>5 DEF ResumeChild, At, linkVars
      <3>2. ran = <<>> /\ truth = "none" /\ trace_bits = {}
        BY <1>6, <2>0, <3>1 DEF RunInv, NotStarted
      <3>3. ctl = <<>> /\ ~last_run_timed_out
        BY <2>0, <3>1 DEF IInv, LinkInv, RequestInv
      <3>4. child_pid \in Pids /\ cpc[child_pid] = "parked"
        BY <2>0, <3>1 DEF RunInv, Signalled, Serving
      <3>5. \A p \in Pids : proc[p] # "zombie"
        BY <1>6, <2>0, <3>1, <3>3, PipeFacts DEF RunInv, Signalled, Busy
      <3>6. ASSUME NEW q \in Pids, proc'[q] # "free" PROVE Progress(q)'
        <4>1. q = child_pid
          BY <2>0, <3>1, <3>6, LinkAssumption DEF IInv, ChildrenInv, Serving
        <4>2. proc'[q] = "live" /\ cpc'[q] = "read"
          BY <3>1, <3>4, <3>5, <3>6, <4>1 DEF Live, IInv, TypeOK, LinkTypeOK
        <4>3. QED
          BY <1>0, <3>2, <4>2 DEF Progress
      <3>7. QED
        BY <1>0, <1>2, <1>3, <3>1, <3>2, <3>3, <3>6 DEF NotStarted, UnderWay
    <2>6. ASSUME CollectChild \/ ChildHasStopped
          PROVE  NotStarted' /\ UnderWay' /\ StatusTold' /\ AnswerMatchesRun'
      <3>1. /\ spc = "waitpid" /\ spc' = "write_status"
            /\ UNCHANGED <<ctl, st>>
            /\ child_pid \in Pids
            /\ \/ proc[child_pid] = "zombie" /\ status' = exit_status[child_pid]
               \/ /\ Live(child_pid) /\ cpc[child_pid] = "stopped"
                  /\ status' = "stopped" /\ is_persistent
        BY <2>6 DEF CollectChild, ChildHasStopped, Zombie, At, linkVars
      <3>2. ctl = <<>>
        BY <2>0, <3>1 DEF IInv, LinkInv, RequestInv
      <3>3. Progress(child_pid)
        BY <1>6, <2>0, <3>1 DEF RunInv, UnderWay, Live
      <3>4. Told(status')
        <4>1. CASE proc[child_pid] = "zombie" /\ status' = exit_status[child_pid]
          BY <3>3, <4>1 DEF Progress
        <4>2. CASE /\ Live(child_pid) /\ cpc[child_pid] = "stopped"
                   /\ status' = "stopped" /\ is_persistent
          BY <3>3, <4>2 DEF Progress, Told, Executed, Attributed
        <4>3. QED
          BY <3>1, <4>1, <4>2
      <3>5. QED
        BY <1>2, <1>3, <3>1, <3>2, <3>4 DEF NotStarted, UnderWay
    <2>7. CASE RelayStatus /\ ClientUp
      <3>1. /\ spc = "write_status" /\ spc' = "read_ctl"
            /\ ctl' = ctl /\ st' = Append(st, status) /\ status' = status
        BY <2>7 DEF RelayStatus, WriteWord, At
      <3>2. ctl = <<>> /\ Told(status)
        BY <1>6, <2>0, <3>1
           DEF IInv, LinkInv, RequestInv, RunInv, StatusTold
      <3>3. CASE apc = "read_pid"
        <4>1. st = <<child_pid>>
          BY <2>0, <3>1, <3>2, <3>3 DEF IInv, LinkInv, AwaitingPid
        <4>2. child_pid \in Words /\ status \in Words
          <5>1. child_pid \in Words
            BY <4>1, HeadTailType, PipeFacts DEF IInv, TypeOK, LinkTypeOK
          <5>2. QED
            BY <5>1 DEF IInv, TypeOK, Words
        <4>3. st' = <<child_pid, status>>
          BY <3>1, <4>1, <4>2, AppendToOne
        <4>4. \A w, s : <<w, s>> = <<child_pid, status>> => s = status
          OBVIOUS
        <4>5. StatusTold'
          BY <1>0, <1>1, <3>1, <3>2, <3>3, <4>3, <4>4 DEF StatusTold
        <4>6. QED
          BY <1>2, <3>1, <3>2, <4>5 DEF NotStarted, UnderWay
      <3>4. CASE apc # "read_pid"
        <4>1. st = <<>>
          BY <1>6, <2>0, <3>1, <3>4
             DEF IInv, LinkInv, AwaitingStatus, Busy
        <4>2. st' = <<status>>
          BY <3>1, <4>1, PipeFacts
        <4>3. StatusTold'
          BY <1>0, <1>1, <3>1, <3>2, <3>4, <4>2, PipeFacts DEF StatusTold
        <4>4. QED
          BY <1>2, <3>1, <3>2, <4>3 DEF NotStarted, UnderWay
      <3>5. QED
        BY <3>3, <3>4
    <2>8. QED
      BY <1>6, <2>1, <2>2, <2>3, <2>4, <2>5, <2>6, <2>7, ServingStep
  <1>7. QED
    BY <1>4, <1>5, <1>6

----------------------------------------------------------------------------
\* Nothing has been executed when the fuzzer starts.
LEMMA InitRunInv == Init => RunInv
  BY DEF Init, LinkInit, ClientInit, RunInv, NotStarted, UnderWay, StatusTold,
         Signalled, AnswerMatchesRun, Answered, Busy, Serving

\* RunInv is preserved by every step, given what is in the pipes.
LEMMA NextKeepsRunInv == IInv /\ RunInv /\ [Next]_vars => RunInv'
  <1> SUFFICES ASSUME IInv, RunInv, [Next]_vars PROVE RunInv'
    OBVIOUS
  <1>1. CASE ClientStep /\ UNCHANGED localVars
    BY <1>1, ClientKeepsSignalled, ClientKeepsRun DEF RunInv
  <1>2. CASE ServerStep
    BY <1>2, ServerKeepsSignalled, ServerKeepsRun DEF RunInv
  <1>3. ASSUME NEW p \in Pids, ChildStep(p) PROVE RunInv'
    BY <1>3, ChildKeepsSignalled, ChildKeepsRun DEF RunInv
  <1>4. ASSUME NEW p \in Pids, ChildDies(p), UNCHANGED <<clientVars, localVars>>
        PROVE  RunInv'
    BY <1>4, DeathKeepsRunInv
  <1>5. CASE ServerLost \/ UNCHANGED vars
    <2>1. UNCHANGED <<ctl, st, input, trace_bits, proc, exit_status, killed, srv,
                      ran, truth, clientVars, localVars>>
      BY <1>5 DEF ServerLost, vars, linkVars
    <2>2. UNCHANGED <<apc, stop_soon, last_run_timed_out, fault, spc, status,
                      child_pid, cpc, tc, is_persistent>>
      BY <2>1 DEF clientVars, localVars, serverVars, childVars, constVars
    <2>3. /\ \A s : Told(s)' <=> Told(s)
          /\ \A p : Progress(p)' <=> Progress(p)
      BY <2>1, <2>2 DEF Told, Progress, Executed, Attributed, Live
    <2>4. NotStarted' /\ UnderWay' /\ StatusTold' /\ AnswerMatchesRun'
      BY <2>1, <2>2, <2>3
         DEF RunInv, NotStarted, UnderWay, StatusTold, AnswerMatchesRun,
             Answered, Busy, Serving
    <2>5. Signalled'
      BY <2>1, <2>2 DEF RunInv, Signalled, Serving, Live
    <2>6. QED
      BY <2>4, <2>5 DEF RunInv
  <1>6. QED
    BY <1>1, <1>2, <1>3, <1>4, <1>5 DEF Next, Finished

\* The result that afl_fsrv_run_target returns, and the coverage that is left in
\* the map, are those of one execution of the test case that was written, unless
\* the run timed out; with __AFL_LOOP the map holds nothing else.
THEOREM AnswersAreRight == Spec => []AnswerMatchesRun
  <1>1. RunInv => AnswerMatchesRun
    BY DEF RunInv
  <1>2. QED
    BY <1>1, Invariance, InitRunInv, NextKeepsRunInv, PTL DEF Spec

----------------------------------------------------------------------------
(***************************************************************************)
(* CompilerRt implements RunContract, step by step.  WriteTestcase is the  *)
(* Submit of the contract, the end of the child's work is its Execute, the *)
(* read of the status its Answer, and a stop or a lost server its Close;   *)
(* every other step is a stutter.  (That an answer comes is liveness, and  *)
(* is model-checked.)                                                      *)
(***************************************************************************)

\* There is one child at a time, even after the server is gone,
Alone == \A p, q \in Pids : Live(p) /\ Live(q) => p = q

\* and as long as it is executing, the outcome of the run is open.
Pending ==
    ~Over => \A p \in Pids :
               Live(p) /\ cpc[p] \notin {"stopped", "parked"} => truth = "none"

ContractInv == IInv /\ RunInv /\ OverInv /\ Alone /\ Pending

\* The first step of a server that forks or continues a child finds the outcome
\* of the run open.
LEMMA OutcomeOpen ==
    ASSUME IInv, RunInv, OverInv, ~Over, Serving, spc \in {"fork", "resume"}
    PROVE  truth = "none"
  <1>1. ~stop_soon /\ apc \notin {"reap", "exiting", "exited"}
    BY DEF OverInv, Over
  <1>2. apc \notin {"idle", "ready"}
    BY <1>1, PointFacts
  <1>3. Busy
    BY <1>1, <1>2 DEF Busy, IInv, TypeOK, ClientTypeOK, ClientPoints
  <1>4. QED
    BY <1>3 DEF RunInv, NotStarted

\* The invariant that the simulation needs is preserved by every step.
LEMMA NextKeepsContractInv == ContractInv /\ [Next]_vars => ContractInv'
  <1> SUFFICES ASSUME ContractInv, [Next]_vars PROVE OverInv' /\ Alone' /\ Pending'
    BY NextKeepsInv, NextKeepsRunInv DEF ContractInv
  <1> USE DEF ContractInv
  <1>0. proc \in [Pids -> {"free", "live", "zombie"}] /\ cpc \in [Pids -> ChildPoints]
    BY DEF IInv, TypeOK, LinkTypeOK
  <1>1. CASE ClientStep /\ UNCHANGED localVars
    <2>1. OverInv' /\ (Over => Over')
      BY <1>1, ClientOver DEF Over, IInv, TypeOK
    <2>2. UNCHANGED <<proc, cpc>>
      BY <1>1, ClientFrame DEF IInv, localVars, childVars
    <2>3. truth' \in {truth, "none"}
      BY <1>1
         DEF ClientStep, WriteTestcase, SendRequest, ReadChildPid, ReadStatus,
             TimerExpires, KillTimedOut, DrainStatus, StopSignal,
             StopHandlerReturns, KillForkserver, ForkserverKilled, AtExit,
             linkVars
    <2>4. QED
      BY <2>1, <2>2, <2>3 DEF Alone, Pending, Live
  <1>2. CASE ServerStep
    <2>1. UNCHANGED <<truth, apc, stop_soon, aborted>>
      BY <1>2, ServerFrame
         DEF ServerStep, ReadRequest, WriteOffChild, Fork, AssignChildPid,
             ForkFails, ResumeChild, WritePid, CollectChild, ChildHasStopped,
             RelayStatus, Terminating, Terminated, ServerDies, clientVars
    <2>2. OverInv' /\ (Over' <=> Over)
      BY <2>1 DEF OverInv, Over
    <2>3. ASSUME NEW p \in Pids, Fork(p) PROVE Alone' /\ Pending'
      <3>1. AllFree /\ Serving /\ spc = "fork"
        BY <2>3, LinkAssumption
           DEF Fork, At, IInv, ChildrenInv, AllFree, Serving
      <3>2. proc' = [proc EXCEPT ![p] = "live"] /\ cpc' = cpc
        BY <2>3 DEF Fork, childVars
      <3>3. QED
        BY <1>0, <2>1, <2>2, <3>1, <3>2, OutcomeOpen
           DEF Alone, Pending, AllFree, Live
    <2>4. CASE ResumeChild
      <3>1. Serving /\ spc = "resume" /\ proc' = proc
        BY <2>4 DEF ResumeChild, At, Serving, linkVars
      <3>2. QED
        BY <2>1, <2>2, <3>1, OutcomeOpen DEF Alone, Pending, Live
    <2>5. CASE /\ ~ResumeChild
               /\ ~\E p \in Pids : Fork(p)
      <3>1. /\ \A p \in Pids : proc'[p] = "live" => proc[p] = "live"
            /\ \A p \in Pids : proc'[p] = "live" =>
                 cpc'[p] = cpc[p] \/ cpc'[p] = "parked"
        BY <1>0, <1>2, <2>5
           DEF ServerStep, ReadRequest, WriteOffChild, AssignChildPid,
               ForkFails, WritePid, CollectChild, ChildHasStopped, RelayStatus,
               Terminating, Terminated, ServerDies, Forget, Zombie, linkVars,
               localVars, childVars
      <3>2. QED
        BY <2>1, <2>2, <3>1 DEF Alone, Pending, Live
    <2>6. QED
      BY <2>2, <2>3, <2>4, <2>5
  <1>3. ASSUME NEW p \in Pids, ChildStep(p) PROVE OverInv' /\ Alone' /\ Pending'
    <2>1. /\ Live(p)
          /\ \A q \in Pids \ {p} : proc'[q] = proc[q] /\ cpc'[q] = cpc[q]
          /\ UNCHANGED <<apc, stop_soon, aborted>>
      BY <1>3, ChildFrame DEF IInv, clientVars
    <2>2. Live(p)' /\ cpc'[p] \notin {"stopped", "parked"} =>
            cpc[p] \notin {"stopped", "parked"} /\ truth' = truth
      BY <1>0, <1>3
         DEF ChildStep, ExecuteStartup, EnterMain, ReadInput, ExecuteBlock,
             FinishBody, TargetExits, TargetCrashes, NextCycle, EndTail,
             Terminate, ChildAt, Goto, Live
    <2>3. \A q \in Pids : Live(q) => q = p
      BY <2>1 DEF Alone
    <2>4. \A q \in Pids : Live(q)' => q = p
      BY <2>1, <2>3 DEF Live
    <2>5. QED
      BY <2>1, <2>2, <2>4 DEF OverInv, Over, Alone, Pending
  <1>4. ASSUME NEW p \in Pids, ChildDies(p), UNCHANGED <<clientVars, localVars>>
        PROVE  OverInv' /\ Alone' /\ Pending'
    <2>1. /\ proc' = [proc EXCEPT ![p] = "zombie"]
          /\ UNCHANGED <<cpc, truth, apc, stop_soon, aborted>>
      BY <1>4 DEF ChildDies, Terminate, clientVars, localVars, childVars
    <2>2. QED
      BY <1>0, <2>1 DEF OverInv, Over, Alone, Pending, Live
  <1>5. CASE ServerLost \/ UNCHANGED vars
    BY <1>5
       DEF ServerLost, vars, linkVars, clientVars, localVars, childVars,
           OverInv, Over, Alone, Pending, Live
  <1>6. QED
    BY <1>1, <1>2, <1>3, <1>4, <1>5 DEF Next, Finished

\* A step that changes nothing that the contract speaks of is a stutter, and so
\* is every step once the session is over.
LEMMA Stutter ==
    ASSUME \/ Over /\ Over'
           \/ /\ Over' <=> Over
              /\ apc' = "idle" <=> apc = "idle"
              /\ UNCHANGED <<input, truth, fault>>
    PROVE  UNCHANGED Contract!vars
  BY DEF Contract!vars

\* A step that ends the session is the contract's Close.
LEMMA Closing ==
    ASSUME ~Over, Over'
    PROVE  Contract!Next
  BY DEF Contract!Next, Contract!Close

\* Every step is one of the contract's, or none.
LEMMA NextSimulates ==
    ContractInv /\ [Next]_vars => [Contract!Next]_(Contract!vars)
  <1> SUFFICES ASSUME ContractInv, [Next]_vars
               PROVE  Contract!Next \/ UNCHANGED Contract!vars
    OBVIOUS
  <1> USE DEF ContractInv
  <1>1. CASE ~Over /\ Over'
    BY <1>1, Closing
  <1>2. CASE Over
    <2>1. CASE ClientStep
      BY <1>2, <2>1, ClientOver, Stutter DEF Over, IInv, TypeOK
    <2>2. CASE ~ClientStep
      <3>1. UNCHANGED <<stop_soon, aborted>>
        BY <2>2
           DEF Next, Finished, ServerStep, ReadRequest, WriteOffChild, Fork,
               AssignChildPid, ForkFails, ResumeChild, WritePid, CollectChild,
               ChildHasStopped, RelayStatus, Terminating, Terminated,
               ServerDies, ChildStep, ExecuteStartup, EnterMain, ReadInput,
               ExecuteBlock, FinishBody, TargetExits, TargetCrashes, NextCycle,
               EndTail, ServerLost, clientVars, vars
      <3>2. QED
        BY <1>2, <3>1, Stutter DEF Over
    <2>3. QED
      BY <2>1, <2>2
  <1>3. CASE ~Over /\ ~Over'
    <2>0. ~stop_soon /\ ~aborted /\ ~stop_soon' /\ ~aborted'
      BY <1>3 DEF Over
    <2>1. CASE ClientStep /\ UNCHANGED localVars
      <3>1. ASSUME NEW t \in Testcases, WriteTestcase(t) PROVE Contract!Next
        BY <1>3, <3>1 DEF WriteTestcase, Runs, Contract!Next, Contract!Submit
      <3>2. ASSUME ReadStatus \/ DrainStatus PROVE Contract!Next
        <4>1. /\ apc \in {"wait", "drain"} /\ apc' = "idle"
              /\ st # <<>>
              /\ fault' = Verdict(Head(st))
              /\ UNCHANGED <<input, truth>>
          BY <2>0, <3>2 DEF ReadStatus, DrainStatus, Conclude, GiveUp, Runs
        <4>2. PICK s \in Words : st = <<s>>
          BY <4>1, PointFacts
        <4>3. Told(s) /\ Head(st) = s
          BY <2>0, <4>1, <4>2, PipeFacts DEF RunInv, StatusTold, Busy
        <4>4. fault' \in {a \in Faults : Contract!Truthful(a)}
          BY <1>3, <4>1, <4>3 DEF Verdict, Told, Faults, Contract!Truthful
        <4>5. QED
          BY <1>3, <4>1, <4>4 DEF Contract!Next, Contract!Answer
      <3>3. ASSUME \/ SendRequest \/ ReadChildPid \/ TimerExpires
                   \/ KillTimedOut \/ StopHandlerReturns
            PROVE  /\ apc' = "idle" <=> apc = "idle"
                   /\ UNCHANGED <<input, truth, fault>>
        BY <2>0, <3>3
           DEF SendRequest, ReadChildPid, TimerExpires, KillTimedOut, GiveUp,
               StopHandlerReturns, Runs, linkVars
      <3>4. ~StopSignal /\ ~KillForkserver /\ ~ForkserverKilled /\ ~AtExit
        BY <1>3, <2>0
           DEF StopSignal, KillForkserver, ForkserverKilled, AtExit, Runs,
               OverInv
      <3>5. QED
        BY <1>3, <2>1, <3>1, <3>2, <3>3, <3>4, Stutter DEF ClientStep
    <2>2. CASE ServerStep
      BY <1>3, <2>2, ServerFrame, Stutter
    <2>3. ASSUME NEW p \in Pids, ChildStep(p)
          PROVE  Contract!Next \/ UNCHANGED Contract!vars
      <3>1. /\ Live(p) /\ cpc[p] # "parked"
            /\ UNCHANGED <<input, apc, fault>>
        BY <2>3, ChildFrame DEF IInv, clientVars
      <3>2. apc \notin {"idle", "ready"}
        BY <2>0, <3>1, RunningChild DEF RunInv
      <3>3. truth' # truth => truth = "none" /\ truth' \in Outcomes \ {"none"}
        <4>1. truth' # truth =>
                cpc[p] \in {"run", "loop", "tail"} /\ truth' \in {"clean", "crash"}
          BY <2>3
             DEF ChildStep, ExecuteStartup, EnterMain, ReadInput, ExecuteBlock,
                 FinishBody, TargetExits, TargetCrashes, NextCycle, EndTail,
                 ChildAt
        <4>2. QED
          BY <1>3, <3>1, <4>1 DEF Pending, Outcomes
      <3>4. CASE truth' = truth
        BY <1>3, <3>1, <3>4, Stutter
      <3>5. CASE truth' # truth
        BY <1>3, <3>1, <3>2, <3>3, <3>5 DEF Contract!Next, Contract!Execute
      <3>6. QED
        BY <3>4, <3>5
    <2>4. ASSUME NEW p \in Pids, ChildDies(p), UNCHANGED <<clientVars, localVars>>
          PROVE  UNCHANGED Contract!vars
      BY <1>3, <2>4, Stutter DEF ChildDies, clientVars
    <2>5. CASE ServerLost \/ UNCHANGED vars
      BY <1>3, <2>5, Stutter DEF ServerLost, vars, linkVars, clientVars
    <2>6. QED
      BY <2>1, <2>2, <2>3, <2>4, <2>5 DEF Next, Finished
  <1>4. QED
    BY <1>1, <1>2, <1>3

\* What the run-time library's fork server does, with children killed, stopped,
\* continued and written off, is what RunContract allows: a test case is
\* executed at most once between its submission and the answer, and an answer
\* that is not a timeout is about that execution.
THEOREM ContractStepByStep ==
    Spec => Contract!Init /\ [][Contract!Next]_(Contract!vars)
  <1>1. Init => ContractInv /\ Contract!Init
    BY InitInv, InitRunInv
       DEF Init, LinkInit, ClientInit, ContractInv, OverInv, Over, Alone,
           Pending, Live, Contract!Init
  <1>2. QED
    BY <1>1, NextKeepsContractInv, NextSimulates, PTL DEF Spec

=============================================================================

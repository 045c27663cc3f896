---------------------------- MODULE MCSaveFinds -----------------------------
(* Instances of SaveFinds for TLC. *)
EXTENDS SaveFinds, TLC

CONSTANTS a, b, plain, flaky, slow, slowcrash, stuck, crash, crash2, broken

Trace(x, y) == [e \in Edges |-> IF e = a THEN x ELSE y]
Outcome(fault, x, y) == [fault |-> fault, trace |-> Trace(x, y)]
Always(outcomes) == [w \in Timeouts |-> outcomes]

\* A time limit that is met only when it is generous.
Slow(short, long) == [w \in Timeouts |-> IF w = "hang" THEN long ELSE short]

MCRuns ==
    plain     :> Always({Outcome("ok", 1, 0)})
 @@ flaky     :> Always({Outcome("ok", 3, 1), Outcome("ok", 3, 3), Outcome("crash", 3, 0)})
 @@ slow      :> [w \in Timeouts |-> IF w = "exec" THEN {Outcome("tmout", 1, 0)}
                                      ELSE {Outcome("ok", 1, 4), Outcome("tmout", 1, 0)}]
 @@ slowcrash :> Slow({Outcome("tmout", 0, 4)}, {Outcome("crash", 4, 1)})
 @@ stuck     :> Always({Outcome("tmout", 1, 0)})
 @@ crash     :> Always({Outcome("crash", 1, 1)})
 @@ crash2    :> Always({Outcome("crash", 0, 3), Outcome("crash", 3, 3)})
 @@ broken    :> Always({Outcome("error", 0, 0)})

Plain(inputs) ==
    [seed |-> plain, inputs |-> inputs, fast |-> FALSE, crash_mode |-> "ok",
     keep_timeouts |-> FALSE, ignore_timeouts |-> FALSE, cmplog |-> FALSE, rerun |-> TRUE]

MCOptionSets ==
    {[Plain({flaky, slowcrash}) EXCEPT !.fast = x, !.cmplog = y] : x, y \in BOOLEAN}
    \cup {[Plain({crash, crash2, slowcrash, stuck}) EXCEPT !.fast = x] : x \in BOOLEAN}
    \cup {[Plain({slow, slowcrash, stuck}) EXCEPT !.keep_timeouts = TRUE, !.fast = x] :
             x \in BOOLEAN}
    \cup {[Plain({slow, flaky}) EXCEPT !.ignore_timeouts = TRUE, !.fast = x] : x \in BOOLEAN}
    \cup {[Plain({slowcrash, stuck, broken}) EXCEPT !.rerun = FALSE]}
    \cup {[Plain({crash, crash2, flaky}) EXCEPT !.crash_mode = "crash", !.seed = crash]}
=============================================================================

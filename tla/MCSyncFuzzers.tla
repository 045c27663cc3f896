--------------------------- MODULE MCSyncFuzzers ----------------------------
(* Instances of SyncFuzzers for TLC. *)
EXTENDS SyncFuzzers

CONSTANTS m, s1, s2, a, b

Scenario(fuzzers, up, finds, trims, stops, kills) ==
    [fuzzers |-> fuzzers, up |-> up, finds |-> finds, trims |-> trims,
     stops |-> stops, kills |-> kills]

\* Two secondaries that are joined by a main node; a find on its way through
\* the main node; trims between the imports; ends of all kinds, at the start
\* and later, and resumed sessions; a queue that is resumed up to three times,
\* also from inside a resume.
MCScenarios ==
    {Scenario({m, s1, s2}, {s1, s2}, {}, 0, 0, 0),
     Scenario({m, s1, s2}, {m, s1, s2}, {a}, 0, 0, 0),
     Scenario({m, s1}, {m, s1}, {a, b}, 1, 0, 0),
     Scenario({m, s1}, {m, s1}, {a}, 1, 0, 1),
     Scenario({m, s1}, {m, s1}, {a}, 0, 0, 2),
     Scenario({m}, {m}, {a, b}, 0, 0, 3),
     Scenario({m, s1}, {m}, {a}, 0, 1, 0),
     Scenario({m, s1}, {}, {a}, 0, 0, 1)}

\* A main node that ends after another fuzzer.
MCFinalSync == {Scenario({m, s1}, {m, s1}, {a}, 0, 2, 0)}
=============================================================================

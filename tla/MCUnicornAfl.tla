---------------------------- MODULE MCUnicornAfl ----------------------------
(***************************************************************************)
(* Small instances of UnicornAfl for TLC.  Two test cases tell "this run"  *)
(* from "the previous run"; two process ids tell a child from the one that *)
(* is forked after it; persistent_iters ranges over endless (0), one-shot  *)
(* (1) and the shortest cycle that has a round which is not the last (2).  *)
(***************************************************************************)
EXTENDS UnicornAfl, TLC

\* Test cases and process ids are interchangeable.
Symmetry == Permutations(Testcases) \cup Permutations(Pids)

=============================================================================

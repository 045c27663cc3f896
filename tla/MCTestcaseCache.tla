-------------------------- MODULE MCTestcaseCache ---------------------------
(***************************************************************************)
(* A small instance of TestcaseCache: four entries for a table of four     *)
(* slots, of which three may be used, and a cache that two long or four    *)
(* short test cases fill.                                                  *)
(***************************************************************************)
EXTENDS TestcaseCache, TLC

\* Queue entries are interchangeable.
Symmetry == Permutations(Entries)

=============================================================================

---------------------------- MODULE MCCompilerRt ----------------------------
(***************************************************************************)
(* A small instance of CompilerRt for TLC.  cycle_cnt has four values in   *)
(* place of 2^32, so that __AFL_LOOP(0), which starts by wrapping, comes   *)
(* to its end too; 1 and 2 are the shortest cycles without and with a      *)
(* round that is not the last.                                             *)
(***************************************************************************)
EXTENDS CompilerRt

=============================================================================

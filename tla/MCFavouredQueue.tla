-------------------------- MODULE MCFavouredQueue ---------------------------
(***************************************************************************)
(* Up to three entries over a map of three bytes.                          *)
(***************************************************************************)
EXTENDS FavouredQueue

\* Twins and overlapping, nested and disjoint traces.
MCTraces ==
    {<<{1, 2}, {1, 2}, {2, 3}>>, <<{1}, {1, 2, 3}, {2}>>}

MCOptions == {{}, {"cycle_schedules"}, {"disable_redundant"}}
NoOptions == {{}}

\* Nothing, or the byte that the run-time sets when it attaches the map.
MCResidues == {{}, {1}}
NoResidue == {{}}

=============================================================================

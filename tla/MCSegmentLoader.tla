-------------------------- MODULE MCSegmentLoader ---------------------------
(***************************************************************************)
(* SegmentLoader over every dump of up to three segments in an address     *)
(* space of five pages of two addresses: enough for a segment that starts  *)
(* in one region, runs over a gap and ends in another, and for one that    *)
(* ends in the last page.                                                  *)
(***************************************************************************)
EXTENDS SegmentLoader

CONSTANT MaxSegments

MCSegments ==
    {s \in [start : 0..(AddressSpace - 1), end : 0..(AddressSpace - 1)] :
        s.start <= s.end}

MCDumps == UNION {[1..n -> MCSegments] : n \in 0..MaxSegments}

=============================================================================

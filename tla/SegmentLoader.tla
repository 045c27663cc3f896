--------------------------- MODULE SegmentLoader ----------------------------
(***************************************************************************)
(* How the sandbox fuzzer rebuilds a process in Unicorn:                   *)
(* AflUnicornEngine::_map_segments and _map_segment, run by the engine's   *)
(* constructor over the segments of a memory dump.  Unicorn maps whole     *)
(* pages and refuses a mapping that overlaps another, so each segment is   *)
(* compared with the regions that exist and clipped.                       *)
(*                                                                         *)
(* Abstractions.  A region remembers which segment it was mapped for, in   *)
(* place of the permissions it was given.  The order in which Unicorn      *)
(* lists its regions is left open.  A dump may or may not hold the         *)
(* contents of a segment; the contents themselves are left out.            *)
(***************************************************************************)
EXTENDS Integers, Sequences

CONSTANTS
    PageSize,           \* UNICORN_PAGE_SIZE
    AddressSpace,       \* 2^64
    MaxSegmentSize,     \* MAX_ALLOWABLE_SEG_SIZE
    Dumps               \* the segment lists to consider

ASSUME LoaderAssumption ==
    /\ PageSize \in Nat \ {0}
    /\ AddressSpace \in Nat
    /\ AddressSpace % PageSize = 0
    /\ MaxSegmentSize \in Nat

Addresses == 0..(AddressSpace - 1)

\* [start, end) as the dumper writes it.
Segments == {s \in [start : Addresses, end : Addresses] : s.start <= s.end}

ASSUME DumpsAssumption == Dumps \subseteq Seq(Segments)

VARIABLES
    segments,   \* segment_list
    i,          \* the segment being looked at
    regions,    \* what uc_mem_regions lists: [begin, end) and the segment
    pc          \* "map", "load", "loaded" or "failed" (the process exits)

vars == <<segments, i, regions, pc>>

\* mem_end is regions[i].end + 1.
Regions == [begin : Nat, end : Nat, owner : Nat]

\* The types of _map_segments' variables; the loop never works on a segment past
\* the last.
TypeOK ==
    /\ segments \in Seq(Segments)
    /\ i \in 1..(Len(segments) + 1)
    /\ regions \subseteq Regions
    /\ pc \in {"map", "load", "loaded", "failed"}
    /\ pc \in {"map", "load"} => i <= Len(segments)

\* Mutant: the loop runs once too often.
Continue_OneMore(n) ==
    /\ i' = n + 1
    /\ pc' = IF n <= Len(segments) THEN "map" ELSE "loaded"

\* Where the loop goes after its first n segments.
Continue(n) ==
    /\ i' = n + 1
    /\ pc' = IF n < Len(segments) THEN "map" ELSE "loaded"

Init ==
    /\ segments \in Dumps
    /\ i = 1
    /\ regions = {}
    /\ pc = IF segments = <<>> THEN "loaded" ELSE "map"

ALIGN_PAGE_DOWN(x) == x - (x % PageSize)

\* Mutant: a page too many for an address on a page boundary.
ALIGN_PAGE_UP_Whole(x) == ALIGN_PAGE_DOWN((x + PageSize) % AddressSpace)

\* The sum is taken in 64 bits.
ALIGN_PAGE_UP(x) == ALIGN_PAGE_DOWN((x + PageSize - 1) % AddressSpace)

\* "Skipping segment (larger than ...)"
Skipped(s) == s.end - s.start > MaxSegmentSize

SkipSegment ==
    /\ pc = "map"
    /\ Skipped(segments[i])
    /\ Continue(i)
    /\ UNCHANGED <<segments, regions>>

\* How the loop over the regions looks at one of them, in this order.
Inside(s, r) == s.start >= r.begin /\ s.end < r.end
StartsIn(s, r) == s.start >= r.begin /\ s.start < r.end
EndsIn(s, r) == s.end >= r.begin /\ s.end < r.end

Overlaps(lo, hi) == \E r \in regions : lo < r.end /\ r.begin < hi

\* uc_mem_map: UC_ERR_MAP ends the process (uc_assert_success).
uc_mem_map(lo, hi) ==
    IF Overlaps(lo, hi)
      THEN pc' = "failed" /\ UNCHANGED regions
      ELSE /\ regions' = regions \cup {[begin |-> lo, end |-> hi, owner |-> i]}
           /\ pc' = "load"

\* _map_segment(from, to - from)
MapSegment(from, to) ==
    IF ALIGN_PAGE_DOWN(from) < ALIGN_PAGE_UP(to)
      THEN uc_mem_map(ALIGN_PAGE_DOWN(from), ALIGN_PAGE_UP(to))
      ELSE pc' = "load" /\ UNCHANGED regions

\* Mutant: the part after the region that holds the start is not mapped.
MapAgainst_StartIsEnough(s, r) ==
    \/ Inside(s, r) /\ pc' = "load" /\ UNCHANGED regions
    \/ StartsIn(s, r) /\ ~Inside(s, r) /\ pc' = "load" /\ UNCHANGED regions
    \/ EndsIn(s, r) /\ ~StartsIn(s, r) /\ MapSegment(s.start, r.begin)

\* Mutant: a segment that starts in a region is mapped from its own start.
MapAgainst_NotClipped(s, r) ==
    \/ Inside(s, r) /\ pc' = "load" /\ UNCHANGED regions
    \/ StartsIn(s, r) /\ ~Inside(s, r) /\ MapSegment(s.start, s.end)
    \/ EndsIn(s, r) /\ ~StartsIn(s, r) /\ MapSegment(s.start, r.begin)

\* The first region r for which one of the three tests holds ends the loop.
MapAgainst(s, r) ==
    \/ Inside(s, r) /\ pc' = "load" /\ UNCHANGED regions
    \/ StartsIn(s, r) /\ ~Inside(s, r) /\ MapSegment(r.end, s.end)
    \/ EndsIn(s, r) /\ ~StartsIn(s, r) /\ MapSegment(s.start, r.begin)

NotFound(s) ==
    /\ \A r \in regions : ~StartsIn(s, r) /\ ~EndsIn(s, r)
    /\ MapSegment(s.start, s.end)

MapSegmentOf ==
    /\ pc = "map"
    /\ ~Skipped(segments[i])
    /\ \/ \E r \in regions : MapAgainst(segments[i], r)
       \/ NotFound(segments[i])
    /\ UNCHANGED <<segments, i>>

Mapped(a) == \E r \in regions : r.begin <= a /\ a < r.end

AllMapped(s) == \A a \in s.start..(s.end - 1) : Mapped(a)

\* The content file, if there is one, is written over the segment.
LoadContent(has_content) ==
    /\ pc = "load"
    /\ IF has_content /\ ~AllMapped(segments[i])
         THEN pc' = "failed" /\ UNCHANGED i
         ELSE Continue(i)
    /\ UNCHANGED <<segments, regions>>

\* The process has exited, or the constructor goes on.
Finished ==
    /\ pc \in {"loaded", "failed"}
    /\ UNCHANGED vars

Next ==
    \/ SkipSegment
    \/ MapSegmentOf
    \/ \E has_content \in BOOLEAN : LoadContent(has_content)
    \/ Finished

Spec == Init /\ [][Next]_vars

----------------------------------------------------------------------------
(***************************************************************************)
(* Properties.                                                             *)
(***************************************************************************)

\* The segments that have been dealt with, and not skipped.
Done == {n \in 1..(i - 1) : ~Skipped(segments[n])}

\* A segment in the last page of the address space: ALIGN_PAGE_UP wraps to 0.
AtTheTop(s) == s.end > AddressSpace - PageSize

\* A process's own map lists its segments in order, without overlaps.
Ordered(list) ==
    /\ \A n \in 1..(Len(list) - 1) : list[n].end <= list[n + 1].start
    /\ \A n \in 1..Len(list) : ~AtTheTop(list[n])

\* Whatever the list, and however often segments were clipped against what was
\* there: a segment that the loader has passed without exiting is mapped.
PassedIsMapped ==
    \A n \in Done : AtTheTop(segments[n]) \/ AllMapped(segments[n])

\* The list of a real process always loads, page sharing included.
OrderedLoads == Ordered(segments) => pc # "failed"

Page(a) == a \div PageSize

\* Segment n reaches into the page of a.
Reaches(n, a) ==
    /\ Page(segments[n].start) <= Page(a)
    /\ \/ a < segments[n].end
       \/ Page(a) = Page(segments[n].end) /\ segments[n].end % PageSize # 0

\* A page has the permissions of the first segment that reached into it: a
\* later segment that shares it neither changes them nor maps it again.
FirstOwnsPage ==
    \A r \in regions : \A a \in r.begin..(r.end - 1) :
        /\ Reaches(r.owner, a)
        /\ \A n \in 1..(r.owner - 1) :
             Skipped(segments[n]) \/ AtTheTop(segments[n]) \/ ~Reaches(n, a)

=============================================================================

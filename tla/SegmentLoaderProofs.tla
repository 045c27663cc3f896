------------------------ MODULE SegmentLoaderProofs -------------------------
(***************************************************************************)
(* Three facts about the loader for every page size, address space and     *)
(* dump: a segment that it has passed is mapped (PassedIsMapped), the dump *)
(* of a real process, whose segments are in order and do not overlap, is   *)
(* loaded without a conflict (OrderedLoads), and there a page belongs to   *)
(* the first segment that has a part of it (FirstOwnsPage).                *)
(*                                                                         *)
(* The argument for the second.  Regions end on page boundaries, less than *)
(* a page after the last segment that was dealt with.  The next segment    *)
(* starts no earlier than that segment's end, so the only region it can    *)
(* meet is the one that shares its first page, and it meets it with its    *)
(* start: the third test of the loop never applies, the second leaves the  *)
(* part after all regions, and with neither the whole segment lies there.  *)
(***************************************************************************)
EXTENDS SegmentLoader, TLAPS

\* Division with remainder.
LEMMA Division ==
    ASSUME NEW x \in Nat
    PROVE  /\ x = (PageSize * (x \div PageSize)) + (x % PageSize)
           /\ x \div PageSize \in Nat
           /\ x % PageSize \in Nat
           /\ x % PageSize < PageSize
  BY LoaderAssumption

\* Two multiples of the page size differ by a page at least.
LEMMA PagesApart ==
    ASSUME NEW a \in Nat, NEW b \in Nat, a % PageSize = 0, b % PageSize = 0,
           a < b
    PROVE  a + PageSize <= b
<1> DEFINE q == a \div PageSize
<1> DEFINE r == b \div PageSize
<1>1. a = PageSize * q /\ b = PageSize * r /\ q \in Nat /\ r \in Nat
  BY Division, LoaderAssumption
<1>2. q < r
  <2>1. SUFFICES ASSUME r <= q PROVE FALSE
    BY <1>1
  <2>2. PageSize * r <= PageSize * q
    BY <1>1, <2>1, LoaderAssumption
  <2> QED
    BY <1>1, <2>2
<1>3. PageSize * q + PageSize <= PageSize * r
  BY <1>1, <1>2, LoaderAssumption
<1> QED
  BY <1>1, <1>3

\* Rounding down.
LEMMA RoundDown ==
    ASSUME NEW x \in Nat
    PROVE  /\ ALIGN_PAGE_DOWN(x) \in Nat
           /\ ALIGN_PAGE_DOWN(x) <= x
           /\ x < ALIGN_PAGE_DOWN(x) + PageSize
           /\ ALIGN_PAGE_DOWN(x) % PageSize = 0
<1> DEFINE q == x \div PageSize
<1>1. x - (x % PageSize) = PageSize * q + 0 /\ q \in Nat
  BY Division, LoaderAssumption
<1>2. \A k \in Nat : (PageSize * k + 0) % PageSize = 0
  BY LoaderAssumption
<1>3. (PageSize * q + 0) % PageSize = 0
  BY <1>1, <1>2
<1>4. PageSize * q \in Nat
  BY <1>1, LoaderAssumption
<1>5. x - (x % PageSize) \in Nat /\ (x - (x % PageSize)) % PageSize = 0
  BY <1>1, <1>3, <1>4
<1> QED
  BY <1>5, Division, LoaderAssumption DEF ALIGN_PAGE_DOWN

\* Rounding up, where it does not wrap.
LEMMA RoundUp ==
    ASSUME NEW x \in Nat, x <= AddressSpace - PageSize
    PROVE  /\ ALIGN_PAGE_UP(x) \in Nat
           /\ x <= ALIGN_PAGE_UP(x)
           /\ ALIGN_PAGE_UP(x) < x + PageSize
           /\ ALIGN_PAGE_UP(x) % PageSize = 0
<1>1. x + PageSize - 1 \in Nat
  BY LoaderAssumption
<1>2. (x + PageSize - 1) % AddressSpace = x + PageSize - 1
  BY LoaderAssumption
<1>3. ALIGN_PAGE_UP(x) = ALIGN_PAGE_DOWN(x + PageSize - 1)
  BY <1>2 DEF ALIGN_PAGE_UP
<1> DEFINE d == ALIGN_PAGE_DOWN(x + PageSize - 1)
<1>4. d \in Nat /\ d <= x + PageSize - 1 /\ x + PageSize - 1 < d + PageSize
      /\ d % PageSize = 0
  BY <1>1, RoundDown
<1> HIDE DEF d
<1>5. x <= d /\ d < x + PageSize
  BY <1>4, LoaderAssumption
<1> QED
  BY <1>3, <1>4, <1>5 DEF d

\* Rounding a page boundary down does nothing.
LEMMA RoundBoundary ==
    ASSUME NEW x \in Nat, x % PageSize = 0
    PROVE  ALIGN_PAGE_DOWN(x) = x
  BY DEF ALIGN_PAGE_DOWN

\* Rounding up gives a natural number in any case.
LEMMA RoundUpType ==
    ASSUME NEW x \in Nat, x < AddressSpace
    PROVE  ALIGN_PAGE_UP(x) \in Nat /\ ALIGN_PAGE_UP(x) % PageSize = 0
<1>1. x + PageSize - 1 \in Nat /\ AddressSpace > 0
  BY LoaderAssumption
<1>2. \A n, m \in Nat : m > 0 => n % m \in Nat
  OBVIOUS
<1>3. (x + PageSize - 1) % AddressSpace \in Nat
  BY <1>1, <1>2, LoaderAssumption
<1> QED
  BY <1>3, RoundDown DEF ALIGN_PAGE_UP

----------------------------------------------------------------------------
(***************************************************************************)
(* Type correctness, and the shape of a region.                            *)
(***************************************************************************)

\* Regions are made of whole pages, and are not empty.
PagesOnly ==
    \A r \in regions :
        /\ r.begin % PageSize = 0
        /\ r.end % PageSize = 0
        /\ r.begin < r.end

\* The segment that has just been mapped, and is about to be loaded, is mapped.
LoadingIsMapped ==
    pc = "load" => AtTheTop(segments[i]) \/ AllMapped(segments[i])

\* How far into a page the last segment that was dealt with may be followed by
\* the end of a region, when segments come in order.
Behind ==
    LET k == IF pc = "load" THEN i ELSE i - 1
    IN  \A r \in regions : k \in 1..Len(segments) /\ r.end < segments[k].end + PageSize

InOrder == Ordered(segments) => pc # "failed" /\ Behind

IInv == TypeOK /\ PagesOnly /\ PassedIsMapped /\ LoadingIsMapped /\ InOrder

\* The current segment.
LEMMA SegmentType ==
    ASSUME TypeOK, NEW n \in 1..Len(segments)
    PROVE  /\ segments[n].start \in Nat
           /\ segments[n].end \in Nat
           /\ segments[n].start <= segments[n].end
           /\ segments[n].end < AddressSpace
           /\ segments[n].start < AddressSpace
<1>1. segments[n] \in Segments
  BY DEF TypeOK
<1> QED
  BY <1>1, LoaderAssumption DEF Segments, Addresses

\* Both ends of a region are natural numbers.
LEMMA RegionType ==
    ASSUME TypeOK, NEW r \in regions
    PROVE  r.begin \in Nat /\ r.end \in Nat
  BY DEF TypeOK, Regions

\* What ends within a page of b ends within a page of whatever lies further up.
LEMMA WithinAPage ==
    ASSUME NEW a \in Nat, NEW b \in Nat, NEW c \in Nat,
           a < b + PageSize, b <= c
    PROVE  a < c + PageSize
  BY LoaderAssumption

\* The loop begins in a state that satisfies everything.
LEMMA InitInv == Init => IInv
<1> SUFFICES ASSUME Init PROVE IInv
  OBVIOUS
<1>1. segments \in Seq(Segments) /\ Len(segments) \in Nat
  BY DumpsAssumption DEF Init
<1>2. segments # <<>> => 1 <= Len(segments)
  BY <1>1
<1>3. TypeOK
  BY <1>1, <1>2 DEF Init, TypeOK
<1>4. PagesOnly /\ PassedIsMapped /\ LoadingIsMapped /\ InOrder
  BY DEF Init, PagesOnly, PassedIsMapped, Done, LoadingIsMapped, InOrder, Behind
<1> QED
  BY <1>3, <1>4 DEF IInv

\* What a call of _map_segment does: nothing, a new region, or the end.
LEMMA MapSegmentCases ==
    ASSUME NEW from, NEW to, MapSegment(from, to)
    PROVE  LET lo == ALIGN_PAGE_DOWN(from)
               hi == ALIGN_PAGE_UP(to)
           IN  \/ ~(lo < hi) /\ pc' = "load" /\ regions' = regions
               \/ /\ lo < hi /\ ~Overlaps(lo, hi) /\ pc' = "load"
                  /\ regions' = regions \cup
                                   {[begin |-> lo, end |-> hi, owner |-> i]}
               \/ lo < hi /\ Overlaps(lo, hi) /\ pc' = "failed" /\ regions' = regions
  BY DEF MapSegment, uc_mem_map

\* A call of _map_segment keeps the regions in shape and never removes one;
\* when it returns, [from, to) lies in the regions.
LEMMA MapSegmentResult ==
    ASSUME TypeOK, PagesOnly, NEW from \in Nat, NEW to \in Nat,
           to < AddressSpace, MapSegment(from, to)
    PROVE  /\ pc' \in {"load", "failed"}
           /\ regions \subseteq regions'
           /\ regions' \subseteq Regions
           /\ PagesOnly'
           /\ \A r \in regions' : r \in regions \/ r.end = ALIGN_PAGE_UP(to)
           /\ pc' = "load" /\ to <= AddressSpace - PageSize =>
                \A a \in Nat : from <= a /\ a < to =>
                    \E r \in regions' : r.begin <= a /\ a < r.end
<1> DEFINE lo == ALIGN_PAGE_DOWN(from)
<1> DEFINE hi == ALIGN_PAGE_UP(to)
<1> DEFINE new == [begin |-> lo, end |-> hi, owner |-> i]
<1>1. /\ lo \in Nat /\ lo <= from /\ lo % PageSize = 0
      /\ hi \in Nat /\ hi % PageSize = 0
  BY RoundDown, RoundUpType
<1>2. to <= AddressSpace - PageSize => to <= hi
  BY RoundUp
<1>3. i \in Nat
  BY DEF TypeOK
<1>4. \/ ~(lo < hi) /\ pc' = "load" /\ regions' = regions
      \/ lo < hi /\ pc' = "load" /\ regions' = regions \cup {new}
      \/ pc' = "failed" /\ regions' = regions
  BY MapSegmentCases
<1>5. /\ new \in Regions
      /\ new.begin = lo /\ new.end = hi
  BY <1>1, <1>3 DEF Regions
<1> HIDE DEF lo, new
<1>6. regions \subseteq Regions
  BY DEF TypeOK
<1>7. regions' \subseteq Regions /\ regions \subseteq regions'
  BY <1>4, <1>5, <1>6
<1>8. \A r \in regions' : r \in regions \/ (r = new /\ lo < hi)
  BY <1>4
<1>9. PagesOnly'
  BY <1>1, <1>5, <1>8 DEF PagesOnly
<1>10. ASSUME pc' = "load", to <= AddressSpace - PageSize,
              NEW a \in Nat, from <= a, a < to
       PROVE  \E r \in regions' : r.begin <= a /\ a < r.end
  <2>1. lo <= a /\ a < hi
    BY <1>1, <1>2, <1>10
  <2>2. new \in regions'
    BY <1>1, <1>4, <1>10, <2>1
  <2> QED
    BY <1>5, <2>1, <2>2
<1> QED
  BY <1>4, <1>5, <1>7, <1>8, <1>9, <1>10

----------------------------------------------------------------------------
(***************************************************************************)
(* The step that maps a segment.                                           *)
(***************************************************************************)

\* Regions only become more, so what is mapped stays mapped.
LEMMA MappedStays ==
    ASSUME regions \subseteq regions', NEW s, AllMapped(s)
    PROVE  AllMapped(s)'
  BY DEF AllMapped, Mapped

\* The page-sharing argument: when segments come in order, a region that
\* reaches past the start of the next segment holds that start.
LEMMA OnlySharesFirstPage ==
    ASSUME IInv, Ordered(segments), pc = "map", NEW r \in regions,
           segments[i].start < r.end
    PROVE  /\ StartsIn(segments[i], r)
           /\ \A r2 \in regions : r2.end <= r.end
<1> DEFINE s == segments[i]
<1>1. i \in 1..Len(segments) /\ i - 1 \in 1..Len(segments)
  BY DEF IInv, TypeOK, InOrder, Behind
<1>2. \A r2 \in regions : r2.end < segments[i - 1].end + PageSize
  BY DEF IInv, InOrder, Behind
<1>3. segments[i - 1].end <= segments[i].start
  BY <1>1 DEF Ordered
<1>4. \A r2 \in regions : r2.end < s.start + PageSize
  <2>1. s.start \in Nat /\ segments[i - 1].end \in Nat
    BY <1>1, SegmentType DEF IInv
  <2>2. \A r2 \in regions : r2.end \in Nat
    BY RegionType DEF IInv
  <2> QED
    BY <1>2, <1>3, <2>1, <2>2, WithinAPage
<1>5. s.start \in Nat /\ r.begin \in Nat /\ r.end \in Nat
  BY <1>1, SegmentType, RegionType DEF IInv
<1>6. r.begin + PageSize <= r.end
  BY <1>5, PagesApart DEF IInv, PagesOnly
<1>7. StartsIn(s, r)
  BY <1>4, <1>5, <1>6, LoaderAssumption DEF StartsIn
<1>8. ASSUME NEW r2 \in regions, r.end < r2.end
      PROVE  FALSE
  <2>1. r2.end \in Nat /\ r2.end % PageSize = 0 /\ r.end % PageSize = 0
    BY RegionType DEF IInv, PagesOnly
  <2>2. r.end + PageSize <= r2.end
    BY <1>5, <1>8, <2>1, PagesApart
  <2> QED
    BY <1>4, <1>5, <2>1, <2>2, LoaderAssumption
<1> QED
  BY <1>5, <1>7, <1>8, RegionType DEF IInv

\* The step that maps a segment preserves the invariant.
LEMMA MapKeepsInv == IInv /\ MapSegmentOf => IInv'
<1> SUFFICES ASSUME IInv, MapSegmentOf PROVE IInv'
  OBVIOUS
<1> DEFINE s == segments[i]
<1>1. /\ pc = "map" /\ segments' = segments /\ i' = i
      /\ TypeOK /\ PagesOnly /\ PassedIsMapped /\ InOrder
      /\ i \in 1..Len(segments)
  BY DEF IInv, TypeOK, MapSegmentOf
<1>2. /\ s.start \in Nat /\ s.end \in Nat /\ s.start <= s.end
      /\ s.end < AddressSpace /\ s.start < AddressSpace
  BY <1>1, SegmentType
<1>3. \/ \E r \in regions : MapAgainst(s, r)
      \/ NotFound(s)
  BY DEF MapSegmentOf
\* What the three calls of _map_segment and the case without one have in common.
<1>4. ASSUME pc' \in {"load", "failed"}, regions \subseteq regions',
             regions' \subseteq Regions, PagesOnly',
             pc' = "load" => AtTheTop(s) \/ AllMapped(s)',
             Ordered(segments) =>
                /\ pc' # "failed"
                /\ \A r \in regions' :
                      r \in regions \/ r.end < s.end + PageSize
      PROVE  IInv'
  <2>1. TypeOK'
    BY <1>1, <1>4 DEF TypeOK
  <2>2. PassedIsMapped'
    <3>1. ASSUME NEW n \in Done
          PROVE  AtTheTop(segments[n]) \/ AllMapped(segments[n])'
      BY <1>1, <1>4, <3>1, MappedStays DEF PassedIsMapped
    <3>2. Done' = Done
      BY <1>1 DEF Done, Skipped
    <3> QED
      BY <1>1, <3>1, <3>2 DEF PassedIsMapped, AtTheTop, AllMapped, Mapped
  <2>3. LoadingIsMapped'
    BY <1>1, <1>4 DEF LoadingIsMapped, AtTheTop, AllMapped, Mapped
  <2>4. ASSUME Ordered(segments)
        PROVE  pc' # "failed" /\ Behind'
    <3>1. pc' = "load"
      BY <1>4, <2>4
    <3>2. ASSUME NEW r \in regions
          PROVE  r.end < s.end + PageSize
      <4>1. i - 1 \in 1..Len(segments) /\ r.end < segments[i - 1].end + PageSize
        BY <1>1, <2>4 DEF InOrder, Behind
      <4>2. segments[i - 1].end <= s.start
        BY <1>1, <2>4, <4>1 DEF Ordered
      <4>3. r.end \in Nat /\ segments[i - 1].end \in Nat
        BY <1>1, <4>1, SegmentType, RegionType
      <4>4. segments[i - 1].end <= s.end
        BY <1>2, <4>2, <4>3
      <4> QED
        BY <1>2, <4>1, <4>3, <4>4, WithinAPage
    <3>3. \A r \in regions' : r.end < s.end + PageSize
      BY <1>4, <2>4, <3>2
    <3> QED
      BY <1>1, <3>1, <3>3 DEF Behind
  <2>5. InOrder'
    BY <1>1, <2>4 DEF InOrder, Ordered, AtTheTop
  <2> QED
    BY <1>4, <2>1, <2>2, <2>3, <2>5 DEF IInv
\* A call with an end that is not at the top.
<1>5. Ordered(segments) => s.end <= AddressSpace - PageSize
  BY <1>1, <1>2, LoaderAssumption DEF Ordered, AtTheTop
<1>6. ASSUME NEW r \in regions, Inside(s, r), pc' = "load", regions' = regions
      PROVE  IInv'
  <2>1. AllMapped(s)'
    BY <1>2, <1>6, RegionType, <1>1 DEF AllMapped, Mapped, Inside
  <2> QED
    BY <1>1, <1>4, <1>6, <2>1 DEF TypeOK, PagesOnly
<1>7. ASSUME NEW r \in regions, StartsIn(s, r), ~Inside(s, r),
             MapSegment(r.end, s.end)
      PROVE  IInv'
  <2>1. r.begin \in Nat /\ r.end \in Nat /\ r.end % PageSize = 0
    BY <1>1, <1>7, RegionType DEF PagesOnly
  <2>2. /\ pc' \in {"load", "failed"}
        /\ regions \subseteq regions'
        /\ regions' \subseteq Regions
        /\ PagesOnly'
        /\ \A q \in regions' : q \in regions \/ q.end = ALIGN_PAGE_UP(s.end)
        /\ pc' = "load" /\ s.end <= AddressSpace - PageSize =>
             \A a \in Nat : r.end <= a /\ a < s.end =>
                 \E q \in regions' : q.begin <= a /\ a < q.end
    BY <1>1, <1>2, <1>7, <2>1, MapSegmentResult
  <2>3. pc' = "load" => AtTheTop(s) \/ AllMapped(s)'
    <3>1. SUFFICES ASSUME pc' = "load", ~AtTheTop(s),
                          NEW a \in s.start..(s.end - 1)
                   PROVE  \E q \in regions' : q.begin <= a /\ a < q.end
      BY <1>1 DEF AllMapped, Mapped
    <3>2. s.end <= AddressSpace - PageSize /\ a \in Nat /\ s.start <= a /\ a < s.end
      BY <1>2, <3>1, LoaderAssumption DEF AtTheTop
    <3>3. CASE a < r.end
      BY <1>2, <1>7, <2>1, <2>2, <3>2, <3>3 DEF StartsIn
    <3>4. CASE r.end <= a
      BY <2>2, <3>1, <3>2, <3>4
    <3> QED
      BY <2>1, <3>2, <3>3, <3>4
  <2>4. ASSUME Ordered(segments)
        PROVE  /\ pc' # "failed"
               /\ \A q \in regions' : q \in regions \/ q.end < s.end + PageSize
    <3>1. \A r2 \in regions : r2.end <= r.end
      BY <1>1, <1>7, <2>4, OnlySharesFirstPage DEF StartsIn
    <3>2. ALIGN_PAGE_DOWN(r.end) = r.end
      BY <2>1, RoundBoundary
    <3>3. ~Overlaps(ALIGN_PAGE_DOWN(r.end), ALIGN_PAGE_UP(s.end))
      BY <1>1, <2>1, <3>1, <3>2, RegionType DEF Overlaps
    <3>4. pc' # "failed"
      BY <1>7, <3>3, MapSegmentCases
    <3>5. ALIGN_PAGE_UP(s.end) < s.end + PageSize
      BY <1>2, <1>5, <2>4, RoundUp
    <3> QED
      BY <2>2, <3>4, <3>5
  <2> QED
    BY <1>4, <2>2, <2>3, <2>4
<1>8. ASSUME NEW r \in regions, EndsIn(s, r), ~StartsIn(s, r),
             MapSegment(s.start, r.begin)
      PROVE  IInv'
  <2>1. r.begin \in Nat /\ r.end \in Nat
    BY <1>1, <1>8, RegionType
  <2>2. r.begin <= s.end /\ s.end < r.end /\ s.start < r.end
    BY <1>2, <1>8, <2>1 DEF EndsIn
  <2>3. /\ pc' \in {"load", "failed"}
        /\ regions \subseteq regions'
        /\ regions' \subseteq Regions
        /\ PagesOnly'
        /\ pc' = "load" /\ r.begin <= AddressSpace - PageSize =>
             \A a \in Nat : s.start <= a /\ a < r.begin =>
                 \E q \in regions' : q.begin <= a /\ a < q.end
    BY <1>1, <1>2, <1>8, <2>1, <2>2, LoaderAssumption, MapSegmentResult
  <2>4. pc' = "load" => AtTheTop(s) \/ AllMapped(s)'
    <3>1. SUFFICES ASSUME pc' = "load", ~AtTheTop(s),
                          NEW a \in s.start..(s.end - 1)
                   PROVE  \E q \in regions' : q.begin <= a /\ a < q.end
      BY <1>1 DEF AllMapped, Mapped
    <3>2. /\ r.begin <= AddressSpace - PageSize
          /\ a \in Nat /\ s.start <= a /\ a < s.end
      BY <1>2, <2>1, <2>2, <3>1, LoaderAssumption DEF AtTheTop
    <3>3. CASE a < r.begin
      BY <2>3, <3>1, <3>2, <3>3
    <3>4. CASE r.begin <= a
      <4>1. a < r.end /\ r \in regions'
        BY <1>2, <2>1, <2>2, <2>3, <3>2
      <4> QED
        BY <3>4, <4>1
    <3> QED
      BY <2>1, <3>2, <3>3, <3>4
  <2>5. ~Ordered(segments)
    BY <1>1, <1>8, <2>2, OnlySharesFirstPage
  <2> QED
    BY <1>4, <2>3, <2>4, <2>5
<1>9. ASSUME NotFound(s)
      PROVE  IInv'
  <2>1. /\ pc' \in {"load", "failed"}
        /\ regions \subseteq regions'
        /\ regions' \subseteq Regions
        /\ PagesOnly'
        /\ \A q \in regions' : q \in regions \/ q.end = ALIGN_PAGE_UP(s.end)
        /\ pc' = "load" /\ s.end <= AddressSpace - PageSize =>
             \A a \in Nat : s.start <= a /\ a < s.end =>
                 \E q \in regions' : q.begin <= a /\ a < q.end
    BY <1>1, <1>2, <1>9, MapSegmentResult DEF NotFound
  <2>2. pc' = "load" => AtTheTop(s) \/ AllMapped(s)'
    <3>1. SUFFICES ASSUME pc' = "load", ~AtTheTop(s),
                          NEW a \in s.start..(s.end - 1)
                   PROVE  \E q \in regions' : q.begin <= a /\ a < q.end
      BY <1>1 DEF AllMapped, Mapped
    <3>2. s.end <= AddressSpace - PageSize /\ a \in Nat /\ s.start <= a /\ a < s.end
      BY <1>2, <3>1, LoaderAssumption DEF AtTheTop
    <3> QED
      BY <2>1, <3>1, <3>2
  <2>3. ASSUME Ordered(segments)
        PROVE  /\ pc' # "failed"
               /\ \A q \in regions' : q \in regions \/ q.end < s.end + PageSize
    <3>1. ASSUME NEW r2 \in regions
          PROVE  r2.end <= ALIGN_PAGE_DOWN(s.start)
      <4>1. r2.end \in Nat /\ r2.end % PageSize = 0 /\ r2.end <= s.start
        BY <1>1, <1>2, <1>9, <2>3, OnlySharesFirstPage, RegionType
           DEF NotFound, PagesOnly
      <4>2. /\ ALIGN_PAGE_DOWN(s.start) \in Nat
            /\ s.start < ALIGN_PAGE_DOWN(s.start) + PageSize
            /\ ALIGN_PAGE_DOWN(s.start) % PageSize = 0
        BY <1>2, RoundDown
      <4>3. ASSUME ALIGN_PAGE_DOWN(s.start) < r2.end PROVE FALSE
        <5>1. ALIGN_PAGE_DOWN(s.start) + PageSize <= r2.end
          BY <4>1, <4>2, <4>3, PagesApart
        <5> QED
          BY <1>2, <4>1, <4>2, <5>1, LoaderAssumption
      <4> QED
        BY <4>1, <4>2, <4>3
    <3>2. ~Overlaps(ALIGN_PAGE_DOWN(s.start), ALIGN_PAGE_UP(s.end))
      <4>1. ALIGN_PAGE_DOWN(s.start) \in Nat
        BY <1>2, RoundDown
      <4>2. \A r2 \in regions : r2.end \in Nat
        BY <1>1, RegionType
      <4> QED
        BY <3>1, <4>1, <4>2 DEF Overlaps
    <3>3. pc' # "failed"
      BY <1>9, <3>2, MapSegmentCases DEF NotFound
    <3>4. ALIGN_PAGE_UP(s.end) < s.end + PageSize
      BY <1>2, <1>5, <2>3, RoundUp
    <3> QED
      BY <2>1, <3>3, <3>4
  <2> QED
    BY <1>4, <2>1, <2>2, <2>3
<1> QED
  BY <1>3, <1>6, <1>7, <1>8, <1>9 DEF MapAgainst

----------------------------------------------------------------------------
(***************************************************************************)
(* The other steps, and the theorems.                                      *)
(***************************************************************************)

\* Moving on to the next segment: n segments are dealt with.
LEMMA ContinueKeepsInv ==
    ASSUME IInv, pc \in {"map", "load"}, Continue(i),
           UNCHANGED <<segments, regions>>,
           pc = "map" => Skipped(segments[i])
    PROVE  IInv'
<1>1. /\ i \in 1..Len(segments) /\ Len(segments) \in Nat
      /\ TypeOK /\ PagesOnly /\ PassedIsMapped /\ LoadingIsMapped /\ InOrder
  BY DEF IInv, TypeOK
<1>2. /\ i' = i + 1 /\ pc' \in {"map", "loaded"}
      /\ pc' = "map" => i + 1 <= Len(segments)
  BY <1>1 DEF Continue
<1>3. TypeOK' /\ PagesOnly'
  BY <1>1, <1>2 DEF TypeOK, PagesOnly
<1>4. PassedIsMapped'
  <2>1. Done' \subseteq Done \cup {i}
    BY <1>1, <1>2 DEF Done, Skipped
  <2>2. i \in Done' => pc = "load"
    BY <1>1 DEF Done, Skipped
  <2>3. \A n \in Done' : AtTheTop(segments[n]) \/ AllMapped(segments[n])
    BY <1>1, <2>1, <2>2 DEF PassedIsMapped, LoadingIsMapped
  <2> QED
    BY <2>3 DEF PassedIsMapped, AtTheTop, AllMapped, Mapped
<1>5. LoadingIsMapped'
  BY <1>2 DEF LoadingIsMapped
<1>6. ASSUME Ordered(segments), NEW r \in regions
      PROVE  r.end < segments[i].end + PageSize
  <2>1. CASE pc = "load"
    BY <1>1, <1>6, <2>1 DEF InOrder, Behind
  <2>2. CASE pc = "map"
    <3>1. i - 1 \in 1..Len(segments) /\ r.end < segments[i - 1].end + PageSize
      BY <1>1, <1>6, <2>2 DEF InOrder, Behind
    <3>2. segments[i - 1].end <= segments[i].start
      BY <1>1, <1>6, <3>1 DEF Ordered
    <3>3. /\ segments[i].start \in Nat /\ segments[i].end \in Nat
          /\ segments[i].start <= segments[i].end
      BY <1>1, SegmentType
    <3>4. r.end \in Nat /\ segments[i - 1].end \in Nat
      BY <1>1, <1>6, <3>1, SegmentType, RegionType
    <3>5. segments[i - 1].end <= segments[i].end
      BY <3>2, <3>3, <3>4
    <3> QED
      BY <3>1, <3>3, <3>4, <3>5, WithinAPage
  <2> QED
    BY <2>1, <2>2
<1>7. InOrder'
  BY <1>1, <1>2, <1>6 DEF InOrder, Behind, Ordered, AtTheTop
<1> QED
  BY <1>3, <1>4, <1>5, <1>7 DEF IInv

\* Loading what is mapped cannot fail.
LEMMA LoadKeepsInv ==
    ASSUME IInv, NEW has_content \in BOOLEAN, LoadContent(has_content)
    PROVE  IInv'
<1>1. CASE has_content /\ ~AllMapped(segments[i])
  <2>1. /\ i \in 1..Len(segments) /\ pc = "load" /\ pc' = "failed"
        /\ UNCHANGED <<segments, regions, i>>
    BY <1>1 DEF LoadContent, IInv, TypeOK
  <2>2. ~Ordered(segments)
    BY <1>1, <2>1 DEF IInv, LoadingIsMapped, Ordered
  <2>3. TypeOK' /\ PagesOnly' /\ LoadingIsMapped'
    BY <2>1 DEF IInv, TypeOK, PagesOnly, LoadingIsMapped
  <2>4. PassedIsMapped'
    BY <2>1 DEF IInv, PassedIsMapped, Done, Skipped, AtTheTop, AllMapped, Mapped
  <2>5. InOrder'
    BY <2>1, <2>2 DEF InOrder, Ordered, AtTheTop
  <2> QED
    BY <2>3, <2>4, <2>5 DEF IInv
<1>2. CASE ~(has_content /\ ~AllMapped(segments[i]))
  BY <1>2, ContinueKeepsInv DEF LoadContent
<1> QED
  BY <1>1, <1>2

\* A state that does not change satisfies what it did.
LEMMA StutterKeepsInv == IInv /\ UNCHANGED vars => IInv'
  BY DEF IInv, vars, TypeOK, PagesOnly, PassedIsMapped, Done, Skipped, AtTheTop,
         AllMapped, Mapped, LoadingIsMapped, InOrder, Ordered, Behind

\* Every step preserves the invariant.
LEMMA NextKeepsInv == IInv /\ [Next]_vars => IInv'
<1> SUFFICES ASSUME IInv, [Next]_vars PROVE IInv'
  OBVIOUS
<1>1. CASE SkipSegment
  BY <1>1, ContinueKeepsInv DEF SkipSegment
<1>2. CASE MapSegmentOf
  BY <1>2, MapKeepsInv
<1>3. CASE \E has_content \in BOOLEAN : LoadContent(has_content)
  BY <1>3, LoadKeepsInv
<1>4. CASE Finished \/ UNCHANGED vars
  BY <1>4, StutterKeepsInv DEF Finished
<1> QED
  BY <1>1, <1>2, <1>3, <1>4 DEF Next

\* The inductive invariant holds throughout the loading of any dump.
THEOREM Invariance == Spec => []IInv
  BY InitInv, NextKeepsInv, PTL DEF Spec

\* The variables of the loader keep their types, and the index its range.
THEOREM TypeCorrect == Spec => []TypeOK
<1>1. IInv => TypeOK
  BY DEF IInv
<1> QED
  BY <1>1, Invariance, PTL

\* Whatever the dump: a segment that _map_segments has gone past, without
\* skipping it and without ending the process, is mapped from end to end.
THEOREM PassedSegmentsAreMapped == Spec => []PassedIsMapped
<1>1. IInv => PassedIsMapped
  BY DEF IInv
<1> QED
  BY <1>1, Invariance, PTL

\* A dump in the order of a process's memory map never makes the loader exit:
\* its clipping is right wherever segments only share pages.
THEOREM OrderedDumpsLoad == Spec => []OrderedLoads
<1>1. IInv => OrderedLoads
  BY DEF IInv, InOrder, OrderedLoads
<1> QED
  BY <1>1, Invariance, PTL

----------------------------------------------------------------------------
(***************************************************************************)
(* Who owns a page.  A segment that has been passed has every page mapped  *)
(* that it reaches into, and a new region overlaps nothing: no earlier     *)
(* segment reaches into its pages.                                         *)
(***************************************************************************)

\* The pages of a segment that has been dealt with are mapped.
PagesMapped ==
    \A n \in 1..(IF pc = "load" THEN i ELSE i - 1) :
        \/ Skipped(segments[n])
        \/ AtTheTop(segments[n])
        \/ \A a \in Nat : Reaches(n, a) => Mapped(a)

OwnerInv == PagesMapped /\ FirstOwnsPage

\* Addresses and pages are in the same order.
LEMMA PageOrder ==
    ASSUME NEW x \in Nat, NEW a \in Nat
    PROVE  /\ Page(x) \in Nat
           /\ ALIGN_PAGE_DOWN(x) <= a <=> Page(x) <= Page(a)
           /\ Page(x) = Page(a) => ALIGN_PAGE_DOWN(x) = ALIGN_PAGE_DOWN(a)
<1> DEFINE p == Page(x)
           q == Page(a)
<1>1. /\ ALIGN_PAGE_DOWN(x) = PageSize * p /\ ALIGN_PAGE_DOWN(a) = PageSize * q
      /\ p \in Nat /\ q \in Nat
  BY Division, LoaderAssumption DEF ALIGN_PAGE_DOWN, Page
<1>2. ALIGN_PAGE_DOWN(a) \in Nat /\ ALIGN_PAGE_DOWN(a) <= a /\ a < ALIGN_PAGE_DOWN(a) + PageSize
      /\ ALIGN_PAGE_DOWN(x) \in Nat
  BY RoundDown
<1> HIDE DEF p, q
<1>3. p <= q => PageSize * p <= PageSize * q
  BY <1>1, LoaderAssumption
<1>4. q < p => PageSize * q + PageSize <= PageSize * p
  BY <1>1, LoaderAssumption
<1>5. p <= q => ALIGN_PAGE_DOWN(x) <= a
  BY <1>1, <1>2, <1>3
<1>6. q < p => a < ALIGN_PAGE_DOWN(x)
  BY <1>1, <1>2, <1>4, LoaderAssumption
<1>7. p = q => ALIGN_PAGE_DOWN(x) = ALIGN_PAGE_DOWN(a)
  BY <1>1
<1>8. ALIGN_PAGE_DOWN(x) <= a <=> p <= q
  BY <1>1, <1>2, <1>5, <1>6
<1> QED
  BY <1>1, <1>7, <1>8 DEF p, q

\* Rounding does not cross a page boundary.
LEMMA WithinBoundaries ==
    ASSUME NEW x \in Nat, NEW b \in Nat, b % PageSize = 0
    PROVE  /\ b <= x => b <= ALIGN_PAGE_DOWN(x)
           /\ x <= b /\ x <= AddressSpace - PageSize => ALIGN_PAGE_UP(x) <= b
<1>1. ASSUME b <= x PROVE b <= ALIGN_PAGE_DOWN(x)
  <2> DEFINE d == ALIGN_PAGE_DOWN(x)
  <2>1. d \in Nat /\ x < d + PageSize /\ d % PageSize = 0
    BY RoundDown
  <2> HIDE DEF d
  <2>2. d < b => d + PageSize <= b
    BY <2>1, PagesApart
  <2>3. b <= d
    BY <1>1, <2>1, <2>2, LoaderAssumption
  <2> QED BY <2>3 DEF d
<1>2. ASSUME x <= b, x <= AddressSpace - PageSize PROVE ALIGN_PAGE_UP(x) <= b
  <2> DEFINE u == ALIGN_PAGE_UP(x)
  <2>1. u \in Nat /\ u < x + PageSize /\ u % PageSize = 0
    BY <1>2, RoundUp
  <2> HIDE DEF u
  <2>2. b < u => b + PageSize <= u
    BY <2>1, PagesApart
  <2>3. u <= b
    BY <1>2, <2>1, <2>2, LoaderAssumption
  <2> QED BY <2>3 DEF u
<1> QED
  BY <1>1, <1>2

\* What lies below the end rounded up.
LEMMA BelowRoundUp ==
    ASSUME NEW x \in Nat, x <= AddressSpace - PageSize, NEW a \in Nat
    PROVE  a < ALIGN_PAGE_UP(x) <=> a < x \/ (Page(a) = Page(x) /\ x % PageSize # 0)
<1> DEFINE u == ALIGN_PAGE_UP(x)
           d == ALIGN_PAGE_DOWN(x)
           e == ALIGN_PAGE_DOWN(a)
<1>1. u \in Nat /\ x <= u /\ u < x + PageSize /\ u % PageSize = 0
  BY RoundUp
<1>2. /\ d \in Nat /\ d <= x /\ x < d + PageSize /\ d % PageSize = 0
      /\ e \in Nat /\ e <= a /\ a < e + PageSize /\ e % PageSize = 0
  BY RoundDown
<1>3. x % PageSize # 0 => d < x
  BY <1>2, Division, LoaderAssumption DEF ALIGN_PAGE_DOWN
<1>4. x % PageSize = 0 => u <= x
  BY WithinBoundaries
<1>5. /\ d <= a <=> Page(x) <= Page(a)
      /\ e <= x <=> Page(a) <= Page(x)
      /\ Page(x) = Page(a) => d = e
      /\ Page(x) \in Nat /\ Page(a) \in Nat
  BY PageOrder
<1> HIDE DEF u, d, e
<1>6. d < u => d + PageSize <= u
  BY <1>1, <1>2, PagesApart
<1>7. e < u => e + PageSize <= u
  BY <1>1, <1>2, PagesApart
<1>8. ASSUME a < u, ~(a < x) PROVE Page(a) = Page(x) /\ x % PageSize # 0
  <2>1. x % PageSize # 0
    BY <1>1, <1>4, <1>8
  <2>2. e < x
    BY <1>1, <1>2, <1>7, <1>8, LoaderAssumption
  <2>3. d <= a
    BY <1>2, <1>8
  <2>4. Page(a) = Page(x)
    BY <1>2, <1>5, <2>2, <2>3
  <2> QED BY <2>1, <2>4
<1>9. ASSUME Page(a) = Page(x), x % PageSize # 0 PROVE a < u
  <2>1. d < u
    BY <1>1, <1>2, <1>3, <1>9
  <2> QED BY <1>1, <1>2, <1>5, <1>6, <1>9, <2>1, LoaderAssumption
<1>10. a < u <=> a < x \/ (Page(a) = Page(x) /\ x % PageSize # 0)
  BY <1>1, <1>8, <1>9
<1> QED
  BY <1>10 DEF u

\* At the top of the address space the sum wraps, and nothing is mapped.
LEMMA RoundUpAtTop ==
    ASSUME NEW x \in Nat, x < AddressSpace, ~(x <= AddressSpace - PageSize)
    PROVE  ALIGN_PAGE_UP(x) = 0
<1> DEFINE y == x + PageSize - 1 - AddressSpace
<1>1. PageSize <= AddressSpace
  <2>1. 0 % PageSize = 0
    BY LoaderAssumption
  <2> QED BY <2>1, PagesApart, LoaderAssumption
<1>2. y \in Nat /\ y < PageSize /\ x + PageSize - 1 = y + AddressSpace
  BY LoaderAssumption
<1> HIDE DEF y
<1>3. (y + AddressSpace) % AddressSpace = y
  BY <1>1, <1>2, LoaderAssumption
<1>4. y % PageSize = y
  BY <1>2, LoaderAssumption
<1> QED
  BY <1>2, <1>3, <1>4 DEF ALIGN_PAGE_UP, ALIGN_PAGE_DOWN

\* A part of a segment lies in the pages that the segment reaches into.
LEMMA PartIsReached ==
    ASSUME TypeOK, NEW n \in 1..Len(segments), NEW from \in Nat, NEW to \in Nat,
           segments[n].start <= from, to <= segments[n].end, NEW a \in Nat,
           ALIGN_PAGE_DOWN(from) <= a, a < ALIGN_PAGE_UP(to)
    PROVE  Reaches(n, a)
<1> DEFINE start == segments[n].start
           end == segments[n].end
<1>1. start \in Nat /\ end \in Nat /\ start <= end /\ end < AddressSpace
  BY SegmentType
<1>2. to < AddressSpace
  BY <1>1, LoaderAssumption
<1>3. Page(start) <= Page(a)
  <2>1. Page(start) \in Nat /\ Page(from) \in Nat /\ Page(a) \in Nat
    BY <1>1, PageOrder
  <2>2. ALIGN_PAGE_DOWN(start) <= start /\ ALIGN_PAGE_DOWN(start) \in Nat
    BY <1>1, RoundDown
  <2>3. ALIGN_PAGE_DOWN(start) <= from
    BY <1>1, <2>2
  <2>4. Page(start) <= Page(from) /\ Page(from) <= Page(a)
    BY <1>1, <2>3, PageOrder
  <2> QED BY <2>1, <2>4
<1>4. to <= AddressSpace - PageSize
  BY <1>2, RoundUpAtTop
<1>5. a < to \/ (Page(a) = Page(to) /\ to % PageSize # 0)
  BY <1>4, BelowRoundUp
<1>6. CASE a < end
  BY <1>3, <1>6 DEF Reaches
<1>7. CASE ~(a < end)
  <2>1. Page(a) = Page(to) /\ to % PageSize # 0
    BY <1>1, <1>5, <1>7
  <2>2. /\ ALIGN_PAGE_DOWN(to) <= to /\ ALIGN_PAGE_DOWN(end) <= end
        /\ ALIGN_PAGE_DOWN(to) \in Nat /\ ALIGN_PAGE_DOWN(end) \in Nat
        /\ ALIGN_PAGE_DOWN(to) # to
    BY <1>1, <2>1, RoundDown
  <2>3. ALIGN_PAGE_DOWN(to) <= end /\ ALIGN_PAGE_DOWN(end) <= a
    BY <1>1, <1>7, <2>2
  <2>4. Page(to) <= Page(end) /\ Page(end) <= Page(a) /\ Page(to) \in Nat /\ Page(end) \in Nat
    BY <1>1, <2>3, PageOrder
  <2>5. Page(end) = Page(to) /\ Page(a) = Page(end)
    BY <2>1, <2>4
  <2>6. ALIGN_PAGE_DOWN(end) = ALIGN_PAGE_DOWN(to)
    BY <1>1, <2>5, PageOrder
  <2>7. end % PageSize # 0
    <3>1. SUFFICES ASSUME end % PageSize = 0 PROVE FALSE
      OBVIOUS
    <3>2. ALIGN_PAGE_DOWN(end) = end
      BY <1>1, <3>1, RoundBoundary
    <3> QED BY <1>1, <2>2, <2>6, <3>2
  <2> QED BY <1>3, <2>5, <2>7 DEF Reaches
<1> QED
  BY <1>6, <1>7

\* A segment reaches from its start rounded down to its end rounded up.
LEMMA ReachedRange ==
    ASSUME TypeOK, NEW n \in 1..Len(segments), ~AtTheTop(segments[n]), NEW a \in Nat,
           Reaches(n, a)
    PROVE  /\ ALIGN_PAGE_DOWN(segments[n].start) <= a
           /\ a < ALIGN_PAGE_UP(segments[n].end)
<1>1. segments[n].start \in Nat /\ segments[n].end \in Nat
      /\ segments[n].end <= AddressSpace - PageSize
  BY SegmentType, LoaderAssumption DEF AtTheTop
<1>2. ALIGN_PAGE_DOWN(segments[n].start) <= a
  BY <1>1, PageOrder DEF Reaches
<1>3. a < ALIGN_PAGE_UP(segments[n].end)
  BY <1>1, BelowRoundUp DEF Reaches
<1> QED
  BY <1>2, <1>3

\* Regions do not go away, and neither do their owners.
LEMMA OwnersStay ==
    ASSUME UNCHANGED <<segments, regions, i>>, OwnerInv, pc' = "load" => pc = "load",
           i \in Nat
    PROVE  OwnerInv'
<1>1. (IF pc' = "load" THEN i ELSE i - 1) <= (IF pc = "load" THEN i ELSE i - 1)
  OBVIOUS
<1>2. 1..(IF pc' = "load" THEN i ELSE i - 1) \subseteq 1..(IF pc = "load" THEN i ELSE i - 1)
  BY <1>1
<1>3. PagesMapped'
  BY <1>2 DEF OwnerInv, PagesMapped, Reaches, Mapped, Skipped, AtTheTop
<1>4. FirstOwnsPage'
  BY DEF OwnerInv, FirstOwnsPage, Reaches, Skipped, AtTheTop
<1> QED
  BY <1>3, <1>4 DEF OwnerInv

\* A part of the segment is mapped, or the segment needs none.
LEMMA MapKeepsOwners ==
    ASSUME IInv, OwnerInv, pc = "map", UNCHANGED <<segments, i>>,
           NEW from \in Nat, NEW to \in Nat,
           segments[i].start <= from, to <= segments[i].end, MapSegment(from, to),
           ~AtTheTop(segments[i]) =>
               \A a \in Nat : Reaches(i, a) =>
                   Mapped(a) \/ (ALIGN_PAGE_DOWN(from) <= a /\ a < ALIGN_PAGE_UP(to))
    PROVE  OwnerInv'
<1> DEFINE lo == ALIGN_PAGE_DOWN(from)
           hi == ALIGN_PAGE_UP(to)
           new == [begin |-> lo, end |-> hi, owner |-> i]
<1>1. TypeOK /\ i \in 1..Len(segments) /\ i \in Nat
  BY DEF IInv, TypeOK
<1>2. lo \in Nat /\ hi \in Nat
  <2>1. to < AddressSpace
    BY <1>1, SegmentType, LoaderAssumption
  <2> QED BY <2>1, RoundDown, RoundUpType
<1>3. \A a \in Nat : lo <= a /\ a < hi => Reaches(i, a)
  BY <1>1, PartIsReached
<1>4. \/ ~(lo < hi) /\ pc' = "load" /\ regions' = regions
      \/ lo < hi /\ ~Overlaps(lo, hi) /\ pc' = "load" /\ regions' = regions \cup {new}
      \/ pc' = "failed" /\ regions' = regions
  BY MapSegmentCases
<1>5. new.begin = lo /\ new.end = hi /\ new.owner = i
  OBVIOUS
<1>6. \A r \in regions : r.begin \in Nat /\ r.end \in Nat
  BY <1>1, RegionType
<1> HIDE DEF lo, hi, new
<1>7. \A n, a : Reaches(n, a)' = Reaches(n, a)
  BY DEF Reaches
<1>8. CASE pc' = "failed" /\ regions' = regions
  BY <1>1, <1>8, OwnersStay
<1>9. ASSUME pc' = "load", regions \subseteq regions',
             \A a \in Nat : lo <= a /\ a < hi => \E r \in regions' : r.begin <= a /\ a < r.end,
             \A r \in regions' :
                 r \in regions \/ (r = new /\ ~Overlaps(lo, hi))
      PROVE  OwnerInv'
  <2>1. PagesMapped'
    <3>1. SUFFICES ASSUME NEW n \in 1..i, ~Skipped(segments[n]), ~AtTheTop(segments[n]),
                          NEW a \in Nat, Reaches(n, a)
                   PROVE  \E r \in regions' : r.begin <= a /\ a < r.end
      BY <1>7, <1>9 DEF PagesMapped, Skipped, AtTheTop, Mapped
    <3>2. CASE n = i
      BY <1>9, <3>1, <3>2 DEF Mapped, lo, hi
    <3>3. CASE n # i
      <4>1. n \in 1..(i - 1)
        BY <1>1, <3>3
      <4>2. Mapped(a)
        BY <3>1, <4>1 DEF OwnerInv, PagesMapped
      <4> QED BY <1>9, <4>2 DEF Mapped
    <3> QED BY <3>2, <3>3
  <2>2. FirstOwnsPage'
    <3>1. SUFFICES ASSUME NEW r \in regions', NEW a \in r.begin..(r.end - 1)
                   PROVE  /\ Reaches(r.owner, a)
                          /\ \A n \in 1..(r.owner - 1) : \/ Skipped(segments[n])
                                                         \/ AtTheTop(segments[n])
                                                         \/ ~Reaches(n, a)
      BY <1>7 DEF FirstOwnsPage, Skipped, AtTheTop
    <3>2. CASE r \in regions
      BY <3>2 DEF OwnerInv, FirstOwnsPage
    <3>3. CASE r = new /\ ~Overlaps(lo, hi)
      <4>1. a \in Nat /\ lo <= a /\ a < hi
        BY <1>2, <1>5, <3>3
      <4>2. Reaches(i, a)
        BY <1>3, <4>1
      <4>3. ~Mapped(a)
        BY <1>2, <1>6, <3>3, <4>1 DEF Overlaps, Mapped
      <4>4. \A n \in 1..(i - 1) : \/ Skipped(segments[n])
                                  \/ AtTheTop(segments[n])
                                  \/ ~Reaches(n, a)
        BY <4>1, <4>3 DEF OwnerInv, PagesMapped
      <4> QED BY <1>5, <3>3, <4>2, <4>4
    <3> QED BY <1>9, <3>2, <3>3
  <2> QED BY <2>1, <2>2 DEF OwnerInv
<1>10. CASE ~(lo < hi) /\ pc' = "load" /\ regions' = regions
  BY <1>2, <1>9, <1>10
<1>11. CASE lo < hi /\ ~Overlaps(lo, hi) /\ pc' = "load" /\ regions' = regions \cup {new}
  <2>1. new \in regions'
    BY <1>11
  <2> QED BY <1>5, <1>9, <1>11, <2>1
<1> QED
  BY <1>4, <1>8, <1>10, <1>11

\* The step that maps a segment: what it does not map of its pages, the region
\* it is clipped against has.
LEMMA SegmentKeepsOwners ==
    ASSUME IInv, OwnerInv, MapSegmentOf
    PROVE  OwnerInv'
<1> DEFINE s == segments[i]
<1>1. pc = "map" /\ UNCHANGED <<segments, i>> /\ TypeOK /\ i \in 1..Len(segments)
  BY DEF IInv, TypeOK, MapSegmentOf
<1>2. s.start \in Nat /\ s.end \in Nat /\ s.start <= s.end /\ s.end < AddressSpace
  BY <1>1, SegmentType
<1>3. ~AtTheTop(s) => s.end <= AddressSpace - PageSize
  BY <1>2, LoaderAssumption DEF AtTheTop
<1>4. ASSUME NEW r \in regions
      PROVE  /\ r.begin \in Nat /\ r.end \in Nat
             /\ r.begin % PageSize = 0 /\ r.end % PageSize = 0
             /\ r.begin <= s.start => r.begin <= ALIGN_PAGE_DOWN(s.start)
             /\ ~AtTheTop(s) /\ s.end <= r.end => ALIGN_PAGE_UP(s.end) <= r.end
             /\ ALIGN_PAGE_DOWN(r.end) = r.end
  <2>1. r.begin \in Nat /\ r.end \in Nat /\ r.begin % PageSize = 0 /\ r.end % PageSize = 0
    BY <1>1, RegionType DEF IInv, PagesOnly
  <2>2. ALIGN_PAGE_DOWN(r.end) = r.end
    BY <2>1, RoundBoundary
  <2> QED BY <1>2, <1>3, <2>1, <2>2, WithinBoundaries
<1> DEFINE lo == ALIGN_PAGE_DOWN(s.start)
           hi == ALIGN_PAGE_UP(s.end)
<1>5. lo \in Nat /\ hi \in Nat
  BY <1>2, RoundDown, RoundUpType
<1>6. ASSUME ~AtTheTop(s), NEW a \in Nat, Reaches(i, a)
      PROVE  lo <= a /\ a < hi
  BY <1>1, <1>6, ReachedRange
<1> HIDE DEF lo, hi
<1>7. ASSUME NEW r \in regions, Inside(s, r), pc' = "load", regions' = regions
      PROVE  OwnerInv'
  <2>1. ASSUME ~AtTheTop(s), NEW a \in Nat, Reaches(i, a) PROVE Mapped(a)
    <3>1. r.begin <= lo /\ hi <= r.end
      BY <1>2, <1>4, <1>7, <2>1 DEF Inside, lo, hi
    <3> QED BY <1>4, <1>5, <1>6, <2>1, <3>1 DEF Mapped
  <2>2. PagesMapped'
    <3>1. SUFFICES ASSUME NEW n \in 1..i, ~Skipped(segments[n]), ~AtTheTop(segments[n]),
                          NEW a \in Nat, Reaches(n, a)
                   PROVE  Mapped(a)
      BY <1>1, <1>7 DEF PagesMapped, Skipped, AtTheTop, Mapped, Reaches
    <3>2. CASE n = i
      BY <2>1, <3>1, <3>2
    <3>3. CASE n # i
      <4>1. n \in 1..(i - 1)
        BY <1>1, <3>3
      <4> QED BY <1>1, <3>1, <4>1 DEF OwnerInv, PagesMapped
    <3> QED BY <3>2, <3>3
  <2>3. FirstOwnsPage'
    BY <1>1, <1>7 DEF OwnerInv, FirstOwnsPage, Skipped, AtTheTop, Reaches
  <2> QED BY <2>2, <2>3 DEF OwnerInv
<1>8. ASSUME NEW r \in regions, StartsIn(s, r), MapSegment(r.end, s.end)
      PROVE  OwnerInv'
  <2>1. r.begin <= s.start /\ s.start <= r.end
    BY <1>2, <1>4, <1>8 DEF StartsIn
  <2>2. ASSUME ~AtTheTop(s), NEW a \in Nat, Reaches(i, a)
        PROVE  Mapped(a) \/ (ALIGN_PAGE_DOWN(r.end) <= a /\ a < ALIGN_PAGE_UP(s.end))
    <3>1. r.begin <= lo
      BY <1>4, <2>1 DEF lo
    <3>2. lo <= a /\ a < hi
      BY <1>6, <2>2
    <3>3. CASE a < r.end
      BY <1>4, <1>5, <3>1, <3>2, <3>3 DEF Mapped
    <3>4. CASE r.end <= a
      BY <1>4, <3>2, <3>4 DEF hi
    <3> QED BY <1>4, <3>3, <3>4
  <2>3. s.end <= s.end
    BY <1>2
  <2> QED BY <1>1, <1>2, <1>4, <1>8, <2>1, <2>2, <2>3, MapKeepsOwners
<1>9. ASSUME NEW r \in regions, EndsIn(s, r), ~StartsIn(s, r), MapSegment(s.start, r.begin)
      PROVE  OwnerInv'
  <2>1. r.begin <= s.end /\ s.end < r.end
    BY <1>9 DEF EndsIn
  <2>2. ASSUME ~AtTheTop(s), NEW a \in Nat, Reaches(i, a)
        PROVE  Mapped(a) \/ (ALIGN_PAGE_DOWN(s.start) <= a /\ a < ALIGN_PAGE_UP(r.begin))
    <3>1. hi <= r.end
      BY <1>2, <1>4, <2>1, <2>2 DEF hi
    <3>2. lo <= a /\ a < hi
      BY <1>6, <2>2
    <3>3. CASE a < r.begin
      <4>1. r.begin <= AddressSpace - PageSize
        BY <1>2, <1>3, <1>4, <2>1, <2>2, LoaderAssumption
      <4>2. r.begin <= ALIGN_PAGE_UP(r.begin) /\ ALIGN_PAGE_UP(r.begin) \in Nat
        BY <1>4, <4>1, RoundUp
      <4> QED BY <1>4, <3>2, <3>3, <4>2 DEF lo
    <3>4. CASE r.begin <= a
      BY <1>4, <1>5, <3>1, <3>2, <3>4 DEF Mapped
    <3> QED BY <1>4, <3>3, <3>4
  <2>3. s.start <= s.start
    BY <1>2
  <2> QED BY <1>1, <1>2, <1>4, <1>9, <2>1, <2>2, <2>3, MapKeepsOwners
<1>10. ASSUME MapSegment(s.start, s.end) PROVE OwnerInv'
  <2>1. s.start <= s.start /\ s.end <= s.end
    BY <1>2
  <2>2. ~AtTheTop(s) => \A a \in Nat : Reaches(i, a) =>
            Mapped(a) \/ (ALIGN_PAGE_DOWN(s.start) <= a /\ a < ALIGN_PAGE_UP(s.end))
    BY <1>6 DEF lo, hi
  <2> QED BY <1>1, <1>2, <1>10, <2>1, <2>2, MapKeepsOwners
<1> QED
  BY <1>7, <1>8, <1>9, <1>10 DEF MapSegmentOf, MapAgainst, NotFound

LEMMA NextKeepsOwners ==
    ASSUME IInv, OwnerInv, [Next]_vars
    PROVE  OwnerInv'
<1>1. ASSUME Continue(i), pc \in {"map", "load"}, UNCHANGED <<segments, regions>>,
             pc = "map" => Skipped(segments[i])
      PROVE  OwnerInv'
  <2>1. i' = i + 1 /\ pc' # "load" /\ i \in Nat
    BY <1>1 DEF Continue, IInv, TypeOK
  <2>2. FirstOwnsPage'
    BY <1>1 DEF OwnerInv, FirstOwnsPage, Skipped, AtTheTop, Reaches
  <2>3. PagesMapped'
    <3>1. SUFFICES ASSUME NEW n \in 1..i, ~Skipped(segments[n]), ~AtTheTop(segments[n]),
                          NEW a \in Nat, Reaches(n, a)
                   PROVE  Mapped(a)
      BY <1>1, <2>1 DEF PagesMapped, Skipped, AtTheTop, Mapped, Reaches
    <3>2. n \in 1..(IF pc = "load" THEN i ELSE i - 1)
      BY <1>1, <2>1, <3>1
    <3> QED BY <3>1, <3>2 DEF OwnerInv, PagesMapped
  <2> QED BY <2>2, <2>3 DEF OwnerInv
<1>2. CASE SkipSegment
  BY <1>1, <1>2 DEF SkipSegment
<1>3. CASE MapSegmentOf
  BY <1>3, SegmentKeepsOwners
<1>4. CASE \E has_content \in BOOLEAN : LoadContent(has_content)
  <2>1. PICK has_content \in BOOLEAN : LoadContent(has_content)
    BY <1>4
  <2>2. CASE has_content /\ ~AllMapped(segments[i])
    <3>1. UNCHANGED <<segments, regions, i>> /\ pc = "load" /\ pc' = "failed" /\ i \in Nat
      BY <2>1, <2>2 DEF LoadContent, IInv, TypeOK
    <3> QED BY <3>1, OwnersStay
  <2>3. CASE ~(has_content /\ ~AllMapped(segments[i]))
    BY <1>1, <2>1, <2>3 DEF LoadContent
  <2> QED BY <2>2, <2>3
<1>5. CASE Finished \/ UNCHANGED vars
  BY <1>5, OwnersStay DEF Finished, vars, IInv, TypeOK
<1> QED
  BY <1>2, <1>3, <1>4, <1>5 DEF Next

\* A page belongs to the first segment that reached into it, whatever the dump:
\* a later one is clipped, or the loader exits.
THEOREM FirstSegmentOwnsPage == Spec => []FirstOwnsPage
<1>1. Init => OwnerInv
  BY DEF Init, OwnerInv, PagesMapped, FirstOwnsPage
<1>2. IInv /\ OwnerInv /\ [Next]_vars => OwnerInv'
  BY NextKeepsOwners
<1>3. OwnerInv => FirstOwnsPage
  BY DEF OwnerInv
<1> QED
  BY <1>1, <1>2, <1>3, Invariance, PTL DEF Spec

=============================================================================

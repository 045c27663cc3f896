-------------------------- MODULE SyncFuzzersProofs --------------------------
(***************************************************************************)
(* Proofs about SyncFuzzers, for any number of fuzzers, finds, trims,      *)
(* stops and kills: the types, that what was once complete in a queue      *)
(* survives (QueueSurvives), and that nothing is passed over without a     *)
(* trace of it (PassedIsKept).                                             *)
(*                                                                         *)
(* The argument.  Holds(f) is what f can still show of the test cases it   *)
(* had.  No step makes it smaller: what a step takes from one place it has *)
(* put into another before, even when the step is the end of the process.  *)
(* Of the two copies that a resume keeps one is complete (Linked, Copied); *)
(* when that one goes, what an aborted nuke_resume_dir had unlinked of the *)
(* other is in lost.                                                       *)
(* Hence what was saved once is held, and so is what lies below a          *)
(* position, as long as the owner of the queue keeps its ids.  An import   *)
(* in progress (Importing) carries that from the old position to the new   *)
(* one: what it has counted is held, known and about to be written, or     *)
(* still in its list; when it writes the position the list is empty and    *)
(* nothing is waiting to be written.  A step of one fuzzer changes only    *)
(* what belongs to it (OthersStay), so that the invariant is shown for the *)
(* fuzzer that moves, and the others only need that the queues they read   *)
(* grow at the end (FilesKeep).                                            *)
(***************************************************************************)
EXTENDS SyncFuzzers, FiniteSetTheorems, SequenceTheorems, TLAPS

\* The complete files of f, by their test cases.
FullFinds(f) ==
    {files[f][i].find : i \in {j \in DOMAIN files[f] : files[f][j].on = "full"}}

\* What f can show: what is complete, what is being trimmed, what is lost in a
\* known window, and the earlier queue that a resume moves back.  The input
\* directory of a first session does not count: a kill makes it vanish.
Holds(f) ==
    FullFinds(f) \cup Trimming(f) \cup lost[f]
        \cup (IF f \in resumed THEN FindsOf(resume_dir[f]) ELSE {})

\* The find whose file has been created and not written.
Pending(f) ==
    IF pc[f] \in {"created", "keep"} THEN {files[f][Len(files[f])].find} ELSE {}

\* A fuzzer without a directory.
Absent(f) ==
    f \notin started =>
        pc[f] = "off" /\ files[f] = <<>> /\ resume_dir[f] = <<>> /\ f \notin resumed

\* While files are moved the queue is the beginning of _resume/, and complete.
Linked(f) ==
    /\ Len(files[f]) <= Len(resume_dir[f])
    /\ \A i \in 1..Len(files[f]) : /\ files[f][i].on = "full"
                                   /\ files[f][i].find = resume_dir[f][i].find

\* Otherwise the queue beside a _resume/ is what has been linked from it, and
\* _resume/ has all of that but for what nuke_resume_dir has unlinked.
Copied(f) ==
    \A i \in DOMAIN files[f] :
        files[f][i].find \in FindsOf(resume_dir[f]) \cup removed[f]

\* While _resume/ is there; a process that has ended leaves it behind only if
\* it was a resumed one.  What nuke_resume_dir unlinks is in the queue.
Moving(f) ==
    resume_dir[f] # <<>> =>
        /\ pc[f] \in {"off", "clear", "pivot", "nuke"}
        /\ pc[f] = "pivot" => Linked(f)
        /\ pc[f] # "pivot" => f \in resumed /\ Copied(f)
        /\ pc[f] = "nuke" => FindsOf(resume_dir[f]) \subseteq FullFinds(f)

\* The variables that belong to a point of the program.
AtPoint(f) ==
    /\ edited[f] # 0 <=> pc[f] \in {"unlinked", "truncated"}
    /\ pc[f] \in {"created", "keep"} => files[f] # <<>>
    /\ pc[f] \in {"clear", "pivot"} => resume_dir[f] # <<>>
    /\ pc[f] = "nuke" => \A i \in DOMAIN files[f] : files[f][i].on = "full"
    /\ pc[f] \in {"demote", "scan", "import", "keep"} => call[f].party \in Fuzzers

\* What was complete, and what virgin_bits knows, is held.
Keeping(f) ==
    /\ saved[f] \subseteq Holds(f)
    /\ seen[f] \subseteq Holds(f) \cup Pending(f)

Local(f) == Absent(f) /\ Moving(f) /\ AtPoint(f) /\ Keeping(f)

\* What lies below a position is held.
Passed(f) ==
    \A g \in Fuzzers : g \notin resumed =>
        \A i \in 1..position[f][g] :
            i \in DOMAIN files[g] /\ files[g][i].find \in Holds(f)

\* The same for the position that the import in progress will write, but for
\* what is known and not written yet, and for what is still in the list.
Importing(f) ==
    pc[f] \in {"import", "keep"} /\ call[f].party \notin resumed =>
        \A i \in 1..(call[f].next + Len(call[f].list)) :
            /\ i \in DOMAIN files[call[f].party]
            /\ files[call[f].party][i].find
                  \in Holds(f) \cup seen[f] \cup FindsOf(call[f].list)

IInv ==
    /\ TypeOK
    /\ \A f \in Fuzzers : Local(f) /\ Passed(f) /\ Importing(f)

----------------------------------------------------------------------------
(***************************************************************************)
(* Sorted enumerates a set, and Fulls the complete files.                  *)
(***************************************************************************)

\* The rank of a member is a number up to the cardinality, and no two members
\* have the same rank.
LEMMA Ranks ==
    ASSUME NEW S \in SUBSET Nat, IsFiniteSet(S)
    PROVE  /\ \A i \in S : Cardinality({j \in S : j <= i}) \in 1..Cardinality(S)
           /\ \A i, j \in S :
                 Cardinality({k \in S : k <= i}) = Cardinality({k \in S : k <= j}) => i = j
<1> DEFINE Below(i) == {j \in S : j <= i}
           n == Cardinality(S)
<1>1. n \in Nat
  BY FS_CardinalityType
<1>2. ASSUME NEW i \in S PROVE IsFiniteSet(Below(i)) /\ Cardinality(Below(i)) \in 1..n
  <2>1. Below(i) \in SUBSET S /\ i \in Below(i)
    OBVIOUS
  <2>2. IsFiniteSet(Below(i)) /\ Cardinality(Below(i)) <= n
    BY <2>1, FS_Subset
  <2>3. Cardinality(Below(i)) \in Nat /\ Cardinality(Below(i)) # 0
    BY <2>1, <2>2, FS_EmptySet, FS_CardinalityType
  <2> HIDE DEF Below, n
  <2> QED BY <1>1, <2>2, <2>3
<1>3. ASSUME NEW i \in S, NEW j \in S, i < j
      PROVE  Cardinality(Below(i)) # Cardinality(Below(j))
  <2>1. \A k \in S : k \in Nat /\ (k <= i => k <= j)
    BY <1>3
  <2>2. Below(i) \in SUBSET Below(j)
    BY <2>1
  <2>3. j \in Below(j) /\ j \notin Below(i)
    BY <1>3, <2>1
  <2> HIDE DEF Below
  <2> QED BY <1>2, <2>2, <2>3, FS_Subset
<1>4. \A i, j \in S : Cardinality(Below(i)) = Cardinality(Below(j)) => i = j
  <2>1. \A i, j \in S : i < j \/ j < i \/ i = j
    OBVIOUS
  <2> HIDE DEF Below
  <2> QED BY <1>3, <2>1
<1> QED BY <1>2, <1>4

\* So Sorted has every member, and members only: as many numbers as members.
LEMMA SortedEnumerates ==
    ASSUME NEW S \in SUBSET Nat, IsFiniteSet(S)
    PROVE  /\ Cardinality(S) \in Nat
           /\ \A k \in 1..Cardinality(S) : Sorted(S)[k] \in S
           /\ \A i \in S : \E k \in 1..Cardinality(S) : Sorted(S)[k] = i
<1> DEFINE Rank(i) == Cardinality({j \in S : j <= i})
           rank == [i \in S |-> Rank(i)]
           n == Cardinality(S)
<1>1. n \in Nat
  BY FS_CardinalityType
<1>2. /\ \A i \in S : Rank(i) \in 1..n
      /\ \A i, j \in S : Rank(i) = Rank(j) => i = j
  BY Ranks
<1>3. rank \in Injection(S, 1..n)
  <2> HIDE DEF Rank, n
  <2> QED BY <1>2 DEF Injection, IsInjective
<1>4. IsFiniteSet(1..n) /\ Cardinality(1..n) = n
  <2> HIDE DEF n
  <2> QED BY <1>1, FS_Interval
<1>5. rank \in Surjection(S, 1..n)
  <2> HIDE DEF rank
  <2> QED BY <1>3, <1>4, FS_Injection
<1>6. \A k \in 1..n : \E i \in S : Rank(i) = k
  <2>1. \A k \in 1..n : \E i \in S : rank[i] = k
    <3> HIDE DEF rank
    <3> QED BY <1>5 DEF Surjection
  <2> HIDE DEF Rank, n
  <2> QED BY <2>1
<1>7. \A k \in 1..n : Sorted(S)[k] = CHOOSE i \in S : Rank(i) = k
  BY DEF Sorted
<1>8. \A k \in 1..n : Sorted(S)[k] \in S /\ Rank(Sorted(S)[k]) = k
  <2> HIDE DEF Rank, n
  <2> QED BY <1>6, <1>7
<1>9. \A i \in S : Sorted(S)[Rank(i)] = i
  <2> HIDE DEF Rank, n
  <2> QED BY <1>2, <1>8
<1> HIDE DEF Rank
<1> QED BY <1>1, <1>2, <1>8, <1>9

\* The entries of a queue that satisfy a condition are a finite set of numbers.
LEMMA IndexSet ==
    ASSUME TypeOK, NEW f \in Fuzzers, NEW S \in SUBSET DOMAIN files[f]
    PROVE  S \in SUBSET Nat /\ IsFiniteSet(S) /\ Cardinality(S) \in Nat
<1>1. files[f] \in Seq(QueueFile)
  BY DEF TypeOK
<1>2. DOMAIN files[f] = 1..Len(files[f]) /\ Len(files[f]) \in Nat
  BY <1>1
<1>3. IsFiniteSet(1..Len(files[f]))
  BY <1>2, FS_Interval
<1>4. S \in SUBSET (1..Len(files[f]))
  BY <1>2
<1>5. IsFiniteSet(S)
  BY <1>3, <1>4, FS_Subset
<1> QED
  BY <1>4, <1>5, FS_CardinalityType

LEMMA FullsFinds ==
    ASSUME TypeOK, NEW f \in Fuzzers
    PROVE  Fulls(f) \in Seq(QueueFile) /\ FindsOf(Fulls(f)) = FullFinds(f)
<1> DEFINE S == FullIds(f)
           n == Cardinality(S)
<1>1. S \in SUBSET Nat /\ IsFiniteSet(S) /\ n \in Nat
  BY IndexSet DEF FullIds
<1>2. /\ \A k \in 1..n : Sorted(S)[k] \in S
      /\ \A i \in S : \E k \in 1..n : Sorted(S)[k] = i
  BY <1>1, SortedEnumerates
<1>3. files[f] \in Seq(QueueFile) /\ S \subseteq 1..Len(files[f])
  BY DEF TypeOK, FullIds
<1>4. Fulls(f) = [k \in 1..n |-> files[f][Sorted(S)[k]]]
  BY DEF Fulls
<1>5. FullFinds(f) = {files[f][i].find : i \in S}
  BY DEF FullFinds, FullIds
<1> HIDE DEF S, n
<1>6. \A i \in S : files[f][i] \in QueueFile
  BY <1>3
<1>7. \A k \in 1..n : files[f][Sorted(S)[k]] \in QueueFile
  BY <1>2, <1>6
<1>8. Fulls(f) \in [1..n -> QueueFile]
  BY <1>4, <1>7
<1>9. Fulls(f) \in Seq(QueueFile)
  BY <1>1, <1>8, SeqDef
<1>10. FindsOf(Fulls(f)) = {files[f][Sorted(S)[k]].find : k \in 1..n}
  BY <1>4 DEF FindsOf
<1>11. {files[f][Sorted(S)[k]].find : k \in 1..n} = {files[f][i].find : i \in S}
  BY <1>2
<1> QED
  BY <1>5, <1>9, <1>10, <1>11

\* Reversing keeps length and members.
LEMMA Reversed ==
    ASSUME NEW T, NEW s \in Seq(T)
    PROVE  /\ Reverse(s) \in Seq(T)
           /\ \A i \in DOMAIN Reverse(s) : \E k \in DOMAIN s : Reverse(s)[i] = s[k]
           /\ \A k \in DOMAIN s : \E i \in DOMAIN Reverse(s) : Reverse(s)[i] = s[k]
<1> DEFINE n == Len(s)
<1>1. n \in Nat /\ DOMAIN s = 1..n
  OBVIOUS
<1>2. Reverse(s) = [i \in 1..n |-> s[(n - i) + 1]]
  BY DEF Reverse
<1> HIDE DEF n
<1>3. \A i \in 1..n : (n - i) + 1 \in 1..n /\ Reverse(s)[i] = s[(n - i) + 1]
  BY <1>1, <1>2
<1>4. \A k \in 1..n : (n - k) + 1 \in 1..n /\ Reverse(s)[(n - k) + 1] = s[k]
  <2> SUFFICES ASSUME NEW k \in 1..n
               PROVE  (n - k) + 1 \in 1..n /\ Reverse(s)[(n - k) + 1] = s[k]
    OBVIOUS
  <2>1. (n - k) + 1 \in 1..n /\ (n - ((n - k) + 1)) + 1 = k
    BY <1>1
  <2>2. Reverse(s)[(n - k) + 1] = s[(n - ((n - k) + 1)) + 1]
    BY <1>3, <2>1
  <2> QED BY <2>1, <2>2
<1>5. Reverse(s) \in [1..n -> T]
  BY <1>1, <1>2, <1>3
<1>6. Reverse(s) \in Seq(T) /\ DOMAIN Reverse(s) = 1..n
  BY <1>1, <1>2, <1>5, SeqDef
<1> QED
  BY <1>1, <1>3, <1>4, <1>6

\* A resume finds all of the complete files.
LEMMA OldQueueFinds ==
    ASSUME TypeOK, NEW f \in Fuzzers
    PROVE  OldQueue(f) \in Seq(InputFile) /\ FindsOf(OldQueue(f)) = FullFinds(f)
<1> DEFINE S == FullIds(f)
           n == Cardinality(S)
           Old(i) == [find |-> files[f][i].find, id |-> i, name |-> files[f][i].name]
           s == [k \in 1..n |-> Old(Sorted(S)[k])]
<1>1. S \in SUBSET Nat /\ IsFiniteSet(S) /\ n \in Nat
  BY IndexSet DEF FullIds
<1>2. /\ \A k \in 1..n : Sorted(S)[k] \in S
      /\ \A i \in S : \E k \in 1..n : Sorted(S)[k] = i
  BY <1>1, SortedEnumerates
<1>3. \A i \in S : Old(i) \in InputFile /\ Old(i).find = files[f][i].find
  <2> SUFFICES ASSUME NEW i \in S PROVE Old(i) \in InputFile
    OBVIOUS
  <2>1. files[f] \in Seq(QueueFile) /\ i \in DOMAIN files[f] /\ i \in Nat
    BY <1>1 DEF TypeOK, FullIds
  <2>2. files[f][i] \in QueueFile
    BY <2>1
  <2>3. files[f][i].find \in Contents /\ files[f][i].name \in Nat
    BY <2>2 DEF QueueFile
  <2> QED BY <2>1, <2>3 DEF InputFile
<1>4. DOMAIN Sorted(S) = 1..n
  BY DEF Sorted
<1>5. OldQueue(f) = Reverse(s)
  BY <1>4 DEF OldQueue
<1>6. FullFinds(f) = {files[f][i].find : i \in S}
  BY DEF FullFinds, FullIds
<1> HIDE DEF S, n, Old
<1>7. s \in [1..n -> InputFile]
  BY <1>2, <1>3
<1>8. s \in Seq(InputFile) /\ DOMAIN s = 1..n
  BY <1>1, <1>7, SeqDef
<1>9. \A k \in 1..n : s[k].find = files[f][Sorted(S)[k]].find
  BY <1>2, <1>3
<1> HIDE DEF s
<1>10. OldQueue(f) \in Seq(InputFile)
  BY <1>5, <1>8, Reversed
<1>11. /\ \A i \in DOMAIN Reverse(s) : \E k \in DOMAIN s : Reverse(s)[i] = s[k]
       /\ \A k \in DOMAIN s : \E i \in DOMAIN Reverse(s) : Reverse(s)[i] = s[k]
  <2>1. s \in Seq(InputFile)
    BY <1>8
  <2> QED BY ONLY <2>1, Reversed
<1>12. \A i \in DOMAIN OldQueue(f) : \E k \in 1..n : OldQueue(f)[i] = s[k]
  BY <1>5, <1>8, <1>11
<1>13. \A k \in 1..n : \E i \in DOMAIN OldQueue(f) : OldQueue(f)[i] = s[k]
  BY <1>5, <1>8, <1>11
<1>14. FindsOf(OldQueue(f)) \subseteq FullFinds(f)
  BY <1>2, <1>6, <1>9, <1>12 DEF FindsOf
<1>15. FullFinds(f) \subseteq FindsOf(OldQueue(f))
  <2> SUFFICES ASSUME NEW i \in S PROVE files[f][i].find \in FindsOf(OldQueue(f))
    BY <1>6
  <2>1. PICK k \in 1..n : Sorted(S)[k] = i
    BY <1>2
  <2>2. PICK j \in DOMAIN OldQueue(f) : OldQueue(f)[j] = s[k]
    BY <1>13
  <2> QED BY <1>9, <2>1, <2>2 DEF FindsOf
<1> QED
  BY <1>10, <1>14, <1>15

\* One file of _resume/ is unlinked.
LEMMA RemovedFile ==
    ASSUME NEW s \in Seq(InputFile), NEW i \in DOMAIN s
    PROVE  /\ RemoveAt(s, i) \in Seq(InputFile)
           /\ FindsOf(RemoveAt(s, i)) \subseteq FindsOf(s)
           /\ FindsOf(s) \subseteq FindsOf(RemoveAt(s, i)) \cup {s[i].find}
<1> DEFINE n == Len(s)
           t == RemoveAt(s, i)
<1>1. n \in Nat /\ DOMAIN s = 1..n /\ i \in 1..n
  OBVIOUS
<1>2. t = SubSeq(s, 1, i - 1) \o SubSeq(s, i + 1, n)
  BY DEF RemoveAt
<1> DEFINE a == SubSeq(s, 1, i - 1)
           b == SubSeq(s, i + 1, n)
<1>3. /\ a \in Seq(InputFile) /\ Len(a) = i - 1
      /\ \A k \in 1..(i - 1) : a[k] = s[k]
  BY <1>1
<1>4. /\ b \in Seq(InputFile) /\ Len(b) = n - i
      /\ \A k \in 1..(n - i) : b[k] = s[i + k]
  BY <1>1
<1>5. t = a \o b
  BY <1>2
<1> HIDE DEF t, a, b, n
<1>6. t \in Seq(InputFile) /\ Len(t) = n - 1
  <2>1. t \in Seq(InputFile) /\ Len(t) = Len(a) + Len(b)
    BY <1>3, <1>4, <1>5, ConcatProperties
  <2>2. (i - 1) + (n - i) = n - 1
    BY <1>1
  <2> QED BY <1>3, <1>4, <2>1, <2>2
<1>7. /\ \A k \in 1..(i - 1) : t[k] = s[k]
      /\ \A k \in i..(n - 1) : t[k] = s[k + 1]
  <2>1. \A k \in 1..(i - 1) : t[k] = a[k]
    BY <1>1, <1>3, <1>4, <1>5
  <2>2. \A k \in i..(n - 1) : t[k] = b[k - (i - 1)]
    BY <1>1, <1>3, <1>4, <1>5
  <2>3. \A k \in i..(n - 1) : k - (i - 1) \in 1..(n - i) /\ i + (k - (i - 1)) = k + 1
    BY <1>1
  <2> QED BY <1>3, <1>4, <2>1, <2>2, <2>3
<1>8. DOMAIN t = 1..(n - 1)
  BY <1>6
<1>9. FindsOf(t) \subseteq FindsOf(s)
  <2> SUFFICES ASSUME NEW k \in 1..(n - 1) PROVE \E j \in 1..n : t[k] = s[j]
    BY <1>1, <1>8 DEF FindsOf
  <2>1. CASE k \in 1..(i - 1)
    BY <1>1, <1>7, <2>1
  <2>2. CASE k \in i..(n - 1)
    BY <1>1, <1>7, <2>2
  <2> QED BY <1>1, <2>1, <2>2
<1>10. FindsOf(s) \subseteq FindsOf(t) \cup {s[i].find}
  <2> SUFFICES ASSUME NEW j \in 1..n, j # i PROVE \E k \in 1..(n - 1) : t[k] = s[j]
    BY <1>1, <1>8 DEF FindsOf
  <2>1. CASE j < i
    <3>1. j \in 1..(i - 1) /\ j \in 1..(n - 1)
      BY <1>1, <2>1
    <3> QED BY <1>7, <3>1
  <2>2. CASE j > i
    <3>1. j - 1 \in i..(n - 1) /\ j - 1 \in 1..(n - 1) /\ (j - 1) + 1 = j
      BY <1>1, <2>2
    <3> QED BY <1>7, <3>1
  <2> QED BY <1>1, <2>1, <2>2
<1> QED
  BY <1>6, <1>9, <1>10 DEF t

\* What scandir returns: no more entries than there are files after id, and
\* every file that is there.
LEMMA ListedFiles ==
    ASSUME TypeOK, NEW g \in Fuzzers, NEW id \in Nat
    PROVE  /\ Listed(g, id) \in Seq(Entry)
           /\ id <= Len(files[g]) => id + Len(Listed(g, id)) <= Len(files[g])
           /\ \A i \in DOMAIN files[g] : i > id /\ files[g][i].on # "gone" =>
                 files[g][i].find \in FindsOf(Listed(g, id))
<1> DEFINE S == {i \in DOMAIN files[g] : i > id /\ files[g][i].on # "gone"}
           n == Cardinality(S)
           Item(i) == [index |-> i, name |-> files[g][i].name, find |-> files[g][i].find]
<1>1. S \in SUBSET Nat /\ IsFiniteSet(S) /\ n \in Nat
  BY IndexSet
<1>2. /\ \A k \in 1..n : Sorted(S)[k] \in S
      /\ \A i \in S : \E k \in 1..n : Sorted(S)[k] = i
  BY <1>1, SortedEnumerates
<1>3. files[g] \in Seq(QueueFile) /\ Len(files[g]) \in Nat /\ DOMAIN files[g] = 1..Len(files[g])
  BY DEF TypeOK
<1>4. Listed(g, id) = [k \in 1..n |-> Item(Sorted(S)[k])]
  BY DEF Listed
<1>5. S \in SUBSET ((id + 1)..Len(files[g]))
  BY <1>3
<1>6. id <= Len(files[g]) => n <= Len(files[g]) - id
  <2> SUFFICES ASSUME id <= Len(files[g]) PROVE n <= Len(files[g]) - id
    OBVIOUS
  <2> DEFINE L == Len(files[g])
  <2>1. L \in Nat /\ id <= L /\ S \in SUBSET ((id + 1)..L)
    BY <1>3, <1>5
  <2> DEFINE lo == id + 1
  <2>2. lo \in Int /\ L \in Int /\ (lo > L \/ L - lo + 1 = L - id)
    BY <2>1
  <2> HIDE DEF L, S, lo
  <2>3. /\ IsFiniteSet(lo..L)
        /\ Cardinality(lo..L) = IF lo > L THEN 0 ELSE L - lo + 1
    BY <2>2, FS_Interval
  <2>4. Cardinality(lo..L) <= L - id
    BY <2>1, <2>2, <2>3
  <2>5. n <= Cardinality(lo..L)
    BY <2>1, <2>3, FS_Subset DEF lo
  <2>6. Cardinality(lo..L) \in Nat
    BY <2>3, FS_CardinalityType
  <2> HIDE DEF n
  <2>7. n <= L - id
    BY <1>1, <2>1, <2>4, <2>5, <2>6
  <2> QED BY <2>7 DEF L
<1>7. \A i \in S : Item(i) \in Entry
  <2> SUFFICES ASSUME NEW i \in S PROVE Item(i) \in Entry
    OBVIOUS
  <2>1. i \in Nat /\ files[g][i] \in QueueFile
    BY <1>3
  <2>2. files[g][i].name \in Nat /\ files[g][i].find \in Contents
    BY <2>1 DEF QueueFile
  <2> QED BY <2>1, <2>2 DEF Entry
<1> HIDE DEF n
<1>8. Listed(g, id) \in [1..n -> Entry]
  <2> HIDE DEF S, Item
  <2> QED BY <1>2, <1>4, <1>7
<1>9. Listed(g, id) \in Seq(Entry) /\ Len(Listed(g, id)) = n
  BY <1>1, <1>8, SeqDef
<1>10. \A i \in S : files[g][i].find \in FindsOf(Listed(g, id))
  <2> SUFFICES ASSUME NEW i \in S PROVE files[g][i].find \in FindsOf(Listed(g, id))
    OBVIOUS
  <2>1. PICK k \in 1..n : Sorted(S)[k] = i
    BY <1>2
  <2>2. Listed(g, id)[k] = Item(i) /\ k \in DOMAIN Listed(g, id)
    BY <1>4, <2>1
  <2>3. Item(i).find = files[g][i].find
    OBVIOUS
  <2> QED BY <2>2, <2>3 DEF FindsOf
<1>11. id <= Len(files[g]) => id + Len(Listed(g, id)) <= Len(files[g])
  BY <1>1, <1>3, <1>6, <1>9
<1> QED
  BY <1>9, <1>10, <1>11

----------------------------------------------------------------------------
(***************************************************************************)
(* The steps of one fuzzer, and the sequences they change.                 *)
(***************************************************************************)

\* What a fuzzer does, or has done to it.
Act(f) ==
    \/ Step(f)
    \/ Start(f)
    \/ Resume(f)
    \/ \E t \in Finds : Discover(f, t)
    \/ \E i \in DOMAIN files[f] : StartTrim(f, i)
    \/ Stop(f)
    \/ Kill(f)

\* A new file at the end.
LEMMA AppendedFile ==
    ASSUME NEW s \in Seq(QueueFile), NEW q \in QueueFile
    PROVE  /\ Append(s, q) \in Seq(QueueFile)
           /\ Len(Append(s, q)) = Len(s) + 1 /\ Len(s) \in Nat
           /\ \A i \in 1..Len(s) : Append(s, q)[i] = s[i]
           /\ Append(s, q)[Len(s) + 1] = q
  OBVIOUS

\* A file is written, emptied or removed in its place.
LEMMA MarkedFile ==
    ASSUME NEW s \in Seq(QueueFile), NEW i \in 1..Len(s), NEW on \in {"full", "empty", "gone"},
           NEW t, t = [s EXCEPT ![i].on = on]
    PROVE  /\ t \in Seq(QueueFile)
           /\ Len(t) = Len(s) /\ Len(s) \in Nat
           /\ \A j \in 1..Len(s) : /\ t[j].find = s[j].find
                                   /\ j # i => t[j].on = s[j].on
           /\ t[i].on = on
<1> DEFINE q == [s[i] EXCEPT !.on = on]
<1>0. t = [s EXCEPT ![i] = q]
  OBVIOUS
<1>1. s[i] \in QueueFile
  OBVIOUS
<1>2. q \in QueueFile /\ q.find = s[i].find /\ q.on = on
  BY <1>1 DEF QueueFile
<1> HIDE DEF q
<1>3. t \in Seq(QueueFile) /\ Len(t) = Len(s) /\ Len(s) \in Nat
  BY <1>0, <1>2
<1>4. \A j \in 1..Len(s) : t[j] = IF j = i THEN q ELSE s[j]
  BY <1>0
<1>5. \A j \in 1..Len(s) : t[j].find = s[j].find /\ (j # i => t[j].on = s[j].on)
      /\ t[i].on = on
  BY <1>2, <1>4
<1> QED
  BY <1>3, <1>5

\* CreateFile touches the queue of f only, and gives it one more, empty, file.
LEMMA Created ==
    ASSUME TypeOK, NEW f \in Fuzzers, NEW t \in Contents, CreateFile(f, t)
    PROVE  /\ files' \in [Fuzzers -> Seq(QueueFile)]
           /\ seen' \in [Fuzzers -> SUBSET Contents]
           /\ \A h \in Fuzzers \ {f} : files'[h] = files[h] /\ seen'[h] = seen[h]
           /\ seen'[f] = seen[f] \cup {t}
           /\ Len(files'[f]) = Len(files[f]) + 1 /\ Len(files[f]) \in Nat
           /\ \A i \in 1..Len(files[f]) : files'[f][i] = files[f][i]
           /\ LET q == files'[f][Len(files[f]) + 1] IN q.find = t /\ q.on = "empty"
<1>1. files \in [Fuzzers -> Seq(QueueFile)] /\ seen \in [Fuzzers -> SUBSET Contents]
  BY DEF TypeOK
<1>2. File(t, "empty", 0) \in QueueFile /\ File(t, "empty", 0).find = t
      /\ File(t, "empty", 0).on = "empty"
  BY DEF File, QueueFile
<1>3. files'[f] = Append(files[f], File(t, "empty", 0))
      /\ files' = [files EXCEPT ![f] = Append(files[f], File(t, "empty", 0))]
  BY <1>1 DEF CreateFile
<1>4. seen' \in [Fuzzers -> SUBSET Contents] /\ seen'[f] = seen[f] \cup {t}
      /\ \A h \in Fuzzers \ {f} : seen'[h] = seen[h]
  BY <1>1 DEF CreateFile
<1>5. files[f] \in Seq(QueueFile)
  BY <1>1
<1>6. /\ files'[f] \in Seq(QueueFile)
      /\ Len(files'[f]) = Len(files[f]) + 1 /\ Len(files[f]) \in Nat
      /\ \A i \in 1..Len(files[f]) : files'[f][i] = files[f][i]
      /\ files'[f][Len(files[f]) + 1] = File(t, "empty", 0)
  BY <1>2, <1>3, <1>5, AppendedFile
<1>7. files' \in [Fuzzers -> Seq(QueueFile)] /\ \A h \in Fuzzers \ {f} : files'[h] = files[h]
  BY <1>1, <1>3, <1>6
<1> QED
  BY <1>2, <1>4, <1>6, <1>7

\* So do the steps that change the state of a file.
LEMMA Marked ==
    ASSUME TypeOK, NEW f \in Fuzzers, NEW i \in DOMAIN files[f],
           NEW on \in {"full", "empty", "gone"},
           files' = [files EXCEPT ![f][i].on = on]
    PROVE  /\ files' \in [Fuzzers -> Seq(QueueFile)]
           /\ \A h \in Fuzzers \ {f} : files'[h] = files[h]
           /\ Len(files'[f]) = Len(files[f]) /\ Len(files[f]) \in Nat
           /\ \A j \in 1..Len(files[f]) :
                 /\ files'[f][j].find = files[f][j].find
                 /\ j # i => files'[f][j].on = files[f][j].on
           /\ files'[f][i].on = on
<1> DEFINE t == [files[f] EXCEPT ![i].on = on]
<1>1. files \in [Fuzzers -> Seq(QueueFile)] /\ files[f] \in Seq(QueueFile)
      /\ i \in 1..Len(files[f])
  BY DEF TypeOK
<1>2. files' = [files EXCEPT ![f] = t]
  OBVIOUS
<1>3. files'[f] = t /\ \A h \in Fuzzers \ {f} : files'[h] = files[h]
      /\ t = [files[f] EXCEPT ![i].on = on]
  BY <1>1, <1>2
<1> HIDE DEF t
<1>4. /\ t \in Seq(QueueFile)
      /\ Len(t) = Len(files[f]) /\ Len(files[f]) \in Nat
      /\ \A j \in 1..Len(files[f]) : /\ t[j].find = files[f][j].find
                                     /\ j # i => t[j].on = files[f][j].on
      /\ t[i].on = on
  BY <1>1, <1>3, MarkedFile
<1>5. files' \in [Fuzzers -> Seq(QueueFile)]
  BY <1>1, <1>2, <1>4
<1> QED
  BY <1>3, <1>4, <1>5

\* A file that is linked to the queue.
LEMMA Pivoted ==
    ASSUME TypeOK, NEW f \in Fuzzers, Pivot(f)
    PROVE  /\ files' \in [Fuzzers -> Seq(QueueFile)]
           /\ \A h \in Fuzzers \ {f} : files'[h] = files[h]
           /\ Len(files'[f]) = Len(files[f]) + 1 /\ Len(files[f]) \in Nat
           /\ \A i \in 1..Len(files[f]) : files'[f][i] = files[f][i]
           /\ Len(files[f]) + 1 \in DOMAIN resume_dir[f]
           /\ LET q == files'[f][Len(files[f]) + 1]
              IN  q.find = resume_dir[f][Len(files[f]) + 1].find /\ q.on = "full"
           /\ resume_dir[f][Len(files[f]) + 1].find \in Contents
<1> DEFINE i == Len(files[f]) + 1
           q == resume_dir[f][i]
           name == IF q.id = i THEN q.name ELSE q.name + 1
           file == File(q.find, "full", name)
<1>1. files \in [Fuzzers -> Seq(QueueFile)] /\ files[f] \in Seq(QueueFile)
      /\ resume_dir[f] \in Seq(InputFile)
  BY DEF TypeOK
<1>2. i \in 1..Len(resume_dir[f]) /\ Len(files[f]) \in Nat
  BY <1>1 DEF Pivot
<1>3. q \in InputFile /\ i \in DOMAIN resume_dir[f]
  BY <1>1, <1>2
<1>4. files' = [files EXCEPT ![f] = Append(files[f], file)]
  BY <1>1 DEF Pivot
<1> HIDE DEF q
<1>5. name \in Nat /\ q.find \in Contents
  BY <1>3 DEF InputFile
<1> HIDE DEF name
<1>6. file \in QueueFile /\ file.find = q.find /\ file.on = "full"
  BY <1>5 DEF File, QueueFile
<1> HIDE DEF file
<1>7. files'[f] = Append(files[f], file)
      /\ \A h \in Fuzzers \ {f} : files'[h] = files[h]
  BY <1>1, <1>4
<1>8. /\ files'[f] \in Seq(QueueFile)
      /\ Len(files'[f]) = Len(files[f]) + 1
      /\ \A j \in 1..Len(files[f]) : files'[f][j] = files[f][j]
      /\ files'[f][i] = file
  BY <1>1, <1>6, <1>7, AppendedFile
<1>9. files' \in [Fuzzers -> Seq(QueueFile)]
  BY <1>1, <1>4, <1>7, <1>8
<1> QED
  BY <1>2, <1>3, <1>5, <1>7, <1>8, <1>9, <1>6 DEF q

\* The file that is written is one of the queue.
LEMMA WrittenFile ==
    ASSUME IInv, NEW f \in Fuzzers
    PROVE  /\ pc[f] \in {"created", "keep"} => Len(files[f]) \in DOMAIN files[f]
           /\ pc[f] \in {"unlinked", "truncated"} => edited[f] \in DOMAIN files[f]
<1>1. files[f] \in Seq(QueueFile) /\ edited[f] \in Nat /\ edited[f] <= Len(files[f])
  BY DEF IInv, TypeOK
<1>2. /\ edited[f] # 0 <=> pc[f] \in {"unlinked", "truncated"}
      /\ pc[f] \in {"created", "keep"} => files[f] # <<>>
  BY DEF IInv, Local, AtPoint
<1>3. DOMAIN files[f] = 1..Len(files[f]) /\ Len(files[f]) \in Nat
  BY <1>1
<1>4. files[f] # <<>> => Len(files[f]) # 0
  BY <1>1
<1> QED
  BY <1>1, <1>2, <1>3, <1>4

----------------------------------------------------------------------------
(***************************************************************************)
(* Types.                                                                  *)
(***************************************************************************)

\* The local variables of sync_fuzzers keep their types.
LEMMA CallTypes ==
    ASSUME NEW c \in SyncCall
    PROVE  /\ NoCall \in SyncCall
           /\ \A must, ended \in SUBSET Fuzzers :
                 [NoCall EXCEPT !.must = must, !.ended = ended] \in SyncCall
           /\ \A ended \in SUBSET Fuzzers : [NoCall EXCEPT !.ended = ended] \in SyncCall
           /\ [c EXCEPT !.party = Nobody, !.list = <<>>, !.next = 0] \in SyncCall
           /\ \A list \in Seq(Entry), next \in Nat :
                 [c EXCEPT !.list = list, !.next = next] \in SyncCall
           /\ \A visited \in SUBSET Fuzzers, party \in Fuzzers \cup {Nobody}, synced \in BOOLEAN :
                 [c EXCEPT !.visited = visited, !.entries = TRUE, !.synced = synced,
                           !.party = party] \in SyncCall
<1>1. NoCall \in SyncCall
  BY DEF SyncCall, NoCall
<1>2. ASSUME NEW must \in SUBSET Fuzzers, NEW ended \in SUBSET Fuzzers
      PROVE  [NoCall EXCEPT !.must = must, !.ended = ended] \in SyncCall
  BY <1>1 DEF SyncCall
<1>3. ASSUME NEW ended \in SUBSET Fuzzers
      PROVE  [NoCall EXCEPT !.ended = ended] \in SyncCall
  BY <1>1 DEF SyncCall
<1>4. [c EXCEPT !.party = Nobody, !.list = <<>>, !.next = 0] \in SyncCall
  <2>1. ASSUME NEW list \in Seq(Entry), NEW next \in Nat
        PROVE  [c EXCEPT !.party = Nobody, !.list = list, !.next = next] \in SyncCall
    BY DEF SyncCall
  <2>2. <<>> \in Seq(Entry) /\ 0 \in Nat
    OBVIOUS
  <2> QED BY <2>1, <2>2
<1>5. ASSUME NEW list \in Seq(Entry), NEW next \in Nat
      PROVE  [c EXCEPT !.list = list, !.next = next] \in SyncCall
  BY DEF SyncCall
<1>6. ASSUME NEW visited \in SUBSET Fuzzers, NEW party \in Fuzzers \cup {Nobody},
             NEW synced \in BOOLEAN
      PROVE  [c EXCEPT !.visited = visited, !.entries = TRUE, !.synced = synced,
                       !.party = party] \in SyncCall
  BY DEF SyncCall
<1> QED
  BY <1>1, <1>2, <1>3, <1>4, <1>5, <1>6

LEMMA InitTypes == Init => TypeOK
<1> SUFFICES ASSUME Init PROVE TypeOK
  OBVIOUS
<1>1. scenario.up \subseteq Fuzzers
  BY SyncAssumption DEF Init
<1>2. Seed \in Contents /\ File(Seed, "full", 0) \in QueueFile
  BY DEF Contents, File, QueueFile
<1>3. files \in [Fuzzers -> Seq(QueueFile)]
  BY <1>2 DEF Init
<1>4. resume_dir \in [Fuzzers -> Seq(InputFile)]
  BY DEF Init
<1>5. NoCall \in SyncCall
  BY DEF SyncCall, NoCall
<1>6. call \in [Fuzzers -> SyncCall]
  BY <1>5 DEF Init
<1>7. edited \in [Fuzzers -> Nat] /\ \A f \in Fuzzers : edited[f] <= Len(files[f])
  BY <1>3 DEF Init
<1>8. /\ main_file \in [Fuzzers -> BOOLEAN] /\ is_main_node \in [Fuzzers -> BOOLEAN]
      /\ position \in [Fuzzers -> [Fuzzers -> Nat]]
      /\ started \subseteq Fuzzers /\ resumed \subseteq started
      /\ pc \in [Fuzzers -> Points]
      /\ stop_soon \in [Fuzzers -> BOOLEAN] /\ leaving \in [Fuzzers -> BOOLEAN]
  BY <1>1 DEF Init, Points
<1>9. /\ seen \in [Fuzzers -> SUBSET Contents] /\ lost \in [Fuzzers -> SUBSET Contents]
      /\ saved \in [Fuzzers -> SUBSET Contents] /\ removed \in [Fuzzers -> SUBSET Contents]
  BY <1>2 DEF Init
<1> QED
  BY <1>3, <1>4, <1>6, <1>7, <1>8, <1>9 DEF TypeOK

\* The types of what is on disk.
DiskTypes ==
    /\ files \in [Fuzzers -> Seq(QueueFile)] /\ resume_dir \in [Fuzzers -> Seq(InputFile)]
    /\ edited \in [Fuzzers -> Nat] /\ \A f \in Fuzzers : edited[f] <= Len(files[f])
    /\ position \in [Fuzzers -> [Fuzzers -> Nat]]
    /\ started \subseteq Fuzzers /\ resumed \subseteq started

\* The types of the sets of test cases.
FindTypes ==
    /\ seen \in [Fuzzers -> SUBSET Contents] /\ lost \in [Fuzzers -> SUBSET Contents]
    /\ saved \in [Fuzzers -> SUBSET Contents] /\ removed \in [Fuzzers -> SUBSET Contents]

\* The types of the switches and points.
NodeTypes ==
    /\ main_file \in [Fuzzers -> BOOLEAN] /\ is_main_node \in [Fuzzers -> BOOLEAN]
    /\ pc \in [Fuzzers -> Points]
    /\ stop_soon \in [Fuzzers -> BOOLEAN] /\ leaving \in [Fuzzers -> BOOLEAN]

LEMMA TypeParts ==
    /\ TypeOK <=> DiskTypes /\ FindTypes /\ NodeTypes /\ call \in [Fuzzers -> SyncCall]
    /\ TypeOK' <=> DiskTypes' /\ FindTypes' /\ NodeTypes' /\ call' \in [Fuzzers -> SyncCall]
  BY DEF TypeOK, DiskTypes, FindTypes, NodeTypes

LEMMA NodeTypesStep ==
    ASSUME NodeTypes, NEW f \in Fuzzers, Act(f)
    PROVE  NodeTypes'
<1> USE DEF NodeTypes
<1>1. ASSUME NEW point \in Points, Go(f, point) PROVE pc' \in [Fuzzers -> Points]
  BY <1>1 DEF Go
<1>2. CASE Start(f)
  BY <1>2 DEF Start, SetUp, Go, Points, diskVars, memVars, histVars
<1>3. CASE Resume(f)
  BY <1>3 DEF Resume, Go, Points
<1>4. CASE Pivot(f)
  BY <1>4 DEF Pivot, diskVars, memVars, histVars
<1>5. CASE EndPivot(f)
  BY <1>5 DEF EndPivot, DryRun, Go, Points, histVars
<1>6. CASE \E i \in DOMAIN files[f] : ClearFile(f, i)
  BY <1>6 DEF ClearFile, memVars
<1>7. CASE EndClear(f)
  BY <1>7 DEF EndClear, SetUp, Go, Points
<1>8. CASE \E i \in DOMAIN resume_dir[f] : NukeFile(f, i)
  BY <1>8 DEF NukeFile, memVars
<1>9. CASE EndNuke(f)
  BY <1>9 DEF EndNuke, DryRun, Go, Points, diskVars
<1>10. CASE SaveDiscovery(f)
  BY <1>10 DEF SaveDiscovery, Go, Points
<1>11. CASE RecreateFile(f)
  BY <1>11 DEF RecreateFile, Go, Points, histVars
<1>12. CASE SaveTrimmed(f)
  BY <1>12 DEF SaveTrimmed, Go, Points
<1>13. CASE StartSync(f)
  BY <1>13 DEF StartSync, OpenSyncDir, Go, Points, diskVars, histVars
<1>14. CASE \E g \in Fuzzers : Look(f, g)
  <2> PICK g \in Fuzzers : Look(f, g)
    BY <1>14
  <2>1. PICK point \in Points : Go(f, point)
    BY DEF Look, Points
  <2> QED
    BY <1>1, <2>1 DEF Look, diskVars, histVars
<1>15. CASE StepDown(f)
  BY <1>15 DEF StepDown, Demoted, Go, Points, histVars
<1>16. CASE Scan(f)
  <2>1. PICK point \in Points : Go(f, point)
    BY <1>16 DEF Scan, CloseParty, Points
  <2> QED
    BY <1>1, <1>16, <2>1 DEF Scan, diskVars, histVars
<1>17. CASE PassOver(f)
  BY <1>17 DEF PassOver, diskVars, histVars
<1>18. CASE Import(f)
  BY <1>18 DEF Import, Go, Points, histVars
<1>19. CASE SaveImport(f)
  BY <1>19 DEF SaveImport, Go, Points
<1>20. CASE Interrupted(f)
  BY <1>20 DEF Interrupted, CloseParty, Go, Points, histVars
<1>21. CASE WritePosition(f)
  BY <1>21 DEF WritePosition, CloseParty, Go, Points, histVars
<1>22. CASE EndSync(f)
  BY <1>22 DEF EndSync, Elected, Go, Points, Secondary, histVars
<1>23. CASE LeaveLoop(f)
  BY <1>23 DEF LeaveLoop, OpenSyncDir, Go, Points, diskVars, histVars
<1>24. CASE Exit(f)
  BY <1>24 DEF Exit, EndProcess, Go, Points, histVars
<1>25. CASE \E t \in Finds : Discover(f, t)
  BY <1>25 DEF Discover, Go, Points, histVars
<1>26. CASE \E i \in DOMAIN files[f] : StartTrim(f, i)
  BY <1>26 DEF StartTrim, Go, Points
<1>27. CASE Stop(f)
  BY <1>27 DEF Stop, diskVars
<1>28. CASE Kill(f)
  BY <1>28 DEF Kill, EndProcess, Go, Points
<1> QED
  BY <1>2, <1>3, <1>4, <1>5, <1>10, <1>11, <1>12, <1>13, <1>14, <1>15, <1>16, <1>17,
     <1>18, <1>19, <1>20, <1>21, <1>22, <1>23, <1>24, <1>25, <1>26, <1>27, <1>28,
     <1>6, <1>7, <1>8, <1>9
  DEF Act, Step

\* sync_fuzzers' variables.
LEMMA CallTypesStep ==
    ASSUME IInv, NEW f \in Fuzzers, Act(f)
    PROVE  call' \in [Fuzzers -> SyncCall]
<1>1. /\ call \in [Fuzzers -> SyncCall] /\ call[f] \in SyncCall
      /\ started \subseteq Fuzzers
      /\ position \in [Fuzzers -> [Fuzzers -> Nat]]
  BY DEF IInv, TypeOK
<1>2. ASSUME NEW c \in SyncCall, call' = [call EXCEPT ![f] = c]
      PROVE  call' \in [Fuzzers -> SyncCall]
  BY <1>1, <1>2
<1>3. ASSUME CloseParty(f) PROVE call' \in [Fuzzers -> SyncCall]
  <2>1. call' = [call EXCEPT ![f] = [call[f] EXCEPT !.party = Nobody, !.list = <<>>, !.next = 0]]
    BY <1>1, <1>3 DEF CloseParty
  <2> QED BY <1>1, <1>2, <2>1, CallTypes
<1>4. ASSUME NEW ended \in SUBSET Fuzzers, OpenSyncDir(f, ended)
      PROVE  call' \in [Fuzzers -> SyncCall]
  <2>1. started \ {f} \in SUBSET Fuzzers
    BY <1>1
  <2> QED BY <1>1, <1>2, <1>4, <2>1, CallTypes DEF OpenSyncDir
<1>5. ASSUME NextEntry(f), pc[f] = "import", call[f].list # <<>>
      PROVE  call' \in [Fuzzers -> SyncCall]
  <2>1. call[f].list \in Seq(Entry) /\ call[f].next \in Nat
    BY <1>1 DEF SyncCall
  <2>2. Tail(call[f].list) \in Seq(Entry) /\ call[f].next + 1 \in Nat
    BY <1>5, <2>1
  <2>3. call' = [call EXCEPT ![f] = [call[f] EXCEPT !.list = Tail(call[f].list),
                                                    !.next = call[f].next + 1]]
    BY <1>1, <1>5 DEF NextEntry
  <2> QED BY <1>1, <1>2, <2>2, <2>3, CallTypes
<1>6. ASSUME EndProcess(f) PROVE call' \in [Fuzzers -> SyncCall]
  BY <1>1, <1>2, <1>6, CallTypes DEF EndProcess
<1>7. CASE UNCHANGED call
  BY <1>1, <1>7
<1>8. CASE StartSync(f)
  BY <1>4, <1>8 DEF StartSync
<1>9. CASE \E g \in Fuzzers : Look(f, g)
  <2> PICK g \in Fuzzers : Look(f, g)
    BY <1>9
  <2> DEFINE synced == call[f].synced \/ ~Skips(f, g)
             party == IF Skips(f, g) THEN Nobody ELSE g
             visited == call[f].visited \cup {g}
  <2>1. visited \in SUBSET Fuzzers /\ synced \in BOOLEAN /\ party \in Fuzzers \cup {Nobody}
    BY <1>1 DEF SyncCall, Skips, Secondary
  <2>2. call' = [call EXCEPT ![f] = [call[f] EXCEPT !.visited = visited, !.entries = TRUE,
                                                    !.synced = synced, !.party = party]]
    BY <1>1 DEF Look
  <2> HIDE DEF synced, party, visited
  <2> QED BY <1>1, <1>2, <2>1, <2>2, CallTypes
<1>10. CASE Scan(f)
  <2> DEFINE g == call[f].party
             id == position[f][g]
             list == Listed(g, id)
  <2>1. g \in Fuzzers /\ id \in Nat
    BY <1>1, <1>10 DEF IInv, Local, AtPoint, Scan
  <2>2. list \in Seq(Entry)
    BY <2>1, ListedFiles DEF IInv
  <2>3. CASE CloseParty(f)
    BY <1>3, <2>3
  <2>4. CASE call' = [call EXCEPT ![f].list = list, ![f].next = id]
    <3> HIDE DEF list, id
    <3>1. call' = [call EXCEPT ![f] = [call[f] EXCEPT !.list = list, !.next = id]]
      BY <1>1, <2>4
    <3> QED BY <1>1, <1>2, <2>1, <2>2, <3>1, CallTypes
  <2> QED BY <1>10, <2>3, <2>4 DEF Scan
<1>11. CASE PassOver(f)
  BY <1>5, <1>11 DEF PassOver
<1>12. CASE Import(f)
  BY <1>5, <1>12 DEF Import
<1>13. CASE Interrupted(f)
  BY <1>3, <1>13 DEF Interrupted
<1>14. CASE WritePosition(f)
  BY <1>3, <1>14 DEF WritePosition
<1>15. CASE EndSync(f)
  <2>1. call[f].ended \in SUBSET Fuzzers
    BY <1>1 DEF SyncCall
  <2> QED BY <1>1, <1>2, <1>15, <2>1, CallTypes DEF EndSync
<1>16. CASE LeaveLoop(f)
  <2>1. {g \in started : ~Running(g)} \in SUBSET Fuzzers
    BY <1>1
  <2> QED BY <1>1, <1>4, <1>16, <2>1 DEF LeaveLoop
<1>17. CASE Exit(f) \/ Kill(f)
  BY <1>6, <1>17 DEF Exit, Kill
<1> QED
  BY <1>7, <1>8, <1>9, <1>10, <1>11, <1>12, <1>13, <1>14, <1>15, <1>16, <1>17
  DEF Act, Step, Start, Resume, ClearFile, EndClear, Pivot, EndPivot, NukeFile, EndNuke,
      SaveDiscovery, RecreateFile, SaveTrimmed, StepDown, SaveImport, Discover, StartTrim,
      Stop, memVars

\* The test cases that files and lists name are test cases.
LEMMA FindsTyped ==
    ASSUME IInv, NEW f \in Fuzzers
    PROVE  /\ \A i \in DOMAIN files[f] : files[f][i].find \in Contents
           /\ FindsOf(files[f]) \subseteq Contents
           /\ \A i \in DOMAIN resume_dir[f] : resume_dir[f][i].find \in Contents
           /\ Trimming(f) \subseteq Contents
           /\ call[f].list # <<>> => Head(call[f].list).find \in Contents
<1>1. files[f] \in Seq(QueueFile) /\ edited[f] \in Nat /\ edited[f] <= Len(files[f])
      /\ call[f].list \in Seq(Entry)
  BY DEF IInv, TypeOK, SyncCall
<1>2. \A i \in DOMAIN files[f] : files[f][i].find \in Contents
  <2>1. \A i \in DOMAIN files[f] : files[f][i] \in QueueFile
    BY <1>1
  <2> QED BY <2>1 DEF QueueFile
<1>3. \A i \in DOMAIN resume_dir[f] : resume_dir[f][i].find \in Contents
  <2>1. resume_dir[f] \in Seq(InputFile)
    BY DEF IInv, TypeOK
  <2>2. \A i \in DOMAIN resume_dir[f] : resume_dir[f][i] \in InputFile
    BY <2>1
  <2> QED BY <2>2 DEF InputFile
<1>4. edited[f] # 0 => edited[f] \in DOMAIN files[f]
  BY <1>1
<1>5. call[f].list # <<>> => Head(call[f].list) \in Entry
  BY <1>1
<1>6. call[f].list # <<>> => Head(call[f].list).find \in Contents
  BY <1>5 DEF Entry
<1> QED
  BY <1>2, <1>4, <1>6, <1>3 DEF FindsOf, Trimming

LEMMA FindTypesStep ==
    ASSUME IInv, NEW f \in Fuzzers, Act(f)
    PROVE  FindTypes'
<1>1. FindTypes /\ TypeOK
  BY TypeParts DEF IInv
<1> USE DEF FindTypes
<1>2. ASSUME NEW i \in DOMAIN files[f], WriteFile(f, i)
      PROVE  saved' \in [Fuzzers -> SUBSET Contents]
  <2>1. files[f][i].find \in Contents
    BY FindsTyped
  <2> QED BY <1>1, <1>2, <2>1 DEF WriteFile
<1>3. ASSUME NEW s \in SUBSET Contents, lost' = [lost EXCEPT ![f] = lost[f] \cup s]
      PROVE  lost' \in [Fuzzers -> SUBSET Contents]
  BY <1>1, <1>3
<1>4. ASSUME NEW t \in Contents, CreateFile(f, t)
      PROVE  seen' \in [Fuzzers -> SUBSET Contents]
  BY <1>1, <1>4, Created
<1>5. CASE UNCHANGED <<seen, lost, saved, removed>>
  BY <1>1, <1>5
<1>6. CASE \E i \in DOMAIN files[f] : ClearFile(f, i)
  <2> PICK i \in DOMAIN files[f] : ClearFile(f, i)
    BY <1>6
  <2> DEFINE s == {files[f][i].find} \cap removed[f]
  <2>1. s \in SUBSET Contents
    BY FindsTyped
  <2>2. lost' = [lost EXCEPT ![f] = lost[f] \cup s] /\ UNCHANGED <<seen, saved, removed>>
    BY <1>1 DEF ClearFile, memVars
  <2> HIDE DEF s
  <2> QED BY <1>1, <1>3, <2>1, <2>2
<1>7. CASE EndClear(f)
  BY <1>1, <1>7 DEF EndClear
<1>8. CASE \E i \in DOMAIN resume_dir[f] : NukeFile(f, i)
  <2> PICK i \in DOMAIN resume_dir[f] : NukeFile(f, i)
    BY <1>8
  <2> DEFINE t == resume_dir[f][i].find
  <2>1. t \in Contents
    BY FindsTyped
  <2>2. removed' = [removed EXCEPT ![f] = removed[f] \cup {t}] /\ UNCHANGED <<seen, lost, saved>>
    BY <1>1 DEF NukeFile, memVars
  <2> HIDE DEF t
  <2> QED BY <1>1, <2>1, <2>2
<1>9. CASE EndNuke(f)
  <2>1. FindsOf(files[f]) \in SUBSET Contents
    BY FindsTyped
  <2>2. /\ seen' = [seen EXCEPT ![f] = FindsOf(files[f])]
        /\ removed' = [removed EXCEPT ![f] = {}] /\ UNCHANGED <<lost, saved>>
    BY <1>9 DEF EndNuke, DryRun
  <2> QED BY <1>1, <2>1, <2>2
<1>10. CASE Pivot(f)
  <2> DEFINE t == resume_dir[f][Len(files[f]) + 1].find
  <2>1. t \in Contents
    BY <1>1, <1>10, Pivoted
  <2>2. saved' = [saved EXCEPT ![f] = saved[f] \cup {t}] /\ UNCHANGED <<seen, lost, removed>>
    BY <1>1, <1>10 DEF Pivot, memVars
  <2> HIDE DEF t
  <2> QED BY <1>1, <2>1, <2>2
<1>11. CASE EndPivot(f)
  <2>1. FindsOf(files[f]) \subseteq Contents
    BY FindsTyped
  <2> QED BY <1>1, <1>11, <2>1 DEF EndPivot, DryRun, histVars
<1>12. CASE SaveDiscovery(f)
  BY <1>1, <1>2, <1>12, WrittenFile DEF SaveDiscovery
<1>13. CASE SaveTrimmed(f)
  BY <1>1, <1>2, <1>13, WrittenFile DEF SaveTrimmed
<1>14. CASE SaveImport(f)
  BY <1>1, <1>2, <1>14, WrittenFile DEF SaveImport
<1>15. CASE Scan(f)
  <2> DEFINE g == call[f].party
             gap == {i \in DOMAIN files[g] : /\ i > position[f][g]
                                             /\ i <= position[f][g] + Len(Listed(g, position[f][g]))
                                             /\ files[g][i].on = "gone"}
             s == {files[g][i].find : i \in gap}
  <2>1. g \in Fuzzers
    BY <1>15 DEF IInv, Local, AtPoint, Scan
  <2>2. s \subseteq Contents
    BY <2>1, FindsTyped
  <2>3. lost' = [lost EXCEPT ![f] = lost[f] \cup s] \/ UNCHANGED lost
    BY <1>1, <1>15 DEF Scan
  <2>4. UNCHANGED <<seen, saved, removed>>
    BY <1>15 DEF Scan
  <2> HIDE DEF s
  <2> QED BY <1>1, <1>3, <2>2, <2>3, <2>4
<1>16. CASE PassOver(f)
  <2>1. {Head(call[f].list).find} \in SUBSET Contents
    BY <1>16, FindsTyped DEF PassOver
  <2>2. lost' = [lost EXCEPT ![f] = lost[f] \cup {Head(call[f].list).find}]
    BY <1>1, <1>16 DEF PassOver
  <2> QED BY <1>1, <1>3, <1>16, <2>1, <2>2 DEF PassOver
<1>17. CASE Import(f)
  <2>1. Head(call[f].list).find \in Contents
    BY <1>17, FindsTyped DEF Import
  <2>2. seen' \in [Fuzzers -> SUBSET Contents]
    BY <1>1, <1>4, <1>17, <2>1 DEF Import
  <2> QED BY <1>1, <1>17, <2>2 DEF Import, histVars
<1>18. CASE Exit(f)
  BY <1>1, <1>18 DEF Exit, EndProcess, histVars
<1>19. CASE \E t \in Finds : Discover(f, t)
  <2> PICK t \in Finds : Discover(f, t)
    BY <1>19
  <2> QED BY <1>1, <1>4 DEF Discover, histVars, Contents
<1>20. CASE Kill(f)
  <2>1. Trimming(f) \in SUBSET Contents
    BY FindsTyped
  <2>2. lost' = [lost EXCEPT ![f] = lost[f] \cup Trimming(f)]
    BY <1>1, <1>20 DEF Kill
  <2>3. seen' = [seen EXCEPT ![f] = {}] /\ UNCHANGED <<saved, removed>>
    BY <1>20 DEF Kill, EndProcess
  <2> QED BY <1>1, <1>3, <2>1, <2>2, <2>3
<1> QED
  BY <1>5, <1>10, <1>11, <1>12, <1>13, <1>14, <1>15, <1>16, <1>17, <1>18, <1>19, <1>20,
     <1>6, <1>7, <1>8, <1>9
  DEF Act, Step, Start, Resume, RecreateFile, StartSync, Look, StepDown, Interrupted,
      WritePosition, EndSync, LeaveLoop, StartTrim, Stop, histVars

LEMMA DiskTypesStep ==
    ASSUME IInv, NEW f \in Fuzzers, Act(f)
    PROVE  DiskTypes'
<1>1. DiskTypes /\ TypeOK
  BY TypeParts DEF IInv
<1> USE DEF DiskTypes
<1>2. \A h \in Fuzzers : Len(files[h]) \in Nat /\ files[h] \in Seq(QueueFile)
  BY <1>1
<1>3. ASSUME NEW t \in Contents, CreateFile(f, t), UNCHANGED edited
      PROVE  /\ files' \in [Fuzzers -> Seq(QueueFile)]
             /\ \A h \in Fuzzers : edited'[h] <= Len(files'[h])
  <2>1. /\ files' \in [Fuzzers -> Seq(QueueFile)]
        /\ \A h \in Fuzzers \ {f} : files'[h] = files[h]
        /\ Len(files'[f]) = Len(files[f]) + 1
    BY <1>1, <1>3, Created
  <2>2. edited[f] <= Len(files[f]) + 1
    BY <1>1, <1>2
  <2> QED BY <1>1, <1>3, <2>1, <2>2
<1>4. ASSUME NEW i \in DOMAIN files[f], NEW on \in {"full", "empty", "gone"},
             files' = [files EXCEPT ![f][i].on = on],
             edited' \in [Fuzzers -> Nat],
             \A h \in Fuzzers : edited'[h] <= Len(files[h])
      PROVE  /\ files' \in [Fuzzers -> Seq(QueueFile)]
             /\ \A h \in Fuzzers : edited'[h] <= Len(files'[h])
  <2>1. /\ files' \in [Fuzzers -> Seq(QueueFile)]
        /\ \A h \in Fuzzers \ {f} : files'[h] = files[h]
        /\ Len(files'[f]) = Len(files[f])
    BY <1>1, <1>4, Marked
  <2> QED BY <1>4, <2>1
<1>5. CASE UNCHANGED <<files, resume_dir, position, started, edited, resumed>>
  BY <1>1, <1>5
<1>6. CASE Start(f)
  <2>1. <<[find |-> Seed, id |-> 1, name |-> 0]>> \in Seq(InputFile)
    BY DEF InputFile, Contents
  <2>2. resume_dir' \in [Fuzzers -> Seq(InputFile)]
    BY <1>1, <1>6, <2>1 DEF Start
  <2>3. started' \subseteq Fuzzers /\ resumed' \subseteq started'
    BY <1>1, <1>6 DEF Start, histVars
  <2> QED BY <1>1, <1>6, <2>2, <2>3 DEF Start, histVars
<1>7. CASE Resume(f)
  <2>1. InDir(f) \in Seq(InputFile)
    BY <1>1, OldQueueFinds DEF InDir
  <2>2. resume_dir' \in [Fuzzers -> Seq(InputFile)] /\ files' \in [Fuzzers -> Seq(QueueFile)]
    BY <1>1, <1>7, <2>1 DEF Resume
  <2>3. edited[f] = 0
    BY <1>7 DEF IInv, Local, AtPoint, Resume, Running
  <2>4. Len(files'[f]) \in Nat
    BY <2>2
  <2>5. \A h \in Fuzzers \ {f} : files'[h] = files[h]
    BY <1>1, <1>7 DEF Resume
  <2>6. edited' = edited /\ \A h \in Fuzzers : edited[h] <= Len(files'[h])
    BY <1>1, <1>7, <2>3, <2>4, <2>5 DEF Resume
  <2>7. resumed' \subseteq started' /\ started' \subseteq Fuzzers /\ UNCHANGED position
    BY <1>1, <1>7 DEF Resume
  <2> QED BY <1>1, <2>2, <2>6, <2>7
<1>8. CASE Pivot(f)
  <2>1. /\ files' \in [Fuzzers -> Seq(QueueFile)]
        /\ \A h \in Fuzzers \ {f} : files'[h] = files[h]
        /\ Len(files'[f]) = Len(files[f]) + 1
    BY <1>1, <1>8, Pivoted
  <2>2. edited[f] <= Len(files[f]) + 1
    BY <1>1, <1>2
  <2>3. UNCHANGED <<resume_dir, position, started, edited, resumed>>
    BY <1>8 DEF Pivot, memVars
  <2> QED BY <1>1, <2>1, <2>2, <2>3
<1>9. CASE EndPivot(f)
  <2>1. resume_dir' \in [Fuzzers -> Seq(InputFile)]
    <3>1. <<>> \in Seq(InputFile)
      OBVIOUS
    <3>2. UNCHANGED resume_dir \/ resume_dir' = [resume_dir EXCEPT ![f] = <<>>]
      BY <1>9 DEF EndPivot
    <3> QED BY <1>1, <3>1, <3>2
  <2> QED BY <1>1, <1>9, <2>1 DEF EndPivot, histVars
<1>10. CASE \E i \in DOMAIN files[f] : ClearFile(f, i)
  <2> PICK i \in DOMAIN files[f] : ClearFile(f, i)
    BY <1>10
  <2>1. files' = [files EXCEPT ![f][i].on = "gone"]
        /\ UNCHANGED <<resume_dir, position, started, edited, resumed>>
    BY DEF ClearFile, memVars
  <2> QED BY <1>1, <1>4, <2>1
<1>11. CASE EndClear(f)
  <2>1. /\ files' = [files EXCEPT ![f] = <<>>]
        /\ UNCHANGED <<resume_dir, position, started, edited, resumed>>
    BY <1>11 DEF EndClear
  <2>2. edited[f] = 0
    BY <1>11 DEF IInv, Local, AtPoint, EndClear
  <2>3. <<>> \in Seq(QueueFile) /\ Len(<<>>) = 0
    OBVIOUS
  <2>4. files' \in [Fuzzers -> Seq(QueueFile)] /\ Len(files'[f]) = 0
        /\ \A h \in Fuzzers \ {f} : files'[h] = files[h]
    BY <1>1, <2>1, <2>3
  <2> QED BY <1>1, <2>1, <2>2, <2>4
<1>12. CASE \E i \in DOMAIN resume_dir[f] : NukeFile(f, i)
  <2> PICK i \in DOMAIN resume_dir[f] : NukeFile(f, i)
    BY <1>12
  <2>1. resume_dir[f] \in Seq(InputFile)
    BY <1>1
  <2>2. RemoveAt(resume_dir[f], i) \in Seq(InputFile)
    BY <2>1, RemovedFile
  <2>3. /\ resume_dir' = [resume_dir EXCEPT ![f] = RemoveAt(resume_dir[f], i)]
        /\ UNCHANGED <<files, position, started, edited, resumed>>
    BY <1>1 DEF NukeFile, memVars
  <2> QED BY <1>1, <2>2, <2>3
<1>13. CASE EndNuke(f)
  <2>1. UNCHANGED <<files, resume_dir, position, started, edited, resumed>>
    BY <1>13 DEF EndNuke, diskVars
  <2> QED BY <1>1, <2>1
<1>14. CASE SaveDiscovery(f) \/ SaveImport(f)
  <2>1. Len(files[f]) \in DOMAIN files[f]
    BY <1>14, WrittenFile DEF SaveDiscovery, SaveImport
  <2>2. files' = [files EXCEPT ![f][Len(files[f])].on = "full"]
        /\ UNCHANGED <<resume_dir, position, started, edited, resumed>>
    BY <1>14 DEF SaveDiscovery, SaveImport, WriteFile
  <2> QED BY <1>1, <1>4, <2>1, <2>2
<1>15. CASE RecreateFile(f)
  <2>1. edited[f] \in DOMAIN files[f]
    BY <1>15, WrittenFile DEF RecreateFile
  <2>2. files' = [files EXCEPT ![f][edited[f]].on = "empty"]
        /\ UNCHANGED <<resume_dir, position, started, edited, resumed>>
    BY <1>15 DEF RecreateFile, histVars
  <2> QED BY <1>1, <1>4, <2>1, <2>2
<1>16. CASE SaveTrimmed(f)
  <2>1. edited[f] \in DOMAIN files[f]
    BY <1>16, WrittenFile DEF SaveTrimmed
  <2>2. files' = [files EXCEPT ![f][edited[f]].on = "full"]
        /\ edited' = [edited EXCEPT ![f] = 0]
        /\ UNCHANGED <<resume_dir, position, started, resumed>>
    BY <1>16 DEF SaveTrimmed, WriteFile
  <2>3. edited' \in [Fuzzers -> Nat] /\ \A h \in Fuzzers : edited'[h] <= Len(files[h])
    BY <1>1, <1>2, <2>2
  <2> QED BY <1>1, <1>4, <2>1, <2>2, <2>3
<1>17. CASE \E i \in DOMAIN files[f] : StartTrim(f, i)
  <2> PICK i \in DOMAIN files[f] : StartTrim(f, i)
    BY <1>17
  <2>1. edited' = [edited EXCEPT ![f] = i]
        /\ UNCHANGED <<resume_dir, position, started, resumed>>
    BY DEF StartTrim
  <2>2. PICK on \in {"full", "empty", "gone"} : files' = [files EXCEPT ![f][i].on = on]
    BY DEF StartTrim
  <2>3. i \in Nat /\ i <= Len(files[f])
    BY <1>2
  <2>4. edited' \in [Fuzzers -> Nat] /\ \A h \in Fuzzers : edited'[h] <= Len(files[h])
    BY <1>1, <1>2, <2>1, <2>3
  <2> QED BY <1>1, <1>4, <2>1, <2>2, <2>4
<1>18. CASE Import(f)
  <2> DEFINE t == Head(call[f].list).find
  <2>1. t \in Contents
    BY <1>18, FindsTyped DEF Import
  <2>2. UNCHANGED <<resume_dir, position, started, edited, resumed>>
        /\ (UNCHANGED files \/ CreateFile(f, t))
    BY <1>18 DEF Import, histVars
  <2> QED BY <1>1, <1>3, <2>1, <2>2
<1>19. CASE \E t \in Finds : Discover(f, t)
  <2> PICK t \in Finds : Discover(f, t)
    BY <1>19
  <2>1. t \in Contents /\ CreateFile(f, t)
        /\ UNCHANGED <<resume_dir, position, started, edited, resumed>>
    BY DEF Discover, Contents, histVars
  <2> QED BY <1>1, <1>3, <2>1
<1>20. CASE Interrupted(f)
  <2>1. UNCHANGED <<files, resume_dir, position, started, edited, resumed>>
    BY <1>20 DEF Interrupted, PositionAfterStop, histVars
  <2> QED BY <1>1, <2>1
<1>21. CASE WritePosition(f)
  <2>1. /\ UNCHANGED <<files, resume_dir, started, edited, resumed>>
        /\ position' = [position EXCEPT ![f][call[f].party] = call[f].next]
    BY <1>21 DEF WritePosition, histVars
  <2>2. call[f].next \in Nat /\ call[f].party \in Fuzzers
    BY <1>21 DEF IInv, TypeOK, SyncCall, Local, AtPoint, WritePosition
  <2>3. position' \in [Fuzzers -> [Fuzzers -> Nat]]
    BY <1>1, <2>1, <2>2
  <2> QED BY <1>1, <2>1, <2>3
<1>22. CASE Exit(f) \/ Kill(f)
  <2>1. edited' = [edited EXCEPT ![f] = 0] /\ UNCHANGED <<files, position, started, resumed>>
    BY <1>22 DEF Exit, Kill, EndProcess, histVars
  <2>2. edited' \in [Fuzzers -> Nat] /\ \A h \in Fuzzers : edited'[h] <= Len(files[h])
    BY <1>1, <1>2, <2>1
  <2>3. <<>> \in Seq(InputFile)
    OBVIOUS
  <2>4. resume_dir' \in [Fuzzers -> Seq(InputFile)]
    BY <1>1, <1>22, <2>3 DEF Exit, Kill
  <2> QED BY <1>1, <2>1, <2>2, <2>4
<1> QED
  BY <1>5, <1>6, <1>7, <1>8, <1>9, <1>14, <1>15, <1>16, <1>17, <1>18, <1>19, <1>20,
     <1>21, <1>22, <1>10, <1>11, <1>12, <1>13
  DEF Act, Step, StartSync, Look, StepDown, Scan, PassOver, EndSync, LeaveLoop, Stop,
      diskVars, histVars

LEMMA TypesStep ==
    ASSUME IInv, NEW f \in Fuzzers, Act(f)
    PROVE  TypeOK'
<1>1. NodeTypes
  BY TypeParts DEF IInv
<1> QED
  BY <1>1, TypeParts, NodeTypesStep, CallTypesStep, FindTypesStep, DiskTypesStep

----------------------------------------------------------------------------
(***************************************************************************)
(* A step of one fuzzer leaves the others as they are.                     *)
(***************************************************************************)

\* All that the invariant says of h alone stays the same.
Stays(h) ==
    /\ files'[h] = files[h] /\ resume_dir'[h] = resume_dir[h] /\ position'[h] = position[h]
    /\ pc'[h] = pc[h] /\ seen'[h] = seen[h] /\ call'[h] = call[h] /\ edited'[h] = edited[h]
    /\ lost'[h] = lost[h] /\ saved'[h] = saved[h] /\ removed'[h] = removed[h]
    /\ h \in started' <=> h \in started
    /\ h \in resumed' <=> h \in resumed

LEMMA OthersStay ==
    ASSUME TypeOK, NEW f \in Fuzzers, NEW h \in Fuzzers \ {f}, Act(f)
    PROVE  Stays(h)
<1> USE DEF Stays, diskVars, memVars, histVars
<1>1. /\ files \in [Fuzzers -> Seq(QueueFile)] /\ resume_dir \in [Fuzzers -> Seq(InputFile)]
      /\ position \in [Fuzzers -> [Fuzzers -> Nat]]
      /\ call \in [Fuzzers -> SyncCall] /\ edited \in [Fuzzers -> Nat]
      /\ pc \in [Fuzzers -> Points] /\ seen \in [Fuzzers -> SUBSET Contents]
      /\ lost \in [Fuzzers -> SUBSET Contents] /\ saved \in [Fuzzers -> SUBSET Contents]
      /\ removed \in [Fuzzers -> SUBSET Contents]
  BY DEF TypeOK
<1>2. CASE Pivot(f)
  BY <1>1, <1>2 DEF Pivot
<1>3. CASE EndPivot(f)
  BY <1>1, <1>3 DEF EndPivot, DryRun, Go
<1>4. CASE \E i \in DOMAIN files[f] : ClearFile(f, i)
  BY <1>1, <1>4 DEF ClearFile
<1>5. CASE EndClear(f)
  BY <1>1, <1>5 DEF EndClear, SetUp, Go
<1>6. CASE \E i \in DOMAIN resume_dir[f] : NukeFile(f, i)
  BY <1>1, <1>6 DEF NukeFile
<1>7. CASE EndNuke(f)
  BY <1>1, <1>7 DEF EndNuke, DryRun, Go
<1>8. CASE SaveDiscovery(f)
  BY <1>1, <1>8 DEF SaveDiscovery, WriteFile, Go
<1>9. CASE RecreateFile(f)
  BY <1>1, <1>9 DEF RecreateFile, Go
<1>10. CASE SaveTrimmed(f)
  BY <1>1, <1>10 DEF SaveTrimmed, WriteFile, Go
<1>11. CASE StartSync(f)
  BY <1>1, <1>11 DEF StartSync, OpenSyncDir, Go
<1>12. CASE StepDown(f)
  BY <1>1, <1>12 DEF StepDown, Go
<1>13. CASE Scan(f)
  BY <1>1, <1>13 DEF Scan, CloseParty, Go
<1>14. CASE PassOver(f)
  BY <1>1, <1>14 DEF PassOver, NextEntry
<1>15. CASE Import(f)
  BY <1>1, <1>15 DEF Import, NextEntry, CreateFile, Go
<1>16. CASE SaveImport(f)
  BY <1>1, <1>16 DEF SaveImport, WriteFile, Go
<1>17. CASE Interrupted(f)
  BY <1>1, <1>17 DEF Interrupted, PositionAfterStop, CloseParty, Go
<1>18. CASE WritePosition(f)
  BY <1>1, <1>18 DEF WritePosition, CloseParty, Go
<1>19. CASE EndSync(f)
  BY <1>1, <1>19 DEF EndSync, Go
<1>20. CASE LeaveLoop(f)
  BY <1>1, <1>20 DEF LeaveLoop, OpenSyncDir, Go
<1>21. CASE Exit(f)
  BY <1>1, <1>21 DEF Exit, EndProcess, Go
<1>22. CASE Start(f)
  BY <1>1, <1>22 DEF Start, SetUp, Go
<1>23. CASE Resume(f)
  BY <1>1, <1>23 DEF Resume, Go
<1>24. CASE Stop(f)
  BY <1>1, <1>24 DEF Stop
<1>25. CASE Kill(f)
  BY <1>1, <1>25 DEF Kill, EndProcess, Go
<1>26. CASE \E g \in Fuzzers : Look(f, g)
  BY <1>1, <1>26 DEF Look, Go
<1>27. CASE \E t \in Finds : Discover(f, t)
  BY <1>1, <1>27 DEF Discover, CreateFile, Go
<1>28. CASE \E i \in DOMAIN files[f] : StartTrim(f, i)
  BY <1>1, <1>28 DEF StartTrim, Go
<1> QED
  BY <1>2, <1>3, <1>8, <1>9, <1>10, <1>11, <1>12, <1>13, <1>14, <1>15, <1>16, <1>17, <1>18,
     <1>19, <1>20, <1>21, <1>22, <1>23, <1>24, <1>25, <1>26, <1>27, <1>28, <1>4, <1>5,
     <1>6, <1>7
  DEF Act, Step

----------------------------------------------------------------------------
(***************************************************************************)
(* A step of f leaves f in order, and what it holds does not become less.  *)
(***************************************************************************)

\* The queue only grows, and its test cases keep their ids, unless f is
\* resumed.
FilesKeep(f) ==
    f \notin resumed' =>
        /\ DOMAIN files[f] \subseteq DOMAIN files'[f]
        /\ \A i \in DOMAIN files[f] : files'[f][i].find = files[f][i].find

Orderly(f) == Local(f)' /\ Holds(f) \subseteq Holds(f)' /\ FilesKeep(f)

\* The points between which a step moves without touching the queue.
SyncPoints == {"fuzz", "look", "demote", "scan", "import", "exit"}

\* Nothing of what f has is changed.
LEMMA QuietHolds ==
    ASSUME NEW f \in Fuzzers,
           files'[f] = files[f], resume_dir'[f] = resume_dir[f], edited'[f] = edited[f],
           lost[f] \subseteq lost'[f], f \in resumed' <=> f \in resumed
    PROVE  Holds(f) \subseteq Holds(f)' /\ FilesKeep(f)
<1>1. FullFinds(f)' = FullFinds(f)
  BY DEF FullFinds
<1>2. Trimming(f)' = Trimming(f)
  BY DEF Trimming
<1>3. FindsOf(resume_dir[f])' = FindsOf(resume_dir[f])
  BY DEF FindsOf
<1> QED
  BY <1>1, <1>2, <1>3 DEF Holds, FilesKeep

LEMMA QuietStep ==
    ASSUME IInv, NEW f \in Fuzzers,
           files'[f] = files[f], resume_dir'[f] = resume_dir[f], edited'[f] = edited[f],
           saved'[f] = saved[f], seen'[f] = seen[f], removed'[f] = removed[f],
           lost[f] \subseteq lost'[f],
           f \in resumed' <=> f \in resumed, f \in started' <=> f \in started,
           \/ pc'[f] = pc[f] /\ call'[f] = call[f]
           \/ /\ pc[f] \in SyncPoints /\ pc'[f] \in SyncPoints
              /\ pc'[f] \in {"demote", "scan", "import"} => call'[f].party \in Fuzzers
    PROVE  Orderly(f)
<1>1. Holds(f) \subseteq Holds(f)' /\ FilesKeep(f)
  BY QuietHolds
<1>2. Local(f)
  BY DEF IInv
<1>3. Absent(f)'
  BY <1>2 DEF Local, Absent, SyncPoints
<1>4. Moving(f)'
  <2>1. FullFinds(f)' = FullFinds(f) /\ FindsOf(resume_dir[f])' = FindsOf(resume_dir[f])
        /\ Linked(f)' = Linked(f) /\ Copied(f)' = Copied(f)
    BY DEF FullFinds, FindsOf, Linked, Copied
  <2> QED BY <1>2, <2>1 DEF Local, Moving, SyncPoints
<1>5. AtPoint(f)'
  BY <1>2 DEF Local, AtPoint, SyncPoints
<1>6. Pending(f)' = Pending(f)
  BY DEF Pending, SyncPoints
<1>7. Keeping(f)'
  BY <1>1, <1>2, <1>6 DEF Local, Keeping
<1> QED
  BY <1>1, <1>3, <1>4, <1>5, <1>7 DEF Orderly, Local

\* A file is added at the end.
LEMMA GrownHolds ==
    ASSUME TypeOK, TypeOK', NEW f \in Fuzzers,
           Len(files'[f]) = Len(files[f]) + 1,
           \A i \in 1..Len(files[f]) : files'[f][i] = files[f][i],
           resume_dir'[f] = resume_dir[f], edited'[f] = edited[f],
           lost[f] \subseteq lost'[f], f \in resumed' <=> f \in resumed
    PROVE  /\ Holds(f) \subseteq Holds(f)' /\ FilesKeep(f)
           /\ files'[f][Len(files[f]) + 1].on = "full" =>
                 files'[f][Len(files[f]) + 1].find \in Holds(f)'
<1> DEFINE n == Len(files[f])
<1>1. /\ files[f] \in Seq(QueueFile) /\ files'[f] \in Seq(QueueFile)
      /\ edited[f] \in Nat /\ edited[f] <= n
  BY DEF TypeOK
<1>2. n \in Nat /\ DOMAIN files[f] = 1..n /\ DOMAIN files'[f] = 1..(n + 1)
  BY <1>1
<1> HIDE DEF n
<1>3. DOMAIN files[f] \subseteq DOMAIN files'[f] /\ n + 1 \in DOMAIN files'[f]
  BY <1>2
<1>4. \A i \in DOMAIN files[f] : files'[f][i] = files[f][i]
  BY <1>2 DEF n
<1>5. FullFinds(f) \subseteq FullFinds(f)'
  BY <1>3, <1>4 DEF FullFinds
<1>6. Trimming(f)' = Trimming(f)
  <2>1. edited[f] # 0 => edited[f] \in DOMAIN files[f]
    BY <1>1, <1>2
  <2> QED BY <1>4, <2>1 DEF Trimming
<1>7. FindsOf(resume_dir[f])' = FindsOf(resume_dir[f])
  BY DEF FindsOf
<1>8. Holds(f) \subseteq Holds(f)' /\ FilesKeep(f)
  BY <1>3, <1>4, <1>5, <1>6, <1>7 DEF Holds, FilesKeep
<1>9. files'[f][n + 1].on = "full" => files'[f][n + 1].find \in FullFinds(f)'
  BY <1>3 DEF FullFinds
<1> QED
  BY <1>8, <1>9 DEF Holds, n

\* A file is changed in its place: what is complete stays complete, but for the
\* file itself.
LEMMA MarkedHolds ==
    ASSUME TypeOK, NEW f \in Fuzzers, NEW i \in DOMAIN files[f],
           NEW on \in {"full", "empty", "gone"},
           files' = [files EXCEPT ![f][i].on = on],
           resume_dir'[f] = resume_dir[f],
           lost[f] \subseteq lost'[f], f \in resumed' <=> f \in resumed,
           on = "full" \/ edited'[f] = i,
           edited[f] \in {0, i}
    PROVE  /\ Holds(f) \subseteq Holds(f)' /\ FilesKeep(f)
           /\ files[f][i].find \in Holds(f)'
<1>1. DOMAIN files[f] = 1..Len(files[f]) /\ DOMAIN files'[f] = 1..Len(files'[f])
      /\ 0 \notin DOMAIN files[f]
  <2>1. files' \in [Fuzzers -> Seq(QueueFile)]
    BY Marked
  <2>2. files[f] \in Seq(QueueFile) /\ files'[f] \in Seq(QueueFile)
    BY <2>1 DEF TypeOK
  <2> QED BY <2>2
<1>2. /\ DOMAIN files'[f] = DOMAIN files[f]
      /\ \A j \in DOMAIN files[f] : /\ files'[f][j].find = files[f][j].find
                                    /\ j # i => files'[f][j].on = files[f][j].on
      /\ files'[f][i].on = on
  <2>1. Len(files'[f]) = Len(files[f])
    BY Marked
  <2>2. \A j \in 1..Len(files[f]) : files'[f][j].find = files[f][j].find
    BY Marked
  <2>3. \A j \in 1..Len(files[f]) : j # i => files'[f][j].on = files[f][j].on
    BY Marked
  <2>4. files'[f][i].on = on
    BY Marked
  <2> QED BY <1>1, <2>1, <2>2, <2>3, <2>4
<1>3. FilesKeep(f)
  BY <1>2 DEF FilesKeep
<1>4. FullFinds(f) \subseteq FullFinds(f)' \cup {files[f][i].find}
  BY <1>2 DEF FullFinds
<1>5. Trimming(f) \subseteq {files[f][i].find}
  BY DEF Trimming
<1>6. files[f][i].find \in FullFinds(f)' \cup Trimming(f)'
  <2>1. CASE on = "full"
    BY <1>2, <2>1 DEF FullFinds
  <2>2. CASE edited'[f] = i
    BY <1>1, <1>2, <2>2 DEF Trimming
  <2> QED BY <2>1, <2>2
<1>7. FindsOf(resume_dir[f])' = FindsOf(resume_dir[f])
  BY DEF FindsOf
<1> QED
  BY <1>3, <1>4, <1>5, <1>6, <1>7 DEF Holds

\* Away from the start of a session there is no _resume/.
LEMMA NoInputDir ==
    ASSUME IInv, NEW f \in Fuzzers, pc[f] \notin {"off", "clear", "pivot", "nuke"}
    PROVE  resume_dir[f] = <<>> /\ f \in started
  BY DEF IInv, Local, Moving, Absent

\* A find gets its file, which is not written yet.
LEMMA CreateOrderly ==
    ASSUME IInv, TypeOK', NEW f \in Fuzzers, NEW t \in Contents, CreateFile(f, t),
           pc[f] \in {"fuzz", "import"}, pc'[f] \in {"created", "keep"},
           resume_dir'[f] = resume_dir[f], edited'[f] = edited[f], saved'[f] = saved[f],
           lost'[f] = lost[f], f \in resumed' <=> f \in resumed,
           f \in started' <=> f \in started,
           pc'[f] = "keep" => pc[f] = "import" /\ call'[f].party = call[f].party
    PROVE  Orderly(f)
<1>1. /\ Len(files'[f]) = Len(files[f]) + 1 /\ Len(files[f]) \in Nat
      /\ \A i \in 1..Len(files[f]) : files'[f][i] = files[f][i]
      /\ files'[f][Len(files[f]) + 1].find = t
      /\ seen'[f] = seen[f] \cup {t}
  BY Created DEF IInv
<1>2. Holds(f) \subseteq Holds(f)' /\ FilesKeep(f)
  BY <1>1, GrownHolds DEF IInv
<1>3. Local(f) /\ resume_dir[f] = <<>> /\ f \in started
  BY NoInputDir DEF IInv
<1>4. Absent(f)' /\ Moving(f)'
  BY <1>3 DEF Absent, Moving
<1>5. files'[f] # <<>>
  BY <1>1
<1>6. AtPoint(f)'
  BY <1>3, <1>5 DEF Local, AtPoint
<1>7. Pending(f) = {} /\ Pending(f)' = {t}
  BY <1>1 DEF Pending
<1>8. Keeping(f)'
  BY <1>1, <1>2, <1>3, <1>7 DEF Local, Keeping
<1> QED
  BY <1>2, <1>4, <1>6, <1>8 DEF Orderly, Local

\* It is written.
LEMMA WriteOrderly ==
    ASSUME IInv, TypeOK', NEW f \in Fuzzers, WriteFile(f, Len(files[f])),
           pc[f] \in {"created", "keep"}, pc'[f] \in {"fuzz", "import"},
           UNCHANGED <<resume_dir, edited, seen, call, lost, resumed, started>>,
           pc[f] = "created" => pc'[f] = "fuzz"
    PROVE  Orderly(f)
<1> DEFINE i == Len(files[f])
<1>1. i \in DOMAIN files[f]
  BY WrittenFile
<1>2. Local(f) /\ resume_dir[f] = <<>> /\ f \in started /\ TypeOK
  BY NoInputDir DEF IInv
<1>3. edited[f] = 0
  BY <1>2 DEF Local, AtPoint
<1>4. files' = [files EXCEPT ![f][i].on = "full"]
      /\ saved'[f] = saved[f] \cup {files[f][i].find}
  BY <1>2 DEF WriteFile, TypeOK
<1> HIDE DEF i
<1>5. /\ Holds(f) \subseteq Holds(f)' /\ FilesKeep(f)
      /\ files[f][i].find \in Holds(f)'
  BY <1>1, <1>2, <1>3, <1>4, MarkedHolds
<1>6. Absent(f)' /\ Moving(f)'
  BY <1>2 DEF Absent, Moving
<1>7. AtPoint(f)'
  BY <1>2, <1>3 DEF Local, AtPoint
<1>8. Pending(f) = {files[f][i].find}
  BY DEF Pending, i
<1>9. Keeping(f)'
  BY <1>2, <1>4, <1>5, <1>8 DEF Local, Keeping
<1> QED
  BY <1>5, <1>6, <1>7, <1>9 DEF Orderly, Local

\* A file is replaced by its trimmed version, in three steps.
LEMMA TrimOrderly ==
    ASSUME IInv, TypeOK', NEW f \in Fuzzers, NEW i \in DOMAIN files[f],
           NEW on \in {"full", "empty", "gone"},
           files' = [files EXCEPT ![f][i].on = on],
           pc[f] \in {"fuzz", "unlinked", "truncated"},
           pc'[f] \in {"fuzz", "unlinked", "truncated"},
           pc[f] # "fuzz" => edited[f] = i,
           edited'[f] = IF pc'[f] = "fuzz" THEN 0 ELSE i,
           pc'[f] = "fuzz" => on = "full",
           saved'[f] \subseteq saved[f] \cup {files[f][i].find},
           UNCHANGED <<resume_dir, seen, call, lost, resumed, started>>
    PROVE  Orderly(f)
<1>1. Local(f) /\ resume_dir[f] = <<>> /\ f \in started /\ TypeOK
  BY NoInputDir DEF IInv
<1>2. edited[f] \in {0, i} /\ (on = "full" \/ edited'[f] = i)
  BY <1>1 DEF Local, AtPoint
<1>3. /\ Holds(f) \subseteq Holds(f)' /\ FilesKeep(f)
      /\ files[f][i].find \in Holds(f)'
  BY <1>1, <1>2, MarkedHolds
<1>4. Absent(f)' /\ Moving(f)'
  BY <1>1 DEF Absent, Moving
<1>5. i # 0
  BY <1>1 DEF TypeOK
<1>6. AtPoint(f)'
  BY <1>1, <1>5 DEF AtPoint
<1>7. Pending(f) = {} /\ Pending(f)' = {}
  BY DEF Pending
<1>8. Keeping(f)'
  BY <1>1, <1>3, <1>7 DEF Local, Keeping
<1> QED
  BY <1>3, <1>4, <1>6, <1>8 DEF Orderly, Local

\* A first session begins, with nothing.
LEMMA StartOrderly ==
    ASSUME IInv, NEW f \in Fuzzers, Start(f)
    PROVE  Orderly(f)
<1>1. Local(f) /\ TypeOK
  BY DEF IInv
<1>2. /\ pc[f] = "off" /\ files[f] = <<>> /\ f \notin resumed /\ edited[f] = 0
  BY <1>1 DEF Start, Local, Absent, AtPoint
<1>3. /\ files'[f] = files[f] /\ edited'[f] = edited[f] /\ lost'[f] = lost[f]
      /\ saved'[f] = saved[f] /\ seen'[f] = seen[f] /\ f \notin resumed'
      /\ resume_dir'[f] = <<[find |-> Seed, id |-> 1, name |-> 0]>> /\ pc'[f] = "pivot"
      /\ f \in started'
  BY <1>1, <1>2 DEF Start, SetUp, Go, TypeOK, histVars
<1>4. FullFinds(f)' = FullFinds(f) /\ Trimming(f)' = Trimming(f)
  BY <1>3 DEF FullFinds, Trimming
<1>5. Holds(f) \subseteq Holds(f)'
  BY <1>2, <1>3, <1>4 DEF Holds
<1>6. FilesKeep(f)
  BY <1>3 DEF FilesKeep
<1>7. Absent(f)'
  BY <1>3 DEF Absent
<1>8. Len(files'[f]) = 0 /\ Len(resume_dir'[f]) = 1 /\ resume_dir'[f] # <<>>
  BY <1>2, <1>3
<1>9. Moving(f)'
  BY <1>3, <1>8 DEF Moving, Linked
<1>10. AtPoint(f)'
  BY <1>2, <1>3, <1>8 DEF AtPoint
<1>11. Pending(f)' = {} /\ Pending(f) = {}
  BY <1>2, <1>3 DEF Pending
<1>12. Keeping(f)'
  BY <1>1, <1>3, <1>5, <1>11 DEF Keeping, Local
<1> QED
  BY <1>5, <1>6, <1>7, <1>9, <1>10, <1>12 DEF Orderly, Local

\* A resume moves the queue away, or leaves it where it is when the earlier one
\* is still there.
LEMMA ResumeOrderly ==
    ASSUME IInv, NEW f \in Fuzzers, Resume(f)
    PROVE  Orderly(f)
<1>1. Local(f) /\ TypeOK
  BY DEF IInv
<1>2. pc[f] = "off" /\ edited[f] = 0 /\ f \in started
  BY <1>1 DEF Resume, Running, Local, AtPoint
<1>3. /\ files'[f] = IF resume_dir[f] = <<>> THEN <<>> ELSE files[f]
      /\ edited'[f] = 0 /\ lost'[f] = lost[f] /\ removed'[f] = removed[f]
      /\ saved'[f] = saved[f] /\ seen'[f] = seen[f] /\ f \in resumed' /\ f \in started'
      /\ resume_dir'[f] = InDir(f) /\ pc'[f] = "clear" /\ InDir(f) # <<>>
  BY <1>1, <1>2 DEF Resume, Go, TypeOK
<1>4. FullFinds(f) \cup FindsOf(resume_dir[f]) \subseteq FullFinds(f)' \cup FindsOf(InDir(f))
      /\ Copied(f)'
  <2>1. CASE resume_dir[f] # <<>>
    <3>1. files'[f] = files[f] /\ InDir(f) = resume_dir[f]
      BY <1>3, <2>1 DEF InDir
    <3>2. FullFinds(f)' = FullFinds(f) /\ FindsOf(resume_dir[f])' = FindsOf(resume_dir[f])
      BY <1>3, <3>1 DEF FullFinds, FindsOf
    <3>3. Copied(f)
      BY <1>1, <1>2, <2>1 DEF Local, Moving
    <3> QED BY <1>3, <3>1, <3>2, <3>3 DEF Copied
  <2>2. CASE resume_dir[f] = <<>>
    <3>1. FindsOf(InDir(f)) = FullFinds(f)
      BY <1>1, <2>2, OldQueueFinds DEF InDir
    <3>2. FindsOf(resume_dir[f]) = {} /\ files'[f] = <<>>
      BY <1>3, <2>2 DEF FindsOf
    <3> QED BY <3>1, <3>2 DEF Copied
  <2> QED BY <2>1, <2>2
<1>5. FindsOf(resume_dir[f])' = FindsOf(InDir(f))
  BY <1>3 DEF FindsOf
<1>6. Trimming(f) = {}
  BY <1>2 DEF Trimming
<1>7. Holds(f) \subseteq Holds(f)'
  BY <1>3, <1>4, <1>5, <1>6 DEF Holds
<1>8. FilesKeep(f)
  BY <1>3 DEF FilesKeep
<1>9. Absent(f)' /\ AtPoint(f)' /\ Moving(f)'
  BY <1>3, <1>4 DEF Absent, AtPoint, Moving
<1>10. Pending(f)' = {} /\ Pending(f) = {}
  BY <1>2, <1>3 DEF Pending
<1>11. Keeping(f)'
  BY <1>1, <1>3, <1>7, <1>10 DEF Keeping, Local
<1> QED
  BY <1>7, <1>8, <1>9, <1>11 DEF Orderly, Local

\* A file of a queue that was not moved away is unlinked: its test case is in
\* _resume/, or nuke_resume_dir has unlinked that copy before and it is lost.
LEMMA ClearOrderly ==
    ASSUME IInv, NEW f \in Fuzzers, NEW i \in DOMAIN files[f], ClearFile(f, i)
    PROVE  Orderly(f)
<1> DEFINE t == files[f][i].find
<1>1. Local(f) /\ TypeOK
  BY DEF IInv
<1>2. /\ pc[f] = "clear" /\ files' = [files EXCEPT ![f][i].on = "gone"]
      /\ resume_dir' = resume_dir /\ pc' = pc /\ seen' = seen /\ edited' = edited
      /\ saved' = saved /\ removed' = removed /\ resumed' = resumed /\ started' = started
      /\ call' = call /\ lost'[f] = lost[f] \cup ({t} \cap removed[f])
  BY <1>1 DEF ClearFile, memVars, TypeOK
<1>3. resume_dir[f] # <<>> /\ edited[f] = 0 /\ f \in resumed /\ Copied(f)
  BY <1>1, <1>2 DEF Local, AtPoint, Moving
<1>4. /\ DOMAIN files'[f] = DOMAIN files[f]
      /\ \A j \in DOMAIN files[f] : /\ files'[f][j].find = files[f][j].find
                                    /\ j # i => files'[f][j].on = files[f][j].on
  <2> HIDE DEF t
  <2>1. /\ files' \in [Fuzzers -> Seq(QueueFile)] /\ Len(files'[f]) = Len(files[f])
    BY <1>1, <1>2, Marked
  <2>4. \A j \in 1..Len(files[f]) : files'[f][j].find = files[f][j].find
    BY <1>1, <1>2, Marked
  <2>5. \A j \in 1..Len(files[f]) : j # i => files'[f][j].on = files[f][j].on
    BY <1>1, <1>2, Marked
  <2>2. files[f] \in Seq(QueueFile) /\ files'[f] \in Seq(QueueFile)
    BY <1>1, <2>1 DEF TypeOK
  <2>3. DOMAIN files[f] = 1..Len(files[f]) /\ DOMAIN files'[f] = 1..Len(files'[f])
    BY <2>2
  <2> QED BY <2>1, <2>3, <2>4, <2>5
<1>5. FullFinds(f) \subseteq FullFinds(f)' \cup {t}
  BY <1>4 DEF FullFinds
<1>6. FindsOf(resume_dir[f])' = FindsOf(resume_dir[f])
  BY <1>2 DEF FindsOf
<1>7. t \in FindsOf(resume_dir[f]) \cup lost'[f]
  BY <1>2, <1>3 DEF Copied
<1>8. Trimming(f) = {}
  BY <1>3 DEF Trimming
<1>9. Holds(f) \subseteq Holds(f)'
  <2> HIDE DEF t
  <2> QED BY <1>2, <1>3, <1>5, <1>6, <1>7, <1>8 DEF Holds
<1>10. FilesKeep(f) /\ Absent(f)' /\ AtPoint(f)'
  BY <1>1, <1>2, <1>3 DEF FilesKeep, Local, Absent, AtPoint
<1>11. Copied(f)'
  <2>1. \A j \in DOMAIN files[f] : files[f][j].find \in FindsOf(resume_dir[f]) \cup removed[f]
    BY <1>3 DEF Copied
  <2> HIDE DEF t
  <2> QED BY <1>2, <1>4, <1>6, <2>1 DEF Copied
<1>12. Moving(f)'
  BY <1>2, <1>3, <1>11 DEF Moving
<1>13. Pending(f)' = {} /\ Pending(f) = {}
  BY <1>2 DEF Pending
<1>14. Keeping(f)'
  BY <1>1, <1>2, <1>9, <1>13 DEF Keeping, Local
<1> QED
  BY <1>9, <1>10, <1>12, <1>14 DEF Orderly, Local

\* The new queue is empty, and _resume/ is where the test cases are.
LEMMA EndClearOrderly ==
    ASSUME IInv, NEW f \in Fuzzers, EndClear(f)
    PROVE  Orderly(f)
<1>1. Local(f) /\ TypeOK
  BY DEF IInv
<1>2. /\ pc[f] = "clear" /\ pc'[f] = "pivot" /\ files'[f] = <<>>
      /\ \A i \in DOMAIN files[f] : files[f][i].on = "gone"
      /\ resume_dir' = resume_dir /\ seen' = seen /\ edited' = edited
      /\ saved' = saved /\ lost' = lost /\ resumed' = resumed /\ started' = started
      /\ call' = call
  BY <1>1 DEF EndClear, SetUp, Go, TypeOK
<1>3. resume_dir[f] # <<>> /\ edited[f] = 0 /\ f \in resumed /\ f \in started
  BY <1>1, <1>2 DEF Local, AtPoint, Moving, Absent
<1>4. FullFinds(f) = {} /\ Trimming(f) = {}
  BY <1>2, <1>3 DEF FullFinds, Trimming
<1>5. FindsOf(resume_dir[f])' = FindsOf(resume_dir[f])
  BY <1>2 DEF FindsOf
<1>6. Holds(f) \subseteq Holds(f)'
  BY <1>2, <1>4, <1>5 DEF Holds
<1>7. FilesKeep(f) /\ Absent(f)' /\ AtPoint(f)'
  BY <1>1, <1>2, <1>3 DEF FilesKeep, Local, Absent, AtPoint
<1>8. Moving(f)'
  <2>1. Len(files'[f]) = 0 /\ Len(resume_dir[f]) \in Nat
    BY <1>1, <1>2 DEF TypeOK
  <2> QED BY <1>2, <2>1 DEF Moving, Linked
<1>9. Pending(f)' = {} /\ Pending(f) = {}
  BY <1>2 DEF Pending
<1>10. Keeping(f)'
  BY <1>1, <1>2, <1>6, <1>9 DEF Keeping, Local
<1> QED
  BY <1>6, <1>7, <1>8, <1>10 DEF Orderly, Local

\* A file of _resume/ is linked to the queue.
LEMMA PivotOrderly ==
    ASSUME IInv, TypeOK', NEW f \in Fuzzers, Pivot(f)
    PROVE  Orderly(f)
<1> DEFINE n == Len(files[f])
           t == resume_dir[f][n + 1].find
<1>1. Local(f) /\ TypeOK
  BY DEF IInv
<1>2. /\ Len(files'[f]) = n + 1 /\ n \in Nat
      /\ \A i \in 1..n : files'[f][i] = files[f][i]
      /\ n + 1 \in DOMAIN resume_dir[f]
      /\ files'[f][n + 1].find = t /\ files'[f][n + 1].on = "full"
  BY <1>1, Pivoted
<1>3. /\ resume_dir' = resume_dir /\ edited' = edited /\ lost' = lost /\ resumed' = resumed
      /\ started' = started /\ seen' = seen /\ call' = call /\ pc' = pc
      /\ pc[f] = "pivot" /\ saved'[f] = saved[f] \cup {t}
  BY <1>1 DEF Pivot, memVars, TypeOK
<1>4. Holds(f) \subseteq Holds(f)' /\ FilesKeep(f) /\ t \in Holds(f)'
  BY <1>1, <1>2, <1>3, GrownHolds
<1>5. Absent(f)' /\ AtPoint(f)'
  BY <1>1, <1>3 DEF Local, Absent, AtPoint
<1>6. n + 1 <= Len(resume_dir[f]) /\ resume_dir[f] # <<>>
  <2>1. resume_dir[f] \in Seq(InputFile)
    BY <1>1 DEF TypeOK
  <2> QED BY <1>2, <2>1
<1> HIDE DEF n, t
<1>7. \A i \in 1..(n + 1) : files'[f][i].on = "full"
                            /\ files'[f][i].find = resume_dir[f][i].find
  <2>1. \A i \in 1..n : files[f][i].on = "full" /\ files[f][i].find = resume_dir[f][i].find
    BY <1>1, <1>3, <1>6 DEF Local, Moving, Linked, n
  <2>2. \A i \in 1..(n + 1) : i \in 1..n \/ i = n + 1
    BY <1>2
  <2>3. files'[f][n + 1].find = resume_dir[f][n + 1].find
    BY <1>2 DEF t
  <2> QED BY <1>2, <2>1, <2>2, <2>3
<1>8. Moving(f)'
  BY <1>2, <1>3, <1>6, <1>7 DEF Moving, Linked
<1>9. Pending(f)' = {} /\ Pending(f) = {}
  BY <1>3 DEF Pending
<1>10. Keeping(f)'
  BY <1>1, <1>3, <1>4, <1>9 DEF Keeping, Local
<1> QED
  BY <1>4, <1>5, <1>8, <1>10 DEF Orderly, Local

\* The last one has been linked, and the queue has them all.
LEMMA EndPivotOrderly ==
    ASSUME IInv, NEW f \in Fuzzers, EndPivot(f)
    PROVE  Orderly(f)
<1>1. Local(f) /\ TypeOK
  BY DEF IInv
<1>2. /\ pc[f] = "pivot" /\ Len(files[f]) = Len(resume_dir[f])
      /\ files' = files /\ edited' = edited /\ lost' = lost /\ saved' = saved
      /\ resumed' = resumed /\ started' = started /\ call' = call /\ removed' = removed
  BY DEF EndPivot, histVars
<1>3. files[f] \in Seq(QueueFile) /\ resume_dir[f] \in Seq(InputFile)
  BY <1>1 DEF TypeOK
<1>4. resume_dir[f] # <<>> /\ edited[f] = 0
  BY <1>1, <1>2 DEF Local, AtPoint
<1>5. \A i \in 1..Len(files[f]) : files[f][i].on = "full"
                                  /\ files[f][i].find = resume_dir[f][i].find
  BY <1>1, <1>2, <1>4 DEF Local, Moving, Linked
<1>6. DOMAIN files[f] = 1..Len(files[f]) /\ DOMAIN resume_dir[f] = 1..Len(files[f])
  BY <1>2, <1>3
<1>7. FindsOf(resume_dir[f]) \subseteq FullFinds(f) /\ FindsOf(files[f]) \subseteq FullFinds(f)
      /\ FindsOf(files[f]) \subseteq FindsOf(resume_dir[f])
  BY <1>5, <1>6 DEF FindsOf, FullFinds
<1>8. FullFinds(f)' = FullFinds(f) /\ Trimming(f)' = Trimming(f)
  BY <1>2 DEF FullFinds, Trimming
<1>9. Holds(f) \subseteq Holds(f)' /\ FullFinds(f) \subseteq Holds(f)'
  BY <1>2, <1>7, <1>8 DEF Holds
<1>10. FilesKeep(f)
  BY <1>2 DEF FilesKeep
<1>11. CASE f \in resumed
  <2>1. pc'[f] = "nuke" /\ resume_dir' = resume_dir /\ seen' = seen
    BY <1>1, <1>11 DEF EndPivot, Go, TypeOK
  <2>2. FindsOf(resume_dir[f])' = FindsOf(resume_dir[f])
    BY <2>1 DEF FindsOf
  <2>3. \A i \in DOMAIN files[f] : files[f][i].find \in FindsOf(resume_dir[f])
    BY <1>7 DEF FindsOf
  <2>4. Copied(f)'
    BY <1>2, <2>2, <2>3 DEF Copied
  <2>5. Moving(f)'
    BY <1>2, <1>7, <1>8, <1>11, <2>1, <2>2, <2>4 DEF Moving
  <2>6. Absent(f)' /\ AtPoint(f)'
    BY <1>1, <1>2, <1>4, <1>5, <1>6, <2>1 DEF Local, Absent, AtPoint
  <2>7. Pending(f)' = {} /\ Pending(f) = {}
    BY <1>2, <2>1 DEF Pending
  <2>8. Keeping(f)'
    BY <1>1, <1>2, <1>9, <2>1, <2>7 DEF Keeping, Local
  <2> QED BY <1>9, <1>10, <2>5, <2>6, <2>8 DEF Orderly, Local
<1>12. CASE f \notin resumed
  <2>1. pc'[f] = "fuzz" /\ resume_dir'[f] = <<>> /\ seen'[f] = FindsOf(files[f])
    BY <1>1, <1>12 DEF EndPivot, DryRun, Go, TypeOK
  <2>2. Absent(f)' /\ Moving(f)' /\ AtPoint(f)'
    BY <1>1, <1>2, <1>4, <2>1 DEF Local, Absent, Moving, AtPoint
  <2>3. Keeping(f)'
    BY <1>1, <1>2, <1>7, <1>9, <2>1 DEF Keeping, Local
  <2> QED BY <1>9, <1>10, <2>2, <2>3 DEF Orderly, Local
<1> QED
  BY <1>11, <1>12

\* A file of _resume/ is unlinked: the queue has its test case.
LEMMA NukeOrderly ==
    ASSUME IInv, NEW f \in Fuzzers, NEW i \in DOMAIN resume_dir[f], NukeFile(f, i)
    PROVE  Orderly(f)
<1> DEFINE t == resume_dir[f][i].find
<1>1. Local(f) /\ TypeOK /\ resume_dir[f] \in Seq(InputFile)
  BY DEF IInv, TypeOK
<1>2. /\ pc[f] = "nuke" /\ files' = files /\ pc' = pc /\ seen' = seen /\ edited' = edited
      /\ saved' = saved /\ lost' = lost /\ resumed' = resumed /\ started' = started
      /\ call' = call /\ removed'[f] = removed[f] \cup {t}
      /\ resume_dir'[f] = RemoveAt(resume_dir[f], i)
  BY <1>1 DEF NukeFile, memVars, TypeOK
<1>3. resume_dir[f] # <<>> /\ DOMAIN files[f] = DOMAIN files'[f]
  BY <1>1, <1>2
<1>4. f \in resumed /\ Copied(f) /\ FindsOf(resume_dir[f]) \subseteq FullFinds(f)
  BY <1>1, <1>2, <1>3 DEF Local, Moving
<1>5. /\ FindsOf(resume_dir'[f]) \subseteq FindsOf(resume_dir[f])
      /\ FindsOf(resume_dir[f]) \subseteq FindsOf(resume_dir'[f]) \cup {t}
  BY <1>1, <1>2, RemovedFile
<1>6. FindsOf(resume_dir[f])' = FindsOf(resume_dir'[f])
  BY DEF FindsOf
<1>7. FullFinds(f)' = FullFinds(f) /\ Trimming(f)' = Trimming(f)
  BY <1>2 DEF FullFinds, Trimming
<1> HIDE DEF t
<1>8. Holds(f) \subseteq Holds(f)'
  BY <1>2, <1>4, <1>7 DEF Holds
<1>9. FilesKeep(f) /\ Absent(f)' /\ AtPoint(f)'
  BY <1>1, <1>2, <1>4 DEF FilesKeep, Local, Absent, AtPoint
<1>10. Copied(f)'
  <2>1. \A j \in DOMAIN files[f] : files[f][j].find \in FindsOf(resume_dir[f]) \cup removed[f]
    BY <1>4 DEF Copied
  <2> QED BY <1>2, <1>5, <1>6, <2>1 DEF Copied
<1>11. Moving(f)'
  BY <1>2, <1>4, <1>5, <1>6, <1>7, <1>10 DEF Moving
<1>12. Pending(f)' = {} /\ Pending(f) = {}
  BY <1>2 DEF Pending
<1>13. Keeping(f)'
  BY <1>1, <1>2, <1>8, <1>12 DEF Keeping, Local
<1> QED
  BY <1>8, <1>9, <1>11, <1>13 DEF Orderly, Local

\* _resume/ is gone, and the queue is complete.
LEMMA EndNukeOrderly ==
    ASSUME IInv, NEW f \in Fuzzers, EndNuke(f)
    PROVE  Orderly(f)
<1>1. Local(f) /\ TypeOK
  BY DEF IInv
<1>2. /\ pc[f] = "nuke" /\ pc'[f] = "fuzz" /\ resume_dir[f] = <<>> /\ resume_dir' = resume_dir
      /\ seen'[f] = FindsOf(files[f])
      /\ files' = files /\ edited' = edited /\ lost' = lost /\ saved' = saved
      /\ resumed' = resumed /\ started' = started /\ call' = call
  BY <1>1 DEF EndNuke, DryRun, Go, TypeOK, diskVars
<1>3. edited[f] = 0 /\ \A i \in DOMAIN files[f] : files[f][i].on = "full"
  BY <1>1, <1>2 DEF Local, AtPoint
<1>4. Holds(f) \subseteq Holds(f)' /\ FilesKeep(f)
  BY <1>2, QuietHolds
<1>5. FindsOf(files[f]) \subseteq Holds(f)
  BY <1>3 DEF FindsOf, Holds, FullFinds
<1>6. Absent(f)' /\ Moving(f)' /\ AtPoint(f)'
  BY <1>1, <1>2, <1>3 DEF Local, Absent, Moving, AtPoint
<1>7. Keeping(f)'
  BY <1>1, <1>2, <1>4, <1>5 DEF Keeping, Local
<1> QED
  BY <1>4, <1>6, <1>7 DEF Orderly, Local

\* A process ends.  What it was trimming is lost if it is killed; on its way
\* out it trims nothing.
LEMMA EndOrderly ==
    ASSUME IInv, NEW f \in Fuzzers, Exit(f) \/ Kill(f)
    PROVE  Orderly(f)
<1>1. Local(f) /\ TypeOK
  BY DEF IInv
<1>2. /\ pc[f] # "off" /\ pc'[f] = "off" /\ seen'[f] = {} /\ edited'[f] = 0
      /\ files' = files /\ saved' = saved /\ resumed' = resumed /\ started' = started
      /\ lost[f] \subseteq lost'[f] /\ removed' = removed
      /\ Trimming(f) \subseteq lost'[f]
      /\ resume_dir'[f] = resume_dir[f] \/ (resume_dir'[f] = <<>> /\ f \notin resumed)
      /\ resume_dir'[f] # <<>> => f \in resumed
  <2>1. CASE Exit(f)
    <3>1. pc[f] = "exit" /\ edited[f] = 0
      BY <1>1, <2>1 DEF Exit, Local, AtPoint
    <3>2. Trimming(f) = {} /\ resume_dir[f] = <<>>
      BY <3>1, NoInputDir DEF Trimming
    <3> QED BY <1>1, <2>1, <3>1, <3>2 DEF Exit, EndProcess, Go, TypeOK, histVars
  <2>2. CASE Kill(f)
    BY <1>1, <2>2 DEF Kill, Running, EndProcess, Go, TypeOK
  <2> QED BY <2>1, <2>2
<1>3. FullFinds(f)' = FullFinds(f)
  BY <1>2 DEF FullFinds
<1>4. f \in resumed => FindsOf(resume_dir[f])' = FindsOf(resume_dir[f])
  BY <1>2 DEF FindsOf
<1>5. Holds(f) \subseteq Holds(f)'
  BY <1>2, <1>3, <1>4 DEF Holds
<1>6. FilesKeep(f)
  BY <1>2 DEF FilesKeep
<1>7. Absent(f)'
  BY <1>1, <1>2 DEF Local, Absent
<1>8. Moving(f)'
  <2> SUFFICES ASSUME resume_dir'[f] # <<>> PROVE Copied(f)'
    BY <1>2 DEF Moving
  <2>1. resume_dir'[f] = resume_dir[f] /\ resume_dir[f] # <<>>
    BY <1>2
  <2>2. Copied(f)
    <3>1. CASE pc[f] = "pivot"
      <4>1. Linked(f)
        BY <1>1, <2>1, <3>1 DEF Local, Moving
      <4>2. files[f] \in Seq(QueueFile) /\ resume_dir[f] \in Seq(InputFile)
        BY <1>1 DEF TypeOK
      <4>3. DOMAIN files[f] = 1..Len(files[f]) /\ DOMAIN files[f] \subseteq DOMAIN resume_dir[f]
        BY <4>1, <4>2 DEF Linked
      <4> QED BY <4>1, <4>3 DEF Linked, Copied, FindsOf
    <3>2. CASE pc[f] # "pivot"
      BY <1>1, <2>1, <3>2 DEF Local, Moving
    <3> QED BY <3>1, <3>2
  <2>3. FindsOf(resume_dir[f])' = FindsOf(resume_dir[f])
    BY <2>1 DEF FindsOf
  <2> QED BY <1>2, <2>2, <2>3 DEF Copied
<1>9. AtPoint(f)'
  BY <1>2 DEF AtPoint
<1>10. Keeping(f)'
  BY <1>1, <1>2, <1>5 DEF Local, Keeping
<1> QED
  BY <1>5, <1>6, <1>7, <1>8, <1>9, <1>10 DEF Orderly, Local

LEMMA OrderlyStep ==
    ASSUME IInv, NEW f \in Fuzzers, Act(f)
    PROVE  Orderly(f)
<1> USE DEF SyncPoints
<1>1. TypeOK /\ TypeOK' /\ Local(f)
  BY TypesStep DEF IInv
<1>2. /\ files \in [Fuzzers -> Seq(QueueFile)] /\ call \in [Fuzzers -> SyncCall]
      /\ edited \in [Fuzzers -> Nat] /\ pc \in [Fuzzers -> Points]
      /\ lost \in [Fuzzers -> SUBSET Contents] /\ saved \in [Fuzzers -> SUBSET Contents]
      /\ call[f] \in SyncCall
  BY <1>1 DEF TypeOK
<1>3. CASE Start(f)
  BY <1>3, StartOrderly
<1>4. CASE Resume(f)
  BY <1>4, ResumeOrderly
<1>5. CASE Pivot(f)
  BY <1>1, <1>5, PivotOrderly
<1>6. CASE EndPivot(f)
  BY <1>6, EndPivotOrderly
<1>7. CASE \E i \in DOMAIN files[f] : ClearFile(f, i)
  BY <1>7, ClearOrderly
<1>8. CASE EndClear(f)
  BY <1>8, EndClearOrderly
<1>9. CASE \E i \in DOMAIN resume_dir[f] : NukeFile(f, i)
  BY <1>9, NukeOrderly
<1>10. CASE EndNuke(f)
  BY <1>10, EndNukeOrderly
<1>11. CASE \E t \in Finds : Discover(f, t)
  <2> PICK t \in Finds : Discover(f, t)
    BY <1>11
  <2>1. t \in Contents /\ CreateFile(f, t) /\ pc[f] = "fuzz" /\ pc'[f] = "created"
    BY <1>2 DEF Discover, Go, Contents
  <2>2. UNCHANGED <<resume_dir, edited, saved, lost, resumed, started>>
    BY DEF Discover, histVars
  <2> QED BY <1>1, <2>1, <2>2, CreateOrderly
<1>12. CASE SaveDiscovery(f)
  <2>1. /\ WriteFile(f, Len(files[f])) /\ pc[f] = "created" /\ pc'[f] = "fuzz"
        /\ UNCHANGED <<resume_dir, edited, seen, call, lost, resumed, started>>
    BY <1>2, <1>12 DEF SaveDiscovery, Go
  <2> QED BY <1>1, <2>1, WriteOrderly
<1>13. CASE SaveImport(f)
  <2>1. /\ WriteFile(f, Len(files[f])) /\ pc[f] = "keep" /\ pc'[f] = "import"
        /\ UNCHANGED <<resume_dir, edited, seen, call, lost, resumed, started>>
    BY <1>2, <1>13 DEF SaveImport, Go
  <2> QED BY <1>1, <2>1, WriteOrderly
<1>14. CASE \E i \in DOMAIN files[f] : StartTrim(f, i)
  <2> PICK i \in DOMAIN files[f] : StartTrim(f, i)
    BY <1>14
  <2>1. /\ pc[f] = "fuzz" /\ edited'[f] = i /\ saved' = saved
        /\ UNCHANGED <<resume_dir, seen, call, lost, resumed, started>>
    BY <1>2 DEF StartTrim
  <2>2. PICK on \in {"full", "empty", "gone"} :
            /\ files' = [files EXCEPT ![f][i].on = on]
            /\ pc'[f] \in {"unlinked", "truncated"}
    BY <1>2 DEF StartTrim, Go
  <2> QED BY <1>1, <2>1, <2>2, TrimOrderly
<1>15. CASE RecreateFile(f)
  <2>1. /\ pc[f] = "unlinked" /\ pc'[f] = "truncated" /\ UNCHANGED <<saved, edited>>
        /\ files' = [files EXCEPT ![f][edited[f]].on = "empty"]
        /\ UNCHANGED <<resume_dir, seen, call, lost, resumed, started>>
    BY <1>2, <1>15 DEF RecreateFile, Go, histVars
  <2>2. edited[f] \in DOMAIN files[f]
    BY <2>1, WrittenFile
  <2> QED BY <1>1, <2>1, <2>2, TrimOrderly
<1>16. CASE SaveTrimmed(f)
  <2>1. /\ pc[f] = "truncated" /\ pc'[f] = "fuzz" /\ edited'[f] = 0
        /\ files' = [files EXCEPT ![f][edited[f]].on = "full"]
        /\ saved'[f] = saved[f] \cup {files[f][edited[f]].find}
        /\ UNCHANGED <<resume_dir, seen, call, lost, resumed, started>>
    BY <1>2, <1>16 DEF SaveTrimmed, WriteFile, Go
  <2>2. edited[f] \in DOMAIN files[f]
    BY <2>1, WrittenFile
  <2> QED BY <1>1, <2>1, <2>2, TrimOrderly
<1>17. CASE StartSync(f)
  BY <1>2, <1>17, QuietStep DEF StartSync, OpenSyncDir, Go, diskVars, histVars
<1>18. CASE \E g \in Fuzzers : Look(f, g)
  <2> PICK g \in Fuzzers : Look(f, g)
    BY <1>18
  <2>1. pc[f] = "look" /\ pc'[f] \in {"look", "demote", "scan"}
    BY <1>2 DEF Look, Go
  <2>2. pc'[f] # "look" => call'[f].party = g
    <3>1. call'[f].party = IF Skips(f, g) THEN Nobody ELSE g
      BY <1>2 DEF Look, SyncCall
    <3>2. Skips(f, g) => pc'[f] = "look"
      BY <1>2 DEF Look, Go, Skips, StepsDown
    <3> QED BY <3>1, <3>2
  <2>3. UNCHANGED <<files, resume_dir, edited, saved, seen, lost, removed, resumed, started>>
    BY DEF Look, diskVars, histVars
  <2> QED BY <2>1, <2>2, <2>3, QuietStep
<1>19. CASE StepDown(f)
  BY <1>1, <1>2, <1>19, QuietStep DEF StepDown, Go, histVars, Local, AtPoint
<1>20. CASE Scan(f)
  <2>1. pc[f] = "scan" /\ call[f].party \in Fuzzers
    BY <1>1, <1>20 DEF Scan, Local, AtPoint
  <2>2. /\ pc'[f] \in {"look", "import"}
        /\ pc'[f] = "import" => call'[f].party = call[f].party
    BY <1>2, <1>20 DEF Scan, CloseParty, Go, SyncCall
  <2>3. UNCHANGED <<files, resume_dir, edited, saved, seen, removed, resumed, started>>
    BY <1>20 DEF Scan, diskVars
  <2>4. lost[f] \subseteq lost'[f]
    BY <1>2, <1>20 DEF Scan
  <2> QED BY <2>1, <2>2, <2>3, <2>4, QuietStep
<1>21. CASE PassOver(f)
  <2>1. pc[f] = "import" /\ pc'[f] = "import" /\ call[f].party \in Fuzzers
    BY <1>1, <1>21 DEF PassOver, Local, AtPoint
  <2>2. call'[f].party = call[f].party
    BY <1>2, <1>21 DEF PassOver, NextEntry, SyncCall
  <2>3. UNCHANGED <<files, resume_dir, edited, saved, seen, removed, resumed, started>>
    BY <1>21 DEF PassOver, diskVars
  <2>4. lost[f] \subseteq lost'[f]
    BY <1>2, <1>21 DEF PassOver
  <2> QED BY <2>1, <2>2, <2>3, <2>4, QuietStep
<1>22. CASE Import(f)
  <2>1. pc[f] = "import" /\ call[f].party \in Fuzzers
    BY <1>1, <1>22 DEF Import, Local, AtPoint
  <2>2. call'[f].party = call[f].party
    BY <1>2, <1>22 DEF Import, NextEntry, SyncCall
  <2>3. UNCHANGED <<resume_dir, edited, saved, lost, removed, resumed, started>>
    BY <1>22 DEF Import, histVars
  <2>4. CASE UNCHANGED <<files, seen, pc>>
    BY <2>1, <2>2, <2>3, <2>4, QuietStep
  <2>5. CASE CreateFile(f, Head(call[f].list).find) /\ Go(f, "keep")
    <3>1. Head(call[f].list).find \in Contents
      BY <1>22, FindsTyped DEF Import
    <3>2. pc'[f] = "keep"
      BY <1>2, <2>5 DEF Go
    <3> QED BY <1>1, <2>1, <2>2, <2>3, <2>5, <3>1, <3>2, CreateOrderly
  <2> QED BY <1>22, <2>4, <2>5 DEF Import
<1>23. CASE Interrupted(f)
  BY <1>2, <1>23, QuietStep DEF Interrupted, CloseParty, Go, histVars
<1>24. CASE WritePosition(f)
  BY <1>2, <1>24, QuietStep DEF WritePosition, CloseParty, Go, histVars
<1>25. CASE EndSync(f)
  BY <1>2, <1>25, QuietStep DEF EndSync, Go, histVars
<1>26. CASE LeaveLoop(f)
  BY <1>2, <1>26, QuietStep DEF LeaveLoop, OpenSyncDir, Go, diskVars, histVars
<1>27. CASE Stop(f)
  BY <1>27, QuietStep DEF Stop, diskVars
<1>28. CASE Exit(f) \/ Kill(f)
  BY <1>28, EndOrderly
<1> QED
  BY <1>3, <1>4, <1>5, <1>6, <1>11, <1>12, <1>13, <1>14, <1>15, <1>16, <1>17, <1>18, <1>19,
     <1>20, <1>21, <1>22, <1>23, <1>24, <1>25, <1>26, <1>27, <1>28, <1>7, <1>8, <1>9,
     <1>10
  DEF Act, Step

----------------------------------------------------------------------------
(***************************************************************************)
(* What has been passed.                                                   *)
(***************************************************************************)

\* For every fuzzer, whoever makes the step.
LEMMA AllOrderly ==
    ASSUME IInv, NEW f \in Fuzzers, Act(f), NEW h \in Fuzzers
    PROVE  Orderly(h)
<1>1. CASE h = f
  BY <1>1, OrderlyStep
<1>2. CASE h # f
  <2>1. Stays(h)
    BY <1>2, OthersStay DEF IInv
  <2> QED BY <2>1, QuietStep DEF Stays
<1> QED
  BY <1>1, <1>2

LEMMA ResumedGrows ==
    ASSUME NEW f \in Fuzzers, Act(f)
    PROVE  resumed \subseteq resumed'
  BY DEF Act, Step, Start, Resume, ClearFile, EndClear, Pivot, EndPivot, NukeFile, EndNuke,
         SaveDiscovery, RecreateFile, SaveTrimmed, StartSync, Look, StepDown, Scan, PassOver, Import, SaveImport, Interrupted,
         WritePosition, EndSync, LeaveLoop, Exit, Discover, StartTrim, Stop, Kill, histVars

\* A position that stays still is one below which everything is held.
LEMMA PassedStays ==
    ASSUME IInv, NEW f \in Fuzzers, Act(f), NEW h \in Fuzzers, position'[h] = position[h]
    PROVE  Passed(h)'
<1> SUFFICES ASSUME NEW g \in Fuzzers, g \notin resumed', NEW i \in 1..position[h][g]
             PROVE  i \in DOMAIN files'[g] /\ files'[g][i].find \in Holds(h)'
  BY DEF Passed
<1>1. g \notin resumed
  BY ResumedGrows
<1>2. i \in DOMAIN files[g] /\ files[g][i].find \in Holds(h)
  BY <1>1 DEF IInv, Passed
<1>3. FilesKeep(g) /\ Holds(h) \subseteq Holds(h)'
  BY AllOrderly DEF Orderly
<1> QED
  BY <1>2, <1>3 DEF FilesKeep

\* The position that is written is one that the import has reached: all of it
\* is known, and nothing is waiting to be written.
LEMMA PassedWritten ==
    ASSUME IInv, NEW f \in Fuzzers, WritePosition(f)
    PROVE  Passed(f)'
<1> DEFINE party == call[f].party
<1>1. /\ pc[f] = "import" /\ call[f].list = <<>>
      /\ position' = [position EXCEPT ![f][party] = call[f].next]
      /\ UNCHANGED <<files, resume_dir, edited, lost, resumed>>
      /\ party \in Fuzzers
      /\ position \in [Fuzzers -> [Fuzzers -> Nat]]
      /\ call[f].next \in Nat
  BY DEF WritePosition, histVars, IInv, TypeOK, SyncCall, Local, AtPoint
<1>2. Act(f)
  BY DEF Act, Step
<1>3. Holds(f) \subseteq Holds(f)'
  BY <1>2, AllOrderly DEF Orderly
<1>4. seen[f] \subseteq Holds(f)
  BY <1>1 DEF IInv, Local, Keeping, Pending
<1>5. FindsOf(call[f].list) = {} /\ call[f].next + Len(call[f].list) = call[f].next
  BY <1>1 DEF FindsOf
<1> HIDE DEF party
<1> SUFFICES ASSUME NEW g \in Fuzzers, g \notin resumed, NEW i \in 1..position'[f][g]
             PROVE  i \in DOMAIN files[g] /\ files[g][i].find \in Holds(f)'
  BY <1>1 DEF Passed
<1>6. CASE g = party
  <2>1. i \in 1..call[f].next
    BY <1>1, <1>6
  <2>2. /\ i \in DOMAIN files[g]
        /\ files[g][i].find \in Holds(f) \cup seen[f] \cup FindsOf(call[f].list)
    BY <1>1, <1>5, <1>6, <2>1 DEF IInv, Importing, party
  <2> QED BY <1>3, <1>4, <1>5, <2>2
<1>7. CASE g # party
  <2>1. i \in 1..position[f][g]
    BY <1>1, <1>7
  <2> QED BY <1>3, <2>1 DEF IInv, Passed
<1> QED
  BY <1>6, <1>7

LEMMA PassedStep ==
    ASSUME IInv, NEW f \in Fuzzers, Act(f), NEW h \in Fuzzers
    PROVE  Passed(h)'
<1>1. CASE h # f
  <2>1. Stays(h)
    BY <1>1, OthersStay DEF IInv
  <2> QED BY <2>1, PassedStays DEF Stays
<1>2. CASE h = f /\ WritePosition(f)
  BY <1>2, PassedWritten
<1>3. CASE h = f /\ ~WritePosition(f)
  <2>1. position' = position
    BY <1>3 DEF Act, Step, Start, Resume, ClearFile, EndClear, Pivot, EndPivot, NukeFile,
         EndNuke, SaveDiscovery, RecreateFile, SaveTrimmed, StartSync, Look, StepDown, Scan, PassOver, Import, SaveImport,
         Interrupted, PositionAfterStop, EndSync, LeaveLoop, Exit, Discover, StartTrim,
         Stop, Kill, diskVars
  <2> QED BY <1>3, <2>1, PassedStays
<1> QED
  BY <1>1, <1>2, <1>3

\* The list becomes shorter, and what leaves it is known or given up.
LEMMA ImportingMoves ==
    ASSUME IInv, NEW f \in Fuzzers, Act(f), NEW h \in Fuzzers,
           pc[h] \in {"import", "keep"},
           call'[h].party = call[h].party,
           call'[h].next + Len(call'[h].list) = call[h].next + Len(call[h].list),
           FindsOf(call[h].list) \subseteq Holds(h)' \cup seen'[h] \cup FindsOf(call'[h].list),
           seen[h] \subseteq seen'[h]
    PROVE  Importing(h)'
<1> DEFINE g == call[h].party
           n == call[h].next + Len(call[h].list)
<1> SUFFICES ASSUME g \notin resumed', NEW i \in 1..n
             PROVE  /\ i \in DOMAIN files'[g]
                    /\ files'[g][i].find \in Holds(h)' \cup seen'[h] \cup FindsOf(call'[h].list)
  BY DEF Importing, FindsOf
<1>1. g \notin resumed /\ g \in Fuzzers
  BY ResumedGrows DEF IInv, Local, AtPoint
<1>2. /\ i \in DOMAIN files[g]
      /\ files[g][i].find \in Holds(h) \cup seen[h] \cup FindsOf(call[h].list)
  BY <1>1 DEF IInv, Importing
<1>3. FilesKeep(g) /\ Holds(h) \subseteq Holds(h)'
  BY <1>1, AllOrderly DEF Orderly
<1> QED
  BY <1>2, <1>3 DEF FilesKeep

\* The head of the list, and the rest of it.
LEMMA ListTail ==
    ASSUME NEW list \in Seq(Entry), list # <<>>, NEW next \in Nat
    PROVE  /\ (next + 1) + Len(Tail(list)) = next + Len(list)
           /\ FindsOf(list) \subseteq {Head(list).find} \cup FindsOf(Tail(list))
<1>1. /\ Len(Tail(list)) = Len(list) - 1 /\ Len(list) \in Nat
      /\ DOMAIN list = 1..Len(list) /\ DOMAIN Tail(list) = 1..(Len(list) - 1)
      /\ Head(list) = list[1]
      /\ \A k \in 1..(Len(list) - 1) : Tail(list)[k] = list[k + 1]
  OBVIOUS
<1>2. ASSUME NEW k \in DOMAIN list
      PROVE  list[k].find \in {Head(list).find} \cup FindsOf(Tail(list))
  <2>1. CASE k = 1
    BY <1>1, <2>1
  <2>2. CASE k # 1
    <3>1. k - 1 \in DOMAIN Tail(list) /\ Tail(list)[k - 1] = list[k]
      BY <1>1, <2>2
    <3> QED BY <3>1 DEF FindsOf
  <2> QED BY <2>1, <2>2
<1>3. FindsOf(list) \subseteq {Head(list).find} \cup FindsOf(Tail(list))
  BY <1>2 DEF FindsOf
<1> QED
  BY <1>1, <1>3

\* A directory has been listed: what lies below the old position is held, what
\* is being replaced counts as lost, and the rest is in the list.
LEMMA ImportingStarts ==
    ASSUME IInv, NEW f \in Fuzzers, Scan(f), pc'[f] = "import"
    PROVE  Importing(f)'
<1> DEFINE g == call[f].party
           id == position[f][g]
           list == Listed(g, id)
           gap == {i \in DOMAIN files[g] : /\ i > id /\ i <= id + Len(list)
                                           /\ files[g][i].on = "gone"}
<1>1. /\ g \in Fuzzers /\ id \in Nat /\ files[g] \in Seq(QueueFile) /\ TypeOK
      /\ call \in [Fuzzers -> SyncCall] /\ call[f] \in SyncCall
      /\ lost \in [Fuzzers -> SUBSET Contents] /\ pc \in [Fuzzers -> Points]
  BY DEF IInv, TypeOK, Local, AtPoint, Scan
<1>2. /\ list \in Seq(Entry)
      /\ id <= Len(files[g]) => id + Len(list) <= Len(files[g])
      /\ \A i \in DOMAIN files[g] : i > id /\ files[g][i].on # "gone" =>
            files[g][i].find \in FindsOf(list)
  BY <1>1, ListedFiles
<1>3. /\ call' = [call EXCEPT ![f].list = list, ![f].next = id]
      /\ lost' = [lost EXCEPT ![f] = lost[f] \cup {files[g][i].find : i \in gap}]
      /\ UNCHANGED <<files, resume_dir, edited, resumed, seen>>
  BY <1>1 DEF Scan, CloseParty, Go, diskVars
<1> HIDE DEF list
<1>4. call'[f].list = list /\ call'[f].next = id /\ call'[f].party = g
  BY <1>1, <1>3 DEF SyncCall
<1>5. Act(f)
  BY DEF Act, Step
<1>6. Holds(f) \subseteq Holds(f)' /\ lost'[f] \subseteq Holds(f)'
  BY <1>5, AllOrderly DEF Orderly, Holds
<1>7. {files[g][i].find : i \in gap} \subseteq Holds(f)'
  BY <1>1, <1>3, <1>6
<1> SUFFICES ASSUME g \notin resumed, NEW i \in 1..(id + Len(list))
             PROVE  i \in DOMAIN files[g]
                    /\ files[g][i].find \in Holds(f)' \cup seen[f] \cup FindsOf(list)
  <2>1. FindsOf(call[f].list)' = FindsOf(list)
    BY <1>4 DEF FindsOf
  <2>2. files' = files /\ resumed' = resumed /\ seen' = seen
    BY <1>3
  <2> HIDE DEF g, id, gap
  <2> QED BY <1>4, <2>1, <2>2 DEF Importing
<1>8. \A k \in 1..id : k \in DOMAIN files[g] /\ files[g][k].find \in Holds(f)
  BY <1>1 DEF IInv, Passed
<1>9. DOMAIN files[g] = 1..Len(files[g]) /\ Len(files[g]) \in Nat /\ Len(list) \in Nat
  BY <1>1, <1>2
<1>10. id <= Len(files[g])
  <2>1. id = 0 \/ id \in 1..id
    BY <1>1
  <2> HIDE DEF id
  <2> QED BY <1>1, <1>8, <1>9, <2>1
<1>11. i \in DOMAIN files[g]
  <2>1. id + Len(list) <= Len(files[g])
    BY <1>2, <1>10
  <2> HIDE DEF id, g
  <2> QED BY <1>1, <1>9, <2>1
<1>12. CASE i \in 1..id
  BY <1>6, <1>8, <1>11, <1>12
<1>13. CASE i \notin 1..id
  <2>1. i > id /\ i <= id + Len(list)
    <3> HIDE DEF id
    <3> QED BY <1>1, <1>9, <1>13
  <2>2. CASE files[g][i].on = "gone"
    <3>1. i \in gap
      BY <1>11, <2>1, <2>2
    <3> HIDE DEF gap
    <3> QED BY <1>7, <1>11, <3>1
  <2>3. CASE files[g][i].on # "gone"
    BY <1>2, <1>11, <2>1, <2>3
  <2> QED BY <2>2, <2>3
<1> QED
  BY <1>12, <1>13

LEMMA ImportingStep ==
    ASSUME IInv, NEW f \in Fuzzers, Act(f), NEW h \in Fuzzers
    PROVE  Importing(h)'
<1>1. CASE h # f
  <2>1. Stays(h)
    BY <1>1, OthersStay DEF IInv
  <2>2. CASE pc[h] \in {"import", "keep"}
    <3>1. FindsOf(call[h].list) \subseteq FindsOf(call'[h].list)
      BY <2>1 DEF Stays, FindsOf
    <3> QED BY <2>1, <2>2, <3>1, ImportingMoves DEF Stays
  <2>3. CASE pc[h] \notin {"import", "keep"}
    BY <2>1, <2>3 DEF Stays, Importing
  <2> QED BY <2>2, <2>3
<1>2. CASE h = f
  <2>1. /\ call \in [Fuzzers -> SyncCall] /\ call[f] \in SyncCall /\ pc \in [Fuzzers -> Points]
        /\ lost \in [Fuzzers -> SUBSET Contents] /\ seen \in [Fuzzers -> SUBSET Contents]
        /\ call[f].list \in Seq(Entry) /\ call[f].next \in Nat /\ TypeOK
    BY DEF IInv, TypeOK, SyncCall
  <2>2. ASSUME NextEntry(f), call[f].list # <<>>
        PROVE  /\ call'[f].party = call[f].party
               /\ call'[f].list = Tail(call[f].list)
               /\ call'[f].next + Len(call'[f].list) = call[f].next + Len(call[f].list)
               /\ FindsOf(call[f].list) \subseteq {Head(call[f].list).find} \cup FindsOf(call'[f].list)
    <3>1. /\ call'[f].party = call[f].party
          /\ call'[f].list = Tail(call[f].list)
          /\ call'[f].next = call[f].next + 1
      BY <2>1, <2>2 DEF NextEntry, SyncCall
    <3>2. /\ (call[f].next + 1) + Len(Tail(call[f].list)) = call[f].next + Len(call[f].list)
          /\ FindsOf(call[f].list)
                \subseteq {Head(call[f].list).find} \cup FindsOf(Tail(call[f].list))
      BY <2>1, <2>2, ListTail
    <3>3. FindsOf(call'[f].list) = FindsOf(Tail(call[f].list))
      BY <3>1 DEF FindsOf
    <3> QED BY <3>1, <3>2, <3>3
  <2>3. CASE pc'[f] \notin {"import", "keep"}
    BY <1>2, <2>3 DEF Importing
  <2>4. CASE Scan(f)
    BY <1>2, <2>3, <2>4, ImportingStarts, <2>1 DEF Scan, CloseParty, Go
  <2>5. CASE PassOver(f)
    <3>1. Head(call[f].list).find \in lost'[f]
      BY <2>1, <2>5 DEF PassOver
    <3>2. lost'[f] \subseteq Holds(f)'
      BY DEF Holds
    <3>3. pc[f] = "import" /\ seen' = seen /\ NextEntry(f) /\ call[f].list # <<>>
      BY <2>5 DEF PassOver
    <3> QED BY <1>2, <2>2, <3>1, <3>2, <3>3, ImportingMoves
  <2>6. CASE Import(f)
    <3>1. pc[f] = "import" /\ NextEntry(f) /\ call[f].list # <<>>
      BY <2>6 DEF Import
    <3>2. Head(call[f].list).find \in seen'[f] /\ seen[f] \subseteq seen'[f]
      BY <2>1, <2>6 DEF Import, CreateFile
    <3> QED BY <1>2, <2>2, <3>1, <3>2, ImportingMoves
  <2>7. CASE UNCHANGED <<call, seen>> /\ pc[f] \in {"import", "keep"}
    <3>1. FindsOf(call[f].list) \subseteq FindsOf(call'[f].list)
      BY <2>7 DEF FindsOf
    <3> QED BY <1>2, <2>7, <3>1, ImportingMoves
  <2>8. CASE SaveImport(f)
    BY <2>7, <2>8 DEF SaveImport
  <2>9. CASE Stop(f)
    <3>1. UNCHANGED <<call, seen, pc>>
      BY <2>9 DEF Stop
    <3> QED BY <2>3, <2>7, <3>1
  <2>10. CASE Start(f) \/ Resume(f) \/ EndClear(f) \/ EndNuke(f)
    BY <2>1, <2>3, <2>10 DEF Start, Resume, EndClear, EndNuke, DryRun, SetUp, Go
  <2>11. CASE \/ Pivot(f)
              \/ \E i \in DOMAIN files[f] : ClearFile(f, i)
              \/ \E i \in DOMAIN resume_dir[f] : NukeFile(f, i)
    BY <2>3, <2>11 DEF Pivot, ClearFile, NukeFile, memVars
  <2>12. CASE EndPivot(f) \/ SaveDiscovery(f) \/ RecreateFile(f) \/ SaveTrimmed(f)
    BY <2>1, <2>3, <2>12 DEF EndPivot, DryRun, SaveDiscovery, RecreateFile, SaveTrimmed, Go
  <2>13. CASE StartSync(f) \/ StepDown(f) \/ EndSync(f) \/ LeaveLoop(f)
    BY <2>1, <2>3, <2>13 DEF StartSync, OpenSyncDir, StepDown, EndSync, LeaveLoop, Go
  <2>14. CASE \E g \in Fuzzers : Look(f, g)
    BY <2>1, <2>3, <2>14 DEF Look, Go
  <2>15. CASE Interrupted(f) \/ WritePosition(f)
    BY <2>1, <2>3, <2>15 DEF Interrupted, WritePosition, CloseParty, Go
  <2>16. CASE Exit(f) \/ Kill(f)
    BY <2>1, <2>3, <2>16 DEF Exit, Kill, EndProcess, Go
  <2>17. CASE \E t \in Finds : Discover(f, t)
    BY <2>1, <2>3, <2>17 DEF Discover, Go
  <2>18. CASE \E i \in DOMAIN files[f] : StartTrim(f, i)
    BY <2>1, <2>3, <2>18 DEF StartTrim, Go
  <2> QED
    BY <2>4, <2>5, <2>6, <2>8, <2>9, <2>10, <2>11, <2>12, <2>13, <2>14, <2>15, <2>16,
       <2>17, <2>18
    DEF Act, Step
<1> QED
  BY <1>1, <1>2

----------------------------------------------------------------------------
(***************************************************************************)
(* The theorems.                                                           *)
(***************************************************************************)

LEMMA InitHolds == Init => IInv
<1> SUFFICES ASSUME Init PROVE IInv
  OBVIOUS
<1>1. TypeOK
  BY InitTypes
<1> SUFFICES ASSUME NEW f \in Fuzzers PROVE Local(f) /\ Passed(f) /\ Importing(f)
  BY <1>1 DEF IInv
<1>2. /\ files = [h \in Fuzzers |-> IF h \in scenario.up THEN <<File(Seed, "full", 0)>> ELSE <<>>]
      /\ pc = [h \in Fuzzers |-> IF h \in scenario.up THEN "fuzz" ELSE "off"]
      /\ seen = [h \in Fuzzers |-> IF h \in scenario.up THEN {Seed} ELSE {}]
      /\ saved = [h \in Fuzzers |-> IF h \in scenario.up THEN {Seed} ELSE {}]
      /\ position = [h \in Fuzzers |-> [g \in Fuzzers |->
                        IF h \in scenario.up /\ g \in scenario.up /\ h # g THEN 1 ELSE 0]]
      /\ started = scenario.up /\ resumed = {}
      /\ resume_dir = [h \in Fuzzers |-> <<>>] /\ edited = [h \in Fuzzers |-> 0]
  BY DEF Init
<1>3. \A h \in scenario.up \cap Fuzzers :
          DOMAIN files[h] = {1} /\ files[h][1].find = Seed /\ files[h][1].on = "full"
  BY <1>2 DEF File
<1>4. f \in scenario.up => Seed \in Holds(f)
  <2>1. f \in scenario.up => Seed \in FullFinds(f)
    BY <1>3 DEF FullFinds
  <2> QED BY <2>1 DEF Holds
<1>5. Absent(f) /\ Moving(f) /\ AtPoint(f) /\ Keeping(f)
  BY <1>2, <1>4 DEF Absent, Moving, AtPoint, Keeping
<1>6. Passed(f)
  <2> SUFFICES ASSUME NEW g \in Fuzzers, NEW i \in 1..position[f][g]
               PROVE  i \in DOMAIN files[g] /\ files[g][i].find \in Holds(f)
    BY DEF Passed
  <2>1. f \in scenario.up /\ g \in scenario.up /\ i = 1
    BY <1>2
  <2> QED BY <1>3, <1>4, <2>1
<1>7. Importing(f)
  BY <1>2 DEF Importing
<1> QED
  BY <1>5, <1>6, <1>7 DEF Local

LEMMA NextHolds == IInv /\ [Next]_vars => IInv'
<1> SUFFICES ASSUME IInv, [Next]_vars PROVE IInv'
  OBVIOUS
<1>1. CASE Next
  <2>1. PICK f \in Fuzzers : Act(f)
    BY <1>1 DEF Next, Act
  <2>2. TypeOK'
    BY <2>1, TypesStep
  <2>3. \A h \in Fuzzers : Local(h)'
    BY <2>1, AllOrderly DEF Orderly
  <2>4. \A h \in Fuzzers : Passed(h)'
    BY <2>1, PassedStep
  <2>5. \A h \in Fuzzers : Importing(h)'
    BY <2>1, ImportingStep
  <2> QED BY <2>2, <2>3, <2>4, <2>5 DEF IInv
<1>2. CASE UNCHANGED vars
  <2>1. UNCHANGED <<files, resume_dir, main_file, position, started, pc, is_main_node, seen,
                    stop_soon, leaving, call, edited, lost, saved, removed, resumed, scenario>>
    BY <1>2 DEF vars, diskVars, memVars, histVars
  <2>2. TypeOK'
    BY <2>1 DEF IInv, TypeOK
  <2> SUFFICES ASSUME NEW f \in Fuzzers PROVE Local(f)' /\ Passed(f)' /\ Importing(f)'
    BY <2>2 DEF IInv
  <2>3. Holds(f)' = Holds(f) /\ Pending(f)' = Pending(f)
    BY <2>1 DEF Holds, FullFinds, Trimming, FindsOf, Pending
  <2>4. Linked(f)' = Linked(f) /\ Copied(f)' = Copied(f) /\ FullFinds(f)' = FullFinds(f)
        /\ FindsOf(resume_dir[f])' = FindsOf(resume_dir[f])
    BY <2>1 DEF Linked, Copied, FullFinds, FindsOf
  <2>5. Local(f)'
    BY <2>1, <2>3, <2>4 DEF IInv, Local, Absent, Moving, AtPoint, Keeping
  <2>6. Passed(f)'
    BY <2>1, <2>3 DEF IInv, Passed
  <2>7. Importing(f)'
    <3>1. FindsOf(call[f].list)' = FindsOf(call[f].list)
      BY <2>1 DEF FindsOf
    <3> QED BY <2>1, <2>3, <3>1 DEF IInv, Importing
  <2> QED BY <2>5, <2>6, <2>7
<1> QED
  BY <1>1, <1>2

LEMMA Invariance == Spec => []IInv
  BY InitHolds, NextHolds, PTL DEF Spec

\* What f holds is on disk, is being trimmed, or is lost.
LEMMA HoldsOnDisk ==
    ASSUME IInv, NEW f \in Fuzzers
    PROVE  Holds(f) \subseteq OnDisk(f) \cup Trimming(f) \cup lost[f]
<1>1. FindsOf(Fulls(f)) = FullFinds(f)
  BY FullsFinds DEF IInv
<1> QED
  BY <1>1 DEF Holds, OnDisk

\* The files, the positions and sync_fuzzers' variables keep their types,
\* whatever ends when; trim_case writes an entry of the queue.
THEOREM TypeCorrect == Spec => []TypeOK
  BY Invariance, PTL DEF IInv

\* What was once complete in a queue outlives every number of ends and resumes,
\* also of sessions that were cut off between any two files while resuming.
\* Two windows are in lost: the entry that trim_case was writing when f was
\* killed; and what an aborted nuke_resume_dir had unlinked, once the next
\* resume goes on with the rest of _resume/ and unlinks the complete queue.
THEOREM NothingSavedIsLost == Spec => []QueueSurvives
<1>1. IInv => QueueSurvives
  BY HoldsOnDisk DEF IInv, Local, Keeping, QueueSurvives
<1> QED
  BY <1>1, Invariance, PTL

\* sync_fuzzers passes over nothing for good, however imports, trims, ends and
\* resumes of any number of fuzzers interleave: what is below a position that
\* was written has been taken over; or it was in one of the known windows, when
\* f looked, or when f was killed, itself, in trim_case or nuke_resume_dir.
THEOREM NothingPassedIsLost == Spec => []PassedIsKept
<1>1. IInv => PassedIsKept
  BY HoldsOnDisk DEF IInv, Passed, PassedIsKept
<1> QED
  BY <1>1, Invariance, PTL

=============================================================================

-------------------------- MODULE DecisionsProofs ---------------------------
(***************************************************************************)
(* The invariants the run checks on its cases, for every length of an      *)
(* argv, every depth and every set of accounts and names that holds the    *)
(* cases'.  What each case is comes first, as an inductive invariant; then *)
(* the theorems about the judgements, which hold of more than the cases,   *)
(* answer the question.                                                    *)
(***************************************************************************)
EXTENDS Decisions, NodeChecksProofs, ArgvProofs

-----------------------------------------------------------------------------
(* Paths. *)

LEMMA PathIsSeq == Path \subseteq Seq(Name)
<1> SUFFICES ASSUME NEW p \in Path PROVE p \in Seq(Name)
  OBVIOUS
<1>1. PICK m \in 0..MaxLength : p \in [1..m -> Name]
  BY DEF Path, SeqOf
<1>2. m \in Nat
  BY MountPolicyAssumption
<1>3. QED
  BY <1>1, <1>2

\* One path is inside another if their components agree that far.
LEMMA InsidePoints ==
    ASSUME NEW p \in Seq(Name), NEW m \in Seq(Name)
    PROVE  Inside(p, m) <=> Len(m) <= Len(p) /\ \A i \in 1..Len(m) : m[i] = p[i]
BY PrefixPoints DEF Inside

LEMMA InsideOrder ==
    ASSUME NEW p \in Seq(Name), NEW m \in Seq(Name), NEW n \in Seq(Name),
           Inside(p, m), Inside(p, n)
    PROVE  /\ Inside(m, n) \/ Inside(n, m)
           /\ Len(m) = Len(n) => m = n
           /\ Len(m) <= Len(n) => Inside(n, m)
BY InsidePoints

LEMMA InsideTransitive ==
    ASSUME NEW p \in Seq(Name), NEW m \in Seq(Name), NEW n \in Seq(Name),
           Inside(p, m), Inside(m, n)
    PROVE  Inside(p, n)
BY InsidePoints

LEMMA InsideSelf ==
    ASSUME NEW p \in Seq(Name)
    PROVE  Inside(p, p) /\ Inside(p, << >>)
BY DEF Inside, IsPrefix

LEMMA InsideEqual ==
    ASSUME NEW p \in Seq(Name), NEW m \in Seq(Name), Inside(p, m), Inside(m, p)
    PROVE  p = m
BY InsidePoints

\* Of any paths there is a longest one.
LEMMA LongestPath ==
    ASSUME NEW P \in SUBSET Path, P # {}
    PROVE  \E m \in P : \A o \in P : Len(o) <= Len(m)
<1> DEFINE T == {Len(p) : p \in P}
<1>1. \A p \in Path : Len(p) \in Nat /\ Len(p) <= MaxLength
  <2> SUFFICES ASSUME NEW p \in Path PROVE Len(p) \in Nat /\ Len(p) <= MaxLength
    OBVIOUS
  <2>1. PICK m \in 0..MaxLength : p \in [1..m -> Name]
    BY DEF Path, SeqOf
  <2>2. m \in Nat /\ m <= MaxLength
    BY MountPolicyAssumption
  <2>3. Len(p) = m
    BY <2>1, <2>2
  <2>4. QED
    BY <2>2, <2>3
<1>2. T \in SUBSET Nat /\ T # {} /\ \A y \in T : y <= MaxLength
  BY <1>1
<1>3. PICK x \in T : \A y \in T : y <= x
  BY <1>2, GreatestNat, MountPolicyAssumption
<1>4. PICK m \in P : x = Len(m)
  BY <1>3
<1>5. QED
  BY <1>3, <1>4

-----------------------------------------------------------------------------
(* Tables. *)

LEMMA TableRows ==
    ASSUME NEW table \in Table
    PROVE  /\ DOMAIN table \subseteq Nat
           /\ \A i \in DOMAIN table : table[i].point \in Path
           /\ \E i \in DOMAIN table : table[i].point = << >>
<1>1. table \in Seq(Row) /\ \E i \in DOMAIN table : table[i].point = << >>
  BY DEF Table
<1>2. DOMAIN table \subseteq Nat /\ \A i \in DOMAIN table : table[i] \in Row
  BY <1>1
<1>3. \A r \in Row : r.point \in Path
  BY DEF Row
<1>4. QED
  BY <1>1, <1>2, <1>3

\* The rows of a table that are expensive.
LEMMA RowsOf ==
    ASSUME NEW table \in Table, NEW policy
    PROVE  LET rows == ReadMounts(table, policy)
           IN  /\ DOMAIN rows = {i \in DOMAIN table : Expensive(table[i], policy)}
               /\ \A i \in DOMAIN rows : rows[i] = table[i]
               /\ \A i \in DOMAIN rows : i \in Nat /\ rows[i].point \in Path
BY TableRows DEF ReadMounts

\* The first of some expensive rows is the longest of their points.
LEMMA FirstIs ==
    ASSUME NEW table \in Table, NEW policy \in Policy,
           NEW places \in SUBSET DOMAIN ReadMounts(table, policy), places # {}
    PROVE  LET rows == ReadMounts(table, policy)
               first == First(rows, places)
           IN  /\ first \in places
               /\ \A j \in places : Len(rows[j].point) <= Len(rows[first].point)
<1> DEFINE rows == ReadMounts(table, policy)
           P == {rows[i].point : i \in places}
<1>1. places \subseteq DOMAIN rows /\ DOMAIN rows \subseteq Nat
  BY RowsOf
<1>2. \A i \in DOMAIN rows : rows[i].point \in Path
  BY RowsOf
<1> HIDE DEF rows
<1>3. P \in SUBSET Path /\ P # {}
  BY <1>1, <1>2
<1>4. PICK m \in P : \A o \in P : Len(o) <= Len(m)
  BY <1>3, LongestPath
<1> DEFINE L == {i \in places : Len(rows[i].point) = Len(m)}
<1>5. L \in SUBSET Nat /\ L # {}
  BY <1>1, <1>4
<1>6. PICK i \in L : \A j \in L : i <= j
  BY <1>5, LeastNat
<1>7. \A j \in places : Len(rows[j].point) \in Nat
  BY <1>1, <1>2, PathIsSeq
<1>8. \A j \in places \ {i} : Before(rows, i, j)
  <2> SUFFICES ASSUME NEW j \in places \ {i} PROVE Before(rows, i, j)
    OBVIOUS
  <2>1. Len(rows[j].point) <= Len(rows[i].point) /\ i \in Nat /\ j \in Nat
    BY <1>1, <1>4, <1>6
  <2>2. CASE Len(rows[j].point) = Len(m)
    <3>1. i <= j
      BY <1>6, <2>2
    <3>2. QED
      BY <1>6, <2>1, <2>2, <3>1 DEF Before
  <2>3. CASE Len(rows[j].point) # Len(m)
    BY <1>6, <1>7, <2>1, <2>3 DEF Before
  <2>4. QED
    BY <2>2, <2>3
<1> DEFINE first == First(rows, places)
<1>9. first \in places /\ \A j \in places \ {first} : Before(rows, first, j)
  <2>1. i \in places
    BY <1>6
  <2>2. QED
    BY <1>8, <2>1 DEF First
<1> HIDE DEF first
<1>10. ASSUME NEW j \in places PROVE Len(rows[j].point) <= Len(rows[first].point)
  <2>1. CASE j = first
    BY <1>7, <1>9, <2>1
  <2>2. CASE j # first
    <3>1. Before(rows, first, j)
      BY <1>9, <2>2
    <3>2. QED
      BY <1>7, <1>9, <3>1 DEF Before
  <2>3. QED
    BY <2>1, <2>2
<1>11. QED
  BY <1>9, <1>10 DEF rows, first

\* A directory is on one mount, the longest that holds it.
LEMMA OnIs ==
    ASSUME NEW table \in Table, NEW d \in Path
    PROVE  /\ On(d, table) \in Points(table)
           /\ Inside(d, On(d, table))
           /\ \A o \in Points(table) : Inside(d, o) => Len(o) <= Len(On(d, table))
<1> DEFINE holding == {m \in Points(table) : Inside(d, m)}
<1>1. Points(table) \subseteq Path /\ << >> \in Points(table)
  BY TableRows DEF Points, ToSet
<1>2. << >> \in holding /\ holding \in SUBSET Path
  BY <1>1, PathIsSeq, InsideSelf
<1>3. \E m \in holding : \A o \in holding : Len(o) <= Len(m)
  BY <1>2, LongestPath
<1>4. On(d, table) \in holding /\ \A o \in holding : Len(o) <= Len(On(d, table))
  BY <1>3 DEF On
<1>5. QED
  BY <1>4

-----------------------------------------------------------------------------
(* The verdict on a root, without the order of the rows. *)

\* The expensive mounts a root is too near the root of, and those below it.
NearPoints(path, table, policy) ==
    {m \in ExpensivePoints(table, policy) :
        Inside(path, m) /\ DepthBelow(path, m) < policy.unscoped}
BelowPoints(path, table, policy) ==
    {m \in ExpensivePoints(table, policy) : Inside(m, path) /\ m # path}

Within(depth, m, policy) == depth # NoBound /\ depth <= DepthAllowance(m, policy)

\* The nearest of the mounts a root is too near decides by itself; if there is
\* none, the strictest of the mounts below decides.
RefusedNear(path, table, policy, depth) ==
    \E m \in NearPoints(path, table, policy) :
        /\ \A o \in NearPoints(path, table, policy) : Len(o) <= Len(m)
        /\ ~Within(depth, m, policy)
RefusedBelow(path, table, policy, device, depth) ==
    /\ NearPoints(path, table, policy) = {}
    /\ ~device
    /\ \E m \in BelowPoints(path, table, policy) : ~Within(depth, m, policy)

LEMMA PointsOf ==
    ASSUME NEW table \in Table, NEW policy
    PROVE  LET rows == ReadMounts(table, policy)
           IN  /\ ExpensivePoints(table, policy) = {rows[i].point : i \in DOMAIN rows}
               /\ ExpensivePoints(table, policy) \subseteq Points(table)
               /\ ExpensivePoints(table, policy) \subseteq Path
<1> DEFINE rows == ReadMounts(table, policy)
<1>1. /\ DOMAIN rows = {i \in DOMAIN table : Expensive(table[i], policy)}
      /\ \A i \in DOMAIN rows : rows[i] = table[i]
      /\ \A i \in DOMAIN rows : rows[i].point \in Path
  BY RowsOf
<1>2. ToSet(table) = {table[i] : i \in DOMAIN table}
  BY DEF ToSet
<1> HIDE DEF rows
<1>3. ExpensivePoints(table, policy) = {rows[i].point : i \in DOMAIN rows}
  BY <1>1, <1>2 DEF ExpensivePoints
<1>4. ExpensivePoints(table, policy) \subseteq Points(table)
  BY DEF ExpensivePoints, Points
<1>5. QED
  BY <1>1, <1>3, <1>4 DEF rows

LEMMA PlacesOf ==
    ASSUME NEW table \in Table, NEW policy \in Policy, NEW path \in Path
    PROVE  LET rows == ReadMounts(table, policy)
           IN  /\ NearPoints(path, table, policy)
                      = {rows[i].point : i \in NearMounts(path, rows, policy)}
               /\ BelowPoints(path, table, policy)
                      = {rows[i].point : i \in DescendedMounts(path, rows)}
               /\ NearMounts(path, rows, policy) \subseteq DOMAIN rows
               /\ DescendedMounts(path, rows) \subseteq DOMAIN rows
<1> DEFINE rows == ReadMounts(table, policy)
<1>1. ExpensivePoints(table, policy) = {rows[i].point : i \in DOMAIN rows}
  BY PointsOf
<1>2. \A i \in DOMAIN rows : rows[i].point \in Seq(Name)
  BY RowsOf, PathIsSeq
<1>3. path \in Seq(Name)
  BY PathIsSeq
<1> HIDE DEF rows
<1>4. ASSUME NEW m \in Seq(Name)
      PROVE  ~Inside(path, m) /\ IsStrictPrefix(path, m) <=> Inside(m, path) /\ m # path
  <2>1. IsStrictPrefix(path, m) <=> Inside(m, path) /\ m # path
    BY DEF IsStrictPrefix, Inside
  <2>2. Inside(path, m) /\ Inside(m, path) => m = path
    BY <1>3, InsideEqual
  <2>3. QED
    BY <2>1, <2>2
<1>5. NearPoints(path, table, policy) = {rows[i].point : i \in NearMounts(path, rows, policy)}
  BY <1>1 DEF NearPoints, NearMounts
<1>6. BelowPoints(path, table, policy) = {rows[i].point : i \in DescendedMounts(path, rows)}
  BY <1>1, <1>2, <1>4 DEF BelowPoints, DescendedMounts
<1>7. QED
  BY <1>5, <1>6 DEF rows, NearMounts, DescendedMounts

LEMMA Allowances ==
    ASSUME NEW policy \in Policy, NEW m \in Path
    PROVE  DepthAllowance(m, policy) \in Nat
<1>1. policy.mounts[m] \in Override /\ policy.maxdepth \in Nat
  BY DEF Policy
<1>2. policy.mounts[m].depth \in {NoBound} \cup Nat
  BY <1>1 DEF Override
<1>3. QED
  BY <1>1, <1>2 DEF DepthAllowance

\* The mount the message names when a root is too near one: the nearest.
LEMMA NearestIsNamed ==
    ASSUME NEW table \in Table, NEW policy \in Policy, NEW path \in Path,
           NearPoints(path, table, policy) # {}
    PROVE  LET hit == OffendingMount(path, ReadMounts(table, policy), policy)
           IN  /\ hit.reason = "at_or_near_root" /\ hit # NoHit
               /\ hit.point \in NearPoints(path, table, policy)
               /\ \A o \in NearPoints(path, table, policy) :
                      Len(o) <= Len(hit.point) /\ (Len(hit.point) <= Len(o) => o = hit.point)
<1> DEFINE rows == ReadMounts(table, policy)
           near == NearMounts(path, rows, policy)
           first == First(rows, near)
           hit == OffendingMount(path, rows, policy)
<1>1. near # {} /\ near \subseteq DOMAIN rows
      /\ NearPoints(path, table, policy) = {rows[i].point : i \in near}
  BY PlacesOf
<1>2. first \in near /\ \A j \in near : Len(rows[j].point) <= Len(rows[first].point)
  BY <1>1, FirstIs
<1>3. hit = [reason |-> "at_or_near_root", point |-> rows[first].point]
  BY <1>1 DEF OffendingMount
<1>4. \A o \in NearPoints(path, table, policy) :
         o \in Seq(Name) /\ Len(o) \in Nat /\ Inside(path, o)
  BY PointsOf, PathIsSeq DEF NearPoints
<1>5. path \in Seq(Name)
  BY PathIsSeq
<1> HIDE DEF rows, near, first, hit
<1>6. hit.reason = "at_or_near_root" /\ hit.point = rows[first].point
  BY <1>3
<1>7. hit # NoHit
  BY <1>6 DEF NoHit
<1>8. hit.point \in NearPoints(path, table, policy)
  BY <1>1, <1>2, <1>6
<1>9. \A o \in NearPoints(path, table, policy) : Len(o) <= Len(hit.point)
  BY <1>1, <1>2, <1>6
<1>10. \A o \in NearPoints(path, table, policy) : Len(hit.point) <= Len(o) => o = hit.point
  BY <1>4, <1>5, <1>8, <1>9, InsideOrder
<1>11. QED
  BY <1>6, <1>7, <1>8, <1>9, <1>10 DEF hit, rows

LEMMA ElseItDescends ==
    ASSUME NEW table \in Table, NEW policy \in Policy, NEW path \in Path,
           NearPoints(path, table, policy) = {}
    PROVE  LET hit == OffendingMount(path, ReadMounts(table, policy), policy)
           IN  /\ hit.reason # "at_or_near_root"
               /\ hit # NoHit <=> BelowPoints(path, table, policy) # {}
               /\ hit # NoHit => hit.reason = "descends_into"
<1> DEFINE rows == ReadMounts(table, policy)
           hit == OffendingMount(path, rows, policy)
<1>1. NearMounts(path, rows, policy) = {}
      /\ (BelowPoints(path, table, policy) = {} <=> DescendedMounts(path, rows) = {})
  BY PlacesOf
<1>2. hit = DescentHit(path, rows)
  BY <1>1 DEF OffendingMount
<1> HIDE DEF rows, hit
<1>3. CASE DescendedMounts(path, rows) = {}
  <2>1. hit = NoHit
    BY <1>2, <1>3 DEF DescentHit
  <2>2. QED
    BY <1>1, <1>3, <2>1 DEF NoHit, hit, rows
<1>4. CASE DescendedMounts(path, rows) # {}
  <2>1. hit.reason = "descends_into"
    BY <1>2, <1>4 DEF DescentHit
  <2>2. QED
    BY <1>1, <1>4, <2>1 DEF NoHit, hit, rows
<1>5. QED
  BY <1>3, <1>4

LEMMA StrictestDecides ==
    ASSUME NEW table \in Table, NEW policy \in Policy, NEW path \in Path,
           NEW depth \in {NoBound} \cup Nat, NEW hit,
           hit.reason = "descends_into", BelowPoints(path, table, policy) # {}
    PROVE  (depth # NoBound /\ depth <= RootDepthAllowance(path, ReadMounts(table, policy), hit, policy))
           <=> \A m \in BelowPoints(path, table, policy) : Within(depth, m, policy)
<1> DEFINE rows == ReadMounts(table, policy)
           A == {DepthAllowance(rows[i].point, policy) : i \in DescendedMounts(path, rows)}
           B == BelowPoints(path, table, policy)
<1>1. RootDepthAllowance(path, rows, hit, policy) = Min(A)
  BY DEF RootDepthAllowance
<1>2. B = {rows[i].point : i \in DescendedMounts(path, rows)}
  BY PlacesOf
<1>3. B \subseteq Path /\ \A m \in B : DepthAllowance(m, policy) \in Nat
  BY PointsOf, Allowances DEF BelowPoints
<1>4. A = {DepthAllowance(m, policy) : m \in B}
  BY <1>2
<1> HIDE DEF A, B, rows
<1>5. A \in SUBSET Nat /\ A # {}
  BY <1>3, <1>4 DEF B
<1>6. Min(A) \in A /\ \A y \in A : Min(A) <= y
  <2>1. \E x \in A : \A y \in A : x <= y
    BY <1>5, LeastNat
  <2>2. QED
    BY <2>1 DEF Min
<1> DEFINE least == Min(A)
<1> HIDE DEF least
<1>7. least \in A /\ (\A y \in A : least <= y)
  BY <1>6 DEF least
<1>8. depth # NoBound /\ depth <= least <=> \A m \in B : Within(depth, m, policy)
  <2>1. ASSUME depth # NoBound, depth <= least, NEW m \in B
        PROVE  Within(depth, m, policy)
    <3>1. least <= DepthAllowance(m, policy) /\ least \in Nat /\ DepthAllowance(m, policy) \in Nat
      BY <1>3, <1>4, <1>5, <1>7
    <3>2. depth \in Nat
      BY <2>1
    <3>3. QED
      BY <2>1, <3>1, <3>2 DEF Within
  <2>2. ASSUME \A m \in B : Within(depth, m, policy)
        PROVE  depth # NoBound /\ depth <= least
    <3>1. PICK m \in B : least = DepthAllowance(m, policy)
      BY <1>4, <1>7
    <3>2. Within(depth, m, policy)
      BY <2>2
    <3>3. QED
      BY <3>1, <3>2 DEF Within
  <2>3. QED
    BY <2>1, <2>2
<1>9. QED
  BY <1>1, <1>8 DEF B, rows, least

\* judge_root(), as a sentence about the set of expensive mounts.
LEMMA Verdict ==
    ASSUME NEW table \in Table, NEW policy \in Policy, NEW path \in Path,
           NEW device \in BOOLEAN, NEW depth \in {NoBound} \cup Nat
    PROVE  JudgeRoot(path, ReadMounts(table, policy), policy, device, depth)
           <=> \/ RefusedNear(path, table, policy, depth)
               \/ RefusedBelow(path, table, policy, device, depth)
<1> DEFINE rows == ReadMounts(table, policy)
           hit == OffendingMount(path, rows, policy)
           allowed == depth # NoBound /\ depth <= RootDepthAllowance(path, rows, hit, policy)
<1>0. JudgeRoot(path, rows, policy, device, depth)
      <=> hit # NoHit /\ ~(device /\ hit.reason = "descends_into") /\ ~allowed
  BY DEF JudgeRoot, Excused
<1>1. CASE NearPoints(path, table, policy) # {}
  <2>1. /\ hit.reason = "at_or_near_root" /\ hit # NoHit
        /\ hit.point \in NearPoints(path, table, policy)
        /\ \A o \in NearPoints(path, table, policy) :
               Len(o) <= Len(hit.point) /\ (Len(hit.point) <= Len(o) => o = hit.point)
    BY <1>1, NearestIsNamed
  <2>2. allowed <=> Within(depth, hit.point, policy)
    BY <2>1 DEF RootDepthAllowance, Within
  <2> HIDE DEF hit, allowed, rows
  <2>3. RefusedNear(path, table, policy, depth) <=> ~Within(depth, hit.point, policy)
    BY <2>1 DEF RefusedNear
  <2>4. JudgeRoot(path, rows, policy, device, depth) <=> ~allowed
    BY <1>0, <2>1
  <2>5. ~RefusedBelow(path, table, policy, device, depth)
    BY <1>1 DEF RefusedBelow
  <2>6. QED
    BY <2>2, <2>3, <2>4, <2>5 DEF rows
<1>2. CASE NearPoints(path, table, policy) = {}
  <2>1. hit # NoHit <=> BelowPoints(path, table, policy) # {}
    BY <1>2, ElseItDescends
  <2>2. hit # NoHit => hit.reason = "descends_into"
    BY <1>2, ElseItDescends
  <2>3. ~RefusedNear(path, table, policy, depth)
    BY <1>2 DEF RefusedNear
  <2>4. hit # NoHit => (allowed <=> \A m \in BelowPoints(path, table, policy) : Within(depth, m, policy))
    <3> HIDE DEF hit, rows
    <3>1. QED
      BY <2>1, <2>2, StrictestDecides DEF rows
  <2> HIDE DEF hit, allowed, rows
  <2>5. RefusedBelow(path, table, policy, device, depth)
        <=> ~device /\ \E m \in BelowPoints(path, table, policy) : ~Within(depth, m, policy)
    BY <1>2 DEF RefusedBelow
  <2>6. JudgeRoot(path, rows, policy, device, depth) <=> RefusedBelow(path, table, policy, device, depth)
    BY <1>0, <2>1, <2>2, <2>4, <2>5
  <2>7. QED
    BY <2>3, <2>6 DEF rows
<1>3. QED
  BY <1>1, <1>2

-----------------------------------------------------------------------------
(* What an allowed walk enumerates. *)

\* A root that is too near an expensive mount is refused if it has no bound.
LEMMA NearIsRefused ==
    ASSUME NEW table \in Table, NEW policy \in Policy, NEW path \in Path,
           NearPoints(path, table, policy) # {}
    PROVE  RefusedNear(path, table, policy, NoBound)
<1>1. NearPoints(path, table, policy) \in SUBSET Path
  BY PointsOf DEF NearPoints
<1>2. \E m \in NearPoints(path, table, policy) :
         \A o \in NearPoints(path, table, policy) : Len(o) <= Len(m)
  BY <1>1, LongestPath
<1>3. QED
  BY <1>2 DEF RefusedNear, Within

LEMMA WalkParts ==
    ASSUME NEW walk \in Walk
    PROVE  /\ walk.roots \subseteq Path /\ walk.device \in BOOLEAN
           /\ walk.depth \in {NoBound} \cup Nat
BY DEF Walk

\* A mount that a walk enumerates holds its root or is below it, and is its
\* root's own if the walk stays on one device.
LEMMA EnteredMounts ==
    ASSUME NEW table \in Table, NEW policy \in Policy, NEW walk \in Walk,
           NEW root \in walk.roots, NEW m \in Enters(root, walk, table, policy)
    PROVE  /\ m \in ExpensivePoints(table, policy)
           /\ Inside(root, m) \/ m \in BelowPoints(root, table, policy)
           /\ walk.device => Inside(root, m)
<1>1. root \in Path /\ root \in Seq(Name)
  BY WalkParts, PathIsSeq
<1>2. PICK d \in Visited(root, walk, table) : m = On(d, table)
  BY DEF Enters
<1>3. m \in ExpensivePoints(table, policy) /\ m \in Path /\ m \in Seq(Name)
  BY PointsOf, PathIsSeq DEF Enters
<1>4. d \in Path /\ d \in Seq(Name) /\ Inside(d, root) /\ Inside(d, m)
  BY <1>2, OnIs, PathIsSeq DEF Visited
<1>5. Inside(root, m) \/ Inside(m, root)
  BY <1>1, <1>3, <1>4, InsideOrder
<1>6. Inside(root, m) \/ m \in BelowPoints(root, table, policy)
  BY <1>1, <1>3, <1>5, InsideSelf DEF BelowPoints
<1>7. ASSUME walk.device PROVE Inside(root, m)
  <2>1. Len(root) <= Len(d) /\ Len(d) \in Nat /\ Len(root) \in Nat
    BY <1>1, <1>4, InsidePoints
  <2>2. Len(d) \in Len(root)..Len(d)
    BY <2>1
  <2>3. On(SubSeq(d, 1, Len(d)), table) = On(root, table)
    BY <1>2, <1>7, <2>2 DEF Visited
  <2>4. SubSeq(d, 1, Len(d)) = d
    BY <1>4
  <2>5. m = On(root, table)
    BY <1>2, <2>3, <2>4
  <2>6. QED
    BY <1>1, <2>5, OnIs
<1>8. QED
  BY <1>3, <1>6, <1>7

\* An unbounded walk that is allowed enumerates no expensive mount but the one
\* it starts on, and that one from unscoped_depth levels down: for every mount
\* table, policy and walk.  src/walk_blocker/search_rules.py:1196-1204.
THEOREM UnboundedWalksAreScoped ==
    ASSUME NEW table \in Table, NEW policy \in Policy, NEW walk \in Walk
    PROVE  UnboundedIsScoped(walk, table, policy)
<1> SUFFICES ASSUME ~Refused(walk, table, policy), walk.depth = NoBound,
                    NEW root \in walk.roots, NEW m \in Enters(root, walk, table, policy)
             PROVE  Inside(root, m) /\ DepthBelow(root, m) >= policy.unscoped
  BY DEF UnboundedIsScoped
<1>1. root \in Path /\ root \in Seq(Name) /\ walk.device \in BOOLEAN
      /\ NoBound \in {NoBound} \cup Nat
  BY WalkParts, PathIsSeq
<1>2. ~JudgeRoot(root, ReadMounts(table, policy), policy, walk.device, NoBound)
  BY DEF Refused, GloballyBounded
<1>3. /\ ~RefusedNear(root, table, policy, NoBound)
      /\ ~RefusedBelow(root, table, policy, walk.device, NoBound)
  BY <1>1, <1>2, Verdict
<1>4. NearPoints(root, table, policy) = {}
  BY <1>1, <1>3, NearIsRefused
<1>5. /\ m \in ExpensivePoints(table, policy)
      /\ Inside(root, m) \/ m \in BelowPoints(root, table, policy)
      /\ walk.device => Inside(root, m)
  BY EnteredMounts
<1>6. Inside(root, m)
  BY <1>3, <1>4, <1>5 DEF RefusedBelow, Within
<1>7. ~(DepthBelow(root, m) < policy.unscoped)
  BY <1>4, <1>5, <1>6 DEF NearPoints
<1>8. DepthBelow(root, m) \in Int /\ policy.unscoped \in Nat
  <2>1. m \in Seq(Name)
    BY <1>5, PointsOf, PathIsSeq
  <2>2. QED
    BY <1>1, <2>1 DEF DepthBelow, Policy
<1>9. QED
  BY <1>6, <1>7, <1>8

\* A bounded walk that is allowed goes no deeper than every mount it descends
\* into permits: for every mount table, policy and walk.
\* src/walk_blocker/search_rules.py:2683-2691.
THEOREM BoundedWalksKeepAllowances ==
    ASSUME NEW table \in Table, NEW policy \in Policy, NEW walk \in Walk
    PROVE  NoneBelowPastItsAllowance(walk, table, policy)
<1> DEFINE hit(root) == OffendingMount(root, ReadMounts(table, policy), policy)
<1> SUFFICES ASSUME ~Refused(walk, table, policy), walk.depth # NoBound,
                    NEW root \in walk.roots, hit(root).reason # "at_or_near_root",
                    NEW m \in Enters(root, walk, table, policy), ~Inside(root, m)
             PROVE  walk.depth <= Max({DepthAllowance(m, policy), policy.maxdepth})
  BY DEF NoneBelowPastItsAllowance
<1>1. /\ root \in Path /\ walk.device \in BOOLEAN
      /\ walk.depth \in Nat /\ walk.depth \in {NoBound} \cup Nat
  BY WalkParts
<1>2. /\ m \in Path /\ m \in BelowPoints(root, table, policy) /\ ~walk.device
  BY EnteredMounts, PointsOf
<1> DEFINE a == DepthAllowance(m, policy)
           b == policy.maxdepth
<1>3. a \in Nat /\ b \in Nat
  BY <1>2, Allowances DEF Policy
<1> HIDE DEF a, b
<1>4. a <= Max({a, b}) /\ b <= Max({a, b}) /\ Max({a, b}) \in Nat
  <2>1. \E x \in {a, b} : \A y \in {a, b} : x >= y
    <3>1. CASE a >= b
      BY <1>3, <3>1
    <3>2. CASE ~(a >= b)
      BY <1>3, <3>2
    <3>3. QED
      BY <3>1, <3>2
  <2>2. Max({a, b}) \in {a, b} /\ \A y \in {a, b} : Max({a, b}) >= y
    BY <2>1 DEF Max
  <2>3. Max({a, b}) >= a /\ Max({a, b}) >= b /\ Max({a, b}) \in Nat
    BY <1>3, <2>2
  <2>4. QED
    BY <1>3, <2>3
<1>5. CASE GloballyBounded(walk.depth, policy)
  <2>1. walk.depth <= b
    BY <1>5 DEF GloballyBounded, b
  <2>2. QED
    BY <1>1, <1>3, <1>4, <2>1 DEF a, b
<1>6. CASE ~GloballyBounded(walk.depth, policy)
  <2>1. ~JudgeRoot(root, ReadMounts(table, policy), policy, walk.device, walk.depth)
    BY <1>6 DEF Refused
  <2>2. ~RefusedBelow(root, table, policy, walk.device, walk.depth)
    BY <1>1, <2>1, Verdict
  <2>3. NearPoints(root, table, policy) = {}
    BY <1>1, NearestIsNamed
  <2>4. Within(walk.depth, m, policy)
    BY <1>2, <2>2, <2>3 DEF RefusedBelow
  <2>5. walk.depth <= a
    BY <2>4 DEF Within, a
  <2>6. QED
    BY <1>1, <1>3, <1>4, <2>5 DEF a, b
<1>7. QED
  BY <1>5, <1>6

-----------------------------------------------------------------------------
(* What a walk is refused for. *)

\* An unbounded walk is refused for an expensive mount that it enumerates,
\* unless its root is on a cheap mount inside an expensive one: for every mount
\* table, policy and walk.  src/walk_blocker/search_rules.py:2643-2657.
THEOREM RefusalsHaveACost ==
    ASSUME NEW table \in Table, NEW policy \in Policy, NEW walk \in Walk
    PROVE  RefusedForACost(walk, table, policy)
<1> SUFFICES ASSUME Refused(walk, table, policy), walk.depth = NoBound
             PROVE  \E root \in walk.roots :
                       \/ Enters(root, walk, table, policy) # {}
                       \/ \E m \in ExpensivePoints(table, policy) :
                              m # On(root, table) /\ Inside(On(root, table), m)
  BY DEF RefusedForACost
<1>1. PICK root \in walk.roots :
         JudgeRoot(root, ReadMounts(table, policy), policy, walk.device, NoBound)
  BY DEF Refused
<1>2. /\ root \in Path /\ root \in Seq(Name) /\ walk.device \in BOOLEAN
      /\ NoBound \in {NoBound} \cup Nat
  BY WalkParts, PathIsSeq
<1>3. /\ On(root, table) \in Points(table) /\ Inside(root, On(root, table))
      /\ \A o \in Points(table) : Inside(root, o) => Len(o) <= Len(On(root, table))
  BY <1>2, OnIs
<1>4. Points(table) \subseteq Path
  BY TableRows DEF Points, ToSet
<1>5. \A m \in ExpensivePoints(table, policy) :
         m \in Points(table) /\ m \in Path /\ m \in Seq(Name)
  BY PointsOf, PathIsSeq
<1>6. CASE RefusedNear(root, table, policy, NoBound)
  <2>1. PICK m \in NearPoints(root, table, policy) : TRUE
    BY <1>6 DEF RefusedNear
  <2>2. m \in ExpensivePoints(table, policy) /\ Inside(root, m)
    BY <2>1 DEF NearPoints
  <2>3. CASE m = On(root, table)
    <3>1. SubSeq(root, 1, Len(root)) = root /\ Len(root)..Len(root) = {Len(root)}
      BY <1>2
    <3>2. root \in Visited(root, walk, table)
      BY <1>2, <3>1, InsideSelf DEF Visited
    <3>3. m \in Enters(root, walk, table, policy)
      BY <2>2, <2>3, <3>2 DEF Enters
    <3>4. QED
      BY <3>3
  <2>4. CASE m # On(root, table)
    <3>1. Len(m) <= Len(On(root, table))
      BY <1>3, <1>5, <2>2
    <3>2. On(root, table) \in Seq(Name)
      BY <1>3, <1>4, PathIsSeq
    <3>3. Inside(On(root, table), m)
      BY <1>2, <1>3, <1>5, <2>2, <3>1, <3>2, InsideOrder
    <3>4. QED
      BY <2>2, <2>4, <3>3
  <2>5. QED
    BY <2>3, <2>4
<1>7. CASE RefusedBelow(root, table, policy, walk.device, NoBound)
  <2>1. PICK m \in BelowPoints(root, table, policy) : TRUE
    BY <1>7 DEF RefusedBelow
  <2>2. m \in ExpensivePoints(table, policy) /\ Inside(m, root) /\ ~walk.device
    BY <1>7, <2>1 DEF RefusedBelow, BelowPoints
  <2>3. m \in Visited(root, walk, table)
    BY <1>5, <2>2 DEF Visited
  <2>4. On(m, table) = m
    <3>1. /\ On(m, table) \in Points(table) /\ Inside(m, On(m, table))
          /\ \A o \in Points(table) : Inside(m, o) => Len(o) <= Len(On(m, table))
      BY <1>5, <2>2, OnIs
    <3>2. m \in Seq(Name) /\ On(m, table) \in Seq(Name)
      BY <1>4, <1>5, <2>2, <3>1, PathIsSeq
    <3>3. Inside(m, m)
      BY <3>2, InsideSelf
    <3>4. Len(m) <= Len(On(m, table))
      BY <1>5, <2>2, <3>1, <3>3
    <3>5. Len(On(m, table)) <= Len(m)
      BY <3>1, <3>2, InsidePoints
    <3>6. Len(m) = Len(On(m, table))
      BY <3>2, <3>4, <3>5
    <3>7. QED
      BY <3>1, <3>2, <3>3, <3>6, InsideOrder
  <2>5. m \in Enters(root, walk, table, policy)
    BY <2>2, <2>3, <2>4 DEF Enters
  <2>6. QED
    BY <2>5
<1>8. QED
  BY <1>1, <1>2, <1>6, <1>7, Verdict

\* A table read backwards has the same rows.
LEMMA ReversedTable ==
    ASSUME NEW table \in Table
    PROVE  Reverse(table) \in Table /\ ToSet(Reverse(table)) = ToSet(table)
<1> DEFINE n == Len(table)
           back == Reverse(table)
<1>1. /\ table \in Seq(Row) /\ n \in Nat /\ DOMAIN table = 1..n
      /\ \A i \in 1..n : table[i] \in Row
  BY DEF Table
<1>2. back = [i \in 1..n |-> table[(n - i) + 1]]
  BY DEF Reverse
<1>3. PICK e \in 1..n : table[e].point = << >>
  BY <1>1 DEF Table
<1> HIDE DEF n, back
<1>4. \A i \in 1..n : (n - i) + 1 \in 1..n /\ n - ((n - i) + 1) + 1 = i
  BY <1>1
<1>5. DOMAIN back = 1..n /\ \A i \in 1..n : back[i] = table[(n - i) + 1]
  BY <1>2
<1>6. \A i \in 1..n : back[(n - i) + 1] = table[i]
  BY <1>4, <1>5
<1>7. back \in [1..n -> Row]
  BY <1>1, <1>2, <1>4
<1>8. back \in Seq(Row)
  BY <1>1, <1>7
<1>9. back[(n - e) + 1].point = << >> /\ (n - e) + 1 \in DOMAIN back
  BY <1>3, <1>4, <1>5, <1>6
<1>10. back \in Table
  BY <1>8, <1>9 DEF Table
<1>11. ToSet(back) = ToSet(table)
  <2>1. \A i \in DOMAIN back : back[i] \in ToSet(table)
    BY <1>1, <1>4, <1>5 DEF ToSet
  <2>2. \A i \in DOMAIN table : table[i] \in ToSet(back)
    <3> SUFFICES ASSUME NEW i \in 1..n PROVE table[i] \in ToSet(back)
      BY <1>1
    <3>1. back[(n - i) + 1] = table[i] /\ (n - i) + 1 \in DOMAIN back
      BY <1>4, <1>5, <1>6
    <3>2. QED
      BY <3>1 DEF ToSet
  <2>3. QED
    BY <2>1, <2>2 DEF ToSet
<1>12. QED
  BY <1>10, <1>11 DEF back

\* Which walks are refused does not depend on the order of the mount table:
\* for every mount table, policy and walk.
\* src/walk_blocker/search_rules.py:1223-1232.
THEOREM OrderIsImmaterial ==
    ASSUME NEW table \in Table, NEW policy \in Policy, NEW walk \in Walk
    PROVE  OrderDecidesNothing(walk, table, policy)
<1> DEFINE back == Reverse(table)
<1>1. back \in Table /\ ToSet(back) = ToSet(table)
  BY ReversedTable
<1> HIDE DEF back
<1>2. ExpensivePoints(back, policy) = ExpensivePoints(table, policy)
  BY <1>1 DEF ExpensivePoints
<1>3. ASSUME NEW root \in walk.roots
      PROVE  JudgeRoot(root, ReadMounts(table, policy), policy, walk.device, walk.depth)
             <=> JudgeRoot(root, ReadMounts(back, policy), policy, walk.device, walk.depth)
  <2>1. /\ root \in Path /\ walk.device \in BOOLEAN /\ walk.depth \in {NoBound} \cup Nat
    BY WalkParts
  <2>2. /\ NearPoints(root, table, policy) = NearPoints(root, back, policy)
        /\ BelowPoints(root, table, policy) = BelowPoints(root, back, policy)
    BY <1>2 DEF NearPoints, BelowPoints
  <2>3. /\ RefusedNear(root, table, policy, walk.depth)
            <=> RefusedNear(root, back, policy, walk.depth)
        /\ RefusedBelow(root, table, policy, walk.device, walk.depth)
            <=> RefusedBelow(root, back, policy, walk.device, walk.depth)
    BY <2>2 DEF RefusedNear, RefusedBelow
  <2>4. QED
    BY <1>1, <2>1, <2>3, Verdict
<1>4. Refused(walk, table, policy) <=> Refused(walk, back, policy)
  BY <1>3 DEF Refused
<1>5. QED
  BY <1>4 DEF OrderDecidesNothing, back, Refused

-----------------------------------------------------------------------------
(* The two layers. *)

\* A root that is refused with a depth is refused without one, which is how
\* Layer 2 judges it.
LEMMA DepthOnlyHelps ==
    ASSUME NEW path, NEW rows, NEW policy, NEW device, NEW depth,
           JudgeRoot(path, rows, policy, device, depth)
    PROVE  JudgeRoot(path, rows, policy, device, NoDepth)
BY DEF JudgeRoot, NoDepth, NoBound

\* Without the directory a tool runs in, a root is the same or is not known.
LEMMA RootsUnread ==
    ASSUME NEW text, NEW dir, NEW cwd
    PROVE  LET read == CleanPath(text, Moved(dir, At(cwd)))
               unread == CleanPath(text, Moved(dir, Unreadable))
           IN  /\ read.known
               /\ unread = read \/ ~unread.known
<1> DEFINE base == Moved(dir, At(cwd))
           other == Moved(dir, Unreadable)
<1>1. /\ base.known /\ DOMAIN base = {"known", "path"}
      /\ other = base \/ (~other.known /\ DOMAIN other = {"known", "path"})
  BY DEF Moved, CleanPath, At, Unreadable
<1> HIDE DEF base, other
<1>2. CleanPath(text, base).known
  BY <1>1 DEF CleanPath, At
<1>3. CASE other = base
  BY <1>2, <1>3 DEF base, other
<1>4. CASE ~other.known /\ DOMAIN other = {"known", "path"}
  <2>1. CASE text \in DOMAIN Absolute
    BY <1>2, <2>1 DEF CleanPath, base, other
  <2>2. CASE text \notin DOMAIN Absolute
    <3>1. ~CleanPath(text, other).known
      BY <1>4, <2>2 DEF CleanPath
    <3>2. QED
      BY <1>2, <3>1 DEF base, other
  <2>3. QED
    BY <2>1, <2>2
<1>5. QED
  BY <1>1, <1>3, <1>4

\* What Layer 1 refuses, Layer 2 names when the tool runs all the same, and it
\* gives no clean bill of health of a walk whose directory it cannot read: for
\* every command, mount table and policy.  node/reaper.py:650-659 and 681-697.
THEOREM BackstopSeesEveryRefusal ==
    ASSUME NEW p, NEW argv, NEW cwd, NEW table, NEW policy, NEW tty
    PROVE  BackstopSeesIt(p, argv, cwd, table, policy, tty)
<1> DEFINE texts == Roots(p, argv, tty, TRUE)
           dir == EffectiveCwd(p, argv)
           read(text) == CleanPath(text, Moved(dir, At(cwd)))
           unread(text) == CleanPath(text, Moved(dir, Unreadable))
           judged(r) == JudgeRoot(r.path, ReadMounts(table, policy), policy,
                                  DeviceBounded(p, argv), NoDepth)
<1> SUFFICES ASSUME Check(p, argv, At(cwd), table, policy, tty)
             PROVE  /\ Hits(p, argv, RunningRoots(p, argv, At(cwd), tty), table, policy) # {}
                    /\ Speaks(p, argv, RunningRoots(p, argv, Unreadable, tty), table, policy)
  BY DEF BackstopSeesIt
<1>1. /\ RunningRoots(p, argv, At(cwd), tty) = {read(text) : text \in texts}
      /\ RunningRoots(p, argv, Unreadable, tty) = {unread(text) : text \in texts}
  BY DEF RunningRoots, ResolvedRoots, Base
<1>2. IsTraversal(p, argv)
  BY DEF Check
<1>3. PICK text \in texts : judged(read(text))
  <2> DEFINE paths == {r.path : r \in ResolvedRoots(p, argv, At(cwd), tty)}
  <2>1. PICK root \in paths :
           JudgeRoot(root, ReadMounts(table, policy), policy, DeviceBounded(p, argv),
                     DepthBound(p, argv))
    BY DEF Check, Refused
  <2>2. JudgeRoot(root, ReadMounts(table, policy), policy, DeviceBounded(p, argv), NoDepth)
    BY <2>1, DepthOnlyHelps
  <2>3. PICK r \in RunningRoots(p, argv, At(cwd), tty) : root = r.path
    BY <2>1 DEF RunningRoots
  <2>4. judged(r)
    BY <2>2, <2>3
  <2>5. QED
    BY <1>1, <2>3, <2>4
<1>4. read(text).known /\ (unread(text) = read(text) \/ ~unread(text).known)
  BY RootsUnread
<1>5. read(text) \in Hits(p, argv, RunningRoots(p, argv, At(cwd), tty), table, policy)
  BY <1>1, <1>2, <1>3, <1>4 DEF Hits
<1>6. CASE unread(text) = read(text)
  <2>1. unread(text) \in Hits(p, argv, RunningRoots(p, argv, Unreadable, tty), table, policy)
    BY <1>1, <1>2, <1>3, <1>4, <1>6 DEF Hits
  <2>2. QED
    BY <1>5, <2>1 DEF Speaks
<1>7. CASE ~unread(text).known
  <2>1. Speaks(p, argv, RunningRoots(p, argv, Unreadable, tty), table, policy)
    BY <1>1, <1>2, <1>7 DEF Speaks
  <2>2. QED
    BY <1>5, <2>1
<1>8. QED
  BY <1>4, <1>6, <1>7

-----------------------------------------------------------------------------
(* What the cases are. *)

NothingYet == given = << >>

\* A tool with an argv of its tokens, however many.
ArgvGiven ==
    \/ NothingYet
    \/ \E tool \in DOMAIN ProfileOf : \E argv \in Seq(Tokens[tool]) :
           given = [tool |-> tool, argv |-> argv]

MountGiven ==
    NothingYet \/ given \in [table : Table] \/ given \in [table : Table, policy : Policy]

GroupGiven ==
    \/ NothingYet \/ given \in [lines : Seq(LoginLine)]
    \/ given \in [lines : Seq(LoginLine), group : TG!Group, accounts : [Login -> TG!Account]]

\* The spool's files have been looked at only if it is a directory.
SpoolGiven == NothingYet \/ given \in SS!Spool

NodeGiven == NothingYet \/ given \in PF!Node

TreeGiven == NothingYet \/ given \in [tree : PayloadTree]

\* An ACL of the spool names two users at most.
AclGiven ==
    NothingYet \/ \E acl \in {{}} \cup {{a} : a \in AclsOf("x", {{"r", "x"}})} : given = WithAcl(acl)

JournalGiven ==
    \/ NothingYet \/ given \in [root : AR!JournalInode]
    \/ given \in [root : AR!JournalInode, dir : AR!JournalInode]

Shape ==
    /\ question = "none" => NothingYet
    /\ question = "argv" => ArgvGiven
    /\ question = "mounts" => MountGiven
    /\ question = "chain" => given \in Seq(PT!Component)
    /\ question = "groups" => GroupGiven
    /\ question = "spool" => SpoolGiven
    /\ question = "preflight" => NodeGiven
    /\ question = "payload" => TreeGiven
    /\ question = "acl" => AclGiven
    /\ question = "journal" => JournalGiven
    /\ question = "hook" => given \in Seq(HF!Line)

-----------------------------------------------------------------------------
(* Mounts. *)

LEMMA PathsOfCases ==
    /\ << >> \in Path /\ <<"a">> \in Path /\ <<"b">> \in Path /\ <<"a", "b">> \in Path
    /\ MaxLength \in Nat /\ MaxRank \in Nat /\ 1 \in 1..MaxRank + 1 /\ 2 \in 1..MaxRank + 1
<1>1. /\ MaxLength \in Nat /\ MaxLength >= 2 /\ MaxRank \in Nat /\ MaxRank >= 1
      /\ "a" \in Name /\ "b" \in Name
  BY MountPolicyAssumption, DecisionsAssumption
<1>2. 0 \in 0..MaxLength /\ 1 \in 0..MaxLength /\ 2 \in 0..MaxLength
  BY <1>1
<1>3. << >> \in [1..0 -> Name] /\ <<"a">> \in [1..1 -> Name] /\ <<"b">> \in [1..1 -> Name]
      /\ <<"a", "b">> \in [1..2 -> Name]
  BY <1>1
<1>4. \A n \in 0..MaxLength : [1..n -> Name] \subseteq Path
  BY DEF Path, SeqOf
<1>5. << >> \in Path /\ <<"a">> \in Path /\ <<"b">> \in Path /\ <<"a", "b">> \in Path
  BY <1>2, <1>3, <1>4
<1>6. 1 \in 1..MaxRank + 1 /\ 2 \in 1..MaxRank + 1
  BY <1>1
<1>7. QED
  BY <1>1, <1>5, <1>6

\* A seam leaves a policy one.
LEMMA FromEnvIsPolicy ==
    ASSUME NEW policy \in Policy, NEW seam
    PROVE  FromEnv(policy, seam) \in Policy
<1> DEFINE kept(m) == IF m \in DOMAIN seam /\ seam[m] \in 0..policy.max
                      THEN seam[m] ELSE NoBound
           over(m) == [class |-> IF kept(m) # NoBound /\ policy.mounts[m].class = "none"
                                 THEN "expensive" ELSE policy.mounts[m].class,
                       depth |-> kept(m)]
           mounts == [m \in Path |-> over(m)]
<1>1. /\ policy = [proxy |-> policy.proxy, maxdepth |-> policy.maxdepth,
                   unscoped |-> policy.unscoped, max |-> policy.max, mounts |-> policy.mounts]
      /\ policy.proxy \in BOOLEAN /\ policy.maxdepth \in Nat /\ policy.unscoped \in Nat
      /\ policy.max \in Nat /\ policy.mounts \in [Path -> Override]
  BY DEF Policy
<1>2. \A m \in Path : over(m) \in Override
  <2> SUFFICES ASSUME NEW m \in Path PROVE over(m) \in Override
    OBVIOUS
  <2>1. kept(m) \in {NoBound} \cup Nat
    BY <1>1
  <2>2. policy.mounts[m].class \in {"expensive", "cheap", "none"}
    BY <1>1 DEF Override
  <2> HIDE DEF kept
  <2>3. QED
    BY <2>1, <2>2 DEF Override
<1>3. mounts \in [Path -> Override]
  BY <1>2
<1>4. FromEnv(policy, seam) = [policy EXCEPT !.mounts = mounts]
  BY DEF FromEnv
<1> HIDE DEF mounts
<1>5. QED
  BY <1>1, <1>3, <1>4 DEF Policy

\* A policy of the cases.
LEMMA CasePolicy ==
    ASSUME NEW unscoped \in Nat, NEW class \in {"none", "cheap", "expensive"}
    PROVE  PolicyWith(unscoped, class) \in Policy
<1> DEFINE over(m) == [class |-> IF m = <<"a">> THEN class ELSE "none", depth |-> NoBound]
           mounts == [m \in Path |-> over(m)]
<1>1. \A m \in Path : over(m) \in Override
  BY DEF Override
<1>2. mounts \in [Path -> Override]
  BY <1>1
<1>3. PolicyWith(unscoped, class)
      = [proxy |-> TRUE, maxdepth |-> 1, unscoped |-> unscoped, max |-> 2, mounts |-> mounts]
  BY DEF PolicyWith
<1> HIDE DEF mounts
<1>4. QED
  BY <1>2, <1>3 DEF Policy

LEMMA CaseTable ==
    ASSUME NEW top \in RowKinds, NEW kinds \in [1..2 -> RowKinds],
           NEW points \in [1..2 -> {<<"a">>, <<"a", "b">>, <<"b">>}]
    PROVE  <<[point |-> << >>, rank |-> top.rank, remote |-> top.remote]>> \o
               [i \in 1..2 |-> [point |-> points[i], rank |-> kinds[i].rank,
                                remote |-> kinds[i].remote]] \in Table
<1> DEFINE first == [point |-> << >>, rank |-> top.rank, remote |-> top.remote]
           row(i) == [point |-> points[i], rank |-> kinds[i].rank, remote |-> kinds[i].remote]
           rest == [i \in 1..2 |-> row(i)]
<1>1. first \in Row /\ first.point = << >>
  <2>1. top.rank \in 1..2 /\ top.remote \in BOOLEAN
    BY DEF RowKinds
  <2>2. QED
    BY <2>1, PathsOfCases DEF Row
<1>2. \A i \in 1..2 : row(i) \in Row
  <2> SUFFICES ASSUME NEW i \in 1..2 PROVE row(i) \in Row
    OBVIOUS
  <2>1. kinds[i].rank \in 1..2 /\ kinds[i].remote \in BOOLEAN
    BY DEF RowKinds
  <2>2. points[i] \in Path
    BY PathsOfCases
  <2>3. kinds[i].rank \in 1..MaxRank + 1
    BY <2>1, PathsOfCases
  <2>4. QED
    BY <2>1, <2>2, <2>3 DEF Row
<1> HIDE DEF first, row
<1>3. rest \in Seq(Row) /\ <<first>> \in Seq(Row)
  BY <1>1, <1>2
<1> HIDE DEF rest
<1>4. /\ <<first>> \o rest \in Seq(Row) /\ 1 \in DOMAIN (<<first>> \o rest)
      /\ (<<first>> \o rest)[1] = first
  BY <1>3
<1>5. <<first>> \o rest \in Table
  BY <1>1, <1>4 DEF Table
<1>6. QED
  BY <1>5 DEF first, rest, row

-----------------------------------------------------------------------------
(* Chains, groups, spools, nodes and payloads. *)

LEMMA CaseAccounts ==
    /\ {0, 1, 2, 3} \subseteq Uid /\ {1, 2} \subseteq Gid /\ {1, 2} \subseteq Number
    /\ Root = 0 /\ User = 1 /\ SpoolGid = 1 /\ OtherGid = 2
BY DecisionsAssumption

LEMMA CaseComponents == Components \subseteq PT!Component
<1>1. Acls \subseteq {a \in PT!Acl : a.known = "none" => a = PT!NoAcl}
  <2>1. PT!NoAcl \in PT!Acl
    BY DEF PT!NoAcl, PT!Acl
  <2>2. [PT!NoAcl EXCEPT !.known = "opaque"] \in PT!Acl
        /\ [PT!NoAcl EXCEPT !.known = "opaque"].known # "none"
    BY DEF PT!NoAcl, PT!Acl
  <2>3. \A a \in [known : {"read"}, users : {{}, {1}}, groups : {{}, {1}, {2}}] :
           a \in PT!Acl /\ a.known # "none"
    BY CaseAccounts DEF PT!Acl
  <2>4. QED
    BY <2>1, <2>2, <2>3 DEF Acls
<1>2. PT!NoAcl \in {a \in PT!Acl : a.known = "none" => a = PT!NoAcl}
  BY DEF PT!NoAcl, PT!Acl
<1>3. {0, 1} \subseteq Uid /\ 1..2 \subseteq Gid
  BY CaseAccounts
<1> HIDE DEF PT!NoAcl
<1> DEFINE acls == {a \in PT!Acl : a.known = "none" => a = PT!NoAcl}
           there == [kind : {"dir"}, uid : {0, 1}, gid : 1..2, gw : BOOLEAN, ow : BOOLEAN,
                     sticky : BOOLEAN, acl : Acls]
           other == [kind : {"missing", "link", "hidden"}, uid : {0, 1}, gid : {1}, gw : {FALSE},
                     ow : {FALSE}, sticky : {FALSE}, acl : {PT!NoAcl}]
<1>4. PT!Component = [kind : {"missing", "link", "dir", "hidden"}, uid : Uid, gid : Gid,
                      gw : BOOLEAN, ow : BOOLEAN, sticky : BOOLEAN, acl : acls]
  BY DEF PT!Component
<1>5. Acls \subseteq acls /\ PT!NoAcl \in acls
  BY <1>1, <1>2
<1> HIDE DEF acls
<1>6. \A c \in there : c \in PT!Component
  BY <1>3, <1>4, <1>5
<1>7. ASSUME NEW c \in other PROVE c \in PT!Component
  <2>1. /\ c = [kind |-> c.kind, uid |-> c.uid, gid |-> c.gid, gw |-> c.gw, ow |-> c.ow,
                sticky |-> c.sticky, acl |-> c.acl]
        /\ c.kind \in {"missing", "link", "hidden"} /\ c.uid \in {0, 1} /\ c.gid = 1
        /\ c.gw = FALSE /\ c.ow = FALSE /\ c.sticky = FALSE /\ c.acl = PT!NoAcl
    OBVIOUS
  <2>2. c.uid \in Uid /\ c.gid \in Gid /\ c.acl \in acls
    BY <1>3, <1>5, <2>1
  <2>3. c.gw \in BOOLEAN /\ c.ow \in BOOLEAN /\ c.sticky \in BOOLEAN
    BY <2>1
  <2> HIDE DEF other
  <2>4. QED
    BY <1>4, <2>1, <2>2, <2>3
<1>8. Components = there \cup other
  BY DEF Components
<1>9. QED
  BY <1>6, <1>7, <1>8

LEMMA CaseLines ==
    /\ LoginDefs \subseteq Seq(LoginLine)
    /\ \A key \in TG!LOGIN_DEFS_KEYS, text \in Texts : [key |-> key, text |-> text] \in LoginLine
<1>1. \A text \in Texts : text \in [form : {"", "0", "0x"}, digits : Seq(Nat)]
  <2>1. <<1>> \in Seq(Nat) /\ <<2>> \in Seq(Nat) /\ <<9>> \in Seq(Nat) /\ << >> \in Seq(Nat)
    OBVIOUS
  <2>2. \A n \in {<<1>>, <<2>>, <<9>>, << >>}, form \in {"", "0", "0x"} :
           [form |-> form, digits |-> n] \in [form : {"", "0", "0x"}, digits : Seq(Nat)]
    BY <2>1
  <2>3. Texts = {[form |-> "", digits |-> <<1>>], [form |-> "", digits |-> <<2>>],
                 [form |-> "0", digits |-> <<9>>], [form |-> "0x", digits |-> << >>]}
    BY Zenon DEF Texts, Digits
  <2>4. QED
    BY <2>2, <2>3
<1>2. \A key \in TG!LOGIN_DEFS_KEYS, text \in Texts : [key |-> key, text |-> text] \in LoginLine
  BY <1>1 DEF LoginLine
<1>3. \A keys \in KeyOrders : keys \in Seq(TG!LOGIN_DEFS_KEYS)
  <2>1. {"UID_MIN", "UID_MAX", "GID_MIN"} = TG!LOGIN_DEFS_KEYS
    BY DEF TG!LOGIN_DEFS_KEYS
  <2>2. <<"UID_MIN", "UID_MAX", "GID_MIN">> \in Seq(TG!LOGIN_DEFS_KEYS)
    BY <2>1
  <2>3. /\ <<"UID_MAX", "GID_MIN">> \in Seq(TG!LOGIN_DEFS_KEYS)
        /\ <<"UID_MIN", "GID_MIN">> \in Seq(TG!LOGIN_DEFS_KEYS)
        /\ <<"UID_MIN", "UID_MAX">> \in Seq(TG!LOGIN_DEFS_KEYS)
    BY <2>1
  <2>4. QED
    BY <2>2, <2>3 DEF KeyOrders
<1>4. Digits \subseteq Texts
  BY DEF Texts
<1>5. ASSUME NEW keys \in KeyOrders, NEW f \in [TG!LOGIN_DEFS_KEYS -> Digits]
      PROVE  [i \in DOMAIN keys |-> [key |-> keys[i], text |-> f[keys[i]]]] \in Seq(LoginLine)
  <2>1. keys \in Seq(TG!LOGIN_DEFS_KEYS) /\ DOMAIN keys = 1..Len(keys) /\ Len(keys) \in Nat
    BY <1>3
  <2>2. \A i \in DOMAIN keys : [key |-> keys[i], text |-> f[keys[i]]] \in LoginLine
    <3> SUFFICES ASSUME NEW i \in DOMAIN keys
                 PROVE  [key |-> keys[i], text |-> f[keys[i]]] \in LoginLine
      OBVIOUS
    <3>1. keys[i] \in TG!LOGIN_DEFS_KEYS
      BY <2>1
    <3>2. f[keys[i]] \in Texts
      BY <1>4, <3>1
    <3>3. QED
      BY <1>2, <3>1, <3>2
  <2>3. QED
    BY <2>1, <2>2
<1>6. LoginDefs \subseteq Seq(LoginLine)
  BY <1>5 DEF LoginDefs
<1>7. QED
  BY <1>2, <1>6

LEMMA CaseInodes ==
    /\ SpoolFiles \subseteq SS!Inode /\ Strangers \subseteq SS!Inode /\ SpoolSelves \subseteq SS!Inode
    /\ NoFile \in SS!Inode /\ NoFile.kind = "missing"
    /\ [kind |-> "dir", uid |-> 0, gid |-> 2, mode |-> {"scope"}] \in SS!Inode
    /\ [kind |-> "file", uid |-> 0, gid |-> 2, mode |-> {"scope"}] \in SS!Inode
BY CaseAccounts DEF SpoolFiles, Strangers, SpoolSelves, NoFile, SS!Inode, SS!Kind, SS!Bits

LEMMA CaseNames ==
    /\ SS!Self \in SS!Names /\ "marker" \in SS!Names /\ "trail" \in SS!Names
    /\ "stranger" \in SS!Names
    /\ SS!Names = SS!File \cup {SS!Self} /\ SS!Self \notin SS!File
    /\ SS!Self # "marker" /\ SS!Self # "trail" /\ SS!Self # "stranger"
BY DecisionsAssumption, NodeChecksAssumption DEF SS!Names, SS!File, SS!Owned

LEMMA FitIsNode == \A hidden \in SUBSET (PF!Path \cup {"login_defs", "prefix_list", "payload"}) :
    [FitNode EXCEPT !.hidden = hidden] \in PF!Node
<1>1. [p \in PF!Path |-> "fit"] \in
          {f \in [PF!Path -> {"fit", "grouped", "unfit"}] :
              \A p \in PF!Path \ {"spool_dir"} : f[p] # "grouped"}
  OBVIOUS
<1> DEFINE fit == [p \in PF!Path |-> "fit"]
<1> HIDE DEF fit
<1>2. QED
  BY <1>1 DEF FitNode, PF!Node, PF!Fit, fit

LEMMA FlawedIsNode == ASSUME NEW node \in PF!Node PROVE Flaws(node) \subseteq PF!Node
<1>1. "spool_dir" \in PF!Path
  BY DEF PF!Path
<1>2. ASSUME NEW p \in PF!Path PROVE [node EXCEPT !.chain[p] = "unfit"] \in PF!Node
  BY DEF PF!Node
<1>3. [node EXCEPT !.spool = "missing"] \in PF!Node
  BY DEF PF!Node
<1>4. [node EXCEPT !.chain["spool_dir"] = "grouped"] \in PF!Node
  BY <1>1 DEF PF!Node
<1>5. ASSUME NEW field \in DOMAIN node \ {"chain", "installer_refuses", "hidden"}
      PROVE  [node EXCEPT ![field] = "unfit"] \in PF!Node
  BY DEF PF!Node, PF!Fit
<1>6. ASSUME NEW callers \in SUBSET PF!Caller
      PROVE  [node EXCEPT !.installer_refuses = callers] \in PF!Node
  BY DEF PF!Node
<1>7. QED
  BY <1>2, <1>3, <1>4, <1>5, <1>6 DEF Flaws

LEMMA CaseTree ==
    ASSUME NEW f \in FileCases, NEW lock \in FileCases, NEW d \in DirCases, NEW s \in DirCases,
           NEW a \in FileCases, NEW b \in FileCases,
           d.kind # "dir" => a = Absent /\ s = Absent, s.kind # "dir" => b = Absent
    PROVE  TreeOf(f, lock, d, a, s, b) \in PayloadTree
<1> DEFINE t == TreeOf(f, lock, d, a, s, b)
<1>1. FileCases \cup DirCases \subseteq PR!Entry
  <2>1. /\ PR!Entry = [kind : {"missing", "file", "dir", "link", "fifo"},
                         content : Content, closed : BOOLEAN]
        /\ 1 \in Content /\ 1..2 \subseteq Content
    BY DecisionsAssumption DEF PR!Entry
  <2>2. \A e \in Shows({"file"}, 1..2) \cup Shows({"dir"}, {1}) : e \in PR!Entry
    BY <2>1 DEF Shows
  <2>3. \A e \in [kind : {"missing", "link", "dir"}, content : {1}, closed : {FALSE}]
              \cup [kind : {"missing", "link", "fifo"}, content : {1}, closed : {FALSE}] :
           e \in PR!Entry
    BY <2>1
  <2>4. QED
    BY <2>2, <2>3 DEF FileCases, DirCases
<1>2. /\ DOMAIN t = PayloadPaths /\ t[<<"f">>] = f /\ t[<<"lock">>] = lock /\ t[<<"d">>] = d
      /\ t[<<"d", "a">>] = a /\ t[<<"d", "s">>] = s /\ t[<<"d", "s", "b">>] = b
  BY DEF PayloadPaths, TreeOf
<1>3. PayloadPath = PayloadPaths
  BY DecisionsAssumption
<1>4. t \in [PayloadPath -> PR!Entry]
  <2> DEFINE at(p) == CASE p = <<"f">> -> f
                        [] p = <<"lock">> -> lock
                        [] p = <<"d">> -> d
                        [] p = <<"d", "a">> -> a
                        [] p = <<"d", "s">> -> s
                        [] p = <<"d", "s", "b">> -> b
  <2>1. t = [p \in PayloadPaths |-> at(p)]
    BY DEF TreeOf
  <2>2. \A p \in PayloadPaths : at(p) = t[p]
    BY <2>1
  <2> HIDE DEF at, t
  <2>3. \A p \in PayloadPaths : t[p] \in PR!Entry
    BY <1>1, <1>2 DEF PayloadPaths
  <2>4. QED
    BY <1>3, <2>1, <2>2, <2>3
<1> HIDE DEF t
<1>5. ASSUME NEW p \in PayloadPath, NEW q \in PayloadPath, PR!Under(q, p), t[p].kind # "missing"
      PROVE  t[q].kind = "dir"
  <2>1. \/ q = <<"d">> /\ p \in {<<"d", "a">>, <<"d", "s">>, <<"d", "s", "b">>}
        \/ q = <<"d", "s">> /\ p = <<"d", "s", "b">>
    <3>1. p \in Seq(STRING) /\ q \in Seq(STRING) /\ IsPrefix(q, p) /\ q # p
      BY <1>5, NodeChecksAssumption DEF PR!Under, PR!IsStrictPrefix, PR!IsPrefix, IsPrefix
    <3>2. Len(q) <= Len(p) /\ \A i \in 1..Len(q) : q[i] = p[i]
      BY <3>1, PrefixPoints
    <3>3. Len(q) = Len(p) => q = p
      BY <3>1, <3>2
    <3>4. Len(q) < Len(p) /\ (1 <= Len(q) => q[1] = p[1]) /\ (2 <= Len(q) => q[2] = p[2])
      BY <3>1, <3>2, <3>3
    <3>5. p \in PayloadPaths /\ q \in PayloadPaths
      BY <1>3
    <3>6. CASE Len(p) = 1 \/ Len(q) = 3
      BY <3>4, <3>5, <3>6 DEF PayloadPaths
    <3>7. CASE Len(p) = 2
      <4>1. p \in {<<"d", "a">>, <<"d", "s">>} /\ p[1] = "d"
        BY <3>5, <3>7 DEF PayloadPaths
      <4>2. Len(q) = 1 /\ q[1] = "d"
        BY <3>4, <3>5, <3>7, <4>1 DEF PayloadPaths
      <4>3. q = <<"d">>
        BY <3>5, <4>2 DEF PayloadPaths
      <4>4. QED
        BY <4>1, <4>3
    <3>8. CASE Len(p) = 3
      <4>1. p = <<"d", "s", "b">> /\ p[1] = "d" /\ p[2] = "s"
        BY <3>5, <3>8 DEF PayloadPaths
      <4>2. Len(q) \in {1, 2} /\ q[1] = "d" /\ (Len(q) = 2 => q[2] = "s")
        BY <3>4, <3>5, <3>8, <4>1 DEF PayloadPaths
      <4>3. q = <<"d">> \/ q = <<"d", "s">>
        BY <3>5, <4>2 DEF PayloadPaths
      <4>4. QED
        BY <4>1, <4>3
    <3>9. Len(p) \in {1, 2, 3}
      BY <3>5 DEF PayloadPaths
    <3>10. QED
      BY <3>6, <3>7, <3>8, <3>9
  <2>2. Absent.kind = "missing"
    BY DEF Absent
  <2>3. QED
    BY <1>2, <1>5, <2>1, <2>2
<1>6. QED
  BY <1>4, <1>5 DEF PayloadTree, t

-----------------------------------------------------------------------------
(* Access control lists. *)

LEMMA FewEntries ==
    ASSUME NEW X, NEW T \in SUBSET X, NEW bits \in SUBSET SUBSET AR!Perm, NEW f \in [T -> bits]
    PROVE  f \in AR!Entries(X)
<1>1. f \in [T -> SUBSET AR!Perm]
  OBVIOUS
<1>2. QED
  BY <1>1 DEF AR!Entries

\* The entries of the cases are for two users and two groups.
LEMMA CaseAcls ==
    ASSUME NEW p \in AR!Perm, NEW mask \in SUBSET SUBSET AR!Perm,
           mask = {} \/ \E m \in SUBSET AR!Perm : mask = {m}
    PROVE  /\ AclsOf(p, mask) \subseteq AR!Acl
           /\ \A a \in AclsOf(p, mask) : DOMAIN a.users \subseteq {1, 2}
<1> SUFFICES ASSUME NEW a \in AclsOf(p, mask)
             PROVE  a \in AR!Acl /\ DOMAIN a.users \subseteq {1, 2}
  OBVIOUS
<1>0. PICK users \in UNION {[U -> {{}, {p}}] : U \in SUBSET {1, 2}},
           groups \in UNION {[G -> {{}, {p}}] : G \in SUBSET {1, 2}},
           owning \in {{}, {p}} :
         a = [users |-> users, groups |-> groups, owning |-> owning, mask |-> mask]
  BY DEF AclsOf
<1>1. PICK U \in SUBSET {1, 2}, G \in SUBSET {1, 2} :
         users \in [U -> {{}, {p}}] /\ groups \in [G -> {{}, {p}}]
  OBVIOUS
<1>2. {{}, {p}} \in SUBSET SUBSET AR!Perm
  OBVIOUS
<1>3. U \in SUBSET (Uid \ {Root}) /\ G \in SUBSET Gid
  BY CaseAccounts
<1>4. users \in AR!Entries(Uid \ {Root})
  BY <1>1, <1>2, <1>3, FewEntries
<1>5. groups \in AR!Entries(Gid)
  BY <1>1, <1>2, <1>3, FewEntries
<1>6. mask \in {{}} \cup {{m} : m \in SUBSET AR!Perm}
  OBVIOUS
<1>7. DOMAIN users \subseteq {1, 2}
  BY <1>1
<1>8. owning \in SUBSET AR!Perm
  BY <1>2
<1>9. QED
  BY <1>0, <1>4, <1>5, <1>6, <1>7, <1>8 DEF AR!Acl

LEMMA CaseInode ==
    ASSUME NEW acl \in {{}} \cup {{a} : a \in AR!Acl}
    PROVE  /\ WithAcl(acl) \in AR!Inode
           /\ WithAcl(acl).acl = acl /\ WithAcl(acl).uid = Root
<1>1. {"r", "x"} \in SUBSET AR!Perm /\ {} \in SUBSET AR!Perm
  BY DEF AR!Perm
<1>2. 0 \in Uid /\ 1 \in Gid /\ Root = 0
  BY CaseAccounts
<1>3. WithAcl(acl) = [uid |-> 0, gid |-> 1, owner |-> {"r", "x"}, group |-> {"r", "x"},
                      other |-> {}, acl |-> acl]
  BY DEF WithAcl
<1>4. WithAcl(acl) \in AR!Inode
  BY <1>1, <1>2, <1>3 DEF AR!Inode
<1>5. QED
  BY <1>2, <1>3, <1>4

\* A spool of the cases names users 1 and 2 at most.
LEMMA CaseSpoolAcl ==
    ASSUME NEW acl \in {{}} \cup {{a} : a \in AclsOf("x", {{"r", "x"}})}
    PROVE  /\ acl \in {{}} \cup {{a} : a \in AR!Acl}
           /\ \A a \in acl : a \in AR!Acl /\ DOMAIN a.users \subseteq {1, 2}
<1>1. "x" \in AR!Perm /\ {"r", "x"} \in SUBSET AR!Perm
  BY DEF AR!Perm
<1>2. {{"r", "x"}} \in SUBSET SUBSET AR!Perm
  BY <1>1
<1>3. /\ AclsOf("x", {{"r", "x"}}) \subseteq AR!Acl
      /\ \A a \in AclsOf("x", {{"r", "x"}}) : DOMAIN a.users \subseteq {1, 2}
  BY <1>1, <1>2, CaseAcls
<1>4. QED
  BY <1>3

LEMMA CaseJournalAcls == JournalAcls \subseteq AR!Acl
<1> SUFFICES ASSUME NEW a \in JournalAcls PROVE a \in AR!Acl
  OBVIOUS
<1>0. PICK users \in UNION {[U -> {{}}] : U \in SUBSET {1}},
           groups \in UNION {[G -> {{"x"}, {"r"}, {"r", "x"}}] : G \in SUBSET {2}},
           mask \in {{}, {{"x"}}, {{"r"}}, {{"r", "x"}}} :
         a = [users |-> users, groups |-> groups, owning |-> {"r", "x"}, mask |-> mask]
  BY DEF JournalAcls
<1>1. PICK U \in SUBSET {1}, G \in SUBSET {2} :
         users \in [U -> {{}}] /\ groups \in [G -> {{"x"}, {"r"}, {"r", "x"}}]
  OBVIOUS
<1>2. {{}} \in SUBSET SUBSET AR!Perm /\ {{"x"}, {"r"}, {"r", "x"}} \in SUBSET SUBSET AR!Perm
      /\ {"r", "x"} \in SUBSET AR!Perm
  BY DEF AR!Perm
<1>3. U \in SUBSET (Uid \ {Root}) /\ G \in SUBSET Gid
  BY CaseAccounts
<1>4. users \in AR!Entries(Uid \ {Root})
  BY <1>1, <1>2, <1>3, FewEntries
<1>5. groups \in AR!Entries(Gid)
  BY <1>1, <1>2, <1>3, FewEntries
<1>6. mask \in {{}} \cup {{m} : m \in SUBSET AR!Perm}
  BY DEF AR!Perm
<1>7. QED
  BY <1>0, <1>2, <1>4, <1>5, <1>6 DEF AR!Acl

LEMMA CaseJournal ==
    /\ JournalInodes(Defaults) \subseteq AR!JournalInode
    /\ NoJournal.dir \in AR!JournalInode
<1>1. Defaults \subseteq {{}} \cup {{p} : p \in SUBSET AR!Perm}
  BY DEF Defaults, AR!Perm
<1>2. {{}} \cup {{a} : a \in JournalAcls} \subseteq {{}} \cup {{a} : a \in AR!Acl}
  BY CaseJournalAcls
<1>3. ASSUME NEW there \in BOOLEAN, NEW acl \in {{}} \cup {{a} : a \in AR!Acl},
             NEW default \in {{}} \cup {{p} : p \in SUBSET AR!Perm}
      PROVE  [there |-> there, inode |-> WithAcl(acl), default |-> default] \in AR!JournalInode
  <2>1. WithAcl(acl) \in AR!Inode
    BY CaseInode
  <2>2. QED
    BY <2>1 DEF AR!JournalInode
<1>4. JournalInodes(Defaults) \subseteq AR!JournalInode
  BY <1>1, <1>2, <1>3 DEF JournalInodes
<1>5. NoJournal.dir = [there |-> FALSE, inode |-> WithAcl({}), default |-> {}]
  BY DEF NoJournal
<1>6. {} \in {{}} \cup {{a} : a \in AR!Acl} /\ {} \in {{}} \cup {{p} : p \in SUBSET AR!Perm}
  OBVIOUS
<1>7. NoJournal.dir \in AR!JournalInode
  BY <1>3, <1>5, <1>6
<1>8. QED
  BY <1>4, <1>7

-----------------------------------------------------------------------------
(* The invariant: one step per action, each of which adds to one question's  *)
(* case.                                                                     *)

LEMMA ShapeInit == Init => Shape
BY DEF Init, Shape, NothingYet, ArgvGiven, MountGiven, GroupGiven, SpoolGiven, NodeGiven, TreeGiven,
       AclGiven, JournalGiven

LEMMA AskKeepsShape == Shape /\ Ask => Shape'
<1> SUFFICES ASSUME Shape, Ask PROVE Shape'
  OBVIOUS
<1>1. given' = << >>
  BY DEF Shape, Ask, NothingYet
<1>2. << >> \in Seq(PT!Component)
  OBVIOUS
<1>3. QED
  BY <1>1, <1>2 DEF Shape, NothingYet, ArgvGiven, MountGiven, GroupGiven, SpoolGiven, NodeGiven, TreeGiven,
       AclGiven, JournalGiven

LEMMA CommandsKeepShape == Shape /\ (PickTool \/ AddToken) => Shape'
<1> SUFFICES ASSUME Shape, PickTool \/ AddToken PROVE ArgvGiven' /\ question' = "argv"
  BY DEF Shape
<1>1. question = "argv" /\ question' = "argv"
  BY DEF PickTool, AddToken, Asked
<1>2. CASE PickTool
  <2>1. PICK tool \in DOMAIN ProfileOf : given' = [tool |-> tool, argv |-> << >>]
    BY <1>2 DEF PickTool
  <2>2. << >> \in Seq(Tokens[tool])
    OBVIOUS
  <2>3. QED
    BY <1>1, <2>1, <2>2 DEF ArgvGiven
<1>3. CASE AddToken
  <2>1. given # << >> /\ \E t \in Tokens[given.tool] : given' = [given EXCEPT !.argv = Append(@, t)]
    BY <1>3 DEF AddToken
  <2>7. PICK tool \in DOMAIN ProfileOf :
           \E argv \in Seq(Tokens[tool]) : given = [tool |-> tool, argv |-> argv]
    BY <1>1, <2>1 DEF Shape, ArgvGiven, NothingYet
  <2>2. PICK argv \in Seq(Tokens[tool]) : given = [tool |-> tool, argv |-> argv]
    BY <2>7
  <2>3. PICK t \in Tokens[tool] : given' = [given EXCEPT !.argv = Append(@, t)]
    BY <2>1, <2>2
  <2>4. given' = [tool |-> tool, argv |-> Append(argv, t)]
    BY <2>2, <2>3
  <2>5. Append(argv, t) \in Seq(Tokens[tool])
    BY <2>2, <2>3
  <2>6. QED
    BY <1>1, <2>4, <2>5 DEF ArgvGiven
<1>4. QED
  BY <1>2, <1>3

LEMMA MountsKeepShape == Shape /\ (PickMounts \/ PickPolicy) => Shape'
<1> SUFFICES ASSUME Shape, PickMounts \/ PickPolicy PROVE MountGiven' /\ question' = "mounts"
  BY DEF Shape
<1>1. CASE PickMounts
  <2>1. PICK top \in {k \in RowKinds : k.rank = 1 <=> k.remote},
             points \in {s \in [1..2 -> {<<"a">>, <<"a", "b">>, <<"b">>}] : s[1] # s[2]},
             kinds \in [1..2 -> RowKinds] :
           given' = [table |-> <<[point |-> << >>, rank |-> top.rank, remote |-> top.remote]>> \o
                                [i \in 1..2 |-> [point |-> points[i], rank |-> kinds[i].rank,
                                                 remote |-> kinds[i].remote]]]
    BY <1>1 DEF PickMounts
  <2>2. <<[point |-> << >>, rank |-> top.rank, remote |-> top.remote]>> \o
            [i \in 1..2 |-> [point |-> points[i], rank |-> kinds[i].rank,
                             remote |-> kinds[i].remote]] \in Table
    BY CaseTable
  <2>3. given' \in [table : Table]
    BY <2>1, <2>2
  <2>4. question' = "mounts"
    BY <1>1 DEF PickMounts, Asked
  <2>5. QED
    BY <2>3, <2>4 DEF MountGiven
<1>2. CASE PickPolicy
  <2>0. PICK unscoped \in 1..2, class \in {"none", "cheap", "expensive"} :
           \E seam :
              given' = [table |-> given.table, policy |-> FromEnv(PolicyWith(unscoped, class), seam)]
    BY <1>2 DEF PickPolicy
  <2>1. PICK seam :
           given' = [table |-> given.table, policy |-> FromEnv(PolicyWith(unscoped, class), seam)]
    BY <2>0
  <2>2. question = "mounts" /\ question' = "mounts" /\ given # << >>
    BY <1>2 DEF PickPolicy
  <2>3. given.table \in Table
    BY <2>2 DEF Shape, MountGiven, NothingYet
  <2>4. PolicyWith(unscoped, class) \in Policy
    BY CasePolicy
  <2>5. FromEnv(PolicyWith(unscoped, class), seam) \in Policy
    BY <2>4, FromEnvIsPolicy
  <2>6. given' \in [table : Table, policy : Policy]
    BY <2>1, <2>3, <2>5
  <2>7. QED
    BY <2>2, <2>6 DEF MountGiven
<1>3. QED
  BY <1>1, <1>2

LEMMA ChainsKeepShape == Shape /\ PickChain => Shape'
<1> SUFFICES ASSUME Shape, PickChain PROVE given' \in Seq(PT!Component) /\ question' = "chain"
  BY DEF Shape
<1>1. PICK c \in Components : given' = Append(given, c)
  BY DEF PickChain
<1>2. given \in Seq(PT!Component) /\ question' = "chain"
  BY DEF Shape, PickChain
<1>3. QED
  BY <1>1, <1>2, CaseComponents

LEMMA GroupsKeepShape == Shape /\ (PickLoginDefs \/ PickGroup) => Shape'
<1> SUFFICES ASSUME Shape, PickLoginDefs \/ PickGroup PROVE GroupGiven' /\ question' = "groups"
  BY DEF Shape
<1>1. CASE PickLoginDefs
  <2>1. PICK lines \in LoginDefs :
           \/ given' = [lines |-> lines]
           \/ \E key \in TG!LOGIN_DEFS_KEYS, text \in Texts :
                 given' = [lines |-> Append(lines, [key |-> key, text |-> text])]
    BY <1>1 DEF PickLoginDefs
  <2>2. lines \in Seq(LoginLine)
    BY CaseLines
  <2>3. \A key \in TG!LOGIN_DEFS_KEYS, text \in Texts :
           Append(lines, [key |-> key, text |-> text]) \in Seq(LoginLine)
    <3> SUFFICES ASSUME NEW key \in TG!LOGIN_DEFS_KEYS, NEW text \in Texts
                 PROVE  Append(lines, [key |-> key, text |-> text]) \in Seq(LoginLine)
      OBVIOUS
    <3>1. [key |-> key, text |-> text] \in LoginLine
      BY CaseLines
    <3>2. QED
      BY <2>2, <3>1
  <2>4. given' \in [lines : Seq(LoginLine)]
    <3>1. PICK left \in Seq(LoginLine) : given' = [lines |-> left]
      BY <2>1, <2>2, <2>3
    <3>2. QED
      BY <3>1
  <2>5. question' = "groups"
    BY <1>1 DEF PickLoginDefs, Asked
  <2>6. QED
    BY <2>4, <2>5 DEF GroupGiven
<1>2. CASE PickGroup
  <2>1. PICK n \in TG!Account, o \in {a \in TG!Account : a.gid = 2 /\ a.listed}, group \in TG!Group :
           given' = [lines |-> given.lines, group |-> group,
                     accounts |-> [name \in {"n", "o"} |-> IF name = "n" THEN n ELSE o]]
    BY <1>2 DEF PickGroup
  <2>2. question = "groups" /\ question' = "groups" /\ given # << >>
    BY <1>2 DEF PickGroup
  <2>3. given.lines \in Seq(LoginLine)
    BY <2>2 DEF Shape, GroupGiven, NothingYet
  <2>4. [name \in {"n", "o"} |-> IF name = "n" THEN n ELSE o] \in [Login -> TG!Account]
    BY DecisionsAssumption
  <2>5. given' \in [lines : Seq(LoginLine), group : TG!Group, accounts : [Login -> TG!Account]]
    BY <2>1, <2>3, <2>4
  <2>6. QED
    BY <2>2, <2>5 DEF GroupGiven
<1>3. QED
  BY <1>1, <1>2

LEMMA SpoolsKeepShape == Shape /\ (PickSpool \/ PickFiles) => Shape'
<1> SUFFICES ASSUME Shape, PickSpool \/ PickFiles PROVE SpoolGiven' /\ question' = "spool"
  BY DEF Shape
<1>1. CASE PickSpool
  <2>1. PICK self \in SpoolSelves : given' = [n \in SS!Names |-> IF n = SS!Self THEN self ELSE NoFile]
    BY <1>1 DEF PickSpool
  <2>2. given' \in [SS!Names -> SS!Inode]
    BY <2>1, CaseInodes
  <2>3. \A n \in SS!File : given'[n].kind = "missing"
    BY <2>1, CaseInodes, CaseNames
  <2>4. question' = "spool"
    BY <1>1 DEF PickSpool, Asked
  <2>5. QED
    BY <2>2, <2>3, <2>4 DEF SpoolGiven, SS!Spool
<1>2. CASE PickFiles
  <2>1. PICK marker \in SpoolFiles, trail \in SpoolFiles, stranger \in Strangers :
           given' = [given EXCEPT !["marker"] = marker, !["trail"] = trail, !["stranger"] = stranger]
    BY <1>2 DEF PickFiles
  <2>2. /\ question = "spool" /\ question' = "spool" /\ given # << >>
        /\ given[SS!Self].kind = "dir"
    BY <1>2 DEF PickFiles
  <2>3. given \in [SS!Names -> SS!Inode]
    BY <2>2 DEF Shape, SpoolGiven, NothingYet, SS!Spool
  <2>4. given' \in [SS!Names -> SS!Inode]
    BY <2>1, <2>3, CaseInodes
  <2>5. given'[SS!Self].kind = "dir"
    BY <2>1, <2>2, <2>3, CaseNames
  <2>6. QED
    BY <2>2, <2>4, <2>5 DEF SpoolGiven, SS!Spool
<1>3. QED
  BY <1>1, <1>2

LEMMA NodesKeepShape == Shape /\ (PickNode \/ FlawNode) => Shape'
<1> SUFFICES ASSUME Shape, PickNode \/ FlawNode PROVE NodeGiven' /\ question' = "preflight"
  BY DEF Shape
<1>1. CASE PickNode
  <2>1. given' \in PF!Node /\ question' = "preflight"
    BY <1>1, FitIsNode DEF PickNode, Asked
  <2>2. QED
    BY <2>1 DEF NodeGiven
<1>2. CASE FlawNode
  <2>1. question = "preflight" /\ question' = "preflight" /\ given # << >>
    BY <1>2 DEF FlawNode
  <2>2. given \in PF!Node
    BY <2>1 DEF Shape, NodeGiven, NothingYet
  <2>3. PICK one \in Flaws(given) : given' \in {one} \cup Flaws(one)
    BY <1>2 DEF FlawNode
  <2>4. one \in PF!Node
    BY <2>2, <2>3, FlawedIsNode
  <2>5. given' \in PF!Node
    BY <2>3, <2>4, FlawedIsNode
  <2>6. QED
    BY <2>1, <2>5 DEF NodeGiven
<1>3. QED
  BY <1>1, <1>2

LEMMA TreesKeepShape == Shape /\ PickTree => Shape'
<1> SUFFICES ASSUME Shape, PickTree PROVE TreeGiven' /\ question' = "payload"
  BY DEF Shape
<1>1. PICK f \in FileCases, lock \in FileCases, d \in DirCases, s \in DirCases,
           a \in FileCases, b \in FileCases :
         /\ d.kind # "dir" => a = Absent /\ s = Absent
         /\ s.kind # "dir" => b = Absent
         /\ given' = [tree |-> TreeOf(f, lock, d, a, s, b)]
  BY DEF PickTree
<1>2. TreeOf(f, lock, d, a, s, b) \in PayloadTree
  BY <1>1, CaseTree
<1>3. given' \in [tree : PayloadTree]
  BY <1>1, <1>2
<1>4. question' = "payload"
  BY DEF PickTree, Asked
<1>5. QED
  BY <1>3, <1>4 DEF TreeGiven

LEMMA AclsKeepShape == Shape /\ PickAcl => Shape'
<1> SUFFICES ASSUME Shape, PickAcl PROVE AclGiven' /\ question' = "acl"
  BY DEF Shape
<1>1. QED
  BY DEF PickAcl, Asked, AclGiven

LEMMA JournalsKeepShape == Shape /\ (PickJournal \/ PickMachine) => Shape'
<1> SUFFICES ASSUME Shape, PickJournal \/ PickMachine PROVE JournalGiven' /\ question' = "journal"
  BY DEF Shape
<1>1. CASE PickJournal
  <2>1. given' \in [root : AR!JournalInode] /\ question' = "journal"
    BY <1>1, CaseJournal DEF PickJournal, Asked
  <2>2. QED
    BY <2>1 DEF JournalGiven
<1>2. CASE PickMachine
  <2>1. question = "journal" /\ question' = "journal" /\ given # << >>
    BY <1>2 DEF PickMachine
  <2>2. given.root \in AR!JournalInode
    BY <2>1 DEF Shape, JournalGiven, NothingYet
  <2>3. PICK dir \in JournalInodes(Defaults) : given' = [root |-> given.root, dir |-> dir]
    BY <1>2 DEF PickMachine
  <2>4. given' \in [root : AR!JournalInode, dir : AR!JournalInode]
    BY <2>2, <2>3, CaseJournal
  <2>5. QED
    BY <2>1, <2>4 DEF JournalGiven
<1>3. QED
  BY <1>1, <1>2

LEMMA LinesKeepShape == Shape /\ AddLine => Shape'
<1> SUFFICES ASSUME Shape, AddLine PROVE given' \in Seq(HF!Line) /\ question' = "hook"
  BY DEF Shape
<1>1. question = "hook" /\ question' = question /\ given \in Seq(HF!Line)
  BY DEF AddLine, Shape
<1>2. PICK line \in HF!Line : given' = Append(given, line)
  BY DEF AddLine
<1>3. QED
  BY <1>1, <1>2

LEMMA StutterKeepsShape == Shape /\ UNCHANGED vars => Shape'
BY DEF Shape, vars, NothingYet, ArgvGiven, MountGiven, GroupGiven, SpoolGiven, NodeGiven, TreeGiven,
       AclGiven, JournalGiven

LEMMA ShapeStep == Shape /\ [Next]_vars => Shape'
BY AskKeepsShape, CommandsKeepShape, MountsKeepShape, ChainsKeepShape, GroupsKeepShape,
   SpoolsKeepShape, NodesKeepShape, TreesKeepShape, AclsKeepShape, JournalsKeepShape,
   LinesKeepShape, StutterKeepsShape DEF Next

\* Every case is one the theorems about the judgements speak of: a mount table
\* with a root, a policy, a spool whose files are in a directory, a payload
\* whose files are below directories.
THEOREM CasesAreWellFormed == Spec => []Shape
BY ShapeInit, ShapeStep, PTL DEF Spec

-----------------------------------------------------------------------------
(* The tokens of the cases. *)

LEMMA CaseAtoms ==
    /\ Letter \subseteq Atom
    /\ \A x \in {"r", "d", "e", "n", "f", "x", "l", "C", "D", "E", "H", "L", "S"} :
           x \in Letter \ DOMAIN Numeral
    /\ \A x \in {"0", "1", "3", "5", "9"} : x \in Letter
    /\ {"pat", "b", "skip", "recurse", "exec", "ok", "maxdepth", "xdev", "!", "-", ",", ";", "+",
        "{}"} \subseteq Atom
BY AtomAssumption, DecisionsAssumption DEF Letter, Numeral

\* Words, and values, of an atom, two, or none.
LEMMA CaseTexts ==
    /\ << >> \in Seq(Atom) /\ << >> \in Text
    /\ \A x \in Atom : <<x>> \in Seq(Atom) /\ <<x>> \in Text
    /\ \A x, y \in Atom : <<x, y>> \in Seq(Atom) /\ <<x, y>> \in Text
    /\ \A x, y, z \in Atom : <<x, y, z>> \in Text
<1>1. /\ << >> \in Seq(Atom) /\ \A x \in Atom : <<x>> \in Seq(Atom)
      /\ \A x, y \in Atom : <<x, y>> \in Seq(Atom)
      /\ \A x, y, z \in Atom : <<x, y, z>> \in Seq(Atom)
  OBVIOUS
<1>2. Seq(Atom) \subseteq Text
  BY TextFacts
<1>3. QED
  BY <1>1, <1>2

LEMMA CaseValues ==
    /\ <<"recurse">> \in Text /\ <<"x">> \in Text /\ <<"5">> \in Text /\ <<"b">> \in Text
    /\ <<"1">> \in Text /\ <<"3", ",", "5">> \in Text /\ <<",", "9">> \in Text
<1>1. {"recurse", "x", "5", "b", "1", "3", ",", "9"} \subseteq Atom
  BY CaseAtoms
<1>2. QED
  BY <1>1, CaseTexts

LEMMA CaseWords ==
    ASSUME NEW p
    PROVE  /\ \A x \in {"pat", "recurse", "skip", "1", "3", "{}", "+", "!"} : IsToken(p, W(x))
           /\ IsToken(p, Word(<< >>)) /\ IsToken(p, DashDash) /\ IsToken(p, Semicolon)
           /\ IsToken(p, Dash)
<1>1. \A x \in Atom : IsToken(p, W(x))
  BY CaseTexts, WordFits DEF W
<1>2. {"pat", "recurse", "skip", "1", "3", "{}", "+", "!", ";", "-"} \subseteq Atom
  BY CaseAtoms
<1>3. IsToken(p, Word(<< >>))
  BY CaseTexts, WordFits
<1>4. IsToken(p, DashDash)
  BY DEF IsToken
<1>5. Semicolon = W(";") /\ Dash = W("-")
  BY DEF Semicolon, Dash, W, Word
<1>6. QED
  BY <1>1, <1>2, <1>3, <1>4, <1>5

LEMMA CaseLongs ==
    ASSUME NEW p
    PROVE  /\ \A x : IsToken(p, Long(x))
           /\ \A x, y : y \in Text => IsToken(p, LongIs(x, y))
<1>1. NoText \in Text
  BY TextFacts
<1>2. QED
  BY <1>1, LongFits

LEMMA GrepTokensFit ==
    ASSUME NEW p, p.depthDigits = {}
    PROVE  \A t \in GrepTokens : IsToken(p, t)
<1>1. \A t \in {W("pat"), W("recurse"), Word(<< >>), W("skip"), DashDash} : IsToken(p, t)
  BY CaseWords
<1>2. \A t \in {S("r"), S("d"), Short(<<"r", "d">>), Short(<<"e", "r">>), S("e")} : IsToken(p, t)
  BY CaseAtoms, LettersFit DEF S
<1>3. \A t \in {Long("dir"), Long("rec"), Long("rege"), Long("re"), Long("binary")} : IsToken(p, t)
  BY CaseLongs
<1>4. \A t \in {LongIs("dir", <<"recurse">>), LongIs("regexp", <<"x">>)} : IsToken(p, t)
  BY CaseLongs, CaseValues
<1>5. IsToken(p, Short(<<"n", "d", "skip">>))
  <2> DEFINE s == <<"n", "d", "skip">>
  <2>1. {"n", "d", "skip"} \subseteq Atom
    BY CaseAtoms
  <2>2. s \in Seq(Atom) /\ s # << >>
    BY <2>1
  <2> HIDE DEF s
  <2>3. Short(s).text = s
    BY Kinds
  <2>4. IsToken(p, Short(s))
    BY <2>2, <2>3 DEF IsToken, Legible
  <2>5. QED
    BY <2>4 DEF s
<1>6. QED
  BY <1>1, <1>2, <1>3, <1>4, <1>5 DEF GrepTokens

LEMMA RgTokensFit == \A t \in Tokens["rg"] : IsToken(Rg, t)
<1>1. \A t \in {W("pat"), W("1"), Word(<< >>), DashDash} : IsToken(Rg, t)
  BY CaseWords
<1>2. \A t \in {S("e"), Short(<<"e", "x">>), S("C"), Short(<<"n", "C">>)} : IsToken(Rg, t)
  BY CaseAtoms, LettersFit DEF S
<1>3. \A t \in {Long("max-depth"), Long("one-file-system"), Long("no-one-file-system"),
               Long("regexp")} : IsToken(Rg, t)
  BY CaseLongs
<1>4. IsToken(Rg, LongIs("max-depth", <<"5">>))
  BY CaseLongs, CaseValues
<1>5. QED
  BY <1>1, <1>2, <1>3, <1>4 DEF Tokens

LEMMA FdTokensFit == \A t \in Tokens["fd"] : IsToken(Fd, t)
<1>1. \A t \in {W("pat"), W("1"), Semicolon, DashDash} : IsToken(Fd, t)
  BY CaseWords
<1>2. \A t \in {S("d"), Short(<<"H", "d">>), Short(<<"d", "5">>), Short(<<"H", "E">>), S("x"),
               Short(<<"x", "d", "1">>)} : IsToken(Fd, t)
  BY CaseAtoms, LettersFit DEF S
<1>3. \A t \in {Long("search-path"), Long("base-directory"), Long("one-file-system")} :
         IsToken(Fd, t)
  BY CaseLongs
<1>4. \A t \in {LongIs("search-path", <<"b">>), LongIs("base-directory", <<"b">>)} :
         IsToken(Fd, t)
  BY CaseLongs, CaseValues
<1>5. QED
  BY <1>1, <1>2, <1>3, <1>4 DEF Tokens

LEMMA DuTokensFit == \A t \in Tokens["du"] : IsToken(Du, t)
<1>1. \A t \in {W("pat"), Word(<< >>), DashDash} : IsToken(Du, t)
  BY CaseWords
<1>2. \A t \in {S("x"), Short(<<"n", "x">>), Short(<<"x", "d", "1">>), S("d")} : IsToken(Du, t)
  BY CaseAtoms, LettersFit DEF S
<1>3. \A t \in {Long("max-depth"), Long("time"), Long("time-s"), Long("one-file-system")} :
         IsToken(Du, t)
  BY CaseLongs
<1>4. \A t \in {LongIs("time-s", <<"x">>), LongIs("time-style", <<"x">>)} : IsToken(Du, t)
  BY CaseLongs, CaseValues
<1>5. QED
  BY <1>1, <1>2, <1>3, <1>4 DEF Tokens

LEMMA TreeTokensFit == \A t \in Tokens["tree"] : IsToken(Tree, t)
<1>1. \A t \in {W("pat"), W("1"), Word(<< >>), DashDash} : IsToken(Tree, t)
  BY CaseWords
<1>2. \A t \in {S("L"), S("x"), Short(<<"x", "L">>), Short(<<"L", "5">>), S("E")} :
         IsToken(Tree, t)
  BY CaseAtoms, LettersFit DEF S
<1>3. QED
  BY <1>1, <1>2 DEF Tokens

LEMMA FzfTokensFit == \A t \in Tokens["fzf"] : IsToken(Fzf, t)
<1>1. \A t \in {W("pat"), W("1"), Word(<< >>), DashDash} : IsToken(Fzf, t)
  BY CaseWords
<1>2. \A t \in {Long("walker-root"), Long("walker-max-depth")} : IsToken(Fzf, t)
  BY CaseLongs
<1>3. IsToken(Fzf, LongIs("walker-root", <<"b">>))
  BY CaseLongs, CaseValues
<1>4. QED
  BY <1>1, <1>2, <1>3 DEF Tokens

\* No letter of -3-5 and -l9-3 takes a value.
LEMMA UgrepTokensFit == \A t \in Tokens["ugrep"] : IsToken(Ugrep, t)
<1>1. \A t \in {W("pat"), Word(<< >>), W("recurse"), W("skip"), W("3"), DashDash} :
         IsToken(Ugrep, t)
  BY CaseWords
<1>2. \A t \in {S("r"), S("d"), Short(<<"l", "9">>), Short(<<"5">>), Short(<<"r", "0">>),
               Short(<<"l", "C", "3">>), S("e")} : IsToken(Ugrep, t)
  BY CaseAtoms, LettersFit DEF S
<1>3. \A t \in {LongIs("depth", <<"3", ",", "5">>), LongIs("depth", <<",", "9">>),
               LongIs("depth", <<"1">>)} : IsToken(Ugrep, t)
  BY CaseLongs, CaseValues
<1>4. IsToken(Ugrep, Long("depth"))
  BY CaseLongs
<1>5. \A x \in {"3", "5", "9", "-", "l"} : Short(<<x>>) \notin ValueFlags(Ugrep)
  <2>1. ValueFlags(Ugrep) = {Short(<<"d">>), Long("directories"), Short(<<"C">>), Short(<<"e">>),
                             Long("regexp"), Long("depth")}
    BY PlainIs DEF Ugrep, ValueFlags
  <2>2. QED
    BY <2>1, FlagNames
<1>6. IsToken(Ugrep, Short(<<"3", "-", "5">>))
  <2> DEFINE s == <<"3", "-", "5">>
  <2>1. {"3", "5", "9", "-", "l"} \subseteq Atom
    BY CaseAtoms
  <2>2. s \in Seq(Atom) /\ s # << >> /\ Len(s) = 3 /\ s[1] = "3" /\ s[2] = "-" /\ s[3] = "5"
    BY <2>1
  <2> HIDE DEF s
  <2>3. \A j \in 1..Len(s) : s[j] \in {"3", "5", "9", "-", "l"}
    BY <2>2
  <2>4. \A j \in 1..Len(s) : Short(<<s[j]>>) \notin ValueFlags(Ugrep)
    BY <1>5, <2>3
  <2>5. IsToken(Ugrep, Short(s))
    BY <2>2, <2>4, NoneTakesFit
  <2>6. QED
    BY <2>5 DEF s
<1>7. IsToken(Ugrep, Short(<<"l", "9", "-", "3">>))
  <2> DEFINE s == <<"l", "9", "-", "3">>
  <2>1. {"3", "5", "9", "-", "l"} \subseteq Atom
    BY CaseAtoms
  <2>2. s \in Seq(Atom) /\ s # << >> /\ Len(s) = 4 /\ s[1] = "l" /\ s[2] = "9" /\ s[3] = "-" /\ s[4] = "3"
    BY <2>1
  <2> HIDE DEF s
  <2>3. \A j \in 1..Len(s) : s[j] \in {"3", "5", "9", "-", "l"}
    BY <2>2
  <2>4. \A j \in 1..Len(s) : Short(<<s[j]>>) \notin ValueFlags(Ugrep)
    BY <1>5, <2>3
  <2>5. IsToken(Ugrep, Short(s))
    BY <2>2, <2>4, NoneTakesFit
  <2>6. QED
    BY <2>5 DEF s
<1>8. QED
  BY <1>1, <1>2, <1>3, <1>4, <1>6, <1>7 DEF Tokens

LEMMA FindTokensFit == \A t \in FindTokens : IsWord(t)
<1>1. \A x \in Atom : IsWord(W(x))
  BY CaseTexts, WordFits DEF W
<1>2. \A t \in {W("pat"), Dash, W("1"), W("{}"), W("+"), Semicolon, W("!")} : IsWord(t)
  <2>1. {"pat", "-", "1", "{}", "+", ";", "!"} \subseteq Atom
    BY CaseAtoms
  <2>2. Semicolon = W(";") /\ Dash = W("-")
    BY DEF Semicolon, Dash, W, Word
  <2>3. QED
    BY <1>1, <2>1, <2>2
<1>3. \A x : x \in Seq(Atom) /\ x # << >> => IsWord(Short(x))
  BY Kinds DEF IsWord
<1>4. \A x \in Atom : IsWord(S(x))
  <2> SUFFICES ASSUME NEW x \in Atom PROVE IsWord(S(x))
    OBVIOUS
  <2>1. <<x>> \in Seq(Atom) /\ <<x>> # << >>
    OBVIOUS
  <2>2. QED
    BY <1>3, <2>1 DEF S
<1>5. {"H", "D", "f", "exec", "maxdepth", "xdev", "ok", "x"} \subseteq Atom
  BY CaseAtoms
<1>6. IsWord(Short(<<"H", "x">>))
  <2>1. <<"H", "x">> \in Seq(Atom) /\ <<"H", "x">> # << >>
    BY <1>5
  <2>2. QED
    BY <1>3, <2>1
<1>7. IsWord(DashDash) /\ IsWord(Word(<< >>))
  <2>1. << >> \in Seq(Atom)
    OBVIOUS
  <2>2. QED
    BY <2>1, WordFits DEF IsWord
<1>8. \A t \in {S("H"), S("D"), S("f"), S("exec"), S("maxdepth"), S("xdev"), S("ok")} : IsWord(t)
  BY <1>4, <1>5
<1>9. QED
  BY <1>2, <1>6, <1>7, <1>8 DEF FindTokens

\* Every argv of the cases is one its tool's theorem is about.
LEMMA CaseTokensFit ==
    ASSUME NEW tool \in DOMAIN ProfileOf
    PROVE  \/ GetoptTool(ProfileOf[tool]) /\ \A t \in Tokens[tool] : IsToken(ProfileOf[tool], t)
           \/ FindTool(ProfileOf[tool]) /\ \A t \in Tokens[tool] : IsWord(t)
<1>1. DOMAIN ProfileOf = {"grep", "rgrep", "rg", "fd", "du", "find", "bfs", "ugrep", "fzf", "tree"}
  BY DEF ProfileOf
<1>2. /\ ProfileOf["grep"] = Grep /\ ProfileOf["rgrep"] = Rgrep /\ ProfileOf["rg"] = Rg
      /\ ProfileOf["fd"] = Fd /\ ProfileOf["du"] = Du /\ ProfileOf["find"] = Find
      /\ ProfileOf["bfs"] = Bfs /\ ProfileOf["ugrep"] = Ugrep /\ ProfileOf["fzf"] = Fzf
      /\ ProfileOf["tree"] = Tree
  BY DEF ProfileOf
<1>3. CASE tool \in {"grep", "rgrep"}
  <2>1. Tokens["grep"] = GrepTokens /\ Tokens["rgrep"] = GrepTokens
    BY DEF Tokens
  <2>2. Grep.depthDigits = {} /\ Rgrep.depthDigits = {}
    BY PlainIs DEF Grep, Rgrep
  <2>3. QED
    BY <1>2, <1>3, <2>1, <2>2, GrepTokensFit, GrepFits, RgrepFits
<1>4. CASE tool \in {"find", "bfs"}
  <2>1. Tokens["find"] = FindTokens /\ Tokens["bfs"] = FindTokens
    BY DEF Tokens
  <2>2. QED
    BY <1>2, <1>4, <2>1, FindTokensFit, FindFits, BfsFits
<1>5. CASE tool \in {"rg", "fd", "du"}
  BY <1>2, <1>5, RgTokensFit, RgFits, FdTokensFit, FdFits, DuTokensFit, DuFits
<1>6. CASE tool \in {"ugrep", "fzf", "tree"}
  BY <1>2, <1>6, UgrepTokensFit, UgrepFits, FzfTokensFit, FzfFits, TreeTokensFit, TreeFits
<1>7. QED
  BY <1>1, <1>3, <1>4, <1>5, <1>6

-----------------------------------------------------------------------------
(* What the run checks of commands and of mounts. *)

\* The scanners read of an argv of any length what its tool does with it:
\* whether it walks a tree, how deep and over which devices, and from where.
\* src/walk_blocker/search_rules.py:496-505, 1888-1911 and 2321-2331.
THEOREM CommandsAreRead == Spec => []ReadAsTheToolDoes
<1>1. Shape => ReadAsTheToolDoes
  <2> SUFFICES ASSUME Shape, question = "argv", given # << >>
               PROVE  LET p == ProfileOf[given.tool]
                      IN  /\ TraversalIsRead(p, given.argv)
                          /\ BoundsAreRead(p, given.argv)
                          /\ \A tty \in BOOLEAN : RootsAreRead(p, given.argv, tty)
    BY DEF ReadAsTheToolDoes
  <2>0. PICK tool \in DOMAIN ProfileOf :
           \E argv \in Seq(Tokens[tool]) : given = [tool |-> tool, argv |-> argv]
    BY DEF Shape, ArgvGiven, NothingYet
  <2>1. PICK argv \in Seq(Tokens[tool]) : given = [tool |-> tool, argv |-> argv]
    BY <2>0
  <2>2. given.tool = tool /\ given.argv = argv
    BY <2>1
  <2>3. Len(argv) \in Nat /\ \A i \in 1..Len(argv) : argv[i] \in Tokens[tool]
    BY <2>1
  <2> DEFINE p == ProfileOf[tool]
  <2>4. CASE GetoptTool(p) /\ \A t \in Tokens[tool] : IsToken(p, t)
    <3>1. IsArgv(p, argv)
      BY <2>3, <2>4 DEF IsArgv
    <3> HIDE DEF p
    <3>2. QED
      BY <2>2, <2>4, <3>1, GetoptTraversal, GetoptBounds, GetoptRoots DEF p
  <2>5. CASE FindTool(p) /\ \A t \in Tokens[tool] : IsWord(t)
    <3>1. IsCommand(argv)
      BY <2>3, <2>5 DEF IsCommand
    <3> HIDE DEF p
    <3>2. \A tty \in BOOLEAN :
             TraversalIsRead(p, argv) /\ BoundsAreRead(p, argv) /\ RootsAreRead(p, argv, tty)
      BY <2>5, <3>1, FindIsRead
    <3>3. QED
      BY <2>2, <3>2 DEF p
  <2>6. QED
    BY <2>4, <2>5, CaseTokensFit
<1>2. QED
  BY <1>1, CasesAreWellFormed, PTL

\* Whatever of the argv Layer 1 refuses, Layer 2 names, or says what it could
\* not read: for an argv of any length.  node/reaper.py:650-659 and 681-697.
THEOREM NothingRefusedGoesUnseen == Spec => []BackstopSeesRefused
<1>1. BackstopSeesRefused
  BY BackstopSeesEveryRefusal DEF BackstopSeesRefused
<1>2. QED
  BY <1>1, PTL

LEMMA CaseWalks == Walks \subseteq Walk
<1>1. \A r \in {<< >>, <<"a">>, <<"a", "b">>} : {r} \in SUBSET Path
  BY PathsOfCases
<1>2. {<<"b">>, <<"a", "b">>} \in SUBSET Path
  BY PathsOfCases
<1>3. {{r} : r \in {<< >>, <<"a">>, <<"a", "b">>}} \cup {{<<"b">>, <<"a", "b">>}}
      \subseteq SUBSET Path
  BY <1>1, <1>2
<1>4. {NoBound} \cup 1..MaxDepth + 1 \subseteq {NoBound} \cup Nat
  BY DecisionsAssumption
<1> DEFINE roots == {{r} : r \in {<< >>, <<"a">>, <<"a", "b">>}} \cup {{<<"b">>, <<"a", "b">>}}
           depths == {NoBound} \cup 1..MaxDepth + 1
           deeper == {NoBound} \cup Nat
<1>5. Walks = [roots : roots, device : BOOLEAN, depth : depths]
  BY DEF Walks
<1>6. Walk = [roots : SUBSET Path, device : BOOLEAN, depth : deeper]
  BY DEF Walk
<1>7. roots \subseteq SUBSET Path /\ depths \subseteq deeper
  BY <1>3, <1>4
<1> HIDE DEF roots, depths, deeper
<1>8. QED
  BY <1>5, <1>6, <1>7

LEMMA MountsAreGiven == Shape /\ MountCase => given.table \in Table /\ given.policy \in Policy
<1> SUFFICES ASSUME Shape, MountCase PROVE given \in [table : Table, policy : Policy]
  OBVIOUS
<1>1. MountGiven /\ "policy" \in DOMAIN given
  BY DEF Shape, MountCase
<1>2. given # << >>
  BY <1>1
<1>3. given \notin [table : Table]
  BY <1>1
<1>4. QED
  BY <1>1, <1>2, <1>3 DEF MountGiven, NothingYet

\* An allowed walk stays within what the policy permits on each expensive
\* mount, whatever depth is asked for.
\* src/walk_blocker/search_rules.py:1196-1204 and 2683-2691.
THEOREM AllowedWalksAreWithinPolicy == Spec => []AllowedIsWithinPolicy
<1>1. Shape => AllowedIsWithinPolicy
  BY MountsAreGiven, CaseWalks, UnboundedWalksAreScoped, BoundedWalksKeepAllowances
     DEF AllowedIsWithinPolicy
<1>2. QED
  BY <1>1, CasesAreWellFormed, PTL

\* A refused walk would have cost something, and no reordering of the table
\* changes a verdict.  src/walk_blocker/search_rules.py:1223-1232, 2643-2657.
THEOREM RefusalsHaveAReason == Spec => []RefusedForAReason
<1>1. Shape => RefusedForAReason
  BY MountsAreGiven, CaseWalks, RefusalsHaveACost, OrderIsImmaterial DEF RefusedForAReason
<1>2. QED
  BY <1>1, CasesAreWellFormed, PTL

-----------------------------------------------------------------------------
(* What it checks of a node. *)

\* No account that is not trusted reaches into a chain the check accepts, as
\* far down as root can look.
\* node/deploy.py:1022-1047.
THEOREM AcceptedChainsAreSafe == Spec => []AcceptedIsOutOfReach
<1>1. \A T \in SUBSET {1} : T \in SUBSET Gid
  BY CaseAccounts
<1>2. Shape => AcceptedIsOutOfReach
  BY <1>1, AcceptedChain DEF Shape, AcceptedIsOutOfReach
<1>3. QED
  BY <1>2, CasesAreWellFormed, PTL

\* A service group that is accepted has services alone in it, whatever the
\* lines of login.defs.  node/deploy.py:1186-1200.
THEOREM AcceptedGroupsAreServices == Spec => []AcceptedGroupHasNoPerson
<1>1. ASSUME Shape, question = "groups", given # << >>, "group" \in DOMAIN given
      PROVE  given \in [lines : Seq(LoginLine), group : TG!Group, accounts : [Login -> TG!Account]]
  <2>1. given \notin [lines : Seq(LoginLine)]
    BY <1>1
  <2>2. QED
    BY <1>1, <2>1 DEF Shape, GroupGiven, NothingYet
<1>2. Shape => AcceptedGroupHasNoPerson
  <2> SUFFICES ASSUME Shape, question = "groups", given # << >>, "group" \in DOMAIN given
               PROVE  TG!AcceptedGroupHasNoPerson(given.group, given.accounts, given.lines)
    BY DEF AcceptedGroupHasNoPerson
  <2>1. given.lines \in Seq(LoginLine) /\ given.group \in TG!Group
        /\ given.accounts \in [Login -> TG!Account]
    BY <1>1
  <2>2. QED
    BY <2>1, AcceptedGroupIsServices
<1>3. QED
  BY <1>2, CasesAreWellFormed, PTL

\* An accepted spool ends as the install asserts it, and nothing but the
\* installer's own is changed, however the spool was swapped in between.
\* node/deploy.py:1539-1558 and 1713-1738.
THEOREM SpoolsAreLeftAsAsserted == Spec => []SpoolIsJudgedAsLeft
<1>1. ASSUME NEW s \in SS!Spool, NEW listed \in Listed(s) PROVE listed \in SS!Spool
  <2> DEFINE other == [n \in SS!Names |-> [kind |-> IF n = SS!Self THEN "dir" ELSE "file",
                                           uid |-> 0, gid |-> 2, mode |-> {"scope"}]]
  <2>1. \A n \in SS!Names :
           [kind |-> IF n = SS!Self THEN "dir" ELSE "file", uid |-> 0, gid |-> 2,
            mode |-> {"scope"}] \in SS!Inode
    BY CaseInodes
  <2>2. other \in [SS!Names -> SS!Inode] /\ other[SS!Self].kind = "dir"
    BY <2>1, CaseNames
  <2>3. other \in SS!Spool
    BY <2>2 DEF SS!Spool
  <2>4. listed = s \/ listed = other
    BY <1>1 DEF Listed
  <2>5. QED
    BY <2>3, <2>4
<1>2. Shape => SpoolIsJudgedAsLeft
  <2> SUFFICES ASSUME Shape, question = "spool", given # << >>
               PROVE  /\ SS!JudgedAsLeft(given)
                      /\ \A listed \in Listed(given) : SS!OnlyItsOwn(listed, given)
    BY DEF SpoolIsJudgedAsLeft
  <2>1. given \in SS!Spool
    BY DEF Shape, SpoolGiven, NothingYet
  <2>2. QED
    BY <1>1, <2>1, AcceptedSpoolIsMended, OnlyOwnIsChanged
<1>3. QED
  BY <1>2, CasesAreWellFormed, PTL

\* A dry run that has nothing to say, and left nothing out, foretells an
\* install that goes through its checks.  node/deploy.py:2149-2164, 2180-2188.
THEOREM DryRunsForetell == Spec => []DryRunIsEnough
<1>1. Shape => DryRunIsEnough
  BY DryRunForetells DEF Shape, NodeGiven, NothingYet, DryRunIsEnough
<1>2. QED
  BY <1>1, CasesAreWellFormed, PTL

LEMMA CaseLocks == Locks \subseteq PayloadLocks
<1> SUFFICES ASSUME NEW lock \in Locks PROVE lock \in PayloadLocks
  OBVIOUS
<1> DEFINE lists == {{<<"f">>, <<"d", "a">>, <<"d", "s", "b">>}, {<<"f">>, <<"d", "a">>},
                     {<<"f">>, <<"d", "s", "b">>}, {<<"d", "s", "b">>}}
<1>1. PayloadPath = PayloadPaths /\ Lock = <<"lock">> /\ 1 \in Content
  BY DecisionsAssumption DEF PayloadLock
<1>2. \A p \in {<<"f">>, <<"d", "a">>, <<"d", "s", "b">>} : p \in PayloadPath \ {Lock}
  BY <1>1 DEF PayloadPaths
<1>3. \A listed \in lists : listed \in SUBSET (PayloadPath \ {Lock})
  BY <1>2
<1>4. Locks = PR!Records({[p \in listed |-> 1] : listed \in lists})
  BY Zenon DEF Locks
<1> HIDE DEF lists
<1>5. PICK listed \in lists : lock.files = [p \in listed |-> 1] /\ lock \in PR!Records({lock.files})
  BY <1>4 DEF PR!Records
<1>6. lock.files \in [listed -> Content]
  BY <1>1, <1>5
<1>7. lock \in PR!Records([listed -> Content])
  BY <1>5, <1>6 DEF PR!Records
<1>8. QED
  BY <1>3, <1>7 DEF PayloadLocks

\* The install refuses exactly the payloads that are not what their record
\* lists, and what it copies verifies.  node/deploy.py:2423-2447, 4253-4260.
THEOREM PayloadsAreTheirRecords == Spec => []PayloadIsAsRecorded
<1>1. Shape => PayloadIsAsRecorded
  <2> SUFFICES ASSUME Shape, question = "payload", given # << >>, NEW lock \in Locks
               PROVE  /\ PR!RefusedExactly(given.tree, lock)
                      /\ PR!VerifiedIsAccepted(given.tree, lock)
    BY DEF PayloadIsAsRecorded
  <2>1. given.tree \in PayloadTree
    BY DEF Shape, TreeGiven, NothingYet
  <2>2. QED
    BY <2>1, CaseLocks, PayloadIsRefusedExactly, AcceptedAndVerifiedAgree
<1>2. QED
  BY <1>1, CasesAreWellFormed, PTL

-----------------------------------------------------------------------------
(* What it checks of those who read what an install leaves. *)

\* A spool another group or other bits have been given to is still root's, and
\* names no more users.
LEMMA UnmadeInode ==
    ASSUME NEW acl \in {{}} \cup {{a} : a \in AclsOf("x", {{"r", "x"}})},
           NEW i \in {WithAcl(acl)} \cup Unmade(WithAcl(acl))
    PROVE  i \in AR!Inode /\ i.uid = Root /\ AR!NamedUsers(i) \subseteq {1, 2}
<1> DEFINE made == WithAcl(acl)
<1>1. /\ acl \in {{}} \cup {{a} : a \in AR!Acl}
      /\ \A a \in acl : a \in AR!Acl /\ DOMAIN a.users \subseteq {1, 2}
  BY CaseSpoolAcl
<1>2. made \in AR!Inode /\ made.acl = acl /\ made.uid = Root
  BY <1>1, CaseInode
<1>3. AR!NamedUsers(made) \subseteq {1, 2}
  BY <1>1, <1>2 DEF AR!NamedUsers
<1> HIDE DEF made
<1>4. CASE i \in Unmade(made)
  <2>1. PICK gid \in 1..2, group \in {{}, {"x"}}, other \in {{}, {"x"}}, mask \in {{}, {{}}, {{"x"}}} :
           i = [made EXCEPT !.gid = gid, !.group = group, !.other = other,
                            !.acl = {[a EXCEPT !.mask = mask] : a \in @}]
    BY <1>4 DEF Unmade
  <2> DEFINE remade == {[a EXCEPT !.mask = mask] : a \in acl}
  <2>2. mask \in {{}} \cup {{m} : m \in SUBSET AR!Perm}
    BY DEF AR!Perm
  <2>3. \A a \in AR!Acl : /\ [a EXCEPT !.mask = mask] \in AR!Acl
                          /\ [a EXCEPT !.mask = mask].users = a.users
    BY <2>2 DEF AR!Acl
  <2>4. \A a \in remade : a \in AR!Acl /\ DOMAIN a.users \subseteq {1, 2}
    BY <1>1, <2>3
  <2>5. remade \in {{}} \cup {{a} : a \in AR!Acl}
    <3>1. CASE acl = {}
      BY <3>1
    <3>2. CASE acl # {}
      <4>1. PICK a \in AR!Acl : acl = {a}
        BY <1>1, <3>2
      <4>2. remade = {[a EXCEPT !.mask = mask]}
        BY <4>1
      <4>3. QED
        BY <2>3, <4>1, <4>2
    <3>3. QED
      BY <3>1, <3>2
  <2>6. i = [made EXCEPT !.gid = gid, !.group = group, !.other = other, !.acl = remade]
    BY <1>2, <2>1
  <2> HIDE DEF remade
  <2>7. gid \in Gid /\ group \in SUBSET AR!Perm /\ other \in SUBSET AR!Perm
    BY CaseAccounts DEF AR!Perm
  <2>8. /\ i \in AR!Inode /\ i.uid = made.uid /\ i.acl = remade
    BY <1>2, <2>5, <2>6, <2>7 DEF AR!Inode
  <2>9. QED
    BY <1>2, <2>4, <2>8 DEF AR!NamedUsers
<1>5. QED
  BY <1>2, <1>3, <1>4 DEF made

\* What is said of who may read the trail and the journal is what the kernel
\* would decide, for every account there is.
\* node/deploy.py:3073-3091, 3126-3150 and 3318-3334.
THEOREM EveryReaderIsNamed == Spec => []ReadersAreNamed
<1>1. ASSUME Shape, question = "acl", given # << >>, NEW i \in {given} \cup Unmade(given)
      PROVE  /\ \A u \in 0..3 : AR!SearchIsTrue(i, "user", u)
             /\ \A g \in 1..2 : AR!SearchIsTrue(i, "group", g)
  <2>1. PICK acl \in {{}} \cup {{a} : a \in AclsOf("x", {{"r", "x"}})} : given = WithAcl(acl)
    BY <1>1 DEF Shape, AclGiven, NothingYet
  <2>2. i \in AR!Inode /\ i.uid = Root /\ AR!NamedUsers(i) \subseteq {1, 2}
    BY <1>1, <2>1, UnmadeInode
  <2>3. 3 \in Uid \ {Root} /\ 3 \notin AR!NamedUsers(i)
    BY <2>2, CaseAccounts
  <2>4. 0..3 \subseteq Uid /\ 1..2 \subseteq Gid
    BY DecisionsAssumption
  <2>5. QED
    BY <2>2, <2>3, <2>4, SearchAnswers
<1>2. ASSUME Shape, question = "acl", given # << >>, NEW acl \in AclsOf("r", {{"r"}})
      PROVE  AR!NoUnnamedReader(given, WithAcl({acl}))
  <2>1. PICK own \in {{}} \cup {{a} : a \in AclsOf("x", {{"r", "x"}})} : given = WithAcl(own)
    BY <1>2 DEF Shape, AclGiven, NothingYet
  <2>2. given \in AR!Inode
    BY <2>1, CaseSpoolAcl, CaseInode
  <2>3. "r" \in AR!Perm /\ {{"r"}} \in SUBSET SUBSET AR!Perm /\ {"r"} \in SUBSET AR!Perm
    BY DEF AR!Perm
  <2>4. acl \in AR!Acl
    BY <2>3, CaseAcls
  <2>5. WithAcl({acl}) \in AR!Inode
    BY <2>4, CaseInode
  <2>6. QED
    BY <2>2, <2>5, ReadersAreNamedOrKnown
<1>3. ASSUME Shape, question = "journal", given # << >>, "dir" \in DOMAIN given,
             NEW r \in JournalRoots(given.root, given.dir), NEW other \in {{}, {NoJournal}},
             NEW id
      PROVE  AR!NoGapMeansRead(id, {r} \cup other, 2)
  <2>1. given \in [root : AR!JournalInode, dir : AR!JournalInode]
    <3>1. given \notin [root : AR!JournalInode]
      BY <1>3
    <3>2. QED
      BY <1>3, <3>1 DEF Shape, JournalGiven, NothingYet
  <2>2. r.dir = given.dir
    BY DEF JournalRoots
  <2>3. \A s \in {r} \cup other : s.dir \in AR!JournalInode
    BY <2>1, <2>2, CaseJournal
  <2>4. 2 \in Gid
    BY CaseAccounts
  <2>5. QED
    BY <2>3, <2>4, NoGapLetsTheGroupRead
<1>4. Shape => ReadersAreNamed
  BY <1>1, <1>2, <1>3 DEF ReadersAreNamed
<1>5. QED
  BY <1>4, CasesAreWellFormed, PTL

-----------------------------------------------------------------------------
(* What the run checks of a startup file. *)

\* A startup file keeps its user's lines, whatever markers are in it and however
\* many lines it has.  node/shim/install.sh:1057-1074.
THEOREM UsersKeepTheirLines == Spec => []UsersLinesKept
<1>1. Shape => UsersLinesKept
  BY StartupFilesKeepTheirLines DEF Shape, UsersLinesKept
<1>2. QED
  BY <1>1, CasesAreWellFormed, PTL
=============================================================================

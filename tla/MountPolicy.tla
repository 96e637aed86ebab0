---------------------------- MODULE MountPolicy ----------------------------
(***************************************************************************)
(* Which mounts a walk may not enumerate, and how deep it may go on each:  *)
(* src/walk_blocker/search_rules.py, from a mount table and the site's     *)
(* policy to the verdict on one root.  Both layers ask it.                 *)
(*                                                                         *)
(* A path is the sequence of its components, << >> for "/".  A type is its *)
(* rank among the policy's patterns, worst first.  No bound is            *)
(* NoBound.                                                                *)
(***************************************************************************)
EXTENDS Integers, Sequences, SequencesExt, FiniteSetsExt

CONSTANTS
    Name,       \* components of a path
    MaxLength,  \* the longest path
    MaxRank     \* ranks of the types that match a pattern: 1..MaxRank

ASSUME MountPolicyAssumption == MaxLength \in Nat /\ MaxRank \in Nat

NoBound == -1
Path == SeqOf(Name, MaxLength)

\* A row of /proc/mounts.  Unlisted types rank after every listed one; the
\* proxy looks at `host:` sources, `_netdev` and `addr=`.
Row == [point : Path, rank : 1..MaxRank + 1, remote : BOOLEAN]

\* [[filesystems.mounts]]: a class, and perhaps a depth of its own.
Override == [class : {"expensive", "cheap", "none"}, depth : {NoBound} \cup Nat]

\* A mount table: something is mounted on /.
Table == {t \in Seq(Row) : \E i \in DOMAIN t : t[i].point = << >>}

\* The site's policy: the proxy, the depth allowed on a mount without one of
\* its own, how near a mount's root is too near, and the largest depth a seam
\* may give.
Policy == [proxy : BOOLEAN, maxdepth : Nat, unscoped : Nat, max : Nat, mounts : [Path -> Override]]

\* A traversal: its roots, and its bounds.
Walk == [roots : SUBSET Path, device : BOOLEAN, depth : {NoBound} \cup Nat]

-----------------------------------------------------------------------------
(* The policy. *)

\* Policy.from_env(): a seam that is set replaces every depth of the table,
\* and an entry outside 0..max is dropped.
FromEnv(policy, seam) ==
    [policy EXCEPT !.mounts =
        [m \in Path |->
            LET kept == IF m \in DOMAIN seam /\ seam[m] \in 0..policy.max
                        THEN seam[m] ELSE NoBound
            IN  [class |-> IF kept # NoBound /\ @[m].class = "none"
                           THEN "expensive" ELSE @[m].class,
                 depth |-> kept]]]

DepthAllowance(m, policy) ==
    IF policy.mounts[m].depth # NoBound THEN policy.mounts[m].depth
    ELSE policy.maxdepth

\* classify_mount(): an override, then the type, then the proxy.
Expensive(row, policy) ==
    \/ policy.mounts[row.point].class = "expensive"
    \/ /\ policy.mounts[row.point].class = "none"
       /\ row.rank <= MaxRank \/ (policy.proxy /\ row.remote)

\* read_mounts(): the expensive rows of a table, each at its place in it.
ReadMounts(table, policy) ==
    [i \in {i \in DOMAIN table : Expensive(table[i], policy)} |-> table[i]]

\* The order it leaves them in: the longest mount point first, and those of
\* one length as the table has them.
Before(rows, i, j) ==
    \/ Len(rows[i].point) > Len(rows[j].point)
    \/ Len(rows[i].point) = Len(rows[j].point) /\ i < j

First(rows, places) ==
    CHOOSE i \in places : \A j \in places \ {i} : Before(rows, i, j)

-----------------------------------------------------------------------------
(* Where a walk goes. *)

Inside(path, m) == IsPrefix(m, path)
DepthBelow(path, m) == Len(path) - Len(m)

\* descended_mounts(): all of them, for the walk enters all of them.
DescendedMounts(path, rows) ==
    {i \in DOMAIN rows : ~Inside(path, rows[i].point) /\ IsStrictPrefix(path, rows[i].point)}

\* The first of the worst type, of the shallowest.
Named(rows, places) ==
    LET Less(i, j) ==
            \/ rows[i].rank < rows[j].rank
            \/ /\ rows[i].rank = rows[j].rank
               /\ Len(rows[i].point) < Len(rows[j].point)
    IN  First(rows, {i \in places : \A j \in places : ~Less(j, i)})

NoHit == [reason |-> "none", point |-> << >>]

DescentHit(path, rows) ==
    LET below == DescendedMounts(path, rows)
    IN  IF below = {} THEN NoHit
        ELSE [reason |-> "descends_into", point |-> rows[Named(rows, below)].point]

\* Bug: a root that is far enough below its mount is not asked what it
\* descends into.
OffendingMountNearest(path, rows, policy) ==
    LET containing == {i \in DOMAIN rows : Inside(path, rows[i].point)}
        nearest == rows[First(rows, containing)].point
    IN  IF containing = {} THEN DescentHit(path, rows)
        ELSE IF DepthBelow(path, nearest) < policy.unscoped
        THEN [reason |-> "at_or_near_root", point |-> nearest]
        ELSE NoHit

\* The expensive mounts that hold a root and whose own root is near.
NearMounts(path, rows, policy) ==
    {i \in DOMAIN rows : /\ Inside(path, rows[i].point)
                         /\ DepthBelow(path, rows[i].point) < policy.unscoped}

\* offending_mount(): the walk starts too near the root of an expensive mount,
\* or will descend into one.
OffendingMount(path, rows, policy) ==
    LET near == NearMounts(path, rows, policy)
    IN  IF near = {} THEN DescentHit(path, rows)
        ELSE [reason |-> "at_or_near_root", point |-> rows[First(rows, near)].point]

\* Bug: the mount the refusal names is the one whose allowance counts.
RootDepthAllowanceOfNamed(path, rows, hit, policy) == DepthAllowance(hit.point, policy)

\* root_depth_allowance(): of a walk from above, the strictest of all it enters.
RootDepthAllowance(path, rows, hit, policy) ==
    IF hit.reason # "descends_into" THEN DepthAllowance(hit.point, policy)
    ELSE Min({DepthAllowance(rows[i].point, policy) : i \in DescendedMounts(path, rows)})

\* Bug: a device bound answers no offence.
ExcusedNever(hit, deviceBound) == FALSE

\* A walk that stays on its root's device does not descend into another.
Excused(hit, deviceBound) == deviceBound /\ hit.reason = "descends_into"

\* judge_root(): whether this root is refused.
JudgeRoot(path, rows, policy, deviceBound, depth) ==
    LET hit == OffendingMount(path, rows, policy)
    IN  /\ hit # NoHit
        /\ ~Excused(hit, deviceBound)
        /\ ~(depth # NoBound /\ depth <= RootDepthAllowance(path, rows, hit, policy))

\* globally_bounded(): within the ceiling that holds on every mount.
GloballyBounded(depth, policy) == depth # NoBound /\ depth <= policy.maxdepth

\* check(), from a traversal that has been read: a bound within the global
\* ceiling needs no mount table.
Refused(walk, table, policy) ==
    /\ ~GloballyBounded(walk.depth, policy)
    /\ \E root \in walk.roots :
           JudgeRoot(root, ReadMounts(table, policy), policy, walk.device, walk.depth)

-----------------------------------------------------------------------------
(* What a walk costs: the kernel's mount tree, without the ranking, the    *)
(* order of the rows or the reasons.                                       *)

\* A directory is on the longest mount that holds it, and a cheap one counts.
Points(table) == {r.point : r \in ToSet(table)}
On(dir, table) ==
    LET holding == {m \in Points(table) : Inside(dir, m)}
    IN  CHOOSE m \in holding : \A o \in holding : Len(o) <= Len(m)

\* The directories that a walk reads the entries of.
Visited(root, walk, table) ==
    {d \in Path :
        /\ Inside(d, root)
        /\ walk.depth # NoBound => Len(d) - Len(root) < walk.depth
        /\ walk.device => \A n \in Len(root)..Len(d) :
               On(SubSeq(d, 1, n), table) = On(root, table)}

ExpensivePoints(table, policy) ==
    {r.point : r \in {r \in ToSet(table) : Expensive(r, policy)}}

\* The expensive mounts it enumerates some of.
Enters(root, walk, table, policy) ==
    {On(d, table) : d \in Visited(root, walk, table)} \cap ExpensivePoints(table, policy)

-----------------------------------------------------------------------------
(* What the rule promises. *)

\* An unbounded walk that is allowed enumerates no expensive mount but the one
\* it starts on, and that one from unscoped_depth levels down.
\* src/walk_blocker/search_rules.py:1196-1204.
UnboundedIsScoped(walk, table, policy) ==
    ~Refused(walk, table, policy) /\ walk.depth = NoBound =>
        \A root \in walk.roots :
            \A m \in Enters(root, walk, table, policy) :
                Inside(root, m) /\ DepthBelow(root, m) >= policy.unscoped

\* Which walks are refused does not depend on the order of the mount table,
\* nor on which of two equal mounts the message names.
\* src/walk_blocker/search_rules.py:1223-1232.
OrderDecidesNothing(walk, table, policy) ==
    Refused(walk, table, policy) = Refused(walk, Reverse(table), policy)

\* A bounded walk that is allowed, and that does not start too near the root of
\* an expensive mount, goes no deeper than every mount it descends into
\* permits.  src/walk_blocker/search_rules.py:2683-2691.
NoneBelowPastItsAllowance(walk, table, policy) ==
    ~Refused(walk, table, policy) /\ walk.depth # NoBound =>
        \A root \in walk.roots :
            OffendingMount(root, ReadMounts(table, policy), policy).reason # "at_or_near_root"
            => \A m \in Enters(root, walk, table, policy) :
                   \/ walk.depth <= Max({DepthAllowance(m, policy), policy.maxdepth})
                   \/ Inside(root, m)

\* An unbounded walk is refused for an expensive mount that it enumerates,
\* unless its root is on a cheap mount inside an expensive one.
\* src/walk_blocker/search_rules.py:2643-2657.
RefusedForACost(walk, table, policy) ==
    Refused(walk, table, policy) /\ walk.depth = NoBound =>
        \E root \in walk.roots :
            \/ Enters(root, walk, table, policy) # {}
            \/ \E m \in ExpensivePoints(table, policy) :
                   m # On(root, table) /\ Inside(On(root, table), m)

\* "a cheap mount, which is never judged at all": a walk that stays on cheap
\* mounts is not refused.  docs/alternatives.md:26.
CheapIsNeverJudged(walk, table, policy) ==
    (\A root \in walk.roots : Enters(root, walk, table, policy) = {})
    /\ walk.depth = NoBound => ~Refused(walk, table, policy)
=============================================================================

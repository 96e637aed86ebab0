------------------------------ MODULE Classify ------------------------------
(***************************************************************************)
(* What one poll of the reaper concludes from one snapshot of the process  *)
(* table: node/reaper.py, classify() and the identities its findings carry.*)
(*                                                                         *)
(* A process is abstracted to what the arms of classify() tell apart.  Its *)
(* `kind` stands for the answer of tool_from_argv() and traversal_roots()  *)
(* on its argv, cwd and mounts:                                            *)
(*   walk    a known traversal tool with a root on an expensive mount      *)
(*   broken  a known tool whose argv the operand scan could not account for*)
(*   leak    a known tool with no expensive root and under 1 s of CPU      *)
(*   opaque  a named tool outside the table that is not a stream filter    *)
(*   plain   everything else: kernel threads, stream filters, busy readers *)
(* `parent` is the effective parent the fan-out arm groups by, and         *)
(* InitParent is ppid 1.  `old` is age_s > budget_s.                       *)
(***************************************************************************)
EXTENDS Integers, FiniteSets

CONSTANTS
    Pid,        \* the pids the kernel hands out, and reuses
    MaxGen,     \* bound: how many processes may hold one pid in turn
    Parents,    \* effective parents a process may be started under
    InitParent, \* pid 1, the parent of everything orphaned
    FanoutN     \* [reaper].fanout_n

ASSUME ClassifyAssumption ==
    /\ Pid \subseteq Nat \ {0}
    /\ MaxGen \in Nat
    /\ FanoutN \in Nat
    /\ InitParent \notin Parents

Kind == {"walk", "broken", "leak", "opaque", "plain"}

\* How many consecutive observations in D the opaque arm asks for.
OPAQUE_D_POLLS == 2

ActionableVerdict == {"orphan_traversal", "runaway_traversal",
                      "fanout_traversal"}
NEVER_KILL == {"orphan_idle", "opaque_traversal", "unparsed_traversal"}
Verdict == ActionableVerdict \cup NEVER_KILL

Gen == 1 .. MaxGen

\* Proc.key, "pid:starttime".  The starttime of the n-th process to hold a
\* pid is the number n: what matters is that no two of them share it.
Life == Pid \X Gen

\* _finding_key, "verdict:pid:starttime".  A finding and its key are one
\* value here: the rest of a finding is detail for the record.
Key == [verdict : Verdict, pid : Pid, gen : Gen]

KeyOf(verdict, p, table) == [verdict |-> verdict, pid |-> p, gen |-> table[p].gen]

LifeOf(key) == <<key.pid, key.gen>>

Proc == [alive : BOOLEAN, gen : 0 .. MaxGen, kind : Kind,
         parent : Parents \cup {InitParent}, old : BOOLEAN, inD : BOOLEAN,
         hit : {"none", "term", "kill"}]

Running(table) == {p \in Pid : table[p].alive}

LivesIn(table) == {<<p, table[p].gen>> : p \in Running(table)}

\* Bug: a total of observations in D and not a streak of them.
NextTotal(table, streak) ==
    [life \in Life |->
        IF table[life[1]].alive /\ table[life[1]].gen = life[2]
                                /\ table[life[1]].inD
        THEN IF streak[life] < OPAQUE_D_POLLS THEN streak[life] + 1
                                              ELSE OPAQUE_D_POLLS
        ELSE streak[life]]

\* run(): a process in D extends its streak by one, any other drops out.
\* Only `d_polls >= OPAQUE_D_POLLS` is ever asked, so the count stops there.
NextStreak(table, streak) ==
    [life \in Life |->
        IF table[life[1]].alive /\ table[life[1]].gen = life[2]
                                /\ table[life[1]].inD
        THEN IF streak[life] < OPAQUE_D_POLLS THEN streak[life] + 1
                                              ELSE OPAQUE_D_POLLS
        ELSE 0]

\* The arms that judge a process on its own.
Judged(verdict, proc, dPolls) ==
    \/ verdict = "unparsed_traversal" /\ proc.kind = "broken"
    \/ /\ verdict = "orphan_traversal"
       /\ proc.kind = "walk" /\ proc.old /\ proc.parent = InitParent
    \/ /\ verdict = "runaway_traversal"
       /\ proc.kind = "walk" /\ proc.old /\ proc.parent # InitParent
    \/ /\ verdict = "orphan_idle"
       /\ proc.kind = "leak" /\ proc.parent = InitParent
    \/ /\ verdict = "opaque_traversal"
       /\ proc.kind = "opaque" /\ proc.inD /\ proc.old
       /\ dPolls >= OPAQUE_D_POLLS

ProcessFindings(table, streak) ==
    {f \in {KeyOf(v, p, table) : v \in Verdict, p \in Running(table)} :
        Judged(f.verdict, table[f.pid], streak[LifeOf(f)])}

\* The fan-out arm: every walk counts, past budget or not, and a group of
\* FanoutN of them under one effective parent is one finding on its lowest pid.
Group(p, table) ==
    {q \in Running(table) : /\ table[q].kind = "walk"
                            /\ table[q].parent = table[p].parent}

\* Bug: one more than the threshold.
FanoutLeadersAbove(table) ==
    {p \in Running(table) : /\ p \in Group(p, table)
                            /\ Cardinality(Group(p, table)) > FanoutN
                            /\ \A q \in Group(p, table) : p <= q}

FanoutLeaders(table) ==
    {p \in Running(table) : /\ p \in Group(p, table)
                            /\ Cardinality(Group(p, table)) >= FanoutN
                            /\ \A q \in Group(p, table) : p <= q}

FanoutFindings(table) ==
    {KeyOf("fanout_traversal", p, table) : p \in FanoutLeaders(table)}

Findings(table, streak) ==
    ProcessFindings(table, streak) \cup FanoutFindings(table)

\* The order the poll takes them in: per-process findings by pid, then the
\* fan-outs (sorted by a printed group name, which is left open here).
Before(f, g) ==
    /\ f.verdict # "fanout_traversal"
    /\ g.verdict = "fanout_traversal" \/ f.pid < g.pid
=============================================================================

---------------------------- MODULE WalkVerdict ----------------------------
(***************************************************************************)
(* The two layers' questions of one walk: check() of                       *)
(* src/walk_blocker/search_rules.py before the tool runs, and              *)
(* traversal_roots() of node/reaper.py about a process that is running.    *)
(* Both go through the operand scan of ArgvScan and judge_root() of        *)
(* MountPolicy.                                                            *)
(***************************************************************************)
EXTENDS ToolGrammar, MountPolicy

CONSTANTS
    Absolute    \* the operands that are absolute paths, and the path of each

ASSUME WalkVerdictAssumption == DOMAIN Absolute \subseteq Text

\* A working directory that could not be read: "" in the code.
Unreadable == [known |-> FALSE, path |-> << >>]
At(path) == [known |-> TRUE, path |-> path]

\* clean_path(): a relative path keeps the directory it is relative to.
CleanPath(text, cwd) ==
    IF text \in DOMAIN Absolute THEN At(Absolute[text])
    ELSE IF text = Here THEN cwd
    ELSE [cwd EXCEPT !.path = @ \o text]

Moved(directory, cwd) == IF directory = NoText THEN cwd ELSE CleanPath(directory, cwd)
Base(p, argv, cwd) == Moved(EffectiveCwd(p, argv), cwd)

\* resolved_roots(): the one place both layers take the base directory from.
ResolvedRoots(p, argv, cwd, tty) ==
    {CleanPath(text, Base(p, argv, cwd)) : text \in Roots(p, argv, tty, TRUE)}

\* check(): Layer 1, TRUE for a refusal.
Check(p, argv, cwd, table, policy, tty) ==
    /\ IsTraversal(p, argv)
    /\ ~DepthMalformed(p, argv)
    /\ Refused([roots |-> {r.path : r \in ResolvedRoots(p, argv, cwd, tty)},
                  depth |-> DepthBound(p, argv), device |-> DeviceBounded(p, argv)],
                 table, policy)

\* Bug: the backstop takes its operands relative to the caller's directory.
RunningRootsOfCaller(p, argv, cwd, tty) ==
    {CleanPath(text, cwd) : text \in Roots(p, argv, tty, TRUE)}

RunningRoots(p, argv, cwd, tty) == ResolvedRoots(p, argv, cwd, tty)

\* traversal_roots(): Layer 2's hits among a running walk's roots, which it
\* judges without the walk's depth.
Hits(p, argv, roots, table, policy) ==
    {r \in roots : /\ IsTraversal(p, argv)
                   /\ r.known
                   /\ JudgeRoot(r.path, ReadMounts(table, policy), policy,
                                DeviceBounded(p, argv), NoDepth)}

\* traversal_roots(), beside its hits: a root could not be resolved, or the
\* scan charged nothing of an argv that names a path, which it says only when
\* it has no hit.
Speaks(p, argv, roots, table, policy) ==
    \/ Hits(p, argv, roots, table, policy) # {}
    \/ IsTraversal(p, argv) /\ \/ \E r \in roots : ~r.known
                               \/ UnclaimedAbsoluteRoot(p, argv, DOMAIN Absolute)

\* What Layer 1 refuses, Layer 2 names when the tool runs all the same; and
\* if it cannot read the directory the tool runs in, it says so instead of
\* giving a clean bill of health.  node/reaper.py:650-659 and 681-697.
BackstopSeesIt(p, argv, cwd, table, policy, tty) ==
    Check(p, argv, At(cwd), table, policy, tty) =>
        /\ Hits(p, argv, RunningRoots(p, argv, At(cwd), tty), table, policy) # {}
        /\ Speaks(p, argv, RunningRoots(p, argv, Unreadable, tty), table, policy)
=============================================================================

----------------------------- MODULE Decisions -----------------------------
(***************************************************************************)
(* The questions the program answers from what it is given, with nothing   *)
(* in between: one question is asked, and one case of it is looked at.  A  *)
(* case of the questions about a command is its argv, which grows a token  *)
(* at a time.  What each answer promises is in the module that models the  *)
(* question; the cases are here.                                           *)
(***************************************************************************)
EXTENDS WalkVerdict, NodeChecks

CONSTANTS
    Questions,  \* those that are asked
    ArgvLength, \* the longest argv
    MaxDepth,   \* depths a command asks for: 1..MaxDepth + 1
    FileLength  \* the longest startup file

\* A payload of a file, its record and a directory with a file and a directory
\* that has one.
PayloadPaths == {<<"f">>, <<"lock">>, <<"d">>, <<"d", "a">>, <<"d", "s">>, <<"d", "s", "b">>}
PayloadSources == {<<"f">>, <<"lock">>, <<"d">>}
PayloadDirs == {<<"d">>}
PayloadLock == <<"lock">>

\* What the cases are about: two names on a path; root, three users, and groups
\* 1 and 2, of which the first is the spool's; and that payload.
ASSUME DecisionsAssumption ==
    /\ {"pat", "b", "skip", "recurse", "exec", "ok", "maxdepth", "xdev", "!"} \subseteq Atom
    /\ MaxDepth \in Nat /\ {"a", "b"} \subseteq Name /\ MaxLength >= 2 /\ MaxRank >= 1
    /\ 0..3 \subseteq Uid /\ 1..2 \subseteq Gid /\ 1..2 \subseteq Number
    /\ Root = 0 /\ User = 1 /\ SpoolGid = 1 /\ OtherGid = 2
    /\ Login = {"n", "o"}
    /\ Marker = "marker" /\ Trail = {"trail"} /\ Stranger = {"stranger"}
    /\ PayloadPath = PayloadPaths /\ Source = PayloadSources
    /\ DirSource = PayloadDirs /\ Lock = PayloadLock /\ 1..2 \subseteq Content

VARIABLES
    question,   \* "none" before it is asked
    given

vars == <<question, given>>

-----------------------------------------------------------------------------
(* Commands. *)

W(x) == Word(<<x>>)
S(x) == Short(<<x>>)

ProfileOf == [grep |-> Grep, rgrep |-> Rgrep, rg |-> Rg, fd |-> Fd, du |-> Du,
              find |-> Find, bfs |-> Bfs, ugrep |-> Ugrep, fzf |-> Fzf,
              tree |-> Tree]

GrepTokens ==
    {W("pat"), W("recurse"), Word(<< >>), S("r"), S("d"), Short(<<"r", "d">>),
     Short(<<"e", "r">>), S("e"), Long("dir"), LongIs("dir", <<"recurse">>),
     Long("rec"), Long("rege"), Long("re"), Long("binary"),
     LongIs("regexp", <<"x">>), Short(<<"n", "d", "skip">>), W("skip"), DashDash}
FindTokens ==
    {W("pat"), Dash, W("1"), S("H"), Short(<<"H", "x">>), S("D"), S("f"),
     S("exec"), W("{}"), W("+"), Semicolon, S("maxdepth"), S("xdev"), W("!"),
     DashDash, S("ok"), Word(<< >>)}

Tokens ==
    [grep |-> GrepTokens, rgrep |-> GrepTokens, find |-> FindTokens, bfs |-> FindTokens,
     rg |-> {W("pat"), W("1"), Word(<< >>), S("e"), Short(<<"e", "x">>), S("C"),
             Long("max-depth"), LongIs("max-depth", <<"5">>), Long("one-file-system"),
             Long("no-one-file-system"), Long("regexp"), Short(<<"n", "C">>), DashDash},
     fd |-> {W("pat"), W("1"), S("d"), Short(<<"H", "d">>), Short(<<"d", "5">>),
             Short(<<"H", "E">>), Long("search-path"), LongIs("search-path", <<"b">>),
             Long("base-directory"), LongIs("base-directory", <<"b">>), S("x"), Semicolon,
             Short(<<"x", "d", "1">>), Long("one-file-system"), DashDash},
     du |-> {W("pat"), S("x"), Short(<<"n", "x">>), Short(<<"x", "d", "1">>), S("d"),
             Long("max-depth"), Long("time"), Long("time-s"), LongIs("time-s", <<"x">>),
             LongIs("time-style", <<"x">>), Long("one-file-system"), Word(<< >>), DashDash},
     ugrep |-> {W("pat"), Word(<< >>), S("r"), S("d"), W("recurse"), W("skip"),
                Short(<<"l", "9">>), Short(<<"5">>), Short(<<"r", "0">>),
                Short(<<"3", "-", "5">>), Short(<<"l", "C", "3">>),
                LongIs("depth", <<"3", ",", "5">>), LongIs("depth", <<",", "9">>),
                LongIs("depth", <<"1">>), Long("depth"), W("3"),
                Short(<<"l", "9", "-", "3">>), S("e"), DashDash},
     tree |-> {W("pat"), W("1"), S("L"), S("x"), Short(<<"x", "L">>),
               Short(<<"L", "5">>), S("E"), Word(<< >>), DashDash},
     fzf |-> {W("pat"), Long("walker-root"), LongIs("walker-root", <<"b">>),
              Long("walker-max-depth"), W("1"), Word(<< >>), DashDash}]

\* The operand "pat" is /a, and every other is relative.
OneAbsolute == [text \in {<<"pat">>} |-> <<"a">>]

\* A site with one expensive mount, /a, and one below it, /a/b.
Site == <<[point |-> << >>, rank |-> 2, remote |-> FALSE],
          [point |-> <<"a">>, rank |-> 1, remote |-> TRUE],
          [point |-> <<"a", "b">>, rank |-> 1, remote |-> TRUE]>>

\* A policy with a class for /a, and the site's without.
PolicyWith(unscoped, class) ==
    [proxy |-> TRUE, maxdepth |-> 1, unscoped |-> unscoped, max |-> 2,
     mounts |-> [m \in Path |-> [class |-> IF m = <<"a">> THEN class ELSE "none",
                                depth |-> NoBound]]]
SitePolicy == PolicyWith(1, "none")

-----------------------------------------------------------------------------
(* The cases. *)

Init == question = "none" /\ given = << >>

Ask == question = "none" /\ question' \in Questions /\ UNCHANGED given

Asked(q) == question = q /\ given = << >>

PickTool ==
    /\ Asked("argv")
    /\ \E tool \in DOMAIN ProfileOf : given' = [tool |-> tool, argv |-> << >>]
    /\ UNCHANGED question

AddToken ==
    /\ question = "argv" /\ given # << >>
    /\ Len(given.argv) < ArgvLength
    /\ \E t \in Tokens[given.tool] : given' = [given EXCEPT !.argv = Append(@, t)]
    /\ UNCHANGED question

RowKinds == {k \in [rank : 1..2, remote : BOOLEAN] : k.rank = 1 => k.remote}

\* A table of / and two other mounts, in either order, a policy with overrides
\* for both and the seam that may replace their depths.
PickMounts ==
    /\ Asked("mounts")
    /\ \E top \in {k \in RowKinds : k.rank = 1 <=> k.remote},
          points \in {s \in [1..2 -> {<<"a">>, <<"a", "b">>, <<"b">>}] : s[1] # s[2]},
          kinds \in [1..2 -> RowKinds] :
          given' = [table |-> <<[point |-> << >>, rank |-> top.rank, remote |-> top.remote]>> \o
                                [i \in 1..2 |-> [point |-> points[i], rank |-> kinds[i].rank,
                                                 remote |-> kinds[i].remote]]]
    /\ UNCHANGED question

PickPolicy ==
    /\ question = "mounts" /\ given # << >> /\ "policy" \notin DOMAIN given
    /\ \E unscoped \in 1..2, class \in {"none", "cheap", "expensive"},
          outer \in {NoBound, 2, MaxDepth + 1}, inner \in {NoBound, 2} :
          LET depths == (<<"a">> :> outer) @@ (<<"a", "b">> :> inner)
              seam == [m \in {m \in DOMAIN depths : depths[m] # NoBound} |-> depths[m]]
          IN  given' = [table |-> given.table,
                        policy |-> FromEnv(PolicyWith(unscoped, class), seam)]
    /\ UNCHANGED question

Walks == [roots : {{r} : r \in {<< >>, <<"a">>, <<"a", "b">>}} \cup {{<<"b">>, <<"a", "b">>}},
          device : BOOLEAN, depth : {NoBound} \cup 1..MaxDepth + 1]

\* A chain of one or two components; the group of one may have an ACL.
Acls == {PT!NoAcl, [PT!NoAcl EXCEPT !.known = "opaque"]} \cup
        [known : {"read"}, users : {{}, {1}}, groups : {{}, {1}, {2}}]
Components ==
    [kind : {"dir"}, uid : {0, 1}, gid : 1..2, gw : BOOLEAN, ow : BOOLEAN,
     sticky : BOOLEAN, acl : Acls]
    \cup [kind : {"missing", "link", "hidden"}, uid : {0, 1}, gid : {1}, gw : {FALSE},
          ow : {FALSE}, sticky : {FALSE}, acl : {PT!NoAcl}]

PickChain ==
    /\ question = "chain" /\ Len(given) < 2
    /\ \E c \in Components : given' = Append(given, c)
    /\ UNCHANGED question

\* login.defs says all three, perhaps one of them again, or leaves one out.
KeyOrders == {<<"UID_MIN", "UID_MAX", "GID_MIN">>, <<"UID_MAX", "GID_MIN">>,
              <<"UID_MIN", "GID_MIN">>, <<"UID_MIN", "UID_MAX">>}
Digits == {[form |-> "", digits |-> <<1>>], [form |-> "", digits |-> <<2>>]}
Texts == Digits \cup {[form |-> "0", digits |-> <<9>>], [form |-> "0x", digits |-> <<>>]}
LoginDefs ==
    {[i \in DOMAIN keys |-> [key |-> keys[i], text |-> f[keys[i]]]] :
        keys \in KeyOrders, f \in [TG!LOGIN_DEFS_KEYS -> Digits]}

PickLoginDefs ==
    /\ Asked("groups")
    /\ \E lines \in LoginDefs :
          \/ given' = [lines |-> lines]
          \/ /\ Len(lines) = 3
             /\ \E key \in TG!LOGIN_DEFS_KEYS, text \in Texts :
                   given' = [lines |-> Append(lines, [key |-> key, text |-> text])]
    /\ UNCHANGED question

PickGroup ==
    /\ question = "groups" /\ given # << >> /\ "group" \notin DOMAIN given
    /\ \E n \in TG!Account, o \in {a \in TG!Account : a.gid = 2 /\ a.listed},
          group \in TG!Group :
          given' = [lines |-> given.lines, group |-> group,
                    accounts |-> [name \in {"n", "o"} |-> IF name = "n" THEN n ELSE o]]
    /\ UNCHANGED question

\* A spool of each kind and mode, with one of each name in it.
SpoolFiles ==
    [kind : {"file"}, uid : 0..1, gid : 1..2, mode : {{}} \cup {{b} : b \in SS!Bits}]
    \cup [kind : {"missing", "linkIn", "dangling", "dir", "fifo"}, uid : {0}, gid : {1}, mode : {{}}]
Strangers == [kind : {"file"}, uid : 0..1, gid : {2}, mode : {{"write"}, {"scope"}}]
SpoolSelves ==
    [kind : {"dir"}, uid : 0..1, gid : 1..2, mode : SUBSET SS!Bits]
    \cup [kind : SS!Kind \ {"dir"}, uid : 0..1, gid : {1}, mode : {{}}]
NoFile == [kind |-> "missing", uid |-> 0, gid |-> 1, mode |-> {}]

PickSpool ==
    /\ Asked("spool")
    /\ \E self \in SpoolSelves :
          given' = [n \in SS!Names |-> IF n = SS!Self THEN self ELSE NoFile]
    /\ UNCHANGED question

PickFiles ==
    /\ question = "spool" /\ given # << >>
    /\ given[SS!Self].kind = "dir" /\ given["stranger"] = NoFile
    /\ \E marker, trail \in SpoolFiles, stranger \in Strangers :
          given' = [given EXCEPT !["marker"] = marker, !["trail"] = trail,
                                 !["stranger"] = stranger]
    /\ UNCHANGED question

\* What the audit that came before may have listed: this spool, or one whose
\* every entry was to be repaired.
Listed(s) ==
    {s, [n \in SS!Names |-> [kind |-> IF n = SS!Self THEN "dir" ELSE "file",
                             uid |-> 0, gid |-> 2, mode |-> {"scope"}]]}

\* A node that is fit but for two things at most, whatever may be hidden.
FitNode ==
    [arguments |-> "fit", spool_group |-> "fit", trusted_groups |-> "fit",
     chain |-> [p \in PF!Path |-> "fit"], journal_dropin |-> "fit", spool |-> "fit",
     prefix_reach |-> "fit", prefix_contents |-> "fit", staging |-> "fit",
     payload |-> "fit", installer_refuses |-> {}, hidden |-> {}]
Flaws(node) ==
    {[node EXCEPT ![field] = "unfit"] :
        field \in DOMAIN node \ {"chain", "installer_refuses", "hidden"}}
    \cup {[node EXCEPT !.installer_refuses = callers] : callers \in SUBSET PF!Caller}
    \cup {[node EXCEPT !.chain[p] = "unfit"] : p \in PF!Path}
    \cup {[node EXCEPT !.spool = "missing"], [node EXCEPT !.chain["spool_dir"] = "grouped"]}

PickNode ==
    /\ Asked("preflight")
    /\ \E hidden \in SUBSET (PF!Path \cup {"login_defs", "prefix_list", "payload"}) :
          given' = [FitNode EXCEPT !.hidden = hidden]
    /\ UNCHANGED question

FlawNode ==
    /\ question = "preflight" /\ given # << >>
    /\ [given EXCEPT !.hidden = {}] = FitNode
    /\ \E one \in Flaws(given) : \E two \in {one} \cup Flaws(one) : given' = two
    /\ UNCHANGED question

Shows(kinds, contents) ==
    [kind : kinds, content : contents, closed : BOOLEAN]
FileCases ==
    Shows({"file"}, 1..2) \cup [kind : {"missing", "link", "dir"}, content : {1}, closed : {FALSE}]
DirCases ==
    Shows({"dir"}, {1}) \cup [kind : {"missing", "link", "fifo"}, content : {1}, closed : {FALSE}]
Absent == [kind |-> "missing", content |-> 1, closed |-> FALSE]

TreeOf(f, lock, d, a, s, b) ==
    [p \in PayloadPaths |->
        CASE p = <<"f">> -> f
          [] p = <<"lock">> -> lock
          [] p = <<"d">> -> d
          [] p = <<"d", "a">> -> a
          [] p = <<"d", "s">> -> s
          [] p = <<"d", "s", "b">> -> b]

PickTree ==
    /\ Asked("payload")
    /\ \E f \in FileCases, lock \in FileCases, d, s \in DirCases, a, b \in FileCases :
          /\ d.kind # "dir" => a = Absent /\ s = Absent
          /\ s.kind # "dir" => b = Absent
          /\ f.kind # "file" => lock = [kind |-> "file", content |-> 1, closed |-> FALSE]
          /\ given' = [tree |-> TreeOf(f, lock, d, a, s, b)]
    /\ UNCHANGED question

\* Records of this build: whole, with a file too many, with one too few.
Locks ==
    PR!Records({[p \in listed |-> 1] :
        listed \in {{<<"f">>, <<"d", "a">>, <<"d", "s", "b">>}, {<<"f">>, <<"d", "a">>},
                    {<<"f">>, <<"d", "s", "b">>}, {<<"d", "s", "b">>}}})

\* ACLs with users and groups that have or are denied a permission.
AclsOf(p, mask) ==
    {[users |-> users, groups |-> groups, owning |-> owning, mask |-> mask] :
        users \in UNION {[U -> {{}, {p}}] : U \in SUBSET {1, 2}},
        groups \in UNION {[G -> {{}, {p}}] : G \in SUBSET {1, 2}},
        owning \in {{}, {p}}}
WithAcl(acl) ==
    [uid |-> 0, gid |-> 1, owner |-> {"r", "x"}, group |-> {"r", "x"}, other |-> {}, acl |-> acl]

\* A spool as an install leaves it, and as it may be: another group, bits for
\* others, a mask that takes search away.  It is always root's.
PickAcl ==
    /\ Asked("acl")
    /\ \E acl \in {{}} \cup {{a} : a \in AclsOf("x", {{"r", "x"}})} : given' = WithAcl(acl)
    /\ UNCHANGED question
Unmade(i) ==
    {[i EXCEPT !.gid = gid, !.group = group, !.other = other,
               !.acl = {[a EXCEPT !.mask = mask] : a \in @}] :
        gid \in 1..2, group, other \in {{}, {"x"}},
        mask \in {{}, {{}}, {{"x"}}}}

\* The journal's directories and one file, with entries for group 2.
JournalAcls ==
    {[users |-> users, groups |-> groups, owning |-> {"r", "x"}, mask |-> mask] :
        users \in UNION {[U -> {{}}] : U \in SUBSET {1}},
        groups \in UNION {[G -> {{"x"}, {"r"}, {"r", "x"}}] : G \in SUBSET {2}},
        mask \in {{}, {{"x"}}, {{"r"}}, {{"r", "x"}}}}
JournalInodes(defaults) ==
    {[there |-> there, inode |-> WithAcl(acl), default |-> default] :
        there \in BOOLEAN, acl \in {{}} \cup {{a} : a \in JournalAcls}, default \in defaults}
Defaults == {{}, {{"x"}}, {{"r", "x"}}}

\* One with a file or none, looked at by somebody who may not see all of it;
\* perhaps beside a root that is not there.
JournalRoots(root, dir) ==
    {[root |-> root, dir |-> dir, files |-> {f}, blind |-> {}] :
        f \in {f \in JournalInodes({{}}) : f.there}}
    \cup {[root |-> root, dir |-> dir, files |-> {}, blind |-> blind] :
            blind \in SUBSET {"root", "dir"}}
NoJournal ==
    LET none == [there |-> FALSE, inode |-> WithAcl({}), default |-> {}]
    IN  [root |-> none, dir |-> none, files |-> {}, blind |-> {}]

PickJournal ==
    /\ Asked("journal")
    /\ \E root \in JournalInodes(Defaults) : given' = [root |-> root]
    /\ UNCHANGED question
PickMachine ==
    /\ question = "journal" /\ given # << >> /\ "dir" \notin DOMAIN given
    /\ \E dir \in JournalInodes(Defaults) : given' = [root |-> given.root, dir |-> dir]
    /\ UNCHANGED question

\* A startup file, a line at a time.
AddLine ==
    /\ question = "hook" /\ Len(given) < FileLength
    /\ \E line \in HF!Line : given' = Append(given, line)
    /\ UNCHANGED question

Next ==
    \/ Ask
    \/ PickTool \/ AddToken
    \/ PickMounts \/ PickPolicy
    \/ PickChain
    \/ PickLoginDefs \/ PickGroup
    \/ PickSpool \/ PickFiles
    \/ PickNode \/ FlawNode
    \/ PickTree
    \/ PickAcl
    \/ PickJournal \/ PickMachine
    \/ AddLine

Spec == Init /\ [][Next]_vars

-----------------------------------------------------------------------------
(* What the answers promise. *)

\* Whatever the order of a command's flags, the scanners read of it what its
\* tool does: whether it walks a tree, with which bounds, and where it starts.
\* No flag of the cases is a cluster in which a depth comes before the letter
\* that takes a value, as in ugrep's -9e: the scanners drop that depth
\* (ArgvProofs, Legible).  src/walk_blocker/search_rules.py:496-505, 1888-1911, 2321-2331.
ReadAsTheToolDoes ==
    question = "argv" /\ given # << >> =>
        LET p == ProfileOf[given.tool]
        IN  /\ TraversalIsRead(p, given.argv)
            /\ BoundsAreRead(p, given.argv)
            /\ \A tty \in BOOLEAN : RootsAreRead(p, given.argv, tty)

\* What Layer 1 would have refused is never passed over in silence by Layer 2.
\* node/reaper.py:650-659 and 681-697.
BackstopSeesRefused ==
    question = "argv" /\ given # << >> =>
        \A cwd \in {<< >>, <<"a">>, <<"b">>}, tty \in BOOLEAN :
            BackstopSeesIt(ProfileOf[given.tool], given.argv, cwd, Site, SitePolicy, tty)

MountCase == question = "mounts" /\ "policy" \in DOMAIN given

\* An allowed walk enumerates no expensive mount past what the policy permits
\* there, bounded or not.  src/walk_blocker/search_rules.py:1196-1204 and
\* 2683-2691.
AllowedIsWithinPolicy ==
    MountCase =>
        \A walk \in Walks :
            /\ UnboundedIsScoped(walk, given.table, given.policy)
            /\ NoneBelowPastItsAllowance(walk, given.table, given.policy)

\* A refusal is for an expensive mount, and the order of the table decides
\* nothing.  src/walk_blocker/search_rules.py:1223-1232 and 2643-2657.
RefusedForAReason ==
    MountCase =>
        \A walk \in Walks :
            /\ RefusedForACost(walk, given.table, given.policy)
            /\ OrderDecidesNothing(walk, given.table, given.policy)

\* "a cheap mount, which is never judged at all".  docs/alternatives.md:26.
CheapIsFree ==
    MountCase => \A walk \in Walks : CheapIsNeverJudged(walk, given.table, given.policy)

\* A chain the check accepts is out of reach of every account it does not
\* trust, as far down as root can look.  node/deploy.py:1022-1047.
AcceptedIsOutOfReach ==
    question = "chain" =>
        \A T \in SUBSET {1} : PT!AcceptedIsOutOfReach(given, T)

\* A service group that is accepted has no person in it, whatever login.defs
\* repeats, leaves out or spells in another base.  node/deploy.py:1186-1200.
AcceptedGroupHasNoPerson ==
    question = "groups" /\ given # << >> /\ "group" \in DOMAIN given =>
        TG!AcceptedGroupHasNoPerson(given.group, given.accounts, given.lines)

\* What the audit of the spool accepts the install leaves as asserted, and what
\* has come to the spool's name since is touched only if it is the install's
\* own.  node/deploy.py:1539-1558 and 1713-1738.
SpoolIsJudgedAsLeft ==
    question = "spool" /\ given # << >> =>
        /\ SS!JudgedAsLeft(given)
        /\ \A listed \in Listed(given) : SS!OnlyItsOwn(listed, given)

\* A dry run that says nothing against an install has seen all that the install
\* checks.  node/deploy.py:2149-2164 and 2180-2188.
DryRunIsEnough ==
    question = "preflight" /\ given # << >> => PF!DryRunIsEnough(given)

\* An install refuses a payload exactly when it is not what its record lists,
\* and what it copies then verifies.  node/deploy.py:2423-2447 and 4253-4260.
PayloadIsAsRecorded ==
    question = "payload" /\ given # << >> =>
        \A lock \in Locks :
            /\ PR!RefusedExactly(given.tree, lock)
            /\ PR!VerifiedIsAccepted(given.tree, lock)

\* Who may read the trail and the journal is answered as the kernel would for
\* every membership an account could have, and nobody reads unnamed.
\* node/deploy.py:3073-3091, 3126-3150 and 3318-3334.
ReadersAreNamed ==
    /\ question = "acl" /\ given # << >> =>
        /\ \A i \in {given} \cup Unmade(given) :
              /\ \A u \in 0..3 : AR!SearchIsTrue(i, "user", u)
              /\ \A g \in 1..2 : AR!SearchIsTrue(i, "group", g)
        /\ \A acl \in AclsOf("r", {{"r"}}) :
              AR!NoUnnamedReader(given, WithAcl({acl}))
    /\ question = "journal" /\ given # << >> /\ "dir" \in DOMAIN given =>
        \A r \in JournalRoots(given.root, given.dir), other \in {{}, {NoJournal}},
           id \in {"present", "absent", "unchecked"} :
            AR!NoGapMeansRead(id, {r} \cup other, 2)

\* A user's startup file keeps its lines, whatever markers are in it.
\* node/shim/install.sh:1057-1074.
UsersLinesKept == question = "hook" => HF!UsersLinesKept(given)
=============================================================================

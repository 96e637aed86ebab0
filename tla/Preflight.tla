----------------------------- MODULE Preflight -----------------------------
(***************************************************************************)
(* The checks before the first command, made by the install as root and by *)
(* the dry run as whoever reads it: node/deploy.py, preflight(), with the  *)
(* payload check each caller adds to it.                                   *)
(*                                                                         *)
(* A node is what each check would find on it, and what an unprivileged    *)
(* caller may not look at.  How a chain, a spool or a group is judged is   *)
(* in PathTrust, SpoolScope and TrustedGroups.                             *)
(***************************************************************************)
EXTENDS FiniteSets

\* PATH_KINDS, with the three hook files as one.
Path == {"prefix", "spool_dir", "unit_dir", "tmpfiles_dir", "hook_file"}

\* What a check may come to.  The chain above the spool may also be fit only
\* by the trusted groups.
Fit == {"fit", "unfit"}

\* A caller: root, or a user who is in the spool's reader group or not.
Caller == {"root", "reader", "other"}

Node ==
    [arguments : Fit,
     spool_group : Fit,
     trusted_groups : Fit,
     chain : {f \in [Path -> {"fit", "grouped", "unfit"}] :
                  \A p \in Path \ {"spool_dir"} : f[p] # "grouped"},
     journal_dropin : Fit,
     spool : {"missing", "fit", "unfit"},
     prefix_reach : Fit,
     prefix_contents : Fit,
     staging : Fit,
     payload : Fit,
     \* The callers whose dry run of install.sh refuses.
     installer_refuses : SUBSET Caller,
     \* Not an unprivileged caller's to look at.
     hidden : SUBSET (Path \cup {"login_defs", "prefix_list", "payload"})]

Privileged(c) == c = "root"

Hidden(what, node, c) == ~Privileged(c) /\ what \in node.hidden

Check ==
    {"arguments", "spool_group", "trusted_groups", "paths", "journal_dropin",
     "spool", "prefix_reach", "prefix_contents", "staging"}

-----------------------------------------------------------------------------
(* One check's answer. *)

\* Bug: without the gids the spool's chain is judged with root alone.
InspectableByRootAlone(node, c) == {p \in Path : ~Hidden(p, node, c)}

\* The paths this caller can judge: all it may inspect, and the spool's only
\* with the gids its chain depends on.
Inspectable(node, c) ==
    {p \in Path :
        /\ ~Hidden(p, node, c)
        /\ p = "spool_dir" => ~Hidden("login_defs", node, c)}

\* untrusted_prefix_chain() and the leaf of a hook file, for one path.
ChainRefused(p, node, c) ==
    \/ node.chain[p] = "unfit"
    \/ node.chain[p] = "grouped" /\ Hidden("login_defs", node, c)

\* audit_dir_blockers() lists the spool, and what cannot be listed blocks.
SpoolRefused(node, c) ==
    node.spool = "unfit" \/ (node.spool = "fit" /\ c = "other")

\* CHECK_BLOCKED.
Blocked(check, node, c) ==
    CASE check = "trusted_groups" ->
            ~Hidden("login_defs", node, c) /\ node.trusted_groups = "unfit"
      [] check = "paths" ->
            \E p \in Inspectable(node, c) : ChainRefused(p, node, c)
      [] check = "journal_dropin" ->
            /\ "tmpfiles_dir" \in Inspectable(node, c)
            /\ node.journal_dropin = "unfit"
      [] check = "spool" ->
            ~Hidden("spool_dir", node, c) /\ SpoolRefused(node, c)
      [] check = "prefix_reach" ->
            ~Hidden("prefix", node, c) /\ node.prefix_reach = "unfit"
      [] check = "prefix_contents" ->
            ~Hidden("prefix_list", node, c) /\ node.prefix_contents = "unfit"
      [] OTHER -> node[check] = "unfit"

\* CHECK_UNKNOWN: a check this caller is not permitted to make.
Unknown(check, node, c) ==
    CASE check = "trusted_groups" -> Hidden("login_defs", node, c)
      [] check = "paths" -> Inspectable(node, c) # Path
      [] check = "spool" -> Hidden("spool_dir", node, c)
      [] check = "prefix_reach" -> Hidden("prefix", node, c)
      [] check = "prefix_contents" -> Hidden("prefix_list", node, c)
      [] OTHER -> FALSE

-----------------------------------------------------------------------------
(* The callers. *)

\* The checks a caller comes to: a dry run makes no check of the staging
\* parent, and a prefix nobody may look at ends the checks.
Made(node, c, dryRun) ==
    (Check \ (IF dryRun THEN {"staging"} ELSE {}))
        \ (IF Hidden("prefix", node, c)
           THEN {"prefix_contents", "staging"}
           ELSE IF Hidden("prefix_list", node, c) THEN {"staging"} ELSE {})

\* preflight(): 6, with nothing changed, over a check that is blocked.
Refuses(node, c, dryRun) ==
    \E check \in Made(node, c, dryRun) :
        \/ Blocked(check, node, c)
        \/ Privileged(c) /\ Unknown(check, node, c)

\* payload_blockers(): on the payload, or on the snapshot of it.
PayloadRefused(node, c) == ~Hidden("payload", node, c) /\ node.payload = "unfit"

\* Bug: the payload is the install's to judge.
PreviewRefusesNode(node, c) == c \in node.installer_refuses \/ Refuses(node, c, TRUE)

\* system_preview() and system_execute() up to its first command.  The preview
\* runs install.sh's dry run first; the install meets what that refuses only
\* after its own first commands.
PreviewRefuses(node, c) ==
    \/ c \in node.installer_refuses
    \/ Refuses(node, c, TRUE)
    \/ PayloadRefused(node, c)
InstallRefuses(node) == Refuses(node, "root", FALSE) \/ PayloadRefused(node, "root")

\* The NOT CHECKED block.
NotChecked(node, c) ==
    {check \in Made(node, c, TRUE) : Unknown(check, node, c)}
        \cup (IF Hidden("payload", node, c) THEN {"payload"} ELSE {})

-----------------------------------------------------------------------------
(* What it promises. *)

\* A dry run that refuses nothing and says of nothing that it was not checked
\* has accepted all the install does but the staging parent; and whoever may
\* list the spool is refused nothing that the install would accept, unless by
\* install.sh.
\* node/deploy.py:2149-2164 and 2180-2188.
DryRunIsEnough(node) ==
    /\ \A c \in Caller :
           /\ ~PreviewRefuses(node, c)
           /\ NotChecked(node, c) = {}
           /\ node.staging = "fit"
           => ~InstallRefuses(node)
    /\ \A c \in Caller \ {"other"} :
           PreviewRefuses(node, c) =>
               c \in node.installer_refuses \/ InstallRefuses(node)
=============================================================================

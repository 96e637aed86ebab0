--------------------------- MODULE PayloadRecord ---------------------------
(***************************************************************************)
(* A payload against the record beside it: node/deploy.py,                 *)
(* payload_blockers() before an install, and verify_lines() after one.     *)
(*                                                                         *)
(* A path is the sequence of its names, a file is its content, and two     *)
(* contents are equal when their digests are.                              *)
(***************************************************************************)
EXTENDS Integers, SequencesExt

CONSTANTS
    Path,       \* what may be under the payload's root
    Source,     \* PAYLOAD_SOURCES: what an install copies
    DirSource,  \* those that are directories
    Lock,       \* site.lock.json
    Content

\* What lstat() shows at a path; "closed" is not this process's to open or
\* to list.  A link leads to a file with its content.
Entry == [kind : {"missing", "file", "dir", "link", "fifo"},
          content : Content, closed : BOOLEAN]

Under(d, p) == IsStrictPrefix(d, p)
UnderSource(p) == \E d \in DirSource : Under(d, p)

\* A record: whether it parses, whether it names this build, and the content
\* it has for each path it lists.
Records(files) ==
    [parses : BOOLEAN, ours : BOOLEAN, files : files]

\* expected_from_lock().
Expected(lock) ==
    {p \in DOMAIN lock.files : p \in Source \ DirSource \/ UnderSource(p)}

-----------------------------------------------------------------------------
(* payload_blockers(). *)

\* Step 1: the entries of the right type.
FitEntries(tree) ==
    {p \in Source : tree[p].kind = IF p \in DirSource THEN "dir" ELSE "file"}

\* Bug: the directories are not walked below their own files.
ReachedAtTop(tree) ==
    {p \in Path :
        /\ tree[p].kind # "missing"
        /\ \E d \in DirSource \cap FitEntries(tree) :
               Under(d, p) /\ ~tree[d].closed /\ Len(p) = Len(d) + 1}

\* Step 4: what the walk of the directories comes to: every directory on the
\* way is one, and could be listed.
Reached(tree) ==
    {p \in Path :
        /\ tree[p].kind # "missing"
        /\ \E d \in DirSource \cap FitEntries(tree) :
               /\ Under(d, p)
               /\ \A q \in Path :
                      (q = d \/ Under(d, q)) /\ Under(q, p) =>
                          tree[q].kind = "dir" /\ ~tree[q].closed}

Irregular(tree) == {p \in Reached(tree) : tree[p].kind \in {"link", "fifo"}}

\* What it opens or lists, once it has read the record.
Opened(tree) ==
    (FitEntries(tree) \cup Reached(tree)) \ Irregular(tree)

\* judge(): a regular file against its entry.
Judged(tree) ==
    {p \in Opened(tree) : tree[p].kind = "file" /\ ~tree[p].closed} \ {Lock}

Differs(tree, lock) ==
    {p \in Judged(tree) :
        p \notin Expected(lock) \/ tree[p].content # lock.files[p]}

\* What a line of its own accounts for, with all that is below it.
Unwalked(tree) ==
    (DirSource \ FitEntries(tree)) \cup Irregular(tree)
        \cup {p \in Opened(tree) : tree[p].kind = "dir" /\ tree[p].closed}

MissingBelow(tree, lock) ==
    {p \in Expected(lock) :
        /\ UnderSource(p)
        /\ ~(p \in Reached(tree) /\ tree[p].kind # "dir")
        /\ \A u \in Unwalked(tree) : p # u /\ ~Under(u, p)}

Readable(tree, lock) ==
    Lock \in FitEntries(tree) /\ ~tree[Lock].closed /\ lock.parses

\* Who of the opened is not this process's to open.
CannotRead(tree, lock) ==
    {p \in IF Readable(tree, lock) THEN Opened(tree)
           ELSE {Lock} \cap FitEntries(tree) : tree[p].closed}

\* The paths it has a line for, Lock standing for the record itself.
PayloadBlockers(tree, lock, privileged) ==
    (Source \ FitEntries(tree))
        \cup (IF privileged THEN CannotRead(tree, lock) ELSE {})
        \cup (IF Lock \in FitEntries(tree) /\ ~tree[Lock].closed
                 /\ ~(lock.parses /\ lock.ours) THEN {Lock} ELSE {})
        \cup (IF Readable(tree, lock)
              THEN Differs(tree, lock) \cup Irregular(tree)
                       \cup MissingBelow(tree, lock)
              ELSE {})

PayloadUnknown(tree, lock, privileged) ==
    IF privileged THEN {} ELSE CannotRead(tree, lock)

-----------------------------------------------------------------------------
(* system_verify(), as root. *)

VERIFY_OK == 0
VERIFY_DRIFT == 1
VERIFY_UNKNOWN == 4

\* The directories os.walk() lists; what it cannot list it passes over.
Listed(tree, p) ==
    \E d \in DirSource :
        /\ Under(d, p)
        /\ \A q \in Path : (q = d \/ Under(d, q)) /\ Under(q, p) =>
               tree[q].kind = "dir" /\ ~tree[q].closed

\* present_under(): what is there and no directory.
PresentUnder(tree) ==
    {p \in Path : Listed(tree, p) /\ tree[p].kind \notin {"missing", "dir"}}

\* os.path.exists(), which a directory that is closed on the way answers no.
Exists(tree, p) ==
    /\ tree[p].kind # "missing"
    /\ \A q \in Path : Under(q, p) => tree[q].kind = "dir" /\ ~tree[q].closed

\* Bug: extra files are not drift.
DriftOfRecorded(tree, lock) ==
    {p \in Expected(lock) :
        \/ ~Exists(tree, p)
        \/ /\ tree[p].kind # "dir" /\ ~tree[p].closed
           /\ tree[p].content # lock.files[p]}

Drift(tree, lock) ==
    {p \in Expected(lock) :
        \/ ~Exists(tree, p)
        \/ /\ tree[p].kind # "dir" /\ ~tree[p].closed
           /\ tree[p].content # lock.files[p]}
    \cup (PresentUnder(tree) \ Expected(lock))

Unchecked(tree, lock) ==
    {p \in Expected(lock) :
        Exists(tree, p) /\ (tree[p].kind = "dir" \/ tree[p].closed)}

\* Drift outranks what could not be read.
Verify(tree, lock) ==
    IF ~Readable(tree, lock) THEN VERIFY_UNKNOWN
    ELSE IF Drift(tree, lock) # {} \/ ~lock.ours THEN VERIFY_DRIFT
    ELSE IF Unchecked(tree, lock) # {} THEN VERIFY_UNKNOWN
    ELSE VERIFY_OK

-----------------------------------------------------------------------------
(* What they promise. *)

\* The tree an install would copy is the one the record lists: nothing more,
\* nothing less, nothing else, all of it readable.
AsRecorded(tree, lock) ==
    /\ Readable(tree, lock) /\ lock.ours
    /\ \A p \in Source : tree[p].kind = IF p \in DirSource THEN "dir" ELSE "file"
    /\ \A p \in Expected(lock) :
           tree[p].kind = "file" /\ tree[p].content = lock.files[p]
    /\ Source \ (DirSource \cup {Lock}) \subseteq Expected(lock)
    /\ \A p \in Path :
           UnderSource(p) => tree[p].kind \in {"missing", "dir"} \/ p \in Expected(lock)
    /\ \A p \in Path :
           p \in Source \/ UnderSource(p) => tree[p].kind = "missing" \/ ~tree[p].closed

\* The check before an install refuses a payload exactly when it is not what
\* its record lists, and what an unprivileged dry run refuses the install
\* refuses; what such a run could not read it says.
\* node/deploy.py:2423-2447.
RefusedExactly(tree, lock) ==
    LET user == PayloadBlockers(tree, lock, FALSE)
    IN  /\ PayloadBlockers(tree, lock, TRUE) = {} <=> AsRecorded(tree, lock)
        /\ user # {} => PayloadBlockers(tree, lock, TRUE) # {}
        /\ user = {} /\ PayloadUnknown(tree, lock, FALSE) = {} =>
               AsRecorded(tree, lock)

\* A payload the install accepts verifies afterwards; and, where there is no
\* link or fifo for it to follow, a tree that verifies is one the install
\* would accept, if it records something of each source.
\* node/deploy.py:4253-4260, 4413-4431.
VerifiedIsAccepted(tree, lock) ==
    /\ PayloadBlockers(tree, lock, TRUE) = {} => Verify(tree, lock) = VERIFY_OK
    /\ /\ Verify(tree, lock) = VERIFY_OK
       /\ \A p \in Path : tree[p].kind \notin {"link", "fifo"}
       /\ \A s \in Source \ {Lock} : \E p \in Expected(lock) : p = s \/ Under(s, p)
       /\ \A p \in Path : tree[p].kind = "dir" => ~tree[p].closed
       => PayloadBlockers(tree, lock, TRUE) = {}
=============================================================================

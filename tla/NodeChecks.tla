----------------------------- MODULE NodeChecks -----------------------------
(***************************************************************************)
(* The deployer's judgements of a node, each in a module of its own, over  *)
(* one set of accounts, names and files: node/deploy.py before, during and *)
(* after an install, and what node/shim/install.sh makes of a startup file.*)
(***************************************************************************)
EXTENDS Integers, Sequences

CONSTANTS
    Uid,         \* user ids, root's among them
    Gid,         \* group ids
    Root,        \* root's user id
    User,        \* some other user's
    SpoolGid,    \* the gid the install asserts on the spool
    OtherGid,    \* another one
    Login,       \* the accounts' names
    Number,      \* ids of the accounts and groups login.defs is about
    Marker,      \* the name of the spool's marker
    Trail,       \* the other names the installer owns in the spool
    Stranger,    \* names it does not
    PayloadPath, \* what may be under the payload's root
    Source,      \* PAYLOAD_SOURCES: what an install copies
    DirSource,   \* those that are directories
    Lock,        \* site.lock.json
    Content,     \* contents of a file
    UserLine     \* lines of a startup file that are not the shim's

PT == INSTANCE PathTrust
TG == INSTANCE TrustedGroups WITH Name <- Login
SS == INSTANCE SpoolScope WITH Reader <- SpoolGid
PF == INSTANCE Preflight
PR == INSTANCE PayloadRecord WITH Path <- PayloadPath
AR == INSTANCE AclReaders
HF == INSTANCE HookFile

\* Ids are numbers; no name in the spool is two things at once; the record is
\* a file that is copied; and nothing a payload may have is above a source.
ASSUME NodeChecksAssumption ==
    /\ Number \subseteq Nat
    /\ Root \in Uid /\ SpoolGid \in Gid
    /\ User # Root /\ OtherGid # SpoolGid
    /\ Marker \notin Trail
    /\ Stranger \cap (Trail \cup {Marker}) = {}
    /\ SS!Self \notin Trail \cup Stranger \cup {Marker}
    /\ Source \subseteq PayloadPath /\ DirSource \subseteq Source
    /\ Lock \in Source \ DirSource
    /\ PayloadPath \subseteq Seq(STRING)
    /\ \A s \in Source, p \in PayloadPath : ~PR!Under(p, s)
=============================================================================

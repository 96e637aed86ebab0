--------------------------- MODULE TrustedGroups ---------------------------
(***************************************************************************)
(* The service groups a site lists, whose write above the spool is         *)
(* accepted only when none of their members is a person: node/deploy.py,   *)
(* read_login_defs() and resolve_trusted_groups().                         *)
(*                                                                         *)
(* A person is an account in the range login.defs gives to ordinary users. *)
(* login.defs is a sequence of assignments, and its numbers are as C's     *)
(* strtol reads them: a form and its digits.                               *)
(***************************************************************************)
EXTENDS Integers, Sequences

CONSTANTS
    Name,       \* the accounts of the node
    Number      \* user and group ids

LOGIN_DEFS_KEYS == {"UID_MIN", "UID_MAX", "GID_MIN"}
Unset == -1

-----------------------------------------------------------------------------
(* login.defs. *)

\* _login_defs_number(): 0x is hexadecimal, a leading 0 octal; a digit the
\* form has not, or no digit, is no number.
Base(form) == CASE form = "0x" -> 16 [] form = "0" -> 8 [] form = "" -> 10

Parses(text) ==
    /\ text.digits # << >>
    /\ \A i \in DOMAIN text.digits : text.digits[i] < Base(text.form)

Value(text) ==
    LET upTo[i \in 0..Len(text.digits)] ==
            IF i = 0 THEN 0
            ELSE upTo[i - 1] * Base(text.form) + text.digits[i]
    IN  upTo[Len(text.digits)]

\* Bug: a value that cannot be read leaves the one before it standing.
AssignIfReadable(found, line) ==
    IF Parses(line.text) THEN [found EXCEPT ![line.key] = Value(line.text)]
                         ELSE found

\* One line of read_login_defs(): a value that cannot be read removes the key.
Assign(found, line) ==
    [found EXCEPT ![line.key] =
        IF Parses(line.text) THEN Value(line.text) ELSE Unset]

\* read_login_defs().
ReadLoginDefs(lines) ==
    LET after[i \in 0..Len(lines)] ==
            IF i = 0 THEN [key \in LOGIN_DEFS_KEYS |-> Unset]
                     ELSE Assign(after[i - 1], lines[i])
    IN  after[Len(lines)]

-----------------------------------------------------------------------------
(* The groups. *)

\* An account: its ids, whether its name resolves, and whether NSS lists it.
\* A name that only a group knows has neither.
Account == [uid : Number, gid : Number, resolves : BOOLEAN, listed : BOOLEAN]

Group == [gid : Number, members : SUBSET Name]

Human(uid, defs) == defs["UID_MIN"] <= uid /\ uid <= defs["UID_MAX"]

\* Bug: only the members the group itself names are looked at.
PeopleNamed(g, accounts, defs) ==
    {n \in g.members : accounts[n].resolves /\ Human(accounts[n].uid, defs)}

\* The people the check finds in a group: supplementary members, and accounts
\* it is the primary group of.
People(g, accounts, defs) ==
    {n \in Name :
        /\ \/ n \in g.members /\ accounts[n].resolves
           \/ accounts[n].listed /\ accounts[n].gid = g.gid
        /\ Human(accounts[n].uid, defs)}

\* resolve_trusted_groups() of one group: whether its write is accepted.
Trusted(g, accounts, lines) ==
    LET defs == ReadLoginDefs(lines)
    IN  /\ \A key \in LOGIN_DEFS_KEYS : defs[key] # Unset
        /\ g.gid < defs["GID_MIN"]
        /\ \A n \in g.members : accounts[n].resolves
        /\ People(g, accounts, defs) = {}

-----------------------------------------------------------------------------
(* What it promises. *)

\* The file's last word on a key, if it is a number.
LastWord(lines, key) ==
    LET said == {i \in DOMAIN lines : lines[i].key = key}
        last == CHOOSE i \in said : \A j \in said : j <= i
    IN  IF said # {} /\ Parses(lines[last].text)
        THEN Value(lines[last].text)
        ELSE Unset

\* A person by the file's last word.
IsPerson(n, accounts, lines) ==
    /\ LastWord(lines, "UID_MIN") <= accounts[n].uid
    /\ accounts[n].uid <= LastWord(lines, "UID_MAX")

\* The members NSS can tell of.
MembersSeen(g, accounts) ==
    g.members \cup {n \in Name : accounts[n].listed /\ accounts[n].gid = g.gid}

\* A group that is accepted has no person among its members, by the last word
\* of a login.defs that says all it must: the range is never guessed.
\* node/deploy.py:1186-1200, and the limit it states at 1106-1116.
AcceptedGroupHasNoPerson(g, accounts, lines) ==
    Trusted(g, accounts, lines) =>
        /\ \A key \in LOGIN_DEFS_KEYS : LastWord(lines, key) # Unset
        /\ \A n \in MembersSeen(g, accounts) : ~IsPerson(n, accounts, lines)
=============================================================================

--------------------------- MODULE UncoveredMounts ---------------------------
(***************************************************************************)
(* The relink's report of mounts that run on their guarded default:         *)
(* node/shim/install.sh, report_uncovered_mounts() and uncovered_report().  *)
(*                                                                          *)
(* A poll reads the mount table and its memory, writes a record for what    *)
(* changed and for what is due, one at a time, and only then renames the    *)
(* new memory into place.  Mounts come and go meanwhile, the unit may be    *)
(* stopped at any record, the node reboots, and a new payload is installed. *)
(*                                                                          *)
(* A mount is its mount point and type, the pair the memory is keyed by;    *)
(* a type outside Fs is cheap by default and never reported.                *)
(***************************************************************************)
EXTENDS SpoolMemory

CONSTANTS
    MountPoint,
    Fs,         \* the types sg_default_class() calls expensive
    MaxStops    \* bound: polls that are stopped before they end

ASSUME UncoveredAssumption ==
    /\ MaxStops \in Nat
    /\ {"cheap", "none"} \cap Fs = {}

Key == MountPoint \X Fs

Memory == [boot : BootId, asserted : Reading, listed : SUBSET Key]
NoMemory == [boot |-> 0, asserted |-> NoReading, listed |-> {}]

Word == {"silent", "expensive", "covered", "unmounted"}

VARIABLES
    \* The node.
    table,      \* what is mounted where
    override,   \* mount points the installed payload has an override for
    boot, up,   \* the current boot, and its uptime
    idle,       \* ticks since the last poll started
    stops,      \* polls stopped so far
    \* The spool.
    file,       \* there is a memory to read
    memory,     \* what it says
    \* One poll.
    pc,
    pinned,     \* it has a new memory to write
    fresh,      \* it compares against nothing
    due,        \* it re-asserts
    prev,       \* the memory it read
    now,        \* the clock it read
    me,         \* the boot id it read
    looked,     \* the mounts its table pass finds uncovered
    new,        \* the memory it writes: what reaches the new file
    headed,     \* that starts with the boot line
    todo,       \* mounts the current loop has still to take
    \* Observation only.
    journal,    \* the last record about each mount, since the boot
    quiet       \* ticks each mount has stood uncovered without a record

node == <<table, override, boot, up, idle, stops>>
spool == <<file, memory>>
poll == <<pinned, fresh, due, prev, now, me, looked, new, headed>>
vars == <<node, spool, pc, poll, todo, journal, quiet>>

Uncovered == {k \in Key : table[k[1]] = k[2] /\ k[1] \notin override}

\* A poll is a process: what it held goes with it.
End == /\ pc' = "idle"
       /\ todo' = {}
       /\ pinned' = FALSE /\ fresh' = FALSE /\ due' = FALSE
       /\ prev' = NoMemory /\ now' = NoReading /\ me' = 0
       /\ new' = NoMemory /\ headed' = FALSE

-----------------------------------------------------------------------------
(***************************************************************************)
(* The node.                                                               *)
(***************************************************************************)
Remount(m) ==
    /\ \E fs \in (Fs \cup {"cheap", "none"}) \ {table[m]} :
         table' = [table EXCEPT ![m] = fs]
    /\ quiet' = [k \in Key |-> IF k[1] = m THEN 0 ELSE quiet[k]]
    /\ UNCHANGED <<override, boot, up, idle, stops, spool, pc, poll, todo,
                   journal>>

\* The timer fires every Period ticks, and a poll is shorter than a tick.
Tick ==
    /\ pc = "idle" /\ idle < Period /\ up < MaxUptime
    /\ up' = up + 1
    /\ idle' = idle + 1
    /\ quiet' = [k \in Key |-> IF k \in Uncovered THEN quiet[k] + 1 ELSE 0]
    /\ UNCHANGED <<table, override, boot, stops, spool, pc, poll, todo, journal>>

\* The journal is on volatile storage.
Reboot ==
    /\ pc = "idle" /\ boot < MaxBoot
    /\ boot' = boot + 1
    /\ up' = 0
    /\ journal' = [k \in Key |-> "silent"]
    /\ UNCHANGED <<table, override, idle, stops, spool, pc, poll, todo, quiet>>

\* --system: the memory goes, where the spool can be pinned.
Install ==
    /\ pc = "idle" /\ "install" \in Faults
    /\ override' \in SUBSET MountPoint
    /\ \E unpinned \in May("spool") :
         /\ file' = (unpinned /\ file)
         /\ memory' = IF unpinned THEN memory ELSE NoMemory
    /\ quiet' = [k \in Key |-> 0]
    /\ UNCHANGED <<table, boot, up, idle, stops, pc, poll, todo, journal>>

-----------------------------------------------------------------------------
(***************************************************************************)
(* A poll.                                                                 *)
(***************************************************************************)
\* Bug: every poll moves the clock.
StampAlways(isFresh, isDue, old, clock) == clock

\* The clock of the new memory: moved by a poll that asserts the whole set.
Stamp(isFresh, isDue, old, clock) ==
    IF isFresh \/ isDue THEN clock ELSE old.asserted

\* Bug: a memory of another boot is believed.
SameBootAlways(mem, id) == TRUE

\* The boot line of the memory against this boot's id.
SameBoot(mem, id) == mem.boot = id

Begin ==
    /\ pc = "idle"
    /\ \E unpinned \in May("spool"), lost \in May("lost"),
          noUptime \in May("uptime"), noBootId \in May("bootid") :
         /\ pinned' = ~unpinned
         /\ me' = IF noBootId THEN 0 ELSE boot
         /\ now' = IF noUptime THEN NoReading ELSE up
         /\ prev' = IF unpinned \/ lost \/ ~file THEN NoMemory ELSE memory
         /\ fresh' = (\/ unpinned \/ lost \/ ~file
                      \/ ~SameBoot(memory, me'))
         /\ due' = ClockDue(prev'.asserted, now')
         /\ looked' = Uncovered
         /\ \E lines \in Reaching(looked'), head \in Reaching({"boot", "asserted"}) :
              /\ headed' = ("boot" \in head /\ pinned')
              /\ new' = [boot |-> me', listed |-> lines,
                         asserted |-> IF "asserted" \in head
                                      THEN Stamp(fresh', due', prev', now')
                                      ELSE NoReading]
    /\ todo' = IF fresh' \/ due' THEN looked' ELSE looked' \ prev'.listed
    /\ pc' = "raise"
    /\ idle' = 0
    /\ UNCHANGED <<table, override, boot, up, stops, spool, journal, quiet>>

\* The pass over the table: a change record, or the marked re-assertion.
Raise(k) ==
    /\ pc = "raise" /\ k \in todo
    /\ journal' = [journal EXCEPT ![k] = "expensive"]
    /\ quiet' = [quiet EXCEPT ![k] = 0]
    /\ todo' = todo \ {k}
    /\ UNCHANGED <<node, spool, pc, poll>>

\* Bug: what a mount is now, and not what the pass listed, decides.
GoneNow == IF pinned /\ ~fresh THEN prev.listed \ Uncovered ELSE {}

\* Bug: the lines of another boot are answered too.
GoneOfAnyBoot == prev.listed \ new.listed

\* What the old memory lists and the new one does not.
Gone == IF pinned /\ ~fresh THEN prev.listed \ new.listed ELSE {}

Turn ==
    /\ pc = "raise" /\ todo = {}
    /\ todo' = Gone
    /\ pc' = "answer"
    /\ UNCHANGED <<node, spool, poll, journal, quiet>>

InTable(m) == table[m] # "none"

\* The pass over the old memory.  The table is read again here.
Answer(k) ==
    /\ pc = "answer" /\ k \in todo
    /\ journal' = [journal EXCEPT ![k] =
                     IF InTable(k[1]) THEN "covered" ELSE "unmounted"]
    /\ todo' = todo \ {k}
    /\ UNCHANGED <<node, spool, pc, poll, quiet>>

\* Bug: the memory is renamed before every answer is written.
CommitEarly ==
    /\ pc = "answer"
    /\ \/ /\ pinned
          /\ file' = headed
          /\ memory' = IF headed THEN new ELSE NoMemory
       \/ /\ ~pinned \/ "rename" \in Faults
          /\ UNCHANGED spool
    /\ End
    /\ UNCHANGED <<node, looked, journal, quiet>>

\* sg_spool_commit(): the new memory replaces the old in one step, or not at
\* all.  One without its boot line replaces it all the same, and reads as none.
Commit ==
    /\ pc = "answer" /\ todo = {}
    /\ \/ /\ pinned
          /\ file' = headed
          /\ memory' = IF headed THEN new ELSE NoMemory
       \/ /\ ~pinned \/ "rename" \in Faults
          /\ UNCHANGED spool
    /\ End
    /\ UNCHANGED <<node, looked, journal, quiet>>

\* The unit's timeout, or a stop; or a relink that refused before it came to
\* its report, or could not read the table.
Stop ==
    /\ stops < MaxStops
    /\ stops' = stops + 1
    /\ idle' = 0
    /\ End
    /\ UNCHANGED <<table, override, boot, up, spool, looked, journal, quiet>>

Init ==
    /\ table \in [MountPoint -> Fs \cup {"cheap", "none"}]
    /\ override = {}
    /\ boot = 1 /\ up = 0 /\ idle = 0 /\ stops = 0
    /\ file = FALSE /\ memory = NoMemory
    /\ pc = "idle" /\ pinned = FALSE /\ fresh = FALSE /\ due = FALSE
    /\ prev = NoMemory /\ now = NoReading /\ me = 0
    /\ looked = {} /\ new = NoMemory /\ headed = FALSE /\ todo = {}
    /\ journal = [k \in Key |-> "silent"]
    /\ quiet = [k \in Key |-> 0]

Next == \/ \E m \in MountPoint : Remount(m)
        \/ Tick
        \/ Reboot
        \/ Install
        \/ Begin
        \/ \E k \in Key : Raise(k) \/ Answer(k)
        \/ Turn
        \/ Commit
        \/ Stop

Spec == Init /\ [][Next]_vars

-----------------------------------------------------------------------------
(***************************************************************************)
(* Properties.                                                             *)
(***************************************************************************)
\* Every variable has its type, and between polls nothing is held.
TypeOK ==
    /\ table \in [MountPoint -> Fs \cup {"cheap", "none"}]
    /\ override \subseteq MountPoint
    /\ boot \in 1 .. MaxBoot /\ up \in Uptime
    /\ idle \in 0 .. Period /\ stops \in 0 .. MaxStops
    /\ file \in BOOLEAN /\ memory \in Memory
    /\ pc \in {"idle", "raise", "answer"}
    /\ pinned \in BOOLEAN /\ fresh \in BOOLEAN /\ due \in BOOLEAN
    /\ prev \in Memory /\ now \in Reading /\ me \in BootId
    /\ looked \subseteq Key /\ todo \subseteq Key
    /\ new \in Memory /\ headed \in BOOLEAN
    /\ pc = "idle" => todo = {} /\ ~pinned
    /\ journal \in [Key -> Word]
    /\ quiet \in [Key -> Nat]

Told == {k \in Key : journal[k] = "expensive"}

\* The journal's promise: what is raised stood when the poll looked, and what
\* is answered did not, whatever stopped, rebooted, failed or was remounted.
Journal == INSTANCE StandingCondition
             WITH Item <- Key, seen <- looked, told <- Told
Promise == Journal!Spec

\* A record is never an answer to a mount the same poll found uncovered.
AnswersAreTrue == pc = "answer" => todo \cap looked = {}

Reported == pc = "answer" /\ todo = {}

\* "Announced on the first poll after it appears": once a poll has reported,
\* the journal's last word on each mount it found uncovered is `expensive`.
AnnouncedAtFirstPoll ==
    Reported => \A k \in looked : journal[k] = "expensive"

\* "The line that asked for a survey gets an answer in the same journal":
\* once a poll with a memory has reported, no mount it did not find uncovered
\* is left with `expensive` as the journal's last word.
AnsweredAtNextPoll == Reported /\ pinned => Told \subseteq looked

\* "The earlier line is answered once": `covered` and `unmounted` follow an
\* `expensive` of the same boot, and no other answer.
AnsweredOnce ==
    [][\A k \in Key : journal'[k] \in {"covered", "unmounted"} /\ journal'[k] # journal[k]
                       => journal[k] = "expensive"]_journal

\* Silence has a horizon: a mount that stands uncovered is spoken of within
\* the cadence rounded up to the next poll, one poll later for each stopped.
SilenceHasHorizon ==
    \A k \in Key : quiet[k] < Interval + Period * (1 + stops)
=============================================================================

------------------------------- MODULE Reaper -------------------------------
(***************************************************************************)
(* Layer 2: the root-run reaper, node/reaper.py run(), polling a node whose *)
(* processes start, block, are orphaned, exit and reuse pids while it runs. *)
(*                                                                          *)
(* A poll is one process started by a timer.  It loads its state, looks,    *)
(* classifies, takes its findings one at a time, under --kill signalling    *)
(* and waiting, appends to the audit trail after each, saves its state and  *)
(* exits with the code the unit reports.  What it does between two points   *)
(* where the world may move (the sleeps of terminate(), each write, its     *)
(* start and its end) is one step.                                          *)
(***************************************************************************)
EXTENDS Classify

CONSTANTS
    Kinds,      \* the kinds of process users start
    Moves,      \* what befalls them, a subset of AllMoves
    KillMode,   \* --kill rather than --report
    MaxKills,   \* [reaper].max_kills
    Faults      \* what may go wrong, a subset of AllFaults

AllFaults == {"spool",  \* the spool is unfit, or a write into it fails
              "state",  \* the state file cannot be read back
              "crash",  \* the unit is stopped in the middle of a poll
              "slices", \* no user slice is visible
              "procs",  \* /proc cannot be read
              "signal", \* kill(2) fails with something else than ESRCH
              "reuse",  \* a pid freed during a poll is reused during it
              "rotate"} \* the trail reaches audit_max_bytes

AllMoves == {"age", "orphan", "block"}

ASSUME ReaperAssumption ==
    /\ Kinds \subseteq Kind
    /\ Moves \subseteq AllMoves
    /\ KillMode \in BOOLEAN
    /\ MaxKills \in Nat
    /\ Faults \subseteq AllFaults

\* The two sentinels logged_actions is keyed by beside the finding keys.
BlindSlices == [verdict |-> "blind", pid |-> 0, gen |-> 0]
BlindProcs == [verdict |-> "procs_blind", pid |-> 0, gen |-> 0]
Sentinel == {BlindSlices, BlindProcs}
NoKey == [verdict |-> "none", pid |-> 0, gen |-> 0]

KILL_DID_NOT_LAND == {"signalled_but_wedged", "signal_failed", "kill_error"}
GoneAction == {"already_gone", "terminated", "killed"}
Action == KILL_DID_NOT_LAND \cup GoneAction
          \cup {"reported", "reported_never_killed", "skipped_kill_cap", "blind"}

\* A record of the trail, and an entry of logged_actions: a key and the
\* action taken.  The rest of a record is detail.
Row == [key : Key \cup Sentinel, action : Action]

EXIT_QUIET == 0
EXIT_ACTIONABLE == 1
EXIT_BLIND == 2
EXIT_KILL_FAILED == 3
EXIT_UNRECORDED == 4

\* The state file: the keys of the last saved poll, the action last logged
\* for each key, and the streak in D of each process.
State == [latched : SUBSET Key, logged : SUBSET Row,
          streak : [Life -> 0 .. OPAQUE_D_POLLS]]

EmptyState == [latched |-> {}, logged |-> {}, streak |-> [life \in Life |-> 0]]

VARIABLES
    \* The node and its disk.
    procs,      \* the process table
    disk,       \* reaper-state.json
    audit,      \* reaper-audit.jsonl
    audit1,     \* reaper-audit.jsonl.1
    \* One poll, in memory.
    pc,         \* where run() is
    mem,        \* `state`, as loaded and then edited
    unrecorded, \* some write failed or was refused: nothing more is written
    found,      \* `findings`
    fresh,      \* `new`
    seen,       \* alive_keys
    pending,    \* the findings the loop has still to take
    cur,        \* the finding being handled, or the sentinel of a blind poll
    action,     \* cur's action
    entries,    \* `entries`: what was decided this poll
    acted,      \* the findings terminate() was called on: `acted` counts them
    \* Observation only: no step reads these to decide anything.
    written,    \* every row ever appended to the trail
    rowsNow,    \* the keys appended this poll
    told,       \* keys some poll saw and failed the unit over
    lastD,      \* lives seen in D by the scan before the last one
    thisD,      \* lives seen in D by the last scan
    blindOpen   \* sentinels recorded since the last poll that could see

node == <<procs>>
files == <<disk, audit, audit1>>
memory == <<mem, unrecorded, found, fresh, seen, pending, cur, action,
            entries, acted>>
history == <<written, rowsNow, told, lastD, thisD, blindOpen>>
vars == <<node, files, pc, memory, history>>

May(fault) == IF fault \in Faults THEN BOOLEAN ELSE {FALSE}

-----------------------------------------------------------------------------
(***************************************************************************)
(* The node.  None of this is the repository's code: it is the kernel and  *)
(* the users, as far as the reaper can tell them apart through /proc.      *)
(* Ageing, reparenting and blocking are read by the scan alone, so they    *)
(* happen between polls; a process may also unblock or exit in any of the  *)
(* places where a poll sleeps or is about to send a first signal.          *)
(***************************************************************************)
Between == pc = "idle"
Moving == pc \in {"idle", "act", "grace", "settle"}

Set(p, proc) == /\ procs' = [procs EXCEPT ![p] = proc]
                /\ UNCHANGED <<files, pc, memory, history>>

Start(p) ==
    /\ Between \/ (Moving /\ "reuse" \in Faults)
    /\ ~procs[p].alive
    /\ procs[p].gen < MaxGen
    /\ \E kind \in Kinds, parent \in Parents :
         Set(p, [alive |-> TRUE, gen |-> procs[p].gen + 1, kind |-> kind,
                 parent |-> parent, old |-> FALSE, inD |-> FALSE,
                 hit |-> "none"])

Age(p) == /\ Between /\ "age" \in Moves
          /\ procs[p].alive /\ ~procs[p].old
          /\ Set(p, [procs[p] EXCEPT !.old = TRUE])

Orphan(p) == /\ Between /\ "orphan" \in Moves
             /\ procs[p].alive /\ procs[p].parent # InitParent
             /\ Set(p, [procs[p] EXCEPT !.parent = InitParent])

Block(p) == /\ Between /\ "block" \in Moves
            /\ procs[p].alive /\ ~procs[p].inD
            /\ Set(p, [procs[p] EXCEPT !.inD = TRUE])

Unblock(p) == /\ Moving
              /\ procs[p].alive /\ procs[p].inD
              /\ Set(p, [procs[p] EXCEPT !.inD = FALSE])

\* A process in an uninterruptible wait does not exit, KILLed or not, until
\* the wait ends; and one that was KILLed may linger (a zombie answers
\* kill(pid, 0) too) before it is gone.
Exit(p) == /\ Moving
           /\ procs[p].alive /\ ~procs[p].inD
           /\ Set(p, [procs[p] EXCEPT !.alive = FALSE])

Node == \E p \in Pid : \/ Start(p)
                       \/ Age(p)
                       \/ Orphan(p)
                       \/ Block(p)
                       \/ Unblock(p)
                       \/ Exit(p)

-----------------------------------------------------------------------------
(***************************************************************************)
(* Writing.  `ok` is whether this write succeeds.                          *)
(***************************************************************************)
\* append_audit() of one row: past the size threshold the file first becomes
\* `.1`, over whatever `.1` held.
AppendAudit(row) ==
    /\ \E rotate \in May("rotate") :
         /\ audit' = IF rotate THEN {row} ELSE audit \cup {row}
         /\ audit1' = IF rotate THEN audit ELSE audit1
    /\ written' = written \cup {row}
    /\ rowsNow' = rowsNow \cup {row.key}

\* Bug: a failed append is logged and the poll goes on writing.
AppendAnyway(row) ==
    \/ AppendAudit(row) /\ UNCHANGED unrecorded
    \/ /\ "spool" \in Faults
       /\ UNCHANGED <<unrecorded, audit, audit1, written, rowsNow>>

\* run()'s record(append_audit, ...): the one door every write goes through.
\* A closed door writes nothing; the first failure closes it.
Append(row) ==
    \/ /\ unrecorded
       /\ UNCHANGED <<unrecorded, audit, audit1, written, rowsNow>>
    \/ /\ ~unrecorded
       /\ AppendAudit(row)
       /\ UNCHANGED unrecorded
    \/ /\ ~unrecorded /\ "spool" \in Faults
       /\ unrecorded' = TRUE
       /\ UNCHANGED <<audit, audit1, written, rowsNow>>

\* Bug: the state is saved past the closed door.
SaveRegardless ==
    /\ pc = "save"
    /\ disk' = mem
    /\ pc' = "return"
    /\ UNCHANGED <<node, audit, audit1, mem, unrecorded, found, fresh, seen,
                   pending, cur, action, entries, acted, history>>

\* record(save_state, ...): a rename, so the state file is old or new.
Save ==
    /\ pc = "save"
    /\ \/ unrecorded /\ UNCHANGED <<disk, unrecorded>>
       \/ ~unrecorded /\ disk' = mem /\ UNCHANGED unrecorded
       \/ /\ ~unrecorded /\ "spool" \in Faults
          /\ unrecorded' = TRUE
          /\ UNCHANGED disk
    /\ pc' = "return"
    /\ UNCHANGED <<node, audit, audit1, mem, found, fresh, seen, pending, cur,
                   action, entries, acted, history>>

\* logged_actions[row.key] = row.action
Remember(logged, row) == {r \in logged : r.key # row.key} \cup {row}

-----------------------------------------------------------------------------
(***************************************************************************)
(* The poll up to its scan.                                                *)
(***************************************************************************)
\* The spool is judged first; an unfit one is neither written nor believed.
Begin ==
    /\ pc = "idle"
    /\ pc' = "look"
    /\ \E unfit \in May("spool"), unreadable \in May("state") :
         /\ unrecorded' = unfit
         /\ mem' = IF unfit \/ unreadable THEN EmptyState ELSE disk
    /\ UNCHANGED <<node, files, found, fresh, seen, pending, cur, action,
                   entries, acted, history>>

Logged(key) == \E row \in mem.logged : row.key = key

\* Bug: a recovery leaves the sentinel of the blind episode in place.
ForgetNothing(sentinels) == mem

\* The sentinels popped from logged_actions.
Forget(sentinels) ==
    [mem EXCEPT !.logged = {row \in mem.logged : row.key \notin sentinels}]

\* No user slice.  An episode already on record is not recorded again, and
\* then nothing is saved either.
NoSlices ==
    /\ pc = "look" /\ "slices" \in Faults
    /\ cur' = BlindSlices
    /\ action' = "blind"
    /\ pc' = IF Logged(BlindSlices) THEN "return" ELSE "blind"
    /\ UNCHANGED <<node, files, mem, unrecorded, found, fresh, seen, pending,
                   entries, acted, history>>

\* Slices, but no process.  The state is saved whether or not a row is due.
NoProcs ==
    /\ pc = "look" /\ "procs" \in Faults
    /\ cur' = BlindProcs
    /\ action' = "blind"
    /\ mem' = Forget({BlindSlices})
    /\ pc' = IF Logged(BlindProcs) THEN "save" ELSE "blind"
    /\ blindOpen' = blindOpen \ {BlindSlices}
    /\ UNCHANGED <<node, files, unrecorded, found, fresh, seen, pending,
                   entries, acted, written, rowsNow, told, lastD, thisD>>

\* _latch_blind(): append, then remember, whatever became of the append.
LatchBlind ==
    /\ pc = "blind"
    /\ LET row == [key |-> cur, action |-> action] IN
         /\ Append(row)
         /\ mem' = [mem EXCEPT !.logged = Remember(@, row)]
    /\ pc' = "save"
    /\ blindOpen' = IF unrecorded' THEN blindOpen ELSE blindOpen \cup {cur}
    /\ UNCHANGED <<node, disk, found, fresh, seen, pending, cur, action,
                   entries, acted, told, lastD, thisD>>

\* Bug: the same process under another verdict is taken for a standing finding.
LatchByLife(findings, latched) ==
    {f \in findings : \A k \in latched : LifeOf(k) # LifeOf(f)}

\* latch(): which findings are new since the last poll that saved.
Latch(findings, latched) == findings \ latched

\* scan_procs(), the streaks, classify() and latch(), over one snapshot.
Scan ==
    /\ pc = "look"
    /\ LET streak == NextStreak(procs, mem.streak)
           findings == Findings(procs, streak)
       IN /\ found' = findings
          /\ pending' = findings
          /\ fresh' = Latch(findings, mem.latched)
          /\ mem' = [latched |-> findings, logged |-> Forget(Sentinel).logged,
                     streak |-> streak]
    /\ seen' = LivesIn(procs)
    /\ pc' = "act"
    /\ lastD' = thisD
    /\ thisD' = {life \in LivesIn(procs) : procs[life[1]].inD}
    /\ blindOpen' = {}
    /\ UNCHANGED <<node, files, unrecorded, cur, action, entries, acted,
                   written, rowsNow, told>>

-----------------------------------------------------------------------------
(***************************************************************************)
(* The loop over the findings.                                             *)
(***************************************************************************)
\* Bug: the loop goes on with the finding it held before.
TakeStale(f) == /\ pc = "act" /\ f \in pending
                /\ \A g \in pending : ~Before(g, f)
                /\ pending' = pending \ {f}
                /\ cur' = cur

\* The loop's next finding.
Take(f) == /\ pc = "act" /\ f \in pending
           /\ \A g \in pending : ~Before(g, f)
           /\ pending' = pending \ {f}
           /\ cur' = f

\* Bugs: signals go on after a failed write; a verdict that names no culprit
\* is acted on; a poll acts on one finding only.
KillableUnrecorded(f) == KillMode /\ f.verdict \notin NEVER_KILL
KillableAll(f) == KillMode /\ ~unrecorded
KillableOnce(f) ==
    KillMode /\ ~unrecorded /\ f.verdict \notin NEVER_KILL /\ acted = {}

Killable(f) == KillMode /\ ~unrecorded /\ f.verdict \notin NEVER_KILL

\* The finding is decided: only the trail and `entries` are left to do.
Decide(outcome) == action' = outcome /\ pc' = "append"

Report(f) ==
    /\ Take(f)
    /\ ~Killable(f)
    /\ Decide(IF f.verdict \in NEVER_KILL THEN "reported_never_killed"
                                          ELSE "reported")
    /\ UNCHANGED <<node, files, mem, unrecorded, found, fresh, seen, entries,
                   acted, history>>

SkipPastCap(f) ==
    /\ Take(f)
    /\ Killable(f)
    /\ Cardinality(acted) >= MaxKills
    /\ Decide("skipped_kill_cap")
    /\ UNCHANGED <<node, files, mem, unrecorded, found, fresh, seen, entries,
                   acted, history>>

\* os.kill(pid, ...) reaches whatever process holds the pid now.
Deliver(p, signal) ==
    procs' = [procs EXCEPT ![p].hit = IF @ = "kill" THEN @ ELSE signal]

\* terminate() begins: SIGTERM, then the grace sleep.
Term(f) ==
    /\ Take(f)
    /\ Killable(f)
    /\ Cardinality(acted) < MaxKills
    /\ acted' = acted \cup {f}
    /\ \/ /\ procs[f.pid].alive
          /\ Deliver(f.pid, "term")
          /\ pc' = "grace"
          /\ UNCHANGED action
       \/ /\ ~procs[f.pid].alive
          /\ Decide("already_gone")
          /\ UNCHANGED node
       \/ /\ "signal" \in Faults /\ procs[f.pid].alive
          /\ Decide("signal_failed")
          /\ UNCHANGED node
    /\ UNCHANGED <<files, mem, unrecorded, found, fresh, seen, entries, history>>

\* After the grace: gone, or SIGKILL and the one-second sleep.
Kill ==
    /\ pc = "grace"
    /\ \/ /\ ~procs[cur.pid].alive
          /\ Decide("terminated")
          /\ UNCHANGED node
       \/ /\ procs[cur.pid].alive
          /\ Deliver(cur.pid, "kill")
          /\ pc' = "settle"
          /\ UNCHANGED action
       \/ /\ "signal" \in Faults /\ procs[cur.pid].alive
          /\ \E outcome \in {"signal_failed", "kill_error"} : Decide(outcome)
          /\ UNCHANGED node
    /\ UNCHANGED <<files, mem, unrecorded, found, fresh, seen, pending, cur,
                   entries, acted, history>>

\* Bug: a SIGKILL that was sent is a kill.
RecheckSkipped ==
    /\ pc = "settle"
    /\ Decide("killed")
    /\ UNCHANGED <<node, files, mem, unrecorded, found, fresh, seen, pending,
                   cur, entries, acted, history>>

\* The re-check terminate() reports from.
Recheck ==
    /\ pc = "settle"
    /\ Decide(IF procs[cur.pid].alive THEN "signalled_but_wedged" ELSE "killed")
    /\ UNCHANGED <<node, files, mem, unrecorded, found, fresh, seen, pending,
                   cur, entries, acted, history>>

\* The finding's row: due when it was signalled, or its action changed.
\* logged_actions is updated in memory whether or not the row got out.
AppendFinding ==
    /\ pc = "append"
    /\ LET row == [key |-> cur, action |-> action] IN
         /\ entries' = entries \cup {row}
         /\ \/ /\ cur \in acted \/ row \notin mem.logged
               /\ Append(row)
               /\ mem' = [mem EXCEPT !.logged = Remember(@, row)]
            \/ /\ ~(cur \in acted \/ row \notin mem.logged)
               /\ UNCHANGED <<mem, unrecorded, audit, audit1, written, rowsNow>>
    /\ pc' = "act"
    /\ cur' = NoKey
    /\ UNCHANGED <<node, disk, found, fresh, seen, pending, action, acted,
                   told, lastD, thisD, blindOpen>>

\* Past the last finding: entries of dead processes that are no longer
\* found are dropped from logged_actions.
Prune ==
    /\ pc = "act" /\ pending = {}
    /\ mem' = [mem EXCEPT !.logged =
                 {row \in @ : row.key \in mem.latched \/ LifeOf(row.key) \in seen}]
    /\ pc' = "save"
    /\ UNCHANGED <<node, files, unrecorded, found, fresh, seen, pending, cur,
                   action, entries, acted, history>>

-----------------------------------------------------------------------------
(***************************************************************************)
(* The end of the poll.                                                    *)
(***************************************************************************)
\* Bug: a wedged process does not count as a failed kill.
FailedKillsButWedged ==
    \E row \in entries : row.action \in KILL_DID_NOT_LAND \ {"signalled_but_wedged"}

\* failed_kills: only a kill attempt has one of these actions.
FailedKills == \E row \in entries : row.action \in KILL_DID_NOT_LAND

\* Bug: a poll that recorded nothing reads green.
ExitCodeSilent ==
    CASE cur \in Sentinel -> EXIT_BLIND
      [] cur \notin Sentinel /\ FailedKills -> EXIT_KILL_FAILED
      [] cur \notin Sentinel /\ ~FailedKills /\ unrecorded -> EXIT_QUIET
      [] OTHER -> IF \E f \in fresh : f.verdict \notin NEVER_KILL
                  THEN EXIT_ACTIONABLE ELSE EXIT_QUIET

ExitCode ==
    CASE cur \in Sentinel -> EXIT_BLIND
      [] cur \notin Sentinel /\ FailedKills -> EXIT_KILL_FAILED
      [] cur \notin Sentinel /\ ~FailedKills /\ unrecorded -> EXIT_UNRECORDED
      [] OTHER -> IF \E f \in fresh : f.verdict \notin NEVER_KILL
                  THEN EXIT_ACTIONABLE ELSE EXIT_QUIET

\* The process is gone, and its memory with it.
Cleared ==
    /\ pc' = "idle"
    /\ mem' = EmptyState
    /\ unrecorded' = FALSE
    /\ found' = {} /\ fresh' = {} /\ seen' = {} /\ pending' = {}
    /\ entries' = {} /\ acted' = {}
    /\ cur' = NoKey
    /\ action' = "reported"
    /\ rowsNow' = {}
    /\ UNCHANGED <<node, files, written, lastD, thisD, blindOpen>>

\* Any exit but 0 fails the unit.
Return == /\ pc = "return"
          /\ Cleared
          /\ told' = IF ExitCode = EXIT_QUIET THEN told ELSE told \cup found

\* TimeoutStartSec=, a stopped unit or a kill from outside: a failed unit
\* too.  Before its scan or its first row a poll has done nothing to undo.
Crash == /\ "crash" \in Faults
         /\ pc \notin {"idle", "look"}
         /\ Cleared
         /\ told' = told \cup found

Poll == \/ Begin
        \/ NoSlices
        \/ NoProcs
        \/ LatchBlind
        \/ Scan
        \/ \E f \in pending : Report(f) \/ SkipPastCap(f) \/ Term(f)
        \/ Kill
        \/ Recheck
        \/ AppendFinding
        \/ Prune
        \/ Save
        \/ Return

Init ==
    /\ procs = [p \in Pid |-> [alive |-> FALSE, gen |-> 0, kind |-> "plain",
                               parent |-> InitParent, old |-> FALSE,
                               inD |-> FALSE, hit |-> "none"]]
    /\ disk = EmptyState
    /\ audit = {} /\ audit1 = {}
    /\ pc = "idle"
    /\ mem = EmptyState
    /\ unrecorded = FALSE
    /\ found = {} /\ fresh = {} /\ seen = {} /\ pending = {}
    /\ cur = NoKey
    /\ action = "reported"
    /\ entries = {} /\ acted = {}
    /\ written = {} /\ rowsNow = {} /\ told = {}
    /\ lastD = {} /\ thisD = {} /\ blindOpen = {}

Next == Poll \/ Crash \/ Node

Spec == Init /\ [][Next]_vars

\* The timer starts every poll, a poll runs to its end, and a process that
\* was sent SIGKILL exits once no wait holds it.  Strong fairness for that
\* exit only because the model lets a process move at some points of a poll
\* and not at others: the kernel does not wait for the reaper.
Dies(p) == procs[p].hit = "kill" /\ Exit(p)

FairSpec == /\ Spec
            /\ WF_vars(Poll)
            /\ \A p \in Pid : SF_vars(Dies(p))

-----------------------------------------------------------------------------
(***************************************************************************)
(* Properties.                                                             *)
(***************************************************************************)
PC == {"idle", "look", "blind", "act", "grace", "settle", "append", "save",
       "return"}

\* Every variable has its type, a running process has a starttime, `cur` is a
\* finding, a sentinel or neither as the place in run() demands, and nothing
\* is found before the scan.
TypeOK ==
    /\ procs \in [Pid -> Proc]
    /\ \A p \in Pid : procs[p].alive => procs[p].gen \in Gen
    /\ disk \in State
    /\ audit \subseteq Row /\ audit1 \subseteq Row
    /\ pc \in PC
    /\ mem \in State
    /\ unrecorded \in BOOLEAN
    /\ found \subseteq Key /\ fresh \subseteq found /\ pending \subseteq found
    /\ seen \subseteq Life
    /\ cur \in Key \cup Sentinel \cup {NoKey}
    /\ pc \in {"grace", "settle", "append"} => cur \in Key
    /\ pc = "blind" => cur \in Sentinel
    /\ pc \in {"idle", "look", "act"} => cur = NoKey
    /\ pc \in {"idle", "look", "blind"} => found = {} /\ entries = {}
    /\ action \in Action
    /\ entries \subseteq Row
    /\ acted \subseteq found
    /\ written \subseteq Row
    /\ rowsNow \subseteq Key \cup Sentinel
    /\ told \subseteq Key
    /\ lastD \subseteq Life /\ thisD \subseteq Life
    /\ blindOpen \subseteq Sentinel

\* "Never a clean result it did not earn": a poll that exits 0 or 1 leaves
\* every finding it made in the trail with the action this poll took, whether
\* it wrote that row or an earlier poll did and this one did not repeat it.
TrailComplete ==
    pc = "return" /\ ExitCode \in {EXIT_QUIET, EXIT_ACTIONABLE} =>
        \A f \in found : \E row \in entries : row.key = f /\ row \in written

\* What the state file remembers as logged was written: a failed append, which
\* is remembered in memory, must not become a reason not to write later.
RememberedIsWritten == disk.logged \subseteq written

\* "Never claim a kill that did not land": a row, or an entry printed to the
\* journal, that says a process is gone names a process that is.
NoFalseDeath ==
    \A row \in written \cup entries :
        row.action \in GoneAction => LifeOf(row.key) \notin LivesIn(procs)

\* A kill may land and go unrecorded only once per poll: the row of each
\* attempt is written before the next attempt, and a failed write ends them.
OneUnrecordedAttempt == Cardinality(acted \ rowsNow) <= 1

\* A process that is no walk of an expensive mount is never sent a signal.
OnlyWalksSignalled == \A p \in Pid : procs[p].hit # "none" => procs[p].kind = "walk"

\* A poll that does not exit 3 leaves no process it signalled running.
GreenMeansGone ==
    pc = "return" /\ ExitCode # EXIT_KILL_FAILED =>
        \A f \in acted : LifeOf(f) \notin LivesIn(procs)

\* The latch quiets a standing finding only after the unit failed over it:
\* a poll that exits 0 saw nothing actionable that no poll was failed for.
NoAlertSwallowed ==
    pc = "return" /\ ExitCode = EXIT_QUIET =>
        \A f \in found : f.verdict \in ActionableVerdict => f \in told

\* An opaque finding names a process in D at this scan and the scan before.
OpaqueIsSustained ==
    \A f \in found : f.verdict = "opaque_traversal" =>
        LifeOf(f) \in lastD /\ LifeOf(f) \in thisD

\* A poll that reports itself blind has a row in the trail for this episode:
\* one written since the last poll that could see.
BlindIsRecorded ==
    pc = "return" /\ cur \in Sentinel /\ ~unrecorded => cur \in blindOpen

WalkPastBudget(p, g) == /\ procs[p].alive /\ procs[p].gen = g
                        /\ procs[p].kind = "walk" /\ procs[p].old
Over(p, g) == ~procs[p].alive \/ procs[p].gen # g

\* Whatever happens to polls, spool and state, a walk past its budget ends or
\* fails the unit.
AlertEventually ==
    \A p \in Pid, g \in Gen :
        WalkPastBudget(p, g) ~>
            Over(p, g) \/ \E f \in told : f.pid = p /\ f.gen = g

\* Under --kill a walk past its budget ends, unless the kernel holds it in D.
WalkEnds ==
    KillMode => \A p \in Pid, g \in Gen :
                    WalkPastBudget(p, g) ~> Over(p, g) \/ procs[p].inD

\* Under --kill a fan-out does not last, however young its members are.
FanoutEnds ==
    KillMode => \A p \in Pid :
        Cardinality(Group(p, procs)) >= FanoutN ~>
            \/ Cardinality(Group(p, procs)) < FanoutN
            \/ \E q \in Group(p, procs) : procs[q].inD
=============================================================================

# walk-blocker in TLA+

walk-blocker keeps filesystem walks (`find`, `du`, `rsync`, `grep -r`, ...) off
the expensive mounts of a shared login node. It has two layers. Layer 1 is a
shell shim in front of the tools, which refuses a walk before it starts. Layer 2
is a root-run poll that looks at the process table and names, or ends, the walks
that got past Layer 1. Around them are an installer, a deployer and a build that
compiles one site's configuration into literals.

This directory models that program. The reference is the source: every
definition is translated from the lines `PROJECT.json` maps it to.

## 1. Inventory

| Component | Source | State it keeps | Operations |
|---|---|---|---|
| Reaper poll (Layer 2) | `node/reaper.py` `run()`, `terminate()`, `latch()`, `_latch_blind()` | one poll's memory: the loaded state, whether a write failed, findings, actions | one oneshot unit per timer tick: judge the spool, load, look, classify, signal, append, save, exit |
| Classification | `node/reaper.py` `classify()`, `effective_parent()`, `traversal_roots()` | none | pure function of one snapshot and the streaks in D |
| Trail and state file | `node/reaper.py` `append_audit()`, `save_state()`, `load_state()`, `open_spool()` | `reaper-audit.jsonl`, `.1`, `reaper-state.json` | append with rotation, replace, read |
| Relink memories | `node/shim/install.sh` `report_uncovered_mounts`, `linked_*`, `sg_clock_due` | `uncovered-mounts.state`, `linked-names.state` | compare what is with what was reported, report changes, re-assert what stands, commit |
| Link farm | `node/shim/install.sh` `link_farm`, `sweep_unclaimed` | the symlinks in front of the tools | link what exists, drop what does not |
| Hook files | `node/shim/install.sh` `block_shape`, `strip_block`, `prepend_block`, `write_hook` | a marked block in each shell startup file | write, strip, verify |
| Deployer | `node/deploy.py` | the prefix, the spool, the units, the timer, the hooks | install, uninstall, verify, each with a dry run |
| Rule table | `src/walk_blocker/search_rules.py` | none | mount policy; argv analysis of each tool |
| Guard (Layer 1) | `node/shim/guard.sh.in` | none | judge one command line, then exec or refuse |
| walk-job | `node/walk-job` | none | check arguments, submit one job |
| Build | `src/walk_blocker/*.py`, `render/*.py` | none | validate a site file, stamp and render a payload |
| Survey, measuring tools, provenance, repository checks | `node/survey.py`, `node/shim/measure*.sh`, `provenance.py`, `tools/` | none | run by hand |

How they interact:

- a systemd timer starts one unit; its `ExecStartPre` is the installer's
  **relink** (bounded, and allowed to fail), its `ExecStart` is the **reaper**;
- the reaper and relink share the **spool**: a directory only root may write,
  judged before every use, holding the trail, the state file and the two memories;
- the reaper and the guard share the **rule table**, the guard as a generated
  shell translation of it. The intended relation is that what Layer 1 refuses
  is what Layer 2 would report;
- the deployer calls the installer's `--system` and `--uninstall`, beside a timer
  that may still be running the relink of the previous install.

What is hard, and what each part must get right (`hazards` in `PROJECT.json`
has the lines):

- **Reaper.** It sleeps between a signal and the check of what the signal did,
  while processes exit, block and hand their pids on. Any of its writes may
  fail, the unit may be stopped anywhere, and three memories outlive it (the
  latch, the actions last logged, the streaks in D), each of which can go stale
  by a failed save. It must not exit clean with a hole in its trail, not say a
  process is gone that is not, not signal what is no walk, not go quiet on an
  alert it never raised.
- **Relink memories.** Report on change and re-assert on a clock that a reboot
  resets, with the report before the commit, while mounts and packages move and
  the unit may be stopped at any record. Every record must be true of the poll's
  own look, and what stands must not fall silent for longer than the cadence,
  whatever was lost, failed or rebooted.
- **Link farm.** It is walked while packages come and go, and a run may be stopped
  half way; what it leaves must be exactly what it linked, and each link it
  removes recorded.
- **Hook files.** The user's lines survive whatever shape the marked block has.
- **Deployer.** An install or uninstall may stop after any step, with the timer
  of an earlier install enabled, and systemd need not have done what it was told.
  What can fire as root must be whole, of one build and root's; a status must be
  true of the node; what was removed must stay removed.
- **Checks before the first command.** A dry run makes them as a user who may not
  look everywhere, an install as root, and the spool may change hands between the
  check and the repair. Who may write a directory, and who reads a file, depend on
  group memberships that the code never asks for.
- **Rule table and guard.** Four scanners step over one argv, each for itself. The
  nearest mount decides, an override beats a default, a depth bound is honoured
  only where the tool honours it; what Layer 1 refuses Layer 2 must not pass over.

## 2. Plan

Modules in the order of what matters most; all of it is done.

| # | Modules | What |
|---|---|---|
| 1 | `Classify`, `Reaper` | Layer 2 with processes, faults and restarts |
| 2 | `ReaperProofs` | type, trail, death, signal, alert, attempt and memory invariants |
| 3 | `SpoolMemory`, `StandingCondition`, `UncoveredMounts`, `CoverageMemory` with `UncoveredMountsProofs`, `CoverageMemoryProofs` | the relink: its link farm and its two memories, the report of mounts implementing an abstract reporter, and how long either may be silent |
| 4 | `Deploy`, `DeployProofs` | install, uninstall and strip, stopped or failing after any command, beside the timer and its service |
| 5 | `Preflight`, `PathTrust`, `TrustedGroups`, `SpoolScope`, `PayloadRecord` | what the deployer asks before its first command |
| 6 | `AclReaders` | who reads what an install leaves behind |
| 7 | `MountPolicy`, `ArgvScan`, `ToolGrammar`, `WalkVerdict` | the rule table against the tools' grammars and the kernel's mounts; both layers' questions of one walk |
| 8 | `HookFile` | the marked block in a startup file, against every short file in a run and every file of lines in the proofs |
| 9 | `NodeChecks`, `Decisions` | the questions of 5, 6 and 8 over one set of accounts, names and files; `Decisions` asks them and those of 7, one case at a time |
| 10 | `OrderFacts`, `NodeChecksProofs`, `ArgvProofs`, `DecisionsProofs` | what the questions promise, for more than the cases |

Every invariant that a run checks is proved; what stays with TLC alone is the liveness
of the reaper (3.4).

Left open: the rotation of the trail (no property looks at the two files that
`AppendAudit` keeps), a cluster of ugrep's with a depth before the letter that takes a
value (6.2), two spool groups in the run of `Deploy` (they take more time than a run
has; the proofs have any number), the generated `sh` program of the guard, and the
build.

## 3. The reaper

### 3.1 What is modelled

`Classify` is `classify()`: pure operators over a process table. A process is a
record of what the arms tell apart. Its `kind` stands for what
`tool_from_argv()` and `traversal_roots()` make of its argv, cwd and mounts;
`old` is `age_s > budget_s`; `parent` is the effective parent; a pid with a
generation is `pid:starttime`. Verdicts, the streak in D, the fan-out grouping
with its leader, and the order of the findings are as in the code.

`Reaper` is `run()` and everything it calls that changes state, one poll after
another without a bound on their number:

| Action | Code | Step |
|---|---|---|
| `Begin` | `run()`, spool gate and `load_state()` | an unfit spool closes every write and gives an empty state |
| `NoSlices`, `NoProcs`, `LatchBlind` | the two blind arms, `_latch_blind()` | an episode is recorded once; what is popped and saved differs between the arms as in the code |
| `Scan` | `scan_procs()` to `latch()` | streaks, findings and what is new, from one snapshot |
| `Report`, `SkipPastCap`, `Term` | the loop's three ways | guarded by `--kill`, the closed door, `NEVER_KILL` and the cap |
| `Kill`, `Recheck` | `terminate()` after each sleep | the actions it returns; signals go to whoever holds the pid |
| `AppendFinding` | the dedup and the append | appended before the next finding is looked at |
| `Prune`, `Save`, `Return` | the end of `run()` | prune, `save_state()`, exit code |

`Append` is the one door (`record()`): closed by an unfit spool or by the first
failed write. `AppendAudit` has the rotation.

Outside the code there are the kernel and the users (`Start`, `Age`, `Orphan`,
`Block`, `Unblock`, `Exit`, `Deliver`) and the unit being stopped (`Crash`).
`procs[p].hit` is the strongest signal the life holding a pid was sent, and the
`history` variables are observation only.

Choices a reader should know:

- *Steps.* What a poll does between two points where the world can be seen to
  move is one step. Ageing, reparenting and blocking are read by the scan alone,
  so they happen between polls. Exits and unblocking also happen wherever a poll
  sleeps or is about to send a first signal. The scan is one snapshot: a process
  that changes while `/proc` is walked is one that changed just before or after.
- *Crash.* A unit stopped before its scan has changed nothing, so `Crash` starts
  after it. Its memory is gone and its unit failed.
- *The trail is a set.* Order and repetition of rows decide nothing. `written` is
  every row ever appended, `audit` and `audit1` what the two files hold.
- *The streak stops at two.* Only `d_polls >= OPAQUE_D_POLLS` is asked of it.
- *Zombies.* A process sent SIGKILL may stay for as long as it likes before it
  exits: `kill(pid, 0)` answers for a zombie too.
- *Left out:* PSI sampling, which ranks users and decides nothing about findings;
  the text of records and of the table; the descriptor checks of `open_spool()`,
  which are one outcome, fit or unfit.
- *Faults* are a constant, so that each run names exactly the faults under which
  its properties are claimed: `spool` (unfit, or a write fails), `state` (the
  state file cannot be read back), `crash`, `slices`, `procs`, `signal` (`kill(2)`
  fails with something else than ESRCH, or `terminate()` raises), `reuse` (a
  pid freed during a poll is taken during it), `rotate`.

### 3.2 Runs that pass

Sizes are distinct states.

| Run | Instance | Shows |
|---|---|---|
| `reaper_faults` | one pid that may be a walk, a broken argv or a leak, two findings at once (`FanoutN = 1`), `--kill`, faults `spool state crash rotate` for ever; 102 000 | types; `TrailComplete`: exit 0 or 1 means every finding is in the trail with this poll's action; `RememberedIsWritten`: the dedup never trusts a row that was not written; `OneUnrecordedAttempt`; `NoAlertSwallowed`: exit 0 means every actionable finding already failed the unit; `OnlyWalksSignalled`; `AlertEventually`: a walk past its budget ends or fails the unit |
| `reaper_pids` | two lives of one pid, walks, opaque and plain processes, `--kill` with a cap of one, both blind arms, faults `reuse signal`; 2.4 M | `NoFalseDeath`: no row or journal entry says gone of a life that runs; `GreenMeansGone`: unless it exits 3, a poll leaves nothing it signalled running; `OpaqueIsSustained`: an opaque finding was in D at this scan and the one before; `BlindIsRecorded` |
| `reaper_kill_progress` | two walks under one parent that block and clear as they like, `--kill`, cap 2; 189 000 | `WalkEnds`, `FanoutEnds` |

*Why these bounds are enough.* The hazards are about one finding's row against
the rows of others, and about one life against the next holder of its pid. One
pid whose process is two findings at once is the smallest case in which a poll
has a second attempt after a failed row; two generations the smallest in which a
pid changes hands. Polls are not bounded, so every sequence of fit, failing,
blind and stopped polls is explored. `MaxGen` bounds the processes that ever
start; `MaxKills` is 1 where the cap should bind, 2 where it should cover all.

*Symmetry* is not used: pids are ordered (findings are taken in pid order, the
lowest leads a fan-out), so they are not interchangeable.

*Fairness.* `WF_vars(Poll)`: the timer starts every poll, and a poll is
sequential code with bounded sleeps. `SF_vars(Dies(p))`: a process sent SIGKILL
exits when it is not in an uninterruptible wait. It is strong because the model
lets processes move at some points of a poll and not at others, so the action is
enabled and disabled by the poll's own steps, which the kernel does not wait
for. Nothing is assumed of unblocking, of users, or of faults ending.
`AlertEventually` therefore holds while every write fails for ever: such a poll
exits 4, and that fails the unit. It is checked with `--kill`, where both a kill and
a failed unit count; that `--report` alerts is `NoAlertSwallowed`, by which a poll
that ends 0 has nothing fresh, without a run of its own.

*A limit of `WalkEnds`.* The cap counts attempts and the findings come in pid
order. With `max_kills = 1` and a walk wedged in D under a lower pid, the walk
behind it is never signalled; with a cap that covers the findings it is. No
document promises more, so this is recorded as a hazard and not a finding.

### 3.3 A run that finds a disagreement

`signal_to_a_reused_pid` checks a sentence of the documentation against what the
code does; the quotes are under `findings` in `PROJECT.json`. "A kill of a process
that was not a walk is a bug", and in its trace a walk exits between the scan and its
turn in the loop, its pid is handed on, and SIGTERM (`reaper.py:1011`) goes to whoever
holds it now. SIGKILL after the grace (`reaper.py:1022`) goes there in the same way, one
step further on.

More were met while modelling and have no run of their own:

- The signal precedes its row. When the row's append fails (`reaper.py:1724`), the
  poll has killed and exits 4, where `docs/operating.md:809` says of exit 4 that "no
  kill was sent". `OneUnrecordedAttempt` is what does hold.
- Two rotations drop the only row of a standing finding (`reaper.py:1333`) and the
  dedup keeps it out, where `docs/operating.md:808-810` has a gap of the trail only
  at exit 4.
- A poll that could not save leaves the older streak, so a process that cleared in
  between is named opaque, where ADR-0020 says "at this poll and the poll before
  it" (`OpaqueIsSustained` with the fault `spool`).
- A recovered poll that could not save leaves the blind sentinel, and the next blind
  episode has no row (`BlindIsRecorded` with `spool`, `slices`).
- A standing finding is appended once, where `docs/operating.md:619` says it "is
  re-logged every poll".

### 3.4 What is proved

`ReaperProofs` is checked by the TLA+ proof system for every value of the
constants that `ClassifyAssumption` and `ReaperAssumption` allow: any pids, any
number of lives, any cap and threshold, every set of kinds, moves and faults.

| Theorem | Property | Along |
|---|---|---|
| `TypeCorrect` | `TypeOK` | inductive as it stands, with the place of `cur` and `found` in it |
| `CleanExitIsRecorded`, `DedupIsSound` | `TrailComplete`, `RememberedIsWritten` | `TrailInv`: while the door is open, what memory remembers is written and every finding is pending, current or entered with a written row; what the disk remembers is written always |
| `ClaimedDeathsAreReal`, `GreenKillsLanded` | `NoFalseDeath`, `GreenMeansGone` | `DeathInv`: an action that says gone is decided only of a life that is over, a life that is over stays over, and an attempt that is neither gone nor failed is still being made |
| `SignalsReachWalks` | `OnlyWalksSignalled` | `SignalInv`, from the one more assumption that `"reuse"` is not a fault: while a pid keeps its holder, a killable finding's pid is a walk or dead. The assumption is needed: `signal_to_a_reused_pid` is its absence |
| `AlertsAreNotSwallowed` | `NoAlertSwallowed` | `AlertInv`: whatever is latched on disk some poll failed over, and whatever this poll holds as not fresh was latched |
| `AttemptsAreRecorded` | `OneUnrecordedAttempt` | `AttemptInv`: while the door is open the only attempt without a row is the one in hand, and behind a closed door none is begun |
| `OpaqueMeansTwoScans`, `BlindEpisodesAreRecorded` | `OpaqueIsSustained`, `BlindIsRecorded` | `SavedInv`, from `EveryPollSaves` (`spool` and `crash` are no faults): the file and the memory know no sentinel of an older episode and no streak of an older scan. 3.3 has what happens without it |

None of these properties is inductive alone: each speaks of `pc = "return"`,
of the disk or of two polls, and the invariants carry it back through the poll to
the step that earned it.

Only model-checked: liveness (`WalkEnds`, `FanoutEnds`, `AlertEventually`), which
is beyond the prover.

## 4. The relink

The unit runs `install.sh --relink` before every reaper poll. `SpoolMemory` has
what its two memories share: the faults, the clock (`sg_uptime_now()`,
`sg_clock_due()`) and the unchecked writing of lines into a new file.

### 4.1 Mounts on their guarded default

`UncoveredMounts` is `report_uncovered_mounts()` and `uncovered_report()`.

| Action | Code | Step |
|---|---|---|
| `Begin` | up to and with the conditions of the table pass | pins the spool or not, reads the memory, compares boots, reads the clock, looks at the table, fixes the new memory |
| `Raise` | `expensive`, or the marked re-assertion | one record for one mount, while the world moves |
| `Turn`, `Answer` | the pass over the old memory | `covered` or `unmounted`, from the table read again |
| `Commit` | `sg_spool_commit()` | the new file replaces the old at once, or not at all |
| `Install` | `--system` | forgets the memory, brings other overrides |
| `Stop` | | a poll stopped anywhere, or one that never comes to its report |
| `Remount`, `Tick`, `Reboot` | | the node; a reboot empties a volatile journal |

`StandingCondition` is the abstract reporter: it looks, raises only what the look
saw, answers only what it did not, and may forget everything at once. `Promise` is
that specification, with the poll's look for `seen` and the mounts whose last
record is `expensive` for `told`.

| Run | Instance | Shows |
|---|---|---|
| `uncovered_faults` | one mount point, two expensive types, two boots, `Interval = 3` and `Period = 2`, every fault but a full disk and an unreadable boot id, one stopped poll; 1.5 M | `Promise`; `SilenceHasHorizon`: a standing mount is spoken of within the cadence rounded up to the next poll, one poll later for each that was stopped |
| `uncovered_answer` | two mounts, two boots, an unreadable uptime; 0.14 M | `AnnouncedAtFirstPoll`, `AnsweredAtNextPoll`, `AnsweredOnce` |
| `full_disk_answers_standing` | a full disk | a disagreement, see 4.3 |

### 4.2 The link farm and what was linked

`CoverageMemory` is `link_farm()` with `sweep_unclaimed()`, and after it
`linked_report()` for a relink or `linked_seed()` for `--system`, both through
`linked_write()`.

| Action | Code | Step |
|---|---|---|
| `Begin`, `Install` | the two arms up to the farm | `--system` removes the memory first and brings another table |
| `Link`, `Drop` | the loop over the table | one name: looked up, linked or unlinked and counted |
| `Sweep` | `sweep_unclaimed()` | one link no table claims |
| `Tell` | the change record | counts what this run unlinked |
| `Unpinned` | `spool_fit`, `in_spool` | no memory: the run ends here |
| `Seed` | `linked_seed()` | the memory becomes what this install linked |
| `Recall` | `linked_report()` | reads the memory; standing set, due records, the new memory, or a reseed |
| `SayDrift`, `SayUnknown` | the two records | |
| `Commit` | the rename | |
| `Package`, `Tick`, `Reboot`, `Stop` | | the node, and a run that ends early |

| Run | Instance | Shows |
|---|---|---|
| `coverage_faults` | two names, two boots, one run stopped or without a spool, every fault but a full disk and an unreadable boot id; 1.5 M | `FarmIsExact`; `UnlinkIsSaid`; `OneRecordPerName`; `HighWater`: a memory that calls itself the install's has forgotten no name; `DriftHasHorizon`: a missing name is counted, or covered by `unknown`, within the cadence rounded up to the next poll |

Choices in both:

- *Time* is in ticks, and a poll is shorter than a tick: the unit's timeout is
  seconds, the cadence hours. `idle < Period` is the timer. The cadence is not a
  multiple of the period in `uncovered_faults` and is in the others.
- *One look.* The pass over the mount table is one snapshot; its records follow one
  by one. A mount that changes during the pass changed just before or after it.
  The farm has no snapshot: every name is looked up when its turn comes.
- *A mount* is its mount point and type, the key of the memory. Mounts stacked on
  one mount point are not modelled.
- *Installs come between polls.* The deployer waits until the timer and the
  service are down before it calls `--system`: `Deploy` has that, and its proof
  (`Phases`) that the units are down while Layer 1 is written.
- *The memory's damage* is `lost`, chosen by each poll that reads: a link, an
  unreadable file, a first line that does not parse. A table without a remembered
  name makes a memory unreadable by the code's own check, which is modelled.
- *A full disk* (`full`) keeps any subset of the lines appended, and may keep
  none. A line cut in two is not modelled.
- *Bounds.* `Interval` of two or three ticks makes due, not due and exactly due distinct,
  `MaxUptime` is past it, two boots are what the boot line tells apart. Two names
  are one that is linked and one that is not; two types on one mount point are a
  mount that changes under one key while the other leaves. One missed run is
  enough, as the horizons count them.

### 4.3 A run that finds a disagreement

`full_disk_answers_standing`: each line of the new memory is appended without a
check, with `set -e` off inside an `if`. Where they cannot be written, the pass
over the old memory does not find a standing mount in the new file and answers
it `covered` in the poll that has just found it uncovered, where
`docs/operating.md:721-722` gives `covered` another meaning.

More divergences were met, and they bound what the passing runs claim:

- `AnsweredAtNextPoll` is checked without `lost`: a mount that leaves while the memory
  is lost is never answered, where ADR-0019:98-100 says a lost memory costs "one
  repeated round of `expensive` lines and nothing else".
- It is checked without `install`: an override reaches a node by an install, which
  removes the memory, so it is never answered `covered`, where
  `docs/operating.md:731` says "the next poll answers with `covered`".
- `AnnouncedAtFirstPoll` is checked without stopped polls: one stopped between an
  answer and the rename leaves a memory that lists what the journal has closed,
  and the mount's return waits for the re-assertion.
- `UnlinkIsSaid` speaks of runs that come to the memory: one stopped between the `rm`
  of a link and the change record leaves no record, and only the re-assertion does.
- `HighWater` is checked without `full`: a memory that kept its first three lines and
  lost a name is believed, since its lines are appended unchecked too. It is smaller
  than a block, so this takes more than a full disk.
- Both horizons are checked with a readable boot id. Without one every boot is
  taken for the same boot, as a comment in the code accepts.

### 4.4 What is proved

For every set of mounts, types and names, every cadence, period and bound.

| Theorem | Property | Along |
|---|---|---|
| `UncoveredMountsProofs!TypeCorrect`, `CoverageMemoryProofs!TypeCorrect` | `TypeOK` | inductive as they stand |
| `JournalIsTrue` | `Promise` | `LookInv`: while a poll runs, its new memory lists its look, what it has to raise is in the look and what it has to answer is not. Each step is then a step of `StandingCondition` or none. Assumes no full disk: `full_disk_answers_standing` is its absence |
| `AnnouncedAtOnce`, `AnswersFollow` | `AnnouncedAtFirstPoll`, `AnsweredOnce` | `AnnounceInv`: what a memory of this boot lists was announced in this boot. From `ReportedInFull`: polls end, renames succeed, boot ids are read |
| `AnsweredOnTime` | `AnsweredAtNextPoll` | `AnswerInv`: what the journal calls standing is listed by the memory. From `NothingLost` |
| `FarmHoldsItsLinks`, `UnlinksAreSaid`, `OneRecordEach` | `FarmIsExact`, `UnlinkIsSaid`, `OneRecordPerName` | `FarmInv`: what stands in the farm beside this run's links is still to be taken or unclaimed, and what it removed it counts. No assumption on faults |
| `MarkNeverFalls` | `HighWater` | `MarkInv`: an install starts the mark anew, and the memory under way carries all of the one it replaces, or calls itself the relink's. Assumes no full disk |
| `SilenceEnds` | `SilenceHasHorizon` | `HorizonInv`: a memory of this boot *vouches* for the mounts it lists, none of which has been quiet for longer than its stamp is old, so a poll that keeps quiet keeps quiet about no silence of a whole cadence. What one poll adds is its wait, and a period for each that was stopped. From `ClockIsTold`: the cadence is not zero and boot ids are read |
| `DriftEnds` | `DriftHasHorizon` | a `HorizonInv` of the same shape over `MarkInv`: a run that is due speaks of every name a memory ever listed, by its link, the change record or the count, and it is the high-water mark that makes the count complete. From `MemoryIsTold`: besides `ClockIsTold`, no full disk |

Every invariant the runs of this part check is proved; there is no liveness in it,
because the horizons count ticks instead.

## 5. The deployer beside the units

### 5.1 What is modelled

`Deploy` is one run after another of `deploy.py --system`, `deploy.py --uninstall`
and `install.sh --uninstall` by hand, an action per command, with the arms of
`install.sh` that they call, beside the timer and its service.

| Action | Code | Step |
|---|---|---|
| `StartInstall`, `StartUninstall`, `StartStrip` | the checks before the first command | refuse with 6 or 5, or begin; what the checks look at is section 6's |
| `Disable`, `Stop` | `systemctl disable --now`, `systemctl stop` | may do all, some or nothing of it; their status is not looked at |
| `ProbeTimer`, `ProbeService`, `ProbeFile` | `_units_are_down()`, `units_are_down()` | the three words that are believed; a run that does not get them ends with 7, 8 or 3 |
| `ClosePrefix`, `RemoveDir`, `CopyEntry`, `RefuseLinks`, `OwnEntries`, `ProvePayload`, `OpenPrefix` | `copy_commands()`, `ownership_commands()`, `unowned_by()` | the payload under a prefix at 0700, proved before it is 0755; what is refused is removed again (5) |
| `CreateSpool`, `LinkFarm`, `WriteHooks`, `VerifyHooks`, `ProveFarm` | `create_spool()`, `install.sh --system`, `unowned_by()` | Layer 1, disarmed; hooks that cannot be proven cost the status (4), not Layer 2; a payload that is no longer root's is 9 |
| `WriteService`, `WriteTimer`, `Reload`, `Enable` | `write_unit()`, `systemctl` | Layer 2, armed last |
| `RecordGrant`, `GrantRead`, `RevokeStale`, `ReportInstall` | `journal_step()` | the drop-in, the grant, the revocation, the worst status |
| `RemoveUnits`, `RemoveDropin`, `RevokeGranted` | `system_uninstall()` | failures are collected |
| `ClaimHooks`, `StripHooks`, `SweepFarm` | `install.sh --uninstall` | disarms for itself in between |
| `Fire`, `Relink`, `Reap` | systemd, the unit's two commands | whenever the timer is up, over whatever is on disk |
| `Crash`, `Reboot` | | at any step; a reboot brings up what is enabled |

A payload is the build it came from, an entry is what is copied as one, and what
may be wrong with an entry is a link, a mode or an owner the install resets, or
something inside that it cannot reset. `Faults`: `systemd` (a command does less
than it says, an answer cannot be read), `cmd` (any other command fails, half done),
`flaw` (the snapshot holds something `unowned_by()` refuses), `hook`, `gap`,
`spool`, `crash`, `reboot`.

### 5.2 Runs

| Run | Instance | Shows |
|---|---|---|
| `deploy` | two builds, the marker and a directory, one group, every fault; 7.5 M | `ArmedIsAccepted`: whatever can fire as root runs over a payload that is whole, of one build and past the ownership check; `StatusIsTrue`: what a status says of both layers is so until the next run; `RemovedStaysRemoved`: after an uninstall that ends 0 no timer, boot or relink brings anything back; `RecordedIsRevoked`: a run that ends 0 has revoked each gid it knew of and does not grant |
| `journal_of_a_group_left_behind` | two groups, crashes | a disagreement: the drop-in is the only record of which gid reads the journal, and it is rewritten before the old gid is revoked (`HeldIsRecorded`) |

*Bounds.* Two builds are an old payload and a new one; a file and a directory are the
two ways of copying, and one entry besides the marker is what is stale while the
marker is new. Runs are not bounded. One group is enough for a grant to be stale, as a
build may not grant; that one group's grant outlives another's needs two, which the
second run has and the first, already minutes long, has no room for. One deployer runs
at a time: the code takes no lock, and its operator is one person.

### 5.3 What is proved

`DeployProofs` has every invariant of `deploy` for any builds, entries, directories
and groups and every set of faults. None is inductive. `IInv` is their conjunction with

- `Phases`: what the deployer's place in its run tells of the units. From the third
  probe to `Enable`, and while the helper strips, nothing is armed, since a timer that
  was said to be stopped starts nothing until it is enabled again;
- `Payload`: between the closing and the opening of the prefix nobody reaches what is
  copied; entry by entry it becomes the new build; and past the opening it is accepted;
- `Status`: what an install has put in place when it comes to each step, and that a
  run that has only disarmed has changed nothing else;
- `Grants`: the drop-in a run found is the one it replaces, and what it recorded is
  what is still to be revoked;
- `Removal`: what an uninstall that has failed at nothing has removed.

Each part is proved from the ones before it, action by action, and gives its property:
`ArmedOverAccepted`, `StatusHolds`, `GrantsAreRevoked`, `RemovedForGood`; `TypeCorrect`
is the first part.

## 6. Questions

Much of the program answers a question from what it is given, with no state of its
own. Each such part has a module of operators, named as the code's functions are, and
beside them a second account of the same matter that is not the code's: the kernel's
permission check, getopt, the mount tree. What the module promises is that the two
agree. `NodeChecks` has the six modules about a node over one set of constants, and
`WalkVerdict` extends the four about a command. `Decisions` asks: its state is a question
and one case of it, and each of its
invariants is a promise over all cases. A case of the questions about commands is an
argv that grows a token at a time.

| Module | Code | Held against | Promise |
|---|---|---|---|
| `PathTrust` | `untrusted_prefix_chain()` and its ACL rules | the kernel's: which account may write a directory, rename an entry of it or take a missing name in it | `AcceptedIsOutOfReach` |
| `TrustedGroups` | `read_login_defs()`, `resolve_trusted_groups()` | the file's last word on each key, as C reads numbers | `AcceptedGroupHasNoPerson` |
| `SpoolScope` | `audit_dir_blockers()`, `spool_mode_repairs()`, `repair_spool()`, `create_spool()` | each other, and the spool that may have come to the name in between | `SpoolIsJudgedAsLeft` |
| `Preflight` | `preflight()`, `system_preview()`, the start of `system_execute()` | the install's own answer over the same node | `DryRunIsEnough` |
| `PayloadRecord` | `payload_blockers()`, `verify_lines()`, `system_verify()` | the tree the record lists | `PayloadIsAsRecorded` |
| `AclReaders` | `_spool_search()`, `spool_read_grants()`, `journal_grant_gaps()` | POSIX ACL evaluation for every membership an account could have | `ReadersAreNamed` |
| `MountPolicy` | `Policy`, `classify_mount()`, `read_mounts()`, `offending_mount()`, `root_depth_allowance()`, `judge_root()` | the directories a walk enumerates, on the kernel's mount tree | `AllowedIsWithinPolicy`, `RefusedForAReason` |
| `ArgvScan` | the profiles and the four scanners: `is_traversal()`, `depth_bound()` with `device_bounded()`, `effective_cwd()`, `roots()` | `ToolGrammar`: one getopt pass, and find's own grammar | `ReadAsTheToolDoes` |
| `WalkVerdict` | `check()` before the tool runs, `traversal_roots()` of the reaper | each other | `BackstopSeesRefused` |
| `HookFile` | `block_shape()`, `strip_block()`, `prepend_block()`, the uninstall of one file | the lines outside closed blocks | `UsersLinesKept` |

| Run | Instance | Shows |
|---|---|---|
| `decisions` | ten tools with up to three tokens of some fifteen each, that is those their scanners tell apart; three mounts in every order with overrides and depths; chains of two directories; a spool with three files; a node with two flaws; a payload with a subdirectory; ACLs over three accounts and two groups; startup files of up to seven lines; 464 000 | the promises above |
| `cheap_mount_inside_expensive` | the mounts alone | a disagreement: the rows of cheap mounts are dropped, so a root on a cheap mount inside an expensive one is judged as a directory of the outer mount, where `docs/alternatives.md:26` has "a cheap mount, which is never judged at all" (`CheapIsFree`) |

`CHECK_DEADLOCK FALSE` there: a case that is complete has no next step.

*Why the cases are enough.* Three tokens hold an option, its value and what comes after, or
a cluster in which one letter takes the rest; that more of them bring nothing new is
proved (6.1). Two mounts besides `/` are a mount inside
another and one beside it; a third level is a second nesting. Two components of a chain
are a strict ancestor and the path, or the last existing directory and a name below it
that is missing or that `lstat()` fails over.
Seven lines hold two blocks and a line of the user's. The instance of `TrustedGroups`
has numerals of one digit, for which octal, decimal and hexadecimal differ by what parses.

### 6.1 What is proved

Every promise of the run, in two steps.

The promises themselves come first, for every input and not for the cases. Those about a
node are in `NodeChecksProofs`, those about an argv in `ArgvProofs`, and those about
mounts and the two layers in the first half of `DecisionsProofs`:

| Theorem | Says | Along |
|---|---|---|
| `AcceptedChain` | `PathTrust!AcceptedIsOutOfReach` for a path of any length, any accounts, modes, ACLs and trusted groups | each component is taken with the one below it; one that `lstat()` fails over is judged as a missing name is, so nobody may exchange it, and nothing is said of what is in it (6.2) |
| `AcceptedGroupIsServices` | `TrustedGroups!AcceptedGroupHasNoPerson` for a `login.defs` of any length with numerals of any size, any group and accounts | `ReadIsLastWord`: what reading line by line leaves of a key is its last word |
| `OnlyOwnIsChanged`, `AcceptedSpoolIsMended` | `SpoolScope!OnlyItsOwn`, `JudgedAsLeft`, for any names in the spool | `Apart`: the names and ids the model calls different are |
| `DryRunForetells` | `Preflight!DryRunIsEnough` for every node and every caller | check by check: what a caller makes of a check that is neither blocked nor unknown is what root makes of it |
| `PayloadIsRefusedExactly`, `AcceptedAndVerifiedAgree` | `PayloadRecord!RefusedExactly`, `VerifiedIsAccepted`, for any tree and any record of its files | `PassedIsAsRecorded` and its converse: a walk comes to every name that has only directories above it, so what it does not report is as recorded |
| `SearchAnswers` | `AclReaders!SearchIsTrue` for every user and group | from a spool that is root's, which the audit refuses otherwise, and one account that no entry names: without it, a condition could be said that nobody meets |
| `ReadersAreNamedOrKnown`, `NoGapLetsTheGroupRead` | `AclReaders!NoUnnamedReader`, `NoGapMeansRead`, for any inodes and journal roots | the kernel's evaluation, by what an account is to an inode |
| `StartupFilesKeepTheirLines` | `HookFile!UsersLinesKept` for a file of any length | where every opening marker is closed before the next, the shape's scan and the strip's agree at every line on whether a block is open, and what the strip drops is what is in one |
| `GetoptTraversal`, `GetoptBounds`, `GetoptRoots` | `ToolGrammar!TraversalIsRead`, `BoundsAreRead`, `RootsAreRead` for every tool with getopt's grammar and an `argv` of any number of tokens, each with a text of any length | `Lockstep`, below |
| `FindIsRead` | the same three for find and bfs | `ScansMeet`, below: either pass of `roots()` may be over before find is |
| `UnboundedWalksAreScoped`, `BoundedWalksKeepAllowances`, `RefusalsHaveACost` | `MountPolicy!UnboundedIsScoped`, `NoneBelowPastItsAllowance`, `RefusedForACost`, for any mount table, overrides and walk | the mounts that hold a path are ordered by length, so the longest is the one it is on; an expensive mount a walk enters holds its root or is below it |
| `OrderIsImmaterial` | `MountPolicy!OrderDecidesNothing` | the verdict is one of the sets of mounts near and below, and only the name in the message is one of their order |
| `BackstopSeesEveryRefusal` | `WalkVerdict!BackstopSeesIt` for any profile, `argv`, directory, mount table and policy | a root Layer 1 refuses with a depth is refused without one, and both layers resolve it alike or Layer 2 cannot resolve it at all |

*Scanners and tools.* A scanner and the tool's own pass are two scans of one `argv`
(`Scan`: the position and what has been read by then, unrolled to the end). Where, from
any two states that are related, either the tool ends with an error or both go on to the
same position and to related states, they end related or the tool does not run: that is
`Lockstep`. Where a scanner stops before the tool, as those of find do at the expression,
`ScansMeet` says the same with a second relation for what it has answered by then. The
relations are the argument. For the bounds it is `SameBounds`: the last depth, the floor
of a range and the device bound are the tool's, and nothing is malformed; for the action
and the base directory, that they are the tool's; for the roots, that what is found, what
is positional and whether a pattern was seen are the roots, operands and pattern read so
far. What is left is one token, by its kind, on either side: a word or `--`
(`BoundsAtOther`), a long option (`BoundsAtLong`), a cluster (`BoundsAtShort`), and so on
for the other scanners.

`GetoptTool` is what the theorems need of a profile (an option takes a value or does not,
sets one thing, and its name begins no other's), `IsToken` what they need of a token: any
word, `--`, any long option with or without a value, and any cluster, but one in which a
digit that is a depth comes before the letter that takes a value (`Legible`, 6.2).
`FindTool` and `IsWord` are the same for find, where a cluster may be anything.
None of this is an assumption on the constants. That all ten profiles of the table are of
the two kinds, and all tokens of the cases are such tokens, is proved (`GrepFits` to
`BfsFits` in `ArgvProofs`, `CaseTokensFit` in `DecisionsProofs`), so `CommandsAreRead` has
no hypothesis but the specification.

`DecisionsProofs` has the run's invariants. `Shape` says what a case is (a table with a
row for `/`, a tree whose entries have directories above them, a sequence of lines) and
is inductive (`CasesAreWellFormed`); each invariant follows from it and the theorem about
its question. `DecisionsAssumption` is what the cases need of the constants: the sets
contain the accounts, names and files that the cases mention, and may contain more,
and the bounds `ArgvLength`, `FileLength` and `MaxDepth` are whatever they are.

`OrderFacts` has what they need of prefixes, least and greatest numbers, and of
recursion. The provers cannot use the library's induction theorems, which have an operator
as a parameter, so induction is stated for sets (`EveryPosition`: a set of positions
that has 0 and with each its successor has all) and recursion for a table of steps
(`StepByStep`: there is a function that starts with the base and makes each position
from the one before). Both are proved from the least element of a set of numbers. With
them what a recursive function computes of a sequence of any length can be proved where
it makes one step per position, as reading a file does, and where it skips positions, as
a scan does: `FromExists` goes down from the end.

### 6.2 What was met while modelling

Divergences that have no run of their own, because the promises above are stated
beside them:

- *A dry run by a user outside the reader group.* `audit_dir_blockers()` walks the
  02750 spool through `unowned_by()`, the walk's error is a finding, and the preview
  refuses (6) what the install accepts; `DryRunIsEnough` says so of `reader` and `root`
  alone. The docstring at `deploy.py:2180-2185` has the spool judged "as the install
  will leave it".
- *A component that `lstat()` fails over.* The docstring of `unstattable_as_me()`
  (`deploy.py:2021-2022`) has "a real I/O error is a fault that must stay a blocker rather
  than be excused as unchecked". `untrusted_prefix_chain()` asks `os.path.lexists()`
  (`deploy.py:1062`), which is false on any `OSError`: over EIO or ESTALE the component
  counts as missing, and the chain is accepted if the directory above is root's alone. Hook
  files, the drop-in and the staging parent have a check of their own that refuses then;
  the unit directory has none. `PathTrust` has such components (`"hidden"`), with any owner;
  `AcceptedIsOutOfReach` speaks of what can be looked at and of the name at which that
  ends, and would not hold of what is behind it.
- *What `install.sh` refuses.* The preview runs its dry run first and says that "the
  install would refuse too" (`deploy.py:741-742`); the install meets that refusal once its
  timer is down. `DryRunIsEnough` excepts it from what the install refuses before its
  first command.
- *A walk that starts at or near the root of an expensive mount.* The docstring of
  `root_depth_allowance()` (`search_rules.py:2680`) says such a walk "walks one mount, so
  that mount's allowance is the whole answer"; another expensive mount may be nested in
  it. `NoneBelowPastItsAllowance` leaves the case out.
- *A depth before a value in one of ugrep's clusters.* The comment at
  `search_rules.py:434-437` has flags with a required value need no entry among the
  letters of `depth_digits`, since `parse_short_cluster()` stops at them. It stops behind
  them: the letter that takes the value is still among those that the gate of
  `search_rules.py:2191` holds against the set, and the digits before it are dropped. Of
  `-9e pat d` the depth bound is 1, ugrep's default, and of `-e pat -9 d` it is 9. The
  model has the gate as the code does; the proofs leave such a token out, and none is
  among the cases.
- *The marker's name.* A root-owned FIFO or directory at `.walk-blocker-spool` passes
  the audit, and `create_spool()` refuses it (5) once the timer is down. `JudgedAsLeft`
  assumes a file or nothing there.
- *`--verify`* does not see a link to a directory that the record does not list, and
  passes over directories it cannot list. `VerifiedIsAccepted` assumes neither.
- *A tool that falls back to the working directory only on a terminal.* The reaper takes
  a stdin it cannot read for no terminal (`reaper.py:699`) and charges no fallback, which
  its comment calls honest; `BackstopSeesRefused` gives both layers the same answer.

## 7. Not modelled

- *The guard's `sh` program* (`guard.sh.in` and the generated tables). What it decides is
  `check()`'s answer, which `WalkVerdict` has; that the translation agrees with the table
  is what the repository's own differential tests are for.
- *`walk-job`*: argument checks in front of one submission.
- *The build* (`config.py`, `stamp`, `render/`): validation of a site file and
  formatting. The one bound it gives Layer 2, the unit's start timeout, is a stop at any
  point in `Reaper`.
- *Survey, measuring tools, provenance, repository checks*: they print measurements or
  compare hashes, and keep no state.
- *Reading the outside world*: `/proc`, `getfacl`, NSS, `systemctl show`. A model begins
  with what was read, or with "cannot be read" where the code tells that apart.
- *Two deployers at once*, stacked mounts, lines cut in two, time in seconds.

## 8. Running it

    tlc -workers 2 -config MCReaperFaults.cfg Reaper
    tlc -workers 2 -config MCReaperReuse.cfg Reaper
    tlc -workers 2 -config MCReaperFanout.cfg Reaper
    tlc -workers 2 -config MCReaperStraySignal.cfg Reaper
    tlc -workers 2 -config MCUncoveredFaults.cfg UncoveredMounts
    tlc -workers 2 -config MCUncoveredAnswer.cfg UncoveredMounts
    tlc -workers 2 -config MCUncoveredFull.cfg UncoveredMounts
    tlc -workers 2 -config MCCoverageFaults.cfg CoverageMemory
    tlc -workers 2 -config MCDeploy.cfg Deploy
    tlc -workers 2 -config MCDeployJournal.cfg Deploy
    tlc -workers 2 -config MCDecisions.cfg Decisions
    tlc -workers 2 -config MCCheapMount.cfg Decisions
    tlapm ReaperProofs.tla

and `tlapm` likewise for `UncoveredMountsProofs`, `CoverageMemoryProofs`, `DeployProofs`,
`OrderFacts`, `NodeChecksProofs`, `ArgvProofs` and `DecisionsProofs`. The last two take
some five minutes each.
`MCReaperStraySignal`, `MCUncoveredFull`, `MCDeployJournal` and `MCCheapMount` end with a
violation.

Each `.cfg` gives its module the constants of one run; `PROJECT.json` lists which
run uses which and what it checks. The definitions commented `Bug:` are the
plausible defects each property is shown to reject, also listed there.

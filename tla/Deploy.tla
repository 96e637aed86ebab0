------------------------------- MODULE Deploy -------------------------------
(***************************************************************************)
(* The deployer beside the units it arms: node/deploy.py, system_execute(),*)
(* journal_step() and system_uninstall(), with the arms of                 *)
(* node/shim/install.sh they call, one action per command.                 *)
(*                                                                         *)
(* An install disarms the timer of the install before it, replaces the     *)
(* payload under a closed prefix, proves what it copied, opens the prefix, *)
(* writes Layer 1 and only then arms the timer.  It may be stopped between *)
(* any two commands, the node may reboot, and a timer that is up fires the *)
(* service whenever it likes, over whatever is on disk.                    *)
(*                                                                         *)
(* One deployer runs at a time: the code takes no lock, and its operator   *)
(* is one person.  Printing, and a dry run, change nothing and are left    *)
(* out.  A payload is the version it was built as.                         *)
(***************************************************************************)
EXTENDS Integers, FiniteSets

CONSTANTS
    Version,    \* the builds an operator may deploy
    Entry,      \* what an install copies under the prefix
    Dir,        \* the entries that are directories
    Marker,     \* the entry that names the install, copied first
    Helper,     \* the directory that holds install.sh
    Gid,        \* the groups a site may name as its spool group
    Faults      \* what may go wrong

ASSUME DeployAssumption ==
    /\ Version \subseteq Nat \ {0}
    /\ Dir \subseteq Entry
    /\ Marker \in Entry \ Dir
    /\ Helper \in Dir

Absent == 0
Content == Version \cup {Absent}

\* A reason unowned_by() gives for an entry: the entry itself is a link, a
\* mode or an owner the install resets, or something it cannot reset.
Flaw == {"none", "link", "mode", "inner"}

Mode == {"install", "uninstall", "strip"}
Interrupted == -1
Command == 1
Exit == {Interrupted, 0, Command, 3, 4, 5, 6, 7, 8, 9, 10}

InstallStep ==
    {"close", "copy", "links", "own", "prove", "open", "spool",
     "farm", "hooks", "verify", "reprove", "service", "timer", "reload",
     "enable", "record", "grant", "revoke", "gaps"}
DisarmStep == {"disable", "stop", "probeTimer", "probeService", "probeFile"}
RemoveStep == {"units", "dropin", "ungrant", "claim", "strip", "sweep"}
Step == {"idle"} \cup InstallStep \cup DisarmStep \cup RemoveStep

VARIABLES
    \* Under the prefix.
    disk,       \* the version of each entry
    flaw,       \* what is wrong with it
    torn,       \* the entries a command left half done
    wide,       \* the prefix is 0755, and not 0700
    \* Layer 1.
    farm,       \* the payload its links point into
    hooks,      \* its blocks in the startup files
    \* Layer 2, in systemd.
    unitFile,   \* the version of each unit file
    enabled,    \* the timer's enablement link
    active,     \* the timer is running
    service,    \* what its service is doing
    \* The journal grant.
    dropin,     \* the gids the drop-in records
    held,       \* the gids that may read the journal
    \* One run of the deployer.
    pc, mode,
    helper,     \* it is install.sh that disarms, and not deploy.py
    version,    \* of the payload it installs
    gid,        \* the spool group of that payload
    grant,      \* that payload grants the journal
    left,       \* entries it has still to copy
    cleared,    \* the target it has just removed, to copy it anew
    unproven,   \* install.sh could not prove a required hook
    stale,      \* gids it has still to revoke
    failed,     \* a step of the removal failed
    rc,         \* its exit status, once it has ended
    claimed,    \* it said that it removed what it copied
    \* Observation only.
    recorded,   \* the gids the drop-in recorded when the run began
    changed     \* what the run has changed so far

payload == <<disk, flaw, torn, wide>>
layer1 == <<farm, hooks>>
units == <<unitFile, enabled, active, service>>
journal == <<dropin, held>>
build == <<mode, version, gid, grant, recorded>>
progress == <<helper, left, cleared, unproven, stale, failed>>
ending == <<rc, claimed>>
vars == <<payload, layer1, units, journal, pc, build, progress, ending,
          changed>>

Unit == {"service", "timer"}

TypeOK ==
    /\ disk \in [Entry -> Content]
    /\ flaw \in [Entry -> Flaw]
    /\ torn \in SUBSET Entry
    /\ wide \in BOOLEAN
    /\ farm \in Content
    /\ hooks \in {"none", "written", "proven"}
    /\ unitFile \in [Unit -> Content]
    /\ enabled \in BOOLEAN
    /\ active \in BOOLEAN
    /\ service \in {"off", "relink", "reaper"}
    /\ dropin \in SUBSET Gid
    /\ held \in SUBSET Gid
    /\ pc \in Step
    /\ mode \in Mode
    /\ helper \in BOOLEAN
    /\ version \in Content
    /\ gid \in Gid
    /\ grant \in BOOLEAN
    /\ left \in SUBSET Entry
    /\ cleared \in SUBSET Entry
    /\ unproven \in BOOLEAN
    /\ stale \in SUBSET Gid
    /\ failed \in BOOLEAN
    /\ rc \in Exit
    /\ claimed \in BOOLEAN
    /\ recorded \in SUBSET Gid
    /\ changed \in SUBSET {"payload", "units"}

-----------------------------------------------------------------------------
(* What the properties say of the node. *)

\* Every entry under the prefix is of one build, and none is half written.
WholeAt(v) == (\A e \in Entry : disk[e] = v) /\ torn = {}
Whole == \E v \in Version : WholeAt(v)
Sound == \A e \in Entry : flaw[e] = "none"

\* Root may run what is there: whole, and past the ownership check.
Accepted == Whole /\ Sound

Armed == enabled \/ active \/ service # "off"

Init ==
    /\ disk = [e \in Entry |-> Absent]
    /\ flaw = [e \in Entry |-> "none"]
    /\ torn = {}
    /\ wide = FALSE
    /\ farm = Absent
    /\ hooks = "none"
    /\ unitFile = [u \in Unit |-> Absent]
    /\ enabled = FALSE
    /\ active = FALSE
    /\ service = "off"
    /\ dropin = {}
    /\ held = {}
    /\ pc = "idle"
    /\ mode = "install"
    /\ helper = FALSE
    /\ version = Absent
    /\ gid \in Gid
    /\ grant = FALSE
    /\ left = {}
    /\ cleared = {}
    /\ unproven = FALSE
    /\ stale = {}
    /\ failed = FALSE
    /\ rc = Interrupted
    /\ claimed = FALSE
    /\ recorded = {}
    /\ changed = {}

-----------------------------------------------------------------------------
(* How a run ends, and how it begins. *)

node == <<payload, layer1, units, journal>>

\* A run that ends with status c leaves nothing of its own behind.
Ends(c) ==
    /\ pc' = "idle"
    /\ rc' = c
    /\ helper' = FALSE
    /\ left' = {}
    /\ cleared' = {}
    /\ unproven' = FALSE
    /\ stale' = {}
    /\ failed' = FALSE

End(c) == Ends(c) /\ UNCHANGED claimed

\* The next command of the same run, which remembers what it knew.
Goto(step) == pc' = step /\ UNCHANGED <<progress, ending>>

\* deploy.py --system.  preflight() and stage_payload() refuse before the
\* first command (6), or accept the node and the snapshot of a payload.
StartInstall ==
    /\ pc = "idle"
    /\ mode' = "install"
    /\ version' \in Version
    /\ gid' \in Gid
    /\ grant' \in BOOLEAN
    /\ recorded' = dropin
    /\ claimed' = FALSE
    /\ \/ /\ pc' = "disable"
          /\ rc' = Interrupted
       \/ /\ pc' = "idle"
          /\ rc' = 6
    /\ UNCHANGED <<node, progress>>

\* uninstall_helper(): the deployed install.sh is there, and root's alone.
HelperFit ==
    disk[Helper] # Absent /\ Helper \notin torn /\ flaw[Helper] = "none"

\* What the marker names is installed; what removes it may be unfit.
Marked == disk[Marker] # Absent
Unhelped == Marked /\ ~HelperFit

\* deploy.py --uninstall.  It refuses (6) without the marker, over another
\* configuration and over a path or drop-in it may not read, then (5) without
\* a helper it can trust; the gids to revoke are read before any command.
StartUninstall ==
    /\ pc = "idle"
    /\ mode' = "uninstall"
    /\ recorded' = dropin
    /\ claimed' = FALSE
    /\ \/ /\ Marked
          /\ HelperFit
          /\ pc' = "disable"
          /\ rc' = Interrupted
          /\ stale' = dropin
       \/ /\ pc' = "idle"
          /\ rc' = 6
          /\ UNCHANGED stale
       \/ /\ Unhelped
          /\ pc' = "idle"
          /\ rc' = 5
          /\ UNCHANGED stale
    /\ UNCHANGED <<node, version, gid, grant, helper, left, cleared, unproven,
                   failed>>

\* install.sh --uninstall by hand, from the deployed copy.
StartStrip ==
    /\ pc = "idle"
    /\ HelperFit
    /\ mode' = "strip"
    /\ recorded' = dropin
    /\ claimed' = FALSE
    /\ rc' = Interrupted
    /\ pc' = "claim"
    /\ helper' = TRUE
    /\ UNCHANGED <<node, version, gid, grant, left, cleared, unproven, stale,
                   failed>>

-----------------------------------------------------------------------------
(* Both directions disarm first, and believe only what systemd says. *)

\* systemctl disable --now of the timer.  Its status is not looked at: it may
\* do all of it, stop the timer and leave its link, or do nothing.
Disable ==
    /\ pc = "disable"
    /\ \/ enabled' = FALSE /\ active' = FALSE
       \/ /\ "systemd" \in Faults
          /\ active' \in {active, FALSE}
          /\ UNCHANGED enabled
    /\ Goto("stop")
    /\ UNCHANGED <<payload, layer1, journal, build, unitFile, service>>

\* systemctl stop of the service.
Stop ==
    /\ pc = "stop"
    /\ \/ service' = "off"
       \/ "systemd" \in Faults /\ UNCHANGED service
    /\ Goto("probeTimer")
    /\ UNCHANGED <<payload, layer1, journal, build, unitFile, enabled,
                   active>>

\* Bug: the usage status.
StillUpUsage == 2

\* What a unit that may still fire ends the run with: deploy.py's 7, or the
\* helper's 3, which deploy.py --uninstall reports as 8.
StillUp == IF ~helper THEN 7 ELSE IF mode = "strip" THEN 3 ELSE 8

\* Bug: a relink that is "activating" is not "active", so it is down.
ServiceReadsInactive == service # "reaper"

\* Bug: a timer that is stopped is taken for one that is disabled.
FileReadsStopped == ~active

\* _units_are_down() and units_are_down(): the word of the timer, the word of
\* the service, then the timer's enablement.  An answer that cannot be read
\* is not one that says down.
TimerReadsDown == ~active
ServiceReadsDown == service = "off"
FileReadsDown == ~enabled

Probe(step, down, next) ==
    /\ pc = step
    /\ \/ down /\ Goto(next)
       \/ ~down /\ End(StillUp)
       \/ "systemd" \in Faults /\ End(StillUp)
    /\ UNCHANGED <<node, build>>

AfterProbes ==
    IF helper THEN "strip" ELSE IF mode = "install" THEN "close" ELSE "units"

ProbeTimer == Probe("probeTimer", TimerReadsDown, "probeService")
ProbeService == Probe("probeService", ServiceReadsDown, "probeFile")
ProbeFile == Probe("probeFile", FileReadsDown, AfterProbes)

-----------------------------------------------------------------------------
(* Install: the payload, under a closed prefix. *)

\* A command run with check=True that fails ends the run with its status.
CommandFails ==
    /\ "cmd" \in Faults
    /\ End(Command)

\* install -d -m 0700 of the prefix.
ClosePrefix ==
    /\ pc = "close"
    /\ \/ /\ wide' = FALSE
          /\ pc' = "copy"
          /\ left' = Entry
          /\ UNCHANGED <<helper, cleared, unproven, stale, failed, ending>>
       \/ CommandFails /\ UNCHANGED wide
    /\ UNCHANGED <<disk, flaw, torn, layer1, units, journal, build>>

\* The marker is copied before the code it describes.
Turn(e) == e \in left /\ (Marker \in left => e = Marker)

\* What a copy brings with it, where the snapshot held it.
Brings == IF "flaw" \in Faults THEN Flaw ELSE {"none"}

\* rm -rf of a directory entry, before it is copied anew; a removal that
\* fails may have taken part of it, and ends the run.
RemoveDir(e) ==
    /\ pc = "copy"
    /\ Turn(e)
    /\ e \in Dir \ cleared
    /\ \/ /\ disk' = [disk EXCEPT ![e] = Absent]
          /\ flaw' = [flaw EXCEPT ![e] = "none"]
          /\ torn' = torn \ {e}
          /\ cleared' = {e}
          /\ UNCHANGED <<pc, helper, left, unproven, stale, failed, ending>>
       \/ /\ CommandFails
          /\ torn' = torn \cup {e}
          /\ UNCHANGED <<disk, flaw>>
    /\ UNCHANGED <<wide, layer1, units, journal, build>>

\* cp -a of a directory: into a target that is still there it copies beneath,
\* and leaves what was there.  install of a file replaces it.
CopyEntry(e) ==
    /\ pc = "copy"
    /\ Turn(e)
    /\ e \in Dir => e \in cleared
    /\ disk' = [disk EXCEPT ![e] =
                    IF e \in Dir /\ @ # Absent THEN @ ELSE version]
    /\ \/ /\ \E f \in Brings : flaw' = [flaw EXCEPT ![e] = f]
          /\ torn' = torn \ {e}
          /\ left' = left \ {e}
          /\ cleared' = {}
          /\ pc' = IF left = {e} THEN "links" ELSE "copy"
          /\ UNCHANGED <<helper, unproven, stale, failed, ending>>
       \/ /\ CommandFails
          /\ torn' = torn \cup {e}
          /\ UNCHANGED flaw
    /\ UNCHANGED <<wide, layer1, units, journal, build>>

\* _remove_installed_entries(): every entry, each removal on its own; what
\* could not be removed is still there, and the caller is told.
RemoveEntries(kept) ==
    /\ disk' = [e \in Entry |-> IF e \in kept THEN disk[e] ELSE Absent]
    /\ flaw' = [e \in Entry |-> IF e \in kept THEN flaw[e] ELSE "none"]
    /\ torn' = torn \cap kept

Kept == IF "cmd" \in Faults THEN SUBSET Entry ELSE {{}}

\* The status 5 of a payload that is refused once it is on disk; the later one
\* (mayClaim) also says that nothing is left, when nothing is.
Refuse(mayClaim) ==
    \E kept \in Kept :
        /\ RemoveEntries(kept)
        /\ claimed' = (mayClaim /\ kept \cap {e \in Entry : disk[e] # Absent} = {})
        /\ Ends(5)

\* Entries that are links would lead the recursive chmod out of the prefix.
RefuseLinks ==
    /\ pc = "links"
    /\ IF \E e \in Entry : flaw[e] = "link"
       THEN Refuse(FALSE)
       ELSE Goto("own") /\ UNCHANGED <<disk, flaw, torn>>
    /\ UNCHANGED <<wide, layer1, units, journal, build>>

\* ownership_commands(): owner and mode of the entries; what is not an owner
\* or a mode stays.
Reset(f) == IF f = "mode" THEN "none" ELSE f

OwnEntries ==
    /\ pc = "own"
    /\ \/ /\ flaw' = [e \in Entry |-> Reset(flaw[e])]
          /\ Goto("prove")
       \/ CommandFails /\ UNCHANGED flaw
    /\ UNCHANGED <<disk, torn, wide, layer1, units, journal, build>>

\* Bug: only what is the entry itself is looked at, not what is in it.
OffendsAtTop == \E e \in Entry : flaw[e] \in {"link", "mode"}

\* unowned_by() over the prefix, before anything is wired to it.
Offends == ~Sound

ProvePayload ==
    /\ pc = "prove"
    /\ IF Offends
       THEN Refuse(TRUE)
       ELSE Goto("open") /\ UNCHANGED <<disk, flaw, torn>>
    /\ UNCHANGED <<wide, layer1, units, journal, build>>

\* chmod 0755 of the prefix.
OpenPrefix ==
    /\ pc = "open"
    /\ \/ wide' = TRUE /\ Goto("spool")
       \/ CommandFails /\ UNCHANGED wide
    /\ UNCHANGED <<disk, flaw, torn, layer1, units, journal, build>>

\* create_spool(), which refuses what has taken the spool's name since
\* preflight() judged it.
CreateSpool ==
    /\ pc = "spool"
    /\ Goto("farm") \/ ("spool" \in Faults /\ End(5))
    /\ UNCHANGED <<node, build>>

-----------------------------------------------------------------------------
(* Install: Layer 1, by install.sh --system from the deployed copy. *)

\* link_farm().  A refusal or a failure of install.sh leaves the farm as it
\* was or half done, and the timer disabled.
LinkFarm ==
    /\ pc = "farm"
    /\ \/ /\ farm' = disk[Helper]
          /\ Goto("hooks")
       \/ CommandFails /\ UNCHANGED farm
    /\ UNCHANGED <<payload, units, journal, build, hooks>>

\* write_hook() of the required hooks.
WriteHooks ==
    /\ pc = "hooks"
    /\ \/ hooks' = "written" /\ Goto("verify")
       \/ CommandFails /\ UNCHANGED hooks
    /\ UNCHANGED <<payload, units, journal, build, farm>>

\* verify_hooks(): a hook that cannot be proven is install.sh's exit 4, which
\* costs the install its status and not its Layer 2.
VerifyHooks ==
    /\ pc = "verify"
    /\ pc' = "reprove"
    /\ \/ hooks' = "proven" /\ UNCHANGED unproven
       \/ "hook" \in Faults /\ unproven' = TRUE /\ UNCHANGED hooks
    /\ UNCHANGED <<payload, units, journal, build, farm,
                   helper, left, cleared, stale, failed, ending>>

\* unowned_by() again, over the link directory install.sh has made.
ProveFarm ==
    /\ pc = "reprove"
    /\ \/ ~Offends /\ Goto("service")
       \/ (Offends \/ "flaw" \in Faults) /\ End(9)
    /\ UNCHANGED <<node, build>>

-----------------------------------------------------------------------------
(* Install: Layer 2, armed last. *)

\* write_unit(), the service and then the timer; an error is uncaught.
WriteUnit(unit, next) ==
    /\ pc = unit
    /\ \/ unitFile' = [unitFile EXCEPT ![unit] = version] /\ Goto(next)
       \/ CommandFails /\ UNCHANGED unitFile
    /\ UNCHANGED <<payload, layer1, journal, build, enabled, active,
                   service>>

WriteService == WriteUnit("service", "timer")
WriteTimer == WriteUnit("timer", "reload")

\* systemctl daemon-reload.
Reload ==
    /\ pc = "reload"
    /\ Goto("enable") \/ CommandFails
    /\ UNCHANGED <<node, build>>

\* systemctl enable --now; one that fails may have enabled the timer.
Enable ==
    /\ pc = "enable"
    /\ \/ enabled' = TRUE /\ active' = TRUE /\ Goto("record")
       \/ CommandFails /\ enabled' \in BOOLEAN /\ UNCHANGED active
    /\ UNCHANGED <<payload, layer1, journal, build, unitFile, service>>

-----------------------------------------------------------------------------
(* journal_step(): who may read the journal, after the timer is armed. *)

Want == IF grant THEN {gid} ELSE {}

\* A failed command of this step has the status the hooks leave it.
JournalFails == "cmd" \in Faults /\ End(IF unproven THEN 4 ELSE Command)

\* Bug: with the grant off, the drop-in is removed and nothing is revoked.
StaleIfGranting == IF grant THEN dropin \ Want ELSE {}

\* What the earlier drop-in recorded and this build does not grant.
Stale == dropin \ Want

\* It is to be revoked; then the drop-in is rewritten, which is no command
\* and fails as an error of its own, or removed with the grant off.
RecordGrant ==
    /\ pc = "record"
    /\ \/ /\ dropin' = Want
          /\ stale' = Stale
          /\ pc' = IF grant THEN "grant" ELSE "revoke"
          /\ UNCHANGED <<helper, left, cleared, unproven, failed, ending>>
       \/ grant /\ CommandFails /\ UNCHANGED dropin
       \/ ~grant /\ dropin # {} /\ JournalFails /\ UNCHANGED dropin
    /\ UNCHANGED <<payload, layer1, units, build, held>>

\* systemd-tmpfiles --create of the drop-in.
GrantRead ==
    /\ pc = "grant"
    /\ \/ held' = held \cup {gid} /\ Goto("revoke")
       \/ /\ "gap" \in Faults
          /\ UNCHANGED held
          /\ Goto("revoke")
       \/ JournalFails /\ UNCHANGED held
    /\ UNCHANGED <<payload, layer1, units, build, dropin>>

\* journal_revoke_command() under each root.
RevokeStale ==
    /\ pc = "revoke"
    /\ \/ held' = held \ stale /\ Goto("gaps")
       \/ stale # {} /\ JournalFails /\ UNCHANGED held
    /\ UNCHANGED <<payload, layer1, units, build, dropin>>

\* Bug: the journal's status hides the hooks'.
InstallStatusByOrder ==
    IF grant /\ gid \notin held THEN 10 ELSE IF unproven THEN 4 ELSE 0

\* journal_grant_gaps(), and the worst status of the run: hooks that could
\* not be proven before a grant that did not land.
InstallStatus ==
    IF unproven THEN 4 ELSE IF grant /\ gid \notin held THEN 10 ELSE 0

ReportInstall ==
    /\ pc = "gaps"
    /\ End(InstallStatus)
    /\ UNCHANGED <<node, build>>

-----------------------------------------------------------------------------
(* Uninstall: the units, the grant, then Layer 1 by the deployed helper. *)

\* rm -f of both unit files and daemon-reload, whose failures are collected.
RemoveUnits ==
    /\ pc = "units"
    /\ \E kept \in IF "cmd" \in Faults THEN SUBSET Unit ELSE {{}} :
         /\ unitFile' = [u \in Unit |-> IF u \in kept THEN unitFile[u] ELSE Absent]
         /\ failed' \in {kept # {}, "cmd" \in Faults}
    /\ pc' = IF stale = {} THEN "claim" ELSE "dropin"
    /\ UNCHANGED <<payload, layer1, journal, build, enabled, active,
                   service, helper, left, cleared, unproven, stale, ending>>

\* rm -f of the drop-in whose gids were read.
RemoveDropin ==
    /\ pc = "dropin"
    /\ pc' = "ungrant"
    /\ \/ dropin' = {} /\ UNCHANGED failed
       \/ "cmd" \in Faults /\ failed' = TRUE /\ UNCHANGED dropin
    /\ UNCHANGED <<payload, layer1, units, build, held, helper, left,
                   cleared, unproven, stale, ending>>

RevokeGranted ==
    /\ pc = "ungrant"
    /\ pc' = "claim"
    /\ \/ held' = held \ stale /\ UNCHANGED failed
       \/ "cmd" \in Faults /\ failed' = TRUE /\ UNCHANGED held
    /\ UNCHANGED <<payload, layer1, units, build, dropin, helper, left,
                   cleared, unproven, stale, ending>>

\* install.sh --uninstall: each hook file is judged before the units go down,
\* and a refusal (3) ends it with nothing stripped.
ClaimHooks ==
    /\ pc = "claim"
    /\ \/ /\ pc' = "disable"
          /\ helper' = TRUE
          /\ UNCHANGED <<left, cleared, unproven, stale, failed, ending>>
       \/ "cmd" \in Faults /\ End(IF mode = "strip" THEN 3 ELSE 8)
    /\ UNCHANGED <<node, build>>

\* strip_block(), or a file left alone over a marker that does not close.
StripHooks ==
    /\ pc = "strip"
    /\ pc' = "sweep"
    /\ \/ hooks' = "none" /\ UNCHANGED failed
       \/ /\ "hook" \in Faults
          /\ hooks # "none"
          /\ failed' = TRUE
          /\ UNCHANGED hooks
    /\ UNCHANGED <<payload, units, journal, build, farm,
                   helper, left, cleared, unproven, stale, ending>>

\* sweep_unclaimed() and rmdir, then the statuses: 8 over a hook that is
\* left, and deploy.py's 8 over any failure it collected.
SweepFarm ==
    /\ pc = "sweep"
    /\ farm' = Absent
    /\ End(IF failed THEN 8 ELSE 0)
    /\ UNCHANGED <<payload, units, journal, build, hooks>>

-----------------------------------------------------------------------------
(* The node beside the deployer. *)

\* A timer that is up starts the service, whose two commands then run.
Fire ==
    /\ active
    /\ service = "off"
    /\ service' = "relink"
    /\ UNCHANGED <<payload, layer1, journal, unitFile, enabled, active,
                   pc, build, progress, ending>>

\* install.sh --relink, which refuses a copy that is not root's alone; its
\* refusal does not keep the reaper from running.
Relink ==
    /\ service = "relink"
    /\ service' = "reaper"
    /\ farm' = IF HelperFit THEN disk[Helper] ELSE farm
    /\ UNCHANGED <<payload, hooks, journal, unitFile, enabled,
                   active, pc, build, progress, ending>>

Reap ==
    /\ service = "reaper"
    /\ service' = "off"
    /\ UNCHANGED <<payload, layer1, journal, unitFile, enabled, active,
                   pc, build, progress, ending>>

\* The deployer is killed.
Crash ==
    /\ "crash" \in Faults
    /\ pc # "idle"
    /\ End(Interrupted)
    /\ UNCHANGED <<node, build>>

\* At a boot an enabled timer whose units are there comes up.
Reboot ==
    /\ "reboot" \in Faults
    /\ active' = (enabled /\ \A u \in Unit : unitFile[u] # Absent)
    /\ service' = "off"
    /\ IF pc = "idle" THEN UNCHANGED <<pc, progress, ending>>
                      ELSE End(Interrupted)
    /\ UNCHANGED <<payload, layer1, journal, unitFile, enabled, build>>

Disarm == Disable \/ Stop \/ ProbeTimer \/ ProbeService \/ ProbeFile

Install ==
    \/ StartInstall \/ ClosePrefix
    \/ \E e \in Entry : RemoveDir(e) \/ CopyEntry(e)
    \/ RefuseLinks \/ OwnEntries \/ ProvePayload \/ OpenPrefix \/ CreateSpool
    \/ LinkFarm \/ WriteHooks \/ VerifyHooks \/ ProveFarm
    \/ WriteService \/ WriteTimer \/ Reload \/ Enable
    \/ RecordGrant \/ GrantRead \/ RevokeStale \/ ReportInstall

Uninstall ==
    \/ StartUninstall \/ StartStrip \/ RemoveUnits \/ RemoveDropin
    \/ RevokeGranted \/ ClaimHooks \/ StripHooks \/ SweepFarm

Node == Fire \/ Relink \/ Reap \/ Crash \/ Reboot

\* What a run has changed of the payload and of the unit files.
Observe ==
    LET earlier == IF pc = "idle" THEN {} ELSE changed
    IN  changed' = earlier
            \cup (IF payload' # payload THEN {"payload"} ELSE {})
            \cup (IF unitFile' # unitFile THEN {"units"} ELSE {})

Deployer == (Disarm \/ Install \/ Uninstall) /\ Observe

Next == Deployer \/ (Node /\ UNCHANGED changed)

Spec == Init /\ [][Next]_vars

-----------------------------------------------------------------------------
(* Properties. *)

\* Whatever can fire as root runs under a prefix that users can reach, and a
\* prefix that users can reach holds a payload that is whole, of one build and
\* past the ownership check: an install stopped after any of its commands, and
\* a node that reboots there, leave nothing armed over what was not accepted.
\* node/deploy.py:3566-3572 and 3593-3601.
ArmedIsAccepted ==
    /\ Armed => wide
    /\ wide => Accepted

Ended(m, codes) == pc = "idle" /\ mode = m /\ rc \in codes

\* What an install's status says is so, and stays so until the next run: 0, 4
\* and 10 all have Layer 2 armed over the new payload with the farm in it, and
\* only 4 lets the hooks be unproven; 7 and 6 leave the payload and the units
\* of the install before; 9 has written no unit; and a payload that 5 says it
\* removed is gone.  node/deploy.py:3482-3493, 3777-3785, 3849-3853.
StatusIsTrue ==
    /\ Ended("install", {0, 4, 10}) =>
         /\ enabled /\ active /\ WholeAt(version)
         /\ \A u \in Unit : unitFile[u] = version
         /\ farm = version
         /\ rc # 4 => hooks = "proven"
    /\ Ended("install", {6, 7}) => changed = {}
    /\ Ended("install", {5, 9}) => ~Armed /\ "units" \notin changed
    /\ Ended("install", {5}) /\ claimed => \A e \in Entry : disk[e] = Absent

\* An uninstall that ends 0 left nothing of either layer but the payload, and
\* no relink brings the farm back: the sweep never runs beside one.
\* node/deploy.py:4145-4155, node/shim/install.sh:3229-3236.
RemovedStaysRemoved ==
    Ended("uninstall", {0}) \/ Ended("strip", {0}) =>
        /\ farm = Absent /\ hooks = "none" /\ ~Armed
        /\ mode = "uninstall" => \A u \in Unit : unitFile[u] = Absent

\* A run that ends 0 has revoked each gid the drop-in recorded when it began
\* and that it does not grant, and an install that grants has granted.
\* node/deploy.py:3381-3386, 4172-4173.
RecordedIsRevoked ==
    /\ Ended("install", {0}) => held \cap (recorded \cup Want) = Want
    /\ Ended("uninstall", {0}) => held \cap recorded = {}

\* Between runs, each gid that may still read the journal by an earlier grant
\* is one a later run can know of.  node/deploy.py:3381-3386.
HeldIsRecorded == pc = "idle" => held \subseteq dropin
=============================================================================

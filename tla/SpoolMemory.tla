---------------------------- MODULE SpoolMemory ----------------------------
(***************************************************************************)
(* What the two memories of the relink share, node/shim/install.sh: the    *)
(* re-assertion clock, which is the node's uptime and so starts over at    *)
(* every boot, and the write into the spool, line by line into a new file. *)
(***************************************************************************)
EXTENDS Integers

CONSTANTS
    Interval,   \* SG_REASSERT_INTERVAL_S, in ticks
    Period,     \* the timer's interval, in ticks
    MaxUptime,  \* bound: ticks a boot lasts
    MaxBoot,    \* bound: boots
    Faults      \* what may go wrong, a subset of AllFaults

AllFaults == {"spool",   \* the spool cannot be pinned
              "lost",    \* the memory is damaged or gone
              "full",    \* some lines of the new memory are not written
              "rename",  \* the new memory cannot be put in place
              "uptime",  \* the uptime cannot be read
              "bootid",  \* the boot id cannot be read
              "install"} \* --system installs another payload

ASSUME MemoryAssumption ==
    /\ Interval \in Nat
    /\ Period \in Nat \ {0}
    /\ MaxUptime \in Nat
    /\ MaxBoot \in Nat \ {0}
    /\ Faults \subseteq AllFaults

May(fault) == IF fault \in Faults THEN BOOLEAN ELSE {FALSE}

\* Missing, empty, or not a number.
NoReading == -1

Uptime == 0 .. MaxUptime
Reading == Uptime \cup {NoReading}

\* A boot id, or 0 where it cannot be read: the empty word.
BootId == 0 .. MaxBoot

\* sg_clock_due(): what cannot be read must never read as "recently said".
ClockDue(asserted, now) ==
    \/ now = NoReading
    \/ asserted = NoReading
    \/ asserted > now
    \/ now - asserted >= Interval

\* Of the lines written to the new file, unchecked, a full disk keeps some.
Reaching(lines) == IF "full" \in Faults THEN SUBSET lines ELSE {lines}
=============================================================================

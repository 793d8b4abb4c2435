----------------------------- MODULE UnitLayout -----------------------------
(***************************************************************************)
(* The move of CodeGraph's main unit from /etc to /usr/local/lib           *)
(* (ops/systemd_unit_layout_transaction.py) while its service goes on: the *)
(* new file is made, the old one is set aside, systemd reloads, the enable *)
(* link follows.  Calls fail with or without their effect and are          *)
(* compensated, the command is killed and run again, the host is rebooted, *)
(* and another root edits the files.                                       *)
(***************************************************************************)
EXTENDS Naturals

CONSTANTS MaxFaults,  \* bound: calls that fail, restarts of the service
          MaxCrashes, \* bound: kills and reboots
          MaxEdits,   \* bound: files that somebody else writes
          None

LayoutAssumption ==
    {MaxFaults, MaxCrashes, MaxEdits} \subseteq Nat /\ None \notin {"old", "new", "odd", "etc", "usr"}

VARIABLES disk,   \* [etc, backup, usr, rollback]: what the file holds, or None
          mask,   \* a runtime mask is left in /run
          link,   \* the main unit that the enable link names, or None
          loaded, \* the fragment that systemd has loaded
          same,   \* the service is as it was when the command prepared
          pc,     \* the next step
          stage,  \* of a move: "check", "rename", "confirm"
          before, \* what the command prepared
          journal,\* [create, created, move, moved]: tried and done
          told,   \* what the last command reported
          counts  \* [faults, crashes, edits]

host == <<disk, mask, link, loaded, same>>
command == <<pc, stage, before, journal>>
vars == <<host, command, told, counts>>

NoJournal == [create |-> FALSE, created |-> FALSE, move |-> FALSE, moved |-> FALSE]
NotPrepared == [etc |-> None, usr |-> None, enabled |-> FALSE, loaded |-> None, needed |-> FALSE]

Init ==
    /\ disk \in {[etc |-> "old", backup |-> None, usr |-> u, rollback |-> None] : u \in {None, "new"}}
    /\ mask \in BOOLEAN /\ link \in {None, "etc"} /\ loaded = "etc" /\ same = TRUE
    /\ pc = "idle" /\ stage = "check" /\ before = NotPrepared /\ journal = NoJournal
    /\ told = "none" /\ counts = [faults |-> 0, crashes |-> 0, edits |-> 0]

Counted(c) == counts' = [counts EXCEPT ![c] = @ + 1]
Fault == counts.faults < MaxFaults /\ Counted("faults")
Goto(l) == pc' = l /\ stage' = "check"
Report(r) == Goto("idle") /\ told' = r /\ before' = NotPrepared /\ journal' = NoJournal

\* Main units in /etc go before those in /run, and these before /usr/local/lib.
Resolved ==
    IF disk.etc # None THEN "etc"
    ELSE IF mask THEN "mask"
    ELSE IF disk.usr # None THEN "usr" ELSE "none"
Enabled == link # None
Masked == loaded = "mask" \/ Resolved = "mask"

(***************************************************************************)
(* Before the first write of the transaction.                              *)
(***************************************************************************)
\* Mistake: a mask that has no effect needs no clearing.
MaskIgnored == ~Masked

MaskSettled == ~mask

\* A mask in /run is cleared when it is proved to have no effect.
Begin ==
    /\ pc = "idle"
    /\ IF MaskSettled THEN Goto("prepare") /\ told' = "none"
       ELSE IF Masked THEN Goto("idle") /\ told' = "refused"
       ELSE Goto("unmask") /\ told' = "none"
    /\ UNCHANGED <<host, before, journal, counts>>

Unmask ==
    /\ pc = "unmask"
    /\ \/ mask' = FALSE /\ Goto("unmasked") /\ UNCHANGED <<before, journal, told, counts>>
       \/ Fault /\ (UNCHANGED mask \/ mask' = FALSE) /\ Report("failed")
    /\ UNCHANGED <<disk, link, loaded, same>>

ReloadUnmasked ==
    /\ pc = "unmasked"
    /\ \/ /\ loaded' = Resolved
          /\ IF mask \/ loaded' = "mask" THEN Report("failed")
             ELSE Goto("prepare") /\ UNCHANGED <<before, journal, told>>
          /\ UNCHANGED counts
       \/ Fault /\ loaded' \in {loaded, Resolved} /\ Report("failed")
    /\ UNCHANGED <<disk, mask, link, same>>

\* _require_migratable_layout: what is on the disk and what is loaded are a state
\* of this very migration.
MigratableLayout ==
    /\ loaded \in {"etc", "usr"} /\ Resolved # "mask"
    /\ IF disk.etc # None THEN loaded = "etc" /\ disk.usr \in {None, "new"}
       ELSE disk.usr = "new"

\* Files that an earlier command has set aside are evidence.
NoStaleIsolation == disk.etc # None => disk.backup = None /\ disk.rollback = None

\* Mistake: the loaded fragment alone tells that a migration is finished.
NeedsReload == disk.etc # None \/ loaded # "usr"

NeedsFinalization == disk.etc # None \/ loaded # "usr" \/ link = "etc"

Prepare ==
    /\ pc = "prepare"
    /\ IF MigratableLayout /\ NoStaleIsolation
       THEN /\ before' = [etc |-> disk.etc, usr |-> disk.usr, enabled |-> Enabled,
                          loaded |-> loaded, needed |-> NeedsFinalization]
            /\ Goto(IF ~NeedsFinalization THEN "verify"
                    ELSE IF disk.etc = None THEN "reload"
                    ELSE IF disk.usr = None THEN "create" ELSE "move")
            /\ journal' = NoJournal /\ same' = TRUE /\ UNCHANGED told
       ELSE Report("refused") /\ UNCHANGED same
    /\ UNCHANGED <<disk, mask, link, loaded, counts>>

(***************************************************************************)
(* One file is moved and another is made, neither over a third.            *)
(***************************************************************************)
Create ==
    /\ pc = "create" /\ disk.usr = None
    /\ disk' = [disk EXCEPT !.usr = "new"] /\ journal' = [journal EXCEPT !.create = TRUE]
    /\ Goto("created")
    /\ UNCHANGED <<mask, link, loaded, same, before, told, counts>>

Created ==
    /\ pc = "created" /\ disk.usr = "new"
    /\ journal' = [journal EXCEPT !.created = TRUE] /\ Goto("move")
    /\ UNCHANGED <<host, before, told, counts>>

From == [move |-> "etc", moveBack |-> "backup", setAside |-> "usr"]
To == [move |-> "backup", moveBack |-> "etc", setAside |-> "rollback"]
After == [move |-> "reload", moveBack |-> "ownCanonical", setAside |-> "undoReload"]
Moving == pc \in DOMAIN From
Original == IF pc = "setAside" THEN "new" ELSE before.etc

Leaves(f, t) == [disk EXCEPT ![f] = None, ![t] = disk[f]]

MoveCheck ==
    /\ Moving /\ stage = "check" /\ disk[From[pc]] = Original
    /\ stage' = "rename"
    /\ journal' = [journal EXCEPT !.move = TRUE]
    /\ UNCHANGED <<host, pc, before, told, counts>>

\* Mistake: a rename that replaces what is in the way.
RenameOver ==
    /\ Moving /\ stage = "rename" /\ disk[From[pc]] # None
    /\ disk' = Leaves(From[pc], To[pc]) /\ stage' = "confirm"
    /\ UNCHANGED <<mask, link, loaded, same, pc, before, journal, told, counts>>

Rename ==
    /\ Moving /\ stage = "rename" /\ disk[From[pc]] # None /\ disk[To[pc]] = None
    /\ disk' = Leaves(From[pc], To[pc]) /\ stage' = "confirm"
    /\ UNCHANGED <<mask, link, loaded, same, pc, before, journal, told, counts>>

MoveConfirm ==
    /\ Moving /\ stage = "confirm" /\ disk[To[pc]] = Original
    /\ journal' = [journal EXCEPT !.moved = @ \/ pc = "move"] /\ Goto(After[pc])
    /\ UNCHANGED <<host, before, told, counts>>

\* A file that was exchanged before the rename goes back where it was.
MoveRestore ==
    /\ Moving /\ stage = "confirm" /\ disk[To[pc]] # Original
    /\ disk' = IF disk[From[pc]] = None THEN Leaves(To[pc], From[pc]) ELSE disk
    /\ stage' = "failed"
    /\ UNCHANGED <<mask, link, loaded, same, pc, before, journal, told, counts>>

(***************************************************************************)
(* systemd, on the way there and on the way back.                          *)
(***************************************************************************)
Reloads(l, next) ==
    /\ pc = l /\ loaded' = Resolved
    /\ Goto(next)
    /\ UNCHANGED <<disk, mask, link, same, before, journal, told, counts>>

\* reenable makes the link anew, to the main unit that the disk resolves to.
Reenables(l, next) ==
    /\ pc = l
    /\ IF before.enabled THEN Resolved \in {"etc", "usr"} /\ link' = Resolved /\ loaded' = Resolved
       ELSE UNCHANGED <<link, loaded>>
    /\ Goto(next)
    /\ UNCHANGED <<disk, mask, same, before, journal, told, counts>>

ReloadMoved == Reloads("reload", "reenable")
ReenableMoved == Reenables("reenable", "verify")
ReloadBack == Reloads("undoReload", "undoReenable")
ReenableBack == Reenables("undoReenable", "undoVerify")

LinkIs(f) == link = IF before.enabled THEN f ELSE None

Migrated ==
    /\ disk.etc = None /\ disk.usr = "new"
    /\ loaded = "usr" /\ same /\ LinkIs("usr")

RolledBack ==
    /\ disk.etc = before.etc /\ disk.usr = before.usr
    /\ loaded = before.loaded /\ same /\ LinkIs("etc")

Verify ==
    /\ pc = "verify" /\ Migrated
    /\ Report("migrated")
    /\ UNCHANGED <<host, counts>>

VerifyRollback ==
    /\ pc = "undoVerify" /\ RolledBack
    /\ Report("rolled_back")
    /\ UNCHANGED <<host, counts>>

(***************************************************************************)
(* Failure and compensation.                                               *)
(***************************************************************************)
Applying == {"create", "created", "move", "reload", "reenable", "verify"}
Undoing == {"moveBack", "ownCanonical", "setAside", "undoReload", "undoReenable", "undoVerify"}

\* What a call that reports its failure may have done.
Effect ==
    \/ UNCHANGED <<disk, link, loaded>>
    \/ pc = "create" /\ disk.usr = None /\ disk' = [disk EXCEPT !.usr = "new"] /\ UNCHANGED <<link, loaded>>
    \/ /\ Moving /\ stage = "rename" /\ disk[From[pc]] # None /\ disk[To[pc]] = None
       /\ disk' = Leaves(From[pc], To[pc]) /\ UNCHANGED <<link, loaded>>
    \/ pc \in {"reload", "undoReload"} /\ loaded' = Resolved /\ UNCHANGED <<disk, link>>
    \/ /\ pc \in {"reenable", "undoReenable"} /\ before.enabled /\ Resolved \in {"etc", "usr"}
       /\ link' = Resolved /\ loaded' \in {loaded, Resolved} /\ UNCHANGED disk

\* A file whose creation was not seen through is left where it is.
Unowned == journal.create /\ ~journal.created /\ disk.usr # None

\* A step whose condition does not hold fails without any fault.
Refused ==
    \/ pc = "create" /\ disk.usr # None
    \/ pc = "created" /\ disk.usr # "new"
    \/ Moving /\ stage = "check" /\ disk[From[pc]] # Original
    \/ Moving /\ stage = "rename" /\ (disk[From[pc]] = None \/ disk[To[pc]] # None)
    \/ Moving /\ stage = "failed"
    \/ pc \in {"reenable", "undoReenable"} /\ before.enabled /\ Resolved \notin {"etc", "usr"}
    \/ pc = "verify" /\ ~Migrated
    \/ pc = "ownCanonical" /\ Unowned
    \/ pc = "undoVerify" /\ ~RolledBack

Tried == [journal EXCEPT !.create = @ \/ pc = "create", !.move = @ \/ pc = "move"]

\* Mistake: what the journal does not say was not moved.
WasMovedByJournal(j) == IF j.moved THEN "yes" ELSE "no"

\* A move that reported a failure is looked for where it would have gone to.
WasMoved(j) ==
    IF j.moved THEN "yes"
    ELSE IF ~j.move THEN "no"
    ELSE IF disk'.backup # None THEN IF disk'.backup = before.etc THEN "yes" ELSE "unknown"
    ELSE IF disk'.etc = before.etc THEN "no" ELSE "unknown"

\* Where the compensation begins; it is only for what was moved out of /etc, and
\* nothing is proved of what an earlier command left half-way.
Compensates(j) ==
    IF before.etc = None \/ WasMoved(j) = "unknown" THEN Report("unproven")
    ELSE /\ Goto(IF WasMoved(j) = "yes" THEN "moveBack" ELSE "ownCanonical")
         /\ journal' = j /\ UNCHANGED <<before, told>>

Fails ==
    /\ pc \in Applying
    /\ \/ Refused /\ UNCHANGED <<disk, link, loaded, counts>>
       \/ Fault /\ Effect
    /\ IF before.needed THEN Compensates(Tried) ELSE Report("failed")
    /\ UNCHANGED <<mask, same>>

OwnCanonical ==
    /\ pc = "ownCanonical" /\ ~Unowned
    /\ Goto(IF journal.created THEN "setAside" ELSE "undoReload")
    /\ UNCHANGED <<host, before, journal, told, counts>>

\* An error, or an interruption, in the compensation: nothing is proved.
UndoFails ==
    /\ pc \in Undoing
    /\ \/ Refused /\ UNCHANGED <<disk, link, loaded, counts>>
       \/ Fault /\ Effect
    /\ Report("unproven")
    /\ UNCHANGED <<mask, same>>

(***************************************************************************)
(* The world.                                                              *)
(***************************************************************************)
\* The service restarts, or stops.
Drift ==
    /\ pc # "idle" /\ same /\ Fault /\ same' = FALSE
    /\ UNCHANGED <<disk, mask, link, loaded, command, told>>

\* Another root writes a main unit of his own; a report is of what was before.
Edit(f) ==
    /\ counts.edits < MaxEdits /\ Counted("edits")
    /\ disk' = [disk EXCEPT ![f] = "odd"] /\ told' = "none"
    /\ UNCHANGED <<mask, link, loaded, same, command>>

\* Whoever installs a package lets systemd reload.
DaemonReload ==
    /\ loaded' = Resolved
    /\ UNCHANGED <<disk, mask, link, same, command, told, counts>>

Ends == Goto("idle") /\ before' = NotPrepared /\ journal' = NoJournal
Crash == counts.crashes < MaxCrashes /\ Counted("crashes")

Kill ==
    /\ pc # "idle" /\ Crash /\ Ends
    /\ UNCHANGED <<host, told>>

\* A new boot resolves the unit anew, and /run is empty.
Reboot ==
    /\ Crash /\ Ends /\ UNCHANGED <<disk, link, same, told>>
    /\ mask' = FALSE /\ loaded' = Resolved'

Apply ==
    \/ Begin \/ Unmask \/ ReloadUnmasked \/ Prepare \/ Create \/ Created
    \/ MoveCheck \/ Rename \/ MoveConfirm \/ MoveRestore
    \/ ReloadMoved \/ ReenableMoved \/ Verify

Compensate ==
    \/ OwnCanonical \/ ReloadBack \/ ReenableBack \/ VerifyRollback

Next ==
    \/ Apply \/ Fails \/ Compensate \/ UndoFails
    \/ Drift \/ (\E f \in {"etc", "usr"} : Edit(f)) \/ DaemonReload \/ Kill \/ Reboot

Spec == Init /\ [][Next]_vars

-----------------------------------------------------------------------------
(***************************************************************************)
(* Properties                                                              *)
(***************************************************************************)
\* The variables have their types; a step of a move is of a move.
Places == {"etc", "backup", "usr", "rollback"}
Contents == {None, "old", "new", "odd"}
Prepared == [etc : Contents, usr : Contents, enabled : BOOLEAN,
             loaded : {None, "etc", "usr"}, needed : BOOLEAN]
Journals == [create : BOOLEAN, created : BOOLEAN, move : BOOLEAN, moved : BOOLEAN]
Counts == [faults : 0..MaxFaults, crashes : 0..MaxCrashes, edits : 0..MaxEdits]

TypeOK ==
    /\ disk \in [Places -> Contents] /\ mask \in BOOLEAN /\ same \in BOOLEAN
    /\ link \in {None, "etc", "usr"} /\ loaded \in {"etc", "usr"}
    /\ pc \in Applying \cup Undoing \cup {"idle", "unmask", "unmasked", "prepare"}
    /\ stage \in {"check", "rename", "confirm", "failed"} /\ (stage # "check" => Moving)
    /\ before \in Prepared /\ journal \in Journals /\ counts \in Counts
    /\ told \in {"none", "refused", "failed", "migrated", "rolled_back", "unproven"}

\* At every moment, whatever fails or dies and whoever reloads, systemd finds a
\* main unit of the service that no mask hides: a host that boots now serves.
UnitNeverLost == Resolved \in {"etc", "usr"} /\ loaded \in {"etc", "usr"}

\* A file is moved, never destroyed: what was in /etc, or what somebody else has
\* written, is still in some place.
NothingDestroyed ==
    \E f \in DOMAIN disk : disk[f] = IF counts.edits = 0 THEN "old" ELSE "odd"

\* What is reported is so until somebody edits the files: after a migration the
\* unit is the new one alone, loaded and enabled from where it is; after a
\* roll-back it is the old one alone.
ReportsTrue ==
    /\ told = "migrated" /\ pc = "idle" =>
          disk.etc = None /\ disk.usr = "new" /\ loaded = "usr" /\ link # "etc"
    /\ told = "rolled_back" /\ pc = "idle" =>
          disk.etc # None /\ loaded = "etc" /\ link # "usr"

\* Whenever no command runs, the next one can take up what the last one left:
\* only a half-way compensation that has set the new file aside needs a person.
Resumable ==
    pc = "idle" /\ counts.edits = 0 =>
        /\ mask => ~Masked
        /\ disk.rollback = None /\ loaded = Resolved => MigratableLayout /\ NoStaleIsolation

\* A command fails only because something failed, over all the states that earlier
\* commands were killed in.
NoFalseAlarm ==
    told \in {"failed", "rolled_back", "unproven"} => counts.faults + counts.edits > 0

LayoutSound ==
    UnitNeverLost /\ NothingDestroyed /\ ReportsTrue /\ Resumable /\ NoFalseAlarm

-----------------------------------------------------------------------------
(* What makes them inductive.                                              *)

\* Where a main unit still is, and what the command knows of it.
HostFits ==
    /\ mask => pc \in {"idle", "unmask"} /\ disk.etc # None
    /\ disk.etc = None => disk.usr # None
    /\ pc \in {"move", "moveBack", "reload", "reenable", "verify"} => disk.usr # None
    /\ pc \in (Undoing \ {"moveBack"}) \cup {"create", "created"} => disk.etc # None

CommandFits ==
    /\ pc \in Undoing \cup {"create", "created", "move"} => before.etc # None
    /\ before.etc # None => before.loaded = "etc"
    /\ pc \in {"create", "created"} => ~journal.move /\ ~journal.moved
    /\ pc \in {"reload", "reenable", "verify"} /\ before.etc # None => journal.moved
    /\ stage = "confirm" => disk[To[pc]] # None
    /\ pc # "idle" => told = "none"

\* Without edits the old unit is in one of its two places.
DiskFits ==
    counts.edits = 0 =>
        /\ {disk.etc, disk.backup} = {None, "old"}
        /\ {disk.usr, disk.rollback} \subseteq {None, "new"}

\* Where nothing has failed and nobody edits, each step finds what it asks for.
CalmFits ==
    counts.faults = 0 /\ counts.edits = 0 =>
        /\ pc \notin Undoing /\ stage # "failed"
        /\ pc \in Applying => same /\ (before.enabled <=> link # None)
        /\ pc \in {"create", "created", "move"} =>
              IF stage = "confirm" THEN disk.etc = None /\ disk.backup = before.etc
              ELSE disk.etc = before.etc /\ disk.backup = None
        /\ pc \in Applying => disk.usr = IF pc = "create" THEN None ELSE "new"
        /\ pc \in {"reload", "reenable", "verify"} => disk.etc = None
        /\ pc \in {"reenable", "verify"} => loaded = "usr"
        /\ pc = "verify" => link # "etc"

\* All of it together is kept by every step.
IInv ==
    /\ TypeOK /\ HostFits /\ CommandFits /\ DiskFits /\ CalmFits
    /\ UnitNeverLost /\ NothingDestroyed /\ ReportsTrue /\ Resumable /\ NoFalseAlarm
=============================================================================

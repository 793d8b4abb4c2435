---------------------------- MODULE UnitInstall ----------------------------
(***************************************************************************)
(* The installation of the systemd units as one transaction                *)
(* (mcp_systemd_install_transaction.py and its parts): the originals that   *)
(* are frozen first, the writes and systemctl calls, and the compensation   *)
(* that runs to its end whatever fails, while Ctrl-C is put off.            *)
(*                                                                         *)
(* Simplifications: a unit file's content is "old" or "new"; the checks     *)
(* before the first write (manifest, binding, preflight, lock) only refuse; *)
(* units are worked off in any order, which contains the manifest's.        *)
(***************************************************************************)
EXTENDS Naturals, FiniteSets, Sequences

CONSTANTS Standard,   \* units that the transaction may start itself
          Deferred,   \* units whose start belongs to another state machine
          Enable,     \* units declared "enable"
          RestartSet, \* units declared "restart"
          Budgets,    \* bound: what a behaviour may have of transactions (rounds), of
                      \* failing steps and services that restart by themselves
                      \* (faults), and of kills of the installer (crashes)
          None

UnitAssumption ==
    /\ Standard \cap Deferred = {} /\ Deferred \subseteq Enable \cap RestartSet
    /\ Enable \cup RestartSet \subseteq Standard \cup Deferred
    /\ Budgets \subseteq [rounds : Nat, faults : Nat, crashes : Nat] /\ None \notin {"old", "new"}

VARIABLES disk, loaded, \* the unit file on the disk, and what systemd has read of it
          enabled, run, \* the enabled units; the definition that each service runs, or None
          shadow,       \* an old drop-in: "active", "retired" or "none"
          receipt,      \* the stage receipt's release
          pc, mode, todo,
          before,       \* the originals that were frozen
          proven,       \* of the compensation
          signal,       \* a Ctrl-C is put off
          told,         \* what the caller was told last
          touched,      \* history variable: services that this transaction started or stopped
          bounced,      \* services whose process is not the one that was frozen
          left          \* what is left of the budget

host == <<disk, loaded, enabled, run, shadow, receipt>>
work == <<mode, before, proven, signal, told>>
vars == <<host, pc, todo, work, touched, bounced, left>>

All == Standard \cup Deferred
Modes == {"normal", "maintenance_stage", "guarded_stage", "install_only"}
Quiet == {"install_only", "guarded_stage"}
Stages == {"maintenance_stage", "guarded_stage"}
Told == {"none", "installed", "rolled_back", "unproven", "interrupted"}

UnitsOf(m) == IF m = "normal" THEN Standard ELSE All
Postponed(m) == IF m \in Stages THEN Deferred ELSE {}

\* Mistake: every unit is enabled, whatever its declaration says.
EnableEverything(m) == UnitsOf(m)

EnableNames(m) == (Enable \cap UnitsOf(m)) \ (IF m \in Quiet THEN {} ELSE Postponed(m))

RestartNames(m) == IF m \in Quiet THEN {} ELSE (RestartSet \cap UnitsOf(m)) \ Postponed(m)

StateNames(m) == EnableNames(m) \cup RestartNames(m)

\* Mistake: an installation that must not touch processes restores them.
RestoresActivityAlways(m) == m \in Modes

RestoresActivity(m) == m \notin Quiet

Frozen == [disk |-> disk, enabled |-> enabled, run |-> run, shadow |-> shadow, receipt |-> receipt]

Init ==
    /\ disk \in [All -> {None, "old"}] /\ loaded = disk
    /\ enabled \in SUBSET {u \in Enable : disk[u] # None}
    /\ \E on \in SUBSET {u \in Standard : disk[u] # None} :
          run = [u \in All |-> IF u \in on THEN "old" ELSE None]
    /\ \E s \in {"none", "active"} : shadow = [u \in All |-> IF disk[u] = None THEN "none" ELSE s]
    /\ receipt = None /\ pc = "idle" /\ mode = "normal" /\ todo = {} /\ before = Frozen
    /\ proven = TRUE /\ signal = FALSE /\ told = "none" /\ touched = {} /\ bounced = {}
    /\ left \in Budgets

Spent(what) == left[what] > 0 /\ left' = [left EXCEPT ![what] = @ - 1]
Fault == Spent("faults")
Goto(l, s) == pc' = l /\ todo' = s

(***************************************************************************)
(* Begin: locks, checks, the guard against Ctrl-C, the frozen originals.   *)
(***************************************************************************)
\* States that the compensation could not bring back are refused.
Reversible(m) == \A u \in StateNames(m) : disk[u] = None => u \notin enabled /\ run[u] = None

\* The deferred units are down in a stage: the boundary proof asks for it.
Boundary(m) == m \in Stages => \A u \in Deferred : run[u] = None

Prepare(m) ==
    /\ pc = "idle" /\ Reversible(m) /\ Boundary(m)
    /\ mode' = m /\ before' = Frozen /\ proven' = TRUE /\ signal' = FALSE /\ told' = "none"
    /\ touched' = {} /\ bounced' = {} /\ Spent("rounds")
    /\ Goto("prepared", {}) /\ UNCHANGED host

ControlC ==
    /\ pc # "idle" /\ ~signal
    /\ signal' = TRUE
    /\ UNCHANGED <<host, pc, todo, mode, before, proven, told, touched, bounced, left>>

\* A Ctrl-C that came before the first write ends it, without compensation.
FirstWrite ==
    /\ pc = "prepared"
    /\ IF signal THEN told' = "interrupted" /\ Goto("idle", {})
       ELSE UNCHANGED told /\ Goto("write", UnitsOf(mode))
    /\ UNCHANGED <<host, mode, before, proven, signal, touched, bounced, left>>

(***************************************************************************)
(* Apply.                                                                  *)
(***************************************************************************)
Unit == /\ todo # {} /\ UNCHANGED <<pc, work, left>>
Done(from, to, s) ==
    /\ pc = from /\ todo = {} /\ Goto(to, s)
    /\ UNCHANGED <<host, work, touched, bounced, left>>

WriteUnit(u) ==
    /\ pc = "write" /\ u \in todo /\ Unit /\ todo' = todo \ {u}
    /\ disk' = [disk EXCEPT ![u] = "new"]
    /\ UNCHANGED <<loaded, enabled, run, shadow, receipt, touched, bounced>>

RetireShadow(u) ==
    /\ pc = "retire" /\ u \in todo /\ Unit /\ todo' = todo \ {u}
    /\ shadow' = [shadow EXCEPT ![u] = IF @ = "active" THEN "retired" ELSE @]
    /\ UNCHANGED <<disk, loaded, enabled, run, receipt, touched, bounced>>

AllWritten == Done("write", "retire", UnitsOf(mode))
AllRetired == Done("retire", "reload", {})
AllRestarted == Done("restart", "verify", {})

Reloaded == loaded' = disk

Reload ==
    /\ pc = "reload" /\ Reloaded /\ Goto("enable", {})
    /\ UNCHANGED <<disk, enabled, run, shadow, receipt, work, touched, bounced, left>>

\* One systemctl call for all units, after what is loaded was verified.
EnableUnits ==
    /\ pc = "enable" /\ \A u \in UnitsOf(mode) : loaded[u] = "new"
    /\ enabled' = enabled \cup EnableNames(mode) /\ Goto("restart", RestartNames(mode))
    /\ UNCHANGED <<disk, loaded, run, shadow, receipt, work, touched, bounced, left>>

Started(u, def) ==
    /\ run' = [run EXCEPT ![u] = def]
    /\ touched' = touched \cup {u} /\ bounced' = bounced \cup {u}

\* A service may come up, or not: the call does not say.
RestartUnit(u) ==
    /\ pc = "restart" /\ u \in todo /\ todo' = todo \ {u}
    /\ \/ Started(u, loaded[u]) /\ UNCHANGED left
       \/ Fault /\ Started(u, None)
    /\ UNCHANGED <<pc, work, disk, loaded, enabled, shadow, receipt>>

\* Mistake: that the units run is not verified.
EnabledOnly == EnableNames(mode) \subseteq enabled /\ (mode \in Quiet => bounced = {})

Verified ==
    /\ EnableNames(mode) \subseteq enabled
    /\ \A u \in RestartNames(mode) : run[u] # None
    /\ \A u \in UnitsOf(mode) : shadow[u] # "active"
    /\ (mode \in Quiet => bounced = {})

Verify ==
    /\ pc = "verify" /\ Verified
    /\ Goto("receipt", {}) /\ UNCHANGED <<host, work, touched, bounced, left>>

WriteReceipt ==
    /\ pc = "receipt" /\ Goto("check", {})
    /\ receipt' = IF mode \in Stages THEN "new" ELSE receipt
    /\ UNCHANGED <<disk, loaded, enabled, run, shadow, work, touched, bounced, left>>

\* The boundary again, then a Ctrl-C that came meanwhile; both fail the body.
Commit ==
    /\ pc = "check" /\ Boundary(mode) /\ ~signal /\ Goto("unlock", {})
    /\ UNCHANGED <<host, work, touched, bounced, left>>

(***************************************************************************)
(* A failure of the body: everything is put back, one part after the       *)
(* other, and none keeps the next from being tried.                        *)
(***************************************************************************)
Applying == {"write", "retire", "reload", "enable", "restart", "verify", "receipt", "check"}

\* Mistake: the services start before systemd has read the old files again.
UndoReloadLast == <<"undo_receipt", "undo_gone", "undo_gone_stop", "undo_unit", "undo_shadow",
                    "undo_enable", "undo_activity", "undo_reload", "undo_proof">>

UndoOrder == <<"undo_receipt", "undo_gone", "undo_gone_stop", "undo_unit", "undo_shadow",
               "undo_reload", "undo_enable", "undo_activity", "undo_proof">>

Undoing == {UndoOrder[i] : i \in DOMAIN UndoOrder}
Gone == {u \in StateNames(mode) : before.disk[u] = None}

WorkOf(phase) ==
    CASE phase = "undo_gone" -> Gone
      [] phase = "undo_gone_stop" -> IF RestoresActivity(mode) THEN Gone ELSE {}
      [] phase \in {"undo_unit", "undo_shadow"} -> UnitsOf(mode)
      [] phase = "undo_enable" -> StateNames(mode) \ Gone
      [] phase = "undo_activity" -> IF RestoresActivity(mode) THEN StateNames(mode) \ Gone ELSE {}
      [] OTHER -> {}

Compensate ==
    /\ pc' = "undo_receipt" /\ todo' = {}
    /\ UNCHANGED <<host, mode, before, signal, told, touched, bounced>>

\* A step fails, with or without its effect; or a proof does not hold.
BodyFails ==
    /\ pc \in Applying
    /\ \/ Fault
       \/ pc = "enable" /\ (\E u \in UnitsOf(mode) : loaded[u] # "new") /\ UNCHANGED left
       \/ pc = "verify" /\ ~Verified /\ UNCHANGED left
       \/ pc = "check" /\ (signal \/ ~Boundary(mode)) /\ UNCHANGED left
    /\ Compensate /\ UNCHANGED proven

\* systemctl can neither disable nor stop a unit it does not find.
Known(u) == disk[u] # None \/ loaded[u] # None

Later == LET i == CHOOSE j \in DOMAIN UndoOrder : UndoOrder[j] = pc IN UndoOrder[i + 1]
NextPhase ==
    /\ pc \in Undoing \ {"undo_proof", "undo_receipt", "undo_reload"} /\ todo = {}
    /\ Goto(Later, WorkOf(Later))
    /\ UNCHANGED <<host, work, touched, bounced, left>>

UndoReceipt ==
    /\ pc = "undo_receipt" /\ Goto(Later, WorkOf(Later))
    /\ \/ receipt' = (IF mode \in Stages THEN before.receipt ELSE receipt) /\ UNCHANGED <<proven, left>>
       \/ mode \in Stages /\ Fault /\ proven' = FALSE /\ UNCHANGED receipt
    /\ UNCHANGED <<disk, loaded, enabled, run, shadow, mode, before, signal, told, touched, bounced>>

UndoReload ==
    /\ pc = "undo_reload" /\ Goto(Later, WorkOf(Later))
    /\ \/ Reloaded /\ UNCHANGED <<proven, left>>
       \/ Fault /\ proven' = FALSE /\ UNCHANGED loaded
    /\ UNCHANGED <<disk, enabled, run, shadow, receipt, mode, before, signal, told, touched, bounced>>

Undo(u) == u \in todo /\ todo' = todo \ {u}
           /\ UNCHANGED <<pc, receipt, mode, before, signal, told>>

UndoFails(u) ==
    /\ pc \in Undoing /\ Undo(u) /\ proven' = FALSE
    /\ IF pc \in {"undo_gone", "undo_gone_stop"} /\ ~Known(u) THEN UNCHANGED left ELSE Fault
    /\ UNCHANGED <<disk, loaded, enabled, run, shadow, touched, bounced>>

UndoUnit(u) ==
    /\ pc = "undo_unit" /\ Undo(u)
    /\ disk' = [disk EXCEPT ![u] = before.disk[u]]
    /\ UNCHANGED <<loaded, enabled, run, shadow, proven, touched, bounced, left>>

UndoShadow(u) ==
    /\ pc = "undo_shadow" /\ Undo(u)
    /\ shadow' = [shadow EXCEPT ![u] = before.shadow[u]]
    /\ UNCHANGED <<disk, loaded, enabled, run, proven, touched, bounced, left>>

UndoEnable(u) ==
    /\ pc \in {"undo_gone", "undo_enable"} /\ Undo(u) /\ Known(u)
    /\ enabled' = IF u \in before.enabled THEN enabled \cup {u} ELSE enabled \ {u}
    /\ UNCHANGED <<disk, loaded, run, shadow, proven, touched, bounced, left>>

UndoActivity(u) ==
    /\ pc \in {"undo_gone_stop", "undo_activity"} /\ Undo(u) /\ Known(u)
    /\ Started(u, IF before.run[u] = None THEN None ELSE loaded[u])
    /\ UNCHANGED <<disk, loaded, enabled, shadow, proven, left>>

AsBefore ==
    /\ \A u \in UnitsOf(mode) : disk[u] = before.disk[u] /\ shadow[u] = before.shadow[u]
    /\ \A u \in StateNames(mode) :
          (u \in enabled <=> u \in before.enabled) /\ (run[u] = None <=> before.run[u] = None)
    /\ (mode \in Stages => receipt = before.receipt)

UndoProof ==
    /\ pc = "undo_proof" /\ Goto("undone", {})
    /\ proven' = (proven /\ AsBefore /\ (mode \in Quiet => bounced = {}) /\ Boundary(mode))
    /\ UNCHANGED <<host, mode, before, signal, told, touched, bounced, left>>

(***************************************************************************)
(* The end: what the caller is told.                                       *)
(***************************************************************************)
End(what) == told' = what /\ Goto("idle", {})

\* Mistake: a Ctrl-C hides that the compensation failed.
FailedInterrupted ==
    /\ pc = "undone"
    /\ End(IF signal THEN "interrupted" ELSE IF proven THEN "rolled_back" ELSE "unproven")
    /\ UNCHANGED <<host, mode, before, proven, signal, touched, bounced, left>>

Failed ==
    /\ pc = "undone"
    /\ End(IF ~proven THEN "unproven" ELSE IF signal THEN "interrupted" ELSE "rolled_back")
    /\ UNCHANGED <<host, mode, before, proven, signal, touched, bounced, left>>

\* The locks are left: an error there, or a Ctrl-C that came in, leaves the
\* safety unproven.
Unlock ==
    /\ pc = "unlock"
    /\ \/ ~signal /\ Goto("report", {}) /\ UNCHANGED <<told, left>>
       \/ signal /\ End("unproven") /\ UNCHANGED left
       \/ Fault /\ End("unproven")
    /\ UNCHANGED <<host, mode, before, proven, signal, touched, bounced>>

UnlockUndoneFails ==
    /\ pc = "undone" /\ Fault /\ End("unproven")
    /\ UNCHANGED <<host, mode, before, proven, signal, touched, bounced>>

\* The guard closes and replays a Ctrl-C that came in after all.
ReportInstalled ==
    /\ pc = "report" /\ End(IF signal THEN "interrupted" ELSE "installed")
    /\ UNCHANGED <<host, mode, before, proven, signal, touched, bounced, left>>

(***************************************************************************)
(* The world: a service restarts by itself; the installer is killed.       *)
(***************************************************************************)
ServiceBounces(u) ==
    /\ pc # "idle" /\ run[u] # None /\ loaded[u] # None /\ Fault
    /\ run' = [run EXCEPT ![u] = loaded[u]] /\ bounced' = bounced \cup {u}
    /\ UNCHANGED <<disk, loaded, enabled, shadow, receipt, pc, todo, work, touched>>

Crash ==
    /\ pc # "idle" /\ Spent("crashes")
    /\ Goto("idle", {}) /\ told' = "none"
    /\ UNCHANGED <<host, mode, before, proven, signal, touched, bounced>>

Apply ==
    \/ FirstWrite \/ Reload \/ EnableUnits \/ Verify \/ WriteReceipt \/ Commit
    \/ AllWritten \/ AllRetired \/ AllRestarted
    \/ \E u \in All : WriteUnit(u) \/ RetireShadow(u) \/ RestartUnit(u)

UndoNext ==
    \/ NextPhase \/ UndoReceipt \/ UndoReload \/ UndoProof
    \/ \E u \in All : UndoFails(u) \/ UndoUnit(u) \/ UndoShadow(u) \/ UndoEnable(u) \/ UndoActivity(u)

Next ==
    \/ \E m \in Modes : Prepare(m)
    \/ Apply \/ BodyFails \/ UndoNext
    \/ Failed \/ Unlock \/ UnlockUndoneFails \/ ReportInstalled
    \/ ControlC \/ Crash \/ \E u \in All : ServiceBounces(u)

Spec == Init /\ [][Next]_vars

-----------------------------------------------------------------------------
(***************************************************************************)
(* Properties                                                              *)
(***************************************************************************)
Contents == {None, "old", "new"}
Shadows == {"active", "retired", "none"}
Originals == [disk : [All -> Contents], enabled : SUBSET Enable, run : [All -> Contents],
              shadow : [All -> Shadows], receipt : {None, "new"}]

TypeOK ==
    /\ {disk, loaded, run} \subseteq [All -> Contents] /\ shadow \in [All -> Shadows]
    /\ enabled \subseteq Enable /\ receipt \in {None, "new"}
    /\ before \in Originals
    /\ mode \in Modes /\ told \in Told /\ {proven, signal} \subseteq BOOLEAN
    /\ pc \in Applying \cup Undoing \cup {"idle", "prepared", "undone", "unlock", "report"}
    /\ touched \subseteq bounced /\ bounced \subseteq All
    /\ left \in [rounds : Nat, faults : Nat, crashes : Nat]

\* Everything of the new release is in place.
Installed ==
    /\ \A u \in UnitsOf(mode) : disk[u] = "new" /\ loaded[u] = "new" /\ shadow[u] # "active"
    /\ EnableNames(mode) \subseteq enabled
    /\ \A u \in RestartNames(mode) : run[u] = "new"
    /\ (mode \in Stages => receipt = "new")

\* Everything is as it was, and what runs runs what is on the disk.
RolledBack ==
    /\ AsBefore
    /\ \A u \in UnitsOf(mode) : loaded[u] = disk[u]
    /\ \A u \in StateNames(mode) \cap touched : run[u] \in {None, disk[u]}

\* Success is reported only of a complete installation.
ReportIsTrue == told = "installed" => Installed

\* "Rolled back" is said only when files, drop-ins, enablement, services and
\* receipt are as they were, whichever step failed.
RolledBackIsTrue == told = "rolled_back" => RolledBack

\* A Ctrl-C never leaves half an installation behind without a word: it is
\* complete or rolled back, or the safety is called unproven.
InterruptedIsSettled == told = "interrupted" => Installed \/ AsBefore

\* Services start and stop only where the mode allows it, in the compensation too.
TouchesOnlyItsOwn ==
    touched \subseteq CASE mode \in Quiet -> {} [] mode = "normal" -> Standard [] OTHER -> All \ Deferred

\* All of this: what the installation says of the host is so.
InstallSound ==
    ReportIsTrue /\ RolledBackIsTrue /\ InterruptedIsSettled /\ TouchesOnlyItsOwn

-----------------------------------------------------------------------------
(* What makes them inductive.                                              *)

\* A phase works off units that it is about, and the caller hears at the end.
TodoFits ==
    /\ pc \in {"write", "retire"} => todo \subseteq UnitsOf(mode)
    /\ pc = "restart" => todo \subseteq RestartNames(mode)
    /\ pc \in Undoing => todo \subseteq WorkOf(pc)
    /\ pc \notin {"write", "retire", "restart"} \cup Undoing => todo = {}
    /\ pc # "idle" => told = "none"

\* A unit without a file was neither enabled nor running when it was frozen.
BeforeFits == \A u \in Gone : before.run[u] = None

\* How far the new release is in place.
Ending == {"receipt", "check", "unlock", "report"}
Effective == Ending \cup {"restart", "verify"}
Retired == Effective \cup {"reload", "enable"}

ApplyFits ==
    /\ pc = "prepared" => AsBefore
    /\ \A u \in UnitsOf(mode) :
          /\ pc \in Retired \cup {"retire"} \/ (pc = "write" /\ u \notin todo) => disk[u] = "new"
          /\ pc \in Retired \/ (pc = "retire" /\ u \notin todo) => shadow[u] # "active"
          /\ pc \in Effective => loaded[u] = "new"
    /\ pc \in Effective => EnableNames(mode) \subseteq enabled
    /\ \A u \in RestartNames(mode) :
          /\ pc = "verify" \/ (pc = "restart" /\ u \notin todo) => run[u] \in {None, "new"}
          /\ pc \in Ending => run[u] = "new"
    /\ pc \in Ending \ {"receipt"} /\ mode \in Stages => receipt = "new"

\* How far everything is put back, as long as no part of it has failed.
Reread == {"undo_enable", "undo_activity", "undo_proof", "undone"}
Stopped == Reread \cup {"undo_unit", "undo_shadow", "undo_reload"}

UndoFits ==
    proven =>
        /\ pc \in Reread => \A u \in UnitsOf(mode) : loaded[u] = disk[u]
        /\ RestoresActivity(mode) => \A u \in StateNames(mode) :
              IF u \in Gone
              THEN pc \in Stopped \/ (pc = "undo_gone_stop" /\ u \notin todo) => run[u] = None
              ELSE pc \in {"undo_proof", "undone"} \/ (pc = "undo_activity" /\ u \notin todo) =>
                       run[u] \in {None, disk[u]}
        /\ pc = "undone" => AsBefore

\* All of it together is kept by every step.
IInv ==
    /\ TypeOK /\ TodoFits /\ BeforeFits /\ ApplyFits /\ UndoFits
    /\ ReportIsTrue /\ RolledBackIsTrue /\ InterruptedIsSettled /\ TouchesOnlyItsOwn
=============================================================================

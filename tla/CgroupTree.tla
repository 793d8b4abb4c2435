----------------------------- MODULE CgroupTree -----------------------------
(***************************************************************************)
(* The cgroup v2 backend (reindex/cgroup_process.py with its bootstrap):   *)
(* one attempt, the bootstrap process that waits behind a gate inside the  *)
(* attempt's cgroup, the target it becomes, the target's children, and the *)
(* worker that starts, ends and recovers them, step by step.               *)
(***************************************************************************)
EXTENDS Naturals, FiniteSets

CONSTANTS MaxKids,   \* bound: descendants of the target alive at once
          MaxBoots,  \* bound: boots of the machine
          MaxCrashes,\* bound: deaths of the worker
          MaxFaults, \* bound: control files that cannot be read or written
          None

CgroupAssumption ==
    /\ MaxKids \in Nat /\ MaxBoots \in Nat \ {0} /\ MaxCrashes \in Nat /\ MaxFaults \in Nat
    /\ None \notin Nat

VARIABLES pc,      \* the worker's next step, "down" when it is dead
          live,    \* its entry in _live: "none", "child" (with Popen) or "found"
          gate,    \* the pipe: "none", "held" by the worker, "token", "closed"
          dir,     \* the attempt's cgroup exists
          root,    \* the bootstrap, and the target that it becomes
          orphan,  \* the parent of root is gone
          kids,    \* descendants of the target in the cgroup
          doomed,  \* members that cgroup.kill has reached: [root, kids]
          journal, \* the boot of the handle in the journal, or None
          boot,
          told,    \* what the worker was told last: a death proof, never started ..
          ran,     \* history variable: the target was executed
          counts   \* [crashes, faults]

worker == <<pc, live, told>>
tree == <<root, orphan, kids, doomed, ran>>
vars == <<worker, gate, dir, tree, journal, boot, counts>>

Idle == {"idle", "down"}
RootIn == {"joined", "target"}
Told == {"none", "failed", "proof", "never", "active", "unconfirmed"}

Init ==
    /\ pc = "idle" /\ live = "none" /\ gate = "none" /\ dir = FALSE
    /\ root = "none" /\ orphan = FALSE /\ kids = 0
    /\ doomed = [root |-> FALSE, kids |-> 0]
    /\ journal = None /\ boot = 1 /\ told = "none" /\ ran = FALSE
    /\ counts = [crashes |-> 0, faults |-> 0]

Populated == root \in RootIn \/ kids > 0
Fault == counts.faults < MaxFaults /\ counts' = [counts EXCEPT !.faults = @ + 1]
Goto(l) == pc' = l

Gone(r) == IF r \in {"none", "dead"} THEN r ELSE "dead"

(***************************************************************************)
(* Start: the empty cgroup, the pipe, the blocked bootstrap, its handle.   *)
(***************************************************************************)
CreateAttempt ==
    /\ pc = "idle" /\ told = "none"
    /\ dir' = TRUE /\ Goto("fork")
    /\ UNCHANGED <<live, told, gate, tree, journal, boot, counts>>

Fork ==
    /\ pc = "fork"
    /\ gate' = "held" /\ root' = "forked" /\ orphan' = FALSE /\ Goto("assign")
    /\ UNCHANGED <<live, told, dir, kids, doomed, ran, journal, boot, counts>>

\* Mistake: the caller activates before it persists.
AssignUnjournalled ==
    /\ pc = "assign" /\ root = "joined"
    /\ live' = "child" /\ Goto("activate")
    /\ UNCHANGED <<gate, dir, tree, journal, boot, told, counts>>

WaitAssignment ==
    /\ pc = "assign" /\ root = "joined"
    /\ live' = "child" /\ Goto("journal")
    /\ UNCHANGED <<gate, dir, tree, journal, boot, told, counts>>

\* The budget is used up, the bootstrap died, or something could not be made.
StartFails ==
    /\ pc \in {"fork", "assign"}
    /\ gate' = IF gate = "held" THEN "closed" ELSE gate
    /\ Goto("abort_group")
    /\ UNCHANGED <<live, told, dir, tree, journal, boot, counts>>

\* The caller persists the handle before it activates it.
Journal ==
    /\ pc = "journal"
    /\ journal' = boot /\ Goto("activate")
    /\ UNCHANGED <<live, told, gate, dir, tree, boot, counts>>

Activate ==
    /\ pc = "activate"
    /\ gate' = "token" /\ Goto("running")
    /\ UNCHANGED <<live, told, dir, tree, journal, boot, counts>>

\* The budget is over before the token, or the pipe fails after it.
ActivateFails(written) ==
    /\ pc = "activate"
    /\ gate' = IF written THEN "token" ELSE "closed"
    /\ Goto("kill")
    /\ UNCHANGED <<live, told, dir, tree, journal, boot, counts>>

(***************************************************************************)
(* The bootstrap: it arms the parent death signal, then checks its parent, *)
(* joins the cgroup and waits for the token.                               *)
(***************************************************************************)
Arm ==
    /\ root = "forked"
    /\ root' = IF orphan THEN "dead" ELSE "armed"
    /\ UNCHANGED <<worker, gate, dir, orphan, kids, doomed, ran, journal, boot, counts>>

Join ==
    /\ root = "armed"
    /\ root' = IF dir THEN "joined" ELSE "dead"
    /\ UNCHANGED <<worker, gate, dir, orphan, kids, doomed, ran, journal, boot, counts>>

\* Mistake: the end of the pipe is taken for the token.
ReadAnything ==
    /\ root = "joined" /\ ~doomed.root /\ gate \in {"token", "closed"}
    /\ root' = "target" /\ ran' = TRUE
    /\ UNCHANGED <<worker, gate, dir, orphan, kids, doomed, journal, boot, counts>>

\* Mistake: the end of the pipe is not noticed.
ReadTokenOnly ==
    /\ root = "joined" /\ ~doomed.root /\ gate = "token"
    /\ root' = "target" /\ ran' = TRUE
    /\ UNCHANGED <<worker, gate, dir, orphan, kids, doomed, journal, boot, counts>>

ReadGate ==
    /\ root = "joined" /\ ~doomed.root /\ gate \in {"token", "closed"}
    /\ root' = IF gate = "token" THEN "target" ELSE "dead"
    /\ ran' = (ran \/ gate = "token")
    /\ UNCHANGED <<worker, gate, dir, orphan, kids, doomed, journal, boot, counts>>

\* The target and its descendants: they fork, end, or ignore SIGTERM.
TargetForks ==
    /\ (root = "target" /\ ~doomed.root) \/ kids > doomed.kids
    /\ kids < MaxKids
    /\ kids' = kids + 1
    /\ UNCHANGED <<worker, gate, dir, root, orphan, doomed, ran, journal, boot, counts>>

RootEnds ==
    /\ root = "target" \/ (root \in RootIn /\ doomed.root)
    /\ root' = "dead"
    /\ doomed' = [doomed EXCEPT !.root = FALSE]
    /\ UNCHANGED <<worker, gate, dir, orphan, kids, ran, journal, boot, counts>>

KidEnds ==
    /\ kids > 0
    /\ kids' = kids - 1
    /\ doomed' = [doomed EXCEPT !.kids = IF @ > 0 THEN @ - 1 ELSE 0]
    /\ UNCHANGED <<worker, gate, dir, root, orphan, ran, journal, boot, counts>>

(***************************************************************************)
(* cgroup.kill, populated and rmdir.                                       *)
(***************************************************************************)
Killed == [root |-> root \in RootIn, kids |-> kids]

\* The write may fail; the code goes on.
KillGroup ==
    \/ doomed' = Killed /\ UNCHANGED counts
    \/ Fault /\ UNCHANGED doomed

RemoveEmpty == dir' = (dir /\ Populated)

(***************************************************************************)
(* The abort of a start: kill the group, kill the child, wait, remove.     *)
(***************************************************************************)
AbortGroup ==
    /\ pc = "abort_group" /\ KillGroup /\ Goto("abort_child")
    /\ UNCHANGED <<live, told, gate, dir, root, orphan, kids, ran, journal, boot>>

\* The bootstrap may not have joined the group yet.
AbortChild ==
    /\ pc = "abort_child" /\ Goto("abort_remove")
    /\ root' = Gone(root)
    /\ UNCHANGED <<live, told, gate, dir, orphan, kids, doomed, ran, journal, boot, counts>>

\* The wait is bounded: the group is removed if it is empty by then.  The
\* failure is told as one that may be tried again, after a recovery that finds
\* nothing was started.
AbortRemove ==
    /\ pc = "abort_remove"
    /\ RemoveEmpty /\ told' = "failed" /\ Goto("recover")
    /\ UNCHANGED <<live, gate, tree, journal, boot, counts>>

(***************************************************************************)
(* The end of an attempt: terminate.                                       *)
(***************************************************************************)
Terminate ==
    /\ pc \in {"running", "idle"} /\ live # "none" /\ journal # None
    /\ gate' = IF gate = "held" THEN "closed" ELSE gate
    /\ Goto("grace")
    /\ UNCHANGED <<live, told, dir, tree, journal, boot, counts>>

Report(what) ==
    /\ told' = what /\ Goto("idle")
    /\ IF what = "proof" THEN live' = "none" /\ RemoveEmpty ELSE UNCHANGED <<live, dir>>

\* What the worker may see: the boot changed, the path is gone, or empty.
SeesDead == journal # boot \/ ~dir \/ ~Populated

\* Mistake: a cgroup.events that cannot be read counts as empty.
ConfirmUnread ==
    /\ pc \in {"grace", "wait"} /\ (SeesDead \/ counts.faults < MaxFaults)
    /\ Report("proof")
    /\ UNCHANGED <<gate, tree, journal, boot, counts>>

Confirm ==
    /\ pc \in {"grace", "wait"} /\ SeesDead
    /\ Report("proof")
    /\ UNCHANGED <<gate, tree, journal, boot, counts>>

\* The grace is over; SIGTERM went to the root alone, which may ignore it.
GraceOver ==
    /\ pc = "grace" /\ ~SeesDead /\ Goto("kill")
    /\ UNCHANGED <<live, told, gate, dir, tree, journal, boot, counts>>

Kill ==
    /\ pc = "kill" /\ KillGroup /\ Goto("wait")
    /\ UNCHANGED <<live, told, gate, dir, root, orphan, kids, ran, journal, boot>>

\* The deadline, or a control file that cannot be read.
Unconfirmed ==
    /\ pc = "wait" /\ Populated
    /\ Report("unconfirmed")
    /\ UNCHANGED <<gate, tree, journal, boot, counts>>

(***************************************************************************)
(* Recovery by the next worker.                                            *)
(***************************************************************************)
Restart ==
    /\ pc = "down" /\ told' = "none"
    /\ Goto(IF journal = None THEN "recover" ELSE "recover_handle")
    /\ UNCHANGED <<live, gate, dir, tree, journal, boot, counts>>

RecoverUnjournaled ==
    /\ pc = "recover"
    /\ IF dir THEN Goto("recover_kill") /\ UNCHANGED told
       ELSE told' = "never" /\ Goto("idle")
    /\ UNCHANGED <<live, gate, dir, tree, journal, boot, counts>>

\* Here a kill that fails ends the recovery.
RecoverKill ==
    /\ pc = "recover_kill"
    /\ \/ doomed' = Killed /\ Goto("recover_remove") /\ UNCHANGED <<told, counts>>
       \/ Fault /\ told' = "unconfirmed" /\ Goto("idle") /\ UNCHANGED doomed
    /\ UNCHANGED <<live, gate, dir, root, orphan, kids, ran, journal, boot>>

RecoverRemove ==
    /\ pc = "recover_remove"
    /\ IF ~Populated THEN dir' = FALSE /\ told' = "never"
       ELSE told' = "unconfirmed" /\ UNCHANGED dir
    /\ Goto("idle")
    /\ UNCHANGED <<live, gate, tree, journal, boot, counts>>

RecoverHandle ==
    /\ pc = "recover_handle" /\ Goto("idle")
    /\ IF SeesDead THEN told' = "proof" /\ RemoveEmpty /\ UNCHANGED <<live, counts>>
       ELSE \/ told' = "active" /\ live' = "found" /\ UNCHANGED <<dir, counts>>
            \/ Fault /\ told' = "unconfirmed" /\ UNCHANGED <<live, dir>>
    /\ UNCHANGED <<gate, tree, journal, boot>>

\* confirm_reference_dead, asked again later for what was not confirmed.
ConfirmReference ==
    /\ pc = "idle" /\ told = "unconfirmed" /\ journal # None /\ SeesDead
    /\ Report("proof")
    /\ UNCHANGED <<gate, tree, journal, boot, counts>>

(***************************************************************************)
(* Deaths.  The kernel closes the pipe and, once it is armed, kills root.  *)
(***************************************************************************)
Crash ==
    /\ pc # "down" /\ counts.crashes < MaxCrashes
    /\ counts' = [counts EXCEPT !.crashes = @ + 1]
    /\ pc' = "down" /\ live' = "none" /\ told' = IF told \in {"proof", "never", "failed"} THEN told ELSE "none"
    /\ gate' = IF gate = "held" THEN "closed" ELSE gate
    /\ orphan' = TRUE
    /\ root' = IF orphan \/ root \in {"none", "forked"} THEN root ELSE Gone(root)
    /\ UNCHANGED <<dir, kids, doomed, ran, journal, boot>>

Reboot ==
    /\ boot < MaxBoots
    /\ boot' = boot + 1 /\ dir' = FALSE /\ root' = Gone(root) /\ kids' = 0
    /\ doomed' = [root |-> FALSE, kids |-> 0] /\ orphan' = TRUE
    /\ pc' = "down" /\ live' = "none" /\ told' = IF told \in {"proof", "never", "failed"} THEN told ELSE "none"
    /\ gate' = IF gate = "held" THEN "closed" ELSE gate
    /\ UNCHANGED <<journal, ran, counts>>

Bootstrap == Arm \/ Join \/ ReadGate
Kernel == RootEnds \/ KidEnds

Next ==
    \/ CreateAttempt \/ Fork \/ WaitAssignment \/ StartFails \/ Journal \/ Activate
    \/ \E written \in BOOLEAN : ActivateFails(written)
    \/ Bootstrap \/ TargetForks \/ Kernel
    \/ AbortGroup \/ AbortChild \/ AbortRemove
    \/ Terminate \/ Confirm \/ GraceOver \/ Kill \/ Unconfirmed
    \/ Restart \/ RecoverUnjournaled \/ RecoverKill \/ RecoverRemove \/ RecoverHandle
    \/ ConfirmReference \/ Crash \/ Reboot

Spec == Init /\ [][Next]_vars

KilledEnds == Kernel /\ (doomed.root \/ doomed.kids > 0)

\* The bootstrap runs, and what was killed ends.
FairSpec == Spec /\ WF_vars(Bootstrap) /\ WF_vars(KilledEnds)

-----------------------------------------------------------------------------
(***************************************************************************)
(* Properties                                                              *)
(***************************************************************************)
\* The variables have their types; a process that runs in the group keeps
\* the directory, and the worker goes on only with a handle in the journal.
TypeOK ==
    /\ live \in {"none", "child", "found"} /\ gate \in {"none", "held", "token", "closed"}
    /\ root \in {"none", "forked", "armed", "joined", "target", "dead"}
    /\ doomed \in [root : BOOLEAN, kids : Nat]
    /\ kids \in 0..MaxKids /\ doomed.kids <= kids /\ told \in Told
    /\ dir \in BOOLEAN /\ orphan \in BOOLEAN /\ ran \in BOOLEAN
    /\ boot \in 1..MaxBoots /\ journal \in 1..MaxBoots \cup {None}
    /\ Populated => dir
    /\ pc \in {"activate", "running", "grace", "wait"} => journal # None

\* A death proof is true, for good: no process of the attempt is alive, and
\* none comes back.
ProofIsTrue == told = "proof" => ~Populated /\ root \in {"none", "dead"}

\* "Never started" is true, for good: the target was not executed and never
\* will be, whatever a bootstrap that was left behind still does.
NeverIsTrue == told = "never" => ~ran

\* A start that failed without a handle may be tried again: its target never
\* runs beside the next one.
FailedStartNeverRuns == told = "failed" => ~ran

\* The target runs only when its handle is in the journal: the worker that
\* comes next can find every process that does work.
RunsJournalled == ran => journal # None

\* The target of the attempt as the port sees it: it is held while a bootstrap
\* may still read the token, and void once none will.
Target ==
    IF ran THEN IF Populated THEN "runs" ELSE "gone"
    ELSE IF root = "none" /\ pc \in {"idle", "fork"} /\ told = "none" THEN "none"
    ELSE IF root \in {"forked", "armed", "joined"} /\ gate \in {"held", "token"} /\ ~doomed.root
         THEN "held"
    ELSE "void"

Contained == INSTANCE Containment WITH target <- Target, recorded <- journal # None

\* The backend keeps the promises of its port, across worker deaths, reboots and
\* control files that fail.
Implements == Contained!Spec

\* What the proof adds.  The gate is held, and the handle missing, only before the
\* activation; a token was written for a handle that is in the journal.
StartFits ==
    /\ pc = "fork" \/ (pc = "idle" /\ told = "none") =>
           root = "none" /\ gate = "none" /\ told = "none" /\ ~ran
    /\ pc \in {"assign", "journal", "activate"} <=> gate = "held"
    /\ pc \in {"assign", "journal", "activate"} => told = "none"
    /\ gate = "token" \/ ran \/ pc \in {"activate", "running", "grace", "kill", "wait",
                                       "recover_handle"} => journal # None
    /\ pc \in {"fork", "assign", "journal", "abort_group", "abort_child", "abort_remove",
              "recover", "recover_kill", "recover_remove"}
           \/ told \in {"failed", "never"} \/ (pc = "idle" /\ told = "none") => journal = None

\* A handle names a root that was in the group; of an earlier boot nothing is left.
TreeFits ==
    /\ ran => root \in {"target", "dead"}
    /\ root = "target" \/ kids > 0 => ran
    /\ doomed.root => root \in RootIn \cup {"dead"}
    /\ journal # None \/ pc = "journal" => root \in RootIn \cup {"dead"}
    /\ journal # None => journal <= boot /\ (journal # boot => root = "dead" /\ kids = 0)

\* The inductive invariant.
IInv == TypeOK /\ StartFits /\ TreeFits /\ ProofIsTrue

\* A bootstrap that lost its parent, or whose start was given up, does not stay.
NoneAbandoned == gate = "closed" => root \notin {"forked", "armed", "joined"}
BootstrapEnds == <>[]NoneAbandoned

=============================================================================

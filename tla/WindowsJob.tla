----------------------------- MODULE WindowsJob -----------------------------
(***************************************************************************)
(* The Windows backend (reindex/windows_job.py): one attempt in a named    *)
(* job object that ends with its last handle, the suspended root that is   *)
(* created inside it, the root's children, and the worker that starts,     *)
(* ends and recovers them.  A worker that dies holds its handle of the job *)
(* for a while, next to the worker that comes after it.                    *)
(***************************************************************************)
EXTENDS Naturals, FiniteSets

CONSTANTS MaxKids,    \* bound: children alive at once, by kind
          MaxCrashes, \* bound: deaths of the worker
          MaxFaults   \* bound: native calls that fail

JobAssumption == MaxKids \in Nat /\ MaxCrashes \in Nat /\ MaxFaults \in Nat

VARIABLES pc,      \* the worker's next step, "down" when it is dead
          table,   \* its record of the job: "none", "unsure" or "sure" of the root
          holders, \* who has the job open: "worker", "old" (a worker that ends)
          root,    \* "none", "held", "runs", "dying" after a kill, "dead"
          kids,    \* children that no kill has reached
          dying,   \* children that a kill has reached
          journal, \* the journal has the handle
          told,    \* the last report
          ran,     \* history variable: the root was resumed
          counts   \* [crashes, faults]

processes == <<root, kids, dying>>
worker == <<pc, table, told>>
vars == <<worker, holders, processes, journal, ran, counts>>

Init ==
    /\ pc = "idle" /\ table = "none" /\ holders = {}
    /\ root = "none" /\ kids = 0 /\ dying = 0
    /\ journal = FALSE /\ told = "none" /\ ran = FALSE
    /\ counts = [crashes |-> 0, faults |-> 0]

Alive == {"held", "runs", "dying"}
ActiveProcesses == (IF root \in Alive THEN 1 ELSE 0) + kids + dying
Fault == counts.faults < MaxFaults /\ counts' = [counts EXCEPT !.faults = @ + 1]
Goto(l) == pc' = l
Tell(what) == told' = what

\* TerminateJobObject reaches every process in the job; they end later.
TerminateJob ==
    /\ root' = IF root \in Alive THEN "dying" ELSE root
    /\ dying' = dying + kids /\ kids' = 0

\* KILL_ON_JOB_CLOSE: the last handle ends the job and its name.
HandlesTo(h) ==
    /\ holders' = h
    /\ IF h = {} THEN TerminateJob ELSE UNCHANGED processes

CloseHandle == HandlesTo(holders \ {"worker"})

(***************************************************************************)
(* prepare: the job, the suspended root inside it, the check that it is.   *)
(***************************************************************************)
CreateJob ==
    /\ pc = "idle" /\ told = "none"
    /\ holders' = {"worker"} /\ Goto("create")
    /\ UNCHANGED <<table, told, processes, journal, ran, counts>>

CreateSuspended ==
    /\ pc = "create"
    /\ root' = "held" /\ table' = "unsure" /\ Goto("verify")
    /\ UNCHANGED <<told, holders, kids, dying, journal, ran, counts>>

\* The job or the root cannot be made, or the root's identity cannot be read;
\* a root that was made already dies with the job.  Without a handle the worker
\* asks for a recovery at once.
StartFails ==
    /\ pc \in {"idle", "create"} /\ told = "none"
    /\ \/ UNCHANGED root
       \/ pc = "create" /\ root' = "dying"
    /\ holders' = {} /\ Tell("failed") /\ Goto("recover")
    /\ UNCHANGED <<table, kids, dying, journal, ran, counts>>

\* Mistake: the caller activates before it persists.
VerifyUnjournalled ==
    /\ pc = "verify"
    /\ table' = "sure" /\ Goto("activate")
    /\ UNCHANGED <<told, holders, processes, journal, ran, counts>>

Verify ==
    /\ pc = "verify"
    /\ table' = "sure" /\ Goto("journal")
    /\ UNCHANGED <<told, holders, processes, journal, ran, counts>>

VerifyFails ==
    /\ pc = "verify" /\ Fault /\ Goto("force_start")
    /\ UNCHANGED <<table, told, holders, processes, journal, ran>>

\* A handle that cannot be persisted is only terminated.
Journal ==
    /\ pc = "journal"
    /\ \/ journal' = TRUE /\ Goto("activate")
       \/ Goto("grace") /\ UNCHANGED journal
    /\ UNCHANGED <<table, told, holders, processes, ran, counts>>

ResumeRoot == root' = "runs" /\ ran' = TRUE

Activate ==
    /\ pc = "activate" /\ root = "held"
    /\ ResumeRoot /\ Goto("running")
    /\ UNCHANGED <<table, told, holders, kids, dying, journal, counts>>

\* Mistake: the handle of the thread does not close, and the start counts as one
\* that never was.
ActivateForgotten(resumed) ==
    /\ pc = "activate" /\ root = "held"
    /\ IF resumed THEN ResumeRoot /\ Fault /\ Tell("failed") /\ Goto("recover")
       ELSE Goto("force_start") /\ UNCHANGED <<root, ran, told, counts>>
    /\ UNCHANGED <<table, holders, kids, dying, journal>>

\* The budget is over before the root is resumed, ResumeThread fails, or the
\* handle of its thread does not close.
ActivateFails(resumed) ==
    /\ pc = "activate" /\ root = "held"
    /\ IF resumed THEN ResumeRoot /\ Fault ELSE UNCHANGED <<root, ran, counts>>
    /\ Goto("force_start")
    /\ UNCHANGED <<table, told, holders, kids, dying, journal>>

\* The error carries the handle; the caller tries to persist it.
JournalLate ==
    /\ pc = "journal_late" /\ Goto("idle")
    /\ journal' \in {journal, TRUE}
    /\ UNCHANGED <<table, told, holders, processes, ran, counts>>

(***************************************************************************)
(* The kernel: children, ends, the handles of a dead worker.               *)
(***************************************************************************)
RootForks ==
    /\ root = "runs" \/ kids > 0
    /\ kids + dying < MaxKids
    /\ kids' = kids + 1
    /\ UNCHANGED <<worker, holders, root, dying, journal, ran, counts>>

RootEnds ==
    /\ root \in {"runs", "dying"}
    /\ root' = "dead"
    /\ UNCHANGED <<worker, holders, kids, dying, journal, ran, counts>>

KidEnds ==
    /\ \/ kids > 0 /\ kids' = kids - 1 /\ UNCHANGED dying
       \/ dying > 0 /\ dying' = dying - 1 /\ UNCHANGED kids
    /\ UNCHANGED <<worker, holders, root, journal, ran, counts>>

Teardown ==
    /\ "old" \in holders
    /\ HandlesTo(holders \ {"old"})
    /\ UNCHANGED <<worker, journal, ran, counts>>

Crash ==
    /\ pc # "down" /\ counts.crashes < MaxCrashes
    /\ counts' = [counts EXCEPT !.crashes = @ + 1]
    /\ Goto("down") /\ table' = "none"
    /\ told' = IF told \in {"proof", "never", "failed"} THEN told ELSE "none"
    /\ holders' = IF "worker" \in holders THEN {"old"} ELSE holders
    /\ UNCHANGED <<processes, journal, ran>>

(***************************************************************************)
(* The end of an attempt: terminate, and the wait for its death.           *)
(***************************************************************************)
Terminate ==
    /\ pc \in {"running", "idle"} /\ table # "none" /\ Goto("grace")
    /\ UNCHANGED <<table, told, holders, processes, journal, ran, counts>>

\* ActiveProcesses of the job that the record holds; the root is one of them.
DeathEvidence == ActiveProcesses = 0

Afterwards(state) == IF state = "start_wait" THEN "journal_late" ELSE "idle"

\* Mistake: a query that fails is taken for an empty job.
ConfirmUnread ==
    /\ pc \in {"grace", "wait", "start_wait"} /\ (DeathEvidence \/ counts.faults < MaxFaults)
    /\ Tell("proof") /\ table' = "none" /\ CloseHandle /\ Goto(Afterwards(pc))
    /\ UNCHANGED <<journal, ran, counts>>

Confirm ==
    /\ pc \in {"grace", "wait", "start_wait"} /\ DeathEvidence
    /\ Tell("proof") /\ table' = "none" /\ CloseHandle /\ Goto(Afterwards(pc))
    /\ UNCHANGED <<journal, ran, counts>>

GraceOver ==
    /\ pc = "grace" /\ Goto("force")
    /\ UNCHANGED <<table, told, holders, processes, journal, ran, counts>>

\* The job is terminated, and the root too when it is not known to be inside;
\* each call may fail, and the other is still made.
Force ==
    /\ pc \in {"force", "force_start"}
    /\ \/ TerminateJob /\ UNCHANGED counts
       \/ Fault /\ UNCHANGED processes
       \/ /\ Fault /\ table = "unsure"
          /\ root' = IF root \in Alive THEN "dying" ELSE root
          /\ UNCHANGED <<kids, dying>>
    /\ Goto(IF pc = "force" THEN "wait" ELSE "start_wait")
    /\ UNCHANGED <<table, told, holders, journal, ran>>

\* The deadline; the record stays, and with it the handle of the job.
Unconfirmed ==
    /\ pc \in {"wait", "start_wait"}
    /\ Tell("unconfirmed") /\ Goto(Afterwards(pc))
    /\ UNCHANGED <<table, holders, processes, journal, ran, counts>>

(***************************************************************************)
(* Recovery, by the next worker or after a start that failed.              *)
(***************************************************************************)
Restart ==
    /\ pc = "down" /\ Tell("none")
    /\ Goto(IF journal THEN "recover_handle" ELSE "recover")
    /\ UNCHANGED <<table, holders, processes, journal, ran, counts>>

\* Whoever opens the job keeps it from ending.
OpenJob == holders' = holders \cup {"worker"} /\ UNCHANGED processes

Answer(what) == Tell(what) /\ Goto("idle")

RecoverUnbound ==
    /\ pc = "recover"
    /\ IF holders = {} THEN Answer("never") /\ UNCHANGED <<holders, processes, counts>>
       ELSE \/ OpenJob /\ Goto("recover_kill") /\ UNCHANGED <<told, counts>>
            \/ Fault /\ Answer("unconfirmed") /\ UNCHANGED <<holders, processes>>
    /\ UNCHANGED <<table, journal, ran>>

RecoverKill ==
    /\ pc = "recover_kill"
    /\ \/ TerminateJob /\ Goto("recover_wait") /\ UNCHANGED <<told, holders, counts>>
       \/ Fault /\ Answer("unconfirmed") /\ CloseHandle
    /\ UNCHANGED <<table, journal, ran>>

RecoverWait ==
    /\ pc = "recover_wait"
    /\ \/ DeathEvidence /\ Answer("never")
       \/ Answer("unconfirmed")
    /\ CloseHandle
    /\ UNCHANGED <<table, journal, ran, counts>>

\* Whether the root of the handle is there: OpenProcess and the birth marker.
RootAlive == root \in Alive

\* Mistake: the root is looked for although its job is still open.
RecoverHandleByRoot ==
    /\ pc = "recover_handle"
    /\ IF ~RootAlive THEN Answer("proof") ELSE Answer("unconfirmed")
    /\ UNCHANGED <<table, holders, processes, counts>>
    /\ UNCHANGED <<journal, ran>>

\* An open job is adopted; one that was closed has ended its processes, and the
\* root is looked for.
RecoverHandle ==
    /\ pc = "recover_handle"
    /\ \/ Fault /\ Answer("unconfirmed") /\ UNCHANGED <<table, holders, processes>>
       \/ /\ holders # {} /\ DeathEvidence
          /\ Answer("proof") /\ UNCHANGED <<table, holders, processes, counts>>
       \/ /\ holders # {}
          /\ (~DeathEvidence /\ UNCHANGED counts) \/ Fault
          /\ Answer("active") /\ table' = "sure" /\ OpenJob
       \/ /\ holders = {} /\ UNCHANGED <<table, holders, processes, counts>>
          /\ IF RootAlive THEN Answer("unconfirmed") ELSE Answer("proof")
    /\ UNCHANGED <<journal, ran>>

\* confirm_reference_dead, asked later for what was not confirmed.  A job that is
\* opened for it alone is closed again, and with the last handle it ends.
ConfirmReference ==
    /\ pc = "idle" /\ told = "unconfirmed" /\ journal
    /\ IF table # "none" \/ holders # {}
       THEN IF DeathEvidence THEN Answer("proof") /\ table' = "none" /\ CloseHandle
            ELSE table = "none" /\ OpenJob /\ Goto("confirm") /\ UNCHANGED <<told, table>>
       ELSE ~RootAlive /\ Answer("proof") /\ UNCHANGED <<table, holders, processes>>
    /\ UNCHANGED <<journal, ran, counts>>

ConfirmClose ==
    /\ pc = "confirm"
    /\ Answer(IF DeathEvidence THEN "proof" ELSE "unconfirmed") /\ CloseHandle
    /\ UNCHANGED <<table, journal, ran, counts>>

Next ==
    \/ CreateJob \/ CreateSuspended \/ StartFails \/ Verify \/ VerifyFails
    \/ Journal \/ JournalLate \/ Activate \/ \E resumed \in BOOLEAN : ActivateFails(resumed)
    \/ RootForks \/ RootEnds \/ KidEnds \/ Teardown \/ Crash
    \/ Terminate \/ Confirm \/ GraceOver \/ Force \/ Unconfirmed
    \/ Restart \/ RecoverUnbound \/ RecoverKill \/ RecoverWait \/ RecoverHandle
    \/ ConfirmReference \/ ConfirmClose

Spec == Init /\ [][Next]_vars

-----------------------------------------------------------------------------
(***************************************************************************)
(* Properties                                                              *)
(***************************************************************************)
\* The variables have their types; whoever has a record has the job open, and
\* no process that a kill has not reached is in a job that was closed.
TypeOK ==
    /\ table \in {"none", "unsure", "sure"} /\ holders \subseteq {"worker", "old"}
    /\ root \in {"none", "held", "runs", "dying", "dead"}
    /\ kids \in Nat /\ dying \in Nat /\ kids + dying \in 0..MaxKids
    /\ told \in {"none", "failed", "proof", "never", "active", "unconfirmed"}
    /\ journal \in BOOLEAN /\ ran \in BOOLEAN
    /\ table # "none" => "worker" \in holders
    /\ holders = {} => root \notin {"held", "runs"} /\ kids = 0

\* The target of the attempt as the port sees it: it is held while its worker
\* may still resume it, and it is gone when a kill has reached all that is left.
Target ==
    IF ran THEN IF root = "runs" \/ kids > 0 THEN "runs" ELSE "gone"
    ELSE IF root = "none" /\ pc \in {"idle", "create"} /\ told = "none" THEN "none"
    ELSE IF root = "held" /\ pc \in {"verify", "journal", "activate"} THEN "held"
    ELSE "void"

Contained == INSTANCE Containment WITH target <- Target, recorded <- journal

\* The backend keeps the promises of its port: the root runs only when its handle
\* is persisted, and a failed start, "never started" and a death proof are true,
\* for good, although a worker that dies holds the job for a while.
Implements == Contained!Spec

\* What the proof adds.  Up to the activation the worker alone has the job and a
\* root that was not resumed; a recovery without a handle has no record either.
StartFits ==
    /\ pc = "create" \/ (pc = "idle" /\ told = "none") =>
           root = "none" /\ table = "none" /\ told = "none" /\ ~journal
    /\ pc = "create" => holders = {"worker"}
    /\ pc \in {"verify", "journal", "activate"} =>
           root = "held" /\ holders = {"worker"} /\ told = "none"
    /\ pc = "activate" \/ ran => journal
    /\ pc = "journal_late" => told # "none"
    /\ pc \in {"recover", "recover_kill", "recover_wait"} => ~journal /\ table = "none"
    /\ pc \in {"down", "recover_handle", "confirm"} => table = "none"

\* What was never resumed has no children, and a report is still true.
ReportFits ==
    /\ root = "runs" \/ kids > 0 \/ dying > 0 => ran
    /\ ran => root \notin {"none", "held"}
    /\ told \in {"failed", "never"} => ~journal /\ table = "none"
           /\ pc \in {"idle", "down", "recover", "recover_kill", "recover_wait"}
    /\ told = "proof" => root # "runs" /\ kids = 0 /\ pc \in {"idle", "down", "journal_late"}
           /\ table = "none"

\* The inductive invariant.
IInv == TypeOK /\ StartFits /\ ReportFits

=============================================================================

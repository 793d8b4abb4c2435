---------------------------- MODULE AttemptFiles ----------------------------
(***************************************************************************)
(* The directory of one attempt (reindex/attempt_artifacts.py,             *)
(* file_durability.py, executor_observer.py, attempt_completion.py) with   *)
(* its three writers: the worker creates it, the executor leaves the       *)
(* result and the observer the receipt, the worker reads them after their  *)
(* death and removes the directory.  Any process may be killed between two *)
(* system calls, and the power may fail.                                   *)
(* Simplifications: POSIX only; the file system orders its metadata, so a  *)
(* power loss goes back to a state since the last synchronisation, and the *)
(* write of the control journal is one; one run of one attempt.            *)
(***************************************************************************)
EXTENDS Naturals, FiniteSets

CONSTANTS MaxCrashes,  \* bound: ends of the worker and power losses
          MaxFaults,   \* bound: fsync calls that fail
          None

FilesAssumption == MaxCrashes \in Nat /\ MaxFaults \in Nat /\ None \notin {0, 1}

Fixed == {"spec", "log", "result", "receipt"}
Names == Fixed \cup {"tmp"}
Directories == [at : {"none", "root", "tombstone"}, names : SUBSET Names]
Gone == [at |-> "none", names |-> {}]
Codes == {0, 1, None}
NoWrite == [name |-> "none", at |-> "none"]

VARIABLES dir,       \* the directory and the names in it
          since,     \* what a power loss may leave: its states since the last sync
          result, receipt,   \* the return codes in the files
          journal,   \* the control journal: phase and checkpoint
          acted,     \* the queue action of the checkpoint is done
          worker,    \* the worker's next step
          writes,    \* the file it writes, and how far it is
          executor, observer,
          rc,        \* the return code of the executor
          crashes, faults

disk == <<dir, since, result, receipt>>
processes == <<executor, observer, rc>>
vars == <<disk, journal, acted, worker, writes, processes, crashes, faults>>

Init ==
    /\ dir = Gone /\ since = {Gone} /\ result = None /\ receipt = None
    /\ journal = [phase |-> "none", plan |-> "none"] /\ acted = FALSE
    /\ worker = "create" /\ writes = NoWrite /\ executor = "none" /\ observer = "none" /\ rc = None
    /\ crashes = 0 /\ faults = 0

Fault == faults < MaxFaults /\ faults' = faults + 1
Has(name) == name \in dir.names
Torn == dir.names \ Fixed # {}

\* Mistake: a change counts as durable at once.
ChangeDurable(d) == dir' = d /\ UNCHANGED since
Change(d) == dir' = d /\ since' = since \cup {d}
Put(names) == Change([dir EXCEPT !.names = names])
Sync == since' = {dir} /\ UNCHANGED dir

(***************************************************************************)
(* durable_write_once: a temporary file, written and synchronised; a link  *)
(* to it under the fixed name; the temporary name is removed; the          *)
(* directory is synchronised.                                              *)
(***************************************************************************)
WriteStep(at, to, name) ==
    \/ at = "temp" /\ to = "link" /\ Put(dir.names \cup {"tmp"}) /\ UNCHANGED faults
    \/ at = "link" /\ to = "unlink" /\ Put(dir.names \cup {name}) /\ UNCHANGED faults
    \/ at = "unlink" /\ to = "sync" /\ Put(dir.names \ {"tmp"}) /\ UNCHANGED faults
    \/ at = "sync" /\ to = "done" /\ Sync /\ UNCHANGED faults
    \/ at = "sync" /\ to = "error" /\ Fault /\ UNCHANGED <<dir, since>>

Writing == {"temp", "link", "unlink", "sync"}
Written == Writing \cup {"done", "error"}

(***************************************************************************)
(* The worker.                                                             *)
(***************************************************************************)
Goto(label) == worker' = label /\ writes' = NoWrite
BeginWrite(name) == worker' = "write" /\ writes' = [name |-> name, at |-> "temp"]
Journal(phase, plan) == journal' = [phase |-> phase, plan |-> plan] /\ Sync

CreateJournal ==
    /\ worker = "create" /\ Goto("mkdir") /\ Journal("claimed", "none")
    /\ UNCHANGED <<result, receipt, acted, processes, crashes, faults>>

\* initialize: the directory, its parent synchronised, spec.json, bootstrap.log.
MakeDirectory ==
    /\ worker = "mkdir" /\ Goto("mkdir_sync") /\ Change([at |-> "root", names |-> {}])
    /\ UNCHANGED <<result, receipt, journal, acted, processes, crashes, faults>>

SyncParent ==
    /\ worker = "mkdir_sync"
    /\ \/ BeginWrite("spec") /\ Sync /\ UNCHANGED faults
       \/ Goto("retry_claimed") /\ Fault /\ UNCHANGED <<dir, since>>
    /\ UNCHANGED <<result, receipt, journal, acted, processes, crashes>>

NextFile(name) ==
    CASE name = "spec" -> BeginWrite("log")
      [] name = "log" -> Goto("initialized")
      [] name = "result" -> Goto("blocked")

WorkerWrites ==
    /\ worker = "write"
    /\ \E to \in Written :
          /\ WriteStep(writes.at, to, writes.name)
          /\ CASE to = "error" -> Goto(IF writes.name = "result" THEN "down" ELSE "retry_claimed")
               [] to = "done" -> NextFile(writes.name)
               [] OTHER -> writes' = [writes EXCEPT !.at = to] /\ UNCHANGED worker
    /\ result' = IF writes = [name |-> "result", at |-> "link"] THEN 1 ELSE result
    /\ UNCHANGED <<receipt, journal, acted, processes, crashes>>

\* A dependency that failed for good: the worker itself leaves the result.
BlockDependency ==
    /\ worker = "initialized" /\ BeginWrite("result")
    /\ UNCHANGED <<disk, journal, acted, processes, crashes, faults>>

FinalizeBlock ==
    /\ worker = "blocked" /\ Goto("act") /\ Journal("finalizing", "block")
    /\ UNCHANGED <<result, receipt, acted, processes, crashes, faults>>

Start ==
    /\ worker = "initialized" /\ Goto("control") /\ Journal("executing", "none")
    /\ observer' = "wait" /\ executor' = "run"
    /\ UNCHANGED <<result, receipt, acted, rc, crashes, faults>>

Alive(p) == p \notin {"none", "exited", "dead"}
KillAll ==
    /\ observer' = IF Alive(observer) THEN "dead" ELSE observer
    /\ executor' = IF Alive(executor) THEN "dead" ELSE executor
    /\ UNCHANGED rc

\* The observer has ended by itself, or the containment is killed: at the
\* deadline, or because the worker stops, when what is there is not looked at.
ControlUntilDead ==
    /\ worker = "control"
    /\ \/ observer = "exited" /\ ~Alive(executor) /\ Goto("load") /\ UNCHANGED processes
       \/ KillAll /\ (Goto("load") \/ Goto("incomplete"))
    /\ UNCHANGED <<disk, journal, acted, crashes, faults>>

\* Mistake: a receipt is not asked for.
LoadableResult == dir.at = "root" /\ ~Torn /\ {"spec", "result"} \subseteq dir.names

\* load_validated: no other name in the directory, and a receipt that fits.
Loadable == dir.at = "root" /\ ~Torn /\ {"spec", "result", "receipt"} \subseteq dir.names /\ receipt = result

Load ==
    /\ worker = "load"
    /\ IF Loadable THEN Goto("act") /\ Journal("finalizing", "receipt")
                   ELSE Goto("incomplete") /\ UNCHANGED <<dir, since, journal>>
    /\ UNCHANGED <<result, receipt, acted, processes, crashes, faults>>

FinalizeIncomplete ==
    /\ worker = "incomplete" /\ Goto("act") /\ Journal("finalizing", "incomplete")
    /\ UNCHANGED <<result, receipt, acted, processes, crashes, faults>>

\* Mistake: the files go although the queue did not take the action.
ActUnheard ==
    /\ worker \in {"act", "retry_claimed"} /\ Goto("cleanup") /\ acted' \in BOOLEAN
    /\ UNCHANGED <<disk, journal, processes, crashes, faults>>

\* retry_claimed: nothing was started.
Act ==
    /\ worker \in {"act", "retry_claimed"} /\ Goto("cleanup") /\ acted' = TRUE
    /\ UNCHANGED <<disk, journal, processes, crashes, faults>>

\* cleanup: a tombstone goes on being removed; a root is looked at again and
\* renamed.  What it does not know makes it raise, and the worker ends.
Cleanup ==
    /\ worker = "cleanup"
    /\ CASE dir.at = "none" -> Goto("clear") /\ UNCHANGED <<dir, since>>
         [] dir.at = "tombstone" -> Goto("clean") /\ UNCHANGED <<dir, since>>
         [] dir.at = "root" /\ ~Torn -> Goto("rename_sync") /\ Change([dir EXCEPT !.at = "tombstone"])
         [] dir.at = "root" /\ Torn -> Goto("down") /\ UNCHANGED <<dir, since>>
    /\ UNCHANGED <<result, receipt, journal, acted, processes, crashes, faults>>

RenameSync ==
    /\ worker = "rename_sync" /\ Goto("clean") /\ Sync
    /\ UNCHANGED <<result, receipt, journal, acted, processes, crashes, faults>>

\* _clean_directory: durable_unlink of one name after the other, then rmdir.
CleanDirectory ==
    /\ worker = "clean"
    /\ IF dir.names = {} THEN Goto("clean_sync") /\ Change(Gone)
       ELSE /\ \E name \in dir.names : Put(dir.names \ {name})
            /\ UNCHANGED <<worker, writes>>
    /\ UNCHANGED <<result, receipt, journal, acted, processes, crashes, faults>>

CleanSync ==
    /\ worker = "clean_sync" /\ Goto("clear") /\ Sync
    /\ UNCHANGED <<result, receipt, journal, acted, processes, crashes, faults>>

\* Mistake: the journal is cleared first.
ClearEarly ==
    /\ worker \in {"cleanup", "clear"} /\ Goto("closed") /\ Journal("clear", "none")
    /\ UNCHANGED <<result, receipt, acted, processes, crashes, faults>>

Clear ==
    /\ worker = "clear" /\ Goto("closed") /\ Journal("clear", "none")
    /\ UNCHANGED <<result, receipt, acted, processes, crashes, faults>>

(***************************************************************************)
(* The next worker: verify_journal, the processes, then the checkpoint.    *)
(***************************************************************************)
Restart ==
    /\ worker = "down" /\ journal.phase \notin {"none", "clear"}
    /\ Goto("verify")
    /\ UNCHANGED <<disk, journal, acted, processes, crashes, faults>>

\* Mistake: recovery wants a receipt.
VerifiesReceipt == dir.at = "root" => ~Torn /\ Has("receipt")
Verifies == dir.at = "root" => ~Torn /\ (Has("receipt") => Has("result") /\ receipt = result)

VerifyJournal ==
    /\ worker = "verify"
    /\ Goto(IF Verifies THEN "reconcile" ELSE "down")
    /\ UNCHANGED <<disk, journal, acted, processes, crashes, faults>>

Reconcile ==
    /\ worker = "reconcile" /\ KillAll
    /\ Goto(CASE acted -> "cleanup"
              [] ~acted /\ journal.phase = "claimed" -> "retry_claimed"
              [] ~acted /\ journal.phase = "executing" -> "incomplete"
              [] OTHER -> "replay")
    /\ UNCHANGED <<disk, journal, acted, crashes, faults>>

Replayable(plan) ==
    CASE plan = "receipt" -> Loadable
      [] plan = "block" -> dir.at = "root" /\ ~Torn /\ {"spec", "result"} \subseteq dir.names
      [] plan = "incomplete" -> TRUE

\* _recovered_result: what it does not find is fatal.
Replay ==
    /\ worker = "replay"
    /\ Goto(IF Replayable(journal.plan) THEN "act" ELSE "down")
    /\ UNCHANGED <<disk, journal, acted, processes, crashes, faults>>

(***************************************************************************)
(* The executor and the observer.                                          *)
(***************************************************************************)
\* write_attempt_result_atomic; an error after the link ends it with 1.
Execute ==
    /\ \/ executor = "run" /\ executor' = "temp" /\ UNCHANGED <<dir, since, result, rc, faults>>
       \/ executor = "run" /\ executor' = "exited" /\ rc' = 1 /\ UNCHANGED <<dir, since, result, faults>>
       \/ \E to \in Written, code \in {0, 1} :
             /\ executor \in Writing /\ WriteStep(executor, to, "result")
             /\ IF executor = "link" THEN result' = code ELSE UNCHANGED result /\ code = 0
             /\ executor' = IF to \in Writing THEN to ELSE "exited"
             /\ rc' = IF to = "done" THEN result ELSE IF to = "error" THEN 1 ELSE rc
    /\ UNCHANGED <<receipt, journal, acted, worker, writes, observer, crashes>>

\* Mistake: the receipt repeats the code that the result claims.
ObserveTrusting ==
    /\ observer = "wait" /\ executor = "exited"
    /\ observer' = IF Has("result") THEN "temp" ELSE "exited"
    /\ UNCHANGED <<disk, journal, acted, worker, writes, executor, rc, crashes, faults>>

\* observe_executor: a result whose code is that of the process.
Observe ==
    /\ observer = "wait" /\ executor = "exited"
    /\ observer' = IF Has("result") /\ result = rc THEN "temp" ELSE "exited"
    /\ UNCHANGED <<disk, journal, acted, worker, writes, executor, rc, crashes, faults>>

WriteReceipt ==
    /\ \E to \in Written :
          /\ observer \in Writing /\ WriteStep(observer, to, "receipt")
          /\ observer' = IF to \in Writing THEN to ELSE "exited"
          /\ receipt' = IF observer = "link" THEN result ELSE receipt
    /\ UNCHANGED <<result, journal, acted, worker, writes, executor, rc, crashes>>

\* The observer's own time limit: it ends, the executor goes on until killed.
ObserverTimeout ==
    /\ observer = "wait" /\ Alive(executor) /\ observer' = "exited"
    /\ UNCHANGED <<disk, journal, acted, worker, writes, executor, rc, crashes, faults>>

(***************************************************************************)
(* The worker ends at any step; the power fails.                           *)
(***************************************************************************)
WorkerDies ==
    /\ worker \notin {"create", "down", "closed"} /\ crashes < MaxCrashes /\ crashes' = crashes + 1
    /\ Goto("down")
    /\ UNCHANGED <<disk, journal, acted, processes, faults>>

PowerLoss ==
    /\ worker \notin {"create", "closed"} /\ crashes < MaxCrashes /\ crashes' = crashes + 1
    /\ Goto("down") /\ KillAll
    /\ \E d \in since : dir' = d /\ since' = {d}
    /\ UNCHANGED <<result, receipt, journal, acted, faults>>

Worker ==
    \/ CreateJournal \/ MakeDirectory \/ SyncParent \/ WorkerWrites \/ BlockDependency \/ FinalizeBlock
    \/ Start \/ ControlUntilDead \/ Load \/ FinalizeIncomplete \/ Act
    \/ Cleanup \/ RenameSync \/ CleanDirectory \/ CleanSync \/ Clear
    \/ Restart \/ VerifyJournal \/ Reconcile \/ Replay

Next == Worker \/ Execute \/ Observe \/ WriteReceipt \/ ObserverTimeout \/ WorkerDies \/ PowerLoss

Spec == Init /\ [][Next]_vars

\* The worker goes on and systemd starts it again.
FairSpec == Spec /\ WF_vars(Worker)

-----------------------------------------------------------------------------
(***************************************************************************)
(* Properties                                                              *)
(***************************************************************************)
Plans == {"none", "block", "receipt", "incomplete"}
Phases == {"none", "claimed", "executing", "finalizing", "clear"}
Labels ==
    {"create", "mkdir", "mkdir_sync", "write", "initialized", "blocked",
     "control", "load", "incomplete", "act", "retry_claimed", "cleanup",
     "rename_sync", "clean", "clean_sync", "clear", "closed", "down", "verify",
     "reconcile", "replay"}

TypeOK ==
    /\ dir \in Directories /\ since \subseteq Directories /\ dir \in since
    /\ result \in Codes /\ receipt \in Codes /\ rc \in Codes
    /\ journal \in [phase : Phases, plan : Plans] /\ worker \in Labels
    /\ acted \in BOOLEAN /\ crashes \in 0..MaxCrashes /\ faults \in 0..MaxFaults
    /\ executor \in Writing \cup {"none", "run", "exited", "dead"}
    /\ observer \in Writing \cup {"none", "wait", "exited", "dead"}

\* A receipt vouches for a result that is there, with the code with which the
\* executor really ended: in the directory and in what a power loss may leave.
ReceiptVouches ==
    \A d \in since : d.at = "root" /\ "receipt" \in d.names =>
        "result" \in d.names /\ executor = "exited" /\ receipt = result /\ receipt = rc

\* A checkpoint whose queue action is not done can be replayed, whatever a
\* power loss takes back: recovery never meets its fatal error there.
CheckpointSurvives ==
    journal.phase = "finalizing" /\ journal.plan \in {"receipt", "block"} /\ ~acted =>
        \A d \in since : /\ d.at = "root" /\ {"spec", "result"} \subseteq d.names /\ d.names \subseteq Fixed
                         /\ journal.plan = "receipt" => "receipt" \in d.names

\* The journal is cleared last: nothing of the directory can come back.
NothingLeftBehind == journal.phase = "clear" => since = {Gone} /\ acted

\* Nothing is removed before the queue has acted on it.
RemovedAfterAction == \A d \in since : d.at = "tombstone" => acted

-----------------------------------------------------------------------------
(* What makes them inductive.                                              *)

\* What journal and queue say of the attempt, where the worker is.
WorkerFits ==
    /\ worker = "create" <=> journal.phase = "none"
    /\ worker = "closed" <=> journal.phase = "clear"
    /\ worker \in {"mkdir", "mkdir_sync", "write", "initialized", "blocked", "retry_claimed"} =>
          journal.phase = "claimed" /\ ~acted
    /\ worker \in {"control", "load", "incomplete"} => journal.phase = "executing"
    /\ worker \in {"act", "replay"} => journal.phase = "finalizing" /\ ~acted
    /\ worker \in {"cleanup", "rename_sync", "clean", "clean_sync", "clear", "closed"} => acted
    /\ journal.phase \in {"none", "executing"} => ~acted

\* Executor and observer live only between the start and the worker's proof of
\* their death; the observer writes of an executor that has left its result.
ProcessesFit ==
    /\ journal.phase \in {"none", "claimed"} => executor = "none" /\ observer = "none"
    /\ Alive(executor) \/ Alive(observer) =>
          /\ journal.phase = "executing"
          /\ worker \in {"control", "down", "verify", "reconcile"}
    /\ observer \in Writing => executor = "exited" /\ Has("result") /\ result = rc

Spelled(name) ==
    CASE name = "spec" -> {} [] name = "log" -> {"spec"} [] name = "result" -> {"spec", "log"}

\* What the worker has written so far.
WritesFit ==
    /\ worker = "write" =>
          /\ writes \in [name : {"spec", "log", "result"}, at : Writing]
          /\ \A d \in since : d.at = "root"
          /\ dir.names = Spelled(writes.name)
                 \cup (IF writes.at \in {"link", "unlink"} THEN {"tmp"} ELSE {})
                 \cup (IF writes.at \in {"unlink", "sync"} THEN {writes.name} ELSE {})
    /\ worker = "mkdir_sync" => dir = [at |-> "root", names |-> {}]
    /\ worker \in {"initialized", "blocked"} =>
          /\ since = {dir} /\ dir.at = "root"
          /\ dir.names = {"spec", "log"} \cup (IF worker = "blocked" THEN {"result"} ELSE {})

\* How far the removal is.
DirectoryFits ==
    /\ \A d \in since : d.at = "none" => d = Gone
    /\ journal.phase = "none" => since = {Gone}
    /\ journal.phase = "executing" => \A d \in since : d.at = "root"
    /\ worker \in {"rename_sync", "clean"} => dir.at = "tombstone"
    /\ worker \in {"clean_sync", "clear"} => dir = Gone

\* All of it together is kept by every step.
IInv ==
    /\ TypeOK /\ WorkerFits /\ ProcessesFit /\ WritesFit /\ DirectoryFits
    /\ ReceiptVouches /\ CheckpointSurvives /\ NothingLeftBehind /\ RemovedAfterAction

\* Unless a killed writer left its temporary file, the attempt is closed at some time.
UntornClosed == journal.phase = "clear" \/ (Torn /\ ~Alive(executor) /\ ~Alive(observer))

\* The recovery table: with no result or no receipt the attempt is retried,
\* its files removed and its journal cleared.
AttemptCloses == <>(journal.phase = "clear")

\* The recovery table: a valid result with its receipt is used, not redone.
ReceiptHonoured == [][worker = "reconcile" /\ Loadable => worker' # "incomplete"]_vars
=============================================================================

---------------------------- MODULE Orchestrator ----------------------------
(***************************************************************************)
(* The isolated worker's attempt orchestrator (reindex/orchestrator*.py)   *)
(* over the queue port of WorkQueue: it claims one job at a time, writes   *)
(* the attempt into the control journal, starts the observer process in    *)
(* two phases, watches or kills it, and finalizes.  Every exception that   *)
(* leaves the code ends the worker process (run_forever does not catch),   *)
(* so a raise, a kill and a power cut are all the action Crash, possible   *)
(* between any two steps; the next worker recovers from the journal, the   *)
(* queue and the operating system alone.                                   *)
(*                                                                         *)
(* An attempt is identified by its claim token: run() is never called      *)
(* twice for a claim, recovery only retries it.  Faults (crashes, journal  *)
(* writes that raise with or without effect, ambiguous process reports,    *)
(* failing queue calls) are drawn from a budget of MaxFaults.              *)
(***************************************************************************)
EXTENDS WorkQueue, Naturals

CONSTANTS MaxFaults,          \* bound: faults in a run
          LeasesExpire,       \* another worker may take over an expired lease
                              \* (the Postgres queue; the file queue waits)
          RecoveryRenewFails  \* the renewal in recover() may fail transiently

Attempts == [token : Tokens, key : Keys, target : Targets]

Phases == {"CLAIMED", "PREPARING", "EXECUTING", "TERMINATING", "FINALIZING",
           "QUARANTINED"}

\* Finalization checkpoints: the evidence, and for a receipt the action.
NoProcess == {"dependency_block", "no_process_retry"}
Plans     == NoProcess \cup {"incomplete_artifact", "receipt_retry",
                             "receipt_ack"}
AckPlans  == {"dependency_block", "receipt_ack"}

JournalRec == [attempt : Attempts, phase : Phases, handle : BOOLEAN,
               plan : Plans \cup {None}]

Labels == {"down", "idle", "orphan", "recover_owned", "recover_lost", "gate",
           "block_init", "init", "prepare_mark", "prepare", "start_recover",
           "execute_mark", "activate", "control", "terminate", "kill",
           "kill_lost", "quarantine_queue", "quarantine_journal", "mark",
           "release", "settle", "publish", "ack", "abandon", "cleanup",
           "clear"}

ASSUME OrchestratorAssumption ==
    /\ MaxFaults \in Nat
    /\ LeasesExpire \in BOOLEAN /\ RecoveryRenewFails \in BOOLEAN
    /\ None \notin Targets \cup Grants \cup Attempts
    /\ None \notin Phases \cup Plans \cup JournalRec

VARIABLES journal,    \* the control journal's attempt record, or None
          process,    \* per attempt: the observer's containment
          artifacts,  \* per attempt: its directory, and the result in it
          released,   \* attempts whose input has been released
          manifest,   \* attempts published to the index manifest
          used,       \* claim tokens drawn
          pc,         \* where the worker is
          job,        \* the attempt in the worker's hands, or None
          belief,     \* the journal phase the worker expects to find
          plan,       \* the checkpoint decided on, or None
          proof,      \* the worker holds a death proof of job's process
          then,       \* what follows the observer's death
          faults

durable == <<journal, artifacts, released, manifest>>
worker  == <<pc, job, belief, plan, proof, then>>
vars    == <<wqVars, durable, process, used, worker, faults>>

Init ==
    /\ WQInit
    /\ journal = None
    /\ process = [c \in Tokens |-> "none"]
    /\ artifacts = [c \in Tokens |-> "none"]
    /\ released = {} /\ manifest = {} /\ used = {}
    /\ pc = "down" /\ job = None /\ belief = None /\ plan = None
    /\ proof = FALSE /\ then = "finalize"
    /\ faults = 0

-----------------------------------------------------------------------------
At(label) == pc = label

\* The worker's next step is at label; its other locals keep their values.
Goto(label) == pc' = label /\ UNCHANGED <<job, belief, plan, proof, then>>

\* An exception leaves the worker, or the worker dies: its locals are gone.
Stop ==
    /\ pc' = "down" /\ job' = None /\ belief' = None /\ plan' = None
    /\ proof' = FALSE /\ then' = "finalize"

\* The attempt is closed: back to polling the queue.
Idle ==
    /\ pc' = "idle" /\ job' = None /\ belief' = None /\ plan' = None
    /\ proof' = FALSE /\ then' = "finalize"

Fault   == faults < MaxFaults /\ faults' = faults + 1
NoFault == UNCHANGED faults

\* The claim of attempt j is still ours to renew, retry or acknowledge.
Holds(j) == grant[j.key] # None /\ grant[j.key].token = j.token
Owned(j) == Holds(j) /\ ~barred[j.key]

\* recover_owned: what the worker's owner token holds; quarantined keys are
\* hidden from it.
OwnedKeys == {k \in Keys : grant[k] # None /\ ~barred[k]}
AttemptOn(k) == [token |-> grant[k].token, key |-> k, target |-> grant[k].target]

InHand(c) == job # None /\ job.token = c

\* A process that takes up resources; a gated one waits for activate.
Live(c) == process[c] \in {"gated", "running"}

Record(phase, handle, p) ==
    [attempt |-> job, phase |-> phase, handle |-> handle, plan |-> p]

\* Mistake: a phase table that does not let FINALIZING be written again.
LegalNextOnce ==
    [CLAIMED     |-> {"PREPARING", "FINALIZING"},
     PREPARING   |-> {"EXECUTING", "FINALIZING", "QUARANTINED"},
     EXECUTING   |-> {"TERMINATING", "FINALIZING", "QUARANTINED"},
     TERMINATING |-> {"TERMINATING", "FINALIZING", "QUARANTINED"},
     FINALIZING  |-> {"QUARANTINED"},
     QUARANTINED |-> {}]

\* ControlJournal.transition: phase CAS, identity CAS and the phase table.
LegalNext ==
    [CLAIMED     |-> {"PREPARING", "FINALIZING"},
     PREPARING   |-> {"EXECUTING", "FINALIZING", "QUARANTINED"},
     EXECUTING   |-> {"TERMINATING", "FINALIZING", "QUARANTINED"},
     TERMINATING |-> {"TERMINATING", "FINALIZING", "QUARANTINED"},
     FINALIZING  |-> {"FINALIZING", "QUARANTINED"},
     QUARANTINED |-> {}]

CanTransition(rec, expected) ==
    /\ journal # None /\ journal.attempt = rec.attempt
    /\ journal.phase = expected
    /\ rec.phase \in LegalNext[expected]
    /\ journal.handle => rec.handle
    /\ journal.phase = "FINALIZING" /\ rec.phase = "FINALIZING" =>
          journal = rec

Written(rec, expected) == CanTransition(rec, expected) /\ journal' = rec

\* A transition whose exception the caller swallows: refused by the CAS, or
\* failing with or without effect.
NotWritten(rec, expected) ==
    \/ ~CanTransition(rec, expected) /\ NoFault /\ UNCHANGED journal
    \/ /\ CanTransition(rec, expected) /\ Fault
       /\ journal' \in {journal, rec}

-----------------------------------------------------------------------------
(* The world around the worker.                                            *)

\* begin_publish holds the key's lock until the ack: no request in between.
Fenced(k) == pc \in {"publish", "ack"} /\ job.key = k

Enqueue(k, t) ==
    /\ ~Fenced(k) /\ want[k] # t
    /\ Request(k, t)
    /\ UNCHANGED <<durable, process, used, worker, faults>>

\* break-lease and prune-stale hold the exclusive maintenance lock and the
\* worker's run lock: the worker is down.
Maintain(k) ==
    /\ At("down")
    /\ Return(k) \/ Withdraw(k)
    /\ UNCHANGED <<durable, process, used, worker, faults>>

\* Another worker takes the key over; what it does there is its own matter.
LeaseTaken(k) ==
    /\ LeasesExpire /\ ~Fenced(k) /\ ~barred[k]
    /\ Return(k)
    /\ UNCHANGED <<durable, process, used, worker, faults>>

\* The observer writes its result and receipt, then exits.
ObserverWrites(c) ==
    /\ process[c] = "running" /\ artifacts[c] = "open"
    /\ \E outcome \in {"retryable", "terminal"} :
          artifacts' = [artifacts EXCEPT ![c] = outcome]
    /\ UNCHANGED <<wqVars, journal, released, manifest, process, used, worker,
                   faults>>

ObserverExits(c) ==
    /\ process[c] = "running"
    /\ process' = [process EXCEPT ![c] = "dead"]
    /\ UNCHANGED <<wqVars, durable, used, worker, faults>>

\* The gate of a blocked observer closes with the worker that held it.
GateCloses(c) ==
    /\ process[c] = "gated" /\ ~InHand(c)
    /\ process' = [process EXCEPT ![c] = "dead"]
    /\ UNCHANGED <<wqVars, durable, used, worker, faults>>

Crash ==
    /\ ~At("down") /\ Fault
    /\ Stop
    /\ UNCHANGED <<wqVars, durable, process, used>>

-----------------------------------------------------------------------------
(* Startup: recover_incomplete.                                            *)

\* Mistake: a startup that asks the queue but not the journal.
StartCleanUnjournalled ==
    /\ At("down") /\ OwnedKeys = {}
    /\ Idle
    /\ UNCHANGED <<wqVars, durable, process, used, faults>>

\* Mistake: a startup that asks the journal but not the queue.
StartCleanUnowned ==
    /\ At("down") /\ journal = None
    /\ Idle
    /\ UNCHANGED <<wqVars, durable, process, used, faults>>

StartClean ==
    /\ At("down") /\ journal = None /\ OwnedKeys = {}
    /\ Idle
    /\ UNCHANGED <<wqVars, durable, process, used, faults>>

\* More than one owned claim is fatal, here and in StartRecovery.
StartOrphan(k) ==
    /\ At("down") /\ journal = None /\ OwnedKeys = {k}
    /\ pc' = "orphan" /\ job' = AttemptOn(k)
    /\ UNCHANGED <<wqVars, durable, process, used, belief, plan, proof, then,
                   faults>>

\* Mistake: the orphan claim is noticed and left granted.
OrphanKept ==
    /\ At("orphan") /\ Owned(job)
    /\ Idle
    /\ UNCHANGED <<wqVars, durable, process, used, faults>>

OrphanRetry ==
    /\ At("orphan") /\ Owned(job)
    /\ Return(job.key)
    /\ Idle
    /\ UNCHANGED <<durable, process, used, faults>>

\* _recover_owned, _find_exact_claim and the renewal that decides whether the
\* attempt is finished with authority.  A quarantined record is fatal.
StartRecovery ==
    /\ At("down") /\ journal # None /\ journal.phase # "QUARANTINED"
    /\ OwnedKeys \in {{}, {journal.attempt.key}}
    /\ OwnedKeys # {} => Holds(journal.attempt)
    /\ \/ OwnedKeys # {} /\ pc' = "recover_owned" /\ NoFault
       \/ OwnedKeys = {} /\ pc' = "recover_lost" /\ NoFault
       \/ /\ OwnedKeys # {} /\ RecoveryRenewFails
          /\ pc' = "recover_lost" /\ Fault
    /\ job' = journal.attempt /\ belief' = journal.phase
    /\ plan' = journal.plan
    /\ UNCHANGED <<wqVars, durable, process, used, proof, then>>

\* _replay_with_authority or abandon_without_authority, with the evidence
\* that a checkpoint not yet decided on falls back to.
Replay(withProof, fallback) ==
    /\ plan' = IF plan = None THEN fallback ELSE plan
    /\ proof' = withProof
    /\ pc' = IF At("recover_lost") THEN "abandon"
             ELSE IF belief = "CLAIMED" THEN "release" ELSE "mark"
    /\ UNCHANGED <<job, belief, then>>

RecoverUnstarted ==
    /\ pc \in {"recover_owned", "recover_lost"}
    /\ belief = "CLAIMED" \/ plan \in NoProcess
    /\ Replay(FALSE, "no_process_retry")
    /\ UNCHANGED <<wqVars, durable, process, used, faults>>

\* A backend asked about an attempt without a journalled handle: the blocked
\* process never ran its target, and may be killed on the way.
NeverStarted ==
    /\ process[job.token] # "running"
    /\ process' \in {process, [process EXCEPT ![job.token] =
                        IF Live(job.token) THEN "dead" ELSE @]}

RecoverPreparing ==
    /\ pc \in {"recover_owned", "recover_lost"} /\ belief = "PREPARING"
    /\ NeverStarted
    /\ Replay(FALSE, "no_process_retry")
    /\ UNCHANGED <<wqVars, durable, used, faults>>

HasProcess == belief # "CLAIMED" /\ plan \notin NoProcess

RecoverDead ==
    /\ pc \in {"recover_owned", "recover_lost"} /\ HasProcess
    /\ process[job.token] = "dead"
    /\ Replay(TRUE, "incomplete_artifact")
    /\ UNCHANGED <<wqVars, durable, process, used, faults>>

\* A FINALIZING attempt is killed without another TERMINATING record.
RecoverActive ==
    /\ pc \in {"recover_owned", "recover_lost"} /\ HasProcess
    /\ Live(job.token)
    /\ Goto(IF At("recover_lost") THEN "kill_lost"
            ELSE IF belief = "FINALIZING" THEN "kill" ELSE "terminate")
    /\ UNCHANGED <<wqVars, durable, process, used, faults>>

\* UNCONFIRMED: quarantine what is owned and has a handle, else stop.
RecoverUnclear ==
    /\ pc \in {"recover_owned", "recover_lost"} /\ HasProcess
    /\ Fault
    /\ IF At("recover_owned") /\ belief # "PREPARING"
       THEN Goto("quarantine_queue") ELSE Stop
    /\ UNCHANGED <<wqVars, durable, process, used>>

-----------------------------------------------------------------------------
(* A new claim: _dispatch and the first half of run.                       *)

Claim(k, c) ==
    /\ At("idle") /\ c \notin used
    /\ Grant(k, c)
    /\ used' = used \cup {c}
    /\ pc' = "gate" /\ job' = [token |-> c, key |-> k, target |-> want[k]]
    /\ UNCHANGED <<durable, process, belief, plan, proof, then, faults>>

\* The dependency gate says WAIT (retry), or the target commit is illegal
\* (reject, which keeps a newer request).
GateTurnsBack ==
    /\ At("gate") /\ Owned(job)
    /\ Return(job.key) \/ Finish(job.key)
    /\ Idle
    /\ UNCHANGED <<durable, process, used, faults>>

\* RUN or BLOCK: the attempt enters the journal.
CreateJournal ==
    /\ At("gate") /\ Owned(job) /\ journal = None
    /\ journal' = Record("CLAIMED", FALSE, None)
    /\ \E next \in {"init", "block_init"} : pc' = next
    /\ belief' = "CLAIMED"
    /\ UNCHANGED <<wqVars, artifacts, released, manifest, process, used, job,
                   plan, proof, then, faults>>

\* _dependency_block: the parent writes the FAILED result itself.
InitBlocked ==
    /\ At("block_init")
    /\ artifacts' = [artifacts EXCEPT ![job.token] = "terminal"]
    /\ plan' = "dependency_block" /\ pc' = "mark"
    /\ UNCHANGED <<wqVars, journal, released, manifest, process, used, job,
                   belief, proof, then, faults>>

InitArtifacts ==
    /\ At("init")
    /\ artifacts' = [artifacts EXCEPT ![job.token] = "open"]
    /\ Goto("prepare_mark")
    /\ UNCHANGED <<wqVars, journal, released, manifest, process, used, faults>>

\* finalizer.retry_claimed: the journal still says CLAIMED, or should.
RetryClaimed ==
    /\ plan' = "no_process_retry" /\ pc' = "release"
    /\ UNCHANGED <<job, belief, proof, then>>

InitFails ==
    /\ At("init") /\ Fault
    /\ RetryClaimed
    /\ UNCHANGED <<wqVars, durable, process, used>>

MarkPreparing ==
    /\ At("prepare_mark")
    /\ Written(Record("PREPARING", FALSE, None), "CLAIMED")
    /\ pc' = "prepare" /\ belief' = "PREPARING"
    /\ UNCHANGED <<wqVars, artifacts, released, manifest, process, used, job,
                   plan, proof, then, faults>>

MarkPreparingFails ==
    /\ At("prepare_mark")
    /\ NotWritten(Record("PREPARING", FALSE, None), "CLAIMED")
    /\ RetryClaimed
    /\ UNCHANGED <<wqVars, artifacts, released, manifest, process, used>>

-----------------------------------------------------------------------------
(* Starting the observer in two phases.                                    *)

Prepare ==
    /\ At("prepare")
    /\ process' = [process EXCEPT ![job.token] = "gated"]
    /\ Goto("execute_mark")
    /\ UNCHANGED <<wqVars, durable, used, faults>>

\* A start error carries a proof, or the caller has to terminate; an error
\* that is not retryable ends in quarantine, also of a dead process.
AfterStartError(dead, retryable, phase) ==
    /\ retryable => dead
    /\ belief' = phase
    /\ then' = IF retryable THEN "finalize" ELSE "quarantine"
    /\ proof' = dead
    /\ plan' = IF dead /\ retryable THEN "incomplete_artifact" ELSE None
    /\ pc' = IF ~dead THEN "terminate"
             ELSE IF retryable THEN "mark" ELSE "quarantine_queue"
    /\ UNCHANGED job

\* _handle_start_error with a handle: try to journal it first.
PrepareFails ==
    /\ At("prepare") /\ Fault
    /\ \E dead, retryable, written \in BOOLEAN :
          /\ process' = [process EXCEPT ![job.token] =
                IF dead THEN "dead" ELSE "gated"]
          /\ journal' = IF written THEN Record("EXECUTING", TRUE, None)
                                   ELSE journal
          /\ AfterStartError(dead, retryable,
                IF written THEN "EXECUTING" ELSE "PREPARING")
    /\ UNCHANGED <<wqVars, artifacts, released, manifest, used>>

\* Without a handle, or an unknown exception (never retryable): ask the
\* backend what is there.
PrepareFailsBlindly ==
    /\ At("prepare") /\ Fault
    /\ \E state \in {"none", "gated", "dead"} :
          process' = [process EXCEPT ![job.token] = state]
    /\ \E next \in {"finalize", "quarantine"} : then' = next
    /\ pc' = "start_recover"
    /\ UNCHANGED <<wqVars, durable, used, job, belief, plan, proof>>

\* NEVER_STARTED: retry, or keep PREPARING for the next startup.
StartRecoverNever ==
    /\ At("start_recover")
    /\ NeverStarted
    /\ IF then = "finalize"
       THEN /\ plan' = "no_process_retry" /\ pc' = "mark"
            /\ UNCHANGED <<job, belief, proof, then>>
       ELSE Stop
    /\ UNCHANGED <<wqVars, durable, used, faults>>

StartRecoverFound ==
    /\ At("start_recover") /\ process[job.token] \in {"gated", "dead"}
    /\ IF Live(job.token) THEN Goto("terminate")
       ELSE /\ proof' = TRUE
            /\ plan' = IF then = "finalize" THEN "incomplete_artifact"
                                            ELSE None
            /\ pc' = IF then = "finalize" THEN "mark" ELSE "quarantine_queue"
            /\ UNCHANGED <<job, belief, then>>
    /\ UNCHANGED <<wqVars, durable, process, used, faults>>

MarkExecuting ==
    /\ At("execute_mark")
    /\ Written(Record("EXECUTING", TRUE, None), "PREPARING")
    /\ pc' = "activate" /\ belief' = "EXECUTING"
    /\ UNCHANGED <<wqVars, artifacts, released, manifest, process, used, job,
                   plan, proof, then, faults>>

\* Mistake: the observer is activated whether or not EXECUTING is written.
MarkExecutingIgnored ==
    /\ At("execute_mark")
    /\ NotWritten(Record("EXECUTING", TRUE, None), "PREPARING")
    /\ Goto("activate")
    /\ UNCHANGED <<wqVars, artifacts, released, manifest, process, used>>

MarkExecutingFails ==
    /\ At("execute_mark")
    /\ NotWritten(Record("EXECUTING", TRUE, None), "PREPARING")
    /\ Goto("terminate")
    /\ UNCHANGED <<wqVars, artifacts, released, manifest, process, used>>

\* A lost lease: the observer is killed, the worker stops.
LoseLease ==
    /\ pc \in {"activate", "control"}
    /\ Owned(job) => Fault
    /\ ~Owned(job) => NoFault
    /\ pc' = "terminate" /\ then' = "stop"
    /\ UNCHANGED <<wqVars, durable, process, used, job, belief, plan, proof>>

Activate ==
    /\ At("activate") /\ Owned(job)
    /\ process' = [process EXCEPT ![job.token] = "running"]
    /\ Goto("control")
    /\ UNCHANGED <<wqVars, durable, used, faults>>

\* A start error with or without proof, or an exception that says nothing.
ActivateFails ==
    /\ At("activate") /\ Owned(job) /\ Fault
    /\ \/ \E dead \in BOOLEAN :
             /\ process' = [process EXCEPT ![job.token] =
                   IF dead THEN "dead" ELSE @]
             /\ AfterStartError(dead, dead, "EXECUTING")
       \/ /\ process' \in {process, [process EXCEPT ![job.token] = "running"]}
          /\ Goto("terminate")
    /\ UNCHANGED <<wqVars, durable, used>>

-----------------------------------------------------------------------------
(* control_until_dead, termination and quarantine.                         *)

\* Mistake: the outcome is taken over as read, an unfinished one included.
ReceiptPlanRaw(c) ==
    CASE artifacts[c] = "terminal" -> "receipt_ack"
      [] OTHER                     -> artifacts[c]

ReceiptPlan(c) ==
    CASE artifacts[c] = "retryable" -> "receipt_retry"
      [] artifacts[c] = "terminal"  -> "receipt_ack"
      [] OTHER                      -> "incomplete_artifact"

\* The observer exited by itself and its death is confirmed; an unreadable
\* result counts as incomplete.
ObserveDeath ==
    /\ At("control") /\ process[job.token] = "dead"
    /\ proof' = TRUE /\ pc' = "mark"
    /\ \/ plan' = ReceiptPlan(job.token) /\ NoFault
       \/ plan' = "incomplete_artifact" /\ Fault
    /\ UNCHANGED <<wqVars, durable, process, used, job, belief, then>>

\* Deadline, heartbeat failure, poll failure, death not confirmed.
Interrupt ==
    /\ At("control")
    /\ Goto("terminate")
    /\ UNCHANGED <<wqVars, durable, process, used, faults>>

\* terminate_or_quarantine: journal TERMINATING if that is possible, renew
\* for the time of the kill, and go on without either.
BeginTermination ==
    LET rec == Record("TERMINATING", TRUE, None)
    IN  /\ At("terminate")
        /\ \/ Written(rec, belief) /\ belief' = "TERMINATING" /\ NoFault
           \/ NotWritten(rec, belief) /\ UNCHANGED belief
        /\ then' = IF Owned(job) THEN then ELSE "stop"
        /\ pc' = "kill"
        /\ UNCHANGED <<wqVars, artifacts, released, manifest, process, used,
                       job, plan, proof>>

Kill ==
    /\ At("kill")
    /\ process' = [process EXCEPT ![job.token] = "dead"]
    /\ IF then = "stop" THEN Stop
       ELSE /\ proof' = TRUE
            /\ plan' = IF plan = None THEN "incomplete_artifact" ELSE plan
            /\ pc' = IF then = "finalize" THEN "mark" ELSE "quarantine_queue"
            /\ UNCHANGED <<job, belief, then>>
    /\ UNCHANGED <<wqVars, durable, used, faults>>

\* Mistake: a kill that raised counts as a death proof.
KillAssumed ==
    /\ At("kill") /\ Fault
    /\ process' \in {process, [process EXCEPT ![job.token] = "dead"]}
    /\ proof' = TRUE /\ plan' = "incomplete_artifact" /\ pc' = "mark"
    /\ UNCHANGED <<wqVars, durable, used, job, belief, then>>

KillUnclear ==
    /\ At("kill") /\ Fault
    /\ process' \in {process, [process EXCEPT ![job.token] = "dead"]}
    /\ Goto("quarantine_queue")
    /\ UNCHANGED <<wqVars, durable, used>>

\* Mistake: an observer without a claim is left to end by itself.
KillLostSpared ==
    /\ At("kill_lost")
    /\ proof' = TRUE /\ pc' = "abandon"
    /\ plan' = IF plan = None THEN "incomplete_artifact" ELSE plan
    /\ UNCHANGED <<wqVars, durable, process, used, job, belief, then, faults>>

\* _terminate_unowned.
KillLost ==
    /\ At("kill_lost")
    /\ process' = [process EXCEPT ![job.token] = "dead"]
    /\ proof' = TRUE /\ pc' = "abandon"
    /\ plan' = IF plan = None THEN "incomplete_artifact" ELSE plan
    /\ UNCHANGED <<wqVars, durable, used, job, belief, then, faults>>

\* quarantine: first the key, then the journal, each even if the other fails;
\* the worker stops with OrchestratorQuarantined.
QuarantineQueue ==
    /\ At("quarantine_queue")
    /\ \/ Holds(job) /\ Bar(job.key) /\ NoFault
       \/ Holds(job) /\ UNCHANGED wqVars /\ Fault
       \/ ~Holds(job) /\ UNCHANGED wqVars /\ NoFault
    /\ Goto("quarantine_journal")
    /\ UNCHANGED <<durable, process, used>>

QuarantineJournal ==
    LET rec == Record("QUARANTINED", TRUE, None)
    IN  /\ At("quarantine_journal")
        /\ \/ Written(rec, belief) /\ NoFault
           \/ NotWritten(rec, belief)
        /\ Stop
        /\ UNCHANGED <<wqVars, artifacts, released, manifest, process, used>>

-----------------------------------------------------------------------------
(* finalize, retry_claimed and abandon_without_authority.                  *)

\* What _recovered_result and validate_finalization_checkpoint ask for.
EvidenceAt(c, p) ==
    /\ p \in AckPlans => artifacts[c] = "terminal"
    /\ p = "receipt_retry" => artifacts[c] = "retryable"

MarkFinalizing ==
    /\ At("mark") /\ EvidenceAt(job.token, plan)
    /\ Written(Record("FINALIZING", plan \notin NoProcess, plan), belief)
    /\ pc' = "release" /\ belief' = "FINALIZING"
    /\ UNCHANGED <<wqVars, artifacts, released, manifest, process, used, job,
                   plan, proof, then, faults>>

MarkFinalizingRefused ==
    /\ At("mark")
    /\ \/ ~EvidenceAt(job.token, plan)
       \/ ~CanTransition(Record("FINALIZING", plan \notin NoProcess, plan),
                         belief)
    /\ Stop
    /\ UNCHANGED <<wqVars, durable, process, used, faults>>

\* _release_input: never without a proof when there was a process.
Releasable == plan \in NoProcess \/ proof

\* Mistake: the artifacts go with the input, before the queue action.
ReleaseEverything ==
    /\ At("release") /\ Releasable
    /\ belief = "FINALIZING" => Owned(job)
    /\ released' = released \cup {job.token}
    /\ artifacts' = [artifacts EXCEPT ![job.token] = "none"]
    /\ Goto("settle")
    /\ UNCHANGED <<wqVars, journal, manifest, process, used, faults>>

ReleaseInput ==
    /\ At("release") /\ Releasable
    /\ belief = "FINALIZING" => Owned(job)
    /\ released' = released \cup {job.token}
    /\ Goto("settle")
    /\ UNCHANGED <<wqVars, journal, artifacts, manifest, process, used, faults>>

\* _apply_queue_action.
SettleRetry ==
    /\ At("settle") /\ Owned(job)
    /\ plan \notin AckPlans \/ want[job.key] # job.target
    /\ Return(job.key)
    /\ Goto("cleanup")
    /\ UNCHANGED <<durable, process, used, faults>>

\* Mistake: no look at the queued version before publishing.
BeginPublishStale ==
    /\ At("settle") /\ Owned(job)
    /\ plan \in AckPlans
    /\ Goto("publish")
    /\ UNCHANGED <<wqVars, durable, process, used, faults>>

\* Mistake: the claim is acknowledged without publishing first.
BeginPublishAcked ==
    /\ At("settle") /\ Owned(job)
    /\ plan \in AckPlans /\ want[job.key] = job.target
    /\ Goto("ack")
    /\ UNCHANGED <<wqVars, durable, process, used, faults>>

BeginPublish ==
    /\ At("settle") /\ Owned(job)
    /\ plan \in AckPlans /\ want[job.key] = job.target
    /\ Goto("publish")
    /\ UNCHANGED <<wqVars, durable, process, used, faults>>

Publish ==
    /\ At("publish")
    /\ manifest' = manifest \cup {job}
    /\ Goto("ack")
    /\ UNCHANGED <<wqVars, journal, artifacts, released, process, used, faults>>

\* A request for the same target, made while it was worked on, stays queued.
Ack ==
    /\ At("ack")
    /\ Finish(job.key) \/ Return(job.key)
    /\ Goto("cleanup")
    /\ UNCHANGED <<durable, process, used, faults>>

AbandonInput ==
    /\ At("abandon") /\ Releasable
    /\ released' = released \cup {job.token}
    /\ Goto("cleanup")
    /\ UNCHANGED <<wqVars, journal, artifacts, manifest, process, used, faults>>

CleanArtifacts ==
    /\ At("cleanup")
    /\ artifacts' = [artifacts EXCEPT ![job.token] = "none"]
    /\ Goto("clear")
    /\ UNCHANGED <<wqVars, journal, released, manifest, process, used, faults>>

\* ControlJournal.clear, with its phase and identity CAS.
CanClear == journal # None /\ journal.attempt = job /\ journal.phase = belief

ClearJournal ==
    /\ At("clear") /\ CanClear
    /\ journal' = None
    /\ Idle
    /\ UNCHANGED <<wqVars, artifacts, released, manifest, process, used, faults>>

\* A call that finds the claim or the journal changed raises.
FindsChanged ==
    /\ \/ pc \in {"orphan", "gate", "settle"} /\ ~Owned(job)
       \/ At("release") /\ belief = "FINALIZING" /\ ~Owned(job)
       \/ At("clear") /\ ~CanClear
    /\ Stop
    /\ UNCHANGED <<wqVars, durable, process, used, faults>>

-----------------------------------------------------------------------------
Recovery ==
    \/ StartClean \/ (\E k \in Keys : StartOrphan(k)) \/ OrphanRetry
    \/ StartRecovery \/ RecoverUnstarted \/ RecoverPreparing \/ RecoverDead
    \/ RecoverActive \/ RecoverUnclear

Startup ==
    \/ GateTurnsBack \/ CreateJournal \/ InitBlocked
    \/ InitArtifacts \/ InitFails \/ MarkPreparing \/ MarkPreparingFails
    \/ Prepare \/ PrepareFails \/ PrepareFailsBlindly
    \/ StartRecoverNever \/ StartRecoverFound
    \/ MarkExecuting \/ MarkExecutingFails \/ Activate \/ ActivateFails

Control ==
    \/ LoseLease \/ ObserveDeath \/ Interrupt \/ BeginTermination
    \/ Kill \/ KillUnclear \/ KillLost \/ QuarantineQueue \/ QuarantineJournal

Finalization ==
    \/ MarkFinalizing \/ MarkFinalizingRefused \/ ReleaseInput \/ SettleRetry
    \/ BeginPublish \/ Publish \/ Ack \/ AbandonInput \/ CleanArtifacts
    \/ ClearJournal \/ FindsChanged

Poll == \E k \in Keys, c \in Tokens : Claim(k, c)

Worker == Recovery \/ Poll \/ Startup \/ Control \/ Finalization

Environment ==
    \/ \E k \in Keys : \/ Maintain(k) \/ LeaseTaken(k)
                       \/ \E t \in Targets : Enqueue(k, t)
    \/ \E c \in Tokens : ObserverWrites(c) \/ ObserverExits(c) \/ GateCloses(c)
    \/ Crash

Next == Worker \/ Environment

Spec == Init /\ [][Next]_vars

\* The worker's loop goes on and its supervisor restarts it; nothing is
\* assumed of the observer, the operators or the requests.
FairSpec == Spec /\ WF_vars(Worker)

-----------------------------------------------------------------------------
(* Correctness.                                                            *)

\* Every record, process and local holds a value the code can put there.
TypeOK ==
    /\ want \in [Keys -> Targets \cup {None}]
    /\ grant \in [Keys -> Grants \cup {None}]
    /\ barred \in [Keys -> BOOLEAN]
    /\ journal \in JournalRec \cup {None}
    /\ process \in [Tokens -> {"none", "gated", "running", "dead"}]
    /\ artifacts \in [Tokens -> {"none", "open", "retryable", "terminal"}]
    /\ released \in SUBSET Tokens /\ manifest \in SUBSET Attempts
    /\ used \in SUBSET Tokens
    /\ pc \in Labels /\ job \in Attempts \cup {None}
    /\ belief \in Phases \cup {None} /\ plan \in Plans \cup {None}
    /\ proof \in BOOLEAN /\ then \in {"finalize", "stop", "quarantine"}
    /\ faults \in 0 .. MaxFaults

\* An observer past its gate is the one in the journal, with its handle: a
\* worker that dies at any moment leaves nothing running that the next one
\* could not find and kill, and two observers never run side by side.
NoStrayObserver ==
    \A c \in Tokens :
        process[c] = "running" =>
            /\ journal # None /\ journal.attempt.token = c
            /\ journal.handle

\* The input and the artifact directory of an attempt outlive its observer,
\* whatever path of finalization, retry or abandonment released them.
InputsOutliveObserver ==
    \A c \in Tokens :
        process[c] = "running" => c \notin released /\ artifacts[c] # "none"

\* At a startup at most one claim is owned, and if an attempt is journalled
\* it is that attempt's: the two fatal checks of recover() never fire.
RecoveryFindsItsClaim ==
    At("down") =>
        \/ OwnedKeys = {}
        \/ \E k \in Keys :
              /\ OwnedKeys = {k}
              /\ journal # None => AttemptOn(k) = journal.attempt

\* A checkpoint whose claim is still owned can be replayed: the result it
\* names is still in the artifact directory.
CheckpointReplayable ==
    (journal # None /\ journal.plan # None /\ Owned(journal.attempt)) =>
        EvidenceAt(journal.attempt.token, journal.plan)

\* An attempt reaches the manifest only after its observer is confirmed dead
\* (or never existed), with a terminal result on disk, while its claim is
\* held, not quarantined and still the wanted target.
PublicationWitnessed ==
    [][\A j \in manifest' \ manifest :
         /\ process[j.token] \in {"none", "dead"}
         /\ artifacts[j.token] = "terminal"
         /\ Owned(j) /\ want[j.key] = j.target]_vars

\* Finalization forgets a wanted target only after its attempt has been
\* published, across every crash and replay between the two.
AckedAfterPublication ==
    [][\A k \in Keys :
         want'[k] # want[k] /\ want'[k] = None /\ pc \notin {"down", "gate"}
            => \E j \in manifest : /\ j.token = grant[k].token
                                   /\ j.target = want[k]]_vars

\* No job is claimed while an earlier attempt is journalled or running.
ClaimsOneAtATime ==
    [][used' # used =>
         journal = None /\ \A c \in Tokens : process[c] # "running"]_vars

\* The three together: one job at a time, published only when its result is
\* witnessed, and forgotten only when it was published.
PublicationSound ==
    PublicationWitnessed /\ AckedAfterPublication /\ ClaimsOneAtATime

\* Once faults stop, a journalled attempt is settled or quarantined.
AttemptSettles ==
    journal # None ~> journal = None \/ journal.phase = "QUARANTINED"

\* A claim does not stay granted for ever: it is finished, given back, or
\* quarantined with its key or its journal.
ClaimsEnd ==
    \A k \in Keys :
        grant[k] # None ~>
            \/ grant[k] = None \/ barred[k]
            \/ journal # None /\ journal.phase = "QUARANTINED"

\* An observer past its gate is dead in the end, or a human has been called.
ObserverEnds ==
    \A c \in Tokens :
        process[c] = "running" ~>
            \/ process[c] # "running"
            \/ journal # None /\ journal.phase = "QUARANTINED"

\* The three together: attempt, claim and observer come to an end.
AttemptsEnd == AttemptSettles /\ ClaimsEnd /\ ObserverEnds
-----------------------------------------------------------------------------
(* The inductive invariant: where the worker is says what is in its hands,  *)
(* what the journal says and what the attempt's process may still do.       *)

Recovering == {"recover_owned", "recover_lost"}
Starting   == {"prepare_mark", "prepare", "start_recover", "execute_mark",
               "activate"}
Closing    == {"release", "settle", "publish", "ack", "abandon", "cleanup",
               "clear"}

Unstarted(c) == process[c] = "none"
Ended(c)     == process[c] # "running"

\* The worker has an attempt in its hands from the claim to its last step,
\* and it is the journalled one as soon as it has been journalled.
JobInv ==
    /\ job = None <=> pc \in {"down", "idle"}
    /\ pc \in {"idle", "orphan", "gate"} => journal = None
    /\ pc \notin {"down", "idle", "orphan", "gate"} =>
          journal # None /\ journal.attempt = job

\* A claim token that was never drawn has left no trace.
TokenInv ==
    /\ pc \notin {"down", "idle", "orphan"} => job.token \in used
    /\ journal # None => journal.attempt.token \in used
    /\ \A c \in Tokens \ used :
          Unstarted(c) /\ artifacts[c] = "none" /\ c \notin released

\* A record has a handle when its phase says so, a checkpoint only when it is
\* FINALIZING, and no process where its phase or its checkpoint excludes one.
RecordInv ==
    journal # None =>
        LET c == journal.attempt.token IN
        /\ journal.phase \in {"CLAIMED", "PREPARING"} => ~journal.handle
        /\ journal.phase \in {"EXECUTING", "TERMINATING", "QUARANTINED"} =>
              journal.handle
        /\ journal.phase = "FINALIZING" =>
              (journal.handle <=> journal.plan \notin NoProcess)
        /\ journal.phase = "FINALIZING" <=> journal.plan # None
        /\ journal.phase = "CLAIMED" \/ journal.plan = "dependency_block" =>
              Unstarted(c)
        /\ journal.phase = "FINALIZING" => Ended(c)

\* The phase the worker relies on is the one in the journal, wherever it has
\* not swallowed the failure of a transition.
PhaseInv ==
    /\ pc \in {"init", "block_init", "prepare_mark"} =>
          journal.phase = "CLAIMED"
    /\ pc \in {"prepare", "start_recover", "execute_mark"} =>
          journal.phase = "PREPARING"
    /\ pc = "activate" => journal.phase = "EXECUTING"
    /\ pc \in {"control", "terminate", "kill", "kill_lost"} =>
          journal.phase # "CLAIMED" /\ journal.plan \notin NoProcess
    /\ pc \in Recovering => belief = journal.phase /\ plan = journal.plan
    /\ pc \notin {"down", "idle", "orphan", "gate"} => belief # None

\* What the attempt's process may still do, at each step of the worker.
ProcessInv ==
    /\ pc \in {"gate", "init", "block_init", "prepare_mark"} =>
          Unstarted(job.token)
    /\ pc \in Starting \cup {"mark"} \cup Closing => Ended(job.token)
    /\ proof => /\ pc \in Closing \cup {"mark", "quarantine_queue",
                                        "quarantine_journal"}
                /\ process[job.token] = "dead"
    /\ plan \in NoProcess => pc \in Recovering \cup {"mark"} \cup Closing
    /\ plan = "dependency_block" => Unstarted(job.token)
    /\ pc \in Closing \cup {"mark"} =>
          plan # None /\ (proof \/ plan \in NoProcess)

\* Input and artifacts are there until the finalization lets go of them, and
\* the evidence for what it does stays.
InputInv ==
    /\ pc \in {"gate", "init", "block_init"} \cup Starting =>
          job.token \notin released
    /\ pc \in Starting => artifacts[job.token] # "none"
    /\ pc \in {"release", "settle", "publish"} => EvidenceAt(job.token, plan)

\* From begin_publish to the acknowledgement the claim is fenced.
PublishInv ==
    /\ pc \in {"publish", "ack"} => Owned(job) /\ want[job.key] = job.target
    /\ pc = "publish" => plan \in AckPlans
    /\ pc = "ack" => job \in manifest

\* At most one claim is owned, the one in the worker's hands and in the
\* journal, and none when the attempt is closed or abandoned.  A recovery that
\* reads a failed renewal as a lost claim breaks this.
ClaimInv ==
    /\ pc \in {"idle", "recover_lost", "kill_lost", "abandon", "cleanup",
               "clear"} => OwnedKeys = {}
    /\ \A k \in OwnedKeys :
          /\ \A other \in OwnedKeys : other = k
          /\ job # None => AttemptOn(k) = job
          /\ journal # None => AttemptOn(k) = journal.attempt
    /\ CheckpointReplayable

IInv ==
    /\ TypeOK /\ JobInv /\ TokenInv /\ RecordInv /\ PhaseInv /\ ProcessInv
    /\ InputInv /\ PublishInv
    /\ NoStrayObserver /\ InputsOutliveObserver
    /\ ~RecoveryRenewFails => ClaimInv
=============================================================================

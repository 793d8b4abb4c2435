------------------------------ MODULE FileQueue ------------------------------
(***************************************************************************)
(* The file-spool queue (reindex/file_queue*.py) at the grain of its       *)
(* durable file operations.  A key owns one file per phase directory       *)
(* (pending, active, results, quarantined); write_json_atomic replaces a   *)
(* file and durable_unlink removes it, each atomically and durably.  Every *)
(* operation runs under the lock of its key, but one that changes two or   *)
(* three files does so in as many steps, and its process may raise or die  *)
(* between any two of them.                                                *)
(*                                                                         *)
(* An operation's first step takes the key lock, evaluates the code's      *)
(* guards and does its first durable change; pc[p] names the durable       *)
(* changes still to be made on key on[p].  Claims are used through         *)
(* view[p], the record p last claimed, recovered or listed, which may be   *)
(* stale by then.                                                          *)
(***************************************************************************)
EXTENDS Naturals

CONSTANTS Keys,      \* "project__kind"
          Targets,   \* target commits
          Procs,     \* processes (or threads) that use one spool directory
          Owners,    \* owner tokens
          OwnerOf,   \* [Procs -> Owners], owner token a process claims with
          MaxNow,    \* bound: fresh stamps and claim tokens drawn in a run
          None

Stamps == 1 .. MaxNow

\* pending/<key>.json: at is enqueued_at, ver the pending_token of this write.
PendingRec == [target : Targets, at : Stamps, ver : Stamps]

\* active/<key>.json: lease stamps the write that set lease_expires_at.
ActiveRec == [target : Targets, at : Stamps, token : Stamps,
              owner : Owners, lease : Stamps]

\* results/<key>.json: the outcome of the claim with this token.
ResultRec == [token : Stamps \cup {None},
              status : {"completed", "superseded", "failed", "discarded"}]

\* A Job or ClaimedJob in a caller's hands: the key with the record it read.
ClaimView   == [key : Keys, rec : ActiveRec]
PendingView == [key : Keys, rec : PendingRec]

Labels == {"idle", "claim_unlink", "claim_undo", "drop_active",
           "clear_active", "clear_mark", "discard_unlink",
           "publish", "publish_superseded", "publish_ack"}

ASSUME NoneAssumption ==
    /\ None \notin Procs \cup Targets \cup Owners \cup Keys \cup Stamps
    /\ None \notin PendingRec \cup ActiveRec \cup ResultRec
    /\ None \notin ClaimView \cup PendingView
    /\ None \notin [token : Stamps, target : Targets]

ASSUME OwnerAssumption == OwnerOf \in [Procs -> Owners]

ASSUME MaxNowAssumption == MaxNow \in Nat

VARIABLES pending, active, results, quarantine,   \* the files of each key
          expired,    \* the lease of active[k] lies in the past
          lock,       \* the key lock: the live process that holds it, or None
          pc, on,     \* per process: what is left to do, and on which key
          view,       \* per process: the record its next call will name
          published,  \* the manifest's last publication for the key
          dead,       \* claim tokens whose attempt process is confirmed dead
          now         \* last stamp drawn from time.time() and uuid4()

files == <<pending, active, results, quarantine>>
procs == <<pc, on, view>>
vars  == <<files, expired, lock, procs, published, dead, now>>

Init ==
    /\ pending = [k \in Keys |-> None]
    /\ active = [k \in Keys |-> None]
    /\ results = [k \in Keys |-> None]
    /\ quarantine = [k \in Keys |-> None]
    /\ expired = [k \in Keys |-> FALSE]
    /\ lock = [k \in Keys |-> None]
    /\ pc = [p \in Procs |-> "idle"]
    /\ on = [p \in Procs |-> None]
    /\ view = [p \in Procs |-> None]
    /\ published = [k \in Keys |-> None]
    /\ dead = {}
    /\ now = 0

-----------------------------------------------------------------------------
(* Locking, stamps and the ends of an operation.                           *)

Tick ==
    /\ now < MaxNow
    /\ now' = now + 1

\* Mistake: the lock file is written without asking who holds it.
MayLockUnasked(p, k) == pc[p] = "idle"

\* key_lock: a live holder is never displaced.  The lock of a dead holder is
\* broken by the next caller, so Crash below simply frees it.
MayLock(p, k) == pc[p] = "idle" /\ lock[k] = None

\* The operation's first step is done and pc[p] = label is left.
Enter(p, k, label) ==
    /\ MayLock(p, k)
    /\ lock' = [lock EXCEPT ![k] = p]
    /\ pc' = [pc EXCEPT ![p] = label]
    /\ on' = [on EXCEPT ![p] = k]

At(p, label) == pc[p] = label

Goto(p, label) ==
    /\ pc' = [pc EXCEPT ![p] = label]
    /\ UNCHANGED <<on, lock>>

\* The lock is released, or its release fails (_release_lock timed out): the
\* call then raises and the lock stays with the process while it lives.
Unlocked(p, k) == \E h \in {None, p} : lock' = [lock EXCEPT ![k] = h]

\* An operation whose single durable change is this step.
OneStep(p, k) ==
    /\ MayLock(p, k)
    /\ Unlocked(p, k)
    /\ UNCHANGED <<pc, on>>

\* The caller receives the result unless releasing the lock raised.
Returned(p, k, result) ==
    view' = IF lock'[k] = None THEN [view EXCEPT ![p] = result] ELSE view

Finished(p) ==
    /\ pc' = [pc EXCEPT ![p] = "idle"]
    /\ on' = [on EXCEPT ![p] = None]
    /\ Unlocked(p, on[p])

-----------------------------------------------------------------------------
(* Enqueue, claim and the views of the queue.                              *)

PendingOf(t, stamp) == [target |-> t, at |-> stamp, ver |-> stamp]

\* enqueue: the newest request replaces the queued one (coalescing).
Enqueue(p, k, t) ==
    /\ OneStep(p, k) /\ Tick
    /\ pending' = [pending EXCEPT ![k] = PendingOf(t, now')]
    /\ UNCHANGED <<active, results, quarantine, expired, view, published, dead>>

ClaimOf(k, stamp, owner) ==
    [target |-> pending[k].target, at |-> pending[k].at, token |-> stamp,
     owner |-> owner, lease |-> stamp]

\* Mistake: _read_claim_candidate without the quarantine file.
ClaimableInQuarantine(k) == pending[k] # None /\ active[k] = None

Claimable(k) == quarantine[k] = None /\ pending[k] # None /\ active[k] = None

\* _claim_locked writes active first; a deadline that passed meanwhile makes
\* it undo the write, otherwise pending is unlinked and the claim returned.
Claim(p, k) ==
    /\ Claimable(k) /\ Tick
    /\ \E next \in {"claim_unlink", "claim_undo"} : Enter(p, k, next)
    /\ active' = [active EXCEPT ![k] = ClaimOf(k, now', OwnerOf[p])]
    /\ expired' = [expired EXCEPT ![k] = FALSE]
    /\ UNCHANGED <<pending, results, quarantine, view, published, dead>>

ClaimUnlink(p) ==
    /\ At(p, "claim_unlink")
    /\ pending' = [pending EXCEPT ![on[p]] = None]
    /\ Finished(p)
    /\ Returned(p, on[p], [key |-> on[p], rec |-> active[on[p]]])
    /\ UNCHANGED <<active, results, quarantine, expired, published, dead, now>>

ClaimUndo(p) ==
    /\ At(p, "claim_undo")
    /\ active' = [active EXCEPT ![on[p]] = None]
    /\ Finished(p)
    /\ UNCHANGED <<pending, results, quarantine, expired, view, published,
                   dead, now>>

\* snapshot, peek and status read without the lock and hide quarantined keys.
List(p, k) ==
    /\ At(p, "idle") /\ quarantine[k] = None
    /\ \E rec \in {active[k], pending[k]} \ {None} :
          view' = [view EXCEPT ![p] = [key |-> k, rec |-> rec]]
    /\ UNCHANGED <<files, expired, lock, pc, on, published, dead, now>>

\* recover_owned: under the lock, only a claim of the caller's own owner token.
RecoverOwned(p, k) ==
    /\ OneStep(p, k)
    /\ quarantine[k] = None /\ active[k] # None
    /\ active[k].owner = OwnerOf[p]
    /\ Returned(p, k, [key |-> k, rec |-> active[k]])
    /\ UNCHANGED <<files, expired, published, dead, now>>

\* migrate_pending: rewrite the queued target if this very write was listed.
MigratePending(p, t) ==
    LET k == view[p].key
    IN  /\ view[p] \in PendingView
        /\ OneStep(p, k) /\ Tick
        /\ pending[k] # None /\ pending[k].ver = view[p].rec.ver
        /\ pending' = [pending EXCEPT ![k].target = t, ![k].ver = now']
        /\ UNCHANGED <<active, results, quarantine, expired, view, published,
                       dead>>

\* discard: withdraw the queued request unless a newer one replaced it.
Discard(p) ==
    LET k == view[p].key
    IN  /\ view[p] # None
        /\ Enter(p, k, "discard_unlink")
        /\ quarantine[k] = None /\ pending[k] # None
        /\ pending[k].at <= view[p].rec.at
        /\ results' = [results EXCEPT ![k] =
              [token |-> None, status |-> "discarded"]]
        /\ UNCHANGED <<pending, active, quarantine, expired, view, published,
                       dead, now>>

DiscardUnlink(p) ==
    /\ At(p, "discard_unlink")
    /\ pending' = [pending EXCEPT ![on[p]] = None]
    /\ Finished(p)
    /\ UNCHANGED <<active, results, quarantine, expired, view, published,
                   dead, now>>

-----------------------------------------------------------------------------
(* Operations on a claim.  Matches is claim_matches, MatchesToken the       *)
(* weaker test of break_lease.                                              *)

MatchesToken(p) ==
    /\ view[p] \in ClaimView
    /\ active[view[p].key] # None
    /\ active[view[p].key].token = view[p].rec.token

Matches(p) ==
    /\ MatchesToken(p)
    /\ active[view[p].key].owner = view[p].rec.owner

\* Mistake: a claim operation that skips _read_quarantine.
QuarantineUnread(p) == TRUE

NotQuarantined(p) == quarantine[view[p].key] = None

Renew(p) ==
    LET k == view[p].key
    IN  /\ Matches(p) /\ NotQuarantined(p)
        /\ OneStep(p, k) /\ Tick
        /\ active' = [active EXCEPT ![k].lease = now']
        /\ expired' = [expired EXCEPT ![k] = FALSE]
        /\ UNCHANGED <<pending, results, quarantine, view, published, dead>>

\* Time passes the lease of an active record; nothing else happens by itself.
LeaseExpires(k) ==
    /\ active[k] # None /\ ~expired[k]
    /\ expired' = [expired EXCEPT ![k] = TRUE]
    /\ UNCHANGED <<files, lock, procs, published, dead, now>>

\* Mistake: retry_claim puts the claimed version back over a newer one.
ReentryTargetClaimed(k) == active[k].target

\* The queued version if there is one, the claimed one otherwise.
ReentryTarget(k) ==
    IF pending[k] # None THEN pending[k].target ELSE active[k].target

\* retry_claim's first step: pending at the tail, before active is removed.
ReenterAtTail(p) ==
    LET k == view[p].key
    IN  /\ NotQuarantined(p)
        /\ Enter(p, k, "drop_active") /\ Tick
        /\ pending' = [pending EXCEPT ![k] = PendingOf(ReentryTarget(k), now')]
        /\ UNCHANGED <<active, results, quarantine, expired, view, published,
                       dead>>

\* reject_claim's first step: the failure is recorded before active goes.
RecordFailure(p) ==
    LET k == view[p].key
    IN  /\ NotQuarantined(p)
        /\ Enter(p, k, "drop_active")
        /\ results' = [results EXCEPT ![k] =
              [token |-> active[k].token, status |-> "failed"]]
        /\ UNCHANGED <<pending, active, quarantine, expired, view, published,
                       dead, now>>

Retry(p)  == Matches(p) /\ ReenterAtTail(p)
Reject(p) == Matches(p) /\ RecordFailure(p)

\* settle_expired_legacy_active: only the listed claim, with the listed lease,
\* and only while that lease lies in the past.
LeaseSettleable(p) ==
    /\ Matches(p)
    /\ expired[view[p].key]
    /\ active[view[p].key].lease = view[p].rec.lease

SettleExpired(p) ==
    /\ LeaseSettleable(p)
    /\ ReenterAtTail(p) \/ RecordFailure(p)

\* Mistake: restore_active_pending relies on a pending file being there.
RestoreNothing(k) == UNCHANGED <<pending, now>>

\* restore_active_pending: keep a newer pending, else put the claim back.
RestorePending(k) ==
    IF pending[k] # None
    THEN UNCHANGED <<pending, now>>
    ELSE /\ Tick
         /\ pending' = [pending EXCEPT ![k] =
               [target |-> active[k].target, at |-> active[k].at,
                ver |-> now']]

GiveBack(p, k) ==
    /\ quarantine[k] = None
    /\ Enter(p, k, "drop_active")
    /\ RestorePending(k)
    /\ UNCHANGED <<active, results, quarantine, expired, view, published, dead>>

BreakLease(p) == MatchesToken(p) /\ GiveBack(p, view[p].key)

Release(p) ==
    /\ MatchesToken(p)
    /\ active[view[p].key].owner = OwnerOf[p]
    /\ GiveBack(p, view[p].key)

ReclaimStaleOwn(p, k) ==
    /\ active[k] # None /\ active[k].owner = OwnerOf[p]
    /\ GiveBack(p, k)

RetireAs(k, status) ==
    results' = [results EXCEPT ![k] =
        [token |-> active[k].token, status |-> status]]

\* complete: the legacy worker's acknowledgement.
Complete(p) ==
    LET k == view[p].key
    IN  /\ MatchesToken(p) /\ NotQuarantined(p)
        /\ active[k].owner = OwnerOf[p]
        /\ Enter(p, k, "drop_active")
        /\ RetireAs(k, "completed")
        /\ UNCHANGED <<pending, active, quarantine, expired, view, published,
                       dead, now>>

\* The unlink of active that ends retry, reject, restore and retirement.
DropActive(p) ==
    /\ At(p, "drop_active")
    /\ active' = [active EXCEPT ![on[p]] = None]
    /\ Finished(p)
    /\ UNCHANGED <<pending, results, quarantine, expired, view, published,
                   dead, now>>

-----------------------------------------------------------------------------
(* The publication fence: the key lock is held from the check to the ack.  *)

Superseded(k, desired) == pending[k] # None /\ pending[k].target # desired

BeginPublish(p) ==
    LET k == view[p].key
    IN  /\ Matches(p) /\ NotQuarantined(p)
        /\ active[k].target = view[p].rec.target
        /\ Enter(p, k, IF Superseded(k, active[k].target)
                       THEN "publish_superseded" ELSE "publish")
        /\ UNCHANGED <<files, expired, view, published, dead, now>>

\* The permit's holder publishes to the index manifest and registers the ack.
Publish(p) ==
    /\ At(p, "publish")
    /\ published' = [published EXCEPT ![on[p]] =
          [target |-> view[p].rec.target, token |-> view[p].rec.token]]
    /\ Goto(p, "publish_ack")
    /\ UNCHANGED <<files, expired, view, dead, now>>

\* _commit on leaving the fence: re-read active, then retire it.
CommitPublish(p) ==
    LET k == on[p]
    IN  /\ pc[p] \in {"publish_ack", "publish_superseded"}
        /\ Matches(p)
        /\ RetireAs(k, IF At(p, "publish_superseded")
                       THEN "superseded" ELSE "completed")
        /\ Goto(p, "drop_active")
        /\ UNCHANGED <<pending, active, quarantine, expired, view, published,
                       dead, now>>

-----------------------------------------------------------------------------
(* Quarantine.  The record names the attempt process of the claim; it is    *)
(* identified here by the claim's token.                                    *)

Quarantine(p) ==
    LET k == view[p].key
    IN  /\ Matches(p)
        /\ OneStep(p, k)
        /\ quarantine' = [quarantine EXCEPT ![k] = active[k].token]
        /\ UNCHANGED <<pending, active, results, expired, view, published,
                       dead, now>>

\* The operating system confirms that a quarantined attempt process is gone;
\* the fate of the other attempts is asked for elsewhere.
ProcessDies(c) ==
    /\ c \notin dead /\ \E k \in Keys : quarantine[k] = c
    /\ dead' = dead \cup {c}
    /\ UNCHANGED <<files, expired, lock, procs, published, now>>

\* Mistake: the proof is not compared with the quarantined handle.
AnyProof(k, proof) == TRUE

\* The death proof must be of the process the quarantine names.
ProofMatches(k, proof) == quarantine[k] = proof

\* Mistake: the claim is dropped without restoring its request.
ClearQuarantineUnsaved(p, k) ==
    /\ \E proof \in dead : ProofMatches(k, proof)
    /\ active[k] # None /\ active[k].token = quarantine[k]
    /\ Enter(p, k, "clear_active")
    /\ UNCHANGED <<files, expired, view, published, dead, now>>

\* clear_quarantine while the claim is still there: restore pending first.
ClearQuarantine(p, k) ==
    /\ \E proof \in dead : ProofMatches(k, proof)
    /\ active[k] # None /\ active[k].token = quarantine[k]
    /\ Enter(p, k, "clear_active")
    /\ RestorePending(k)
    /\ UNCHANGED <<active, results, quarantine, expired, view, published, dead>>

ClearActive(p) ==
    /\ At(p, "clear_active")
    /\ active' = [active EXCEPT ![on[p]] = None]
    /\ Goto(p, "clear_mark")
    /\ UNCHANGED <<pending, results, quarantine, expired, view, published,
                   dead, now>>

ClearMark(p) ==
    /\ At(p, "clear_mark")
    /\ quarantine' = [quarantine EXCEPT ![on[p]] = None]
    /\ Finished(p)
    /\ UNCHANGED <<pending, active, results, expired, view, published, dead,
                   now>>

\* clear_quarantine after an earlier clearing stopped before its last step.
ClearRest(p, k) ==
    /\ \E proof \in dead : ProofMatches(k, proof)
    /\ active[k] = None /\ pending[k] # None
    /\ OneStep(p, k)
    /\ quarantine' = [quarantine EXCEPT ![k] = None]
    /\ UNCHANGED <<pending, active, results, expired, view, published, dead,
                   now>>

-----------------------------------------------------------------------------
(* Failures.  A raise (deadline, OSError) abandons the rest of the          *)
(* operation; a death also forgets the view and frees every lock held.      *)

Raise(p) ==
    /\ pc[p] # "idle"
    /\ Finished(p)
    /\ UNCHANGED <<files, expired, view, published, dead, now>>

Crash(p) ==
    /\ pc[p] # "idle" \/ view[p] # None \/ \E k \in Keys : lock[k] = p
    /\ pc' = [pc EXCEPT ![p] = "idle"]
    /\ on' = [on EXCEPT ![p] = None]
    /\ view' = [view EXCEPT ![p] = None]
    /\ lock' = [k \in Keys |-> IF lock[k] = p THEN None ELSE lock[k]]
    /\ UNCHANGED <<files, expired, published, dead, now>>

Start(p) ==
    \/ \E k \in Keys : \/ \E t \in Targets : Enqueue(p, k, t)
                       \/ Claim(p, k) \/ List(p, k) \/ RecoverOwned(p, k)
                       \/ ReclaimStaleOwn(p, k)
                       \/ ClearQuarantine(p, k) \/ ClearRest(p, k)
    \/ \E t \in Targets : MigratePending(p, t)
    \/ Discard(p) \/ Renew(p) \/ Retry(p) \/ Reject(p) \/ SettleExpired(p)
    \/ BreakLease(p) \/ Release(p) \/ Complete(p)
    \/ BeginPublish(p) \/ Quarantine(p)

Continue(p) ==
    \/ ClaimUnlink(p) \/ ClaimUndo(p) \/ DiscardUnlink(p) \/ DropActive(p)
    \/ Publish(p) \/ CommitPublish(p)
    \/ ClearActive(p) \/ ClearMark(p)

Next ==
    \/ \E p \in Procs : Start(p) \/ Continue(p) \/ Raise(p) \/ Crash(p)
    \/ \E k \in Keys : LeaseExpires(k)
    \/ \E c \in Stamps : ProcessDies(c)

Spec == Init /\ [][Next]_vars

-----------------------------------------------------------------------------
(* Correctness.                                                            *)

\* Every file, lock, view and stamp holds a value the code can write there.
TypeOK ==
    /\ pending \in [Keys -> PendingRec \cup {None}]
    /\ active \in [Keys -> ActiveRec \cup {None}]
    /\ results \in [Keys -> ResultRec \cup {None}]
    /\ quarantine \in [Keys -> Stamps \cup {None}]
    /\ expired \in [Keys -> BOOLEAN]
    /\ lock \in [Keys -> Procs \cup {None}]
    /\ pc \in [Procs -> Labels]
    /\ on \in [Procs -> Keys \cup {None}]
    /\ view \in [Procs -> ClaimView \cup PendingView \cup {None}]
    /\ published \in [Keys -> [target : Targets, token : Stamps] \cup {None}]
    /\ dead \in SUBSET Stamps
    /\ now \in 0 .. MaxNow

\* A quarantined key whose attempt process may still run keeps the claim it
\* was quarantined with, so that no step of retry, reject, publication,
\* lease breaking or a half-done clearing frees the key for a second attempt.
QuarantineHoldsClaim ==
    \A k \in Keys :
        quarantine[k] \notin dead \cup {None} =>
            active[k] # None /\ active[k].token = quarantine[k]

\* clear_quarantine refuses a key with neither active nor pending, or with
\* another claim's active.  No crash inside it, or inside anything else,
\* leaves a quarantined key in a state it would refuse for ever.
QuarantineClearable ==
    \A k \in Keys :
        quarantine[k] # None =>
            IF active[k] = None THEN pending[k] # None
            ELSE active[k].token = quarantine[k]

\* A claim leaves active only when its key is queued again or its outcome is
\* on disk: whatever a crash separates, no claimed job vanishes untraced.
ClaimLeavesTrace ==
    [][\A k \in Keys :
         active[k] # None /\ active'[k] = None =>
            \/ pending[k] # None
            \/ results[k] # None /\ results[k].token = active[k].token]_vars

\* The manifest is only published to for the claim that owns the key at that
\* moment, at the target it was claimed for, with no newer target queued and
\* no quarantine: the checks of begin_publish still hold when they are used.
FreshPublication ==
    [][\A k \in Keys :
         published'[k] # published[k] =>
            /\ quarantine[k] = None
            /\ active[k] # None
            /\ active[k].token = published'[k].token
            /\ active[k].target = published'[k].target
            /\ ~Superseded(k, published'[k].target)]_vars

\* The wanted target of a key: the queued one, else the claimed one.
Wanted(k) ==
    IF pending[k] # None THEN pending[k].target
    ELSE IF active[k] # None THEN active[k].target
    ELSE None

\* Only a request or a migration queues another target than the one wanted:
\* retry, settlement, lease breaking, clearing and every half-done step of
\* them never bring an older version back over a newer one.
NewestRequestWins ==
    [][\A k \in Keys :
         pending'[k] # None /\ pending'[k].target # Wanted(k) =>
            \E p \in Procs, t \in Targets :
                Enqueue(p, k, t) \/ MigratePending(p, t)]_vars

\* What makes the two quarantine invariants inductive.
\* A process in mid-operation holds the lock of its key, so no two are in
\* mid-operation on one key.
LockInv ==
    \A p \in Procs :
        IF pc[p] = "idle" THEN on[p] = None
        ELSE on[p] \in Keys /\ lock[on[p]] = p

\* What the files of the key look like at each label of an operation on it.
FilesAt(p) ==
    /\ pc[p] \in {"claim_unlink", "claim_undo"} =>
          /\ quarantine[on[p]] = None
          /\ pending[on[p]] # None /\ active[on[p]] # None
          /\ active[on[p]].target = pending[on[p]].target
    /\ pc[p] = "drop_active" =>
          /\ quarantine[on[p]] = None /\ active[on[p]] # None
          /\ \/ pending[on[p]] # None
             \/ /\ results[on[p]] # None
                /\ results[on[p]].token = active[on[p]].token
    /\ pc[p] = "clear_active" =>
          /\ quarantine[on[p]] \in dead
          /\ pending[on[p]] # None /\ active[on[p]] # None
    /\ pc[p] = "clear_mark" =>
          /\ quarantine[on[p]] \in dead
          /\ pending[on[p]] # None /\ active[on[p]] = None
    /\ pc[p] = "discard_unlink" =>
          quarantine[on[p]] = None /\ pending[on[p]] # None
    /\ pc[p] \in {"publish", "publish_superseded", "publish_ack"} =>
          quarantine[on[p]] = None

StepInv == \A p \in Procs : FilesAt(p)

\* A quarantined key keeps the claim it was quarantined with until a death
\* proof, and a queued version once that claim is gone.
QuarantineInv ==
    \A k \in Keys :
        quarantine[k] # None =>
            IF active[k] = None
            THEN pending[k] # None /\ quarantine[k] \in dead
            ELSE active[k].token = quarantine[k]

\* A permit is for the claim in view; while it may publish, everything that
\* begin_publish checked still holds.
PermitInv ==
    \A p \in Procs :
        /\ pc[p] \in {"publish", "publish_superseded", "publish_ack"} =>
              view[p] \in ClaimView /\ view[p].key = on[p]
        /\ pc[p] = "publish" =>
              /\ active[on[p]] # None
              /\ active[on[p]].token = view[p].rec.token
              /\ active[on[p]].target = view[p].rec.target
              /\ ~Superseded(on[p], view[p].rec.target)

IInv == TypeOK /\ LockInv /\ StepInv /\ PermitInv /\ QuarantineInv

\* The files implement the abstract queue: the grant is the active record.
WQ == INSTANCE WorkQueue WITH
    Tokens <- Stamps,
    want   <- [k \in Keys |-> Wanted(k)],
    grant  <- [k \in Keys |-> IF active[k] = None THEN None
                              ELSE [token  |-> active[k].token,
                                    target |-> active[k].target]],
    barred <- [k \in Keys |-> quarantine[k] # None]

\* Every behaviour of the files, crashes between their steps included, is one
\* of the queue port: no wanted target is lost, no key is granted twice.
ImplementsWorkQueue == WQ!WQSpec
=============================================================================

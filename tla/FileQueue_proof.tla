--------------------------- MODULE FileQueue_proof ---------------------------
(* Proofs about FileQueue, for every set of keys, targets, processes and
   owner tokens, and every bound on the stamps. *)
EXTENDS FileQueue, TLAPS

\* The initial state satisfies the inductive invariant.
LEMMA IInvInit == Init => IInv
  BY MaxNowAssumption
     DEF Init, IInv, TypeOK, Labels, LockInv, StepInv, FilesAt, PermitInv,
         QuarantineInv

(***************************************************************************)
(* StepInv is the part of the invariant that every operation could disturb *)
(* for every other one.  The lemmas below show once that a step on one key *)
(* leaves operations on other keys alone (EnterStep, ContinueStep), so     *)
(* that each action only answers for its own next label.                   *)
(***************************************************************************)
Undisturbed(j) ==
    /\ pending'[j] = pending[j] /\ active'[j] = active[j]
    /\ results'[j] = results[j] /\ quarantine'[j] = quarantine[j]

\* A step that enters an operation on key k disturbs no other operation, so
\* it keeps StepInv if its own label is right.
LEMMA EnterStep ==
  ASSUME IInv, NEW p \in Procs, NEW k \in Keys, NEW label,
         Enter(p, k, label),
         \A j \in Keys \ {k} : Undisturbed(j), dead' = dead,
         FilesAt(p)'
  PROVE  StepInv'
<1>1. ASSUME NEW q \in Procs, q # p
      PROVE  FilesAt(q)'
  <2>1. pc'[q] = pc[q] /\ on'[q] = on[q]
    BY <1>1 DEF IInv, TypeOK, Enter
  <2>2. CASE pc[q] = "idle"
    BY <2>1, <2>2 DEF FilesAt
  <2>3. CASE pc[q] # "idle"
    <3>1. on[q] \in Keys \ {k}
      BY <1>1, <2>3, NoneAssumption DEF IInv, LockInv, Enter, MayLock
    <3>2. Undisturbed(on[q])
      BY <3>1
    <3> QED
      BY <2>1, <3>2 DEF IInv, StepInv, FilesAt, Undisturbed
  <2> QED
    BY <2>2, <2>3
<1> QED
  BY <1>1 DEF StepInv

\* Once the request is back at the tail, the active file may be dropped.
LEMMA ReenterStep ==
  ASSUME IInv, NEW p \in Procs, Matches(p), ReenterAtTail(p)
  PROVE  StepInv'
<1> DEFINE k == view[p].key
<1>1. k \in Keys /\ active[k] # None
  BY DEF Matches, MatchesToken, ClaimView
<1>2. PendingOf(ReentryTarget(k), now') \in PendingRec
  <2>1. now' \in Stamps
    BY MaxNowAssumption DEF ReenterAtTail, Tick, IInv, TypeOK, Stamps
  <2>2. ReentryTarget(k) \in Targets
    BY <1>1 DEF IInv, TypeOK, ReentryTarget, PendingRec, ActiveRec
  <2> QED
    BY <2>1, <2>2 DEF PendingOf, PendingRec
<1>3. pending' = [pending EXCEPT ![k] = PendingOf(ReentryTarget(k), now')]
  BY DEF ReenterAtTail
<1>4. pending'[k] # None
  BY <1>1, <1>2, <1>3, NoneAssumption DEF IInv, TypeOK
<1>5. Enter(p, k, "drop_active") /\ quarantine[k] = None
  BY DEF ReenterAtTail, NotQuarantined
<1>6. pc'[p] = "drop_active" /\ on'[p] = k
  BY <1>5 DEF Enter, IInv, TypeOK
<1>7. FilesAt(p)'
  BY <1>1, <1>4, <1>5, <1>6 DEF FilesAt, ReenterAtTail
<1>8. dead' = dead /\ \A j \in Keys \ {k} : Undisturbed(j)
  BY <1>3 DEF ReenterAtTail, Undisturbed, IInv, TypeOK
<1> HIDE DEF k
<1> QED
  BY <1>1, <1>5, <1>7, <1>8, EnterStep

\* Once the failure is recorded, the active file may be dropped.
LEMMA RecordFailureStep ==
  ASSUME IInv, NEW p \in Procs, Matches(p), RecordFailure(p)
  PROVE  StepInv'
<1> DEFINE k == view[p].key
<1>1. k \in Keys /\ active[k] # None
  BY DEF Matches, MatchesToken, ClaimView
<1>2. /\ Enter(p, k, "drop_active") /\ quarantine[k] = None
      /\ results' = [results EXCEPT ![k] =
            [token |-> active[k].token, status |-> "failed"]]
      /\ UNCHANGED <<pending, active, quarantine, dead>>
  BY DEF RecordFailure, NotQuarantined
<1>3. results'[k] = [token |-> active[k].token, status |-> "failed"]
  BY <1>1, <1>2 DEF IInv, TypeOK
<1>4. results'[k] # None
  BY <1>1, <1>3, NoneAssumption DEF IInv, TypeOK, ActiveRec, ResultRec
<1>6. pc'[p] = "drop_active" /\ on'[p] = k
  BY <1>2 DEF Enter, IInv, TypeOK
<1>7. FilesAt(p)'
  BY <1>1, <1>2, <1>3, <1>4, <1>6 DEF FilesAt
<1>8. dead' = dead /\ \A j \in Keys \ {k} : Undisturbed(j)
  BY <1>2 DEF Undisturbed, IInv, TypeOK
<1> HIDE DEF k
<1> QED
  BY <1>1, <1>2, <1>7, <1>8, EnterStep

\* restore_active_pending leaves a request pending.
LEMMA RestoredPending ==
  ASSUME IInv, NEW k \in Keys, active[k] # None, RestorePending(k)
  PROVE  pending'[k] # None
<1>1. CASE pending[k] # None
  BY <1>1 DEF RestorePending
<1>2. CASE pending[k] = None
  <2> DEFINE rec == [target |-> active[k].target, at |-> active[k].at,
                     ver |-> now']
  <2>1. now' \in Stamps
    BY <1>2, MaxNowAssumption DEF RestorePending, Tick, IInv, TypeOK, Stamps
  <2>2. rec \in PendingRec
    BY <2>1 DEF IInv, TypeOK, PendingRec, ActiveRec
  <2>3. pending'[k] = rec
    BY <1>2 DEF RestorePending, IInv, TypeOK
  <2> QED
    BY <2>2, <2>3, NoneAssumption
<1> QED
  BY <1>1, <1>2

\* A claim given back has its request pending before the active file goes.
LEMMA GiveBackStep ==
  ASSUME IInv, NEW p \in Procs, NEW k \in Keys, active[k] # None,
         GiveBack(p, k)
  PROVE  StepInv'
<1>1. Enter(p, k, "drop_active") /\ quarantine[k] = None
  BY DEF GiveBack
<1>2. pending'[k] # None
  BY RestoredPending DEF GiveBack
<1>3. pc'[p] = "drop_active" /\ on'[p] = k
  BY <1>1 DEF Enter, IInv, TypeOK
<1>4. FilesAt(p)'
  BY <1>1, <1>2, <1>3 DEF FilesAt, GiveBack
<1>5. dead' = dead /\ \A j \in Keys \ {k} : Undisturbed(j)
  BY DEF GiveBack, RestorePending, Undisturbed, IInv, TypeOK
<1> QED
  BY <1>1, <1>4, <1>5, EnterStep

\* A claim has its active file before the pending one is unlinked or undone.
LEMMA ClaimStep ==
  ASSUME IInv, NEW p \in Procs, NEW k \in Keys, Claim(p, k)
  PROVE  StepInv'
<1> DEFINE rec == ClaimOf(k, now', OwnerOf[p])
<1>1. PICK label \in {"claim_unlink", "claim_undo"} : Enter(p, k, label)
  BY DEF Claim
<1>2. pc'[p] = label /\ on'[p] = k
  BY <1>1 DEF Enter, IInv, TypeOK
<1>3. now' \in Stamps
  BY MaxNowAssumption DEF Claim, Tick, IInv, TypeOK, Stamps
<1>4. rec \in ActiveRec /\ rec.target = pending[k].target
  BY <1>3, OwnerAssumption
     DEF ClaimOf, Claim, Claimable, IInv, TypeOK, PendingRec, ActiveRec
<1>5. active'[k] = rec
  BY DEF Claim, IInv, TypeOK
<1>6. active'[k] # None
  BY <1>4, <1>5, NoneAssumption
<1>7. FilesAt(p)'
  BY <1>1, <1>2, <1>4, <1>5, <1>6 DEF FilesAt, Claim, Claimable
<1>8. dead' = dead /\ \A j \in Keys \ {k} : Undisturbed(j)
  BY DEF Claim, Undisturbed, IInv, TypeOK
<1> QED
  BY <1>1, <1>7, <1>8, EnterStep

\* A clearing has the request pending before it removes active file and mark.
LEMMA ClearQuarantineStep ==
  ASSUME IInv, NEW p \in Procs, NEW k \in Keys, ClearQuarantine(p, k)
  PROVE  StepInv'
<1>1. /\ Enter(p, k, "clear_active") /\ RestorePending(k)
      /\ quarantine[k] \in dead /\ active[k] # None
      /\ UNCHANGED <<active, results, quarantine, dead>>
  BY DEF ClearQuarantine, ProofMatches
<1>2. pc'[p] = "clear_active" /\ on'[p] = k
  BY <1>1 DEF Enter, IInv, TypeOK
<1>3. pending'[k] # None
  BY <1>1, RestoredPending
<1>4. FilesAt(p)'
  BY <1>1, <1>2, <1>3 DEF FilesAt
<1>5. dead' = dead /\ \A j \in Keys \ {k} : Undisturbed(j)
  BY <1>1 DEF RestorePending, Undisturbed, IInv, TypeOK
<1> QED
  BY <1>1, <1>4, <1>5, EnterStep

\* A retired claim leaves a result under its token, and no other result changes.
LEMMA Retired ==
  ASSUME IInv, NEW k \in Keys, active[k] # None,
         NEW status \in {"completed", "superseded"}, RetireAs(k, status)
  PROVE  /\ results'[k] # None /\ results'[k].token = active[k].token
         /\ \A j \in Keys \ {k} : results'[j] = results[j]
<1> DEFINE rec == [token |-> active[k].token, status |-> status]
<1>1. results' = [results EXCEPT ![k] = rec]
  BY DEF RetireAs
<1>2. rec \in ResultRec
  BY DEF IInv, TypeOK, ActiveRec, ResultRec
<1> QED
  BY <1>1, <1>2, NoneAssumption DEF IInv, TypeOK

\* A completion has its result before the active file goes.
LEMMA CompleteStep ==
  ASSUME IInv, NEW p \in Procs, Complete(p)
  PROVE  StepInv'
<1> DEFINE k == view[p].key
<1>1. k \in Keys /\ active[k] # None
  BY DEF Complete, MatchesToken, ClaimView
<1>2. /\ Enter(p, k, "drop_active") /\ quarantine[k] = None
      /\ RetireAs(k, "completed")
      /\ UNCHANGED <<pending, active, quarantine, dead>>
  BY DEF Complete, NotQuarantined
<1>3. pc'[p] = "drop_active" /\ on'[p] = k
  BY <1>2 DEF Enter, IInv, TypeOK
<1> HIDE DEF k
<1>4. /\ results'[k] # None /\ results'[k].token = active[k].token
      /\ \A j \in Keys \ {k} : results'[j] = results[j]
  BY <1>1, <1>2, Retired
<1>5. FilesAt(p)'
  BY <1>1, <1>2, <1>3, <1>4 DEF FilesAt
<1>6. dead' = dead /\ \A j \in Keys \ {k} : Undisturbed(j)
  BY <1>2, <1>4 DEF Undisturbed
<1> QED
  BY <1>1, <1>2, <1>5, <1>6, EnterStep

\* begin_publish permits a write only for a claim that nothing has superseded.
LEMMA BeginPublishStep ==
  ASSUME IInv, NEW p \in Procs, BeginPublish(p)
  PROVE  StepInv'
<1> DEFINE k == view[p].key
           label == IF Superseded(k, active[k].target)
                    THEN "publish_superseded" ELSE "publish"
<1>1. k \in Keys /\ quarantine[k] = None
  BY DEF BeginPublish, Matches, MatchesToken, NotQuarantined, ClaimView
<1>2. Enter(p, k, label) /\ UNCHANGED <<files, dead>>
  BY DEF BeginPublish
<1>3. pc'[p] = label /\ on'[p] = k
  BY <1>2 DEF Enter, IInv, TypeOK
<1>4. label \in {"publish_superseded", "publish"}
  OBVIOUS
<1> HIDE DEF k, label
<1>5. FilesAt(p)'
  BY <1>1, <1>2, <1>3, <1>4 DEF FilesAt, files
<1>6. dead' = dead /\ \A j \in Keys \ {k} : Undisturbed(j)
  BY <1>2 DEF Undisturbed, files
<1> QED
  BY <1>1, <1>2, <1>5, <1>6, EnterStep

\* A further step of an operation disturbs no other operation either.
LEMMA ContinueStep ==
  ASSUME IInv, NEW p \in Procs, pc[p] # "idle",
         \A q \in Procs \ {p} : pc'[q] = pc[q] /\ on'[q] = on[q],
         \A j \in Keys \ {on[p]} : Undisturbed(j), dead' = dead,
         FilesAt(p)'
  PROVE  StepInv'
<1>1. ASSUME NEW q \in Procs, q # p
      PROVE  FilesAt(q)'
  <2>1. pc'[q] = pc[q] /\ on'[q] = on[q]
    BY <1>1
  <2>2. CASE pc[q] = "idle"
    BY <2>1, <2>2 DEF FilesAt
  <2>3. CASE pc[q] # "idle"
    <3>1. on[q] \in Keys \ {on[p]}
      BY <1>1, <2>3 DEF IInv, LockInv
    <3>2. Undisturbed(on[q])
      BY <3>1
    <3> QED
      BY <2>1, <3>2 DEF IInv, StepInv, FilesAt, Undisturbed
  <2> QED
    BY <2>2, <2>3
<1> QED
  BY <1>1 DEF StepInv

\* A committed publication has its result before the active file goes.
LEMMA CommitPublishStep ==
  ASSUME IInv, NEW p \in Procs, CommitPublish(p)
  PROVE  StepInv'
<1> DEFINE k == on[p]
<1>1. pc[p] # "idle" /\ quarantine[k] = None
  BY DEF CommitPublish, IInv, StepInv, FilesAt
<1>2. k \in Keys /\ active[k] # None
  BY <1>1 DEF CommitPublish, Matches, MatchesToken, IInv, LockInv, PermitInv
<1>3. PICK status \in {"completed", "superseded"} : RetireAs(k, status)
  BY DEF CommitPublish
<1>4. /\ pc' = [pc EXCEPT ![p] = "drop_active"] /\ UNCHANGED on
      /\ UNCHANGED <<pending, active, quarantine, dead>>
  BY DEF CommitPublish, Goto
<1> HIDE DEF k
<1>5. /\ results'[k] # None /\ results'[k].token = active[k].token
      /\ \A j \in Keys \ {k} : results'[j] = results[j]
  BY <1>2, <1>3, Retired
<1>6. FilesAt(p)'
  BY <1>1, <1>2, <1>4, <1>5 DEF FilesAt, IInv, TypeOK, k
<1>7. \A j \in Keys \ {k} : Undisturbed(j)
  BY <1>4, <1>5 DEF Undisturbed
<1>8. \A q \in Procs \ {p} : pc'[q] = pc[q] /\ on'[q] = on[q]
  BY <1>4 DEF IInv, TypeOK
<1> QED
  BY <1>1, <1>4, <1>6, <1>7, <1>8, ContinueStep DEF k

\* Every step keeps the types.
LEMMA TypeNext == IInv /\ [Next]_vars => TypeOK'
<1> SUFFICES ASSUME IInv, [Next]_vars PROVE TypeOK'
  OBVIOUS
<1> USE NoneAssumption, OwnerAssumption, MaxNowAssumption DEF Stamps
<1>1. ASSUME NEW p \in Procs, NEW k \in Keys, NEW t \in Targets, Enqueue(p,
    k, t) PROVE TypeOK'
  BY <1>1 DEF Enqueue, OneStep, Unlocked, MayLock, Tick, PendingOf,
      PendingRec, files, procs, IInv, TypeOK, LockInv
<1>2. ASSUME NEW p \in Procs, NEW k \in Keys, Claim(p, k) PROVE TypeOK'
  BY <1>2 DEF Claim, Claimable, Enter, MayLock, Tick, ClaimOf, PendingRec,
      ActiveRec, Labels, IInv, TypeOK, LockInv
<1>3. ASSUME NEW p \in Procs, NEW k \in Keys, List(p, k) PROVE TypeOK'
  BY <1>3 DEF List, At, ClaimView, PendingView, files, IInv, TypeOK, LockInv
<1>4. ASSUME NEW p \in Procs, NEW k \in Keys, RecoverOwned(p, k) PROVE
    TypeOK'
  BY <1>4 DEF RecoverOwned, OneStep, Unlocked, MayLock, Returned, ClaimView,
      files, IInv, TypeOK, LockInv
<1>5. ASSUME NEW p \in Procs, NEW k \in Keys, ReclaimStaleOwn(p, k) PROVE
    TypeOK'
  BY <1>5 DEF ReclaimStaleOwn, GiveBack, Enter, MayLock, RestorePending,
      Tick, PendingRec, ActiveRec, Labels, IInv, TypeOK, LockInv
<1>6. ASSUME NEW p \in Procs, NEW k \in Keys, ClearQuarantine(p, k) PROVE
    TypeOK'
  BY <1>6 DEF ClearQuarantine, Enter, MayLock, RestorePending, Tick,
      PendingRec, ActiveRec, Labels, IInv, TypeOK, LockInv
<1>7. ASSUME NEW p \in Procs, NEW k \in Keys, ClearRest(p, k) PROVE TypeOK'
  BY <1>7 DEF ClearRest, OneStep, Unlocked, MayLock, IInv, TypeOK, LockInv
<1>8. ASSUME NEW p \in Procs, NEW t \in Targets, MigratePending(p, t) PROVE
    TypeOK'
  BY <1>8 DEF MigratePending, OneStep, Unlocked, MayLock, Tick, PendingRec,
      PendingView, IInv, TypeOK, LockInv
<1>9. ASSUME NEW p \in Procs, Discard(p) PROVE TypeOK'
  BY <1>9 DEF Discard, Enter, MayLock, ResultRec, ClaimView, PendingView,
      Labels, IInv, TypeOK, LockInv
<1>10. ASSUME NEW p \in Procs, Renew(p) PROVE TypeOK'
  BY <1>10 DEF Renew, Matches, MatchesToken, OneStep, Unlocked, MayLock,
      Tick, ActiveRec, ClaimView, IInv, TypeOK, LockInv
<1>11. ASSUME NEW p \in Procs, Retry(p) PROVE TypeOK'
  BY <1>11 DEF Retry, Matches, MatchesToken, ReenterAtTail, Enter, MayLock,
      Tick, PendingOf, ReentryTarget, PendingRec, ActiveRec, ClaimView,
      Labels, IInv, TypeOK, LockInv
<1>12. ASSUME NEW p \in Procs, Reject(p) PROVE TypeOK'
  BY <1>12 DEF Reject, Matches, MatchesToken, RecordFailure, Enter, MayLock,
      ResultRec, ActiveRec, ClaimView, Labels, IInv, TypeOK, LockInv
<1>13. ASSUME NEW p \in Procs, SettleExpired(p) PROVE TypeOK'
  <2>1. CASE ReenterAtTail(p)
    BY <1>13, <2>1 DEF SettleExpired, LeaseSettleable, Matches,
        MatchesToken, ReenterAtTail, Enter, MayLock, Tick, PendingOf,
        ReentryTarget, PendingRec, ResultRec, ActiveRec, ClaimView, Labels,
        IInv, TypeOK, LockInv
  <2>2. CASE RecordFailure(p)
    BY <1>13, <2>2 DEF SettleExpired, LeaseSettleable, Matches,
        MatchesToken, RecordFailure, Enter, MayLock, Tick, PendingOf,
        ReentryTarget, PendingRec, ResultRec, ActiveRec, ClaimView, Labels,
        IInv, TypeOK, LockInv
  <2> QED
    BY <1>13, <2>1, <2>2 DEF SettleExpired
<1>14. ASSUME NEW p \in Procs, BreakLease(p) PROVE TypeOK'
  BY <1>14 DEF BreakLease, MatchesToken, GiveBack, Enter, MayLock,
      RestorePending, Tick, PendingRec, ActiveRec, ClaimView, Labels, IInv,
      TypeOK, LockInv
<1>15. ASSUME NEW p \in Procs, Release(p) PROVE TypeOK'
  BY <1>15 DEF Release, MatchesToken, GiveBack, Enter, MayLock,
      RestorePending, Tick, PendingRec, ActiveRec, ClaimView, Labels, IInv,
      TypeOK, LockInv
<1>16. ASSUME NEW p \in Procs, Complete(p) PROVE TypeOK'
  BY <1>16 DEF Complete, MatchesToken, Enter, MayLock, RetireAs, ResultRec,
      ActiveRec, ClaimView, Labels, IInv, TypeOK, LockInv
<1>17. ASSUME NEW p \in Procs, BeginPublish(p) PROVE TypeOK'
  BY <1>17 DEF BeginPublish, Matches, MatchesToken, Enter, MayLock, files,
      ClaimView, Labels, IInv, TypeOK, LockInv
<1>18. ASSUME NEW p \in Procs, Quarantine(p) PROVE TypeOK'
  BY <1>18 DEF Quarantine, Matches, MatchesToken, OneStep, Unlocked,
      MayLock, ActiveRec, ClaimView, IInv, TypeOK, LockInv
<1>19. ASSUME NEW p \in Procs, ClaimUnlink(p) PROVE TypeOK'
  <2>1. on[p] \in Keys /\ active[on[p]] \in ActiveRec
    BY <1>19 DEF ClaimUnlink, At, IInv, TypeOK, LockInv, StepInv, FilesAt
  <2>2. [key |-> on[p], rec |-> active[on[p]]] \in ClaimView
    BY <2>1 DEF ClaimView
  <2>3. view' \in [Procs -> ClaimView \cup PendingView \cup {None}]
    BY <1>19, <2>2 DEF ClaimUnlink, Returned, IInv, TypeOK
  <2>4. lock' \in [Keys -> Procs \cup {None}]
    <3>1. PICK h \in {None, p} : lock' = [lock EXCEPT ![on[p]] = h]
      BY <1>19 DEF ClaimUnlink, Finished, Unlocked
    <3> QED
      BY <3>1 DEF IInv, TypeOK
  <2> QED
    BY <1>19, <2>3, <2>4 DEF ClaimUnlink, Finished, IInv, TypeOK, Labels
<1>20. ASSUME NEW p \in Procs, ClaimUndo(p) PROVE TypeOK'
  BY <1>20 DEF ClaimUndo, At, Finished, Unlocked, Labels, IInv, TypeOK,
      LockInv
<1>21. ASSUME NEW p \in Procs, DiscardUnlink(p) PROVE TypeOK'
  BY <1>21 DEF DiscardUnlink, At, Finished, Unlocked, Labels, IInv, TypeOK,
      LockInv
<1>22. ASSUME NEW p \in Procs, DropActive(p) PROVE TypeOK'
  BY <1>22 DEF DropActive, At, Finished, Unlocked, Labels, IInv, TypeOK,
      LockInv
<1>23. ASSUME NEW p \in Procs, Publish(p) PROVE TypeOK'
  BY <1>23 DEF Publish, At, Goto, files, Labels, ClaimView, IInv, TypeOK,
      LockInv, PermitInv, ActiveRec
<1>24. ASSUME NEW p \in Procs, CommitPublish(p) PROVE TypeOK'
  <2>1. on[p] \in Keys /\ active[on[p]] \in ActiveRec
    BY <1>24 DEF CommitPublish, Matches, MatchesToken, IInv, TypeOK, LockInv,
                 PermitInv
  <2>2. PICK status \in {"completed", "superseded"} : RetireAs(on[p], status)
    BY <1>24 DEF CommitPublish
  <2>3. [token |-> active[on[p]].token, status |-> status] \in ResultRec
    BY <2>1 DEF ActiveRec, ResultRec
  <2>4. results' \in [Keys -> ResultRec \cup {None}]
    BY <2>2, <2>3 DEF RetireAs, IInv, TypeOK
  <2> QED
    BY <1>24, <2>4 DEF CommitPublish, Goto, IInv, TypeOK, Labels
<1>25. ASSUME NEW p \in Procs, ClearActive(p) PROVE TypeOK'
  BY <1>25 DEF ClearActive, At, Goto, Labels, IInv, TypeOK, LockInv
<1>26. ASSUME NEW p \in Procs, ClearMark(p) PROVE TypeOK'
  BY <1>26 DEF ClearMark, At, Finished, Unlocked, Labels, IInv, TypeOK,
      LockInv
<1>27. ASSUME NEW p \in Procs, Raise(p) PROVE TypeOK'
  BY <1>27 DEF Raise, Finished, Unlocked, files, Labels, IInv, TypeOK,
      LockInv
<1>28. ASSUME NEW p \in Procs, Crash(p) PROVE TypeOK'
  BY <1>28 DEF Crash, files, Labels, IInv, TypeOK, LockInv
<1>29. ASSUME NEW k \in Keys, LeaseExpires(k) PROVE TypeOK'
  BY <1>29 DEF LeaseExpires, files, procs, IInv, TypeOK, LockInv
<1>30. ASSUME NEW c \in Stamps, ProcessDies(c) PROVE TypeOK'
  BY <1>30 DEF ProcessDies, files, procs, IInv, TypeOK, LockInv
<1>31. CASE UNCHANGED vars
  BY <1>31 DEF vars, files, procs, IInv, TypeOK, LockInv
<1> QED
  BY <1>1, <1>2, <1>3, <1>4, <1>5, <1>6, <1>7, <1>8, <1>9, <1>10, <1>11,
     <1>12, <1>13, <1>14, <1>15, <1>16, <1>17, <1>18, <1>19, <1>20, <1>21,
     <1>22, <1>23, <1>24, <1>25, <1>26, <1>27, <1>28, <1>29, <1>30, <1>31
     DEF Next, Start, Continue

\* Every step keeps each key lock with the operation that took it.
LEMMA LockNext == IInv /\ [Next]_vars => LockInv'
<1> SUFFICES ASSUME IInv, [Next]_vars PROVE LockInv'
  OBVIOUS
<1> USE NoneAssumption
<1>1. ASSUME NEW p \in Procs, NEW k \in Keys, NEW t \in Targets, Enqueue(p,
    k, t) PROVE LockInv'
  BY <1>1 DEF Enqueue, OneStep, Unlocked, MayLock, Tick, files, procs, IInv,
      TypeOK, LockInv
<1>2. ASSUME NEW p \in Procs, NEW k \in Keys, Claim(p, k) PROVE LockInv'
  BY <1>2 DEF Claim, Claimable, Enter, MayLock, Tick, Labels, IInv, TypeOK,
      LockInv
<1>3. ASSUME NEW p \in Procs, NEW k \in Keys, List(p, k) PROVE LockInv'
  BY <1>3 DEF List, At, ClaimView, PendingView, files, IInv, TypeOK, LockInv
<1>4. ASSUME NEW p \in Procs, NEW k \in Keys, RecoverOwned(p, k) PROVE
    LockInv'
  BY <1>4 DEF RecoverOwned, OneStep, Unlocked, MayLock, Returned, ClaimView,
      files, IInv, TypeOK, LockInv
<1>5. ASSUME NEW p \in Procs, NEW k \in Keys, ReclaimStaleOwn(p, k) PROVE
    LockInv'
  BY <1>5 DEF ReclaimStaleOwn, GiveBack, Enter, MayLock, RestorePending,
      Tick, Labels, IInv, TypeOK, LockInv
<1>6. ASSUME NEW p \in Procs, NEW k \in Keys, ClearQuarantine(p, k) PROVE
    LockInv'
  BY <1>6 DEF ClearQuarantine, Enter, MayLock, RestorePending, Tick, Labels,
      IInv, TypeOK, LockInv
<1>7. ASSUME NEW p \in Procs, NEW k \in Keys, ClearRest(p, k) PROVE LockInv'
  BY <1>7 DEF ClearRest, OneStep, Unlocked, MayLock, IInv, TypeOK, LockInv
<1>8. ASSUME NEW p \in Procs, NEW t \in Targets, MigratePending(p, t) PROVE
    LockInv'
  BY <1>8 DEF MigratePending, OneStep, Unlocked, MayLock, Tick, PendingView,
      IInv, TypeOK, LockInv
<1>9. ASSUME NEW p \in Procs, Discard(p) PROVE LockInv'
  BY <1>9 DEF Discard, Enter, MayLock, ClaimView, PendingView, Labels, IInv,
      TypeOK, LockInv
<1>10. ASSUME NEW p \in Procs, Renew(p) PROVE LockInv'
  BY <1>10 DEF Renew, Matches, MatchesToken, OneStep, Unlocked, MayLock,
      Tick, ClaimView, IInv, TypeOK, LockInv
<1>11. ASSUME NEW p \in Procs, Retry(p) PROVE LockInv'
  BY <1>11 DEF Retry, Matches, MatchesToken, ReenterAtTail, Enter, MayLock,
      Tick, ClaimView, Labels, IInv, TypeOK, LockInv
<1>12. ASSUME NEW p \in Procs, Reject(p) PROVE LockInv'
  BY <1>12 DEF Reject, Matches, MatchesToken, RecordFailure, Enter, MayLock,
      ClaimView, Labels, IInv, TypeOK, LockInv
<1>13. ASSUME NEW p \in Procs, SettleExpired(p) PROVE LockInv'
  BY <1>13 DEF SettleExpired, LeaseSettleable, Matches, MatchesToken,
      ReenterAtTail, RecordFailure, Enter, MayLock, Tick, ClaimView, Labels,
      IInv, TypeOK, LockInv
<1>14. ASSUME NEW p \in Procs, BreakLease(p) PROVE LockInv'
  BY <1>14 DEF BreakLease, MatchesToken, GiveBack, Enter, MayLock,
      RestorePending, Tick, ClaimView, Labels, IInv, TypeOK, LockInv
<1>15. ASSUME NEW p \in Procs, Release(p) PROVE LockInv'
  BY <1>15 DEF Release, MatchesToken, GiveBack, Enter, MayLock,
      RestorePending, Tick, ClaimView, Labels, IInv, TypeOK, LockInv
<1>16. ASSUME NEW p \in Procs, Complete(p) PROVE LockInv'
  BY <1>16 DEF Complete, MatchesToken, Enter, MayLock, ClaimView, Labels,
      IInv, TypeOK, LockInv
<1>17. ASSUME NEW p \in Procs, BeginPublish(p) PROVE LockInv'
  BY <1>17 DEF BeginPublish, Matches, MatchesToken, Enter, MayLock, files,
      ClaimView, Labels, IInv, TypeOK, LockInv
<1>18. ASSUME NEW p \in Procs, Quarantine(p) PROVE LockInv'
  BY <1>18 DEF Quarantine, Matches, MatchesToken, OneStep, Unlocked,
      MayLock, ClaimView, IInv, TypeOK, LockInv
<1>19. ASSUME NEW p \in Procs, ClaimUnlink(p) PROVE LockInv'
  BY <1>19 DEF ClaimUnlink, At, Finished, Unlocked, Returned, ClaimView,
      Labels, IInv, TypeOK, LockInv
<1>20. ASSUME NEW p \in Procs, ClaimUndo(p) PROVE LockInv'
  BY <1>20 DEF ClaimUndo, At, Finished, Unlocked, Labels, IInv, TypeOK,
      LockInv
<1>21. ASSUME NEW p \in Procs, DiscardUnlink(p) PROVE LockInv'
  BY <1>21 DEF DiscardUnlink, At, Finished, Unlocked, Labels, IInv, TypeOK,
      LockInv
<1>22. ASSUME NEW p \in Procs, DropActive(p) PROVE LockInv'
  BY <1>22 DEF DropActive, At, Finished, Unlocked, Labels, IInv, TypeOK,
      LockInv
<1>23. ASSUME NEW p \in Procs, Publish(p) PROVE LockInv'
  BY <1>23 DEF Publish, At, Goto, files, Labels, ClaimView, IInv, TypeOK,
      LockInv
<1>24. ASSUME NEW p \in Procs, CommitPublish(p) PROVE LockInv'
  BY <1>24 DEF CommitPublish, At, Goto, Matches, MatchesToken, ClaimView,
      Labels, IInv, TypeOK, LockInv
<1>25. ASSUME NEW p \in Procs, ClearActive(p) PROVE LockInv'
  BY <1>25 DEF ClearActive, At, Goto, Labels, IInv, TypeOK, LockInv
<1>26. ASSUME NEW p \in Procs, ClearMark(p) PROVE LockInv'
  BY <1>26 DEF ClearMark, At, Finished, Unlocked, Labels, IInv, TypeOK,
      LockInv
<1>27. ASSUME NEW p \in Procs, Raise(p) PROVE LockInv'
  BY <1>27 DEF Raise, Finished, Unlocked, files, Labels, IInv, TypeOK,
      LockInv
<1>28. ASSUME NEW p \in Procs, Crash(p) PROVE LockInv'
  BY <1>28 DEF Crash, files, Labels, IInv, TypeOK, LockInv
<1>29. ASSUME NEW k \in Keys, LeaseExpires(k) PROVE LockInv'
  BY <1>29 DEF LeaseExpires, files, procs, IInv, TypeOK, LockInv
<1>30. ASSUME NEW c \in Stamps, ProcessDies(c) PROVE LockInv'
  BY <1>30 DEF ProcessDies, files, procs, IInv, TypeOK, LockInv
<1>31. CASE UNCHANGED vars
  BY <1>31 DEF vars, files, procs, IInv, TypeOK, LockInv
<1> QED
  BY <1>1, <1>2, <1>3, <1>4, <1>5, <1>6, <1>7, <1>8, <1>9, <1>10, <1>11,
     <1>12, <1>13, <1>14, <1>15, <1>16, <1>17, <1>18, <1>19, <1>20, <1>21,
     <1>22, <1>23, <1>24, <1>25, <1>26, <1>27, <1>28, <1>29, <1>30, <1>31
     DEF Next, Start, Continue

\* Every step keeps the claim or the request of a quarantined key.
LEMMA QuarantineNext == IInv /\ [Next]_vars => QuarantineInv'
<1> SUFFICES ASSUME IInv, [Next]_vars PROVE QuarantineInv'
  OBVIOUS
<1> USE NoneAssumption DEF Stamps
<1>1. ASSUME NEW p \in Procs, NEW k \in Keys, NEW t \in Targets, Enqueue(p,
    k, t) PROVE QuarantineInv'
  <2>1. PendingOf(t, now') \in PendingRec
    BY <1>1, MaxNowAssumption
       DEF Enqueue, Tick, PendingOf, PendingRec, IInv, TypeOK
  <2>2. pending'[k] # None
    BY <1>1, <2>1 DEF Enqueue, IInv, TypeOK
  <2> QED
    BY <1>1, <2>2 DEF Enqueue, IInv, TypeOK, QuarantineInv
<1>2. ASSUME NEW p \in Procs, NEW k \in Keys, Claim(p, k) PROVE
    QuarantineInv'
  BY <1>2 DEF Claim, Claimable, Enter, MayLock, Tick, ClaimOf, PendingRec,
      ActiveRec, Labels, IInv, TypeOK, LockInv, StepInv, FilesAt,
      QuarantineInv
<1>3. ASSUME NEW p \in Procs, NEW k \in Keys, List(p, k) PROVE
    QuarantineInv'
  BY <1>3 DEF List, At, ClaimView, PendingView, files, IInv, TypeOK,
      LockInv, StepInv, FilesAt, QuarantineInv
<1>4. ASSUME NEW p \in Procs, NEW k \in Keys, RecoverOwned(p, k) PROVE
    QuarantineInv'
  BY <1>4 DEF RecoverOwned, OneStep, Unlocked, MayLock, Returned, ClaimView,
      files, IInv, TypeOK, LockInv, StepInv, FilesAt, QuarantineInv
<1>5. ASSUME NEW p \in Procs, NEW k \in Keys, ReclaimStaleOwn(p, k) PROVE
    QuarantineInv'
  BY <1>5 DEF ReclaimStaleOwn, GiveBack, Enter, MayLock, RestorePending,
      Tick, PendingRec, ActiveRec, Labels, IInv, TypeOK, LockInv, StepInv,
      FilesAt, QuarantineInv
<1>6. ASSUME NEW p \in Procs, NEW k \in Keys, ClearQuarantine(p, k) PROVE
    QuarantineInv'
  BY <1>6 DEF ClearQuarantine, Enter, MayLock, RestorePending, Tick,
      PendingRec, ActiveRec, Labels, IInv, TypeOK, LockInv, StepInv,
      FilesAt, QuarantineInv
<1>7. ASSUME NEW p \in Procs, NEW k \in Keys, ClearRest(p, k) PROVE
    QuarantineInv'
  BY <1>7 DEF ClearRest, OneStep, Unlocked, MayLock, IInv, TypeOK, LockInv,
      StepInv, FilesAt, QuarantineInv
<1>8. ASSUME NEW p \in Procs, NEW t \in Targets, MigratePending(p, t) PROVE
    QuarantineInv'
  <2> DEFINE k == view[p].key
             rec == [pending[k] EXCEPT !.target = t, !.ver = now']
  <2>1. k \in Keys /\ pending[k] \in PendingRec
    BY <1>8 DEF MigratePending, PendingView, IInv, TypeOK
  <2>2. rec \in PendingRec
    <3>1. now' \in Stamps
      BY <1>8, MaxNowAssumption DEF MigratePending, Tick, IInv, TypeOK
    <3> QED
      BY <2>1, <3>1 DEF PendingRec
  <2>3. pending' = [pending EXCEPT ![k] = rec]
    BY <1>8, <2>1 DEF MigratePending, IInv, TypeOK, PendingRec
  <2>4. pending'[k] # None
    BY <2>1, <2>2, <2>3 DEF IInv, TypeOK
  <2> QED
    BY <1>8, <2>1, <2>3, <2>4 DEF MigratePending, IInv, TypeOK, QuarantineInv
<1>9. ASSUME NEW p \in Procs, Discard(p) PROVE QuarantineInv'
  BY <1>9 DEF Discard, Enter, MayLock, ResultRec, ClaimView, PendingView,
      Labels, IInv, TypeOK, LockInv, StepInv, FilesAt, QuarantineInv
<1>10. ASSUME NEW p \in Procs, Renew(p) PROVE QuarantineInv'
  <2>1. view[p].key \in Keys /\ quarantine[view[p].key] = None
    BY <1>10 DEF Renew, Matches, MatchesToken, NotQuarantined, ClaimView
  <2>2. \A j \in Keys \ {view[p].key} : active'[j] = active[j]
    BY <1>10 DEF Renew, IInv, TypeOK
  <2>3. UNCHANGED <<pending, quarantine, dead>>
    BY <1>10 DEF Renew
  <2> QED
    BY <2>1, <2>2, <2>3 DEF IInv, QuarantineInv
<1>11. ASSUME NEW p \in Procs, Retry(p) PROVE QuarantineInv'
  BY <1>11 DEF Retry, Matches, MatchesToken, ReenterAtTail, Enter, MayLock,
      Tick, PendingOf, ReentryTarget, PendingRec, ActiveRec, ClaimView,
      Labels, IInv, TypeOK, LockInv, StepInv, FilesAt, QuarantineInv
<1>12. ASSUME NEW p \in Procs, Reject(p) PROVE QuarantineInv'
  BY <1>12 DEF Reject, Matches, MatchesToken, RecordFailure, Enter, MayLock,
      ResultRec, ActiveRec, ClaimView, Labels, IInv, TypeOK, LockInv,
      StepInv, FilesAt, QuarantineInv
<1>13. ASSUME NEW p \in Procs, SettleExpired(p) PROVE QuarantineInv'
  BY <1>13 DEF SettleExpired, LeaseSettleable, Matches, MatchesToken,
      ReenterAtTail, RecordFailure, Enter, MayLock, Tick, PendingOf,
      ReentryTarget, PendingRec, ResultRec, ActiveRec, ClaimView, Labels,
      IInv, TypeOK, LockInv, StepInv, FilesAt, QuarantineInv
<1>14. ASSUME NEW p \in Procs, BreakLease(p) PROVE QuarantineInv'
  BY <1>14 DEF BreakLease, MatchesToken, GiveBack, Enter, MayLock,
      RestorePending, Tick, PendingRec, ActiveRec, ClaimView, Labels, IInv,
      TypeOK, LockInv, StepInv, FilesAt, QuarantineInv
<1>15. ASSUME NEW p \in Procs, Release(p) PROVE QuarantineInv'
  BY <1>15 DEF Release, MatchesToken, GiveBack, Enter, MayLock,
      RestorePending, Tick, PendingRec, ActiveRec, ClaimView, Labels, IInv,
      TypeOK, LockInv, StepInv, FilesAt, QuarantineInv
<1>16. ASSUME NEW p \in Procs, Complete(p) PROVE QuarantineInv'
  BY <1>16 DEF Complete, MatchesToken, Enter, MayLock, RetireAs, ResultRec,
      ActiveRec, ClaimView, Labels, IInv, TypeOK, LockInv, StepInv, FilesAt,
      QuarantineInv
<1>17. ASSUME NEW p \in Procs, BeginPublish(p) PROVE QuarantineInv'
  BY <1>17 DEF BeginPublish, Matches, MatchesToken, Enter, MayLock, files,
      ClaimView, Labels, IInv, TypeOK, LockInv, StepInv, FilesAt,
      QuarantineInv
<1>18. ASSUME NEW p \in Procs, Quarantine(p) PROVE QuarantineInv'
  BY <1>18 DEF Quarantine, Matches, MatchesToken, OneStep, Unlocked,
      MayLock, ActiveRec, ClaimView, IInv, TypeOK, LockInv, StepInv,
      FilesAt, QuarantineInv
<1>19. ASSUME NEW p \in Procs, ClaimUnlink(p) PROVE QuarantineInv'
  BY <1>19 DEF ClaimUnlink, At, Finished, Unlocked, Returned, ClaimView,
      Labels, IInv, TypeOK, LockInv, StepInv, FilesAt, QuarantineInv
<1>20. ASSUME NEW p \in Procs, ClaimUndo(p) PROVE QuarantineInv'
  BY <1>20 DEF ClaimUndo, At, Finished, Unlocked, Labels, IInv, TypeOK,
      LockInv, StepInv, FilesAt, QuarantineInv
<1>21. ASSUME NEW p \in Procs, DiscardUnlink(p) PROVE QuarantineInv'
  BY <1>21 DEF DiscardUnlink, At, Finished, Unlocked, Labels, IInv, TypeOK,
      LockInv, StepInv, FilesAt, QuarantineInv
<1>22. ASSUME NEW p \in Procs, DropActive(p) PROVE QuarantineInv'
  BY <1>22 DEF DropActive, At, Finished, Unlocked, Labels, IInv, TypeOK,
      LockInv, StepInv, FilesAt, QuarantineInv
<1>23. ASSUME NEW p \in Procs, Publish(p) PROVE QuarantineInv'
  BY <1>23 DEF Publish, At, Goto, files, Labels, ClaimView, IInv, TypeOK,
      LockInv, StepInv, FilesAt, QuarantineInv
<1>24. ASSUME NEW p \in Procs, CommitPublish(p) PROVE QuarantineInv'
  BY <1>24 DEF CommitPublish, At, Goto, Matches, MatchesToken, RetireAs,
      ResultRec, ActiveRec, ClaimView, Labels, IInv, TypeOK, LockInv,
      StepInv, FilesAt, QuarantineInv
<1>25. ASSUME NEW p \in Procs, ClearActive(p) PROVE QuarantineInv'
  BY <1>25 DEF ClearActive, At, Goto, Labels, IInv, TypeOK, LockInv,
      StepInv, FilesAt, QuarantineInv
<1>26. ASSUME NEW p \in Procs, ClearMark(p) PROVE QuarantineInv'
  BY <1>26 DEF ClearMark, At, Finished, Unlocked, Labels, IInv, TypeOK,
      LockInv, StepInv, FilesAt, QuarantineInv
<1>27. ASSUME NEW p \in Procs, Raise(p) PROVE QuarantineInv'
  BY <1>27 DEF Raise, Finished, Unlocked, files, Labels, IInv, TypeOK,
      LockInv, StepInv, FilesAt, QuarantineInv
<1>28. ASSUME NEW p \in Procs, Crash(p) PROVE QuarantineInv'
  BY <1>28 DEF Crash, files, Labels, IInv, TypeOK, LockInv, StepInv,
      FilesAt, QuarantineInv
<1>29. ASSUME NEW k \in Keys, LeaseExpires(k) PROVE QuarantineInv'
  BY <1>29 DEF LeaseExpires, files, procs, IInv, TypeOK, LockInv, StepInv,
      FilesAt, QuarantineInv
<1>30. ASSUME NEW c \in Stamps, ProcessDies(c) PROVE QuarantineInv'
  BY <1>30 DEF ProcessDies, files, procs, IInv, TypeOK, LockInv, StepInv,
      FilesAt, QuarantineInv
<1>31. CASE UNCHANGED vars
  BY <1>31 DEF vars, files, procs, IInv, TypeOK, LockInv, StepInv, FilesAt,
      QuarantineInv
<1> QED
  BY <1>1, <1>2, <1>3, <1>4, <1>5, <1>6, <1>7, <1>8, <1>9, <1>10, <1>11,
     <1>12, <1>13, <1>14, <1>15, <1>16, <1>17, <1>18, <1>19, <1>20, <1>21,
     <1>22, <1>23, <1>24, <1>25, <1>26, <1>27, <1>28, <1>29, <1>30, <1>31
     DEF Next, Start, Continue

\* Every step keeps the files as the operations in progress left them.
LEMMA StepNext == IInv /\ [Next]_vars => StepInv'
<1> SUFFICES ASSUME IInv, [Next]_vars PROVE StepInv'
  OBVIOUS
<1> USE NoneAssumption DEF Stamps
<1>1. ASSUME NEW p \in Procs, NEW k \in Keys, NEW t \in Targets, Enqueue(p,
    k, t) PROVE StepInv'
  BY <1>1 DEF Enqueue, OneStep, Unlocked, MayLock, Tick, PendingOf,
      PendingRec, files, procs, IInv, TypeOK, LockInv, StepInv, FilesAt,
      QuarantineInv
<1>2. ASSUME NEW p \in Procs, NEW k \in Keys, Claim(p, k) PROVE StepInv'
  BY <1>2, ClaimStep
<1>3. ASSUME NEW p \in Procs, NEW k \in Keys, List(p, k) PROVE StepInv'
  BY <1>3 DEF List, At, ClaimView, PendingView, files, IInv, TypeOK,
      LockInv, StepInv, FilesAt, QuarantineInv
<1>4. ASSUME NEW p \in Procs, NEW k \in Keys, RecoverOwned(p, k) PROVE
    StepInv'
  BY <1>4 DEF RecoverOwned, OneStep, Unlocked, MayLock, Returned, ClaimView,
      files, IInv, TypeOK, LockInv, StepInv, FilesAt, QuarantineInv
<1>5. ASSUME NEW p \in Procs, NEW k \in Keys, ReclaimStaleOwn(p, k) PROVE
    StepInv'
  BY <1>5, GiveBackStep DEF ReclaimStaleOwn
<1>6. ASSUME NEW p \in Procs, NEW k \in Keys, ClearQuarantine(p, k) PROVE
    StepInv'
  BY <1>6, ClearQuarantineStep
<1>7. ASSUME NEW p \in Procs, NEW k \in Keys, ClearRest(p, k) PROVE StepInv'
  BY <1>7 DEF ClearRest, OneStep, Unlocked, MayLock, IInv, TypeOK, LockInv,
      StepInv, FilesAt, QuarantineInv
<1>8. ASSUME NEW p \in Procs, NEW t \in Targets, MigratePending(p, t) PROVE
    StepInv'
  BY <1>8 DEF MigratePending, OneStep, Unlocked, MayLock, Tick, PendingRec,
      PendingView, IInv, TypeOK, LockInv, StepInv, FilesAt, QuarantineInv
<1>9. ASSUME NEW p \in Procs, Discard(p) PROVE StepInv'
  BY <1>9 DEF Discard, Enter, MayLock, ResultRec, ClaimView, PendingView,
      Labels, IInv, TypeOK, LockInv, StepInv, FilesAt, QuarantineInv
<1>10. ASSUME NEW p \in Procs, Renew(p) PROVE StepInv'
  BY <1>10 DEF Renew, Matches, MatchesToken, OneStep, Unlocked, MayLock,
      Tick, ActiveRec, ClaimView, IInv, TypeOK, LockInv, StepInv, FilesAt,
      QuarantineInv
<1>11. ASSUME NEW p \in Procs, Retry(p) PROVE StepInv'
  BY <1>11, ReenterStep DEF Retry
<1>12. ASSUME NEW p \in Procs, Reject(p) PROVE StepInv'
  BY <1>12, RecordFailureStep DEF Reject
<1>13. ASSUME NEW p \in Procs, SettleExpired(p) PROVE StepInv'
  BY <1>13, ReenterStep, RecordFailureStep DEF SettleExpired,
      LeaseSettleable
<1>14. ASSUME NEW p \in Procs, BreakLease(p) PROVE StepInv'
  BY <1>14, GiveBackStep DEF BreakLease, MatchesToken, ClaimView
<1>15. ASSUME NEW p \in Procs, Release(p) PROVE StepInv'
  BY <1>15, GiveBackStep DEF Release, MatchesToken, ClaimView
<1>16. ASSUME NEW p \in Procs, Complete(p) PROVE StepInv'
  BY <1>16, CompleteStep
<1>17. ASSUME NEW p \in Procs, BeginPublish(p) PROVE StepInv'
  BY <1>17, BeginPublishStep
<1>18. ASSUME NEW p \in Procs, Quarantine(p) PROVE StepInv'
  BY <1>18 DEF Quarantine, Matches, MatchesToken, OneStep, Unlocked,
      MayLock, ActiveRec, ClaimView, IInv, TypeOK, LockInv, StepInv,
      FilesAt, QuarantineInv
<1>19. ASSUME NEW p \in Procs, ClaimUnlink(p) PROVE StepInv'
  BY <1>19 DEF ClaimUnlink, At, Finished, Unlocked, Returned, ClaimView,
      Labels, IInv, TypeOK, LockInv, StepInv, FilesAt, QuarantineInv
<1>20. ASSUME NEW p \in Procs, ClaimUndo(p) PROVE StepInv'
  BY <1>20 DEF ClaimUndo, At, Finished, Unlocked, Labels, IInv, TypeOK,
      LockInv, StepInv, FilesAt, QuarantineInv
<1>21. ASSUME NEW p \in Procs, DiscardUnlink(p) PROVE StepInv'
  BY <1>21 DEF DiscardUnlink, At, Finished, Unlocked, Labels, IInv, TypeOK,
      LockInv, StepInv, FilesAt, QuarantineInv
<1>22. ASSUME NEW p \in Procs, DropActive(p) PROVE StepInv'
  BY <1>22 DEF DropActive, At, Finished, Unlocked, Labels, IInv, TypeOK,
      LockInv, StepInv, FilesAt, QuarantineInv
<1>23. ASSUME NEW p \in Procs, Publish(p) PROVE StepInv'
  BY <1>23 DEF Publish, At, Goto, files, Labels, ClaimView, IInv, TypeOK,
      LockInv, StepInv, FilesAt, QuarantineInv
<1>24. ASSUME NEW p \in Procs, CommitPublish(p) PROVE StepInv'
  BY <1>24, CommitPublishStep
<1>25. ASSUME NEW p \in Procs, ClearActive(p) PROVE StepInv'
  BY <1>25 DEF ClearActive, At, Goto, Labels, IInv, TypeOK, LockInv,
      StepInv, FilesAt, QuarantineInv
<1>26. ASSUME NEW p \in Procs, ClearMark(p) PROVE StepInv'
  BY <1>26 DEF ClearMark, At, Finished, Unlocked, Labels, IInv, TypeOK,
      LockInv, StepInv, FilesAt, QuarantineInv
<1>27. ASSUME NEW p \in Procs, Raise(p) PROVE StepInv'
  BY <1>27 DEF Raise, Finished, Unlocked, files, Labels, IInv, TypeOK,
      LockInv, StepInv, FilesAt, QuarantineInv
<1>28. ASSUME NEW p \in Procs, Crash(p) PROVE StepInv'
  BY <1>28 DEF Crash, files, Labels, IInv, TypeOK, LockInv, StepInv,
      FilesAt, QuarantineInv
<1>29. ASSUME NEW k \in Keys, LeaseExpires(k) PROVE StepInv'
  BY <1>29 DEF LeaseExpires, files, procs, IInv, TypeOK, LockInv, StepInv,
      FilesAt, QuarantineInv
<1>30. ASSUME NEW c \in Stamps, ProcessDies(c) PROVE StepInv'
  BY <1>30 DEF ProcessDies, files, procs, IInv, TypeOK, LockInv, StepInv,
      FilesAt, QuarantineInv
<1>31. CASE UNCHANGED vars
  BY <1>31 DEF vars, files, procs, IInv, TypeOK, LockInv, StepInv, FilesAt,
      QuarantineInv
<1> QED
  BY <1>1, <1>2, <1>3, <1>4, <1>5, <1>6, <1>7, <1>8, <1>9, <1>10, <1>11,
     <1>12, <1>13, <1>14, <1>15, <1>16, <1>17, <1>18, <1>19, <1>20, <1>21,
     <1>22, <1>23, <1>24, <1>25, <1>26, <1>27, <1>28, <1>29, <1>30, <1>31
     DEF Next, Start, Continue

\* Every step keeps the permits true of the claims they were given for.
LEMMA PermitNext == IInv /\ [Next]_vars => PermitInv'
<1> SUFFICES ASSUME IInv, [Next]_vars PROVE PermitInv'
  OBVIOUS
<1> USE NoneAssumption DEF Stamps
<1>1. ASSUME NEW p \in Procs, NEW k \in Keys, NEW t \in Targets, Enqueue(p,
    k, t) PROVE PermitInv'
  BY <1>1 DEF Enqueue, OneStep, Unlocked, MayLock, Tick, PendingOf,
      PendingRec, files, procs, IInv, TypeOK, LockInv, StepInv, PermitInv,
      FilesAt, Superseded
<1>2. ASSUME NEW p \in Procs, NEW k \in Keys, Claim(p, k) PROVE PermitInv'
  BY <1>2 DEF Claim, Claimable, Enter, MayLock, Tick, ClaimOf, PendingRec,
      ActiveRec, Labels, IInv, TypeOK, LockInv, StepInv, PermitInv, FilesAt,
      Superseded
<1>3. ASSUME NEW p \in Procs, NEW k \in Keys, List(p, k) PROVE PermitInv'
  BY <1>3 DEF List, At, ClaimView, PendingView, files, IInv, TypeOK,
      LockInv, StepInv, PermitInv, FilesAt, Superseded
<1>4. ASSUME NEW p \in Procs, NEW k \in Keys, RecoverOwned(p, k) PROVE
    PermitInv'
  BY <1>4 DEF RecoverOwned, OneStep, Unlocked, MayLock, Returned, ClaimView,
      files, IInv, TypeOK, LockInv, StepInv, PermitInv, FilesAt, Superseded
<1>5. ASSUME NEW p \in Procs, NEW k \in Keys, ReclaimStaleOwn(p, k) PROVE
    PermitInv'
  BY <1>5 DEF ReclaimStaleOwn, GiveBack, Enter, MayLock, RestorePending,
      Tick, PendingRec, ActiveRec, Labels, IInv, TypeOK, LockInv, StepInv,
      PermitInv, FilesAt, Superseded
<1>6. ASSUME NEW p \in Procs, NEW k \in Keys, ClearQuarantine(p, k) PROVE
    PermitInv'
  BY <1>6 DEF ClearQuarantine, Enter, MayLock, RestorePending, Tick,
      PendingRec, ActiveRec, Labels, IInv, TypeOK, LockInv, StepInv,
      PermitInv, FilesAt, Superseded
<1>7. ASSUME NEW p \in Procs, NEW k \in Keys, ClearRest(p, k) PROVE
    PermitInv'
  BY <1>7 DEF ClearRest, OneStep, Unlocked, MayLock, IInv, TypeOK, LockInv,
      StepInv, PermitInv, FilesAt, Superseded
<1>8. ASSUME NEW p \in Procs, NEW t \in Targets, MigratePending(p, t) PROVE
    PermitInv'
  BY <1>8 DEF MigratePending, OneStep, Unlocked, MayLock, Tick, PendingRec,
      PendingView, IInv, TypeOK, LockInv, StepInv, PermitInv, FilesAt,
      Superseded
<1>9. ASSUME NEW p \in Procs, Discard(p) PROVE PermitInv'
  BY <1>9 DEF Discard, Enter, MayLock, ResultRec, ClaimView, PendingView,
      Labels, IInv, TypeOK, LockInv, StepInv, PermitInv, FilesAt, Superseded
<1>10. ASSUME NEW p \in Procs, Renew(p) PROVE PermitInv'
  BY <1>10 DEF Renew, Matches, MatchesToken, OneStep, Unlocked, MayLock,
      Tick, ActiveRec, ClaimView, IInv, TypeOK, LockInv, StepInv, PermitInv,
      FilesAt, Superseded
<1>11. ASSUME NEW p \in Procs, Retry(p) PROVE PermitInv'
  BY <1>11 DEF Retry, Matches, MatchesToken, ReenterAtTail, Enter, MayLock,
      Tick, PendingOf, ReentryTarget, PendingRec, ActiveRec, ClaimView,
      Labels, IInv, TypeOK, LockInv, StepInv, PermitInv, FilesAt, Superseded
<1>12. ASSUME NEW p \in Procs, Reject(p) PROVE PermitInv'
  BY <1>12 DEF Reject, Matches, MatchesToken, RecordFailure, Enter, MayLock,
      ResultRec, ActiveRec, ClaimView, Labels, IInv, TypeOK, LockInv,
      StepInv, PermitInv, FilesAt, Superseded
<1>13. ASSUME NEW p \in Procs, SettleExpired(p) PROVE PermitInv'
  <2>1. CASE ReenterAtTail(p)
    BY <1>13, <2>1 DEF SettleExpired, LeaseSettleable, Matches,
        MatchesToken, ReenterAtTail, Enter, MayLock, Tick, PendingOf,
        ReentryTarget, PendingRec, ResultRec, ActiveRec, ClaimView, Labels,
        IInv, TypeOK, LockInv, StepInv, PermitInv, FilesAt, Superseded
  <2>2. CASE RecordFailure(p)
    BY <1>13, <2>2 DEF SettleExpired, LeaseSettleable, Matches,
        MatchesToken, RecordFailure, Enter, MayLock, Tick, PendingOf,
        ReentryTarget, PendingRec, ResultRec, ActiveRec, ClaimView, Labels,
        IInv, TypeOK, LockInv, StepInv, PermitInv, FilesAt, Superseded
  <2> QED
    BY <1>13, <2>1, <2>2 DEF SettleExpired
<1>14. ASSUME NEW p \in Procs, BreakLease(p) PROVE PermitInv'
  BY <1>14 DEF BreakLease, MatchesToken, GiveBack, Enter, MayLock,
      RestorePending, Tick, PendingRec, ActiveRec, ClaimView, Labels, IInv,
      TypeOK, LockInv, StepInv, PermitInv, FilesAt, Superseded
<1>15. ASSUME NEW p \in Procs, Release(p) PROVE PermitInv'
  BY <1>15 DEF Release, MatchesToken, GiveBack, Enter, MayLock,
      RestorePending, Tick, PendingRec, ActiveRec, ClaimView, Labels, IInv,
      TypeOK, LockInv, StepInv, PermitInv, FilesAt, Superseded
<1>16. ASSUME NEW p \in Procs, Complete(p) PROVE PermitInv'
  BY <1>16 DEF Complete, MatchesToken, Enter, MayLock, RetireAs, ResultRec,
      ActiveRec, ClaimView, Labels, IInv, TypeOK, LockInv, StepInv,
      PermitInv, FilesAt, Superseded
<1>17. ASSUME NEW p \in Procs, BeginPublish(p) PROVE PermitInv'
  BY <1>17 DEF BeginPublish, Matches, MatchesToken, Enter, MayLock, files,
      ClaimView, Labels, IInv, TypeOK, LockInv, StepInv, PermitInv, FilesAt,
      Superseded
<1>18. ASSUME NEW p \in Procs, Quarantine(p) PROVE PermitInv'
  BY <1>18 DEF Quarantine, Matches, MatchesToken, OneStep, Unlocked,
      MayLock, ActiveRec, ClaimView, IInv, TypeOK, LockInv, StepInv,
      PermitInv, FilesAt, Superseded
<1>19. ASSUME NEW p \in Procs, ClaimUnlink(p) PROVE PermitInv'
  BY <1>19 DEF ClaimUnlink, At, Finished, Unlocked, Returned, ClaimView,
      Labels, IInv, TypeOK, LockInv, StepInv, PermitInv, FilesAt, Superseded
<1>20. ASSUME NEW p \in Procs, ClaimUndo(p) PROVE PermitInv'
  BY <1>20 DEF ClaimUndo, At, Finished, Unlocked, Labels, IInv, TypeOK,
      LockInv, StepInv, PermitInv, FilesAt, Superseded
<1>21. ASSUME NEW p \in Procs, DiscardUnlink(p) PROVE PermitInv'
  BY <1>21 DEF DiscardUnlink, At, Finished, Unlocked, Labels, IInv, TypeOK,
      LockInv, StepInv, PermitInv, FilesAt, Superseded
<1>22. ASSUME NEW p \in Procs, DropActive(p) PROVE PermitInv'
  BY <1>22 DEF DropActive, At, Finished, Unlocked, Labels, IInv, TypeOK,
      LockInv, StepInv, PermitInv, FilesAt, Superseded
<1>23. ASSUME NEW p \in Procs, Publish(p) PROVE PermitInv'
  BY <1>23 DEF Publish, At, Goto, files, Labels, ClaimView, IInv, TypeOK,
      LockInv, StepInv, PermitInv, FilesAt, Superseded
<1>24. ASSUME NEW p \in Procs, CommitPublish(p) PROVE PermitInv'
  BY <1>24 DEF CommitPublish, At, Goto, Matches, MatchesToken, RetireAs,
      ResultRec, ActiveRec, ClaimView, Labels, IInv, TypeOK, LockInv,
      StepInv, PermitInv, FilesAt, Superseded
<1>25. ASSUME NEW p \in Procs, ClearActive(p) PROVE PermitInv'
  BY <1>25 DEF ClearActive, At, Goto, Labels, IInv, TypeOK, LockInv,
      StepInv, PermitInv, FilesAt, Superseded
<1>26. ASSUME NEW p \in Procs, ClearMark(p) PROVE PermitInv'
  BY <1>26 DEF ClearMark, At, Finished, Unlocked, Labels, IInv, TypeOK,
      LockInv, StepInv, PermitInv, FilesAt, Superseded
<1>27. ASSUME NEW p \in Procs, Raise(p) PROVE PermitInv'
  BY <1>27 DEF Raise, Finished, Unlocked, files, Labels, IInv, TypeOK,
      LockInv, StepInv, PermitInv, FilesAt, Superseded
<1>28. ASSUME NEW p \in Procs, Crash(p) PROVE PermitInv'
  BY <1>28 DEF Crash, files, Labels, IInv, TypeOK, LockInv, StepInv,
      PermitInv, FilesAt, Superseded
<1>29. ASSUME NEW k \in Keys, LeaseExpires(k) PROVE PermitInv'
  BY <1>29 DEF LeaseExpires, files, procs, IInv, TypeOK, LockInv, StepInv,
      PermitInv, FilesAt, Superseded
<1>30. ASSUME NEW c \in Stamps, ProcessDies(c) PROVE PermitInv'
  BY <1>30 DEF ProcessDies, files, procs, IInv, TypeOK, LockInv, StepInv,
      PermitInv, FilesAt, Superseded
<1>31. CASE UNCHANGED vars
  BY <1>31 DEF vars, files, procs, IInv, TypeOK, LockInv, StepInv,
      PermitInv, FilesAt, Superseded
<1> QED
  BY <1>1, <1>2, <1>3, <1>4, <1>5, <1>6, <1>7, <1>8, <1>9, <1>10, <1>11,
     <1>12, <1>13, <1>14, <1>15, <1>16, <1>17, <1>18, <1>19, <1>20, <1>21,
     <1>22, <1>23, <1>24, <1>25, <1>26, <1>27, <1>28, <1>29, <1>30, <1>31
     DEF Next, Start, Continue

\* Every step keeps the inductive invariant.
LEMMA IInvNext == IInv /\ [Next]_vars => IInv'
  BY TypeNext, LockNext, StepNext, PermitNext, QuarantineNext DEF IInv

\* The inductive invariant: no two processes are in mid-operation on one key
\* (LockInv), and the files of a key look as the operation on it needs them.
THEOREM Invariance == Spec => []IInv
<1>1. Init => IInv
  BY IInvInit
<1>2. IInv /\ [Next]_vars => IInv'
  BY IInvNext
<1> QED
  BY <1>1, <1>2, PTL DEF Spec

\* Files, locks and views only ever hold what the code can write there.
THEOREM TypeCorrect == Spec => []TypeOK
<1>1. IInv => TypeOK
  BY DEF IInv
<1> QED
  BY <1>1, Invariance, PTL

\* A quarantined key keeps its claim until its process is confirmed dead.
THEOREM QuarantineHolds == Spec => []QuarantineHoldsClaim
<1>1. IInv => QuarantineHoldsClaim
  BY DEF IInv, QuarantineInv, QuarantineHoldsClaim
<1> QED
  BY <1>1, Invariance, PTL

\* No crash leaves a quarantine that clear_quarantine would refuse for ever.
THEOREM QuarantineCanBeCleared == Spec => []QuarantineClearable
<1>1. IInv => QuarantineClearable
  BY DEF IInv, QuarantineInv, QuarantineClearable
<1> QED
  BY <1>1, Invariance, PTL

\* Only an open, current permit publishes.
LEMMA PublicationStep ==
  IInv /\ [Next]_vars =>
    \A k \in Keys :
      published'[k] # published[k] =>
        /\ quarantine[k] = None
        /\ active[k] # None
        /\ active[k].token = published'[k].token
        /\ active[k].target = published'[k].target
        /\ ~Superseded(k, published'[k].target)
<1> SUFFICES ASSUME IInv, [Next]_vars, NEW k \in Keys,
                    published'[k] # published[k]
             PROVE  /\ quarantine[k] = None
                    /\ active[k] # None
                    /\ active[k].token = published'[k].token
                    /\ active[k].target = published'[k].target
                    /\ ~Superseded(k, published'[k].target)
  OBVIOUS
<1>1. PICK p \in Procs : Publish(p)
  <2>1. ASSUME NEW p \in Procs, Start(p)
        PROVE  published' = published
    <3>1. ASSUME NEW j \in Keys,
                 \/ \E t \in Targets : Enqueue(p, j, t)
                 \/ Claim(p, j) \/ List(p, j) \/ RecoverOwned(p, j)
                 \/ ReclaimStaleOwn(p, j)
                 \/ ClearQuarantine(p, j) \/ ClearRest(p, j)
          PROVE  published' = published
      BY <3>1 DEF Enqueue, Claim, List, RecoverOwned, ReclaimStaleOwn,
                  GiveBack, ClearQuarantine, ClearRest
    <3>2. ASSUME \/ \E t \in Targets : MigratePending(p, t)
                 \/ Discard(p) \/ Renew(p) \/ Complete(p)
                 \/ BeginPublish(p) \/ Quarantine(p)
          PROVE  published' = published
      BY <3>2 DEF MigratePending, Discard, Renew, Complete, BeginPublish,
                  Quarantine
    <3>3. ASSUME \/ Retry(p) \/ Reject(p) \/ SettleExpired(p)
                 \/ BreakLease(p) \/ Release(p)
          PROVE  published' = published
      BY <3>3 DEF Retry, Reject, SettleExpired, ReenterAtTail, RecordFailure,
                  BreakLease, Release, GiveBack
    <3> QED
      BY <2>1, <3>1, <3>2, <3>3 DEF Start
  <2>2. ASSUME NEW p \in Procs, Continue(p), ~Publish(p)
        PROVE  published' = published
    BY <2>2 DEF Continue, ClaimUnlink, ClaimUndo, DiscardUnlink, DropActive,
                CommitPublish, ClearActive, ClearMark
  <2>3. ASSUME NEW p \in Procs, Raise(p) \/ Crash(p)
        PROVE  published' = published
    BY <2>3 DEF Raise, Crash
  <2>4. ASSUME NEW j \in Keys, LeaseExpires(j)
        PROVE  published' = published
    BY <2>4 DEF LeaseExpires
  <2>5. ASSUME NEW c \in Stamps, ProcessDies(c)
        PROVE  published' = published
    BY <2>5 DEF ProcessDies
  <2>6. CASE UNCHANGED vars
    BY <2>6 DEF vars
  <2> QED
    BY <2>1, <2>2, <2>3, <2>4, <2>5, <2>6 DEF Next
<1>2. pc[p] = "publish"
  BY <1>1 DEF Publish, At
<1>3. on[p] = k
  BY <1>1 DEF Publish, IInv, TypeOK
<1>4. /\ published'[k].target = view[p].rec.target
      /\ published'[k].token = view[p].rec.token
  BY <1>1, <1>3 DEF Publish, IInv, TypeOK
<1> QED
  BY <1>2, <1>3, <1>4 DEF IInv, StepInv, FilesAt, PermitInv

\* The fence: what begin_publish checked still holds when it publishes.
THEOREM PublicationIsFresh == Spec => FreshPublication
<1>1. IInv /\ [Next]_vars =>
        [\A k \in Keys :
           published'[k] # published[k] =>
             /\ quarantine[k] = None
             /\ active[k] # None
             /\ active[k].token = published'[k].token
             /\ active[k].target = published'[k].target
             /\ ~Superseded(k, published'[k].target)]_vars
  BY PublicationStep
<1> QED
  BY <1>1, Invariance, PTL DEF Spec, FreshPublication

(***************************************************************************)
(* The refinement of WorkQueue.  A step of the files keeps what the queue  *)
(* port sees of a key (the wanted target, the grant, the bar), or does one *)
(* of eight things to one key; KeySteps says which.  The action properties *)
(* and the refinement follow from it.                                      *)
(***************************************************************************)
Granted(k) ==
    IF active[k] = None THEN None
    ELSE [token |-> active[k].token, target |-> active[k].target]

Barred(k) == quarantine[k] # None

KeepsWanted(k) == Wanted(k)' = Wanted(k)
KeepsGrant(k)  == Granted(k)' = Granted(k)
KeepsBar(k)    == Barred(k)' = Barred(k)

Keeps(k) == KeepsWanted(k) /\ KeepsGrant(k) /\ KeepsBar(k)

\* A new version is asked for: enqueue, migrate_pending.
Requested(k) ==
    /\ \E p \in Procs, t \in Targets :
          (Enqueue(p, k, t) \/ MigratePending(p, t)) /\ Wanted(k)' = t
    /\ KeepsGrant(k) /\ KeepsBar(k)

\* The claim is written.
Claimed(k) ==
    /\ ~Barred(k) /\ active[k] = None /\ pending[k] # None
    /\ \E c \in Stamps : Granted(k)' = [token |-> c, target |-> Wanted(k)]
    /\ KeepsWanted(k) /\ KeepsBar(k)

\* The claim goes and its request is queued: claim_undo, drop_active.
GivenBack(k) ==
    /\ ~Barred(k) /\ active[k] # None /\ active'[k] = None
    /\ pending[k] # None
    /\ KeepsWanted(k) /\ KeepsBar(k)

\* The claim goes and its outcome is on disk.
Settled(k) ==
    /\ ~Barred(k) /\ active[k] # None /\ active'[k] = None
    /\ results[k] # None /\ results[k].token = active[k].token
    /\ pending[k] = None /\ pending'[k] = None
    /\ KeepsBar(k)

\* The queued request goes: discard.
Withdrawn(k) ==
    /\ ~Barred(k) /\ pending'[k] = None
    /\ KeepsGrant(k) /\ KeepsBar(k)

\* The quarantine is written.
BarSet(k) ==
    /\ active[k] # None /\ Barred(k)'
    /\ KeepsWanted(k) /\ KeepsGrant(k)

\* clear_quarantine removes the claim, its request being queued.
TakenBack(k) ==
    /\ Barred(k) /\ active[k] # None /\ active'[k] = None
    /\ pending[k] # None
    /\ KeepsWanted(k) /\ KeepsBar(k)

\* clear_quarantine removes the mark.
BarLifted(k) ==
    /\ Barred(k) /\ ~Barred(k)' /\ active[k] = None /\ pending[k] # None
    /\ KeepsWanted(k) /\ KeepsGrant(k)

KeyStep(k) ==
    \/ Keeps(k) \/ Requested(k) \/ Claimed(k) \/ GivenBack(k) \/ Settled(k)
    \/ Withdrawn(k) \/ BarSet(k) \/ TakenBack(k) \/ BarLifted(k)

\* What a step does to one key, the others being left alone.
OnlyAt(k) == KeyStep(k) /\ \A j \in Keys \ {k} : Keeps(j)

\* The files of a key as the queue port sees them are left as they are.
LEMMA UndisturbedKeeps ==
  ASSUME NEW j, Undisturbed(j)
  PROVE  Keeps(j)
BY DEF Undisturbed, Keeps, KeepsWanted, KeepsGrant, KeepsBar, Wanted, Granted,
       Barred

\* A step without file operations does nothing to any key.
LEMMA FilesKept ==
  ASSUME NEW k \in Keys, UNCHANGED files
  PROVE  OnlyAt(k)
<1>1. \A j \in Keys : Undisturbed(j)
  BY DEF files, Undisturbed
<1> QED
  BY <1>1, UndisturbedKeeps DEF OnlyAt, KeyStep

\* A key whose request is put at the tail, or put back, is wanted as before.
LEMMA ReenterKeeps ==
  ASSUME IInv, NEW p \in Procs, Matches(p), ReenterAtTail(p),
         NEW k \in Keys, view[p].key = k
  PROVE  OnlyAt(k)
<1> DEFINE rec == PendingOf(ReentryTarget(k), now')
<1>1. active[k] # None
  BY DEF Matches, MatchesToken, ClaimView
<1>2. /\ pending' = [pending EXCEPT ![k] = rec]
      /\ UNCHANGED <<active, results, quarantine>>
  BY DEF ReenterAtTail
<1>3. rec \in PendingRec /\ rec.target = ReentryTarget(k)
  <2>1. now' \in Stamps
    BY MaxNowAssumption DEF ReenterAtTail, Tick, IInv, TypeOK, Stamps
  <2>2. ReentryTarget(k) \in Targets
    BY <1>1 DEF IInv, TypeOK, ReentryTarget, PendingRec, ActiveRec
  <2> QED
    BY <2>1, <2>2 DEF PendingOf, PendingRec
<1>4. pending'[k] = rec /\ rec # None
  BY <1>1, <1>2, <1>3, NoneAssumption DEF IInv, TypeOK
<1>5. ReentryTarget(k) = Wanted(k)
  BY <1>1 DEF ReentryTarget, Wanted
<1>6. \A j \in Keys \ {k} : Undisturbed(j)
  BY <1>2 DEF Undisturbed, IInv, TypeOK
<1> HIDE DEF rec
<1>7. Keeps(k)
  BY <1>2, <1>3, <1>4, <1>5
     DEF Keeps, KeepsWanted, KeepsGrant, KeepsBar, Wanted, Granted, Barred
<1> QED
  BY <1>6, <1>7, UndisturbedKeeps DEF OnlyAt, KeyStep

\* restore_active_pending concerns its own key.
LEMMA RestoreKeeps ==
  ASSUME IInv, NEW k \in Keys, active[k] # None, RestorePending(k),
         UNCHANGED <<active, results, quarantine>>
  PROVE  OnlyAt(k)
<1>1. CASE pending[k] # None
  BY <1>1, FilesKept DEF RestorePending, files
<1>2. CASE pending[k] = None
  <2> DEFINE rec == [target |-> active[k].target, at |-> active[k].at,
                     ver |-> now']
  <2>1. pending' = [pending EXCEPT ![k] = rec]
    BY <1>2 DEF RestorePending
  <2>2. pending'[k] = rec
    BY <2>1 DEF IInv, TypeOK
  <2>3. pending'[k] # None
    BY RestoredPending
  <2>4. \A j \in Keys \ {k} : Undisturbed(j)
    BY <2>1 DEF Undisturbed, IInv, TypeOK
  <2>5. Keeps(k)
    BY <1>2, <2>2, <2>3
       DEF Keeps, KeepsWanted, KeepsGrant, KeepsBar, Wanted, Granted, Barred
  <2> QED
    BY <2>4, <2>5, UndisturbedKeeps DEF OnlyAt, KeyStep
<1> QED
  BY <1>1, <1>2

\* A request or a migration concerns its own key.
LEMMA RequestSteps ==
  ASSUME IInv, NEW p \in Procs, NEW k \in Keys, NEW t \in Targets,
         \/ Enqueue(p, k, t)
         \/ MigratePending(p, t) /\ view[p].key = k
  PROVE  OnlyAt(k)
<1>1. now' \in Stamps
  BY MaxNowAssumption DEF Enqueue, MigratePending, Tick, IInv, TypeOK, Stamps
<1>2. UNCHANGED <<active, results, quarantine>>
  BY DEF Enqueue, MigratePending
<1>3. /\ pending'[k] # None /\ pending'[k].target = t
      /\ \A j \in Keys \ {k} : pending'[j] = pending[j]
  <2>1. CASE Enqueue(p, k, t)
    <3>1. pending' = [pending EXCEPT ![k] = PendingOf(t, now')]
      BY <2>1 DEF Enqueue
    <3>2. PendingOf(t, now') \in PendingRec /\ PendingOf(t, now').target = t
      BY <1>1 DEF PendingOf, PendingRec
    <3> QED
      BY <3>1, <3>2, NoneAssumption DEF IInv, TypeOK
  <2>2. CASE MigratePending(p, t) /\ view[p].key = k
    <3>1. /\ pending' = [pending EXCEPT ![k].target = t, ![k].ver = now']
          /\ pending[k] \in PendingRec
      BY <2>2 DEF MigratePending, IInv, TypeOK
    <3>2. /\ pending'[k] = [pending[k] EXCEPT !.target = t, !.ver = now']
          /\ \A j \in Keys \ {k} : pending'[j] = pending[j]
      BY <3>1 DEF IInv, TypeOK
    <3>3. /\ [pending[k] EXCEPT !.target = t, !.ver = now'] \in PendingRec
          /\ [pending[k] EXCEPT !.target = t, !.ver = now'].target = t
      BY <1>1, <3>1 DEF PendingRec
    <3> QED
      BY <3>2, <3>3, NoneAssumption
  <2> QED
    BY <2>1, <2>2
<1>4. \A j \in Keys \ {k} : Undisturbed(j)
  BY <1>2, <1>3 DEF Undisturbed
<1>5. Requested(k)
  BY <1>2, <1>3
     DEF Requested, KeepsGrant, KeepsBar, Wanted, Granted, Barred
<1> QED
  BY <1>4, <1>5, UndisturbedKeeps DEF OnlyAt, KeyStep

\* A claim concerns its own key.
LEMMA ClaimsKey ==
  ASSUME IInv, NEW p \in Procs, NEW k \in Keys, Claim(p, k)
  PROVE  OnlyAt(k)
<1> DEFINE rec == ClaimOf(k, now', OwnerOf[p])
<1>1. /\ active' = [active EXCEPT ![k] = rec]
      /\ UNCHANGED <<pending, results, quarantine>>
      /\ quarantine[k] = None /\ pending[k] # None /\ active[k] = None
  BY DEF Claim, Claimable
<1>2. now' \in Stamps
  BY MaxNowAssumption DEF Claim, Tick, IInv, TypeOK, Stamps
<1>3. rec \in ActiveRec /\ rec.target = pending[k].target /\ rec.token = now'
  BY <1>1, <1>2, OwnerAssumption
     DEF ClaimOf, IInv, TypeOK, PendingRec, ActiveRec
<1>4. active'[k] = rec /\ rec # None
  BY <1>1, <1>3, NoneAssumption DEF IInv, TypeOK
<1> HIDE DEF rec
<1>5. Claimed(k)
  BY <1>1, <1>2, <1>3, <1>4
     DEF Claimed, KeepsWanted, KeepsBar, Wanted, Granted, Barred
<1>6. \A j \in Keys \ {k} : Undisturbed(j)
  BY <1>1 DEF Undisturbed, IInv, TypeOK
<1> QED
  BY <1>5, <1>6, UndisturbedKeeps DEF OnlyAt, KeyStep

\* Renewal changes the lease only.
LEMMA RenewKeeps ==
  ASSUME IInv, NEW p \in Procs, Renew(p), NEW k \in Keys, view[p].key = k
  PROVE  OnlyAt(k)
<1>1. active[k] \in ActiveRec
  BY DEF Renew, Matches, MatchesToken, ClaimView, IInv, TypeOK
<1>2. /\ active' = [active EXCEPT ![k].lease = now']
      /\ UNCHANGED <<pending, results, quarantine>>
  BY DEF Renew
<1>3. now' \in Stamps
  BY MaxNowAssumption DEF Renew, Tick, IInv, TypeOK, Stamps
<1>4. /\ active'[k] = [active[k] EXCEPT !.lease = now']
      /\ \A j \in Keys \ {k} : active'[j] = active[j]
  BY <1>1, <1>2 DEF IInv, TypeOK
<1>5. active'[k] \in ActiveRec /\ active'[k].token = active[k].token
      /\ active'[k].target = active[k].target
  BY <1>1, <1>3, <1>4 DEF ActiveRec
<1>6. active[k] # None /\ active'[k] # None
  BY <1>1, <1>5, NoneAssumption
<1>7. Keeps(k)
  BY <1>2, <1>5, <1>6
     DEF Keeps, KeepsWanted, KeepsGrant, KeepsBar, Wanted, Granted, Barred
<1>8. \A j \in Keys \ {k} : Undisturbed(j)
  BY <1>2, <1>4 DEF Undisturbed
<1> QED
  BY <1>7, <1>8, UndisturbedKeeps DEF OnlyAt, KeyStep

\* The first step of an operation concerns one key.
LEMMA StartSteps ==
  ASSUME IInv, NEW p \in Procs, Start(p)
  PROVE  \E k \in Keys : OnlyAt(k)
<1>1. ASSUME NEW k \in Keys,
             \/ \E t \in Targets : Enqueue(p, k, t)
             \/ Claim(p, k)
      PROVE  OnlyAt(k)
  BY <1>1, RequestSteps, ClaimsKey
<1>2. ASSUME NEW k \in Keys, List(p, k) \/ RecoverOwned(p, k)
      PROVE  OnlyAt(k)
  BY <1>2, FilesKept DEF List, RecoverOwned
<1>3. ASSUME NEW k \in Keys, active[k] # None, GiveBack(p, k)
      PROVE  OnlyAt(k)
  BY <1>3, RestoreKeeps DEF GiveBack
<1>4. ASSUME NEW k \in Keys, ReclaimStaleOwn(p, k)
      PROVE  OnlyAt(k)
  BY <1>3, <1>4 DEF ReclaimStaleOwn
<1>5. ASSUME NEW k \in Keys, ClearQuarantine(p, k)
      PROVE  OnlyAt(k)
  BY <1>5, RestoreKeeps DEF ClearQuarantine
<1>6. ASSUME NEW k \in Keys, ClearRest(p, k)
      PROVE  OnlyAt(k)
  <2>1. /\ quarantine[k] # None /\ active[k] = None /\ pending[k] # None
        /\ quarantine' = [quarantine EXCEPT ![k] = None]
        /\ UNCHANGED <<pending, active, results>>
    BY <1>6, NoneAssumption DEF ClearRest, ProofMatches, IInv, TypeOK
  <2>2. BarLifted(k)
    BY <2>1 DEF BarLifted, KeepsWanted, KeepsGrant, Wanted, Granted, Barred,
                IInv, TypeOK
  <2>3. \A j \in Keys \ {k} : Undisturbed(j)
    BY <2>1 DEF Undisturbed, IInv, TypeOK
  <2> QED
    BY <2>2, <2>3, UndisturbedKeeps DEF OnlyAt, KeyStep
<1>7. ASSUME NEW t \in Targets, MigratePending(p, t)
      PROVE  \E k \in Keys : OnlyAt(k)
  <2>1. view[p].key \in Keys
    BY <1>7 DEF MigratePending, PendingView
  <2> QED
    BY <1>7, <2>1, RequestSteps
<1>8. ASSUME Discard(p) \/ RecordFailure(p) \/ Complete(p),
             view[p].key \in Keys
      PROVE  \E k \in Keys : OnlyAt(k)
  <2>1. \A j \in Keys : Keeps(j)
    BY <1>8 DEF Discard, RecordFailure, Complete, Keeps, KeepsWanted,
                KeepsGrant, KeepsBar, Wanted, Granted, Barred
  <2> QED
    BY <1>8, <2>1 DEF OnlyAt, KeyStep
<1>9. ASSUME Matches(p)
      PROVE  view[p].key \in Keys /\ active[view[p].key] # None
  BY <1>9 DEF Matches, MatchesToken, ClaimView
<1>10. ASSUME MatchesToken(p)
       PROVE  view[p].key \in Keys /\ active[view[p].key] # None
  BY <1>10 DEF MatchesToken, ClaimView
<1>11. CASE Discard(p)
  <2>1. view[p].key \in Keys
    BY <1>11 DEF Discard, IInv, TypeOK, ClaimView, PendingView
  <2> QED
    BY <1>8, <1>11, <2>1
<1>12. CASE Renew(p)
  BY <1>9, <1>12, RenewKeeps DEF Renew
<1>13. CASE Retry(p) \/ Reject(p) \/ SettleExpired(p)
  BY <1>8, <1>9, <1>13, ReenterKeeps
     DEF Retry, Reject, SettleExpired, LeaseSettleable
<1>14. CASE BreakLease(p) \/ Release(p)
  BY <1>3, <1>10, <1>14 DEF BreakLease, Release
<1>15. CASE Complete(p)
  BY <1>8, <1>10, <1>15 DEF Complete
<1>16. CASE BeginPublish(p)
  BY <1>9, <1>16, FilesKept DEF BeginPublish
<1>17. CASE Quarantine(p)
  <2>1. PICK k \in Keys : view[p].key = k /\ active[k] # None
    BY <1>9, <1>17 DEF Quarantine
  <2>2. /\ quarantine' = [quarantine EXCEPT ![k] = active[k].token]
        /\ UNCHANGED <<pending, active, results>>
    BY <1>17, <2>1 DEF Quarantine
  <2>3. active[k].token # None
    BY <2>1, NoneAssumption DEF IInv, TypeOK, ActiveRec
  <2>4. BarSet(k)
    BY <2>1, <2>2, <2>3 DEF BarSet, KeepsWanted, KeepsGrant, Wanted, Granted,
                            Barred, IInv, TypeOK
  <2>5. \A j \in Keys \ {k} : Undisturbed(j)
    BY <2>2 DEF Undisturbed, IInv, TypeOK
  <2> QED
    BY <2>1, <2>4, <2>5, UndisturbedKeeps DEF OnlyAt, KeyStep
<1> QED
  BY <1>1, <1>2, <1>4, <1>5, <1>6, <1>7, <1>11, <1>12, <1>13, <1>14, <1>15,
     <1>16, <1>17 DEF Start

\* Every later step of an operation concerns its key.
LEMMA ContinueSteps ==
  ASSUME IInv, NEW p \in Procs, Continue(p)
  PROVE  \E k \in Keys : OnlyAt(k)
<1>1. pc[p] # "idle"
  BY DEF Continue, ClaimUnlink, ClaimUndo, DiscardUnlink, DropActive, Publish,
         CommitPublish, ClearActive, ClearMark, At
<1>2. PICK k \in Keys : on[p] = k /\ FilesAt(p)
  BY <1>1 DEF IInv, LockInv, StepInv
<1> SUFFICES OnlyAt(k)
  BY <1>2
<1> USE DEF FilesAt, At
<1>3. CASE ClaimUnlink(p)
  <2>1. /\ pending' = [pending EXCEPT ![k] = None]
        /\ UNCHANGED <<active, results, quarantine>>
        /\ pending[k] # None /\ active[k] # None
        /\ active[k].target = pending[k].target
    BY <1>2, <1>3 DEF ClaimUnlink
  <2>2. Keeps(k)
    BY <1>2, <2>1 DEF Keeps, KeepsWanted, KeepsGrant, KeepsBar, Wanted,
                      Granted, Barred, IInv, TypeOK
  <2>3. \A j \in Keys \ {k} : Undisturbed(j)
    BY <2>1 DEF Undisturbed, IInv, TypeOK
  <2> QED
    BY <2>2, <2>3, UndisturbedKeeps DEF OnlyAt, KeyStep
<1>4. CASE ClaimUndo(p)
  <2>1. /\ active' = [active EXCEPT ![k] = None]
        /\ UNCHANGED <<pending, results, quarantine>>
        /\ pending[k] # None /\ active[k] # None /\ quarantine[k] = None
    BY <1>2, <1>4 DEF ClaimUndo
  <2>2. GivenBack(k)
    BY <1>2, <2>1 DEF GivenBack, KeepsWanted, KeepsBar, Wanted, Barred, IInv,
                      TypeOK
  <2>3. \A j \in Keys \ {k} : Undisturbed(j)
    BY <2>1 DEF Undisturbed, IInv, TypeOK
  <2> QED
    BY <2>2, <2>3, UndisturbedKeeps DEF OnlyAt, KeyStep
<1>5. CASE DiscardUnlink(p)
  <2>1. /\ pending' = [pending EXCEPT ![k] = None]
        /\ UNCHANGED <<active, results, quarantine>>
        /\ quarantine[k] = None
    BY <1>2, <1>5 DEF DiscardUnlink
  <2>2. Withdrawn(k)
    BY <1>2, <2>1 DEF Withdrawn, KeepsGrant, KeepsBar, Granted, Barred, IInv,
                      TypeOK
  <2>3. \A j \in Keys \ {k} : Undisturbed(j)
    BY <2>1 DEF Undisturbed, IInv, TypeOK
  <2> QED
    BY <2>2, <2>3, UndisturbedKeeps DEF OnlyAt, KeyStep
<1>6. CASE DropActive(p)
  <2>1. /\ active' = [active EXCEPT ![k] = None]
        /\ UNCHANGED <<pending, results, quarantine>>
        /\ quarantine[k] = None /\ active[k] # None
        /\ \/ pending[k] # None
           \/ results[k] # None /\ results[k].token = active[k].token
    BY <1>2, <1>6 DEF DropActive
  <2>2. active'[k] = None
    BY <1>2, <2>1 DEF IInv, TypeOK
  <2>3. ASSUME pending[k] # None
        PROVE  KeyStep(k)
    BY <2>1, <2>2, <2>3 DEF GivenBack, KeyStep, KeepsWanted, KeepsBar, Wanted,
                            Barred
  <2>4. ASSUME pending[k] = None
        PROVE  KeyStep(k)
    BY <2>1, <2>2, <2>4 DEF Settled, KeyStep, KeepsBar, Barred
  <2>5. \A j \in Keys \ {k} : Undisturbed(j)
    BY <2>1 DEF Undisturbed, IInv, TypeOK
  <2> QED
    BY <2>3, <2>4, <2>5, UndisturbedKeeps DEF OnlyAt
<1>7. CASE Publish(p)
  BY <1>2, <1>7, FilesKept DEF Publish
<1>8. CASE CommitPublish(p)
  <2>1. UNCHANGED <<pending, active, quarantine>>
    BY <1>8 DEF CommitPublish
  <2>2. \A j \in Keys : Keeps(j)
    BY <2>1 DEF Keeps, KeepsWanted, KeepsGrant, KeepsBar, Wanted, Granted,
                Barred
  <2> QED
    BY <1>2, <2>2 DEF OnlyAt, KeyStep
<1>9. CASE ClearActive(p)
  <2>1. /\ active' = [active EXCEPT ![k] = None]
        /\ UNCHANGED <<pending, results, quarantine>>
        /\ quarantine[k] # None /\ pending[k] # None /\ active[k] # None
    BY <1>2, <1>9, NoneAssumption DEF ClearActive, IInv, TypeOK
  <2>2. TakenBack(k)
    BY <1>2, <2>1 DEF TakenBack, KeepsWanted, KeepsBar, Wanted, Barred, IInv,
                      TypeOK
  <2>3. \A j \in Keys \ {k} : Undisturbed(j)
    BY <2>1 DEF Undisturbed, IInv, TypeOK
  <2> QED
    BY <2>2, <2>3, UndisturbedKeeps DEF OnlyAt, KeyStep
<1>10. CASE ClearMark(p)
  <2>1. /\ quarantine' = [quarantine EXCEPT ![k] = None]
        /\ UNCHANGED <<pending, active, results>>
        /\ quarantine[k] # None /\ pending[k] # None /\ active[k] = None
    BY <1>2, <1>10, NoneAssumption DEF ClearMark, IInv, TypeOK
  <2>2. BarLifted(k)
    BY <1>2, <2>1 DEF BarLifted, KeepsWanted, KeepsGrant, Wanted, Granted,
                      Barred, IInv, TypeOK
  <2>3. \A j \in Keys \ {k} : Undisturbed(j)
    BY <2>1 DEF Undisturbed, IInv, TypeOK
  <2> QED
    BY <2>2, <2>3, UndisturbedKeeps DEF OnlyAt, KeyStep
<1> QED
  BY <1>3, <1>4, <1>5, <1>6, <1>7, <1>8, <1>9, <1>10 DEF Continue

\* Every step keeps all keys as the queue port sees them, or all but one.
LEMMA KeySteps ==
  ASSUME IInv, [Next]_vars
  PROVE  (\A j \in Keys : Keeps(j)) \/ (\E k \in Keys : OnlyAt(k))
<1>1. ASSUME UNCHANGED files
      PROVE  \A j \in Keys : Keeps(j)
  BY <1>1, UndisturbedKeeps DEF files, Undisturbed
<1>2. ASSUME NEW p \in Procs, Raise(p) \/ Crash(p)
      PROVE  UNCHANGED files
  BY <1>2 DEF Raise, Crash
<1>3. ASSUME \/ \E k \in Keys : LeaseExpires(k)
             \/ \E c \in Stamps : ProcessDies(c)
             \/ UNCHANGED vars
      PROVE  UNCHANGED files
  BY <1>3 DEF LeaseExpires, ProcessDies, vars
<1> QED
  BY <1>1, <1>2, <1>3, StartSteps, ContinueSteps DEF Next

\* No claim leaves the disk but for a queued request or a recorded outcome.
THEOREM ClaimIsTraced == Spec => ClaimLeavesTrace
<1>1. ASSUME IInv, [Next]_vars, NEW k \in Keys,
             active[k] # None, active'[k] = None
      PROVE  \/ pending[k] # None
             \/ results[k] # None /\ results[k].token = active[k].token
  <2>1. Granted(k) # None
    BY <1>1, NoneAssumption DEF Granted, IInv, TypeOK, ActiveRec
  <2>2. ~KeepsGrant(k)
    BY <1>1, <2>1 DEF KeepsGrant, Granted
  <2>3. KeyStep(k)
    BY <1>1, <2>2, KeySteps DEF OnlyAt, Keeps
  <2> QED
    BY <1>1, <2>2, <2>3
       DEF KeyStep, Keeps, Requested, Claimed, GivenBack, Settled, Withdrawn,
           BarSet, TakenBack, BarLifted
<1>2. IInv /\ [Next]_vars =>
        [\A k \in Keys :
           active[k] # None /\ active'[k] = None =>
             \/ pending[k] # None
             \/ results[k] # None /\ results[k].token = active[k].token]_vars
  BY <1>1
<1> QED
  BY <1>2, Invariance, PTL DEF Spec, ClaimLeavesTrace

\* Nothing but a request or a migration queues another target than the wanted
\* one, and no failure lets an old one come back.
THEOREM NewestWins == Spec => NewestRequestWins
<1>1. ASSUME IInv, [Next]_vars, NEW k \in Keys,
             pending'[k] # None, pending'[k].target # Wanted(k)
      PROVE  \E p \in Procs, t \in Targets :
                Enqueue(p, k, t) \/ MigratePending(p, t)
  <2>1. Wanted(k)' # Wanted(k)
    BY <1>1 DEF Wanted
  <2>2. KeyStep(k) /\ ~KeepsWanted(k)
    BY <1>1, <2>1, KeySteps DEF OnlyAt, Keeps, KeepsWanted
  <2>3. ~Settled(k) /\ ~Withdrawn(k)
    BY <1>1 DEF Settled, Withdrawn
  <2>4. Requested(k)
    BY <2>2, <2>3
       DEF KeyStep, Keeps, Claimed, GivenBack, BarSet, TakenBack, BarLifted
  <2> QED
    BY <2>4 DEF Requested
<1>2. IInv /\ [Next]_vars =>
        [\A k \in Keys :
           pending'[k] # None /\ pending'[k].target # Wanted(k) =>
             \E p \in Procs, t \in Targets :
                Enqueue(p, k, t) \/ MigratePending(p, t)]_vars
  BY <1>1
<1> QED
  BY <1>2, Invariance, PTL DEF Spec, NewestRequestWins
\* A claim on disk is a grant.
LEMMA GrantIsSome ==
  ASSUME IInv, NEW k \in Keys
  PROVE  active[k] # None <=> Granted(k) # None
BY NoneAssumption DEF Granted, IInv, TypeOK, ActiveRec

\* What a step does to one key is an operation of the abstract queue on it.
LEMMA KeyStepMaps ==
  ASSUME IInv, IInv', NEW k \in Keys, KeyStep(k),
         \A j \in Keys \ {k} : Keeps(j)
  PROVE  [WQ!WQNext]_(WQ!wqVars)
<1> DEFINE want   == [j \in Keys |-> Wanted(j)]
           grant  == [j \in Keys |-> Granted(j)]
           barred == [j \in Keys |-> Barred(j)]
<1>1. ASSUME KeepsWanted(k)
      PROVE  want' = want
  BY <1>1 DEF Keeps, KeepsWanted
<1>2. ASSUME KeepsGrant(k)
      PROVE  grant' = grant
  BY <1>2 DEF Keeps, KeepsGrant
<1>3. ASSUME KeepsBar(k)
      PROVE  barred' = barred
  BY <1>3 DEF Keeps, KeepsBar
<1>4. want' = [want EXCEPT ![k] = Wanted(k)']
  BY DEF Keeps, KeepsWanted
<1>5. grant' = [grant EXCEPT ![k] = Granted(k)']
  BY DEF Keeps, KeepsGrant
<1>6. barred' = [barred EXCEPT ![k] = Barred(k)']
  BY DEF Keeps, KeepsBar
<1>7. ASSUME Keeps(k)
      PROVE  UNCHANGED WQ!wqVars
  <2>1. want' = want /\ grant' = grant /\ barred' = barred
    BY <1>1, <1>2, <1>3, <1>7 DEF Keeps
  <2> QED
    BY <2>1 DEF WQ!wqVars, Granted, Barred
<1>8. ASSUME Requested(k)
      PROVE  \E t \in Targets : WQ!Request(k, t)
  <2>1. PICK t \in Targets : Wanted(k)' = t
    BY <1>8 DEF Requested
  <2>2. want' = [want EXCEPT ![k] = t]
    BY <2>1, <1>4
  <2>3. grant' = grant /\ barred' = barred
    BY <1>2, <1>3, <1>8 DEF Requested
  <2> QED
    BY <2>2, <2>3 DEF WQ!Request, Granted, Barred
<1>9. ASSUME Claimed(k)
      PROVE  \E c \in Stamps : WQ!Grant(k, c)
  <2>1. PICK c \in Stamps : Granted(k)' = [token |-> c, target |-> Wanted(k)]
    BY <1>9 DEF Claimed
  <2>2. want' = want /\ barred' = barred
    BY <1>1, <1>3, <1>9 DEF Claimed
  <2>3. grant' = [grant EXCEPT ![k] = [token |-> c, target |-> want[k]]]
    BY <2>1, <1>5
  <2>4. ~barred[k] /\ grant[k] = None
    BY <1>9 DEF Claimed, Granted
  <2>5. want[k] # None
    BY <1>9, NoneAssumption DEF Claimed, Wanted, IInv, TypeOK, PendingRec
  <2> QED
    BY <2>2, <2>3, <2>4, <2>5 DEF WQ!Grant, Granted, Barred
<1>10. ASSUME GivenBack(k)
       PROVE  WQ!Return(k)
  <2>1. want' = want /\ barred' = barred
    BY <1>1, <1>3, <1>10 DEF GivenBack
  <2>2. grant' = [grant EXCEPT ![k] = None]
    BY <1>5, <1>10 DEF GivenBack, Granted
  <2>3. ~barred[k] /\ grant[k] # None
    BY <1>10, GrantIsSome DEF GivenBack
  <2> QED
    BY <2>1, <2>2, <2>3 DEF WQ!Return, Granted, Barred
<1>11. ASSUME Settled(k)
       PROVE  WQ!Finish(k)
  <2>1. barred' = barred
    BY <1>3, <1>11 DEF Settled
  <2>2. grant' = [grant EXCEPT ![k] = None]
    BY <1>5, <1>11 DEF Settled, Granted
  <2>3. want' = [want EXCEPT ![k] = None]
    BY <1>4, <1>11 DEF Settled, Wanted
  <2>4. ~barred[k] /\ grant[k] # None
    BY <1>11, GrantIsSome DEF Settled
  <2>5. want[k] = grant[k].target
    BY <1>11 DEF Settled, Wanted, Granted
  <2> QED
    BY <2>1, <2>2, <2>3, <2>4, <2>5 DEF WQ!Finish, Granted, Barred
<1>12. ASSUME Withdrawn(k)
       PROVE  WQ!Withdraw(k)
  <2>1. grant' = grant /\ barred' = barred
    BY <1>2, <1>3, <1>12 DEF Withdrawn
  <2>2. Wanted(k)' = IF Granted(k)' = None THEN None ELSE Granted(k)'.target
    <3>1. CASE active'[k] = None
      BY <1>12, <3>1 DEF Withdrawn, Wanted, Granted
    <3>2. CASE active'[k] # None
      <4>1. active'[k] \in ActiveRec
        BY <3>2 DEF IInv, TypeOK
      <4>2. [token |-> active'[k].token, target |-> active'[k].target] # None
        BY <4>1, NoneAssumption DEF ActiveRec
      <4> QED
        BY <1>12, <3>2, <4>2 DEF Withdrawn, Wanted, Granted
    <3> QED
      BY <3>1, <3>2
  <2>3. Wanted(k)' = IF grant[k] = None THEN None ELSE grant[k].target
    BY <1>12, <2>2 DEF Withdrawn, KeepsGrant
  <2>4. want' = [want EXCEPT ![k] = IF grant[k] = None THEN None
                                    ELSE grant[k].target]
    BY <1>4, <2>3
  <2>5. ~barred[k]
    BY <1>12 DEF Withdrawn
  <2> QED
    BY <2>1, <2>4, <2>5 DEF WQ!Withdraw, WQ!GrantedTarget, Granted, Barred
<1>13. ASSUME BarSet(k)
       PROVE  WQ!Bar(k)
  <2>1. want' = want /\ grant' = grant
    BY <1>1, <1>2, <1>13 DEF BarSet
  <2>2. barred' = [barred EXCEPT ![k] = TRUE]
    BY <1>6, <1>13 DEF BarSet, Barred
  <2>3. grant[k] # None
    BY <1>13, GrantIsSome DEF BarSet
  <2> QED
    BY <2>1, <2>2, <2>3 DEF WQ!Bar, Granted, Barred
<1>14. ASSUME TakenBack(k)
       PROVE  WQ!Revoke(k)
  <2>1. want' = want /\ barred' = barred
    BY <1>1, <1>3, <1>14 DEF TakenBack
  <2>2. grant' = [grant EXCEPT ![k] = None]
    BY <1>5, <1>14 DEF TakenBack, Granted
  <2>3. barred[k] /\ grant[k] # None
    BY <1>14, GrantIsSome DEF TakenBack
  <2> QED
    BY <2>1, <2>2, <2>3 DEF WQ!Revoke, Granted, Barred
<1>15. ASSUME BarLifted(k)
       PROVE  WQ!Unbar(k)
  <2>1. want' = want
    BY <1>1, <1>15 DEF BarLifted
  <2>2. Granted(k)' = None
    BY <1>15 DEF BarLifted, KeepsGrant, Granted
  <2>3. grant' = [grant EXCEPT ![k] = None]
    BY <1>5, <2>2
  <2>4. barred' = [barred EXCEPT ![k] = FALSE]
    BY <1>6, <1>15 DEF BarLifted, Barred
  <2>5. barred[k] /\ want[k] # None
    BY <1>15, NoneAssumption DEF BarLifted, Wanted, IInv, TypeOK, PendingRec
  <2> QED
    BY <2>1, <2>3, <2>4, <2>5 DEF WQ!Unbar, Granted, Barred
<1> QED
  BY <1>7, <1>8, <1>9, <1>10, <1>11, <1>12, <1>13, <1>14, <1>15
     DEF KeyStep, WQ!WQNext

\* The files implement the abstract queue: they start as it does, and each of
\* their steps is one of its operations on one key, or changes nothing it can
\* see.
THEOREM Refinement == Spec => ImplementsWorkQueue
<1>1. Init => WQ!WQInit
  BY DEF Init, WQ!WQInit, Wanted
<1>2. IInv /\ IInv' /\ [Next]_vars => [WQ!WQNext]_(WQ!wqVars)
  <2> SUFFICES ASSUME IInv, IInv', [Next]_vars
               PROVE  [WQ!WQNext]_(WQ!wqVars)
    OBVIOUS
  <2>1. CASE \E k \in Keys : OnlyAt(k)
    BY <2>1, KeyStepMaps DEF OnlyAt
  <2>2. CASE \A j \in Keys : Keeps(j)
    BY <2>2 DEF Keeps, KeepsWanted, KeepsGrant, KeepsBar, Granted, Barred,
                WQ!wqVars
  <2> QED
    BY <2>1, <2>2, KeySteps
<1> QED
  BY <1>1, <1>2, Invariance, PTL DEF Spec, ImplementsWorkQueue, WQ!WQSpec

=============================================================================

--------------------------- MODULE Queues_proof -----------------------------
(***************************************************************************)
(* Proofs about the queues and their locks. PgQueue keeps its promises for *)
(* every set of keys, targets, processes and owners, and every bound on    *)
(* the stamps. The lock of a queue key excludes, and nobody breaks the     *)
(* lock of a caller that is inside, for any number of threads, processes   *)
(* and faults, with and without recurring process ids.                     *)
(***************************************************************************)
EXTENDS PgQueue, TLAPS

\* The lock of a queue key.
CONSTANTS Threads, Pids, PidOf, PidReuse, ReadsFail, MaxFaults
VARIABLES gate, dir, info, aged, alive, keyPc, keyFaults

Key == INSTANCE KeyLock WITH pc <- keyPc, faults <- keyFaults

-----------------------------------------------------------------------------
(***************************************************************************)
(* The PostgreSQL queue.  The argument goes through the ways in which a    *)
(* statement may change a row (Change): RowSteps shows once that every step*)
(* of the queue makes such changes and no others, and that nobody but the  *)
(* holder of a lock writes a locked row.  Types, publications, quarantine, *)
(* requests and the refinement of the queue port are then facts about Change.*)
(***************************************************************************)
\* TypeOK of one row.
RowOK(r) ==
    /\ r \in Row
    /\ Pending(r) <=> r.want # None
    /\ Claimed(r) <=> r.act # None
    /\ Claimed(r) <=> r.actAt # 0
    /\ r.bar => Claimed(r)

\* What the statements do to a row r, which is s afterwards.
Requested(r, s) ==
    /\ now' = now + 1
    /\ \E u \in Targets : s = [r EXCEPT !.want = u, !.at = now', !.ver = now']

Granted(r, s) ==
    /\ Claimable(r) /\ now' = now + 1
    /\ \E o \in Owners : s = [NoPending(r) EXCEPT
          !.act = NextTarget(r),
          !.actAt = IF Pending(r) THEN r.at ELSE r.actAt,
          !.token = now', !.owner = o, !.lease = now', !.late = FALSE]

Renewed(r, s) == Claimed(r) /\ s = [r EXCEPT !.lease = now', !.late = FALSE]

Expired(r, s) == Claimed(r) /\ s = [r EXCEPT !.late = TRUE]

Ended(r, s) == Claimed(r) /\ ~r.bar /\ s = NoClaim(r)

Withdrawn(r, s) == ~r.bar /\ s = NoPending(r)

Returned(r, s) ==
    Claimed(r) /\ ~r.bar /\ now' = now + 1 /\ s = Reclaimed(r, now')

Barred(r, s) == Claimed(r) /\ s = [r EXCEPT !.bar = TRUE]

Cleared(r, s) ==
    /\ Claimed(r) /\ r.bar /\ r.token \in dead /\ now' = now + 1
    /\ s = [Reclaimed(r, now') EXCEPT !.bar = FALSE]

Retried(r, s) ==
    /\ Claimed(r) /\ ~r.bar
    /\ s = [NoClaim(r) EXCEPT !.want = Reentry(r), !.at = now, !.ver = now]

Migrated(r, s) ==
    /\ Pending(r) /\ ~r.bar
    /\ \E u \in Targets : s = [r EXCEPT !.want = u, !.ver = now]

\* The changes that ask for nothing new.
Kept(r, s) ==
    \/ Granted(r, s) \/ Renewed(r, s) \/ Expired(r, s)
    \/ Ended(r, s) \/ Withdrawn(r, s) \/ Returned(r, s) \/ Barred(r, s)
    \/ Cleared(r, s) \/ Retried(r, s)

Change(r, s) == Requested(r, s) \/ Migrated(r, s) \/ Kept(r, s)

\* Stamps and the NULL of a number column are values of the column.
LEMMA NumbersTyped ==
  /\ 0 \in 0 .. MaxNow
  /\ \A n \in Stamps : n \in 0 .. MaxNow /\ n # 0
BY BoundAssumption DEF Stamps

\* Clearing the columns of a claim or a request yields a row.
LEMMA ReleasedTyped ==
  ASSUME NEW r \in Row
  PROVE  /\ NoClaim(r) \in Row /\ NoPending(r) \in Row
         /\ \A n \in 0 .. MaxNow : Reclaimed(r, n) \in Row
BY NumbersTyped, Zenon DEF Row, NoClaim, NoPending, Reclaimed

\* The columns of a row after its claim or its request is cleared.
LEMMA ReleasedFields ==
  ASSUME NEW r \in Row
  PROVE  /\ NoClaim(r).want = r.want /\ NoClaim(r).at = r.at
         /\ NoClaim(r).act = None /\ NoClaim(r).token = 0
         /\ NoClaim(r).bar = r.bar /\ NoClaim(r).actAt = 0
         /\ NoPending(r).want = None /\ NoPending(r).at = 0
         /\ NoPending(r).act = r.act /\ NoPending(r).token = r.token
         /\ NoPending(r).bar = r.bar /\ NoPending(r).actAt = r.actAt
BY DEF Row, NoClaim, NoPending

\* The columns of a row after its claim went back to the queue.
LEMMA ReclaimedFields ==
  ASSUME NEW r \in Row, NEW n \in 0 .. MaxNow
  PROVE  /\ Reclaimed(r, n).act = None /\ Reclaimed(r, n).token = 0
         /\ Reclaimed(r, n).bar = r.bar /\ Reclaimed(r, n).actAt = 0
         /\ Pending(r) => /\ Reclaimed(r, n).want = r.want
                          /\ Reclaimed(r, n).at = r.at
         /\ ~Pending(r) => /\ Reclaimed(r, n).want = r.act
                           /\ Reclaimed(r, n).at = r.actAt
BY DEF Row, Reclaimed, NoClaim, Pending

\* Every change keeps the type of a row and keeps the columns of requests
\* and of claims together.
LEMMA ChangeTyped ==
  ASSUME NEW r, RowOK(r), NEW s, Change(r, s), now \in 0 .. MaxNow,
         r.token \in 0 .. now, now' \in {now, now + 1}, now' \in 0 .. MaxNow
  PROVE  RowOK(s)
<1> USE NoneAssumption DEF RowOK
<1>1. CASE Requested(r, s)
  <2>1. PICK u \in Targets :
           s = [r EXCEPT !.want = u, !.at = now', !.ver = now']
    BY <1>1 DEF Requested
  <2>2. s \in Row
    BY <2>1, Zenon DEF Row
  <2>3. now' # 0
    BY <1>1 DEF Requested
  <2> QED
    BY <2>1, <2>2, <2>3 DEF Row, Pending, Claimed
<1>2. CASE Granted(r, s)
  <2>1. PICK o \in Owners : s = [NoPending(r) EXCEPT
          !.act = NextTarget(r),
          !.actAt = IF Pending(r) THEN r.at ELSE r.actAt,
          !.token = now', !.owner = o, !.lease = now', !.late = FALSE]
    BY <1>2 DEF Granted
  <2>2. s \in Row
    BY <2>1, NumbersTyped, Zenon DEF Row, NoPending, NextTarget
  <2>3. now' # 0 /\ (Pending(r) \/ Claimed(r))
    BY <1>2 DEF Granted, Claimable
  <2> QED
    BY <2>1, <2>2, <2>3 DEF Row, Pending, Claimed, NoPending, NextTarget
<1>3. CASE Renewed(r, s) \/ Expired(r, s)
  <2>1. s \in Row
    BY <1>3, Zenon DEF Row, Renewed, Expired
  <2> QED
    BY <1>3, <2>1 DEF Row, Pending, Claimed, Renewed, Expired
<1>4. CASE Ended(r, s) \/ Withdrawn(r, s)
  <2>1. s \in Row
    BY <1>4, ReleasedTyped DEF Ended, Withdrawn
  <2> QED
    BY <1>4, <2>1, ReleasedFields DEF Pending, Claimed, Ended, Withdrawn
<1>5. CASE Returned(r, s)
  <2>1. s \in Row
    BY <1>5, ReleasedTyped DEF Returned
  <2> QED
    BY <1>5, <2>1, ReclaimedFields DEF Row, Pending, Claimed, Returned
<1>6. CASE Cleared(r, s)
  <2> DEFINE w == Reclaimed(r, now')
  <2>1. w \in Row
    BY ReleasedTyped
  <2>2. s = [w EXCEPT !.bar = FALSE]
    BY <1>6 DEF Cleared
  <2>3. /\ Pending(w) <=> w.want # None
        /\ Claimed(w) <=> w.act # None
        /\ Claimed(w) <=> w.actAt # 0 /\ s.bar = FALSE
    BY <1>6, ReclaimedFields DEF Row, Pending, Claimed, Cleared
  <2> HIDE DEF w
  <2>4. s \in Row
    BY <2>1, <2>2, Zenon DEF Row
  <2> QED
    BY <2>1, <2>2, <2>3, <2>4 DEF Row, Pending, Claimed
<1>7. CASE Barred(r, s)
  BY <1>7 DEF Row, Pending, Claimed, Barred
<1>8. CASE Retried(r, s)
  <2>1. now # 0
    BY <1>8 DEF Retried, Claimed, Row
  <2>2. s \in Row
    BY <1>8, ReleasedTyped, Zenon DEF Row, Retried, Reentry
  <2> QED
    BY <1>8, <2>1, <2>2 DEF Row, Pending, Claimed, Retried, Reentry, NoClaim
<1>9. CASE Migrated(r, s)
  <2>1. PICK u \in Targets : s = [r EXCEPT !.want = u, !.ver = now]
    BY <1>9 DEF Migrated
  <2>2. s \in Row
    BY <2>1, Zenon DEF Row
  <2> QED
    BY <1>9, <2>1, <2>2 DEF Row, Pending, Claimed, Migrated
<1> QED
  BY <1>1, <1>2, <1>3, <1>4, <1>5, <1>6, <1>7, <1>8, <1>9 DEF Change, Kept

\* Nobody holds the row, or the transaction that does ends with this step.
Unlocked(j) ==
    rowlock[j] = None \/ \E p \in Procs : rowlock[j] = p /\ pc'[p] = "idle"

\* A request or a migration, by the action that makes it.
Asked(j) ==
    /\ Requested(row[j], row'[j]) \/ Migrated(row[j], row'[j])
    /\ \E p \in Procs, t \in Targets : Enqueue(p, j, t) \/ MigratePending(p, t)

\* A step that writes the row of j and no other.
Writes(j) ==
    /\ row' = [row EXCEPT ![j] = row'[j]] /\ Change(row[j], row'[j])
    /\ Asked(j) \/ Kept(row[j], row'[j])
    /\ Expired(row[j], row'[j]) \/ Unlocked(j)

\* An assignment to one row, written with that row's new value.
LEMMA Wrote ==
  ASSUME IInv, NEW j \in Keys, NEW r, row' = [row EXCEPT ![j] = r]
  PROVE  row'[j] = r /\ row' = [row EXCEPT ![j] = row'[j]]
BY DEF IInv, TypeOK

\* Every step leaves the table alone, writes one row, or is the reclaim of
\* all rows of an owner.
LEMMA RowSteps ==
  ASSUME IInv, [Next]_vars
  PROVE  \/ row' = row
         \/ \E j \in Keys : Writes(j)
         \/ \E p \in Procs : ReclaimStaleOwn(p)
<1>1. ASSUME NEW p \in Procs, view[p] # None
      PROVE  view[p].key \in Keys
  BY <1>1 DEF IInv, TypeOK, View
<1>2. ASSUME NEW p \in Procs,
             \/ TailLock(p) \/ BeginMigrate(p) \/ BeginPublish(p)
             \/ Publish(p) \/ Ack(p)
      PROVE  row' = row
  BY <1>2 DEF TailLock, BeginMigrate, BeginPublish, Publish, Ack
<1>19. ASSUME NEW p \in Procs, NEW k \in Keys, List(p, k) \/ RecoverOwned(p, k)
       PROVE  row' = row
  BY <1>19 DEF List, RecoverOwned
<1>3. ASSUME NEW p \in Procs, NEW k \in Keys, NEW t \in Targets,
             Enqueue(p, k, t)
      PROVE  row' = row \/ \E j \in Keys : Writes(j)
  <2>1. Requested(row[k], row'[k]) /\ row' = [row EXCEPT ![k] = row'[k]]
    BY <1>3, Wrote DEF Enqueue, Update, Tick, Requested
  <2>2. Asked(k)
    BY <1>3, <2>1 DEF Asked
  <2> QED
    BY <1>3, <2>1, <2>2 DEF Enqueue, Update, Writes, Unlocked, Change
<1>4. ASSUME NEW p \in Procs, NEW k \in Keys,
             Claim(p, k)
      PROVE  row' = row \/ \E j \in Keys : Writes(j)
  <2> DEFINE c == [NoPending(row[k]) EXCEPT
                      !.act = NextTarget(row[k]),
                      !.actAt = IF Pending(row[k]) THEN row[k].at
                                ELSE row[k].actAt,
                      !.token = now', !.owner = OwnerOf[p], !.lease = now',
                      !.late = FALSE]
  <2>2. row' = [row EXCEPT ![k] = c]
    BY <1>4 DEF Claim, Update
  <2>3. row'[k] = c /\ row' = [row EXCEPT ![k] = row'[k]]
    BY <2>2, Wrote
  <2>4. OwnerOf[p] \in Owners
    BY OwnerAssumption
  <2>1. Granted(row[k], row'[k]) /\ row' = [row EXCEPT ![k] = row'[k]]
    BY <1>4, <2>3, <2>4 DEF Claim, Tick, Granted
  <2> QED
    BY <1>4, <2>1 DEF Claim, Update, Writes, Unlocked, Change, Kept
<1>5. ASSUME NEW p \in Procs,
             Renew(p)
      PROVE  row' = row \/ \E j \in Keys : Writes(j)
  <2> DEFINE v == view[p].key
  <2>1. Renewed(row[v], row'[v]) /\ row' = [row EXCEPT ![v] = row'[v]]
    BY <1>1, <1>5, Wrote DEF Renew, Sees, Owns, Matches, Update, Renewed
  <2> QED
    BY <1>1, <1>5, <2>1 DEF Renew, Sees, Update, Writes, Unlocked, Change, Kept
<1>6. ASSUME NEW p \in Procs,
             Reject(p) \/ Complete(p)
      PROVE  row' = row \/ \E j \in Keys : Writes(j)
  <2> DEFINE v == view[p].key
  <2>1. Ended(row[v], row'[v]) /\ row' = [row EXCEPT ![v] = row'[v]]
    BY <1>1, <1>6, Wrote
       DEF Reject, Complete, Sees, Owns, Settleable, Matches, Update, Ended
  <2> QED
    BY <1>1, <1>6, <2>1
       DEF Reject, Complete, Sees, Update, Writes, Unlocked, Change, Kept
<1>7. ASSUME NEW p \in Procs,
             Discard(p)
      PROVE  row' = row \/ \E j \in Keys : Writes(j)
  <2> DEFINE v == view[p].key
  <2>1. Withdrawn(row[v], row'[v]) /\ row' = [row EXCEPT ![v] = row'[v]]
    BY <1>1, <1>7, Wrote DEF Discard, Sees, Update, Withdrawn
  <2> QED
    BY <1>1, <1>7, <2>1
       DEF Discard, Sees, Update, Writes, Unlocked, Change, Kept
<1>8. ASSUME NEW p \in Procs,
             Quarantine(p)
      PROVE  row' = row \/ \E j \in Keys : Writes(j)
  <2> DEFINE v == view[p].key
  <2>1. Barred(row[v], row'[v]) /\ row' = [row EXCEPT ![v] = row'[v]]
    BY <1>1, <1>8, Wrote DEF Quarantine, Sees, Update, Barred
  <2> QED
    BY <1>1, <1>8, <2>1
       DEF Quarantine, Sees, Update, Writes, Unlocked, Change, Kept
<1>9. ASSUME NEW p \in Procs,
             ClearQuarantine(p)
      PROVE  row' = row \/ \E j \in Keys : Writes(j)
  <2> DEFINE v == view[p].key
  <2>1. Cleared(row[v], row'[v]) /\ row' = [row EXCEPT ![v] = row'[v]]
    BY <1>1, <1>9, Wrote
       DEF ClearQuarantine, Sees, Update, Tick, SameRecord, Cleared, IInv,
           TypeOK
  <2> QED
    BY <1>1, <1>9, <2>1
       DEF ClearQuarantine, Sees, Update, Writes, Unlocked, Change, Kept
<1>10. ASSUME NEW p \in Procs,
             RetryRow(p)
      PROVE  row' = row \/ \E j \in Keys : Writes(j)
  <2> DEFINE v == view[p].key
  <2>1. view[p] # None /\ rowlock[v] = None
    BY <1>10 DEF RetryRow, IInv, LockInv
  <2>2. CASE Matches(p, row[v])
    <3>1. Retried(row[v], row'[v]) /\ row' = [row EXCEPT ![v] = row'[v]]
      BY <1>1, <1>10, <2>1, <2>2, Wrote DEF RetryRow, Matches, Retried
    <3> QED
      BY <1>1, <2>1, <3>1 DEF Writes, Unlocked, Change, Kept
  <2> QED
    BY <1>10, <2>2 DEF RetryRow
<1>11. ASSUME NEW p \in Procs, NEW t \in Targets,
             MigratePending(p, t)
      PROVE  row' = row \/ \E j \in Keys : Writes(j)
  <2> DEFINE v == view[p].key
  <2>1. /\ view[p] # None /\ rowlock[v] = p /\ pc'[p] = "idle"
    BY <1>11 DEF MigratePending, Goto, IInv, TypeOK, LockInv, HoldsRow
  <2>2. CASE row' # row
    <3>1. Migrated(row[v], row'[v]) /\ row' = [row EXCEPT ![v] = row'[v]]
      BY <1>1, <1>11, <2>1, <2>2 DEF MigratePending, Migrated, IInv, TypeOK
    <3>2. Asked(v)
      BY <1>11, <3>1 DEF Asked
    <3> QED
      BY <1>1, <2>1, <3>1, <3>2 DEF Writes, Unlocked, Change
  <2> QED
    BY <2>2
<1>12. ASSUME NEW p \in Procs,
             Commit(p)
      PROVE  row' = row \/ \E j \in Keys : Writes(j)
  <2> DEFINE v == view[p].key
  <2>1. /\ view[p] # None /\ rowlock[v] = p /\ pc'[p] = "idle"
        /\ Matches(p, row[v])
    BY <1>12 DEF Commit, Goto, IInv, TypeOK, LockInv, PublishInv, HoldsRow
  <2>2. Ended(row[v], row'[v]) /\ row' = [row EXCEPT ![v] = row'[v]]
    BY <1>1, <1>12, <2>1, Wrote DEF Commit, Matches, Ended
  <2> QED
    BY <1>1, <2>1, <2>2 DEF Writes, Unlocked, Change, Kept
<1>13. ASSUME NEW k \in Keys,
             LeaseExpires(k)
      PROVE  row' = row \/ \E j \in Keys : Writes(j)
  <2>1. Expired(row[k], row'[k]) /\ row' = [row EXCEPT ![k] = row'[k]]
    BY <1>13 DEF LeaseExpires, Expired, IInv, TypeOK
  <2> QED
    BY <2>1 DEF Writes, Unlocked, Change, Kept
<1>14. ASSUME NEW k \in Keys, ProcessDies(k)
       PROVE  row' = row
  BY <1>14 DEF ProcessDies
<1>15. ASSUME NEW p \in Procs, Statement(p)
       PROVE  \/ row' = row
              \/ \E j \in Keys : Writes(j)
              \/ ReclaimStaleOwn(p)
  BY <1>2, <1>3, <1>4, <1>5, <1>6, <1>7, <1>8, <1>9, <1>15, <1>19 DEF Statement
<1>16. ASSUME NEW p \in Procs, GoOn(p)
       PROVE  row' = row \/ \E j \in Keys : Writes(j)
  BY <1>2, <1>10, <1>11, <1>12, <1>16 DEF GoOn
<1>17. ASSUME NEW p \in Procs,
              LockTimeout(p) \/ Rollback(p) \/ ServerEnds(p) \/ Crash(p)
       PROVE  row' = row
  BY <1>17 DEF LockTimeout, Rollback, ServerEnds, Crash
<1>18. CASE UNCHANGED vars
  BY <1>18 DEF vars
<1> QED
  BY <1>13, <1>14, <1>15, <1>16, <1>17, <1>18 DEF Next

\* The table stays a function on the keys.
LEMMA RowIsFunction ==
  ASSUME IInv, [Next]_vars
  PROVE  row' = [j \in Keys |-> row'[j]]
<1>1. ASSUME NEW j \in Keys, Writes(j)
      PROVE  row' = [i \in Keys |-> row'[i]]
  BY <1>1 DEF Writes, IInv, TypeOK
<1>2. ASSUME NEW p \in Procs, ReclaimStaleOwn(p)
      PROVE  row' = [j \in Keys |-> row'[j]]
  BY <1>2 DEF ReclaimStaleOwn
<1>3. CASE row' = row
  BY <1>3 DEF IInv, TypeOK
<1> QED
  BY <1>1, <1>2, <1>3, RowSteps

\* A row that differs after a step has changed in one of the ways above, and
\* unless only its lease ran out nobody else held its lock.
LEMMA RowPoints ==
  ASSUME IInv, [Next]_vars, NEW j \in Keys, row'[j] # row[j]
  PROVE  /\ Change(row[j], row'[j])
         /\ Asked(j) \/ Kept(row[j], row'[j])
         /\ Expired(row[j], row'[j]) \/ Unlocked(j)
<1>1. ASSUME NEW i \in Keys, Writes(i)
      PROVE  i = j
  BY <1>1 DEF Writes, IInv, TypeOK
<1>2. ASSUME NEW p \in Procs, ReclaimStaleOwn(p)
      PROVE  Returned(row[j], row'[j]) /\ rowlock[j] = None
  BY <1>2 DEF ReclaimStaleOwn, Tick, Returned
<1> QED
  BY <1>1, <1>2, RowSteps DEF Writes, Change, Kept, Unlocked

-----------------------------------------------------------------------------
(* Types.                                                                  *)

\* Stamps grow by one at a time and stay within the bound.
LEMMA NowSteps ==
  ASSUME IInv, [Next]_vars
  PROVE  now' \in 0 .. MaxNow /\ now' \in {now, now + 1}
<1> USE BoundAssumption
<1>1. ASSUME NEW p \in Procs, NEW k \in Keys, NEW t \in Targets,
             Enqueue(p, k, t)
      PROVE  now' \in 0 .. MaxNow /\ now' \in {now, now + 1}
  BY <1>1 DEF Enqueue, Idle, Tick, locks, IInv, TypeOK
<1>2. ASSUME NEW p \in Procs, NEW k \in Keys,
             Claim(p, k)
      PROVE  now' \in 0 .. MaxNow /\ now' \in {now, now + 1}
  BY <1>2 DEF Claim, Idle, Tick, Reads, locks, IInv, TypeOK
<1>3. ASSUME NEW p \in Procs, NEW k \in Keys,
             List(p, k) \/ RecoverOwned(p, k)
      PROVE  now' \in 0 .. MaxNow /\ now' \in {now, now + 1}
  BY <1>3 DEF List, RecoverOwned, Idle, Reads, locks, IInv, TypeOK
<1>4. ASSUME NEW p \in Procs,
             \/ Renew(p) \/ Reject(p) \/ Complete(p) \/ Discard(p)
             \/ ReclaimStaleOwn(p) \/ Quarantine(p) \/ ClearQuarantine(p)
      PROVE  now' \in 0 .. MaxNow /\ now' \in {now, now + 1}
  BY <1>4
     DEF Renew, Reject, Complete, Discard, ReclaimStaleOwn, Quarantine,
         ClearQuarantine, Sees, Idle, Tick, locks, IInv, TypeOK
<1>5. ASSUME NEW p \in Procs,
             TailLock(p) \/ BeginMigrate(p) \/ BeginPublish(p)
      PROVE  now' \in 0 .. MaxNow /\ now' \in {now, now + 1}
  BY <1>5
     DEF TailLock, BeginMigrate, BeginPublish, PublishLock, LockRow, Sees,
         Idle, Goto, Tick, IInv, TypeOK
<1>6. ASSUME NEW p \in Procs,
             \/ RetryRow(p) \/ Commit(p)
             \/ \E t \in Targets : MigratePending(p, t)
      PROVE  now' \in 0 .. MaxNow /\ now' \in {now, now + 1}
  BY <1>6 DEF RetryRow, Commit, MigratePending, Goto, Unlock, IInv, TypeOK
<1>7. ASSUME NEW p \in Procs,
             Publish(p) \/ Ack(p)
      PROVE  now' \in 0 .. MaxNow /\ now' \in {now, now + 1}
  BY <1>7 DEF Publish, Ack, Goto, locks, IInv, TypeOK
<1>8. ASSUME NEW p \in Procs,
             \/ LockTimeout(p) \/ Rollback(p) \/ ServerEnds(p) \/ Crash(p)
      PROVE  now' \in 0 .. MaxNow /\ now' \in {now, now + 1}
  BY <1>8
     DEF LockTimeout, Rollback, ServerEnds, Crash, Goto, Unlock, IInv, TypeOK
<1>9. ASSUME NEW k \in Keys,
             LeaseExpires(k) \/ ProcessDies(k)
      PROVE  now' \in 0 .. MaxNow /\ now' \in {now, now + 1}
  BY <1>9 DEF LeaseExpires, ProcessDies, locks, IInv, TypeOK
<1>10. CASE UNCHANGED vars
  BY <1>10 DEF vars, IInv, TypeOK
<1> QED
  BY <1>1, <1>2, <1>3, <1>4, <1>5, <1>6, <1>7, <1>8, <1>9, <1>10
     DEF Next, Statement, GoOn

\* The rows keep their type.
LEMMA RowNext ==
  ASSUME IInv, [Next]_vars
  PROVE  row' \in [Keys -> Row] /\ \A j \in Keys : RowOK(row'[j])
<1>1. ASSUME NEW j \in Keys
      PROVE  RowOK(row'[j])
  <2>1. RowOK(row[j]) /\ row[j].token \in 0 .. now
    BY DEF RowOK, Row, IInv, TypeOK, ViewInv
  <2> QED
    BY <2>1, NowSteps, RowPoints, ChangeTyped DEF IInv, TypeOK
<1> QED
  BY <1>1, RowIsFunction DEF RowOK

\* A process only ever sees a row that was committed when it read it.
LEMMA ViewSteps ==
  ASSUME IInv, [Next]_vars, NEW q \in Procs
  PROVE  \/ view'[q] \in {view[q], None}
         \/ \E k \in Keys : view'[q] = [key |-> k, row |-> row'[k]]
<1>1. ASSUME NEW p \in Procs, NEW k \in Keys, NEW t \in Targets,
             Enqueue(p, k, t)
      PROVE  \/ view'[q] \in {view[q], None}
             \/ \E j \in Keys : view'[q] = [key |-> j, row |-> row'[j]]
  BY <1>1 DEF Enqueue, Idle, Tick
<1>2. ASSUME NEW p \in Procs, NEW k \in Keys,
             Claim(p, k)
      PROVE  \/ view'[q] \in {view[q], None}
             \/ \E j \in Keys : view'[q] = [key |-> j, row |-> row'[j]]
  <2>1. PICK c : row' = [row EXCEPT ![k] = c] /\ Reads(p, k, c)
    BY <1>2 DEF Claim, Update
  <2> QED
    BY <2>1, Wrote DEF Reads, IInv, TypeOK
<1>3. ASSUME NEW p \in Procs, NEW k \in Keys,
             List(p, k) \/ RecoverOwned(p, k)
      PROVE  \/ view'[q] \in {view[q], None}
             \/ \E j \in Keys : view'[q] = [key |-> j, row |-> row'[j]]
  BY <1>3 DEF List, RecoverOwned, Idle, Reads, locks, IInv, TypeOK
<1>4. ASSUME NEW p \in Procs,
             \/ Renew(p) \/ Reject(p) \/ Complete(p) \/ Discard(p)
             \/ ReclaimStaleOwn(p) \/ Quarantine(p) \/ ClearQuarantine(p)
      PROVE  \/ view'[q] \in {view[q], None}
             \/ \E j \in Keys : view'[q] = [key |-> j, row |-> row'[j]]
  BY <1>4
     DEF Renew, Reject, Complete, Discard, ReclaimStaleOwn, Quarantine,
         ClearQuarantine
<1>5. ASSUME NEW p \in Procs,
             TailLock(p) \/ BeginMigrate(p) \/ BeginPublish(p)
      PROVE  \/ view'[q] \in {view[q], None}
             \/ \E j \in Keys : view'[q] = [key |-> j, row |-> row'[j]]
  BY <1>5 DEF TailLock, BeginMigrate, BeginPublish, PublishLock, LockRow, Sees
<1>6. ASSUME NEW p \in Procs,
             \/ RetryRow(p) \/ Commit(p)
             \/ \E t \in Targets : MigratePending(p, t)
      PROVE  \/ view'[q] \in {view[q], None}
             \/ \E j \in Keys : view'[q] = [key |-> j, row |-> row'[j]]
  BY <1>6 DEF RetryRow, Commit, MigratePending, Goto, Unlock, IInv, TypeOK
<1>7. ASSUME NEW p \in Procs,
             Publish(p) \/ Ack(p)
      PROVE  \/ view'[q] \in {view[q], None}
             \/ \E j \in Keys : view'[q] = [key |-> j, row |-> row'[j]]
  BY <1>7 DEF Publish, Ack, Goto
<1>8. ASSUME NEW p \in Procs,
             \/ LockTimeout(p) \/ Rollback(p) \/ ServerEnds(p) \/ Crash(p)
      PROVE  \/ view'[q] \in {view[q], None}
             \/ \E j \in Keys : view'[q] = [key |-> j, row |-> row'[j]]
  BY <1>8
     DEF LockTimeout, Rollback, ServerEnds, Crash, Goto, Unlock, IInv, TypeOK
<1>9. ASSUME NEW k \in Keys,
             LeaseExpires(k) \/ ProcessDies(k)
      PROVE  \/ view'[q] \in {view[q], None}
             \/ \E j \in Keys : view'[q] = [key |-> j, row |-> row'[j]]
  BY <1>9 DEF LeaseExpires, ProcessDies, locks
<1>10. CASE UNCHANGED vars
  BY <1>10 DEF vars, IInv, TypeOK
<1> QED
  BY <1>1, <1>2, <1>3, <1>4, <1>5, <1>6, <1>7, <1>8, <1>9, <1>10
     DEF Next, Statement, GoOn

\* TypeOK of everything but rows, views and stamps.
OtherTypes ==
    /\ rowlock \in [Keys -> Procs \cup {None}] /\ tail \in Procs \cup {None}
    /\ pc \in [Procs -> Labels] /\ view = [q \in Procs |-> view[q]]
    /\ lost \in SUBSET Procs /\ dead \in SUBSET Stamps
    /\ published \in [Keys -> [token : Stamps, target : Targets] \cup {None}]

\* Locks, program counters, deaths and publications keep their types.
LEMMA OthersNext == IInv /\ [Next]_vars => OtherTypes'
<1> SUFFICES ASSUME IInv, [Next]_vars
             PROVE  OtherTypes'
  OBVIOUS
<1>1. ASSUME NEW p \in Procs, NEW k \in Keys, NEW t \in Targets,
             Enqueue(p, k, t)
      PROVE  OtherTypes'
  BY <1>1 DEF Enqueue, Idle, Tick, locks, OtherTypes, Labels, IInv, TypeOK
<1>2. ASSUME NEW p \in Procs, NEW k \in Keys,
             Claim(p, k)
      PROVE  OtherTypes'
  BY <1>2 DEF Claim, Idle, Tick, Reads, locks, OtherTypes, Labels, IInv, TypeOK
<1>3. ASSUME NEW p \in Procs, NEW k \in Keys,
             List(p, k) \/ RecoverOwned(p, k)
      PROVE  OtherTypes'
  BY <1>3
     DEF List, RecoverOwned, Idle, Reads, locks, OtherTypes, Labels, IInv,
         TypeOK
<1>4. ASSUME NEW p \in Procs,
             \/ Renew(p) \/ Reject(p) \/ Complete(p) \/ Discard(p)
             \/ ReclaimStaleOwn(p) \/ Quarantine(p) \/ ClearQuarantine(p)
      PROVE  OtherTypes'
  BY <1>4
     DEF Renew, Reject, Complete, Discard, ReclaimStaleOwn, Quarantine,
         ClearQuarantine, Sees, Idle, Tick, locks, OtherTypes, Labels, IInv,
         TypeOK
<1>5. ASSUME NEW p \in Procs,
             TailLock(p) \/ BeginMigrate(p) \/ BeginPublish(p)
      PROVE  OtherTypes'
  BY <1>5
     DEF TailLock, BeginMigrate, BeginPublish, PublishLock, LockRow, Sees,
         Idle, Goto, Tick, OtherTypes, Labels, IInv, TypeOK
<1>6. ASSUME NEW p \in Procs,
             \/ RetryRow(p) \/ Commit(p)
             \/ \E t \in Targets : MigratePending(p, t)
      PROVE  OtherTypes'
  BY <1>6
     DEF RetryRow, Commit, MigratePending, Goto, Unlock, OtherTypes, Labels,
         IInv, TypeOK
<1>7. ASSUME NEW p \in Procs,
             Publish(p) \/ Ack(p)
      PROVE  OtherTypes'
  <2>1. CASE Publish(p)
    <3>1. view[p] \in View /\ Claimed(view[p].row) /\ view[p].row.act # None
      BY <2>1 DEF Publish, IInv, TypeOK, LockInv, ViewInv, PublishInv
    <3>2. /\ view[p].key \in Keys /\ view[p].row.token \in Stamps
          /\ view[p].row.act \in Targets
      BY <3>1, BoundAssumption DEF View, Row, Claimed, Stamps
    <3> QED
      BY <2>1, <3>2 DEF Publish, Goto, locks, OtherTypes, Labels, IInv, TypeOK
  <2>2. CASE Ack(p)
    BY <2>2 DEF Ack, Goto, locks, OtherTypes, Labels, IInv, TypeOK
  <2> QED
    BY <1>7, <2>1, <2>2
<1>8. ASSUME NEW p \in Procs,
             \/ LockTimeout(p) \/ Rollback(p) \/ ServerEnds(p) \/ Crash(p)
      PROVE  OtherTypes'
  BY <1>8
     DEF LockTimeout, Rollback, ServerEnds, Crash, Goto, Unlock, OtherTypes,
         Labels, IInv, TypeOK
<1>9. ASSUME NEW k \in Keys,
             LeaseExpires(k) \/ ProcessDies(k)
      PROVE  OtherTypes'
  <2>1. CASE LeaseExpires(k)
    BY <2>1 DEF LeaseExpires, locks, OtherTypes, IInv, TypeOK
  <2>2. CASE ProcessDies(k)
    <3>1. row[k].token \in Stamps
      BY <2>2, BoundAssumption
         DEF ProcessDies, Claimed, Row, Stamps, IInv, TypeOK
    <3> QED
      BY <2>2, <3>1 DEF ProcessDies, locks, OtherTypes, IInv, TypeOK
  <2> QED
    BY <1>9, <2>1, <2>2
<1>10. CASE UNCHANGED vars
  BY <1>10 DEF vars, OtherTypes, Labels, IInv, TypeOK
<1> QED
  BY <1>1, <1>2, <1>3, <1>4, <1>5, <1>6, <1>7, <1>8, <1>9, <1>10
     DEF Next, Statement, GoOn

\* Every step keeps the types.
LEMMA TypeNext == IInv /\ [Next]_vars => TypeOK'
<1> SUFFICES ASSUME IInv, [Next]_vars
             PROVE  TypeOK'
  OBVIOUS
<1>1. ASSUME NEW q \in Procs
      PROVE  view'[q] \in View \cup {None}
  <2>1. ASSUME NEW k \in Keys
        PROVE  [key |-> k, row |-> row'[k]] \in View
    BY RowNext, Zenon DEF View
  <2> QED
    BY <2>1, ViewSteps DEF IInv, TypeOK
<1>2. view' \in [Procs -> View \cup {None}]
  BY <1>1, OthersNext DEF OtherTypes
<1> QED
  BY <1>2, NowSteps, RowNext, OthersNext DEF TypeOK, RowOK, OtherTypes

-----------------------------------------------------------------------------
(* Locks, views and publications.                                          *)

\* Every step leaves the locks with the transactions that need them.
LEMMA LockNext == IInv /\ [Next]_vars => LockInv'
<1> SUFFICES ASSUME IInv, [Next]_vars
             PROVE  LockInv'
  OBVIOUS
<1>1. ASSUME NEW p \in Procs, NEW k \in Keys, NEW t \in Targets,
             Enqueue(p, k, t)
      PROVE  LockInv'
  BY <1>1, NoneAssumption
     DEF Enqueue, Idle, Tick, locks, LockInv, HoldsRow, IInv, TypeOK, View
<1>2. ASSUME NEW p \in Procs, NEW k \in Keys,
             Claim(p, k)
      PROVE  LockInv'
  BY <1>2
     DEF Claim, Idle, Tick, Reads, locks, LockInv, HoldsRow, IInv, TypeOK, View
<1>3. ASSUME NEW p \in Procs, NEW k \in Keys,
             List(p, k) \/ RecoverOwned(p, k)
      PROVE  LockInv'
  BY <1>3
     DEF List, RecoverOwned, Idle, Reads, locks, LockInv, HoldsRow, IInv,
         TypeOK, View
<1>4. ASSUME NEW p \in Procs,
             \/ Renew(p) \/ Reject(p) \/ Complete(p) \/ Discard(p)
             \/ ReclaimStaleOwn(p) \/ Quarantine(p) \/ ClearQuarantine(p)
      PROVE  LockInv'
  BY <1>4
     DEF Renew, Reject, Complete, Discard, ReclaimStaleOwn, Quarantine,
         ClearQuarantine, Sees, Idle, Tick, locks, LockInv, HoldsRow, IInv,
         TypeOK, View
<1>5. ASSUME NEW p \in Procs,
             TailLock(p) \/ BeginMigrate(p) \/ BeginPublish(p)
      PROVE  LockInv'
  <2>1. view[p].key \in Keys /\ view[p] # None /\ pc[p] = "idle"
    BY <1>5
       DEF TailLock, BeginMigrate, BeginPublish, Sees, Idle, IInv, TypeOK, View
  <2>2. CASE TailLock(p)
    BY <2>1, <2>2 DEF TailLock, Goto, LockInv, HoldsRow, IInv, TypeOK
  <2>3. CASE BeginMigrate(p)
    BY <2>1, <2>3, NoneAssumption
       DEF BeginMigrate, LockRow, Goto, LockInv, HoldsRow, IInv, TypeOK
  <2>4. CASE BeginPublish(p)
    BY <2>1, <2>4, NoneAssumption
       DEF BeginPublish, PublishLock, LockRow, Goto, LockInv, HoldsRow, IInv,
           TypeOK
  <2> QED
    BY <1>5, <2>2, <2>3, <2>4
<1>6. ASSUME NEW p \in Procs,
             \/ RetryRow(p) \/ Commit(p)
             \/ \E t \in Targets : MigratePending(p, t)
      PROVE  LockInv'
  <2>1. /\ pc' = [pc EXCEPT ![p] = "idle"] /\ UNCHANGED <<view, lost>>
        /\ rowlock' = [k \in Keys |->
                         IF rowlock[k] = p THEN None ELSE rowlock[k]]
    BY <1>6 DEF RetryRow, Commit, MigratePending, Goto, Unlock
  <2>2. ASSUME NEW q \in Procs, view[q] # None
        PROVE  view[q].key \in Keys
    BY <2>2 DEF IInv, TypeOK, View
  <2> QED
    BY <2>1, <2>2, NoneAssumption DEF LockInv, HoldsRow, IInv, TypeOK
<1>7. ASSUME NEW p \in Procs,
             Publish(p) \/ Ack(p)
      PROVE  LockInv'
  BY <1>7 DEF Publish, Ack, Goto, locks, LockInv, HoldsRow, IInv, TypeOK, View
<1>8. ASSUME NEW p \in Procs,
             \/ LockTimeout(p) \/ Rollback(p) \/ ServerEnds(p) \/ Crash(p)
      PROVE  LockInv'
  BY <1>8
     DEF LockTimeout, Rollback, ServerEnds, Crash, Goto, Unlock, LockInv,
         HoldsRow, IInv, TypeOK, View
<1>9. ASSUME NEW k \in Keys,
             LeaseExpires(k) \/ ProcessDies(k)
      PROVE  LockInv'
  BY <1>9
     DEF LeaseExpires, ProcessDies, locks, LockInv, HoldsRow, IInv, TypeOK,
         View
<1>10. CASE UNCHANGED vars
  BY <1>10 DEF vars, LockInv, HoldsRow, IInv, TypeOK, View
<1> QED
  BY <1>1, <1>2, <1>3, <1>4, <1>5, <1>6, <1>7, <1>8, <1>9, <1>10
     DEF Next, Statement, GoOn

\* What a change does to the claim of the row.
LEMMA ChangeClaim ==
  ASSUME NEW r, RowOK(r), NEW s, Change(r, s), now' \in 0 .. MaxNow
  PROVE  \/ s.token = r.token /\ s.act = r.act
         \/ s.token = 0
         \/ s.token = now' /\ now' = now + 1
<1>1. CASE \/ Requested(r, s) \/ Renewed(r, s) \/ Expired(r, s) \/ Barred(r, s)
           \/ Migrated(r, s)
  BY <1>1 DEF Requested, Renewed, Expired, Barred, Migrated, RowOK, Row
<1>2. CASE Granted(r, s)
  BY <1>2 DEF Granted, NoPending
<1>3. CASE Ended(r, s) \/ Withdrawn(r, s)
  BY <1>3, ReleasedFields DEF Ended, Withdrawn, RowOK
<1>4. CASE Returned(r, s)
  BY <1>4, ReclaimedFields DEF Returned, RowOK
<1>5. CASE Cleared(r, s)
  BY <1>5, ReclaimedFields, ReleasedTyped DEF Cleared, RowOK, Row
<1>6. CASE Retried(r, s)
  BY <1>6 DEF Retried, NoClaim
<1> QED
  BY <1>1, <1>2, <1>3, <1>4, <1>5, <1>6 DEF Change, Kept

\* Tokens stay fresh, and what a process has read of a claim stays true of it.
LEMMA ViewNext == IInv /\ [Next]_vars => ViewInv'
<1> SUFFICES ASSUME IInv, [Next]_vars
             PROVE  ViewInv'
  OBVIOUS
<1>1. now' \in {now, now + 1} /\ now' \in 0 .. MaxNow /\ now \in 0 .. MaxNow
  BY NowSteps DEF IInv, TypeOK
<1>2. ASSUME NEW k \in Keys
      PROVE  \/ row'[k].token = row[k].token /\ row'[k].act = row[k].act
             \/ row'[k].token = 0
             \/ row'[k].token = now' /\ now' = now + 1
  <2>1. RowOK(row[k])
    BY DEF RowOK, IInv, TypeOK
  <2> QED
    BY <1>1, <2>1, RowPoints, ChangeClaim
<1>3. ASSUME NEW k \in Keys
      PROVE  row'[k].token <= now'
  <2>1. row[k].token \in 0 .. now
    BY DEF IInv, TypeOK, ViewInv, Row
  <2> QED
    BY <1>1, <1>2, <2>1
<1>4. ASSUME NEW q \in Procs, view'[q] # None
      PROVE  LET r == row'[view'[q].key]  v == view'[q].row IN
             /\ v.token <= now' /\ (Claimed(v) <=> v.act # None)
             /\ Claimed(v) /\ r.token = v.token => r.act = v.act
  <2>1. CASE view'[q] = view[q]
    <3> DEFINE k == view[q].key
               v == view[q].row
    <3>1. k \in Keys /\ v.token \in 0 .. MaxNow
      BY <1>4, <2>1 DEF IInv, TypeOK, View, Row
    <3>2. /\ v.token <= now /\ (Claimed(v) <=> v.act # None)
          /\ Claimed(v) /\ row[k].token = v.token => row[k].act = v.act
      BY <1>4, <2>1 DEF IInv, ViewInv
    <3>3. Claimed(v) <=> v.token # 0
      BY DEF Claimed
    <3> HIDE DEF k, v
    <3>4. Claimed(v) /\ row'[k].token = v.token => row'[k].act = v.act
      BY <1>1, <1>2, <3>1, <3>2, <3>3
    <3>5. v.token <= now'
      BY <1>1, <3>1, <3>2
    <3> QED
      BY <2>1, <3>2, <3>4, <3>5 DEF k, v
  <2>2. ASSUME NEW k \in Keys, view'[q] = [key |-> k, row |-> row'[k]]
        PROVE  LET r == row'[view'[q].key]  v == view'[q].row IN
               /\ v.token <= now' /\ (Claimed(v) <=> v.act # None)
               /\ Claimed(v) /\ r.token = v.token => r.act = v.act
    <3>1. Claimed(row'[k]) <=> row'[k].act # None
      BY RowNext DEF RowOK
    <3> QED
      BY <1>3, <2>2, <3>1
  <2> QED
    BY <1>4, <2>1, <2>2, ViewSteps
<1> QED
  BY <1>3, <1>4 DEF ViewInv

\* The row that a transaction holds is written by it alone, and then it ends.
LEMMA HeldRowKept ==
  ASSUME IInv, [Next]_vars, NEW q \in Procs, HoldsRow(q), pc'[q] # "idle"
  PROVE  LET r == row[view[q].key]  s == row'[view[q].key] IN
         /\ s.token = r.token /\ s.bar = r.bar /\ s.owner = r.owner
         /\ s.want = r.want /\ s.at = r.at /\ s.act = r.act
<1> DEFINE k == view[q].key
<1>1. k \in Keys /\ rowlock[k] = q
  BY DEF HoldsRow, IInv, TypeOK, LockInv, View
<1>2. ~Unlocked(k)
  BY <1>1, NoneAssumption DEF Unlocked
<1>3. row'[k] = row[k] \/ Expired(row[k], row'[k])
  BY <1>1, <1>2, RowPoints
<1>4. row[k] \in Row
  BY <1>1 DEF IInv, TypeOK
<1> QED
  BY <1>3, <1>4 DEF Expired, Row

\* q was publishing before this step, with the same view.
PublishGoesOn(q) ==
    /\ view'[q] = view[q]
    /\ pc[q] \in {"fenced", "superseded", "wrote", "acked"}
    /\ HoldsRow(q)' => HoldsRow(q)
    /\ pc'[q] = "fenced" => pc[q] = "fenced"

\* A publication begins with begin_publish and keeps its view.
LEMMA PublishSteps ==
  ASSUME IInv, [Next]_vars, NEW q \in Procs,
         pc'[q] \in {"fenced", "superseded", "wrote", "acked"}
  PROVE  \/ BeginPublish(q)
         \/ PublishGoesOn(q)
<1>1. ASSUME NEW p \in Procs, NEW k \in Keys, NEW t \in Targets,
             Enqueue(p, k, t)
      PROVE  BeginPublish(q) \/ PublishGoesOn(q)
  BY <1>1
     DEF Enqueue, Idle, Tick, locks, PublishGoesOn, HoldsRow, LockInv, IInv,
         TypeOK
<1>2. ASSUME NEW p \in Procs, NEW k \in Keys,
             Claim(p, k)
      PROVE  BeginPublish(q) \/ PublishGoesOn(q)
  BY <1>2
     DEF Claim, Idle, Tick, Reads, locks, PublishGoesOn, HoldsRow, LockInv,
         IInv, TypeOK
<1>3. ASSUME NEW p \in Procs, NEW k \in Keys,
             List(p, k) \/ RecoverOwned(p, k)
      PROVE  BeginPublish(q) \/ PublishGoesOn(q)
  BY <1>3
     DEF List, RecoverOwned, Idle, Reads, locks, PublishGoesOn, HoldsRow,
         LockInv, IInv, TypeOK
<1>4. ASSUME NEW p \in Procs,
             \/ Renew(p) \/ Reject(p) \/ Complete(p) \/ Discard(p)
             \/ ReclaimStaleOwn(p) \/ Quarantine(p) \/ ClearQuarantine(p)
      PROVE  BeginPublish(q) \/ PublishGoesOn(q)
  BY <1>4
     DEF Renew, Reject, Complete, Discard, ReclaimStaleOwn, Quarantine,
         ClearQuarantine, Sees, Idle, Tick, locks, PublishGoesOn, HoldsRow,
         LockInv, IInv, TypeOK
<1>5. ASSUME NEW p \in Procs,
             TailLock(p) \/ BeginMigrate(p) \/ BeginPublish(p)
      PROVE  BeginPublish(q) \/ PublishGoesOn(q)
  BY <1>5
     DEF TailLock, BeginMigrate, BeginPublish, PublishLock, LockRow, Sees,
         Idle, Goto, Tick, PublishGoesOn, HoldsRow, LockInv, IInv, TypeOK
<1>6. ASSUME NEW p \in Procs,
             \/ RetryRow(p) \/ Commit(p)
             \/ \E t \in Targets : MigratePending(p, t)
      PROVE  BeginPublish(q) \/ PublishGoesOn(q)
  BY <1>6
     DEF RetryRow, Commit, MigratePending, Goto, Unlock, PublishGoesOn,
         HoldsRow, LockInv, IInv, TypeOK
<1>7. ASSUME NEW p \in Procs,
             Publish(p) \/ Ack(p)
      PROVE  BeginPublish(q) \/ PublishGoesOn(q)
  BY <1>7
     DEF Publish, Ack, Goto, locks, PublishGoesOn, HoldsRow, LockInv, IInv,
         TypeOK
<1>8. ASSUME NEW p \in Procs,
             \/ LockTimeout(p) \/ Rollback(p) \/ ServerEnds(p) \/ Crash(p)
      PROVE  BeginPublish(q) \/ PublishGoesOn(q)
  BY <1>8
     DEF LockTimeout, Rollback, ServerEnds, Crash, Goto, Unlock, PublishGoesOn,
         HoldsRow, LockInv, IInv, TypeOK
<1>9. ASSUME NEW k \in Keys,
             LeaseExpires(k) \/ ProcessDies(k)
      PROVE  BeginPublish(q) \/ PublishGoesOn(q)
  BY <1>9
     DEF LeaseExpires, ProcessDies, locks, PublishGoesOn, HoldsRow, LockInv,
         IInv, TypeOK
<1>10. CASE UNCHANGED vars
  BY <1>10 DEF vars, PublishGoesOn, HoldsRow
<1> QED
  BY <1>1, <1>2, <1>3, <1>4, <1>5, <1>6, <1>7, <1>8, <1>9, <1>10
     DEF Next, Statement, GoOn

\* PublishInv of one publication.
PublishOK(q) ==
    /\ Claimed(view[q].row)
    /\ HoldsRow(q) => Matches(q, row[view[q].key])
    /\ /\ HoldsRow(q) /\ pc[q] = "fenced" /\ Pending(row[view[q].key])
       => row[view[q].key].want = row[view[q].key].act

\* Every step keeps the claims of the publications that have begun.
LEMMA PublishNext == IInv /\ [Next]_vars => PublishInv'
<1> SUFFICES ASSUME IInv, [Next]_vars, NEW q \in Procs,
                    pc'[q] \in {"fenced", "superseded", "wrote", "acked"}
             PROVE  PublishOK(q)'
  BY Zenon DEF PublishInv, PublishOK
<1>1. CASE BeginPublish(q)
  <2>1. /\ view[q].key \in Keys /\ row' = row /\ view' = view
        /\ Matches(q, row[view[q].key])
        /\ row[view[q].key].token = view[q].row.token
        /\ pc' = [pc EXCEPT ![q] = pc'[q]]
    BY <1>1 DEF BeginPublish, Sees, Owns, Matches, Goto, IInv, TypeOK, View
  <2>2. Claimed(view[q].row)
    BY <2>1 DEF Matches, Claimed
  <2>3. pc'[q] = "fenced" /\ Pending(row[view[q].key])
        => row[view[q].key].want = row[view[q].key].act
    BY <1>1 DEF BeginPublish, Goto, IInv, TypeOK
  <2> QED
    BY <2>1, <2>2, <2>3 DEF PublishOK, Matches
<1>2. CASE PublishGoesOn(q)
  <2>1. PublishOK(q)
    BY <1>2 DEF PublishGoesOn, IInv, PublishInv, PublishOK
  <2>2. CASE HoldsRow(q)'
    <3>1. HoldsRow(q) /\ pc'[q] # "idle"
      BY <1>2, <2>2 DEF PublishGoesOn
    <3>2. LET r == row[view[q].key]  s == row'[view[q].key] IN
          /\ s.token = r.token /\ s.bar = r.bar /\ s.owner = r.owner
          /\ s.want = r.want /\ s.at = r.at /\ s.act = r.act
      BY <3>1, HeldRowKept
    <3> QED
      BY <1>2, <2>1, <3>1, <3>2
         DEF PublishGoesOn, PublishOK, Matches, Pending, Claimed
  <2> QED
    BY <1>2, <2>1, <2>2 DEF PublishGoesOn, PublishOK
<1> QED
  BY <1>1, <1>2, PublishSteps

\* The empty table satisfies the inductive invariant.
LEMMA IInvInit == Init => IInv
<1> SUFFICES ASSUME Init
             PROVE  IInv
  OBVIOUS
<1>1. NoRow \in Row
  BY NumbersTyped, Zenon DEF Row, NoRow
<1>2. /\ row \in [Keys -> Row] /\ rowlock \in [Keys -> Procs \cup {None}]
      /\ tail \in Procs \cup {None} /\ pc \in [Procs -> Labels]
      /\ view \in [Procs -> View \cup {None}] /\ lost \in SUBSET Procs
      /\ dead \in SUBSET Stamps
      /\ published \in [Keys -> [token : Stamps, target : Targets] \cup {None}]
  BY <1>1 DEF Init, Labels
<1>3. \A k \in Keys : row[k] = NoRow
  BY DEF Init
<1>4. now \in 0 .. MaxNow
  BY BoundAssumption DEF Init
<1>5. TypeOK
  BY <1>2, <1>3, <1>4 DEF TypeOK, NoRow, Pending, Claimed
<1>6. LockInv /\ PublishInv
  BY DEF Init, LockInv, PublishInv, HoldsRow
<1>7. ViewInv
  BY <1>3 DEF Init, ViewInv, NoRow
<1> QED
  BY <1>5, <1>6, <1>7 DEF IInv

\* Every step keeps the inductive invariant.
LEMMA IInvNext == IInv /\ [Next]_vars => IInv'
BY TypeNext, LockNext, ViewNext, PublishNext DEF IInv

\* IInv is an invariant of the queue: the locks, the views and the begun
\* publications agree with the rows through every interleaving.
THEOREM Invariance == Spec => []IInv
BY IInvInit, IInvNext, PTL DEF Spec

\* Rows, locks and views keep their types, and the columns of a request and
\* those of a claim come and go together.
THEOREM TypeCorrect == Spec => []TypeOK
<1>1. IInv => TypeOK
  BY DEF IInv
<1> QED
  BY <1>1, Invariance, PTL

-----------------------------------------------------------------------------
(* Publications, quarantine, requests.                                     *)

\* Only a publication writes the manifest, for the key of its view.
LEMMA PublishedSteps ==
  ASSUME IInv, [Next]_vars, NEW k \in Keys, published'[k] # published[k]
  PROVE  \E p \in Procs : Publish(p) /\ view[p].key = k
<1>1. ASSUME NEW p \in Procs, NEW l \in Keys, NEW t \in Targets,
             Enqueue(p, l, t)
      PROVE  \E j \in Procs : Publish(j) /\ view[j].key = k
  BY <1>1 DEF Enqueue, Idle, Tick
<1>2. ASSUME NEW p \in Procs, NEW l \in Keys,
             Claim(p, l)
      PROVE  \E j \in Procs : Publish(j) /\ view[j].key = k
  BY <1>2 DEF Claim
<1>3. ASSUME NEW p \in Procs, NEW l \in Keys,
             List(p, l) \/ RecoverOwned(p, l)
      PROVE  \E j \in Procs : Publish(j) /\ view[j].key = k
  BY <1>3 DEF List, RecoverOwned, Idle, Reads
<1>4. ASSUME NEW p \in Procs,
             \/ Renew(p) \/ Reject(p) \/ Complete(p) \/ Discard(p)
             \/ ReclaimStaleOwn(p) \/ Quarantine(p) \/ ClearQuarantine(p)
      PROVE  \E j \in Procs : Publish(j) /\ view[j].key = k
  BY <1>4
     DEF Renew, Reject, Complete, Discard, ReclaimStaleOwn, Quarantine,
         ClearQuarantine, Sees, Idle, Tick, locks, IInv, TypeOK
<1>5. ASSUME NEW p \in Procs,
             TailLock(p) \/ BeginMigrate(p) \/ BeginPublish(p)
      PROVE  \E j \in Procs : Publish(j) /\ view[j].key = k
  BY <1>5 DEF TailLock, BeginMigrate, BeginPublish, PublishLock, LockRow, Sees
<1>6. ASSUME NEW p \in Procs,
             \/ RetryRow(p) \/ Commit(p)
             \/ \E t \in Targets : MigratePending(p, t)
      PROVE  \E j \in Procs : Publish(j) /\ view[j].key = k
  BY <1>6 DEF RetryRow, Commit, MigratePending, Goto, Unlock, IInv, TypeOK
<1>7. ASSUME NEW p \in Procs,
             Publish(p) \/ Ack(p)
      PROVE  \E j \in Procs : Publish(j) /\ view[j].key = k
  BY <1>7 DEF Publish, Ack, Goto, locks, IInv, TypeOK
<1>8. ASSUME NEW p \in Procs,
             \/ LockTimeout(p) \/ Rollback(p) \/ ServerEnds(p) \/ Crash(p)
      PROVE  \E j \in Procs : Publish(j) /\ view[j].key = k
  BY <1>8 DEF LockTimeout, Rollback, ServerEnds, Crash
<1>9. ASSUME NEW l \in Keys,
             LeaseExpires(l) \/ ProcessDies(l)
      PROVE  \E j \in Procs : Publish(j) /\ view[j].key = k
  BY <1>9 DEF LeaseExpires, ProcessDies, locks
<1>10. CASE UNCHANGED vars
  BY <1>10 DEF vars, IInv, TypeOK
<1> QED
  BY <1>1, <1>2, <1>3, <1>4, <1>5, <1>6, <1>7, <1>8, <1>9, <1>10
     DEF Next, Statement, GoOn

\* Unless the server ends sessions that are idle in their transaction, a
\* process writes the manifest only under a claim that the row still grants,
\* that is not quarantined and whose target nothing newer has replaced.
THEOREM PublicationIsFresh ==
  ASSUME ~ServerKills
  PROVE  Spec => FreshPublication
<1> SUFFICES ASSUME ~ServerKills PROVE Spec => FreshPublication
  OBVIOUS
<1>1. ASSUME IInv, [Next]_vars, NEW k \in Keys, published'[k] # published[k]
      PROVE  /\ row[k].token = published'[k].token /\ ~row[k].bar
             /\ Wanted(k) = published'[k].target
  <2>1. PICK p \in Procs : Publish(p) /\ view[p].key = k
    BY <1>1, PublishedSteps
  <2>2. /\ pc[p] = "fenced"
        /\ published'[k] = [token |-> view[p].row.token,
                            target |-> view[p].row.act]
    BY <1>1, <2>1 DEF Publish, IInv, TypeOK
  <2>3. HoldsRow(p)
    BY <1>1, <2>2 DEF HoldsRow, IInv, LockInv
  <2>4. /\ Matches(p, row[k]) /\ (Pending(row[k]) => row[k].want = row[k].act)
        /\ Claimed(view[p].row) /\ view[p] # None
    BY <1>1, <2>1, <2>2, <2>3 DEF IInv, PublishInv, LockInv
  <2>5. row[k].act = view[p].row.act
    BY <1>1, <2>1, <2>4 DEF Matches, IInv, ViewInv
  <2> QED
    BY <2>2, <2>4, <2>5 DEF Matches, Wanted
<1>2. IInv /\ [Next]_vars
      => [\A k \in Keys : published'[k] # published[k] =>
            /\ row[k].token = published'[k].token /\ ~row[k].bar
            /\ Wanted(k) = published'[k].target]_vars
  BY <1>1
<1> QED
  BY <1>2, Invariance, PTL DEF Spec, FreshPublication

\* No change takes the claim from a quarantined row while its process may
\* live.
LEMMA BarredRow ==
  ASSUME NEW r, RowOK(r), NEW s, Change(r, s), r.bar, r.token \notin dead
  PROVE  s.bar /\ s.token = r.token
<1>1. CASE \/ Requested(r, s) \/ Renewed(r, s) \/ Expired(r, s) \/ Barred(r, s)
  BY <1>1 DEF Requested, Renewed, Expired, Barred, RowOK, Row
<1>2. CASE Granted(r, s)
  BY <1>2 DEF Granted, Claimable
<1>3. CASE \/ Ended(r, s) \/ Withdrawn(r, s) \/ Returned(r, s) \/ Cleared(r, s)
           \/ Retried(r, s) \/ Migrated(r, s)
  BY <1>3 DEF Ended, Withdrawn, Returned, Cleared, Retried, Migrated
<1> QED
  BY <1>1, <1>2, <1>3 DEF Change, Kept

\* A quarantined row keeps its claim until the death of the process that held
\* it is confirmed, whoever claims, retries, settles or publishes meanwhile.
THEOREM QuarantineHolds == Spec => QuarantineHoldsClaim
<1>1. ASSUME IInv, [Next]_vars, NEW k \in Keys,
             row[k].bar, row[k].token \notin dead
      PROVE  row'[k].bar /\ row'[k].token = row[k].token
  <2>1. RowOK(row[k])
    BY <1>1 DEF RowOK, IInv, TypeOK
  <2> QED
    BY <1>1, <2>1, RowPoints, BarredRow
<1>2. IInv /\ [Next]_vars
      => [\A k \in Keys : row[k].bar /\ row[k].token \notin dead =>
            row'[k].bar /\ row'[k].token = row[k].token]_vars
  BY <1>1
<1> QED
  BY <1>2, Invariance, PTL DEF Spec, QuarantineHoldsClaim

\* The target that a row wants, queued or running.
WantedOf(r) ==
    IF Pending(r) THEN r.want ELSE IF Claimed(r) THEN r.act ELSE None

\* Whatever happens to a row but a request and a migration, what it wants next
\* is what it wanted before.
LEMMA KeptWants ==
  ASSUME NEW r, RowOK(r), NEW s, Kept(r, s), Pending(s), now \in 0 .. MaxNow,
         now' \in {now, now + 1}, now' \in 0 .. MaxNow
  PROVE  s.want = WantedOf(r)
<1>1. CASE Renewed(r, s) \/ Expired(r, s) \/ Barred(r, s)
  BY <1>1 DEF Renewed, Expired, Barred, WantedOf, Pending, RowOK, Row
<1>2. CASE Granted(r, s)
  <2>1. s.at = 0
    BY <1>2 DEF Granted, NoPending
  <2> QED
    BY <2>1 DEF Pending
<1>3. CASE Ended(r, s) \/ Withdrawn(r, s)
  BY <1>3, ReleasedFields DEF Ended, Withdrawn, WantedOf, Pending, RowOK
<1>4. CASE Returned(r, s)
  BY <1>4, ReclaimedFields DEF Returned, WantedOf, Pending, RowOK
<1>5. CASE Cleared(r, s)
  <2> DEFINE w == Reclaimed(r, now')
  <2>1. w \in Row /\ w.want = WantedOf(r)
    BY <1>5, ReclaimedFields, ReleasedTyped
       DEF Cleared, WantedOf, Pending, RowOK
  <2>2. s = [w EXCEPT !.bar = FALSE]
    BY <1>5 DEF Cleared
  <2> HIDE DEF w
  <2> QED
    BY <2>1, <2>2 DEF Row
<1>6. CASE Retried(r, s)
  BY <1>6 DEF Retried, Reentry, NoClaim, WantedOf
<1> QED
  BY <1>1, <1>2, <1>3, <1>4, <1>5, <1>6 DEF Kept

\* No retry, settlement, reclaim or clearing brings an older target back over
\* a newer one: only a request or a migration changes what is wanted.
THEOREM NewestWins == Spec => NewestRequestWins
<1>1. ASSUME IInv, [Next]_vars, NEW k \in Keys,
             Pending(row'[k]), row'[k].want # Wanted(k)
      PROVE  \E p \in Procs, t \in Targets :
                Enqueue(p, k, t) \/ MigratePending(p, t)
  <2>1. Wanted(k) = WantedOf(row[k]) /\ RowOK(row[k]) /\ now \in 0 .. MaxNow
    BY <1>1 DEF Wanted, WantedOf, RowOK, IInv, TypeOK
  <2>2. row'[k] # row[k]
    BY <1>1, <2>1 DEF WantedOf
  <2>3. ~Kept(row[k], row'[k])
    BY <1>1, <2>1, NowSteps, KeptWants
  <2> QED
    BY <1>1, <2>2, <2>3, RowPoints DEF Asked
<1>2. IInv /\ [Next]_vars
      => [\A k \in Keys : Pending(row'[k]) /\ row'[k].want # Wanted(k) =>
            \E p \in Procs, t \in Targets :
               Enqueue(p, k, t) \/ MigratePending(p, t)]_vars
  BY <1>1
<1> QED
  BY <1>2, Invariance, PTL DEF Spec, NewestRequestWins

-----------------------------------------------------------------------------
(* The queue port.                                                         *)

\* The port's view of a row, and of its changes.
GrantOf(r) ==
    IF ~Claimed(r) THEN None ELSE [token |-> r.token, target |-> r.act]

AsRequest(r, s) ==
    WantedOf(s) \in Targets /\ GrantOf(s) = GrantOf(r) /\ s.bar = r.bar

AsGrant(r, s) ==
    /\ ~r.bar /\ WantedOf(r) # None
    /\ WantedOf(s) = WantedOf(r) /\ s.bar = r.bar
    /\ \E c \in Stamps : GrantOf(s) = [token |-> c, target |-> WantedOf(r)]

AsStutter(r, s) ==
    WantedOf(s) = WantedOf(r) /\ GrantOf(s) = GrantOf(r) /\ s.bar = r.bar

AsReturn(r, s) ==
    /\ ~r.bar /\ GrantOf(r) # None /\ GrantOf(s) = None /\ s.bar = r.bar
    /\ WantedOf(s) = WantedOf(r)

AsFinish(r, s) ==
    /\ ~r.bar /\ GrantOf(r) # None /\ GrantOf(s) = None /\ s.bar = r.bar
    /\ WantedOf(r) = GrantOf(r).target /\ WantedOf(s) = None

AsWithdraw(r, s) ==
    /\ ~r.bar /\ GrantOf(s) = GrantOf(r) /\ s.bar = r.bar
    /\ WantedOf(s) = IF GrantOf(r) = None THEN None ELSE GrantOf(r).target

AsBar(r, s) ==
    /\ GrantOf(r) # None /\ s.bar = TRUE
    /\ WantedOf(s) = WantedOf(r) /\ GrantOf(s) = GrantOf(r)

AsUnbar(r, s) ==
    /\ r.bar /\ WantedOf(r) # None /\ WantedOf(s) = WantedOf(r)
    /\ s.bar = FALSE /\ GrantOf(s) = None

\* What the readers of the port see of a typed row.
LEMMA Seen ==
  ASSUME NEW r, RowOK(r)
  PROVE  /\ Claimed(r) <=> GrantOf(r) # None
         /\ Claimed(r) => /\ r.token \in Stamps /\ r.act \in Targets
                          /\ GrantOf(r).target = r.act
         /\ Pending(r) => r.want \in Targets
         /\ WantedOf(r) \in Targets \cup {None}
         /\ Pending(r) \/ Claimed(r) => WantedOf(r) \in Targets
         /\ r.bar \in BOOLEAN
<1>1. Claimed(r) => r.token \in Stamps /\ r.act \in Targets
  BY BoundAssumption DEF RowOK, Row, Claimed, Stamps
<1>2. Pending(r) => r.want \in Targets
  BY DEF RowOK, Row
<1>3. Claimed(r) => [token |-> r.token, target |-> r.act] # None
  BY <1>1, NoneAssumption DEF Stamps
<1>4. r.bar \in BOOLEAN
  BY DEF RowOK, Row
<1> QED
  BY <1>1, <1>2, <1>3, <1>4 DEF GrantOf, WantedOf

\* Every change of a row is, to the readers of the port, one of its operations
\* or nothing.
LEMMA Effects ==
  ASSUME NEW r, RowOK(r), NEW s, RowOK(s), Change(r, s), now \in 0 .. MaxNow,
         r.token \in 0 .. now, now' \in {now, now + 1}, now' \in 0 .. MaxNow
  PROVE  \/ AsRequest(r, s) \/ AsGrant(r, s) \/ AsStutter(r, s)
         \/ AsReturn(r, s) \/ AsFinish(r, s) \/ AsWithdraw(r, s)
         \/ AsBar(r, s) \/ AsUnbar(r, s)
<1>1. CASE Requested(r, s)
  <2>1. /\ s.at = now' /\ now' # 0 /\ s.want \in Targets
        /\ s.act = r.act /\ s.token = r.token /\ s.bar = r.bar
    BY <1>1 DEF Requested, RowOK, Row
  <2> QED
    BY <2>1 DEF AsRequest, WantedOf, GrantOf, Pending, Claimed
<1>2. CASE Migrated(r, s)
  <2>1. /\ s.at = r.at /\ r.at # 0 /\ s.want \in Targets
        /\ s.act = r.act /\ s.token = r.token /\ s.bar = r.bar
    BY <1>2 DEF Migrated, Pending
  <2> QED
    BY <2>1 DEF AsRequest, WantedOf, GrantOf, Pending, Claimed
<1>3. CASE Granted(r, s)
  <2>1. /\ s.at = 0 /\ s.bar = r.bar /\ ~r.bar
        /\ s.act = NextTarget(r) /\ s.token = now'
        /\ Pending(r) \/ Claimed(r)
    BY <1>3 DEF Granted, Claimable, NoPending, RowOK, Row
  <2>3. now' \in Stamps /\ now' # 0
    BY <1>3, BoundAssumption DEF Granted, Stamps
  <2>2. NextTarget(r) = WantedOf(r) /\ WantedOf(r) # None
    BY <2>1, Seen, NoneAssumption DEF NextTarget, WantedOf
  <2> QED
    BY <2>1, <2>2, <2>3 DEF AsGrant, WantedOf, GrantOf, Pending, Claimed
<1>4. CASE Renewed(r, s) \/ Expired(r, s)
  <2>1. /\ s.at = r.at /\ s.want = r.want
        /\ s.act = r.act /\ s.token = r.token /\ s.bar = r.bar
    BY <1>4 DEF Renewed, Expired, RowOK, Row
  <2> QED
    BY <2>1 DEF AsStutter, WantedOf, GrantOf, Pending, Claimed
<1>5. CASE Barred(r, s)
  <2>1. /\ s.at = r.at /\ s.want = r.want /\ Claimed(r)
        /\ s.act = r.act /\ s.token = r.token /\ s.bar = TRUE
    BY <1>5 DEF Barred, RowOK, Row
  <2> QED
    BY <2>1, Seen DEF AsBar, WantedOf, GrantOf, Pending, Claimed
<1>6. CASE Ended(r, s)
  <2>1. /\ s.at = r.at /\ s.want = r.want /\ Claimed(r) /\ ~r.bar
        /\ s.act = None /\ s.token = 0 /\ s.bar = r.bar
    BY <1>6, ReleasedFields DEF Ended, RowOK
  <2> QED
    BY <2>1, Seen DEF AsReturn, AsFinish, WantedOf, GrantOf, Pending, Claimed
<1>7. CASE Withdrawn(r, s)
  <2>1. /\ s.at = 0 /\ ~r.bar
        /\ s.act = r.act /\ s.token = r.token /\ s.bar = r.bar
    BY <1>7, ReleasedFields DEF Withdrawn, RowOK
  <2> QED
    BY <2>1, Seen DEF AsWithdraw, WantedOf, GrantOf, Pending, Claimed
<1>8. CASE Returned(r, s) \/ Retried(r, s)
  <2>1. ASSUME Returned(r, s)
        PROVE  /\ Claimed(r) /\ ~r.bar
               /\ s.token = 0 /\ s.bar = r.bar /\ Pending(s)
    BY <2>1, ReclaimedFields DEF Returned, Pending, RowOK
  <2>2. ASSUME Retried(r, s)
        PROVE  /\ Claimed(r) /\ ~r.bar
               /\ s.token = 0 /\ s.bar = r.bar /\ Pending(s)
    <3>1. now # 0
      BY <2>2 DEF Retried, Claimed
    <3> QED
      BY <2>2, <3>1 DEF Retried, Pending, NoClaim, RowOK, Row
  <2>3. s.want = WantedOf(r)
    BY <1>8, <2>1, <2>2, KeptWants DEF Kept
  <2> QED
    BY <1>8, <2>1, <2>2, <2>3, Seen DEF AsReturn, WantedOf, GrantOf, Claimed
<1>9. CASE Cleared(r, s)
  <2> DEFINE w == Reclaimed(r, now')
  <2>1. w \in Row /\ w.token = 0 /\ w.at # 0 /\ r.bar /\ Claimed(r)
    BY <1>9, ReclaimedFields, ReleasedTyped
       DEF Cleared, RowOK, Pending, Claimed
  <2>2. s = [w EXCEPT !.bar = FALSE]
    BY <1>9 DEF Cleared
  <2> HIDE DEF w
  <2>3. s.token = 0 /\ s.at # 0 /\ s.bar = FALSE
    BY <2>1, <2>2 DEF Row
  <2>4. s.want = WantedOf(r)
    BY <1>9, <2>3, KeptWants DEF Kept, Pending
  <2>5. WantedOf(r) # None
    BY <2>1, Seen, NoneAssumption
  <2> QED
    BY <2>1, <2>3, <2>4, <2>5 DEF AsUnbar, WantedOf, GrantOf, Pending, Claimed
<1> QED
  BY <1>1, <1>2, <1>3, <1>4, <1>5, <1>6, <1>7, <1>8, <1>9 DEF Change, Kept

\* The abstract variables of WQ.
wants == [k \in Keys |-> Wanted(k)]

grants == [k \in Keys |-> IF ~Claimed(row[k]) THEN None
                          ELSE [token |-> row[k].token, target |-> row[k].act]]

bars == [k \in Keys |-> row[k].bar]

\* The abstract state, row by row, before and after a step.
LEMMA Mapped ==
  /\ wants = [k \in Keys |-> WantedOf(row[k])]
  /\ wants' = [k \in Keys |-> WantedOf(row'[k])]
  /\ grants = [k \in Keys |-> GrantOf(row[k])]
  /\ grants' = [k \in Keys |-> GrantOf(row'[k])]
  /\ bars' = [k \in Keys |-> row'[k].bar]
BY DEF wants, grants, bars, Wanted, WantedOf, GrantOf, Claimed, Pending

\* A step that writes one row changes the abstract state of one key.
LEMMA OneRow ==
  ASSUME NEW j \in Keys, IInv, row' = [row EXCEPT ![j] = row'[j]]
  PROVE  /\ wants' = [wants EXCEPT ![j] = WantedOf(row'[j])]
         /\ grants' = [grants EXCEPT ![j] = GrantOf(row'[j])]
         /\ bars' = [bars EXCEPT ![j] = row'[j].bar]
BY Mapped DEF bars, IInv, TypeOK

\* A step that writes one row is a step of the port on its key.
LEMMA WriteMaps ==
  ASSUME IInv, [Next]_vars, NEW j \in Keys, Writes(j)
  PROVE  [WQ!WQNext]_(WQ!wqVars)
<1> DEFINE r == row[j]
           s == row'[j]
<1>1. RowOK(r) /\ RowOK(s)
  BY RowNext DEF RowOK, IInv, TypeOK
<1>2. /\ wants' = [wants EXCEPT ![j] = WantedOf(s)]
      /\ grants' = [grants EXCEPT ![j] = GrantOf(s)]
      /\ bars' = [bars EXCEPT ![j] = s.bar]
      /\ wants[j] = WantedOf(r) /\ grants[j] = GrantOf(r) /\ bars[j] = r.bar
  BY OneRow, Mapped DEF bars, Writes
<1>3. \/ AsRequest(r, s) \/ AsGrant(r, s) \/ AsStutter(r, s)
      \/ AsReturn(r, s) \/ AsFinish(r, s) \/ AsWithdraw(r, s)
      \/ AsBar(r, s) \/ AsUnbar(r, s)
  <2>1. r.token \in 0 .. now /\ now \in 0 .. MaxNow
    BY <1>1 DEF RowOK, Row, IInv, TypeOK, ViewInv
  <2> QED
    BY <1>1, <2>1, NowSteps, Effects DEF Writes
<1>4. /\ wants' = [wants EXCEPT ![j] = wants[j]] <=> wants' = wants
      /\ grants' = [grants EXCEPT ![j] = grants[j]] <=> grants' = grants
      /\ bars' = [bars EXCEPT ![j] = bars[j]] <=> bars' = bars
  BY DEF wants, grants, bars
<1> HIDE DEF r, s
<1> USE DEF wants, grants, bars
<1>5. CASE AsRequest(r, s)
  <2>1. WQ!Request(j, WantedOf(s)) /\ WantedOf(s) \in Targets
    BY <1>2, <1>4, <1>5 DEF AsRequest, WQ!Request
  <2> QED
    BY <2>1 DEF WQ!WQNext
<1>6. CASE AsGrant(r, s)
  <2>1. PICK c \in Stamps : GrantOf(s) = [token |-> c, target |-> WantedOf(r)]
    BY <1>6 DEF AsGrant
  <2>2. WQ!Grant(j, c) \/ WQ!TakeOver(j, c)
    BY <1>2, <1>4, <1>6, <2>1 DEF AsGrant, WQ!Grant, WQ!TakeOver
  <2> QED
    BY <2>2 DEF WQ!WQNext
<1>7. CASE AsStutter(r, s)
  BY <1>2, <1>4, <1>7 DEF AsStutter, WQ!wqVars
<1>8. CASE AsReturn(r, s)
  <2>1. WQ!Return(j)
    BY <1>2, <1>4, <1>8 DEF AsReturn, WQ!Return
  <2> QED
    BY <2>1 DEF WQ!WQNext
<1>9. CASE AsFinish(r, s)
  <2>1. WQ!Finish(j)
    BY <1>2, <1>4, <1>9 DEF AsFinish, WQ!Finish
  <2> QED
    BY <2>1 DEF WQ!WQNext
<1>10. CASE AsWithdraw(r, s)
  <2>1. WQ!Withdraw(j)
    BY <1>2, <1>4, <1>10 DEF AsWithdraw, WQ!Withdraw, WQ!GrantedTarget
  <2> QED
    BY <2>1 DEF WQ!WQNext
<1>11. CASE AsBar(r, s)
  <2>1. WQ!Bar(j)
    BY <1>2, <1>4, <1>11 DEF AsBar, WQ!Bar
  <2> QED
    BY <2>1 DEF WQ!WQNext
<1>12. CASE AsUnbar(r, s)
  <2>1. WQ!Unbar(j)
    BY <1>2, <1>4, <1>12 DEF AsUnbar, WQ!Unbar
  <2> QED
    BY <2>1 DEF WQ!WQNext
<1> QED
  BY <1>3, <1>5, <1>6, <1>7, <1>8, <1>9, <1>10, <1>11, <1>12

\* The reclaim of an owner's rows is one step of the port on all of them.
LEMMA ReclaimMaps ==
  ASSUME IInv, [Next]_vars, NEW p \in Procs, ReclaimStaleOwn(p)
  PROVE  WQ!WQNext
<1>1. PICK mine \in SUBSET Keys :
            mine = {k \in Keys : Claimed(row[k]) /\ ~row[k].bar
                                 /\ row[k].owner = OwnerOf[p]}
  OBVIOUS
<1>2. ASSUME NEW k \in Keys
      PROVE  /\ WantedOf(row'[k]) = WantedOf(row[k])
             /\ row'[k].bar = row[k].bar
             /\ GrantOf(row'[k]) = IF k \in mine THEN None ELSE GrantOf(row[k])
             /\ k \in mine => ~row[k].bar /\ GrantOf(row[k]) # None
  <2>1. CASE k \in mine
    <3>1. Returned(row[k], row'[k])
      BY <1>1, <2>1 DEF ReclaimStaleOwn, Tick, Returned
    <3>2. RowOK(row[k]) /\ RowOK(row'[k])
      BY RowNext DEF RowOK, IInv, TypeOK
    <3>3. Claimed(row[k]) /\ ~row[k].bar /\ row'[k].token = 0
          /\ row'[k].bar = row[k].bar /\ Pending(row'[k])
      BY <3>1, <3>2, NowSteps, ReclaimedFields DEF Returned, Pending, RowOK
    <3>4. row'[k].want = WantedOf(row[k])
      BY <3>1, <3>2, <3>3, NowSteps, KeptWants DEF Kept, IInv, TypeOK
    <3> QED
      BY <2>1, <3>2, <3>3, <3>4, Seen DEF WantedOf, GrantOf, Claimed
  <2>2. CASE k \notin mine
    <3>1. row'[k] = row[k]
      BY <1>1, <2>2 DEF ReclaimStaleOwn
    <3> QED
      BY <2>2, <3>1
  <2> QED
    BY <2>1, <2>2
<1>3. /\ wants' = wants /\ bars' = bars
      /\ grants' = [k \in Keys |-> IF k \in mine THEN None ELSE grants[k]]
      /\ \A k \in mine : ~bars[k] /\ grants[k] # None
  BY <1>2, Mapped DEF bars
<1>4. WQ!ReturnAll(mine)
  BY <1>3 DEF wants, grants, bars, WQ!ReturnAll
<1> QED
  BY <1>4 DEF WQ!WQNext

\* Every behaviour of the table is a behaviour of the queue port.
THEOREM Refinement == Spec => ImplementsWorkQueue
<1>1. ASSUME Init
      PROVE  WQ!WQInit
  BY <1>1 DEF Init, NoRow, Wanted, Pending, Claimed, WQ!WQInit
<1>2. ASSUME IInv, [Next]_vars
      PROVE  [WQ!WQNext]_(WQ!wqVars)
  <2>1. CASE row' = row
    <3>1. wants' = wants /\ grants' = grants /\ bars' = bars
      BY <2>1, Mapped DEF bars
    <3> QED
      BY <3>1 DEF wants, grants, bars, WQ!wqVars
  <2> QED
    BY <1>2, <2>1, RowSteps, WriteMaps, ReclaimMaps
<1>3. IInv /\ [Next]_vars => [WQ!WQNext]_(WQ!wqVars)
  BY <1>2
<1> QED
  BY <1>1, <1>3, Invariance, PTL DEF Spec, ImplementsWorkQueue, WQ!WQSpec

-----------------------------------------------------------------------------
(***************************************************************************)
(* The lock of a queue key.  Both theorems rest on owner.json being        *)
(* readable when it is there; the model's ReadsFail lifts that.            *)
(***************************************************************************)
KeyAssumptions ==
    /\ Key!NoneAssumption /\ Key!PidAssumption /\ Key!SwitchAssumption
    /\ ~ReadsFail

\* The initial state satisfies the inductive invariant.
LEMMA KeyInit == KeyAssumptions /\ Key!Init => Key!IInv
<1> SUFFICES ASSUME KeyAssumptions, Key!Init
             PROVE  Key!IInv
  OBVIOUS
<1> USE DEF KeyAssumptions, Key!NoneAssumption, Key!PidAssumption,
            Key!SwitchAssumption, Key!Init
<1>1. Key!TypeOK
  <2>1. keyFaults \in 0 .. MaxFaults
    OBVIOUS
  <2>2. dir \in BOOLEAN /\ aged \in BOOLEAN
    OBVIOUS
  <2> QED
    BY <2>1, <2>2 DEF Key!TypeOK, Key!Labels
<1>2. Key!GateInv
  BY DEF Key!GateInv, Key!UnderGate
<1>3. Key!InsideInv
  BY DEF Key!InsideInv
<1> QED
  BY <1>1, <1>2, <1>3 DEF Key!IInv

\* Every step keeps the types.
LEMMA KeyTypeNext ==
  KeyAssumptions /\ Key!IInv /\ [Key!Next]_(Key!vars) => Key!TypeOK'
<1> SUFFICES ASSUME KeyAssumptions, Key!IInv, [Key!Next]_(Key!vars)
             PROVE  Key!TypeOK'
  OBVIOUS
<1> USE DEF KeyAssumptions, Key!NoneAssumption, Key!PidAssumption,
            Key!SwitchAssumption, Key!IInv, Key!TypeOK, Key!Labels, Key!Goto,
            Key!At, Key!Fault, Key!LeaveGate
<1>1. ASSUME NEW t \in Threads, Key!Step(t)
      PROVE  Key!TypeOK'
  <2>1. CASE Key!Ask(t) \/ Key!Mkdir(t) \/ Key!Write(t) \/ Key!Inspect(t)
    BY <2>1 DEF Key!Ask, Key!Mkdir, Key!Write, Key!Payload, Key!Inspect
  <2>2. CASE Key!Leave(t) \/ Key!CheckRelease(t)
    BY <2>2 DEF Key!Leave, Key!CheckRelease
  <2>3. CASE Key!ClearInfo(t)
    BY <2>3 DEF Key!ClearInfo, Key!NextOf
  <2>4. CASE Key!ClearDir(t)
    BY <2>4 DEF Key!ClearDir, Key!AfterClear
  <2> QED
    BY <1>1, <2>1, <2>2, <2>3, <2>4 DEF Key!Step
<1>2. ASSUME NEW t \in Threads, Key!Enter(t) \/ Key!Fails(t)
      PROVE  Key!TypeOK'
  BY <1>2 DEF Key!Enter, Key!TakeGate, Key!Fails, Key!GiveUp, Key!WriteFails,
              Key!ReleaseTimesOut, Key!ClearFails, Key!AfterClear
<1>3. ASSUME NEW p \in Pids, Key!Crash(p) \/ Key!Reborn(p)
      PROVE  Key!TypeOK'
  BY <1>3 DEF Key!Crash, Key!Reborn
<1>4. CASE Key!Age \/ UNCHANGED Key!vars
  BY <1>4 DEF Key!Age, Key!vars
<1> QED
  BY <1>1, <1>2, <1>3, <1>4 DEF Key!Next

\* Every step leaves at most one thread under the gate.
LEMMA KeyGateNext ==
  KeyAssumptions /\ Key!IInv /\ [Key!Next]_(Key!vars) => Key!GateInv'
<1> SUFFICES ASSUME KeyAssumptions, Key!IInv, [Key!Next]_(Key!vars)
             PROVE  Key!GateInv'
  OBVIOUS
<1> USE DEF KeyAssumptions, Key!NoneAssumption, Key!PidAssumption,
            Key!SwitchAssumption, Key!IInv, Key!TypeOK, Key!GateInv,
            Key!UnderGate, Key!Goto, Key!At, Key!Fault, Key!LeaveGate
<1>1. ASSUME NEW t \in Threads, Key!Step(t)
      PROVE  Key!GateInv'
  <2>1. CASE Key!Ask(t) \/ Key!Mkdir(t) \/ Key!Write(t) \/ Key!Inspect(t)
    BY <2>1 DEF Key!Ask, Key!Mkdir, Key!Write, Key!Inspect
  <2>2. CASE Key!Leave(t) \/ Key!CheckRelease(t)
    BY <2>2 DEF Key!Leave, Key!CheckRelease
  <2>3. CASE Key!ClearInfo(t)
    BY <2>3 DEF Key!ClearInfo, Key!NextOf
  <2>4. CASE Key!ClearDir(t)
    BY <2>4 DEF Key!ClearDir, Key!AfterClear
  <2> QED
    BY <1>1, <2>1, <2>2, <2>3, <2>4 DEF Key!Step
<1>2. ASSUME NEW t \in Threads, Key!Enter(t) \/ Key!Fails(t)
      PROVE  Key!GateInv'
  BY <1>2 DEF Key!Enter, Key!TakeGate, Key!Fails, Key!GiveUp, Key!WriteFails,
              Key!ReleaseTimesOut, Key!ClearFails, Key!AfterClear
<1>3. ASSUME NEW p \in Pids, Key!Crash(p) \/ Key!Reborn(p)
      PROVE  Key!GateInv'
  BY <1>3 DEF Key!Crash, Key!Reborn
<1>4. CASE Key!Age \/ UNCHANGED Key!vars
  BY <1>4 DEF Key!Age, Key!vars
<1> QED
  BY <1>1, <1>2, <1>3, <1>4 DEF Key!Next

\* Whoever changes directory or payload holds the gate, and nobody else is
\* between two of its file operations then.
LEMMA KeyInsideNext ==
  KeyAssumptions /\ Key!IInv /\ [Key!Next]_(Key!vars) => Key!InsideInv'
<1> SUFFICES ASSUME KeyAssumptions, Key!IInv, [Key!Next]_(Key!vars)
             PROVE  Key!InsideInv'
  OBVIOUS
<1> USE DEF KeyAssumptions, Key!NoneAssumption, Key!PidAssumption,
            Key!SwitchAssumption, Key!IInv, Key!TypeOK, Key!GateInv,
            Key!InsideInv, Key!UnderGate, Key!Goto, Key!At, Key!Fault,
            Key!LeaveGate
<1>1. ASSUME NEW t \in Threads, Key!Step(t)
      PROVE  Key!InsideInv'
  <2>1. CASE Key!Ask(t)
    BY <2>1 DEF Key!Ask
  <2>2. CASE Key!Mkdir(t)
    BY <2>2 DEF Key!Mkdir
  <2>3. CASE Key!Write(t)
    BY <2>3 DEF Key!Write, Key!Payload
  <2>4. CASE Key!Inspect(t)
    <3>1. CASE Key!Stale(info)
      <4>1. keyPc' = [keyPc EXCEPT ![t] = IF info = None THEN "break_dir"
                                    ELSE "break_info"]
        BY <2>4, <3>1 DEF Key!Inspect, Key!Reads
      <4>2. info # None => PidOf[info] \notin alive /\ keyPc[info] = "dead"
        BY <3>1 DEF Key!Stale
      <4> QED
        BY <2>4, <4>1, <4>2 DEF Key!Inspect
    <3>2. CASE ~Key!Stale(info)
      BY <2>4, <3>2 DEF Key!Inspect, Key!Reads
    <3> QED
      BY <3>1, <3>2
  <2>5. CASE Key!Leave(t) \/ Key!CheckRelease(t)
    BY <2>5 DEF Key!Leave, Key!CheckRelease, Key!Reads
  <2>6. CASE Key!ClearInfo(t)
    BY <2>6 DEF Key!ClearInfo, Key!NextOf
  <2>7. CASE Key!ClearDir(t)
    BY <2>7 DEF Key!ClearDir, Key!AfterClear
  <2> QED
    BY <1>1, <2>1, <2>2, <2>3, <2>4, <2>5, <2>6, <2>7 DEF Key!Step
<1>2. ASSUME NEW t \in Threads, Key!Enter(t) \/ Key!Fails(t)
      PROVE  Key!InsideInv'
  BY <1>2 DEF Key!Enter, Key!TakeGate, Key!Fails, Key!GiveUp, Key!WriteFails,
              Key!ReleaseTimesOut, Key!ClearFails, Key!AfterClear
<1>3. ASSUME NEW p \in Pids, Key!Crash(p) \/ Key!Reborn(p)
      PROVE  Key!InsideInv'
  BY <1>3 DEF Key!Crash, Key!Reborn
<1>4. CASE Key!Age \/ UNCHANGED Key!vars
  BY <1>4 DEF Key!Age, Key!vars
<1> QED
  BY <1>1, <1>2, <1>3, <1>4 DEF Key!Next

\* The gate serialises the file operations, and the payload names whoever is
\* inside, through every crash and failing operation.
THEOREM KeyLockInvariance ==
  ASSUME KeyAssumptions
  PROVE  Key!Spec => []Key!IInv
<1>1. Key!Init => Key!IInv
  BY KeyInit
<1>2. Key!IInv /\ [Key!Next]_(Key!vars) => Key!IInv'
  BY KeyTypeNext, KeyGateNext, KeyInsideNext DEF Key!IInv
<1> QED
  BY <1>1, <1>2, PTL DEF Key!Spec

\* No two callers of key_lock are inside its body for one key.
THEOREM Exclusion ==
  ASSUME KeyAssumptions
  PROVE  Key!Spec => []Key!MutualExclusion
<1>1. Key!IInv => Key!MutualExclusion
  BY DEF Key!IInv, Key!InsideInv, Key!MutualExclusion, Key!At
<1> QED
  BY <1>1, KeyLockInvariance, PTL

\* Takeover never breaks the lock of a caller that is still inside.
THEOREM NoLiveTakeover ==
  ASSUME KeyAssumptions
  PROVE  Key!Spec => Key!LiveLockKept
<1>1. ASSUME Key!IInv, [Key!Next]_(Key!vars), NEW t \in Threads,
             keyPc[t] \in {"held", "release", "check"}, info = t, info' # t
      PROVE  FALSE
  <2>1. PICK u \in Threads : \/ Key!Write(u) \/ Key!Mkdir(u)
                             \/ Key!ClearInfo(u) \/ Key!ClearDir(u)
    BY <1>1 DEF Key!Next, Key!Step, Key!Fails, Key!Ask, Key!Inspect, Key!Leave,
                Key!CheckRelease, Key!Enter, Key!GiveUp, Key!WriteFails,
                Key!ReleaseTimesOut, Key!ClearFails, Key!Crash, Key!Reborn,
                Key!Age, Key!vars
  <2>2. u # t /\ gate = u
    BY <1>1, <2>1 DEF Key!IInv, Key!GateInv, Key!UnderGate, Key!Write,
                      Key!Mkdir, Key!ClearInfo, Key!ClearDir, Key!At
  <2> QED
    BY <1>1, <2>1, <2>2 DEF KeyAssumptions, Key!NoneAssumption, Key!IInv,
                            Key!GateInv, Key!InsideInv, Key!UnderGate,
                            Key!Write, Key!Mkdir, Key!ClearInfo, Key!ClearDir,
                            Key!At
<1>2. Key!IInv /\ [Key!Next]_(Key!vars) =>
        [\A t \in Threads :
           keyPc[t] \in {"held", "release", "check"} /\ info = t
             => info' = t]_(Key!vars)
  BY <1>1
<1> QED
  BY <1>2, KeyLockInvariance, PTL DEF Key!Spec, Key!LiveLockKept
=============================================================================

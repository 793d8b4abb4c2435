------------------------------- MODULE PgQueue -------------------------------
(***************************************************************************)
(* The PostgreSQL queue (reindex/pg_queue*.py): one row per key, one        *)
(* transaction per operation.  An operation of one statement is one step.  *)
(* Three hold locks across statements: publication (row lock, manifest     *)
(* write, acknowledgement, commit), retry (a table lock that orders the     *)
(* tail, then the row) and migration (row lock, then its update).           *)
(*                                                                          *)
(* Locks: an UPDATE needs the row and, for its ROW EXCLUSIVE mode, a table   *)
(* that nobody holds in SHARE ROW EXCLUSIVE mode; SELECT FOR UPDATE only     *)
(* needs the row.  What a transaction wrote shows when it commits.          *)
(***************************************************************************)
EXTENDS Naturals

CONSTANTS Keys, Targets, Procs, Owners,
          OwnerOf,      \* [Procs -> Owners], the owner token of each process
          ServerKills,  \* the server may end a session that is idle in its
                        \* transaction while the client writes the manifest
          MaxNow,       \* bound: stamps drawn from clock and random token
          None

ASSUME OwnerAssumption == OwnerOf \in [Procs -> Owners]

ASSUME BoundAssumption == MaxNow \in Nat /\ ServerKills \in BOOLEAN

ASSUME NoneAssumption ==
    /\ None \notin Keys \cup Targets \cup Procs \cup Owners
    /\ None \notin [token : 1 .. MaxNow, target : Targets]

VARIABLES row,        \* the committed row of each key
          rowlock,    \* [Keys -> Procs \cup {None}]
          tail,       \* holder of the table lock of retry, or None
          pc, view,   \* per process: place in a transaction, last row it read
          lost,       \* processes whose transaction the server has ended
          dead,       \* claims whose process is confirmed dead
          published,  \* per key, the last publication in the manifest
          now

locks == <<rowlock, tail>>
vars == <<row, rowlock, tail, pc, view, lost, dead, published, now>>

Stamps == 1 .. MaxNow

\* 0 stands for NULL.  at is pending_enqueued_at, ver pending_token, actAt
\* active_enqueued_at, lease the write that set lease_expires_at; late says
\* that the lease has run out, bar that quarantine_at is set.
Row == [want : Targets \cup {None}, at : 0 .. MaxNow, ver : 0 .. MaxNow,
        act : Targets \cup {None}, actAt : 0 .. MaxNow, token : 0 .. MaxNow,
        owner : Owners \cup {None}, lease : 0 .. MaxNow,
        late : BOOLEAN, bar : BOOLEAN]

NoRow == [want |-> None, at |-> 0, ver |-> 0,
          act |-> None, actAt |-> 0, token |-> 0, owner |-> None, lease |-> 0,
          late |-> FALSE, bar |-> FALSE]

View == [key : Keys, row : Row]

ASSUME NoViewAssumption == None \notin View

Labels == {"idle", "tail", "migrate", "fenced", "superseded", "wrote", "acked"}

Init ==
    /\ row = [k \in Keys |-> NoRow]
    /\ rowlock = [k \in Keys |-> None] /\ tail = None
    /\ pc = [p \in Procs |-> "idle"] /\ view = [p \in Procs |-> None]
    /\ lost = {} /\ dead = {}
    /\ published = [k \in Keys |-> None]
    /\ now = 0

Idle(p) == pc[p] = "idle"
Goto(p, label) == pc' = [pc EXCEPT ![p] = label]
Sees(p) == Idle(p) /\ view[p] # None

Pending(r) == r.at # 0
Claimed(r) == r.token # 0

\* An UPDATE of the row of k by somebody who holds no lock yet.
Update(k, r) ==
    /\ rowlock[k] = None /\ tail = None
    /\ row' = [row EXCEPT ![k] = r]

Tick == now < MaxNow /\ now' = now + 1

Reads(p, k, r) == view' = [view EXCEPT ![p] = [key |-> k, row |-> r]]

NoPending(r) == [r EXCEPT !.want = None, !.at = 0, !.ver = 0]

NoClaim(r) == [r EXCEPT !.act = None, !.actAt = 0, !.token = 0,
                        !.owner = None, !.lease = 0, !.late = FALSE]

-----------------------------------------------------------------------------
(* Requests and claims.                                                    *)

Enqueue(p, k, t) ==
    /\ Idle(p) /\ Tick
    /\ Update(k, [row[k] EXCEPT !.want = t, !.at = now', !.ver = now'])
    /\ UNCHANGED <<locks, pc, view, lost, dead, published>>

\* Mistake: the claim does not look at quarantine_at.
ClaimableBarred(r) ==
    /\ Pending(r) \/ Claimed(r)
    /\ Claimed(r) => r.late

\* claim_sql's candidates: free or expired, never quarantined.
Claimable(r) ==
    /\ ~r.bar
    /\ Pending(r) \/ Claimed(r)
    /\ Claimed(r) => r.late

\* Mistake: no COALESCE, so an expired claim without a request loses its target.
NextTargetPending(r) == r.want

NextTarget(r) == IF Pending(r) THEN r.want ELSE r.act

Claim(p, k) ==
    LET r == row[k]
        c == [NoPending(r) EXCEPT
                 !.act = NextTarget(r), !.actAt = IF Pending(r) THEN r.at ELSE r.actAt,
                 !.token = now', !.owner = OwnerOf[p], !.lease = now', !.late = FALSE]
    IN  /\ Idle(p) /\ Claimable(r) /\ Tick
        /\ Update(k, c) /\ Reads(p, k, c)
        /\ UNCHANGED <<locks, pc, lost, dead, published>>

\* peek, snapshot: committed rows, and no lock that outlives the call.
List(p, k) ==
    /\ Idle(p) /\ row[k] # NoRow /\ Reads(p, k, row[k])
    /\ UNCHANGED <<row, locks, pc, lost, dead, published, now>>

RecoverOwned(p, k) ==
    /\ Claimed(row[k]) /\ row[k].owner = OwnerOf[p] /\ ~row[k].bar
    /\ List(p, k)

LeaseExpires(k) ==
    /\ Claimed(row[k]) /\ ~row[k].late
    /\ row' = [row EXCEPT ![k].late = TRUE]
    /\ UNCHANGED <<locks, pc, view, lost, dead, published, now>>

-----------------------------------------------------------------------------
(* Steps of a claim, in the hands of p as view[p].                         *)

\* Mistake: the claim's statements do not look at quarantine_at.
MatchesBarred(p, r) == r.token = view[p].row.token /\ Claimed(r)

\* claim_token as the caller knows it, and no quarantine.
Matches(p, r) == r.token = view[p].row.token /\ Claimed(r) /\ ~r.bar

Owns(p, r) == Matches(p, r) /\ r.owner = OwnerOf[p]

Renew(p) ==
    LET k == view[p].key IN
    /\ Sees(p) /\ Owns(p, row[k]) /\ Tick
    /\ Update(k, [row[k] EXCEPT !.lease = now', !.late = FALSE])
    /\ UNCHANGED <<locks, pc, view, lost, dead, published>>

\* settle_expired_legacy_active: the listed claim, still expired, not renewed.
Settleable(p, r) == Matches(p, r) /\ r.late /\ r.lease = view[p].row.lease

Reject(p) ==
    LET k == view[p].key IN
    /\ Sees(p)
    /\ Owns(p, row[k]) \/ Settleable(p, row[k])
    /\ Update(k, NoClaim(row[k]))
    /\ UNCHANGED <<locks, pc, view, lost, dead, published, now>>

\* complete, the acknowledgement of legacy workers.
Complete(p) ==
    LET k == view[p].key IN
    /\ Sees(p) /\ Owns(p, row[k])
    /\ Update(k, NoClaim(row[k]))
    /\ UNCHANGED <<locks, pc, view, lost, dead, published, now>>

Discard(p) ==
    LET k == view[p].key IN
    /\ Sees(p) /\ Pending(view[p].row)
    /\ Pending(row[k]) /\ ~row[k].bar /\ row[k].at <= view[p].row.at
    /\ Update(k, NoPending(row[k]))
    /\ UNCHANGED <<locks, pc, view, lost, dead, published, now>>

\* reclaim_owned_sql: all rows of the owner, in one statement.
Reclaimed(r, ver) ==
    IF Pending(r) THEN NoClaim(r)
    ELSE [NoClaim(r) EXCEPT !.want = r.act, !.at = r.actAt, !.ver = ver]

ReclaimStaleOwn(p) ==
    LET mine == {k \in Keys : Claimed(row[k]) /\ ~row[k].bar
                              /\ row[k].owner = OwnerOf[p]} IN
    /\ Idle(p) /\ tail = None /\ mine # {}
    /\ \A k \in mine : rowlock[k] = None
    /\ Tick
    /\ row' = [k \in Keys |-> IF k \in mine THEN Reclaimed(row[k], now') ELSE row[k]]
    /\ UNCHANGED <<locks, pc, view, lost, dead, published>>

Quarantine(p) ==
    LET k == view[p].key IN
    /\ Sees(p) /\ row[k].token = view[p].row.token /\ Claimed(row[k])
    /\ row[k].owner = OwnerOf[p]
    /\ Update(k, [row[k] EXCEPT !.bar = TRUE])
    /\ UNCHANGED <<locks, pc, view, lost, dead, published, now>>

\* The operating system confirms the death of a quarantined process.
ProcessDies(k) ==
    /\ row[k].bar /\ dead' = dead \cup {row[k].token}
    /\ UNCHANGED <<row, locks, pc, view, lost, published, now>>

\* The record names claim, attempt and quarantine time: one per claim token.
SameRecord(p, r) == r.bar /\ r.token = view[p].row.token

ClearQuarantine(p) ==
    LET k == view[p].key IN
    /\ Sees(p) /\ view[p].row.bar /\ view[p].row.token \in dead
    /\ SameRecord(p, row[k]) /\ Tick
    /\ Update(k, [Reclaimed(row[k], now') EXCEPT !.bar = FALSE])
    /\ UNCHANGED <<locks, pc, view, lost, dead, published>>

-----------------------------------------------------------------------------
(* Transactions of several statements.  A stamp is drawn with the lock that *)
(* keeps others from writing the row (or the tail) until it is used.        *)

Unlock(p) ==
    /\ rowlock' = [k \in Keys |-> IF rowlock[k] = p THEN None ELSE rowlock[k]]
    /\ tail' = IF tail = p THEN None ELSE tail

LockRow(p, k) ==
    /\ rowlock[k] = None
    /\ rowlock' = [rowlock EXCEPT ![k] = p]
    /\ UNCHANGED tail

\* retry, release and break_lease: first the table, which waits for every
\* transaction that has written.
TailLock(p) ==
    /\ Sees(p) /\ Claimed(view[p].row)
    /\ tail = None /\ \A q \in Procs : pc[q] # "acked"
    /\ tail' = p /\ Goto(p, "tail") /\ Tick
    /\ UNCHANGED <<row, rowlock, view, lost, dead, published>>

Reentry(r) == IF Pending(r) THEN r.want ELSE r.act

\* break_lease asks for no owner, settlement for an expired lease.
RetryRow(p) ==
    LET k == view[p].key  r == row[k] IN
    /\ pc[p] = "tail" /\ rowlock[k] = None
    /\ IF Matches(p, r)
       THEN row' = [row EXCEPT ![k] = [NoClaim(r) EXCEPT
                       !.want = Reentry(r), !.at = now, !.ver = now]]
       ELSE UNCHANGED row
    /\ Goto(p, "idle") /\ Unlock(p)
    /\ UNCHANGED <<view, lost, dead, published, now>>

BeginMigrate(p) ==
    /\ Sees(p) /\ Pending(view[p].row)
    /\ LockRow(p, view[p].key) /\ Goto(p, "migrate") /\ Tick
    /\ UNCHANGED <<row, view, lost, dead, published>>

MigratePending(p, t) ==
    LET k == view[p].key  r == row[k] IN
    /\ pc[p] = "migrate" /\ tail = None
    /\ IF Pending(r) /\ ~r.bar /\ r.ver = view[p].row.ver
       THEN row' = [row EXCEPT ![k].want = t, ![k].ver = now]
       ELSE UNCHANGED row
    /\ Goto(p, "idle") /\ Unlock(p)
    /\ UNCHANGED <<view, lost, dead, published, now>>

\* Mistake: the publication does not lock the row it reads (no FOR UPDATE).
ReadRow(p, k) == rowlock[k] = None /\ UNCHANGED <<rowlock, tail>>

PublishLock(p, k) == LockRow(p, k)

BeginPublish(p) ==
    LET k == view[p].key  r == row[k] IN
    /\ Sees(p) /\ Owns(p, r) /\ PublishLock(p, k)
    /\ Goto(p, IF Pending(r) /\ r.want # r.act THEN "superseded" ELSE "fenced")
    /\ UNCHANGED <<row, view, lost, dead, published, now>>

\* The caller's manifest write, in the body of begin_publish.
Publish(p) ==
    LET v == view[p] IN
    /\ pc[p] = "fenced" /\ Goto(p, "wrote")
    /\ published' = [published EXCEPT
                        ![v.key] = [token |-> v.row.token, target |-> v.row.act]]
    /\ UNCHANGED <<row, locks, view, lost, dead, now>>

\* publish_ack_sql needs the table in a mode that a retry's lock excludes.
Ack(p) ==
    /\ pc[p] \in {"superseded", "wrote"} /\ p \notin lost
    /\ tail = None /\ Goto(p, "acked")
    /\ UNCHANGED <<row, locks, view, lost, dead, published, now>>

\* A caller of begin_publish that did not acknowledge rolls back.
Commit(p) ==
    LET k == view[p].key IN
    /\ pc[p] = "acked"
    /\ row' = [row EXCEPT ![k] = NoClaim(row[k])]
    /\ Goto(p, "idle") /\ Unlock(p)
    /\ UNCHANGED <<view, lost, dead, published, now>>

-----------------------------------------------------------------------------
(* Ends without a commit.                                                  *)

Rollback(p) ==
    /\ pc[p] # "idle" /\ Goto(p, "idle") /\ Unlock(p)
    /\ lost' = lost \ {p}
    /\ UNCHANGED <<row, view, dead, published, now>>

Blocked(p) ==
    \/ pc[p] = "tail" /\ rowlock[view[p].key] # None
    \/ pc[p] \in {"migrate", "superseded", "wrote"} /\ tail # None
    \/ p \in lost /\ pc[p] # "fenced"

\* Mistake: the transaction sets no lock_timeout.
WaitForEver(p) == FALSE

\* execute_with_budget sets lock_timeout before each statement.
LockTimeout(p) == Blocked(p) /\ Rollback(p)

\* idle_in_transaction_session_timeout, set to 0.9 of the remaining budget: the
\* server ends the transaction and frees its locks; the client is none the
\* wiser until its next statement.
ServerEnds(p) ==
    /\ ServerKills /\ pc[p] \in {"fenced", "superseded", "wrote"} /\ p \notin lost
    /\ lost' = lost \cup {p} /\ Unlock(p)
    /\ UNCHANGED <<row, pc, view, dead, published, now>>

Crash(p) ==
    /\ view[p] # None
    /\ Goto(p, "idle") /\ Unlock(p)
    /\ view' = [view EXCEPT ![p] = None] /\ lost' = lost \ {p}
    /\ UNCHANGED <<row, dead, published, now>>

Statement(p) ==
    \/ \E k \in Keys : \/ \E t \in Targets : Enqueue(p, k, t)
                       \/ Claim(p, k) \/ List(p, k) \/ RecoverOwned(p, k)
    \/ Renew(p) \/ Reject(p) \/ Complete(p) \/ Discard(p) \/ ReclaimStaleOwn(p)
    \/ Quarantine(p) \/ ClearQuarantine(p)
    \/ TailLock(p) \/ BeginMigrate(p) \/ BeginPublish(p)

GoOn(p) ==
    \/ RetryRow(p) \/ Publish(p) \/ Ack(p) \/ Commit(p)
    \/ \E t \in Targets : MigratePending(p, t)

Next ==
    \/ \E p \in Procs : \/ Statement(p) \/ GoOn(p) \/ LockTimeout(p)
                        \/ Rollback(p) \/ ServerEnds(p) \/ Crash(p)
    \/ \E k \in Keys : LeaseExpires(k) \/ ProcessDies(k)

Spec == Init /\ [][Next]_vars

\* The server grants locks first come, first served, so a transaction that can
\* go on time and again does; its waits are bounded by lock_timeout.
Fairness == \A p \in Procs : SF_vars(GoOn(p)) /\ WF_vars(LockTimeout(p))

FairSpec == Spec /\ Fairness

-----------------------------------------------------------------------------
(* Correctness.                                                            *)

\* Rows, locks and views hold values of the schema and the transactions, and
\* the columns of a request and those of a claim come and go together.
TypeOK ==
    /\ row \in [Keys -> Row]
    /\ \A k \in Keys : /\ Pending(row[k]) <=> row[k].want # None
                       /\ Claimed(row[k]) <=> row[k].act # None
                       /\ Claimed(row[k]) <=> row[k].actAt # 0
                       /\ row[k].bar => Claimed(row[k])
    /\ rowlock \in [Keys -> Procs \cup {None}] /\ tail \in Procs \cup {None}
    /\ pc \in [Procs -> Labels] /\ view \in [Procs -> View \cup {None}]
    /\ lost \in SUBSET Procs /\ dead \in SUBSET Stamps
    /\ published \in [Keys -> [token : Stamps, target : Targets] \cup {None}]
    /\ now \in 0 .. MaxNow

Wanted(k) ==
    IF Pending(row[k]) THEN row[k].want
    ELSE IF Claimed(row[k]) THEN row[k].act ELSE None

\* The manifest is written only under a claim that the row still grants, that
\* is not quarantined, and whose target nothing newer has replaced.
FreshPublication ==
    [][\A k \in Keys : published'[k] # published[k] =>
         /\ row[k].token = published'[k].token /\ ~row[k].bar
         /\ Wanted(k) = published'[k].target]_vars

\* A quarantined key keeps its claim, through expiry, takeover, retries and
\* stale publishers, until the death of its process is confirmed.
QuarantineHoldsClaim ==
    [][\A k \in Keys : row[k].bar /\ row[k].token \notin dead =>
         row'[k].bar /\ row'[k].token = row[k].token]_vars

\* Only a request or a migration makes another target pending than the one
\* wanted before: retry, settlement, reclaim and clearing never bring an
\* older version back over a newer one.
NewestRequestWins ==
    [][\A k \in Keys : Pending(row'[k]) /\ row'[k].want # Wanted(k) =>
         \E p \in Procs, t \in Targets : Enqueue(p, k, t) \/ MigratePending(p, t)]_vars

\* Publication and retry take row and table in opposite orders; still every
\* transaction ends.
TransactionsEnd == \A p \in Procs : pc[p] # "idle" ~> pc[p] = "idle"

\* The table keeps the promises of the queue port.
WQ == INSTANCE WorkQueue WITH
    Tokens <- Stamps,
    want   <- [k \in Keys |-> Wanted(k)],
    grant  <- [k \in Keys |-> IF ~Claimed(row[k]) THEN None
                              ELSE [token  |-> row[k].token,
                                    target |-> row[k].act]],
    barred <- [k \in Keys |-> row[k].bar]

ImplementsWorkQueue == WQ!WQSpec

-----------------------------------------------------------------------------
(* The inductive invariant that these rest on.                             *)

\* A transaction that the server has not ended has the row of its view to
\* itself.
HoldsRow(p) ==
    \/ pc[p] \in {"migrate", "acked"}
    \/ pc[p] \in {"fenced", "superseded", "wrote"} /\ p \notin lost

LockInv ==
    /\ \A p \in Procs : /\ pc[p] # "idle" => view[p] # None
                        /\ HoldsRow(p) => rowlock[view[p].key] = p
    /\ ~ServerKills => lost = {}

\* A claim token is drawn once: a row that still shows the token a process has
\* read shows the target it has read, too.
ViewInv ==
    /\ \A k \in Keys : row[k].token <= now
    /\ \A p \in Procs : view[p] # None =>
          LET r == row[view[p].key]  v == view[p].row IN
          /\ v.token <= now /\ (Claimed(v) <=> v.act # None)
          /\ Claimed(v) /\ r.token = v.token => r.act = v.act

\* From begin_publish to its commit the claim stands, and until the manifest
\* is written nothing newer is wanted.
PublishInv ==
    \A p \in Procs : pc[p] \in {"fenced", "superseded", "wrote", "acked"} =>
        LET r == row[view[p].key] IN
        /\ Claimed(view[p].row)
        /\ HoldsRow(p) => Matches(p, r)
        /\ HoldsRow(p) /\ pc[p] = "fenced" /\ Pending(r) => r.want = r.act

IInv == TypeOK /\ LockInv /\ ViewInv /\ PublishInv
=============================================================================

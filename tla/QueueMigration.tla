--------------------------- MODULE QueueMigration ---------------------------
(***************************************************************************)
(* The move of a queue from the old worker to the isolated one             *)
(* (ops/reindex_migration, reindex/queue_migration, file_queue_migration,  *)
(* pg_queue_migration, ops/reindex_admin, recovery_audit): requests for    *)
(* HEAD get a commit from the operator's mapping, expired claims of old    *)
(* workers are retried or rejected, the owner of the queue is created, and *)
(* the isolated worker starts behind its audits.  Producers, and old       *)
(* workers on other hosts, change the queue at any moment.                 *)
(*                                                                         *)
(* A version, a claim token or a lease read from the queue is compared     *)
(* with the present one: `seen' holds what was read and is unchanged.      *)
(***************************************************************************)
EXTENDS Naturals, FiniteSets

CONSTANTS Keys,
          Held,      \* the keys that old workers may hold at first
          Strangers, \* old workers that this host knows nothing of
          MaxReq,    \* bound: requests for one key
          MaxClaims, \* bound: claims and renewals
          MaxFaults, \* bound: deaths, failed and busy calls
          None

MigrationAssumption ==
    /\ Held \subseteq Keys /\ Strangers \in BOOLEAN
    /\ MaxReq \in Nat /\ MaxClaims \in Nat /\ MaxFaults \in Nat

VARIABLES
    pending, active, \* [key -> job or None]
    newest,  \* [key -> number of the last request]
    ended,   \* [key -> the last request that was served or refused]
    owner,   \* the durable owner of the queue: "mine" or None
    worker,  \* the isolated worker: "off", "up", or "drains"
    mapping, \* the keys of the operator's mapping file
    seen,    \* what was read of the queue and did not change since
    pc, todo, failed, \* the command under way
    snap,    \* its last snapshot
    report,  \* history: "due" while only the command wrote since its last snapshot
             \* began, "complete" when it then reported so, or "none"
    claims, faults

queue == <<pending, active, newest, ended>>
admin == <<mapping, pc, todo, failed, snap>>
bounds == <<claims, faults>>
vars == <<queue, owner, worker, seen, report, admin, bounds>>

Targets == {"HEAD", "commit"}
Requests == [target : Targets, req : 1 .. MaxReq]
Claims == [target : Targets, req : 1 .. MaxReq, lease : {"live", "expired"},
           owner : {"none", "other", "mine"}, token : BOOLEAN]

NoneAssumption == None \notin Requests \cup Claims \cup {"none", "other", "mine"}

NoSnap == [pending |-> [k \in Keys |-> None], active |-> [k \in Keys |-> None]]

\* Owners came before claim tokens did: who has one has the other.
Init ==
    /\ newest = [k \in Keys |-> 1] /\ ended = [k \in Keys |-> 0]
    /\ pending \in [Keys -> {None} \cup {r \in Requests : r.req = 1}]
    /\ active \in [Keys -> {None} \cup
            {c \in Claims : c.req = 1 /\ c.owner # "mine" /\ (c.owner = "other" => c.token)}]
    /\ \A k \in Keys : (pending[k] = None) # (active[k] = None)
    /\ \A k \in Keys \ Held : active[k] = None
    /\ owner \in {None, "mine"} /\ worker = "off"
    /\ mapping = {} /\ seen = {} /\ pc = "idle" /\ todo = {} /\ failed = FALSE
    /\ snap = NoSnap /\ report = "none" /\ claims = 0 /\ faults = 0

Fault == faults < MaxFaults /\ faults' = faults + 1

Of(k, phases) == {k} \X phases

-----------------------------------------------------------------------------
(* Producers and workers.                                                  *)

\* A hook, new or old, replaces the pending request.
Enqueue(k, t) ==
    /\ newest[k] < MaxReq /\ newest' = [newest EXCEPT ![k] = @ + 1]
    /\ pending' = [pending EXCEPT ![k] = [target |-> t, req |-> newest[k] + 1]]
    /\ seen' = seen \ Of(k, {"map", "pending"}) /\ report' = "none"
    /\ UNCHANGED <<active, ended, owner, worker, admin, bounds>>

Expire(k) ==
    /\ active[k] # None /\ active' = [active EXCEPT ![k].lease = "expired"]
    /\ UNCHANGED <<pending, newest, ended, owner, worker, seen, report, admin, bounds>>

Claim(k, who) ==
    /\ pending[k] # None /\ active[k] = None
    /\ claims < MaxClaims /\ claims' = claims + 1
    /\ active' = [active EXCEPT ![k] = [target |-> pending[k].target, req |-> pending[k].req,
                                        lease |-> "live", owner |-> who, token |-> TRUE]]
    /\ pending' = [pending EXCEPT ![k] = None]
    /\ seen' = seen \ Of(k, {"map", "pending", "active"}) /\ report' = "none"
    /\ UNCHANGED <<newest, ended, owner, admin, faults>>

Drop(k) ==
    /\ active' = [active EXCEPT ![k] = None]
    /\ ended' = [ended EXCEPT ![k] = active[k].req]
    /\ seen' = seen \ Of(k, {"active"})

Old(k) == Strangers /\ active[k] # None /\ active[k].owner # "mine"

StrangerClaims(k) ==
    \E who \in {"none", "other"} : Strangers /\ Claim(k, who) /\ UNCHANGED worker

StrangerRenews(k) ==
    /\ Old(k) /\ active' = [active EXCEPT ![k].lease = "live"]
    /\ claims < MaxClaims /\ claims' = claims + 1
    /\ seen' = seen \ Of(k, {"active"}) /\ report' = "none"
    /\ UNCHANGED <<pending, newest, ended, owner, worker, admin, faults>>

StrangerEnds(k) ==
    /\ Old(k) /\ Drop(k) /\ report' = "none"
    /\ UNCHANGED <<pending, newest, owner, worker, admin, bounds>>

\* The request goes back; a newer one that waits stays.
WriteBack(k) ==
    pending' = IF pending[k] # None THEN pending
               ELSE [pending EXCEPT ![k] = [target |-> active[k].target, req |-> active[k].req]]

Back(k) ==
    /\ WriteBack(k) /\ active' = [active EXCEPT ![k] = None]
    /\ seen' = seen \ Of(k, {"map", "pending", "active"})

OwnerOf(k) == IF active[k] = None THEN None ELSE active[k].owner

\* verify_startup_owner, under the run lock.
StartWorker ==
    /\ worker = "off" /\ pc = "idle" /\ owner # None
    /\ \A k \in Keys : OwnerOf(k) \in {None, owner}
    /\ worker' = "up"
    /\ UNCHANGED <<queue, owner, seen, report, admin, bounds>>

\* What an earlier worker of this owner had claimed is released.
Recover(k) ==
    /\ worker = "up" /\ active[k] # None /\ active[k].owner = owner
    /\ Back(k) /\ report' = "none"
    /\ UNCHANGED <<newest, ended, owner, worker, admin, bounds>>

-----------------------------------------------------------------------------
(* What is legacy, and what may be done with it.                           *)

BadTarget(j) == j.target = "HEAD"

\* _owner_reason: without a stable owner, each is doubtful.
BadOwner(j) == owner = None \/ j.owner # owner

LegacyPending(p) == {k \in Keys : p[k] # None /\ BadTarget(p[k])}
LegacyActive(a) == {k \in Keys : a[k] # None /\ (BadTarget(a[k]) \/ BadOwner(a[k]))}

\* _active_plan; the command line passes bootstrap when there is no owner.
Plan(j) ==
    IF j.owner # "none" THEN (IF BadTarget(j) THEN "reject" ELSE "retry")
    ELSE IF BadTarget(j) /\ j.token THEN "reject" ELSE "manual"

\* drain_once audits the queue before each round.
Audit ==
    /\ worker = "up" /\ \A k \in Keys : OwnerOf(k) # owner
    /\ worker' = IF LegacyPending(pending) = {} /\ LegacyActive(active) = {}
                 THEN "drains" ELSE "off"
    /\ UNCHANGED <<queue, owner, seen, report, admin, bounds>>

WorkerClaims(k) == worker = "drains" /\ Claim(k, owner) /\ worker' = "busy"

\* It is executed, or rejected for its target: the request has ended.
WorkerEnds(k) ==
    /\ worker = "busy" /\ active[k] # None /\ active[k].owner = owner
    /\ Drop(k) /\ worker' = "up" /\ report' = "none"
    /\ UNCHANGED <<pending, newest, owner, admin, bounds>>

WorkerStops ==
    /\ worker # "off" /\ worker' = "off"
    /\ UNCHANGED <<queue, owner, seen, report, admin, bounds>>

-----------------------------------------------------------------------------
(* The operator's commands.                                                *)

\* The dry run prints a mapping to be filled in.
DryRun ==
    /\ pc = "idle" /\ mapping' = LegacyPending(pending) /\ seen' = mapping' \X {"map"}
    /\ UNCHANGED <<queue, owner, worker, pc, todo, failed, snap, report, bounds>>

\* run_confirmed_maintenance_action: the worker has stopped, the run lock is taken.
Enter(command) ==
    /\ pc = "idle" /\ worker = "off" /\ pc' = command /\ report' = "none"
    /\ UNCHANGED <<queue, owner, worker, mapping, todo, failed, seen, snap, bounds>>

Leave ==
    /\ pc' = "idle" /\ todo' = {} /\ failed' = FALSE /\ snap' = NoSnap
    /\ UNCHANGED <<newest, worker, mapping, claims>>

Forget == seen' = {s \in seen : s[2] = "map"}

Kept == UNCHANGED <<queue, owner, worker, mapping, report, bounds>>

\* A snapshot of the file queue reads the requests, then the claims.
ReadPending(from, to) ==
    /\ pc = from /\ pc' = to
    /\ report' = IF from = "last" THEN "due" ELSE report
    /\ snap' = [snap EXCEPT !.pending = pending]
    /\ seen' = seen \cup (Keys \X {"pending"})
    /\ UNCHANGED <<queue, owner, worker, mapping, todo, failed, bounds>>

ReadActive(from, to) ==
    /\ pc = from /\ pc' = to
    /\ snap' = [snap EXCEPT !.active = active]
    /\ seen' = seen \cup (Keys \X {"active"})
    /\ Kept /\ UNCHANGED <<todo, failed>>

Snapshots ==
    \E of \in {<<"init", "init2", "create">>, <<"migrate", "migrate2", "plan">>,
               <<"again", "again2", "choose">>, <<"last", "last2", "report">>} :
        ReadPending(of[1], of[2]) \/ ReadActive(of[2], of[3])

\* initialize_queue_owner: only where nothing is left to recover.
Create ==
    /\ pc = "create" /\ Leave /\ Forget
    /\ owner' = IF \A k \in Keys : snap.active[k] = None THEN "mine" ELSE owner
    /\ UNCHANGED <<pending, active, ended, report, faults>>

\* The mapping fits the snapshot, one to one and in each version, and no legacy
\* claim is alive.
Planned ==
    /\ mapping = LegacyPending(snap.pending)
    /\ \A k \in mapping : <<k, "map">> \in seen
    /\ \A k \in LegacyActive(snap.active) : snap.active[k].lease = "expired"

Decide ==
    /\ pc = "plan" /\ Kept
    /\ IF Planned THEN pc' = "map" /\ todo' = mapping /\ UNCHANGED <<failed, seen, snap>>
       ELSE Leave /\ Forget

\* The compare-and-set of a pending request.
Unchanged(k) == <<k, "pending">> \in seen

Map(k) ==
    /\ pc = "map" /\ k \in todo /\ todo' = todo \ {k}
    /\ \/ /\ Unchanged(k)
          /\ pending' = [pending EXCEPT ![k] = [target |-> "commit", req |-> snap.pending[k].req]]
          /\ seen' = seen \ Of(k, {"map", "pending"}) /\ UNCHANGED <<failed, faults>>
       \/ /\ ~Unchanged(k) /\ failed' = TRUE /\ UNCHANGED <<pending, seen, faults>>
       \/ /\ Fault /\ failed' = TRUE /\ UNCHANGED <<pending, seen>>
    /\ UNCHANGED <<active, newest, ended, owner, worker, mapping, pc, snap, report, claims>>

Mapped ==
    /\ pc = "map" /\ todo = {} /\ pc' = IF mapping = {} THEN "choose" ELSE "again"
    /\ Kept /\ UNCHANGED <<todo, failed, seen, snap>>

\* Claims are not touched while a request waits without a commit.
Choose ==
    /\ pc = "choose" /\ Kept
    /\ IF failed \/ LegacyPending(snap.pending) # {} THEN Leave /\ Forget
       ELSE /\ pc' = "settle" /\ UNCHANGED <<failed, seen, snap>>
            /\ todo' = {k \in LegacyActive(snap.active) :
                    snap.active[k].lease = "expired" /\ Plan(snap.active[k]) # "manual"}

\* Mistake: the claim of the snapshot is taken for the one of now.
FencedByKey(k) == active[k] # None

\* Same claim, owner and lease, and it has run out.
Fenced(k) == <<k, "active">> \in seen /\ active[k].lease = "expired"

Reject(k) == Plan(snap.active[k]) = "reject" /\ Drop(k) /\ UNCHANGED pending

Retry(k) == Plan(snap.active[k]) = "retry" /\ Back(k) /\ UNCHANGED ended

Settle(k) ==
    /\ pc = "settle" /\ k \in todo /\ todo' = todo \ {k}
    /\ IF Fenced(k) THEN Reject(k) \/ Retry(k)
       ELSE UNCHANGED <<pending, active, ended, seen>>
    /\ UNCHANGED <<newest, owner, worker, mapping, pc, failed, snap, report, bounds>>

\* It dies, or cannot remove the claim, with the request already written back.
HalfRetried(k) ==
    /\ pc = "settle" /\ k \in todo /\ Fenced(k) /\ Plan(snap.active[k]) = "retry"
    /\ Fault /\ WriteBack(k) /\ Leave /\ seen' = {s \in seen : s[2] = "map" /\ s[1] # k}
    /\ UNCHANGED <<active, ended, owner, report>>

Settled ==
    /\ pc = "settle" /\ todo = {} /\ pc' = "last" /\ snap' = NoSnap /\ Forget
    /\ Kept /\ UNCHANGED <<todo, failed>>

Report ==
    /\ pc = "report" /\ Leave /\ Forget
    /\ report' = IF /\ LegacyPending(snap.pending) = {} /\ LegacyActive(snap.active) = {}
                    /\ report = "due"
                 THEN "complete" ELSE "none"
    /\ UNCHANGED <<pending, active, ended, owner, faults>>

Die ==
    /\ pc # "idle" /\ Leave /\ Forget /\ Fault
    /\ UNCHANGED <<pending, active, ended, owner, report>>

Command ==
    \/ Snapshots \/ Create \/ Decide \/ Mapped \/ Choose \/ Settled \/ Report \/ Die
    \/ \E k \in Keys : Map(k) \/ Settle(k) \/ HalfRetried(k)

Others ==
    \/ \E k \in Keys :
        \/ \E t \in Targets : Enqueue(k, t)
        \/ Expire(k) \/ StrangerClaims(k) \/ StrangerRenews(k) \/ StrangerEnds(k)
        \/ Recover(k) \/ WorkerClaims(k) \/ WorkerEnds(k)
    \/ StartWorker \/ Audit \/ WorkerStops

Next == Command \/ Others \/ DryRun \/ Enter("init") \/ Enter("migrate")

Spec == Init /\ [][Next]_vars

-----------------------------------------------------------------------------
(* Properties.                                                             *)

Places == {"idle", "init", "init2", "create", "migrate", "migrate2", "plan", "map",
           "again", "again2", "choose", "settle", "last", "last2", "report"}

TypeOK ==
    /\ pending \in [Keys -> Requests \cup {None}] /\ active \in [Keys -> Claims \cup {None}]
    /\ newest \in [Keys -> Nat] /\ ended \in [Keys -> Nat]
    /\ owner \in {"mine", None} /\ worker \in {"off", "up", "drains", "busy"}
    /\ todo \subseteq Keys /\ mapping \subseteq Keys /\ failed \in BOOLEAN /\ pc \in Places
    /\ seen \subseteq Keys \X {"map", "pending", "active"}
    /\ snap \in [pending : [Keys -> Requests \cup {None}], active : [Keys -> Claims \cup {None}]]
    /\ report \in {"none", "due", "complete"}

ReqOf(j) == IF j = None THEN 0 ELSE j.req

\* The newest request of a key waits, is claimed or has ended, and what waits is
\* the newest: neither a mapping written before nor a half-finished retry
\* replaces or loses it.
NewestKept ==
    \A k \in Keys :
        /\ newest[k] \in {ReqOf(pending[k]), ReqOf(active[k]), ended[k]}
        /\ pending[k] # None => pending[k].req = newest[k]

\* The migration never ends a claim whose lease runs, though it was read as
\* expired, and never one that has no token or owner to prove it is the same.
ForeignClaimsKept ==
    [][Command => \A k \in Keys :
        active[k] # None /\ active'[k] # active[k] =>
            /\ active[k].lease = "expired"
            /\ active[k].owner = "none" => active[k].token /\ BadTarget(active[k])]_vars

\* A migration reported complete has left nothing legacy, but for what others
\* wrote since its last snapshot began.
CompleteIsClean ==
    report = "complete" =>
        LegacyPending(pending) = {} /\ LegacyActive(active) = {}

\* Where all old workers are gone, an isolated worker never runs beside a claim
\* that is not its own.
WorkerAlone ==
    ~Strangers /\ worker # "off" =>
        \A k \in Keys : active[k] # None => active[k].owner = owner

-----------------------------------------------------------------------------
(* What makes them inductive.                                              *)

\* What waits is the newest request; if none waits, the claim is of the newest, and
\* if there is no claim either, the newest has ended.
ReqFits ==
    \A k \in Keys :
        newest[k] = IF pending[k] # None THEN pending[k].req
                    ELSE IF active[k] # None THEN active[k].req ELSE ended[k]

\* What was read and is not known to have changed is as it was read: but a lease
\* runs out without a write.
Aged(j, read) == j = read \/ (read # None /\ j = [read EXCEPT !.lease = "expired"])

SeenFits ==
    \A k \in Keys :
        /\ <<k, "pending">> \in seen => pending[k] = snap.pending[k]
        /\ <<k, "active">> \in seen => Aged(active[k], snap.active[k])

\* The command works off what it has read.
TodoFits ==
    /\ pc = "map" => \A k \in todo : snap.pending[k] # None
    /\ pc = "settle" => \A k \in todo : snap.active[k] # None

\* While only the command wrote, its last snapshot is the queue.
ReportFits ==
    /\ report = "complete" => pc = "idle"
    /\ report = "due" /\ pc \in {"last2", "report"} => pending = snap.pending
    /\ report = "due" /\ pc = "report" => \A k \in Keys : Aged(active[k], snap.active[k])

\* The worker runs for an owner, and no command runs beside it.
WorkerFits == worker # "off" => owner # None /\ pc = "idle"

\* All of it together is kept by every step.
IInv ==
    /\ TypeOK /\ ReqFits /\ SeenFits /\ TodoFits /\ ReportFits /\ WorkerFits
    /\ NewestKept /\ CompleteIsClean /\ WorkerAlone
=============================================================================

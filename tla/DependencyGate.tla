--------------------------- MODULE DependencyGate ---------------------------
(***************************************************************************)
(* Jobs that depend on one another: code_vec and ingest are built from the *)
(* codegraph of the same target.  A worker that claimed such a job reads    *)
(* the manifest and then the queue (reindex/dependency_gate.py) and runs,   *)
(* waits at the tail of the queue, or gives up with a published failure.    *)
(* The queue is its order: one entry per kind, claimed from the head.       *)
(***************************************************************************)
EXTENDS Naturals, Sequences

CONSTANTS Kinds,        \* a subset of {"chroma", "codegraph", "ingest", "code_vec"}
          Targets, Workers,
          MaxRequests,  \* bound: groups of jobs that producers ask for
          MaxRetries,   \* bound: attempts that end with a retryable result
          None

KindAssumption ==
    /\ "codegraph" \in Kinds
    /\ Kinds \subseteq {"chroma", "codegraph", "ingest", "code_vec"}
BoundAssumption == MaxRequests \in Nat /\ MaxRetries \in Nat
\* The run lock lets one worker work, and every record of the manifest is its own.
WorkerAssumption == \E w \in Workers : Workers = {w}

VARIABLES queue,     \* pending jobs in the order of enqueued_at
          active,    \* [Kinds -> target of the claim, or None]
          manifest,  \* [Kinds -> latest BuildRecord, or None]
          asking,    \* the jobs left of the group that a producer enqueues
          pc, job,   \* per worker: its place, and the job it claimed
          seen,      \* per worker: the manifest record the gate has read
          requests, retries

vars == <<queue, active, manifest, asking, pc, job, seen, requests, retries>>

Jobs == [kind : Kinds, target : Targets]

\* dep is the codegraph that a code_vec record was published over.
Builds == [target : Targets, status : {"ok", "failed", "blocked"},
           dep : Targets \cup {None}]

NoneAssumption == None \notin Targets \cup Kinds \cup Builds

DependsOn(kind) == IF kind \in {"ingest", "code_vec"} THEN "codegraph" ELSE None

Init ==
    /\ queue = <<>> /\ asking = {}
    /\ active = [k \in Kinds |-> None]
    /\ manifest = [k \in Kinds |-> None]
    /\ pc = [w \in Workers |-> "idle"]
    /\ job = [w \in Workers |-> None]
    /\ seen = [w \in Workers |-> None]
    /\ requests = 0 /\ retries = 0

Goto(w, label) == pc' = [pc EXCEPT ![w] = label]

\* Where the queue has the kind, and the target it asks for.
Places(q, kind) == {i \in 1 .. Len(q) : q[i].kind = kind}

TargetIn(q, kind) ==
    IF Places(q, kind) = {} THEN None
    ELSE q[CHOOSE i \in Places(q, kind) : TRUE].target

PendingTarget(kind) == TargetIn(queue, kind)

\* Mistake: a request does not replace the pending one of its kind.
WithoutNone(kind) == queue

\* The queue without its entry of the kind.
Without(kind) ==
    IF Places(queue, kind) = {} THEN queue
    ELSE LET n == CHOOSE i \in Places(queue, kind) : TRUE
         IN  [i \in 1 .. Len(queue) - 1 |-> queue[IF i < n THEN i ELSE i + 1]]

-----------------------------------------------------------------------------
(* Producers: all kinds of one target, in the order of the kind contract.  *)

\* Mistake: the dependents are queued before what they depend on.
RankReversed(kind) ==
    CASE kind = "code_vec" -> 1 [] kind = "ingest" -> 2
      [] kind = "codegraph" -> 3 [] kind = "chroma" -> 4

Rank(kind) ==
    CASE kind = "chroma" -> 1 [] kind = "codegraph" -> 2
      [] kind = "ingest" -> 3 [] kind = "code_vec" -> 4

\* The jobs of a group; the producer asks for them by rank.
Group(t) == [kind : Kinds, target : {t}]

Ask(t) ==
    /\ asking = {} /\ requests < MaxRequests
    /\ asking' = Group(t) /\ requests' = requests + 1
    /\ UNCHANGED <<queue, active, manifest, pc, job, seen, retries>>

\* A request replaces the pending one of its kind and goes to the tail.
Enqueue ==
    /\ \E j \in asking :
          /\ \A i \in asking : Rank(j.kind) <= Rank(i.kind)
          /\ queue' = Append(Without(j.kind), j)
          /\ asking' = asking \ {j}
    /\ UNCHANGED <<active, manifest, pc, job, seen, requests, retries>>

-----------------------------------------------------------------------------
(* A worker's round.                                                       *)

\* claim scans the pending jobs from the oldest and skips kinds in progress.
Claimable(i) ==
    /\ active[queue[i].kind] = None
    /\ \A j \in 1 .. i - 1 : active[queue[j].kind] # None

Claim(w) ==
    /\ pc[w] = "idle"
    /\ \E i \in 1 .. Len(queue) :
          /\ Claimable(i)
          /\ job' = [job EXCEPT ![w] = queue[i]]
          /\ active' = [active EXCEPT ![queue[i].kind] = queue[i].target]
          /\ queue' = Without(queue[i].kind)
          /\ Goto(w, IF DependsOn(queue[i].kind) = None THEN "run" ELSE "gate")
    /\ UNCHANGED <<manifest, asking, seen, requests, retries>>

ReadManifest(w) ==
    /\ pc[w] = "gate" /\ Goto(w, "read")
    /\ seen' = [seen EXCEPT ![w] = manifest[DependsOn(job[w].kind)]]
    /\ UNCHANGED <<queue, active, manifest, asking, job, requests, retries>>

\* Mistake: the newest record counts, whatever target it is of.
SeenAnyTarget(w, statuses) == seen[w] # None /\ seen[w].status \in statuses

SeenAtTarget(w, statuses) ==
    seen[w] # None /\ seen[w].target = job[w].target /\ seen[w].status \in statuses

\* dependency_state is ABSENT: the codegraph is neither pending nor active.
DependencyAbsent(w) ==
    LET dep == DependsOn(job[w].kind)
    IN  active[dep] = None /\ PendingTarget(dep) = None

Runs(w) == SeenAtTarget(w, {"ok"})

Blocks(w) == SeenAtTarget(w, {"failed", "blocked"}) /\ DependencyAbsent(w)

\* Mistake: a retry goes back to the head of the queue.
ReenterAtHead(k, t) == <<[kind |-> k, target |-> t]>> \o Without(k)

ReenterAtTail(k, t) == Append(Without(k), [kind |-> k, target |-> t])

\* retry: the request queued meanwhile, or the claimed one, at the tail.
Retry(w) ==
    LET k == job[w].kind
        t == IF PendingTarget(k) # None THEN PendingTarget(k) ELSE active[k]
    IN  /\ queue' = ReenterAtTail(k, t)
        /\ active' = [active EXCEPT ![k] = None]
        /\ job' = [job EXCEPT ![w] = None] /\ seen' = [seen EXCEPT ![w] = None]
        /\ Goto(w, "idle")

Decide(w) ==
    /\ pc[w] = "read"
    /\ \/ /\ Runs(w) /\ Goto(w, "run")
          /\ UNCHANGED <<queue, active, job, seen>>
       \/ /\ ~Runs(w) /\ Blocks(w) /\ Goto(w, "block")
          /\ UNCHANGED <<queue, active, job, seen>>
       \/ /\ ~Runs(w) /\ ~Blocks(w) /\ Retry(w)
    /\ UNCHANGED <<manifest, asking, requests, retries>>

RetryableEnd(w) ==
    /\ pc[w] = "run" /\ retries < MaxRetries /\ retries' = retries + 1
    /\ Retry(w)
    /\ UNCHANGED <<manifest, asking, requests>>

-----------------------------------------------------------------------------
(* Publication under the fence of the claim, then the acknowledgement.     *)

Superseded(w) ==
    PendingTarget(job[w].kind) \notin {None, job[w].target}

\* code_vec freezes the codegraph record it is published over.
DependencySnapshot(k) ==
    IF k = "code_vec" /\ manifest["codegraph"] # None
    THEN manifest["codegraph"].target ELSE None

Publish(w) ==
    LET k == job[w].kind IN
    /\ pc[w] \in {"run", "block"}
    /\ \E status \in IF pc[w] = "block" THEN {"blocked"} ELSE {"ok", "failed"} :
          IF Superseded(w) THEN UNCHANGED manifest
          ELSE manifest' = [manifest EXCEPT ![k] =
                  [target |-> job[w].target, status |-> status,
                   dep |-> DependencySnapshot(k)]]
    /\ Goto(w, "ack")
    /\ UNCHANGED <<queue, active, asking, job, seen, requests, retries>>

Ack(w) ==
    /\ pc[w] = "ack" /\ Goto(w, "idle")
    /\ active' = [active EXCEPT ![job[w].kind] = None]
    /\ job' = [job EXCEPT ![w] = None] /\ seen' = [seen EXCEPT ![w] = None]
    /\ UNCHANGED <<queue, manifest, asking, requests, retries>>

Work(w) == Claim(w) \/ ReadManifest(w) \/ Decide(w) \/ Publish(w) \/ Ack(w)

Next ==
    \/ \E t \in Targets : Ask(t)
    \/ Enqueue
    \/ \E w \in Workers : Work(w) \/ RetryableEnd(w)

Spec == Init /\ [][Next]_vars

\* A worker polls and its attempts have deadlines; a producer that has begun
\* a group finishes it (a web hook that fails half-way is sent again).
FairSpec == Spec /\ WF_vars(Enqueue) /\ \A w \in Workers : WF_vars(Work(w))

-----------------------------------------------------------------------------
(* Correctness.                                                            *)

OneEach(q) == \A i, j \in 1 .. Len(q) : q[i].kind = q[j].kind => i = j

\* Values of the right kind, and one queue entry per kind.
TypeOK ==
    /\ queue \in Seq(Jobs) /\ asking \subseteq Jobs
    /\ OneEach(queue)
    /\ active \in [Kinds -> Targets \cup {None}]
    /\ manifest \in [Kinds -> Builds \cup {None}]
    /\ pc \in [Workers -> {"idle", "gate", "read", "run", "block", "ack"}]
    /\ job \in [Workers -> Jobs \cup {None}]
    /\ seen \in [Workers -> Builds \cup {None}]

\* An index that was built from a codegraph says of which target, and it is its own.
BuiltFromSameTarget ==
    \A k \in Kinds :
        k = "code_vec" /\ manifest[k] # None /\ manifest[k].status # "blocked"
            => manifest[k].dep = manifest[k].target

\* A failure is put down to the codegraph only while the manifest still says that
\* the codegraph of this very target failed.
BlockedByFailure ==
    [][\A k \in Kinds :
         manifest'[k] # manifest[k] /\ manifest'[k].status = "blocked" =>
            /\ manifest["codegraph"] # None
            /\ manifest["codegraph"].target = manifest'[k].target
            /\ manifest["codegraph"].status # "ok"]_vars

\* When all work is done, whatever producers did between the gate's two reads,
\* its decision and the publication, no index stands as blocked although the
\* codegraph it wanted is there, and every index is of the target that was asked
\* for last.
Quiescent == queue = <<>> /\ asking = {} /\ \A w \in Workers : pc[w] = "idle"

QuiescentConsistent ==
    Quiescent => \A k, l \in Kinds :
        /\ manifest[k] # None /\ manifest[l] # None =>
              manifest[k].target = manifest[l].target
        /\ manifest[k] # None /\ manifest[k].status = "blocked" =>
              manifest["codegraph"].status = "failed"

\* Waiting jobs do not keep the codegraph from its turn: when producers stop,
\* the queue empties.
QueueEmpties == <>[]Quiescent

-----------------------------------------------------------------------------
(* What makes them inductive.                                              *)

\* A worker with a job has its claim, and a claim is of a worker with a job.
WorkFits ==
    /\ \A w \in Workers :
          /\ pc[w] = "idle" => job[w] = None
          /\ pc[w] # "idle" => job[w] \in Jobs /\ active[job[w].kind] = job[w].target
          /\ pc[w] \in {"gate", "read", "block"} => DependsOn(job[w].kind) # None
    /\ \A k \in Kinds : active[k] # None =>
          \E w \in Workers : pc[w] # "idle" /\ job[w].kind = k

\* What the gate has seen is still what the manifest says.
SeenFits ==
    \A w \in Workers :
        /\ pc[w] \in {"read", "block"} => seen[w] = manifest["codegraph"]
        /\ pc[w] = "block" => SeenAtTarget(w, {"failed", "blocked"})
        /\ pc[w] = "run" /\ DependsOn(job[w].kind) # None =>
              seen[w] = manifest["codegraph"] /\ SeenAtTarget(w, {"ok"})

\* A producer asks for one target, and has left what comes last.
Asked(k) == \E j \in asking : j.kind = k

AskFits ==
    \A j \in asking :
        /\ \A i \in asking : i.target = j.target
        /\ \A k \in Kinds : Rank(j.kind) <= Rank(k) => Asked(k)

\* The target that a kind comes to, if nobody asks for another one: the same for
\* all kinds, but while a producer is at work.
Wanted(k) ==
    IF PendingTarget(k) # None THEN PendingTarget(k)
    ELSE IF active[k] # None THEN active[k]
    ELSE IF manifest[k] # None THEN manifest[k].target ELSE None

WantedFits ==
    /\ \A k, l \in Kinds : (Asked(k) <=> Asked(l)) => Wanted(k) = Wanted(l)
    /\ \A j \in asking, k \in Kinds : ~Asked(k) => Wanted(k) = j.target
    /\ \A w \in Workers : pc[w] = "ack" =>
          \/ PendingTarget(job[w].kind) # None
          \/ /\ manifest[job[w].kind] # None
             /\ manifest[job[w].kind].target = job[w].target

\* The codegraph has failed, and nobody has asked for it again.
StaysFailed ==
    /\ manifest["codegraph"] # None /\ manifest["codegraph"].status = "failed"
    /\ active["codegraph"] = None /\ PendingTarget("codegraph") = None
    /\ ~Asked("codegraph")

\* A blocked index stays blocked only if its codegraph stays failed.
BlockFits ==
    /\ manifest["codegraph"] # None => manifest["codegraph"].status # "blocked"
    /\ \A w \in Workers : pc[w] = "block" =>
          PendingTarget(job[w].kind) # None \/ Asked(job[w].kind) \/ StaysFailed
    /\ \A k \in Kinds : manifest[k] # None /\ manifest[k].status = "blocked" =>
          \/ PendingTarget(k) # None \/ Asked(k) \/ StaysFailed
          \/ \E w \in Workers : pc[w] \notin {"idle", "ack"} /\ job[w].kind = k

\* All of it together is kept by every step.
IInv ==
    /\ TypeOK /\ WorkFits /\ SeenFits /\ AskFits /\ WantedFits /\ BlockFits
    /\ BuiltFromSameTarget
=============================================================================

---------------------------- MODULE LegacyWorker ----------------------------
(***************************************************************************)
(* The legacy worker (reindex/worker.py) that drain-once and the hooks'    *)
(* foreground mode still run: it takes one claim after the other, defers   *)
(* what must wait to the end of the drain, runs the index commands on the  *)
(* live clone and writes the index manifest (index_manifest.py).  Commits  *)
(* are numbered along one branch; a claim keeps the time of its request.   *)
(***************************************************************************)
EXTENDS Naturals, Sequences

CONSTANTS MaxCommit,
          MaxRequests,  \* bound: pushes and repeated requests
          MaxErrors,    \* bound: runs, pulls and records that fail, leases that end
          MaxLosses,    \* bound: deaths and queue calls that fail
          Desk,         \* the clone is somebody's work tree: it moves at any time
          Leases,       \* a claim whose lease is over can be claimed again
          None

Kinds == {"codegraph", "code_vec"}
Commits == 1..MaxCommit

LegacyAssumption ==
    /\ {MaxCommit, MaxRequests, MaxErrors, MaxLosses} \subseteq Nat
    /\ {Desk, Leases} \subseteq BOOLEAN

VARIABLES tip,       \* the newest commit
          head,      \* the commit of the clone
          hook,      \* the kinds that a producer still has to put in the queue
          pending,   \* [Kinds -> the request that waits, or None]
          active,    \* [Kinds -> the claim, or None]
          requests,  \* number of requests: the clock of the queue
          graph,     \* what the code graph holds: a commit, or 0
          vectors,   \* what the code vectors hold: a commit and that of their graph
          manifest,  \* [Kinds -> the record of the last build, or None]
          pc,        \* where the drain is
          job,       \* the claim it works on
          status,    \* "ok" or "failed": what is going to be recorded
          prepared,  \* [Commits -> what preparing the clone for it gave]
          results,   \* [Kinds -> [Commits -> what this drain made of it]]
          deferred,  \* the claims to give back at the end of the drain
          ran,       \* history: the commit that the command has read, or 0
          blind,     \* history: the kinds whose record does not tell what they hold
          left,      \* history: the kinds whose claim an earlier drain has left
          errors, losses

queue == <<pending, active, requests>>
index == <<graph, vectors, manifest>>
world == <<tip, head, hook>>
drain == <<job, status, prepared, results, deferred>>
runs == <<ran, blind>>
history == <<runs, left>>
vars == <<world, queue, index, pc, drain, history, errors, losses>>

NoJob == [kind |-> "codegraph", target |-> 0, at |-> 0, token |-> 0]
Fresh == [c \in Commits |-> "new"]
Nothing == [k \in Kinds |-> [c \in Commits |-> "none"]]

Init ==
    /\ tip = 1 /\ head = 1 /\ hook = <<>> /\ requests = 0
    /\ pending = [k \in Kinds |-> None] /\ active = [k \in Kinds |-> None]
    /\ graph = 0 /\ vectors = [text |-> 0, graph |-> 0]
    /\ manifest = [k \in Kinds |-> None]
    /\ pc = "off" /\ job = NoJob /\ status = "ok" /\ prepared = Fresh
    /\ results = Nothing /\ deferred = <<>>
    /\ ran = 0 /\ blind = {} /\ left = {} /\ errors = 0 /\ losses = 0

Error == errors < MaxErrors /\ errors' = errors + 1
Loss == losses < MaxLosses /\ losses' = losses + 1

-----------------------------------------------------------------------------
(* Producers.  Their request names the commit they have seen.              *)

Announce ==
    /\ hook = <<>> /\ requests < MaxRequests
    /\ requests' = requests + 1 /\ hook' = <<"codegraph", "code_vec">>
    /\ \/ /\ tip < MaxCommit /\ tip' = tip + 1
          /\ head' = IF Desk THEN tip' ELSE head
       \/ UNCHANGED <<tip, head>>
    /\ UNCHANGED <<pending, active, index, pc, drain, history, errors, losses>>

\* The code graph first.  A newer request replaces the one that waits.
Enqueue ==
    /\ hook # <<>> /\ hook' = Tail(hook)
    /\ pending' = [pending EXCEPT ![Head(hook)] = [target |-> tip, at |-> requests]]
    /\ UNCHANGED <<tip, head, active, requests, index, pc, drain, history, errors, losses>>

\* A hook never fails the commit: what it could not put in the queue is lost.
HookFails ==
    /\ hook # <<>> /\ Error /\ hook' = <<>>
    /\ UNCHANGED <<tip, head, queue, index, pc, drain, history, losses>>

-----------------------------------------------------------------------------
(* The queue.                                                              *)

Earlier(k, l) ==
    \/ pending[k].at < pending[l].at
    \/ pending[k].at = pending[l].at /\ k = "codegraph"

Claimable == {k \in Kinds : pending[k] # None /\ active[k] = None}

Holds(j) == active[j.kind] # None /\ active[j.kind].token = j.token

\* What waits is newer than what was claimed.
Restored(k) ==
    IF pending[k] # None THEN pending[k]
    ELSE [target |-> active[k].target, at |-> active[k].at]

GiveBack(K) ==
    /\ pending' = [k \in Kinds |-> IF k \in K THEN Restored(k) ELSE pending[k]]
    /\ active' = [k \in Kinds |-> IF k \in K THEN None ELSE active[k]]

\* Only the renewal of the job that runs keeps a lease alive.
Expire(k) ==
    /\ Leases /\ active[k] # None /\ Error
    /\ (pc # "off" /\ Holds(job)) => job.kind # k
    /\ GiveBack({k})
    /\ UNCHANGED <<world, requests, index, pc, drain, history, losses>>

\* The resident worker began with this, drain-once and the hooks do not.
Reclaim ==
    /\ pc = "off" /\ \E k \in Kinds : active[k] # None
    /\ GiveBack({k \in Kinds : active[k] # None})
    /\ UNCHANGED <<world, requests, index, pc, drain, history, errors, losses>>

-----------------------------------------------------------------------------
(* A drain.                                                                *)

Begin ==
    /\ pc = "off" /\ pc' = "claim"
    /\ prepared' = Fresh /\ results' = Nothing /\ deferred' = <<>>
    /\ left' = {k \in Kinds : active[k] # None}
    /\ UNCHANGED <<world, queue, index, job, status, runs, errors, losses>>

Token == 1 + Len(deferred)

Claim ==
    /\ pc = "claim"
    /\ \/ \E k \in Claimable :
           /\ \A l \in Claimable \ {k} : Earlier(k, l)
           /\ job' = [kind |-> k, target |-> pending[k].target,
                      at |-> pending[k].at, token |-> Token]
           /\ active' = [active EXCEPT ![k] = job'] /\ pending' = [pending EXCEPT ![k] = None]
           /\ pc' = "prepare" /\ left' = left \ {k}
       \/ Claimable = {} /\ pc' = "flush" /\ UNCHANGED <<job, pending, active, left>>
    /\ UNCHANGED <<world, requests, index, status, prepared, results, deferred,
                   runs, errors, losses>>

Tell(what) == results' = [results EXCEPT ![job.kind][job.target] = what]

\* The claim is kept until the drain ends, so that the drain does not meet it again.
Defer == deferred' = Append(deferred, job) /\ pc' = "claim"

\* Once in a drain for a commit: the clone follows its upstream if it can.  A
\* clone that does not hold the commit is a reason to wait.
Prepare ==
    /\ pc = "prepare"
    /\ \/ /\ prepared[job.target] = "new"
          /\ \/ head' = (IF Desk THEN head ELSE tip) /\ UNCHANGED errors
             \/ ~Desk /\ Error /\ UNCHANGED head
          /\ prepared' = [prepared EXCEPT ![job.target] =
                            IF job.target <= head' THEN "yes" ELSE "no"]
       \/ prepared[job.target] # "new" /\ UNCHANGED <<head, prepared, errors>>
    /\ IF prepared'[job.target] = "yes"
       THEN pc' = "gate" /\ UNCHANGED <<results, deferred>>
       ELSE Tell("retry") /\ Defer
    /\ UNCHANGED <<tip, hook, queue, index, job, status, history, losses>>

Covers(record, commit) == record.status = "ok" /\ commit <= record.commit

\* Mistake: only the manifest is asked.
DependencyOnRecord(commit) ==
    LET record == manifest["codegraph"] IN
    IF record = None THEN "retry"
    ELSE IF record.status = "failed" THEN "failed" ELSE "ok"

\* What the code graph is to a dependent: this drain's own result, else the manifest.
DependencyState(commit) ==
    LET record == manifest["codegraph"] IN
    IF results["codegraph"][commit] # "none" THEN results["codegraph"][commit]
    ELSE IF record = None THEN "retry"
    ELSE IF record.status = "failed" THEN "failed"
    ELSE IF Covers(record, commit) THEN "ok" ELSE "retry"

Gate ==
    /\ pc = "gate"
    /\ LET state == IF job.kind = "codegraph" THEN "ok" ELSE DependencyState(job.target) IN
       \/ state = "ok" /\ pc' = "run" /\ UNCHANGED <<results, deferred, status>>
       \/ state = "retry" /\ Tell("retry") /\ Defer /\ UNCHANGED status
       \/ /\ state = "failed" /\ Tell("failed")
          /\ status' = "failed" /\ pc' = "record" /\ UNCHANGED deferred
    /\ UNCHANGED <<world, queue, index, job, prepared, history, errors, losses>>

\* What the command leaves behind; until its record is written, and unless that
\* tells what the command has read, nothing says so.
Indexed ==
    /\ ran' = head /\ blind' = blind \cup {job.kind}
    /\ IF job.kind = "codegraph" THEN graph' = head /\ UNCHANGED vectors
       ELSE vectors' = [text |-> head, graph |-> graph] /\ UNCHANGED graph

Spoilt ==
    /\ ran' = 0 /\ blind' = blind \cup {job.kind}
    /\ IF job.kind = "codegraph" THEN graph' = 0 /\ UNCHANGED vectors
       ELSE vectors' = [text |-> 0, graph |-> 0] /\ UNCHANGED graph

\* Code 2: somebody else has the lock of the index.
Busy ==
    /\ pc = "run" /\ Error /\ Tell("retry") /\ Defer
    /\ UNCHANGED <<world, queue, index, job, status, prepared, history, losses>>

Succeeds ==
    /\ pc = "run" /\ Indexed /\ Tell("ok") /\ status' = "ok" /\ pc' = "record"
    /\ UNCHANGED <<world, queue, manifest, job, prepared, deferred, left, errors, losses>>

\* An exception goes into the manifest only, not into the results of the drain.
Fails ==
    /\ pc = "run" /\ Error /\ status' = "failed" /\ pc' = "record"
    /\ Spoilt \/ UNCHANGED <<graph, vectors, runs>>
    /\ Tell("failed") \/ UNCHANGED results
    /\ UNCHANGED <<world, queue, manifest, job, prepared, deferred, left, losses>>

Snapshot ==
    IF job.kind = "codegraph" \/ manifest["codegraph"] = None THEN None
    ELSE [status |-> manifest["codegraph"].status, commit |-> manifest["codegraph"].commit]

\* A success is recorded for a commit that was not read, or for vectors of a
\* graph that nothing tells of.
Misleads ==
    /\ status = "ok"
    /\ head # ran \/ (job.kind = "code_vec" /\ "codegraph" \in blind)

\* The record names the commit of the clone as it is now.  Writing it may fail:
\* that is logged, and the job ends all the same.
Record ==
    /\ pc = "record" /\ pc' = "complete" /\ ran' = 0
    /\ \/ /\ manifest' = [manifest EXCEPT ![job.kind] =
                            [status |-> status, commit |-> head, dep |-> Snapshot]]
          /\ blind' = IF Misleads THEN blind ELSE blind \ {job.kind}
          /\ UNCHANGED errors
       \/ Error /\ UNCHANGED <<manifest, blind>>
    /\ UNCHANGED <<world, queue, graph, vectors, drain, left, losses>>

\* The call may fail, which ends the drain; the claims are given back before.
Complete ==
    /\ pc = "complete"
    /\ \/ /\ active' = IF Holds(job) THEN [active EXCEPT ![job.kind] = None] ELSE active
          /\ pc' = "claim" /\ UNCHANGED losses
       \/ Loss /\ pc' = "flush" /\ UNCHANGED active
    /\ UNCHANGED <<world, pending, requests, index, drain, history, errors>>

\* Of each key the first of its claims.
First == {i \in DOMAIN deferred : \A h \in 1..(i - 1) : deferred[h].kind # deferred[i].kind}

\* Mistake: the drain gives back only what its last job was.
FlushLast ==
    /\ pc = "flush" /\ pc' = "off"
    /\ GiveBack(IF Holds(job) THEN {job.kind} ELSE {})
    /\ UNCHANGED <<world, requests, index, drain, history, errors, losses>>

\* Each key is given back once; a failing call is logged.
Flush ==
    /\ pc = "flush" /\ pc' = "off"
    /\ LET held == {deferred[i].kind : i \in {h \in First : Holds(deferred[h])}} IN
       \/ GiveBack(held) /\ UNCHANGED losses
       \/ \E k \in held : GiveBack(held \ {k}) /\ Loss
    /\ UNCHANGED <<world, requests, index, drain, history, errors>>

\* The worker dies; a command that it was running may have begun to write.
Die ==
    /\ pc # "off" /\ Loss /\ pc' = "off"
    /\ \/ pc = "run" /\ Spoilt
       \/ ran' = 0 /\ UNCHANGED <<graph, vectors, blind>>
    /\ UNCHANGED <<world, queue, manifest, drain, left, errors>>

Work ==
    \/ Claim \/ Prepare \/ Gate \/ Succeeds \/ Record \/ Complete \/ Flush

Next ==
    \/ Announce \/ Enqueue \/ HookFails
    \/ Begin \/ Work \/ Busy \/ Fails \/ Die
    \/ \E k \in Kinds : Expire(k)
    \/ Reclaim

Spec == Init /\ [][Next]_vars

\* A drain ends, and there is always another drain.
FairSpec == Spec /\ WF_vars(Work \/ Begin)

-----------------------------------------------------------------------------
(* Properties.                                                             *)

Request == [target : Commits, at : 0..MaxRequests]
Job == [kind : Kinds, target : 0..MaxCommit, at : 0..MaxRequests, token : Nat]
Dep == [status : {"ok", "failed"}, commit : Commits]

\* Every variable keeps its type (worker.py, index_manifest.py).
TypeOK ==
    /\ tip \in Commits /\ head \in Commits /\ requests \in 0..MaxRequests
    /\ hook \in {<<>>, <<"code_vec">>, <<"codegraph", "code_vec">>}
    /\ pending \in [Kinds -> Request \cup {None}]
    /\ \A k \in Kinds : active[k] # None => active[k] \in Job /\ active[k].kind = k
    /\ graph \in 0..MaxCommit /\ vectors \in [text : 0..MaxCommit, graph : 0..MaxCommit]
    /\ \A k \in Kinds : manifest[k] # None =>
          manifest[k] \in [status : {"ok", "failed"}, commit : Commits, dep : Dep \cup {None}]
    /\ pc \in {"off", "claim", "prepare", "gate", "run", "record", "complete", "flush"}
    /\ job \in Job /\ status \in {"ok", "failed"}
    /\ prepared \in [Commits -> {"new", "yes", "no"}]
    /\ results \in [Kinds -> [Commits -> {"none", "ok", "failed", "retry"}]]
    /\ \A i \in DOMAIN deferred : deferred[i] \in Job
    /\ ran \in 0..MaxCommit /\ blind \subseteq Kinds /\ left \subseteq Kinds
    /\ errors \in 0..MaxErrors /\ losses \in 0..MaxLosses

\* freshness of index_manifest.py: the record covers the clone, and so does the
\* code graph of a dependent, as it was recorded and as it is now.
IsFresh(k) ==
    /\ manifest[k] # None /\ Covers(manifest[k], head)
    /\ k = "code_vec" =>
          /\ manifest[k].dep # None /\ Covers(manifest[k].dep, head)
          /\ manifest["codegraph"] # None /\ Covers(manifest["codegraph"], head)

\* Once the queue is empty, an index that is reported as fresh holds the commit
\* of the clone, and code vectors were made from such a graph; the exceptions are
\* those of the code: a record that could not be written or names a commit that
\* was not read (freshness, _record_manifest).
FreshIsTrue ==
    (\A k \in Kinds : active[k] = None /\ pending[k] = None) =>
        /\ IsFresh("codegraph") /\ "codegraph" \notin blind => graph >= head
        /\ IsFresh("code_vec") /\ "code_vec" \notin blind =>
              vectors.text >= head /\ vectors.graph >= head

\* The drain goes on to trust what it made of a commit after
\* a later run of its own has failed and was recorded.
TrustsItself ==
    /\ results["codegraph"][job.target] = "ok"
    /\ manifest["codegraph"] # None /\ manifest["codegraph"].status = "failed"

\* Code vectors are made only from a code graph that holds the commit they are
\* asked for and that no later run has spoilt, unless no record tells what the
\* graph holds, or the drain trusts itself (_dependency_blocker).
DependentReadsGood ==
    (pc = "run" /\ job.kind = "code_vec") =>
        graph >= job.target \/ "codegraph" \in blind \/ TrustsItself

DeferredTwice(k) ==
    \E i, j \in DOMAIN deferred : i < j /\ deferred[i].kind = k /\ deferred[j].kind = k

\* A drain that was not cut short leaves no claim of its own, unless it deferred
\* the kind twice, the first lease having ended meanwhile (_flush_retry_releases).
DeferredReturn ==
    (pc = "off" /\ losses = 0) =>
        \A k \in Kinds : active[k] # None => DeferredTwice(k) \/ k \in left

\* The state of a drain and of its indexes at every step.
DrainSound == TypeOK /\ FreshIsTrue /\ DependentReadsGood /\ DeferredReturn

\* Between two drains every request is settled, unless a claim was left behind or
\* the graph's success was never recorded, so that its dependents wait for
\* another request: it comes to be so whatever failed for a while (drain_once).
Settled ==
    pc = "off" => \/ \A k \in Kinds : pending[k] = None
                  \/ \E k \in Kinds : active[k] # None
                  \/ "codegraph" \in blind
=============================================================================

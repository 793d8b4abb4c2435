---------------------------- MODULE HealthRefresh ----------------------------
(***************************************************************************)
(* The health checks that a worker runs between its jobs, each a contained *)
(* process of its own (reindex/health_refresh.py) whose handle is kept in   *)
(* the health half of the control journal.  The worker may die at any step  *)
(* and its successor recovers what the journal names before anything else. *)
(***************************************************************************)
EXTENDS Naturals, FiniteSets, Sequences, SequencesExt

CONSTANTS Projects,
          MaxOps,       \* bound: health processes prepared
          MaxRequests,  \* bound: requests by finished jobs
          MaxFaults,    \* bound: errors of any port, deadlines and crashes
          None

BoundAssumption ==
    /\ MaxOps \in Nat \ {0} /\ MaxRequests \in Nat /\ MaxFaults \in Nat
    /\ IsFiniteSet(Projects)
    /\ None \notin [op : 0 .. MaxOps, project : Projects, ok : BOOLEAN]
    /\ None \notin [op : 1 .. MaxOps, project : Projects]

VARIABLES pc,       \* where the worker is
          pending,  \* requested projects, in order
          flush,    \* what is left of the flush
          clean,    \* every project of the flush was tried and succeeded
          tried,    \* projects the flush has tried
          starting, \* the flush is the one of the startup
          cur,      \* the operation in hand: [op, project, ok], or None
          entry,    \* the health record of the journal: [op, project], or None
          failed,   \* health_failed of the state file
          proc,     \* [1..MaxOps -> state of the process]
          verdict,  \* history: [Projects -> how its latest process ended]
          ops, requests, faults

vars == <<pc, pending, flush, clean, tried, starting, cur, entry, failed,
          proc, verdict, ops, requests, faults>>
work == <<pending, flush, clean, tried, starting>>
round == <<tried, starting>>
counts == <<ops, requests, faults>>

Ops == 1 .. MaxOps

\* blocked: behind the start gate; orphan: its gate is closed; ok, bad: the
\* root has exited but its tree may live; dead: the whole tree is gone.
States == {"none", "blocked", "orphan", "running", "ok", "bad", "dead"}

Init ==
    /\ pc = "recover" /\ pending = <<>> /\ flush = <<>> /\ clean = FALSE
    /\ tried = {} /\ starting = TRUE /\ cur = None /\ entry = None /\ failed = FALSE
    /\ proc = [o \in Ops |-> "none"] /\ verdict = [p \in Projects |-> "none"]
    /\ ops = 0 /\ requests = 0 /\ faults = 0

\* One more fault, while the bound allows it.
Fault == faults < MaxFaults /\ faults' = faults + 1

\* Mistake: a project is asked for twice.
RequestedTwice(p, queue) == Append(queue, p)

Requested(p, queue) == IF p \in ToSet(queue) THEN queue ELSE Append(queue, p)

-----------------------------------------------------------------------------
(* Requests and the flush.                                                 *)

Request ==
    /\ pc = "idle" /\ requests < MaxRequests /\ requests' = requests + 1
    /\ \E p \in Projects : pending' = Requested(p, pending)
    /\ UNCHANGED <<pc, flush, clean, round, cur, entry, failed, proc, verdict, ops, faults>>

StartFlush ==
    /\ pc = "idle" /\ pending # <<>> /\ pc' = "next"
    /\ flush' = pending /\ pending' = <<>> /\ clean' = TRUE /\ tried' = {}
    /\ UNCHANGED <<starting, cur, entry, failed, proc, verdict, counts>>

\* Mistake: what an overdue flush leaves is not asked for again.
ExpireDrops ==
    /\ pc = "next" /\ flush # <<>> /\ Fault
    /\ flush' = <<>> /\ clean' = FALSE /\ UNCHANGED pending
    /\ pc' \in IF starting THEN {"fatal"} ELSE {"next", "fatal"}
    /\ UNCHANGED <<round, cur, entry, failed, proc, verdict, ops, requests>>

\* What a queue holds beside another one, in its order.
Orders ==
    {q \in UNION {[1 .. n -> Projects] : n \in 0 .. Cardinality(Projects)} :
        IsInjective(q)}
Beside(queue, other) ==
    {q \in Orders :
        /\ ToSet(q) = ToSet(queue) \ ToSet(other)
        /\ \A i, j \in DOMAIN q : i < j => \E m, n \in DOMAIN queue :
              m < n /\ queue[m] = q[i] /\ queue[n] = q[j]}

\* The deadline has run out: what is left waits, before newer requests.  The
\* startup and the end of a job insist on their projects and stop the worker.
Expire ==
    /\ pc = "next" /\ flush # <<>> /\ Fault
    /\ \E rest \in Beside(pending, flush) : pending' = flush \o rest
    /\ flush' = <<>> /\ clean' = FALSE
    /\ pc' \in IF starting THEN {"fatal"} ELSE {"next", "fatal"}
    /\ UNCHANGED <<round, cur, entry, failed, proc, verdict, ops, requests>>

EndFlush ==
    /\ pc = "next" /\ flush = <<>>
    /\ \/ /\ pc' = "idle" /\ failed' = (IF clean THEN FALSE ELSE failed)
          /\ UNCHANGED faults
       \/ /\ clean /\ Fault /\ pc' = "fatal" /\ UNCHANGED failed
    /\ starting' = FALSE
    /\ UNCHANGED <<pending, flush, clean, tried, cur, entry, proc, verdict, ops, requests>>

-----------------------------------------------------------------------------
(* One project: prepare, save the handle, activate, poll, terminate, clear. *)

\* Only over an empty record: another would be one that was not recovered.
Prepare ==
    LET p == Head(flush) IN
    /\ pc = "next" /\ flush # <<>>
    /\ entry = None
    /\ flush' = Tail(flush) /\ tried' = tried \cup {p}
    /\ \/ /\ ops < MaxOps /\ ops' = ops + 1
          /\ cur' = [op |-> ops + 1, project |-> p, ok |-> FALSE]
          /\ proc' = [proc EXCEPT ![ops + 1] = "blocked"]
          /\ verdict' = [verdict EXCEPT ![p] = "none"]
          /\ \/ pc' = "save" /\ UNCHANGED <<clean, faults>>
             \/ pc' = "terminate" /\ clean' = FALSE /\ Fault  \* prepare raised
          /\ UNCHANGED pending
       \/ /\ Fault /\ pc' = "mark" /\ clean' = FALSE  \* no process
          /\ cur' = [op |-> 0, project |-> p, ok |-> FALSE]
          /\ pending' \in {pending, Requested(p, pending)}
          /\ UNCHANGED <<proc, verdict, ops>>
    /\ UNCHANGED <<starting, entry, failed, requests>>

EntryOf(c) == [op |-> c.op, project |-> c.project]

\* The replacement may raise before or after the new file is in place.
Save ==
    /\ pc = "save"
    /\ \/ entry' = EntryOf(cur) /\ pc' = "activate" /\ UNCHANGED <<clean, faults>>
       \/ /\ Fault /\ pc' = "terminate" /\ clean' = FALSE
          /\ entry' \in {entry, EntryOf(cur)}
    /\ UNCHANGED <<pending, flush, round, cur, failed, proc, verdict, ops, requests>>

\* The gate may open although activate raises.
Activate ==
    /\ pc = "activate" /\ proc[cur.op] = "blocked"
    /\ \/ /\ pc' = "poll" /\ proc' = [proc EXCEPT ![cur.op] = "running"]
          /\ UNCHANGED <<clean, faults>>
       \/ /\ Fault /\ pc' = "terminate" /\ clean' = FALSE
          /\ \E s \in {"blocked", "running"} : proc' = [proc EXCEPT ![cur.op] = s]
    /\ UNCHANGED <<pending, flush, round, cur, entry, failed, verdict, ops, requests>>

\* Mistake: a check that ran out of time counts as passed.
PollTimeoutPasses ==
    /\ pc = "poll" /\ pc' = "terminate"
    /\ \/ /\ proc[cur.op] \in {"ok", "bad"} /\ UNCHANGED faults
          /\ cur' = [cur EXCEPT !.ok = proc[cur.op] = "ok"]
       \/ Fault /\ cur' = [cur EXCEPT !.ok = TRUE]
    /\ clean' = (clean /\ cur'.ok)
    /\ UNCHANGED <<pending, flush, round, entry, failed, proc, verdict, ops, requests>>

\* Exit codes 0 and 2 are a success; a probe error and the end of the
\* operation's budget are none.
Poll ==
    /\ pc = "poll" /\ pc' = "terminate"
    /\ \/ /\ proc[cur.op] \in {"ok", "bad"} /\ UNCHANGED faults
          /\ cur' = [cur EXCEPT !.ok = proc[cur.op] = "ok"]
       \/ Fault /\ UNCHANGED cur
    /\ clean' = (clean /\ cur'.ok)
    /\ UNCHANGED <<pending, flush, round, entry, failed, proc, verdict, ops, requests>>

\* No proof that the tree is dead: failed, and the worker stops.
Terminate ==
    /\ pc = "terminate"
    /\ \/ /\ pc' = "mark" /\ proc' = [proc EXCEPT ![cur.op] = "dead"]
          /\ UNCHANGED <<failed, faults>>
       \/ /\ Fault /\ pc' = "fatal" /\ failed' \in {failed, TRUE}
          /\ UNCHANGED proc
    /\ UNCHANGED <<work, cur, entry, verdict, ops, requests>>

\* A recovered operation is also asked for again.
Mark ==
    /\ pc = "mark"
    /\ \/ /\ pc' = "clear" /\ failed' = (failed \/ ~cur.ok) /\ UNCHANGED faults
       \/ ~cur.ok /\ Fault /\ pc' = "fatal" /\ UNCHANGED failed
    /\ UNCHANGED <<work, cur, entry, proc, verdict, ops, requests>>

Clear ==
    /\ pc = "clear" /\ (entry # None => entry.op = cur.op)
    /\ \/ pc' = "next" /\ entry' = None /\ UNCHANGED faults
       \/ cur.op # 0 /\ Fault /\ pc' = "fatal" /\ entry' \in {entry, None}
    /\ cur' = None
    /\ UNCHANGED <<work, failed, proc, verdict, ops, requests>>

-----------------------------------------------------------------------------
(* Recovery and startup: what the journal names is ended, marked failed and *)
(* cleared, then every managed project is asked for.                       *)

All == SetToSeq(Projects)

\* Mistake: a recorded process is forgotten, not ended.
RecoverForgets ==
    /\ pc = "recover"
    /\ entry' = None /\ pc' = "next" /\ flush' = All /\ clean' = TRUE
    /\ UNCHANGED <<pending, round, cur, failed, proc, verdict, counts>>

Recover ==
    /\ pc = "recover" /\ flush' = All
    /\ clean' = TRUE  \* the flush that follows is a new one
    /\ \/ entry = None /\ pc' = "next" /\ UNCHANGED <<cur, faults>>
       \/ /\ entry # None
          /\ cur' = [op |-> entry.op, project |-> entry.project, ok |-> FALSE]
          /\ \/ proc[entry.op] = "dead" /\ pc' = "mark" /\ UNCHANGED faults
             \/ proc[entry.op] # "dead" /\ pc' = "terminate" /\ UNCHANGED faults
             \/ Fault /\ pc' = "fatal"
    /\ failed' \in IF pc' = "fatal" THEN {failed, TRUE} ELSE {failed}
    /\ UNCHANGED <<pending, round, entry, proc, verdict, ops, requests>>

\* The worker dies, by itself or after a fatal error; memory and gates go.
Crash ==
    /\ pc # "down" /\ pc' = "down"
    /\ pc # "fatal" => faults < MaxFaults
    /\ faults' = IF pc = "fatal" THEN faults ELSE faults + 1
    /\ pending' = <<>> /\ flush' = <<>> /\ clean' = FALSE /\ cur' = None
    /\ tried' = {} /\ starting' = TRUE
    /\ proc' = [o \in Ops |-> IF proc[o] = "blocked" THEN "orphan" ELSE proc[o]]
    /\ UNCHANGED <<entry, failed, verdict, ops, requests>>

\* A new worker begins its state file anew.
Restart ==
    /\ pc = "down" /\ pc' = "recover" /\ failed' = FALSE
    /\ UNCHANGED <<work, cur, entry, proc, verdict, counts>>

-----------------------------------------------------------------------------
(* The processes themselves.                                               *)

InHand == IF cur = None THEN 0 ELSE cur.op

Exits(o) ==
    \E s \in {"ok", "bad"} :
        /\ proc[o] = "running" /\ proc' = [proc EXCEPT ![o] = s]
        /\ verdict' = IF o = InHand
                      THEN [verdict EXCEPT ![cur.project] = s] ELSE verdict
        /\ UNCHANGED <<pc, work, cur, entry, failed, counts>>

GoesAway(o) ==
    /\ proc[o] \in {"orphan", "ok", "bad"} /\ proc' = [proc EXCEPT ![o] = "dead"]
    /\ o # InHand
    /\ UNCHANGED <<pc, work, cur, entry, failed, verdict, counts>>

Worker ==
    \/ StartFlush \/ EndFlush \/ Prepare \/ Save \/ Activate
    \/ Poll \/ Terminate \/ Mark \/ Clear \/ Recover

Next ==
    \/ Worker \/ Request \/ Expire \/ Crash \/ Restart
    \/ \E o \in Ops : Exits(o) \/ GoesAway(o)

Spec == Init /\ [][Next]_vars

FatalEnds == pc = "fatal" /\ Crash

\* The worker runs and is restarted by its supervisor; a check ends or its
\* budget does (Exits stands for both when faults are used up).
FairSpec ==
    /\ Spec /\ WF_vars(Worker) /\ WF_vars(Restart) /\ WF_vars(FatalEnds)
    /\ \A o \in Ops : WF_vars(Exits(o))

-----------------------------------------------------------------------------
(* Correctness.                                                            *)

\* Values of the right kind.
TypeOK ==
    /\ pc \in {"recover", "idle", "next", "save", "activate", "poll", "terminate",
              "mark", "clear", "fatal", "down"}
    /\ pending \in Seq(Projects) /\ flush \in Seq(Projects)
    /\ IsInjective(pending) /\ IsInjective(flush)
    /\ clean \in BOOLEAN /\ starting \in BOOLEAN /\ failed \in BOOLEAN
    /\ tried \subseteq Projects
    /\ cur \in [op : Ops \cup {0}, project : Projects, ok : BOOLEAN] \cup {None}
    /\ entry \in [op : Ops, project : Projects] \cup {None}
    /\ proc \in [Ops -> States]
    /\ verdict \in [Projects -> {"none", "ok", "bad"}] /\ ops \in 0 .. MaxOps

InHandAt == {"save", "activate", "poll", "terminate", "mark", "clear"}

\* What the worker has in hand, where it is.
CurFits ==
    /\ pc \in InHandAt => cur # None
    /\ pc \in {"recover", "idle", "next", "down"} => cur = None
    /\ pc \in {"save", "activate", "poll", "terminate"} => cur.op # 0
    /\ pc \in {"save", "activate", "poll"} => ~cur.ok
    /\ pc \in {"mark", "clear"} => cur.op = 0 \/ proc[cur.op] = "dead"

\* The record: empty between two checks, that of the check in hand from the save.
EntryFits ==
    /\ pc \in {"idle", "next", "save"} => entry = None
    /\ pc \in {"activate", "poll"} => entry = EntryOf(cur)
    /\ pc \in {"terminate", "mark", "clear"} => entry = None \/ entry.op = cur.op

\* A process past its gate is named by the journal until its whole tree is
\* dead, across every crash: so there is one at a time, and none is left over.
RunningIsJournalled ==
    \A o \in Ops : proc[o] \in {"running", "ok", "bad"} =>
        entry # None /\ entry.op = o

\* Between flushes, a worker that shows no failure has seen every check of the
\* latest flush pass; an outcome that was lost is never taken for one.
FailureShown ==
    pc = "idle" /\ ~failed => \A p \in tried : verdict[p] = "ok"

\* The flush: what it tried before the check in hand has passed, or the worker
\* shows a failure and goes on doing so; a recovered check belongs to none.
FlushFits ==
    /\ pc \in {"recover", "down"} => tried = {}
    /\ pc \in InHandAt \cup {"next", "idle"} /\ (clean \/ ~failed) =>
          \A p \in tried : \/ verdict[p] = "ok"
                           \/ pc \in InHandAt /\ p = cur.project
    /\ pc \in {"terminate", "mark", "clear"} =>
          \/ /\ cur.ok /\ verdict[cur.project] = "ok"
             /\ cur.op = 0 \/ proc[cur.op] \in {"ok", "dead"}
          \/ ~cur.ok /\ (~clean \/ tried = {})
    /\ pc = "clear" => cur.ok \/ failed
    /\ pc = "poll" /\ proc[cur.op] = "ok" => verdict[cur.project] = "ok"

\* All of it together is kept by every step.
IInv ==
    /\ TypeOK /\ CurFits /\ EntryFits /\ FlushFits
    /\ RunningIsJournalled /\ FailureShown

\* Every project that waits is tried in a flush that ends, whatever overdue
\* flush, failed write or crash comes between.
EveryRequestTried ==
    \A p \in Projects : p \in ToSet(pending) \cup ToSet(flush)
        ~> pc = "idle" /\ p \in tried
=============================================================================

------------------------------- MODULE RunLock -------------------------------
(***************************************************************************)
(* One worker per machine: the run lock of reindex/run_lock_protocol.py,    *)
(* the launcher that a commit wakes a worker with (worker_launcher.py), its *)
(* start lock, and the state file that names the worker (supervisor.py).   *)
(* A process is a number of its own, as is its birth identity; pids recur. *)
(***************************************************************************)
EXTENDS Naturals

CONSTANTS Procs,       \* worker processes, each started once
          Launchers,   \* commit hooks
          Pids,
          MaxCommits,  \* bound: commits
          MaxFaults,   \* bound: deaths, errors, a start lock that grows old
          None

ASSUME BoundAssumption ==
    /\ MaxCommits \in Nat /\ MaxFaults \in Nat
    /\ None \notin Procs \cup Launchers \cup Pids
    /\ None \notin [by : Procs, pid : Pids, whole : BOOLEAN]
    /\ None \notin [by : Procs, status : {"starting", "running", "stopped"}]
    /\ None \notin [by : Launchers, old : BOOLEAN]
    /\ Procs \cap Launchers = {}

VARIABLES lock,     \* the run lock: [by, pid, whole], or None
          guard,    \* who holds the permanent guard file, or None
          start,    \* the start lock: [by, old], or None
          state,    \* the state file: [by, status], or None
          at,       \* [Procs -> where the worker is]
          pid,      \* [Procs -> its pid]
          launch,   \* [Launchers -> where the hook is]
          child,    \* [Launchers -> the process it started]
          pending,  \* the queue has work
          commits, faults

files == <<lock, start, state>>
hooks == <<launch, child>>
counts == <<commits, faults>>
vars == <<lock, guard, start, state, at, pid, launch, child, pending, commits, faults>>

Init ==
    /\ lock = None /\ guard = None /\ start = None /\ state = None
    /\ at = [p \in Procs |-> "none"] /\ pid = [p \in Procs |-> None]
    /\ launch = [l \in Launchers |-> "idle"] /\ child = [l \in Launchers |-> None]
    /\ pending = FALSE /\ commits = 0 /\ faults = 0

Fault == faults < MaxFaults /\ faults' = faults + 1

Live(p) == at[p] \notin {"none", "refused", "dead"}

\* Mistake: the pid alone is taken for the process.
ActiveByPid(record) == record.whole /\ \E p \in Procs : Live(p) /\ pid[p] = record.pid

\* A torn record is stale; a whole one is, when its pid lives no more or was
\* born as another process.
Active(record) ==
    record.whole /\ \E p \in Procs : Live(p) /\ pid[p] = record.pid /\ p = record.by

Held == lock # None /\ Active(lock)

-----------------------------------------------------------------------------
(* The worker.                                                             *)

Goto(p, label) == at' = [at EXCEPT ![p] = label]

Begins(p) ==
    /\ at[p] = "none" /\ Goto(p, "new")
    /\ \E n \in Pids : /\ \A q \in Procs : Live(q) => pid[q] # n
                       /\ pid' = [pid EXCEPT ![p] = n]

\* By hand, by systemd or for drain-once: without the launcher.
StartedElsewhere(p) ==
    /\ Begins(p)
    /\ UNCHANGED <<files, guard, hooks, pending, counts>>

\* The guard is tried once; a worker that finds it taken does not start.
TakeGuard(p) ==
    /\ at[p] = "new"
    /\ IF guard = None THEN guard' = p /\ Goto(p, "look")
       ELSE Goto(p, "dead") /\ UNCHANGED guard
    /\ UNCHANGED <<files, pid, hooks, pending, counts>>

\* Mistake: a holder that cannot be proved alive is taken for dead.
JudgeUnknownStale(p) ==
    /\ at[p] = "look"
    /\ \/ lock = None /\ Goto(p, "create") /\ UNCHANGED <<guard, faults>>
       \/ lock # None /\ ~Held /\ Goto(p, "remove") /\ UNCHANGED <<guard, faults>>
       \/ Held /\ Goto(p, "refused") /\ guard' = None /\ UNCHANGED faults
       \/ lock # None /\ Fault /\ Goto(p, "remove") /\ UNCHANGED guard
    /\ UNCHANGED <<files, pid, hooks, pending, commits>>

\* Active: refused.  Stale: removed.  Unknown: the start fails.
Judge(p) ==
    /\ at[p] = "look"
    /\ \/ lock = None /\ Goto(p, "create") /\ UNCHANGED <<guard, faults>>
       \/ lock # None /\ ~Held /\ Goto(p, "remove") /\ UNCHANGED <<guard, faults>>
       \/ Held /\ Goto(p, "refused") /\ guard' = None /\ UNCHANGED faults
       \/ lock # None /\ Fault /\ Goto(p, "dead") /\ guard' = None
    /\ UNCHANGED <<files, pid, hooks, pending, commits>>

Remove(p) ==
    /\ at[p] = "remove" /\ lock' = None /\ Goto(p, "create")
    /\ UNCHANGED <<guard, start, state, pid, hooks, pending, counts>>

\* Created first, written and synced after; a failed write is cleaned up.
Create(p) ==
    /\ at[p] = "create" /\ lock = None
    /\ lock' = [by |-> p, pid |-> pid[p], whole |-> FALSE] /\ Goto(p, "write")
    /\ UNCHANGED <<guard, start, state, pid, hooks, pending, counts>>

Write(p) ==
    /\ at[p] = "write" /\ guard' = None
    /\ \/ lock' = [lock EXCEPT !.whole = TRUE] /\ Goto(p, "start") /\ UNCHANGED faults
       \/ Fault /\ lock' \in {lock, None} /\ Goto(p, "dead")
    /\ UNCHANGED <<start, state, pid, hooks, pending, commits>>

RecordStart(p) ==
    /\ at[p] = "start" /\ Goto(p, "work")
    /\ state' = [by |-> p, status |-> "running"]
    /\ UNCHANGED <<lock, start, guard, pid, hooks, pending, counts>>

\* Mistake: the changed fields replace the record.
PatchBare(p, status) == state' = IF state.by = p THEN [status |-> status] ELSE state

\* Every later change of the state file is dropped when it names another.
Patch(p, status) ==
    state' = IF state.by = p THEN [by |-> p, status |-> status] ELSE state

Drain(p) ==
    /\ at[p] = "work" /\ pending /\ pending' = FALSE /\ Patch(p, "running")
    /\ UNCHANGED <<lock, start, guard, at, pid, hooks, counts>>

\* The idle time is over after a drain that found nothing.
IdleExit(p) ==
    /\ at[p] = "work" /\ ~pending /\ Goto(p, "exit")
    /\ UNCHANGED <<files, guard, pid, hooks, pending, counts>>

RecordExit(p) ==
    /\ at[p] = "exit" /\ Goto(p, "release") /\ Patch(p, "stopped")
    /\ UNCHANGED <<lock, start, guard, pid, hooks, pending, counts>>

\* A busy guard leaves the lock behind.
ReleaseLock(p) ==
    /\ at[p] = "release" /\ Goto(p, "dead")
    /\ lock' = IF guard = None /\ lock # None /\ lock.by = p THEN None ELSE lock
    /\ UNCHANGED <<start, state, guard, pid, hooks, pending, counts>>

\* The process dies; the kernel drops its hold on the guard.
Dies(p) ==
    /\ Live(p) /\ Fault /\ Goto(p, "dead")
    /\ guard' = IF guard = p THEN None ELSE guard
    /\ UNCHANGED <<files, pid, hooks, pending, commits>>

-----------------------------------------------------------------------------
(* The launcher.                                                           *)

Hook(l, label) == launch' = [launch EXCEPT ![l] = label]

Commit(l) ==
    /\ launch[l] = "idle" /\ commits < MaxCommits /\ commits' = commits + 1
    /\ pending' = TRUE /\ Hook(l, "first")
    /\ UNCHANGED <<files, guard, at, pid, child, faults>>

\* What the state file and the lock tell without the guard.
StatusRunning ==
    \/ Held
    \/ state # None /\ state.status = "starting" /\ Live(state.by)

\* Asked before the start lock and again under it; a busy guard counts as a
\* worker that runs.
Look(l) ==
    \E again \in {"first", "second"} :
        /\ launch[l] = again
        /\ IF StatusRunning \/ guard # None
           THEN Hook(l, IF again = "first" THEN "idle" ELSE "unlock") /\ UNCHANGED guard
           ELSE guard' = l /\ Hook(l, IF again = "first" THEN "inspect" ELSE "inspect2")
        /\ UNCHANGED <<files, at, pid, child, pending, counts>>

Inspect(l) ==
    /\ launch[l] \in {"inspect", "inspect2"} /\ guard' = None
    /\ Hook(l, CASE launch[l] = "inspect" /\ Held -> "idle"
                 [] launch[l] = "inspect" /\ ~Held -> "claim"
                 [] launch[l] = "inspect2" /\ Held -> "unlock"
                 [] OTHER -> "spawn")
    /\ UNCHANGED <<files, at, pid, child, pending, counts>>

GrowsOld ==
    /\ start # None /\ ~start.old /\ Fault /\ start' = [start EXCEPT !.old = TRUE]
    /\ UNCHANGED <<lock, state, guard, at, pid, hooks, pending, commits>>

\* A start lock of more than a minute is unlinked, then created anew; another
\* that is created between the two makes the launch fail.
Claim(l) ==
    /\ \/ /\ launch[l] = "claim" /\ start = None
          /\ start' = [by |-> l, old |-> FALSE] /\ Hook(l, "second")
       \/ launch[l] = "claim" /\ start # None /\ ~start.old /\ Hook(l, "idle") /\ UNCHANGED start
       \/ launch[l] = "claim" /\ start # None /\ start.old /\ start' = None /\ Hook(l, "anew")
       \/ /\ launch[l] = "anew"
          /\ IF start = None THEN start' = [by |-> l, old |-> FALSE] /\ Hook(l, "second")
             ELSE Hook(l, "idle") /\ UNCHANGED start
    /\ UNCHANGED <<lock, state, guard, at, pid, child, pending, counts>>

Spawn(l) ==
    /\ launch[l] = "spawn" /\ Hook(l, "record")
    /\ \E p \in Procs : Begins(p) /\ child' = [child EXCEPT ![l] = p]
    /\ UNCHANGED <<files, guard, pending, counts>>

\* The state file is replaced, whoever it names.
RecordSpawned(l) ==
    /\ launch[l] = "record" /\ Hook(l, "unlock")
    /\ state' = [by |-> child[l], status |-> "starting"]
    /\ UNCHANGED <<lock, start, guard, at, pid, child, pending, counts>>

\* The file is unlinked, whoever made it.
Unlock(l) ==
    /\ launch[l] = "unlock" /\ start' = None /\ Hook(l, "idle")
    /\ child' = [child EXCEPT ![l] = None]
    /\ UNCHANGED <<lock, state, guard, at, pid, pending, counts>>

HookDies(l) ==
    /\ launch[l] # "idle" /\ Fault /\ Hook(l, "idle")
    /\ guard' = IF guard = l THEN None ELSE guard
    /\ child' = [child EXCEPT ![l] = None]
    /\ UNCHANGED <<files, at, pid, pending, commits>>

-----------------------------------------------------------------------------
Works(p) ==
    \/ TakeGuard(p) \/ Judge(p) \/ Remove(p) \/ Create(p) \/ Write(p)
    \/ RecordStart(p) \/ Drain(p) \/ RecordExit(p) \/ ReleaseLock(p)

Launches(l) ==
    Look(l) \/ Inspect(l) \/ Claim(l) \/ Spawn(l) \/ RecordSpawned(l) \/ Unlock(l)

Next ==
    \/ \E p \in Procs : Works(p) \/ IdleExit(p) \/ StartedElsewhere(p) \/ Dies(p)
    \/ \E l \in Launchers : Launches(l) \/ Commit(l) \/ HookDies(l)
    \/ GrowsOld

Spec == Init /\ [][Next]_vars

\* A started process and a hook take their steps.
FairSpec ==
    /\ Spec
    /\ \A p \in Procs : WF_vars(Works(p))
    /\ \A l \in Launchers : WF_vars(Launches(l))

-----------------------------------------------------------------------------
(* Correctness.                                                            *)

Holders == {p \in Procs : at[p] \in {"start", "work", "exit", "release"}}

\* Values of the right kind.
TypeOK ==
    /\ lock \in {None} \cup [by : Procs, pid : Pids, whole : BOOLEAN]
    /\ guard \in {None} \cup Procs \cup Launchers
    /\ start \in {None} \cup [by : Launchers, old : BOOLEAN]
    /\ state \in {None} \cup [by : Procs, status : {"starting", "running", "stopped"}]
    /\ at \in [Procs -> {"none", "new", "look", "remove", "create", "write", "start",
                         "work", "exit", "release", "refused", "dead"}]
    /\ pid \in [Procs -> Pids \cup {None}]
    /\ launch \in [Launchers -> {"idle", "first", "second", "inspect", "inspect2",
                                 "claim", "anew", "spawn", "record", "unlock"}]
    /\ child \in [Launchers -> Procs \cup {None}]
    /\ pending \in BOOLEAN /\ commits \in 0 .. MaxCommits /\ faults \in 0 .. MaxFaults

\* At most one worker runs, however its start races with others, with deaths
\* and with pids that recur; the lock on disk names it as long as it does.
OneWorker ==
    \A p \in Holders : lock # None /\ lock.by = p /\ lock.whole

\* A start is refused only for a worker that is alive and has the lock: what a
\* dead one left, torn or with a pid in use again, keeps nobody out.
RefusedOnlyByLive ==
    [][\A p \in Procs : at[p] # "refused" /\ at'[p] = "refused" => Holders \ {p} # {}]_vars

\* The worker that runs is the one that the state file names, so that its
\* heartbeats, its results and its exit are seen.
HolderOwnsState ==
    \A p \in Procs : at[p] = "work" => state.by = p

\* After a commit the queue is consumed without another one.
CommitIsConsumed == pending ~> ~pending

\* What makes the two inductive: who holds the guard is where the guard is
\* held, and nobody works while it judges, removes and writes the lock.
GuardInv ==
    /\ \A p \in Procs :
          guard = p <=> at[p] \in {"look", "remove", "create", "write"}
    /\ \A l \in Launchers : guard = l <=> launch[l] \in {"inspect", "inspect2"}

LockInv ==
    /\ \A p \in Procs :
          /\ at[p] # "none" => pid[p] # None
          /\ at[p] = "write" =>
                lock # None /\ lock.by = p /\ lock.pid = pid[p] /\ ~lock.whole
          /\ at[p] \in {"remove", "create", "write"} => Holders = {}
          /\ p \in Holders => lock # None /\ lock.pid = pid[p]
    /\ lock # None =>
          /\ at[lock.by] \in {"write", "dead"} \/ lock.by \in Holders
          /\ lock.whole => at[lock.by] # "write"

StateInv ==
    /\ \A p \in Procs : at[p] \in {"work", "exit", "release"} => state # None
    /\ \A l \in Launchers : launch[l] = "record" => child[l] # None

IInv == TypeOK /\ GuardInv /\ LockInv /\ StateInv /\ OneWorker
=============================================================================

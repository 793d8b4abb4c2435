-------------------------- MODULE Services_proof ----------------------------
(***************************************************************************)
(* Proofs about the resident services. One worker runs, and a start is     *)
(* only refused for it, for any number of workers, hooks, pids, commits    *)
(* and faults. The health worker's journal names the checks that run and   *)
(* its status shows what failed, for any projects, checks, requests and    *)
(* crashes. In a maintenance window nobody writes, for any operators,      *)
(* commands, invocations and faults. The move of a queue to the isolated   *)
(* worker loses no request and ends no claim of others that may still run, *)
(* for any keys, old workers, requests, claims and faults.                 *)
(***************************************************************************)
EXTENDS MCServices, FiniteSetTheorems, TLAPS

-----------------------------------------------------------------------------
(***************************************************************************)
(* The run lock.                                                           *)
(***************************************************************************)
\* Before the first worker and the first commit there is nothing to agree on.
LEMMA IInvInit == Init => IInv
<1> SUFFICES ASSUME Init
             PROVE  IInv
  OBVIOUS
<1> USE BoundAssumption DEF Init
<1>1. TypeOK
  <2>1. commits \in 0 .. MaxCommits /\ faults \in 0 .. MaxFaults
    OBVIOUS
  <2>2. pending \in BOOLEAN
    OBVIOUS
  <2> QED
    BY <2>1, <2>2 DEF TypeOK
<1>2. GuardInv /\ LockInv /\ StateInv /\ OneWorker
  BY DEF GuardInv, LockInv, StateInv, OneWorker, Holders
<1> QED
  BY <1>1, <1>2 DEF IInv

\* Every step keeps the kind of each file and of each label.
LEMMA TypeNext == IInv /\ [Next]_vars => TypeOK'
<1> SUFFICES ASSUME IInv, [Next]_vars
             PROVE  TypeOK'
  OBVIOUS
<1> USE BoundAssumption DEF Goto, Hook, Fault, files, hooks, counts
<1>1. ASSUME NEW p \in Procs,
             TakeGuard(p) \/ Judge(p) \/ Remove(p)
      PROVE  TypeOK'
  BY <1>1
     DEF TakeGuard, Judge, Remove, Live, Held, Active, Holders, IInv, TypeOK,
         GuardInv, LockInv, StateInv, OneWorker
<1>2. ASSUME NEW p \in Procs, Create(p)
      PROVE  TypeOK'
  <2>1. [by |-> p, pid |-> pid[p], whole |-> FALSE]
          \in [by : Procs, pid : Pids, whole : BOOLEAN]
    BY <1>2 DEF Create, IInv, TypeOK, LockInv
  <2> QED
    BY <1>2, <2>1 DEF Create, IInv, TypeOK
<1>3. ASSUME NEW p \in Procs, Write(p)
      PROVE  TypeOK'
  <2>1. lock \in [by : Procs, pid : Pids, whole : BOOLEAN]
    BY <1>3 DEF Write, IInv, TypeOK, LockInv
  <2>2. [lock EXCEPT !.whole = TRUE]
          \in [by : Procs, pid : Pids, whole : BOOLEAN]
    BY <2>1
  <2>3. lock' \in {None} \cup [by : Procs, pid : Pids, whole : BOOLEAN]
    BY <1>3, <2>1, <2>2 DEF Write
  <2> QED
    BY <1>3, <2>3 DEF Write, IInv, TypeOK
<1>4. ASSUME NEW p \in Procs,
             RecordStart(p) \/ Drain(p) \/ RecordExit(p) \/ ReleaseLock(p)
      PROVE  TypeOK'
  <2>1. CASE RecordStart(p)
    BY <2>1 DEF RecordStart, IInv, TypeOK, StateInv
  <2>2. CASE Drain(p)
    BY <2>2 DEF Drain, Patch, IInv, TypeOK, StateInv
  <2>3. CASE RecordExit(p)
    BY <2>3 DEF RecordExit, Patch, IInv, TypeOK, StateInv
  <2>4. CASE ReleaseLock(p)
    BY <2>4 DEF ReleaseLock, IInv, TypeOK, StateInv
  <2> QED
    BY <1>4, <2>1, <2>2, <2>3, <2>4
<1>5. ASSUME NEW p \in Procs,
             IdleExit(p) \/ StartedElsewhere(p) \/ Dies(p)
      PROVE  TypeOK'
  BY <1>5
     DEF IdleExit, StartedElsewhere, Dies, Begins, Live, Holders, IInv, TypeOK,
         GuardInv, LockInv, StateInv, OneWorker
<1>6. ASSUME NEW l \in Launchers,
             Look(l) \/ Inspect(l) \/ Spawn(l) \/ RecordSpawned(l) \/
             Unlock(l) \/ Commit(l) \/ HookDies(l)
      PROVE  TypeOK'
  <2>1. CASE Look(l)
    BY <2>1 DEF Look, IInv, TypeOK, StateInv
  <2>2. CASE Inspect(l)
    BY <2>2 DEF Inspect, IInv, TypeOK, StateInv
  <2>3. CASE Spawn(l)
    BY <2>3 DEF Spawn, Begins, IInv, TypeOK, StateInv
  <2>4. CASE RecordSpawned(l)
    BY <2>4 DEF RecordSpawned, IInv, TypeOK, StateInv
  <2>5. CASE Unlock(l)
    BY <2>5 DEF Unlock, IInv, TypeOK, StateInv
  <2>6. CASE Commit(l)
    BY <2>6 DEF Commit, IInv, TypeOK, StateInv
  <2>7. CASE HookDies(l)
    BY <2>7 DEF HookDies, IInv, TypeOK, StateInv
  <2> QED
    BY <1>6, <2>1, <2>2, <2>3, <2>4, <2>5, <2>6, <2>7
<1>7. ASSUME NEW l \in Launchers, Claim(l)
      PROVE  TypeOK'
  <2>1. [by |-> l, old |-> FALSE] \in [by : Launchers, old : BOOLEAN]
    OBVIOUS
  <2>2. start' \in {None} \cup [by : Launchers, old : BOOLEAN]
    BY <1>7, <2>1 DEF Claim, IInv, TypeOK
  <2> QED
    BY <1>7, <2>2 DEF Claim, IInv, TypeOK
<1>8. CASE GrowsOld
  <2>1. start \in [by : Launchers, old : BOOLEAN]
    BY <1>8 DEF GrowsOld, IInv, TypeOK
  <2>2. [start EXCEPT !.old = TRUE] \in [by : Launchers, old : BOOLEAN]
    BY <2>1
  <2> QED
    BY <1>8, <2>2 DEF GrowsOld, IInv, TypeOK
<1>9. CASE UNCHANGED vars
  BY <1>9 DEF vars, IInv, TypeOK
<1> QED
  BY <1>1, <1>2, <1>3, <1>4, <1>5, <1>6, <1>7, <1>8, <1>9
     DEF Next, Works, Launches

\* The guard is let go of with the step that needs it, also by a death.
LEMMA GuardNext == IInv /\ [Next]_vars => GuardInv'
<1> SUFFICES ASSUME IInv, [Next]_vars
             PROVE  GuardInv'
  OBVIOUS
<1> USE BoundAssumption DEF Goto, Hook, Fault, files, hooks, counts
<1>1. ASSUME NEW p \in Procs,
             TakeGuard(p) \/ Judge(p) \/ Remove(p)
      PROVE  GuardInv'
  BY <1>1
     DEF TakeGuard, Judge, Remove, Live, Held, Active, Holders, IInv, TypeOK,
         GuardInv, LockInv, StateInv, OneWorker
<1>2. ASSUME NEW p \in Procs, Create(p)
      PROVE  GuardInv'
  BY <1>2
     DEF Create, Holders, IInv, TypeOK, GuardInv, LockInv, StateInv, OneWorker
<1>3. ASSUME NEW p \in Procs, Write(p)
      PROVE  GuardInv'
  BY <1>3
     DEF Write, Holders, IInv, TypeOK, GuardInv, LockInv, StateInv, OneWorker
<1>4. ASSUME NEW p \in Procs,
             RecordStart(p) \/ Drain(p) \/ RecordExit(p) \/ ReleaseLock(p)
      PROVE  GuardInv'
  BY <1>4
     DEF RecordStart, Drain, RecordExit, ReleaseLock, Patch, Holders, IInv,
         TypeOK, GuardInv, LockInv, StateInv, OneWorker
<1>5. ASSUME NEW p \in Procs,
             IdleExit(p) \/ StartedElsewhere(p) \/ Dies(p)
      PROVE  GuardInv'
  BY <1>5
     DEF IdleExit, StartedElsewhere, Dies, Begins, Live, Holders, IInv, TypeOK,
         GuardInv, LockInv, StateInv, OneWorker
<1>6. ASSUME NEW l \in Launchers,
             Look(l) \/ Inspect(l) \/ Spawn(l) \/ RecordSpawned(l) \/
             Unlock(l) \/ Commit(l) \/ HookDies(l)
      PROVE  GuardInv'
  BY <1>6
     DEF Look, Inspect, Spawn, RecordSpawned, Unlock, Commit, HookDies, Begins,
         Live, Held, Active, Holders, IInv, TypeOK, GuardInv, LockInv,
         StateInv, OneWorker
<1>7. ASSUME NEW l \in Launchers, Claim(l)
      PROVE  GuardInv'
  BY <1>7
     DEF Claim, Holders, IInv, TypeOK, GuardInv, LockInv, StateInv, OneWorker
<1>8. CASE GrowsOld
  BY <1>8
     DEF GrowsOld, Holders, IInv, TypeOK, GuardInv, LockInv, StateInv,
         OneWorker
<1>9. CASE UNCHANGED vars
  BY <1>9
     DEF vars, Holders, IInv, TypeOK, GuardInv, LockInv, StateInv, OneWorker
<1> QED
  BY <1>1, <1>2, <1>3, <1>4, <1>5, <1>6, <1>7, <1>8, <1>9
     DEF Next, Works, Launches

\* Nobody works while a lock is judged, removed or written.
LEMMA LockNext == IInv /\ [Next]_vars => LockInv'
<1> SUFFICES ASSUME IInv, [Next]_vars
             PROVE  LockInv'
  OBVIOUS
<1> USE BoundAssumption DEF Goto, Hook, Fault, files, hooks, counts
<1>1. ASSUME NEW p \in Procs,
             TakeGuard(p) \/ Judge(p) \/ Remove(p)
      PROVE  LockInv'
  BY <1>1
     DEF TakeGuard, Judge, Remove, Live, Held, Active, Holders, IInv, TypeOK,
         GuardInv, LockInv, StateInv, OneWorker
<1>2. ASSUME NEW p \in Procs, Create(p)
      PROVE  LockInv'
  <2>1. [by |-> p, pid |-> pid[p], whole |-> FALSE]
          \in [by : Procs, pid : Pids, whole : BOOLEAN]
    BY <1>2 DEF Create, IInv, TypeOK, LockInv
  <2>2. \A q \in Procs :
           q # p => at[q] \notin {"look", "remove", "create", "write"}
    BY <1>2 DEF Create, IInv, GuardInv
  <2>3. Holders' = {} /\ Holders = {}
    BY <1>2, <2>2 DEF Create, Holders, IInv, TypeOK, LockInv
  <2> QED
    BY <1>2, <2>1, <2>2, <2>3 DEF Create, IInv, TypeOK, LockInv
<1>3. ASSUME NEW p \in Procs, Write(p)
      PROVE  LockInv'
  <2>1. lock \in [by : Procs, pid : Pids, whole : BOOLEAN]
    BY <1>3 DEF Write, IInv, TypeOK, LockInv
  <2> DEFINE w == [lock EXCEPT !.whole = TRUE]
  <2>2. w.by = lock.by /\ w.pid = lock.pid /\ w.whole = TRUE
    BY <2>1
  <2>3. w \in [by : Procs, pid : Pids, whole : BOOLEAN]
    BY <2>1
  <2>5. lock' = w \/ (lock' \in {lock, None} /\ at'[p] = "dead")
    BY <1>3 DEF Write, IInv, TypeOK
  <2> HIDE DEF w
  <2>4. \A q \in Holders : FALSE
    BY <1>3 DEF Write, IInv, LockInv
  <2> QED
    BY <1>3, <2>2, <2>3, <2>4, <2>5
       DEF Write, Holders, IInv, TypeOK, GuardInv, LockInv, OneWorker
<1>4. ASSUME NEW p \in Procs,
             RecordStart(p) \/ Drain(p) \/ RecordExit(p) \/ ReleaseLock(p)
      PROVE  LockInv'
  BY <1>4
     DEF RecordStart, Drain, RecordExit, ReleaseLock, Patch, Holders, IInv,
         TypeOK, GuardInv, LockInv, StateInv, OneWorker
<1>5. ASSUME NEW p \in Procs,
             IdleExit(p) \/ StartedElsewhere(p) \/ Dies(p)
      PROVE  LockInv'
  BY <1>5
     DEF IdleExit, StartedElsewhere, Dies, Begins, Live, Holders, IInv, TypeOK,
         GuardInv, LockInv, StateInv, OneWorker
<1>6. ASSUME NEW l \in Launchers,
             Look(l) \/ Inspect(l) \/ Spawn(l) \/ RecordSpawned(l) \/
             Unlock(l) \/ Commit(l) \/ HookDies(l)
      PROVE  LockInv'
  BY <1>6
     DEF Look, Inspect, Spawn, RecordSpawned, Unlock, Commit, HookDies, Begins,
         Live, Held, Active, Holders, IInv, TypeOK, GuardInv, LockInv,
         StateInv, OneWorker
<1>7. ASSUME NEW l \in Launchers, Claim(l)
      PROVE  LockInv'
  BY <1>7
     DEF Claim, Holders, IInv, TypeOK, GuardInv, LockInv, StateInv, OneWorker
<1>8. CASE GrowsOld
  BY <1>8
     DEF GrowsOld, Holders, IInv, TypeOK, GuardInv, LockInv, StateInv,
         OneWorker
<1>9. CASE UNCHANGED vars
  BY <1>9
     DEF vars, Holders, IInv, TypeOK, GuardInv, LockInv, StateInv, OneWorker
<1> QED
  BY <1>1, <1>2, <1>3, <1>4, <1>5, <1>6, <1>7, <1>8, <1>9
     DEF Next, Works, Launches

\* The state file is there for whoever patches it.
LEMMA StateNext == IInv /\ [Next]_vars => StateInv'
<1> SUFFICES ASSUME IInv, [Next]_vars
             PROVE  StateInv'
  OBVIOUS
<1> USE BoundAssumption DEF Goto, Hook, Fault, files, hooks, counts
<1>1. ASSUME NEW p \in Procs,
             TakeGuard(p) \/ Judge(p) \/ Remove(p)
      PROVE  StateInv'
  BY <1>1
     DEF TakeGuard, Judge, Remove, Live, Held, Active, Holders, IInv, TypeOK,
         GuardInv, LockInv, StateInv, OneWorker
<1>2. ASSUME NEW p \in Procs, Create(p)
      PROVE  StateInv'
  BY <1>2
     DEF Create, Holders, IInv, TypeOK, GuardInv, LockInv, StateInv, OneWorker
<1>3. ASSUME NEW p \in Procs, Write(p)
      PROVE  StateInv'
  BY <1>3
     DEF Write, Holders, IInv, TypeOK, GuardInv, LockInv, StateInv, OneWorker
<1>4. ASSUME NEW p \in Procs,
             RecordStart(p) \/ Drain(p) \/ RecordExit(p) \/ ReleaseLock(p)
      PROVE  StateInv'
  BY <1>4
     DEF RecordStart, Drain, RecordExit, ReleaseLock, Patch, Holders, IInv,
         TypeOK, GuardInv, LockInv, StateInv, OneWorker
<1>5. ASSUME NEW p \in Procs,
             IdleExit(p) \/ StartedElsewhere(p) \/ Dies(p)
      PROVE  StateInv'
  BY <1>5
     DEF IdleExit, StartedElsewhere, Dies, Begins, Live, Holders, IInv, TypeOK,
         GuardInv, LockInv, StateInv, OneWorker
<1>6. ASSUME NEW l \in Launchers,
             Look(l) \/ Inspect(l) \/ Spawn(l) \/ RecordSpawned(l) \/
             Unlock(l) \/ Commit(l) \/ HookDies(l)
      PROVE  StateInv'
  BY <1>6
     DEF Look, Inspect, Spawn, RecordSpawned, Unlock, Commit, HookDies, Begins,
         Live, Held, Active, Holders, IInv, TypeOK, GuardInv, LockInv,
         StateInv, OneWorker
<1>7. ASSUME NEW l \in Launchers, Claim(l)
      PROVE  StateInv'
  BY <1>7
     DEF Claim, Holders, IInv, TypeOK, GuardInv, LockInv, StateInv, OneWorker
<1>8. CASE GrowsOld
  BY <1>8
     DEF GrowsOld, Holders, IInv, TypeOK, GuardInv, LockInv, StateInv,
         OneWorker
<1>9. CASE UNCHANGED vars
  BY <1>9
     DEF vars, Holders, IInv, TypeOK, GuardInv, LockInv, StateInv, OneWorker
<1> QED
  BY <1>1, <1>2, <1>3, <1>4, <1>5, <1>6, <1>7, <1>8, <1>9
     DEF Next, Works, Launches

\* A second holder would have had to judge the first one's lock stale.
LEMMA HolderNext == IInv /\ [Next]_vars => OneWorker'
<1> SUFFICES ASSUME IInv, [Next]_vars
             PROVE  OneWorker'
  OBVIOUS
<1> USE BoundAssumption DEF Goto, Hook, Fault, files, hooks, counts
<1>1. ASSUME NEW p \in Procs,
             TakeGuard(p) \/ Judge(p) \/ Remove(p)
      PROVE  OneWorker'
  BY <1>1
     DEF TakeGuard, Judge, Remove, Live, Held, Active, Holders, IInv, TypeOK,
         GuardInv, LockInv, StateInv, OneWorker
<1>2. ASSUME NEW p \in Procs, Create(p)
      PROVE  OneWorker'
  BY <1>2
     DEF Create, Holders, IInv, TypeOK, GuardInv, LockInv, StateInv, OneWorker
<1>3. ASSUME NEW p \in Procs, Write(p)
      PROVE  OneWorker'
  <2>1. lock \in [by : Procs, pid : Pids, whole : BOOLEAN]
    BY <1>3 DEF Write, IInv, TypeOK, LockInv
  <2> DEFINE w == [lock EXCEPT !.whole = TRUE]
  <2>2. w.by = lock.by /\ w.pid = lock.pid /\ w.whole = TRUE
    BY <2>1
  <2>3. w \in [by : Procs, pid : Pids, whole : BOOLEAN]
    BY <2>1
  <2>5. lock' = w \/ (lock' \in {lock, None} /\ at'[p] = "dead")
    BY <1>3 DEF Write, IInv, TypeOK
  <2> HIDE DEF w
  <2>4. \A q \in Holders : FALSE
    BY <1>3 DEF Write, IInv, LockInv
  <2> QED
    BY <1>3, <2>2, <2>3, <2>4, <2>5
       DEF Write, Holders, IInv, TypeOK, GuardInv, LockInv, OneWorker
<1>4. ASSUME NEW p \in Procs,
             RecordStart(p) \/ Drain(p) \/ RecordExit(p) \/ ReleaseLock(p)
      PROVE  OneWorker'
  BY <1>4
     DEF RecordStart, Drain, RecordExit, ReleaseLock, Patch, Holders, IInv,
         TypeOK, GuardInv, LockInv, StateInv, OneWorker
<1>5. ASSUME NEW p \in Procs,
             IdleExit(p) \/ StartedElsewhere(p) \/ Dies(p)
      PROVE  OneWorker'
  BY <1>5
     DEF IdleExit, StartedElsewhere, Dies, Begins, Live, Holders, IInv, TypeOK,
         GuardInv, LockInv, StateInv, OneWorker
<1>6. ASSUME NEW l \in Launchers,
             Look(l) \/ Inspect(l) \/ Spawn(l) \/ RecordSpawned(l) \/
             Unlock(l) \/ Commit(l) \/ HookDies(l)
      PROVE  OneWorker'
  BY <1>6
     DEF Look, Inspect, Spawn, RecordSpawned, Unlock, Commit, HookDies, Begins,
         Live, Held, Active, Holders, IInv, TypeOK, GuardInv, LockInv,
         StateInv, OneWorker
<1>7. ASSUME NEW l \in Launchers, Claim(l)
      PROVE  OneWorker'
  BY <1>7
     DEF Claim, Holders, IInv, TypeOK, GuardInv, LockInv, StateInv, OneWorker
<1>8. CASE GrowsOld
  BY <1>8
     DEF GrowsOld, Holders, IInv, TypeOK, GuardInv, LockInv, StateInv,
         OneWorker
<1>9. CASE UNCHANGED vars
  BY <1>9
     DEF vars, Holders, IInv, TypeOK, GuardInv, LockInv, StateInv, OneWorker
<1> QED
  BY <1>1, <1>2, <1>3, <1>4, <1>5, <1>6, <1>7, <1>8, <1>9
     DEF Next, Works, Launches

-----------------------------------------------------------------------------
(* The theorems.                                                           *)

\* Guard, lock, state file and processes agree as IInv says.
THEOREM Invariance == Spec => []IInv
<1>1. IInv /\ [Next]_vars => IInv'
  BY TypeNext, GuardNext, LockNext, StateNext, HolderNext DEF IInv
<1> QED
  BY IInvInit, <1>1, PTL DEF Spec

\* However starts race with each other, with deaths and with pids that recur,
\* one worker runs at most, and the lock on disk names it.
THEOREM OneWorkerRuns == Spec => []OneWorker
<1>1. IInv => OneWorker
  BY DEF IInv
<1> QED
  BY <1>1, Invariance, PTL

\* Only the judgement of the lock refuses a start.
LEMMA RefusedByJudge ==
  ASSUME IInv, [Next]_vars, NEW p \in Procs, at[p] # "refused",
         at'[p] = "refused"
  PROVE  Judge(p) /\ Held /\ at[p] = "look"
<1> USE DEF IInv, TypeOK, Goto, Begins
<1>1. ASSUME NEW q \in Procs, Judge(q)
      PROVE  Judge(p) /\ Held /\ at[p] = "look"
  BY <1>1 DEF Judge
<1>2. ASSUME NEW q \in Procs,
             \/ TakeGuard(q) \/ Remove(q) \/ Create(q) \/ Write(q)
             \/ RecordStart(q) \/ Drain(q) \/ RecordExit(q) \/ ReleaseLock(q)
      PROVE  FALSE
  BY <1>2
     DEF TakeGuard, Remove, Create, Write, RecordStart, Drain, RecordExit,
         ReleaseLock
<1>3. ASSUME NEW q \in Procs, IdleExit(q) \/ StartedElsewhere(q) \/ Dies(q)
      PROVE  FALSE
  BY <1>3 DEF IdleExit, StartedElsewhere, Dies
<1>4. ASSUME NEW l \in Launchers, Launches(l) \/ Commit(l) \/ HookDies(l)
      PROVE  FALSE
  BY <1>4
     DEF Launches, Look, Inspect, Claim, Spawn, RecordSpawned, Unlock, Commit,
         HookDies
<1>5. CASE GrowsOld \/ UNCHANGED vars
  BY <1>5 DEF GrowsOld, vars
<1> QED
  BY <1>1, <1>2, <1>3, <1>4, <1>5 DEF Next, Works

\* A start is refused only for a worker that is alive and has the lock: a torn
\* lock, a dead worker's and one whose pid was born again keep nobody out.
THEOREM RefusalIsJust == Spec => RefusedOnlyByLive
<1>1. ASSUME IInv, [Next]_vars, NEW p \in Procs, at[p] # "refused",
             at'[p] = "refused"
      PROVE  Holders \ {p} # {}
  <2>1. Held /\ at[p] = "look"
    BY <1>1, RefusedByJudge
  <2>2. lock # None /\ lock.by \in Procs /\ lock.whole /\ at[lock.by] # "dead"
    BY <2>1 DEF Held, Active, Live
  <2>3. lock.by \in Holders
    BY <1>1, <2>2 DEF IInv, LockInv
  <2> QED
    BY <2>1, <2>3 DEF Holders
<1>2. IInv /\ [Next]_vars =>
        [\A p \in Procs : at[p] # "refused" /\ at'[p] = "refused"
                             => Holders \ {p} # {}]_vars
  BY <1>1
<1> QED
  BY <1>2, Invariance, PTL DEF Spec, RefusedOnlyByLive

-----------------------------------------------------------------------------
(***************************************************************************)
(* Health refresh.                                                         *)
(***************************************************************************)
\* A queue behind another one that it shares nothing with repeats nothing.
LEMMA ConcatFits ==
  ASSUME NEW S, NEW p \in Seq(S), NEW q \in Seq(S),
         HealthRefresh!IsInjective(p), HealthRefresh!IsInjective(q),
         HealthRefresh!ToSet(q) \cap HealthRefresh!ToSet(p) = {}
  PROVE  p \o q \in Seq(S) /\ HealthRefresh!IsInjective(p \o q)
<1>1. \A i \in DOMAIN p, j \in DOMAIN q : p[i] # q[j]
  BY DEF HealthRefresh!ToSet
<1> QED
  BY <1>1 DEF HealthRefresh!IsInjective

\* A project that is asked for is in the queue once.
LEMMA RequestedFits ==
  ASSUME NEW p \in Checked, NEW q \in Seq(Checked),
         HealthRefresh!IsInjective(q)
  PROVE  /\ HealthRefresh!Requested(p, q) \in Seq(Checked)
         /\ HealthRefresh!IsInjective(HealthRefresh!Requested(p, q))
  BY DEF HealthRefresh!Requested, HealthRefresh!IsInjective,
         HealthRefresh!ToSet

\* The projects can be counted off in some order.
LEMMA CardinalityFits ==
  ASSUME HealthRefresh!BoundAssumption
  PROVE  /\ HealthRefresh!Cardinality(Checked) \in Nat
         /\ \E f \in [1 .. HealthRefresh!Cardinality(Checked) -> Checked] :
               HealthRefresh!IsInjective(f)
<1> DEFINE n == Cardinality(Checked)
<1>1. IsFiniteSet(Checked)
  BY DEF HealthRefresh!BoundAssumption, HealthRefresh!IsFiniteSet, IsFiniteSet
<1>2. n \in Nat /\ ExistsBijection(1 .. n, Checked)
  BY <1>1, FS_CardinalityType
<1>3. HealthRefresh!Cardinality(Checked) = n
  BY DEF HealthRefresh!Cardinality, Cardinality
<1>4. PICK f \in Bijection(1 .. n, Checked) : TRUE
  BY <1>2 DEF ExistsBijection
<1>5. f \in [1 .. n -> Checked] /\ HealthRefresh!IsInjective(f)
  BY <1>4 DEF Bijection, Injection, IsInjective, HealthRefresh!IsInjective
<1> QED
  BY <1>2, <1>3, <1>5

\* The startup asks for every project, each once.
LEMMA AllFits ==
  ASSUME HealthRefresh!BoundAssumption
  PROVE  /\ HealthRefresh!All \in Seq(Checked)
         /\ HealthRefresh!IsInjective(HealthRefresh!All)
<1>1. /\ HealthRefresh!All
            \in [1 .. HealthRefresh!Cardinality(Checked) -> Checked]
      /\ HealthRefresh!IsInjective(HealthRefresh!All)
  BY CardinalityFits DEF HealthRefresh!All, HealthRefresh!SetToSeq
<1> QED
  BY <1>1, CardinalityFits

\* The first worker starts with nothing in hand and nothing recorded.
LEMMA HealthInit ==
  ASSUME HealthRefresh!BoundAssumption, HealthRefresh!Init
  PROVE  HealthRefresh!IInv
<1> USE DEF HealthRefresh!BoundAssumption, HealthRefresh!Init,
            HealthRefresh!Ops, HealthRefresh!States, HealthRefresh!InHandAt
<1>1. HealthRefresh!TypeOK
  <2>1. << >> \in Seq(Checked) /\ HealthRefresh!IsInjective(<< >>)
    BY DEF HealthRefresh!IsInjective
  <2>2. clean \in BOOLEAN /\ starting \in BOOLEAN /\ healthFailed \in BOOLEAN
    OBVIOUS
  <2>3. /\ proc \in [1 .. HealthOps -> HealthRefresh!States]
        /\ verdict \in [Checked -> {"none", "ok", "bad"}]
    OBVIOUS
  <2>4. ops \in 0 .. HealthOps
    OBVIOUS
  <2> QED
    BY <2>1, <2>2, <2>3, <2>4 DEF HealthRefresh!TypeOK
<1>2. HealthRefresh!CurFits /\ HealthRefresh!EntryFits
  BY DEF HealthRefresh!CurFits, HealthRefresh!EntryFits
<1>3. HealthRefresh!FlushFits
  BY DEF HealthRefresh!FlushFits
<1>4. HealthRefresh!RunningIsJournalled /\ HealthRefresh!FailureShown
  BY DEF HealthRefresh!RunningIsJournalled, HealthRefresh!FailureShown
<1> QED
  BY <1>1, <1>2, <1>3, <1>4 DEF HealthRefresh!IInv

\* Every step of the worker, of a check, of its death and of its restart keeps
\* the inductive invariant.
LEMMA HealthNext ==
  ASSUME HealthRefresh!BoundAssumption, HealthRefresh!IInv,
           [HealthRefresh!Next]_(HealthRefresh!vars)
  PROVE  HealthRefresh!IInv'
<1> USE DEF HealthRefresh!BoundAssumption, HealthRefresh!IInv,
            HealthRefresh!TypeOK, HealthRefresh!CurFits,
            HealthRefresh!EntryFits, HealthRefresh!FlushFits,
            HealthRefresh!RunningIsJournalled, HealthRefresh!FailureShown,
            HealthRefresh!Ops, HealthRefresh!States, HealthRefresh!InHandAt,
            HealthRefresh!EntryOf
<1>a. /\ cur = None
         \/ cur \in [op : 0 .. HealthOps, project : Checked, ok : BOOLEAN]
      /\ healthPc \in HealthRefresh!InHandAt
         => cur \in [op : 0 .. HealthOps, project : Checked, ok : BOOLEAN]
      /\ entry = None \/ entry \in [op : 1 .. HealthOps, project : Checked]
  OBVIOUS
<1>b. ASSUME NEW c
             \in [op : 0 .. HealthOps, project : Checked, ok : BOOLEAN],
                 c.op # 0
      PROVE  HealthRefresh!EntryOf(c)
             \in [op : 1 .. HealthOps, project : Checked]
  BY <1>b
<1>c. << >> \in Seq(Checked) /\ HealthRefresh!IsInjective(<< >>)
  BY DEF HealthRefresh!IsInjective
<1>d. /\ HealthOps \in Nat /\ ops \in 0 .. HealthOps
      /\ proc \in [1 .. HealthOps -> HealthRefresh!States]
      /\ clean \in BOOLEAN /\ healthFailed \in BOOLEAN
  OBVIOUS
<1> USE <1>a, <1>b, <1>c, <1>d
<1>1. CASE HealthRefresh!Request
  <2> USE <1>1 DEF HealthRefresh!Request, HealthRefresh!Requested,
                   HealthRefresh!ToSet, HealthRefresh!round
  <2>1. \A p \in Checked : HealthRefresh!Requested(p, healthPending)
        \in Seq(Checked)
          /\ HealthRefresh!IsInjective(HealthRefresh!Requested(p,
               healthPending))
    BY RequestedFits
  <2>2. HealthRefresh!TypeOK'
    BY <2>1
  <2>3. HealthRefresh!CurFits'
    BY <2>1
  <2>4. HealthRefresh!EntryFits'
    BY <2>1
  <2>5. HealthRefresh!FlushFits'
    BY <2>1
  <2>6. HealthRefresh!RunningIsJournalled'
    BY <2>1
  <2>7. HealthRefresh!FailureShown'
    BY <2>1
  <2> QED
    BY <2>2, <2>3, <2>4, <2>5, <2>6, <2>7 DEF HealthRefresh!IInv
<1>2. CASE HealthRefresh!StartFlush
  <2> USE <1>2 DEF HealthRefresh!StartFlush, HealthRefresh!counts
  <2>1. healthPending' = << >> /\ HealthRefresh!IsInjective(healthPending')
    BY DEF HealthRefresh!IsInjective
  <2>2. HealthRefresh!TypeOK'
    BY <2>1
  <2>3. HealthRefresh!CurFits'
    BY <2>1
  <2>4. HealthRefresh!EntryFits'
    BY <2>1
  <2>5. HealthRefresh!FlushFits'
    BY <2>1
  <2>6. HealthRefresh!RunningIsJournalled'
    BY <2>1
  <2>7. HealthRefresh!FailureShown'
    BY <2>1
  <2> QED
    BY <2>2, <2>3, <2>4, <2>5, <2>6, <2>7 DEF HealthRefresh!IInv
<1>3. CASE HealthRefresh!Expire
  <2> USE <1>3 DEF HealthRefresh!Expire, HealthRefresh!Fault,
                   HealthRefresh!Beside, HealthRefresh!Orders,
                   HealthRefresh!Cardinality, HealthRefresh!ToSet,
                   HealthRefresh!round
  <2>1. PICK rest \in HealthRefresh!Beside(healthPending, flush) :
               healthPending' = flush \o rest
    BY ONLY <1>3 DEF HealthRefresh!Expire
  <2>2. rest \in Seq(Checked) /\ HealthRefresh!IsInjective(rest)
    <3>1. rest \in HealthRefresh!Orders
      BY ONLY <2>1 DEF HealthRefresh!Beside
    <3>2. PICK n \in 0 .. HealthRefresh!Cardinality(Checked) :
                 rest \in [1 .. n -> Checked]
      BY ONLY <3>1 DEF HealthRefresh!Orders
    <3>3. n \in Nat
      BY ONLY <3>2, CardinalityFits, HealthRefresh!BoundAssumption
    <3>4. rest \in Seq(Checked)
      BY ONLY <3>2, <3>3
    <3> QED
      BY ONLY <3>1, <3>4 DEF HealthRefresh!Orders
  <2>3. HealthRefresh!ToSet(rest) \cap HealthRefresh!ToSet(flush) = {}
    BY ONLY <2>1 DEF HealthRefresh!Beside
  <2>4. flush \in Seq(Checked) /\ HealthRefresh!IsInjective(flush)
    OBVIOUS
  <2>5. healthPending' \in Seq(Checked)
        /\ HealthRefresh!IsInjective(healthPending')
    BY ONLY <2>1, <2>2, <2>3, <2>4, ConcatFits
  <2>6. HealthRefresh!TypeOK'
    BY <2>5
  <2>7. HealthRefresh!CurFits'
    OBVIOUS
  <2>8. HealthRefresh!EntryFits'
    OBVIOUS
  <2>9. HealthRefresh!FlushFits'
    OBVIOUS
  <2>10. HealthRefresh!RunningIsJournalled'
    OBVIOUS
  <2>11. HealthRefresh!FailureShown'
    OBVIOUS
  <2> QED
    BY <2>6, <2>7, <2>8, <2>9, <2>10, <2>11 DEF HealthRefresh!IInv
<1>4. CASE HealthRefresh!EndFlush
  BY <1>4 DEF HealthRefresh!EndFlush, HealthRefresh!Fault
<1>5. CASE HealthRefresh!Prepare
  <2> USE <1>5 DEF HealthRefresh!Prepare, HealthRefresh!Fault,
                   HealthRefresh!Requested, HealthRefresh!ToSet
  <2>1. Head(flush) \in Checked /\ Tail(flush) \in Seq(Checked)
    OBVIOUS
  <2>2. HealthRefresh!IsInjective(Tail(flush))
    BY DEF HealthRefresh!IsInjective
  <2>3. (ops < HealthOps
          => [op |-> ops + 1, project |-> Head(flush), ok |-> FALSE]
            \in [op : 0 .. HealthOps, project : Checked, ok : BOOLEAN])
              /\ [op |-> 0, project |-> Head(flush), ok |-> FALSE]
                 \in [op : 0 .. HealthOps, project : Checked, ok : BOOLEAN]
    BY ONLY <1>d, <2>1
  <2>4. \/ ops < HealthOps
           /\ cur' = [op |-> ops + 1, project |-> Head(flush), ok |-> FALSE]
       \/ cur' = [op |-> 0, project |-> Head(flush), ok |-> FALSE]
    BY ONLY <1>5 DEF HealthRefresh!Prepare
  <2>5. cur' \in [op : 0 .. HealthOps, project : Checked, ok : BOOLEAN]
    BY ONLY <2>3, <2>4
  <2>6. cur'.project = Head(flush) /\ ~cur'.ok
    BY ONLY <2>4
  <2>7. proc' \in [1 .. HealthOps -> HealthRefresh!States]
    BY <2>1
  <2>8. ops' \in 0 .. HealthOps
    OBVIOUS
  <2>9. verdict' \in [Checked -> {"none", "ok", "bad"}]
    BY <2>1
  <2>10. HealthRefresh!Requested(Head(flush), healthPending) \in Seq(Checked)
         /\ HealthRefresh!IsInjective(HealthRefresh!Requested(Head(flush),
              healthPending))
    BY <2>1, RequestedFits
  <2>11. healthPending' \in Seq(Checked)
         /\ HealthRefresh!IsInjective(healthPending')
    BY <2>10
  <2>12. HealthRefresh!TypeOK'
    BY <2>1, <2>2, <2>3, <2>4, <2>5, <2>6, <2>7, <2>8, <2>9, <2>10, <2>11
  <2>13. HealthRefresh!CurFits'
    BY <2>1, <2>2, <2>3, <2>4, <2>5, <2>6, <2>7, <2>8, <2>9, <2>10, <2>11
  <2>14. HealthRefresh!EntryFits'
    BY <2>1, <2>2, <2>3, <2>4, <2>5, <2>6, <2>7, <2>8, <2>9, <2>10, <2>11
  <2>15. HealthRefresh!FlushFits'
    BY <2>1, <2>2, <2>3, <2>4, <2>5, <2>6, <2>7, <2>8, <2>9, <2>10, <2>11
  <2>16. HealthRefresh!RunningIsJournalled'
    BY <2>1, <2>2, <2>3, <2>4, <2>5, <2>6, <2>7, <2>8, <2>9, <2>10, <2>11
  <2>17. HealthRefresh!FailureShown'
    BY <2>1, <2>2, <2>3, <2>4, <2>5, <2>6, <2>7, <2>8, <2>9, <2>10, <2>11
  <2> QED
    BY <2>12, <2>13, <2>14, <2>15, <2>16, <2>17 DEF HealthRefresh!IInv
<1>6. CASE HealthRefresh!Save
  <2> USE <1>6 DEF HealthRefresh!Save, HealthRefresh!Fault, HealthRefresh!round
  <2>1. cur \in [op : 0 .. HealthOps, project : Checked, ok : BOOLEAN]
        /\ HealthRefresh!EntryOf(cur)
           \in [op : 1 .. HealthOps, project : Checked]
    OBVIOUS
  <2>2. entry' = None \/ entry' \in [op : 1 .. HealthOps, project : Checked]
    BY <2>1
  <2>3. clean' \in BOOLEAN
    OBVIOUS
  <2>4. HealthRefresh!TypeOK'
    BY <2>1, <2>2, <2>3
  <2>5. HealthRefresh!CurFits'
    BY <2>1, <2>2, <2>3
  <2>6. HealthRefresh!EntryFits'
    BY <2>1, <2>2, <2>3
  <2>7. HealthRefresh!FlushFits'
    BY <2>1, <2>2, <2>3
  <2>8. HealthRefresh!RunningIsJournalled'
    BY <2>1, <2>2, <2>3
  <2>9. HealthRefresh!FailureShown'
    BY <2>1, <2>2, <2>3
  <2> QED
    BY <2>4, <2>5, <2>6, <2>7, <2>8, <2>9 DEF HealthRefresh!IInv
<1>7. CASE HealthRefresh!Activate
  <2> USE <1>7 DEF HealthRefresh!Activate, HealthRefresh!Fault,
                   HealthRefresh!round
  <2>1. cur \in [op : 0 .. HealthOps, project : Checked, ok : BOOLEAN]
        /\ cur.op \in 1 .. HealthOps
    OBVIOUS
  <2>2. proc' = proc \/ proc' = [proc EXCEPT ![cur.op] = "blocked"]
        \/ proc' = [proc EXCEPT ![cur.op] = "running"]
    BY ONLY <1>7 DEF HealthRefresh!Activate
  <2>3. proc' \in [1 .. HealthOps -> HealthRefresh!States]
        /\ \A o \in 1 .. HealthOps : o # cur.op => proc'[o] = proc[o]
    BY ONLY <1>d, <2>1, <2>2 DEF HealthRefresh!States
  <2>4. clean' \in BOOLEAN
    OBVIOUS
  <2>5. entry.op = cur.op /\ cur' = cur /\ entry' = entry
    OBVIOUS
  <2>6. HealthRefresh!TypeOK'
    BY <2>1, <2>2, <2>3, <2>4, <2>5
  <2>7. HealthRefresh!CurFits'
    BY <2>1, <2>2, <2>3, <2>4, <2>5
  <2>8. HealthRefresh!EntryFits'
    BY <2>1, <2>2, <2>3, <2>4, <2>5
  <2>9. HealthRefresh!FlushFits'
    BY <2>1, <2>2, <2>3, <2>4, <2>5
  <2>10. HealthRefresh!RunningIsJournalled'
    BY <2>1, <2>2, <2>3, <2>4, <2>5
  <2>11. HealthRefresh!FailureShown'
    BY <2>1, <2>2, <2>3, <2>4, <2>5
  <2> QED
    BY <2>6, <2>7, <2>8, <2>9, <2>10, <2>11 DEF HealthRefresh!IInv
<1>8. CASE HealthRefresh!Poll
  <2> USE <1>8 DEF HealthRefresh!Poll, HealthRefresh!Fault, HealthRefresh!round
  <2>1. cur \in [op : 0 .. HealthOps, project : Checked, ok : BOOLEAN]
    OBVIOUS
  <2>2. (proc[cur.op] = "ok") \in BOOLEAN
    OBVIOUS
  <2>3. cur' \in [op : 0 .. HealthOps, project : Checked, ok : BOOLEAN]
        /\ cur'.op = cur.op /\ cur'.project = cur.project
           /\ (cur'.ok => proc[cur.op] = "ok" \/ cur.ok)
    BY ONLY <1>8, <2>1, <2>2 DEF HealthRefresh!Poll
  <2>4. clean' \in BOOLEAN
    OBVIOUS
  <2>5. HealthRefresh!TypeOK'
    BY <2>1, <2>2, <2>3, <2>4
  <2>6. HealthRefresh!CurFits'
    BY <2>1, <2>2, <2>3, <2>4
  <2>7. HealthRefresh!EntryFits'
    BY <2>1, <2>2, <2>3, <2>4
  <2>8. HealthRefresh!FlushFits'
    BY <2>1, <2>2, <2>3, <2>4
  <2>9. HealthRefresh!RunningIsJournalled'
    BY <2>1, <2>2, <2>3, <2>4
  <2>10. HealthRefresh!FailureShown'
    BY <2>1, <2>2, <2>3, <2>4
  <2> QED
    BY <2>5, <2>6, <2>7, <2>8, <2>9, <2>10 DEF HealthRefresh!IInv
<1>9. CASE HealthRefresh!Terminate
  <2> USE <1>9 DEF HealthRefresh!Terminate, HealthRefresh!Fault,
                   HealthRefresh!work
  <2>1. cur \in [op : 0 .. HealthOps, project : Checked, ok : BOOLEAN]
        /\ cur.op \in 1 .. HealthOps
    OBVIOUS
  <2>2. healthFailed' \in BOOLEAN
    OBVIOUS
  <2>3. proc' = proc \/ proc' = [proc EXCEPT ![cur.op] = "dead"]
    BY ONLY <1>9 DEF HealthRefresh!Terminate
  <2>4. proc' \in [1 .. HealthOps -> HealthRefresh!States]
        /\ \A o \in 1 .. HealthOps : o # cur.op => proc'[o] = proc[o]
    BY ONLY <1>d, <2>1, <2>3 DEF HealthRefresh!States
  <2>5. (healthPc' = "mark" /\ proc'[cur.op] = "dead"
          /\ healthFailed' = healthFailed) \/ healthPc' = "fatal"
    BY ONLY <1>9, <2>1, <1>d DEF HealthRefresh!Terminate
  <2>6. HealthRefresh!TypeOK'
    BY <2>1, <2>2, <2>3, <2>4, <2>5
  <2>7. HealthRefresh!CurFits'
    BY <2>1, <2>2, <2>3, <2>4, <2>5
  <2>8. HealthRefresh!EntryFits'
    BY <2>1, <2>2, <2>3, <2>4, <2>5
  <2>9. HealthRefresh!FlushFits'
    BY <2>1, <2>2, <2>3, <2>4, <2>5
  <2>10. HealthRefresh!RunningIsJournalled'
    BY <2>1, <2>2, <2>3, <2>4, <2>5
  <2>11. HealthRefresh!FailureShown'
    BY <2>1, <2>2, <2>3, <2>4, <2>5
  <2> QED
    BY <2>6, <2>7, <2>8, <2>9, <2>10, <2>11 DEF HealthRefresh!IInv
<1>10. CASE HealthRefresh!Mark
  BY <1>10 DEF HealthRefresh!Mark, HealthRefresh!Fault, HealthRefresh!work
<1>11. CASE HealthRefresh!Clear
  BY <1>11 DEF HealthRefresh!Clear, HealthRefresh!Fault, HealthRefresh!work
<1>12. CASE HealthRefresh!Recover
  <2> USE <1>12 DEF HealthRefresh!Recover, HealthRefresh!All,
                    HealthRefresh!SetToSeq, HealthRefresh!Fault,
                    HealthRefresh!round
  <2>1. flush' \in Seq(Checked) /\ HealthRefresh!IsInjective(flush')
    BY AllFits
  <2>2. entry # None
        => [op |-> entry.op, project |-> entry.project, ok |-> FALSE]
          \in [op : 0 .. HealthOps, project : Checked, ok : BOOLEAN]
    OBVIOUS
  <2>3. cur' = None
        \/ cur' \in [op : 0 .. HealthOps, project : Checked, ok : BOOLEAN]
    BY <2>2
  <2>4. cur = None /\ tried = {}
        /\ healthPc' \in {"next", "mark", "terminate", "fatal"}
           /\ (healthPc' = "next" => cur' = None)
              /\ (entry = None => healthPc' = "next")
                 /\ (entry # None
                      => cur'
                        = [op |-> entry.op, project |-> entry.project,
                        ok |-> FALSE])
                        /\ (healthPc' = "mark"
                        => proc[entry.op] = "dead" /\ proc' = proc)
    OBVIOUS
  <2>5. entry # None => cur' # None
    BY <2>2, <2>4
  <2>6. entry # None => cur'.op = entry.op /\ ~cur'.ok
    BY ONLY <2>4
  <2>7. entry # None => entry.op # 0
    OBVIOUS
  <2>8. healthFailed' \in BOOLEAN
    OBVIOUS
  <2>9. HealthRefresh!TypeOK'
    BY <2>1, <2>2, <2>3, <2>4, <2>5, <2>6, <2>7, <2>8
  <2>10. HealthRefresh!CurFits'
    BY <2>1, <2>2, <2>3, <2>4, <2>5, <2>6, <2>7, <2>8
  <2>11. HealthRefresh!EntryFits'
    BY <2>1, <2>2, <2>3, <2>4, <2>5, <2>6, <2>7, <2>8
  <2>12. HealthRefresh!FlushFits'
    BY <2>1, <2>2, <2>3, <2>4, <2>5, <2>6, <2>7, <2>8
  <2>13. HealthRefresh!RunningIsJournalled'
    BY <2>1, <2>2, <2>3, <2>4, <2>5, <2>6, <2>7, <2>8
  <2>14. HealthRefresh!FailureShown'
    BY <2>1, <2>2, <2>3, <2>4, <2>5, <2>6, <2>7, <2>8
  <2> QED
    BY <2>9, <2>10, <2>11, <2>12, <2>13, <2>14 DEF HealthRefresh!IInv
<1>13. CASE HealthRefresh!Crash
  <2> USE <1>13 DEF HealthRefresh!Crash
  <2>1. healthPending' \in Seq(Checked)
        /\ HealthRefresh!IsInjective(healthPending')
    BY DEF HealthRefresh!IsInjective
  <2>2. flush' \in Seq(Checked) /\ HealthRefresh!IsInjective(flush')
    BY DEF HealthRefresh!IsInjective
  <2>3. HealthRefresh!TypeOK'
    BY <2>1, <2>2
  <2>4. HealthRefresh!CurFits'
    BY <2>1, <2>2
  <2>5. HealthRefresh!EntryFits'
    BY <2>1, <2>2
  <2>6. HealthRefresh!FlushFits'
    BY <2>1, <2>2
  <2>7. HealthRefresh!RunningIsJournalled'
    BY <2>1, <2>2
  <2>8. HealthRefresh!FailureShown'
    BY <2>1, <2>2
  <2> QED
    BY <2>3, <2>4, <2>5, <2>6, <2>7, <2>8 DEF HealthRefresh!IInv
<1>14. CASE HealthRefresh!Restart
  BY <1>14 DEF HealthRefresh!Restart, HealthRefresh!work, HealthRefresh!counts
<1>15. ASSUME NEW o \in 1 .. HealthOps, HealthRefresh!Exits(o)
      PROVE  HealthRefresh!IInv'
  BY <1>15 DEF HealthRefresh!Exits, HealthRefresh!InHand, HealthRefresh!work,
               HealthRefresh!counts
<1>16. ASSUME NEW o \in 1 .. HealthOps, HealthRefresh!GoesAway(o)
      PROVE  HealthRefresh!IInv'
  BY <1>16 DEF HealthRefresh!GoesAway, HealthRefresh!InHand,
               HealthRefresh!work, HealthRefresh!counts
<1>17. CASE UNCHANGED HealthRefresh!vars
  BY <1>17 DEF HealthRefresh!vars
<1> QED
  BY <1>1, <1>2, <1>3, <1>4, <1>5, <1>6, <1>7, <1>8, <1>9, <1>10, <1>11, <1>12,
     <1>13, <1>14, <1>15, <1>16, <1>17
     DEF HealthRefresh!Next, HealthRefresh!Worker, HealthRefresh!Ops

\* The inductive invariant of the health worker holds in every state.
THEOREM HealthInvariance ==
  ASSUME HealthRefresh!BoundAssumption
  PROVE  HealthRefresh!Spec => []HealthRefresh!IInv
<1>1. HealthRefresh!Init => HealthRefresh!IInv
  BY HealthInit
<1>2. HealthRefresh!IInv /\ [HealthRefresh!Next]_(HealthRefresh!vars)
        => HealthRefresh!IInv'
  BY HealthNext
<1> QED
  BY <1>1, <1>2, PTL DEF HealthRefresh!Spec

\* Whatever the worker, its checks and its crashes do, a check past its gate is
\* named by the journal, and a worker that shows no failure has seen every
\* check of the latest flush pass (RunningIsJournalled, FailureShown).
THEOREM HealthIsTold ==
  ASSUME HealthRefresh!BoundAssumption
  PROVE  HealthRefresh!Spec => [](/\ HealthRefresh!RunningIsJournalled
                                  /\ HealthRefresh!FailureShown)
<1>1. HealthRefresh!IInv => /\ HealthRefresh!RunningIsJournalled
                            /\ HealthRefresh!FailureShown
  BY DEF HealthRefresh!IInv
<1> QED
  BY HealthInvariance, <1>1, PTL

\* Beside the other services the same holds: the suite's invariant.
THEOREM HealthIsTrueHere == ServicesSpec => []HealthIsTrue
<1>1. ServicesInit => HealthIsTrue
  BY HealthInit, InstancesAssumption DEF ServicesInit, HealthIsTrue
<1>2. [ServicesNext]_servicesVars
        => [HealthRefresh!Next]_(HealthRefresh!vars)
  BY DEF ServicesNext, servicesVars, healthVars, HealthRefresh!vars
<1>3. HealthIsTrue /\ [ServicesNext]_servicesVars => HealthIsTrue'
  BY <1>2, HealthNext, InstancesAssumption DEF HealthIsTrue
<1> QED
  BY <1>1, <1>3, PTL DEF ServicesSpec

-----------------------------------------------------------------------------
(***************************************************************************)
(* The maintenance window.                                                 *)
(***************************************************************************)
\* The plan of each command, step by step.
LEMMA PlanOfPrepare ==
  /\ Len(MaintenanceWindow!Plan["prepare"]) = 4
  /\ MaintenanceWindow!Plan["prepare"][1] = "intent"
     /\ MaintenanceWindow!Plan["prepare"][2] = "marker"
  /\ MaintenanceWindow!Plan["prepare"][3] = "gate"
     /\ MaintenanceWindow!Plan["prepare"][4] = "leave"
  BY DEF MaintenanceWindow!Plan

\* An indexer that holds the gate is stopped first.
LEMMA PlanOfPreempt ==
  /\ Len(MaintenanceWindow!Plan["preempt"]) = 5
  /\ MaintenanceWindow!Plan["preempt"][1] = "dropin"
     /\ MaintenanceWindow!Plan["preempt"][2] = "stop"
  /\ MaintenanceWindow!Plan["preempt"][3] = "prove"
     /\ MaintenanceWindow!Plan["preempt"][4] = "gate"
  /\ MaintenanceWindow!Plan["preempt"][5] = "leave"
  BY DEF MaintenanceWindow!Plan

\* What settles an aborted restore.
LEMMA PlanOfSettle ==
  /\ Len(MaintenanceWindow!Plan["settle"]) = 3
  /\ MaintenanceWindow!Plan["settle"][1] = "dropin"
     /\ MaintenanceWindow!Plan["settle"][2] = "stop"
  /\ MaintenanceWindow!Plan["settle"][3] = "prove"
  BY DEF MaintenanceWindow!Plan

\* What a failed preparation does.
LEMMA PlanOfUndo ==
  /\ Len(MaintenanceWindow!Plan["undo"]) = 7
  /\ MaintenanceWindow!Plan["undo"][1] = "intent"
     /\ MaintenanceWindow!Plan["undo"][2] = "marker"
  /\ MaintenanceWindow!Plan["undo"][3] = "dropin"
     /\ MaintenanceWindow!Plan["undo"][4] = "stop"
  /\ MaintenanceWindow!Plan["undo"][5] = "gate"
     /\ MaintenanceWindow!Plan["undo"][6] = "leave"
  /\ MaintenanceWindow!Plan["undo"][7] = "prove"
  BY DEF MaintenanceWindow!Plan

\* The end of a window.
LEMMA PlanOfRestore ==
  /\ Len(MaintenanceWindow!Plan["restore"]) = 11
  /\ MaintenanceWindow!Plan["restore"][1] = "check"
     /\ MaintenanceWindow!Plan["restore"][2] = "prove"
  /\ MaintenanceWindow!Plan["restore"][3] = "arm"
     /\ MaintenanceWindow!Plan["restore"][4] = "start"
  /\ MaintenanceWindow!Plan["restore"][5] = "read"
     /\ MaintenanceWindow!Plan["restore"][6] = "claim"
  /\ MaintenanceWindow!Plan["restore"][7] = "renew"
     /\ MaintenanceWindow!Plan["restore"][8] = "undrop"
  /\ MaintenanceWindow!Plan["restore"][9] = "renew"
     /\ MaintenanceWindow!Plan["restore"][10] = "same"
  /\ MaintenanceWindow!Plan["restore"][11] = "complete"
  BY DEF MaintenanceWindow!Plan

\* The way back into maintenance.
LEMMA PlanOfBack ==
  /\ Len(MaintenanceWindow!Plan["back"]) = 4
  /\ MaintenanceWindow!Plan["back"][1] = "reset"
     /\ MaintenanceWindow!Plan["back"][2] = "dropin"
  /\ MaintenanceWindow!Plan["back"][3] = "stop"
     /\ MaintenanceWindow!Plan["back"][4] = "prove"
  BY DEF MaintenanceWindow!Plan

\* A window, and an operator that does nothing.
LEMMA PlanOfOthers ==
  /\ Len(MaintenanceWindow!Plan["window"]) = 2
     /\ Len(MaintenanceWindow!Plan["idle"]) = 0
  /\ MaintenanceWindow!Plan["window"][1] = "enter"
     /\ MaintenanceWindow!Plan["window"][2] = "leave"
  BY DEF MaintenanceWindow!Plan

\* Every plan is made of steps.
LEMMA PlanType ==
  /\ DOMAIN MaintenanceWindow!Plan
     = {"prepare", "preempt", "settle", "undo", "restore", "back",
                    "window", "idle"}
  /\ \A m \in DOMAIN MaintenanceWindow!Plan : MaintenanceWindow!Plan[m]
     \in Seq(MaintenanceWindow!Steps)
<1>1. DOMAIN MaintenanceWindow!Plan
      = {"prepare", "preempt", "settle", "undo", "restore", "back",
                     "window", "idle"}
  BY DEF MaintenanceWindow!Plan
<1>2. MaintenanceWindow!Plan["prepare"] \in Seq(MaintenanceWindow!Steps)
  <2>1. <<"intent", "marker", "gate", "leave">>
        \in Seq(MaintenanceWindow!Steps)
    BY DEF MaintenanceWindow!Steps
  <2> QED
    BY <2>1 DEF MaintenanceWindow!Plan
<1>3. MaintenanceWindow!Plan["preempt"] \in Seq(MaintenanceWindow!Steps)
  <2>1. <<"dropin", "stop", "prove", "gate", "leave">>
        \in Seq(MaintenanceWindow!Steps)
    BY DEF MaintenanceWindow!Steps
  <2> QED
    BY <2>1 DEF MaintenanceWindow!Plan
<1>4. MaintenanceWindow!Plan["settle"] \in Seq(MaintenanceWindow!Steps)
  <2>1. <<"dropin", "stop", "prove">> \in Seq(MaintenanceWindow!Steps)
    BY DEF MaintenanceWindow!Steps
  <2> QED
    BY <2>1 DEF MaintenanceWindow!Plan
<1>5. MaintenanceWindow!Plan["undo"] \in Seq(MaintenanceWindow!Steps)
  <2>1. <<"intent", "marker", "dropin", "stop", "gate", "leave", "prove">>
        \in Seq(MaintenanceWindow!Steps)
    BY DEF MaintenanceWindow!Steps
  <2> QED
    BY <2>1 DEF MaintenanceWindow!Plan
<1>6. MaintenanceWindow!Plan["restore"] \in Seq(MaintenanceWindow!Steps)
  <2>1. <<"check", "prove", "arm", "start", "read", "claim", "renew",
          "undrop", "renew", "same", "complete">>
            \in Seq(MaintenanceWindow!Steps)
    BY DEF MaintenanceWindow!Steps
  <2> QED
    BY <2>1 DEF MaintenanceWindow!Plan
<1>7. MaintenanceWindow!Plan["back"] \in Seq(MaintenanceWindow!Steps)
  <2>1. <<"reset", "dropin", "stop", "prove">> \in Seq(MaintenanceWindow!Steps)
    BY DEF MaintenanceWindow!Steps
  <2> QED
    BY <2>1 DEF MaintenanceWindow!Plan
<1>8. MaintenanceWindow!Plan["window"] \in Seq(MaintenanceWindow!Steps)
  <2>1. <<"enter", "leave">> \in Seq(MaintenanceWindow!Steps)
    BY DEF MaintenanceWindow!Steps
  <2> QED
    BY <2>1 DEF MaintenanceWindow!Plan
<1>9. MaintenanceWindow!Plan["idle"] \in Seq(MaintenanceWindow!Steps)
  <2>1. <<>> \in Seq(MaintenanceWindow!Steps)
    BY DEF MaintenanceWindow!Steps
  <2> QED
    BY <2>1 DEF MaintenanceWindow!Plan
<1> QED
  BY <1>1, <1>2, <1>3, <1>4, <1>5, <1>6, <1>7, <1>8, <1>9

\* Which step comes with how many left.
LEMMA StepsOfPlan ==
  /\ \A left \in 1 .. Len(MaintenanceWindow!Plan["prepare"]) :
        MaintenanceWindow!Coming("prepare", left) = CASE left
          = 4 -> "intent" [] left = 3 -> "marker"
                                    [] left = 2 -> "gate" [] OTHER -> "leave"
  /\ \A left \in 1 .. Len(MaintenanceWindow!Plan["preempt"]) :
        MaintenanceWindow!Coming("preempt", left) = CASE left
          = 5 -> "dropin" [] left = 4 -> "stop"
                                    [] left = 3 -> "prove" [] left
                        = 2 -> "gate"
                                    [] OTHER -> "leave"
  /\ \A left \in 1 .. Len(MaintenanceWindow!Plan["settle"]) :
        MaintenanceWindow!Coming("settle", left) = CASE left
          = 3 -> "dropin" [] left = 2 -> "stop"
                                   [] OTHER -> "prove"
  /\ \A left \in 1 .. Len(MaintenanceWindow!Plan["undo"]) :
        MaintenanceWindow!Coming("undo", left) = CASE left
          = 7 -> "intent" [] left = 6 -> "marker"
                                 [] left = 5 -> "dropin" [] left = 4 -> "stop"
                                 [] left = 3 -> "gate" [] left = 2 -> "leave"
                                 [] OTHER -> "prove"
  /\ \A left \in 1 .. Len(MaintenanceWindow!Plan["restore"]) :
        /\ left = 11 <=> MaintenanceWindow!Coming("restore", left) = "check"
        /\ left = 1 <=> MaintenanceWindow!Coming("restore", left) = "complete"
        /\ MaintenanceWindow!Coming("restore", left)
              \in {"check", "prove", "arm", "start", "read", "claim", "renew",
                   "undrop", "same", "complete"}
  /\ \A left \in 1 .. Len(MaintenanceWindow!Plan["back"]) :
        MaintenanceWindow!Coming("back", left) = CASE left
          = 4 -> "reset" [] left = 3 -> "dropin"
                                 [] left = 2 -> "stop" [] OTHER -> "prove"
  /\ \A left \in 1 .. Len(MaintenanceWindow!Plan["window"]) :
        MaintenanceWindow!Coming("window", left) = IF left
          = 2 THEN "enter" ELSE "leave"
<1>1. \A left \in 1 .. Len(MaintenanceWindow!Plan["prepare"]) :
        MaintenanceWindow!Coming("prepare", left) = CASE left
          = 4 -> "intent" [] left = 3 -> "marker"
                                    [] left = 2 -> "gate" [] OTHER -> "leave"
  BY PlanOfPrepare DEF MaintenanceWindow!Coming
<1>2. \A left \in 1 .. Len(MaintenanceWindow!Plan["preempt"]) :
        MaintenanceWindow!Coming("preempt", left) = CASE left
          = 5 -> "dropin" [] left = 4 -> "stop"
                                    [] left = 3 -> "prove" [] left
                        = 2 -> "gate"
                                    [] OTHER -> "leave"
  BY PlanOfPreempt DEF MaintenanceWindow!Coming
<1>3. \A left \in 1 .. Len(MaintenanceWindow!Plan["settle"]) :
        MaintenanceWindow!Coming("settle", left) = CASE left
          = 3 -> "dropin" [] left = 2 -> "stop"
                                   [] OTHER -> "prove"
  BY PlanOfSettle DEF MaintenanceWindow!Coming
<1>4. \A left \in 1 .. Len(MaintenanceWindow!Plan["undo"]) :
        MaintenanceWindow!Coming("undo", left) = CASE left
          = 7 -> "intent" [] left = 6 -> "marker"
                                 [] left = 5 -> "dropin" [] left = 4 -> "stop"
                                 [] left = 3 -> "gate" [] left = 2 -> "leave"
                                 [] OTHER -> "prove"
  BY PlanOfUndo DEF MaintenanceWindow!Coming
<1>5. \A left \in 1 .. Len(MaintenanceWindow!Plan["restore"]) :
        /\ left = 11 <=> MaintenanceWindow!Coming("restore", left) = "check"
        /\ left = 1 <=> MaintenanceWindow!Coming("restore", left) = "complete"
        /\ MaintenanceWindow!Coming("restore", left)
              \in {"check", "prove", "arm", "start", "read", "claim", "renew",
                   "undrop", "same", "complete"}
  BY PlanOfRestore DEF MaintenanceWindow!Coming
<1>6. \A left \in 1 .. Len(MaintenanceWindow!Plan["back"]) :
        MaintenanceWindow!Coming("back", left) = CASE left
          = 4 -> "reset" [] left = 3 -> "dropin"
                                 [] left = 2 -> "stop" [] OTHER -> "prove"
  BY PlanOfBack DEF MaintenanceWindow!Coming
<1>7. \A left \in 1 .. Len(MaintenanceWindow!Plan["window"]) :
        MaintenanceWindow!Coming("window", left) = IF left
          = 2 THEN "enter" ELSE "leave"
  BY PlanOfOthers DEF MaintenanceWindow!Coming
<1> QED
  BY <1>1, <1>2, <1>3, <1>4, <1>5, <1>6, <1>7

\* The next step of a command, and what is left after it.
LEMMA NextStep ==
  ASSUME MaintenanceWindow!TypeOK, MaintenanceWindow!TodoFits, NEW a
         \in Operators, windowTodo[a] # << >>
  PROVE  /\ MaintenanceWindow!Left(a)
            \in 1 .. Len(MaintenanceWindow!Plan[windowMode[a]])
         /\ Head(windowTodo[a])
            = MaintenanceWindow!Coming(windowMode[a],
                MaintenanceWindow!Left(a))
         /\ Tail(windowTodo[a]) \in Seq(MaintenanceWindow!Steps)
            /\ Len(Tail(windowTodo[a])) = MaintenanceWindow!Left(a) - 1
         /\ \A i \in 1 .. MaintenanceWindow!Left(a) - 1 :
               Tail(windowTodo[a])[i]
                 = MaintenanceWindow!Coming(windowMode[a],
                     MaintenanceWindow!Left(a) - 1 - i + 1)
         /\ Tail(windowTodo[a]) = << >> => MaintenanceWindow!Left(a) = 1
<1>1. windowTodo[a] \in Seq(MaintenanceWindow!Steps)
  BY DEF MaintenanceWindow!TypeOK
<1>2. MaintenanceWindow!Left(a) \in Nat /\ MaintenanceWindow!Left(a) # 0
  BY <1>1 DEF MaintenanceWindow!Left
<1>3. MaintenanceWindow!Left(a)
      \in 1 .. Len(MaintenanceWindow!Plan[windowMode[a]])
  BY <1>2 DEF MaintenanceWindow!TodoFits
<1>4. Head(windowTodo[a]) = windowTodo[a][1]
  BY <1>1
<1>5. Len(Tail(windowTodo[a])) = MaintenanceWindow!Left(a) - 1
      /\ Tail(windowTodo[a]) \in Seq(MaintenanceWindow!Steps)
  <2>1. windowTodo[a] # << >>
    OBVIOUS
  <2>2. Len(Tail(windowTodo[a])) = Len(windowTodo[a]) - 1
        /\ Tail(windowTodo[a]) \in Seq(MaintenanceWindow!Steps)
    BY ONLY <1>1, <2>1
  <2> QED
    BY <2>2 DEF MaintenanceWindow!Left
<1>6. windowTodo[a][1]
      = MaintenanceWindow!Coming(windowMode[a], MaintenanceWindow!Left(a))
  BY <1>2 DEF MaintenanceWindow!TodoFits
<1>7. ASSUME NEW i \in 1 .. MaintenanceWindow!Left(a) - 1
      PROVE  Tail(windowTodo[a])[i]
             = MaintenanceWindow!Coming(windowMode[a],
                 MaintenanceWindow!Left(a) - 1 - i + 1)
  <2>1. Tail(windowTodo[a])[i] = windowTodo[a][i + 1]
    BY <1>1, <1>2, <1>7 DEF MaintenanceWindow!Left
  <2>2. i + 1 \in 1 .. MaintenanceWindow!Left(a)
        /\ MaintenanceWindow!Left(a) - (i + 1) + 1
           = MaintenanceWindow!Left(a) - 1 - i + 1
    BY <1>2
  <2> QED
    BY <2>1, <2>2 DEF MaintenanceWindow!TodoFits
<1>8. Tail(windowTodo[a]) = << >> => MaintenanceWindow!Left(a) = 1
  <2> DEFINE t == Tail(windowTodo[a])
  <2>1. Len(<< >>) = 0
    OBVIOUS
  <2>2. Len(t) = MaintenanceWindow!Left(a) - 1
    BY <1>5
  <2> HIDE DEF t
  <2>3. ASSUME t = << >>
        PROVE  MaintenanceWindow!Left(a) = 1
    <3>1. Len(t) = 0
      BY <2>1, <2>3, Zenon
    <3> QED
      BY <1>2, <2>2, <3>1
  <2> QED
    BY <2>3 DEF t
<1> QED
  BY <1>1, <1>3, <1>4, <1>5, <1>6, <1>7, <1>8

\* What a command comes to do tells which command it is and how far it is.
LEMMA StepAt ==
  ASSUME MaintenanceWindow!TypeOK, MaintenanceWindow!TodoFits, NEW a
         \in Operators, windowTodo[a] # << >>
  PROVE  /\ windowMode[a] # "idle" /\ MaintenanceWindow!Left(a) # 0
         /\ Head(windowTodo[a]) = "intent" =>
               \/ windowMode[a] = "prepare" /\ MaintenanceWindow!Left(a) = 4
               \/ windowMode[a] = "undo" /\ MaintenanceWindow!Left(a) = 7
         /\ Head(windowTodo[a]) = "marker" =>
               \/ windowMode[a] = "prepare" /\ MaintenanceWindow!Left(a) = 3
               \/ windowMode[a] = "undo" /\ MaintenanceWindow!Left(a) = 6
         /\ Head(windowTodo[a]) = "gate" =>
               \/ windowMode[a] \in {"prepare", "preempt"}
                  /\ MaintenanceWindow!Left(a) = 2
               \/ windowMode[a] = "undo" /\ MaintenanceWindow!Left(a) = 3
         /\ Head(windowTodo[a]) = "leave" =>
               \/ windowMode[a] \in {"prepare", "preempt", "window"}
                  /\ MaintenanceWindow!Left(a) = 1
               \/ windowMode[a] = "undo" /\ MaintenanceWindow!Left(a) = 2
         /\ Head(windowTodo[a]) = "enter"
            => windowMode[a] = "window" /\ MaintenanceWindow!Left(a) = 2
         /\ Head(windowTodo[a]) \in {"dropin", "stop"} =>
               \/ windowMode[a] = "preempt"
                  /\ MaintenanceWindow!Left(a) \in {4, 5}
               \/ windowMode[a] = "undo"
                  /\ MaintenanceWindow!Left(a) \in {4, 5}
               \/ windowMode[a] \in {"settle", "back"}
                  /\ MaintenanceWindow!Left(a) \in {2, 3}
         /\ Head(windowTodo[a]) = "prove" =>
               \/ windowMode[a] = "preempt" /\ MaintenanceWindow!Left(a) = 3
               \/ windowMode[a] \in {"settle", "undo", "back"}
                  /\ MaintenanceWindow!Left(a) = 1
               \/ windowMode[a] = "restore" /\ MaintenanceWindow!Left(a) # 1
         /\ Head(windowTodo[a]) = "reset"
            => windowMode[a] = "back" /\ MaintenanceWindow!Left(a) = 4
         /\ Head(windowTodo[a])
            \in {"check", "arm", "start", "read", "claim", "renew",
                               "undrop", "same", "complete"}
               => windowMode[a] = "restore"
         /\ windowMode[a] = "window"
            => Head(windowTodo[a]) \in {"enter", "leave"}
<1> DEFINE m == windowMode[a]
           l == MaintenanceWindow!Left(a)
           h == Head(windowTodo[a])
<1>1. l \in 1 .. Len(MaintenanceWindow!Plan[m])
      /\ h = MaintenanceWindow!Coming(m, l)
  BY NextStep
<1>2. m \in {"prepare", "preempt", "settle", "undo", "restore", "back",
             "window", "idle"}
  BY PlanType DEF MaintenanceWindow!TypeOK
<1> HIDE DEF m, l, h
<1>3. CASE m = "prepare"
  BY <1>1, <1>3, PlanOfPrepare, StepsOfPlan DEF m, l, h
<1>4. CASE m = "preempt"
  BY <1>1, <1>4, PlanOfPreempt, StepsOfPlan DEF m, l, h
<1>5. CASE m = "settle"
  BY <1>1, <1>5, PlanOfSettle, StepsOfPlan DEF m, l, h
<1>6. CASE m = "undo"
  BY <1>1, <1>6, PlanOfUndo, StepsOfPlan DEF m, l, h
<1>7. CASE m = "restore"
  BY <1>1, <1>7, PlanOfRestore, StepsOfPlan DEF m, l, h
<1>8. CASE m = "back"
  BY <1>1, <1>8, PlanOfBack, StepsOfPlan DEF m, l, h
<1>9. CASE m = "window"
  BY <1>1, <1>9, PlanOfOthers, StepsOfPlan DEF m, l, h
<1>10. CASE m = "idle"
  BY <1>1, <1>10, PlanOfOthers DEF m, l, h
<1> QED
  BY <1>2, <1>3, <1>4, <1>5, <1>6, <1>7, <1>8, <1>9, <1>10

\* A command that goes a step on has the end of its plan left.
LEMMA AdvanceFits ==
  ASSUME MaintenanceWindow!TypeOK, MaintenanceWindow!TodoFits, NEW a
         \in Operators, windowTodo[a] # << >>, MaintenanceWindow!Advance(a)
  PROVE  /\ windowTodo' \in [Operators -> Seq(MaintenanceWindow!Steps)]
            /\ MaintenanceWindow!TodoFits' /\ windowMode' = windowMode
         /\ MaintenanceWindow!Left(a)' = MaintenanceWindow!Left(a) - 1
         /\ \A b
            \in Operators \ {a} : MaintenanceWindow!Left(b)'
              = MaintenanceWindow!Left(b)
<1>1. /\ MaintenanceWindow!Left(a)
         \in 1 .. Len(MaintenanceWindow!Plan[windowMode[a]])
      /\ Tail(windowTodo[a]) \in Seq(MaintenanceWindow!Steps)
         /\ Len(Tail(windowTodo[a])) = MaintenanceWindow!Left(a) - 1
      /\ \A i \in 1 .. MaintenanceWindow!Left(a) - 1 :
            Tail(windowTodo[a])[i]
              = MaintenanceWindow!Coming(windowMode[a],
                  MaintenanceWindow!Left(a) - 1 - i + 1)
  BY NextStep
<1>2. /\ windowTodo \in [Operators -> Seq(MaintenanceWindow!Steps)]
         /\ windowMode' = windowMode
      /\ windowTodo' = [windowTodo EXCEPT ![a] = Tail(windowTodo[a])]
  BY DEF MaintenanceWindow!TypeOK, MaintenanceWindow!Advance
<1>3. windowTodo' \in [Operators -> Seq(MaintenanceWindow!Steps)]
  BY <1>1, <1>2
<1>4. windowTodo'[a] = Tail(windowTodo[a])
      /\ \A b \in Operators \ {a} : windowTodo'[b] = windowTodo[b]
  BY <1>2
<1>5. MaintenanceWindow!Left(a)' = MaintenanceWindow!Left(a) - 1
  BY <1>1, <1>4 DEF MaintenanceWindow!Left
<1>6. \A b
      \in Operators \ {a} : MaintenanceWindow!Left(b)'
        = MaintenanceWindow!Left(b)
  BY <1>4 DEF MaintenanceWindow!Left
<1>7. ASSUME NEW b \in Operators
      PROVE  /\ MaintenanceWindow!Left(b)'
                \in 0 .. Len(MaintenanceWindow!Plan[windowMode'[b]])
             /\ \A i \in 1 .. MaintenanceWindow!Left(b)' :
                   windowTodo'[b][i]
                     = MaintenanceWindow!Coming(windowMode'[b],
                        MaintenanceWindow!Left(b)' - i + 1)
  <2>1. CASE b = a
    <3>1. MaintenanceWindow!Left(b)'
          \in 0 .. Len(MaintenanceWindow!Plan[windowMode[a]])
      BY <1>1, <1>5, <2>1
    <3> QED
      BY <1>1, <1>2, <1>4, <1>5, <2>1, <3>1
  <2>2. CASE b # a
    BY <1>2, <1>4, <1>6, <2>2 DEF MaintenanceWindow!TodoFits
  <2> QED
    BY <2>1, <2>2
<1> QED
  BY <1>2, <1>3, <1>5, <1>6, <1>7 DEF MaintenanceWindow!TodoFits

\* A command that begins a part of its work has all of that part's plan left.
LEMMA EntersFits ==
  ASSUME MaintenanceWindow!TypeOK, MaintenanceWindow!TodoFits, NEW a
         \in Operators, NEW m \in DOMAIN MaintenanceWindow!Plan,
         MaintenanceWindow!Enters(a, m)
  PROVE  /\ windowTodo' \in [Operators -> Seq(MaintenanceWindow!Steps)]
            /\ MaintenanceWindow!TodoFits'
         /\ windowMode' \in [Operators -> DOMAIN MaintenanceWindow!Plan]
            /\ windowMode'[a] = m
         /\ MaintenanceWindow!Left(a)' = Len(MaintenanceWindow!Plan[m])
         /\ \A b \in Operators \ {a} :
               MaintenanceWindow!Left(b)' = MaintenanceWindow!Left(b)
                 /\ windowMode'[b] = windowMode[b]
<1>1. MaintenanceWindow!Plan[m] \in Seq(MaintenanceWindow!Steps)
  BY PlanType
<1>2. /\ windowTodo \in [Operators -> Seq(MaintenanceWindow!Steps)]
         /\ windowMode \in [Operators -> DOMAIN MaintenanceWindow!Plan]
      /\ windowTodo' = [windowTodo EXCEPT ![a] = MaintenanceWindow!Plan[m]]
         /\ windowMode' = [windowMode EXCEPT ![a] = m]
  BY DEF MaintenanceWindow!TypeOK, MaintenanceWindow!Enters
<1>3. windowTodo' \in [Operators -> Seq(MaintenanceWindow!Steps)]
      /\ windowMode' \in [Operators -> DOMAIN MaintenanceWindow!Plan]
  BY <1>1, <1>2
<1>4. /\ windowTodo'[a] = MaintenanceWindow!Plan[m] /\ windowMode'[a] = m
      /\ \A b \in Operators \ {a} : windowTodo'[b] = windowTodo[b]
         /\ windowMode'[b] = windowMode[b]
  BY <1>2
<1>5. MaintenanceWindow!Left(a)' = Len(MaintenanceWindow!Plan[m])
      /\ \A b
         \in Operators \ {a} : MaintenanceWindow!Left(b)'
           = MaintenanceWindow!Left(b)
  BY <1>4 DEF MaintenanceWindow!Left
<1>6. \A i
      \in 1 .. Len(MaintenanceWindow!Plan[m]) : MaintenanceWindow!Plan[m][i]
        = MaintenanceWindow!Coming(m, Len(MaintenanceWindow!Plan[m]) - i + 1)
  <2> DEFINE n == Len(MaintenanceWindow!Plan[m])
  <2>1. n \in Nat
    BY <1>1
  <2>2. \A i \in 1 .. n : n - (n - i + 1) + 1 = i
    BY <2>1
  <2> QED
    BY <2>2 DEF MaintenanceWindow!Coming
<1>7. ASSUME NEW b \in Operators
      PROVE  /\ MaintenanceWindow!Left(b)'
                \in 0 .. Len(MaintenanceWindow!Plan[windowMode'[b]])
             /\ \A i \in 1 .. MaintenanceWindow!Left(b)' :
                   windowTodo'[b][i]
                     = MaintenanceWindow!Coming(windowMode'[b],
                        MaintenanceWindow!Left(b)' - i + 1)
  <2>1. CASE b = a
    <3>1. MaintenanceWindow!Left(b)' \in 0 .. Len(MaintenanceWindow!Plan[m])
      BY <1>1, <1>5, <2>1
    <3> QED
      BY <1>4, <1>5, <1>6, <2>1, <3>1
  <2>2. CASE b # a
    BY <1>4, <1>5, <2>2 DEF MaintenanceWindow!TodoFits
  <2> QED
    BY <2>1, <2>2
<1> QED
  BY <1>3, <1>4, <1>5, <1>7 DEF MaintenanceWindow!TodoFits

\* The locks fit when they do for the operator that moved and the others keep
\* theirs.
LEMMA LocksKept ==
  ASSUME MaintenanceWindow!LocksFit, NEW a \in Operators,
         \A b \in Operators \ {a} :
            MaintenanceWindow!Left(b)' = MaintenanceWindow!Left(b)
              /\ windowMode'[b] = windowMode[b]
                 /\ windowHeld'[b] = windowHeld[b],
         windowHeld'[a] # "none"
           => \A b \in Operators \ {a} : windowHeld[b] = "none",
         windowMode'[a] \in {"idle", "restore", "back", "settle"}
            => windowHeld'[a] = "none",
         windowMode'[a] = "prepare" =>
            /\ MaintenanceWindow!Left(a)' # 0
            /\ windowHeld'[a] = CASE MaintenanceWindow!Left(a)'
               = 4 -> "none" [] MaintenanceWindow!Left(a)' = 1 -> "gate"
                            [] OTHER -> "intent",
         windowMode'[a] = "preempt" =>
            /\ MaintenanceWindow!Left(a)' # 0
            /\ windowHeld'[a] = IF MaintenanceWindow!Left(a)'
               = 1 THEN "gate" ELSE "intent",
         windowMode'[a] = "undo" =>
            /\ MaintenanceWindow!Left(a)' \in {0, 1, 7}
               => windowHeld'[a] = "none"
            /\ MaintenanceWindow!Left(a)' \in 3 .. 6
               => windowHeld'[a] = "intent"
            /\ MaintenanceWindow!Left(a)' = 2 => windowHeld'[a] # "none",
         windowMode'[a] = "window" =>
            windowHeld'[a] = IF MaintenanceWindow!Left(a)'
              = 1 THEN "gate" ELSE "none"
  PROVE  MaintenanceWindow!LocksFit'
<1>1. ASSUME NEW b \in Operators, NEW c \in Operators,
             windowHeld'[b] # "none", windowHeld'[c] # "none"
      PROVE  b = c
  BY <1>1 DEF MaintenanceWindow!LocksFit
<1>2. ASSUME NEW b \in Operators
      PROVE  /\ windowMode'[b] \in {"idle", "restore", "back", "settle"}
                   => windowHeld'[b] = "none"
             /\ windowMode'[b] = "prepare" =>
                   /\ MaintenanceWindow!Left(b)' # 0
                   /\ windowHeld'[b] = CASE MaintenanceWindow!Left(b)'
                      = 4 -> "none" [] MaintenanceWindow!Left(b)' = 1 -> "gate"
                                   [] OTHER -> "intent"
             /\ windowMode'[b] = "preempt" =>
                   /\ MaintenanceWindow!Left(b)' # 0
                   /\ windowHeld'[b] = IF MaintenanceWindow!Left(b)'
                      = 1 THEN "gate" ELSE "intent"
             /\ windowMode'[b] = "undo" =>
                   /\ MaintenanceWindow!Left(b)' \in {0, 1, 7}
                      => windowHeld'[b] = "none"
                   /\ MaintenanceWindow!Left(b)' \in 3 .. 6
                      => windowHeld'[b] = "intent"
                   /\ MaintenanceWindow!Left(b)' = 2 => windowHeld'[b] # "none"
             /\ windowMode'[b] = "window" =>
                   windowHeld'[b] = IF MaintenanceWindow!Left(b)'
                     = 1 THEN "gate" ELSE "none"
  <2>1. CASE b = a
    BY <2>1
  <2>2. CASE b # a
    BY <2>2 DEF MaintenanceWindow!LocksFit
  <2> QED
    BY <2>1, <2>2
<1> QED
  BY <1>1, <1>2 DEF MaintenanceWindow!LocksFit

\* A failed step: the command goes on with its compensation, in step with the
\* locks that are left to it.
LEMMA FailsFits ==
  ASSUME MaintenanceWindow!TypeOK, MaintenanceWindow!TodoFits,
           MaintenanceWindow!LocksFit, NEW a
             \in Operators, windowTodo[a] # << >>,
         Head(windowTodo[a]) # "leave", MaintenanceWindow!Fails(a)
  PROVE  /\ windowTodo' \in [Operators -> Seq(MaintenanceWindow!Steps)]
         /\ windowMode' \in [Operators -> DOMAIN MaintenanceWindow!Plan]
         /\ windowHeld' \in [Operators -> MaintenanceWindow!Locks]
         /\ windowSound' \in [Operators -> BOOLEAN]
         /\ MaintenanceWindow!TodoFits' /\ MaintenanceWindow!LocksFit'
         /\ windowHeld'[a] \in {windowHeld[a], "none"}
         /\ \/ windowMode'[a] = "idle"
            \/ windowMode'[a] = "undo"
               /\ (MaintenanceWindow!Left(a)' = 7 \/ windowSound'[a] = FALSE)
            \/ windowMode'[a] = "back"
               /\ (MaintenanceWindow!Left(a)' = 4 \/ windowSound'[a] = FALSE)
         /\ \A b \in Operators \ {a} : windowHeld'[b] = windowHeld[b]
            /\ windowMode'[b] = windowMode[b]
<1> DEFINE m == windowMode[a]
<1>1. /\ m \in {"prepare", "preempt", "settle", "undo", "restore", "back",
           "window", "idle"}
      /\ "idle" \in DOMAIN MaintenanceWindow!Plan
         /\ "back" \in DOMAIN MaintenanceWindow!Plan
            /\ "undo" \in DOMAIN MaintenanceWindow!Plan
  BY PlanType DEF MaintenanceWindow!TypeOK
<1>2. /\ windowHeld \in [Operators -> MaintenanceWindow!Locks]
      /\ windowSound \in [Operators -> BOOLEAN]
      /\ windowMode \in [Operators -> DOMAIN MaintenanceWindow!Plan]
      /\ windowTodo \in [Operators -> Seq(MaintenanceWindow!Steps)]
  BY DEF MaintenanceWindow!TypeOK
<1>3. m # "idle" /\ MaintenanceWindow!Left(a) # 0
  BY StepAt
<1>4. CASE m = "restore"
  <2> DEFINE n == IF Head(windowTodo[a]) = "check" THEN "idle" ELSE "back"
  <2>1. MaintenanceWindow!Enters(a, n) /\ windowHeld' = windowHeld
        /\ windowSound' = windowSound
    BY <1>4 DEF MaintenanceWindow!Fails
  <2>2. n \in DOMAIN MaintenanceWindow!Plan /\ n \in {"idle", "back"}
    BY <1>1
  <2> HIDE DEF n
  <2>3. /\ windowTodo' \in [Operators -> Seq(MaintenanceWindow!Steps)]
           /\ MaintenanceWindow!TodoFits'
        /\ windowMode' \in [Operators -> DOMAIN MaintenanceWindow!Plan]
           /\ windowMode'[a] = n
        /\ MaintenanceWindow!Left(a)' = Len(MaintenanceWindow!Plan[n])
        /\ \A b
           \in Operators \ {a} : MaintenanceWindow!Left(b)'
             = MaintenanceWindow!Left(b) /\ windowMode'[b] = windowMode[b]
    BY <2>1, <2>2, EntersFits
  <2>4. windowHeld[a] = "none"
    BY <1>4 DEF MaintenanceWindow!LocksFit
  <2>5. MaintenanceWindow!LocksFit'
    BY <2>1, <2>2, <2>3, <2>4, LocksKept
  <2>6. windowMode'[a] = "idle"
        \/ (windowMode'[a] = "back" /\ MaintenanceWindow!Left(a)' = 4)
    BY <2>2, <2>3, PlanOfBack
  <2> QED
    BY <1>2, <2>1, <2>3, <2>5, <2>6
<1>5. CASE m \in {"prepare", "preempt", "settle"}
  <2> DEFINE n == IF MaintenanceWindow!Doing(a,
               "intent") THEN "idle" ELSE "undo"
  <2>1. MaintenanceWindow!Enters(a, n) /\ MaintenanceWindow!Release(a)
        /\ windowSound' = windowSound
    BY <1>5 DEF MaintenanceWindow!Fails
  <2>2. n \in DOMAIN MaintenanceWindow!Plan /\ n \in {"idle", "undo"}
    BY <1>1
  <2> HIDE DEF n
  <2>3. /\ windowTodo' \in [Operators -> Seq(MaintenanceWindow!Steps)]
           /\ MaintenanceWindow!TodoFits'
        /\ windowMode' \in [Operators -> DOMAIN MaintenanceWindow!Plan]
           /\ windowMode'[a] = n
        /\ MaintenanceWindow!Left(a)' = Len(MaintenanceWindow!Plan[n])
        /\ \A b
           \in Operators \ {a} : MaintenanceWindow!Left(b)'
             = MaintenanceWindow!Left(b) /\ windowMode'[b] = windowMode[b]
    BY <2>1, <2>2, EntersFits
  <2>4. windowHeld' = [windowHeld EXCEPT ![a] = "none"]
    BY <2>1 DEF MaintenanceWindow!Release
  <2>5. /\ windowHeld' \in [Operators -> MaintenanceWindow!Locks]
        /\ windowHeld'[a] = "none"
           /\ \A b \in Operators \ {a} : windowHeld'[b] = windowHeld[b]
    BY <1>2, <2>4 DEF MaintenanceWindow!Locks
  <2>6. n = "undo" => MaintenanceWindow!Left(a)' = 7
    BY <2>3, PlanOfUndo
  <2>7. MaintenanceWindow!LocksFit'
    <3>1. CASE n = "idle"
      BY <2>3, <2>5, <3>1, LocksKept
    <3>2. CASE n = "undo"
      <4>1. windowMode'[a] = "undo" /\ MaintenanceWindow!Left(a)' = 7
            /\ windowHeld'[a] = "none"
        BY <2>3, <2>5, <2>6, <3>2
      <4>2. MaintenanceWindow!Left(a)' \notin 3 .. 6
            /\ MaintenanceWindow!Left(a)' # 2
        BY <4>1
      <4>3. \A b \in Operators \ {a} :
               MaintenanceWindow!Left(b)' = MaintenanceWindow!Left(b)
                 /\ windowMode'[b] = windowMode[b]
                    /\ windowHeld'[b] = windowHeld[b]
        BY <2>3, <2>5
      <4> QED
        BY <4>1, <4>2, <4>3, LocksKept
    <3> QED
      BY <2>2, <3>1, <3>2
  <2>8. windowMode'[a] = "idle"
        \/ (windowMode'[a] = "undo" /\ MaintenanceWindow!Left(a)' = 7)
    BY <2>2, <2>3, <2>6
  <2> QED
    BY <1>2, <2>1, <2>3, <2>5, <2>7, <2>8
<1>6. CASE m \in {"undo", "back"}
  <2>1. /\ IF MaintenanceWindow!Doing(a, "intent") THEN windowTodo'
           = [windowTodo EXCEPT ![a] = <<"prove">>]
           ELSE windowTodo' = [windowTodo EXCEPT ![a] = Tail(windowTodo[a])]
        /\ windowSound' = [windowSound EXCEPT ![a] = FALSE]
           /\ windowMode' = windowMode /\ windowHeld' = windowHeld
    BY <1>6 DEF MaintenanceWindow!Fails
  <2>2. windowSound' \in [Operators -> BOOLEAN]
    BY <1>2, <2>1
  <2>3. CASE MaintenanceWindow!Doing(a, "intent")
    <3>1. m = "undo" /\ MaintenanceWindow!Left(a) = 7
      BY <1>6, <2>3, StepAt DEF MaintenanceWindow!Doing
    <3>2. windowTodo' = [windowTodo EXCEPT ![a] = <<"prove">>]
      BY <2>1, <2>3
    <3>3. <<"prove">> \in Seq(MaintenanceWindow!Steps)
      BY DEF MaintenanceWindow!Steps
    <3>4. /\ windowTodo' \in [Operators -> Seq(MaintenanceWindow!Steps)]
             /\ windowTodo'[a] = <<"prove">>
          /\ \A b \in Operators \ {a} : windowTodo'[b] = windowTodo[b]
      BY <1>2, <3>2, <3>3
    <3>5. MaintenanceWindow!Left(a)' = 1
          /\ \A b
             \in Operators \ {a} : MaintenanceWindow!Left(b)'
               = MaintenanceWindow!Left(b)
      BY <3>4 DEF MaintenanceWindow!Left
    <3>6. Len(MaintenanceWindow!Plan["undo"]) = 7
          /\ MaintenanceWindow!Coming("undo", 1) = "prove"
      BY PlanOfUndo, StepsOfPlan
    <3>7. ASSUME NEW b \in Operators
          PROVE  /\ MaintenanceWindow!Left(b)'
                    \in 0 .. Len(MaintenanceWindow!Plan[windowMode'[b]])
                 /\ \A i \in 1 .. MaintenanceWindow!Left(b)' :
                       windowTodo'[b][i]
                        = MaintenanceWindow!Coming(windowMode'[b],
                        MaintenanceWindow!Left(b)' - i + 1)
      <4>1. CASE b = a
        <5>1. windowTodo'[a][1] = "prove" /\ windowMode'[a] = "undo"
          BY <2>1, <3>1, <3>4
        <5>2. MaintenanceWindow!Left(a)'
              \in 0 .. Len(MaintenanceWindow!Plan[windowMode'[a]])
          <6>1. Len(MaintenanceWindow!Plan[windowMode'[a]]) = 7
            BY <3>6, <5>1
          <6> QED
            BY <3>5, <6>1
        <5>3. ASSUME NEW i \in 1 .. MaintenanceWindow!Left(a)'
              PROVE  windowTodo'[a][i]
                     = MaintenanceWindow!Coming(windowMode'[a],
                        MaintenanceWindow!Left(a)' - i + 1)
          <6>1. i = 1 /\ MaintenanceWindow!Left(a)' - i + 1 = 1
            BY <3>5, <5>3
          <6> QED
            BY <3>6, <5>1, <6>1
        <5> QED
          BY <4>1, <5>2, <5>3
      <4>2. CASE b # a
        BY <2>1, <3>4, <3>5, <4>2 DEF MaintenanceWindow!TodoFits
      <4> QED
        BY <4>1, <4>2
    <3>8. MaintenanceWindow!TodoFits'
      BY <3>7 DEF MaintenanceWindow!TodoFits
    <3>9. windowHeld[a] = "none"
      BY <3>1 DEF MaintenanceWindow!LocksFit
    <3>10. MaintenanceWindow!LocksFit'
      BY <2>1, <3>1, <3>5, <3>9, LocksKept
    <3> QED
      BY <1>2, <2>1, <2>2, <3>1, <3>4, <3>8, <3>10
  <2>4. CASE ~MaintenanceWindow!Doing(a, "intent")
    <3>1. MaintenanceWindow!Advance(a)
      BY <2>1, <2>4 DEF MaintenanceWindow!Advance
    <3>2. /\ windowTodo' \in [Operators -> Seq(MaintenanceWindow!Steps)]
             /\ MaintenanceWindow!TodoFits' /\ windowMode' = windowMode
          /\ MaintenanceWindow!Left(a)' = MaintenanceWindow!Left(a) - 1
          /\ \A b
             \in Operators \ {a} : MaintenanceWindow!Left(b)'
               = MaintenanceWindow!Left(b)
      BY <3>1, AdvanceFits
    <3>3. CASE m = "back"
      <4>1. windowHeld[a] = "none"
        BY <3>3 DEF MaintenanceWindow!LocksFit
      <4>2. MaintenanceWindow!LocksFit'
        BY <2>1, <3>2, <3>3, <4>1, LocksKept
      <4> QED
        BY <1>2, <2>1, <2>2, <3>2, <3>3, <4>2
    <3>4. CASE m = "undo"
      <4>1. MaintenanceWindow!Left(a) \in 1 .. 7
            /\ Head(windowTodo[a])
               = MaintenanceWindow!Coming("undo", MaintenanceWindow!Left(a))
        BY <3>4, NextStep, PlanOfUndo
      <4>2. MaintenanceWindow!Left(a) # 7 /\ MaintenanceWindow!Left(a) # 2
        BY <2>4, <4>1, StepsOfPlan, PlanOfUndo DEF MaintenanceWindow!Doing
      <4>3. /\ MaintenanceWindow!Left(a) = 1 => windowHeld[a] = "none"
            /\ MaintenanceWindow!Left(a) \in 3 .. 6 => windowHeld[a] = "intent"
            /\ windowHeld[a] # "none"
               => \A b \in Operators \ {a} : windowHeld[b] = "none"
        BY <3>4 DEF MaintenanceWindow!LocksFit
      <4>4. MaintenanceWindow!Left(a)' \in {0, 2, 3, 4, 5}
        BY <3>2, <4>1, <4>2
      <4>5. windowHeld'[a] = windowHeld[a] /\ windowMode'[a] = "undo"
        BY <2>1, <3>2, <3>4
      <4>6. /\ MaintenanceWindow!Left(a)' \in {0, 1, 7}
               => windowHeld'[a] = "none"
            /\ MaintenanceWindow!Left(a)' \in 3 .. 6
               => windowHeld'[a] = "intent"
            /\ MaintenanceWindow!Left(a)' = 2 => windowHeld'[a] # "none"
        BY <3>2, <4>1, <4>3, <4>4, <4>5
      <4>7. MaintenanceWindow!LocksFit'
        BY <2>1, <3>2, <4>3, <4>5, <4>6, LocksKept
      <4> QED
        BY <1>2, <2>1, <2>2, <3>2, <4>5, <4>7
    <3> QED
      BY <1>6, <3>3, <3>4
  <2> QED
    BY <2>3, <2>4
<1>7. CASE m = "window"
  <2>1. MaintenanceWindow!Enters(a, "idle") /\ MaintenanceWindow!Release(a)
        /\ windowSound' = windowSound
    BY <1>7 DEF MaintenanceWindow!Fails
  <2>2. /\ windowTodo' \in [Operators -> Seq(MaintenanceWindow!Steps)]
           /\ MaintenanceWindow!TodoFits'
        /\ windowMode' \in [Operators -> DOMAIN MaintenanceWindow!Plan]
           /\ windowMode'[a] = "idle"
        /\ \A b
           \in Operators \ {a} : MaintenanceWindow!Left(b)'
             = MaintenanceWindow!Left(b) /\ windowMode'[b] = windowMode[b]
    BY <1>1, <2>1, EntersFits
  <2>3. windowHeld' = [windowHeld EXCEPT ![a] = "none"]
    BY <2>1 DEF MaintenanceWindow!Release
  <2>4. /\ windowHeld' \in [Operators -> MaintenanceWindow!Locks]
        /\ windowHeld'[a] = "none"
           /\ \A b \in Operators \ {a} : windowHeld'[b] = windowHeld[b]
    BY <1>2, <2>3 DEF MaintenanceWindow!Locks
  <2>5. MaintenanceWindow!LocksFit'
    BY <2>2, <2>4, LocksKept
  <2> QED
    BY <1>2, <2>1, <2>2, <2>4, <2>5
<1> QED
  BY <1>1, <1>3, <1>4, <1>5, <1>6, <1>7

\* Nothing about the operators changes when none of them moves.
LEMMA AdminKept ==
  ASSUME MaintenanceWindow!TodoFits, MaintenanceWindow!LocksFit, windowMode'
         = windowMode, windowTodo' = windowTodo, windowHeld' = windowHeld
  PROVE  MaintenanceWindow!TodoFits' /\ MaintenanceWindow!LocksFit'
<1>1. MaintenanceWindow!TodoFits'
  BY DEF MaintenanceWindow!TodoFits, MaintenanceWindow!Left,
         MaintenanceWindow!Coming
<1>2. MaintenanceWindow!LocksFit'
  BY DEF MaintenanceWindow!LocksFit, MaintenanceWindow!Left
<1> QED
  BY <1>1, <1>2

\* What an operator does inside its window stays exclusive when the step of
\* another leaves the marker and the locks to it.
LEMMA ExclusiveKept ==
  ASSUME MaintenanceWindow!WindowExclusive, NEW a \in Operators,
         \A b \in Operators \ {a} : windowMode'[b] = windowMode[b]
           /\ windowHeld'[b] = windowHeld[b],
         (\E b \in Operators \ {a} : windowHeld[b] # "none")
            => windowHeld'[a] = "none" /\ windowMarker' = windowMarker,
         \A w \in MaintenanceWindow!Writers : windowAt'[w] = "write"
           => windowAt[w] = "write",
         windowMode'[a] = "window" /\ windowHeld'[a] = "gate" =>
            /\ MaintenanceWindow!Marked' /\ windowMarker'.phase = "maintenance"
            /\ \A w \in MaintenanceWindow!Writers : windowAt'[w] # "write"
            /\ \A b \in Operators \ {a} : windowHeld[b] = "none"
  PROVE  MaintenanceWindow!WindowExclusive'
<1> SUFFICES ASSUME NEW c
  \in Operators, windowMode'[c] = "window", windowHeld'[c] = "gate"
             PROVE  /\ MaintenanceWindow!Marked'
                       /\ windowMarker'.phase = "maintenance"
                    /\ \A w
                       \in MaintenanceWindow!Writers : windowAt'[w] # "write"
                    /\ \A b \in Operators \ {c} : windowHeld'[b] = "none"
  BY DEF MaintenanceWindow!WindowExclusive
<1>1. CASE c = a
  BY <1>1
<1>2. CASE c # a
  <2>1. windowMode[c] = "window" /\ windowHeld[c] = "gate"
    BY <1>2
  <2>2. /\ MaintenanceWindow!Marked /\ windowMarker.phase = "maintenance"
        /\ \A w \in MaintenanceWindow!Writers : windowAt[w] # "write"
        /\ \A b \in Operators \ {c} : windowHeld[b] = "none"
    BY <2>1 DEF MaintenanceWindow!WindowExclusive
  <2>3. windowHeld'[a] = "none" /\ windowMarker' = windowMarker
    BY <1>2, <2>1
  <2>4. MaintenanceWindow!Marked'
    BY <2>2, <2>3 DEF MaintenanceWindow!Marked
  <2>5. ASSUME NEW b \in Operators \ {c}
        PROVE  windowHeld'[b] = "none"
    BY <2>2, <2>3
  <2> QED
    BY <2>2, <2>3, <2>4, <2>5
<1> QED
  BY <1>1, <1>2

\* An operator that is not in the window's own step disturbs nobody's window:
\* it holds no lock while another does, and changes no marker then.
LEMMA OthersKept ==
  ASSUME MaintenanceWindow!WindowExclusive, MaintenanceWindow!LocksFit, NEW a
         \in Operators,
         \A b \in Operators \ {a} : windowMode'[b] = windowMode[b]
           /\ windowHeld'[b] = windowHeld[b],
         windowHeld'[a] \in {windowHeld[a], "none"},
         windowMarker' = windowMarker \/ windowHeld[a] # "none"
           \/ MaintenanceWindow!IntentFree,
         windowAt' = windowAt, windowMode'[a] # "window"
           \/ windowHeld'[a] # "gate"
  PROVE  MaintenanceWindow!WindowExclusive'
<1>1. ASSUME NEW b \in Operators \ {a}, windowHeld[b] # "none"
      PROVE  windowHeld[a] = "none" /\ ~MaintenanceWindow!IntentFree
  BY <1>1 DEF MaintenanceWindow!LocksFit, MaintenanceWindow!IntentFree
<1>2. (\E b \in Operators \ {a} : windowHeld[b] # "none")
         => windowHeld'[a] = "none" /\ windowMarker' = windowMarker
  BY <1>1
<1> QED
  BY <1>2, ExclusiveKept

\* The marker of a preparation is one.
LEMMA MaintenanceFits ==
  ASSUME MaintenanceWindow!BoundAssumption, MaintenanceWindow!NoneAssumption
  PROVE  MaintenanceWindow!Maintenance \in MaintenanceWindow!Marks
         /\ MaintenanceWindow!Maintenance # None
<1>1. 0 \in 0 .. MaxWindowRuns /\ 0 \in 0 .. MaxInvocations
  BY DEF MaintenanceWindow!BoundAssumption
<1>2. MaintenanceWindow!Maintenance \in MaintenanceWindow!Marks
  BY ONLY <1>1 DEF MaintenanceWindow!Maintenance, MaintenanceWindow!Marks
<1> QED
  BY <1>2 DEF MaintenanceWindow!NoneAssumption

\* A step that takes and gives no lock and is not the window's own.
LEMMA StepFits ==
  ASSUME MaintenanceWindow!TypeOK, MaintenanceWindow!TodoFits,
           MaintenanceWindow!LocksFit, NEW a
             \in Operators, windowTodo[a] # << >>,
         MaintenanceWindow!Advance(a), windowHeld' = windowHeld,
         Head(windowTodo[a])
           \in {"dropin", "stop", "prove", "reset", "check", "arm", "start",
               "read",
                            "claim", "renew", "undrop", "same", "complete"}
  PROVE  MaintenanceWindow!LocksFit' /\ windowMode'[a] # "window"
<1> DEFINE h == Head(windowTodo[a])
<1>1. /\ windowMode' = windowMode
         /\ MaintenanceWindow!Left(a)' = MaintenanceWindow!Left(a) - 1
      /\ \A b
         \in Operators \ {a} : MaintenanceWindow!Left(b)'
           = MaintenanceWindow!Left(b)
  BY AdvanceFits
<1>2. /\ windowHeld[a] # "none"
         => \A b \in Operators \ {a} : windowHeld[b] = "none"
      /\ windowMode[a] \in {"restore", "back", "settle"}
         => windowHeld[a] = "none"
      /\ windowMode[a] = "preempt"
         => windowHeld[a] = IF MaintenanceWindow!Left(a)
           = 1 THEN "gate" ELSE "intent"
      /\ windowMode[a] = "undo" =>
            /\ MaintenanceWindow!Left(a) \in {0, 1, 7}
               => windowHeld[a] = "none"
            /\ MaintenanceWindow!Left(a) \in 3 .. 6 => windowHeld[a] = "intent"
  BY DEF MaintenanceWindow!LocksFit
<1>3. \/ windowMode[a] \in {"restore", "back", "settle"}
      \/ windowMode[a] = "preempt" /\ MaintenanceWindow!Left(a) \in {3, 4, 5}
      \/ windowMode[a] = "undo" /\ MaintenanceWindow!Left(a) \in {1, 4, 5}
  BY StepAt
<1>4. CASE windowMode[a] \in {"restore", "back", "settle"}
  BY <1>1, <1>2, <1>4, LocksKept
<1>5. CASE windowMode[a] = "preempt" /\ MaintenanceWindow!Left(a) \in {3, 4, 5}
  <2>1. MaintenanceWindow!Left(a)' \in {2, 3, 4} /\ windowHeld[a] = "intent"
    BY <1>1, <1>2, <1>5
  <2> QED
    BY <1>1, <1>2, <1>5, <2>1, LocksKept
<1>6. CASE windowMode[a] = "undo" /\ MaintenanceWindow!Left(a) \in {1, 4, 5}
  <2>1. \/ MaintenanceWindow!Left(a)' \in {3, 4} /\ windowHeld[a] = "intent"
        \/ MaintenanceWindow!Left(a)' = 0 /\ windowHeld[a] = "none"
    BY <1>1, <1>2, <1>6
  <2> QED
    BY <1>1, <1>2, <1>6, <2>1, LocksKept
<1> QED
  BY <1>3, <1>4, <1>5, <1>6

\* Before the first command nobody holds a lock and there is no marker.
LEMMA WindowInit ==
  ASSUME MaintenanceWindow!BoundAssumption, MaintenanceWindow!Init
  PROVE  MaintenanceWindow!IInv
<1> USE MaintenanceWindow!BoundAssumption DEF MaintenanceWindow!Init
<1>1. MaintenanceWindow!TypeOK
  <2>1. "idle" \in DOMAIN MaintenanceWindow!Plan
    BY PlanType
  <2>2. <<>> \in Seq(MaintenanceWindow!Steps)
    OBVIOUS
  <2>3. 1 \in 1 .. MaxInvocations /\ 0 \in 0 .. MaxInvocations
    BY DEF MaintenanceWindow!BoundAssumption
  <2>4. 0 \in 0 .. MaxWindowRuns /\ 0 \in 0 .. MaxWindowFaults
    BY DEF MaintenanceWindow!BoundAssumption
  <2>5. windowMode \in [Operators -> DOMAIN MaintenanceWindow!Plan]
        /\ windowTodo \in [Operators -> Seq(MaintenanceWindow!Steps)]
    BY <2>1, <2>2
  <2>6. windowToken \in [Operators -> MaintenanceWindow!Tokens]
    <3>1. [gen |-> 0, inv |-> 0] \in MaintenanceWindow!Tokens
      BY ONLY <2>3, <2>4 DEF MaintenanceWindow!Tokens
    <3> QED
      BY <3>1
  <2>7. windowAt \in [MaintenanceWindow!Writers -> MaintenanceWindow!Places]
    BY DEF MaintenanceWindow!Places
  <2>8. windowHeld \in [Operators -> MaintenanceWindow!Locks]
        /\ windowSound \in [Operators -> BOOLEAN]
    BY DEF MaintenanceWindow!Locks
  <2> QED
    BY <2>3, <2>4, <2>5, <2>6, <2>7, <2>8 DEF MaintenanceWindow!TypeOK
<1>2. \A a \in Operators : MaintenanceWindow!Left(a) = 0
      /\ windowMode[a] = "idle" /\ windowHeld[a] = "none"
  BY DEF MaintenanceWindow!Left
<1>3. MaintenanceWindow!TodoFits
  <2>1. Len(MaintenanceWindow!Plan["idle"]) = 0
    BY PlanOfOthers
  <2> QED
    BY <1>2, <2>1 DEF MaintenanceWindow!TodoFits
<1>4. MaintenanceWindow!LocksFit
  BY <1>2 DEF MaintenanceWindow!LocksFit
<1>5. MaintenanceWindow!WindowExclusive
  BY <1>2 DEF MaintenanceWindow!WindowExclusive
<1>6. MaintenanceWindow!DrainedFits /\ MaintenanceWindow!DrainedIsQuiet
  BY DEF MaintenanceWindow!DrainedFits, MaintenanceWindow!DrainedIsQuiet
<1> QED
  BY <1>1, <1>3, <1>4, <1>5, <1>6 DEF MaintenanceWindow!IInv

\* Every step keeps all of it.
LEMMA WindowNext ==
  ASSUME MaintenanceWindow!BoundAssumption, MaintenanceWindow!NoneAssumption,
           MaintenanceWindow!IInv,
               [MaintenanceWindow!Next]_(MaintenanceWindow!vars)
  PROVE  MaintenanceWindow!IInv'
<1>1. /\ MaintenanceWindow!TypeOK /\ MaintenanceWindow!TodoFits
         /\ MaintenanceWindow!LocksFit /\ MaintenanceWindow!DrainedFits
            /\ MaintenanceWindow!DrainedIsQuiet
      /\ MaintenanceWindow!WindowExclusive
  BY DEF MaintenanceWindow!IInv
<1>2. /\ windowMarker \in {None} \cup MaintenanceWindow!Marks
      /\ windowDropin \in BOOLEAN /\ windowInv \in 1 .. MaxInvocations
      /\ windowAt \in [MaintenanceWindow!Writers -> MaintenanceWindow!Places]
         /\ windowMode \in [Operators -> DOMAIN MaintenanceWindow!Plan]
      /\ windowTodo \in [Operators -> Seq(MaintenanceWindow!Steps)]
         /\ windowHeld \in [Operators -> MaintenanceWindow!Locks]
      /\ windowToken \in [Operators -> MaintenanceWindow!Tokens]
         /\ windowSound \in [Operators -> BOOLEAN]
      /\ windowDrained \in BOOLEAN /\ windowConfirmed \in BOOLEAN
      /\ windowRuns \in 0 .. MaxWindowRuns
         /\ windowFaults \in 0 .. MaxWindowFaults
  BY <1>1 DEF MaintenanceWindow!TypeOK
<1>3. MaxWindowRuns \in Nat /\ MaxInvocations \in Nat \ {0}
      /\ MaxWindowFaults \in Nat
  BY DEF MaintenanceWindow!BoundAssumption
<1>4. CASE MaintenanceWindow!Appears
  <2>1. windowMode' = windowMode /\ windowTodo' = windowTodo
        /\ windowHeld' = windowHeld
    BY <1>4 DEF MaintenanceWindow!Appears, MaintenanceWindow!Move,
                MaintenanceWindow!admin
  <2>2. MaintenanceWindow!TodoFits' /\ MaintenanceWindow!LocksFit'
    BY <1>1, <2>1, AdminKept
  <2>3. /\ windowMarker' = windowMarker /\ windowDrained' = windowDrained
        /\ windowAt'
           \in [MaintenanceWindow!Writers -> MaintenanceWindow!Places]
        /\ \A v \in MaintenanceWindow!Writers : windowAt'[v] = "write"
           => windowAt[v] = "write"
    BY <1>2, <1>4 DEF MaintenanceWindow!Appears, MaintenanceWindow!Move,
                      MaintenanceWindow!Writers, MaintenanceWindow!Places
  <2>4. MaintenanceWindow!WindowExclusive'
    BY <1>1, <2>1, <2>3
       DEF MaintenanceWindow!WindowExclusive, MaintenanceWindow!Marked
  <2>5. MaintenanceWindow!DrainedFits' /\ MaintenanceWindow!DrainedIsQuiet'
    BY <1>1, <2>3 DEF MaintenanceWindow!DrainedFits,
                      MaintenanceWindow!DrainedIsQuiet,
                      MaintenanceWindow!Marked
  <2>6. MaintenanceWindow!TypeOK'
    BY <1>2, <1>3, <1>4, <2>3 DEF MaintenanceWindow!Appears,
                                  MaintenanceWindow!Move,
                                  MaintenanceWindow!admin,
                                  MaintenanceWindow!counts,
                                  MaintenanceWindow!TypeOK
  <2> QED
    BY <2>2, <2>4, <2>5, <2>6 DEF MaintenanceWindow!IInv
<1>5. CASE MaintenanceWindow!Leaves
  <2>1. windowMode' = windowMode /\ windowTodo' = windowTodo
        /\ windowHeld' = windowHeld
    BY <1>5 DEF MaintenanceWindow!Leaves, MaintenanceWindow!Move,
                MaintenanceWindow!admin
  <2>2. MaintenanceWindow!TodoFits' /\ MaintenanceWindow!LocksFit'
    BY <1>1, <2>1, AdminKept
  <2>3. /\ windowMarker' = windowMarker /\ windowDrained' = windowDrained
        /\ windowAt'
           \in [MaintenanceWindow!Writers -> MaintenanceWindow!Places]
        /\ \A v \in MaintenanceWindow!Writers : windowAt'[v] = "write"
           => windowAt[v] = "write"
    BY <1>2, <1>5 DEF MaintenanceWindow!Leaves, MaintenanceWindow!Move,
                      MaintenanceWindow!Writers, MaintenanceWindow!Places
  <2>4. MaintenanceWindow!WindowExclusive'
    BY <1>1, <2>1, <2>3
       DEF MaintenanceWindow!WindowExclusive, MaintenanceWindow!Marked
  <2>5. MaintenanceWindow!DrainedFits' /\ MaintenanceWindow!DrainedIsQuiet'
    BY <1>1, <2>3 DEF MaintenanceWindow!DrainedFits,
                      MaintenanceWindow!DrainedIsQuiet,
                      MaintenanceWindow!Marked
  <2>6. MaintenanceWindow!TypeOK'
    BY <1>2, <1>3, <1>5, <2>3 DEF MaintenanceWindow!Leaves,
                                  MaintenanceWindow!Move,
                                  MaintenanceWindow!admin,
                                  MaintenanceWindow!counts,
                                  MaintenanceWindow!TypeOK
  <2> QED
    BY <2>2, <2>4, <2>5, <2>6 DEF MaintenanceWindow!IInv
<1>6. CASE MaintenanceWindow!Poll
  <2>1. windowMode' = windowMode /\ windowTodo' = windowTodo
        /\ windowHeld' = windowHeld
    BY <1>6 DEF MaintenanceWindow!Poll, MaintenanceWindow!Move,
                MaintenanceWindow!admin
  <2>2. MaintenanceWindow!TodoFits' /\ MaintenanceWindow!LocksFit'
    BY <1>1, <2>1, AdminKept
  <2>3. /\ windowMarker' = windowMarker /\ windowDrained' = windowDrained
        /\ windowAt'
           \in [MaintenanceWindow!Writers -> MaintenanceWindow!Places]
        /\ \A v \in MaintenanceWindow!Writers : windowAt'[v] = "write"
           => windowAt[v] = "write"
    BY <1>2, <1>6 DEF MaintenanceWindow!Poll, MaintenanceWindow!Move,
                      MaintenanceWindow!Writers, MaintenanceWindow!Places
  <2>4. MaintenanceWindow!WindowExclusive'
    BY <1>1, <2>1, <2>3
       DEF MaintenanceWindow!WindowExclusive, MaintenanceWindow!Marked
  <2>5. MaintenanceWindow!DrainedFits' /\ MaintenanceWindow!DrainedIsQuiet'
    BY <1>1, <2>3 DEF MaintenanceWindow!DrainedFits,
                      MaintenanceWindow!DrainedIsQuiet,
                      MaintenanceWindow!Marked
  <2>6. MaintenanceWindow!TypeOK'
    BY <1>2, <1>3, <1>6, <2>3 DEF MaintenanceWindow!Poll,
                                  MaintenanceWindow!Move,
                                  MaintenanceWindow!admin,
                                  MaintenanceWindow!counts,
                                  MaintenanceWindow!TypeOK
  <2> QED
    BY <2>2, <2>4, <2>5, <2>6 DEF MaintenanceWindow!IInv
<1>7. CASE MaintenanceWindow!UnitRestarts
  <2>1. windowMode' = windowMode /\ windowTodo' = windowTodo
        /\ windowHeld' = windowHeld
    BY <1>7 DEF MaintenanceWindow!UnitRestarts, MaintenanceWindow!admin
  <2>2. MaintenanceWindow!TodoFits' /\ MaintenanceWindow!LocksFit'
    BY <1>1, <2>1, AdminKept
  <2>3. /\ windowMarker' = windowMarker /\ windowDrained' = windowDrained
        /\ windowAt'
           \in [MaintenanceWindow!Writers -> MaintenanceWindow!Places]
        /\ \A v \in MaintenanceWindow!Writers : windowAt'[v] = "write"
           => windowAt[v] = "write"
    BY <1>2, <1>7 DEF MaintenanceWindow!UnitRestarts,
                      MaintenanceWindow!Writers, MaintenanceWindow!Places
  <2>4. MaintenanceWindow!WindowExclusive'
    BY <1>1, <2>1, <2>3
       DEF MaintenanceWindow!WindowExclusive, MaintenanceWindow!Marked
  <2>5. MaintenanceWindow!DrainedFits' /\ MaintenanceWindow!DrainedIsQuiet'
    BY <1>1, <2>3 DEF MaintenanceWindow!DrainedFits,
                      MaintenanceWindow!DrainedIsQuiet,
                      MaintenanceWindow!Marked
  <2>6. MaintenanceWindow!TypeOK'
    BY <1>2, <1>3, <1>7, <2>3
       DEF MaintenanceWindow!UnitRestarts, MaintenanceWindow!admin,
           MaintenanceWindow!counts, MaintenanceWindow!TypeOK
  <2> QED
    BY <2>2, <2>4, <2>5, <2>6 DEF MaintenanceWindow!IInv
<1>8. CASE MaintenanceWindow!UnitDies
  <2>1. windowMode' = windowMode /\ windowTodo' = windowTodo
        /\ windowHeld' = windowHeld
    BY <1>8 DEF MaintenanceWindow!UnitDies, MaintenanceWindow!Fault,
                MaintenanceWindow!admin
  <2>2. MaintenanceWindow!TodoFits' /\ MaintenanceWindow!LocksFit'
    BY <1>1, <2>1, AdminKept
  <2>3. /\ windowMarker' = windowMarker /\ windowDrained' = windowDrained
        /\ windowAt'
           \in [MaintenanceWindow!Writers -> MaintenanceWindow!Places]
        /\ \A v \in MaintenanceWindow!Writers : windowAt'[v] = "write"
           => windowAt[v] = "write"
    BY <1>2, <1>8 DEF MaintenanceWindow!UnitDies, MaintenanceWindow!Writers,
                      MaintenanceWindow!Places
  <2>4. MaintenanceWindow!WindowExclusive'
    BY <1>1, <2>1, <2>3
       DEF MaintenanceWindow!WindowExclusive, MaintenanceWindow!Marked
  <2>5. MaintenanceWindow!DrainedFits' /\ MaintenanceWindow!DrainedIsQuiet'
    BY <1>1, <2>3 DEF MaintenanceWindow!DrainedFits,
                      MaintenanceWindow!DrainedIsQuiet,
                      MaintenanceWindow!Marked
  <2>6. MaintenanceWindow!TypeOK'
    BY <1>2, <1>3, <1>8, <2>3
       DEF MaintenanceWindow!UnitDies, MaintenanceWindow!Fault,
           MaintenanceWindow!admin, MaintenanceWindow!counts,
           MaintenanceWindow!TypeOK
  <2> QED
    BY <2>2, <2>4, <2>5, <2>6 DEF MaintenanceWindow!IInv
<1>9. CASE MaintenanceWindow!Expire
  <2>1. windowMode' = windowMode /\ windowTodo' = windowTodo
        /\ windowHeld' = windowHeld
    BY <1>9 DEF MaintenanceWindow!Expire, MaintenanceWindow!admin
  <2>2. MaintenanceWindow!TodoFits' /\ MaintenanceWindow!LocksFit'
    BY <1>1, <2>1, AdminKept
  <2>3. windowMarker \in MaintenanceWindow!Marks
        /\ windowMarker' = [windowMarker EXCEPT !.live = FALSE]
           /\ MaintenanceWindow!Marked
    BY <1>2, <1>9 DEF MaintenanceWindow!Expire, MaintenanceWindow!Marked
  <2>4. windowMarker' \in MaintenanceWindow!Marks
        /\ windowMarker'.phase = windowMarker.phase
    BY ONLY <2>3 DEF MaintenanceWindow!Marks
  <2>5. windowAt' = windowAt /\ windowDrained' = windowDrained
    BY <1>9 DEF MaintenanceWindow!Expire
  <2>6. MaintenanceWindow!Marked'
    BY <2>4 DEF MaintenanceWindow!NoneAssumption, MaintenanceWindow!Marked
  <2>7. MaintenanceWindow!WindowExclusive'
    BY <1>1, <2>1, <2>3, <2>4, <2>5, <2>6 DEF MaintenanceWindow!WindowExclusive
  <2>8. MaintenanceWindow!DrainedFits' /\ MaintenanceWindow!DrainedIsQuiet'
    BY <1>1, <2>3, <2>5, <2>6
       DEF MaintenanceWindow!DrainedFits, MaintenanceWindow!DrainedIsQuiet
  <2>9. MaintenanceWindow!TypeOK'
    BY <1>2, <1>9, <2>4 DEF MaintenanceWindow!Expire, MaintenanceWindow!admin,
                            MaintenanceWindow!counts, MaintenanceWindow!TypeOK
  <2> QED
    BY <2>2, <2>7, <2>8, <2>9 DEF MaintenanceWindow!IInv
<1>10. ASSUME NEW w
              \in MaintenanceWindow!Writers, MaintenanceWindow!ShareIntent(w)
      PROVE  MaintenanceWindow!IInv'
  <2>1. windowMode' = windowMode /\ windowTodo' = windowTodo
        /\ windowHeld' = windowHeld
    BY <1>10 DEF MaintenanceWindow!ShareIntent, MaintenanceWindow!Move,
                 MaintenanceWindow!admin
  <2>2. MaintenanceWindow!TodoFits' /\ MaintenanceWindow!LocksFit'
    BY <1>1, <2>1, AdminKept
  <2>3. /\ windowMarker' = windowMarker /\ windowDrained' = windowDrained
        /\ windowAt'
           \in [MaintenanceWindow!Writers -> MaintenanceWindow!Places]
        /\ \A v \in MaintenanceWindow!Writers : windowAt'[v] = "write"
           => windowAt[v] = "write"
    BY <1>2, <1>10 DEF MaintenanceWindow!ShareIntent, MaintenanceWindow!Move,
                       MaintenanceWindow!Places
  <2>4. MaintenanceWindow!WindowExclusive'
    BY <1>1, <2>1, <2>3
       DEF MaintenanceWindow!WindowExclusive, MaintenanceWindow!Marked
  <2>5. MaintenanceWindow!DrainedFits' /\ MaintenanceWindow!DrainedIsQuiet'
    BY <1>1, <2>3 DEF MaintenanceWindow!DrainedFits,
                      MaintenanceWindow!DrainedIsQuiet,
                      MaintenanceWindow!Marked
  <2>6. MaintenanceWindow!TypeOK'
    BY <1>2, <1>3, <1>10, <2>3
       DEF MaintenanceWindow!ShareIntent, MaintenanceWindow!Move,
           MaintenanceWindow!admin, MaintenanceWindow!counts,
           MaintenanceWindow!TypeOK
  <2> QED
    BY <2>2, <2>4, <2>5, <2>6 DEF MaintenanceWindow!IInv
<1>11. ASSUME NEW w
              \in MaintenanceWindow!Writers, MaintenanceWindow!ShareGate(w)
      PROVE  MaintenanceWindow!IInv'
  <2>1. windowMode' = windowMode /\ windowTodo' = windowTodo
        /\ windowHeld' = windowHeld
    BY <1>11 DEF MaintenanceWindow!ShareGate, MaintenanceWindow!Move,
                 MaintenanceWindow!admin
  <2>2. MaintenanceWindow!TodoFits' /\ MaintenanceWindow!LocksFit'
    BY <1>1, <2>1, AdminKept
  <2>3. /\ windowMarker' = windowMarker /\ windowDrained' = windowDrained
        /\ windowAt'
           \in [MaintenanceWindow!Writers -> MaintenanceWindow!Places]
        /\ \A v \in MaintenanceWindow!Writers : windowAt'[v] = "write"
           => windowAt[v] = "write"
    BY <1>2, <1>11 DEF MaintenanceWindow!ShareGate, MaintenanceWindow!Move,
                       MaintenanceWindow!Places
  <2>4. MaintenanceWindow!WindowExclusive'
    BY <1>1, <2>1, <2>3
       DEF MaintenanceWindow!WindowExclusive, MaintenanceWindow!Marked
  <2>5. MaintenanceWindow!DrainedFits' /\ MaintenanceWindow!DrainedIsQuiet'
    BY <1>1, <2>3 DEF MaintenanceWindow!DrainedFits,
                      MaintenanceWindow!DrainedIsQuiet,
                      MaintenanceWindow!Marked
  <2>6. MaintenanceWindow!TypeOK'
    BY <1>2, <1>3, <1>11, <2>3
       DEF MaintenanceWindow!ShareGate, MaintenanceWindow!Move,
           MaintenanceWindow!admin, MaintenanceWindow!counts,
           MaintenanceWindow!TypeOK
  <2> QED
    BY <2>2, <2>4, <2>5, <2>6 DEF MaintenanceWindow!IInv
<1>12. ASSUME NEW w
              \in MaintenanceWindow!Writers, MaintenanceWindow!Permitted(w)
      PROVE  MaintenanceWindow!IInv'
  <2>1. windowMode' = windowMode /\ windowTodo' = windowTodo
        /\ windowHeld' = windowHeld
    BY <1>12 DEF MaintenanceWindow!Permitted, MaintenanceWindow!Move,
                 MaintenanceWindow!admin
  <2>2. MaintenanceWindow!TodoFits' /\ MaintenanceWindow!LocksFit'
    BY <1>1, <2>1, AdminKept
  <2>3. /\ windowMarker' = windowMarker /\ windowDrained' = windowDrained
        /\ windowAt'
           \in [MaintenanceWindow!Writers -> MaintenanceWindow!Places]
        /\ MaintenanceWindow!Marked
           => \A v \in MaintenanceWindow!Writers : windowAt'[v] = "write"
             => windowAt[v] = "write"
    BY <1>2, <1>12 DEF MaintenanceWindow!Permitted, MaintenanceWindow!Move,
                       MaintenanceWindow!Marked, MaintenanceWindow!Places
  <2>4. MaintenanceWindow!WindowExclusive'
    BY <1>1, <2>1, <2>3
       DEF MaintenanceWindow!WindowExclusive, MaintenanceWindow!Marked
  <2>5. MaintenanceWindow!DrainedFits' /\ MaintenanceWindow!DrainedIsQuiet'
    BY <1>1, <2>3 DEF MaintenanceWindow!DrainedFits,
                      MaintenanceWindow!DrainedIsQuiet,
                      MaintenanceWindow!Marked
  <2>6. MaintenanceWindow!TypeOK'
    BY <1>2, <1>3, <1>12, <2>3
       DEF MaintenanceWindow!Permitted, MaintenanceWindow!Move,
           MaintenanceWindow!admin, MaintenanceWindow!counts,
           MaintenanceWindow!TypeOK
  <2> QED
    BY <2>2, <2>4, <2>5, <2>6 DEF MaintenanceWindow!IInv
<1>13. ASSUME NEW w \in MaintenanceWindow!Writers, MaintenanceWindow!Written(w)
      PROVE  MaintenanceWindow!IInv'
  <2>1. windowMode' = windowMode /\ windowTodo' = windowTodo
        /\ windowHeld' = windowHeld
    BY <1>13 DEF MaintenanceWindow!Written, MaintenanceWindow!Move,
                 MaintenanceWindow!admin
  <2>2. MaintenanceWindow!TodoFits' /\ MaintenanceWindow!LocksFit'
    BY <1>1, <2>1, AdminKept
  <2>3. /\ windowMarker' = windowMarker /\ windowDrained' = windowDrained
        /\ windowAt'
           \in [MaintenanceWindow!Writers -> MaintenanceWindow!Places]
        /\ \A v \in MaintenanceWindow!Writers : windowAt'[v] = "write"
           => windowAt[v] = "write"
    BY <1>2, <1>13 DEF MaintenanceWindow!Written, MaintenanceWindow!Move,
                       MaintenanceWindow!Places
  <2>4. MaintenanceWindow!WindowExclusive'
    BY <1>1, <2>1, <2>3
       DEF MaintenanceWindow!WindowExclusive, MaintenanceWindow!Marked
  <2>5. MaintenanceWindow!DrainedFits' /\ MaintenanceWindow!DrainedIsQuiet'
    BY <1>1, <2>3 DEF MaintenanceWindow!DrainedFits,
                      MaintenanceWindow!DrainedIsQuiet,
                      MaintenanceWindow!Marked
  <2>6. MaintenanceWindow!TypeOK'
    BY <1>2, <1>3, <1>13, <2>3
       DEF MaintenanceWindow!Written, MaintenanceWindow!Move,
           MaintenanceWindow!admin, MaintenanceWindow!counts,
           MaintenanceWindow!TypeOK
  <2> QED
    BY <2>2, <2>4, <2>5, <2>6 DEF MaintenanceWindow!IInv
<1>14. ASSUME NEW a \in Operators, MaintenanceWindow!Command(a)
      PROVE  MaintenanceWindow!IInv'
  <2>1. PICK m \in {"prepare", "restore", "window"} :
               MaintenanceWindow!Enters(a, m)
    BY <1>14 DEF MaintenanceWindow!Command
  <2>2. m \in DOMAIN MaintenanceWindow!Plan
    BY PlanType
  <2>3. /\ windowTodo' \in [Operators -> Seq(MaintenanceWindow!Steps)]
           /\ MaintenanceWindow!TodoFits'
        /\ windowMode' \in [Operators -> DOMAIN MaintenanceWindow!Plan]
           /\ windowMode'[a] = m
        /\ MaintenanceWindow!Left(a)' = Len(MaintenanceWindow!Plan[m])
        /\ \A b
           \in Operators \ {a} : MaintenanceWindow!Left(b)'
             = MaintenanceWindow!Left(b) /\ windowMode'[b] = windowMode[b]
    BY <1>1, <2>1, <2>2, EntersFits
  <2>4. /\ windowHeld' = windowHeld /\ windowMarker' = windowMarker
           /\ windowDrained' = windowDrained /\ windowAt' = windowAt
        /\ windowSound' = [windowSound EXCEPT ![a] = TRUE]
        /\ windowRuns' = windowRuns + 1 /\ windowRuns < MaxWindowRuns
        /\ UNCHANGED <<windowDropin, windowInv, windowToken, windowConfirmed,
             windowFaults>>
    BY <1>14 DEF MaintenanceWindow!Command
  <2>5. windowHeld[a] = "none"
    BY <1>1, <1>14 DEF MaintenanceWindow!Command, MaintenanceWindow!LocksFit
  <2>6. MaintenanceWindow!LocksFit'
    <3>1. CASE m = "prepare"
      <4>1. MaintenanceWindow!Left(a)' = 4
        BY <2>3, <3>1, PlanOfPrepare
      <4> QED
        BY <1>1, <2>3, <2>4, <2>5, <3>1, <4>1, LocksKept
    <3>2. CASE m = "restore"
      BY <1>1, <2>3, <2>4, <2>5, <3>2, LocksKept
    <3>3. CASE m = "window"
      <4>1. MaintenanceWindow!Left(a)' = 2
        BY <2>3, <3>3, PlanOfOthers
      <4> QED
        BY <1>1, <2>3, <2>4, <2>5, <3>3, <4>1, LocksKept
    <3> QED
      BY <2>1, <3>1, <3>2, <3>3
  <2>7. MaintenanceWindow!WindowExclusive'
    BY <1>1, <2>3, <2>4, <2>5, OthersKept
  <2>8. MaintenanceWindow!DrainedFits' /\ MaintenanceWindow!DrainedIsQuiet'
    BY <1>1, <2>4 DEF MaintenanceWindow!DrainedFits,
                      MaintenanceWindow!DrainedIsQuiet,
                      MaintenanceWindow!Marked
  <2>9. MaintenanceWindow!TypeOK'
    BY <1>2, <1>3, <2>3, <2>4 DEF MaintenanceWindow!TypeOK
  <2> QED
    BY <2>3, <2>6, <2>7, <2>8, <2>9 DEF MaintenanceWindow!IInv
<1>15. ASSUME NEW a \in Operators, MaintenanceWindow!TakeIntent(a)
      PROVE  MaintenanceWindow!IInv'
  <2>1. windowTodo[a] # << >> /\ Head(windowTodo[a]) = "intent"
        /\ MaintenanceWindow!Advance(a) /\ MaintenanceWindow!IntentFree
    BY <1>15 DEF MaintenanceWindow!TakeIntent, MaintenanceWindow!Doing
  <2>2. \/ windowMode[a] = "prepare" /\ MaintenanceWindow!Left(a) = 4
        \/ windowMode[a] = "undo" /\ MaintenanceWindow!Left(a) = 7
    BY <1>1, <2>1, StepAt
  <2>3. /\ windowTodo' \in [Operators -> Seq(MaintenanceWindow!Steps)]
           /\ MaintenanceWindow!TodoFits' /\ windowMode' = windowMode
        /\ MaintenanceWindow!Left(a)' = MaintenanceWindow!Left(a) - 1
        /\ \A b
           \in Operators \ {a} : MaintenanceWindow!Left(b)'
             = MaintenanceWindow!Left(b)
    BY <1>1, <2>1, AdvanceFits
  <2>4. /\ windowHeld' = [windowHeld EXCEPT ![a] = "intent"]
        /\ UNCHANGED <<windowMarker, windowDropin, windowAt, windowInv,
             windowToken, windowSound, windowDrained, windowConfirmed,
                 MaintenanceWindow!counts>>
    BY <1>15 DEF MaintenanceWindow!TakeIntent
  <2>5. /\ windowHeld' \in [Operators -> MaintenanceWindow!Locks]
           /\ windowHeld'[a] = "intent"
        /\ \A b \in Operators \ {a} : windowHeld'[b] = windowHeld[b]
    BY <1>2, <2>4 DEF MaintenanceWindow!Locks
  <2>6. \A b \in Operators : windowHeld[b] = "none"
    BY <2>1 DEF MaintenanceWindow!IntentFree
  <2>7. MaintenanceWindow!LocksFit'
    <3>1. CASE windowMode[a] = "prepare" /\ MaintenanceWindow!Left(a) = 4
      <4>1. windowMode'[a] = "prepare" /\ MaintenanceWindow!Left(a)' = 3
        BY <2>3, <3>1
      <4> QED
        BY <1>1, <2>3, <2>5, <2>6, <4>1, LocksKept
    <3>2. CASE windowMode[a] = "undo" /\ MaintenanceWindow!Left(a) = 7
      <4>1. windowMode'[a] = "undo" /\ MaintenanceWindow!Left(a)' = 6
        BY <2>3, <3>2
      <4> QED
        BY <1>1, <2>3, <2>5, <2>6, <4>1, LocksKept
    <3> QED
      BY <2>2, <3>1, <3>2
  <2>8. MaintenanceWindow!WindowExclusive'
    BY <1>1, <2>3, <2>4, <2>5, <2>6, ExclusiveKept
  <2>9. MaintenanceWindow!DrainedFits' /\ MaintenanceWindow!DrainedIsQuiet'
    BY <1>1, <2>4 DEF MaintenanceWindow!DrainedFits,
                      MaintenanceWindow!DrainedIsQuiet,
                      MaintenanceWindow!Marked
  <2>10. MaintenanceWindow!TypeOK'
    BY <1>2, <2>3, <2>4, <2>5 DEF MaintenanceWindow!TypeOK,
                                  MaintenanceWindow!counts
  <2> QED
    BY <2>3, <2>7, <2>8, <2>9, <2>10 DEF MaintenanceWindow!IInv
<1>16. ASSUME NEW a \in Operators, MaintenanceWindow!Publish(a)
      PROVE  MaintenanceWindow!IInv'
  <2>1. windowTodo[a] # << >> /\ Head(windowTodo[a]) = "marker"
        /\ MaintenanceWindow!Advance(a)
    BY <1>16 DEF MaintenanceWindow!Publish, MaintenanceWindow!Doing
  <2>2. \/ windowMode[a] = "prepare" /\ MaintenanceWindow!Left(a) = 3
        \/ windowMode[a] = "undo" /\ MaintenanceWindow!Left(a) = 6
    BY <1>1, <2>1, StepAt
  <2>3. /\ windowTodo' \in [Operators -> Seq(MaintenanceWindow!Steps)]
           /\ MaintenanceWindow!TodoFits' /\ windowMode' = windowMode
        /\ MaintenanceWindow!Left(a)' = MaintenanceWindow!Left(a) - 1
        /\ \A b
           \in Operators \ {a} : MaintenanceWindow!Left(b)'
             = MaintenanceWindow!Left(b)
    BY <1>1, <2>1, AdvanceFits
  <2>4. /\ windowHeld' = windowHeld
           /\ windowMarker' = MaintenanceWindow!Maintenance
        /\ UNCHANGED <<windowDropin, windowAt, windowInv, windowToken,
             windowSound, windowDrained, windowConfirmed,
                 MaintenanceWindow!counts>>
    BY <1>16 DEF MaintenanceWindow!Publish
  <2>5. windowHeld[a] = "intent"
    BY <1>1, <2>2 DEF MaintenanceWindow!LocksFit
  <2>6. windowMarker' \in MaintenanceWindow!Marks /\ MaintenanceWindow!Marked'
    BY <2>4, MaintenanceFits DEF MaintenanceWindow!Marked
  <2>7. \A b \in Operators \ {a} : windowHeld[b] = "none"
    BY <1>1, <2>5 DEF MaintenanceWindow!LocksFit
  <2>8. MaintenanceWindow!LocksFit'
    BY <1>1, <2>2, <2>3, <2>4, <2>5, <2>7, LocksKept
  <2>9. MaintenanceWindow!WindowExclusive'
    BY <1>1, <2>2, <2>3, <2>4, <2>5, OthersKept
  <2>10. MaintenanceWindow!DrainedFits'
    BY <2>6 DEF MaintenanceWindow!DrainedFits
  <2>11. MaintenanceWindow!DrainedIsQuiet'
    BY <1>1, <2>4 DEF MaintenanceWindow!DrainedIsQuiet,
                      MaintenanceWindow!DrainedFits
  <2>12. MaintenanceWindow!TypeOK'
    BY <1>2, <2>3, <2>4, <2>6 DEF MaintenanceWindow!TypeOK,
                                  MaintenanceWindow!counts
  <2> QED
    BY <2>3, <2>8, <2>9, <2>10, <2>11, <2>12 DEF MaintenanceWindow!IInv
<1>17. ASSUME NEW a \in Operators, MaintenanceWindow!TakeGate(a)
      PROVE  MaintenanceWindow!IInv'
  <2>1. windowTodo[a] # << >> /\ Head(windowTodo[a]) = "gate"
        /\ MaintenanceWindow!Advance(a) /\ MaintenanceWindow!NoGateReader
    BY <1>17 DEF MaintenanceWindow!TakeGate, MaintenanceWindow!Doing
  <2>2. \/ windowMode[a] \in {"prepare", "preempt"}
           /\ MaintenanceWindow!Left(a) = 2
        \/ windowMode[a] = "undo" /\ MaintenanceWindow!Left(a) = 3
    BY <1>1, <2>1, StepAt
  <2>3. /\ windowTodo' \in [Operators -> Seq(MaintenanceWindow!Steps)]
           /\ MaintenanceWindow!TodoFits' /\ windowMode' = windowMode
        /\ MaintenanceWindow!Left(a)' = MaintenanceWindow!Left(a) - 1
        /\ \A b
           \in Operators \ {a} : MaintenanceWindow!Left(b)'
             = MaintenanceWindow!Left(b)
    BY <1>1, <2>1, AdvanceFits
  <2>4. /\ windowHeld' = [windowHeld EXCEPT ![a] = "gate"]
           /\ windowDrained' = (windowMarker # None)
        /\ UNCHANGED <<windowMarker, windowDropin, windowAt, windowInv,
             windowToken, windowSound, windowConfirmed,
                 MaintenanceWindow!counts>>
    BY <1>17 DEF MaintenanceWindow!TakeGate
  <2>5. /\ windowHeld' \in [Operators -> MaintenanceWindow!Locks]
           /\ windowHeld'[a] = "gate"
        /\ \A b \in Operators \ {a} : windowHeld'[b] = windowHeld[b]
    BY <1>2, <2>4 DEF MaintenanceWindow!Locks
  <2>6. windowHeld[a] = "intent"
    BY <1>1, <2>2 DEF MaintenanceWindow!LocksFit
  <2>7. \A b \in Operators \ {a} : windowHeld[b] = "none"
    BY <1>1, <2>6 DEF MaintenanceWindow!LocksFit
  <2>8. MaintenanceWindow!LocksFit'
    BY <1>1, <2>2, <2>3, <2>5, <2>7, LocksKept
  <2>9. MaintenanceWindow!WindowExclusive'
    BY <1>1, <2>2, <2>3, <2>4, <2>5, <2>7, ExclusiveKept
  <2>10. MaintenanceWindow!DrainedFits' /\ MaintenanceWindow!DrainedIsQuiet'
    BY <2>1, <2>4 DEF MaintenanceWindow!DrainedFits,
                      MaintenanceWindow!DrainedIsQuiet,
                      MaintenanceWindow!Marked, MaintenanceWindow!NoGateReader
  <2>11. MaintenanceWindow!TypeOK'
    BY <1>2, <2>3, <2>4, <2>5 DEF MaintenanceWindow!TypeOK,
                                  MaintenanceWindow!counts
  <2> QED
    BY <2>3, <2>8, <2>9, <2>10, <2>11 DEF MaintenanceWindow!IInv
<1>18. ASSUME NEW a \in Operators, MaintenanceWindow!GateBusy(a)
      PROVE  MaintenanceWindow!IInv'
  <2>1. windowTodo[a] # << >> /\ Head(windowTodo[a]) = "gate"
    BY <1>18 DEF MaintenanceWindow!GateBusy, MaintenanceWindow!Doing
  <2>2. UNCHANGED <<windowMarker, windowDropin, windowAt, windowInv,
          windowToken, windowDrained, windowConfirmed,
              MaintenanceWindow!counts>>
    BY <1>18 DEF MaintenanceWindow!GateBusy
  <2>3. /\ windowTodo' \in [Operators -> Seq(MaintenanceWindow!Steps)]
        /\ windowMode' \in [Operators -> DOMAIN MaintenanceWindow!Plan]
        /\ windowHeld' \in [Operators -> MaintenanceWindow!Locks]
           /\ windowSound' \in [Operators -> BOOLEAN]
        /\ MaintenanceWindow!TodoFits' /\ MaintenanceWindow!LocksFit'
        /\ windowHeld'[a] \in {windowHeld[a], "none"}
           /\ windowMode'[a] # "window"
        /\ \A b \in Operators \ {a} : windowMode'[b] = windowMode[b]
           /\ windowHeld'[b] = windowHeld[b]
    <3>1. CASE windowMode[a] = "prepare"
      <4>1. MaintenanceWindow!Enters(a, "preempt") /\ windowHeld' = windowHeld
            /\ windowSound' = windowSound
        BY <1>18, <3>1 DEF MaintenanceWindow!GateBusy
      <4>2. "preempt" \in DOMAIN MaintenanceWindow!Plan
            /\ Len(MaintenanceWindow!Plan["preempt"]) = 5
        BY PlanType, PlanOfPreempt
      <4>3. /\ windowTodo' \in [Operators -> Seq(MaintenanceWindow!Steps)]
               /\ MaintenanceWindow!TodoFits'
            /\ windowMode' \in [Operators -> DOMAIN MaintenanceWindow!Plan]
               /\ windowMode'[a] = "preempt"
            /\ MaintenanceWindow!Left(a)' = 5
            /\ \A b
               \in Operators \ {a} : MaintenanceWindow!Left(b)'
                 = MaintenanceWindow!Left(b) /\ windowMode'[b] = windowMode[b]
        BY <1>1, <4>1, <4>2, EntersFits
      <4>4. MaintenanceWindow!Left(a) = 2
        BY <1>1, <2>1, <3>1, StepAt
      <4>5. windowHeld[a] = "intent"
            /\ \A b \in Operators \ {a} : windowHeld[b] = "none"
        BY <1>1, <3>1, <4>4 DEF MaintenanceWindow!LocksFit
      <4>6. MaintenanceWindow!LocksFit'
        BY <1>1, <4>1, <4>3, <4>5, LocksKept
      <4> QED
        BY <1>2, <4>1, <4>3, <4>6
    <3>2. CASE windowMode[a] # "prepare"
      <4>1. MaintenanceWindow!Fails(a)
        BY <1>18, <3>2 DEF MaintenanceWindow!GateBusy
      <4> QED
        BY <1>1, <2>1, <4>1, FailsFits
    <3> QED
      BY <3>1, <3>2
  <2>4. MaintenanceWindow!WindowExclusive'
    BY <1>1, <2>2, <2>3, OthersKept
  <2>5. MaintenanceWindow!DrainedFits' /\ MaintenanceWindow!DrainedIsQuiet'
    BY <1>1, <2>2 DEF MaintenanceWindow!DrainedFits,
                      MaintenanceWindow!DrainedIsQuiet,
                      MaintenanceWindow!Marked
  <2>6. MaintenanceWindow!TypeOK'
    BY <1>2, <2>2, <2>3 DEF MaintenanceWindow!TypeOK, MaintenanceWindow!counts
  <2> QED
    BY <2>3, <2>4, <2>5, <2>6 DEF MaintenanceWindow!IInv
<1>19. ASSUME NEW a \in Operators, MaintenanceWindow!Leave(a)
      PROVE  MaintenanceWindow!IInv'
  <2>1. windowTodo[a] # << >> /\ Head(windowTodo[a]) = "leave"
    BY <1>19 DEF MaintenanceWindow!Leave, MaintenanceWindow!Doing
  <2>2. /\ windowHeld' = [windowHeld EXCEPT ![a] = "none"]
        /\ UNCHANGED <<windowMarker, windowDropin, windowAt, windowInv,
             windowToken, windowSound, windowDrained, windowConfirmed,
                 MaintenanceWindow!counts>>
    BY <1>19 DEF MaintenanceWindow!Leave, MaintenanceWindow!Release
  <2>3. /\ windowHeld' \in [Operators -> MaintenanceWindow!Locks]
           /\ windowHeld'[a] = "none"
        /\ \A b \in Operators \ {a} : windowHeld'[b] = windowHeld[b]
    BY <1>2, <2>2 DEF MaintenanceWindow!Locks
  <2>4. /\ windowTodo' \in [Operators -> Seq(MaintenanceWindow!Steps)]
        /\ windowMode' \in [Operators -> DOMAIN MaintenanceWindow!Plan]
        /\ MaintenanceWindow!TodoFits' /\ MaintenanceWindow!LocksFit'
        /\ \A b \in Operators \ {a} : windowMode'[b] = windowMode[b]
    <3>1. CASE windowMode[a] \in {"prepare", "preempt"}
      <4>1. MaintenanceWindow!Enters(a, "settle")
            /\ "settle" \in DOMAIN MaintenanceWindow!Plan
        BY <1>19, <3>1, PlanType DEF MaintenanceWindow!Leave
      <4>2. /\ windowTodo' \in [Operators -> Seq(MaintenanceWindow!Steps)]
               /\ MaintenanceWindow!TodoFits'
            /\ windowMode' \in [Operators -> DOMAIN MaintenanceWindow!Plan]
               /\ windowMode'[a] = "settle"
            /\ \A b
               \in Operators \ {a} : MaintenanceWindow!Left(b)'
                 = MaintenanceWindow!Left(b) /\ windowMode'[b] = windowMode[b]
        BY <1>1, <4>1, EntersFits
      <4>3. MaintenanceWindow!LocksFit'
        BY <1>1, <2>3, <4>2, LocksKept
      <4> QED
        BY <4>2, <4>3
    <3>2. CASE windowMode[a] \notin {"prepare", "preempt"}
      <4>1. MaintenanceWindow!Advance(a)
        BY <1>19, <3>2 DEF MaintenanceWindow!Leave
      <4>2. /\ windowTodo' \in [Operators -> Seq(MaintenanceWindow!Steps)]
               /\ MaintenanceWindow!TodoFits' /\ windowMode' = windowMode
            /\ MaintenanceWindow!Left(a)' = MaintenanceWindow!Left(a) - 1
            /\ \A b
               \in Operators \ {a} : MaintenanceWindow!Left(b)'
                 = MaintenanceWindow!Left(b)
        BY <1>1, <2>1, <4>1, AdvanceFits
      <4>3. \/ windowMode[a] = "window" /\ MaintenanceWindow!Left(a) = 1
            \/ windowMode[a] = "undo" /\ MaintenanceWindow!Left(a) = 2
        BY <1>1, <2>1, <3>2, StepAt
      <4>4. \/ windowMode'[a] = "window" /\ MaintenanceWindow!Left(a)' = 0
            \/ windowMode'[a] = "undo" /\ MaintenanceWindow!Left(a)' = 1
        BY <4>2, <4>3
      <4>5. MaintenanceWindow!LocksFit'
        BY <1>1, <2>3, <4>2, <4>4, LocksKept
      <4> QED
        BY <1>2, <4>2, <4>5
    <3> QED
      BY <3>1, <3>2
  <2>5. MaintenanceWindow!WindowExclusive'
    BY <1>1, <2>2, <2>3, <2>4, OthersKept
  <2>6. MaintenanceWindow!DrainedFits' /\ MaintenanceWindow!DrainedIsQuiet'
    BY <1>1, <2>2 DEF MaintenanceWindow!DrainedFits,
                      MaintenanceWindow!DrainedIsQuiet,
                      MaintenanceWindow!Marked
  <2>7. MaintenanceWindow!TypeOK'
    BY <1>2, <2>2, <2>3, <2>4 DEF MaintenanceWindow!TypeOK,
                                  MaintenanceWindow!counts
  <2> QED
    BY <2>4, <2>5, <2>6, <2>7 DEF MaintenanceWindow!IInv
<1>20. ASSUME NEW a \in Operators, MaintenanceWindow!Systemd(a)
      PROVE  MaintenanceWindow!IInv'
  <2>1. /\ windowTodo[a] # << >> /\ MaintenanceWindow!Advance(a)
        /\ Head(windowTodo[a]) \in {"dropin", "undrop", "stop", "start"}
    BY <1>20 DEF MaintenanceWindow!Systemd, MaintenanceWindow!Doing
  <2>2. UNCHANGED <<windowMarker, windowHeld, windowToken, windowSound,
          windowDrained, windowConfirmed, MaintenanceWindow!counts>>
    BY <1>20 DEF MaintenanceWindow!Systemd
  <2>3. /\ windowDropin' \in BOOLEAN /\ windowInv' \in 1 .. MaxInvocations
        /\ windowAt'
           \in [MaintenanceWindow!Writers -> MaintenanceWindow!Places]
        /\ \A w \in MaintenanceWindow!Writers : windowAt'[w] = "write"
           => windowAt[w] = "write"
    <3>1. CASE MaintenanceWindow!Doing(a, "dropin") /\ windowDropin' = TRUE
               /\ UNCHANGED <<windowAt, windowInv>>
      BY <1>2, <3>1
    <3>2. CASE MaintenanceWindow!Doing(a, "undrop") /\ windowDropin' = FALSE
               /\ UNCHANGED <<windowAt, windowInv>>
      BY <1>2, <3>2
    <3>3. CASE /\ MaintenanceWindow!Doing(a, "stop")
                  /\ windowAt' = [windowAt EXCEPT !["svc"] = "off"]
               /\ UNCHANGED <<windowDropin, windowInv>>
      BY <1>2, <3>3 DEF MaintenanceWindow!Writers, MaintenanceWindow!Places
    <3>4. CASE /\ MaintenanceWindow!Doing(a, "start") /\ UNCHANGED windowDropin
               /\ IF windowAt["svc"] \in {"off", "failed"}
                  THEN windowInv < MaxInvocations /\ windowInv' = windowInv + 1
                    /\ windowAt' = [windowAt EXCEPT !["svc"] = "wait"]
                  ELSE UNCHANGED <<windowAt, windowInv>>
      BY <1>2, <1>3, <3>4 DEF MaintenanceWindow!Writers,
                              MaintenanceWindow!Places
    <3> QED
      BY <1>20, <3>1, <3>2, <3>3, <3>4 DEF MaintenanceWindow!Systemd
  <2>4. /\ windowTodo' \in [Operators -> Seq(MaintenanceWindow!Steps)]
           /\ MaintenanceWindow!TodoFits' /\ windowMode' = windowMode
    BY <1>1, <2>1, AdvanceFits
  <2>5. MaintenanceWindow!LocksFit' /\ windowMode'[a] # "window"
    BY <1>1, <2>1, <2>2, StepFits
  <2>6. MaintenanceWindow!WindowExclusive'
    <3>1. ASSUME NEW b \in Operators \ {a}, windowHeld[b] # "none"
          PROVE  windowHeld[a] = "none"
      BY <1>1, <3>1 DEF MaintenanceWindow!LocksFit
    <3> QED
      BY <1>1, <2>2, <2>3, <2>4, <2>5, <3>1, ExclusiveKept
  <2>7. MaintenanceWindow!DrainedFits' /\ MaintenanceWindow!DrainedIsQuiet'
    BY <1>1, <2>2, <2>3 DEF MaintenanceWindow!DrainedFits,
                            MaintenanceWindow!DrainedIsQuiet,
                            MaintenanceWindow!Marked
  <2>8. MaintenanceWindow!TypeOK'
    BY <1>2, <2>2, <2>3, <2>4 DEF MaintenanceWindow!TypeOK,
                                  MaintenanceWindow!counts
  <2> QED
    BY <2>4, <2>5, <2>6, <2>7, <2>8 DEF MaintenanceWindow!IInv
<1>21. ASSUME NEW a \in Operators, MaintenanceWindow!Look(a)
      PROVE  MaintenanceWindow!IInv'
  <2>1. PICK step \in {"prove", "check", "same", "read"} :
           /\ MaintenanceWindow!Doing(a, step)
           /\ IF MaintenanceWindow!Holds(a,
                step) THEN MaintenanceWindow!Advance(a)
                  /\ UNCHANGED <<windowHeld,
                       windowSound>> ELSE MaintenanceWindow!Fails(a)
           /\ windowToken' = IF step = "read"
              /\ MaintenanceWindow!Running THEN [windowToken EXCEPT ![a].inv
                   = windowInv] ELSE windowToken
           /\ windowConfirmed'
              = (windowConfirmed \/ MaintenanceWindow!Proved(a, step))
           /\ UNCHANGED <<windowMarker, windowDropin, windowAt, windowInv,
                windowDrained, MaintenanceWindow!counts>>
    BY <1>21 DEF MaintenanceWindow!Look
  <2>2. windowTodo[a] # << >> /\ Head(windowTodo[a]) = step
    BY <2>1 DEF MaintenanceWindow!Doing
  <2>3. /\ windowTodo' \in [Operators -> Seq(MaintenanceWindow!Steps)]
        /\ windowMode' \in [Operators -> DOMAIN MaintenanceWindow!Plan]
        /\ windowHeld' \in [Operators -> MaintenanceWindow!Locks]
           /\ windowSound' \in [Operators -> BOOLEAN]
        /\ MaintenanceWindow!TodoFits' /\ MaintenanceWindow!LocksFit'
        /\ windowHeld'[a] \in {windowHeld[a], "none"}
           /\ windowMode'[a] # "window"
        /\ \A b \in Operators \ {a} : windowMode'[b] = windowMode[b]
           /\ windowHeld'[b] = windowHeld[b]
    <3>1. CASE MaintenanceWindow!Holds(a, step)
      <4>1. MaintenanceWindow!Advance(a) /\ windowHeld' = windowHeld
            /\ windowSound' = windowSound
        BY <2>1, <3>1
      <4>2. windowTodo' \in [Operators -> Seq(MaintenanceWindow!Steps)]
            /\ MaintenanceWindow!TodoFits' /\ windowMode' = windowMode
        BY <1>1, <2>2, <4>1, AdvanceFits
      <4>3. MaintenanceWindow!LocksFit' /\ windowMode'[a] # "window"
        BY <1>1, <2>2, <4>1, StepFits
      <4> QED
        BY <1>2, <4>1, <4>2, <4>3
    <3>2. CASE ~MaintenanceWindow!Holds(a, step)
      <4>1. MaintenanceWindow!Fails(a)
        BY <2>1, <3>2
      <4> QED
        BY <1>1, <2>2, <4>1, FailsFits
    <3> QED
      BY <3>1, <3>2
  <2>4. MaintenanceWindow!WindowExclusive'
    BY <1>1, <2>1, <2>3, OthersKept
  <2>5. MaintenanceWindow!DrainedFits' /\ MaintenanceWindow!DrainedIsQuiet'
    BY <1>1, <2>1 DEF MaintenanceWindow!DrainedFits,
                      MaintenanceWindow!DrainedIsQuiet,
                      MaintenanceWindow!Marked
  <2>6. windowToken' \in [Operators -> MaintenanceWindow!Tokens]
    <3>1. windowToken[a] \in MaintenanceWindow!Tokens
          /\ windowInv \in 0 .. MaxInvocations
      BY <1>2, <1>3
    <3>2. [windowToken[a] EXCEPT !.inv = windowInv]
          \in MaintenanceWindow!Tokens
      BY ONLY <3>1 DEF MaintenanceWindow!Tokens
    <3>3. [windowToken EXCEPT ![a].inv = windowInv]
          \in [Operators -> MaintenanceWindow!Tokens]
      BY <1>2, <3>2
    <3> QED
      BY <1>2, <2>1, <3>3
  <2>7. windowConfirmed' \in BOOLEAN
    BY <1>2, <2>1
  <2>8. MaintenanceWindow!TypeOK'
    BY <1>2, <2>1, <2>3, <2>6, <2>7
       DEF MaintenanceWindow!TypeOK, MaintenanceWindow!counts
  <2> QED
    BY <2>3, <2>4, <2>5, <2>8 DEF MaintenanceWindow!IInv
<1>22. ASSUME NEW a \in Operators, MaintenanceWindow!Change(a)
      PROVE  MaintenanceWindow!IInv'
  <2>1. PICK step \in {"reset", "arm", "claim", "renew", "complete"} :
           /\ MaintenanceWindow!Doing(a, step) /\ MaintenanceWindow!Exclusive
           /\ IF ~MaintenanceWindow!Fits(a, step)
              THEN MaintenanceWindow!Fails(a)
                /\ UNCHANGED <<windowMarker, windowToken, windowDrained,
                     windowConfirmed, windowFaults>>
              ELSE /\ windowMarker' = MaintenanceWindow!Changed(a, step)
                   /\ windowToken' = IF step
                      = "arm" THEN [windowToken EXCEPT ![a].gen
                        = windowRuns] ELSE windowToken
                   /\ windowDrained' = (windowMarker' # None)
                   /\ windowConfirmed'
                      = (windowConfirmed /\ step \in {"reset", "renew"})
                   /\ \/ MaintenanceWindow!Advance(a)
                        /\ UNCHANGED <<windowHeld, windowSound, windowFaults>>
                      \/ MaintenanceWindow!Fault /\ MaintenanceWindow!Fails(a)
           /\ UNCHANGED <<windowDropin, windowAt, windowInv, windowRuns>>
    BY <1>22 DEF MaintenanceWindow!Change
  <2>2. windowTodo[a] # << >> /\ Head(windowTodo[a]) = step
    BY <2>1 DEF MaintenanceWindow!Doing
  <2>3. /\ MaintenanceWindow!IntentFree /\ windowAt' = windowAt
           /\ UNCHANGED <<windowDropin, windowInv, windowRuns>>
        /\ \A w \in MaintenanceWindow!Writers : windowAt[w] # "write"
    BY <2>1 DEF MaintenanceWindow!Exclusive, MaintenanceWindow!NoGateReader
  <2>4. /\ windowTodo' \in [Operators -> Seq(MaintenanceWindow!Steps)]
        /\ windowMode' \in [Operators -> DOMAIN MaintenanceWindow!Plan]
        /\ windowHeld' \in [Operators -> MaintenanceWindow!Locks]
           /\ windowSound' \in [Operators -> BOOLEAN]
        /\ MaintenanceWindow!TodoFits' /\ MaintenanceWindow!LocksFit'
        /\ windowHeld'[a] \in {windowHeld[a], "none"}
           /\ windowMode'[a] # "window"
        /\ \A b \in Operators \ {a} : windowMode'[b] = windowMode[b]
           /\ windowHeld'[b] = windowHeld[b]
    <3>1. CASE MaintenanceWindow!Advance(a)
               /\ UNCHANGED <<windowHeld, windowSound, windowFaults>>
      <4>1. windowTodo' \in [Operators -> Seq(MaintenanceWindow!Steps)]
            /\ MaintenanceWindow!TodoFits' /\ windowMode' = windowMode
        BY <1>1, <2>2, <3>1, AdvanceFits
      <4>2. MaintenanceWindow!LocksFit' /\ windowMode'[a] # "window"
        BY <1>1, <2>2, <3>1, StepFits
      <4> QED
        BY <1>2, <3>1, <4>1, <4>2
    <3>2. CASE MaintenanceWindow!Fails(a)
      BY <1>1, <2>2, <3>2, FailsFits
    <3> QED
      BY <2>1, <3>1, <3>2
  <2>5. MaintenanceWindow!WindowExclusive'
    BY <1>1, <2>3, <2>4, OthersKept
  <2>6. \/ windowMarker' = windowMarker /\ windowDrained' = windowDrained
        \/ windowDrained' = (windowMarker' # None)
    BY <2>1
  <2>7. MaintenanceWindow!DrainedFits' /\ MaintenanceWindow!DrainedIsQuiet'
    <3>1. CASE windowMarker' = windowMarker /\ windowDrained' = windowDrained
      BY <1>1, <2>3, <3>1 DEF MaintenanceWindow!DrainedFits,
                              MaintenanceWindow!DrainedIsQuiet,
                              MaintenanceWindow!Marked
    <3>2. CASE windowDrained' = (windowMarker' # None)
      BY <2>3, <3>2 DEF MaintenanceWindow!DrainedFits,
                        MaintenanceWindow!DrainedIsQuiet,
                        MaintenanceWindow!Marked
    <3> QED
      BY <2>6, <3>1, <3>2
  <2>8. /\ windowToken' \in [Operators -> MaintenanceWindow!Tokens]
           /\ windowConfirmed' \in BOOLEAN
        /\ windowFaults' \in 0 .. MaxWindowFaults /\ windowDrained' \in BOOLEAN
    <3>1. windowToken[a] \in MaintenanceWindow!Tokens
      BY <1>2
    <3>2. [windowToken[a] EXCEPT !.gen = windowRuns]
          \in MaintenanceWindow!Tokens
      BY ONLY <1>2, <3>1 DEF MaintenanceWindow!Tokens
    <3>3. [windowToken EXCEPT ![a].gen = windowRuns]
          \in [Operators -> MaintenanceWindow!Tokens]
      BY <1>2, <3>2
    <3>4. windowToken' \in [Operators -> MaintenanceWindow!Tokens]
      BY <1>2, <2>1, <3>3
    <3>5. windowConfirmed' \in BOOLEAN
      BY <1>2, <2>1
    <3>6. windowDrained' \in BOOLEAN
      BY <1>2, <2>6
    <3>7. windowFaults' \in 0 .. MaxWindowFaults
      BY <1>2, <1>3, <2>1 DEF MaintenanceWindow!Fault
    <3> QED
      BY <3>4, <3>5, <3>6, <3>7
  <2>9. windowMarker' \in {None} \cup MaintenanceWindow!Marks
    <3>1. CASE windowMarker' = windowMarker
      BY <1>2, <3>1
    <3>2. CASE MaintenanceWindow!Fits(a, step)
               /\ windowMarker' = MaintenanceWindow!Changed(a, step)
      <4>1. CASE step = "reset"
        BY <3>2, <4>1, MaintenanceFits DEF MaintenanceWindow!Changed
      <4>2. CASE step = "arm"
        <5>1. windowMarker'
              = [phase |-> "armed", gen |-> windowRuns, inv |-> 0,
                  live |-> TRUE]
          BY <3>2, <4>2 DEF MaintenanceWindow!Changed
        <5>2. 0 \in 0 .. MaxInvocations
          BY <1>3
        <5>3. windowMarker' \in MaintenanceWindow!Marks
          BY ONLY <1>2, <5>1, <5>2 DEF MaintenanceWindow!Marks
        <5> QED
          BY <5>3
      <4>3. CASE step = "claim"
        <5>1. windowMarker \in MaintenanceWindow!Marks
              /\ windowToken[a] \in MaintenanceWindow!Tokens
          BY <1>2, <3>2, <4>3 DEF MaintenanceWindow!Fits
        <5>2. windowMarker'
              = [windowMarker EXCEPT !.phase = "claimed", !.inv
                  = windowToken[a].inv]
          BY <3>2, <4>3 DEF MaintenanceWindow!Changed
        <5>3. windowToken[a].inv \in 0 .. MaxInvocations
          BY ONLY <5>1 DEF MaintenanceWindow!Tokens
        <5>4. windowMarker' \in MaintenanceWindow!Marks
          BY ONLY <5>1, <5>2, <5>3 DEF MaintenanceWindow!Marks
        <5> QED
          BY <5>4
      <4>4. CASE step = "renew"
        BY <1>2, <3>2, <4>4 DEF MaintenanceWindow!Changed
      <4>5. CASE step = "complete"
        BY <3>2, <4>5 DEF MaintenanceWindow!Changed
      <4> QED
        BY <2>1, <4>1, <4>2, <4>3, <4>4, <4>5
    <3> QED
      BY <2>1, <3>1, <3>2
  <2>10. MaintenanceWindow!TypeOK'
    BY <1>2, <2>3, <2>4, <2>8, <2>9 DEF MaintenanceWindow!TypeOK
  <2> QED
    BY <2>4, <2>5, <2>7, <2>10 DEF MaintenanceWindow!IInv
<1>23. ASSUME NEW a \in Operators, MaintenanceWindow!Enter(a)
      PROVE  MaintenanceWindow!IInv'
  <2>1. windowTodo[a] # << >> /\ Head(windowTodo[a]) = "enter"
        /\ MaintenanceWindow!Exclusive
    BY <1>23 DEF MaintenanceWindow!Enter, MaintenanceWindow!Doing
  <2>2. /\ windowDrained' = (windowMarker # None)
        /\ UNCHANGED <<windowMarker, windowDropin, windowAt, windowInv,
             windowToken, windowConfirmed, MaintenanceWindow!counts>>
    BY <1>23 DEF MaintenanceWindow!Enter
  <2>3. /\ \A b \in Operators : windowHeld[b] = "none"
        /\ \A w \in MaintenanceWindow!Writers : windowAt[w] # "write"
    BY <2>1 DEF MaintenanceWindow!Exclusive, MaintenanceWindow!IntentFree,
                MaintenanceWindow!NoGateReader
  <2>4. /\ windowTodo' \in [Operators -> Seq(MaintenanceWindow!Steps)]
        /\ windowMode' \in [Operators -> DOMAIN MaintenanceWindow!Plan]
        /\ windowHeld' \in [Operators -> MaintenanceWindow!Locks]
           /\ windowSound' \in [Operators -> BOOLEAN]
        /\ MaintenanceWindow!TodoFits' /\ MaintenanceWindow!LocksFit'
           /\ MaintenanceWindow!WindowExclusive'
    <3>1. CASE windowMarker # None /\ windowMarker.phase = "maintenance"
               /\ windowDropin /\ MaintenanceWindow!Stopped
      <4>1. /\ MaintenanceWindow!Advance(a)
               /\ windowHeld' = [windowHeld EXCEPT ![a] = "gate"]
            /\ windowSound' = windowSound
        BY <1>23, <3>1 DEF MaintenanceWindow!Enter
      <4>2. /\ windowTodo' \in [Operators -> Seq(MaintenanceWindow!Steps)]
               /\ MaintenanceWindow!TodoFits' /\ windowMode' = windowMode
            /\ MaintenanceWindow!Left(a)' = MaintenanceWindow!Left(a) - 1
            /\ \A b
               \in Operators \ {a} : MaintenanceWindow!Left(b)'
                 = MaintenanceWindow!Left(b)
        BY <1>1, <2>1, <4>1, AdvanceFits
      <4>3. windowMode[a] = "window" /\ MaintenanceWindow!Left(a) = 2
        BY <1>1, <2>1, StepAt
      <4>4. /\ windowHeld' \in [Operators -> MaintenanceWindow!Locks]
               /\ windowHeld'[a] = "gate"
            /\ \A b \in Operators \ {a} : windowHeld'[b] = windowHeld[b]
        BY <1>2, <4>1 DEF MaintenanceWindow!Locks
      <4>5. windowMode'[a] = "window" /\ MaintenanceWindow!Left(a)' = 1
        BY <4>2, <4>3
      <4>6. MaintenanceWindow!LocksFit'
        BY <1>1, <2>3, <4>2, <4>4, <4>5, LocksKept
      <4>7. MaintenanceWindow!Marked' /\ windowMarker'.phase = "maintenance"
        BY <2>2, <3>1 DEF MaintenanceWindow!Marked
      <4>8. MaintenanceWindow!WindowExclusive'
        BY <1>1, <2>2, <2>3, <4>2, <4>4, <4>7, ExclusiveKept
      <4> QED
        BY <1>2, <4>1, <4>2, <4>4, <4>6, <4>8
    <3>2. CASE ~(windowMarker # None /\ windowMarker.phase = "maintenance"
                 /\ windowDropin /\ MaintenanceWindow!Stopped)
      <4>1. MaintenanceWindow!Fails(a)
        BY <1>23, <3>2 DEF MaintenanceWindow!Enter
      <4>2. /\ windowTodo' \in [Operators -> Seq(MaintenanceWindow!Steps)]
        /\ windowMode' \in [Operators -> DOMAIN MaintenanceWindow!Plan]
        /\ windowHeld' \in [Operators -> MaintenanceWindow!Locks]
           /\ windowSound' \in [Operators -> BOOLEAN]
        /\ MaintenanceWindow!TodoFits' /\ MaintenanceWindow!LocksFit'
        /\ windowHeld'[a] \in {windowHeld[a], "none"}
           /\ windowMode'[a] # "window"
        /\ \A b \in Operators \ {a} : windowMode'[b] = windowMode[b]
           /\ windowHeld'[b] = windowHeld[b]
        BY <1>1, <2>1, <4>1, FailsFits
      <4>3. MaintenanceWindow!WindowExclusive'
        BY <1>1, <2>2, <4>2, OthersKept
      <4> QED
        BY <4>2, <4>3
    <3> QED
      BY <3>1, <3>2
  <2>5. MaintenanceWindow!DrainedFits' /\ MaintenanceWindow!DrainedIsQuiet'
    BY <2>2, <2>3 DEF MaintenanceWindow!DrainedFits,
                      MaintenanceWindow!DrainedIsQuiet,
                      MaintenanceWindow!Marked
  <2>6. MaintenanceWindow!TypeOK'
    BY <1>2, <2>2, <2>4 DEF MaintenanceWindow!TypeOK, MaintenanceWindow!counts
  <2> QED
    BY <2>4, <2>5, <2>6 DEF MaintenanceWindow!IInv
<1>24. ASSUME NEW a \in Operators, MaintenanceWindow!Raises(a)
      PROVE  MaintenanceWindow!IInv'
  <2>1. windowTodo[a] # << >> /\ Head(windowTodo[a]) # "leave"
        /\ MaintenanceWindow!Fails(a)
    BY <1>24 DEF MaintenanceWindow!Raises
  <2>2. /\ UNCHANGED <<windowMarker, windowDropin, windowAt, windowInv,
             windowToken, windowDrained, windowConfirmed, windowRuns>>
        /\ windowFaults' \in 0 .. MaxWindowFaults
    BY <1>2, <1>3, <1>24 DEF MaintenanceWindow!Raises, MaintenanceWindow!Fault
  <2>3. /\ windowTodo' \in [Operators -> Seq(MaintenanceWindow!Steps)]
        /\ windowMode' \in [Operators -> DOMAIN MaintenanceWindow!Plan]
        /\ windowHeld' \in [Operators -> MaintenanceWindow!Locks]
           /\ windowSound' \in [Operators -> BOOLEAN]
        /\ MaintenanceWindow!TodoFits' /\ MaintenanceWindow!LocksFit'
        /\ windowHeld'[a] \in {windowHeld[a], "none"}
           /\ windowMode'[a] # "window"
        /\ \A b \in Operators \ {a} : windowMode'[b] = windowMode[b]
           /\ windowHeld'[b] = windowHeld[b]
    BY <1>1, <2>1, FailsFits
  <2>4. MaintenanceWindow!WindowExclusive'
    BY <1>1, <2>2, <2>3, OthersKept
  <2>5. MaintenanceWindow!DrainedFits' /\ MaintenanceWindow!DrainedIsQuiet'
    BY <1>1, <2>2 DEF MaintenanceWindow!DrainedFits,
                      MaintenanceWindow!DrainedIsQuiet,
                      MaintenanceWindow!Marked
  <2>6. MaintenanceWindow!TypeOK'
    BY <1>2, <2>2, <2>3 DEF MaintenanceWindow!TypeOK
  <2> QED
    BY <2>3, <2>4, <2>5, <2>6 DEF MaintenanceWindow!IInv
<1>25. ASSUME NEW a \in Operators, MaintenanceWindow!Finish(a)
      PROVE  MaintenanceWindow!IInv'
  <2>1. /\ windowMode' = [windowMode EXCEPT ![a] = "idle"]
           /\ windowTodo' = windowTodo /\ windowTodo[a] = << >>
        /\ UNCHANGED <<windowMarker, windowDropin, windowAt, windowInv,
             windowHeld, windowToken, windowSound, windowDrained,
                 windowConfirmed, MaintenanceWindow!counts>>
        /\ windowMode[a] # "idle"
    BY <1>25 DEF MaintenanceWindow!Finish
  <2>2. "idle" \in DOMAIN MaintenanceWindow!Plan
        /\ MaintenanceWindow!Plan["idle"] = << >>
    BY PlanType DEF MaintenanceWindow!Plan
  <2>3. MaintenanceWindow!Enters(a, "idle")
    <3>1. [windowTodo EXCEPT ![a] = << >>] = windowTodo
      BY <1>2, <2>1
    <3> QED
      BY <2>1, <2>2, <3>1 DEF MaintenanceWindow!Enters
  <2>4. /\ windowTodo' \in [Operators -> Seq(MaintenanceWindow!Steps)]
           /\ MaintenanceWindow!TodoFits'
        /\ windowMode' \in [Operators -> DOMAIN MaintenanceWindow!Plan]
           /\ windowMode'[a] = "idle"
        /\ \A b
           \in Operators \ {a} : MaintenanceWindow!Left(b)'
             = MaintenanceWindow!Left(b) /\ windowMode'[b] = windowMode[b]
    BY <1>1, <2>2, <2>3, EntersFits
  <2>5. windowHeld[a] = "none"
    <3>1. MaintenanceWindow!Left(a) = 0
      BY <2>1 DEF MaintenanceWindow!Left
    <3>2. windowMode[a]
          \in {"prepare", "preempt", "settle", "undo", "restore", "back",
              "window", "idle"}
      BY <1>2, PlanType
    <3> QED
      BY <1>1, <3>1, <3>2 DEF MaintenanceWindow!LocksFit
  <2>6. MaintenanceWindow!LocksFit'
    BY <1>1, <2>1, <2>4, <2>5, LocksKept
  <2>7. MaintenanceWindow!WindowExclusive'
    BY <1>1, <2>1, <2>4, <2>5, OthersKept
  <2>8. MaintenanceWindow!DrainedFits' /\ MaintenanceWindow!DrainedIsQuiet'
    BY <1>1, <2>1 DEF MaintenanceWindow!DrainedFits,
                      MaintenanceWindow!DrainedIsQuiet,
                      MaintenanceWindow!Marked
  <2>9. MaintenanceWindow!TypeOK'
    BY <1>2, <2>1, <2>4 DEF MaintenanceWindow!TypeOK, MaintenanceWindow!counts
  <2> QED
    BY <2>4, <2>6, <2>7, <2>8, <2>9 DEF MaintenanceWindow!IInv
<1>26. ASSUME NEW a \in Operators, MaintenanceWindow!Dies(a)
      PROVE  MaintenanceWindow!IInv'
  <2>1. /\ windowMode' = [windowMode EXCEPT ![a] = "idle"]
           /\ windowTodo' = [windowTodo EXCEPT ![a] = << >>]
        /\ windowHeld' = [windowHeld EXCEPT ![a] = "none"]
        /\ UNCHANGED <<windowMarker, windowDropin, windowAt, windowInv,
             windowToken, windowSound, windowDrained, windowConfirmed,
                 windowRuns>>
        /\ windowFaults' \in 0 .. MaxWindowFaults
    BY <1>2, <1>3, <1>26 DEF MaintenanceWindow!Dies, MaintenanceWindow!Release,
                             MaintenanceWindow!Fault
  <2>2. "idle" \in DOMAIN MaintenanceWindow!Plan
        /\ MaintenanceWindow!Plan["idle"] = << >>
    BY PlanType DEF MaintenanceWindow!Plan
  <2>3. MaintenanceWindow!Enters(a, "idle")
    BY <2>1, <2>2 DEF MaintenanceWindow!Enters
  <2>4. /\ windowTodo' \in [Operators -> Seq(MaintenanceWindow!Steps)]
           /\ MaintenanceWindow!TodoFits'
        /\ windowMode' \in [Operators -> DOMAIN MaintenanceWindow!Plan]
           /\ windowMode'[a] = "idle"
        /\ \A b
           \in Operators \ {a} : MaintenanceWindow!Left(b)'
             = MaintenanceWindow!Left(b) /\ windowMode'[b] = windowMode[b]
    BY <1>1, <2>2, <2>3, EntersFits
  <2>5. /\ windowHeld' \in [Operators -> MaintenanceWindow!Locks]
           /\ windowHeld'[a] = "none"
        /\ \A b \in Operators \ {a} : windowHeld'[b] = windowHeld[b]
    BY <1>2, <2>1 DEF MaintenanceWindow!Locks
  <2>6. MaintenanceWindow!LocksFit'
    BY <1>1, <2>4, <2>5, LocksKept
  <2>7. MaintenanceWindow!WindowExclusive'
    BY <1>1, <2>1, <2>4, <2>5, OthersKept
  <2>8. MaintenanceWindow!DrainedFits' /\ MaintenanceWindow!DrainedIsQuiet'
    BY <1>1, <2>1 DEF MaintenanceWindow!DrainedFits,
                      MaintenanceWindow!DrainedIsQuiet,
                      MaintenanceWindow!Marked
  <2>9. MaintenanceWindow!TypeOK'
    BY <1>2, <2>1, <2>4, <2>5 DEF MaintenanceWindow!TypeOK
  <2> QED
    BY <2>4, <2>6, <2>7, <2>8, <2>9 DEF MaintenanceWindow!IInv
<1>27. CASE UNCHANGED MaintenanceWindow!vars
  <2>1. UNCHANGED <<windowMarker, windowDropin, windowAt, windowInv,
          windowMode, windowTodo, windowHeld, windowToken, windowSound,
              windowDrained, windowConfirmed, windowRuns, windowFaults>>
    BY <1>27 DEF MaintenanceWindow!vars, MaintenanceWindow!admin,
                 MaintenanceWindow!counts
  <2>2. MaintenanceWindow!TodoFits' /\ MaintenanceWindow!LocksFit'
    BY <1>1, <2>1, AdminKept
  <2>3. MaintenanceWindow!WindowExclusive' /\ MaintenanceWindow!DrainedFits'
        /\ MaintenanceWindow!DrainedIsQuiet'
    BY <1>1, <2>1 DEF MaintenanceWindow!WindowExclusive,
                      MaintenanceWindow!DrainedFits,
                      MaintenanceWindow!DrainedIsQuiet,
                      MaintenanceWindow!Marked
  <2>4. MaintenanceWindow!TypeOK'
    BY <1>2, <2>1 DEF MaintenanceWindow!TypeOK
  <2> QED
    BY <2>2, <2>3, <2>4 DEF MaintenanceWindow!IInv
<1> QED
  BY <1>4, <1>5, <1>6, <1>7, <1>8, <1>9, <1>10, <1>11, <1>12, <1>13, <1>14,
     <1>15, <1>16, <1>17, <1>18, <1>19, <1>20, <1>21, <1>22, <1>23, <1>24,
     <1>25, <1>26, <1>27
     DEF MaintenanceWindow!Next, MaintenanceWindow!Writer,
         MaintenanceWindow!Admin

\* A step that leaves the operators and the marker alone and lets nobody write
\* under a marker leaves a reported window closed.
LEMMA UnmovedKeeps ==
  ASSUME MaintenanceWindow!MarkerKept, windowMode' = windowMode, windowTodo'
         = windowTodo, windowSound' = windowSound,
         windowConfirmed' = windowConfirmed, windowMarker' = windowMarker,
         MaintenanceWindow!Marked
           => \A w \in MaintenanceWindow!Writers : windowAt'[w] = "write"
             => windowAt[w] = "write"
  PROVE  MaintenanceWindow!MarkerKept'
<1>1. \A a \in Operators : MaintenanceWindow!MarkedFor(a)'
  BY DEF MaintenanceWindow!MarkerKept, MaintenanceWindow!MarkedFor,
         MaintenanceWindow!Left, MaintenanceWindow!Marked
<1>2. MaintenanceWindow!PreparedIsQuiet'
  BY DEF MaintenanceWindow!MarkerKept, MaintenanceWindow!PreparedIsQuiet,
         MaintenanceWindow!Marked
<1> QED
  BY <1>1, <1>2 DEF MaintenanceWindow!MarkerKept

\* A lone operator whose step fails goes on with its compensation, which does
\* not count on the marker before it has written it.
LEMMA FailsMarked ==
  ASSUME NEW a \in Operators,
         \/ windowMode'[a] = "idle"
         \/ windowMode'[a] = "undo"
            /\ (MaintenanceWindow!Left(a)' = 7 \/ windowSound'[a] = FALSE)
         \/ windowMode'[a] = "back"
            /\ (MaintenanceWindow!Left(a)' = 4 \/ windowSound'[a] = FALSE)
  PROVE  MaintenanceWindow!MarkedFor(a)'
  BY DEF MaintenanceWindow!MarkedFor

\* A step behind the publication finds the marker of its command and leaves it.
LEMMA AdvanceMarked ==
  ASSUME MaintenanceWindow!TypeOK, MaintenanceWindow!TodoFits,
           MaintenanceWindow!MarkerKept, NEW a
             \in Operators, windowTodo[a] # << >>,
         Head(windowTodo[a]) \notin {"intent", "marker", "reset"},
             MaintenanceWindow!Advance(a), windowMarker' = windowMarker,
         windowSound' = windowSound
  PROVE  MaintenanceWindow!MarkedFor(a)'
<1>1. windowMode' = windowMode
      /\ MaintenanceWindow!Left(a)' = MaintenanceWindow!Left(a) - 1
  BY AdvanceFits
<1> DEFINE m == windowMode[a]
           l == MaintenanceWindow!Left(a)
           h == Head(windowTodo[a])
<1>2. l \in 1 .. Len(MaintenanceWindow!Plan[m])
      /\ h = MaintenanceWindow!Coming(m, l)
  BY NextStep
<1>a. h \notin {"intent", "marker", "reset"}
  OBVIOUS
<1> HIDE DEF m, l, h
<1>3. m = "prepare" => l < 3
  <2> SUFFICES ASSUME m = "prepare"
               PROVE  l < 3
    OBVIOUS
  <2>1. l \in 1 .. 4 /\ l \in 1 .. Len(MaintenanceWindow!Plan["prepare"])
        /\ h = MaintenanceWindow!Coming("prepare", l)
    BY <1>2, PlanOfPrepare
  <2>2. h = CASE l = 4 -> "intent" [] l = 3 -> "marker"
              [] l = 2 -> "gate" [] OTHER -> "leave"
    BY <2>1, StepsOfPlan
  <2> QED
    BY <1>a, <2>1, <2>2
<1>4. m = "undo" => l < 6
  <2> SUFFICES ASSUME m = "undo"
               PROVE  l < 6
    OBVIOUS
  <2>1. l \in 1 .. 7 /\ l \in 1 .. Len(MaintenanceWindow!Plan["undo"])
        /\ h = MaintenanceWindow!Coming("undo", l)
    BY <1>2, PlanOfUndo
  <2>2. h = CASE l = 7 -> "intent" [] l = 6 -> "marker"
              [] l = 5 -> "dropin" [] l = 4 -> "stop"
              [] l = 3 -> "gate" [] l = 2 -> "leave" [] OTHER -> "prove"
    BY <2>1, StepsOfPlan
  <2> QED
    BY <1>a, <2>1, <2>2
<1>5. m = "back" => l < 4
  <2> SUFFICES ASSUME m = "back"
               PROVE  l < 4
    OBVIOUS
  <2>1. l \in 1 .. 4 /\ l \in 1 .. Len(MaintenanceWindow!Plan["back"])
        /\ h = MaintenanceWindow!Coming("back", l)
    BY <1>2, PlanOfBack
  <2>2. h = CASE l = 4 -> "reset" [] l = 3 -> "dropin"
              [] l = 2 -> "stop" [] OTHER -> "prove"
    BY <2>1, StepsOfPlan
  <2> QED
    BY <1>a, <2>1, <2>2
<1>6. MaintenanceWindow!MarkedFor(a)
  BY DEF MaintenanceWindow!MarkerKept
<1>7. MaintenanceWindow!Marked' <=> MaintenanceWindow!Marked
  BY DEF MaintenanceWindow!Marked
<1>8. windowMode[a] \in {"prepare", "preempt", "settle"}
      => MaintenanceWindow!Marked
  BY <1>3, <1>6 DEF m, l, MaintenanceWindow!MarkedFor
<1>9. windowMode[a] \in {"undo", "back"} /\ windowSound[a]
      => MaintenanceWindow!Marked
  BY <1>4, <1>5, <1>6 DEF m, l, MaintenanceWindow!MarkedFor
<1> QED
  BY <1>1, <1>7, <1>8, <1>9 DEF MaintenanceWindow!MarkedFor

\* What a lone operator knows of its marker is kept by every step.
LEMMA MarkerNext ==
  ASSUME MaintenanceWindow!BoundAssumption, MaintenanceWindow!NoneAssumption,
           MaintenanceWindow!IInv, MaintenanceWindow!MarkerKept,
         \A a, b
           \in Operators : a
             = b, [MaintenanceWindow!Next]_(MaintenanceWindow!vars)
  PROVE  MaintenanceWindow!MarkerKept'
<1>1. MaintenanceWindow!TypeOK /\ MaintenanceWindow!TodoFits
      /\ MaintenanceWindow!LocksFit /\ MaintenanceWindow!MarkerKept
         /\ MaintenanceWindow!PreparedIsQuiet
  BY DEF MaintenanceWindow!IInv, MaintenanceWindow!MarkerKept
<1>2. /\ windowAt \in [MaintenanceWindow!Writers -> MaintenanceWindow!Places]
         /\ windowMode \in [Operators -> DOMAIN MaintenanceWindow!Plan]
      /\ windowSound \in [Operators -> BOOLEAN] /\ windowConfirmed \in BOOLEAN
  BY <1>1 DEF MaintenanceWindow!TypeOK
<1>3. ASSUME NEW a
             \in Operators, MaintenanceWindow!MarkedFor(a)',
                 MaintenanceWindow!PreparedIsQuiet'
      PROVE  MaintenanceWindow!MarkerKept'
  BY <1>3 DEF MaintenanceWindow!MarkerKept
<1>4. CASE MaintenanceWindow!Appears
  <2>1. UNCHANGED <<windowMarker, windowMode, windowTodo, windowSound,
          windowConfirmed>>
    BY <1>4 DEF MaintenanceWindow!Appears, MaintenanceWindow!Move,
                MaintenanceWindow!admin
  <2>2. /\ windowAt'
           \in [MaintenanceWindow!Writers -> MaintenanceWindow!Places]
        /\ MaintenanceWindow!Marked
           => \A v \in MaintenanceWindow!Writers : windowAt'[v] = "write"
             => windowAt[v] = "write"
    BY <1>2, <1>4 DEF MaintenanceWindow!Appears, MaintenanceWindow!Move,
                      MaintenanceWindow!admin, MaintenanceWindow!Writers,
                      MaintenanceWindow!Places, MaintenanceWindow!Marked
  <2> QED
    BY <1>1, <2>1, <2>2, UnmovedKeeps
<1>5. CASE MaintenanceWindow!Leaves
  <2>1. UNCHANGED <<windowMarker, windowMode, windowTodo, windowSound,
          windowConfirmed>>
    BY <1>5 DEF MaintenanceWindow!Leaves, MaintenanceWindow!Move,
                MaintenanceWindow!admin
  <2>2. /\ windowAt'
           \in [MaintenanceWindow!Writers -> MaintenanceWindow!Places]
        /\ MaintenanceWindow!Marked
           => \A v \in MaintenanceWindow!Writers : windowAt'[v] = "write"
             => windowAt[v] = "write"
    BY <1>2, <1>5 DEF MaintenanceWindow!Leaves, MaintenanceWindow!Move,
                      MaintenanceWindow!admin, MaintenanceWindow!Writers,
                      MaintenanceWindow!Places, MaintenanceWindow!Marked
  <2> QED
    BY <1>1, <2>1, <2>2, UnmovedKeeps
<1>6. CASE MaintenanceWindow!Poll
  <2>1. UNCHANGED <<windowMarker, windowMode, windowTodo, windowSound,
          windowConfirmed>>
    BY <1>6 DEF MaintenanceWindow!Poll, MaintenanceWindow!Move,
                MaintenanceWindow!admin
  <2>2. /\ windowAt'
           \in [MaintenanceWindow!Writers -> MaintenanceWindow!Places]
        /\ MaintenanceWindow!Marked
           => \A v \in MaintenanceWindow!Writers : windowAt'[v] = "write"
             => windowAt[v] = "write"
    BY <1>2, <1>6 DEF MaintenanceWindow!Poll, MaintenanceWindow!Move,
                      MaintenanceWindow!admin, MaintenanceWindow!Writers,
                      MaintenanceWindow!Places, MaintenanceWindow!Marked
  <2> QED
    BY <1>1, <2>1, <2>2, UnmovedKeeps
<1>7. CASE MaintenanceWindow!UnitRestarts
  <2>1. UNCHANGED <<windowMarker, windowMode, windowTodo, windowSound,
          windowConfirmed>>
    BY <1>7 DEF MaintenanceWindow!UnitRestarts, MaintenanceWindow!admin
  <2>2. /\ windowAt'
           \in [MaintenanceWindow!Writers -> MaintenanceWindow!Places]
        /\ MaintenanceWindow!Marked
           => \A v \in MaintenanceWindow!Writers : windowAt'[v] = "write"
             => windowAt[v] = "write"
    BY <1>2, <1>7 DEF MaintenanceWindow!UnitRestarts, MaintenanceWindow!admin,
                      MaintenanceWindow!Writers, MaintenanceWindow!Places,
                      MaintenanceWindow!Marked
  <2> QED
    BY <1>1, <2>1, <2>2, UnmovedKeeps
<1>8. CASE MaintenanceWindow!UnitDies
  <2>1. UNCHANGED <<windowMarker, windowMode, windowTodo, windowSound,
          windowConfirmed>>
    BY <1>8 DEF MaintenanceWindow!UnitDies, MaintenanceWindow!admin
  <2>2. /\ windowAt'
           \in [MaintenanceWindow!Writers -> MaintenanceWindow!Places]
        /\ MaintenanceWindow!Marked
           => \A v \in MaintenanceWindow!Writers : windowAt'[v] = "write"
             => windowAt[v] = "write"
    BY <1>2, <1>8 DEF MaintenanceWindow!UnitDies, MaintenanceWindow!admin,
                      MaintenanceWindow!Writers, MaintenanceWindow!Places,
                      MaintenanceWindow!Marked
  <2> QED
    BY <1>1, <2>1, <2>2, UnmovedKeeps
<1>9. CASE MaintenanceWindow!Expire
  <2>1. UNCHANGED <<windowAt, windowMode, windowTodo, windowSound,
          windowConfirmed>> /\ MaintenanceWindow!Marked
    BY <1>9 DEF MaintenanceWindow!Expire, MaintenanceWindow!admin,
                MaintenanceWindow!Marked
  <2>2. MaintenanceWindow!Marked'
    <3>1. windowMarker \in MaintenanceWindow!Marks
          /\ windowMarker' = [windowMarker EXCEPT !.live = FALSE]
      BY <1>1, <1>9 DEF MaintenanceWindow!Expire, MaintenanceWindow!TypeOK
    <3>2. windowMarker' \in MaintenanceWindow!Marks
      BY ONLY <3>1 DEF MaintenanceWindow!Marks
    <3> QED
      BY <3>2 DEF MaintenanceWindow!NoneAssumption, MaintenanceWindow!Marked
  <2>3. \A a \in Operators : MaintenanceWindow!MarkedFor(a)'
    BY <2>2 DEF MaintenanceWindow!MarkedFor
  <2>4. MaintenanceWindow!PreparedIsQuiet'
    BY <1>1, <2>1, <2>2 DEF MaintenanceWindow!PreparedIsQuiet
  <2> QED
    BY <2>3, <2>4 DEF MaintenanceWindow!MarkerKept
<1>10. ASSUME NEW w
              \in MaintenanceWindow!Writers, MaintenanceWindow!ShareIntent(w)
      PROVE  MaintenanceWindow!MarkerKept'
  <2>1. UNCHANGED <<windowMarker, windowMode, windowTodo, windowSound,
          windowConfirmed>>
    BY <1>10 DEF MaintenanceWindow!ShareIntent, MaintenanceWindow!Move,
                 MaintenanceWindow!admin
  <2>2. /\ windowAt'
           \in [MaintenanceWindow!Writers -> MaintenanceWindow!Places]
        /\ MaintenanceWindow!Marked
           => \A v \in MaintenanceWindow!Writers : windowAt'[v] = "write"
             => windowAt[v] = "write"
    BY <1>2, <1>10 DEF MaintenanceWindow!ShareIntent, MaintenanceWindow!Move,
                       MaintenanceWindow!admin, MaintenanceWindow!Writers,
                       MaintenanceWindow!Places, MaintenanceWindow!Marked
  <2> QED
    BY <1>1, <2>1, <2>2, UnmovedKeeps
<1>11. ASSUME NEW w
              \in MaintenanceWindow!Writers, MaintenanceWindow!ShareGate(w)
      PROVE  MaintenanceWindow!MarkerKept'
  <2>1. UNCHANGED <<windowMarker, windowMode, windowTodo, windowSound,
          windowConfirmed>>
    BY <1>11 DEF MaintenanceWindow!ShareGate, MaintenanceWindow!Move,
                 MaintenanceWindow!admin
  <2>2. /\ windowAt'
           \in [MaintenanceWindow!Writers -> MaintenanceWindow!Places]
        /\ MaintenanceWindow!Marked
           => \A v \in MaintenanceWindow!Writers : windowAt'[v] = "write"
             => windowAt[v] = "write"
    BY <1>2, <1>11 DEF MaintenanceWindow!ShareGate, MaintenanceWindow!Move,
                       MaintenanceWindow!admin, MaintenanceWindow!Writers,
                       MaintenanceWindow!Places, MaintenanceWindow!Marked
  <2> QED
    BY <1>1, <2>1, <2>2, UnmovedKeeps
<1>12. ASSUME NEW w
              \in MaintenanceWindow!Writers, MaintenanceWindow!Permitted(w)
      PROVE  MaintenanceWindow!MarkerKept'
  <2>1. UNCHANGED <<windowMarker, windowMode, windowTodo, windowSound,
          windowConfirmed>>
    BY <1>12 DEF MaintenanceWindow!Permitted, MaintenanceWindow!Move,
                 MaintenanceWindow!admin
  <2>2. /\ windowAt'
           \in [MaintenanceWindow!Writers -> MaintenanceWindow!Places]
        /\ MaintenanceWindow!Marked
           => \A v \in MaintenanceWindow!Writers : windowAt'[v] = "write"
             => windowAt[v] = "write"
    BY <1>2, <1>12 DEF MaintenanceWindow!Permitted, MaintenanceWindow!Move,
                       MaintenanceWindow!admin, MaintenanceWindow!Writers,
                       MaintenanceWindow!Places, MaintenanceWindow!Marked
  <2> QED
    BY <1>1, <2>1, <2>2, UnmovedKeeps
<1>13. ASSUME NEW w \in MaintenanceWindow!Writers, MaintenanceWindow!Written(w)
      PROVE  MaintenanceWindow!MarkerKept'
  <2>1. UNCHANGED <<windowMarker, windowMode, windowTodo, windowSound,
          windowConfirmed>>
    BY <1>13 DEF MaintenanceWindow!Written, MaintenanceWindow!Move,
                 MaintenanceWindow!admin
  <2>2. /\ windowAt'
           \in [MaintenanceWindow!Writers -> MaintenanceWindow!Places]
        /\ MaintenanceWindow!Marked
           => \A v \in MaintenanceWindow!Writers : windowAt'[v] = "write"
             => windowAt[v] = "write"
    BY <1>2, <1>13 DEF MaintenanceWindow!Written, MaintenanceWindow!Move,
                       MaintenanceWindow!admin, MaintenanceWindow!Writers,
                       MaintenanceWindow!Places, MaintenanceWindow!Marked
  <2> QED
    BY <1>1, <2>1, <2>2, UnmovedKeeps
<1>14. ASSUME NEW a \in Operators, MaintenanceWindow!Command(a)
      PROVE  MaintenanceWindow!MarkerKept'
  <2>1. PICK m \in {"prepare", "restore", "window"} :
               MaintenanceWindow!Enters(a, m)
    BY <1>14 DEF MaintenanceWindow!Command
  <2>2. UNCHANGED <<windowMarker, windowAt, windowConfirmed>>
    BY <1>14 DEF MaintenanceWindow!Command
  <2>3. m \in DOMAIN MaintenanceWindow!Plan
    BY PlanType
  <2>4. windowMode'[a] = m
        /\ MaintenanceWindow!Left(a)' = Len(MaintenanceWindow!Plan[m])
    BY <1>1, <2>1, <2>3, EntersFits
  <2>5. MaintenanceWindow!MarkedFor(a)'
    <3>1. m = "prepare" => MaintenanceWindow!Left(a)' = 4
      BY <2>4, PlanOfPrepare
    <3>2. /\ windowMode'[a] \in {"prepare", "restore", "window"}
          /\ windowMode'[a] = "prepare" => MaintenanceWindow!Left(a)' = 4
      BY <2>1, <2>4, <3>1
    <3> QED
      BY <3>2 DEF MaintenanceWindow!MarkedFor
  <2>6. MaintenanceWindow!PreparedIsQuiet'
    BY <1>1, <2>2 DEF MaintenanceWindow!PreparedIsQuiet,
                      MaintenanceWindow!Marked
  <2> QED
    BY <1>3, <2>5, <2>6
<1>15. ASSUME NEW a \in Operators, MaintenanceWindow!TakeIntent(a)
      PROVE  MaintenanceWindow!MarkerKept'
  <2>1. /\ windowTodo[a] # << >> /\ Head(windowTodo[a]) = "intent"
           /\ MaintenanceWindow!Advance(a)
        /\ UNCHANGED <<windowMarker, windowAt, windowConfirmed>>
    BY <1>15 DEF MaintenanceWindow!TakeIntent, MaintenanceWindow!Doing
  <2>2. \/ windowMode[a] = "prepare" /\ MaintenanceWindow!Left(a) = 4
        \/ windowMode[a] = "undo" /\ MaintenanceWindow!Left(a) = 7
    BY <1>1, <2>1, StepAt
  <2>3. windowMode' = windowMode
        /\ MaintenanceWindow!Left(a)' = MaintenanceWindow!Left(a) - 1
    BY <1>1, <2>1, AdvanceFits
  <2>4. MaintenanceWindow!MarkedFor(a)'
    BY <2>2, <2>3 DEF MaintenanceWindow!MarkedFor
  <2>5. MaintenanceWindow!PreparedIsQuiet'
    BY <1>1, <2>1 DEF MaintenanceWindow!PreparedIsQuiet,
                      MaintenanceWindow!Marked
  <2> QED
    BY <1>3, <2>4, <2>5
<1>16. ASSUME NEW a \in Operators, MaintenanceWindow!Publish(a)
      PROVE  MaintenanceWindow!MarkerKept'
  <2>1. windowMarker' = MaintenanceWindow!Maintenance
        /\ UNCHANGED <<windowAt, windowConfirmed>>
    BY <1>16 DEF MaintenanceWindow!Publish
  <2>2. MaintenanceWindow!Marked'
    BY <2>1, MaintenanceFits DEF MaintenanceWindow!Marked
  <2>3. MaintenanceWindow!MarkedFor(a)'
    BY <2>2 DEF MaintenanceWindow!MarkedFor
  <2>4. MaintenanceWindow!PreparedIsQuiet'
    BY <1>1, <2>1, <2>2
       DEF MaintenanceWindow!PreparedIsQuiet, MaintenanceWindow!Marked
  <2> QED
    BY <1>3, <2>3, <2>4
<1>17. ASSUME NEW a \in Operators, MaintenanceWindow!TakeGate(a)
      PROVE  MaintenanceWindow!MarkerKept'
  <2>1. /\ windowTodo[a] # << >> /\ Head(windowTodo[a]) = "gate"
           /\ MaintenanceWindow!Advance(a)
        /\ UNCHANGED <<windowMarker, windowAt, windowSound, windowConfirmed>>
    BY <1>17 DEF MaintenanceWindow!TakeGate, MaintenanceWindow!Doing
  <2>2. MaintenanceWindow!MarkedFor(a)'
    BY <1>1, <2>1, AdvanceMarked
  <2>3. MaintenanceWindow!PreparedIsQuiet'
    BY <1>1, <2>1 DEF MaintenanceWindow!PreparedIsQuiet,
                      MaintenanceWindow!Marked
  <2> QED
    BY <1>3, <2>2, <2>3
<1>18. ASSUME NEW a \in Operators, MaintenanceWindow!GateBusy(a)
      PROVE  MaintenanceWindow!MarkerKept'
  <2>1. /\ windowTodo[a] # << >> /\ Head(windowTodo[a]) = "gate"
        /\ UNCHANGED <<windowMarker, windowAt, windowConfirmed>>
    BY <1>18 DEF MaintenanceWindow!GateBusy, MaintenanceWindow!Doing
  <2>2. MaintenanceWindow!MarkedFor(a)'
    <3>1. CASE windowMode[a] = "prepare"
      <4>1. MaintenanceWindow!Enters(a, "preempt")
            /\ "preempt" \in DOMAIN MaintenanceWindow!Plan
        BY <1>18, <3>1, PlanType DEF MaintenanceWindow!GateBusy
      <4>2. windowMode'[a] = "preempt"
        BY <1>1, <4>1, EntersFits
      <4>3. MaintenanceWindow!Left(a) = 2 /\ MaintenanceWindow!MarkedFor(a)
        BY <1>1, <2>1, <3>1, StepAt DEF MaintenanceWindow!MarkerKept
      <4>4. MaintenanceWindow!Marked'
        BY <2>1, <3>1, <4>3 DEF MaintenanceWindow!MarkedFor,
                                MaintenanceWindow!Marked
      <4> QED
        BY <4>4 DEF MaintenanceWindow!MarkedFor
    <3>2. CASE windowMode[a] # "prepare"
      <4>1. MaintenanceWindow!Fails(a)
        BY <1>18, <3>2 DEF MaintenanceWindow!GateBusy
      <4> QED
        BY <1>1, <2>1, <4>1, FailsFits, FailsMarked
    <3> QED
      BY <3>1, <3>2
  <2>3. MaintenanceWindow!PreparedIsQuiet'
    BY <1>1, <2>1 DEF MaintenanceWindow!PreparedIsQuiet,
                      MaintenanceWindow!Marked
  <2> QED
    BY <1>3, <2>2, <2>3
<1>19. ASSUME NEW a \in Operators, MaintenanceWindow!Leave(a)
      PROVE  MaintenanceWindow!MarkerKept'
  <2>1. /\ windowTodo[a] # << >> /\ Head(windowTodo[a]) = "leave"
        /\ UNCHANGED <<windowMarker, windowAt, windowSound, windowConfirmed>>
    BY <1>19 DEF MaintenanceWindow!Leave, MaintenanceWindow!Doing
  <2>2. MaintenanceWindow!MarkedFor(a)'
    <3>1. CASE windowMode[a] \in {"prepare", "preempt"}
      <4>1. MaintenanceWindow!MarkedFor(a)
            /\ (windowMode[a] = "prepare" => MaintenanceWindow!Left(a) = 1)
        BY <1>1, <2>1, <3>1, StepAt DEF MaintenanceWindow!MarkerKept
      <4>2. MaintenanceWindow!Marked'
        BY <2>1, <3>1, <4>1 DEF MaintenanceWindow!MarkedFor,
                                MaintenanceWindow!Marked
      <4> QED
        BY <4>2 DEF MaintenanceWindow!MarkedFor
    <3>2. CASE windowMode[a] \notin {"prepare", "preempt"}
      <4>1. MaintenanceWindow!Advance(a)
        BY <1>19, <3>2 DEF MaintenanceWindow!Leave
      <4> QED
        BY <1>1, <2>1, <4>1, AdvanceMarked
    <3> QED
      BY <3>1, <3>2
  <2>3. MaintenanceWindow!PreparedIsQuiet'
    BY <1>1, <2>1 DEF MaintenanceWindow!PreparedIsQuiet,
                      MaintenanceWindow!Marked
  <2> QED
    BY <1>3, <2>2, <2>3
<1>20. ASSUME NEW a \in Operators, MaintenanceWindow!Systemd(a)
      PROVE  MaintenanceWindow!MarkerKept'
  <2>1. /\ windowTodo[a] # << >> /\ MaintenanceWindow!Advance(a)
        /\ Head(windowTodo[a]) \in {"dropin", "undrop", "stop", "start"}
        /\ UNCHANGED <<windowMarker, windowSound, windowConfirmed>>
    BY <1>20 DEF MaintenanceWindow!Systemd, MaintenanceWindow!Doing
  <2>2. MaintenanceWindow!MarkedFor(a)'
    BY <1>1, <2>1, AdvanceMarked
  <2>3. \A w \in MaintenanceWindow!Writers : windowAt'[w] = "write"
        => windowAt[w] = "write"
    <3>1. CASE windowAt' = windowAt
      BY <3>1
    <3>2. CASE windowAt' = [windowAt EXCEPT !["svc"] = "off"]
      BY <1>2, <3>2 DEF MaintenanceWindow!Writers
    <3>3. CASE windowAt' = [windowAt EXCEPT !["svc"] = "wait"]
      BY <1>2, <3>3 DEF MaintenanceWindow!Writers
    <3> QED
      BY <1>20, <3>1, <3>2, <3>3 DEF MaintenanceWindow!Systemd
  <2>4. MaintenanceWindow!PreparedIsQuiet'
    BY <1>1, <2>1, <2>3
       DEF MaintenanceWindow!PreparedIsQuiet, MaintenanceWindow!Marked
  <2> QED
    BY <1>3, <2>2, <2>4
<1>21. ASSUME NEW a \in Operators, MaintenanceWindow!Look(a)
      PROVE  MaintenanceWindow!MarkerKept'
  <2>1. PICK step \in {"prove", "check", "same", "read"} :
           /\ MaintenanceWindow!Doing(a, step)
           /\ IF MaintenanceWindow!Holds(a,
                step) THEN MaintenanceWindow!Advance(a)
                  /\ UNCHANGED <<windowHeld,
                       windowSound>> ELSE MaintenanceWindow!Fails(a)
           /\ windowConfirmed'
              = (windowConfirmed \/ MaintenanceWindow!Proved(a, step))
           /\ UNCHANGED <<windowMarker, windowAt>>
    BY <1>21 DEF MaintenanceWindow!Look
  <2>2. windowTodo[a] # << >> /\ Head(windowTodo[a]) = step
    BY <2>1 DEF MaintenanceWindow!Doing
  <2>3. MaintenanceWindow!MarkedFor(a)'
    <3>1. CASE MaintenanceWindow!Holds(a, step)
      BY <1>1, <2>1, <2>2, <3>1, AdvanceMarked
    <3>2. CASE ~MaintenanceWindow!Holds(a, step)
      BY <1>1, <2>1, <2>2, <3>2, FailsFits, FailsMarked
    <3> QED
      BY <3>1, <3>2
  <2>4. MaintenanceWindow!Proved(a, step)
        => MaintenanceWindow!Marked
          /\ \A w \in MaintenanceWindow!Writers : windowAt[w] # "write"
    <3> SUFFICES ASSUME MaintenanceWindow!Proved(a, step)
                 PROVE  MaintenanceWindow!Marked
                        /\ \A w
                        \in MaintenanceWindow!Writers : windowAt[w] # "write"
      OBVIOUS
    <3>1. step = "prove" /\ MaintenanceWindow!Stopped
          /\ Tail(windowTodo[a]) = << >> /\ windowSound[a]
      BY DEF MaintenanceWindow!Proved
    <3>2. MaintenanceWindow!Left(a) = 1
      BY <1>1, <2>2, <3>1, NextStep
    <3>3. windowMode[a] \in {"settle", "undo", "back"}
      BY <1>1, <2>2, <3>1, <3>2, StepAt
    <3>4. MaintenanceWindow!Marked
      BY <1>1, <3>1, <3>2, <3>3
         DEF MaintenanceWindow!MarkerKept, MaintenanceWindow!MarkedFor
    <3> QED
      BY <3>1, <3>4 DEF MaintenanceWindow!Stopped
  <2>5. MaintenanceWindow!PreparedIsQuiet'
    BY <1>1, <2>1, <2>4
       DEF MaintenanceWindow!PreparedIsQuiet, MaintenanceWindow!Marked
  <2> QED
    BY <1>3, <2>3, <2>5
<1>22. ASSUME NEW a \in Operators, MaintenanceWindow!Change(a)
      PROVE  MaintenanceWindow!MarkerKept'
  <2>1. PICK step \in {"reset", "arm", "claim", "renew", "complete"} :
           /\ MaintenanceWindow!Doing(a, step) /\ MaintenanceWindow!Exclusive
           /\ IF ~MaintenanceWindow!Fits(a,
                step) THEN MaintenanceWindow!Fails(a)
                  /\ UNCHANGED <<windowMarker, windowConfirmed>>
              ELSE /\ windowMarker' = MaintenanceWindow!Changed(a, step)
                   /\ windowConfirmed'
                      = (windowConfirmed /\ step \in {"reset", "renew"})
                   /\ \/ MaintenanceWindow!Advance(a)
                        /\ UNCHANGED <<windowHeld, windowSound>>
                      \/ MaintenanceWindow!Fails(a)
           /\ UNCHANGED windowAt
    BY <1>22 DEF MaintenanceWindow!Change
  <2>2. windowTodo[a] # << >> /\ Head(windowTodo[a]) = step
    BY <2>1 DEF MaintenanceWindow!Doing
  <2>3. MaintenanceWindow!MarkedFor(a)'
    <3>1. CASE MaintenanceWindow!Fails(a)
      BY <1>1, <2>2, <3>1, FailsFits, FailsMarked
    <3>2. CASE MaintenanceWindow!Advance(a) /\ step = "reset"
               /\ MaintenanceWindow!Fits(a, step)
                  /\ windowMarker' = MaintenanceWindow!Changed(a, step)
      <4>1. windowMarker' = MaintenanceWindow!Maintenance
        BY <3>2 DEF MaintenanceWindow!Changed
      <4>2. MaintenanceWindow!Marked'
        BY <4>1, MaintenanceFits DEF MaintenanceWindow!Marked
      <4> QED
        BY <4>2 DEF MaintenanceWindow!MarkedFor
    <3>3. CASE MaintenanceWindow!Advance(a) /\ step # "reset"
      <4>1. windowMode[a] = "restore"
        BY <1>1, <2>1, <2>2, <3>3, StepAt
      <4>2. windowMode' = windowMode
        BY <3>3 DEF MaintenanceWindow!Advance
      <4> QED
        BY <4>1, <4>2 DEF MaintenanceWindow!MarkedFor
    <3> QED
      BY <2>1, <3>1, <3>2, <3>3
  <2>4. windowConfirmed' => MaintenanceWindow!Marked'
    <3>1. CASE windowMarker' = windowMarker
               /\ windowConfirmed' = windowConfirmed
      BY <1>1, <3>1 DEF MaintenanceWindow!PreparedIsQuiet,
                        MaintenanceWindow!Marked
    <3>2. CASE MaintenanceWindow!Fits(a, step)
               /\ windowMarker' = MaintenanceWindow!Changed(a, step)
                  /\ step = "reset"
      BY <3>2, MaintenanceFits
         DEF MaintenanceWindow!Changed, MaintenanceWindow!Marked
    <3>3. CASE MaintenanceWindow!Fits(a, step)
               /\ windowMarker' = MaintenanceWindow!Changed(a, step)
                  /\ step = "renew"
      BY <3>3 DEF MaintenanceWindow!Changed, MaintenanceWindow!Fits,
                  MaintenanceWindow!Mine, MaintenanceWindow!Marked
    <3> QED
      BY <2>1, <3>1, <3>2, <3>3
  <2>5. \A w \in MaintenanceWindow!Writers : windowAt'[w] # "write"
    BY <2>1 DEF MaintenanceWindow!Exclusive, MaintenanceWindow!NoGateReader
  <2>6. MaintenanceWindow!PreparedIsQuiet'
    BY <2>4, <2>5 DEF MaintenanceWindow!PreparedIsQuiet
  <2> QED
    BY <1>3, <2>3, <2>6
<1>23. ASSUME NEW a \in Operators, MaintenanceWindow!Enter(a)
      PROVE  MaintenanceWindow!MarkerKept'
  <2>1. /\ windowTodo[a] # << >> /\ Head(windowTodo[a]) = "enter"
        /\ UNCHANGED <<windowMarker, windowAt, windowConfirmed>>
    BY <1>23 DEF MaintenanceWindow!Enter, MaintenanceWindow!Doing
  <2>2. MaintenanceWindow!MarkedFor(a)'
    <3>1. CASE MaintenanceWindow!Advance(a) /\ windowSound' = windowSound
      BY <1>1, <2>1, <3>1, AdvanceMarked
    <3>2. CASE MaintenanceWindow!Fails(a)
      BY <1>1, <2>1, <3>2, FailsFits, FailsMarked
    <3> QED
      BY <1>23, <3>1, <3>2 DEF MaintenanceWindow!Enter
  <2>3. MaintenanceWindow!PreparedIsQuiet'
    BY <1>1, <2>1 DEF MaintenanceWindow!PreparedIsQuiet,
                      MaintenanceWindow!Marked
  <2> QED
    BY <1>3, <2>2, <2>3
<1>24. ASSUME NEW a \in Operators, MaintenanceWindow!Raises(a)
      PROVE  MaintenanceWindow!MarkerKept'
  <2>1. /\ windowTodo[a] # << >> /\ Head(windowTodo[a]) # "leave"
           /\ MaintenanceWindow!Fails(a)
        /\ UNCHANGED <<windowMarker, windowAt, windowConfirmed>>
    BY <1>24 DEF MaintenanceWindow!Raises
  <2>2. MaintenanceWindow!MarkedFor(a)'
    BY <1>1, <2>1, FailsFits, FailsMarked
  <2>3. MaintenanceWindow!PreparedIsQuiet'
    BY <1>1, <2>1 DEF MaintenanceWindow!PreparedIsQuiet,
                      MaintenanceWindow!Marked
  <2> QED
    BY <1>3, <2>2, <2>3
<1>25. ASSUME NEW a \in Operators, MaintenanceWindow!Finish(a)
      PROVE  MaintenanceWindow!MarkerKept'
  <2>1. windowMode' = [windowMode EXCEPT ![a] = "idle"]
        /\ UNCHANGED <<windowMarker, windowAt, windowConfirmed>>
    BY <1>25 DEF MaintenanceWindow!Finish
  <2>2. windowMode'[a] = "idle"
    BY <1>2, <2>1
  <2>3. MaintenanceWindow!MarkedFor(a)'
    BY <2>2, FailsMarked
  <2>4. MaintenanceWindow!PreparedIsQuiet'
    BY <1>1, <2>1 DEF MaintenanceWindow!PreparedIsQuiet,
                      MaintenanceWindow!Marked
  <2> QED
    BY <1>3, <2>3, <2>4
<1>26. ASSUME NEW a \in Operators, MaintenanceWindow!Dies(a)
      PROVE  MaintenanceWindow!MarkerKept'
  <2>1. windowMode' = [windowMode EXCEPT ![a] = "idle"]
        /\ UNCHANGED <<windowMarker, windowAt, windowConfirmed>>
    BY <1>26 DEF MaintenanceWindow!Dies
  <2>2. windowMode'[a] = "idle"
    BY <1>2, <2>1
  <2>3. MaintenanceWindow!MarkedFor(a)'
    BY <2>2, FailsMarked
  <2>4. MaintenanceWindow!PreparedIsQuiet'
    BY <1>1, <2>1 DEF MaintenanceWindow!PreparedIsQuiet,
                      MaintenanceWindow!Marked
  <2> QED
    BY <1>3, <2>3, <2>4
<1>27. CASE UNCHANGED MaintenanceWindow!vars
  BY <1>1, <1>27, UnmovedKeeps DEF MaintenanceWindow!vars,
                                   MaintenanceWindow!admin
<1> QED
  BY <1>4, <1>5, <1>6, <1>7, <1>8, <1>9, <1>10, <1>11, <1>12, <1>13, <1>14,
     <1>15, <1>16, <1>17, <1>18, <1>19, <1>20, <1>21, <1>22, <1>23, <1>24,
     <1>25, <1>26, <1>27
     DEF MaintenanceWindow!Next, MaintenanceWindow!Writer,
         MaintenanceWindow!Admin

\* Before the first command no window was reported.
LEMMA MarkerInit ==
  ASSUME MaintenanceWindow!Init
  PROVE  MaintenanceWindow!MarkerKept
<1>1. \A a \in Operators : windowMode[a] = "idle"
  BY DEF MaintenanceWindow!Init
<1>2. \A a \in Operators : MaintenanceWindow!MarkedFor(a)
  BY <1>1 DEF MaintenanceWindow!MarkedFor
<1>3. MaintenanceWindow!PreparedIsQuiet
  BY DEF MaintenanceWindow!Init, MaintenanceWindow!PreparedIsQuiet
<1> QED
  BY <1>2, <1>3 DEF MaintenanceWindow!MarkerKept

\* The inductive invariant of the maintenance window holds in every state.
THEOREM WindowInvariance ==
  ASSUME MaintenanceWindow!BoundAssumption, MaintenanceWindow!NoneAssumption
  PROVE  MaintenanceWindow!Spec => []MaintenanceWindow!IInv
<1>1. MaintenanceWindow!Init => MaintenanceWindow!IInv
  BY WindowInit
<1>2. MaintenanceWindow!IInv
      /\ [MaintenanceWindow!Next]_(MaintenanceWindow!vars)
         => MaintenanceWindow!IInv'
  BY WindowNext
<1> QED
  BY <1>1, <1>2, PTL DEF MaintenanceWindow!Spec

\* Whoever the operators are and whatever fails: once the gate was taken under
\* the marker nobody writes until it is gone (DrainedIsQuiet), and while one
\* operator is inside its window nobody writes, the marker stays, and no other
\* operator holds a lock (WindowExclusive).
THEOREM WindowStaysExclusive ==
  ASSUME MaintenanceWindow!BoundAssumption, MaintenanceWindow!NoneAssumption
  PROVE  MaintenanceWindow!Spec
         => [](MaintenanceWindow!DrainedIsQuiet
             /\ MaintenanceWindow!WindowExclusive)
<1>1. MaintenanceWindow!IInv
      => MaintenanceWindow!DrainedIsQuiet /\ MaintenanceWindow!WindowExclusive
  BY DEF MaintenanceWindow!IInv
<1> QED
  BY WindowInvariance, <1>1, PTL

\* Where one operator works at a time, a window that was reported as prepared,
\* or as safely closed again, stays marked and without a writer until a restore
\* is begun (PreparedIsQuiet).
THEOREM PreparedStaysQuiet ==
  ASSUME MaintenanceWindow!BoundAssumption, MaintenanceWindow!NoneAssumption,
           \A a, b \in Operators : a = b
  PROVE  MaintenanceWindow!Spec => []MaintenanceWindow!PreparedIsQuiet
<1>1. MaintenanceWindow!Init
      => MaintenanceWindow!IInv /\ MaintenanceWindow!MarkerKept
  BY WindowInit, MarkerInit
<1>2. MaintenanceWindow!IInv /\ MaintenanceWindow!MarkerKept
      /\ [MaintenanceWindow!Next]_(MaintenanceWindow!vars)
         => (MaintenanceWindow!IInv /\ MaintenanceWindow!MarkerKept)'
  BY WindowNext, MarkerNext
<1>3. MaintenanceWindow!IInv /\ MaintenanceWindow!MarkerKept
      => MaintenanceWindow!PreparedIsQuiet
  BY DEF MaintenanceWindow!MarkerKept
<1> QED
  BY <1>1, <1>2, <1>3, PTL DEF MaintenanceWindow!Spec

\* Beside the other services the same holds: the suite's invariant.
THEOREM WindowIsQuietHere ==
  ASSUME \A a, b \in Operators : a = b
  PROVE  ServicesSpec => []WindowIsQuiet
<1>1. ServicesInit => WindowIsQuiet
  BY WindowInit, MarkerInit, InstancesAssumption
     DEF ServicesInit, WindowIsQuiet
<1>2. [ServicesNext]_servicesVars
      => [MaintenanceWindow!Next]_(MaintenanceWindow!vars)
  BY DEF ServicesNext, servicesVars, windowVars, MaintenanceWindow!vars,
         MaintenanceWindow!admin, MaintenanceWindow!counts
<1>3. WindowIsQuiet /\ [ServicesNext]_servicesVars => WindowIsQuiet'
  BY <1>2, WindowNext, MarkerNext, InstancesAssumption DEF WindowIsQuiet
<1> QED
  BY <1>1, <1>3, PTL DEF ServicesSpec

-----------------------------------------------------------------------------
(***************************************************************************)
(* The move of the queue. What waits for a key is its newest request, or   *)
(* the claim is of it, or it has ended (ReqFits). What the command read    *)
(* and nobody wrote since is as it was read, but that leases run out       *)
(* (SeenFits); so what it writes back or ends is what is there. While only *)
(* it wrote, its last snapshot is the queue (ReportFits), which makes its  *)
(* report true.                                                            *)
(***************************************************************************)
\* What a claim of which the lease has run out still says.
LEMMA MoveAged ==
  ASSUME QueueMigration!MigrationAssumption, QueueMigration!NoneAssumption,
         NEW j \in QueueMigration!Claims \cup {None},
         NEW r \in QueueMigration!Claims \cup {None},
             QueueMigration!Aged(j, r), j # None
  PROVE  /\ r # None /\ j.target = r.target /\ j.req = r.req
         /\ j.owner = r.owner /\ j.token = r.token
BY DEF QueueMigration!Aged, QueueMigration!Claims,
       QueueMigration!NoneAssumption

\* The initial state satisfies the invariant.
LEMMA MoveInit ==
  ASSUME QueueMigration!MigrationAssumption, QueueMigration!NoneAssumption,
         QueueMigration!Init
  PROVE  QueueMigration!IInv
<1>1. /\ moveNewest = [k \in Moved |-> 1] /\ moveEnded = [k \in Moved |-> 0]
      /\ moveOwner \in {None, "mine"} /\ moveWorker = "off"
      /\ moveMapping = {} /\ moveSeen = {} /\ movePc = "idle" /\ moveTodo = {}
      /\ moveFailed = FALSE
      /\ moveSnap = QueueMigration!NoSnap /\ moveReport = "none"
  BY DEF QueueMigration!Init
<1>2. /\ movePending \in [Moved -> QueueMigration!Requests \cup {None}]
      /\ moveActive \in [Moved -> QueueMigration!Claims \cup {None}]
  BY DEF QueueMigration!Init
<1>3. \A k \in Moved : (movePending[k] = None) # (moveActive[k] = None)
  BY DEF QueueMigration!Init
<1>4. \A k \in Moved : /\ movePending[k] # None => movePending[k].req = 1
                       /\ moveActive[k] # None => moveActive[k].req = 1
  BY DEF QueueMigration!Init
<1>5. moveSnap \in [pending : [Moved -> QueueMigration!Requests \cup {None}],
                    active : [Moved -> QueueMigration!Claims \cup {None}]]
  BY <1>1 DEF QueueMigration!NoSnap
<1>6. QueueMigration!TypeOK
  BY <1>1, <1>2, <1>5 DEF QueueMigration!TypeOK, QueueMigration!Places
<1>7. QueueMigration!ReqFits /\ QueueMigration!NewestKept
  BY <1>1, <1>3, <1>4 DEF QueueMigration!ReqFits, QueueMigration!NewestKept,
                          QueueMigration!ReqOf
<1> QED
  BY <1>1, <1>6, <1>7 DEF QueueMigration!IInv, QueueMigration!SeenFits,
                          QueueMigration!TodoFits, QueueMigration!ReportFits,
                          QueueMigration!WorkerFits,
                          QueueMigration!CompleteIsClean,
                          QueueMigration!WorkerAlone

\* A claim that the command may settle is the one that it has read, run out.
LEMMA MoveFenced ==
  ASSUME QueueMigration!MigrationAssumption, QueueMigration!NoneAssumption,
         QueueMigration!IInv, NEW k \in Moved,
         movePc = "settle", k \in moveTodo, QueueMigration!Fenced(k)
  PROVE  /\ moveActive[k] \in QueueMigration!Claims
         /\ moveSnap.active[k] \in QueueMigration!Claims
         /\ moveActive[k].target = moveSnap.active[k].target
         /\ moveActive[k].req = moveSnap.active[k].req
         /\ moveActive[k].owner = moveSnap.active[k].owner
         /\ moveActive[k].token = moveSnap.active[k].token
         /\ moveActive[k].lease = "expired"
<1>1. moveSnap.active[k] \in QueueMigration!Claims
      /\ moveActive[k] \in QueueMigration!Claims \cup {None}
  BY DEF QueueMigration!IInv, QueueMigration!TypeOK, QueueMigration!TodoFits
<1>2. QueueMigration!Aged(moveActive[k], moveSnap.active[k])
  BY DEF QueueMigration!Fenced, QueueMigration!IInv, QueueMigration!SeenFits
<1>3. moveActive[k] # None
  BY <1>1, <1>2 DEF QueueMigration!Aged, QueueMigration!Claims,
                    QueueMigration!NoneAssumption
<1> QED
  BY <1>1, <1>2, <1>3, MoveAged DEF QueueMigration!Fenced

\* A request that goes back is that of the claim.
LEMMA MoveBack ==
  ASSUME QueueMigration!TypeOK, NEW k \in Moved, moveActive[k] # None,
         QueueMigration!WriteBack(k)
  PROVE  /\ movePending' \in [Moved -> QueueMigration!Requests \cup {None}]
         /\ movePending'[k] \in QueueMigration!Requests
         /\ movePending'[k] = IF movePending[k] # None THEN movePending[k]
                              ELSE [target |-> moveActive[k].target,
                                  req |-> moveActive[k].req]
         /\ \A l \in Moved \ {k} : movePending'[l] = movePending[l]
<1>1. moveActive[k] \in QueueMigration!Claims
  BY DEF QueueMigration!TypeOK
<1>2. [target |-> moveActive[k].target, req |-> moveActive[k].req]
      \in QueueMigration!Requests
  BY <1>1 DEF QueueMigration!Claims, QueueMigration!Requests
<1> QED
  BY <1>2 DEF QueueMigration!WriteBack, QueueMigration!TypeOK

\* A claim is taken of what waits.
LEMMA MoveClaim ==
  ASSUME QueueMigration!MigrationAssumption, QueueMigration!NoneAssumption,
         QueueMigration!TypeOK, NEW k \in Moved,
         NEW who \in {"none", "other", "mine"}, QueueMigration!Claim(k, who)
  PROVE  /\ moveActive' \in [Moved -> QueueMigration!Claims \cup {None}]
         /\ movePending' \in [Moved -> QueueMigration!Requests \cup {None}]
         /\ movePending'[k] = None /\ moveActive[k] = None
         /\ moveActive'[k] \in QueueMigration!Claims /\ moveActive'[k] # None
         /\ moveActive'[k].req = movePending[k].req
         /\ moveActive'[k].owner = who
         /\ \A l \in Moved \ {k} : movePending'[l] = movePending[l]
            /\ moveActive'[l] = moveActive[l]
<1>1. movePending[k] \in QueueMigration!Requests
  BY DEF QueueMigration!Claim, QueueMigration!TypeOK
<1>2. [target |-> movePending[k].target, req |-> movePending[k].req,
        lease |-> "live",
       owner |-> who, token |-> TRUE] \in QueueMigration!Claims
  BY <1>1 DEF QueueMigration!Claims, QueueMigration!Requests
<1>3. None \notin QueueMigration!Claims
  BY DEF QueueMigration!NoneAssumption
<1> QED
  BY <1>2, <1>3 DEF QueueMigration!Claim, QueueMigration!TypeOK

\* What is written into the queue is a request or a claim.
LEMMA MoveTypeNext ==
  ASSUME QueueMigration!MigrationAssumption, QueueMigration!NoneAssumption,
         QueueMigration!IInv, [QueueMigration!Next]_(QueueMigration!vars)
  PROVE  QueueMigration!TypeOK'
<1> USE DEF QueueMigration!queue, QueueMigration!admin, QueueMigration!bounds
<1> QueueMigration!TypeOK
  BY DEF QueueMigration!IInv
<1>1. ASSUME UNCHANGED QueueMigration!vars
      PROVE  QueueMigration!TypeOK'
  BY <1>1 DEF QueueMigration!TypeOK, QueueMigration!vars
<1>2. ASSUME NEW of \in {<<"init", "init2", "create">>,
                         <<"migrate", "migrate2", "plan">>,
                         <<"again", "again2", "choose">>,
                         <<"last", "last2", "report">>},
             QueueMigration!ReadPending(of[1], of[2])
               \/ QueueMigration!ReadActive(of[2], of[3])
      PROVE  QueueMigration!TypeOK'
  BY <1>2 DEF QueueMigration!ReadPending, QueueMigration!ReadActive,
              QueueMigration!Kept, QueueMigration!TypeOK, QueueMigration!Places
<1>3. ASSUME QueueMigration!Leave, QueueMigration!Forget
      PROVE  /\ moveTodo' \subseteq Moved /\ moveMapping' \subseteq Moved
             /\ moveFailed' \in BOOLEAN
             /\ movePc' \in QueueMigration!Places
             /\ moveNewest' \in [Moved -> Nat]
             /\ moveWorker' \in {"off", "up", "drains", "busy"}
             /\ moveSeen' \subseteq Moved \X {"map", "pending", "active"}
             /\ moveSnap'
                \in [pending : [Moved -> QueueMigration!Requests \cup {None}],
                               active :
                                   [Moved -> QueueMigration!Claims
                                       \cup {None}]]
  BY <1>3 DEF QueueMigration!Leave, QueueMigration!Forget,
              QueueMigration!NoSnap, QueueMigration!TypeOK,
              QueueMigration!Places
<1>4. ASSUME QueueMigration!Create
      PROVE  QueueMigration!TypeOK'
  BY <1>3, <1>4 DEF QueueMigration!Create, QueueMigration!TypeOK
<1>5. ASSUME QueueMigration!Report
      PROVE  QueueMigration!TypeOK'
  BY <1>3, <1>5 DEF QueueMigration!Report, QueueMigration!TypeOK
<1>6. ASSUME QueueMigration!Die
      PROVE  QueueMigration!TypeOK'
  BY <1>3, <1>6 DEF QueueMigration!Die, QueueMigration!TypeOK
<1>7. ASSUME QueueMigration!Decide
      PROVE  QueueMigration!TypeOK'
  <2>1. CASE QueueMigration!Planned
    BY <1>7, <2>1 DEF QueueMigration!Decide, QueueMigration!Kept,
                      QueueMigration!TypeOK, QueueMigration!Places
  <2>2. CASE ~QueueMigration!Planned
    BY <1>3, <1>7, <2>2 DEF QueueMigration!Decide, QueueMigration!Kept,
                            QueueMigration!TypeOK
  <2> QED
    BY <2>1, <2>2
<1>8. ASSUME QueueMigration!Mapped
      PROVE  QueueMigration!TypeOK'
  BY <1>8 DEF QueueMigration!Mapped, QueueMigration!Kept,
              QueueMigration!TypeOK, QueueMigration!Places
<1>9. ASSUME QueueMigration!Choose
      PROVE  QueueMigration!TypeOK'
  <2>1. CASE moveFailed \/ QueueMigration!LegacyPending(moveSnap.pending) # {}
    BY <1>3, <1>9, <2>1 DEF QueueMigration!Choose, QueueMigration!Kept,
                            QueueMigration!TypeOK
  <2>2. CASE ~(moveFailed
               \/ QueueMigration!LegacyPending(moveSnap.pending) # {})
    BY <1>9, <2>2 DEF QueueMigration!Choose, QueueMigration!Kept,
                      QueueMigration!LegacyActive, QueueMigration!TypeOK,
                      QueueMigration!Places
  <2> QED
    BY <2>1, <2>2
<1>10. ASSUME QueueMigration!Settled
       PROVE  QueueMigration!TypeOK'
  BY <1>10 DEF QueueMigration!Settled, QueueMigration!Forget,
               QueueMigration!Kept, QueueMigration!NoSnap,
               QueueMigration!TypeOK, QueueMigration!Places
<1>11. ASSUME NEW k \in Moved, QueueMigration!Map(k)
       PROVE  QueueMigration!TypeOK'
  <2>1. movePending' \in [Moved -> QueueMigration!Requests \cup {None}]
    <3>1. moveSnap.pending[k] \in QueueMigration!Requests
      BY <1>11 DEF QueueMigration!Map, QueueMigration!IInv,
                   QueueMigration!TypeOK, QueueMigration!TodoFits
    <3>2. [target |-> "commit", req |-> moveSnap.pending[k].req]
          \in QueueMigration!Requests
      BY <3>1 DEF QueueMigration!Requests, QueueMigration!Targets
    <3> QED
      BY <1>11, <3>2 DEF QueueMigration!Map, QueueMigration!TypeOK
  <2> QED
    BY <1>11, <2>1 DEF QueueMigration!Map, QueueMigration!Of,
                       QueueMigration!TypeOK
<1>12. ASSUME NEW k \in Moved, moveActive[k] # None, QueueMigration!Drop(k)
       PROVE  /\ moveActive' \in [Moved -> QueueMigration!Claims \cup {None}]
              /\ moveEnded' \in [Moved -> Nat]
              /\ moveSeen' \subseteq Moved \X {"map", "pending", "active"}
  <2>1. moveActive[k].req \in Nat
    BY <1>12 DEF QueueMigration!TypeOK, QueueMigration!Claims,
                 QueueMigration!MigrationAssumption
  <2> QED
    BY <1>12, <2>1 DEF QueueMigration!Drop, QueueMigration!Of,
                       QueueMigration!TypeOK
<1>13. ASSUME NEW k \in Moved, moveActive[k] # None, QueueMigration!Back(k)
       PROVE  /\ moveActive' \in [Moved -> QueueMigration!Claims \cup {None}]
              /\ movePending'
                 \in [Moved -> QueueMigration!Requests \cup {None}]
              /\ moveSeen' \subseteq Moved \X {"map", "pending", "active"}
  BY <1>13, MoveBack DEF QueueMigration!Back, QueueMigration!Of,
                         QueueMigration!TypeOK
<1>14. ASSUME NEW k \in Moved, QueueMigration!Settle(k)
       PROVE  QueueMigration!TypeOK'
  <2>1. CASE QueueMigration!Fenced(k)
    <3>1. moveActive[k] # None
      BY <1>14, <2>1, MoveFenced DEF QueueMigration!Settle,
                                     QueueMigration!NoneAssumption
    <3>2. CASE QueueMigration!Reject(k)
      BY <1>12, <1>14, <2>1, <3>1, <3>2
         DEF QueueMigration!Settle, QueueMigration!Reject,
             QueueMigration!TypeOK
    <3>3. CASE QueueMigration!Retry(k)
      BY <1>13, <1>14, <2>1, <3>1, <3>3
         DEF QueueMigration!Settle, QueueMigration!Retry, QueueMigration!TypeOK
    <3> QED
      BY <1>14, <2>1, <3>2, <3>3 DEF QueueMigration!Settle
  <2>2. CASE ~QueueMigration!Fenced(k)
    BY <1>14, <2>2 DEF QueueMigration!Settle, QueueMigration!TypeOK
  <2> QED
    BY <2>1, <2>2
<1>15. ASSUME NEW k \in Moved, QueueMigration!HalfRetried(k)
       PROVE  QueueMigration!TypeOK'
  <2>1. moveActive[k] # None
    BY <1>15, MoveFenced DEF QueueMigration!HalfRetried,
                             QueueMigration!NoneAssumption
  <2>2. movePending' \in [Moved -> QueueMigration!Requests \cup {None}]
    BY <1>15, <2>1, MoveBack DEF QueueMigration!HalfRetried
  <2>3. /\ moveTodo' \subseteq Moved /\ moveFailed' \in BOOLEAN
        /\ movePc' \in QueueMigration!Places
        /\ moveSnap'
           \in [pending : [Moved -> QueueMigration!Requests \cup {None}],
                          active :
                              [Moved -> QueueMigration!Claims \cup {None}]]
    BY <1>15 DEF QueueMigration!HalfRetried, QueueMigration!Leave,
                 QueueMigration!NoSnap, QueueMigration!Places
  <2> QED
    BY <1>15, <2>2, <2>3 DEF QueueMigration!HalfRetried, QueueMigration!Leave,
                             QueueMigration!TypeOK
<1>16. ASSUME NEW k \in Moved, NEW t \in QueueMigration!Targets,
              QueueMigration!Enqueue(k, t)
       PROVE  QueueMigration!TypeOK'
  <2>1. moveNewest[k] + 1 \in 1 .. MoveRequests
    BY <1>16 DEF QueueMigration!Enqueue, QueueMigration!TypeOK,
                 QueueMigration!MigrationAssumption
  <2>2. [target |-> t, req |-> moveNewest[k] + 1] \in QueueMigration!Requests
    BY <2>1 DEF QueueMigration!Requests
  <2> QED
    BY <1>16, <2>1, <2>2 DEF QueueMigration!Enqueue, QueueMigration!Of,
                             QueueMigration!TypeOK
<1>17. ASSUME NEW k \in Moved, NEW l \in {"live", "expired"},
              moveActive[k] # None,
              moveActive' = [moveActive EXCEPT ![k].lease = l]
       PROVE  moveActive' \in [Moved -> QueueMigration!Claims \cup {None}]
  <2>1. moveActive[k] \in QueueMigration!Claims
    BY <1>17 DEF QueueMigration!TypeOK
  <2>2. [moveActive[k] EXCEPT !.lease = l] \in QueueMigration!Claims
    BY <2>1 DEF QueueMigration!Claims
  <2> QED
    BY <1>17, <2>2 DEF QueueMigration!TypeOK
<1>18. ASSUME NEW k \in Moved, QueueMigration!Expire(k)
       PROVE  QueueMigration!TypeOK'
  BY <1>17, <1>18 DEF QueueMigration!Expire, QueueMigration!TypeOK
<1>19. ASSUME NEW k \in Moved, QueueMigration!StrangerRenews(k)
       PROVE  QueueMigration!TypeOK'
  BY <1>17, <1>19 DEF QueueMigration!StrangerRenews, QueueMigration!Old,
                      QueueMigration!Of, QueueMigration!TypeOK
<1>20. ASSUME NEW k \in Moved, QueueMigration!StrangerClaims(k)
       PROVE  QueueMigration!TypeOK'
  BY <1>20, MoveClaim DEF QueueMigration!StrangerClaims, QueueMigration!Claim,
                          QueueMigration!Of, QueueMigration!TypeOK
<1>21. ASSUME NEW k \in Moved, QueueMigration!WorkerClaims(k)
       PROVE  QueueMigration!TypeOK'
  <2>1. moveOwner = "mine"
    BY <1>21 DEF QueueMigration!WorkerClaims, QueueMigration!IInv,
                 QueueMigration!WorkerFits, QueueMigration!TypeOK
  <2> QED
    BY <1>21, <2>1, MoveClaim
       DEF QueueMigration!WorkerClaims, QueueMigration!Claim,
           QueueMigration!Of, QueueMigration!TypeOK
<1>22. ASSUME NEW k \in Moved, QueueMigration!StrangerEnds(k)
              \/ QueueMigration!WorkerEnds(k)
       PROVE  QueueMigration!TypeOK'
  BY <1>12, <1>22 DEF QueueMigration!StrangerEnds, QueueMigration!WorkerEnds,
                      QueueMigration!Old, QueueMigration!TypeOK
<1>23. ASSUME NEW k \in Moved, QueueMigration!Recover(k)
       PROVE  QueueMigration!TypeOK'
  BY <1>13, <1>23 DEF QueueMigration!Recover, QueueMigration!TypeOK
<1>24. ASSUME QueueMigration!StartWorker \/ QueueMigration!Audit
              \/ QueueMigration!WorkerStops
       PROVE  QueueMigration!TypeOK'
  BY <1>24 DEF QueueMigration!StartWorker, QueueMigration!Audit,
               QueueMigration!WorkerStops, QueueMigration!TypeOK
<1>25. ASSUME QueueMigration!DryRun
       PROVE  QueueMigration!TypeOK'
  BY <1>25 DEF QueueMigration!DryRun, QueueMigration!LegacyPending,
               QueueMigration!TypeOK
<1>26. ASSUME QueueMigration!Enter("init") \/ QueueMigration!Enter("migrate")
       PROVE  QueueMigration!TypeOK'
  BY <1>26 DEF QueueMigration!Enter, QueueMigration!TypeOK,
               QueueMigration!Places
<1> QED
  BY <1>1, <1>2, <1>4, <1>5, <1>6, <1>7, <1>8, <1>9, <1>10, <1>11, <1>14,
     <1>15, <1>16, <1>18, <1>19, <1>20, <1>21, <1>22, <1>23, <1>24, <1>25,
     <1>26
     DEF QueueMigration!Next, QueueMigration!Command, QueueMigration!Others,
         QueueMigration!Snapshots

\* What waits is the newest request, or the claim is of it, or it has ended.
LEMMA MoveReqNext ==
  ASSUME QueueMigration!MigrationAssumption, QueueMigration!NoneAssumption,
         QueueMigration!IInv, [QueueMigration!Next]_(QueueMigration!vars)
  PROVE  QueueMigration!ReqFits'
<1> USE DEF QueueMigration!queue, QueueMigration!admin, QueueMigration!bounds
<1> QueueMigration!TypeOK /\ QueueMigration!ReqFits
  BY DEF QueueMigration!IInv
<1>1. ASSUME UNCHANGED QueueMigration!queue
      PROVE  QueueMigration!ReqFits'
  BY <1>1 DEF QueueMigration!ReqFits
<1>2. ASSUME \/ UNCHANGED QueueMigration!vars \/ QueueMigration!Snapshots
                \/ QueueMigration!Create \/ QueueMigration!Decide
                   \/ QueueMigration!Mapped \/ QueueMigration!Choose
             \/ QueueMigration!Settled \/ QueueMigration!Report
                \/ QueueMigration!Die \/ QueueMigration!StartWorker
                   \/ QueueMigration!Audit \/ QueueMigration!WorkerStops
             \/ QueueMigration!DryRun \/ QueueMigration!Enter("init")
                \/ QueueMigration!Enter("migrate")
      PROVE  UNCHANGED QueueMigration!queue
  BY <1>2 DEF QueueMigration!vars, QueueMigration!Snapshots,
              QueueMigration!ReadPending, QueueMigration!ReadActive,
              QueueMigration!Create, QueueMigration!Decide,
              QueueMigration!Mapped, QueueMigration!Choose,
              QueueMigration!Settled, QueueMigration!Report,
              QueueMigration!Die, QueueMigration!StartWorker,
              QueueMigration!Audit, QueueMigration!WorkerStops,
              QueueMigration!DryRun, QueueMigration!Enter,
              QueueMigration!Leave, QueueMigration!Kept
<1>3. ASSUME NEW k \in Moved, QueueMigration!Map(k)
      PROVE  QueueMigration!ReqFits'
  <2>1. CASE UNCHANGED movePending
    BY <1>3, <2>1 DEF QueueMigration!Map, QueueMigration!ReqFits
  <2>2. CASE QueueMigration!Unchanged(k) /\ movePending' = [movePending EXCEPT
                   ![k] = [target |-> "commit",
                       req |-> moveSnap.pending[k].req]]
    <3>1. moveSnap.pending[k] \in QueueMigration!Requests
          /\ movePending[k] = moveSnap.pending[k]
          /\ movePending[k] # None
      BY <1>3, <2>2 DEF QueueMigration!Map, QueueMigration!Unchanged,
                        QueueMigration!IInv, QueueMigration!TypeOK,
                        QueueMigration!TodoFits, QueueMigration!SeenFits
    <3>2. [target |-> "commit", req |-> moveSnap.pending[k].req]
          \in QueueMigration!Requests
      BY <3>1 DEF QueueMigration!Requests, QueueMigration!Targets
    <3>3. movePending'[k] # None /\ movePending'[k].req = movePending[k].req
      BY <2>2, <3>1, <3>2 DEF QueueMigration!NoneAssumption,
                              QueueMigration!TypeOK
    <3> QED
      BY <1>3, <2>2, <3>1, <3>3 DEF QueueMigration!Map, QueueMigration!ReqFits,
                                    QueueMigration!TypeOK
  <2> QED
    BY <1>3, <2>1, <2>2 DEF QueueMigration!Map
<1>4. ASSUME NEW k \in Moved, moveActive[k] # None, QueueMigration!Drop(k),
             UNCHANGED <<movePending, moveNewest>>
      PROVE  QueueMigration!ReqFits'
  BY <1>4 DEF QueueMigration!Drop, QueueMigration!ReqFits,
              QueueMigration!TypeOK
<1>5. ASSUME NEW k \in Moved, moveActive[k] # None,
             QueueMigration!WriteBack(k), UNCHANGED <<moveNewest, moveEnded>>,
             NEW a \in {None, moveActive[k]},
                 moveActive' = [moveActive EXCEPT ![k] = a]
      PROVE  QueueMigration!ReqFits'
  <2>1. movePending'[k] # None
    BY <1>5, MoveBack DEF QueueMigration!NoneAssumption
  <2>2. moveNewest[k] = IF movePending[k] # None
          THEN movePending[k].req ELSE moveActive[k].req
    BY <1>5 DEF QueueMigration!ReqFits
  <2>3. movePending'[k].req = moveNewest[k]
    <3>1. CASE movePending[k] # None
      BY <1>5, <2>2, <3>1, MoveBack
    <3>2. CASE movePending[k] = None
      <4>1. movePending'[k]
            = [target |-> moveActive[k].target, req |-> moveActive[k].req]
        BY <1>5, <3>2, MoveBack
      <4> QED
        BY <2>2, <3>2, <4>1
    <3> QED
      BY <3>1, <3>2
  <2> QED
    BY <1>5, <2>1, <2>3, MoveBack
       DEF QueueMigration!ReqFits, QueueMigration!TypeOK
<1>6. ASSUME NEW k \in Moved, QueueMigration!Settle(k)
      PROVE  QueueMigration!ReqFits'
  <2>1. CASE QueueMigration!Fenced(k)
    <3>1. moveActive[k] # None
      BY <1>6, <2>1, MoveFenced DEF QueueMigration!Settle,
                                    QueueMigration!NoneAssumption
    <3>2. CASE QueueMigration!Reject(k)
      BY <1>4, <1>6, <3>1, <3>2 DEF QueueMigration!Settle,
                                    QueueMigration!Reject
    <3>3. CASE QueueMigration!Retry(k)
      BY <1>5, <1>6, <3>1, <3>3 DEF QueueMigration!Settle,
                                    QueueMigration!Retry, QueueMigration!Back
    <3> QED
      BY <1>6, <2>1, <3>2, <3>3 DEF QueueMigration!Settle
  <2>2. CASE ~QueueMigration!Fenced(k)
    BY <1>6, <2>2 DEF QueueMigration!Settle, QueueMigration!ReqFits
  <2> QED
    BY <2>1, <2>2
<1>7. ASSUME NEW k \in Moved, QueueMigration!HalfRetried(k)
      PROVE  QueueMigration!ReqFits'
  <2>1. moveActive[k] # None
    BY <1>7, MoveFenced DEF QueueMigration!HalfRetried,
                            QueueMigration!NoneAssumption
  <2>2. moveActive' = [moveActive EXCEPT ![k] = moveActive[k]]
    BY <1>7 DEF QueueMigration!HalfRetried, QueueMigration!TypeOK
  <2> QED
    BY <1>5, <1>7, <2>1, <2>2
       DEF QueueMigration!HalfRetried, QueueMigration!Leave
<1>8. ASSUME NEW k \in Moved, NEW t \in QueueMigration!Targets,
             QueueMigration!Enqueue(k, t)
      PROVE  QueueMigration!ReqFits'
  <2>1. [target |-> t, req |-> moveNewest[k] + 1] \in QueueMigration!Requests
    BY <1>8 DEF QueueMigration!Enqueue, QueueMigration!TypeOK,
                QueueMigration!MigrationAssumption, QueueMigration!Requests
  <2> QED
    BY <1>8, <2>1 DEF QueueMigration!Enqueue, QueueMigration!ReqFits,
                      QueueMigration!NoneAssumption, QueueMigration!TypeOK
<1>9. ASSUME NEW k \in Moved, NEW l \in {"live", "expired"},
             moveActive[k] # None,
             moveActive' = [moveActive EXCEPT ![k].lease = l],
             UNCHANGED <<movePending, moveNewest, moveEnded>>
      PROVE  QueueMigration!ReqFits'
  <2>1. moveActive[k] \in QueueMigration!Claims
    BY <1>9 DEF QueueMigration!TypeOK
  <2>2. moveActive'[k] \in QueueMigration!Claims
        /\ moveActive'[k].req = moveActive[k].req
    BY <1>9, <2>1 DEF QueueMigration!Claims, QueueMigration!TypeOK
  <2> QED
    BY <1>9, <2>2 DEF QueueMigration!ReqFits, QueueMigration!NoneAssumption,
                      QueueMigration!TypeOK
<1>10. ASSUME NEW k \in Moved, QueueMigration!Expire(k)
              \/ QueueMigration!StrangerRenews(k)
       PROVE  QueueMigration!ReqFits'
  BY <1>9, <1>10 DEF QueueMigration!Expire, QueueMigration!StrangerRenews,
                     QueueMigration!Old
<1>11. ASSUME NEW k \in Moved, QueueMigration!StrangerClaims(k)
              \/ QueueMigration!WorkerClaims(k)
       PROVE  QueueMigration!ReqFits'
  <2>1. PICK who \in {"none", "other", "mine"} : QueueMigration!Claim(k, who)
    BY <1>11 DEF QueueMigration!StrangerClaims, QueueMigration!WorkerClaims,
                 QueueMigration!IInv, QueueMigration!WorkerFits,
                 QueueMigration!TypeOK
  <2>2. movePending[k] # None /\ UNCHANGED <<moveNewest, moveEnded>>
    BY <2>1 DEF QueueMigration!Claim
  <2> QED
    BY <2>1, <2>2, MoveClaim DEF QueueMigration!ReqFits
<1>12. ASSUME NEW k \in Moved, QueueMigration!StrangerEnds(k)
              \/ QueueMigration!WorkerEnds(k)
       PROVE  QueueMigration!ReqFits'
  BY <1>4, <1>12 DEF QueueMigration!StrangerEnds, QueueMigration!WorkerEnds,
                     QueueMigration!Old
<1>13. ASSUME NEW k \in Moved, QueueMigration!Recover(k)
       PROVE  QueueMigration!ReqFits'
  BY <1>5, <1>13 DEF QueueMigration!Recover, QueueMigration!Back
<1> QED
  BY <1>1, <1>2, <1>3, <1>6, <1>7, <1>8, <1>10, <1>11, <1>12, <1>13
     DEF QueueMigration!Next, QueueMigration!Command, QueueMigration!Others

\* What was read stays as it was read, or is forgotten.
LEMMA MoveSeenNext ==
  ASSUME QueueMigration!MigrationAssumption, QueueMigration!NoneAssumption,
         QueueMigration!IInv, [QueueMigration!Next]_(QueueMigration!vars)
  PROVE  QueueMigration!SeenFits'
<1> USE DEF QueueMigration!queue, QueueMigration!admin, QueueMigration!bounds
<1> QueueMigration!TypeOK /\ QueueMigration!SeenFits
  BY DEF QueueMigration!IInv
<1>1. ASSUME UNCHANGED <<movePending, moveActive, moveSnap>>,
             \A k \in Moved, w \in {"pending", "active"} :
                 <<k, w>> \in moveSeen' => <<k, w>> \in moveSeen
      PROVE  QueueMigration!SeenFits'
  BY <1>1 DEF QueueMigration!SeenFits
<1>2. ASSUME \A k \in Moved, w \in {"pending", "active"} :
               <<k, w>> \notin moveSeen'
      PROVE  QueueMigration!SeenFits'
  BY <1>2 DEF QueueMigration!SeenFits
<1>3. ASSUME QueueMigration!Forget
      PROVE  QueueMigration!SeenFits'
  BY <1>2, <1>3 DEF QueueMigration!Forget
<1>4. ASSUME NEW of \in {<<"init", "init2", "create">>,
                         <<"migrate", "migrate2", "plan">>,
                         <<"again", "again2", "choose">>,
                         <<"last", "last2", "report">>},
             QueueMigration!ReadPending(of[1], of[2])
               \/ QueueMigration!ReadActive(of[2], of[3])
      PROVE  QueueMigration!SeenFits'
  <2>1. CASE QueueMigration!ReadPending(of[1], of[2])
    BY <2>1 DEF QueueMigration!ReadPending, QueueMigration!SeenFits,
                QueueMigration!TypeOK
  <2>2. CASE QueueMigration!ReadActive(of[2], of[3])
    BY <2>2 DEF QueueMigration!ReadActive, QueueMigration!Kept,
                QueueMigration!SeenFits, QueueMigration!Aged,
                QueueMigration!TypeOK
  <2> QED
    BY <1>4, <2>1, <2>2
<1>5. ASSUME QueueMigration!Create \/ QueueMigration!Settled
             \/ QueueMigration!Report \/ QueueMigration!Die
      PROVE  QueueMigration!SeenFits'
  BY <1>3, <1>5 DEF QueueMigration!Create, QueueMigration!Settled,
                    QueueMigration!Report, QueueMigration!Die
<1>6. ASSUME QueueMigration!Decide \/ QueueMigration!Choose
      PROVE  QueueMigration!SeenFits'
  BY <1>1, <1>3, <1>6 DEF QueueMigration!Decide, QueueMigration!Choose,
                          QueueMigration!Kept
<1>7. ASSUME \/ UNCHANGED QueueMigration!vars \/ QueueMigration!Mapped
                \/ QueueMigration!StartWorker \/ QueueMigration!Audit
                   \/ QueueMigration!WorkerStops
             \/ QueueMigration!Enter("init") \/ QueueMigration!Enter("migrate")
      PROVE  QueueMigration!SeenFits'
  BY <1>1, <1>7 DEF QueueMigration!vars, QueueMigration!Mapped,
                    QueueMigration!StartWorker, QueueMigration!Audit,
                    QueueMigration!WorkerStops, QueueMigration!Enter,
                    QueueMigration!Kept
<1>8. ASSUME QueueMigration!DryRun
      PROVE  QueueMigration!SeenFits'
  BY <1>2, <1>8 DEF QueueMigration!DryRun
<1>9. ASSUME NEW k \in Moved, UNCHANGED moveSnap, moveSeen' \subseteq moveSeen,
             \A l \in Moved \ {k} : movePending'[l] = movePending[l]
               /\ moveActive'[l] = moveActive[l],
             movePending'[k] = movePending[k]
               \/ <<k, "pending">> \notin moveSeen',
             moveActive'[k] = moveActive[k] \/ <<k, "active">> \notin moveSeen'
      PROVE  QueueMigration!SeenFits'
  <2> SUFFICES ASSUME NEW l \in Moved
               PROVE  /\ <<l, "pending">> \in moveSeen'
                         => movePending'[l] = moveSnap'.pending[l]
                      /\ <<l, "active">> \in moveSeen'
                         => QueueMigration!Aged(moveActive'[l],
                             moveSnap'.active[l])
    BY DEF QueueMigration!SeenFits, QueueMigration!Aged
  <2>1. CASE l = k
    BY <1>9, <2>1 DEF QueueMigration!SeenFits
  <2>2. CASE l # k
    BY <1>9, <2>2 DEF QueueMigration!SeenFits
  <2> QED
    BY <2>1, <2>2
<1>10. ASSUME NEW k \in Moved, QueueMigration!Map(k)
       PROVE  QueueMigration!SeenFits'
  <2>1. CASE UNCHANGED <<movePending, moveSeen>>
    BY <1>1, <1>10, <2>1 DEF QueueMigration!Map
  <2>2. CASE /\ movePending' = [movePending EXCEPT
                    ![k] = [target |-> "commit",
                        req |-> moveSnap.pending[k].req]]
             /\ moveSeen' = moveSeen \ QueueMigration!Of(k, {"map", "pending"})
    BY <1>9, <1>10, <2>2 DEF QueueMigration!Map, QueueMigration!Of,
                             QueueMigration!TypeOK
  <2> QED
    BY <1>10, <2>1, <2>2 DEF QueueMigration!Map
<1>11. ASSUME NEW k \in Moved, QueueMigration!Drop(k),
              UNCHANGED <<movePending, moveSnap>>
       PROVE  QueueMigration!SeenFits'
  BY <1>9, <1>11 DEF QueueMigration!Drop, QueueMigration!Of,
                     QueueMigration!TypeOK
<1>12. ASSUME NEW k \in Moved, moveActive[k] # None, QueueMigration!Back(k),
              UNCHANGED moveSnap
       PROVE  QueueMigration!SeenFits'
  BY <1>9, <1>12, MoveBack DEF QueueMigration!Back, QueueMigration!Of,
                               QueueMigration!TypeOK
<1>13. ASSUME NEW k \in Moved, QueueMigration!Settle(k)
       PROVE  QueueMigration!SeenFits'
  <2>1. CASE QueueMigration!Fenced(k)
    <3>1. moveActive[k] # None
      BY <1>13, <2>1, MoveFenced DEF QueueMigration!Settle,
                                     QueueMigration!NoneAssumption
    <3> QED
      BY <1>11, <1>12, <1>13, <2>1, <3>1
         DEF QueueMigration!Settle, QueueMigration!Reject, QueueMigration!Retry
  <2>2. CASE ~QueueMigration!Fenced(k)
    BY <1>1, <1>13, <2>2 DEF QueueMigration!Settle
  <2> QED
    BY <2>1, <2>2
<1>14. ASSUME NEW k \in Moved, QueueMigration!HalfRetried(k)
       PROVE  QueueMigration!SeenFits'
  BY <1>2, <1>14 DEF QueueMigration!HalfRetried
<1>15. ASSUME NEW k \in Moved, NEW t \in QueueMigration!Targets,
              QueueMigration!Enqueue(k, t)
       PROVE  QueueMigration!SeenFits'
  BY <1>9, <1>15 DEF QueueMigration!Enqueue, QueueMigration!Of,
                     QueueMigration!TypeOK
<1>16. ASSUME NEW k \in Moved, QueueMigration!Expire(k)
       PROVE  QueueMigration!SeenFits'
  <2> SUFFICES ASSUME NEW l \in Moved, <<l, "active">> \in moveSeen
               PROVE  QueueMigration!Aged(moveActive'[l], moveSnap.active[l])
    BY <1>16 DEF QueueMigration!Expire, QueueMigration!SeenFits,
                 QueueMigration!Aged
  <2>1. CASE l = k
    <3>1. QueueMigration!Aged(moveActive[k], moveSnap.active[k])
          /\ moveActive[k] \in QueueMigration!Claims
      BY <1>16, <2>1 DEF QueueMigration!Expire, QueueMigration!SeenFits,
                         QueueMigration!TypeOK
    <3>2. moveActive'[k] = [moveActive[k] EXCEPT !.lease = "expired"]
      BY <1>16 DEF QueueMigration!Expire, QueueMigration!TypeOK
    <3>3. moveActive'[k] = [moveSnap.active[k] EXCEPT !.lease = "expired"]
          /\ moveSnap.active[k] # None
      BY <3>1, <3>2 DEF QueueMigration!Aged, QueueMigration!Claims,
                        QueueMigration!TypeOK, QueueMigration!NoneAssumption
    <3> QED
      BY <2>1, <3>3 DEF QueueMigration!Aged
  <2>2. CASE l # k
    BY <1>16, <2>2 DEF QueueMigration!Expire, QueueMigration!SeenFits,
                       QueueMigration!TypeOK
  <2> QED
    BY <2>1, <2>2
<1>17. ASSUME NEW k \in Moved, QueueMigration!StrangerClaims(k)
              \/ QueueMigration!WorkerClaims(k)
       PROVE  QueueMigration!SeenFits'
  <2>1. PICK who \in {"none", "other", "mine"} : QueueMigration!Claim(k, who)
    BY <1>17 DEF QueueMigration!StrangerClaims, QueueMigration!WorkerClaims,
                 QueueMigration!IInv, QueueMigration!WorkerFits,
                 QueueMigration!TypeOK
  <2>2. UNCHANGED moveSnap
        /\ moveSeen'
           = moveSeen \ QueueMigration!Of(k, {"map", "pending", "active"})
    BY <2>1 DEF QueueMigration!Claim
  <2> QED
    BY <1>9, <2>1, <2>2, MoveClaim DEF QueueMigration!Of
<1>18. ASSUME NEW k \in Moved, QueueMigration!StrangerRenews(k)
       PROVE  QueueMigration!SeenFits'
  BY <1>9, <1>18 DEF QueueMigration!StrangerRenews, QueueMigration!Of,
                     QueueMigration!TypeOK
<1>19. ASSUME NEW k \in Moved, QueueMigration!StrangerEnds(k)
              \/ QueueMigration!WorkerEnds(k)
       PROVE  QueueMigration!SeenFits'
  BY <1>11, <1>19 DEF QueueMigration!StrangerEnds, QueueMigration!WorkerEnds
<1>20. ASSUME NEW k \in Moved, QueueMigration!Recover(k)
       PROVE  QueueMigration!SeenFits'
  BY <1>12, <1>20 DEF QueueMigration!Recover
<1> QED
  BY <1>4, <1>5, <1>6, <1>7, <1>8, <1>10, <1>13, <1>14, <1>15, <1>16, <1>17,
     <1>18, <1>19, <1>20
     DEF QueueMigration!Next, QueueMigration!Command, QueueMigration!Others,
         QueueMigration!Snapshots

\* The command works off what it has read.
LEMMA MoveTodoNext ==
  ASSUME QueueMigration!MigrationAssumption, QueueMigration!NoneAssumption,
         QueueMigration!IInv, [QueueMigration!Next]_(QueueMigration!vars)
  PROVE  QueueMigration!TodoFits'
<1> USE DEF QueueMigration!queue, QueueMigration!admin, QueueMigration!bounds
<1> QueueMigration!TypeOK /\ QueueMigration!TodoFits
  BY DEF QueueMigration!IInv
<1>1. ASSUME UNCHANGED <<movePc, moveSnap>>, moveTodo' \subseteq moveTodo
      PROVE  QueueMigration!TodoFits'
  BY <1>1 DEF QueueMigration!TodoFits
<1>2. ASSUME movePc' \notin {"map", "settle"}
      PROVE  QueueMigration!TodoFits'
  BY <1>2 DEF QueueMigration!TodoFits
<1>3. ASSUME QueueMigration!Leave
      PROVE  QueueMigration!TodoFits'
  BY <1>2, <1>3 DEF QueueMigration!Leave
<1>4. ASSUME QueueMigration!Snapshots
      PROVE  QueueMigration!TodoFits'
  BY <1>2, <1>4 DEF QueueMigration!Snapshots, QueueMigration!ReadPending,
                    QueueMigration!ReadActive
<1>5. ASSUME QueueMigration!Create \/ QueueMigration!Report
             \/ QueueMigration!Die \/ QueueMigration!Mapped
                \/ QueueMigration!Settled
      PROVE  QueueMigration!TodoFits'
  BY <1>2, <1>3, <1>5 DEF QueueMigration!Create, QueueMigration!Report,
                          QueueMigration!Die, QueueMigration!Mapped,
                          QueueMigration!Settled
<1>6. ASSUME QueueMigration!Decide
      PROVE  QueueMigration!TodoFits'
  <2>1. CASE QueueMigration!Planned
    BY <1>6, <2>1 DEF QueueMigration!Decide, QueueMigration!Planned,
                      QueueMigration!LegacyPending, QueueMigration!TodoFits
  <2>2. CASE ~QueueMigration!Planned
    BY <1>3, <1>6, <2>2 DEF QueueMigration!Decide
  <2> QED
    BY <2>1, <2>2
<1>7. ASSUME QueueMigration!Choose
      PROVE  QueueMigration!TodoFits'
  <2>1. CASE moveFailed \/ QueueMigration!LegacyPending(moveSnap.pending) # {}
    BY <1>3, <1>7, <2>1 DEF QueueMigration!Choose
  <2>2. CASE ~(moveFailed
               \/ QueueMigration!LegacyPending(moveSnap.pending) # {})
    BY <1>7, <2>2 DEF QueueMigration!Choose, QueueMigration!LegacyActive,
                      QueueMigration!TodoFits
  <2> QED
    BY <2>1, <2>2
<1>8. ASSUME NEW k \in Moved, QueueMigration!Map(k) \/ QueueMigration!Settle(k)
             \/ QueueMigration!HalfRetried(k)
      PROVE  QueueMigration!TodoFits'
  BY <1>1, <1>3, <1>8 DEF QueueMigration!Map, QueueMigration!Settle,
                          QueueMigration!HalfRetried
<1>9. ASSUME QueueMigration!Others \/ QueueMigration!DryRun
             \/ UNCHANGED QueueMigration!vars
      PROVE  QueueMigration!TodoFits'
  <2>1. UNCHANGED <<movePc, moveSnap, moveTodo>>
    BY <1>9 DEF QueueMigration!Others, QueueMigration!DryRun,
                QueueMigration!vars, QueueMigration!Enqueue,
                QueueMigration!Expire, QueueMigration!StrangerClaims,
                QueueMigration!StrangerRenews, QueueMigration!StrangerEnds,
                QueueMigration!Recover, QueueMigration!WorkerClaims,
                QueueMigration!WorkerEnds, QueueMigration!StartWorker,
                QueueMigration!Audit, QueueMigration!WorkerStops,
                QueueMigration!Claim
  <2> QED
    BY <1>1, <2>1
<1>10. ASSUME QueueMigration!Enter("init") \/ QueueMigration!Enter("migrate")
       PROVE  QueueMigration!TodoFits'
  BY <1>2, <1>10 DEF QueueMigration!Enter
<1> QED
  BY <1>4, <1>5, <1>6, <1>7, <1>8, <1>9, <1>10
     DEF QueueMigration!Next, QueueMigration!Command

\* The steps of a command, where the worker is off.
LEMMA MoveCommand ==
  ASSUME QueueMigration!IInv, QueueMigration!Command
  PROVE  movePc \in QueueMigration!Places \ {"idle"} /\ moveWorker = "off"
         /\ moveWorker' = moveWorker
<1>1. movePc # "idle"
  BY DEF QueueMigration!Command, QueueMigration!Snapshots,
         QueueMigration!ReadPending, QueueMigration!ReadActive,
         QueueMigration!Create, QueueMigration!Decide, QueueMigration!Mapped,
         QueueMigration!Choose, QueueMigration!Settled, QueueMigration!Report,
         QueueMigration!Die, QueueMigration!Map, QueueMigration!Settle,
         QueueMigration!HalfRetried
<1>2. moveWorker' = moveWorker
  BY DEF QueueMigration!Command, QueueMigration!Snapshots,
         QueueMigration!ReadPending, QueueMigration!ReadActive,
         QueueMigration!Create, QueueMigration!Decide, QueueMigration!Mapped,
         QueueMigration!Choose, QueueMigration!Settled, QueueMigration!Report,
         QueueMigration!Die, QueueMigration!Map, QueueMigration!Settle,
         QueueMigration!HalfRetried, QueueMigration!Leave, QueueMigration!Kept
<1> QED
  BY <1>1, <1>2 DEF QueueMigration!IInv, QueueMigration!WorkerFits,
                    QueueMigration!TypeOK

\* The worker runs for an owner, and no command beside it.
LEMMA MoveWorkerNext ==
  ASSUME QueueMigration!MigrationAssumption, QueueMigration!NoneAssumption,
         QueueMigration!IInv, [QueueMigration!Next]_(QueueMigration!vars)
  PROVE  QueueMigration!WorkerFits'
<1> USE DEF QueueMigration!queue, QueueMigration!admin, QueueMigration!bounds
<1> QueueMigration!TypeOK /\ QueueMigration!WorkerFits
  BY DEF QueueMigration!IInv
<1>1. ASSUME QueueMigration!Command
      PROVE  QueueMigration!WorkerFits'
  BY <1>1, MoveCommand DEF QueueMigration!WorkerFits
<1>2. ASSUME QueueMigration!Enter("init") \/ QueueMigration!Enter("migrate")
      PROVE  QueueMigration!WorkerFits'
  BY <1>2 DEF QueueMigration!Enter, QueueMigration!WorkerFits
<1>3. ASSUME QueueMigration!DryRun \/ QueueMigration!Others
             \/ UNCHANGED QueueMigration!vars
      PROVE  QueueMigration!WorkerFits'
  <2>1. UNCHANGED <<movePc, moveOwner>>
    BY <1>3 DEF QueueMigration!Others, QueueMigration!DryRun,
                QueueMigration!vars, QueueMigration!Enqueue,
                QueueMigration!Expire, QueueMigration!StrangerClaims,
                QueueMigration!StrangerRenews, QueueMigration!StrangerEnds,
                QueueMigration!Recover, QueueMigration!WorkerClaims,
                QueueMigration!WorkerEnds, QueueMigration!StartWorker,
                QueueMigration!Audit, QueueMigration!WorkerStops,
                QueueMigration!Claim
  <2>2. moveWorker # "off" \/ moveWorker' = "off" \/ QueueMigration!StartWorker
    BY <1>3 DEF QueueMigration!Others, QueueMigration!DryRun,
                QueueMigration!vars, QueueMigration!Enqueue,
                QueueMigration!Expire, QueueMigration!StrangerClaims,
                QueueMigration!StrangerRenews, QueueMigration!StrangerEnds,
                QueueMigration!Recover, QueueMigration!WorkerClaims,
                QueueMigration!WorkerEnds, QueueMigration!Audit,
                QueueMigration!WorkerStops
  <2> QED
    BY <2>1, <2>2 DEF QueueMigration!WorkerFits, QueueMigration!StartWorker
<1> QED
  BY <1>1, <1>2, <1>3 DEF QueueMigration!Next

\* Without old workers, no claim but the worker's own is beside it.
LEMMA MoveAloneNext ==
  ASSUME QueueMigration!MigrationAssumption, QueueMigration!NoneAssumption,
         QueueMigration!IInv, [QueueMigration!Next]_(QueueMigration!vars)
  PROVE  QueueMigration!WorkerAlone'
<1> USE DEF QueueMigration!queue, QueueMigration!admin, QueueMigration!bounds
<1> QueueMigration!TypeOK /\ QueueMigration!WorkerAlone
  /\ QueueMigration!WorkerFits
  BY DEF QueueMigration!IInv
<1>1. ASSUME QueueMigration!Command \/ QueueMigration!Enter("init")
             \/ QueueMigration!Enter("migrate")
      PROVE  QueueMigration!WorkerAlone'
  BY <1>1, MoveCommand DEF QueueMigration!Enter, QueueMigration!WorkerAlone
<1>2. ASSUME QueueMigration!StartWorker
      PROVE  QueueMigration!WorkerAlone'
  <2>1. \A k \in Moved : moveActive[k] # None
        => moveActive[k].owner = moveOwner
    <3> SUFFICES ASSUME NEW k \in Moved, moveActive[k] # None
                 PROVE  moveActive[k].owner = moveOwner
      OBVIOUS
    <3>1. moveActive[k].owner \in {None, moveOwner}
          /\ moveActive[k] \in QueueMigration!Claims
      BY <1>2 DEF QueueMigration!StartWorker, QueueMigration!OwnerOf,
                  QueueMigration!TypeOK
    <3> QED
      BY <3>1 DEF QueueMigration!Claims, QueueMigration!NoneAssumption
  <2> QED
    BY <1>2, <2>1 DEF QueueMigration!StartWorker, QueueMigration!WorkerAlone
<1>3. ASSUME moveWorker' = "off" \/ moveWorker # "off", moveOwner' = moveOwner,
             ~Strangers => \A k \in Moved :
                 \/ moveActive'[k] \in {None, moveActive[k]}
                 \/ moveActive[k] # None
                    /\ moveActive'[k].owner = moveActive[k].owner
                 \/ moveActive'[k].owner = moveOwner
      PROVE  QueueMigration!WorkerAlone'
  BY <1>3 DEF QueueMigration!WorkerAlone
<1>4. ASSUME QueueMigration!Audit \/ QueueMigration!WorkerStops
             \/ QueueMigration!DryRun \/ UNCHANGED QueueMigration!vars
      PROVE  QueueMigration!WorkerAlone'
  BY <1>4 DEF QueueMigration!Audit, QueueMigration!WorkerStops,
              QueueMigration!DryRun, QueueMigration!vars,
              QueueMigration!WorkerAlone
<1>5. ASSUME NEW k \in Moved, NEW t \in QueueMigration!Targets,
             QueueMigration!Enqueue(k, t)
      PROVE  QueueMigration!WorkerAlone'
  BY <1>5 DEF QueueMigration!Enqueue, QueueMigration!WorkerAlone
<1>6. ASSUME NEW k \in Moved, QueueMigration!Expire(k)
      PROVE  QueueMigration!WorkerAlone'
  <2>1. moveActive[k] \in QueueMigration!Claims /\ moveActive[k] # None
    BY <1>6 DEF QueueMigration!Expire, QueueMigration!TypeOK
  <2>2. moveActive'[k].owner = moveActive[k].owner
        /\ \A l \in Moved \ {k} : moveActive'[l] = moveActive[l]
    BY <1>6, <2>1 DEF QueueMigration!Expire, QueueMigration!Claims,
                      QueueMigration!TypeOK
  <2> QED
    BY <1>6, <2>1, <2>2 DEF QueueMigration!Expire, QueueMigration!WorkerAlone
<1>7. ASSUME NEW k \in Moved, QueueMigration!StrangerClaims(k)
             \/ QueueMigration!StrangerRenews(k)
                \/ QueueMigration!StrangerEnds(k)
      PROVE  QueueMigration!WorkerAlone'
  BY <1>7 DEF QueueMigration!StrangerClaims, QueueMigration!StrangerRenews,
              QueueMigration!StrangerEnds, QueueMigration!Old,
              QueueMigration!WorkerAlone
<1>8. ASSUME NEW k \in Moved, QueueMigration!WorkerClaims(k)
      PROVE  QueueMigration!WorkerAlone'
  <2>1. moveOwner = "mine" /\ moveOwner' = moveOwner /\ moveWorker # "off"
    BY <1>8 DEF QueueMigration!WorkerClaims, QueueMigration!Claim,
                QueueMigration!WorkerFits, QueueMigration!TypeOK
  <2> QED
    BY <1>8, <2>1, MoveClaim
       DEF QueueMigration!WorkerClaims, QueueMigration!WorkerAlone
<1>9. ASSUME NEW k \in Moved, QueueMigration!WorkerEnds(k)
             \/ QueueMigration!Recover(k)
      PROVE  QueueMigration!WorkerAlone'
  BY <1>9 DEF QueueMigration!WorkerEnds, QueueMigration!Recover,
              QueueMigration!Drop, QueueMigration!Back,
              QueueMigration!WorkerAlone, QueueMigration!TypeOK
<1> QED
  BY <1>1, <1>2, <1>4, <1>5, <1>6, <1>7, <1>8, <1>9
     DEF QueueMigration!Next, QueueMigration!Others

\* What a claim that ran out is judged by is what it was judged by before.
LEMMA MoveLegacy ==
  ASSUME QueueMigration!MigrationAssumption, QueueMigration!NoneAssumption,
         NEW a \in [Moved -> QueueMigration!Claims \cup {None}],
             NEW r \in [Moved -> QueueMigration!Claims \cup {None}],
         \A k \in Moved : QueueMigration!Aged(a[k], r[k])
  PROVE  QueueMigration!LegacyActive(a) = QueueMigration!LegacyActive(r)
<1> SUFFICES ASSUME NEW k \in Moved
             PROVE  /\ a[k] # None <=> r[k] # None
                    /\ a[k] # None
                       => a[k].target = r[k].target /\ a[k].owner = r[k].owner
  BY DEF QueueMigration!LegacyActive, QueueMigration!BadTarget,
         QueueMigration!BadOwner
<1>1. r[k] # None
      => r[k] \in QueueMigration!Claims /\ None \notin QueueMigration!Claims
  BY DEF QueueMigration!NoneAssumption
<1> QED
  BY <1>1, MoveAged DEF QueueMigration!Aged, QueueMigration!Claims

\* Who runs out is aged.
LEMMA MoveExpired ==
  ASSUME QueueMigration!MigrationAssumption, QueueMigration!NoneAssumption,
         QueueMigration!TypeOK, NEW k \in Moved, QueueMigration!Expire(k)
  PROVE  \A l \in Moved : QueueMigration!Aged(moveActive'[l], moveActive[l])
BY DEF QueueMigration!Expire, QueueMigration!Aged, QueueMigration!TypeOK,
       QueueMigration!Claims, QueueMigration!NoneAssumption

\* While only the command wrote, its last snapshot is the queue.
LEMMA MoveReportNext ==
  ASSUME QueueMigration!MigrationAssumption, QueueMigration!NoneAssumption,
         QueueMigration!IInv, [QueueMigration!Next]_(QueueMigration!vars)
  PROVE  QueueMigration!ReportFits'
<1> USE DEF QueueMigration!queue, QueueMigration!admin, QueueMigration!bounds
<1> QueueMigration!TypeOK /\ QueueMigration!ReportFits
  /\ QueueMigration!WorkerFits
  BY DEF QueueMigration!IInv
<1>1. ASSUME moveReport' = "none"
      PROVE  QueueMigration!ReportFits'
  BY <1>1 DEF QueueMigration!ReportFits
<1>2. ASSUME movePc' \notin {"last2", "report"}, movePc' = "idle"
             \/ moveReport' # "complete"
      PROVE  QueueMigration!ReportFits'
  BY <1>2 DEF QueueMigration!ReportFits
<1>3. ASSUME QueueMigration!Command
      PROVE  movePc # "idle" /\ moveReport # "complete"
  BY <1>3, MoveCommand DEF QueueMigration!ReportFits
<1>4. ASSUME NEW of \in {<<"init", "init2", "create">>,
                         <<"migrate", "migrate2", "plan">>,
                         <<"again", "again2", "choose">>,
                         <<"last", "last2", "report">>},
             QueueMigration!ReadPending(of[1], of[2])
               \/ QueueMigration!ReadActive(of[2], of[3])
      PROVE  QueueMigration!ReportFits'
  <2>1. moveReport # "complete"
    BY <1>3, <1>4 DEF QueueMigration!Command, QueueMigration!Snapshots
  <2>2. CASE QueueMigration!ReadPending(of[1], of[2])
    BY <2>1, <2>2 DEF QueueMigration!ReadPending, QueueMigration!ReportFits,
                      QueueMigration!TypeOK
  <2>3. CASE QueueMigration!ReadActive(of[2], of[3])
    BY <2>1, <2>3 DEF QueueMigration!ReadActive, QueueMigration!Kept,
                      QueueMigration!ReportFits, QueueMigration!Aged,
                      QueueMigration!TypeOK
  <2> QED
    BY <1>4, <2>2, <2>3
<1>5. ASSUME QueueMigration!Create \/ QueueMigration!Report
             \/ QueueMigration!Die
      PROVE  QueueMigration!ReportFits'
  BY <1>2, <1>5 DEF QueueMigration!Create, QueueMigration!Report,
                    QueueMigration!Die, QueueMigration!Leave
<1>6. ASSUME QueueMigration!Decide \/ QueueMigration!Mapped
             \/ QueueMigration!Choose \/ QueueMigration!Settled
      PROVE  QueueMigration!ReportFits'
  <2>1. moveReport' # "complete"
    BY <1>3, <1>6 DEF QueueMigration!Command, QueueMigration!Decide,
                      QueueMigration!Mapped, QueueMigration!Choose,
                      QueueMigration!Settled, QueueMigration!Kept
  <2>2. movePc' \in {"idle", "map", "again", "choose", "settle", "last"}
    BY <1>6 DEF QueueMigration!Decide, QueueMigration!Mapped,
                QueueMigration!Choose, QueueMigration!Settled,
                QueueMigration!Leave
  <2> QED
    BY <1>2, <2>1, <2>2
<1>7. ASSUME NEW k \in Moved, QueueMigration!Map(k) \/ QueueMigration!Settle(k)
             \/ QueueMigration!HalfRetried(k)
      PROVE  QueueMigration!ReportFits'
  <2>1. moveReport' # "complete"
    BY <1>3, <1>7 DEF QueueMigration!Command, QueueMigration!Map,
                      QueueMigration!Settle, QueueMigration!HalfRetried
  <2>2. movePc' \in {"idle", "map", "settle"}
    BY <1>7 DEF QueueMigration!Map, QueueMigration!Settle,
                QueueMigration!HalfRetried, QueueMigration!Leave
  <2> QED
    BY <1>2, <2>1, <2>2
<1>8. ASSUME \/ UNCHANGED QueueMigration!vars \/ QueueMigration!StartWorker
                \/ QueueMigration!Audit \/ QueueMigration!WorkerStops
                   \/ QueueMigration!DryRun
      PROVE  QueueMigration!ReportFits'
  BY <1>8 DEF QueueMigration!vars, QueueMigration!StartWorker,
              QueueMigration!Audit, QueueMigration!WorkerStops,
              QueueMigration!DryRun, QueueMigration!ReportFits
<1>9. ASSUME QueueMigration!Enter("init") \/ QueueMigration!Enter("migrate")
      PROVE  QueueMigration!ReportFits'
  BY <1>1, <1>9 DEF QueueMigration!Enter
<1>10. ASSUME NEW k \in Moved, QueueMigration!Expire(k)
       PROVE  QueueMigration!ReportFits'
  <2>1. UNCHANGED <<movePending, moveSnap, movePc, moveReport>>
    BY <1>10 DEF QueueMigration!Expire
  <2>2. ASSUME moveReport = "due", movePc = "report", NEW l \in Moved
        PROVE  QueueMigration!Aged(moveActive'[l], moveSnap.active[l])
    <3>1. QueueMigration!Aged(moveActive'[l], moveActive[l])
          /\ QueueMigration!Aged(moveActive[l], moveSnap.active[l])
      BY <1>10, <2>2, MoveExpired DEF QueueMigration!ReportFits
    <3> QED
      BY <3>1 DEF QueueMigration!Aged, QueueMigration!Claims,
                  QueueMigration!TypeOK, QueueMigration!NoneAssumption
  <2> QED
    BY <2>1, <2>2 DEF QueueMigration!ReportFits
<1>11. ASSUME NEW k \in Moved,
              \/ \E t \in QueueMigration!Targets : QueueMigration!Enqueue(k, t)
              \/ QueueMigration!StrangerClaims(k)
                 \/ QueueMigration!StrangerRenews(k)
                    \/ QueueMigration!StrangerEnds(k)
              \/ QueueMigration!Recover(k) \/ QueueMigration!WorkerClaims(k)
                 \/ QueueMigration!WorkerEnds(k)
       PROVE  QueueMigration!ReportFits'
  BY <1>1, <1>11 DEF QueueMigration!Enqueue, QueueMigration!StrangerClaims,
                     QueueMigration!StrangerRenews,
                     QueueMigration!StrangerEnds, QueueMigration!Recover,
                     QueueMigration!WorkerClaims, QueueMigration!WorkerEnds,
                     QueueMigration!Claim
<1> QED
  BY <1>4, <1>5, <1>6, <1>7, <1>8, <1>9, <1>10, <1>11
     DEF QueueMigration!Next, QueueMigration!Command, QueueMigration!Others,
         QueueMigration!Snapshots

\* What is reported complete is clean, and stays so until another writes.
LEMMA MoveCompleteNext ==
  ASSUME QueueMigration!MigrationAssumption, QueueMigration!NoneAssumption,
         QueueMigration!IInv, [QueueMigration!Next]_(QueueMigration!vars)
  PROVE  QueueMigration!CompleteIsClean'
<1> USE DEF QueueMigration!queue, QueueMigration!admin, QueueMigration!bounds
<1> QueueMigration!TypeOK /\ QueueMigration!ReportFits
  /\ QueueMigration!CompleteIsClean
  BY DEF QueueMigration!IInv
<1>1. ASSUME moveReport' # "complete"
      PROVE  QueueMigration!CompleteIsClean'
  BY <1>1 DEF QueueMigration!CompleteIsClean
<1>2. ASSUME QueueMigration!Command, ~QueueMigration!Report
      PROVE  QueueMigration!CompleteIsClean'
  <2>1. moveReport # "complete"
    BY <1>2, MoveCommand DEF QueueMigration!ReportFits
  <2>2. moveReport' \in {moveReport, "due"}
    BY <1>2 DEF QueueMigration!Command, QueueMigration!Snapshots,
                QueueMigration!ReadPending, QueueMigration!ReadActive,
                QueueMigration!Create, QueueMigration!Decide,
                QueueMigration!Mapped, QueueMigration!Choose,
                QueueMigration!Settled, QueueMigration!Die, QueueMigration!Map,
                QueueMigration!Settle, QueueMigration!HalfRetried,
                QueueMigration!Kept
  <2> QED
    BY <1>1, <2>1, <2>2
<1>3. ASSUME QueueMigration!Report, moveReport' = "complete"
      PROVE  QueueMigration!CompleteIsClean'
  <2>1. /\ moveReport = "due" /\ movePc = "report"
        /\ UNCHANGED <<movePending, moveActive, moveOwner>>
        /\ QueueMigration!LegacyPending(moveSnap.pending) = {}
        /\ QueueMigration!LegacyActive(moveSnap.active) = {}
    BY <1>3 DEF QueueMigration!Report
  <2>2. movePending = moveSnap.pending
        /\ \A k \in Moved :
             QueueMigration!Aged(moveActive[k], moveSnap.active[k])
    BY <2>1 DEF QueueMigration!ReportFits
  <2>3. QueueMigration!LegacyActive(moveActive)
        = QueueMigration!LegacyActive(moveSnap.active)
    BY <2>2, MoveLegacy DEF QueueMigration!TypeOK
  <2> QED
    BY <2>1, <2>2, <2>3 DEF QueueMigration!CompleteIsClean,
                            QueueMigration!LegacyPending,
                            QueueMigration!LegacyActive,
                            QueueMigration!BadTarget, QueueMigration!BadOwner
<1>4. ASSUME UNCHANGED <<movePending, moveActive, moveOwner, moveReport>>
      PROVE  QueueMigration!CompleteIsClean'
  BY <1>4 DEF QueueMigration!CompleteIsClean, QueueMigration!LegacyPending,
              QueueMigration!LegacyActive, QueueMigration!BadTarget,
              QueueMigration!BadOwner
<1>5. ASSUME UNCHANGED QueueMigration!vars \/ QueueMigration!StartWorker
             \/ QueueMigration!Audit \/ QueueMigration!WorkerStops
                \/ QueueMigration!DryRun
      PROVE  QueueMigration!CompleteIsClean'
  BY <1>4, <1>5 DEF QueueMigration!vars, QueueMigration!StartWorker,
                    QueueMigration!Audit, QueueMigration!WorkerStops,
                    QueueMigration!DryRun
<1>6. ASSUME NEW k \in Moved, QueueMigration!Expire(k)
      PROVE  QueueMigration!CompleteIsClean'
  <2>1. moveActive' \in [Moved -> QueueMigration!Claims \cup {None}]
    BY <1>6, MoveTypeNext DEF QueueMigration!Next, QueueMigration!Others,
                              QueueMigration!TypeOK
  <2>2. QueueMigration!LegacyActive(moveActive')
        = QueueMigration!LegacyActive(moveActive)
    BY <1>6, <2>1, MoveLegacy, MoveExpired DEF QueueMigration!TypeOK
  <2>3. UNCHANGED <<movePending, moveOwner, moveReport>>
    BY <1>6 DEF QueueMigration!Expire
  <2> QED
    BY <2>2, <2>3 DEF QueueMigration!CompleteIsClean,
                      QueueMigration!LegacyPending,
                      QueueMigration!LegacyActive, QueueMigration!BadTarget,
                      QueueMigration!BadOwner
<1>7. ASSUME NEW k \in Moved,
             \/ \E t \in QueueMigration!Targets : QueueMigration!Enqueue(k, t)
             \/ QueueMigration!StrangerClaims(k)
                \/ QueueMigration!StrangerRenews(k)
                   \/ QueueMigration!StrangerEnds(k)
             \/ QueueMigration!Recover(k) \/ QueueMigration!WorkerClaims(k)
                \/ QueueMigration!WorkerEnds(k)
      PROVE  QueueMigration!CompleteIsClean'
  BY <1>1, <1>7 DEF QueueMigration!Enqueue, QueueMigration!StrangerClaims,
                    QueueMigration!StrangerRenews, QueueMigration!StrangerEnds,
                    QueueMigration!Recover, QueueMigration!WorkerClaims,
                    QueueMigration!WorkerEnds, QueueMigration!Claim
<1>8. ASSUME QueueMigration!Enter("init") \/ QueueMigration!Enter("migrate")
      PROVE  QueueMigration!CompleteIsClean'
  BY <1>1, <1>8 DEF QueueMigration!Enter
<1> QED
  BY <1>1, <1>2, <1>3, <1>5, <1>6, <1>7, <1>8
     DEF QueueMigration!Next, QueueMigration!Others

\* Nothing is lost: what waits is the newest request, and the newest waits, is
\* claimed or has ended.
LEMMA MoveNewest ==
  ASSUME QueueMigration!ReqFits
  PROVE  QueueMigration!NewestKept
BY DEF QueueMigration!ReqFits, QueueMigration!NewestKept, QueueMigration!ReqOf

\* Together every step keeps them all.
LEMMA MoveNext ==
  ASSUME QueueMigration!MigrationAssumption, QueueMigration!NoneAssumption,
         QueueMigration!IInv, [QueueMigration!Next]_(QueueMigration!vars)
  PROVE  QueueMigration!IInv'
<1>1. QueueMigration!ReqFits'
  BY MoveReqNext
<1>2. QueueMigration!NewestKept'
  BY <1>1 DEF QueueMigration!ReqFits, QueueMigration!NewestKept,
              QueueMigration!ReqOf
<1> QED
  BY <1>1, <1>2, MoveTypeNext, MoveSeenNext, MoveTodoNext, MoveReportNext,
     MoveWorkerNext, MoveCompleteNext, MoveAloneNext
     DEF QueueMigration!IInv

\* A command ends no claim but one that ran out and can be told from any other.
LEMMA MoveForeign ==
  ASSUME QueueMigration!MigrationAssumption, QueueMigration!NoneAssumption,
         QueueMigration!IInv, QueueMigration!Command, NEW k \in Moved,
         moveActive[k] # None, moveActive'[k] # moveActive[k]
  PROVE  /\ moveActive[k].lease = "expired"
         /\ moveActive[k].owner = "none"
            => moveActive[k].token /\ QueueMigration!BadTarget(moveActive[k])
<1> USE DEF QueueMigration!queue
<1>1. moveActive' # moveActive
  OBVIOUS
<1>2. PICK l \in Moved : QueueMigration!Settle(l)
  BY <1>1 DEF QueueMigration!Command, QueueMigration!Snapshots,
              QueueMigration!ReadPending, QueueMigration!ReadActive,
              QueueMigration!Create, QueueMigration!Decide,
              QueueMigration!Mapped, QueueMigration!Choose,
              QueueMigration!Settled, QueueMigration!Report,
              QueueMigration!Die, QueueMigration!Map,
              QueueMigration!HalfRetried, QueueMigration!Kept
<1>3. QueueMigration!Fenced(l)
      /\ (QueueMigration!Reject(l) \/ QueueMigration!Retry(l))
  BY <1>1, <1>2 DEF QueueMigration!Settle
<1>4. l = k
  BY <1>3 DEF QueueMigration!Reject, QueueMigration!Retry, QueueMigration!Drop,
              QueueMigration!Back, QueueMigration!IInv, QueueMigration!TypeOK
<1>5. /\ moveActive[k].target = moveSnap.active[k].target
      /\ moveActive[k].owner = moveSnap.active[k].owner
      /\ moveActive[k].token = moveSnap.active[k].token
      /\ moveActive[k].lease = "expired"
  BY <1>2, <1>3, <1>4, MoveFenced DEF QueueMigration!Settle
<1> QED
  BY <1>3, <1>4, <1>5 DEF QueueMigration!Reject, QueueMigration!Retry,
                          QueueMigration!Plan, QueueMigration!BadTarget

\* A command ends no claim but one that ran out and can be told from any other,
\* whatever old workers do between its steps (ForeignClaimsKept).
LEMMA MoveKeepsForeign ==
  QueueMigration!IInv /\ [QueueMigration!Next]_(QueueMigration!vars)
    /\ QueueMigration!MigrationAssumption /\ QueueMigration!NoneAssumption
  => [QueueMigration!Command => \A k \in Moved :
        moveActive[k] # None /\ moveActive'[k] # moveActive[k] =>
          /\ moveActive[k].lease = "expired"
          /\ moveActive[k].owner = "none" =>
               moveActive[k].token /\ QueueMigration!BadTarget(moveActive[k])
     ]_(QueueMigration!vars)
BY MoveForeign

\* For any keys, old workers, requests, claims and faults: the move of a queue
\* keeps the newest request of every key, is complete when it says so, lets no
\* worker run beside a claim of old where no old worker is left, and ends only
\* claims that ran out and can be told from any other.
THEOREM MoveIsSound ==
  ASSUME QueueMigration!MigrationAssumption, QueueMigration!NoneAssumption
  PROVE  QueueMigration!Spec
         => /\ [](/\ QueueMigration!NewestKept
                  /\ QueueMigration!CompleteIsClean
                  /\ QueueMigration!WorkerAlone)
            /\ QueueMigration!ForeignClaimsKept
<1>1. QueueMigration!Init => QueueMigration!IInv
  BY MoveInit
<1>2. QueueMigration!IInv /\ [QueueMigration!Next]_(QueueMigration!vars)
      => QueueMigration!IInv'
  BY MoveNext
<1>3. QueueMigration!IInv
      => /\ QueueMigration!NewestKept /\ QueueMigration!CompleteIsClean
         /\ QueueMigration!WorkerAlone
  BY DEF QueueMigration!IInv
<1> QED
  BY <1>1, <1>2, <1>3, MoveKeepsForeign, PTL
     DEF QueueMigration!Spec, QueueMigration!ForeignClaimsKept
=============================================================================

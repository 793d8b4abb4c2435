------------------------------ MODULE MCQueues ------------------------------
(***************************************************************************)
(* The PostgreSQL queue, the key lock of the file queue and the gate that  *)
(* orders dependent work, side by side: a behaviour moves one of them, the *)
(* others stay in their initial state.                                     *)
(***************************************************************************)
EXTENDS PgQueue, Naturals, Sequences, TLC

CONSTANTS p1, p2, o1, o2, t1, t2, t3, w1, Kinds, Workers, MaxRequests,
    MaxRetries

VARIABLES
    on,  \* the protocol that moves in this behaviour
    killedRow, killedRowlock, killedTail, killedPc, killedView, killedLost,
    killedDead, killedPublished, killedNow,
    lockGate, lockDir, lockInfo, lockAged, lockAlive, lockPc, lockFaults,
    reuseGate, reuseDir, reuseInfo, reuseAged, reuseAlive, reusePc, reuseFaults,
    queue, active, manifest, asking, gatePc, job, seen, requests, retries

pgVars == vars
killedVars == <<killedRow, killedRowlock, killedTail, killedPc, killedView,
    killedLost, killedDead, killedPublished, killedNow>>
lockVars == <<lockGate, lockDir, lockInfo, lockAged, lockAlive, lockPc,
    lockFaults>>
reuseVars == <<reuseGate, reuseDir, reuseInfo, reuseAged, reuseAlive, reusePc,
    reuseFaults>>
gateVars == <<queue, active, manifest, asking, gatePc, job, seen, requests,
    retries>>
queuesVars == <<on, pgVars, killedVars, lockVars, reuseVars, gateVars>>

OwnOwner == p1 :> o1 @@ p2 :> o2

PgKilled == INSTANCE PgQueue WITH
    ServerKills <- TRUE, MaxNow <- 3, row <- killedRow,
    rowlock <- killedRowlock, tail <- killedTail, pc <- killedPc,
    view <- killedView, lost <- killedLost, dead <- killedDead,
    published <- killedPublished, now <- killedNow
KeyLock == INSTANCE KeyLock WITH
    Threads <- {t1, t2, t3}, Pids <- {p1, p2},
    PidOf <- t1 :> p1 @@ t2 :> p1 @@ t3 :> p2, PidReuse <- FALSE,
    ReadsFail <- FALSE, MaxFaults <- 3, gate <- lockGate, dir <- lockDir,
    info <- lockInfo, aged <- lockAged, alive <- lockAlive, pc <- lockPc,
    faults <- lockFaults
KeyLockReuse == INSTANCE KeyLock WITH
    Threads <- {t1, t2, t3}, Pids <- {p1, p2},
    PidOf <- t1 :> p1 @@ t2 :> p1 @@ t3 :> p2, PidReuse <- TRUE,
    ReadsFail <- FALSE, MaxFaults <- 3, gate <- reuseGate, dir <- reuseDir,
    info <- reuseInfo, aged <- reuseAged, alive <- reuseAlive, pc <- reusePc,
    faults <- reuseFaults
DependencyGate == INSTANCE DependencyGate WITH
    pc <- gatePc

ASSUME InstancesAssumption ==
    /\ PgKilled!OwnerAssumption
    /\ PgKilled!BoundAssumption
    /\ PgKilled!NoneAssumption
    /\ PgKilled!NoViewAssumption
    /\ KeyLock!NoneAssumption
    /\ KeyLock!PidAssumption
    /\ KeyLock!SwitchAssumption
    /\ KeyLockReuse!NoneAssumption
    /\ KeyLockReuse!PidAssumption
    /\ KeyLockReuse!SwitchAssumption
    /\ DependencyGate!KindAssumption
    /\ DependencyGate!BoundAssumption
    /\ DependencyGate!NoneAssumption
    /\ DependencyGate!WorkerAssumption

Protocols ==
    {"PgQueue", "PgKilled", "KeyLock", "KeyLockReuse", "DependencyGate"}

QueuesInit ==
    /\ on \in Protocols
    /\ Init
    /\ PgKilled!Init
    /\ KeyLock!Init
    /\ KeyLockReuse!Init
    /\ DependencyGate!Init

QueuesNext ==
    \/ /\ on = "PgQueue" /\ Next
       /\ UNCHANGED <<on, killedVars, lockVars, reuseVars, gateVars>>
    \/ /\ on = "PgKilled" /\ PgKilled!Next
       /\ UNCHANGED <<on, pgVars, lockVars, reuseVars, gateVars>>
    \/ /\ on = "KeyLock" /\ KeyLock!Next
       /\ UNCHANGED <<on, pgVars, killedVars, reuseVars, gateVars>>
    \/ /\ on = "KeyLockReuse" /\ KeyLockReuse!Next
       /\ UNCHANGED <<on, pgVars, killedVars, lockVars, gateVars>>
    \/ /\ on = "DependencyGate" /\ DependencyGate!Next
       /\ UNCHANGED <<on, pgVars, killedVars, lockVars, reuseVars>>

QueuesSpec == QueuesInit /\ [][QueuesNext]_queuesVars

\* The server grants locks first come, first served, so a transaction that can
\* go on time and again does; its waits are bounded by lock_timeout.  Callers
\* of key_lock hold it for a bounded time and poll its gate.  A worker polls,
\* and a producer that has begun a group finishes it.
QueuesFairSpec ==
    /\ QueuesSpec
    /\ \A p \in {p1, p2} :
          /\ SF_pgVars(on = "PgQueue" /\ GoOn(p))
          /\ WF_pgVars(on = "PgQueue" /\ LockTimeout(p))
    /\ \A t \in {t1, t2, t3} :
          /\ WF_lockVars(on = "KeyLock" /\ KeyLock!Step(t))
          /\ SF_lockVars(on = "KeyLock" /\ KeyLock!Enter(t))
    /\ WF_lockVars(on = "KeyLock" /\ KeyLock!Age)
    /\ WF_gateVars(on = "DependencyGate" /\ DependencyGate!Enqueue)
    /\ \A w \in Workers :
          WF_gateVars(on = "DependencyGate" /\ DependencyGate!Work(w))

(***************************************************************************)
(* Properties                                                              *)
(***************************************************************************)
\* The table stays sound when the server may end sessions in the middle, too:
\* locks, views and publications agree with the rows, a quarantined key keeps
\* its claim, and an older target never comes back over a newer one.
TableIsSound ==
    /\ [](IInv /\ PgKilled!IInv)
    /\ PgKilled!ImplementsWorkQueue
    /\ QuarantineHoldsClaim /\ PgKilled!QuarantineHoldsClaim
    /\ NewestRequestWins /\ PgKilled!NewestRequestWins

\* No two callers are inside key_lock for one key, through takeover of dead
\* owners, failing releases and crashes; takeover never breaks the lock of a
\* caller that is still inside.
KeyLockExclusive ==
    /\ [](KeyLock!TypeOK /\ KeyLockReuse!TypeOK)
    /\ [](KeyLock!MutualExclusion /\ KeyLock!IInv)
    /\ [](KeyLockReuse!MutualExclusion /\ KeyLockReuse!IInv)
    /\ KeyLock!LiveLockKept /\ KeyLockReuse!LiveLockKept

\* Whatever producers do between the two reads of the gate, its decision and
\* the publication: what was built names its own target, a block is put down
\* to a codegraph that failed for it, and at rest no index is of an old target.
DependenciesConsistent ==
    /\ [](DependencyGate!IInv /\ DependencyGate!QuiescentConsistent)
    /\ DependencyGate!BlockedByFailure

\* Every transaction ends although publication and retry take row and table
\* in opposite orders; a lock left by the dead is broken; the queue empties.
QueuesEnd ==
    /\ TransactionsEnd
    /\ KeyLock!DeadLockBroken
    /\ on = "DependencyGate" => DependencyGate!QueueEmpties

\* A behaviour in which the server may end any session that is idle inside a
\* transaction, the publisher's included.
KilledSpec == QueuesSpec /\ on = "PgKilled"

\* begin_publish keeps the row locked until the caller has acknowledged, so that
\* what it checked still holds when the manifest is written.
KilledIsFresh == PgKilled!FreshPublication
=============================================================================

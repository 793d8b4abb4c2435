----------------------------- MODULE MCServices -----------------------------
(***************************************************************************)
(* The resident services of the reindex worker: health refresh, the        *)
(* maintenance window over its gate and the command that ends one, the     *)
(* lock under which one worker runs, and the move of the queue to it, side *)
(* by side.  A behaviour moves one of them.                                *)
(***************************************************************************)
EXTENDS RunLock, Naturals, Sequences

CONSTANTS a1, a2, w1, w2, w3, l1, Checked, HealthOps, HealthRequests,
    HealthFaults, Operators, MaxWindowRuns, MaxInvocations, MaxWindowFaults,
    Moved, HeldByOld, Strangers, MoveRequests, MoveClaims, MoveFaults

VARIABLES
    on,  \* the protocol that moves in this behaviour
    healthPc, healthPending, flush, clean, tried, starting, cur, entry,
    healthFailed, proc, verdict, ops, requests, healthFaults,
    windowMarker, windowDropin, windowAt, windowInv, windowMode, windowTodo,
    windowHeld, windowToken, windowSound, windowDrained, windowConfirmed,
    windowRuns, windowFaults,
    twoMarker, twoDropin, twoAt, twoInv, twoMode, twoTodo, twoHeld, twoToken,
    twoSound, twoDrained, twoConfirmed, twoRuns, twoFaults,
    host, resumeMode, resumeTodo, ok, told, unmarked, torn, resumeCounts,
    movePending, moveActive, moveNewest, moveEnded, moveOwner, moveWorker,
    moveMapping, moveSeen, movePc, moveTodo, moveFailed, moveSnap, moveReport,
    moveClaims, moveFaults,
    twoMovesPending, twoMovesActive, twoMovesNewest, twoMovesEnded,
    twoMovesOwner, twoMovesWorker, twoMovesMapping, twoMovesSeen, twoMovesPc,
    twoMovesTodo, twoMovesFailed, twoMovesSnap, twoMovesReport, twoMovesClaims,
    twoMovesFaults

healthVars == <<healthPc, healthPending, flush, clean, tried, starting, cur,
    entry, healthFailed, proc, verdict, ops, requests, healthFaults>>
windowVars == <<windowMarker, windowDropin, windowAt, windowInv, windowMode,
    windowTodo, windowHeld, windowToken, windowSound, windowDrained,
    windowConfirmed, windowRuns, windowFaults>>
twoVars == <<twoMarker, twoDropin, twoAt, twoInv, twoMode, twoTodo, twoHeld,
    twoToken, twoSound, twoDrained, twoConfirmed, twoRuns, twoFaults>>
resumeVars == <<host, resumeMode, resumeTodo, ok, told, unmarked, torn,
    resumeCounts>>
lockVars == vars
moveVars == <<movePending, moveActive, moveNewest, moveEnded, moveOwner,
    moveWorker, moveMapping, moveSeen, movePc, moveTodo, moveFailed, moveSnap,
    moveReport, moveClaims, moveFaults>>
twoMovesVars == <<twoMovesPending, twoMovesActive, twoMovesNewest,
    twoMovesEnded, twoMovesOwner, twoMovesWorker, twoMovesMapping,
    twoMovesSeen, twoMovesPc, twoMovesTodo, twoMovesFailed, twoMovesSnap,
    twoMovesReport, twoMovesClaims, twoMovesFaults>>
servicesVars == <<on, healthVars, windowVars, twoVars, resumeVars, lockVars,
    moveVars, twoMovesVars>>

HealthRefresh == INSTANCE HealthRefresh WITH
    Projects <- Checked, MaxOps <- HealthOps, MaxRequests <- HealthRequests,
    MaxFaults <- HealthFaults, pc <- healthPc, pending <- healthPending,
    failed <- healthFailed, faults <- healthFaults
MaintenanceWindow == INSTANCE MaintenanceWindow WITH
    Admins <- Operators, MaxRuns <- MaxWindowRuns, MaxInv <- MaxInvocations,
    MaxFaults <- MaxWindowFaults, marker <- windowMarker,
    dropin <- windowDropin, at <- windowAt, inv <- windowInv,
    mode <- windowMode, todo <- windowTodo, held <- windowHeld,
    token <- windowToken, sound <- windowSound, drained <- windowDrained,
    confirmed <- windowConfirmed, runs <- windowRuns, faults <- windowFaults
TwoWindows == INSTANCE MaintenanceWindow WITH
    Admins <- {a1, a2}, MaxRuns <- 2, MaxInv <- 3, MaxFaults <- 1,
    marker <- twoMarker, dropin <- twoDropin, at <- twoAt, inv <- twoInv,
    mode <- twoMode, todo <- twoTodo, held <- twoHeld, token <- twoToken,
    sound <- twoSound, drained <- twoDrained, confirmed <- twoConfirmed,
    runs <- twoRuns, faults <- twoFaults
CodegraphResume == INSTANCE CodegraphResume WITH
    MaxFaults <- 2, MaxCrashes <- 2, mode <- resumeMode, todo <- resumeTodo,
    counts <- resumeCounts
QueueMigration == INSTANCE QueueMigration WITH
    Keys <- Moved, Held <- HeldByOld, MaxReq <- MoveRequests,
    MaxClaims <- MoveClaims, MaxFaults <- MoveFaults, pending <- movePending,
    active <- moveActive, newest <- moveNewest, ended <- moveEnded,
    owner <- moveOwner, worker <- moveWorker, mapping <- moveMapping,
    seen <- moveSeen, pc <- movePc, todo <- moveTodo, failed <- moveFailed,
    snap <- moveSnap, report <- moveReport, claims <- moveClaims,
    faults <- moveFaults
TwoMoves == INSTANCE QueueMigration WITH
    Keys <- 1 .. 2, Held <- 1 .. 1, Strangers <- FALSE, MaxReq <- 2,
    MaxClaims <- 1, MaxFaults <- 1, pending <- twoMovesPending,
    active <- twoMovesActive, newest <- twoMovesNewest, ended <- twoMovesEnded,
    owner <- twoMovesOwner, worker <- twoMovesWorker,
    mapping <- twoMovesMapping, seen <- twoMovesSeen, pc <- twoMovesPc,
    todo <- twoMovesTodo, failed <- twoMovesFailed, snap <- twoMovesSnap,
    report <- twoMovesReport, claims <- twoMovesClaims,
    faults <- twoMovesFaults

ASSUME InstancesAssumption ==
    /\ HealthRefresh!BoundAssumption
    /\ MaintenanceWindow!BoundAssumption
    /\ MaintenanceWindow!NoneAssumption
    /\ TwoWindows!BoundAssumption
    /\ CodegraphResume!ResumeAssumption
    /\ QueueMigration!MigrationAssumption
    /\ QueueMigration!NoneAssumption
    /\ TwoMoves!MigrationAssumption
    /\ TwoMoves!NoneAssumption

Protocols ==
    {"HealthRefresh", "MaintenanceWindow", "TwoWindows", "CodegraphResume",
     "RunLock", "QueueMigration", "TwoMoves"}

ServicesInit ==
    /\ on \in Protocols
    /\ HealthRefresh!Init
    /\ MaintenanceWindow!Init
    /\ TwoWindows!Init
    /\ CodegraphResume!Init
    /\ Init
    /\ QueueMigration!Init
    /\ TwoMoves!Init
    /\ on # "QueueMigration" => moveActive = [k \in Moved |-> None] /\ moveOwner = None
          /\ \A k \in Moved : movePending[k].target = "HEAD"
    /\ on # "TwoMoves" => twoMovesActive = [k \in 1 .. 2 |-> None] /\ twoMovesOwner = None
          /\ \A k \in 1 .. 2 : twoMovesPending[k].target = "HEAD"

ServicesNext ==
    \/ /\ on = "HealthRefresh" /\ HealthRefresh!Next
       /\ UNCHANGED <<on, windowVars, twoVars, resumeVars, lockVars, moveVars,
          twoMovesVars>>
    \/ /\ on = "MaintenanceWindow" /\ MaintenanceWindow!Next
       /\ UNCHANGED <<on, healthVars, twoVars, resumeVars, lockVars, moveVars,
          twoMovesVars>>
    \/ /\ on = "TwoWindows" /\ TwoWindows!Next
       /\ UNCHANGED <<on, healthVars, windowVars, resumeVars, lockVars,
          moveVars, twoMovesVars>>
    \/ /\ on = "CodegraphResume" /\ CodegraphResume!Next
       /\ UNCHANGED <<on, healthVars, windowVars, twoVars, lockVars, moveVars,
          twoMovesVars>>
    \/ /\ on = "RunLock" /\ Next
       /\ UNCHANGED <<on, healthVars, windowVars, twoVars, resumeVars,
          moveVars, twoMovesVars>>
    \/ /\ on = "QueueMigration" /\ QueueMigration!Next
       /\ UNCHANGED <<on, healthVars, windowVars, twoVars, resumeVars,
          lockVars, twoMovesVars>>
    \/ /\ on = "TwoMoves" /\ TwoMoves!Next
       /\ UNCHANGED <<on, healthVars, windowVars, twoVars, resumeVars,
          lockVars, moveVars>>

ServicesSpec == ServicesInit /\ [][ServicesNext]_servicesVars

\* The health worker goes on and is restarted by its supervisor, a check ends
\* or its budget does; time passes, and the standby polls while it does.
ServicesFairSpec ==
    /\ ServicesSpec
    /\ WF_healthVars(on = "HealthRefresh" /\ HealthRefresh!Worker)
    /\ WF_healthVars(on = "HealthRefresh" /\ HealthRefresh!Restart)
    /\ WF_healthVars(on = "HealthRefresh" /\ HealthRefresh!FatalEnds)
    /\ \A o \in 1 .. HealthOps : WF_healthVars(on = "HealthRefresh" /\ HealthRefresh!Exits(o))
    /\ WF_windowVars(on = "MaintenanceWindow" /\ MaintenanceWindow!Poll)
    /\ WF_windowVars(on = "MaintenanceWindow" /\ MaintenanceWindow!Expire)

(***************************************************************************)
(* Properties                                                              *)
(***************************************************************************)
\* A check that runs is named by the journal across every crash, and a worker
\* that shows no failure has seen every check of the latest flush pass.
HealthIsTrue == HealthRefresh!IInv

\* In a maintenance window nobody writes: not who passed the gate before it, nor
\* an instance started meanwhile.
WindowIsQuiet == MaintenanceWindow!IInv /\ MaintenanceWindow!MarkerKept

\* A second operator does not move the window on either.  The command that ends
\* one lets the writer go last, or leaves all closed when it says so.  The move
\* of the queue loses no request, ends no claim of others that it cannot prove
\* to have run out, and is complete when it says so.
CommandsAreSound ==
    /\ [](/\ TwoWindows!IInv
          /\ CodegraphResume!TypeOK /\ CodegraphResume!ResumeSound)
    /\ [](QueueMigration!IInv /\ TwoMoves!IInv)
    /\ QueueMigration!ForeignClaimsKept /\ TwoMoves!ForeignClaimsKept

\* A start is refused only for a worker that is alive; every project that waits
\* for a check is tried; no standby waits for ever.
ServicesEnd ==
    /\ []IInv /\ RefusedOnlyByLive
    /\ HealthRefresh!EveryRequestTried /\ MaintenanceWindow!StandbyEnds
=============================================================================

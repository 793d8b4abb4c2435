----------------------------- MODULE MCRuntime ------------------------------
(***************************************************************************)
(* The protocols under the runtime root: the control lease, the generation *)
(* switch with its serving fence, the installation of units, the move of   *)
(* one, the gates of a deployment, and the isolation of broken releases,   *)
(* side by side.  A behaviour moves one of them.                           *)
(***************************************************************************)
EXTENDS ControlLease, Naturals, Sequences, FiniteSets

CONSTANTS c1, c2, a1, a2, g0, g1, g2, s1, d1, hook, web, idx, o1, o2,
    StoreControllers, StoreAttempts, StoreGenerations, FirstGeneration,
    GenerationBefore, StoreStamps, StoreEpochs, StoreFences, StoreFaults,
    StandardUnits, DeferredUnits, UnitsToEnable, UnitsToRestart, UnitBudgets,
    LayoutFaults, LayoutCrashes, LayoutEdits, GuardedUnits, StoppedUnits,
    WebHook, GatePlans, GateForeign, GateFaults

VARIABLES
    on,  \* the protocol that moves in this behaviour
    secondStage, secondEnvelope, secondFrozen, secondJournal, secondEvidence,
    secondCurrent, secondHistory, secondPending, secondLock, secondProof,
    secondSeen, secondView, secondPast, secondFaults,
    genPlan, genEnded, genLease, genGenerations, genFences, genAcceptance,
    genStages, genPermits, genState, genView, genReigns, genSaid, genFaults,
    reignPlan, reignEnded, reignLease, reignGenerations, reignFences,
    reignAcceptance, reignStages, reignPermits, reignState, reignView,
    reignReigns, reignSaid, reignFaults,
    unitDisk, unitLoaded, enabled, unitRun, shadow, receipt, unitPc, mode,
    unitTodo, unitBefore, proven, signal, unitTold, touched, bounced, left,
    layoutDisk, mask, link, layoutLoaded, same, layoutPc, layoutStage,
    layoutBefore, layoutJournal, layoutTold, counts,
    conf, gateLoaded, guard, ingress, gateRun, gatePlan, gateTodo, quiet, shut,
    gateFaults,
    dir, isolatePc, intent, moved, log, synced, torn, isolateFaults

leaseVars == vars
secondVars == <<secondStage, secondEnvelope, secondFrozen, secondJournal,
    secondEvidence, secondCurrent, secondHistory, secondPending, secondLock,
    secondProof, secondSeen, secondView, secondPast, secondFaults>>
genVars == <<genPlan, genEnded, genLease, genGenerations, genFences,
    genAcceptance, genStages, genPermits, genState, genView, genReigns,
    genSaid, genFaults>>
reignVars == <<reignPlan, reignEnded, reignLease, reignGenerations,
    reignFences, reignAcceptance, reignStages, reignPermits, reignState,
    reignView, reignReigns, reignSaid, reignFaults>>
unitVars == <<unitDisk, unitLoaded, enabled, unitRun, shadow, receipt, unitPc,
    mode, unitTodo, unitBefore, proven, signal, unitTold, touched, bounced,
    left>>
layoutVars == <<layoutDisk, mask, link, layoutLoaded, same, layoutPc,
    layoutStage, layoutBefore, layoutJournal, layoutTold, counts>>
gateVars == <<conf, gateLoaded, guard, ingress, gateRun, gatePlan, gateTodo,
    quiet, shut, gateFaults>>
isolateVars == <<dir, isolatePc, intent, moved, log, synced, torn,
    isolateFaults>>
runtimeVars == <<on, leaseVars, secondVars, genVars, reignVars, unitVars,
    layoutVars, gateVars, isolateVars>>

\* An installation meets two failing steps and a kill, or is repeated: after one
\* failing step, or after a kill that left it half done.
TheBudgets ==
    {[rounds |-> 1, faults |-> 2, crashes |-> 1], [rounds |-> 2, faults |-> 1, crashes |-> 0],
     [rounds |-> 2, faults |-> 0, crashes |-> 1]}

\* The units of the gates' instance: the web hook, the web and the index.
TheUnits == <<hook, web, idx>>
TheWriters == <<hook, web>>

TwoAttempts == INSTANCE ControlLease WITH
    Controllers <- {c1, c2}, Attempts <- {a1, a2}, LineageLimit <- 3,
    ActsPerStep <- 1, MaxEpoch <- 2, MaxActs <- 1, MaxFaults <- 0,
    stage <- secondStage, envelope <- secondEnvelope, frozen <- secondFrozen,
    journal <- secondJournal, evidence <- secondEvidence,
    current <- secondCurrent, history <- secondHistory,
    pending <- secondPending, lock <- secondLock, proof <- secondProof,
    seen <- secondSeen, view <- secondView, past <- secondPast,
    faults <- secondFaults
Generation == INSTANCE Generation WITH
    Controllers <- StoreControllers, Attempts <- StoreAttempts,
    Generations <- StoreGenerations, First <- FirstGeneration,
    Before <- GenerationBefore, Stamps <- StoreStamps, MaxEpoch <- StoreEpochs,
    MaxFence <- StoreFences, MaxFaults <- StoreFaults, plan <- genPlan,
    ended <- genEnded, lease <- genLease, generations <- genGenerations,
    fences <- genFences, acceptance <- genAcceptance, stages <- genStages,
    permits <- genPermits, state <- genState, view <- genView,
    reigns <- genReigns, said <- genSaid, faults <- genFaults
Reigns == INSTANCE Generation WITH
    Controllers <- {c1}, Attempts <- {a1, a2}, Generations <- {g0, g1, g2},
    First <- g1, Before <- g0, Stamps <- {1}, MaxEpoch <- 2, MaxFence <- 3,
    MaxFaults <- 0, plan <- reignPlan, ended <- reignEnded,
    lease <- reignLease, generations <- reignGenerations,
    fences <- reignFences, acceptance <- reignAcceptance,
    stages <- reignStages, permits <- reignPermits, state <- reignState,
    view <- reignView, reigns <- reignReigns, said <- reignSaid,
    faults <- reignFaults
UnitInstall == INSTANCE UnitInstall WITH
    Standard <- StandardUnits, Deferred <- DeferredUnits,
    Enable <- UnitsToEnable, RestartSet <- UnitsToRestart,
    Budgets <- UnitBudgets, disk <- unitDisk, loaded <- unitLoaded,
    run <- unitRun, pc <- unitPc, todo <- unitTodo, before <- unitBefore,
    told <- unitTold
UnitLayout == INSTANCE UnitLayout WITH
    MaxFaults <- LayoutFaults, MaxCrashes <- LayoutCrashes,
    MaxEdits <- LayoutEdits, disk <- layoutDisk, loaded <- layoutLoaded,
    pc <- layoutPc, stage <- layoutStage, before <- layoutBefore,
    journal <- layoutJournal, told <- layoutTold
DeploymentGates == INSTANCE DeploymentGates WITH
    Units <- GuardedUnits, Writers <- StoppedUnits, Hook <- WebHook,
    Plans <- GatePlans, Foreign <- GateForeign, Calm <- TRUE,
    MaxFaults <- GateFaults, loaded <- gateLoaded, run <- gateRun,
    plan <- gatePlan, todo <- gateTodo, faults <- gateFaults
ReleaseIsolation == INSTANCE ReleaseIsolation WITH
    Objects <- {o1, o2}, MaxFaults <- 2, pc <- isolatePc,
    faults <- isolateFaults

ASSUME InstancesAssumption ==
    /\ TwoAttempts!LeaseAssumption
    /\ Generation!GenerationAssumption
    /\ Reigns!GenerationAssumption
    /\ UnitInstall!UnitAssumption
    /\ UnitLayout!LayoutAssumption
    /\ DeploymentGates!GatesAssumption
    /\ ReleaseIsolation!IsolationAssumption

Protocols ==
    {"ControlLease", "TwoAttempts", "Generation", "Reigns", "UnitInstall",
     "UnitLayout", "DeploymentGates", "ReleaseIsolation"}

RuntimeInit ==
    /\ on \in Protocols
    /\ Init
    /\ TwoAttempts!Init
    /\ Generation!Init
    /\ Reigns!Init
    /\ UnitInstall!Init
    /\ UnitLayout!Init
    /\ DeploymentGates!Init
    /\ ReleaseIsolation!Init
    /\ on # "UnitInstall" =>
          /\ unitDisk = [u \in UnitInstall!All |-> None]
          /\ left = CHOOSE b \in UnitBudgets : TRUE
    /\ on # "UnitLayout" => ~mask /\ link = None /\ layoutDisk.usr = None
    /\ on # "DeploymentGates" => gateRun = [u \in DeploymentGates!All |-> "on"]

RuntimeNext ==
    \/ /\ on = "ControlLease" /\ Next
       /\ UNCHANGED <<on, secondVars, genVars, reignVars, unitVars, layoutVars,
          gateVars, isolateVars>>
    \/ /\ on = "TwoAttempts" /\ TwoAttempts!Next
       /\ UNCHANGED <<on, leaseVars, genVars, reignVars, unitVars, layoutVars,
          gateVars, isolateVars>>
    \/ /\ on = "Generation" /\ Generation!Next
       /\ UNCHANGED <<on, leaseVars, secondVars, reignVars, unitVars,
          layoutVars, gateVars, isolateVars>>
    \/ /\ on = "Reigns" /\ Reigns!Next
       /\ UNCHANGED <<on, leaseVars, secondVars, genVars, unitVars, layoutVars,
          gateVars, isolateVars>>
    \/ /\ on = "UnitInstall" /\ UnitInstall!Next
       /\ UNCHANGED <<on, leaseVars, secondVars, genVars, reignVars,
          layoutVars, gateVars, isolateVars>>
    \/ /\ on = "UnitLayout" /\ UnitLayout!Next
       /\ UNCHANGED <<on, leaseVars, secondVars, genVars, reignVars, unitVars,
          gateVars, isolateVars>>
    \/ /\ on = "DeploymentGates" /\ DeploymentGates!Next
       /\ UNCHANGED <<on, leaseVars, secondVars, genVars, reignVars, unitVars,
          layoutVars, isolateVars>>
    \/ /\ on = "ReleaseIsolation" /\ ReleaseIsolation!Next
       /\ UNCHANGED <<on, leaseVars, secondVars, genVars, reignVars, unitVars,
          layoutVars, gateVars>>

RuntimeSpec == RuntimeInit /\ [][RuntimeNext]_runtimeVars

\* A controller that finds a pending change settles it; somebody builds again
\* what is not complete.
RuntimeFairSpec ==
    /\ RuntimeSpec
    /\ \A c \in {c1, c2} : WF_leaseVars(on = "ControlLease" /\ Settle(c))
    /\ \A o \in {o1, o2} : WF_isolateVars(on = "ReleaseIsolation" /\ ReleaseIsolation!Command(o))

(***************************************************************************)
(* Properties                                                              *)
(***************************************************************************)
\* What serves was accepted, behind a fence of its own and with one permit,
\* whatever controller died in the switch; a hazard is never taken back.  The
\* tombstone of an attempt gives way only to the lease of another one.  What
\* was moved to the quarantine stays in the audit.
ServingSound ==
    /\ []IInv /\ [](on = "TwoAttempts" => TwoAttempts!IInv)
    /\ RetiredForGood /\ TwoAttempts!RetiredForGood
    /\ [](ReleaseIsolation!TypeOK /\ ReleaseIsolation!AuditAccounts)
    /\ [](Generation!ServingSound /\ Reigns!ServingSound)
    /\ [](on = "Generation" => Generation!IInv) /\ [](on = "Reigns" => Reigns!IInv)
    /\ Generation!HazardStays /\ Reigns!HazardStays

\* What the installation of units reports is so, whichever step failed, was
\* interrupted or was compensated; while CodeGraph's unit moves the host always
\* has one, no file is lost, and the next command can take up any death.
InstallSound ==
    /\ UnitInstall!InstallSound /\ UnitLayout!LayoutSound
    /\ on = "UnitInstall" => UnitInstall!IInv
    /\ on = "UnitLayout" => UnitLayout!IInv

\* Once maintenance is closed nothing writes or can be started, over deaths,
\* reboots and calls of other plans, until a hand-over; the web hook not even
\* then.
GatesHold ==
    /\ DeploymentGates!IInv
    /\ DeploymentGates!MaintenanceStaysClosed /\ DeploymentGates!IngressStaysShut

\* A lease transition that was begun is settled by some later caller; a base or
\* release is built whatever an earlier build left of it.
RuntimeEnds ==
    /\ PendingEnds
    /\ on = "ReleaseIsolation" => ReleaseIsolation!Rebuilt
=============================================================================

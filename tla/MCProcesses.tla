---------------------------- MODULE MCProcesses -----------------------------
(***************************************************************************)
(* The protocols around an attempt's processes and files, and the document *)
(* index with its daemon, side by side: a behaviour moves one of them, the *)
(* others stay in an initial state.                                        *)
(***************************************************************************)
EXTENDS WorkerScope, Naturals, FiniteSets

CONSTANTS None, GroupKids, MaxGroupCrashes, MaxGroupFaults, MaxJobKids,
    MaxJobCrashes, MaxJobFaults, MaxTreeKids, MaxTreeBoots, MaxTreeCrashes,
    MaxTreeFaults, Clones, MaxInputCommit, MaxInputFaults, MaxFileCrashes,
    MaxFileFaults

VARIABLES
    on,  \* the protocol that moves in this behaviour
    groupPc, groupLive, groupSeen, groupTold, groupGate, groupRoot, kid,
    groupJournal, sameBoot, groupRan, groupCounts,
    jobPc, table, holders, jobRoot, jobKids, dying, jobJournal, jobTold,
    jobRan, jobCounts,
    treePc, treeLive, treeGate, treeDir, treeRoot, orphan, treeKids,
    treeDoomed, treeJournal, boot, treeTold, treeRan, treeCounts,
    inputHead, inputFiles, pulling, target, wanted, revision, inputPc, repo,
    commits, trees, commits2, trees2, inputResult, inputSeen, inputFaults,
    filesDir, since, filesResult, receipt, filesJournal, acted, worker, writes,
    executor, observer, rc, crashes, filesFaults,
    docsFiles, docsCurrent, docsJob, docsResult, docsStamped, docsProject,
    docsTorn, docsEdits, docsFaults,
    twoDocsFiles, twoDocsCurrent, twoDocsJob, twoDocsResult, twoDocsStamped,
    twoDocsProject, twoDocsTorn, twoDocsEdits, twoDocsFaults,
    daemonGate, life, at, daemon, daemonReady, built, daemonEarly, daemonFaults,
    legacyTip, legacyHead, legacyHook, legacyPending, legacyActive,
    legacyRequests, legacyGraph, legacyVectors, legacyManifest, legacyPc,
    legacyJob, legacyStatus, legacyPrepared, legacyResults, legacyDeferred,
    legacyRan, legacyBlind, legacyLeft, legacyErrors, legacyLosses,
    tableTip, tableHead, tableHook, tablePending, tableActive, tableRequests,
    tableGraph, tableVectors, tableManifest, tablePc, tableJob, tableStatus,
    tablePrepared, tableResults, tableDeferred, tableRan, tableBlind,
    tableLeft, tableErrors, tableLosses,
    diesTip, diesHead, diesHook, diesPending, diesActive, diesRequests,
    diesGraph, diesVectors, diesManifest, diesPc, diesJob, diesStatus,
    diesPrepared, diesResults, diesDeferred, diesRan, diesBlind, diesLeft,
    diesErrors, diesLosses

groupVars == <<groupPc, groupLive, groupSeen, groupTold, groupGate, groupRoot,
    kid, groupJournal, sameBoot, groupRan, groupCounts>>
jobVars == <<jobPc, table, holders, jobRoot, jobKids, dying, jobJournal,
    jobTold, jobRan, jobCounts>>
treeVars == <<treePc, treeLive, treeGate, treeDir, treeRoot, orphan, treeKids,
    treeDoomed, treeJournal, boot, treeTold, treeRan, treeCounts>>
scopeVars == vars
inputVars == <<inputHead, inputFiles, pulling, target, wanted, revision,
    inputPc, repo, commits, trees, commits2, trees2, inputResult, inputSeen,
    inputFaults>>
filesVars == <<filesDir, since, filesResult, receipt, filesJournal, acted,
    worker, writes, executor, observer, rc, crashes, filesFaults>>
docsVars == <<docsFiles, docsCurrent, docsJob, docsResult, docsStamped,
    docsProject, docsTorn, docsEdits, docsFaults>>
twoDocsVars == <<twoDocsFiles, twoDocsCurrent, twoDocsJob, twoDocsResult,
    twoDocsStamped, twoDocsProject, twoDocsTorn, twoDocsEdits, twoDocsFaults>>
daemonVars == <<daemonGate, life, at, daemon, daemonReady, built, daemonEarly,
    daemonFaults>>
legacyVars == <<legacyTip, legacyHead, legacyHook, legacyPending, legacyActive,
    legacyRequests, legacyGraph, legacyVectors, legacyManifest, legacyPc,
    legacyJob, legacyStatus, legacyPrepared, legacyResults, legacyDeferred,
    legacyRan, legacyBlind, legacyLeft, legacyErrors, legacyLosses>>
tableVars == <<tableTip, tableHead, tableHook, tablePending, tableActive,
    tableRequests, tableGraph, tableVectors, tableManifest, tablePc, tableJob,
    tableStatus, tablePrepared, tableResults, tableDeferred, tableRan,
    tableBlind, tableLeft, tableErrors, tableLosses>>
diesVars == <<diesTip, diesHead, diesHook, diesPending, diesActive,
    diesRequests, diesGraph, diesVectors, diesManifest, diesPc, diesJob,
    diesStatus, diesPrepared, diesResults, diesDeferred, diesRan, diesBlind,
    diesLeft, diesErrors, diesLosses>>
processesVars == <<on, groupVars, jobVars, treeVars, scopeVars, inputVars,
    filesVars, docsVars, twoDocsVars, daemonVars, legacyVars, tableVars,
    diesVars>>

PosixGroup == INSTANCE PosixGroup WITH
    Kids <- GroupKids, MaxCrashes <- MaxGroupCrashes,
    MaxFaults <- MaxGroupFaults, pc <- groupPc, live <- groupLive,
    seen <- groupSeen, told <- groupTold, gate <- groupGate, root <- groupRoot,
    journal <- groupJournal, ran <- groupRan, counts <- groupCounts
WindowsJob == INSTANCE WindowsJob WITH
    MaxKids <- MaxJobKids, MaxCrashes <- MaxJobCrashes,
    MaxFaults <- MaxJobFaults, pc <- jobPc, root <- jobRoot, kids <- jobKids,
    journal <- jobJournal, told <- jobTold, ran <- jobRan, counts <- jobCounts
CgroupTree == INSTANCE CgroupTree WITH
    MaxKids <- MaxTreeKids, MaxBoots <- MaxTreeBoots,
    MaxCrashes <- MaxTreeCrashes, MaxFaults <- MaxTreeFaults, pc <- treePc,
    live <- treeLive, gate <- treeGate, dir <- treeDir, root <- treeRoot,
    kids <- treeKids, doomed <- treeDoomed, journal <- treeJournal,
    told <- treeTold, ran <- treeRan, counts <- treeCounts
AttemptInput == INSTANCE AttemptInput WITH
    Repos <- Clones, MaxCommit <- MaxInputCommit, MaxFaults <- MaxInputFaults,
    head <- inputHead, files <- inputFiles, pc <- inputPc,
    result <- inputResult, seen <- inputSeen, faults <- inputFaults
AttemptFiles == INSTANCE AttemptFiles WITH
    MaxCrashes <- MaxFileCrashes, MaxFaults <- MaxFileFaults, dir <- filesDir,
    result <- filesResult, journal <- filesJournal, faults <- filesFaults
DocsIndex == INSTANCE DocsIndex WITH
    Docs <- 1..1, Size <- <<1, 2, 1>>, MaxEdits <- 2, MaxFaults <- 1,
    Proven <- TRUE, files <- docsFiles, current <- docsCurrent, job <- docsJob,
    result <- docsResult, stamped <- docsStamped, project <- docsProject,
    torn <- docsTorn, edits <- docsEdits, faults <- docsFaults
TwoDocs == INSTANCE DocsIndex WITH
    Docs <- 1..2, Size <- <<2, 1>>, MaxEdits <- 1, MaxFaults <- 1,
    Proven <- TRUE, files <- twoDocsFiles, current <- twoDocsCurrent,
    job <- twoDocsJob, result <- twoDocsResult, stamped <- twoDocsStamped,
    project <- twoDocsProject, torn <- twoDocsTorn, edits <- twoDocsEdits,
    faults <- twoDocsFaults
DocsDaemon == INSTANCE DocsDaemon WITH
    Launchers <- 1..3, MaxFaults <- 2, gate <- daemonGate,
    ready <- daemonReady, early <- daemonEarly, faults <- daemonFaults
LegacyWorker == INSTANCE LegacyWorker WITH
    MaxCommit <- 2, MaxRequests <- 2, MaxErrors <- 2, MaxLosses <- 0,
    Desk <- TRUE, Leases <- FALSE, tip <- legacyTip, head <- legacyHead,
    hook <- legacyHook, pending <- legacyPending, active <- legacyActive,
    requests <- legacyRequests, graph <- legacyGraph, vectors <- legacyVectors,
    manifest <- legacyManifest, pc <- legacyPc, job <- legacyJob,
    status <- legacyStatus, prepared <- legacyPrepared,
    results <- legacyResults, deferred <- legacyDeferred, ran <- legacyRan,
    blind <- legacyBlind, left <- legacyLeft, errors <- legacyErrors,
    losses <- legacyLosses
LegacyTable == INSTANCE LegacyWorker WITH
    MaxCommit <- 1, MaxRequests <- 2, MaxErrors <- 3, MaxLosses <- 0,
    Desk <- FALSE, Leases <- TRUE, tip <- tableTip, head <- tableHead,
    hook <- tableHook, pending <- tablePending, active <- tableActive,
    requests <- tableRequests, graph <- tableGraph, vectors <- tableVectors,
    manifest <- tableManifest, pc <- tablePc, job <- tableJob,
    status <- tableStatus, prepared <- tablePrepared, results <- tableResults,
    deferred <- tableDeferred, ran <- tableRan, blind <- tableBlind,
    left <- tableLeft, errors <- tableErrors, losses <- tableLosses
LegacyDies == INSTANCE LegacyWorker WITH
    MaxCommit <- 1, MaxRequests <- 2, MaxErrors <- 1, MaxLosses <- 1,
    Desk <- FALSE, Leases <- FALSE, tip <- diesTip, head <- diesHead,
    hook <- diesHook, pending <- diesPending, active <- diesActive,
    requests <- diesRequests, graph <- diesGraph, vectors <- diesVectors,
    manifest <- diesManifest, pc <- diesPc, job <- diesJob,
    status <- diesStatus, prepared <- diesPrepared, results <- diesResults,
    deferred <- diesDeferred, ran <- diesRan, blind <- diesBlind,
    left <- diesLeft, errors <- diesErrors, losses <- diesLosses

ASSUME InstancesAssumption ==
    /\ PosixGroup!GroupAssumption
    /\ WindowsJob!JobAssumption
    /\ CgroupTree!CgroupAssumption
    /\ AttemptInput!InputAssumption
    /\ AttemptFiles!FilesAssumption
    /\ DocsIndex!DocsAssumption
    /\ TwoDocs!DocsAssumption
    /\ DocsDaemon!DaemonAssumption
    /\ LegacyWorker!LegacyAssumption
    /\ LegacyTable!LegacyAssumption
    /\ LegacyDies!LegacyAssumption

Protocols ==
    {"PosixGroup", "WindowsJob", "CgroupTree", "WorkerScope", "AttemptInput",
     "AttemptFiles", "DocsIndex", "TwoDocs", "DocsDaemon", "LegacyWorker",
     "LegacyTable", "LegacyDies"}

ProcessesInit ==
    /\ on \in Protocols
    /\ IF on = "AttemptInput" THEN TRUE
       ELSE inputHead = [r \in Clones |-> 0] /\ wanted = inputHead /\ revision = FALSE
            /\ target = [repo |-> 1, commit |-> 1]
    /\ IF on = "DocsIndex" THEN TRUE
       ELSE docsFiles = [d \in 1..1 |-> 0] /\ docsCurrent = None
    /\ IF on = "TwoDocs" THEN TRUE
       ELSE twoDocsFiles = [d \in 1..2 |-> 0] /\ twoDocsCurrent = None
    /\ IF on = "DocsDaemon" THEN TRUE
       ELSE built = FALSE
    /\ PosixGroup!Init
    /\ WindowsJob!Init
    /\ CgroupTree!Init
    /\ Init
    /\ AttemptInput!Init
    /\ AttemptFiles!Init
    /\ DocsIndex!Init
    /\ TwoDocs!Init
    /\ DocsDaemon!Init
    /\ LegacyWorker!Init
    /\ LegacyTable!Init
    /\ LegacyDies!Init

ProcessesNext ==
    \/ /\ on = "PosixGroup" /\ PosixGroup!Next
       /\ UNCHANGED <<on, jobVars, treeVars, scopeVars, inputVars, filesVars,
          docsVars, twoDocsVars, daemonVars, legacyVars, tableVars, diesVars>>
    \/ /\ on = "WindowsJob" /\ WindowsJob!Next
       /\ UNCHANGED <<on, groupVars, treeVars, scopeVars, inputVars, filesVars,
          docsVars, twoDocsVars, daemonVars, legacyVars, tableVars, diesVars>>
    \/ /\ on = "CgroupTree" /\ CgroupTree!Next
       /\ UNCHANGED <<on, groupVars, jobVars, scopeVars, inputVars, filesVars,
          docsVars, twoDocsVars, daemonVars, legacyVars, tableVars, diesVars>>
    \/ /\ on = "WorkerScope" /\ Next
       /\ UNCHANGED <<on, groupVars, jobVars, treeVars, inputVars, filesVars,
          docsVars, twoDocsVars, daemonVars, legacyVars, tableVars, diesVars>>
    \/ /\ on = "AttemptInput" /\ AttemptInput!Next
       /\ UNCHANGED <<on, groupVars, jobVars, treeVars, scopeVars, filesVars,
          docsVars, twoDocsVars, daemonVars, legacyVars, tableVars, diesVars>>
    \/ /\ on = "AttemptFiles" /\ AttemptFiles!Next
       /\ UNCHANGED <<on, groupVars, jobVars, treeVars, scopeVars, inputVars,
          docsVars, twoDocsVars, daemonVars, legacyVars, tableVars, diesVars>>
    \/ /\ on = "DocsIndex" /\ DocsIndex!Next
       /\ UNCHANGED <<on, groupVars, jobVars, treeVars, scopeVars, inputVars,
          filesVars, twoDocsVars, daemonVars, legacyVars, tableVars, diesVars>>
    \/ /\ on = "TwoDocs" /\ TwoDocs!Next
       /\ UNCHANGED <<on, groupVars, jobVars, treeVars, scopeVars, inputVars,
          filesVars, docsVars, daemonVars, legacyVars, tableVars, diesVars>>
    \/ /\ on = "DocsDaemon" /\ DocsDaemon!Next
       /\ UNCHANGED <<on, groupVars, jobVars, treeVars, scopeVars, inputVars,
          filesVars, docsVars, twoDocsVars, legacyVars, tableVars, diesVars>>
    \/ /\ on = "LegacyWorker" /\ LegacyWorker!Next
       /\ UNCHANGED <<on, groupVars, jobVars, treeVars, scopeVars, inputVars,
          filesVars, docsVars, twoDocsVars, daemonVars, tableVars, diesVars>>
    \/ /\ on = "LegacyTable" /\ LegacyTable!Next
       /\ UNCHANGED <<on, groupVars, jobVars, treeVars, scopeVars, inputVars,
          filesVars, docsVars, twoDocsVars, daemonVars, legacyVars, diesVars>>
    \/ /\ on = "LegacyDies" /\ LegacyDies!Next
       /\ UNCHANGED <<on, groupVars, jobVars, treeVars, scopeVars, inputVars,
          filesVars, docsVars, twoDocsVars, daemonVars, legacyVars, tableVars>>

ProcessesSpec == ProcessesInit /\ [][ProcessesNext]_processesVars

\* The bootstrap runs and what was killed ends; the manager, the guarded
\* bootstrap, the watchdog and the kernel go on; the executor goes on; the
\* worker goes on and systemd starts it again; the indexer runs again and again
\* and the project is asked for; launchers go on, and a daemon that polls finds
\* its lock free again and again; after a drain of the legacy worker there is
\* another one.
ProcessesFairSpec ==
    /\ ProcessesSpec
    /\ WF_treeVars(on = "CgroupTree" /\ CgroupTree!Bootstrap)
    /\ WF_treeVars(on = "CgroupTree" /\ CgroupTree!KilledEnds)
    /\ WF_scopeVars(on = "WorkerScope" /\ Manager)
    /\ WF_scopeVars(on = "WorkerScope" /\ Bootstrap)
    /\ WF_scopeVars(on = "WorkerScope" /\ Watchdog)
    /\ WF_scopeVars(on = "WorkerScope" /\ Reap)
    /\ WF_scopeVars(on = "WorkerScope" /\ Abort)
    /\ WF_inputVars(on = "AttemptInput" /\ AttemptInput!Executor)
    /\ WF_filesVars(on = "AttemptFiles" /\ AttemptFiles!Worker)
    /\ WF_docsVars(on = "DocsIndex" /\ DocsIndex!Run)
    /\ WF_docsVars(on = "DocsIndex" /\ DocsIndex!Request)
    /\ WF_daemonVars(on = "DocsDaemon" /\ \E l \in 1..3 : DocsDaemon!Step(l))
    /\ SF_daemonVars(on = "DocsDaemon" /\ \E l \in 1..3 : DocsDaemon!Work(l))
    /\ WF_diesVars(on = "LegacyDies" /\ (LegacyDies!Work \/ LegacyDies!Begin))

(***************************************************************************)
(* Properties                                                              *)
(***************************************************************************)
\* What is proved of the processes of an attempt is true, for good, across
\* worker deaths, reboots and failed calls (death_proof, never_started): all three
\* backends keep the promises of the port of attempt_process.py.  The parties
\* of a worker scope agree at every step.
DeathProved ==
    /\ []IInv
    /\ [](/\ CgroupTree!IInv /\ WindowsJob!IInv /\ PosixGroup!IInv
          /\ CgroupTree!NeverIsTrue /\ CgroupTree!FailedStartNeverRuns
          /\ CgroupTree!RunsJournalled)
    /\ CgroupTree!Implements /\ WindowsJob!Implements /\ PosixGroup!Implements

\* What a success names is exactly what its runner read, and it covers the
\* targets, although the clones are shared and pulled without a lock.
SuccessIsExact == AttemptInput!IInv

\* The files of an attempt can be trusted in any state that a kill or a power
\* loss leaves, and are removed in order: after the action, before the journal.
FilesRecover == AttemptFiles!IInv

\* The indexes are what they are said to be, with the exceptions that the code
\* makes and no other.  After a successful run the document index holds the
\* documents as they were hashed, except one that a run replaced before it was
\* cut short and that is back at its recorded version with as many chunks; a
\* daemon that noted the last stamp serves what came with it, except a stamp
\* written between the load of the project and the next request.  Launchers share
\* one daemon and do not make each other fail, unless it looked for the index too
\* early.  The legacy worker makes code vectors only from a graph that holds their
\* commit, gives back what it deferred but for a kind deferred twice, and an index
\* that is reported as fresh is: except where the record of a run could not be
\* written, or names a commit to which the clone moved during the run
\* (verify_collection_ids, _maybe_reload_project, _ensure_daemon_ready,
\* _dependency_blocker, _record_manifest).
IndexesServed ==
    /\ [](CASE on = "DocsIndex" -> DocsIndex!IndexSound
            [] on = "TwoDocs" -> TwoDocs!IndexSound
            [] on = "DocsDaemon" -> DocsDaemon!StartSound
            [] on = "LegacyWorker" -> LegacyWorker!DrainSound
            [] on = "LegacyTable" -> LegacyTable!DrainSound
            [] on = "LegacyDies" -> LegacyDies!DrainSound
            [] OTHER -> TRUE)
    /\ DocsDaemon!WaitsForDaemon

\* The protocol that moves has come to rest: no abandoned bootstrap, nothing left of
\* a scope whose caller is gone, an executor ended, the documents of now indexed
\* and served, no start of a daemon under way, no request of the legacy worker
\* left over.
AtRest ==
    /\ CgroupTree!NoneAbandoned
    /\ on = "WorkerScope" => NothingStays
    /\ on = "AttemptInput" => AttemptInput!Ended
    /\ on = "DocsIndex" => DocsIndex!Settled /\ DocsIndex!Followed
    /\ DocsDaemon!LaunchersRest
    /\ on = "LegacyDies" => LegacyDies!Settled

\* What must end does: an abandoned bootstrap, a scope whose caller is gone, an
\* executor, an attempt without a torn temporary file, a launcher.  When the
\* documents are no longer edited the index comes to hold them, but for a text
\* that the proof cannot tell apart, and the daemon to serve what it holds, a
\* stamp that it missed being made good by the next one.  The legacy worker's
\* queue empties, unless a claim was left behind or the success of the code graph
\* was never recorded.
ProcessesEnd ==
    /\ <>[]AtRest
    /\ <>(on = "AttemptFiles" => AttemptFiles!UntornClosed)

FilesSpec == ProcessesFairSpec /\ on = "AttemptFiles"

\* Every attempt's directory is removed and its journal record closed in the end,
\* whenever a writer was killed.
FilesClose == on = "AttemptFiles" => AttemptFiles!AttemptCloses
=============================================================================

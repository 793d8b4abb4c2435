---------------------------- MODULE MCRetrieval -----------------------------
(***************************************************************************)
(* What answers questions while it is rebuilt: the vector index of the     *)
(* code, a CodeGraph backend that makes room for writers, and the store of *)
(* the code graph.  A behaviour moves one of the protocols.                *)
(***************************************************************************)
EXTENDS CodegraphBackend, Naturals, Sequences, FiniteSets

CONSTANTS p1, b1, n1, n2, r1, r2, c1, c2, w1, w2

VARIABLES
    on,  \* the protocol that moves in this behaviour
    vecLock, vecDirs, vecTouched, vecCurrent, vecStore, vecMade, vecJob,
    vecReader, vecBefore, vecFaults,
    faultyLock, faultyDirs, faultyTouched, faultyCurrent, faultyStore,
    faultyMade, faultyJob, faultyReader, faultyBefore, faultyFaults,
    twiceLock, twiceDirs, twiceTouched, twiceCurrent, twiceStore, twiceMade,
    twiceJob, twiceReader, twiceBefore, twiceFaults,
    syncIntent, syncLease, syncTask, syncGen, syncReady, syncError,
    syncSession, syncAccepting, syncQueue, syncHand, syncSeen, syncPc,
    syncMine, syncTry, syncResult, syncStep, syncAlarms, syncFaults,
    content, rows, known, derived, shardsPc, todo, shardsSeen, failures, proof,
    counts

vecVars == <<vecLock, vecDirs, vecTouched, vecCurrent, vecStore, vecMade,
    vecJob, vecReader, vecBefore, vecFaults>>
faultyVars == <<faultyLock, faultyDirs, faultyTouched, faultyCurrent,
    faultyStore, faultyMade, faultyJob, faultyReader, faultyBefore,
    faultyFaults>>
twiceVars == <<twiceLock, twiceDirs, twiceTouched, twiceCurrent, twiceStore,
    twiceMade, twiceJob, twiceReader, twiceBefore, twiceFaults>>
graphVars == vars
syncVars == <<syncIntent, syncLease, syncTask, syncGen, syncReady, syncError,
    syncSession, syncAccepting, syncQueue, syncHand, syncSeen, syncPc,
    syncMine, syncTry, syncResult, syncStep, syncAlarms, syncFaults>>
shardsVars == <<content, rows, known, derived, shardsPc, todo, shardsSeen,
    failures, proof, counts>>
retrievalVars == <<on, vecVars, faultyVars, twiceVars, graphVars, syncVars,
    shardsVars>>

\* The backend alone on its repository.
OneRepo == <<r1>>

\* The second commit changes one node and drops the other.
TwoCommits == [c \in {1, 2} |-> IF c = 1 THEN {<<n1, 1>>, <<n2, 1>>} ELSE {<<n1, 2>>}]

CodeVector == INSTANCE CodeVector WITH
    Builders <- {p1}, Readers <- {b1}, Commits <- {1, 2},
    Content <- TwoCommits, MaxBuilds <- 3, MaxFaults <- 0, lock <- vecLock,
    dirs <- vecDirs, touched <- vecTouched, current <- vecCurrent,
    store <- vecStore, made <- vecMade, job <- vecJob, reader <- vecReader,
    before <- vecBefore, faults <- vecFaults
FaultyVector == INSTANCE CodeVector WITH
    Builders <- {p1}, Readers <- {}, Commits <- {1, 2}, Content <- TwoCommits,
    MaxBuilds <- 3, MaxFaults <- 1, lock <- faultyLock, dirs <- faultyDirs,
    touched <- faultyTouched, current <- faultyCurrent, store <- faultyStore,
    made <- faultyMade, job <- faultyJob, reader <- faultyReader,
    before <- faultyBefore, faults <- faultyFaults
TwiceFaulty == INSTANCE CodeVector WITH
    Builders <- {p1}, Readers <- {}, Commits <- {1, 2}, Content <- TwoCommits,
    MaxBuilds <- 2, MaxFaults <- 2, lock <- twiceLock, dirs <- twiceDirs,
    touched <- twiceTouched, current <- twiceCurrent, store <- twiceStore,
    made <- twiceMade, job <- twiceJob, reader <- twiceReader,
    before <- twiceBefore, faults <- twiceFaults
TwoWriters == INSTANCE CodegraphBackend WITH
    Repos <- <<r1, r2>>, Served <- r2, Clients <- {c1}, Writers <- {w1, w2},
    Patient <- TRUE, MaxFaults <- 1, intent <- syncIntent, lease <- syncLease,
    task <- syncTask, gen <- syncGen, ready <- syncReady, error <- syncError,
    session <- syncSession, accepting <- syncAccepting, queue <- syncQueue,
    hand <- syncHand, seen <- syncSeen, pc <- syncPc, mine <- syncMine,
    try <- syncTry, result <- syncResult, step <- syncStep,
    alarms <- syncAlarms, faults <- syncFaults
Graph == INSTANCE GraphIngest WITH
    Plugins <- {p1, b1}, Repos <- {r1, r2}, MaxCommit <- 1, MaxPushes <- 2,
    MaxFaults <- 1, pc <- shardsPc, seen <- shardsSeen

ASSUME InstancesAssumption ==
    /\ CodeVector!ContentAssumption
    /\ FaultyVector!ContentAssumption
    /\ TwiceFaulty!ContentAssumption
    /\ TwoWriters!BackendAssumption
    /\ Graph!IngestAssumption

Protocols ==
    {"CodeVector", "FaultyVector", "TwiceFaulty", "Backend", "TwoWriters",
     "Graph"}

RetrievalInit ==
    /\ on \in Protocols
    /\ CodeVector!Init
    /\ FaultyVector!Init
    /\ TwiceFaulty!Init
    /\ Init
    /\ TwoWriters!Init
    /\ Graph!Init

RetrievalNext ==
    \/ /\ on = "CodeVector" /\ CodeVector!Next
       /\ UNCHANGED <<on, faultyVars, twiceVars, graphVars, syncVars,
          shardsVars>>
    \/ /\ on = "FaultyVector" /\ FaultyVector!Next
       /\ UNCHANGED <<on, vecVars, twiceVars, graphVars, syncVars, shardsVars>>
    \/ /\ on = "TwiceFaulty" /\ TwiceFaulty!Next
       /\ UNCHANGED <<on, vecVars, faultyVars, graphVars, syncVars, shardsVars>>
    \/ /\ on = "Backend" /\ Next
       /\ UNCHANGED <<on, vecVars, faultyVars, twiceVars, syncVars, shardsVars>>
    \/ /\ on = "TwoWriters" /\ TwoWriters!Next
       /\ UNCHANGED <<on, vecVars, faultyVars, twiceVars, graphVars, shardsVars>>
    \/ /\ on = "Graph" /\ Graph!Next
       /\ UNCHANGED <<on, vecVars, faultyVars, twiceVars, graphVars, syncVars>>

RetrievalSpec == RetrievalInit /\ [][RetrievalNext]_retrievalVars

\* The event loop of a backend goes on and its clocks run, the writers try
\* again; its child may stay silent.
RetrievalFairSpec ==
    /\ RetrievalSpec
    /\ WF_graphVars(on = "Backend" /\ Worker)
    /\ \A c \in {c1, c2} : WF_graphVars(on = "Backend" /\ Client(c))
    /\ WF_graphVars(on = "Backend" /\ Writer(w1))
    /\ WF_syncVars(on = "TwoWriters" /\ TwoWriters!Worker)
    /\ WF_syncVars(on = "TwoWriters" /\ TwoWriters!Client(c1))
    /\ \A w \in {w1, w2} : WF_syncVars(on = "TwoWriters" /\ TwoWriters!Writer(w))


\* Writers get in and calls end, whatever the child of the backend does.
RetrievalEnds ==
    /\ WriterEnters /\ TwoWriters!WriterEnters
    /\ CallEnds
=============================================================================

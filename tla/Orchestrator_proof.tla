------------------------- MODULE Orchestrator_proof -------------------------
(***************************************************************************)
(* Proofs about Orchestrator, for any number of keys, targets, tokens and  *)
(* faults: the inductive invariant IInv, the safety properties that follow *)
(* from it, and that the worker touches the queue only through its port.   *)
(***************************************************************************)
EXTENDS Orchestrator, TLAPS

\* The parts of IInv hold before the first worker starts.
LEMMA IInvInit == Init => IInv
<1> SUFFICES ASSUME Init
             PROVE  IInv
  OBVIOUS
<1> USE OrchestratorAssumption DEF Init, WQInit
<1>1. TypeOK
  <2>1. faults \in 0 .. MaxFaults
    OBVIOUS
  <2>2. barred \in [Keys -> BOOLEAN] /\ proof \in BOOLEAN
    OBVIOUS
  <2>3. pc \in Labels /\ then \in {"finalize", "stop", "quarantine"}
    BY DEF Labels
  <2> QED
    BY <2>1, <2>2, <2>3 DEF TypeOK
<1>2. JobInv /\ TokenInv /\ RecordInv /\ PhaseInv
  BY DEF JobInv, TokenInv, RecordInv, PhaseInv, Unstarted, Recovering
<1>3. ProcessInv
  BY DEF ProcessInv, Starting, Closing, NoProcess, Plans
<1>4. InputInv /\ PublishInv /\ NoStrayObserver /\ InputsOutliveObserver
  BY DEF InputInv, PublishInv, NoStrayObserver, InputsOutliveObserver, Starting
<1>5. ClaimInv
  BY DEF ClaimInv, OwnedKeys, CheckpointReplayable
<1> QED
  BY <1>1, <1>2, <1>3, <1>4, <1>5 DEF IInv

-----------------------------------------------------------------------------
(* Types.                                                                  *)

\* The record of the attempt in the worker's hands is a journal record.
LEMMA RecordTyped ==
  ASSUME IInv, pc \notin {"down", "idle"}, NEW phase \in Phases,
         NEW handle \in BOOLEAN, NEW p \in Plans \cup {None}
  PROVE  Record(phase, handle, p) \in JournalRec
BY DEF IInv, TypeOK, JobInv, Record, JournalRec

\* A transition writes its record or leaves the journal as it was.
LEMMA TransitionWrites ==
  ASSUME NEW rec, NEW expected,
         Written(rec, expected) \/ NotWritten(rec, expected)
  PROVE  journal' \in {journal, rec}
BY DEF Written, NotWritten

\* It keeps the attempt and, once there is one, the handle.
LEMMA TransitionKeeps ==
  ASSUME IInv, journal # None, pc \notin {"down", "idle"},
         NEW phase \in Phases, NEW handle \in BOOLEAN,
         NEW p \in Plans \cup {None}, NEW expected,
         LET rec == Record(phase, handle, p)
         IN  Written(rec, expected) \/ NotWritten(rec, expected)
  PROVE  /\ journal' # None /\ journal'.attempt = journal.attempt
         /\ journal.handle => journal'.handle
<1>1. Record(phase, handle, p) # None
  BY RecordTyped, OrchestratorAssumption
<1> QED
  BY <1>1 DEF Written, NotWritten, CanTransition

\* Every journal write is of a record, whichever step fails.
LEMMA JournalTyped ==
  ASSUME IInv, [Next]_vars
  PROVE  journal' \in JournalRec \cup {None}
<1> USE DEF At, Goto, Phases
<1>1. ASSUME UNCHANGED journal
      PROVE  journal' \in JournalRec \cup {None}
  BY <1>1 DEF IInv, TypeOK
<1>2. CASE CreateJournal
  <2>1. Record("CLAIMED", FALSE, None) \in JournalRec
    BY <1>2, RecordTyped DEF CreateJournal
  <2> QED
    BY <1>2, <2>1 DEF CreateJournal
<1>3. CASE MarkPreparing \/ MarkPreparingFails
  <2>1. Record("PREPARING", FALSE, None) \in JournalRec
    BY <1>3, RecordTyped DEF MarkPreparing, MarkPreparingFails
  <2>2. journal' \in {journal, Record("PREPARING", FALSE, None)}
    BY <1>3, TransitionWrites DEF MarkPreparing, MarkPreparingFails
  <2> QED
    BY <2>1, <2>2 DEF IInv, TypeOK
<1>4. CASE PrepareFails \/ MarkExecuting \/ MarkExecutingFails
  <2>1. Record("EXECUTING", TRUE, None) \in JournalRec
    BY <1>4, RecordTyped DEF PrepareFails, MarkExecuting, MarkExecutingFails
  <2>2. journal' \in {journal, Record("EXECUTING", TRUE, None)}
    BY <1>4, TransitionWrites
       DEF PrepareFails, MarkExecuting, MarkExecutingFails
  <2> QED
    BY <2>1, <2>2 DEF IInv, TypeOK
<1>5. CASE BeginTermination
  <2>1. Record("TERMINATING", TRUE, None) \in JournalRec
    BY <1>5, RecordTyped DEF BeginTermination
  <2>2. journal' \in {journal, Record("TERMINATING", TRUE, None)}
    BY <1>5, TransitionWrites DEF BeginTermination
  <2> QED
    BY <2>1, <2>2 DEF IInv, TypeOK
<1>6. CASE QuarantineJournal
  <2>1. Record("QUARANTINED", TRUE, None) \in JournalRec
    BY <1>6, RecordTyped DEF QuarantineJournal
  <2>2. journal' \in {journal, Record("QUARANTINED", TRUE, None)}
    BY <1>6, TransitionWrites DEF QuarantineJournal
  <2> QED
    BY <2>1, <2>2 DEF IInv, TypeOK
<1>7. CASE MarkFinalizing
  <2>1. plan \in Plans \cup {None} /\ (plan \notin NoProcess) \in BOOLEAN
    BY DEF IInv, TypeOK
  <2>2. Record("FINALIZING", plan \notin NoProcess, plan) \in JournalRec
    BY <1>7, <2>1, RecordTyped DEF MarkFinalizing
  <2> QED
    BY <1>7, <2>2 DEF MarkFinalizing, Written
<1>8. CASE ClearJournal
  BY <1>8 DEF ClearJournal
<1>9. CASE Recovery \/ Poll \/ Environment \/ UNCHANGED vars
  BY <1>1, <1>9
     DEF vars, durable, Recovery, StartClean, StartOrphan, OrphanRetry,
         StartRecovery, RecoverUnstarted, RecoverPreparing, RecoverDead,
         RecoverActive, RecoverUnclear, Poll, Claim, Environment, Maintain,
         LeaseTaken, Enqueue, ObserverWrites, ObserverExits, GateCloses, Crash
<1>10. CASE Startup
  BY <1>1, <1>2, <1>3, <1>4, <1>10
     DEF durable, Startup, GateTurnsBack, CreateJournal, InitBlocked,
         InitArtifacts, InitFails, MarkPreparing, MarkPreparingFails, Prepare,
         PrepareFails, PrepareFailsBlindly, StartRecoverNever,
         StartRecoverFound, MarkExecuting, MarkExecutingFails, Activate,
         ActivateFails
<1>11. CASE Control
  BY <1>1, <1>5, <1>6, <1>11
     DEF durable, Control, LoseLease, ObserveDeath, Interrupt,
         BeginTermination, Kill, KillUnclear, KillLost, QuarantineQueue,
         QuarantineJournal
<1>12. CASE Finalization
  BY <1>1, <1>7, <1>8, <1>12
     DEF durable, Finalization, MarkFinalizing, MarkFinalizingRefused,
         ReleaseInput, SettleRetry, BeginPublish, Publish, Ack, AbandonInput,
         CleanArtifacts, ClearJournal, FindsChanged
<1> QED
  BY <1>9, <1>10, <1>11, <1>12 DEF Next, Worker

\* Every step leaves each key barred or not.
LEMMA BarredTyped ==
  ASSUME IInv, [Next]_vars
  PROVE  barred' \in [Keys -> BOOLEAN]
<1>1. ASSUME UNCHANGED barred
      PROVE  barred' \in [Keys -> BOOLEAN]
  BY <1>1 DEF IInv, TypeOK
<1>2. CASE QuarantineQueue
  <2>1. job.key \in Keys
    BY <1>2 DEF QuarantineQueue, At, IInv, JobInv, TypeOK, Attempts
  <2>2. CASE Bar(job.key)
    BY <2>1, <2>2 DEF Bar, IInv, TypeOK
  <2>3. CASE UNCHANGED wqVars
    BY <1>1, <2>3 DEF wqVars
  <2> QED
    BY <1>2, <2>2, <2>3 DEF QuarantineQueue
<1>3. CASE Recovery \/ Poll \/ UNCHANGED vars
  BY <1>1, <1>3
     DEF vars, wqVars, Return, Grant, Recovery, StartClean, StartOrphan,
         OrphanRetry, StartRecovery, RecoverUnstarted, RecoverPreparing,
         RecoverDead, RecoverActive, RecoverUnclear, Poll, Claim
<1>4. CASE Startup
  BY <1>1, <1>4
     DEF wqVars, Return, Finish, Startup, GateTurnsBack, CreateJournal,
         InitBlocked, InitArtifacts, InitFails, MarkPreparing,
         MarkPreparingFails, Prepare, PrepareFails, PrepareFailsBlindly,
         StartRecoverNever, StartRecoverFound, MarkExecuting,
         MarkExecutingFails, Activate, ActivateFails
<1>5. CASE Control
  BY <1>1, <1>2, <1>5
     DEF wqVars, Control, LoseLease, ObserveDeath, Interrupt, BeginTermination,
         Kill, KillUnclear, KillLost, QuarantineQueue, QuarantineJournal
<1>6. CASE Finalization \/ Environment
  BY <1>1, <1>6
     DEF wqVars, Return, Finish, Withdraw, Request, Finalization,
         MarkFinalizing, MarkFinalizingRefused, ReleaseInput, SettleRetry,
         BeginPublish, Publish, Ack, AbandonInput, CleanArtifacts,
         ClearJournal, FindsChanged, Environment, Maintain, LeaseTaken,
         Enqueue, ObserverWrites, ObserverExits, GateCloses, Crash
<1> QED
  BY <1>3, <1>4, <1>5, <1>6 DEF Next, Worker

\* Every step leaves the proof of the observer's death given or not.
LEMMA ProofTyped ==
  ASSUME IInv, [Next]_vars
  PROVE  proof' \in BOOLEAN
<1> USE DEF Goto, Stop, Idle
<1>1. ASSUME proof' = proof \/ proof' = TRUE \/ proof' = FALSE
      PROVE  proof' \in BOOLEAN
  BY <1>1 DEF IInv, TypeOK
<1>2. CASE PrepareFails \/ ActivateFails
  BY <1>2, Zenon DEF PrepareFails, ActivateFails, AfterStartError, IInv, TypeOK
<1>3. CASE Recovery \/ Poll \/ UNCHANGED vars
  BY <1>1, <1>3
     DEF vars, worker, Replay, Recovery, StartClean, StartOrphan, OrphanRetry,
         StartRecovery, RecoverUnstarted, RecoverPreparing, RecoverDead,
         RecoverActive, RecoverUnclear, Poll, Claim
<1>4. CASE Startup
  BY <1>1, <1>2, <1>4
     DEF RetryClaimed, Startup, GateTurnsBack, CreateJournal, InitBlocked,
         InitArtifacts, InitFails, MarkPreparing, MarkPreparingFails, Prepare,
         PrepareFailsBlindly, StartRecoverNever, StartRecoverFound,
         MarkExecuting, MarkExecutingFails, Activate
<1>5. CASE Control
  BY <1>1, <1>5
     DEF Control, LoseLease, ObserveDeath, Interrupt, BeginTermination, Kill,
         KillUnclear, KillLost, QuarantineQueue, QuarantineJournal
<1>6. CASE Finalization \/ Environment
  BY <1>1, <1>6
     DEF worker, Finalization, MarkFinalizing, MarkFinalizingRefused,
         ReleaseInput, SettleRetry, BeginPublish, Publish, Ack, AbandonInput,
         CleanArtifacts, ClearJournal, FindsChanged, Environment, Maintain,
         LeaseTaken, Enqueue, ObserverWrites, ObserverExits, GateCloses, Crash
<1> QED
  BY <1>3, <1>4, <1>5, <1>6 DEF Next, Worker

\* Every step keeps the types.
LEMMA TypeNext == IInv /\ [Next]_vars => TypeOK'
<1> SUFFICES ASSUME IInv, [Next]_vars
             PROVE  TypeOK'
  OBVIOUS
<1> USE OrchestratorAssumption DEF At, Goto, Stop, Idle, NoFault
<1>1. /\ want' \in [Keys -> Targets \cup {None}]
      /\ grant' \in [Keys -> Grants \cup {None}]
  <2>1. CASE Recovery
    BY <2>1
       DEF Recovery, StartClean, StartOrphan, OrphanRetry, StartRecovery,
           RecoverUnstarted, RecoverPreparing, RecoverDead, RecoverActive,
           RecoverUnclear, Replay, Return, wqVars, IInv, TypeOK
  <2>2. CASE Poll
    BY <2>2 DEF Poll, Claim, Grant, IInv, TypeOK, Grants
  <2>3. CASE Startup
    BY <2>3
       DEF Startup, GateTurnsBack, CreateJournal, InitBlocked, InitArtifacts,
           InitFails, MarkPreparing, MarkPreparingFails, Prepare, PrepareFails,
           PrepareFailsBlindly, StartRecoverNever, StartRecoverFound,
           MarkExecuting, MarkExecutingFails, Activate, ActivateFails, Record,
           Return, Finish, wqVars, IInv, TypeOK
  <2>4. CASE Control
    BY <2>4
       DEF Control, LoseLease, ObserveDeath, Interrupt, BeginTermination, Kill,
           KillUnclear, KillLost, QuarantineQueue, QuarantineJournal, Record,
           Bar, wqVars, IInv, TypeOK
  <2>5. CASE Finalization
    BY <2>5
       DEF Finalization, MarkFinalizing, MarkFinalizingRefused, ReleaseInput,
           SettleRetry, BeginPublish, Publish, Ack, AbandonInput,
           CleanArtifacts, ClearJournal, FindsChanged, Return, Finish, wqVars,
           IInv, TypeOK
  <2>6. CASE Environment
    BY <2>6
       DEF Environment, Maintain, LeaseTaken, Enqueue, ObserverWrites,
           ObserverExits, GateCloses, Crash, Request, Return, Withdraw,
           GrantedTarget, wqVars, IInv, TypeOK, Grants
  <2>7. CASE UNCHANGED vars
    BY <2>7 DEF vars, wqVars, IInv, TypeOK
  <2> QED
    BY <2>1, <2>2, <2>3, <2>4, <2>5, <2>6, <2>7 DEF Next, Worker
<1>2. process' \in [Tokens -> {"none", "gated", "running", "dead"}]
  <2>1. CASE Recovery
    BY <2>1
       DEF Recovery, StartClean, StartOrphan, OrphanRetry, StartRecovery,
           RecoverUnstarted, RecoverPreparing, RecoverDead, RecoverActive,
           RecoverUnclear, Replay, NeverStarted, IInv, TypeOK
  <2>2. CASE Poll
    BY <2>2 DEF Poll, Claim, IInv, TypeOK
  <2>3. CASE Startup
    BY <2>3
       DEF Startup, GateTurnsBack, CreateJournal, InitBlocked, InitArtifacts,
           InitFails, MarkPreparing, MarkPreparingFails, Prepare, PrepareFails,
           PrepareFailsBlindly, StartRecoverNever, StartRecoverFound,
           MarkExecuting, MarkExecutingFails, Activate, ActivateFails, Record,
           NeverStarted, IInv, TypeOK
  <2>4. CASE Control
    BY <2>4
       DEF Control, LoseLease, ObserveDeath, Interrupt, BeginTermination, Kill,
           KillUnclear, KillLost, QuarantineQueue, QuarantineJournal, Record,
           IInv, TypeOK
  <2>5. CASE Finalization
    BY <2>5
       DEF Finalization, MarkFinalizing, MarkFinalizingRefused, ReleaseInput,
           SettleRetry, BeginPublish, Publish, Ack, AbandonInput,
           CleanArtifacts, ClearJournal, FindsChanged, IInv, TypeOK
  <2>6. CASE Environment
    BY <2>6
       DEF Environment, Maintain, LeaseTaken, Enqueue, ObserverWrites,
           ObserverExits, GateCloses, Crash, IInv, TypeOK
  <2>7. CASE UNCHANGED vars
    BY <2>7 DEF vars, IInv, TypeOK
  <2> QED
    BY <2>1, <2>2, <2>3, <2>4, <2>5, <2>6, <2>7 DEF Next, Worker
<1>3. artifacts' \in [Tokens -> {"none", "open", "retryable", "terminal"}]
  <2>1. CASE Recovery
    BY <2>1
       DEF Recovery, StartClean, StartOrphan, OrphanRetry, StartRecovery,
           RecoverUnstarted, RecoverPreparing, RecoverDead, RecoverActive,
           RecoverUnclear, Replay, durable, IInv, TypeOK
  <2>2. CASE Poll
    BY <2>2 DEF Poll, Claim, durable, IInv, TypeOK
  <2>3. CASE Startup
    BY <2>3
       DEF Startup, GateTurnsBack, CreateJournal, InitBlocked, InitArtifacts,
           InitFails, MarkPreparing, MarkPreparingFails, Prepare, PrepareFails,
           PrepareFailsBlindly, StartRecoverNever, StartRecoverFound,
           MarkExecuting, MarkExecutingFails, Activate, ActivateFails, Record,
           durable, IInv, TypeOK
  <2>4. CASE Control
    BY <2>4
       DEF Control, LoseLease, ObserveDeath, Interrupt, BeginTermination, Kill,
           KillUnclear, KillLost, QuarantineQueue, QuarantineJournal, Record,
           durable, IInv, TypeOK
  <2>5. CASE Finalization
    BY <2>5
       DEF Finalization, MarkFinalizing, MarkFinalizingRefused, ReleaseInput,
           SettleRetry, BeginPublish, Publish, Ack, AbandonInput,
           CleanArtifacts, ClearJournal, FindsChanged, durable, IInv, TypeOK
  <2>6. CASE Environment
    BY <2>6
       DEF Environment, Maintain, LeaseTaken, Enqueue, ObserverWrites,
           ObserverExits, GateCloses, Crash, durable, IInv, TypeOK
  <2>7. CASE UNCHANGED vars
    BY <2>7 DEF vars, durable, IInv, TypeOK
  <2> QED
    BY <2>1, <2>2, <2>3, <2>4, <2>5, <2>6, <2>7 DEF Next, Worker
<1>4. /\ released' \in SUBSET Tokens /\ manifest' \in SUBSET Attempts
      /\ used' \in SUBSET Tokens
  <2>1. CASE Recovery
    BY <2>1
       DEF Recovery, StartClean, StartOrphan, OrphanRetry, StartRecovery,
           RecoverUnstarted, RecoverPreparing, RecoverDead, RecoverActive,
           RecoverUnclear, Replay, durable, IInv, TypeOK
  <2>2. CASE Poll
    BY <2>2 DEF Poll, Claim, durable, IInv, TypeOK
  <2>3. CASE Startup
    BY <2>3
       DEF Startup, GateTurnsBack, CreateJournal, InitBlocked, InitArtifacts,
           InitFails, MarkPreparing, MarkPreparingFails, Prepare, PrepareFails,
           PrepareFailsBlindly, StartRecoverNever, StartRecoverFound,
           MarkExecuting, MarkExecutingFails, Activate, ActivateFails, Record,
           durable, IInv, TypeOK
  <2>4. CASE Control
    BY <2>4
       DEF Control, LoseLease, ObserveDeath, Interrupt, BeginTermination, Kill,
           KillUnclear, KillLost, QuarantineQueue, QuarantineJournal, Record,
           durable, IInv, TypeOK
  <2>5. CASE Finalization
    BY <2>5
       DEF Finalization, MarkFinalizing, MarkFinalizingRefused, ReleaseInput,
           SettleRetry, BeginPublish, Publish, Ack, AbandonInput,
           CleanArtifacts, ClearJournal, FindsChanged, durable, IInv, TypeOK,
           JobInv, TokenInv
  <2>6. CASE Environment
    BY <2>6
       DEF Environment, Maintain, LeaseTaken, Enqueue, ObserverWrites,
           ObserverExits, GateCloses, Crash, durable, IInv, TypeOK
  <2>7. CASE UNCHANGED vars
    BY <2>7 DEF vars, durable, IInv, TypeOK
  <2> QED
    BY <2>1, <2>2, <2>3, <2>4, <2>5, <2>6, <2>7 DEF Next, Worker
<1>5. /\ pc' \in Labels /\ job' \in Attempts \cup {None}
      /\ belief' \in Phases \cup {None}
  <2>1. CASE Recovery
    BY <2>1
       DEF Recovery, StartClean, StartOrphan, OrphanRetry, StartRecovery,
           RecoverUnstarted, RecoverPreparing, RecoverDead, RecoverActive,
           RecoverUnclear, OwnedKeys, AttemptOn, Replay, IInv, TypeOK,
           Attempts, Grants, Labels, JournalRec
  <2>2. CASE Poll
    BY <2>2 DEF Poll, Claim, Grant, IInv, TypeOK, Attempts, Labels
  <2>3. CASE Startup
    BY <2>3
       DEF Startup, GateTurnsBack, CreateJournal, InitBlocked, InitArtifacts,
           InitFails, MarkPreparing, MarkPreparingFails, Prepare, PrepareFails,
           PrepareFailsBlindly, StartRecoverNever, StartRecoverFound,
           MarkExecuting, MarkExecutingFails, Activate, ActivateFails, Record,
           AfterStartError, RetryClaimed, IInv, TypeOK, Labels, Phases
  <2>4. CASE Control
    BY <2>4
       DEF Control, LoseLease, ObserveDeath, Interrupt, BeginTermination, Kill,
           KillUnclear, KillLost, QuarantineQueue, QuarantineJournal, Record,
           IInv, TypeOK, Labels, Phases
  <2>5. CASE Finalization
    BY <2>5
       DEF Finalization, MarkFinalizing, MarkFinalizingRefused, ReleaseInput,
           SettleRetry, BeginPublish, Publish, Ack, AbandonInput,
           CleanArtifacts, ClearJournal, FindsChanged, IInv, TypeOK, Labels,
           Phases
  <2>6. CASE Environment
    BY <2>6
       DEF Environment, Maintain, LeaseTaken, Enqueue, ObserverWrites,
           ObserverExits, GateCloses, Crash, worker, IInv, TypeOK, Labels
  <2>7. CASE UNCHANGED vars
    BY <2>7 DEF vars, worker, IInv, TypeOK
  <2> QED
    BY <2>1, <2>2, <2>3, <2>4, <2>5, <2>6, <2>7 DEF Next, Worker
<1>6. /\ plan' \in Plans \cup {None}
      /\ then' \in {"finalize", "stop", "quarantine"}
  <2>1. CASE Recovery
    BY <2>1
       DEF Recovery, StartClean, StartOrphan, OrphanRetry, StartRecovery,
           RecoverUnstarted, RecoverPreparing, RecoverDead, RecoverActive,
           RecoverUnclear, Replay, IInv, TypeOK, Plans, NoProcess, JournalRec
  <2>2. CASE Poll
    BY <2>2 DEF Poll, Claim, IInv, TypeOK
  <2>3. CASE Startup
    BY <2>3
       DEF Startup, GateTurnsBack, CreateJournal, InitBlocked, InitArtifacts,
           InitFails, MarkPreparing, MarkPreparingFails, Prepare, PrepareFails,
           PrepareFailsBlindly, StartRecoverNever, StartRecoverFound,
           MarkExecuting, MarkExecutingFails, Activate, ActivateFails, Record,
           AfterStartError, RetryClaimed, IInv, TypeOK, Plans, NoProcess
  <2>4. CASE Control
    BY <2>4
       DEF Control, LoseLease, ObserveDeath, Interrupt, BeginTermination, Kill,
           KillUnclear, KillLost, QuarantineQueue, QuarantineJournal, Record,
           ReceiptPlan, IInv, TypeOK, Plans
  <2>5. CASE Finalization
    BY <2>5
       DEF Finalization, MarkFinalizing, MarkFinalizingRefused, ReleaseInput,
           SettleRetry, BeginPublish, Publish, Ack, AbandonInput,
           CleanArtifacts, ClearJournal, FindsChanged, IInv, TypeOK
  <2>6. CASE Environment
    BY <2>6
       DEF Environment, Maintain, LeaseTaken, Enqueue, ObserverWrites,
           ObserverExits, GateCloses, Crash, worker, IInv, TypeOK
  <2>7. CASE UNCHANGED vars
    BY <2>7 DEF vars, worker, IInv, TypeOK
  <2> QED
    BY <2>1, <2>2, <2>3, <2>4, <2>5, <2>6, <2>7 DEF Next, Worker
<1>7. faults' \in 0 .. MaxFaults
  <2>1. CASE Recovery
    BY <2>1
       DEF Recovery, StartClean, StartOrphan, OrphanRetry, StartRecovery,
           RecoverUnstarted, RecoverPreparing, RecoverDead, RecoverActive,
           RecoverUnclear, Fault, Replay, IInv, TypeOK
  <2>2. CASE Poll
    BY <2>2 DEF Poll, Claim, IInv, TypeOK
  <2>3. CASE Startup
    BY <2>3
       DEF Startup, GateTurnsBack, CreateJournal, InitBlocked, InitArtifacts,
           InitFails, MarkPreparing, MarkPreparingFails, Prepare, PrepareFails,
           PrepareFailsBlindly, StartRecoverNever, StartRecoverFound,
           MarkExecuting, MarkExecutingFails, Activate, ActivateFails, Fault,
           Record, NotWritten, IInv, TypeOK
  <2>4. CASE Control
    BY <2>4
       DEF Control, LoseLease, ObserveDeath, Interrupt, BeginTermination, Kill,
           KillUnclear, KillLost, QuarantineQueue, QuarantineJournal, Fault,
           Record, NotWritten, IInv, TypeOK
  <2>5. CASE Finalization
    BY <2>5
       DEF Finalization, MarkFinalizing, MarkFinalizingRefused, ReleaseInput,
           SettleRetry, BeginPublish, Publish, Ack, AbandonInput,
           CleanArtifacts, ClearJournal, FindsChanged, IInv, TypeOK
  <2>6. CASE Environment
    BY <2>6
       DEF Environment, Maintain, LeaseTaken, Enqueue, ObserverWrites,
           ObserverExits, GateCloses, Crash, Fault, IInv, TypeOK
  <2>7. CASE UNCHANGED vars
    BY <2>7 DEF vars, IInv, TypeOK
  <2> QED
    BY <2>1, <2>2, <2>3, <2>4, <2>5, <2>6, <2>7 DEF Next, Worker
<1> QED
  BY <1>1, <1>2, <1>3, <1>4, <1>5, <1>6, <1>7, JournalTyped, BarredTyped,
     ProofTyped
     DEF TypeOK

-----------------------------------------------------------------------------
(* The parts of the invariant.                                             *)

\* An attempt enters the worker's hands with its claim and the journal with
\* create(); only clear() takes it out.
LEMMA JobNext == IInv /\ [Next]_vars => JobInv'
<1> SUFFICES ASSUME IInv, [Next]_vars
             PROVE  JobInv'
  OBVIOUS
<1> USE OrchestratorAssumption
       DEF At, Goto, Stop, Idle, NoFault, Unstarted, Ended
<1>1. CASE Recovery
  BY <1>1
     DEF Recovery, StartClean, StartOrphan, OrphanRetry, StartRecovery,
         RecoverUnstarted, RecoverPreparing, RecoverDead, RecoverActive,
         RecoverUnclear, OwnedKeys, AttemptOn, Replay, durable, IInv, TypeOK,
         Attempts, Grants, JournalRec, JobInv
<1>2. CASE Poll
  BY <1>2 DEF Poll, Claim, Grant, durable, IInv, TypeOK, Attempts, JobInv
<1>3. CASE Startup
  <2>1. (job' = None) <=> pc' \in {"down", "idle"}
    BY <1>3
       DEF Startup, GateTurnsBack, CreateJournal, InitBlocked, InitArtifacts,
           InitFails, MarkPreparing, MarkPreparingFails, Prepare, PrepareFails,
           PrepareFailsBlindly, StartRecoverNever, StartRecoverFound,
           MarkExecuting, MarkExecutingFails, Activate, ActivateFails, Record,
           AfterStartError, RetryClaimed, IInv, JobInv
  <2>2. pc' \in {"idle", "orphan", "gate"} => journal' = None
    BY <1>3
       DEF Startup, GateTurnsBack, CreateJournal, InitBlocked, InitArtifacts,
           InitFails, MarkPreparing, MarkPreparingFails, Prepare, PrepareFails,
           PrepareFailsBlindly, StartRecoverNever, StartRecoverFound,
           MarkExecuting, MarkExecutingFails, Activate, ActivateFails, Record,
           AfterStartError, RetryClaimed, durable, IInv, JobInv
  <2>3. pc' \notin {"down", "idle", "orphan", "gate"}
        => journal' # None /\ journal'.attempt = job'
    <3>1. ASSUME UNCHANGED <<job, journal>>,
                 pc \notin {"down", "idle", "orphan", "gate"}
          PROVE  journal' # None /\ journal'.attempt = job'
      BY <3>1 DEF IInv, JobInv
    <3>2. CASE CreateJournal
      <4>1. Record("CLAIMED", FALSE, None) # None
        BY <3>2, RecordTyped DEF CreateJournal, Phases
      <4> QED
        BY <3>2, <4>1 DEF CreateJournal, Record
    <3>3. CASE MarkPreparing \/ MarkPreparingFails
      <4>1. journal # None /\ journal.attempt = job
        BY <3>3 DEF MarkPreparing, MarkPreparingFails, IInv, JobInv
      <4> QED
        BY <3>3, <4>1, TransitionKeeps
           DEF MarkPreparing, MarkPreparingFails, RetryClaimed, Phases
    <3>4. CASE PrepareFails
      <4>1. journal # None /\ journal.attempt = job /\ job' = job
        BY <3>4 DEF PrepareFails, AfterStartError, IInv, JobInv
      <4>2. Record("EXECUTING", TRUE, None) # None
        BY <3>4, RecordTyped DEF PrepareFails, Phases
      <4> QED
        BY <3>4, <4>1, <4>2 DEF PrepareFails, Record
    <3>5. CASE MarkExecuting \/ MarkExecutingFails
      <4>1. journal # None /\ journal.attempt = job
        BY <3>5 DEF MarkExecuting, MarkExecutingFails, IInv, JobInv
      <4> QED
        BY <3>5, <4>1, TransitionKeeps
           DEF MarkExecuting, MarkExecutingFails, Phases
    <3>6. CASE \/ GateTurnsBack \/ InitBlocked \/ InitArtifacts \/ InitFails
               \/ Prepare \/ PrepareFailsBlindly \/ StartRecoverNever
               \/ StartRecoverFound \/ Activate \/ ActivateFails
      BY <3>1, <3>6
         DEF durable, RetryClaimed, AfterStartError, GateTurnsBack,
             InitBlocked, InitArtifacts, InitFails, Prepare,
             PrepareFailsBlindly, StartRecoverNever, StartRecoverFound,
             Activate, ActivateFails
    <3> QED
      BY <1>3, <3>2, <3>3, <3>4, <3>5, <3>6 DEF Startup
  <2> QED
    BY <2>1, <2>2, <2>3 DEF JobInv
<1>4. CASE Control
  <2>1. (job' = None) <=> pc' \in {"down", "idle"}
    BY <1>4
       DEF Control, LoseLease, ObserveDeath, Interrupt, BeginTermination, Kill,
           KillUnclear, KillLost, QuarantineQueue, QuarantineJournal, Record,
           IInv, JobInv
  <2>2. pc' \in {"idle", "orphan", "gate"} => journal' = None
    BY <1>4
       DEF Control, LoseLease, ObserveDeath, Interrupt, BeginTermination, Kill,
           KillUnclear, KillLost, QuarantineQueue, QuarantineJournal, Record,
           IInv
  <2>3. pc' \notin {"down", "idle", "orphan", "gate"}
        => journal' # None /\ journal'.attempt = job'
    <3>1. ASSUME UNCHANGED <<job, journal>>,
                 pc \notin {"down", "idle", "orphan", "gate"}
          PROVE  journal' # None /\ journal'.attempt = job'
      BY <3>1 DEF IInv, JobInv
    <3>2. CASE BeginTermination
      <4>1. journal # None /\ journal.attempt = job
        BY <3>2 DEF BeginTermination, IInv, JobInv
      <4> QED
        BY <3>2, <4>1, TransitionKeeps DEF BeginTermination, Phases
    <3>3. CASE QuarantineJournal
      BY <3>3 DEF QuarantineJournal
    <3>4. CASE \/ LoseLease \/ ObserveDeath \/ Interrupt \/ Kill \/ KillUnclear
               \/ KillLost \/ QuarantineQueue
      BY <3>1, <3>4
         DEF durable, LoseLease, ObserveDeath, Interrupt, Kill, KillUnclear,
             KillLost, QuarantineQueue
    <3> QED
      BY <1>4, <3>2, <3>3, <3>4 DEF Control
  <2> QED
    BY <2>1, <2>2, <2>3 DEF JobInv
<1>5. CASE Finalization
  <2>1. (job' = None) <=> pc' \in {"down", "idle"}
    BY <1>5
       DEF Finalization, MarkFinalizing, MarkFinalizingRefused, ReleaseInput,
           SettleRetry, BeginPublish, Publish, Ack, AbandonInput,
           CleanArtifacts, ClearJournal, FindsChanged, IInv, JobInv
  <2>2. pc' \in {"idle", "orphan", "gate"} => journal' = None
    BY <1>5
       DEF Finalization, MarkFinalizing, MarkFinalizingRefused, ReleaseInput,
           SettleRetry, BeginPublish, Publish, Ack, AbandonInput,
           CleanArtifacts, ClearJournal, FindsChanged, IInv
  <2>3. pc' \notin {"down", "idle", "orphan", "gate"}
        => journal' # None /\ journal'.attempt = job'
    <3>1. ASSUME UNCHANGED <<job, journal>>,
                 pc \notin {"down", "idle", "orphan", "gate"}
          PROVE  journal' # None /\ journal'.attempt = job'
      BY <3>1 DEF IInv, JobInv
    <3>2. CASE MarkFinalizing
      <4>1. journal # None /\ journal.attempt = job
        BY <3>2 DEF MarkFinalizing, IInv, JobInv
      <4>2. plan \in Plans \cup {None} /\ (plan \notin NoProcess) \in BOOLEAN
        BY DEF IInv, TypeOK
      <4> QED
        BY <3>2, <4>1, <4>2, TransitionKeeps DEF MarkFinalizing, Phases
    <3>3. CASE ClearJournal
      BY <3>3 DEF ClearJournal
    <3>4. CASE \/ MarkFinalizingRefused \/ ReleaseInput \/ SettleRetry
               \/ BeginPublish \/ Publish \/ Ack \/ AbandonInput
               \/ CleanArtifacts \/ FindsChanged
      BY <3>1, <3>4
         DEF durable, MarkFinalizingRefused, ReleaseInput, SettleRetry,
             BeginPublish, Publish, Ack, AbandonInput, CleanArtifacts,
             FindsChanged
    <3> QED
      BY <1>5, <3>2, <3>3, <3>4 DEF Finalization
  <2> QED
    BY <2>1, <2>2, <2>3 DEF JobInv
<1>6. CASE Environment
  BY <1>6
     DEF Environment, Maintain, LeaseTaken, Enqueue, ObserverWrites,
         ObserverExits, GateCloses, Crash, durable, worker, IInv, JobInv
<1>7. CASE UNCHANGED vars
  BY <1>7 DEF vars, durable, worker, IInv, JobInv
<1> QED
  BY <1>1, <1>2, <1>3, <1>4, <1>5, <1>6, <1>7 DEF Next, Worker

\* A claim token not drawn yet has left no trace.
LEMMA TokenNext == IInv /\ [Next]_vars => TokenInv'
<1> SUFFICES ASSUME IInv, [Next]_vars
             PROVE  TokenInv'
  OBVIOUS
<1> USE OrchestratorAssumption
       DEF At, Goto, Stop, Idle, NoFault, Unstarted, Ended
<1>1. CASE Recovery
  BY <1>1
     DEF Recovery, StartClean, StartOrphan, OrphanRetry, StartRecovery,
         RecoverUnstarted, RecoverPreparing, RecoverDead, RecoverActive,
         RecoverUnclear, Replay, NeverStarted, durable, IInv, TypeOK, TokenInv
<1>2. CASE Poll
  BY <1>2 DEF Poll, Claim, durable, IInv, TokenInv
<1>3. CASE Startup
  <2>1. pc' \notin {"down", "idle", "orphan"} => job'.token \in used'
    BY <1>3
       DEF Startup, GateTurnsBack, CreateJournal, InitBlocked, InitArtifacts,
           InitFails, MarkPreparing, MarkPreparingFails, Prepare, PrepareFails,
           PrepareFailsBlindly, StartRecoverNever, StartRecoverFound,
           MarkExecuting, MarkExecutingFails, Activate, ActivateFails, Record,
           AfterStartError, RetryClaimed, IInv, TokenInv
  <2>2. journal' # None => journal'.attempt.token \in used'
    BY <1>3
       DEF Startup, GateTurnsBack, CreateJournal, InitBlocked, InitArtifacts,
           InitFails, MarkPreparing, MarkPreparingFails, Prepare, PrepareFails,
           PrepareFailsBlindly, StartRecoverNever, StartRecoverFound,
           MarkExecuting, MarkExecutingFails, Activate, ActivateFails, Record,
           Written, NotWritten, durable, IInv, TokenInv
  <2>3. \A c \in Tokens \ used' :
           Unstarted(c)' /\ artifacts'[c] = "none" /\ c \notin released'
    BY <1>3
       DEF Startup, GateTurnsBack, CreateJournal, InitBlocked, InitArtifacts,
           InitFails, MarkPreparing, MarkPreparingFails, Prepare, PrepareFails,
           PrepareFailsBlindly, StartRecoverNever, StartRecoverFound,
           MarkExecuting, MarkExecutingFails, Activate, ActivateFails, Record,
           NeverStarted, durable, IInv, TypeOK, TokenInv
  <2> QED
    BY <2>1, <2>2, <2>3 DEF TokenInv
<1>4. CASE Control
  <2>1. pc' \notin {"down", "idle", "orphan"} => job'.token \in used'
    BY <1>4
       DEF Control, LoseLease, ObserveDeath, Interrupt, BeginTermination, Kill,
           KillUnclear, KillLost, QuarantineQueue, QuarantineJournal, Record,
           IInv, TokenInv
  <2>2. journal' # None => journal'.attempt.token \in used'
    BY <1>4
       DEF Control, LoseLease, ObserveDeath, Interrupt, BeginTermination, Kill,
           KillUnclear, KillLost, QuarantineQueue, QuarantineJournal, Record,
           Written, NotWritten, durable, IInv, TokenInv
  <2>3. \A c \in Tokens \ used' :
           Unstarted(c)' /\ artifacts'[c] = "none" /\ c \notin released'
    BY <1>4
       DEF Control, LoseLease, ObserveDeath, Interrupt, BeginTermination, Kill,
           KillUnclear, KillLost, QuarantineQueue, QuarantineJournal, Record,
           durable, IInv, TypeOK, TokenInv
  <2> QED
    BY <2>1, <2>2, <2>3 DEF TokenInv
<1>5. CASE Finalization
  <2>1. pc' \notin {"down", "idle", "orphan"} => job'.token \in used'
    BY <1>5
       DEF Finalization, MarkFinalizing, MarkFinalizingRefused, ReleaseInput,
           SettleRetry, BeginPublish, Publish, Ack, AbandonInput,
           CleanArtifacts, ClearJournal, FindsChanged, IInv, TokenInv
  <2>2. journal' # None => journal'.attempt.token \in used'
    BY <1>5
       DEF Finalization, MarkFinalizing, MarkFinalizingRefused, ReleaseInput,
           SettleRetry, BeginPublish, Publish, Ack, AbandonInput,
           CleanArtifacts, ClearJournal, FindsChanged, CanTransition, Written,
           durable, IInv, TokenInv
  <2>3. \A c \in Tokens \ used' :
           Unstarted(c)' /\ artifacts'[c] = "none" /\ c \notin released'
    BY <1>5
       DEF Finalization, MarkFinalizing, MarkFinalizingRefused, ReleaseInput,
           SettleRetry, BeginPublish, Publish, Ack, AbandonInput,
           CleanArtifacts, ClearJournal, FindsChanged, durable, IInv, TypeOK,
           TokenInv
  <2> QED
    BY <2>1, <2>2, <2>3 DEF TokenInv
<1>6. CASE Environment
  BY <1>6
     DEF Environment, Maintain, LeaseTaken, Enqueue, ObserverWrites,
         ObserverExits, GateCloses, Crash, durable, worker, IInv, TypeOK,
         TokenInv
<1>7. CASE UNCHANGED vars
  BY <1>7 DEF vars, durable, worker, IInv, TokenInv
<1> QED
  BY <1>1, <1>2, <1>3, <1>4, <1>5, <1>6, <1>7 DEF Next, Worker

\* What a journal record says of its process stays true of it.
LEMMA RecordNext == IInv /\ [Next]_vars => RecordInv'
<1> SUFFICES ASSUME IInv, [Next]_vars
             PROVE  RecordInv'
  OBVIOUS
<1> USE OrchestratorAssumption
       DEF At, Goto, Stop, Idle, NoFault, Unstarted, Ended
<1>1. CASE Recovery
  BY <1>1
     DEF Recovery, StartClean, StartOrphan, OrphanRetry, StartRecovery,
         RecoverUnstarted, RecoverPreparing, RecoverDead, RecoverActive,
         RecoverUnclear, Live, Replay, NeverStarted, durable, IInv, TypeOK,
         JobInv, RecordInv
<1>2. CASE Poll
  BY <1>2 DEF Poll, Claim, durable, IInv, RecordInv
<1>3. CASE Startup
  BY <1>3
     DEF Startup, GateTurnsBack, CreateJournal, InitBlocked, InitArtifacts,
         InitFails, MarkPreparing, MarkPreparingFails, Prepare, PrepareFails,
         PrepareFailsBlindly, StartRecoverNever, StartRecoverFound,
         MarkExecuting, MarkExecutingFails, Activate, ActivateFails, Record,
         Written, NotWritten, durable, IInv, TypeOK, Plans, NoProcess,
         RecordInv, PhaseInv, ProcessInv
<1>4. CASE Control
  <2>1. CASE BeginTermination
    BY <2>1
       DEF BeginTermination, Record, CanTransition, LegalNext, Written,
           NotWritten, IInv, RecordInv
  <2>2. CASE QuarantineJournal
    BY <2>2
       DEF QuarantineJournal, Record, Written, NotWritten, IInv, TypeOK, Plans,
           NoProcess, RecordInv
  <2>3. CASE Kill
    BY <2>3 DEF Kill, durable, IInv, NoProcess, RecordInv, PhaseInv
  <2>4. CASE KillUnclear \/ KillLost
    BY <2>4
       DEF KillUnclear, KillLost, durable, IInv, TypeOK, Attempts, NoProcess,
           JournalRec, RecordInv, PhaseInv
  <2>5. CASE LoseLease \/ ObserveDeath \/ Interrupt \/ QuarantineQueue
    BY <2>5
       DEF LoseLease, ObserveDeath, Interrupt, QuarantineQueue, durable, IInv,
           RecordInv
  <2> QED
    BY <1>4, <2>1, <2>2, <2>3, <2>4, <2>5 DEF Control
<1>5. CASE Finalization
  <2>1. CASE MarkFinalizing
    BY <2>1
       DEF MarkFinalizing, Holds, Owned, Record, CanTransition, LegalNext,
           Written, EvidenceAt, Request, Grant, Return, Finish, Withdraw, Bar,
           GrantedTarget, wqVars, IInv, TypeOK, Attempts, Grants, Labels,
           Phases, Plans, NoProcess, AckPlans, JournalRec, Recovering,
           Starting, Closing, JobInv, TokenInv, RecordInv, PhaseInv,
           ProcessInv, InputInv, PublishInv, NoStrayObserver,
           InputsOutliveObserver
  <2>2. CASE \/ MarkFinalizingRefused \/ ReleaseInput \/ SettleRetry
             \/ BeginPublish \/ Publish \/ Ack \/ AbandonInput
             \/ CleanArtifacts \/ ClearJournal \/ FindsChanged
    BY <2>2
       DEF MarkFinalizingRefused, ReleaseInput, SettleRetry, BeginPublish,
           Publish, Ack, AbandonInput, CleanArtifacts, ClearJournal,
           FindsChanged, durable, IInv, RecordInv
  <2> QED
    BY <1>5, <2>1, <2>2 DEF Finalization
<1>6. CASE Environment
  BY <1>6
     DEF Environment, Maintain, LeaseTaken, Enqueue, ObserverWrites,
         ObserverExits, GateCloses, Crash, durable, IInv, TypeOK, TokenInv,
         RecordInv
<1>7. CASE UNCHANGED vars
  BY <1>7 DEF vars, durable, IInv, RecordInv
<1> QED
  BY <1>1, <1>2, <1>3, <1>4, <1>5, <1>6, <1>7 DEF Next, Worker

\* The worker knows the journalled phase wherever it relies on it.
LEMMA PhaseNext == IInv /\ [Next]_vars => PhaseInv'
<1> SUFFICES ASSUME IInv, [Next]_vars
             PROVE  PhaseInv'
  OBVIOUS
<1> USE OrchestratorAssumption
       DEF At, Goto, Stop, Idle, NoFault, Unstarted, Ended
<1>1. CASE Recovery
  BY <1>1
     DEF Recovery, StartClean, StartOrphan, OrphanRetry, StartRecovery,
         RecoverUnstarted, RecoverPreparing, RecoverDead, RecoverActive,
         RecoverUnclear, Replay, HasProcess, durable, IInv, TypeOK, JournalRec,
         Recovering, PhaseInv
<1>2. CASE Poll
  BY <1>2 DEF Poll, Claim, IInv, Recovering, PhaseInv
<1>3. CASE Startup
  BY <1>3
     DEF Startup, GateTurnsBack, CreateJournal, InitBlocked, InitArtifacts,
         InitFails, MarkPreparing, MarkPreparingFails, Prepare, PrepareFails,
         PrepareFailsBlindly, StartRecoverNever, StartRecoverFound,
         MarkExecuting, MarkExecutingFails, Activate, ActivateFails, Record,
         Written, NotWritten, AfterStartError, RetryClaimed, durable, IInv,
         TypeOK, Phases, Plans, Recovering, JobInv, RecordInv, PhaseInv
<1>4. CASE Control
  BY <1>4
     DEF Control, LoseLease, ObserveDeath, Interrupt, BeginTermination, Kill,
         KillUnclear, KillLost, QuarantineQueue, QuarantineJournal, Record,
         Written, NotWritten, durable, IInv, TypeOK, Phases, Plans, Recovering,
         JobInv, RecordInv, PhaseInv
<1>5. CASE Finalization
  BY <1>5
     DEF Finalization, MarkFinalizing, MarkFinalizingRefused, ReleaseInput,
         SettleRetry, BeginPublish, Publish, Ack, AbandonInput, CleanArtifacts,
         ClearJournal, FindsChanged, IInv, TypeOK, Phases, Recovering, PhaseInv
<1>6. CASE Environment
  BY <1>6
     DEF Environment, Maintain, LeaseTaken, Enqueue, ObserverWrites,
         ObserverExits, GateCloses, Crash, durable, worker, IInv, Recovering,
         PhaseInv
<1>7. CASE UNCHANGED vars
  BY <1>7 DEF vars, durable, worker, IInv, PhaseInv
<1> QED
  BY <1>1, <1>2, <1>3, <1>4, <1>5, <1>6, <1>7 DEF Next, Worker

\* No step leaves the worker finalizing an attempt whose observer may run.
LEMMA ProcessNext == IInv /\ [Next]_vars => ProcessInv'
<1> SUFFICES ASSUME IInv, [Next]_vars
             PROVE  ProcessInv'
  OBVIOUS
<1> USE OrchestratorAssumption
       DEF At, Goto, Stop, Idle, NoFault, Unstarted, Ended
<1>1. CASE Recovery
  BY <1>1
     DEF Recovery, StartClean, StartOrphan, OrphanRetry, StartRecovery,
         RecoverUnstarted, RecoverPreparing, RecoverDead, RecoverActive,
         RecoverUnclear, Replay, NeverStarted, HasProcess, IInv, TypeOK, Plans,
         NoProcess, Recovering, Starting, Closing, JobInv, RecordInv, PhaseInv,
         ProcessInv
<1>2. CASE Poll
  BY <1>2 DEF Poll, Claim, IInv, Recovering, Closing, TokenInv, ProcessInv
<1>3. CASE Startup
  BY <1>3
     DEF Startup, GateTurnsBack, CreateJournal, InitBlocked, InitArtifacts,
         InitFails, MarkPreparing, MarkPreparingFails, Prepare, PrepareFails,
         PrepareFailsBlindly, StartRecoverNever, StartRecoverFound,
         MarkExecuting, MarkExecutingFails, Activate, ActivateFails, Live,
         Record, NeverStarted, AfterStartError, RetryClaimed, IInv, TypeOK,
         Attempts, Plans, NoProcess, Recovering, Starting, Closing, JobInv,
         ProcessInv
<1>4. CASE Control
  BY <1>4
     DEF Control, LoseLease, ObserveDeath, Interrupt, BeginTermination, Kill,
         KillUnclear, KillLost, QuarantineQueue, QuarantineJournal, Record,
         ReceiptPlan, IInv, TypeOK, Attempts, Plans, NoProcess, Recovering,
         Starting, Closing, JobInv, ProcessInv
<1>5. CASE Finalization
  BY <1>5
     DEF Finalization, MarkFinalizing, MarkFinalizingRefused, ReleaseInput,
         SettleRetry, BeginPublish, Publish, Ack, AbandonInput, CleanArtifacts,
         ClearJournal, FindsChanged, IInv, TypeOK, Plans, NoProcess, Starting,
         Closing, ProcessInv
<1>6. CASE Environment
  BY <1>6
     DEF Environment, Maintain, LeaseTaken, Enqueue, ObserverWrites,
         ObserverExits, GateCloses, Crash, worker, IInv, TypeOK, Attempts,
         Plans, NoProcess, Recovering, Starting, Closing, JobInv, ProcessInv
<1>7. CASE UNCHANGED vars
  BY <1>7 DEF vars, worker, IInv, ProcessInv
<1> QED
  BY <1>1, <1>2, <1>3, <1>4, <1>5, <1>6, <1>7 DEF Next, Worker

\* Input, artifacts and evidence are there for as long as a step needs them.
LEMMA InputNext == IInv /\ [Next]_vars => InputInv'
<1> SUFFICES ASSUME IInv, [Next]_vars
             PROVE  InputInv'
  OBVIOUS
<1> USE OrchestratorAssumption
       DEF At, Goto, Stop, Idle, NoFault, Unstarted, Ended
<1>1. CASE Recovery
  BY <1>1
     DEF Recovery, StartClean, StartOrphan, OrphanRetry, StartRecovery,
         RecoverUnstarted, RecoverPreparing, RecoverDead, RecoverActive,
         RecoverUnclear, Replay, EvidenceAt, IInv, AckPlans, Recovering,
         Starting, JobInv, RecordInv, PhaseInv, InputInv
<1>2. CASE Poll
  BY <1>2 DEF Poll, Claim, durable, IInv, Starting, TokenInv, InputInv
<1>3. CASE Startup
  BY <1>3
     DEF Startup, GateTurnsBack, CreateJournal, InitBlocked, InitArtifacts,
         InitFails, MarkPreparing, MarkPreparingFails, Prepare, PrepareFails,
         PrepareFailsBlindly, StartRecoverNever, StartRecoverFound,
         MarkExecuting, MarkExecutingFails, Activate, ActivateFails, Record,
         AfterStartError, RetryClaimed, EvidenceAt, durable, IInv, TypeOK,
         AckPlans, Starting, TokenInv, InputInv
<1>4. CASE Control
  BY <1>4
     DEF Control, LoseLease, ObserveDeath, Interrupt, BeginTermination, Kill,
         KillUnclear, KillLost, QuarantineQueue, QuarantineJournal, Record,
         IInv, Starting, InputInv
<1>5. CASE Finalization
  BY <1>5
     DEF Finalization, MarkFinalizing, MarkFinalizingRefused, ReleaseInput,
         SettleRetry, BeginPublish, Publish, Ack, AbandonInput, CleanArtifacts,
         ClearJournal, FindsChanged, EvidenceAt, durable, IInv, Starting,
         InputInv
<1>6. CASE Environment
  BY <1>6
     DEF Environment, Maintain, LeaseTaken, Enqueue, ObserverWrites,
         ObserverExits, GateCloses, Crash, EvidenceAt, durable, worker, IInv,
         TypeOK, Attempts, Starting, JobInv, InputInv
<1>7. CASE UNCHANGED vars
  BY <1>7 DEF vars, durable, worker, IInv, InputInv, EvidenceAt
<1> QED
  BY <1>1, <1>2, <1>3, <1>4, <1>5, <1>6, <1>7 DEF Next, Worker

\* Between begin_publish and the acknowledgement nothing touches the claim.
LEMMA PublishNext == IInv /\ [Next]_vars => PublishInv'
<1> SUFFICES ASSUME IInv, [Next]_vars
             PROVE  PublishInv'
  OBVIOUS
<1> USE OrchestratorAssumption
       DEF At, Goto, Stop, Idle, NoFault, Unstarted, Ended
<1>1. CASE Recovery
  BY <1>1
     DEF Recovery, StartClean, StartOrphan, OrphanRetry, StartRecovery,
         RecoverUnstarted, RecoverPreparing, RecoverDead, RecoverActive,
         RecoverUnclear, Replay, IInv, PublishInv
<1>2. CASE Poll
  BY <1>2 DEF Poll, Claim, IInv, PublishInv
<1>3. CASE Startup
  BY <1>3
     DEF Startup, GateTurnsBack, CreateJournal, InitBlocked, InitArtifacts,
         InitFails, MarkPreparing, MarkPreparingFails, Prepare, PrepareFails,
         PrepareFailsBlindly, StartRecoverNever, StartRecoverFound,
         MarkExecuting, MarkExecutingFails, Activate, ActivateFails, Record,
         AfterStartError, RetryClaimed, IInv, PublishInv
<1>4. CASE Control
  BY <1>4
     DEF Control, LoseLease, ObserveDeath, Interrupt, BeginTermination, Kill,
         KillUnclear, KillLost, QuarantineQueue, QuarantineJournal, Record,
         IInv, PublishInv
<1>5. CASE Finalization
  BY <1>5
     DEF Finalization, MarkFinalizing, MarkFinalizingRefused, ReleaseInput,
         SettleRetry, BeginPublish, Publish, Ack, AbandonInput, CleanArtifacts,
         ClearJournal, FindsChanged, Holds, Owned, wqVars, IInv, PublishInv
<1>6. CASE Environment
  BY <1>6
     DEF Environment, Maintain, LeaseTaken, Enqueue, ObserverWrites,
         ObserverExits, GateCloses, Crash, Holds, Owned, Fenced, Request,
         Return, wqVars, durable, worker, IInv, TypeOK, Attempts, JobInv,
         PublishInv
<1>7. CASE UNCHANGED vars
  BY <1>7 DEF vars, wqVars, durable, worker, IInv, PublishInv, Holds, Owned
<1> QED
  BY <1>1, <1>2, <1>3, <1>4, <1>5, <1>6, <1>7 DEF Next, Worker

\* Only a journalled attempt with a handle is activated, and its record is
\* kept until its observer has ended.
LEMMA StrayNext == IInv /\ [Next]_vars => NoStrayObserver'
<1> SUFFICES ASSUME IInv, [Next]_vars
             PROVE  NoStrayObserver'
  OBVIOUS
<1> USE OrchestratorAssumption
       DEF At, Goto, Stop, Idle, NoFault, Unstarted, Ended
<1>1. CASE Recovery
  BY <1>1
     DEF Recovery, StartClean, StartOrphan, OrphanRetry, StartRecovery,
         RecoverUnstarted, RecoverPreparing, RecoverDead, RecoverActive,
         RecoverUnclear, Replay, NeverStarted, durable, IInv, TypeOK,
         NoStrayObserver
<1>2. CASE Poll
  BY <1>2 DEF Poll, Claim, IInv, JobInv, NoStrayObserver
<1>3. CASE Startup
  BY <1>3
     DEF Startup, GateTurnsBack, CreateJournal, InitBlocked, InitArtifacts,
         InitFails, MarkPreparing, MarkPreparingFails, Prepare, PrepareFails,
         PrepareFailsBlindly, StartRecoverNever, StartRecoverFound,
         MarkExecuting, MarkExecutingFails, Activate, ActivateFails, Record,
         NeverStarted, durable, IInv, TypeOK, JobInv, RecordInv, PhaseInv,
         NoStrayObserver
<1>4. CASE Control
  <2>1. CASE BeginTermination
    <3>1. journal # None /\ pc \notin {"down", "idle"}
      BY <2>1 DEF BeginTermination, IInv, JobInv
    <3>2. /\ journal' # None /\ journal'.attempt = journal.attempt
          /\ journal.handle => journal'.handle
      BY <2>1, <3>1, TransitionKeeps DEF BeginTermination, Phases
    <3> QED
      BY <2>1, <3>1, <3>2 DEF BeginTermination, IInv, NoStrayObserver
  <2>2. CASE QuarantineJournal
    <3>1. journal # None /\ pc \notin {"down", "idle"}
      BY <2>2 DEF QuarantineJournal, IInv, JobInv
    <3>2. /\ journal' # None /\ journal'.attempt = journal.attempt
          /\ journal.handle => journal'.handle
      BY <2>2, <3>1, TransitionKeeps DEF QuarantineJournal, Phases
    <3> QED
      BY <2>2, <3>1, <3>2 DEF QuarantineJournal, IInv, NoStrayObserver
  <2>3. CASE \/ LoseLease \/ ObserveDeath \/ Interrupt \/ Kill \/ KillUnclear
             \/ KillLost \/ QuarantineQueue
    BY <2>3
       DEF LoseLease, ObserveDeath, Interrupt, Kill, KillUnclear, KillLost,
           QuarantineQueue, durable, IInv, TypeOK, NoStrayObserver
  <2> QED
    BY <1>4, <2>1, <2>2, <2>3 DEF Control
<1>5. CASE Finalization
  BY <1>5
     DEF Finalization, MarkFinalizing, MarkFinalizingRefused, ReleaseInput,
         SettleRetry, BeginPublish, Publish, Ack, AbandonInput, CleanArtifacts,
         ClearJournal, FindsChanged, IInv, Closing, JobInv, ProcessInv,
         NoStrayObserver
<1>6. CASE Environment
  BY <1>6
     DEF Environment, Maintain, LeaseTaken, Enqueue, ObserverWrites,
         ObserverExits, GateCloses, Crash, durable, IInv, TypeOK,
         NoStrayObserver
<1>7. CASE UNCHANGED vars
  BY <1>7 DEF vars, durable, IInv, NoStrayObserver
<1> QED
  BY <1>1, <1>2, <1>3, <1>4, <1>5, <1>6, <1>7 DEF Next, Worker

\* Input and artifacts are only let go of when the observer has ended.
LEMMA InputsNext == IInv /\ [Next]_vars => InputsOutliveObserver'
<1> SUFFICES ASSUME IInv, [Next]_vars
             PROVE  InputsOutliveObserver'
  OBVIOUS
<1> USE OrchestratorAssumption
       DEF At, Goto, Stop, Idle, NoFault, Unstarted, Ended
<1>1. CASE Recovery
  BY <1>1
     DEF Recovery, StartClean, StartOrphan, OrphanRetry, StartRecovery,
         RecoverUnstarted, RecoverPreparing, RecoverDead, RecoverActive,
         RecoverUnclear, Replay, NeverStarted, durable, IInv, TypeOK,
         InputsOutliveObserver
<1>2. CASE Poll
  BY <1>2 DEF Poll, Claim, IInv, JobInv, NoStrayObserver, InputsOutliveObserver
<1>3. CASE Startup
  BY <1>3
     DEF Startup, GateTurnsBack, CreateJournal, InitBlocked, InitArtifacts,
         InitFails, MarkPreparing, MarkPreparingFails, Prepare, PrepareFails,
         PrepareFailsBlindly, StartRecoverNever, StartRecoverFound,
         MarkExecuting, MarkExecutingFails, Activate, ActivateFails, Record,
         NeverStarted, durable, IInv, TypeOK, Starting, InputInv,
         InputsOutliveObserver
<1>4. CASE Control
  BY <1>4
     DEF Control, LoseLease, ObserveDeath, Interrupt, BeginTermination, Kill,
         KillUnclear, KillLost, QuarantineQueue, QuarantineJournal, Record,
         durable, IInv, TypeOK, InputsOutliveObserver
<1>5. CASE Finalization
  BY <1>5
     DEF Finalization, MarkFinalizing, MarkFinalizingRefused, ReleaseInput,
         SettleRetry, BeginPublish, Publish, Ack, AbandonInput, CleanArtifacts,
         ClearJournal, FindsChanged, IInv, Closing, JobInv, ProcessInv,
         NoStrayObserver, InputsOutliveObserver
<1>6. CASE Environment
  BY <1>6
     DEF Environment, Maintain, LeaseTaken, Enqueue, ObserverWrites,
         ObserverExits, GateCloses, Crash, durable, IInv, TypeOK,
         InputsOutliveObserver
<1>7. CASE UNCHANGED vars
  BY <1>7 DEF vars, durable, IInv, InputsOutliveObserver
<1> QED
  BY <1>1, <1>2, <1>3, <1>4, <1>5, <1>6, <1>7 DEF Next, Worker

-----------------------------------------------------------------------------
(* The claims the worker's owner token holds.                              *)

Ours(k) == grant[k] # None /\ ~barred[k]

\* A key is among the owned ones when its claim is the worker's own.
LEMMA OwnedOurs ==
  /\ \A k : k \in OwnedKeys <=> k \in Keys /\ Ours(k)
  /\ \A k : k \in OwnedKeys' <=> k \in Keys /\ Ours(k)'
BY DEF OwnedKeys, Ours

\* Only a claim makes a key the worker's own.
LEMMA OursShrinks ==
  ASSUME IInv, [Next]_vars, ~Poll, NEW k \in Keys, Ours(k)'
  PROVE  Ours(k) /\ grant'[k] = grant[k]
<1> USE OrchestratorAssumption DEF At, Goto, Stop, Idle, NoFault
<1>1. CASE Recovery
  BY <1>1
     DEF Recovery, StartClean, StartOrphan, OrphanRetry, StartRecovery,
         RecoverUnstarted, RecoverPreparing, RecoverDead, RecoverActive,
         RecoverUnclear, Replay, Return, wqVars, IInv, TypeOK, Ours
<1>2. CASE Startup
  BY <1>2
     DEF Startup, GateTurnsBack, CreateJournal, InitBlocked, InitArtifacts,
         InitFails, MarkPreparing, MarkPreparingFails, Prepare, PrepareFails,
         PrepareFailsBlindly, StartRecoverNever, StartRecoverFound,
         MarkExecuting, MarkExecutingFails, Activate, ActivateFails, Record,
         Return, Finish, wqVars, IInv, TypeOK, Ours
<1>3. CASE Control
  BY <1>3
     DEF Control, LoseLease, ObserveDeath, Interrupt, BeginTermination, Kill,
         KillUnclear, KillLost, QuarantineQueue, QuarantineJournal, Record,
         Bar, wqVars, IInv, TypeOK, Ours
<1>4. CASE Finalization
  BY <1>4
     DEF Finalization, MarkFinalizing, MarkFinalizingRefused, ReleaseInput,
         SettleRetry, BeginPublish, Publish, Ack, AbandonInput, CleanArtifacts,
         ClearJournal, FindsChanged, Return, Finish, wqVars, IInv, TypeOK, Ours
<1>5. CASE Environment
  BY <1>5
     DEF Environment, Maintain, LeaseTaken, Enqueue, ObserverWrites,
         ObserverExits, GateCloses, Crash, Request, Return, Withdraw, wqVars,
         IInv, TypeOK, Ours
<1>6. CASE UNCHANGED vars
  BY <1>6 DEF vars, wqVars, Ours
<1> QED
  BY <1>1, <1>2, <1>3, <1>4, <1>5, <1>6 DEF Next, Worker

\* What the worker owns after a step other than a poll, it owned before.
LEMMA OwnedKept ==
  ASSUME IInv, [Next]_vars, ~Poll, NEW k \in OwnedKeys'
  PROVE  k \in OwnedKeys /\ AttemptOn(k)' = AttemptOn(k)
BY OursShrinks, OwnedOurs DEF AttemptOn

Unclaimed == {"idle", "recover_lost", "kill_lost", "abandon", "cleanup",
              "clear"}

\* Without a renewal that fails for no reason, recovery abandons only a claim
\* that is gone, and the worker polls only when it owns nothing.
LEMMA UnclaimedNext ==
  ASSUME IInv, ClaimInv, ~RecoveryRenewFails, [Next]_vars, ~Poll,
         pc' \in Unclaimed
  PROVE  OwnedKeys' = {}
<1> SUFFICES ASSUME NEW k \in OwnedKeys'
             PROVE  FALSE
  OBVIOUS
<1>1. Ours(k) /\ k \in OwnedKeys /\ AttemptOn(k)' = AttemptOn(k)
  BY OwnedKept, OwnedOurs
<1>2. k \in Keys /\ Ours(k)'
  BY OwnedOurs
<1> USE OrchestratorAssumption DEF At, Goto, Stop, Idle, NoFault
<1>3. CASE Recovery
  BY <1>1, <1>2, <1>3
     DEF Recovery, StartClean, StartOrphan, OrphanRetry, StartRecovery,
         RecoverUnstarted, RecoverPreparing, RecoverDead, RecoverActive,
         RecoverUnclear, AttemptOn, Replay, Return, IInv, TypeOK, JobInv, Ours,
         ClaimInv, Unclaimed
<1>4. CASE Startup
  BY <1>1, <1>2, <1>4
     DEF Startup, GateTurnsBack, CreateJournal, InitBlocked, InitArtifacts,
         InitFails, MarkPreparing, MarkPreparingFails, Prepare, PrepareFails,
         PrepareFailsBlindly, StartRecoverNever, StartRecoverFound,
         MarkExecuting, MarkExecutingFails, Activate, ActivateFails, AttemptOn,
         Record, AfterStartError, RetryClaimed, Return, Finish, IInv, TypeOK,
         JobInv, Ours, ClaimInv, Unclaimed
<1>5. CASE Control
  BY <1>1, <1>2, <1>5
     DEF Control, LoseLease, ObserveDeath, Interrupt, BeginTermination, Kill,
         KillUnclear, KillLost, QuarantineQueue, QuarantineJournal, Record,
         IInv, ClaimInv, Unclaimed
<1>6. CASE Finalization
  BY <1>1, <1>2, <1>6
     DEF Finalization, MarkFinalizing, MarkFinalizingRefused, ReleaseInput,
         SettleRetry, BeginPublish, Publish, Ack, AbandonInput, CleanArtifacts,
         ClearJournal, FindsChanged, AttemptOn, Return, Finish, IInv, TypeOK,
         JobInv, Ours, ClaimInv, Unclaimed
<1>7. CASE Environment
  BY <1>1, <1>2, <1>7
     DEF Environment, Maintain, LeaseTaken, Enqueue, ObserverWrites,
         ObserverExits, GateCloses, Crash, worker, IInv, ClaimInv, Unclaimed
<1>8. CASE UNCHANGED vars
  BY <1>1, <1>8 DEF vars, worker, ClaimInv, Unclaimed
<1> QED
  BY <1>3, <1>4, <1>5, <1>6, <1>7, <1>8 DEF Next, Worker

\* A claim that stays owned stays the one in hand and in the journal.
LEMMA OwnedIsKnown ==
  ASSUME IInv, ClaimInv, [Next]_vars, ~Poll, NEW k \in OwnedKeys'
  PROVE  /\ job' # None => AttemptOn(k)' = job'
         /\ journal' # None => AttemptOn(k)' = journal'.attempt
<1>1. k \in OwnedKeys /\ AttemptOn(k)' = AttemptOn(k)
  BY OwnedKept
<1> USE OrchestratorAssumption DEF At, Goto, Stop, Idle, NoFault
<1>2. CASE Recovery
  BY <1>1, <1>2
     DEF Recovery, StartClean, StartOrphan, OrphanRetry, StartRecovery,
         RecoverUnstarted, RecoverPreparing, RecoverDead, RecoverActive,
         RecoverUnclear, Replay, durable, IInv, ClaimInv
<1>3. CASE Startup
  BY <1>1, <1>3
     DEF Startup, GateTurnsBack, CreateJournal, InitBlocked, InitArtifacts,
         InitFails, MarkPreparing, MarkPreparingFails, Prepare, PrepareFails,
         PrepareFailsBlindly, StartRecoverNever, StartRecoverFound,
         MarkExecuting, MarkExecutingFails, Activate, ActivateFails, Record,
         Written, NotWritten, AfterStartError, RetryClaimed, durable, IInv,
         JobInv, ClaimInv
<1>4. CASE Control
  BY <1>1, <1>4
     DEF Control, LoseLease, ObserveDeath, Interrupt, BeginTermination, Kill,
         KillUnclear, KillLost, QuarantineQueue, QuarantineJournal, Record,
         CanTransition, Written, NotWritten, durable, IInv, ClaimInv
<1>5. CASE Finalization
  BY <1>1, <1>5
     DEF Finalization, MarkFinalizing, MarkFinalizingRefused, ReleaseInput,
         SettleRetry, BeginPublish, Publish, Ack, AbandonInput, CleanArtifacts,
         ClearJournal, FindsChanged, CanTransition, Written, durable, IInv,
         ClaimInv
<1>6. CASE Environment
  BY <1>1, <1>6
     DEF Environment, Maintain, LeaseTaken, Enqueue, ObserverWrites,
         ObserverExits, GateCloses, Crash, durable, worker, IInv, ClaimInv
<1>7. CASE UNCHANGED vars
  BY <1>1, <1>7 DEF vars, durable, worker, ClaimInv
<1> QED
  BY <1>2, <1>3, <1>4, <1>5, <1>6, <1>7 DEF Next, Worker

\* The result a checkpoint names is removed only when its claim is gone.
LEMMA ReplayableNext ==
  ASSUME IInv, ClaimInv, [Next]_vars
  PROVE  CheckpointReplayable'
<1> USE OrchestratorAssumption DEF At, Goto, Stop, Idle, NoFault
<1>1. CASE Recovery
  BY <1>1
     DEF Recovery, StartClean, StartOrphan, OrphanRetry, StartRecovery,
         RecoverUnstarted, RecoverPreparing, RecoverDead, RecoverActive,
         RecoverUnclear, Holds, Owned, Replay, EvidenceAt, wqVars, durable,
         IInv, JobInv, ClaimInv, CheckpointReplayable
<1>2. CASE Poll
  BY <1>2 DEF Poll, Claim, durable, IInv, JobInv, CheckpointReplayable
<1>3. CASE Startup
  BY <1>3
     DEF Startup, GateTurnsBack, CreateJournal, InitBlocked, InitArtifacts,
         InitFails, MarkPreparing, MarkPreparingFails, Prepare, PrepareFails,
         PrepareFailsBlindly, StartRecoverNever, StartRecoverFound,
         MarkExecuting, MarkExecutingFails, Activate, ActivateFails, Record,
         Written, NotWritten, durable, IInv, JobInv, RecordInv, PhaseInv,
         CheckpointReplayable
<1>4. CASE Control
  BY <1>4
     DEF Control, LoseLease, ObserveDeath, Interrupt, BeginTermination, Kill,
         KillUnclear, KillLost, QuarantineQueue, QuarantineJournal, Holds,
         Owned, Record, Written, NotWritten, EvidenceAt, Bar, wqVars, durable,
         IInv, TypeOK, JobInv, ClaimInv, CheckpointReplayable
<1>5. CASE Finalization
  BY <1>5
     DEF Finalization, MarkFinalizing, MarkFinalizingRefused, ReleaseInput,
         SettleRetry, BeginPublish, Publish, Ack, AbandonInput, CleanArtifacts,
         ClearJournal, FindsChanged, Holds, Owned, OwnedKeys, Record, Written,
         EvidenceAt, wqVars, durable, IInv, TypeOK, Attempts, JobInv,
         PublishInv, ClaimInv, CheckpointReplayable
<1>6. CASE Environment
  BY <1>6
     DEF Environment, Maintain, LeaseTaken, Enqueue, ObserverWrites,
         ObserverExits, GateCloses, Crash, Holds, Owned, EvidenceAt, Request,
         Return, Withdraw, wqVars, durable, IInv, TypeOK, Attempts, JournalRec,
         ClaimInv, CheckpointReplayable
<1>7. CASE UNCHANGED vars
  BY <1>7
     DEF vars, wqVars, durable, ClaimInv, CheckpointReplayable, Owned, Holds,
         EvidenceAt
<1> QED
  BY <1>1, <1>2, <1>3, <1>4, <1>5, <1>6, <1>7 DEF Next, Worker

\* Unless a renewal in recovery fails for no reason, each step keeps the claims
\* of the worker with the job in hand and the journal.
LEMMA ClaimNext ==
  ASSUME IInv, ClaimInv, ~RecoveryRenewFails, [Next]_vars
  PROVE  ClaimInv'
<1>1. CASE ~Poll
  <2>1. pc' \in Unclaimed => OwnedKeys' = {}
    BY <1>1, UnclaimedNext
  <2>2. \A k \in OwnedKeys' : \A other \in OwnedKeys' : other = k
    BY <1>1, OwnedKept DEF ClaimInv
  <2>3. \A k \in OwnedKeys' :
           /\ job' # None => AttemptOn(k)' = job'
           /\ journal' # None => AttemptOn(k)' = journal'.attempt
    BY <1>1, OwnedIsKnown
  <2> QED
    BY <2>1, <2>2, <2>3, ReplayableNext DEF ClaimInv, Unclaimed
<1>2. CASE Poll
  <2>1. PICK k \in Keys, c \in Tokens : Claim(k, c)
    BY <1>2 DEF Poll
  <2>2. OwnedKeys = {} /\ journal' = None /\ pc' = "gate"
    BY <2>1 DEF Claim, At, durable, ClaimInv, IInv, JobInv
  <2>3. grant' = [grant EXCEPT ![k] = [token |-> c, target |-> want[k]]]
    BY <2>1 DEF Claim, Grant
  <2>4. \A other \in OwnedKeys' : other = k
    BY <2>1, <2>2, <2>3, OwnedOurs DEF Claim, Grant, Ours
  <2>5. AttemptOn(k)' = job'
    BY <2>1, <2>3 DEF Claim, AttemptOn, IInv, TypeOK
  <2> QED
    BY <2>2, <2>4, <2>5, ReplayableNext DEF ClaimInv
<1> QED
  BY <1>1, <1>2

-----------------------------------------------------------------------------
(* The theorems.                                                           *)

\* Every step keeps the inductive invariant.
LEMMA IInvNext == IInv /\ [Next]_vars => IInv'
BY TypeNext, JobNext, TokenNext, RecordNext, PhaseNext, ProcessNext, InputNext,
   PublishNext, StrayNext, InputsNext, ClaimNext
   DEF IInv

\* In every reachable state the step the worker is at, the journal, the
\* processes and the claim agree as IInv says.
THEOREM Invariance == Spec => []IInv
<1>1. IInv /\ UNCHANGED vars => IInv'
  BY IInvNext
<1> QED
  BY IInvInit, IInvNext, <1>1, PTL DEF Spec

\* Every record, process and local keeps its type.
THEOREM TypeCorrect == Spec => []TypeOK
<1>1. IInv => TypeOK
  BY DEF IInv
<1> QED
  BY <1>1, Invariance, PTL

\* An observer past its gate is always the journalled one, with its handle:
\* no crash or half-done journal write leaves one that recovery cannot find.
THEOREM ObserversAreJournalled == Spec => []NoStrayObserver
<1>1. IInv => NoStrayObserver
  BY DEF IInv
<1> QED
  BY <1>1, Invariance, PTL

\* No path of finalization, retry or abandonment releases the input or the
\* artifacts of an attempt whose observer still runs.
THEOREM InputsAreKept == Spec => []InputsOutliveObserver
<1>1. IInv => InputsOutliveObserver
  BY DEF IInv
<1> QED
  BY <1>1, Invariance, PTL

\* If the renewal in recover() fails only for a claim that is gone, its two
\* fatal checks never fire.
THEOREM ClaimIsFound ==
  ASSUME ~RecoveryRenewFails
  PROVE  Spec => []RecoveryFindsItsClaim
<1>1. IInv => RecoveryFindsItsClaim
  <2> SUFFICES ASSUME ClaimInv
               PROVE  RecoveryFindsItsClaim
    BY DEF IInv
  <2>1. CASE OwnedKeys = {}
    BY <2>1 DEF RecoveryFindsItsClaim
  <2>2. CASE OwnedKeys # {}
    <3>1. PICK k \in OwnedKeys : TRUE
      BY <2>2
    <3>2. OwnedKeys = {k} /\ (journal # None => AttemptOn(k) = journal.attempt)
      BY <3>1 DEF ClaimInv
    <3> QED
      BY <3>1, <3>2 DEF RecoveryFindsItsClaim, OwnedKeys
  <2> QED
    BY <2>1, <2>2
<1> QED
  BY <1>1, Invariance, PTL

\* Under the same hypothesis every checkpoint whose claim is still owned can
\* be replayed.
THEOREM CheckpointIsReplayable ==
  ASSUME ~RecoveryRenewFails
  PROVE  Spec => []CheckpointReplayable
<1>1. IInv => CheckpointReplayable
  BY DEF IInv, ClaimInv
<1> QED
  BY <1>1, Invariance, PTL

-----------------------------------------------------------------------------
(* Publication.                                                            *)

\* Only publish() adds to the manifest.
LEMMA ManifestStep ==
  ASSUME IInv, [Next]_vars, NEW j \in manifest' \ manifest
  PROVE  Publish /\ j = job
<1>1. UNCHANGED manifest \/ Publish
  <2>1. CASE Recovery \/ Poll \/ Environment \/ UNCHANGED vars
    BY <2>1
       DEF vars, durable, Recovery, StartClean, StartOrphan, OrphanRetry,
           StartRecovery, RecoverUnstarted, RecoverPreparing, RecoverDead,
           RecoverActive, RecoverUnclear, Poll, Claim, Environment, Maintain,
           LeaseTaken, Enqueue, ObserverWrites, ObserverExits, GateCloses,
           Crash
  <2>2. CASE Startup
    BY <2>2
       DEF durable, Startup, GateTurnsBack, CreateJournal, InitBlocked,
           InitArtifacts, InitFails, MarkPreparing, MarkPreparingFails,
           Prepare, PrepareFails, PrepareFailsBlindly, StartRecoverNever,
           StartRecoverFound, MarkExecuting, MarkExecutingFails, Activate,
           ActivateFails
  <2>3. CASE Control
    BY <2>3
       DEF durable, Control, LoseLease, ObserveDeath, Interrupt,
           BeginTermination, Kill, KillUnclear, KillLost, QuarantineQueue,
           QuarantineJournal
  <2>4. CASE Finalization
    BY <2>4
       DEF durable, Finalization, MarkFinalizing, MarkFinalizingRefused,
           ReleaseInput, SettleRetry, BeginPublish, Ack, AbandonInput,
           CleanArtifacts, ClearJournal, FindsChanged
  <2> QED
    BY <2>1, <2>2, <2>3, <2>4 DEF Next, Worker
<1> QED
  BY <1>1 DEF Publish

\* What IInv says when the worker is about to publish.
LEMMA PublishWitness ==
  ASSUME IInv, At("publish")
  PROVE  /\ process[job.token] \in {"none", "dead"}
         /\ artifacts[job.token] = "terminal"
         /\ Owned(job) /\ want[job.key] = job.target
<1>1. plan \in AckPlans /\ EvidenceAt(job.token, plan)
  BY DEF At, IInv, PublishInv, InputInv
<1>2. plan = "dependency_block" \/ proof
  BY <1>1 DEF At, IInv, ProcessInv, Closing, AckPlans, NoProcess
<1> QED
  BY <1>1, <1>2 DEF At, IInv, ProcessInv, PublishInv, EvidenceAt, Unstarted

\* Only an acknowledgement, the gate's rejection or an operator forgets a
\* wanted target.
LEMMA ForgetStep ==
  ASSUME IInv, [Next]_vars, NEW k \in Keys, want'[k] # want[k],
         want'[k] = None, pc \notin {"down", "gate"}
  PROVE  Ack /\ k = job.key /\ Finish(k)
<1> USE OrchestratorAssumption DEF At
<1>1. CASE Recovery \/ Poll \/ UNCHANGED vars
  BY <1>1
     DEF vars, wqVars, Return, Grant, Recovery, StartClean, StartOrphan,
         OrphanRetry, StartRecovery, RecoverUnstarted, RecoverPreparing,
         RecoverDead, RecoverActive, RecoverUnclear, Poll, Claim
<1>2. CASE Startup
  BY <1>2
     DEF wqVars, Startup, GateTurnsBack, CreateJournal, InitBlocked,
         InitArtifacts, InitFails, MarkPreparing, MarkPreparingFails, Prepare,
         PrepareFails, PrepareFailsBlindly, StartRecoverNever,
         StartRecoverFound, MarkExecuting, MarkExecutingFails, Activate,
         ActivateFails
<1>3. CASE Control
  BY <1>3
     DEF wqVars, Bar, Control, LoseLease, ObserveDeath, Interrupt,
         BeginTermination, Kill, KillUnclear, KillLost, QuarantineQueue,
         QuarantineJournal
<1>4. CASE Finalization
  <2>1. Ack
    BY <1>4
       DEF wqVars, Return, Finalization, MarkFinalizing, MarkFinalizingRefused,
           ReleaseInput, SettleRetry, BeginPublish, Publish, AbandonInput,
           CleanArtifacts, ClearJournal, FindsChanged
  <2>2. Finish(job.key)
    BY <2>1 DEF Ack, Return
  <2> QED
    BY <2>1, <2>2 DEF Finish, IInv, TypeOK
<1>5. CASE Environment
  BY <1>5
     DEF wqVars, Return, Request, IInv, TypeOK, Environment, Maintain,
         LeaseTaken, Enqueue, ObserverWrites, ObserverExits, GateCloses, Crash
<1> QED
  BY <1>1, <1>2, <1>3, <1>4, <1>5 DEF Next, Worker

\* An attempt is published when its observer is dead or never was, with a
\* terminal result, a held claim and the wanted target; a target is forgotten
\* only when its attempt was published; one attempt is in work at a time.
THEOREM PublicationIsSound == Spec => PublicationSound
<1>1. ASSUME IInv, [Next]_vars, NEW j \in manifest' \ manifest
      PROVE  /\ process[j.token] \in {"none", "dead"}
             /\ artifacts[j.token] = "terminal"
             /\ Owned(j) /\ want[j.key] = j.target
  <2>1. Publish /\ j = job
    BY <1>1, ManifestStep
  <2> QED
    BY <1>1, <2>1, PublishWitness DEF Publish
<1>2. ASSUME IInv, [Next]_vars, NEW k \in Keys, want'[k] # want[k],
             want'[k] = None, pc \notin {"down", "gate"}
      PROVE  \E j \in manifest : j.token = grant[k].token /\ j.target = want[k]
  <2>1. Ack /\ k = job.key
    BY <1>2, ForgetStep
  <2> QED
    BY <1>2, <2>1 DEF Ack, At, IInv, PublishInv, Owned, Holds
<1>3. ASSUME IInv, [Next]_vars, used' # used
      PROVE  journal = None /\ \A c \in Tokens : process[c] # "running"
  <2>1. At("idle")
    <3>1. CASE Recovery \/ Environment \/ UNCHANGED vars
      BY <1>3, <3>1
         DEF vars, Recovery, StartClean, StartOrphan, OrphanRetry,
             StartRecovery, RecoverUnstarted, RecoverPreparing, RecoverDead,
             RecoverActive, RecoverUnclear, Environment, Maintain, LeaseTaken,
             Enqueue, ObserverWrites, ObserverExits, GateCloses, Crash
    <3>2. CASE Startup
      BY <1>3, <3>2
         DEF Startup, GateTurnsBack, CreateJournal, InitBlocked, InitArtifacts,
             InitFails, MarkPreparing, MarkPreparingFails, Prepare,
             PrepareFails, PrepareFailsBlindly, StartRecoverNever,
             StartRecoverFound, MarkExecuting, MarkExecutingFails, Activate,
             ActivateFails
    <3>3. CASE Control
      BY <1>3, <3>3
         DEF Control, LoseLease, ObserveDeath, Interrupt, BeginTermination,
             Kill, KillUnclear, KillLost, QuarantineQueue, QuarantineJournal
    <3>4. CASE Finalization
      BY <1>3, <3>4
         DEF Finalization, MarkFinalizing, MarkFinalizingRefused, ReleaseInput,
             SettleRetry, BeginPublish, Publish, Ack, AbandonInput,
             CleanArtifacts, ClearJournal, FindsChanged
    <3>5. CASE Poll
      BY <3>5 DEF Poll, Claim
    <3> QED
      BY <1>3, <3>1, <3>2, <3>3, <3>4, <3>5 DEF Next, Worker
  <2> QED
    BY <1>3, <2>1 DEF At, IInv, JobInv, NoStrayObserver
<1>4. IInv /\ [Next]_vars =>
        [\A j \in manifest' \ manifest :
           /\ process[j.token] \in {"none", "dead"}
           /\ artifacts[j.token] = "terminal"
           /\ Owned(j) /\ want[j.key] = j.target]_vars
  BY <1>1
<1>5. IInv /\ [Next]_vars =>
        [\A k \in Keys :
           want'[k] # want[k] /\ want'[k] = None /\ pc \notin {"down", "gate"}
             => \E j \in manifest : /\ j.token = grant[k].token
                                    /\ j.target = want[k]]_vars
  BY <1>2
<1>6. IInv /\ [Next]_vars =>
        [used' # used =>
           journal = None /\ \A c \in Tokens : process[c] # "running"]_vars
  BY <1>3
<1> QED
  BY <1>4, <1>5, <1>6, Invariance, PTL
     DEF Spec, PublicationSound, PublicationWitnessed, AckedAfterPublication,
         ClaimsOneAtATime

-----------------------------------------------------------------------------
(* The queue port.                                                         *)

\* Whatever the worker, its crashes and its environment do to the queue is one
\* operation of the port on one key.
THEOREM QueueIsAPort == Spec => WQSpec
<1>1. IInv /\ [Next]_vars => [WQNext]_wqVars
  <2> SUFFICES ASSUME IInv, [Next]_vars
               PROVE  [WQNext]_wqVars
    OBVIOUS
  <2>1. ASSUME job # None
        PROVE  job.key \in Keys
    BY <2>1 DEF IInv, TypeOK, Attempts
  <2>2. ASSUME job # None,
               Return(job.key) \/ Finish(job.key) \/ Bar(job.key)
        PROVE  WQNext
    BY <2>1, <2>2 DEF WQNext
  <2>3. CASE Recovery \/ Poll \/ UNCHANGED vars
    BY <2>2, <2>3
       DEF vars, WQNext, At, IInv, JobInv, Recovery, StartClean, StartOrphan,
           OrphanRetry, StartRecovery, RecoverUnstarted, RecoverPreparing,
           RecoverDead, RecoverActive, RecoverUnclear, Poll, Claim
  <2>4. CASE Startup
    BY <2>2, <2>4
       DEF At, IInv, JobInv, Startup, GateTurnsBack, CreateJournal,
           InitBlocked, InitArtifacts, InitFails, MarkPreparing,
           MarkPreparingFails, Prepare, PrepareFails, PrepareFailsBlindly,
           StartRecoverNever, StartRecoverFound, MarkExecuting,
           MarkExecutingFails, Activate, ActivateFails
  <2>5. CASE Control
    BY <2>2, <2>5
       DEF At, IInv, JobInv, Control, LoseLease, ObserveDeath, Interrupt,
           BeginTermination, Kill, KillUnclear, KillLost, QuarantineQueue,
           QuarantineJournal
  <2>6. CASE Finalization
    BY <2>2, <2>6
       DEF At, IInv, JobInv, Finalization, MarkFinalizing,
           MarkFinalizingRefused, ReleaseInput, SettleRetry, BeginPublish,
           Publish, Ack, AbandonInput, CleanArtifacts, ClearJournal,
           FindsChanged
  <2>7. CASE Environment
    BY <2>7
       DEF WQNext, Environment, Maintain, LeaseTaken, Enqueue, ObserverWrites,
           ObserverExits, GateCloses, Crash
  <2> QED
    BY <2>3, <2>4, <2>5, <2>6, <2>7 DEF Next, Worker
<1> QED
  BY <1>1, Invariance, PTL DEF Spec, Init, WQSpec
=============================================================================

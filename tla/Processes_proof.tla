-------------------------- MODULE Processes_proof ---------------------------
(***************************************************************************)
(* Proofs about the processes of an attempt, its inputs and its files. A   *)
(* scoped operation is guarded, and over when its call has returned, for   *)
(* any number of descendants and failed starts. The three containment      *)
(* backends keep the promises of their port (Containment), for any number  *)
(* of descendants, worker deaths, reboots and failing calls: a target runs *)
(* only after its handle was persisted, and a failed start, "never         *)
(* started" and a death proof are true when they are reported, and from    *)
(* then on. A success names what its runner read, for any clones, commits  *)
(* and pulls of others. The files of an attempt can be trusted and are     *)
(* removed in order, for any number of deaths, power losses and failed     *)
(* synchronisations.                                                       *)
(***************************************************************************)
EXTENDS MCProcesses, Integers, TLAPS

-----------------------------------------------------------------------------
(***************************************************************************)
(* The scope of an operation.                                              *)
(***************************************************************************)

\* Nothing was started.
LEMMA IInvInit == Init => IInv
<1>1. Init => TypeOK
  <2>1. 0 \in 0 .. MaxKids /\ 0 \in 0 .. MaxFaults
    BY ScopeAssumption
  <2> QED
    BY <2>1 DEF Init, TypeOK, Everything, Ended
<1>2. Init => UnitFits
  BY DEF Init, UnitFits, MainAlive, DogAlive, Ended
<1>3. Init => ReadyFits
  BY DEF Init, ReadyFits, Handed, Runs
<1>4. Init => CallFits
  BY DEF Init, CallFits, MainAlive, Ended
<1> QED
  BY <1>1, <1>2, <1>3, <1>4 DEF IInv

\* Every step keeps the labels of all parties and the bounds.
LEMMA TypeNext == IInv /\ [Next]_vars => TypeOK'
<1> SUFFICES ASSUME IInv, [Next]_vars
             PROVE  TypeOK'
  OBVIOUS
<1> USE ScopeAssumption DEF IInv, TypeOK, UnitFits, ReadyFits, CallFits,
        caller, scope, Ended, MainAlive, DogAlive, ParentDead, Everything,
        Runs, Fault, MainGoes, TerminateScope, KillUnit, Handed
<1> DEFINE Callers == {"idle", "bound", "await", "grant", "granted", "talk",
                       "abort_main", "abort_unit", "abort_client", "returned",
                       "dead"}
<1> DEFINE Mains == {"none", "checks", "connects", "receives", "granted",
                     "waits", "reads", "runs", "wrote", "acked"} \cup Ended
<1> DEFINE Dogs == {"none", "front", "armed", "watching", "gone"}
<1>1. ASSUME OpenHandoff \/ StartClient \/ Accept \/ Grant \/ KeepPidfd \/
             SendPayload \/ Completed \/ Fails \/ AbortMain \/ AbortUnit \/
             AbortClient \/ ParentDies
      PROVE  TypeOK'
  <2>1. /\ pc' \in Callers /\ told' \in {"none", "ok", "error"}
        /\ payload' \in {"none", "sent", "eof"}
        /\ client' \in {"none", "alive", "gone"}
    BY <1>1 DEF OpenHandoff, StartClient, Accept, Grant, KeepPidfd,
                SendPayload,
           Completed, Fails, AbortMain, AbortUnit, AbortClient, ParentDies
  <2>2. /\ unit' \in {"none", "starting", "active", "stopping", "gone"}
        /\ main' \in Mains /\ dog' \in Dogs
        /\ dog' # "none" => pc' \notin {"idle", "bound", "await", "grant"}
    BY <1>1 DEF OpenHandoff, StartClient, Accept, Grant, KeepPidfd,
                SendPayload,
           Completed, Fails, AbortMain, AbortUnit, AbortClient, ParentDies
  <2>3. /\ listener' \in BOOLEAN /\ held' \in BOOLEAN /\ ready' \in BOOLEAN
        /\ ack' \in BOOLEAN /\ began' \in BOOLEAN /\ early' \in BOOLEAN
    BY <1>1 DEF OpenHandoff, StartClient, Accept, Grant, KeepPidfd,
                SendPayload,
           Completed, Fails, AbortMain, AbortUnit, AbortClient, ParentDies
  <2>4. kids' \in 0 .. MaxKids /\ faults' \in 0 .. MaxFaults
    BY <1>1 DEF OpenHandoff, StartClient, Accept, Grant, KeepPidfd,
                SendPayload,
           Completed, Fails, AbortMain, AbortUnit, AbortClient, ParentDies
  <2>5. doomed' \subseteq Everything
    BY <1>1 DEF OpenHandoff, StartClient, Accept, Grant, KeepPidfd,
                SendPayload,
           Completed, Fails, AbortMain, AbortUnit, AbortClient, ParentDies
  <2> QED
    BY <2>1, <2>2, <2>3, <2>4, <2>5
<1>2. ASSUME RequestUnit \/ Activate \/ MainEnded \/ UnitGone \/ ClientEnds \/
             RuntimeMax
      PROVE  TypeOK'
  <2>1. /\ pc' \in Callers /\ told' \in {"none", "ok", "error"}
        /\ payload' \in {"none", "sent", "eof"}
        /\ client' \in {"none", "alive", "gone"}
    BY <1>2 DEF RequestUnit, Activate, MainEnded, UnitGone, ClientEnds,
           RuntimeMax
  <2>2. /\ unit' \in {"none", "starting", "active", "stopping", "gone"}
        /\ main' \in Mains /\ dog' \in Dogs
        /\ dog' # "none" => pc' \notin {"idle", "bound", "await", "grant"}
    BY <1>2 DEF RequestUnit, Activate, MainEnded, UnitGone, ClientEnds,
           RuntimeMax
  <2>3. /\ listener' \in BOOLEAN /\ held' \in BOOLEAN /\ ready' \in BOOLEAN
        /\ ack' \in BOOLEAN /\ began' \in BOOLEAN /\ early' \in BOOLEAN
    BY <1>2 DEF RequestUnit, Activate, MainEnded, UnitGone, ClientEnds,
           RuntimeMax
  <2>4. kids' \in 0 .. MaxKids /\ faults' \in 0 .. MaxFaults
    BY <1>2 DEF RequestUnit, Activate, MainEnded, UnitGone, ClientEnds,
           RuntimeMax
  <2>5. doomed' \subseteq Everything
    BY <1>2 DEF RequestUnit, Activate, MainEnded, UnitGone, ClientEnds,
           RuntimeMax
  <2> QED
    BY <2>1, <2>2, <2>3, <2>4, <2>5
<1>3. ASSUME CheckScope \/ Connect \/ ReceiveFails \/ StartWatchdog \/
             WaitReady \/ Begin \/ SendAck \/ Exit
      PROVE  TypeOK'
  <2>1. /\ pc' \in Callers /\ told' \in {"none", "ok", "error"}
        /\ payload' \in {"none", "sent", "eof"}
        /\ client' \in {"none", "alive", "gone"}
    BY <1>3 DEF CheckScope, Connect, ReceiveFails, StartWatchdog, WaitReady,
           Begin, SendAck, Exit
  <2>2. /\ unit' \in {"none", "starting", "active", "stopping", "gone"}
        /\ main' \in Mains /\ dog' \in Dogs
        /\ dog' # "none" => pc' \notin {"idle", "bound", "await", "grant"}
    BY <1>3 DEF CheckScope, Connect, ReceiveFails, StartWatchdog, WaitReady,
           Begin, SendAck, Exit
  <2>3. /\ listener' \in BOOLEAN /\ held' \in BOOLEAN /\ ready' \in BOOLEAN
        /\ ack' \in BOOLEAN /\ began' \in BOOLEAN /\ early' \in BOOLEAN
    BY <1>3 DEF CheckScope, Connect, ReceiveFails, StartWatchdog, WaitReady,
           Begin, SendAck, Exit
  <2>4. kids' \in 0 .. MaxKids /\ faults' \in 0 .. MaxFaults
    BY <1>3 DEF CheckScope, Connect, ReceiveFails, StartWatchdog, WaitReady,
           Begin, SendAck, Exit
  <2>5. doomed' \subseteq Everything
    BY <1>3 DEF CheckScope, Connect, ReceiveFails, StartWatchdog, WaitReady,
           Begin, SendAck, Exit
  <2> QED
    BY <2>1, <2>2, <2>3, <2>4, <2>5
<1>4. ASSUME Spawn \/ KidEnds \/ Respond \/ Reap
      PROVE  TypeOK'
  <2>1. /\ pc' \in Callers /\ told' \in {"none", "ok", "error"}
        /\ payload' \in {"none", "sent", "eof"}
        /\ client' \in {"none", "alive", "gone"}
    BY <1>4 DEF Spawn, KidEnds, Respond, Reap
  <2>2. /\ unit' \in {"none", "starting", "active", "stopping", "gone"}
        /\ main' \in Mains /\ dog' \in Dogs
        /\ dog' # "none" => pc' \notin {"idle", "bound", "await", "grant"}
    BY <1>4 DEF Spawn, KidEnds, Respond, Reap
  <2>3. /\ listener' \in BOOLEAN /\ held' \in BOOLEAN /\ ready' \in BOOLEAN
        /\ ack' \in BOOLEAN /\ began' \in BOOLEAN /\ early' \in BOOLEAN
    BY <1>4 DEF Spawn, KidEnds, Respond, Reap
  <2>4. kids' \in 0 .. MaxKids /\ faults' \in 0 .. MaxFaults
    BY <1>4 DEF Spawn, KidEnds, Respond, Reap
  <2>5. doomed' \subseteq Everything
    BY <1>4 DEF Spawn, KidEnds, Respond, Reap
  <2> QED
    BY <2>1, <2>2, <2>3, <2>4, <2>5
<1>5. ASSUME Detach \/ ConfirmReady \/ Retire \/ Fire
      PROVE  TypeOK'
  <2>1. /\ pc' \in Callers /\ told' \in {"none", "ok", "error"}
        /\ payload' \in {"none", "sent", "eof"}
        /\ client' \in {"none", "alive", "gone"}
    BY <1>5 DEF Detach, ConfirmReady, Retire, Fire
  <2>2. /\ unit' \in {"none", "starting", "active", "stopping", "gone"}
        /\ main' \in Mains /\ dog' \in Dogs
        /\ dog' # "none" => pc' \notin {"idle", "bound", "await", "grant"}
    BY <1>5 DEF Detach, ConfirmReady, Retire, Fire
  <2>3. /\ listener' \in BOOLEAN /\ held' \in BOOLEAN /\ ready' \in BOOLEAN
        /\ ack' \in BOOLEAN /\ began' \in BOOLEAN /\ early' \in BOOLEAN
    BY <1>5 DEF Detach, ConfirmReady, Retire, Fire
  <2>4. kids' \in 0 .. MaxKids /\ faults' \in 0 .. MaxFaults
    BY <1>5 DEF Detach, ConfirmReady, Retire, Fire
  <2>5. doomed' \subseteq Everything
    BY <1>5 DEF Detach, ConfirmReady, Retire, Fire
  <2> QED
    BY <2>1, <2>2, <2>3, <2>4, <2>5
<1>6. CASE UNCHANGED vars
  BY <1>6 DEF vars
<1> QED
  BY <1>1, <1>2, <1>3, <1>4, <1>5, <1>6
     DEF Next, Abort, Manager, Bootstrap, Watchdog

\* The unit is gone only with all that was in it, and the client after it.
LEMMA UnitNext == IInv /\ [Next]_vars => UnitFits'
<1> SUFFICES ASSUME IInv, [Next]_vars
             PROVE  UnitFits'
  OBVIOUS
<1> USE ScopeAssumption DEF IInv, TypeOK, UnitFits, ReadyFits, CallFits,
        caller, scope, Ended, MainAlive, DogAlive, ParentDead, Everything,
        Runs, Fault, MainGoes, TerminateScope, KillUnit
<1>1. ASSUME OpenHandoff \/ StartClient \/ Accept \/ Grant \/ KeepPidfd \/
             SendPayload \/ Completed \/ Fails \/ AbortMain \/ AbortUnit \/
             AbortClient \/ ParentDies
      PROVE  UnitFits'
  BY <1>1 DEF OpenHandoff, StartClient, Accept, Grant, KeepPidfd, SendPayload,
         Completed, Fails, AbortMain, AbortUnit, AbortClient, ParentDies
<1>2. ASSUME RequestUnit \/ Activate \/ MainEnded \/ UnitGone \/ ClientEnds \/
             RuntimeMax
      PROVE  UnitFits'
  BY <1>2 DEF RequestUnit, Activate, MainEnded, UnitGone, ClientEnds,
         RuntimeMax
<1>3. ASSUME CheckScope \/ Connect \/ ReceiveFails \/ StartWatchdog \/
             WaitReady \/ Begin \/ SendAck \/ Exit
      PROVE  UnitFits'
  BY <1>3 DEF CheckScope, Connect, ReceiveFails, StartWatchdog, WaitReady,
         Begin, SendAck, Exit
<1>4. ASSUME Spawn \/ KidEnds \/ Respond \/ Reap
      PROVE  UnitFits'
  BY <1>4 DEF Spawn, KidEnds, Respond, Reap
<1>5. ASSUME Detach \/ ConfirmReady \/ Retire \/ Fire
      PROVE  UnitFits'
  BY <1>5 DEF Detach, ConfirmReady, Retire, Fire
<1>6. CASE UNCHANGED vars
  BY <1>6 DEF vars
<1> QED
  BY <1>1, <1>2, <1>3, <1>4, <1>5, <1>6
     DEF Next, Abort, Manager, Bootstrap, Watchdog

\* The operation waits for the ready byte, and who guards it does not leave.
LEMMA ReadyNext == IInv /\ [Next]_vars => ReadyFits'
<1> SUFFICES ASSUME IInv, [Next]_vars
             PROVE  ReadyFits'
  OBVIOUS
<1> USE ScopeAssumption DEF IInv, TypeOK, UnitFits, ReadyFits, CallFits,
        caller, scope, Ended, MainAlive, DogAlive, ParentDead, Everything,
        Runs, Fault, MainGoes, TerminateScope, KillUnit, Handed
<1>1. ASSUME OpenHandoff \/ StartClient \/ Accept \/ Grant \/ KeepPidfd \/
             SendPayload \/ Completed \/ Fails \/ AbortMain \/ AbortUnit \/
             AbortClient \/ ParentDies
      PROVE  ReadyFits'
  BY <1>1 DEF OpenHandoff, StartClient, Accept, Grant, KeepPidfd, SendPayload,
         Completed, Fails, AbortMain, AbortUnit, AbortClient, ParentDies
<1>2. ASSUME RequestUnit \/ Activate \/ MainEnded \/ UnitGone \/ ClientEnds \/
             RuntimeMax
      PROVE  ReadyFits'
  BY <1>2 DEF RequestUnit, Activate, MainEnded, UnitGone, ClientEnds,
         RuntimeMax
<1>3. ASSUME CheckScope \/ Connect \/ ReceiveFails \/ StartWatchdog \/
             WaitReady \/ Begin \/ SendAck \/ Exit
      PROVE  ReadyFits'
  <2>1. CASE StartWatchdog
    <3>1. pc \notin {"idle", "bound", "await", "grant"} /\ pc' = pc
      BY <2>1 DEF StartWatchdog
    <3>2. ~ready /\ ready' = ready /\ ~began /\ began' = began
      BY <2>1 DEF StartWatchdog, UnitFits
    <3> QED
      BY <2>1, <3>1, <3>2 DEF StartWatchdog
  <2>2. CASE CheckScope \/ Connect \/ ReceiveFails \/ WaitReady
    BY <2>2 DEF CheckScope, Connect, ReceiveFails, WaitReady
  <2>3. CASE Begin \/ SendAck \/ Exit
    BY <2>3 DEF Begin, SendAck, Exit
  <2> QED
    BY <1>3, <2>1, <2>2, <2>3
<1>4. ASSUME Spawn \/ KidEnds \/ Respond \/ Reap
      PROVE  ReadyFits'
  BY <1>4 DEF Spawn, KidEnds, Respond, Reap
<1>5. ASSUME Detach \/ ConfirmReady \/ Retire \/ Fire
      PROVE  ReadyFits'
  BY <1>5 DEF Detach, ConfirmReady, Retire, Fire
<1>6. CASE UNCHANGED vars
  BY <1>6 DEF vars
<1> QED
  BY <1>1, <1>2, <1>3, <1>4, <1>5, <1>6
     DEF Next, Abort, Manager, Bootstrap, Watchdog

\* A call returns a result that was acknowledged, or kills what it has.
LEMMA CallNext == IInv /\ [Next]_vars => CallFits'
<1> SUFFICES ASSUME IInv, [Next]_vars
             PROVE  CallFits'
  OBVIOUS
<1> USE ScopeAssumption DEF IInv, TypeOK, UnitFits, ReadyFits, CallFits,
        caller, scope, Ended, MainAlive, DogAlive, ParentDead, Everything,
        Runs, Fault, MainGoes, TerminateScope, KillUnit
<1>1. ASSUME OpenHandoff \/ StartClient \/ Accept \/ Grant \/ KeepPidfd \/
             SendPayload \/ Completed \/ Fails \/ AbortMain \/ AbortUnit \/
             AbortClient \/ ParentDies
      PROVE  CallFits'
  BY <1>1 DEF OpenHandoff, StartClient, Accept, Grant, KeepPidfd, SendPayload,
         Completed, Fails, AbortMain, AbortUnit, AbortClient, ParentDies
<1>2. ASSUME RequestUnit \/ Activate \/ MainEnded \/ UnitGone \/ ClientEnds \/
             RuntimeMax
      PROVE  CallFits'
  BY <1>2 DEF RequestUnit, Activate, MainEnded, UnitGone, ClientEnds,
         RuntimeMax
<1>3. ASSUME CheckScope \/ Connect \/ ReceiveFails \/ StartWatchdog \/
             WaitReady \/ Begin \/ SendAck \/ Exit
      PROVE  CallFits'
  BY <1>3 DEF CheckScope, Connect, ReceiveFails, StartWatchdog, WaitReady,
         Begin, SendAck, Exit
<1>4. ASSUME Spawn \/ KidEnds \/ Respond \/ Reap
      PROVE  CallFits'
  BY <1>4 DEF Spawn, KidEnds, Respond, Reap
<1>5. ASSUME Detach \/ ConfirmReady \/ Retire \/ Fire
      PROVE  CallFits'
  BY <1>5 DEF Detach, ConfirmReady, Retire, Fire
<1>6. CASE UNCHANGED vars
  BY <1>6 DEF vars
<1> QED
  BY <1>1, <1>2, <1>3, <1>4, <1>5, <1>6
     DEF Next, Abort, Manager, Bootstrap, Watchdog

\* What the parties know of each other makes the scope sound.
LEMMA SoundWhenFit == IInv => ScopeSound
  BY DEF IInv, TypeOK, UnitFits, ReadyFits, CallFits, ScopeSound,
         OperationGuarded, EarlyDeathNeverStarts, ResultIsWhole,
         ReturnEndsOperation, Ended, MainAlive, DogAlive, Runs

\* run_in_worker_scope, the bootstrap, its watchdog and the manager agree at
\* every step, whoever dies and whichever request fails.
THEOREM Invariance == Spec => []IInv
<1>1. IInv /\ [Next]_vars => IInv'
  BY TypeNext, UnitNext, ReadyNext, CallNext DEF IInv
<1> QED
  BY <1>1, IInvInit, PTL DEF Spec

\* The labels of the parties and the counters keep their ranges, and a watchdog
\* exists only after the descriptors were handed over.
THEOREM TypeCorrect == Spec => []TypeOK
<1>1. IInv => TypeOK
  BY DEF IInv
<1> QED
  BY <1>1, Invariance, PTL

\* The operation runs under a watchdog that has seen its caller alive, never
\* begins for a caller that died before, and is over when the call has
\* returned: with all of its service if it returned a result.
THEOREM ScopeIsSound == Spec => []ScopeSound
  BY SoundWhenFit, Invariance, PTL

-----------------------------------------------------------------------------
(***************************************************************************)
(* The port.                                                               *)
(***************************************************************************)
VARIABLES portTarget, portRecorded, portTold

Port == INSTANCE Containment WITH
    target <- portTarget, recorded <- portRecorded, told <- portTold

\* What the promises of the port come to: after a failed start, "never started"
\* or a death proof the target does not run, and what has ended or was given up
\* does not run again.
THEOREM PortKeepsItsWord ==
  Port!Spec => /\ [](portTold \in {"failed", "never", "proof"} =>
                         portTarget \in {"void", "gone"})
               /\ [][(portTarget \in {"void", "gone"})
                    => portTarget' = portTarget]_(Port!vars)
<1>1. Port!Init => Port!Truth(portTarget, portTold)
  BY DEF Port!Init, Port!Truth
<1>2. Port!Truth(portTarget, portTold) /\ [Port!Next]_(Port!vars)
        => Port!Truth(portTarget, portTold)'
  BY DEF Port!Next, Port!Truth, Port!vars
<1>3. Port!Truth(portTarget, portTold) =>
        (portTold \in {"failed", "never", "proof"}
            => portTarget \in {"void", "gone"})
  BY DEF Port!Truth
<1>4. [Port!Next]_(Port!vars) =>
        [(portTarget \in {"void", "gone"})
            => portTarget' = portTarget]_(Port!vars)
  BY DEF Port!Next, Port!Prepare, Port!GiveUp, Port!Persist, Port!Activate,
         Port!End
<1> QED
  BY <1>1, <1>2, <1>3, <1>4, PTL DEF Port!Spec

-----------------------------------------------------------------------------
(***************************************************************************)
(* The cgroup.  The gate is held, or its token was written for a handle in *)
(* the journal; so a target that ran has a handle, and a recovery without   *)
(* one finds a bootstrap that never will.                                  *)
(***************************************************************************)
\* Before its start there is nothing of the attempt.
LEMMA CgroupInit ==
  ASSUME CgroupTree!CgroupAssumption, CgroupTree!Init
  PROVE  CgroupTree!IInv /\ CgroupTree!Contained!Init
<1> USE DEF CgroupTree!CgroupAssumption, CgroupTree!Init
<1>1. CgroupTree!TypeOK
  <2>1. treeDir \in BOOLEAN /\ orphan \in BOOLEAN /\ treeRan \in BOOLEAN
    OBVIOUS
  <2>2. treeDoomed \in [root : BOOLEAN, kids : Nat] /\ treeDoomed.kids = 0
    OBVIOUS
  <2>3. boot \in 1 .. MaxTreeBoots /\ treeKids \in 0 .. MaxTreeKids
    OBVIOUS
  <2> QED
    BY <2>1, <2>2, <2>3 DEF CgroupTree!TypeOK, CgroupTree!Told,
                            CgroupTree!Populated, CgroupTree!RootIn
<1>2. CgroupTree!StartFits /\ CgroupTree!TreeFits /\ CgroupTree!ProofIsTrue
  BY DEF CgroupTree!StartFits, CgroupTree!TreeFits, CgroupTree!ProofIsTrue
<1>3. CgroupTree!Contained!Init
  BY DEF CgroupTree!Contained!Init, CgroupTree!Target
<1> QED
  BY <1>1, <1>2, <1>3 DEF CgroupTree!IInv

\* Every step of the worker, the bootstrap, the target and the kernel keeps the
\* invariant.
LEMMA CgroupNext ==
  ASSUME CgroupTree!CgroupAssumption, CgroupTree!IInv,
         [CgroupTree!Next]_(CgroupTree!vars)
  PROVE  CgroupTree!IInv'
<1> USE DEF CgroupTree!CgroupAssumption, CgroupTree!IInv, CgroupTree!TypeOK,
            CgroupTree!StartFits, CgroupTree!TreeFits, CgroupTree!ProofIsTrue,
            CgroupTree!Told, CgroupTree!Populated, CgroupTree!RootIn
<1>1. CASE CgroupTree!CreateAttempt
  BY <1>1 DEF CgroupTree!CreateAttempt, CgroupTree!Goto, CgroupTree!tree
<1>2. CASE CgroupTree!Fork
  BY <1>2 DEF CgroupTree!Fork, CgroupTree!Goto
<1>3. CASE CgroupTree!WaitAssignment
  BY <1>3 DEF CgroupTree!WaitAssignment, CgroupTree!Goto, CgroupTree!tree
<1>4. CASE CgroupTree!StartFails
  BY <1>4 DEF CgroupTree!StartFails, CgroupTree!Goto, CgroupTree!tree
<1>5. CASE CgroupTree!Journal
  <2> USE <1>5 DEF CgroupTree!Journal, CgroupTree!Goto, CgroupTree!tree
  <2>1. boot # None
    OBVIOUS
  <2>2. CgroupTree!TypeOK'
    BY <2>1
  <2>3. CgroupTree!StartFits'
    BY <2>1
  <2>4. CgroupTree!TreeFits'
    BY <2>1
  <2>5. CgroupTree!ProofIsTrue'
    BY <2>1
  <2> QED
    BY <2>2, <2>3, <2>4, <2>5 DEF CgroupTree!IInv
<1>6. CASE CgroupTree!Activate
  BY <1>6 DEF CgroupTree!Activate, CgroupTree!Goto, CgroupTree!tree
<1>7. ASSUME NEW written \in BOOLEAN, CgroupTree!ActivateFails(written)
      PROVE  CgroupTree!IInv'
  BY <1>7 DEF CgroupTree!ActivateFails, CgroupTree!Goto, CgroupTree!tree
<1>8. CASE CgroupTree!Arm
  BY <1>8 DEF CgroupTree!Arm, CgroupTree!worker
<1>9. CASE CgroupTree!Join
  BY <1>9 DEF CgroupTree!Join, CgroupTree!worker
<1>10. CASE CgroupTree!ReadGate
  BY <1>10 DEF CgroupTree!ReadGate, CgroupTree!worker
<1>11. CASE CgroupTree!TargetForks
  BY <1>11 DEF CgroupTree!TargetForks, CgroupTree!worker
<1>12. CASE CgroupTree!RootEnds
  <2> USE <1>12 DEF CgroupTree!RootEnds, CgroupTree!worker
  <2>1. CgroupTree!TypeOK'
    OBVIOUS
  <2>2. CgroupTree!StartFits'
    OBVIOUS
  <2>3. CgroupTree!TreeFits'
    OBVIOUS
  <2>4. CgroupTree!ProofIsTrue'
    OBVIOUS
  <2> QED
    BY <2>1, <2>2, <2>3, <2>4 DEF CgroupTree!IInv
<1>13. CASE CgroupTree!KidEnds
  BY <1>13 DEF CgroupTree!KidEnds, CgroupTree!worker
<1>14. CASE CgroupTree!AbortGroup
  BY <1>14 DEF CgroupTree!AbortGroup, CgroupTree!KillGroup, CgroupTree!Killed,
               CgroupTree!Fault, CgroupTree!Goto
<1>15. CASE CgroupTree!AbortChild
  BY <1>15 DEF CgroupTree!AbortChild, CgroupTree!Goto, CgroupTree!Gone
<1>16. CASE CgroupTree!AbortRemove
  BY <1>16 DEF CgroupTree!AbortRemove, CgroupTree!RemoveEmpty, CgroupTree!Goto,
               CgroupTree!tree
<1>17. CASE CgroupTree!Terminate
  BY <1>17 DEF CgroupTree!Terminate, CgroupTree!Goto, CgroupTree!tree
<1>18. CASE CgroupTree!Confirm
  BY <1>18 DEF CgroupTree!Confirm, CgroupTree!SeesDead, CgroupTree!Report,
               CgroupTree!Goto, CgroupTree!RemoveEmpty, CgroupTree!tree
<1>19. CASE CgroupTree!GraceOver
  BY <1>19 DEF CgroupTree!GraceOver, CgroupTree!SeesDead, CgroupTree!Goto,
               CgroupTree!tree
<1>20. CASE CgroupTree!Kill
  <2> USE <1>20 DEF CgroupTree!Kill, CgroupTree!KillGroup, CgroupTree!Killed,
                    CgroupTree!Fault, CgroupTree!Goto
  <2>1. CgroupTree!TypeOK'
    <3>1. CASE treeDoomed' = CgroupTree!Killed
      <4>1. (treeRoot \in CgroupTree!RootIn) \in BOOLEAN
        OBVIOUS
      <4>2. treeDoomed' \in [root : BOOLEAN, kids : Nat]
            /\ treeDoomed'.kids <= treeKids
        BY <3>1, <4>1
      <4> QED
        BY <4>2
    <3>2. CASE treeDoomed' = treeDoomed
      BY <3>2
    <3> QED
      BY <3>1, <3>2
  <2>2. CgroupTree!StartFits'
    OBVIOUS
  <2>3. CgroupTree!TreeFits'
    OBVIOUS
  <2>4. CgroupTree!ProofIsTrue'
    OBVIOUS
  <2> QED
    BY <2>1, <2>2, <2>3, <2>4 DEF CgroupTree!IInv
<1>21. CASE CgroupTree!Unconfirmed
  BY <1>21 DEF CgroupTree!Unconfirmed, CgroupTree!Report, CgroupTree!Goto,
               CgroupTree!RemoveEmpty, CgroupTree!tree
<1>22. CASE CgroupTree!Restart
  BY <1>22 DEF CgroupTree!Restart, CgroupTree!Goto, CgroupTree!tree
<1>23. CASE CgroupTree!RecoverUnjournaled
  BY <1>23 DEF CgroupTree!RecoverUnjournaled, CgroupTree!Goto, CgroupTree!tree
<1>24. CASE CgroupTree!RecoverKill
  BY <1>24 DEF CgroupTree!RecoverKill, CgroupTree!Killed, CgroupTree!Goto,
               CgroupTree!Fault
<1>25. CASE CgroupTree!RecoverRemove
  BY <1>25 DEF CgroupTree!RecoverRemove, CgroupTree!Goto, CgroupTree!tree
<1>26. CASE CgroupTree!RecoverHandle
  <2> USE <1>26 DEF CgroupTree!RecoverHandle, CgroupTree!Goto,
                    CgroupTree!SeesDead, CgroupTree!RemoveEmpty,
                    CgroupTree!Fault, CgroupTree!tree
  <2>1. CgroupTree!TypeOK'
    OBVIOUS
  <2>2. CgroupTree!StartFits'
    OBVIOUS
  <2>3. CgroupTree!TreeFits'
    OBVIOUS
  <2>4. CgroupTree!ProofIsTrue'
    OBVIOUS
  <2> QED
    BY <2>1, <2>2, <2>3, <2>4 DEF CgroupTree!IInv
<1>27. CASE CgroupTree!ConfirmReference
  BY <1>27 DEF CgroupTree!ConfirmReference, CgroupTree!SeesDead,
               CgroupTree!Report, CgroupTree!Goto, CgroupTree!RemoveEmpty,
               CgroupTree!tree
<1>28. CASE CgroupTree!Crash
  BY <1>28 DEF CgroupTree!Crash, CgroupTree!Gone
<1>29. CASE CgroupTree!Reboot
  <2> USE <1>29 DEF CgroupTree!Reboot, CgroupTree!Gone
  <2>1. CgroupTree!TypeOK'
    <3>1. boot' \in 1 .. MaxTreeBoots
          /\ treeJournal' \in 1 .. MaxTreeBoots \cup {None}
      OBVIOUS
    <3>2. treeDoomed' \in [root : BOOLEAN, kids : Nat]
          /\ treeDoomed'.kids <= treeKids'
      OBVIOUS
    <3>3. ~CgroupTree!Populated' /\ treeKids' \in 0 .. MaxTreeKids
      OBVIOUS
    <3>4. treeTold' \in CgroupTree!Told
      OBVIOUS
    <3>5. /\ treeGate' \in {"none", "held", "token", "closed"}
          /\ treeRoot'
             \in {"none", "forked", "armed", "joined", "target", "dead"}
          /\ treeLive' \in {"none", "child", "found"} /\ treePc' = "down"
          /\ treeDir' \in BOOLEAN /\ orphan' \in BOOLEAN
          /\ treeRan' \in BOOLEAN
      OBVIOUS
    <3> QED
      BY ONLY <3>1, <3>2, <3>3, <3>4, <3>5 DEF CgroupTree!TypeOK
  <2>2. CgroupTree!StartFits'
    OBVIOUS
  <2>3. CgroupTree!TreeFits'
    OBVIOUS
  <2>4. CgroupTree!ProofIsTrue'
    OBVIOUS
  <2> QED
    BY <2>1, <2>2, <2>3, <2>4 DEF CgroupTree!IInv
<1>30. CASE UNCHANGED CgroupTree!vars
  BY <1>30 DEF CgroupTree!vars, CgroupTree!worker, CgroupTree!tree
<1> QED
  BY <1>1, <1>2, <1>3, <1>4, <1>5, <1>6, <1>7, <1>8, <1>9, <1>10, <1>11, <1>12,
     <1>13, <1>14, <1>15, <1>16, <1>17, <1>18, <1>19, <1>20, <1>21, <1>22,
     <1>23, <1>24, <1>25, <1>26, <1>27, <1>28, <1>29, <1>30
     DEF CgroupTree!Next, CgroupTree!Bootstrap, CgroupTree!Kernel

\* Every step is one that the port allows, or none that it shows.
LEMMA CgroupStep ==
  ASSUME CgroupTree!CgroupAssumption, CgroupTree!IInv,
         [CgroupTree!Next]_(CgroupTree!vars)
  PROVE  [CgroupTree!Contained!Next]_(CgroupTree!Contained!vars)
<1> USE DEF CgroupTree!CgroupAssumption, CgroupTree!IInv, CgroupTree!TypeOK,
            CgroupTree!StartFits, CgroupTree!TreeFits, CgroupTree!ProofIsTrue,
            CgroupTree!Told, CgroupTree!Populated, CgroupTree!RootIn,
            CgroupTree!Target, CgroupTree!Contained!Next,
            CgroupTree!Contained!vars, CgroupTree!Contained!Truth,
            CgroupTree!Contained!Prepare, CgroupTree!Contained!GiveUp,
            CgroupTree!Contained!Persist, CgroupTree!Contained!Activate,
            CgroupTree!Contained!End, CgroupTree!Contained!Told
<1>1. CASE CgroupTree!CreateAttempt
  BY <1>1 DEF CgroupTree!CreateAttempt, CgroupTree!Goto, CgroupTree!tree
<1>2. CASE CgroupTree!Fork
  BY <1>2 DEF CgroupTree!Fork, CgroupTree!Goto
<1>3. CASE CgroupTree!WaitAssignment
  BY <1>3 DEF CgroupTree!WaitAssignment, CgroupTree!Goto, CgroupTree!tree
<1>4. CASE CgroupTree!StartFails
  BY <1>4 DEF CgroupTree!StartFails, CgroupTree!Goto, CgroupTree!tree
<1>5. CASE CgroupTree!Journal
  <2> USE <1>5 DEF CgroupTree!Journal, CgroupTree!Goto, CgroupTree!tree
  <2>1. boot # None
    OBVIOUS
  <2> QED
    BY <2>1
<1>6. CASE CgroupTree!Activate
  BY <1>6 DEF CgroupTree!Activate, CgroupTree!Goto, CgroupTree!tree
<1>7. ASSUME NEW written \in BOOLEAN, CgroupTree!ActivateFails(written)
      PROVE  [CgroupTree!Contained!Next]_(CgroupTree!Contained!vars)
  BY <1>7 DEF CgroupTree!ActivateFails, CgroupTree!Goto, CgroupTree!tree
<1>8. CASE CgroupTree!Arm
  BY <1>8 DEF CgroupTree!Arm, CgroupTree!worker
<1>9. CASE CgroupTree!Join
  BY <1>9 DEF CgroupTree!Join, CgroupTree!worker
<1>10. CASE CgroupTree!ReadGate
  BY <1>10 DEF CgroupTree!ReadGate, CgroupTree!worker
<1>11. CASE CgroupTree!TargetForks
  BY <1>11 DEF CgroupTree!TargetForks, CgroupTree!worker
<1>12. CASE CgroupTree!RootEnds
  BY <1>12 DEF CgroupTree!RootEnds, CgroupTree!worker
<1>13. CASE CgroupTree!KidEnds
  BY <1>13 DEF CgroupTree!KidEnds, CgroupTree!worker
<1>14. CASE CgroupTree!AbortGroup
  BY <1>14 DEF CgroupTree!AbortGroup, CgroupTree!KillGroup, CgroupTree!Killed,
               CgroupTree!Fault, CgroupTree!Goto
<1>15. CASE CgroupTree!AbortChild
  BY <1>15 DEF CgroupTree!AbortChild, CgroupTree!Goto, CgroupTree!Gone
<1>16. CASE CgroupTree!AbortRemove
  BY <1>16 DEF CgroupTree!AbortRemove, CgroupTree!RemoveEmpty, CgroupTree!Goto,
               CgroupTree!tree
<1>17. CASE CgroupTree!Terminate
  BY <1>17 DEF CgroupTree!Terminate, CgroupTree!Goto, CgroupTree!tree
<1>18. CASE CgroupTree!Confirm
  BY <1>18 DEF CgroupTree!Confirm, CgroupTree!SeesDead, CgroupTree!Report,
               CgroupTree!Goto, CgroupTree!RemoveEmpty, CgroupTree!tree
<1>19. CASE CgroupTree!GraceOver
  BY <1>19 DEF CgroupTree!GraceOver, CgroupTree!SeesDead, CgroupTree!Goto,
               CgroupTree!tree
<1>20. CASE CgroupTree!Kill
  BY <1>20 DEF CgroupTree!Kill, CgroupTree!KillGroup, CgroupTree!Killed,
               CgroupTree!Fault, CgroupTree!Goto
<1>21. CASE CgroupTree!Unconfirmed
  BY <1>21 DEF CgroupTree!Unconfirmed, CgroupTree!Report, CgroupTree!Goto,
               CgroupTree!RemoveEmpty, CgroupTree!tree
<1>22. CASE CgroupTree!Restart
  BY <1>22 DEF CgroupTree!Restart, CgroupTree!Goto, CgroupTree!tree
<1>23. CASE CgroupTree!RecoverUnjournaled
  BY <1>23 DEF CgroupTree!RecoverUnjournaled, CgroupTree!Goto, CgroupTree!tree
<1>24. CASE CgroupTree!RecoverKill
  BY <1>24 DEF CgroupTree!RecoverKill, CgroupTree!Killed, CgroupTree!Goto,
               CgroupTree!Fault
<1>25. CASE CgroupTree!RecoverRemove
  BY <1>25 DEF CgroupTree!RecoverRemove, CgroupTree!Goto, CgroupTree!tree
<1>26. CASE CgroupTree!RecoverHandle
  BY <1>26 DEF CgroupTree!RecoverHandle, CgroupTree!Goto, CgroupTree!SeesDead,
               CgroupTree!RemoveEmpty, CgroupTree!Fault, CgroupTree!tree
<1>27. CASE CgroupTree!ConfirmReference
  BY <1>27 DEF CgroupTree!ConfirmReference, CgroupTree!SeesDead,
               CgroupTree!Report, CgroupTree!Goto, CgroupTree!RemoveEmpty,
               CgroupTree!tree
<1>28. CASE CgroupTree!Crash
  BY <1>28 DEF CgroupTree!Crash, CgroupTree!Gone
<1>29. CASE CgroupTree!Reboot
  BY <1>29 DEF CgroupTree!Reboot, CgroupTree!Gone
<1>30. CASE UNCHANGED CgroupTree!vars
  BY <1>30 DEF CgroupTree!vars, CgroupTree!worker, CgroupTree!tree
<1> QED
  BY <1>1, <1>2, <1>3, <1>4, <1>5, <1>6, <1>7, <1>8, <1>9, <1>10, <1>11, <1>12,
     <1>13, <1>14, <1>15, <1>16, <1>17, <1>18, <1>19, <1>20, <1>21, <1>22,
     <1>23, <1>24, <1>25, <1>26, <1>27, <1>28, <1>29, <1>30
     DEF CgroupTree!Next, CgroupTree!Bootstrap, CgroupTree!Kernel

\* Gate, journal, processes and report agree, through every death, reboot and
\* failing control file.
THEOREM CgroupInvariance ==
  ASSUME CgroupTree!CgroupAssumption
  PROVE  CgroupTree!Spec => []CgroupTree!IInv
<1>1. CgroupTree!Init => CgroupTree!IInv
  BY CgroupInit
<1>2. CgroupTree!IInv /\ [CgroupTree!Next]_(CgroupTree!vars)
      => CgroupTree!IInv'
  BY CgroupNext
<1> QED
  BY <1>1, <1>2, PTL DEF CgroupTree!Spec


\* Every report of the cgroup backend is true for good, and what runs is in the
\* journal.
THEOREM CgroupReports ==
  ASSUME CgroupTree!CgroupAssumption
  PROVE  CgroupTree!Spec
         => [](/\ CgroupTree!ProofIsTrue /\ CgroupTree!NeverIsTrue
                               /\ CgroupTree!FailedStartNeverRuns
                               /\ CgroupTree!RunsJournalled)
<1>1. CgroupTree!IInv => /\ CgroupTree!ProofIsTrue /\ CgroupTree!NeverIsTrue
                         /\ CgroupTree!FailedStartNeverRuns
                         /\ CgroupTree!RunsJournalled
  BY DEF CgroupTree!IInv, CgroupTree!StartFits, CgroupTree!NeverIsTrue,
         CgroupTree!FailedStartNeverRuns, CgroupTree!RunsJournalled
<1> QED
  BY <1>1, CgroupInvariance, PTL

\* The cgroup backend keeps the promises of its port.
THEOREM CgroupContained ==
  ASSUME CgroupTree!CgroupAssumption
  PROVE  CgroupTree!Spec => CgroupTree!Implements
<1>1. CgroupTree!Init => CgroupTree!Contained!Init
  BY CgroupInit
<1>2. CgroupTree!IInv /\ [CgroupTree!Next]_(CgroupTree!vars)
      => [CgroupTree!Contained!Next]_(CgroupTree!Contained!vars)
  BY CgroupStep
<1> QED
  BY <1>1, <1>2, CgroupInvariance, PTL
     DEF CgroupTree!Spec, CgroupTree!Implements, CgroupTree!Contained!Spec

-----------------------------------------------------------------------------
(***************************************************************************)
(* The job object.  Up to the activation the worker alone has the job open, *)
(* with a suspended root in it; whoever lets go of it last ends it, so a    *)
(* job that nobody has open holds nothing that no kill has reached.         *)
(***************************************************************************)
\* Before its start there is nothing of the attempt.
LEMMA JobInit ==
  ASSUME WindowsJob!JobAssumption, WindowsJob!Init
  PROVE  WindowsJob!IInv /\ WindowsJob!Contained!Init
<1> USE DEF WindowsJob!JobAssumption, WindowsJob!Init
<1>1. WindowsJob!TypeOK
  <2>1. jobJournal \in BOOLEAN /\ jobRan \in BOOLEAN
    OBVIOUS
  <2> QED
    BY <2>1 DEF WindowsJob!TypeOK
<1>2. WindowsJob!StartFits /\ WindowsJob!ReportFits
  BY DEF WindowsJob!StartFits, WindowsJob!ReportFits
<1>3. WindowsJob!Contained!Init
  BY DEF WindowsJob!Contained!Init, WindowsJob!Target
<1> QED
  BY <1>1, <1>2, <1>3 DEF WindowsJob!IInv

\* Every step of the worker, the bootstrap, the target and the kernel keeps the
\* invariant.
LEMMA JobNext ==
  ASSUME WindowsJob!JobAssumption, WindowsJob!IInv,
         [WindowsJob!Next]_(WindowsJob!vars)
  PROVE  WindowsJob!IInv'
<1> USE DEF WindowsJob!JobAssumption, WindowsJob!IInv, WindowsJob!TypeOK,
            WindowsJob!StartFits, WindowsJob!ReportFits
<1>1. CASE WindowsJob!CreateJob
  BY <1>1 DEF WindowsJob!CreateJob, WindowsJob!Goto, WindowsJob!processes
<1>2. CASE WindowsJob!CreateSuspended
  BY <1>2 DEF WindowsJob!CreateSuspended, WindowsJob!Goto
<1>3. CASE WindowsJob!StartFails
  BY <1>3 DEF WindowsJob!StartFails, WindowsJob!Tell, WindowsJob!Goto
<1>4. CASE WindowsJob!Verify
  BY <1>4 DEF WindowsJob!Verify, WindowsJob!Goto, WindowsJob!processes
<1>5. CASE WindowsJob!VerifyFails
  BY <1>5 DEF WindowsJob!VerifyFails, WindowsJob!Fault, WindowsJob!Goto,
              WindowsJob!processes
<1>6. CASE WindowsJob!Journal
  BY <1>6 DEF WindowsJob!Journal, WindowsJob!Goto, WindowsJob!processes
<1>7. CASE WindowsJob!JournalLate
  <2> USE <1>7 DEF WindowsJob!JournalLate, WindowsJob!Goto,
                   WindowsJob!processes
  <2>1. jobJournal' \in BOOLEAN /\ (jobJournal => jobJournal')
    OBVIOUS
  <2>2. WindowsJob!TypeOK'
    BY <2>1
  <2>3. WindowsJob!StartFits'
    BY <2>1
  <2>4. WindowsJob!ReportFits'
    BY <2>1
  <2> QED
    BY <2>2, <2>3, <2>4 DEF WindowsJob!IInv
<1>8. CASE WindowsJob!Activate
  BY <1>8 DEF WindowsJob!Activate, WindowsJob!ResumeRoot, WindowsJob!Goto
<1>9. ASSUME NEW resumed \in BOOLEAN, WindowsJob!ActivateFails(resumed)
      PROVE  WindowsJob!IInv'
  BY <1>9 DEF WindowsJob!ActivateFails, WindowsJob!ResumeRoot,
              WindowsJob!Fault, WindowsJob!Goto
<1>10. CASE WindowsJob!RootForks
  BY <1>10 DEF WindowsJob!RootForks, WindowsJob!worker
<1>11. CASE WindowsJob!RootEnds
  BY <1>11 DEF WindowsJob!RootEnds, WindowsJob!worker
<1>12. CASE WindowsJob!KidEnds
  BY <1>12 DEF WindowsJob!KidEnds, WindowsJob!worker
<1>13. CASE WindowsJob!Teardown
  BY <1>13 DEF WindowsJob!Teardown, WindowsJob!HandlesTo,
               WindowsJob!TerminateJob, WindowsJob!Alive, WindowsJob!processes,
               WindowsJob!worker
<1>14. CASE WindowsJob!Crash
  BY <1>14 DEF WindowsJob!Crash, WindowsJob!Goto, WindowsJob!processes
<1>15. CASE WindowsJob!Terminate
  BY <1>15 DEF WindowsJob!Terminate, WindowsJob!Goto, WindowsJob!processes
<1>16. CASE WindowsJob!Confirm
  BY <1>16 DEF WindowsJob!Confirm, WindowsJob!DeathEvidence,
               WindowsJob!ActiveProcesses, WindowsJob!Alive, WindowsJob!Tell,
               WindowsJob!CloseHandle, WindowsJob!HandlesTo,
               WindowsJob!TerminateJob, WindowsJob!processes, WindowsJob!Goto,
               WindowsJob!Afterwards
<1>17. CASE WindowsJob!GraceOver
  BY <1>17 DEF WindowsJob!GraceOver, WindowsJob!Goto, WindowsJob!processes
<1>18. CASE WindowsJob!Force
  BY <1>18 DEF WindowsJob!Force, WindowsJob!TerminateJob, WindowsJob!Alive,
               WindowsJob!Fault, WindowsJob!processes, WindowsJob!Goto
<1>19. CASE WindowsJob!Unconfirmed
  BY <1>19 DEF WindowsJob!Unconfirmed, WindowsJob!Tell, WindowsJob!Goto,
               WindowsJob!Afterwards, WindowsJob!processes
<1>20. CASE WindowsJob!Restart
  BY <1>20 DEF WindowsJob!Restart, WindowsJob!Tell, WindowsJob!Goto,
               WindowsJob!processes
<1>21. CASE WindowsJob!RecoverUnbound
  BY <1>21 DEF WindowsJob!RecoverUnbound, WindowsJob!Answer, WindowsJob!Tell,
               WindowsJob!Goto, WindowsJob!processes, WindowsJob!OpenJob,
               WindowsJob!Fault
<1>22. CASE WindowsJob!RecoverKill
  BY <1>22 DEF WindowsJob!RecoverKill, WindowsJob!TerminateJob,
               WindowsJob!Alive, WindowsJob!Goto, WindowsJob!Fault,
               WindowsJob!Answer, WindowsJob!Tell, WindowsJob!CloseHandle,
               WindowsJob!HandlesTo, WindowsJob!processes
<1>23. CASE WindowsJob!RecoverWait
  BY <1>23 DEF WindowsJob!RecoverWait, WindowsJob!DeathEvidence,
               WindowsJob!ActiveProcesses, WindowsJob!Alive, WindowsJob!Answer,
               WindowsJob!Tell, WindowsJob!Goto, WindowsJob!CloseHandle,
               WindowsJob!HandlesTo, WindowsJob!TerminateJob,
               WindowsJob!processes
<1>24. CASE WindowsJob!RecoverHandle
  BY <1>24 DEF WindowsJob!RecoverHandle, WindowsJob!Fault, WindowsJob!Answer,
               WindowsJob!Tell, WindowsJob!Goto, WindowsJob!processes,
               WindowsJob!DeathEvidence, WindowsJob!ActiveProcesses,
               WindowsJob!Alive, WindowsJob!OpenJob, WindowsJob!RootAlive
<1>25. CASE WindowsJob!ConfirmReference
  <2> USE <1>25 DEF WindowsJob!ConfirmReference, WindowsJob!DeathEvidence,
                    WindowsJob!ActiveProcesses, WindowsJob!Alive,
                    WindowsJob!Answer, WindowsJob!Tell, WindowsJob!Goto,
                    WindowsJob!CloseHandle, WindowsJob!HandlesTo,
                    WindowsJob!TerminateJob, WindowsJob!processes,
                    WindowsJob!OpenJob, WindowsJob!RootAlive
  <2>1. WindowsJob!TypeOK'
    <3>1. CASE holders' = {}
      BY <3>1
    <3>2. CASE holders' # {}
      BY <3>2
    <3> QED
      BY <3>1, <3>2
  <2>2. WindowsJob!StartFits'
    OBVIOUS
  <2>3. WindowsJob!ReportFits'
    OBVIOUS
  <2> QED
    BY <2>1, <2>2, <2>3 DEF WindowsJob!IInv
<1>26. CASE WindowsJob!ConfirmClose
  BY <1>26 DEF WindowsJob!ConfirmClose, WindowsJob!Answer, WindowsJob!Tell,
               WindowsJob!Goto, WindowsJob!DeathEvidence,
               WindowsJob!ActiveProcesses, WindowsJob!Alive,
               WindowsJob!CloseHandle, WindowsJob!HandlesTo,
               WindowsJob!TerminateJob, WindowsJob!processes
<1>27. CASE UNCHANGED WindowsJob!vars
  BY <1>27 DEF WindowsJob!vars, WindowsJob!worker, WindowsJob!processes
<1> QED
  BY <1>1, <1>2, <1>3, <1>4, <1>5, <1>6, <1>7, <1>8, <1>9, <1>10, <1>11, <1>12,
     <1>13, <1>14, <1>15, <1>16, <1>17, <1>18, <1>19, <1>20, <1>21, <1>22,
     <1>23, <1>24, <1>25, <1>26, <1>27
     DEF WindowsJob!Next

\* Every step is one that the port allows, or none that it shows.
LEMMA JobStep ==
  ASSUME WindowsJob!JobAssumption, WindowsJob!IInv,
         [WindowsJob!Next]_(WindowsJob!vars)
  PROVE  [WindowsJob!Contained!Next]_(WindowsJob!Contained!vars)
<1> USE DEF WindowsJob!JobAssumption, WindowsJob!IInv, WindowsJob!TypeOK,
            WindowsJob!StartFits, WindowsJob!ReportFits, WindowsJob!Target,
            WindowsJob!Contained!Next, WindowsJob!Contained!vars,
            WindowsJob!Contained!Truth, WindowsJob!Contained!Prepare,
            WindowsJob!Contained!GiveUp, WindowsJob!Contained!Persist,
            WindowsJob!Contained!Activate, WindowsJob!Contained!End,
            WindowsJob!Contained!Told
<1>1. CASE WindowsJob!CreateJob
  BY <1>1 DEF WindowsJob!CreateJob, WindowsJob!Goto, WindowsJob!processes
<1>2. CASE WindowsJob!CreateSuspended
  BY <1>2 DEF WindowsJob!CreateSuspended, WindowsJob!Goto
<1>3. CASE WindowsJob!StartFails
  BY <1>3 DEF WindowsJob!StartFails, WindowsJob!Tell, WindowsJob!Goto
<1>4. CASE WindowsJob!Verify
  BY <1>4 DEF WindowsJob!Verify, WindowsJob!Goto, WindowsJob!processes
<1>5. CASE WindowsJob!VerifyFails
  BY <1>5 DEF WindowsJob!VerifyFails, WindowsJob!Fault, WindowsJob!Goto,
              WindowsJob!processes
<1>6. CASE WindowsJob!Journal
  BY <1>6 DEF WindowsJob!Journal, WindowsJob!Goto, WindowsJob!processes
<1>7. CASE WindowsJob!JournalLate
  <2> USE <1>7 DEF WindowsJob!JournalLate, WindowsJob!Goto,
                   WindowsJob!processes
  <2>1. CASE jobJournal' = jobJournal
    BY <2>1
  <2>2. CASE jobJournal' = TRUE
    BY <2>2
  <2> QED
    BY <2>1, <2>2
<1>8. CASE WindowsJob!Activate
  BY <1>8 DEF WindowsJob!Activate, WindowsJob!ResumeRoot, WindowsJob!Goto
<1>9. ASSUME NEW resumed \in BOOLEAN, WindowsJob!ActivateFails(resumed)
      PROVE  [WindowsJob!Contained!Next]_(WindowsJob!Contained!vars)
  BY <1>9 DEF WindowsJob!ActivateFails, WindowsJob!ResumeRoot,
              WindowsJob!Fault, WindowsJob!Goto
<1>10. CASE WindowsJob!RootForks
  BY <1>10 DEF WindowsJob!RootForks, WindowsJob!worker
<1>11. CASE WindowsJob!RootEnds
  BY <1>11 DEF WindowsJob!RootEnds, WindowsJob!worker
<1>12. CASE WindowsJob!KidEnds
  BY <1>12 DEF WindowsJob!KidEnds, WindowsJob!worker
<1>13. CASE WindowsJob!Teardown
  BY <1>13 DEF WindowsJob!Teardown, WindowsJob!HandlesTo,
               WindowsJob!TerminateJob, WindowsJob!Alive, WindowsJob!processes,
               WindowsJob!worker
<1>14. CASE WindowsJob!Crash
  BY <1>14 DEF WindowsJob!Crash, WindowsJob!Goto, WindowsJob!processes
<1>15. CASE WindowsJob!Terminate
  BY <1>15 DEF WindowsJob!Terminate, WindowsJob!Goto, WindowsJob!processes
<1>16. CASE WindowsJob!Confirm
  BY <1>16 DEF WindowsJob!Confirm, WindowsJob!DeathEvidence,
               WindowsJob!ActiveProcesses, WindowsJob!Alive, WindowsJob!Tell,
               WindowsJob!CloseHandle, WindowsJob!HandlesTo,
               WindowsJob!TerminateJob, WindowsJob!processes, WindowsJob!Goto,
               WindowsJob!Afterwards
<1>17. CASE WindowsJob!GraceOver
  BY <1>17 DEF WindowsJob!GraceOver, WindowsJob!Goto, WindowsJob!processes
<1>18. CASE WindowsJob!Force
  BY <1>18 DEF WindowsJob!Force, WindowsJob!TerminateJob, WindowsJob!Alive,
               WindowsJob!Fault, WindowsJob!processes, WindowsJob!Goto
<1>19. CASE WindowsJob!Unconfirmed
  BY <1>19 DEF WindowsJob!Unconfirmed, WindowsJob!Tell, WindowsJob!Goto,
               WindowsJob!Afterwards, WindowsJob!processes
<1>20. CASE WindowsJob!Restart
  BY <1>20 DEF WindowsJob!Restart, WindowsJob!Tell, WindowsJob!Goto,
               WindowsJob!processes
<1>21. CASE WindowsJob!RecoverUnbound
  BY <1>21 DEF WindowsJob!RecoverUnbound, WindowsJob!Answer, WindowsJob!Tell,
               WindowsJob!Goto, WindowsJob!processes, WindowsJob!OpenJob,
               WindowsJob!Fault
<1>22. CASE WindowsJob!RecoverKill
  BY <1>22 DEF WindowsJob!RecoverKill, WindowsJob!TerminateJob,
               WindowsJob!Alive, WindowsJob!Goto, WindowsJob!Fault,
               WindowsJob!Answer, WindowsJob!Tell, WindowsJob!CloseHandle,
               WindowsJob!HandlesTo, WindowsJob!processes
<1>23. CASE WindowsJob!RecoverWait
  BY <1>23 DEF WindowsJob!RecoverWait, WindowsJob!DeathEvidence,
               WindowsJob!ActiveProcesses, WindowsJob!Alive, WindowsJob!Answer,
               WindowsJob!Tell, WindowsJob!Goto, WindowsJob!CloseHandle,
               WindowsJob!HandlesTo, WindowsJob!TerminateJob,
               WindowsJob!processes
<1>24. CASE WindowsJob!RecoverHandle
  BY <1>24 DEF WindowsJob!RecoverHandle, WindowsJob!Fault, WindowsJob!Answer,
               WindowsJob!Tell, WindowsJob!Goto, WindowsJob!processes,
               WindowsJob!DeathEvidence, WindowsJob!ActiveProcesses,
               WindowsJob!Alive, WindowsJob!OpenJob, WindowsJob!RootAlive
<1>25. CASE WindowsJob!ConfirmReference
  BY <1>25 DEF WindowsJob!ConfirmReference, WindowsJob!DeathEvidence,
               WindowsJob!ActiveProcesses, WindowsJob!Alive, WindowsJob!Answer,
               WindowsJob!Tell, WindowsJob!Goto, WindowsJob!CloseHandle,
               WindowsJob!HandlesTo, WindowsJob!TerminateJob,
               WindowsJob!processes, WindowsJob!OpenJob, WindowsJob!RootAlive
<1>26. CASE WindowsJob!ConfirmClose
  BY <1>26 DEF WindowsJob!ConfirmClose, WindowsJob!Answer, WindowsJob!Tell,
               WindowsJob!Goto, WindowsJob!DeathEvidence,
               WindowsJob!ActiveProcesses, WindowsJob!Alive,
               WindowsJob!CloseHandle, WindowsJob!HandlesTo,
               WindowsJob!TerminateJob, WindowsJob!processes
<1>27. CASE UNCHANGED WindowsJob!vars
  BY <1>27 DEF WindowsJob!vars, WindowsJob!worker, WindowsJob!processes
<1> QED
  BY <1>1, <1>2, <1>3, <1>4, <1>5, <1>6, <1>7, <1>8, <1>9, <1>10, <1>11, <1>12,
     <1>13, <1>14, <1>15, <1>16, <1>17, <1>18, <1>19, <1>20, <1>21, <1>22,
     <1>23, <1>24, <1>25, <1>26, <1>27
     DEF WindowsJob!Next

\* The record, the handles of the job, the processes and the report agree,
\* through every death and failing call.
THEOREM JobInvariance ==
  ASSUME WindowsJob!JobAssumption
  PROVE  WindowsJob!Spec => []WindowsJob!IInv
<1>1. WindowsJob!Init => WindowsJob!IInv
  BY JobInit
<1>2. WindowsJob!IInv /\ [WindowsJob!Next]_(WindowsJob!vars)
      => WindowsJob!IInv'
  BY JobNext
<1> QED
  BY <1>1, <1>2, PTL DEF WindowsJob!Spec

\* The Windows backend keeps the promises of its port, although a worker that
\* ends holds the job next to the one that comes after it.
THEOREM JobContained ==
  ASSUME WindowsJob!JobAssumption
  PROVE  WindowsJob!Spec => WindowsJob!Implements
<1>1. WindowsJob!Init => WindowsJob!Contained!Init
  BY JobInit
<1>2. WindowsJob!IInv /\ [WindowsJob!Next]_(WindowsJob!vars)
      => [WindowsJob!Contained!Next]_(WindowsJob!Contained!vars)
  BY JobStep
<1> QED
  BY <1>1, <1>2, JobInvariance, PTL
     DEF WindowsJob!Spec, WindowsJob!Implements, WindowsJob!Contained!Spec

-----------------------------------------------------------------------------
(***************************************************************************)
(* The process group.  From the token on the worker that knows the root does *)
(* not trust its scans, so a death that is confirmed is one of a target that *)
(* was never released, or of another boot.                                 *)
(***************************************************************************)
\* Before its start there is nothing of the attempt.
LEMMA PosixInit ==
  ASSUME PosixGroup!GroupAssumption, PosixGroup!Init
  PROVE  PosixGroup!IInv /\ PosixGroup!Contained!Init
<1> USE DEF PosixGroup!GroupAssumption, PosixGroup!Init, PosixGroup!NoRecord
<1>1. PosixGroup!TypeOK
  <2>1. groupLive \in [known : BOOLEAN, uncertain : BOOLEAN, escaped : BOOLEAN]
    OBVIOUS
  <2>2. groupJournal \in BOOLEAN /\ sameBoot \in BOOLEAN
        /\ groupRan \in BOOLEAN
    OBVIOUS
  <2>3. kid \in [GroupKids -> {"none", "in", "out", "dead"}]
    OBVIOUS
  <2> QED
    BY <2>1, <2>2, <2>3 DEF PosixGroup!TypeOK
<1>2. PosixGroup!Living("in") \cup PosixGroup!Living("out") = {}
  BY DEF PosixGroup!Living
<1>3. PosixGroup!GateFits /\ PosixGroup!TreeFits
  BY <1>2 DEF PosixGroup!GateFits, PosixGroup!TreeFits, PosixGroup!RootLive
<1>4. PosixGroup!Contained!Init
  BY DEF PosixGroup!Contained!Init, PosixGroup!Target
<1> QED
  BY <1>1, <1>3, <1>4 DEF PosixGroup!IInv

\* The records of the worker.
Records == [known : BOOLEAN, uncertain : BOOLEAN, escaped : BOOLEAN]

\* A scan that is incomplete makes the record uncertain, and no scan makes it
\* certain.
LEMMA PosixObserved ==
  ASSUME PosixGroup!TypeOK, NEW complete \in BOOLEAN, NEW D
  PROVE  /\ PosixGroup!Observed(complete, D) \in Records
         /\ PosixGroup!Observed(complete, D).known = groupLive.known
         /\ PosixGroup!Observed(complete, D).uncertain
            = (groupLive.uncertain \/ ~complete)
<1>1. (D \cap PosixGroup!Living("out") # {}) \in BOOLEAN
  OBVIOUS
<1>2. /\ (groupLive.uncertain \/ ~complete) \in BOOLEAN
      /\ (groupLive.escaped \/ D \cap PosixGroup!Living("out") # {})
         \in BOOLEAN
  OBVIOUS
<1> QED
  BY <1>1, <1>2 DEF PosixGroup!Observed, PosixGroup!TypeOK, Records

\* What signals do to the worker's record and to the processes.
PosixWeaker ==
    /\ groupLive' \in Records /\ groupLive'.known = groupLive.known
    /\ (groupLive.uncertain => groupLive'.uncertain)
    /\ groupSeen' \subseteq GroupKids
    /\ kid' \in [GroupKids -> {"none", "in", "out", "dead"}]
    /\ PosixGroup!Living("in")' \cup PosixGroup!Living("out")'
           \subseteq PosixGroup!Living("in") \cup PosixGroup!Living("out")
    /\ groupRoot' = groupRoot \/ (groupRoot' = "dead" /\ PosixGroup!RootLive)

\* Signals end processes and start none, and the record that the worker keeps
\* of the root stays.
LEMMA PosixSignals ==
  ASSUME PosixGroup!TypeOK, PosixGroup!Signals
  PROVE  PosixWeaker
<1>1. CASE groupLive' = [groupLive EXCEPT !.uncertain = TRUE]
           /\ UNCHANGED <<groupSeen, groupRoot, kid>>
  BY <1>1 DEF PosixGroup!TypeOK, Records, PosixGroup!Living, PosixWeaker
<1>2. CASE \E D
           \in SUBSET (PosixGroup!Living("in") \cup PosixGroup!Living("out")) :
             PosixGroup!Signal(D, groupPc \in {"grace", "start_grace"})
  <2> PICK D
    \in SUBSET (PosixGroup!Living("in") \cup PosixGroup!Living("out")) :
             PosixGroup!Signal(D, groupPc \in {"grace", "start_grace"})
    BY <1>2
  <2> DEFINE known == PosixGroup!Living("in") \subseteq groupSeen \cup D
  <2>1. known \in BOOLEAN
    OBVIOUS
  <2>2. groupLive'
        = [PosixGroup!Observed(TRUE, D) EXCEPT !.uncertain = @ \/ ~known]
    BY DEF PosixGroup!Signal
  <2>3. groupLive' \in Records /\ groupLive'.known = groupLive.known
        /\ (groupLive.uncertain => groupLive'.uncertain)
    BY <2>1, <2>2, PosixObserved DEF Records
  <2>4. groupSeen' \subseteq GroupKids
    BY DEF PosixGroup!Signal, PosixGroup!TypeOK, PosixGroup!Living
  <2>5. PICK E : kid'
             = [k \in GroupKids |-> IF k \in E THEN "dead" ELSE kid[k]]
    BY DEF PosixGroup!Signal
  <2>6. kid' \in [GroupKids -> {"none", "in", "out", "dead"}]
    BY <2>5 DEF PosixGroup!TypeOK
  <2>7. PosixGroup!Living("in")' \cup PosixGroup!Living("out")'
          \subseteq PosixGroup!Living("in") \cup PosixGroup!Living("out")
    BY <2>5 DEF PosixGroup!Living
  <2>8. groupRoot' = groupRoot \/ (groupRoot' = "dead" /\ PosixGroup!RootLive)
    BY DEF PosixGroup!Signal
  <2> QED
    BY <2>3, <2>4, <2>6, <2>7, <2>8 DEF PosixWeaker
<1> QED
  BY <1>1, <1>2 DEF PosixGroup!Signals, PosixGroup!Fault

\* Every step of the worker, the bootstrap, the target and the kernel keeps the
\* invariant.
LEMMA PosixNext ==
  ASSUME PosixGroup!GroupAssumption, PosixGroup!IInv,
         [PosixGroup!Next]_(PosixGroup!vars)
  PROVE  PosixGroup!IInv'
<1> USE DEF PosixGroup!GroupAssumption, PosixGroup!IInv, PosixGroup!TypeOK,
            PosixGroup!GateFits, PosixGroup!TreeFits, PosixGroup!Living,
            PosixGroup!RootLive
<1>1. CASE PosixGroup!Prepare
  <2> USE <1>1 DEF PosixGroup!Prepare, PosixGroup!NoRecord, PosixGroup!Goto
  <2>1. PosixGroup!TypeOK'
    OBVIOUS
  <2>2. PosixGroup!GateFits'
    OBVIOUS
  <2>3. PosixGroup!TreeFits'
    OBVIOUS
  <2> QED
    BY <2>1, <2>2, <2>3 DEF PosixGroup!IInv
<1>2. CASE PosixGroup!StartFails
  <2> USE <1>2 DEF PosixGroup!StartFails, PosixGroup!Tell, PosixGroup!Goto,
                   PosixGroup!record
  <2>1. PosixGroup!TypeOK'
    OBVIOUS
  <2>2. PosixGroup!GateFits'
    OBVIOUS
  <2>3. PosixGroup!TreeFits'
    OBVIOUS
  <2> QED
    BY <2>1, <2>2, <2>3 DEF PosixGroup!IInv
<1>3. CASE PosixGroup!Journal
  BY <1>3 DEF PosixGroup!Journal, PosixGroup!Goto, PosixGroup!record,
              PosixGroup!tree
<1>4. CASE PosixGroup!JournalLate
  <2> USE <1>4 DEF PosixGroup!JournalLate, PosixGroup!Goto, PosixGroup!record,
                   PosixGroup!tree
  <2>1. groupJournal' \in BOOLEAN /\ (groupJournal => groupJournal')
    OBVIOUS
  <2>2. PosixGroup!TypeOK'
    BY <2>1
  <2>3. PosixGroup!GateFits'
    BY <2>1
  <2>4. PosixGroup!TreeFits'
    BY <2>1
  <2> QED
    BY <2>2, <2>3, <2>4 DEF PosixGroup!IInv
<1>5. CASE PosixGroup!Activate
  BY <1>5 DEF PosixGroup!Activate, PosixGroup!Release, PosixGroup!Goto
<1>6. ASSUME NEW written \in BOOLEAN, PosixGroup!ActivateFails(written)
      PROVE  PosixGroup!IInv'
  BY <1>6 DEF PosixGroup!ActivateFails, PosixGroup!Goto, PosixGroup!Fault,
              PosixGroup!Release
<1>7. CASE PosixGroup!BootstrapGoes
  BY <1>7 DEF PosixGroup!BootstrapGoes, PosixGroup!record
<1>8. CASE PosixGroup!RootEnds
  BY <1>8 DEF PosixGroup!RootEnds, PosixGroup!record
<1>9. ASSUME NEW k \in GroupKids, PosixGroup!KidMoves(k)
      PROVE  PosixGroup!IInv'
  BY <1>9 DEF PosixGroup!KidMoves, PosixGroup!record
<1>10. CASE PosixGroup!Crash
  BY <1>10 DEF PosixGroup!Crash, PosixGroup!Crashed, PosixGroup!Goto,
               PosixGroup!NoRecord, PosixGroup!Tell, PosixGroup!LastTold
<1>11. CASE PosixGroup!Reboot
  BY <1>11 DEF PosixGroup!Reboot, PosixGroup!Crashed, PosixGroup!Goto,
               PosixGroup!NoRecord, PosixGroup!Tell, PosixGroup!LastTold
<1>12. CASE PosixGroup!Terminate
  BY <1>12 DEF PosixGroup!Terminate, PosixGroup!Goto, PosixGroup!record
<1>13. CASE PosixGroup!ConfirmDead
  BY <1>13 DEF PosixGroup!ConfirmDead, PosixGroup!Goto, PosixGroup!record,
               PosixGroup!tree
<1>14. CASE PosixGroup!Signals
  <2>1. PosixWeaker
    BY <1>14, PosixSignals
  <2>2. /\ groupPc' = "grace" \/ groupPc' = "start_grace" \/ groupPc' = "wait"
           \/ groupPc' = "start_wait"
        /\ groupPc \in {"term", "start_term", "grace", "start_grace"}
        /\ UNCHANGED <<groupTold, groupGate, groupRan, groupJournal, sameBoot>>
    BY <1>14 DEF PosixGroup!Signals, PosixGroup!Goto
  <2>3. PosixGroup!TypeOK'
    BY <2>1, <2>2 DEF PosixWeaker, Records
  <2>4. PosixGroup!GateFits'
    BY <2>1, <2>2 DEF PosixWeaker
  <2>5. PosixGroup!TreeFits'
    BY <2>1, <2>2 DEF PosixWeaker
  <2> QED
    BY <2>3, <2>4, <2>5
<1>15. CASE PosixGroup!Unconfirmed
  BY <1>15 DEF PosixGroup!Unconfirmed, PosixGroup!Tell, PosixGroup!Goto,
               PosixGroup!Afterwards, PosixGroup!record, PosixGroup!tree
<1>16. ASSUME NEW complete \in BOOLEAN, NEW r \in BOOLEAN,
              NEW P \in SUBSET GroupKids, NEW D \in SUBSET GroupKids,
              PosixGroup!Look(complete, r, P, D)
       PROVE  PosixGroup!IInv'
  <2> DEFINE observed == PosixGroup!Observed(complete, D)
  <2>1. /\ observed \in Records /\ observed.known = groupLive.known
        /\ observed.uncertain = (groupLive.uncertain \/ ~complete)
    BY PosixObserved
  <2>2. /\ groupLive' \in {observed, PosixGroup!NoRecord}
        /\ groupSeen' \subseteq GroupKids
        /\ UNCHANGED <<groupGate, groupRoot, kid, groupRan, groupJournal,
             sameBoot>>
    BY <1>16 DEF PosixGroup!Look, PosixGroup!Report, PosixGroup!tree
  <2>3. PosixGroup!TypeOK'
    <3>1. PosixGroup!NoRecord \in Records
      BY DEF PosixGroup!NoRecord, Records
    <3>2. groupLive' \in Records
      BY <2>1, <2>2, <3>1
    <3>3. groupGate # "open"
          /\ groupTold' \in {groupTold, "proof", "unconfirmed"}
      BY <1>16 DEF PosixGroup!Look, PosixGroup!Report, PosixGroup!Tell
    <3> QED
      BY <2>2, <3>2, <3>3 DEF Records
  <2>4. PosixGroup!GateFits'
    BY <1>16, <2>1, <2>2 DEF PosixGroup!Look, PosixGroup!Report,
                             PosixGroup!Tell, PosixGroup!NoRecord,
                             PosixGroup!Goto, PosixGroup!Afterwards
  <2>5. PosixGroup!TreeFits'
    BY <1>16, <2>1, <2>2 DEF PosixGroup!Look, PosixGroup!Shown,
                             PosixGroup!Report, PosixGroup!TreeDead,
                             PosixGroup!Tell, PosixGroup!NoRecord,
                             PosixGroup!Goto, PosixGroup!Afterwards
  <2> QED
    BY <2>3, <2>4, <2>5
<1>17. CASE PosixGroup!Restart
  BY <1>17 DEF PosixGroup!Restart, PosixGroup!Tell, PosixGroup!Goto,
               PosixGroup!record, PosixGroup!tree
<1>18. CASE PosixGroup!RecoverUnbound
  BY <1>18 DEF PosixGroup!RecoverUnbound, PosixGroup!Answer, PosixGroup!Tell,
               PosixGroup!Goto, PosixGroup!record, PosixGroup!tree
<1>19. CASE PosixGroup!RecoverHandle
  BY <1>19 DEF PosixGroup!RecoverHandle, PosixGroup!Answer, PosixGroup!Tell,
               PosixGroup!Goto, PosixGroup!NoRecord, PosixGroup!Fault,
               PosixGroup!tree
<1>20. CASE PosixGroup!ConfirmReference
  BY <1>20 DEF PosixGroup!ConfirmReference, PosixGroup!Answer, PosixGroup!Tell,
               PosixGroup!Goto, PosixGroup!record, PosixGroup!tree
<1>21. CASE UNCHANGED PosixGroup!vars
  BY <1>21 DEF PosixGroup!vars, PosixGroup!record, PosixGroup!tree
<1> QED
  BY <1>1, <1>2, <1>3, <1>4, <1>5, <1>6, <1>7, <1>8, <1>9, <1>10, <1>11, <1>12,
     <1>13, <1>14, <1>15, <1>16, <1>17, <1>18, <1>19, <1>20, <1>21
     DEF PosixGroup!Next

\* Every step is one that the port allows, or none that it shows.
LEMMA PosixStep ==
  ASSUME PosixGroup!GroupAssumption, PosixGroup!IInv,
         [PosixGroup!Next]_(PosixGroup!vars)
  PROVE  [PosixGroup!Contained!Next]_(PosixGroup!Contained!vars)
<1> USE DEF PosixGroup!GroupAssumption, PosixGroup!IInv, PosixGroup!TypeOK,
            PosixGroup!GateFits, PosixGroup!TreeFits, PosixGroup!Living,
            PosixGroup!RootLive, PosixGroup!Target, PosixGroup!Contained!Next,
            PosixGroup!Contained!vars, PosixGroup!Contained!Truth,
            PosixGroup!Contained!Prepare, PosixGroup!Contained!GiveUp,
            PosixGroup!Contained!Persist, PosixGroup!Contained!Activate,
            PosixGroup!Contained!End, PosixGroup!Contained!Told
<1>1. CASE PosixGroup!Prepare
  BY <1>1 DEF PosixGroup!Prepare, PosixGroup!NoRecord, PosixGroup!Goto
<1>2. CASE PosixGroup!StartFails
  BY <1>2 DEF PosixGroup!StartFails, PosixGroup!Tell, PosixGroup!Goto,
              PosixGroup!record
<1>3. CASE PosixGroup!Journal
  BY <1>3 DEF PosixGroup!Journal, PosixGroup!Goto, PosixGroup!record,
              PosixGroup!tree
<1>4. CASE PosixGroup!JournalLate
  <2> USE <1>4 DEF PosixGroup!JournalLate, PosixGroup!Goto, PosixGroup!record,
                   PosixGroup!tree
  <2>1. CASE groupJournal' = groupJournal
    BY <2>1
  <2>2. CASE groupJournal' = TRUE
    BY <2>2
  <2> QED
    BY <2>1, <2>2
<1>5. CASE PosixGroup!Activate
  BY <1>5 DEF PosixGroup!Activate, PosixGroup!Release, PosixGroup!Goto
<1>6. ASSUME NEW written \in BOOLEAN, PosixGroup!ActivateFails(written)
      PROVE  [PosixGroup!Contained!Next]_(PosixGroup!Contained!vars)
  BY <1>6 DEF PosixGroup!ActivateFails, PosixGroup!Goto, PosixGroup!Fault,
              PosixGroup!Release
<1>7. CASE PosixGroup!BootstrapGoes
  BY <1>7 DEF PosixGroup!BootstrapGoes, PosixGroup!record
<1>8. CASE PosixGroup!RootEnds
  BY <1>8 DEF PosixGroup!RootEnds, PosixGroup!record
<1>9. ASSUME NEW k \in GroupKids, PosixGroup!KidMoves(k)
      PROVE  [PosixGroup!Contained!Next]_(PosixGroup!Contained!vars)
  BY <1>9 DEF PosixGroup!KidMoves, PosixGroup!record
<1>10. CASE PosixGroup!Crash
  BY <1>10 DEF PosixGroup!Crash, PosixGroup!Crashed, PosixGroup!Goto,
               PosixGroup!NoRecord, PosixGroup!Tell, PosixGroup!LastTold
<1>11. CASE PosixGroup!Reboot
  BY <1>11 DEF PosixGroup!Reboot, PosixGroup!Crashed, PosixGroup!Goto,
               PosixGroup!NoRecord, PosixGroup!Tell, PosixGroup!LastTold
<1>12. CASE PosixGroup!Terminate
  BY <1>12 DEF PosixGroup!Terminate, PosixGroup!Goto, PosixGroup!record
<1>13. CASE PosixGroup!ConfirmDead
  BY <1>13 DEF PosixGroup!ConfirmDead, PosixGroup!Goto, PosixGroup!record,
               PosixGroup!tree
<1>14. CASE PosixGroup!Signals
  <2>1. PosixWeaker
    BY <1>14, PosixSignals
  <2>2. UNCHANGED <<groupTold, groupGate, groupRan, groupJournal, sameBoot>>
        /\ groupPc' # "idle" /\ groupPc # "idle"
    BY <1>14 DEF PosixGroup!Signals, PosixGroup!Goto
  <2> QED
    BY <2>1, <2>2 DEF PosixWeaker
<1>15. CASE PosixGroup!Unconfirmed
  BY <1>15 DEF PosixGroup!Unconfirmed, PosixGroup!Tell, PosixGroup!Goto,
               PosixGroup!Afterwards, PosixGroup!record, PosixGroup!tree
<1>16. ASSUME NEW complete \in BOOLEAN, NEW r \in BOOLEAN,
              NEW P \in SUBSET GroupKids, NEW D \in SUBSET GroupKids,
              PosixGroup!Look(complete, r, P, D)
       PROVE  [PosixGroup!Contained!Next]_(PosixGroup!Contained!vars)
  BY <1>16 DEF PosixGroup!Look, PosixGroup!Shown, PosixGroup!Fault,
               PosixGroup!TreeDead, PosixGroup!Report, PosixGroup!Tell,
               PosixGroup!NoRecord, PosixGroup!Observed, PosixGroup!Goto,
               PosixGroup!Afterwards, PosixGroup!tree
<1>17. CASE PosixGroup!Restart
  BY <1>17 DEF PosixGroup!Restart, PosixGroup!Tell, PosixGroup!Goto,
               PosixGroup!record, PosixGroup!tree
<1>18. CASE PosixGroup!RecoverUnbound
  BY <1>18 DEF PosixGroup!RecoverUnbound, PosixGroup!Answer, PosixGroup!Tell,
               PosixGroup!Goto, PosixGroup!record, PosixGroup!tree
<1>19. CASE PosixGroup!RecoverHandle
  BY <1>19 DEF PosixGroup!RecoverHandle, PosixGroup!Answer, PosixGroup!Tell,
               PosixGroup!Goto, PosixGroup!NoRecord, PosixGroup!Fault,
               PosixGroup!tree
<1>20. CASE PosixGroup!ConfirmReference
  BY <1>20 DEF PosixGroup!ConfirmReference, PosixGroup!Answer, PosixGroup!Tell,
               PosixGroup!Goto, PosixGroup!record, PosixGroup!tree
<1>21. CASE UNCHANGED PosixGroup!vars
  BY <1>21 DEF PosixGroup!vars, PosixGroup!record, PosixGroup!tree
<1> QED
  BY <1>1, <1>2, <1>3, <1>4, <1>5, <1>6, <1>7, <1>8, <1>9, <1>10, <1>11, <1>12,
     <1>13, <1>14, <1>15, <1>16, <1>17, <1>18, <1>19, <1>20, <1>21
     DEF PosixGroup!Next

\* Gate, journal, what the worker knows and the report agree, through every
\* death, reboot, failing call and incomplete scan.
THEOREM PosixInvariance ==
  ASSUME PosixGroup!GroupAssumption
  PROVE  PosixGroup!Spec => []PosixGroup!IInv
<1>1. PosixGroup!Init => PosixGroup!IInv
  BY PosixInit
<1>2. PosixGroup!IInv /\ [PosixGroup!Next]_(PosixGroup!vars)
      => PosixGroup!IInv'
  BY PosixNext
<1> QED
  BY <1>1, <1>2, PTL DEF PosixGroup!Spec

\* The POSIX backend keeps the promises of its port, whatever its scans show.
THEOREM PosixContained ==
  ASSUME PosixGroup!GroupAssumption
  PROVE  PosixGroup!Spec => PosixGroup!Implements
<1>1. PosixGroup!Init => PosixGroup!Contained!Init
  BY PosixInit
<1>2. PosixGroup!IInv /\ [PosixGroup!Next]_(PosixGroup!vars)
      => [PosixGroup!Contained!Next]_(PosixGroup!Contained!vars)
  BY PosixStep
<1> QED
  BY <1>1, <1>2, PosixInvariance, PTL
     DEF PosixGroup!Spec, PosixGroup!Implements, PosixGroup!Contained!Spec

-----------------------------------------------------------------------------
(***************************************************************************)
(* The backends and the scope beside the other protocols.                  *)
(***************************************************************************)
\* A step of all the protocols is a step of each of these, or leaves it alone.
LEMMA OneMoves ==
  ASSUME [ProcessesNext]_processesVars
  PROVE  /\ [Next]_vars /\ [CgroupTree!Next]_(CgroupTree!vars)
         /\ [WindowsJob!Next]_(WindowsJob!vars)
         /\ [PosixGroup!Next]_(PosixGroup!vars)
<1>1. [Next]_vars
  BY DEF ProcessesNext, processesVars, scopeVars
<1>2. [CgroupTree!Next]_(CgroupTree!vars)
  BY DEF ProcessesNext, processesVars, treeVars, CgroupTree!vars,
         CgroupTree!worker, CgroupTree!tree
<1>3. [WindowsJob!Next]_(WindowsJob!vars)
  BY DEF ProcessesNext, processesVars, jobVars, WindowsJob!vars,
         WindowsJob!worker, WindowsJob!processes
<1>4. [PosixGroup!Next]_(PosixGroup!vars)
  BY DEF ProcessesNext, processesVars, groupVars, PosixGroup!vars,
         PosixGroup!record, PosixGroup!tree
<1> QED
  BY <1>1, <1>2, <1>3, <1>4

\* What is proved of the processes of an attempt is true, for good: what the
\* run checks.
THEOREM DeathProvedHere == ProcessesSpec => DeathProved
<1>1. ProcessesInit => /\ IInv /\ CgroupTree!IInv /\ CgroupTree!Contained!Init
                       /\ WindowsJob!IInv /\ WindowsJob!Contained!Init
                       /\ PosixGroup!IInv /\ PosixGroup!Contained!Init
  BY IInvInit, CgroupInit, JobInit, PosixInit, InstancesAssumption
     DEF ProcessesInit
<1>2. IInv /\ [ProcessesNext]_processesVars => IInv'
  BY OneMoves, TypeNext, UnitNext, ReadyNext, CallNext DEF IInv
<1>3. CgroupTree!IInv /\ [ProcessesNext]_processesVars
      => CgroupTree!IInv'
        /\ [CgroupTree!Contained!Next]_(CgroupTree!Contained!vars)
  BY OneMoves, CgroupNext, CgroupStep, InstancesAssumption
<1>4. WindowsJob!IInv /\ [ProcessesNext]_processesVars
      => WindowsJob!IInv'
        /\ [WindowsJob!Contained!Next]_(WindowsJob!Contained!vars)
  BY OneMoves, JobNext, JobStep, InstancesAssumption
<1>5. PosixGroup!IInv /\ [ProcessesNext]_processesVars
      => PosixGroup!IInv'
        /\ [PosixGroup!Contained!Next]_(PosixGroup!Contained!vars)
  BY OneMoves, PosixNext, PosixStep, InstancesAssumption
<1>6. CgroupTree!IInv => CgroupTree!NeverIsTrue
                         /\ CgroupTree!FailedStartNeverRuns
                         /\ CgroupTree!RunsJournalled
  BY DEF CgroupTree!IInv, CgroupTree!StartFits, CgroupTree!NeverIsTrue,
         CgroupTree!FailedStartNeverRuns, CgroupTree!RunsJournalled
<1> QED
  BY <1>1, <1>2, <1>3, <1>4, <1>5, <1>6, PTL
     DEF ProcessesSpec, DeathProved, CgroupTree!Implements,
         CgroupTree!Contained!Spec, WindowsJob!Implements,
         WindowsJob!Contained!Spec, PosixGroup!Implements,
         PosixGroup!Contained!Spec

-----------------------------------------------------------------------------
(***************************************************************************)
(* The inputs of an attempt.                                               *)
(***************************************************************************)
\* The clones are visited one after the other.
LEMMA CloneByClone ==
  ASSUME AttemptInput!InputAssumption
  PROVE  /\ 1 \in Clones /\ Clones \subseteq Nat /\ MaxInputFaults \in Nat
         /\ \A r \in Clones : 1 <= r
         /\ \A r \in Clones : r + 1 \notin Clones => \A q \in Clones : q <= r
         /\ None \notin AttemptInput!Commits
         /\ AttemptInput!Commits \subseteq Nat
<1>1. Clones \subseteq Nat \ {0} /\ Clones # {}
  BY DEF AttemptInput!InputAssumption
<1>2. \A r \in Clones : 1..r \subseteq Clones
  BY DEF AttemptInput!InputAssumption
<1>3. \A r, q \in Clones : r < q => r + 1 \in 1..q
  BY <1>1
<1>4. 1 \in Clones
  <2>1. PICK r : r \in Clones
    BY <1>1
  <2>2. r \in Nat \ {0}
    BY <1>1, <2>1
  <2>3. 1 \in 1..r
    BY <2>2
  <2> QED
    BY <1>2, <2>1, <2>3
<1>5. \A r \in Clones : r + 1 \notin Clones => \A q \in Clones : q <= r
  BY <1>1, <1>2, <1>3
<1>6. MaxInputFaults \in Nat /\ MaxInputCommit \in Nat
      /\ None \notin 0..MaxInputCommit
  BY DEF AttemptInput!InputAssumption
<1> QED
  BY <1>1, <1>4, <1>5, <1>6 DEF AttemptInput!Commits

\* A fault stays within the bound.
LEMMA OneMoreFault ==
  ASSUME AttemptInput!InputAssumption, AttemptInput!TypeOK, AttemptInput!Fault
  PROVE  inputFaults' \in 0..MaxInputFaults
  BY CloneByClone DEF AttemptInput!TypeOK, AttemptInput!Fault

\* Whatever happens to a clone: HEAD and files only go forward.
LEMMA Forward ==
  ASSUME AttemptInput!InputAssumption, AttemptInput!TypeOK,
         AttemptInput!ClonesFit, NEW r \in Clones,
         NEW who \in {"executor", "other"},
         AttemptInput!StartPull(r, who) \/ AttemptInput!EndPull(r, who)
           \/ AttemptInput!KillPull(r, who)
  PROVE  /\ inputHead' \in [Clones -> AttemptInput!Commits]
         /\ inputFiles' \in [Clones -> AttemptInput!Commits]
         /\ pulling' \in [Clones -> {"none", "executor", "other"}]
         /\ \A q \in Clones :
              /\ inputHead[q] <= inputHead'[q]
              /\ inputFiles[q] <= inputFiles'[q]
              /\ inputHead'[q] <= inputFiles'[q]
         /\ \A q \in Clones : pulling'[q] = "executor" =>
               pulling[q] = "executor" \/ (q = r /\ who = "executor")
<1>1. /\ inputHead \in [Clones -> AttemptInput!Commits]
      /\ inputFiles \in [Clones -> AttemptInput!Commits]
      /\ pulling \in [Clones -> {"none", "executor", "other"}]
      /\ \A q \in Clones : inputHead[q] <= inputFiles[q]
  BY DEF AttemptInput!TypeOK, AttemptInput!ClonesFit
<1>2. AttemptInput!Commits \subseteq Nat
  BY CloneByClone
<1>3. CASE AttemptInput!StartPull(r, who)
  <2>1. PICK c \in AttemptInput!Commits : c > inputHead[r]
             /\ inputFiles' = [inputFiles EXCEPT ![r] = c]
    BY <1>3 DEF AttemptInput!StartPull
  <2>2. /\ inputHead' = inputHead /\ inputFiles[r] = inputHead[r]
        /\ pulling' = [pulling EXCEPT ![r] = who]
    BY <1>3 DEF AttemptInput!StartPull, AttemptInput!Clean
  <2>3. \A q \in Clones :
          /\ inputFiles'[q] = IF q = r THEN c ELSE inputFiles[q]
          /\ pulling'[q] = IF q = r THEN who ELSE pulling[q]
    BY <1>1, <2>1, <2>2
  <2>4. /\ inputFiles' \in [Clones -> AttemptInput!Commits]
        /\ pulling' \in [Clones -> {"none", "executor", "other"}]
    BY <1>1, <2>1, <2>2
  <2>5. \A q \in Clones : inputHead[q] \in Nat /\ inputFiles[q] \in Nat
        /\ c \in Nat
    BY <1>1, <1>2, <2>1
  <2> QED
    BY <1>1, <2>1, <2>2, <2>3, <2>4, <2>5
<1>4. CASE AttemptInput!EndPull(r, who)
  <2>1. /\ inputHead' = [inputHead EXCEPT ![r] = inputFiles[r]]
        /\ inputFiles' = inputFiles
        /\ pulling' = [pulling EXCEPT ![r] = "none"]
    BY <1>4 DEF AttemptInput!EndPull
  <2>2. \A q \in Clones :
          /\ inputHead'[q] = IF q = r THEN inputFiles[q] ELSE inputHead[q]
          /\ pulling'[q] = IF q = r THEN "none" ELSE pulling[q]
    BY <1>1, <2>1
  <2>3. /\ inputHead' \in [Clones -> AttemptInput!Commits]
        /\ pulling' \in [Clones -> {"none", "executor", "other"}]
    BY <1>1, <2>1
  <2>4. \A q \in Clones : inputHead[q] \in Nat /\ inputFiles[q] \in Nat
    BY <1>1, <1>2
  <2> QED
    BY <1>1, <2>1, <2>2, <2>3, <2>4
<1>5. CASE AttemptInput!KillPull(r, who)
  <2>1. /\ inputHead' = inputHead /\ inputFiles' = inputFiles
        /\ pulling' = [pulling EXCEPT ![r] = "none"]
    BY <1>5 DEF AttemptInput!KillPull
  <2>2. \A q \in Clones : pulling'[q] = IF q = r THEN "none" ELSE pulling[q]
    BY <1>1, <2>1
  <2>3. pulling' \in [Clones -> {"none", "executor", "other"}]
    BY <1>1, <2>1
  <2>4. \A q \in Clones : inputHead[q] \in Nat /\ inputFiles[q] \in Nat
    BY <1>1, <1>2
  <2> QED
    BY <1>1, <2>1, <2>2, <2>3, <2>4
<1> QED
  BY <1>3, <1>4, <1>5

\* What an attempt that did not succeed leaves is a result.
LEMMA FormOfResult ==
  ASSUME commits \in AttemptInput!Vectors, trees \in AttemptInput!Vectors,
         NEW c \in 1..255,
         \/ AttemptInput!Finish("failed", c, FALSE)
         \/ AttemptInput!Finish("retryable", 2, TRUE)
         \/ AttemptInput!Finish("timed_out", 124, TRUE)
  PROVE  inputResult' \in AttemptInput!Results
<1>1. ASSUME AttemptInput!Finish("failed", c, FALSE)
      PROVE  inputResult' \in AttemptInput!Results
  <2>1. inputResult' = [outcome |-> "failed", rc |-> c, retryable |-> FALSE,
                        commits |-> commits, trees |-> trees]
    BY <1>1 DEF AttemptInput!Finish
  <2> QED
    BY <2>1 DEF AttemptInput!Results
<1>2. ASSUME AttemptInput!Finish("retryable", 2, TRUE)
      PROVE  inputResult' \in AttemptInput!Results
  <2>1. inputResult' = [outcome |-> "retryable", rc |-> 2, retryable |-> TRUE,
                        commits |-> commits, trees |-> trees]
    BY <1>2 DEF AttemptInput!Finish
  <2> QED
    BY <2>1 DEF AttemptInput!Results
<1>3. ASSUME AttemptInput!Finish("timed_out", 124, TRUE)
      PROVE  inputResult' \in AttemptInput!Results
  <2>1. inputResult' =
          [outcome |-> "timed_out", rc |-> 124, retryable |-> TRUE,
           commits |-> commits, trees |-> trees]
    BY <1>3 DEF AttemptInput!Finish
  <2> QED
    BY <2>1 DEF AttemptInput!Results
<1> QED
  BY <1>1, <1>2, <1>3

\* A result that is no success needs nothing but its form.
LEMMA EndsBadly ==
  ASSUME AttemptInput!InputAssumption, AttemptInput!IInv,
         inputPc \notin {"sync", "done"},
         UNCHANGED <<AttemptInput!clones, AttemptInput!spec,
             AttemptInput!snapshots, inputSeen>>,
                 inputFaults' \in 0..MaxInputFaults,
         NEW c \in 1..255,
         \/ AttemptInput!Finish("failed", c, FALSE)
         \/ AttemptInput!Finish("retryable", 2, TRUE)
         \/ AttemptInput!Finish("timed_out", 124, TRUE)
  PROVE  AttemptInput!IInv'
<1> USE CloneByClone DEF AttemptInput!IInv, AttemptInput!clones,
                         AttemptInput!spec, AttemptInput!snapshots
<1>1. /\ inputPc' = "done" /\ repo' = repo
      /\ \E e \in {[outcome |-> "failed", rc |-> c, retryable |-> FALSE],
                  [outcome |-> "retryable", rc |-> 2, retryable |-> TRUE],
                  [outcome |-> "timed_out", rc |-> 124, retryable |-> TRUE]} :
            inputResult' = [outcome |-> e.outcome, rc |-> e.rc,
                            retryable |-> e.retryable,
                            commits |-> commits, trees |-> trees]
  BY DEF AttemptInput!Finish
<1>2. AttemptInput!TypeOK'
  <2>1. commits \in AttemptInput!Vectors /\ trees \in AttemptInput!Vectors
    BY DEF AttemptInput!TypeOK
  <2>2. inputResult' \in AttemptInput!Results
    BY <2>1, FormOfResult
  <2> QED
    BY <1>1, <2>2 DEF AttemptInput!TypeOK, AttemptInput!Labels
<1>3. AttemptInput!ClonesFit' /\ AttemptInput!TargetFits'
      /\ AttemptInput!SeenFits'
  BY <1>1 DEF AttemptInput!TypeOK, AttemptInput!ClonesFit,
              AttemptInput!TargetFits, AttemptInput!SeenFits,
              AttemptInput!HasCommit, AttemptInput!HasTree, AttemptInput!Calm,
              AttemptInput!HasCommit2, AttemptInput!Snapped,
              AttemptInput!Taking, AttemptInput!Checking
<1>4. AttemptInput!SuccessIsExact' /\ AttemptInput!SuccessCoversTargets'
  BY <1>1 DEF AttemptInput!SuccessIsExact, AttemptInput!SuccessCoversTargets
<1>5. AttemptInput!OnlyRetryablesRetried'
  BY <1>1 DEF AttemptInput!OnlyRetryablesRetried
<1> QED
  BY <1>2, <1>3, <1>4, <1>5

\* Pulls of others.
LEMMA OthersStep ==
  ASSUME AttemptInput!InputAssumption, AttemptInput!IInv, AttemptInput!Others
  PROVE  AttemptInput!IInv'
<1> USE CloneByClone DEF AttemptInput!IInv
<1>1. PICK r \in Clones :
        \/ AttemptInput!StartPull(r, "other") /\ UNCHANGED inputFaults
        \/ AttemptInput!EndPull(r, "other") /\ UNCHANGED inputFaults
        \/ AttemptInput!KillPull(r, "other")
  BY DEF AttemptInput!Others
<1>2. UNCHANGED <<AttemptInput!spec, inputPc, repo, AttemptInput!snapshots,
        inputResult, inputSeen>>
  BY DEF AttemptInput!Others
<1>3. inputFaults' \in 0..MaxInputFaults
  BY <1>1, OneMoreFault DEF AttemptInput!KillPull, AttemptInput!TypeOK
<1> USE <1>1, <1>2, <1>3, Forward DEF AttemptInput!spec, AttemptInput!snapshots
<1>4. AttemptInput!TypeOK'
  BY DEF AttemptInput!TypeOK
<1>5. AttemptInput!ClonesFit'
  BY DEF AttemptInput!TypeOK, AttemptInput!ClonesFit, AttemptInput!HasCommit,
         AttemptInput!HasTree, AttemptInput!Calm, AttemptInput!HasCommit2,
         AttemptInput!Snapped, AttemptInput!Taking, AttemptInput!Checking
<1>6. AttemptInput!TargetFits'
  BY DEF AttemptInput!TypeOK, AttemptInput!TargetFits, AttemptInput!HasCommit,
         AttemptInput!HasTree, AttemptInput!Calm, AttemptInput!HasCommit2,
         AttemptInput!Snapped, AttemptInput!Taking, AttemptInput!Checking
<1>7. AttemptInput!SeenFits'
  BY DEF AttemptInput!TypeOK, AttemptInput!SeenFits, AttemptInput!ClonesFit,
         AttemptInput!HasCommit, AttemptInput!HasTree, AttemptInput!Calm,
         AttemptInput!HasCommit2, AttemptInput!Snapped, AttemptInput!Taking,
         AttemptInput!Checking
<1>8. AttemptInput!SuccessIsExact' /\ AttemptInput!SuccessCoversTargets'
      /\ AttemptInput!OnlyRetryablesRetried'
  BY DEF AttemptInput!SuccessIsExact, AttemptInput!SuccessCoversTargets,
         AttemptInput!OnlyRetryablesRetried
<1> QED
  BY <1>4, <1>5, <1>6, <1>7, <1>8

\* The revision.
LEMMA IdentityStep ==
  ASSUME AttemptInput!InputAssumption, AttemptInput!IInv, AttemptInput!Identity
  PROVE  AttemptInput!IInv'
<1> USE CloneByClone DEF AttemptInput!IInv
<1>1. CASE revision
  <2>1. /\ inputPc = "identity" /\ inputPc' = "covers" /\ repo' = 1
        /\ UNCHANGED <<AttemptInput!clones, AttemptInput!spec,
             AttemptInput!snapshots, inputSeen, inputResult>>
        /\ inputFaults' \in 0..MaxInputFaults
    BY <1>1, OneMoreFault DEF AttemptInput!Identity, AttemptInput!Goto,
                              AttemptInput!TypeOK
  <2> USE <2>1 DEF AttemptInput!clones, AttemptInput!spec,
                   AttemptInput!snapshots
  <2>2. AttemptInput!TypeOK'
    BY DEF AttemptInput!TypeOK, AttemptInput!Labels
  <2>3. AttemptInput!ClonesFit'
    BY DEF AttemptInput!TypeOK, AttemptInput!ClonesFit, AttemptInput!HasCommit,
           AttemptInput!HasTree, AttemptInput!Calm, AttemptInput!HasCommit2,
           AttemptInput!Snapped, AttemptInput!Taking, AttemptInput!Checking
  <2>4. AttemptInput!TargetFits'
    BY DEF AttemptInput!TypeOK, AttemptInput!TargetFits,
           AttemptInput!HasCommit, AttemptInput!HasTree, AttemptInput!Calm,
           AttemptInput!HasCommit2, AttemptInput!Snapped, AttemptInput!Taking,
           AttemptInput!Checking
  <2>5. AttemptInput!SeenFits'
    BY DEF AttemptInput!TypeOK, AttemptInput!ClonesFit, AttemptInput!SeenFits,
           AttemptInput!HasCommit, AttemptInput!HasTree, AttemptInput!Calm,
           AttemptInput!HasCommit2, AttemptInput!Snapped, AttemptInput!Taking,
           AttemptInput!Checking
  <2>6. AttemptInput!SuccessIsExact' /\ AttemptInput!SuccessCoversTargets'
        /\ AttemptInput!OnlyRetryablesRetried'
    BY DEF AttemptInput!SuccessIsExact, AttemptInput!SuccessCoversTargets,
           AttemptInput!OnlyRetryablesRetried
  <2> QED
    BY <2>2, <2>3, <2>4, <2>5, <2>6
<1>2. CASE ~revision
  <2>1. /\ inputPc \notin {"sync", "done"}
        /\ UNCHANGED <<AttemptInput!clones, AttemptInput!spec,
             AttemptInput!snapshots, inputSeen>>
        /\ AttemptInput!Finish("failed", 1, FALSE)
        /\ inputFaults' \in 0..MaxInputFaults
    BY <1>2, OneMoreFault DEF AttemptInput!TypeOK, AttemptInput!snapshots,
                              AttemptInput!Identity, AttemptInput!Failed
  <2> QED
    BY <2>1, 1 \in 1..255, EndsBadly
<1> QED
  BY <1>1, <1>2

\* The first question of materialize.
LEMMA CoversStep ==
  ASSUME AttemptInput!InputAssumption, AttemptInput!IInv, AttemptInput!Covers
  PROVE  AttemptInput!IInv'
<1> USE CloneByClone DEF AttemptInput!IInv
<1>1. CASE AttemptInput!Covered /\ inputPc' = "clean"
  <2>1. /\ inputPc = "covers" /\ inputPc' = "clean" /\ repo' = 1
        /\ UNCHANGED <<AttemptInput!clones, AttemptInput!spec,
             AttemptInput!snapshots, inputSeen, inputResult>>
        /\ inputFaults' \in 0..MaxInputFaults
    BY <1>1, OneMoreFault DEF AttemptInput!Covers, AttemptInput!Goto,
                              AttemptInput!Covered, AttemptInput!TypeOK
  <2>2. /\ inputHead[target.repo] >= target.commit
        /\ \A r \in Clones : inputHead[r] >= wanted[r]
    BY <1>1 DEF AttemptInput!Covered
  <2> USE <2>1, <2>2 DEF AttemptInput!clones, AttemptInput!spec,
                         AttemptInput!snapshots
  <2>3. AttemptInput!TypeOK'
    BY DEF AttemptInput!TypeOK, AttemptInput!Labels
  <2>4. AttemptInput!ClonesFit'
    BY DEF AttemptInput!TypeOK, AttemptInput!ClonesFit, AttemptInput!HasCommit,
           AttemptInput!HasTree, AttemptInput!Calm, AttemptInput!HasCommit2,
           AttemptInput!Snapped, AttemptInput!Taking, AttemptInput!Checking
  <2>5. AttemptInput!TargetFits'
    BY DEF AttemptInput!TypeOK, AttemptInput!TargetFits,
           AttemptInput!HasCommit, AttemptInput!HasTree, AttemptInput!Calm,
           AttemptInput!HasCommit2, AttemptInput!Snapped, AttemptInput!Taking,
           AttemptInput!Checking
  <2>6. AttemptInput!SeenFits'
    BY DEF AttemptInput!TypeOK, AttemptInput!ClonesFit, AttemptInput!SeenFits,
           AttemptInput!HasCommit, AttemptInput!HasTree, AttemptInput!Calm,
           AttemptInput!HasCommit2, AttemptInput!Snapped, AttemptInput!Taking,
           AttemptInput!Checking
  <2>7. AttemptInput!SuccessIsExact' /\ AttemptInput!SuccessCoversTargets'
        /\ AttemptInput!OnlyRetryablesRetried'
    BY DEF AttemptInput!SuccessIsExact, AttemptInput!SuccessCoversTargets,
           AttemptInput!OnlyRetryablesRetried
  <2> QED
    BY <2>3, <2>4, <2>5, <2>6, <2>7
<1>2. CASE inputPc' = "sync"
  <2>1. /\ inputPc = "covers" /\ inputPc' = "sync" /\ repo' = 1
        /\ UNCHANGED <<AttemptInput!clones, AttemptInput!spec,
             AttemptInput!snapshots, inputSeen, inputResult>>
        /\ inputFaults' \in 0..MaxInputFaults
    BY <1>2, OneMoreFault DEF AttemptInput!Covers, AttemptInput!Goto,
                              AttemptInput!TypeOK
  <2> USE <2>1 DEF AttemptInput!clones, AttemptInput!spec,
                   AttemptInput!snapshots
  <2>2. AttemptInput!TypeOK'
    BY DEF AttemptInput!TypeOK, AttemptInput!Labels
  <2>3. AttemptInput!ClonesFit'
    BY DEF AttemptInput!TypeOK, AttemptInput!ClonesFit, AttemptInput!HasCommit,
           AttemptInput!HasTree, AttemptInput!Calm, AttemptInput!HasCommit2,
           AttemptInput!Snapped, AttemptInput!Taking, AttemptInput!Checking
  <2>4. AttemptInput!TargetFits'
    BY DEF AttemptInput!TypeOK, AttemptInput!TargetFits,
           AttemptInput!HasCommit, AttemptInput!HasTree, AttemptInput!Calm,
           AttemptInput!HasCommit2, AttemptInput!Snapped, AttemptInput!Taking,
           AttemptInput!Checking
  <2>5. AttemptInput!SeenFits'
    BY DEF AttemptInput!TypeOK, AttemptInput!ClonesFit, AttemptInput!SeenFits,
           AttemptInput!HasCommit, AttemptInput!HasTree, AttemptInput!Calm,
           AttemptInput!HasCommit2, AttemptInput!Snapped, AttemptInput!Taking,
           AttemptInput!Checking
  <2>6. AttemptInput!SuccessIsExact' /\ AttemptInput!SuccessCoversTargets'
        /\ AttemptInput!OnlyRetryablesRetried'
    BY DEF AttemptInput!SuccessIsExact, AttemptInput!SuccessCoversTargets,
           AttemptInput!OnlyRetryablesRetried
  <2> QED
    BY <2>2, <2>3, <2>4, <2>5, <2>6
<1> QED
  BY <1>1, <1>2 DEF AttemptInput!Covers, AttemptInput!Goto

\* A clone is left as it is.
LEMMA SyncSkipsStep ==
  ASSUME AttemptInput!InputAssumption, AttemptInput!IInv,
         AttemptInput!SyncSkips
  PROVE  AttemptInput!IInv'
<1> USE CloneByClone DEF AttemptInput!IInv
<1>1. /\ inputPc = "sync" /\ pulling[repo] # "executor"
      /\ UNCHANGED <<AttemptInput!clones, AttemptInput!spec,
           AttemptInput!snapshots, inputSeen, inputResult, inputFaults>>
      /\ repo' \in Clones /\ inputPc' \in {"sync", "covers_again"}
  BY DEF AttemptInput!SyncSkips, AttemptInput!NextSync, AttemptInput!TypeOK
<1> USE <1>1 DEF AttemptInput!clones, AttemptInput!spec, AttemptInput!snapshots
<1>2. AttemptInput!TypeOK'
  BY DEF AttemptInput!TypeOK, AttemptInput!Labels
<1>3. AttemptInput!ClonesFit'
  BY DEF AttemptInput!TypeOK, AttemptInput!ClonesFit, AttemptInput!HasCommit,
         AttemptInput!HasTree, AttemptInput!Calm, AttemptInput!HasCommit2,
         AttemptInput!Snapped, AttemptInput!Taking, AttemptInput!Checking
<1>4. AttemptInput!TargetFits'
  BY DEF AttemptInput!TypeOK, AttemptInput!TargetFits, AttemptInput!HasCommit,
         AttemptInput!HasTree, AttemptInput!Calm, AttemptInput!HasCommit2,
         AttemptInput!Snapped, AttemptInput!Taking, AttemptInput!Checking
<1>5. AttemptInput!SeenFits'
  BY DEF AttemptInput!TypeOK, AttemptInput!ClonesFit, AttemptInput!SeenFits,
         AttemptInput!HasCommit, AttemptInput!HasTree, AttemptInput!Calm,
         AttemptInput!HasCommit2, AttemptInput!Snapped, AttemptInput!Taking,
         AttemptInput!Checking
<1>6. AttemptInput!SuccessIsExact' /\ AttemptInput!SuccessCoversTargets'
      /\ AttemptInput!OnlyRetryablesRetried'
  BY DEF AttemptInput!SuccessIsExact, AttemptInput!SuccessCoversTargets,
         AttemptInput!OnlyRetryablesRetried
<1> QED
  BY <1>2, <1>3, <1>4, <1>5, <1>6

\* The executor begins to pull.
LEMMA SyncPullsStep ==
  ASSUME AttemptInput!InputAssumption, AttemptInput!IInv,
         AttemptInput!SyncPulls
  PROVE  AttemptInput!IInv'
<1> USE CloneByClone DEF AttemptInput!IInv
<1>1. /\ inputPc = "sync"
      /\ UNCHANGED <<AttemptInput!spec, inputPc, repo, AttemptInput!snapshots,
           inputResult, inputSeen, inputFaults>>
      /\ AttemptInput!StartPull(repo, "executor") /\ repo \in Clones
  BY DEF AttemptInput!SyncPulls, AttemptInput!TypeOK
<1> USE <1>1, Forward DEF AttemptInput!clones, AttemptInput!spec,
                          AttemptInput!snapshots
<1>2. AttemptInput!TypeOK'
  BY DEF AttemptInput!TypeOK, AttemptInput!Labels
<1>3. AttemptInput!ClonesFit'
  BY DEF AttemptInput!TypeOK, AttemptInput!ClonesFit, AttemptInput!HasCommit,
         AttemptInput!HasTree, AttemptInput!Calm, AttemptInput!HasCommit2,
         AttemptInput!Snapped, AttemptInput!Taking, AttemptInput!Checking
<1>4. AttemptInput!TargetFits'
  BY DEF AttemptInput!TypeOK, AttemptInput!TargetFits, AttemptInput!HasCommit,
         AttemptInput!HasTree, AttemptInput!Calm, AttemptInput!HasCommit2,
         AttemptInput!Snapped, AttemptInput!Taking, AttemptInput!Checking
<1>5. AttemptInput!SeenFits'
  BY DEF AttemptInput!TypeOK, AttemptInput!ClonesFit, AttemptInput!SeenFits,
         AttemptInput!HasCommit, AttemptInput!HasTree, AttemptInput!Calm,
         AttemptInput!HasCommit2, AttemptInput!Snapped, AttemptInput!Taking,
         AttemptInput!Checking
<1>6. AttemptInput!SuccessIsExact' /\ AttemptInput!SuccessCoversTargets'
      /\ AttemptInput!OnlyRetryablesRetried'
  BY DEF AttemptInput!SuccessIsExact, AttemptInput!SuccessCoversTargets,
         AttemptInput!OnlyRetryablesRetried
<1> QED
  BY <1>2, <1>3, <1>4, <1>5, <1>6

\* Its pull ends.
LEMMA SyncEndsStep ==
  ASSUME AttemptInput!InputAssumption, AttemptInput!IInv, AttemptInput!SyncEnds
  PROVE  AttemptInput!IInv'
<1> USE CloneByClone DEF AttemptInput!IInv
<1>1. /\ inputPc = "sync"
      /\ UNCHANGED <<AttemptInput!spec, AttemptInput!snapshots, inputSeen,
           inputResult>> /\ repo \in Clones
      /\ AttemptInput!EndPull(repo, "executor")
         \/ AttemptInput!KillPull(repo, "executor")
      /\ repo' \in Clones /\ inputPc' \in {"sync", "covers_again"}
  BY DEF AttemptInput!SyncEnds, AttemptInput!NextSync, AttemptInput!TypeOK
<1>2. inputFaults' \in 0..MaxInputFaults
  BY OneMoreFault DEF AttemptInput!SyncEnds, AttemptInput!KillPull,
                      AttemptInput!TypeOK
<1>3. \A q \in Clones : pulling'[q] # "executor"
  BY <1>1 DEF AttemptInput!EndPull, AttemptInput!KillPull, AttemptInput!TypeOK
<1> USE <1>1, Forward, <1>2, <1>3 DEF AttemptInput!clones, AttemptInput!spec,
                                      AttemptInput!snapshots
<1>4. AttemptInput!TypeOK'
  BY DEF AttemptInput!TypeOK, AttemptInput!Labels
<1>5. AttemptInput!ClonesFit'
  BY DEF AttemptInput!TypeOK, AttemptInput!ClonesFit, AttemptInput!HasCommit,
         AttemptInput!HasTree, AttemptInput!Calm, AttemptInput!HasCommit2,
         AttemptInput!Snapped, AttemptInput!Taking, AttemptInput!Checking
<1>6. AttemptInput!TargetFits'
  BY DEF AttemptInput!TypeOK, AttemptInput!TargetFits, AttemptInput!HasCommit,
         AttemptInput!HasTree, AttemptInput!Calm, AttemptInput!HasCommit2,
         AttemptInput!Snapped, AttemptInput!Taking, AttemptInput!Checking
<1>7. AttemptInput!SeenFits'
  BY DEF AttemptInput!TypeOK, AttemptInput!ClonesFit, AttemptInput!SeenFits,
         AttemptInput!HasCommit, AttemptInput!HasTree, AttemptInput!Calm,
         AttemptInput!HasCommit2, AttemptInput!Snapped, AttemptInput!Taking,
         AttemptInput!Checking
<1>8. AttemptInput!SuccessIsExact' /\ AttemptInput!SuccessCoversTargets'
      /\ AttemptInput!OnlyRetryablesRetried'
  BY DEF AttemptInput!SuccessIsExact, AttemptInput!SuccessCoversTargets,
         AttemptInput!OnlyRetryablesRetried
<1> QED
  BY <1>4, <1>5, <1>6, <1>7, <1>8

\* The second question.
LEMMA CoversAgainStep ==
  ASSUME AttemptInput!InputAssumption, AttemptInput!IInv,
         AttemptInput!CoversAgain
  PROVE  AttemptInput!IInv'
<1> USE CloneByClone DEF AttemptInput!IInv
<1>1. CASE AttemptInput!Covered /\ inputPc' = "clean"
  <2>1. /\ inputPc = "covers_again" /\ inputPc' = "clean" /\ repo' = 1
        /\ UNCHANGED <<AttemptInput!clones, AttemptInput!spec,
             AttemptInput!snapshots, inputSeen, inputResult>>
        /\ inputFaults' \in 0..MaxInputFaults
    BY <1>1, OneMoreFault DEF AttemptInput!CoversAgain, AttemptInput!Goto,
                              AttemptInput!Covered, AttemptInput!Retry,
                              AttemptInput!Finish, AttemptInput!TypeOK
  <2>2. /\ inputHead[target.repo] >= target.commit
        /\ \A r \in Clones : inputHead[r] >= wanted[r]
    BY <1>1 DEF AttemptInput!Covered
  <2> USE <2>1, <2>2 DEF AttemptInput!clones, AttemptInput!spec,
                         AttemptInput!snapshots
  <2>3. AttemptInput!TypeOK'
    BY DEF AttemptInput!TypeOK, AttemptInput!Labels
  <2>4. AttemptInput!ClonesFit'
    BY DEF AttemptInput!TypeOK, AttemptInput!ClonesFit, AttemptInput!HasCommit,
           AttemptInput!HasTree, AttemptInput!Calm, AttemptInput!HasCommit2,
           AttemptInput!Snapped, AttemptInput!Taking, AttemptInput!Checking
  <2>5. AttemptInput!TargetFits'
    BY DEF AttemptInput!TypeOK, AttemptInput!TargetFits,
           AttemptInput!HasCommit, AttemptInput!HasTree, AttemptInput!Calm,
           AttemptInput!HasCommit2, AttemptInput!Snapped, AttemptInput!Taking,
           AttemptInput!Checking
  <2>6. AttemptInput!SeenFits'
    BY DEF AttemptInput!TypeOK, AttemptInput!ClonesFit, AttemptInput!SeenFits,
           AttemptInput!HasCommit, AttemptInput!HasTree, AttemptInput!Calm,
           AttemptInput!HasCommit2, AttemptInput!Snapped, AttemptInput!Taking,
           AttemptInput!Checking
  <2>7. AttemptInput!SuccessIsExact' /\ AttemptInput!SuccessCoversTargets'
        /\ AttemptInput!OnlyRetryablesRetried'
    BY DEF AttemptInput!SuccessIsExact, AttemptInput!SuccessCoversTargets,
           AttemptInput!OnlyRetryablesRetried
  <2> QED
    BY <2>3, <2>4, <2>5, <2>6, <2>7
<1>2. CASE AttemptInput!Retry
  <2>1. /\ inputPc \notin {"sync", "done"}
        /\ UNCHANGED <<AttemptInput!clones, AttemptInput!spec,
             AttemptInput!snapshots, inputSeen>>
        /\ AttemptInput!Finish("retryable", 2, TRUE)
        /\ inputFaults' \in 0..MaxInputFaults
    BY <1>2, OneMoreFault DEF AttemptInput!TypeOK, AttemptInput!snapshots,
                              AttemptInput!CoversAgain, AttemptInput!Retry
  <2> QED
    BY <2>1, 1 \in 1..255, EndsBadly
<1> QED
  BY <1>1, <1>2 DEF AttemptInput!CoversAgain, AttemptInput!Goto

\* git status of the first snapshot.
LEMMA SnapshotCleanStep ==
  ASSUME AttemptInput!InputAssumption, AttemptInput!IInv,
         AttemptInput!SnapshotClean
  PROVE  AttemptInput!IInv'
<1> USE CloneByClone DEF AttemptInput!IInv
<1>1. CASE AttemptInput!Clean(repo) /\ inputPc' = "head"
  <2>1. /\ inputPc = "clean" /\ inputPc' = "head" /\ repo' = repo
        /\ UNCHANGED <<AttemptInput!clones, AttemptInput!spec,
             AttemptInput!snapshots, inputSeen, inputResult>>
        /\ inputFaults' \in 0..MaxInputFaults
    BY <1>1, OneMoreFault DEF AttemptInput!SnapshotClean,
                              AttemptInput!SeesClean, AttemptInput!Failed,
                              AttemptInput!Finish, AttemptInput!TypeOK
  <2>2. inputFiles[repo] = inputHead[repo] /\ repo \in Clones
    BY <1>1 DEF AttemptInput!Clean, AttemptInput!TypeOK
  <2> USE <2>1, <2>2 DEF AttemptInput!clones, AttemptInput!spec,
                         AttemptInput!snapshots
  <2>3. AttemptInput!TypeOK'
    BY DEF AttemptInput!TypeOK, AttemptInput!Labels
  <2>4. AttemptInput!ClonesFit'
    BY DEF AttemptInput!TypeOK, AttemptInput!ClonesFit, AttemptInput!HasCommit,
           AttemptInput!HasTree, AttemptInput!Calm, AttemptInput!HasCommit2,
           AttemptInput!Snapped, AttemptInput!Taking, AttemptInput!Checking
  <2>5. AttemptInput!TargetFits'
    BY DEF AttemptInput!TypeOK, AttemptInput!TargetFits,
           AttemptInput!HasCommit, AttemptInput!HasTree, AttemptInput!Calm,
           AttemptInput!HasCommit2, AttemptInput!Snapped, AttemptInput!Taking,
           AttemptInput!Checking
  <2>6. AttemptInput!SeenFits'
    BY DEF AttemptInput!TypeOK, AttemptInput!ClonesFit, AttemptInput!SeenFits,
           AttemptInput!HasCommit, AttemptInput!HasTree, AttemptInput!Calm,
           AttemptInput!HasCommit2, AttemptInput!Snapped, AttemptInput!Taking,
           AttemptInput!Checking
  <2>7. AttemptInput!SuccessIsExact' /\ AttemptInput!SuccessCoversTargets'
        /\ AttemptInput!OnlyRetryablesRetried'
    BY DEF AttemptInput!SuccessIsExact, AttemptInput!SuccessCoversTargets,
           AttemptInput!OnlyRetryablesRetried
  <2> QED
    BY <2>3, <2>4, <2>5, <2>6, <2>7
<1>2. CASE AttemptInput!Failed
  <2>1. /\ inputPc \notin {"sync", "done"}
        /\ UNCHANGED <<AttemptInput!clones, AttemptInput!spec,
             AttemptInput!snapshots, inputSeen>>
        /\ AttemptInput!Finish("failed", 1, FALSE)
        /\ inputFaults' \in 0..MaxInputFaults
    BY <1>2, OneMoreFault DEF AttemptInput!TypeOK, AttemptInput!snapshots,
                              AttemptInput!SnapshotClean,
                              AttemptInput!SeesClean, AttemptInput!Failed
  <2> QED
    BY <2>1, 1 \in 1..255, EndsBadly
<1> QED
  BY <1>1, <1>2 DEF AttemptInput!SnapshotClean, AttemptInput!SeesClean

\* HEAD of the first snapshot.
LEMMA SnapshotHeadStep ==
  ASSUME AttemptInput!InputAssumption, AttemptInput!IInv,
         AttemptInput!SnapshotHead
  PROVE  AttemptInput!IInv'
<1> USE CloneByClone DEF AttemptInput!IInv
<1>1. CASE commits' = [commits EXCEPT ![repo] = inputHead[repo]]
           /\ inputPc' = "tree"
  <2>1. /\ inputPc = "head" /\ inputPc' = "tree" /\ repo' = repo
        /\ UNCHANGED <<AttemptInput!clones, AttemptInput!spec, trees, commits2,
             trees2, inputSeen, inputResult, inputFaults>>
    BY <1>1 DEF AttemptInput!SnapshotHead, AttemptInput!Failed,
                AttemptInput!Finish
  <2>2. /\ repo \in Clones /\ commits' \in AttemptInput!Vectors
        /\ \A q \in Clones :
             commits'[q] = IF q = repo THEN inputHead[repo] ELSE commits[q]
    BY <1>1 DEF AttemptInput!TypeOK, AttemptInput!Vectors
  <2> USE <2>1, <2>2 DEF AttemptInput!clones, AttemptInput!spec,
                         AttemptInput!snapshots
  <2>3. AttemptInput!TypeOK'
    BY DEF AttemptInput!TypeOK, AttemptInput!Labels
  <2>4. AttemptInput!ClonesFit'
    BY DEF AttemptInput!TypeOK, AttemptInput!ClonesFit, AttemptInput!HasCommit,
           AttemptInput!HasTree, AttemptInput!Calm, AttemptInput!HasCommit2,
           AttemptInput!Snapped, AttemptInput!Taking, AttemptInput!Checking
  <2>5. AttemptInput!TargetFits'
    BY DEF AttemptInput!TypeOK, AttemptInput!TargetFits,
           AttemptInput!HasCommit, AttemptInput!HasTree, AttemptInput!Calm,
           AttemptInput!HasCommit2, AttemptInput!Snapped, AttemptInput!Taking,
           AttemptInput!Checking
  <2>6. AttemptInput!SeenFits'
    BY DEF AttemptInput!TypeOK, AttemptInput!ClonesFit, AttemptInput!SeenFits,
           AttemptInput!HasCommit, AttemptInput!HasTree, AttemptInput!Calm,
           AttemptInput!HasCommit2, AttemptInput!Snapped, AttemptInput!Taking,
           AttemptInput!Checking
  <2>7. AttemptInput!SuccessIsExact' /\ AttemptInput!SuccessCoversTargets'
        /\ AttemptInput!OnlyRetryablesRetried'
    BY DEF AttemptInput!SuccessIsExact, AttemptInput!SuccessCoversTargets,
           AttemptInput!OnlyRetryablesRetried
  <2> QED
    BY <2>3, <2>4, <2>5, <2>6, <2>7
<1>2. CASE AttemptInput!Fault /\ AttemptInput!Finish("failed", 1, FALSE)
           /\ UNCHANGED commits
  <2>1. /\ inputPc \notin {"sync", "done"}
        /\ UNCHANGED <<AttemptInput!clones, AttemptInput!spec,
             AttemptInput!snapshots, inputSeen>>
        /\ AttemptInput!Finish("failed", 1, FALSE)
        /\ inputFaults' \in 0..MaxInputFaults
    BY <1>2, OneMoreFault DEF AttemptInput!TypeOK, AttemptInput!snapshots,
                              AttemptInput!SnapshotHead
  <2> QED
    BY <2>1, 1 \in 1..255, EndsBadly
<1> QED
  BY <1>1, <1>2 DEF AttemptInput!SnapshotHead, AttemptInput!Failed

\* Its tree.
LEMMA SnapshotTreeStep ==
  ASSUME AttemptInput!InputAssumption, AttemptInput!IInv,
         AttemptInput!SnapshotTree
  PROVE  AttemptInput!IInv'
<1> USE CloneByClone DEF AttemptInput!IInv
<1>1. CASE trees' = [trees EXCEPT ![repo] = inputHead[repo]]
           /\ UNCHANGED <<inputResult, inputFaults>>
      /\ IF repo + 1 \in Clones
         THEN inputPc' = "clean" /\ repo' = repo + 1
         ELSE inputPc' = "runner" /\ repo' = 1
  <2>1. /\ inputPc = "tree"
        /\ UNCHANGED <<AttemptInput!clones, AttemptInput!spec, commits,
             commits2, trees2, inputSeen, inputResult, inputFaults>>
        /\ IF repo + 1 \in Clones
           THEN inputPc' = "clean" /\ repo' = repo + 1
           ELSE inputPc' = "runner" /\ repo' = 1
    BY <1>1 DEF AttemptInput!SnapshotTree, AttemptInput!TypeOK
  <2>2. /\ repo \in Clones /\ trees' \in AttemptInput!Vectors
        /\ \A q \in Clones :
             trees'[q] = IF q = repo THEN inputHead[repo] ELSE trees[q]
    BY <1>1 DEF AttemptInput!TypeOK, AttemptInput!Vectors
  <2> USE <2>1, <2>2 DEF AttemptInput!clones, AttemptInput!spec,
                         AttemptInput!snapshots
  <2>3. AttemptInput!TypeOK'
    BY DEF AttemptInput!TypeOK, AttemptInput!Labels
  <2>4. AttemptInput!ClonesFit'
    BY DEF AttemptInput!TypeOK, AttemptInput!ClonesFit, AttemptInput!HasCommit,
           AttemptInput!HasTree, AttemptInput!Calm, AttemptInput!HasCommit2,
           AttemptInput!Snapped, AttemptInput!Taking, AttemptInput!Checking
  <2>5. AttemptInput!TargetFits'
    BY DEF AttemptInput!TypeOK, AttemptInput!TargetFits,
           AttemptInput!HasCommit, AttemptInput!HasTree, AttemptInput!Calm,
           AttemptInput!HasCommit2, AttemptInput!Snapped, AttemptInput!Taking,
           AttemptInput!Checking
  <2>6. AttemptInput!SeenFits'
    BY DEF AttemptInput!TypeOK, AttemptInput!ClonesFit, AttemptInput!SeenFits,
           AttemptInput!HasCommit, AttemptInput!HasTree, AttemptInput!Calm,
           AttemptInput!HasCommit2, AttemptInput!Snapped, AttemptInput!Taking,
           AttemptInput!Checking
  <2>7. AttemptInput!SuccessIsExact' /\ AttemptInput!SuccessCoversTargets'
        /\ AttemptInput!OnlyRetryablesRetried'
    BY DEF AttemptInput!SuccessIsExact, AttemptInput!SuccessCoversTargets,
           AttemptInput!OnlyRetryablesRetried
  <2> QED
    BY <2>3, <2>4, <2>5, <2>6, <2>7
<1>2. CASE AttemptInput!Fault /\ AttemptInput!Failed /\ UNCHANGED trees
  <2>1. /\ inputPc \notin {"sync", "done"}
        /\ UNCHANGED <<AttemptInput!clones, AttemptInput!spec,
             AttemptInput!snapshots, inputSeen>>
        /\ AttemptInput!Finish("failed", 1, FALSE)
        /\ inputFaults' \in 0..MaxInputFaults
    BY <1>2, OneMoreFault DEF AttemptInput!TypeOK, AttemptInput!snapshots,
                              AttemptInput!SnapshotTree, AttemptInput!Failed
  <2> QED
    BY <2>1, 1 \in 1..255, EndsBadly
<1> QED
  BY <1>1, <1>2 DEF AttemptInput!SnapshotTree, AttemptInput!Failed

\* The runner reads a clone.
LEMMA RunnerReadsStep ==
  ASSUME AttemptInput!InputAssumption, AttemptInput!IInv,
         AttemptInput!RunnerReads
  PROVE  AttemptInput!IInv'
<1> USE CloneByClone DEF AttemptInput!IInv
<1>1. PICK r \in Clones :
             inputSeen' = [inputSeen EXCEPT ![r] = @ \cup {inputFiles[r]}]
  BY DEF AttemptInput!RunnerReads
<1>2. inputPc = "runner"
      /\ UNCHANGED <<AttemptInput!clones, AttemptInput!spec, inputPc, repo,
           AttemptInput!snapshots, inputResult, inputFaults>>
  BY DEF AttemptInput!RunnerReads
<1>3. /\ inputSeen' \in [Clones -> SUBSET AttemptInput!Commits]
      /\ \A q \in Clones :
           inputSeen'[q] = IF q = r
               THEN inputSeen[r] \cup {inputFiles[r]} ELSE inputSeen[q]
  BY <1>1 DEF AttemptInput!TypeOK
<1> USE <1>1, <1>2, <1>3 DEF AttemptInput!clones, AttemptInput!spec,
                             AttemptInput!snapshots
<1>4. AttemptInput!TypeOK'
  BY DEF AttemptInput!TypeOK, AttemptInput!Labels
<1>5. AttemptInput!ClonesFit'
  BY DEF AttemptInput!TypeOK, AttemptInput!ClonesFit, AttemptInput!HasCommit,
         AttemptInput!HasTree, AttemptInput!Calm, AttemptInput!HasCommit2,
         AttemptInput!Snapped, AttemptInput!Taking, AttemptInput!Checking
<1>6. AttemptInput!TargetFits'
  BY DEF AttemptInput!TypeOK, AttemptInput!TargetFits, AttemptInput!HasCommit,
         AttemptInput!HasTree, AttemptInput!Calm, AttemptInput!HasCommit2,
         AttemptInput!Snapped, AttemptInput!Taking, AttemptInput!Checking
<1>7. AttemptInput!SeenFits'
  BY DEF AttemptInput!TypeOK, AttemptInput!ClonesFit, AttemptInput!SeenFits,
         AttemptInput!HasCommit, AttemptInput!HasTree, AttemptInput!Calm,
         AttemptInput!HasCommit2, AttemptInput!Snapped, AttemptInput!Taking,
         AttemptInput!Checking
<1>8. AttemptInput!SuccessIsExact' /\ AttemptInput!SuccessCoversTargets'
      /\ AttemptInput!OnlyRetryablesRetried'
  BY DEF AttemptInput!SuccessIsExact, AttemptInput!SuccessCoversTargets,
         AttemptInput!OnlyRetryablesRetried
<1> QED
  BY <1>4, <1>5, <1>6, <1>7, <1>8

\* The runner has ended.
LEMMA RunnerEndsStep ==
  ASSUME AttemptInput!InputAssumption, AttemptInput!IInv,
         AttemptInput!RunnerEnds
  PROVE  AttemptInput!IInv'
<1> USE CloneByClone DEF AttemptInput!IInv
<1>1. CASE AttemptInput!Goto("verify")
  <2>1. /\ inputPc = "runner" /\ inputPc' = "verify" /\ repo' = 1
        /\ UNCHANGED <<AttemptInput!clones, AttemptInput!spec,
             AttemptInput!snapshots, inputSeen, inputResult>>
        /\ inputFaults' \in 0..MaxInputFaults
    BY <1>1, OneMoreFault DEF AttemptInput!RunnerEnds, AttemptInput!Goto,
                              AttemptInput!TypeOK
  <2> USE <2>1 DEF AttemptInput!clones, AttemptInput!spec,
                   AttemptInput!snapshots
  <2>2. AttemptInput!TypeOK'
    BY DEF AttemptInput!TypeOK, AttemptInput!Labels
  <2>3. AttemptInput!ClonesFit'
    BY DEF AttemptInput!TypeOK, AttemptInput!ClonesFit, AttemptInput!HasCommit,
           AttemptInput!HasTree, AttemptInput!Calm, AttemptInput!HasCommit2,
           AttemptInput!Snapped, AttemptInput!Taking, AttemptInput!Checking
  <2>4. AttemptInput!TargetFits'
    BY DEF AttemptInput!TypeOK, AttemptInput!TargetFits,
           AttemptInput!HasCommit, AttemptInput!HasTree, AttemptInput!Calm,
           AttemptInput!HasCommit2, AttemptInput!Snapped, AttemptInput!Taking,
           AttemptInput!Checking
  <2>5. AttemptInput!SeenFits'
    BY DEF AttemptInput!TypeOK, AttemptInput!ClonesFit, AttemptInput!SeenFits,
           AttemptInput!HasCommit, AttemptInput!HasTree, AttemptInput!Calm,
           AttemptInput!HasCommit2, AttemptInput!Snapped, AttemptInput!Taking,
           AttemptInput!Checking
  <2>6. AttemptInput!SuccessIsExact' /\ AttemptInput!SuccessCoversTargets'
        /\ AttemptInput!OnlyRetryablesRetried'
    BY DEF AttemptInput!SuccessIsExact, AttemptInput!SuccessCoversTargets,
           AttemptInput!OnlyRetryablesRetried
  <2> QED
    BY <2>2, <2>3, <2>4, <2>5, <2>6
<1>2. CASE AttemptInput!TimedOut
  <2>1. /\ inputPc \notin {"sync", "done"}
        /\ UNCHANGED <<AttemptInput!clones, AttemptInput!spec,
             AttemptInput!snapshots, inputSeen>>
        /\ AttemptInput!Finish("timed_out", 124, TRUE)
        /\ inputFaults' \in 0..MaxInputFaults
    BY <1>2, OneMoreFault DEF AttemptInput!TypeOK, AttemptInput!snapshots,
                              AttemptInput!RunnerEnds, AttemptInput!TimedOut
  <2> QED
    BY <2>1, 1 \in 1..255, EndsBadly
<1>3. CASE AttemptInput!Failed
  <2>1. /\ inputPc \notin {"sync", "done"}
        /\ UNCHANGED <<AttemptInput!clones, AttemptInput!spec,
             AttemptInput!snapshots, inputSeen>>
        /\ AttemptInput!Finish("failed", 1, FALSE)
        /\ inputFaults' \in 0..MaxInputFaults
    BY <1>3, OneMoreFault DEF AttemptInput!TypeOK, AttemptInput!snapshots,
                              AttemptInput!RunnerEnds, AttemptInput!Failed
  <2> QED
    BY <2>1, 1 \in 1..255, EndsBadly
<1>4. ASSUME NEW code \in {1, 2, 124, 256, -9},
             AttemptInput!RunnerFailure(code)
      PROVE  AttemptInput!IInv'
  <2>1. /\ inputPc = "runner"
        /\ UNCHANGED <<AttemptInput!clones, AttemptInput!spec,
             AttemptInput!snapshots, inputSeen, inputFaults>>
        /\ inputFaults' \in 0..MaxInputFaults
    BY DEF AttemptInput!RunnerEnds, AttemptInput!TypeOK
  <2>2. CASE code = 2
    <3>1. AttemptInput!Finish("retryable", 2, TRUE)
      BY <1>4, <2>2 DEF AttemptInput!RunnerFailure
    <3> QED
      BY <2>1, <3>1, 1 \in 1..255, EndsBadly
  <2>3. CASE code # 2
    <3>1. PICK exit \in 1..255 : exit = IF code \in 1..255 THEN code ELSE 1
      OBVIOUS
    <3>2. AttemptInput!Finish("failed", exit, FALSE)
      BY <1>4, <2>3, <3>1 DEF AttemptInput!RunnerFailure
    <3> QED
      BY <2>1, <3>2, EndsBadly
  <2> QED
    BY <2>2, <2>3
<1> QED
  BY <1>1, <1>2, <1>3, <1>4 DEF AttemptInput!RunnerEnds

\* The question after the run.
LEMMA VerifyStep ==
  ASSUME AttemptInput!InputAssumption, AttemptInput!IInv, AttemptInput!Verify
  PROVE  AttemptInput!IInv'
<1> USE CloneByClone DEF AttemptInput!IInv
<1>1. CASE AttemptInput!Goto("verify_clean")
  <2>1. /\ inputPc = "verify" /\ inputPc' = "verify_clean" /\ repo' = 1
        /\ UNCHANGED <<AttemptInput!clones, AttemptInput!spec,
             AttemptInput!snapshots, inputSeen, inputResult>>
        /\ inputFaults' \in 0..MaxInputFaults
    BY <1>1, OneMoreFault DEF AttemptInput!Verify, AttemptInput!Goto,
                              AttemptInput!Retry, AttemptInput!Finish,
                              AttemptInput!TypeOK
  <2> USE <2>1 DEF AttemptInput!clones, AttemptInput!spec,
                   AttemptInput!snapshots
  <2>2. AttemptInput!TypeOK'
    BY DEF AttemptInput!TypeOK, AttemptInput!Labels
  <2>3. AttemptInput!ClonesFit'
    BY DEF AttemptInput!TypeOK, AttemptInput!ClonesFit, AttemptInput!HasCommit,
           AttemptInput!HasTree, AttemptInput!Calm, AttemptInput!HasCommit2,
           AttemptInput!Snapped, AttemptInput!Taking, AttemptInput!Checking
  <2>4. AttemptInput!TargetFits'
    BY DEF AttemptInput!TypeOK, AttemptInput!TargetFits,
           AttemptInput!HasCommit, AttemptInput!HasTree, AttemptInput!Calm,
           AttemptInput!HasCommit2, AttemptInput!Snapped, AttemptInput!Taking,
           AttemptInput!Checking
  <2>5. AttemptInput!SeenFits'
    BY DEF AttemptInput!TypeOK, AttemptInput!ClonesFit, AttemptInput!SeenFits,
           AttemptInput!HasCommit, AttemptInput!HasTree, AttemptInput!Calm,
           AttemptInput!HasCommit2, AttemptInput!Snapped, AttemptInput!Taking,
           AttemptInput!Checking
  <2>6. AttemptInput!SuccessIsExact' /\ AttemptInput!SuccessCoversTargets'
        /\ AttemptInput!OnlyRetryablesRetried'
    BY DEF AttemptInput!SuccessIsExact, AttemptInput!SuccessCoversTargets,
           AttemptInput!OnlyRetryablesRetried
  <2> QED
    BY <2>2, <2>3, <2>4, <2>5, <2>6
<1>2. CASE AttemptInput!Retry
  <2>1. /\ inputPc \notin {"sync", "done"}
        /\ UNCHANGED <<AttemptInput!clones, AttemptInput!spec,
             AttemptInput!snapshots, inputSeen>>
        /\ AttemptInput!Finish("retryable", 2, TRUE)
        /\ inputFaults' \in 0..MaxInputFaults
    BY <1>2, OneMoreFault DEF AttemptInput!TypeOK, AttemptInput!snapshots,
                              AttemptInput!Verify, AttemptInput!Retry
  <2> QED
    BY <2>1, 1 \in 1..255, EndsBadly
<1> QED
  BY <1>1, <1>2 DEF AttemptInput!Verify

\* git status of the second snapshot: what was read is not newer than HEAD.
LEMMA VerifyCleanStep ==
  ASSUME AttemptInput!InputAssumption, AttemptInput!IInv,
         AttemptInput!VerifyClean
  PROVE  AttemptInput!IInv'
<1> USE CloneByClone DEF AttemptInput!IInv
<1>1. CASE AttemptInput!Clean(repo) /\ inputPc' = "verify_head"
  <2>1. /\ inputPc = "verify_clean" /\ inputPc' = "verify_head" /\ repo' = repo
        /\ UNCHANGED <<AttemptInput!clones, AttemptInput!spec,
             AttemptInput!snapshots, inputSeen, inputResult>>
        /\ inputFaults' \in 0..MaxInputFaults
    BY <1>1, OneMoreFault DEF AttemptInput!VerifyClean, AttemptInput!SeesClean,
                              AttemptInput!Failed, AttemptInput!Finish,
                              AttemptInput!TypeOK
  <2>2. inputFiles[repo] = inputHead[repo] /\ repo \in Clones
    BY <1>1 DEF AttemptInput!Clean, AttemptInput!TypeOK
  <2> USE <2>1, <2>2 DEF AttemptInput!clones, AttemptInput!spec,
                         AttemptInput!snapshots
  <2>3. AttemptInput!TypeOK'
    BY DEF AttemptInput!TypeOK, AttemptInput!Labels
  <2>4. AttemptInput!ClonesFit'
    BY DEF AttemptInput!TypeOK, AttemptInput!ClonesFit, AttemptInput!HasCommit,
           AttemptInput!HasTree, AttemptInput!Calm, AttemptInput!HasCommit2,
           AttemptInput!Snapped, AttemptInput!Taking, AttemptInput!Checking
  <2>5. AttemptInput!TargetFits'
    BY DEF AttemptInput!TypeOK, AttemptInput!TargetFits,
           AttemptInput!HasCommit, AttemptInput!HasTree, AttemptInput!Calm,
           AttemptInput!HasCommit2, AttemptInput!Snapped, AttemptInput!Taking,
           AttemptInput!Checking
  <2>6. AttemptInput!SeenFits'
    BY DEF AttemptInput!TypeOK, AttemptInput!ClonesFit, AttemptInput!SeenFits,
           AttemptInput!HasCommit, AttemptInput!HasTree, AttemptInput!Calm,
           AttemptInput!HasCommit2, AttemptInput!Snapped, AttemptInput!Taking,
           AttemptInput!Checking
  <2>7. AttemptInput!SuccessIsExact' /\ AttemptInput!SuccessCoversTargets'
        /\ AttemptInput!OnlyRetryablesRetried'
    BY DEF AttemptInput!SuccessIsExact, AttemptInput!SuccessCoversTargets,
           AttemptInput!OnlyRetryablesRetried
  <2> QED
    BY <2>3, <2>4, <2>5, <2>6, <2>7
<1>2. CASE AttemptInput!Failed
  <2>1. /\ inputPc \notin {"sync", "done"}
        /\ UNCHANGED <<AttemptInput!clones, AttemptInput!spec,
             AttemptInput!snapshots, inputSeen>>
        /\ AttemptInput!Finish("failed", 1, FALSE)
        /\ inputFaults' \in 0..MaxInputFaults
    BY <1>2, OneMoreFault DEF AttemptInput!TypeOK, AttemptInput!snapshots,
                              AttemptInput!VerifyClean, AttemptInput!SeesClean,
                              AttemptInput!Failed
  <2> QED
    BY <2>1, 1 \in 1..255, EndsBadly
<1> QED
  BY <1>1, <1>2 DEF AttemptInput!VerifyClean, AttemptInput!SeesClean

\* HEAD of the second snapshot.
LEMMA VerifyHeadStep ==
  ASSUME AttemptInput!InputAssumption, AttemptInput!IInv,
         AttemptInput!VerifyHead
  PROVE  AttemptInput!IInv'
<1> USE CloneByClone DEF AttemptInput!IInv
<1>1. CASE commits2' = [commits2 EXCEPT ![repo] = inputHead[repo]]
           /\ inputPc' = "verify_tree"
  <2>1. /\ inputPc = "verify_head" /\ inputPc' = "verify_tree" /\ repo' = repo
        /\ UNCHANGED <<AttemptInput!clones, AttemptInput!spec, commits, trees,
             trees2, inputSeen, inputResult, inputFaults>>
    BY <1>1 DEF AttemptInput!VerifyHead, AttemptInput!Failed,
                AttemptInput!Finish
  <2>2. /\ repo \in Clones /\ commits2' \in AttemptInput!Vectors
        /\ \A q \in Clones :
             commits2'[q] = IF q = repo THEN inputHead[repo] ELSE commits2[q]
    BY <1>1 DEF AttemptInput!TypeOK, AttemptInput!Vectors
  <2> USE <2>1, <2>2 DEF AttemptInput!clones, AttemptInput!spec,
                         AttemptInput!snapshots
  <2>3. AttemptInput!TypeOK'
    BY DEF AttemptInput!TypeOK, AttemptInput!Labels
  <2>4. AttemptInput!ClonesFit'
    BY DEF AttemptInput!TypeOK, AttemptInput!ClonesFit, AttemptInput!HasCommit,
           AttemptInput!HasTree, AttemptInput!Calm, AttemptInput!HasCommit2,
           AttemptInput!Snapped, AttemptInput!Taking, AttemptInput!Checking
  <2>5. AttemptInput!TargetFits'
    BY DEF AttemptInput!TypeOK, AttemptInput!TargetFits,
           AttemptInput!HasCommit, AttemptInput!HasTree, AttemptInput!Calm,
           AttemptInput!HasCommit2, AttemptInput!Snapped, AttemptInput!Taking,
           AttemptInput!Checking
  <2>6. AttemptInput!SeenFits'
    BY DEF AttemptInput!TypeOK, AttemptInput!ClonesFit, AttemptInput!SeenFits,
           AttemptInput!HasCommit, AttemptInput!HasTree, AttemptInput!Calm,
           AttemptInput!HasCommit2, AttemptInput!Snapped, AttemptInput!Taking,
           AttemptInput!Checking
  <2>7. AttemptInput!SuccessIsExact' /\ AttemptInput!SuccessCoversTargets'
        /\ AttemptInput!OnlyRetryablesRetried'
    BY DEF AttemptInput!SuccessIsExact, AttemptInput!SuccessCoversTargets,
           AttemptInput!OnlyRetryablesRetried
  <2> QED
    BY <2>3, <2>4, <2>5, <2>6, <2>7
<1>2. CASE AttemptInput!Fault /\ AttemptInput!Finish("failed", 1, FALSE)
           /\ UNCHANGED commits2
  <2>1. /\ inputPc \notin {"sync", "done"}
        /\ UNCHANGED <<AttemptInput!clones, AttemptInput!spec,
             AttemptInput!snapshots, inputSeen>>
        /\ AttemptInput!Finish("failed", 1, FALSE)
        /\ inputFaults' \in 0..MaxInputFaults
    BY <1>2, OneMoreFault DEF AttemptInput!TypeOK, AttemptInput!snapshots,
                              AttemptInput!VerifyHead
  <2> QED
    BY <2>1, 1 \in 1..255, EndsBadly
<1> QED
  BY <1>1, <1>2 DEF AttemptInput!VerifyHead, AttemptInput!Failed

\* Its tree.
LEMMA VerifyTreeStep ==
  ASSUME AttemptInput!InputAssumption, AttemptInput!IInv,
         AttemptInput!VerifyTree
  PROVE  AttemptInput!IInv'
<1> USE CloneByClone DEF AttemptInput!IInv
<1>1. CASE trees2' = [trees2 EXCEPT ![repo] = inputHead[repo]]
           /\ UNCHANGED <<inputResult, inputFaults>>
      /\ IF repo + 1 \in Clones
         THEN inputPc' = "verify_clean" /\ repo' = repo + 1
         ELSE inputPc' = "compare" /\ repo' = 1
  <2>1. /\ inputPc = "verify_tree"
        /\ UNCHANGED <<AttemptInput!clones, AttemptInput!spec, commits, trees,
             commits2, inputSeen, inputResult, inputFaults>>
        /\ IF repo + 1 \in Clones
           THEN inputPc' = "verify_clean" /\ repo' = repo + 1
           ELSE inputPc' = "compare" /\ repo' = 1
    BY <1>1 DEF AttemptInput!VerifyTree, AttemptInput!TypeOK
  <2>2. /\ repo \in Clones /\ trees2' \in AttemptInput!Vectors
        /\ \A q \in Clones :
             trees2'[q] = IF q = repo THEN inputHead[repo] ELSE trees2[q]
    BY <1>1 DEF AttemptInput!TypeOK, AttemptInput!Vectors
  <2> USE <2>1, <2>2 DEF AttemptInput!clones, AttemptInput!spec,
                         AttemptInput!snapshots
  <2>3. AttemptInput!TypeOK'
    BY DEF AttemptInput!TypeOK, AttemptInput!Labels
  <2>4. AttemptInput!ClonesFit'
    BY DEF AttemptInput!TypeOK, AttemptInput!ClonesFit, AttemptInput!HasCommit,
           AttemptInput!HasTree, AttemptInput!Calm, AttemptInput!HasCommit2,
           AttemptInput!Snapped, AttemptInput!Taking, AttemptInput!Checking
  <2>5. AttemptInput!TargetFits'
    BY DEF AttemptInput!TypeOK, AttemptInput!TargetFits,
           AttemptInput!HasCommit, AttemptInput!HasTree, AttemptInput!Calm,
           AttemptInput!HasCommit2, AttemptInput!Snapped, AttemptInput!Taking,
           AttemptInput!Checking
  <2>6. AttemptInput!SeenFits'
    <3> SUFFICES ASSUME NEW r \in Clones
                 PROVE  /\ inputPc' \notin AttemptInput!Snapped \cup {"done"}
                           => inputSeen'[r] = {}
                        /\ \A c \in inputSeen'[r] :
                             /\ c <= inputFiles'[r]
                             /\ inputPc' \in AttemptInput!Snapped
                                => c >= trees'[r]
                             /\ AttemptInput!Calm(r)' => c <= inputHead'[r]
                             /\ AttemptInput!HasCommit2(r)'
                                => c <= commits2'[r]
      BY DEF AttemptInput!SeenFits, AttemptInput!Calm, AttemptInput!HasCommit2,
             AttemptInput!Snapped, AttemptInput!Checking
    <3>1. r \in Nat /\ repo \in Nat
      BY DEF AttemptInput!TypeOK
    <3>2. CASE r <= repo
      <4>1. AttemptInput!Calm(r) /\ AttemptInput!HasCommit2(r)
        BY <3>1, <3>2 DEF AttemptInput!Calm, AttemptInput!HasCommit2,
                          AttemptInput!Checking
      <4> QED
        BY <4>1 DEF AttemptInput!SeenFits, AttemptInput!Snapped
    <3>3. CASE r > repo
      <4>1. ~ AttemptInput!Calm(r)' /\ ~ AttemptInput!HasCommit2(r)'
        BY <3>1, <3>3 DEF AttemptInput!Calm, AttemptInput!HasCommit2,
                          AttemptInput!Checking
      <4> QED
        BY <4>1 DEF AttemptInput!SeenFits, AttemptInput!Snapped
    <3> QED
      BY <3>1, <3>2, <3>3
  <2>7. AttemptInput!SuccessIsExact' /\ AttemptInput!SuccessCoversTargets'
        /\ AttemptInput!OnlyRetryablesRetried'
    BY DEF AttemptInput!SuccessIsExact, AttemptInput!SuccessCoversTargets,
           AttemptInput!OnlyRetryablesRetried
  <2> QED
    BY <2>3, <2>4, <2>5, <2>6, <2>7
<1>2. CASE AttemptInput!Fault /\ AttemptInput!Failed /\ UNCHANGED trees2
  <2>1. /\ inputPc \notin {"sync", "done"}
        /\ UNCHANGED <<AttemptInput!clones, AttemptInput!spec,
             AttemptInput!snapshots, inputSeen>>
        /\ AttemptInput!Finish("failed", 1, FALSE)
        /\ inputFaults' \in 0..MaxInputFaults
    BY <1>2, OneMoreFault DEF AttemptInput!TypeOK, AttemptInput!snapshots,
                              AttemptInput!VerifyTree, AttemptInput!Failed
  <2> QED
    BY <2>1, 1 \in 1..255, EndsBadly
<1> QED
  BY <1>1, <1>2 DEF AttemptInput!VerifyTree, AttemptInput!Failed

\* Two equal snapshots.
LEMMA CompareStep ==
  ASSUME AttemptInput!InputAssumption, AttemptInput!IInv, AttemptInput!Compare
  PROVE  AttemptInput!IInv'
<1> USE CloneByClone DEF AttemptInput!IInv
<1>1. CASE commits2 = commits /\ trees2 = trees
  <2>1. /\ inputPc = "compare" /\ inputPc' = "done" /\ repo' = repo
        /\ UNCHANGED <<AttemptInput!clones, AttemptInput!spec,
             AttemptInput!snapshots, inputSeen, inputFaults>>
        /\ inputResult' =
             [outcome |-> "succeeded", rc |-> 0, retryable |-> FALSE,
              commits |-> commits, trees |-> trees]
    BY <1>1 DEF AttemptInput!Compare, AttemptInput!Finish
  <2> USE <2>1 DEF AttemptInput!clones, AttemptInput!spec,
                   AttemptInput!snapshots
  <2>2. AttemptInput!TypeOK'
    <3>1. inputResult' \in AttemptInput!Results
      BY DEF AttemptInput!TypeOK, AttemptInput!Results
    <3> QED
      BY <3>1 DEF AttemptInput!TypeOK, AttemptInput!Labels
  <2>3. AttemptInput!ClonesFit' /\ AttemptInput!TargetFits'
        /\ AttemptInput!SeenFits'
    BY DEF AttemptInput!TypeOK, AttemptInput!ClonesFit,
           AttemptInput!TargetFits, AttemptInput!SeenFits,
           AttemptInput!HasCommit, AttemptInput!HasTree, AttemptInput!Calm,
           AttemptInput!HasCommit2, AttemptInput!Snapped, AttemptInput!Taking,
           AttemptInput!Checking
  <2>4. \A r \in Clones : trees[r] = commits[r]
        /\ inputSeen[r] \subseteq {commits[r]}
    <3> SUFFICES ASSUME NEW r \in Clones, NEW c \in inputSeen[r]
                 PROVE  trees[r] = commits[r] /\ c = commits[r]
      <4>1. \A r \in Clones : trees[r] = commits[r]
        BY <1>1 DEF AttemptInput!ClonesFit, AttemptInput!TypeOK,
                    AttemptInput!HasCommit, AttemptInput!HasTree,
                    AttemptInput!Calm, AttemptInput!HasCommit2,
                    AttemptInput!Snapped, AttemptInput!Taking,
                    AttemptInput!Checking
      <4> QED
        BY <4>1
    <3>1. /\ commits[r] <= trees[r] /\ trees[r] <= commits2[r]
          /\ trees[r] <= c /\ c <= commits2[r] /\ c \in Nat
      BY DEF AttemptInput!ClonesFit, AttemptInput!SeenFits,
             AttemptInput!TypeOK, AttemptInput!HasCommit, AttemptInput!HasTree,
             AttemptInput!Calm, AttemptInput!HasCommit2, AttemptInput!Snapped,
             AttemptInput!Taking, AttemptInput!Checking
    <3>2. commits[r] \in Nat /\ trees[r] \in Nat
      BY DEF AttemptInput!ClonesFit, AttemptInput!TypeOK,
             AttemptInput!HasCommit, AttemptInput!HasTree, AttemptInput!Calm,
             AttemptInput!HasCommit2, AttemptInput!Snapped,
             AttemptInput!Taking, AttemptInput!Checking
    <3> QED
      BY <1>1, <3>1, <3>2
  <2>5. AttemptInput!SuccessIsExact'
    BY <2>4 DEF AttemptInput!SuccessIsExact
  <2>6. AttemptInput!SuccessCoversTargets'
    BY DEF AttemptInput!SuccessCoversTargets, AttemptInput!ClonesFit,
           AttemptInput!TargetFits, AttemptInput!TypeOK,
           AttemptInput!HasCommit, AttemptInput!HasTree, AttemptInput!Calm,
           AttemptInput!HasCommit2, AttemptInput!Snapped, AttemptInput!Taking,
           AttemptInput!Checking
  <2>7. AttemptInput!OnlyRetryablesRetried'
    BY DEF AttemptInput!OnlyRetryablesRetried
  <2> QED
    BY <2>2, <2>3, <2>5, <2>6, <2>7
<1>2. CASE AttemptInput!Retry
  <2>1. /\ inputPc \notin {"sync", "done"}
        /\ UNCHANGED <<AttemptInput!clones, AttemptInput!spec,
             AttemptInput!snapshots, inputSeen>>
        /\ AttemptInput!Finish("retryable", 2, TRUE)
        /\ inputFaults' \in 0..MaxInputFaults
    BY <1>2, OneMoreFault DEF AttemptInput!TypeOK, AttemptInput!snapshots,
                              AttemptInput!Compare, AttemptInput!Retry
  <2> QED
    BY <2>1, 1 \in 1..255, EndsBadly
<1> QED
  BY <1>1, <1>2 DEF AttemptInput!Compare

\* The executor has not begun.
LEMMA InputInit == ASSUME AttemptInput!InputAssumption PROVE AttemptInput!Init
                   => AttemptInput!IInv
<1> SUFFICES ASSUME AttemptInput!Init PROVE AttemptInput!IInv
  OBVIOUS
<1> USE CloneByClone DEF AttemptInput!Init
<1>1. AttemptInput!TypeOK
  <2>1. AttemptInput!Empty \in AttemptInput!Vectors /\ 0 \in 0..MaxInputFaults
    BY DEF AttemptInput!Empty, AttemptInput!Vectors
  <2> QED
    BY <2>1 DEF AttemptInput!TypeOK, AttemptInput!Labels
<1>2. AttemptInput!ClonesFit /\ AttemptInput!TargetFits
      /\ AttemptInput!SeenFits
  BY DEF AttemptInput!ClonesFit, AttemptInput!TargetFits,
         AttemptInput!SeenFits, AttemptInput!HasCommit, AttemptInput!HasTree,
         AttemptInput!Calm, AttemptInput!HasCommit2, AttemptInput!Snapped,
         AttemptInput!Taking, AttemptInput!Checking
<1>3. AttemptInput!SuccessIsExact /\ AttemptInput!SuccessCoversTargets
      /\ AttemptInput!OnlyRetryablesRetried
  BY DEF AttemptInput!SuccessIsExact, AttemptInput!SuccessCoversTargets,
         AttemptInput!OnlyRetryablesRetried
<1> QED
  BY <1>1, <1>2, <1>3 DEF AttemptInput!IInv

\* Together every step keeps the invariant.
LEMMA InputNext ==
  ASSUME AttemptInput!InputAssumption, AttemptInput!IInv,
         [AttemptInput!Next]_(AttemptInput!vars)
  PROVE  AttemptInput!IInv'
<1>1. CASE UNCHANGED AttemptInput!vars
  BY <1>1 DEF AttemptInput!IInv, AttemptInput!TypeOK, AttemptInput!ClonesFit,
              AttemptInput!TargetFits, AttemptInput!SeenFits,
              AttemptInput!SuccessIsExact, AttemptInput!SuccessCoversTargets,
              AttemptInput!OnlyRetryablesRetried, AttemptInput!HasCommit,
              AttemptInput!HasTree, AttemptInput!Calm, AttemptInput!HasCommit2,
              AttemptInput!Snapped, AttemptInput!Taking, AttemptInput!Checking,
              AttemptInput!vars, AttemptInput!clones, AttemptInput!spec,
              AttemptInput!snapshots
<1> QED
  BY <1>1, OthersStep, IdentityStep, CoversStep, SyncSkipsStep, SyncPullsStep,
     SyncEndsStep, CoversAgainStep, SnapshotCleanStep, SnapshotHeadStep,
     SnapshotTreeStep, RunnerReadsStep, RunnerEndsStep, VerifyStep,
     VerifyCleanStep, VerifyHeadStep, VerifyTreeStep, CompareStep
     DEF AttemptInput!Next, AttemptInput!Executor, AttemptInput!Materialize,
         AttemptInput!Snapshot, AttemptInput!VerifySuccess

\* executor.py: the invariant of one execution holds for any clones, commits,
\* pulls of others and failing commands.
THEOREM InputInvariance ==
  ASSUME AttemptInput!InputAssumption
  PROVE  AttemptInput!Spec => []AttemptInput!IInv
<1>1. AttemptInput!Init => AttemptInput!IInv
  BY InputInit
<1>2. AttemptInput!IInv /\ [AttemptInput!Next]_(AttemptInput!vars)
      => AttemptInput!IInv'
  BY InputNext
<1> QED
  BY <1>1, <1>2, PTL DEF AttemptInput!Spec

\* _snapshot and verify: a success names the commits whose files its runner
\* read and no others, and these cover the targets.
THEOREM SuccessNamesWhatWasRead ==
  ASSUME AttemptInput!InputAssumption
  PROVE  AttemptInput!Spec
         => [](AttemptInput!SuccessIsExact
             /\ AttemptInput!SuccessCoversTargets)
<1>1. AttemptInput!IInv
      => AttemptInput!SuccessIsExact /\ AttemptInput!SuccessCoversTargets
  BY DEF AttemptInput!IInv
<1> QED
  BY <1>1, InputInvariance, PTL

\* The same beside the other protocols: what the run checks.
THEOREM SuccessIsExactHere == ProcessesSpec => []SuccessIsExact
<1>1. ProcessesInit => AttemptInput!IInv
  BY InputInit, InstancesAssumption DEF ProcessesInit
<1>2. [ProcessesNext]_processesVars => [AttemptInput!Next]_(AttemptInput!vars)
  BY DEF ProcessesNext, processesVars, inputVars, AttemptInput!vars,
         AttemptInput!clones, AttemptInput!spec, AttemptInput!snapshots
<1>3. AttemptInput!IInv /\ [ProcessesNext]_processesVars => AttemptInput!IInv'
  BY <1>2, InputNext, InstancesAssumption
<1> QED
  BY <1>1, <1>3, PTL DEF ProcessesSpec, SuccessIsExact

-----------------------------------------------------------------------------
(***************************************************************************)
(* The files of an attempt.                                                *)
(***************************************************************************)
\* Nothing is there.
LEMMA FilesInit == ASSUME AttemptFiles!FilesAssumption PROVE AttemptFiles!Init
                   => AttemptFiles!IInv
<1> USE DEF AttemptFiles!FilesAssumption, AttemptFiles!Init
<1>1. AttemptFiles!Init => AttemptFiles!TypeOK
  <2>1. AttemptFiles!Gone \in AttemptFiles!Directories
    BY DEF AttemptFiles!Gone, AttemptFiles!Directories
  <2>2. 0 \in 0 .. MaxFileCrashes /\ 0 \in 0 .. MaxFileFaults
    OBVIOUS
  <2>3. AttemptFiles!Init =>
          /\ filesJournal \in [phase : AttemptFiles!Phases,
                               plan : AttemptFiles!Plans]
          /\ worker \in AttemptFiles!Labels
    BY DEF AttemptFiles!Phases, AttemptFiles!Plans, AttemptFiles!Labels
  <2> QED
    BY <2>1, <2>2, <2>3 DEF AttemptFiles!TypeOK, AttemptFiles!Codes,
                            AttemptFiles!Writing
<1>2. AttemptFiles!Init
      => AttemptFiles!WorkerFits /\ AttemptFiles!ProcessesFit
        /\ AttemptFiles!WritesFit
  BY DEF AttemptFiles!WorkerFits, AttemptFiles!ProcessesFit,
         AttemptFiles!Alive, AttemptFiles!WritesFit, AttemptFiles!Writing
<1>3. AttemptFiles!Init
      => AttemptFiles!DirectoryFits /\ AttemptFiles!ReceiptVouches
  BY DEF AttemptFiles!DirectoryFits, AttemptFiles!ReceiptVouches,
         AttemptFiles!Gone
<1>4. AttemptFiles!Init
      => AttemptFiles!CheckpointSurvives /\ AttemptFiles!NothingLeftBehind
        /\ AttemptFiles!RemovedAfterAction
  BY DEF AttemptFiles!CheckpointSurvives, AttemptFiles!NothingLeftBehind,
         AttemptFiles!RemovedAfterAction, AttemptFiles!Gone
<1> QED
  BY <1>1, <1>2, <1>3, <1>4 DEF AttemptFiles!IInv

\* Every step keeps the shapes of directory, journal and labels.
LEMMA FilesTypeNext ==
  ASSUME AttemptFiles!FilesAssumption, AttemptFiles!IInv,
         [AttemptFiles!Next]_(AttemptFiles!vars)
  PROVE  AttemptFiles!TypeOK'
<1> USE DEF AttemptFiles!FilesAssumption, AttemptFiles!IInv,
            AttemptFiles!TypeOK, AttemptFiles!WorkerFits,
            AttemptFiles!ProcessesFit, AttemptFiles!WritesFit,
            AttemptFiles!DirectoryFits, AttemptFiles!ReceiptVouches,
            AttemptFiles!CheckpointSurvives, AttemptFiles!NothingLeftBehind,
            AttemptFiles!RemovedAfterAction, AttemptFiles!Directories,
            AttemptFiles!Names, AttemptFiles!Fixed, AttemptFiles!Codes,
            AttemptFiles!Phases, AttemptFiles!Plans, AttemptFiles!Labels,
            AttemptFiles!Writing, AttemptFiles!Alive, AttemptFiles!Has,
            AttemptFiles!Spelled, AttemptFiles!Gone
<1>1. CASE AttemptFiles!CreateJournal
  BY <1>1 DEF AttemptFiles!CreateJournal, AttemptFiles!Goto,
              AttemptFiles!NoWrite, AttemptFiles!Journal, AttemptFiles!Sync,
              AttemptFiles!processes
<1>2. CASE AttemptFiles!MakeDirectory
  BY <1>2 DEF AttemptFiles!MakeDirectory, AttemptFiles!Goto,
              AttemptFiles!NoWrite, AttemptFiles!Change, AttemptFiles!processes
<1>3. CASE AttemptFiles!SyncParent
  BY <1>3 DEF AttemptFiles!SyncParent, AttemptFiles!BeginWrite,
              AttemptFiles!Sync, AttemptFiles!Goto, AttemptFiles!NoWrite,
              AttemptFiles!Fault, AttemptFiles!processes
<1>4. CASE AttemptFiles!WorkerWrites
  <2>1. PICK to \in AttemptFiles!Written :
          /\ AttemptFiles!WriteStep(writes.at, to, writes.name)
          /\ CASE to = "error" -> AttemptFiles!Goto(IF writes.name = "result"
                                       THEN "down" ELSE "retry_claimed")
               [] to = "done" -> AttemptFiles!NextFile(writes.name)
               [] OTHER -> /\ writes' = [writes EXCEPT !.at = to]
                           /\ UNCHANGED worker
    BY <1>4 DEF AttemptFiles!WorkerWrites
  <2>2. /\ worker = "write"
        /\ writes \in [name : {"spec", "log", "result"},
                       at : AttemptFiles!Writing]
        /\ filesResult' = IF writes = [name |-> "result", at |-> "link"]
             THEN 1 ELSE filesResult
        /\ UNCHANGED <<receipt, filesJournal, acted, AttemptFiles!processes,
             crashes>>
    BY <1>4 DEF AttemptFiles!WorkerWrites
  <2>3. CASE to = "error"
    <3>1. writes.at = "sync" /\ UNCHANGED <<filesDir, since>>
          /\ AttemptFiles!Fault
      BY <2>1, <2>3 DEF AttemptFiles!WriteStep
    <3>2. worker' \in {"down", "retry_claimed"}
          /\ writes' = AttemptFiles!NoWrite
      BY <2>1, <2>3 DEF AttemptFiles!Goto
    <3> QED
      BY <2>2, <3>1, <3>2 DEF AttemptFiles!Fault, AttemptFiles!NoWrite,
                              AttemptFiles!processes
  <2>4. CASE to = "done"
    <3>1. writes.at = "sync" /\ AttemptFiles!Sync /\ UNCHANGED filesFaults
      BY <2>1, <2>4 DEF AttemptFiles!WriteStep
    <3>2. AttemptFiles!NextFile(writes.name)
      BY <2>1, <2>4
    <3>3. CASE writes.name = "spec"
      BY <2>2, <3>1, <3>2, <3>3 DEF AttemptFiles!NextFile, AttemptFiles!Sync,
                                    AttemptFiles!BeginWrite,
                                    AttemptFiles!processes
    <3>4. CASE writes.name = "log"
      BY <2>2, <3>1, <3>2, <3>4 DEF AttemptFiles!NextFile, AttemptFiles!Sync,
                                    AttemptFiles!Goto, AttemptFiles!NoWrite,
                                    AttemptFiles!processes
    <3>5. CASE writes.name = "result"
      BY <2>2, <3>1, <3>2, <3>5 DEF AttemptFiles!NextFile, AttemptFiles!Sync,
                                    AttemptFiles!Goto, AttemptFiles!NoWrite,
                                    AttemptFiles!processes
    <3> QED
      BY <2>2, <3>3, <3>4, <3>5
  <2>5. CASE to \in AttemptFiles!Writing
    <3>1. writes' = [writes EXCEPT !.at = to] /\ UNCHANGED worker
      BY <2>1, <2>5
    <3>2. UNCHANGED filesFaults
      BY <2>1, <2>5 DEF AttemptFiles!WriteStep
    <3>3. CASE writes.at = "temp"
      BY <2>1, <2>2, <2>5, <3>1, <3>2, <3>3
         DEF AttemptFiles!WriteStep, AttemptFiles!Put, AttemptFiles!Change,
             AttemptFiles!processes
    <3>4. CASE writes.at = "link"
      BY <2>1, <2>2, <2>5, <3>1, <3>2, <3>4
         DEF AttemptFiles!WriteStep, AttemptFiles!Put, AttemptFiles!Change,
             AttemptFiles!processes
    <3>5. CASE writes.at = "unlink"
      BY <2>1, <2>2, <2>5, <3>1, <3>2, <3>5
         DEF AttemptFiles!WriteStep, AttemptFiles!Put, AttemptFiles!Change,
             AttemptFiles!processes
    <3>6. writes.at # "sync"
      BY <2>1, <2>5 DEF AttemptFiles!WriteStep
    <3> QED
      BY <2>2, <3>3, <3>4, <3>5, <3>6
  <2> QED
    BY <2>3, <2>4, <2>5 DEF AttemptFiles!Written
<1>5. CASE AttemptFiles!BlockDependency
  BY <1>5 DEF AttemptFiles!BlockDependency, AttemptFiles!BeginWrite,
              AttemptFiles!disk, AttemptFiles!processes
<1>6. CASE AttemptFiles!FinalizeBlock
  BY <1>6 DEF AttemptFiles!FinalizeBlock, AttemptFiles!Goto,
              AttemptFiles!NoWrite, AttemptFiles!Journal, AttemptFiles!Sync,
              AttemptFiles!processes
<1>7. CASE AttemptFiles!Start
  BY <1>7 DEF AttemptFiles!Start, AttemptFiles!Goto, AttemptFiles!NoWrite,
              AttemptFiles!Journal, AttemptFiles!Sync
<1>8. CASE AttemptFiles!ControlUntilDead
  BY <1>8 DEF AttemptFiles!ControlUntilDead, AttemptFiles!Goto,
              AttemptFiles!NoWrite, AttemptFiles!processes,
              AttemptFiles!KillAll, AttemptFiles!disk
<1>9. CASE AttemptFiles!Load
  BY <1>9 DEF AttemptFiles!Load, AttemptFiles!Loadable, AttemptFiles!Torn,
              AttemptFiles!Goto, AttemptFiles!NoWrite, AttemptFiles!Journal,
              AttemptFiles!Sync, AttemptFiles!processes
<1>10. CASE AttemptFiles!FinalizeIncomplete
  BY <1>10 DEF AttemptFiles!FinalizeIncomplete, AttemptFiles!Goto,
               AttemptFiles!NoWrite, AttemptFiles!Journal, AttemptFiles!Sync,
               AttemptFiles!processes
<1>11. CASE AttemptFiles!Act
  BY <1>11 DEF AttemptFiles!Act, AttemptFiles!Goto, AttemptFiles!NoWrite,
               AttemptFiles!disk, AttemptFiles!processes
<1>12. CASE AttemptFiles!Cleanup
  <2>1. /\ worker = "cleanup"
        /\ UNCHANGED <<filesResult, receipt, filesJournal, acted,
             AttemptFiles!processes, crashes, filesFaults>>
        /\ filesDir.at \in {"none", "root", "tombstone"}
    BY <1>12 DEF AttemptFiles!Cleanup
  <2>2. CASE filesDir.at = "none"
    BY <1>12, <2>1, <2>2 DEF AttemptFiles!Cleanup, AttemptFiles!Goto,
                             AttemptFiles!NoWrite, AttemptFiles!processes
  <2>3. CASE filesDir.at = "tombstone"
    BY <1>12, <2>1, <2>3 DEF AttemptFiles!Cleanup, AttemptFiles!Goto,
                             AttemptFiles!NoWrite, AttemptFiles!processes
  <2>4. CASE filesDir.at = "root" /\ ~AttemptFiles!Torn
    BY <1>12, <2>1, <2>4 DEF AttemptFiles!Cleanup, AttemptFiles!Goto,
                             AttemptFiles!NoWrite, AttemptFiles!Change,
                             AttemptFiles!processes
  <2>5. CASE filesDir.at = "root" /\ AttemptFiles!Torn
    BY <1>12, <2>1, <2>5 DEF AttemptFiles!Cleanup, AttemptFiles!Goto,
                             AttemptFiles!NoWrite, AttemptFiles!processes
  <2> QED
    BY <2>1, <2>2, <2>3, <2>4, <2>5
<1>13. CASE AttemptFiles!RenameSync
  BY <1>13 DEF AttemptFiles!RenameSync, AttemptFiles!Goto,
               AttemptFiles!NoWrite, AttemptFiles!Sync, AttemptFiles!processes
<1>14. CASE AttemptFiles!CleanDirectory
  BY <1>14 DEF AttemptFiles!CleanDirectory, AttemptFiles!Goto,
               AttemptFiles!NoWrite, AttemptFiles!Change, AttemptFiles!Put,
               AttemptFiles!processes
<1>15. CASE AttemptFiles!CleanSync
  BY <1>15 DEF AttemptFiles!CleanSync, AttemptFiles!Goto, AttemptFiles!NoWrite,
               AttemptFiles!Sync, AttemptFiles!processes
<1>16. CASE AttemptFiles!Clear
  BY <1>16 DEF AttemptFiles!Clear, AttemptFiles!Goto, AttemptFiles!NoWrite,
               AttemptFiles!Journal, AttemptFiles!Sync, AttemptFiles!processes
<1>17. CASE AttemptFiles!Restart
  BY <1>17 DEF AttemptFiles!Restart, AttemptFiles!Goto, AttemptFiles!NoWrite,
               AttemptFiles!disk, AttemptFiles!processes
<1>18. CASE AttemptFiles!VerifyJournal
  BY <1>18 DEF AttemptFiles!VerifyJournal, AttemptFiles!Goto,
               AttemptFiles!NoWrite, AttemptFiles!Verifies, AttemptFiles!Torn,
               AttemptFiles!disk, AttemptFiles!processes
<1>19. CASE AttemptFiles!Reconcile
  BY <1>19 DEF AttemptFiles!Reconcile, AttemptFiles!KillAll, AttemptFiles!Goto,
               AttemptFiles!NoWrite, AttemptFiles!disk
<1>20. CASE AttemptFiles!Replay
  BY <1>20 DEF AttemptFiles!Replay, AttemptFiles!Goto, AttemptFiles!NoWrite,
               AttemptFiles!Replayable, AttemptFiles!Loadable,
               AttemptFiles!Torn, AttemptFiles!disk, AttemptFiles!processes
<1>21. CASE AttemptFiles!Execute
  BY <1>21 DEF AttemptFiles!Execute, AttemptFiles!Written,
               AttemptFiles!WriteStep, AttemptFiles!Put, AttemptFiles!Change,
               AttemptFiles!Sync, AttemptFiles!Fault
<1>22. CASE AttemptFiles!Observe
  BY <1>22 DEF AttemptFiles!Observe, AttemptFiles!disk
<1>23. CASE AttemptFiles!WriteReceipt
  BY <1>23 DEF AttemptFiles!WriteReceipt, AttemptFiles!Written,
               AttemptFiles!WriteStep, AttemptFiles!Put, AttemptFiles!Change,
               AttemptFiles!Sync, AttemptFiles!Fault
<1>24. CASE AttemptFiles!ObserverTimeout
  BY <1>24 DEF AttemptFiles!ObserverTimeout, AttemptFiles!disk
<1>25. CASE AttemptFiles!WorkerDies
  BY <1>25 DEF AttemptFiles!WorkerDies, AttemptFiles!Goto,
               AttemptFiles!NoWrite, AttemptFiles!disk, AttemptFiles!processes
<1>26. CASE AttemptFiles!PowerLoss
  BY <1>26 DEF AttemptFiles!PowerLoss, AttemptFiles!Goto, AttemptFiles!NoWrite,
               AttemptFiles!KillAll
<1>27. CASE UNCHANGED AttemptFiles!vars
  BY <1>27 DEF AttemptFiles!vars, AttemptFiles!disk, AttemptFiles!processes
<1> QED
  BY <1>1, <1>2, <1>3, <1>4, <1>5, <1>6, <1>7, <1>8, <1>9, <1>10, <1>11, <1>12,
     <1>13, <1>14, <1>15, <1>16, <1>17, <1>18, <1>19, <1>20, <1>21, <1>22,
     <1>23, <1>24, <1>25, <1>26, <1>27
     DEF AttemptFiles!Next, AttemptFiles!Worker

\* Worker, journal, executor and observer: the proof of death comes before the
\* next phase, the queue action before the removal.
LEMMA FilesPartiesNext ==
  ASSUME AttemptFiles!FilesAssumption, AttemptFiles!IInv,
         [AttemptFiles!Next]_(AttemptFiles!vars)
  PROVE  AttemptFiles!WorkerFits' /\ AttemptFiles!ProcessesFit'
<1> USE DEF AttemptFiles!FilesAssumption, AttemptFiles!IInv,
            AttemptFiles!TypeOK, AttemptFiles!WorkerFits,
            AttemptFiles!ProcessesFit, AttemptFiles!WritesFit,
            AttemptFiles!DirectoryFits, AttemptFiles!ReceiptVouches,
            AttemptFiles!CheckpointSurvives, AttemptFiles!NothingLeftBehind,
            AttemptFiles!RemovedAfterAction, AttemptFiles!Directories,
            AttemptFiles!Names, AttemptFiles!Fixed, AttemptFiles!Codes,
            AttemptFiles!Phases, AttemptFiles!Plans, AttemptFiles!Labels,
            AttemptFiles!Writing, AttemptFiles!Alive, AttemptFiles!Has,
            AttemptFiles!Spelled, AttemptFiles!Gone
<1>1. CASE AttemptFiles!CreateJournal
  BY <1>1 DEF AttemptFiles!CreateJournal, AttemptFiles!Goto,
              AttemptFiles!NoWrite, AttemptFiles!Journal, AttemptFiles!Sync,
              AttemptFiles!processes
<1>2. CASE AttemptFiles!MakeDirectory
  BY <1>2 DEF AttemptFiles!MakeDirectory, AttemptFiles!Goto,
              AttemptFiles!NoWrite, AttemptFiles!Change, AttemptFiles!processes
<1>3. CASE AttemptFiles!SyncParent
  BY <1>3 DEF AttemptFiles!SyncParent, AttemptFiles!BeginWrite,
              AttemptFiles!Sync, AttemptFiles!Goto, AttemptFiles!NoWrite,
              AttemptFiles!Fault, AttemptFiles!processes
<1>4. CASE AttemptFiles!WorkerWrites
  BY <1>4 DEF AttemptFiles!WorkerWrites, AttemptFiles!Written,
              AttemptFiles!WriteStep, AttemptFiles!Put, AttemptFiles!Change,
              AttemptFiles!Sync, AttemptFiles!Fault, AttemptFiles!Goto,
              AttemptFiles!NoWrite, AttemptFiles!NextFile,
              AttemptFiles!BeginWrite, AttemptFiles!processes
<1>5. CASE AttemptFiles!BlockDependency
  BY <1>5 DEF AttemptFiles!BlockDependency, AttemptFiles!BeginWrite,
              AttemptFiles!disk, AttemptFiles!processes
<1>6. CASE AttemptFiles!FinalizeBlock
  BY <1>6 DEF AttemptFiles!FinalizeBlock, AttemptFiles!Goto,
              AttemptFiles!NoWrite, AttemptFiles!Journal, AttemptFiles!Sync,
              AttemptFiles!processes
<1>7. CASE AttemptFiles!Start
  BY <1>7 DEF AttemptFiles!Start, AttemptFiles!Goto, AttemptFiles!NoWrite,
              AttemptFiles!Journal, AttemptFiles!Sync
<1>8. CASE AttemptFiles!ControlUntilDead
  BY <1>8 DEF AttemptFiles!ControlUntilDead, AttemptFiles!Goto,
              AttemptFiles!NoWrite, AttemptFiles!processes,
              AttemptFiles!KillAll, AttemptFiles!disk
<1>9. CASE AttemptFiles!Load
  BY <1>9 DEF AttemptFiles!Load, AttemptFiles!Loadable, AttemptFiles!Torn,
              AttemptFiles!Goto, AttemptFiles!NoWrite, AttemptFiles!Journal,
              AttemptFiles!Sync, AttemptFiles!processes
<1>10. CASE AttemptFiles!FinalizeIncomplete
  BY <1>10 DEF AttemptFiles!FinalizeIncomplete, AttemptFiles!Goto,
               AttemptFiles!NoWrite, AttemptFiles!Journal, AttemptFiles!Sync,
               AttemptFiles!processes
<1>11. CASE AttemptFiles!Act
  BY <1>11 DEF AttemptFiles!Act, AttemptFiles!Goto, AttemptFiles!NoWrite,
               AttemptFiles!disk, AttemptFiles!processes
<1>12. CASE AttemptFiles!Cleanup
  BY <1>12 DEF AttemptFiles!Cleanup, AttemptFiles!Goto, AttemptFiles!NoWrite,
               AttemptFiles!Torn, AttemptFiles!Change, AttemptFiles!processes
<1>13. CASE AttemptFiles!RenameSync
  BY <1>13 DEF AttemptFiles!RenameSync, AttemptFiles!Goto,
               AttemptFiles!NoWrite, AttemptFiles!Sync, AttemptFiles!processes
<1>14. CASE AttemptFiles!CleanDirectory
  BY <1>14 DEF AttemptFiles!CleanDirectory, AttemptFiles!Goto,
               AttemptFiles!NoWrite, AttemptFiles!Change, AttemptFiles!Put,
               AttemptFiles!processes
<1>15. CASE AttemptFiles!CleanSync
  BY <1>15 DEF AttemptFiles!CleanSync, AttemptFiles!Goto, AttemptFiles!NoWrite,
               AttemptFiles!Sync, AttemptFiles!processes
<1>16. CASE AttemptFiles!Clear
  BY <1>16 DEF AttemptFiles!Clear, AttemptFiles!Goto, AttemptFiles!NoWrite,
               AttemptFiles!Journal, AttemptFiles!Sync, AttemptFiles!processes
<1>17. CASE AttemptFiles!Restart
  BY <1>17 DEF AttemptFiles!Restart, AttemptFiles!Goto, AttemptFiles!NoWrite,
               AttemptFiles!disk, AttemptFiles!processes
<1>18. CASE AttemptFiles!VerifyJournal
  BY <1>18 DEF AttemptFiles!VerifyJournal, AttemptFiles!Goto,
               AttemptFiles!NoWrite, AttemptFiles!Verifies, AttemptFiles!Torn,
               AttemptFiles!disk, AttemptFiles!processes
<1>19. CASE AttemptFiles!Reconcile
  BY <1>19 DEF AttemptFiles!Reconcile, AttemptFiles!KillAll, AttemptFiles!Goto,
               AttemptFiles!NoWrite, AttemptFiles!disk
<1>20. CASE AttemptFiles!Replay
  BY <1>20 DEF AttemptFiles!Replay, AttemptFiles!Goto, AttemptFiles!NoWrite,
               AttemptFiles!Replayable, AttemptFiles!Loadable,
               AttemptFiles!Torn, AttemptFiles!disk, AttemptFiles!processes
<1>21. CASE AttemptFiles!Execute
  BY <1>21 DEF AttemptFiles!Execute, AttemptFiles!Written,
               AttemptFiles!WriteStep, AttemptFiles!Put, AttemptFiles!Change,
               AttemptFiles!Sync, AttemptFiles!Fault
<1>22. CASE AttemptFiles!Observe
  BY <1>22 DEF AttemptFiles!Observe, AttemptFiles!disk
<1>23. CASE AttemptFiles!WriteReceipt
  BY <1>23 DEF AttemptFiles!WriteReceipt, AttemptFiles!Written,
               AttemptFiles!WriteStep, AttemptFiles!Put, AttemptFiles!Change,
               AttemptFiles!Sync, AttemptFiles!Fault
<1>24. CASE AttemptFiles!ObserverTimeout
  BY <1>24 DEF AttemptFiles!ObserverTimeout, AttemptFiles!disk
<1>25. CASE AttemptFiles!WorkerDies
  BY <1>25 DEF AttemptFiles!WorkerDies, AttemptFiles!Goto,
               AttemptFiles!NoWrite, AttemptFiles!disk, AttemptFiles!processes
<1>26. CASE AttemptFiles!PowerLoss
  BY <1>26 DEF AttemptFiles!PowerLoss, AttemptFiles!Goto, AttemptFiles!NoWrite,
               AttemptFiles!KillAll
<1>27. CASE UNCHANGED AttemptFiles!vars
  BY <1>27 DEF AttemptFiles!vars, AttemptFiles!disk, AttemptFiles!processes
<1> QED
  BY <1>1, <1>2, <1>3, <1>4, <1>5, <1>6, <1>7, <1>8, <1>9, <1>10, <1>11, <1>12,
     <1>13, <1>14, <1>15, <1>16, <1>17, <1>18, <1>19, <1>20, <1>21, <1>22,
     <1>23, <1>24, <1>25, <1>26, <1>27
     DEF AttemptFiles!Next, AttemptFiles!Worker

\* The files that the worker has written and those that it has removed, also in
\* what a power loss may leave.
LEMMA FilesDirectoryNext ==
  ASSUME AttemptFiles!FilesAssumption, AttemptFiles!IInv,
         [AttemptFiles!Next]_(AttemptFiles!vars)
  PROVE  AttemptFiles!WritesFit' /\ AttemptFiles!DirectoryFits'
<1> USE DEF AttemptFiles!FilesAssumption, AttemptFiles!IInv,
            AttemptFiles!TypeOK, AttemptFiles!WorkerFits,
            AttemptFiles!ProcessesFit, AttemptFiles!WritesFit,
            AttemptFiles!DirectoryFits, AttemptFiles!ReceiptVouches,
            AttemptFiles!CheckpointSurvives, AttemptFiles!NothingLeftBehind,
            AttemptFiles!RemovedAfterAction, AttemptFiles!Directories,
            AttemptFiles!Names, AttemptFiles!Fixed, AttemptFiles!Codes,
            AttemptFiles!Phases, AttemptFiles!Plans, AttemptFiles!Labels,
            AttemptFiles!Writing, AttemptFiles!Alive, AttemptFiles!Has,
            AttemptFiles!Spelled, AttemptFiles!Gone
<1>1. CASE AttemptFiles!CreateJournal
  BY <1>1 DEF AttemptFiles!CreateJournal, AttemptFiles!Goto,
              AttemptFiles!NoWrite, AttemptFiles!Journal, AttemptFiles!Sync,
              AttemptFiles!processes
<1>2. CASE AttemptFiles!MakeDirectory
  BY <1>2 DEF AttemptFiles!MakeDirectory, AttemptFiles!Goto,
              AttemptFiles!NoWrite, AttemptFiles!Change, AttemptFiles!processes
<1>3. CASE AttemptFiles!SyncParent
  BY <1>3 DEF AttemptFiles!SyncParent, AttemptFiles!BeginWrite,
              AttemptFiles!Sync, AttemptFiles!Goto, AttemptFiles!NoWrite,
              AttemptFiles!Fault, AttemptFiles!processes
<1>4. CASE AttemptFiles!WorkerWrites
  <2>1. PICK to \in AttemptFiles!Written :
          /\ AttemptFiles!WriteStep(writes.at, to, writes.name)
          /\ CASE to = "error" -> AttemptFiles!Goto(IF writes.name = "result"
                                       THEN "down" ELSE "retry_claimed")
               [] to = "done" -> AttemptFiles!NextFile(writes.name)
               [] OTHER -> /\ writes' = [writes EXCEPT !.at = to]
                           /\ UNCHANGED worker
    BY <1>4 DEF AttemptFiles!WorkerWrites
  <2>2. /\ worker = "write"
        /\ writes \in [name : {"spec", "log", "result"},
                       at : AttemptFiles!Writing]
        /\ filesResult' = IF writes = [name |-> "result", at |-> "link"]
             THEN 1 ELSE filesResult
        /\ UNCHANGED <<receipt, filesJournal, acted, AttemptFiles!processes,
             crashes>>
    BY <1>4 DEF AttemptFiles!WorkerWrites
  <2>3. CASE to = "error"
    <3>1. writes.at = "sync" /\ UNCHANGED <<filesDir, since>>
          /\ AttemptFiles!Fault
      BY <2>1, <2>3 DEF AttemptFiles!WriteStep
    <3>2. worker' \in {"down", "retry_claimed"}
          /\ writes' = AttemptFiles!NoWrite
      BY <2>1, <2>3 DEF AttemptFiles!Goto
    <3> QED
      BY <2>2, <3>1, <3>2 DEF AttemptFiles!Fault, AttemptFiles!NoWrite,
                              AttemptFiles!processes
  <2>4. CASE to = "done"
    <3>1. writes.at = "sync" /\ AttemptFiles!Sync /\ UNCHANGED filesFaults
      BY <2>1, <2>4 DEF AttemptFiles!WriteStep
    <3>2. AttemptFiles!NextFile(writes.name)
      BY <2>1, <2>4
    <3>3. CASE writes.name = "spec"
      BY <2>2, <3>1, <3>2, <3>3 DEF AttemptFiles!NextFile, AttemptFiles!Sync,
                                    AttemptFiles!BeginWrite,
                                    AttemptFiles!processes
    <3>4. CASE writes.name = "log"
      BY <2>2, <3>1, <3>2, <3>4 DEF AttemptFiles!NextFile, AttemptFiles!Sync,
                                    AttemptFiles!Goto, AttemptFiles!NoWrite,
                                    AttemptFiles!processes
    <3>5. CASE writes.name = "result"
      BY <2>2, <3>1, <3>2, <3>5 DEF AttemptFiles!NextFile, AttemptFiles!Sync,
                                    AttemptFiles!Goto, AttemptFiles!NoWrite,
                                    AttemptFiles!processes
    <3> QED
      BY <2>2, <3>3, <3>4, <3>5
  <2>5. CASE to \in AttemptFiles!Writing
    <3>1. writes' = [writes EXCEPT !.at = to] /\ UNCHANGED worker
      BY <2>1, <2>5
    <3>2. UNCHANGED filesFaults
      BY <2>1, <2>5 DEF AttemptFiles!WriteStep
    <3>3. CASE writes.at = "temp"
      BY <2>1, <2>2, <2>5, <3>1, <3>2, <3>3
         DEF AttemptFiles!WriteStep, AttemptFiles!Put, AttemptFiles!Change,
             AttemptFiles!processes
    <3>4. CASE writes.at = "link"
      BY <2>1, <2>2, <2>5, <3>1, <3>2, <3>4
         DEF AttemptFiles!WriteStep, AttemptFiles!Put, AttemptFiles!Change,
             AttemptFiles!processes
    <3>5. CASE writes.at = "unlink"
      BY <2>1, <2>2, <2>5, <3>1, <3>2, <3>5
         DEF AttemptFiles!WriteStep, AttemptFiles!Put, AttemptFiles!Change,
             AttemptFiles!processes
    <3>6. writes.at # "sync"
      BY <2>1, <2>5 DEF AttemptFiles!WriteStep
    <3> QED
      BY <2>2, <3>3, <3>4, <3>5, <3>6
  <2> QED
    BY <2>3, <2>4, <2>5 DEF AttemptFiles!Written
<1>5. CASE AttemptFiles!BlockDependency
  BY <1>5 DEF AttemptFiles!BlockDependency, AttemptFiles!BeginWrite,
              AttemptFiles!disk, AttemptFiles!processes
<1>6. CASE AttemptFiles!FinalizeBlock
  BY <1>6 DEF AttemptFiles!FinalizeBlock, AttemptFiles!Goto,
              AttemptFiles!NoWrite, AttemptFiles!Journal, AttemptFiles!Sync,
              AttemptFiles!processes
<1>7. CASE AttemptFiles!Start
  BY <1>7 DEF AttemptFiles!Start, AttemptFiles!Goto, AttemptFiles!NoWrite,
              AttemptFiles!Journal, AttemptFiles!Sync
<1>8. CASE AttemptFiles!ControlUntilDead
  BY <1>8 DEF AttemptFiles!ControlUntilDead, AttemptFiles!Goto,
              AttemptFiles!NoWrite, AttemptFiles!processes,
              AttemptFiles!KillAll, AttemptFiles!disk
<1>9. CASE AttemptFiles!Load
  BY <1>9 DEF AttemptFiles!Load, AttemptFiles!Loadable, AttemptFiles!Torn,
              AttemptFiles!Goto, AttemptFiles!NoWrite, AttemptFiles!Journal,
              AttemptFiles!Sync, AttemptFiles!processes
<1>10. CASE AttemptFiles!FinalizeIncomplete
  BY <1>10 DEF AttemptFiles!FinalizeIncomplete, AttemptFiles!Goto,
               AttemptFiles!NoWrite, AttemptFiles!Journal, AttemptFiles!Sync,
               AttemptFiles!processes
<1>11. CASE AttemptFiles!Act
  BY <1>11 DEF AttemptFiles!Act, AttemptFiles!Goto, AttemptFiles!NoWrite,
               AttemptFiles!disk, AttemptFiles!processes
<1>12. CASE AttemptFiles!Cleanup
  <2>1. /\ worker = "cleanup"
        /\ UNCHANGED <<filesResult, receipt, filesJournal, acted,
             AttemptFiles!processes, crashes, filesFaults>>
        /\ filesDir.at \in {"none", "root", "tombstone"}
    BY <1>12 DEF AttemptFiles!Cleanup
  <2>2. CASE filesDir.at = "none"
    BY <1>12, <2>1, <2>2 DEF AttemptFiles!Cleanup, AttemptFiles!Goto,
                             AttemptFiles!NoWrite, AttemptFiles!processes
  <2>3. CASE filesDir.at = "tombstone"
    BY <1>12, <2>1, <2>3 DEF AttemptFiles!Cleanup, AttemptFiles!Goto,
                             AttemptFiles!NoWrite, AttemptFiles!processes
  <2>4. CASE filesDir.at = "root" /\ ~AttemptFiles!Torn
    BY <1>12, <2>1, <2>4 DEF AttemptFiles!Cleanup, AttemptFiles!Goto,
                             AttemptFiles!NoWrite, AttemptFiles!Change,
                             AttemptFiles!processes
  <2>5. CASE filesDir.at = "root" /\ AttemptFiles!Torn
    BY <1>12, <2>1, <2>5 DEF AttemptFiles!Cleanup, AttemptFiles!Goto,
                             AttemptFiles!NoWrite, AttemptFiles!processes
  <2> QED
    BY <2>1, <2>2, <2>3, <2>4, <2>5
<1>13. CASE AttemptFiles!RenameSync
  BY <1>13 DEF AttemptFiles!RenameSync, AttemptFiles!Goto,
               AttemptFiles!NoWrite, AttemptFiles!Sync, AttemptFiles!processes
<1>14. CASE AttemptFiles!CleanDirectory
  BY <1>14 DEF AttemptFiles!CleanDirectory, AttemptFiles!Goto,
               AttemptFiles!NoWrite, AttemptFiles!Change, AttemptFiles!Put,
               AttemptFiles!processes
<1>15. CASE AttemptFiles!CleanSync
  BY <1>15 DEF AttemptFiles!CleanSync, AttemptFiles!Goto, AttemptFiles!NoWrite,
               AttemptFiles!Sync, AttemptFiles!processes
<1>16. CASE AttemptFiles!Clear
  BY <1>16 DEF AttemptFiles!Clear, AttemptFiles!Goto, AttemptFiles!NoWrite,
               AttemptFiles!Journal, AttemptFiles!Sync, AttemptFiles!processes
<1>17. CASE AttemptFiles!Restart
  BY <1>17 DEF AttemptFiles!Restart, AttemptFiles!Goto, AttemptFiles!NoWrite,
               AttemptFiles!disk, AttemptFiles!processes
<1>18. CASE AttemptFiles!VerifyJournal
  BY <1>18 DEF AttemptFiles!VerifyJournal, AttemptFiles!Goto,
               AttemptFiles!NoWrite, AttemptFiles!Verifies, AttemptFiles!Torn,
               AttemptFiles!disk, AttemptFiles!processes
<1>19. CASE AttemptFiles!Reconcile
  BY <1>19 DEF AttemptFiles!Reconcile, AttemptFiles!KillAll, AttemptFiles!Goto,
               AttemptFiles!NoWrite, AttemptFiles!disk
<1>20. CASE AttemptFiles!Replay
  BY <1>20 DEF AttemptFiles!Replay, AttemptFiles!Goto, AttemptFiles!NoWrite,
               AttemptFiles!Replayable, AttemptFiles!Loadable,
               AttemptFiles!Torn, AttemptFiles!disk, AttemptFiles!processes
<1>21. CASE AttemptFiles!Execute
  BY <1>21 DEF AttemptFiles!Execute, AttemptFiles!Written,
               AttemptFiles!WriteStep, AttemptFiles!Put, AttemptFiles!Change,
               AttemptFiles!Sync, AttemptFiles!Fault
<1>22. CASE AttemptFiles!Observe
  BY <1>22 DEF AttemptFiles!Observe, AttemptFiles!disk
<1>23. CASE AttemptFiles!WriteReceipt
  BY <1>23 DEF AttemptFiles!WriteReceipt, AttemptFiles!Written,
               AttemptFiles!WriteStep, AttemptFiles!Put, AttemptFiles!Change,
               AttemptFiles!Sync, AttemptFiles!Fault
<1>24. CASE AttemptFiles!ObserverTimeout
  BY <1>24 DEF AttemptFiles!ObserverTimeout, AttemptFiles!disk
<1>25. CASE AttemptFiles!WorkerDies
  BY <1>25 DEF AttemptFiles!WorkerDies, AttemptFiles!Goto,
               AttemptFiles!NoWrite, AttemptFiles!disk, AttemptFiles!processes
<1>26. CASE AttemptFiles!PowerLoss
  BY <1>26 DEF AttemptFiles!PowerLoss, AttemptFiles!Goto, AttemptFiles!NoWrite,
               AttemptFiles!KillAll
<1>27. CASE UNCHANGED AttemptFiles!vars
  BY <1>27 DEF AttemptFiles!vars, AttemptFiles!disk, AttemptFiles!processes
<1> QED
  BY <1>1, <1>2, <1>3, <1>4, <1>5, <1>6, <1>7, <1>8, <1>9, <1>10, <1>11, <1>12,
     <1>13, <1>14, <1>15, <1>16, <1>17, <1>18, <1>19, <1>20, <1>21, <1>22,
     <1>23, <1>24, <1>25, <1>26, <1>27
     DEF AttemptFiles!Next, AttemptFiles!Worker

\* The four promises, for every state that a power loss may leave.
LEMMA FilesPromisesNext ==
  ASSUME AttemptFiles!FilesAssumption, AttemptFiles!IInv,
         [AttemptFiles!Next]_(AttemptFiles!vars)
  PROVE  AttemptFiles!ReceiptVouches' /\ AttemptFiles!CheckpointSurvives'
         /\ AttemptFiles!NothingLeftBehind' /\ AttemptFiles!RemovedAfterAction'
<1> USE DEF AttemptFiles!FilesAssumption, AttemptFiles!IInv,
            AttemptFiles!TypeOK, AttemptFiles!WorkerFits,
            AttemptFiles!ProcessesFit, AttemptFiles!WritesFit,
            AttemptFiles!DirectoryFits, AttemptFiles!ReceiptVouches,
            AttemptFiles!CheckpointSurvives, AttemptFiles!NothingLeftBehind,
            AttemptFiles!RemovedAfterAction, AttemptFiles!Directories,
            AttemptFiles!Names, AttemptFiles!Fixed, AttemptFiles!Codes,
            AttemptFiles!Phases, AttemptFiles!Plans, AttemptFiles!Labels,
            AttemptFiles!Writing, AttemptFiles!Alive, AttemptFiles!Has,
            AttemptFiles!Spelled, AttemptFiles!Gone
<1>1. CASE AttemptFiles!CreateJournal
  BY <1>1 DEF AttemptFiles!CreateJournal, AttemptFiles!Goto,
              AttemptFiles!NoWrite, AttemptFiles!Journal, AttemptFiles!Sync,
              AttemptFiles!processes
<1>2. CASE AttemptFiles!MakeDirectory
  BY <1>2 DEF AttemptFiles!MakeDirectory, AttemptFiles!Goto,
              AttemptFiles!NoWrite, AttemptFiles!Change, AttemptFiles!processes
<1>3. CASE AttemptFiles!SyncParent
  BY <1>3 DEF AttemptFiles!SyncParent, AttemptFiles!BeginWrite,
              AttemptFiles!Sync, AttemptFiles!Goto, AttemptFiles!NoWrite,
              AttemptFiles!Fault, AttemptFiles!processes
<1>4. CASE AttemptFiles!WorkerWrites
  BY <1>4 DEF AttemptFiles!WorkerWrites, AttemptFiles!Written,
              AttemptFiles!WriteStep, AttemptFiles!Put, AttemptFiles!Change,
              AttemptFiles!Sync, AttemptFiles!Fault, AttemptFiles!Goto,
              AttemptFiles!NoWrite, AttemptFiles!NextFile,
              AttemptFiles!BeginWrite, AttemptFiles!processes
<1>5. CASE AttemptFiles!BlockDependency
  BY <1>5 DEF AttemptFiles!BlockDependency, AttemptFiles!BeginWrite,
              AttemptFiles!disk, AttemptFiles!processes
<1>6. CASE AttemptFiles!FinalizeBlock
  BY <1>6 DEF AttemptFiles!FinalizeBlock, AttemptFiles!Goto,
              AttemptFiles!NoWrite, AttemptFiles!Journal, AttemptFiles!Sync,
              AttemptFiles!processes
<1>7. CASE AttemptFiles!Start
  BY <1>7 DEF AttemptFiles!Start, AttemptFiles!Goto, AttemptFiles!NoWrite,
              AttemptFiles!Journal, AttemptFiles!Sync
<1>8. CASE AttemptFiles!ControlUntilDead
  BY <1>8 DEF AttemptFiles!ControlUntilDead, AttemptFiles!Goto,
              AttemptFiles!NoWrite, AttemptFiles!processes,
              AttemptFiles!KillAll, AttemptFiles!disk
<1>9. CASE AttemptFiles!Load
  BY <1>9 DEF AttemptFiles!Load, AttemptFiles!Loadable, AttemptFiles!Torn,
              AttemptFiles!Goto, AttemptFiles!NoWrite, AttemptFiles!Journal,
              AttemptFiles!Sync, AttemptFiles!processes
<1>10. CASE AttemptFiles!FinalizeIncomplete
  BY <1>10 DEF AttemptFiles!FinalizeIncomplete, AttemptFiles!Goto,
               AttemptFiles!NoWrite, AttemptFiles!Journal, AttemptFiles!Sync,
               AttemptFiles!processes
<1>11. CASE AttemptFiles!Act
  BY <1>11 DEF AttemptFiles!Act, AttemptFiles!Goto, AttemptFiles!NoWrite,
               AttemptFiles!disk, AttemptFiles!processes
<1>12. CASE AttemptFiles!Cleanup
  <2>1. /\ worker = "cleanup"
        /\ UNCHANGED <<filesResult, receipt, filesJournal, acted,
             AttemptFiles!processes, crashes, filesFaults>>
        /\ filesDir.at \in {"none", "root", "tombstone"}
    BY <1>12 DEF AttemptFiles!Cleanup
  <2>2. CASE filesDir.at = "none"
    BY <1>12, <2>1, <2>2 DEF AttemptFiles!Cleanup, AttemptFiles!Goto,
                             AttemptFiles!NoWrite, AttemptFiles!processes
  <2>3. CASE filesDir.at = "tombstone"
    BY <1>12, <2>1, <2>3 DEF AttemptFiles!Cleanup, AttemptFiles!Goto,
                             AttemptFiles!NoWrite, AttemptFiles!processes
  <2>4. CASE filesDir.at = "root" /\ ~AttemptFiles!Torn
    BY <1>12, <2>1, <2>4 DEF AttemptFiles!Cleanup, AttemptFiles!Goto,
                             AttemptFiles!NoWrite, AttemptFiles!Change,
                             AttemptFiles!processes
  <2>5. CASE filesDir.at = "root" /\ AttemptFiles!Torn
    BY <1>12, <2>1, <2>5 DEF AttemptFiles!Cleanup, AttemptFiles!Goto,
                             AttemptFiles!NoWrite, AttemptFiles!processes
  <2> QED
    BY <2>1, <2>2, <2>3, <2>4, <2>5
<1>13. CASE AttemptFiles!RenameSync
  BY <1>13 DEF AttemptFiles!RenameSync, AttemptFiles!Goto,
               AttemptFiles!NoWrite, AttemptFiles!Sync, AttemptFiles!processes
<1>14. CASE AttemptFiles!CleanDirectory
  BY <1>14 DEF AttemptFiles!CleanDirectory, AttemptFiles!Goto,
               AttemptFiles!NoWrite, AttemptFiles!Change, AttemptFiles!Put,
               AttemptFiles!processes
<1>15. CASE AttemptFiles!CleanSync
  BY <1>15 DEF AttemptFiles!CleanSync, AttemptFiles!Goto, AttemptFiles!NoWrite,
               AttemptFiles!Sync, AttemptFiles!processes
<1>16. CASE AttemptFiles!Clear
  BY <1>16 DEF AttemptFiles!Clear, AttemptFiles!Goto, AttemptFiles!NoWrite,
               AttemptFiles!Journal, AttemptFiles!Sync, AttemptFiles!processes
<1>17. CASE AttemptFiles!Restart
  BY <1>17 DEF AttemptFiles!Restart, AttemptFiles!Goto, AttemptFiles!NoWrite,
               AttemptFiles!disk, AttemptFiles!processes
<1>18. CASE AttemptFiles!VerifyJournal
  BY <1>18 DEF AttemptFiles!VerifyJournal, AttemptFiles!Goto,
               AttemptFiles!NoWrite, AttemptFiles!Verifies, AttemptFiles!Torn,
               AttemptFiles!disk, AttemptFiles!processes
<1>19. CASE AttemptFiles!Reconcile
  BY <1>19 DEF AttemptFiles!Reconcile, AttemptFiles!KillAll, AttemptFiles!Goto,
               AttemptFiles!NoWrite, AttemptFiles!disk
<1>20. CASE AttemptFiles!Replay
  BY <1>20 DEF AttemptFiles!Replay, AttemptFiles!Goto, AttemptFiles!NoWrite,
               AttemptFiles!Replayable, AttemptFiles!Loadable,
               AttemptFiles!Torn, AttemptFiles!disk, AttemptFiles!processes
<1>21. CASE AttemptFiles!Execute
  BY <1>21 DEF AttemptFiles!Execute, AttemptFiles!Written,
               AttemptFiles!WriteStep, AttemptFiles!Put, AttemptFiles!Change,
               AttemptFiles!Sync, AttemptFiles!Fault
<1>22. CASE AttemptFiles!Observe
  BY <1>22 DEF AttemptFiles!Observe, AttemptFiles!disk
<1>23. CASE AttemptFiles!WriteReceipt
  BY <1>23 DEF AttemptFiles!WriteReceipt, AttemptFiles!Written,
               AttemptFiles!WriteStep, AttemptFiles!Put, AttemptFiles!Change,
               AttemptFiles!Sync, AttemptFiles!Fault
<1>24. CASE AttemptFiles!ObserverTimeout
  BY <1>24 DEF AttemptFiles!ObserverTimeout, AttemptFiles!disk
<1>25. CASE AttemptFiles!WorkerDies
  BY <1>25 DEF AttemptFiles!WorkerDies, AttemptFiles!Goto,
               AttemptFiles!NoWrite, AttemptFiles!disk, AttemptFiles!processes
<1>26. CASE AttemptFiles!PowerLoss
  BY <1>26 DEF AttemptFiles!PowerLoss, AttemptFiles!Goto, AttemptFiles!NoWrite,
               AttemptFiles!KillAll
<1>27. CASE UNCHANGED AttemptFiles!vars
  BY <1>27 DEF AttemptFiles!vars, AttemptFiles!disk, AttemptFiles!processes
<1> QED
  BY <1>1, <1>2, <1>3, <1>4, <1>5, <1>6, <1>7, <1>8, <1>9, <1>10, <1>11, <1>12,
     <1>13, <1>14, <1>15, <1>16, <1>17, <1>18, <1>19, <1>20, <1>21, <1>22,
     <1>23, <1>24, <1>25, <1>26, <1>27
     DEF AttemptFiles!Next, AttemptFiles!Worker


\* The files of an attempt (attempt_artifacts.py, executor_observer.py): its
\* invariant holds in every state that kills, power losses and failed
\* synchronisations lead to, for any number of them.
THEOREM FilesInvariance ==
  ASSUME AttemptFiles!FilesAssumption
  PROVE  AttemptFiles!Spec => []AttemptFiles!IInv
<1>1. AttemptFiles!Init => AttemptFiles!IInv
  BY FilesInit
<1>2. AttemptFiles!IInv /\ [AttemptFiles!Next]_(AttemptFiles!vars)
      => AttemptFiles!IInv'
  BY FilesTypeNext, FilesPartiesNext, FilesDirectoryNext, FilesPromisesNext
     DEF AttemptFiles!IInv
<1> QED
  BY <1>1, <1>2, PTL DEF AttemptFiles!Spec

\* Whatever a power loss takes back: a receipt vouches for the result beside it
\* (observe_executor), and a checkpoint whose action is not done is replayable.
THEOREM FilesAreTrusted ==
  ASSUME AttemptFiles!FilesAssumption
  PROVE  AttemptFiles!Spec
         => [](AttemptFiles!ReceiptVouches /\ AttemptFiles!CheckpointSurvives)
<1>1. AttemptFiles!IInv
      => AttemptFiles!ReceiptVouches /\ AttemptFiles!CheckpointSurvives
  BY DEF AttemptFiles!IInv
<1> QED
  BY <1>1, FilesInvariance, PTL

\* Cleanup follows the queue action, and the journal is cleared when nothing of
\* the directory can come back (attempt_completion.py).
THEOREM FilesGoInOrder ==
  ASSUME AttemptFiles!FilesAssumption
  PROVE  AttemptFiles!Spec
         => [](AttemptFiles!RemovedAfterAction
             /\ AttemptFiles!NothingLeftBehind)
<1>1. AttemptFiles!IInv
      => AttemptFiles!RemovedAfterAction /\ AttemptFiles!NothingLeftBehind
  BY DEF AttemptFiles!IInv
<1> QED
  BY <1>1, FilesInvariance, PTL

\* The same beside the other protocols: what the run checks.
THEOREM FilesRecoverHere == ProcessesSpec => []FilesRecover
<1>1. ProcessesInit => AttemptFiles!IInv
  BY FilesInit, InstancesAssumption DEF ProcessesInit
<1>2. [ProcessesNext]_processesVars => [AttemptFiles!Next]_(AttemptFiles!vars)
  BY DEF ProcessesNext, processesVars, filesVars, AttemptFiles!vars,
         AttemptFiles!disk, AttemptFiles!processes
<1>3. AttemptFiles!IInv /\ [ProcessesNext]_processesVars => AttemptFiles!IInv'
  BY <1>2, FilesTypeNext, FilesPartiesNext, FilesDirectoryNext,
     FilesPromisesNext, InstancesAssumption
     DEF AttemptFiles!IInv
<1> QED
  BY <1>1, <1>3, PTL DEF ProcessesSpec, FilesRecover
=============================================================================

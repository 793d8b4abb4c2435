---------------------------- MODULE WorkerScope ----------------------------
(***************************************************************************)
(* The root-fd worker (runtime_worker_scope.py, runtime_bound_worker*.py): *)
(* one operation on a runtime root, run by a bootstrap process that is the *)
(* main process of a transient user service.  The caller holds the object  *)
(* lock and hands the bootstrap the root and a pidfd of itself; a watchdog *)
(* in the same cgroup ends the bootstrap when the caller dies.             *)
(* Simplifications: the deadline may pass at any step; a process that      *)
(* SIGKILL has reached takes no further step of its own, and ends later.   *)
(***************************************************************************)
EXTENDS Naturals, FiniteSets

CONSTANTS MaxKids,   \* bound: descendants of the operation alive at once
          MaxFaults  \* bound: control requests and process starts that fail

ASSUME ScopeAssumption == MaxKids \in Nat /\ MaxFaults \in Nat

VARIABLES pc,       \* the caller's next step
          told,     \* what run_bound_operation gave: "none", "ok", "error"
          listener, \* the handoff socket accepts connections
          held,     \* the caller keeps the pidfd of the bootstrap
          payload,  \* the worker's stdin: "none", "sent", "eof"
          client,   \* systemd-run --wait: "none", "alive", "gone"
          unit,     \* the transient service
          main,     \* the bootstrap
          dog,      \* the watchdog
          ready,    \* the watchdog's ready byte
          ack,      \* the bootstrap's completion byte
          kids,     \* descendants of the operation in the cgroup
          doomed,   \* what SIGKILL has reached
          began,    \* history variable: the operation was called
          early,    \* history variable: the caller died before the ready byte
          faults

caller == <<pc, told, listener, held, payload>>
scope == <<main, dog, ready, ack, kids, began>>
vars == <<caller, client, unit, scope, doomed, early, faults>>

Ended == {"ok", "failed", "killed"}
MainAlive == main \notin Ended \cup {"none"}
DogAlive == dog \in {"front", "armed", "watching"}
ParentDead == pc = "dead"
Everything == {"main", "dog", "kids"}
Runs(p) == p \notin doomed
Fault == faults < MaxFaults /\ faults' = faults + 1

Init ==
    /\ pc = "idle" /\ told = "none" /\ listener = FALSE /\ held = FALSE /\ payload = "none"
    /\ client = "none" /\ unit = "none"
    /\ main = "none" /\ dog = "none" /\ ready = FALSE /\ ack = FALSE /\ kids = 0
    /\ began = FALSE /\ early = FALSE /\ doomed = {} /\ faults = 0

(***************************************************************************)
(* The caller: run_in_worker_scope.                                        *)
(***************************************************************************)
OpenHandoff ==
    /\ pc = "idle" /\ pc' = "bound" /\ listener' = TRUE
    /\ UNCHANGED <<told, held, payload, client, unit, scope, doomed, early, faults>>

StartClient ==
    /\ pc = "bound" /\ pc' = "await" /\ client' = "alive"
    /\ UNCHANGED <<told, listener, held, payload, unit, scope, doomed, early, faults>>

\* accept, peer credentials, pidfd of the peer, its cgroup, still alive.
Accept ==
    /\ pc = "await" /\ main = "receives" /\ unit = "active"
    /\ pc' = "grant"
    /\ UNCHANGED <<told, listener, held, payload, client, unit, scope, doomed, early, faults>>

\* The root descriptor and the caller's pidfd, in one message.
Grant ==
    /\ pc = "grant" /\ pc' = "granted"
    /\ main' = IF main = "receives" /\ Runs("main") THEN "granted" ELSE main
    /\ UNCHANGED <<told, listener, held, payload, client, unit, dog, ready, ack, kids, began, doomed, early, faults>>

\* The peer has not exited: from now on the caller holds its pidfd.
KeepPidfd ==
    /\ pc = "granted" /\ MainAlive
    /\ pc' = "talk" /\ held' = TRUE
    /\ UNCHANGED <<told, listener, payload, client, unit, scope, doomed, early, faults>>

SendPayload ==
    /\ pc = "talk" /\ payload = "none" /\ payload' = "sent"
    /\ UNCHANGED <<pc, told, listener, held, client, unit, scope, doomed, early, faults>>

\* The client ended: its exit status is the bootstrap's.
Completed ==
    /\ pc = "talk" /\ payload = "sent" /\ client = "gone"
    /\ pc' = "returned" /\ told' = IF main = "ok" THEN "ok" ELSE "error"
    /\ listener' = FALSE
    /\ UNCHANGED <<held, payload, client, unit, scope, doomed, early, faults>>

\* The deadline, an interrupt, a peer that exited, a client that ended.
Fails ==
    /\ pc \in {"bound", "await", "grant", "granted", "talk"}
    /\ pc' = "abort_main" /\ listener' = FALSE
    /\ UNCHANGED <<told, held, payload, client, unit, scope, doomed, early, faults>>

\* Mistake: only the manager is asked to end the scope.
AbortMainByManager ==
    /\ pc = "abort_main" /\ pc' = "abort_unit"
    /\ UNCHANGED <<told, listener, held, payload, client, unit, scope, doomed, early, faults>>

AbortMain ==
    /\ pc = "abort_main" /\ pc' = "abort_unit"
    /\ doomed' = IF held THEN doomed \cup {"main"} ELSE doomed
    /\ UNCHANGED <<told, listener, held, payload, client, unit, scope, early, faults>>

\* systemctl kill: what it reaches now; a request that fails is ignored.
KillUnit == doomed' = IF unit \in {"active", "stopping"} THEN doomed \cup Everything ELSE doomed

AbortUnit ==
    /\ pc = "abort_unit" /\ pc' = "abort_client"
    /\ \/ KillUnit /\ UNCHANGED faults
       \/ Fault /\ UNCHANGED doomed
    /\ UNCHANGED <<told, listener, held, payload, client, unit, scope, early>>

\* The client's process tree is killed and its stdin closed.
AbortClient ==
    /\ pc = "abort_client" /\ pc' = "returned" /\ told' = "error"
    /\ client' = IF client = "none" THEN client ELSE "gone"
    /\ payload' = IF payload = "none" THEN "eof" ELSE payload
    /\ UNCHANGED <<listener, held, unit, scope, doomed, early, faults>>

ParentDies ==
    /\ pc \notin {"idle", "returned", "dead"}
    /\ pc' = "dead" /\ listener' = FALSE
    /\ payload' = IF payload = "none" THEN "eof" ELSE payload
    /\ early' = ~ready
    /\ UNCHANGED <<told, held, client, unit, scope, doomed, faults>>

(***************************************************************************)
(* systemd-run and the user manager.                                       *)
(***************************************************************************)
RequestUnit ==
    /\ client = "alive" /\ unit = "none" /\ unit' = "starting"
    /\ UNCHANGED <<caller, client, scope, doomed, early, faults>>

Activate ==
    /\ unit = "starting"
    /\ \/ unit' = "active" /\ main' = "checks" /\ UNCHANGED faults
       \/ Fault /\ unit' = "gone" /\ main' = "failed"
    /\ UNCHANGED <<caller, client, dog, ready, ack, kids, began, doomed, early>>

\* ExitType=main, KillMode=control-group, KillSignal=SIGKILL.
MainEnded ==
    /\ unit = "active" /\ main \in Ended
    /\ unit' = "stopping" /\ doomed' = Everything
    /\ UNCHANGED <<caller, client, scope, early, faults>>

RuntimeMax ==
    /\ unit = "active"
    /\ unit' = "stopping" /\ doomed' = Everything
    /\ UNCHANGED <<caller, client, scope, early, faults>>

UnitGone ==
    /\ unit = "stopping" /\ ~MainAlive /\ ~DogAlive /\ kids = 0
    /\ unit' = "gone"
    /\ UNCHANGED <<caller, client, scope, doomed, early, faults>>

\* Mistake: without --wait the client leaves when the main process has ended.
ClientLeaves ==
    /\ client = "alive" /\ main \in Ended /\ client' = "gone"
    /\ UNCHANGED <<caller, unit, scope, doomed, early, faults>>

ClientEnds ==
    /\ client = "alive" /\ unit = "gone" /\ client' = "gone"
    /\ UNCHANGED <<caller, unit, scope, doomed, early, faults>>

(***************************************************************************)
(* The bootstrap.                                                          *)
(***************************************************************************)
MainGoes(from, to) == main = from /\ Runs("main") /\ main' = to

\* It is in the unit's cgroup, is its MainPID, and the unit has the properties.
CheckScope ==
    /\ \/ MainGoes("checks", "connects") /\ UNCHANGED faults
       \/ MainGoes("checks", "failed") /\ Fault
    /\ UNCHANGED <<caller, client, unit, dog, ready, ack, kids, began, doomed, early>>

Connect ==
    /\ MainGoes("connects", IF listener THEN "receives" ELSE "failed")
    /\ UNCHANGED <<caller, client, unit, dog, ready, ack, kids, began, doomed, early, faults>>

ReceiveFails ==
    /\ MainGoes("receives", "failed") /\ ~listener
    /\ UNCHANGED <<caller, client, unit, dog, ready, ack, kids, began, doomed, early, faults>>

\* Mistake: the watchdog is started before the descriptors have come.
StartWatchdogEarly ==
    /\ MainGoes("receives", "waits") /\ dog' = "front"
    /\ UNCHANGED <<caller, client, unit, ready, ack, kids, began, doomed, early, faults>>

StartWatchdog ==
    /\ \/ MainGoes("granted", "waits") /\ dog' = "front" /\ UNCHANGED faults
       \/ MainGoes("granted", "failed") /\ Fault /\ UNCHANGED dog
    /\ UNCHANGED <<caller, client, unit, ready, ack, kids, began, doomed, early>>

\* Mistake: the operation does not wait for the ready byte.
WaitNoReady ==
    /\ MainGoes("waits", "reads")
    /\ UNCHANGED <<caller, client, unit, dog, ready, ack, kids, began, doomed, early, faults>>

WaitReady ==
    /\ \/ ready /\ MainGoes("waits", "reads")
       \/ ~ready /\ MainGoes("waits", "failed")
    /\ UNCHANGED <<caller, client, unit, dog, ready, ack, kids, began, doomed, early, faults>>

\* _scope_child_main: the request on stdin, then the registered operation.
Begin ==
    /\ payload # "none"
    /\ MainGoes("reads", IF payload = "sent" THEN "runs" ELSE "failed")
    /\ began' = (began \/ payload = "sent")
    /\ UNCHANGED <<caller, client, unit, dog, ready, ack, kids, doomed, early, faults>>

Spawn ==
    /\ main = "runs" /\ Runs("main") /\ kids < MaxKids
    /\ kids' = kids + 1
    /\ UNCHANGED <<caller, client, unit, main, dog, ready, ack, began, doomed, early, faults>>

KidEnds ==
    /\ kids > 0 /\ kids' = kids - 1
    /\ UNCHANGED <<caller, client, unit, main, dog, ready, ack, began, doomed, early, faults>>

Respond ==
    /\ MainGoes("runs", "wrote") \/ MainGoes("runs", "failed")
    /\ UNCHANGED <<caller, client, unit, dog, ready, ack, kids, began, doomed, early, faults>>

SendAck ==
    /\ MainGoes("wrote", IF DogAlive THEN "acked" ELSE "failed")
    /\ ack' = DogAlive
    /\ UNCHANGED <<caller, client, unit, dog, ready, kids, began, doomed, early, faults>>

Exit ==
    /\ MainGoes("acked", "ok")
    /\ UNCHANGED <<caller, client, unit, dog, ready, ack, kids, began, doomed, early, faults>>

(***************************************************************************)
(* The watchdog.                                                           *)
(***************************************************************************)
\* _terminate_scope: the bootstrap by its pidfd, then a request to the manager.
TerminateScope ==
    \/ doomed' = doomed \cup Everything /\ UNCHANGED faults
    \/ doomed' = doomed \cup {"main"} /\ Fault

\* fork and setsid, signals unblocked, SIGTERM and SIGHUP handled.
Detach ==
    /\ dog = "front" /\ Runs("dog")
    /\ \/ dog' = "armed" /\ UNCHANGED <<doomed, faults>>
       \/ dog' = "gone" /\ doomed' = doomed \cup {"main"} /\ Fault
    /\ UNCHANGED <<caller, client, unit, main, ready, ack, kids, began, early>>

\* Mistake: the caller's death is only noticed in the wait that follows.
ConfirmReadyUnchecked ==
    /\ dog = "armed" /\ Runs("dog")
    /\ dog' = IF MainAlive THEN "watching" ELSE "gone"
    /\ ready' = MainAlive
    /\ UNCHANGED <<caller, client, unit, main, ack, kids, began, doomed, early, faults>>

ConfirmReady ==
    /\ dog = "armed" /\ Runs("dog")
    /\ \/ ParentDead /\ dog' = "gone" /\ TerminateScope /\ UNCHANGED ready
       \/ /\ ~ParentDead
          /\ dog' = IF MainAlive THEN "watching" ELSE "gone"
          /\ ready' = MainAlive /\ UNCHANGED <<doomed, faults>>
    /\ UNCHANGED <<caller, client, unit, main, ack, kids, began, early>>

\* The completion byte comes first: the watchdog retires.
Retire ==
    /\ dog = "watching" /\ Runs("dog") /\ ack
    /\ dog' = "gone"
    /\ UNCHANGED <<caller, client, unit, main, ready, ack, kids, began, doomed, early, faults>>

\* Mistake: it waits for the pipe alone, and the caller's death is not seen.
FireOnEnd ==
    /\ dog = "watching" /\ Runs("dog") /\ ~ack /\ ~MainAlive
    /\ dog' = "gone" /\ TerminateScope
    /\ UNCHANGED <<caller, client, unit, main, ready, ack, kids, began, early>>

Fire ==
    /\ dog = "watching" /\ Runs("dog") /\ ~ack /\ (ParentDead \/ ~MainAlive)
    /\ dog' = "gone" /\ TerminateScope
    /\ UNCHANGED <<caller, client, unit, main, ready, ack, kids, began, early>>

(***************************************************************************)
(* What SIGKILL has reached ends.                                          *)
(***************************************************************************)
Reap ==
    /\ \/ "main" \in doomed /\ MainAlive /\ main' = "killed" /\ UNCHANGED <<dog, kids>>
       \/ "dog" \in doomed /\ DogAlive /\ dog' = "gone" /\ UNCHANGED <<main, kids>>
       \/ "kids" \in doomed /\ kids > 0 /\ kids' = 0 /\ UNCHANGED <<main, dog>>
    /\ UNCHANGED <<caller, client, unit, ready, ack, began, doomed, early, faults>>

Manager == RequestUnit \/ Activate \/ MainEnded \/ UnitGone \/ ClientEnds
Bootstrap == CheckScope \/ Connect \/ ReceiveFails \/ StartWatchdog \/ WaitReady \/ Begin \/ SendAck \/ Exit
Watchdog == Detach \/ ConfirmReady \/ Retire \/ Fire
Abort == AbortMain \/ AbortUnit \/ AbortClient

Next ==
    \/ OpenHandoff \/ StartClient \/ Accept \/ Grant \/ KeepPidfd \/ SendPayload \/ Completed
    \/ Fails \/ Abort \/ ParentDies
    \/ Manager \/ RuntimeMax \/ Bootstrap \/ Spawn \/ KidEnds \/ Respond \/ Watchdog \/ Reap

Spec == Init /\ [][Next]_vars

\* The manager, the bootstrap outside the operation, the watchdog and the
\* kernel go on.  Nothing is asked of the operation or of RuntimeMaxSec.
FairSpec == Spec /\ WF_vars(Manager) /\ WF_vars(Bootstrap) /\ WF_vars(Watchdog) /\ WF_vars(Reap) /\ WF_vars(Abort)

-----------------------------------------------------------------------------
(***************************************************************************)
(* Properties                                                              *)
(***************************************************************************)
\* Types; and a watchdog exists only after the descriptors were handed over.
TypeOK ==
    /\ pc \in {"idle", "bound", "await", "grant", "granted", "talk", "abort_main",
               "abort_unit", "abort_client", "returned", "dead"}
    /\ told \in {"none", "ok", "error"} /\ payload \in {"none", "sent", "eof"}
    /\ client \in {"none", "alive", "gone"}
    /\ unit \in {"none", "starting", "active", "stopping", "gone"}
    /\ main \in {"none", "checks", "connects", "receives", "granted", "waits",
                 "reads", "runs", "wrote", "acked"} \cup Ended
    /\ dog \in {"none", "front", "armed", "watching", "gone"}
    /\ kids \in 0..MaxKids /\ doomed \subseteq Everything /\ faults \in 0..MaxFaults
    /\ listener \in BOOLEAN /\ held \in BOOLEAN /\ ready \in BOOLEAN
    /\ ack \in BOOLEAN /\ began \in BOOLEAN /\ early \in BOOLEAN
    /\ dog # "none" => pc \notin {"idle", "bound", "await", "grant"}

\* The operation is never without a guard: a watchdog that has looked at the
\* caller watches, or SIGKILL has reached the bootstrap already.
OperationGuarded ==
    main \in {"runs", "wrote"} /\ Runs("main") => dog = "watching" /\ Runs("dog")

\* A caller that died before the ready byte never had its operation called.
EarlyDeathNeverStarts == early => ~began

\* A result is the result of a finished operation that acknowledged it, and
\* nothing of its service is left, whatever its descendants did.
ResultIsWhole ==
    told = "ok" => began /\ ack /\ main = "ok" /\ ~DogAlive /\ kids = 0

\* When the call has returned, the operation does not run and will not begin:
\* the caller may release the object lock.
ReturnEndsOperation ==
    told # "none" => ~(main \in {"runs", "wrote", "acked"} /\ Runs("main"))

\* All of this: an operation is guarded, is called for a caller that lives,
\* and is over when its result or its error is there.
ScopeSound ==
    /\ OperationGuarded /\ EarlyDeathNeverStarts
    /\ ResultIsWhole /\ ReturnEndsOperation

\* What the proofs add.  How far the bootstrap is tells how far the unit, the
\* watchdog and the caller are.
Handed == {"granted", "waits", "reads", "runs", "wrote", "acked", "ok"}

UnitFits ==
    /\ main = "none" <=> unit \in {"none", "starting"}
    /\ main = "none" => kids = 0
    /\ main \in {"none", "checks", "connects", "receives", "granted"} => dog = "none"
    /\ unit = "gone" => ~MainAlive /\ ~DogAlive /\ kids = 0
    /\ client = "gone" => unit = "gone" \/ told = "error"

\* The ready byte is of a watchdog that looked at a caller that lived; it
\* leaves only when the operation is over or doomed.
ReadyFits ==
    /\ main \in Handed => pc \notin {"idle", "bound", "await", "grant"}
    /\ ready => dog \in {"watching", "gone"}
    /\ began \/ main \in {"reads", "runs", "wrote", "acked", "ok"} => ready
    /\ ready /\ main \in {"waits", "reads", "runs", "wrote"} /\ Runs("main") =>
           dog = "watching"
    /\ "dog" \in doomed => "main" \in doomed
    /\ early => pc = "dead" /\ ~ready

\* The payload is sent by a caller that has the pidfd, and who has it kills
\* the bootstrap before the call returns with an error.
CallFits ==
    /\ ack => main \in {"acked", "ok", "killed"}
    /\ main \in {"acked", "ok"} => ack
    /\ main \in {"runs", "wrote", "acked", "ok"} => began
    /\ began => payload = "sent"
    /\ payload = "sent" \/ pc = "talk" => held
    /\ held => main # "none"
    /\ told # "none" => pc = "returned"
    /\ told = "ok" => main = "ok" /\ unit = "gone"
    /\ held /\ (pc \in {"abort_unit", "abort_client"} \/ told = "error") =>
           "main" \in doomed \/ ~MainAlive

\* The inductive invariant.
IInv == TypeOK /\ UnitFits /\ ReadyFits /\ CallFits

\* The same of the descendants of the operation (pip, venv).
ReturnEndsDescendants == told # "none" => ~(kids > 0 /\ Runs("kids"))

\* When the caller is gone nothing of the service stays, even if the operation
\* hangs, its descendants keep a pipe open, and requests to the manager fail.
NothingStays == pc \in {"dead", "returned"} => ~MainAlive /\ ~DogAlive /\ kids = 0
ScopeEnds == <>[]NothingStays
=============================================================================

----------------------------- MODULE DocsDaemon -----------------------------
(***************************************************************************)
(* The shared documents daemon: sessions start launchers                   *)
(* (chroma/launcher.py), which start one daemon between them               *)
(* (chroma/daemon_entry.py) under two advisory locks (chroma/              *)
(* spawn_lock.py), and wait until it has loaded its model and the default  *)
(* project (chroma/server.py).  A daemon is named for its launcher.        *)
(***************************************************************************)
EXTENDS Naturals

CONSTANTS Launchers,
          MaxFaults,  \* bound: deaths, failed calls, waits that are too long
          None

DaemonAssumption == MaxFaults \in Nat

VARIABLES gate,    \* the launcher that holds the spawn lock, or None
          life,    \* the lifecycle lock: a probe, a daemon, or None
          at,      \* [Launchers -> where it is]
          daemon,  \* [Launchers -> where the daemon that it started is]
          ready,   \* the daemon that serves answers 200 to /healthz
          built,   \* the default project has an index
          early,   \* history: a daemon has looked for it before it had one
          faults

vars == <<gate, life, at, daemon, ready, built, early, faults>>

Probe(l) == <<"probe", l>>
Daemon(l) == <<"daemon", l>>

Init ==
    /\ gate = None /\ life = None /\ ready = FALSE /\ faults = 0
    /\ at = [l \in Launchers |-> "idle"] /\ daemon = [l \in Launchers |-> "off"]
    /\ built \in BOOLEAN /\ early = FALSE

Fault == faults < MaxFaults /\ faults' = faults + 1
Goto(l, label) == at' = [at EXCEPT ![l] = label]
LeaveGate(l) == gate' = IF gate = l THEN None ELSE gate

-----------------------------------------------------------------------------
(* A launcher.                                                             *)

\* Nobody is ready: the gate is tried.  Waiting for it ends after two minutes.
Check(l) ==
    /\ at[l] \in {"idle", "check"}
    /\ IF ready THEN Goto(l, "done") /\ UNCHANGED gate
       ELSE IF gate = None THEN Goto(l, "locked") /\ gate' = l
       ELSE Goto(l, "check") /\ UNCHANGED gate
    /\ UNCHANGED <<life, daemon, ready, built, early, faults>>

GateTimeout(l) ==
    /\ at[l] = "check" /\ gate # None /\ ~ready /\ Fault
    /\ Goto(l, "failed")
    /\ UNCHANGED <<gate, life, daemon, ready, built, early>>

\* Once more under the gate.
Recheck(l) ==
    /\ at[l] = "locked"
    /\ IF ready THEN Goto(l, "done") /\ LeaveGate(l)
       ELSE Goto(l, "look") /\ UNCHANGED gate
    /\ UNCHANGED <<life, daemon, ready, built, early, faults>>

\* Is the lifecycle lock held?  The probe takes it if it is free.  When it is
\* held a daemon is on its way: the gate is left, its readiness is awaited.
TakeProbe(l) ==
    /\ at[l] \in {"look", "handoff"}
    /\ IF life = None
       THEN /\ life' = Probe(l) /\ UNCHANGED gate
            /\ Goto(l, IF at[l] = "look" THEN "probe" ELSE "probe again")
       ELSE Goto(l, "await") /\ LeaveGate(l) /\ UNCHANGED life
    /\ UNCHANGED <<daemon, ready, built, early, faults>>

EndProbe(l) ==
    /\ at[l] \in {"probe", "probe again"}
    /\ life' = None
    /\ Goto(l, IF at[l] = "probe" THEN "spawn" ELSE "poll")
    /\ UNCHANGED <<gate, daemon, ready, built, early, faults>>

\* Mistake: the gate is left as soon as the daemon is started.
SpawnAndLeave(l) ==
    /\ at[l] = "spawn"
    /\ daemon' = [daemon EXCEPT ![l] = "wait"] /\ Goto(l, "handoff") /\ LeaveGate(l)
    /\ UNCHANGED <<life, ready, built, early, faults>>

Spawn(l) ==
    /\ at[l] = "spawn"
    /\ \/ /\ daemon' = [daemon EXCEPT ![l] = "wait"] /\ Goto(l, "handoff")
          /\ UNCHANGED <<gate, faults>>
       \/ Fault /\ Goto(l, "failed") /\ LeaveGate(l) /\ UNCHANGED daemon
    /\ UNCHANGED <<life, ready, built, early>>

\* The process is alive: another probe; it has ended, or ten seconds are over:
\* the launcher fails, its daemon may go on.
Poll(l) ==
    /\ at[l] = "poll"
    /\ \/ /\ daemon[l] # "gone" /\ Goto(l, "handoff") /\ UNCHANGED <<gate, faults>>
       \/ /\ IF daemon[l] = "gone" THEN UNCHANGED faults ELSE Fault
          /\ Goto(l, "failed") /\ LeaveGate(l)
    /\ UNCHANGED <<life, daemon, ready, built, early>>

Starting == \E l \in Launchers : daemon[l] \in {"wait", "load"}

\* Ninety seconds are over when no daemon will answer, or one is slow.
Await(l) ==
    /\ at[l] = "await"
    /\ \/ ready /\ Goto(l, "done") /\ UNCHANGED faults
       \/ /\ ~ready /\ Goto(l, "failed")
          /\ IF Starting THEN Fault ELSE UNCHANGED faults
    /\ UNCHANGED <<gate, life, daemon, ready, built, early>>

\* The kernel frees what a process held.
LauncherDies(l) ==
    /\ at[l] \notin {"idle", "done", "failed"} /\ Fault
    /\ Goto(l, "failed") /\ LeaveGate(l)
    /\ life' = IF life = Probe(l) THEN None ELSE life
    /\ UNCHANGED <<daemon, ready, built, early>>

-----------------------------------------------------------------------------
(* A daemon.                                                               *)

Acquire(l) ==
    /\ daemon[l] = "wait" /\ life = None
    /\ life' = Daemon(l) /\ daemon' = [daemon EXCEPT ![l] = "load"]
    /\ UNCHANGED <<gate, at, ready, built, early, faults>>

\* Five seconds, behind another daemon or a launcher stopped in its probe.
Yields(l) ==
    /\ daemon[l] = "wait" /\ life # None
    /\ daemon' = [daemon EXCEPT ![l] = "gone"]
    /\ IF \E k \in Launchers : life = Daemon(k) THEN UNCHANGED faults ELSE Fault
    /\ UNCHANGED <<gate, life, at, ready, built, early>>

\* The model and the default project are loaded before the port is opened; a
\* failure of either is kept, and the daemon serves without being ready.
Prewarm(l) ==
    /\ daemon[l] = "load" /\ daemon' = [daemon EXCEPT ![l] = "serve"]
    /\ \/ ready' = built /\ UNCHANGED faults
       \/ Fault /\ ready' = FALSE
    /\ early' = (early \/ ~built)
    /\ UNCHANGED <<gate, life, at, built>>

DaemonDies(l) ==
    /\ daemon[l] \in {"wait", "load", "serve"} /\ Fault
    /\ daemon' = [daemon EXCEPT ![l] = "gone"]
    /\ life' = IF life = Daemon(l) THEN None ELSE life
    /\ ready' = (ready /\ daemon[l] # "serve")
    /\ UNCHANGED <<gate, at, built, early>>

\* The indexer publishes the first build; no request reaches the daemon that
\* would load it.
Build ==
    /\ ~built /\ built' = TRUE
    /\ UNCHANGED <<gate, life, at, daemon, ready, early, faults>>

Step(l) ==
    \/ Check(l) \/ Recheck(l) \/ TakeProbe(l) \/ EndProbe(l) \/ Spawn(l)
    \/ Poll(l) \/ Await(l)
Work(l) == Acquire(l) \/ Yields(l) \/ Prewarm(l)

Next ==
    \/ \E l \in Launchers :
        \/ Step(l) \/ GateTimeout(l) \/ LauncherDies(l)
        \/ Work(l) \/ DaemonDies(l)
    \/ Build

Spec == Init /\ [][Next]_vars

\* Launchers go on; a daemon that polls for a lock that is free again and again
\* gets it.
FairSpec ==
    /\ Spec
    /\ WF_vars(\E l \in Launchers : Step(l))
    /\ SF_vars(\E l \in Launchers : Work(l))

-----------------------------------------------------------------------------
(* Properties.                                                             *)

Labels == {"idle", "check", "locked", "look", "probe", "spawn", "handoff", "poll",
           "probe again", "await", "done", "failed"}

\* Every variable keeps its type (launcher.py, daemon_entry.py).
TypeOK ==
    /\ gate \in Launchers \cup {None}
    /\ life \in {None} \cup {Probe(l) : l \in Launchers} \cup {Daemon(l) : l \in Launchers}
    /\ at \in [Launchers -> Labels]
    /\ daemon \in [Launchers -> {"off", "wait", "load", "serve", "gone"}]
    /\ {ready, built, early} \subseteq BOOLEAN /\ faults \in 0..MaxFaults

\* At most one process loads the model or serves it (run of daemon_entry.py).
OneModel ==
    \A k, l \in Launchers :
        daemon[k] \in {"load", "serve"} /\ daemon[l] \in {"load", "serve"} => k = l

\* A launcher that leaves the gate to wait has seen the lock of a daemon, never
\* the probe of another launcher (_daemon_lifecycle_lock_is_held).
WaitsForDaemon ==
    [][\A l \in Launchers :
          at[l] # "await" /\ at'[l] = "await" => \E k \in Launchers : life = Daemon(k)]_vars

\* Sessions that start together do not make each other fail: without a fault a
\* launcher fails only if a daemon looked for the index before there was one and
\* serves without being ready, for as long as it lives (_ensure_daemon_ready).
TogetherIsSafe ==
    (faults = 0 /\ ~early) => \A l \in Launchers : at[l] # "failed"

\* The state of a start at every step.
StartSound == TypeOK /\ OneModel /\ TogetherIsSafe

\* Every launcher that was started comes to the end of its start-up.
LaunchersRest == \A l \in Launchers : at[l] \in {"idle", "done", "failed"}

\* Once the project has an index, a start that begins then and meets no fault
\* ends with a daemon that is ready.
ReadyOnceBuilt ==
    [][\A l \in Launchers :
          built /\ faults = 0 /\ at[l] = "await" => at'[l] # "failed"]_vars
=============================================================================

------------------------------- MODULE KeyLock -------------------------------
(***************************************************************************)
(* The lock of one queue key (reindex/file_queue_store.py), at the grain of *)
(* its file operations: a lock directory with the owner's payload           *)
(* owner.json inside, created, judged and removed only under an advisory    *)
(* gate that the operating system frees when its holder dies.               *)
(*                                                                          *)
(* Threads of one process share its process id and die together.  A lock_id *)
(* is drawn per acquisition and only compared by the thread that drew it, so *)
(* the payload is the acquiring thread.                                     *)
(***************************************************************************)
EXTENDS Naturals

CONSTANTS Threads,
          Pids,
          PidOf,      \* [Threads -> Pids]
          PidReuse,   \* a dead process id may be given to a new process
          ReadsFail,  \* reading owner.json may fail with an OSError
          MaxFaults,  \* bound: crashes and failing file operations
          None

NoneAssumption == None \notin Threads

PidAssumption == PidOf \in [Threads -> Pids]

SwitchAssumption ==
    PidReuse \in BOOLEAN /\ ReadsFail \in BOOLEAN /\ MaxFaults \in Nat

VARIABLES gate,     \* holder of the advisory gate, or None
          dir,      \* the lock directory exists
          info,     \* the thread named in owner.json, or None
          aged,     \* the directory was last changed over a second ago
          alive,    \* process ids that run
          pc,       \* per thread, its place in key_lock
          faults

vars == <<gate, dir, info, aged, alive, pc, faults>>

Labels == {"idle", "want", "mkdir", "write", "inspect", "held", "release",
           "check", "undo_info", "undo_dir", "break_info", "break_dir",
           "free_info", "free_dir", "dead"}

UnderGate == {"mkdir", "write", "inspect", "check", "undo_info", "undo_dir",
              "break_info", "break_dir", "free_info", "free_dir"}

Init ==
    /\ gate = None /\ dir = FALSE /\ info = None /\ aged = FALSE
    /\ alive = Pids
    /\ pc = [t \in Threads |-> "idle"]
    /\ faults = 0

At(t, label) == pc[t] = label

Goto(t, label) == pc' = [pc EXCEPT ![t] = label]

Fault ==
    /\ faults < MaxFaults
    /\ faults' = faults + 1

-----------------------------------------------------------------------------
(* The gate.                                                               *)

Ask(t) ==
    /\ At(t, "idle") /\ Goto(t, "want")
    /\ UNCHANGED <<gate, dir, info, aged, alive, faults>>

\* Mistake: the directory is handled without the advisory lock.
NoGate(t) == UNCHANGED gate

TakeGate(t) == gate = None /\ gate' = t

LeaveGate(t, label) == gate' = None /\ Goto(t, label)

Enter(t) ==
    /\ \/ At(t, "want") /\ Goto(t, "mkdir")
       \/ At(t, "release") /\ Goto(t, "check")
    /\ TakeGate(t)
    /\ UNCHANGED <<dir, info, aged, alive, faults>>

\* The deadline passed, or the call does not block.
GiveUp(t) ==
    /\ At(t, "want") /\ Goto(t, "idle")
    /\ UNCHANGED <<gate, dir, info, aged, alive, faults>>

-----------------------------------------------------------------------------
(* Acquisition: mkdir is the test-and-set, the payload follows.            *)

Mkdir(t) ==
    /\ At(t, "mkdir")
    /\ IF dir THEN Goto(t, "inspect") /\ UNCHANGED <<dir, info, aged>>
       ELSE /\ Goto(t, "write")
            /\ dir' = TRUE /\ info' = None /\ aged' = FALSE
    /\ UNCHANGED <<gate, alive, faults>>

\* Mistake: owner.json names only the process, which its threads share.
PayloadOfProcess(t) == PidOf[t]

Payload(t) == t

\* The deadline is checked once more after the payload was replaced.
Write(t) ==
    /\ At(t, "write")
    /\ info' = Payload(t) /\ aged' = FALSE
    /\ \/ LeaveGate(t, "held")
       \/ Goto(t, "undo_info") /\ UNCHANGED gate
    /\ UNCHANGED <<dir, alive, faults>>

WriteFails(t) ==
    /\ At(t, "write") /\ Fault
    /\ Goto(t, "undo_dir")
    /\ UNCHANGED <<gate, dir, info, aged, alive>>

\* Mistake: an old lock is stale whoever owns it.
StaleByAge(read) == aged

\* Mistake: a directory without a readable payload is left alone for ever.
StaleByPid(read) == read # None /\ PidOf[read] \notin alive

\* _lock_is_stale: an unreadable payload is judged by the directory's age, a
\* readable one by its process id alone.
Stale(read) == IF read = None THEN aged ELSE PidOf[read] \notin alive

\* What _read_lock_payload returns: its OSError reads as no payload.
Reads == {info} \cup (IF ReadsFail THEN {None} ELSE {})

Inspect(t) ==
    /\ At(t, "inspect")
    /\ \E read \in Reads :
          IF Stale(read)
          THEN /\ Goto(t, IF info = None THEN "break_dir" ELSE "break_info")
               /\ UNCHANGED gate
          ELSE LeaveGate(t, "want")
    /\ UNCHANGED <<dir, info, aged, alive, faults>>

-----------------------------------------------------------------------------
(* Release, and the clearing of the directory that release, undo and        *)
(* takeover share: owner.json first, the directory last.                    *)

Leave(t) ==
    /\ At(t, "held") /\ Goto(t, "release")
    /\ UNCHANGED <<gate, dir, info, aged, alive, faults>>

\* The gate was not free within the release timeout: the call raises and the
\* directory stays.
ReleaseTimesOut(t) ==
    /\ At(t, "release") /\ Fault
    /\ Goto(t, "idle")
    /\ UNCHANGED <<gate, dir, info, aged, alive>>

CheckRelease(t) ==
    /\ At(t, "check")
    /\ \E read \in Reads :
          IF dir /\ read = t
          THEN Goto(t, "free_info") /\ UNCHANGED gate
          ELSE LeaveGate(t, "idle")
    /\ UNCHANGED <<dir, info, aged, alive, faults>>

NextOf(label) ==
    CASE label = "undo_info"  -> "undo_dir"
      [] label = "break_info" -> "break_dir"
      [] label = "free_info"  -> "free_dir"

ClearInfo(t) ==
    /\ pc[t] \in {"undo_info", "break_info", "free_info"}
    /\ info' = None /\ aged' = FALSE
    /\ Goto(t, NextOf(pc[t]))
    /\ UNCHANGED <<gate, dir, alive, faults>>

\* A broken lock is asked for again; an undone or released one is done with.
AfterClear(t) == IF pc[t] \in {"break_info", "break_dir"} THEN "want" ELSE "idle"

ClearDir(t) ==
    /\ pc[t] \in {"undo_dir", "break_dir", "free_dir"}
    /\ dir' = FALSE /\ info' = None
    /\ LeaveGate(t, AfterClear(t))
    /\ UNCHANGED <<aged, alive, faults>>

\* An OSError stops the clearing.  (Release tries again until its timeout.)
ClearFails(t) ==
    /\ pc[t] \in {"undo_info", "undo_dir", "break_info", "break_dir",
                  "free_info", "free_dir"}
    /\ Fault
    /\ LeaveGate(t, AfterClear(t))
    /\ UNCHANGED <<dir, info, aged, alive>>

-----------------------------------------------------------------------------
(* The world.                                                              *)

Age ==
    /\ dir /\ ~aged
    /\ aged' = TRUE
    /\ UNCHANGED <<gate, dir, info, alive, pc, faults>>

\* A process dies: its threads stop and the system frees its gate.
Crash(p) ==
    /\ p \in alive /\ Fault
    /\ alive' = alive \ {p}
    /\ pc' = [t \in Threads |-> IF PidOf[t] = p THEN "dead" ELSE pc[t]]
    /\ gate' = IF gate # None /\ PidOf[gate] = p THEN None ELSE gate
    /\ UNCHANGED <<dir, info, aged>>

\* A new process with the process id of a dead one.
Reborn(p) ==
    /\ PidReuse /\ p \notin alive
    /\ alive' = alive \cup {p}
    /\ pc' = [t \in Threads |-> IF PidOf[t] = p THEN "idle" ELSE pc[t]]
    /\ UNCHANGED <<gate, dir, info, aged, faults>>

Step(t) ==
    \/ Ask(t) \/ Mkdir(t) \/ Write(t) \/ Inspect(t) \/ Leave(t)
    \/ CheckRelease(t) \/ ClearInfo(t) \/ ClearDir(t)

Fails(t) == GiveUp(t) \/ WriteFails(t) \/ ReleaseTimesOut(t) \/ ClearFails(t)

Next ==
    \/ \E t \in Threads : Step(t) \/ Enter(t) \/ Fails(t)
    \/ \E p \in Pids : Crash(p) \/ Reborn(p)
    \/ Age

Spec == Init /\ [][Next]_vars

\* Callers keep asking (the worker polls the queue), hold the lock for a
\* bounded time, and poll the gate while they wait for it.
Fairness ==
    /\ \A t \in Threads : WF_vars(Step(t)) /\ SF_vars(Enter(t))
    /\ WF_vars(Age)

FairSpec == Spec /\ Fairness

-----------------------------------------------------------------------------
(* Correctness.                                                            *)

\* Gate, directory, payload and program counters hold values of the code.
TypeOK ==
    /\ gate \in Threads \cup {None}
    /\ dir \in BOOLEAN /\ aged \in BOOLEAN
    /\ info \in Threads \cup {None}
    /\ alive \in SUBSET Pids
    /\ pc \in [Threads -> Labels]
    /\ faults \in 0 .. MaxFaults

\* No two callers of key_lock are inside its body for one key, whatever the
\* takeover of dead owners' locks, failing releases and crashes do.
MutualExclusion ==
    \A t, u \in Threads : At(t, "held") /\ At(u, "held") => t = u

\* The lock of a caller that is still inside is only ever removed by that
\* caller's own release: takeover never breaks a live lock.
LiveLockKept ==
    [][\A t \in Threads :
         pc[t] \in {"held", "release", "check"} /\ info = t => info' = t]_vars

\* A lock directory left by a dead process, or by a clearing that stopped
\* half-way, is broken by the callers that come after it.
DeadLockBroken ==
    (dir /\ (info = None \/ PidOf[info] \notin alive))
        ~> (alive = {} \/ ~dir \/ (info # None /\ PidOf[info] \in alive))

\* What makes MutualExclusion inductive: only the holder of the gate is at a
\* label under it, and the directory names whoever is inside.
GateInv ==
    \A t \in Threads :
        /\ gate = t <=> pc[t] \in UnderGate
        /\ PidOf[t] \notin alive => pc[t] = "dead"

InsideInv ==
    /\ info # None => dir
    /\ \A t \in Threads :
        /\ pc[t] \in {"held", "release", "check", "free_info", "undo_info"}
              => info = t
        /\ pc[t] \in {"write", "undo_dir", "break_dir", "free_dir"}
              => dir /\ info = None
        /\ pc[t] = "inspect" => dir
        /\ pc[t] = "break_info" =>
              info # None /\ pc[info] \notin {"held", "release"}

IInv == TypeOK /\ GateInv /\ InsideInv
=============================================================================

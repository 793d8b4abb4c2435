--------------------------- MODULE ReleaseIsolation ---------------------------
(***************************************************************************)
(* Bases and releases of the runtime, built in their final directories     *)
(* (runtime_build.py, runtime_base.py).  A directory whose build did not   *)
(* end, or that no longer verifies, is moved to the quarantine and built   *)
(* anew; an intent and an audit journal carry the move over a death        *)
(* (runtime_isolation.py).  One command at a time works on an object, under *)
(* its lock; commands on different objects share the journal.              *)
(***************************************************************************)
EXTENDS Naturals, Sequences, FiniteSets

CONSTANTS Objects,  \* ids of bases and releases
          None,
          MaxFaults \* bound: commands that fail or are killed, power losses, decays

IsolationAssumption == MaxFaults \in Nat /\ \A o \in Objects : o # None

VARIABLES dir,    \* the object's directory
          pc,     \* what the command that holds the object's lock does
          intent, \* the pending move of an object, or None
          moved,  \* what lies in the quarantine
          log,    \* the records of the journal
          synced, \* how many of them a power loss spares
          torn,   \* the journal ends in half a record
          faults

vars == <<dir, pc, intent, moved, log, synced, torn, faults>>

\* none; no marker; an empty or half-written marker; a marker that names its
\* stage; that and the metadata; complete; complete but damaged.
Dirs == {"none", "bare", "garbled", "staged", "described", "done", "corrupt"}

Stages == {"known", "unknown"}

Records == [obj : Objects, n : 1 .. MaxFaults, stage : Stages]

Init ==
    /\ dir = [o \in Objects |-> "none"] /\ pc = [o \in Objects |-> "idle"]
    /\ intent = [o \in Objects |-> None] /\ moved = {}
    /\ log = <<>> /\ synced = 0 /\ torn = FALSE /\ faults = 0

Goto(o, l) == pc' = [pc EXCEPT ![o] = l]
Kept == UNCHANGED <<intent, moved, log, synced, torn, faults>>

-----------------------------------------------------------------------------
(***************************************************************************)
(* A command on one object.                                                *)
(***************************************************************************)
\* What is there decides; a complete object that verifies is returned.
Begin(o) ==
    /\ pc[o] = "idle" /\ dir[o] # "done"
    /\ Goto(o, IF dir[o] = "none" THEN "build" ELSE "isolate")
    /\ UNCHANGED dir /\ Kept

\* mkdir, the marker's creation, its first stage, the metadata; at last, after
\* the tree is durable, the marker goes.
After == [none |-> "bare", bare |-> "garbled", garbled |-> "staged",
          staged |-> "described", described |-> "done"]

Build(o) ==
    /\ pc[o] = "build"
    /\ dir' = [dir EXCEPT ![o] = After[dir[o]]]
    /\ Goto(o, IF dir'[o] = "done" THEN "idle" ELSE "build")
    /\ Kept

\* The journal's lock is held from the reading of the journal on.
InJournal(o) == pc[o] \in {"intent", "move", "append", "sync", "forget"}

\* A stage that the marker does not name is recorded as "unknown", which no
\* reader of a record accepts.
FailureStage(o) == IF dir[o] = "garbled" THEN "unknown" ELSE "known"

Unreadable == \E i \in DOMAIN log : log[i].stage = "unknown"

\* The directory is there, for else nobody isolates it: an intent whose move
\* was made as well cannot be explained, one whose move was not is taken back,
\* and the command ends in both cases.
Recovered(o) ==
    IF intent[o].stage = "known" /\ intent[o] \notin moved THEN None ELSE intent[o]

\* Mistake: half a record at the end of the journal is left there.
KeepTorn == FALSE

Repairs == torn

ReadJournal(o) ==
    /\ pc[o] = "isolate" /\ \A q \in Objects : ~InJournal(q)
    /\ torn' = (torn /\ ~Repairs)
    /\ synced' = IF Repairs THEN Len(log) ELSE synced
    /\ IF Unreadable \/ torn'
       THEN Goto(o, "idle") /\ UNCHANGED intent
       ELSE IF intent[o] # None
       THEN Goto(o, "idle") /\ intent' = [intent EXCEPT ![o] = Recovered(o)]
       ELSE Goto(o, "intent") /\ UNCHANGED intent
    /\ UNCHANGED <<dir, moved, log, faults>>

WriteIntent(o) ==
    /\ pc[o] = "intent"
    /\ intent' = [intent EXCEPT ![o] =
           [obj |-> o, n |-> 1 + Cardinality({r \in moved : r.obj = o}), stage |-> FailureStage(o)]]
    /\ Goto(o, "move")
    /\ UNCHANGED <<dir, moved, log, synced, torn, faults>>

Move(o) ==
    /\ pc[o] = "move"
    /\ dir' = [dir EXCEPT ![o] = "none"] /\ moved' = moved \cup {intent[o]}
    /\ Goto(o, "append")
    /\ UNCHANGED <<intent, log, synced, torn, faults>>

AppendRecord(o) ==
    /\ pc[o] = "append"
    /\ log' = Append(log, intent[o]) /\ Goto(o, "sync")
    /\ UNCHANGED <<dir, intent, moved, synced, torn, faults>>

\* Mistake: the intent goes before the record is on the disk.
Unsynced == synced

Sync == Len(log)

SyncRecord(o) ==
    /\ pc[o] = "sync" /\ synced' = Sync /\ Goto(o, "forget")
    /\ UNCHANGED <<dir, intent, moved, log, torn, faults>>

RemoveIntent(o) ==
    /\ pc[o] = "forget"
    /\ intent' = [intent EXCEPT ![o] = None] /\ Goto(o, "build")
    /\ UNCHANGED <<dir, moved, log, synced, torn, faults>>

Command(o) ==
    \/ Begin(o) \/ Build(o) \/ ReadJournal(o) \/ WriteIntent(o) \/ Move(o)
    \/ AppendRecord(o) \/ SyncRecord(o) \/ RemoveIntent(o)

-----------------------------------------------------------------------------
(***************************************************************************)
(* Faults.                                                                 *)
(***************************************************************************)
Fault == faults < MaxFaults /\ faults' = faults + 1

\* A command fails or is killed, between two writes or within one: a record is
\* half appended, a stage is half written over the one before it.
Stops(o) ==
    /\ Fault /\ pc[o] # "idle" /\ Goto(o, "idle")
    /\ \/ UNCHANGED <<dir, torn>>
       \/ pc[o] = "append" /\ torn' = TRUE /\ UNCHANGED dir
       \/ pc[o] = "build" /\ dir[o] = "staged" /\ dir' = [dir EXCEPT ![o] = "garbled"] /\ UNCHANGED torn
    /\ UNCHANGED <<intent, moved, log, synced>>

PowerLoss ==
    /\ Fault /\ pc' = [o \in Objects |-> "idle"]
    /\ \E k \in synced .. Len(log) :
           /\ log' = SubSeq(log, 1, k) /\ synced' = k
           /\ \/ torn' = torn
              \/ k < Len(log) /\ torn' = TRUE
    /\ UNCHANGED <<dir, intent, moved>>

Decays(o) ==
    /\ Fault /\ pc[o] = "idle" /\ dir[o] = "done" /\ dir' = [dir EXCEPT ![o] = "corrupt"]
    /\ UNCHANGED <<pc, intent, moved, log, synced, torn>>

Next ==
    \/ \E o \in Objects : Command(o) \/ Stops(o) \/ Decays(o)
    \/ PowerLoss

\* Somebody runs the build again, and a command goes on until it ends.
Spec == Init /\ [][Next]_vars /\ \A o \in Objects : WF_vars(Command(o))

-----------------------------------------------------------------------------
(***************************************************************************)
(* Properties                                                              *)
(***************************************************************************)
TypeOK ==
    /\ dir \in [Objects -> Dirs]
    /\ pc \in [Objects -> {"idle", "build", "isolate", "intent", "move", "append", "sync", "forget"}]
    /\ intent \in [Objects -> Records \cup {None}] /\ moved \subseteq Records
    /\ log \in Seq(Records) /\ synced \in 0 .. Len(log) /\ torn \in BOOLEAN
    /\ faults \in 0 .. MaxFaults

Logged(r) == \E i \in DOMAIN log : log[i] = r

\* The audit accounts for the quarantine: what lies there is in the journal or
\* named by a pending intent, over deaths and power losses; the journal names
\* nothing that was not moved, and nothing twice.
AuditAccounts ==
    /\ \A r \in moved : Logged(r) \/ intent[r.obj] = r
    /\ \A i, j \in DOMAIN log : log[i] \in moved /\ (log[i] = log[j] => i = j)

\* An intent that nobody can finish: its move was made and the object is built
\* again, or its stage is unknown.
Stuck(o) ==
    /\ intent[o] # None /\ ~InJournal(o)
    /\ intent[o].stage = "unknown" \/ intent[o] \in moved

\* An object is built in the end, whatever was left of it; only a record of
\* unknown stage, for all objects, or a stuck intent, for its own, prevents it.
Rebuilt ==
    \A o \in Objects : <>[](Unreadable \/ Stuck(o)) \/ <>[](dir[o] = "done")

\* Not so (see the limits in the README): each object is built in the end ...
AlwaysRebuilt == \A o \in Objects : <>[](dir[o] = "done")

\* ... and what is moved is in the journal in the end.
AuditLands == <>[](\A r \in moved : Logged(r))

=============================================================================

-------------------------- MODULE MaintenanceWindow --------------------------
(***************************************************************************)
(* The maintenance window of reindex (reindex/maintenance_gate*.py and     *)
(* ops/reindex_maintenance*.py): operators publish a marker file and stop   *)
(* the worker's systemd unit, change what only they may change, and hand    *)
(* the right to write back to one standby instance.  Three flocks order     *)
(* them: session -> intent -> gate; readers share intent and then gate.     *)
(***************************************************************************)
EXTENDS Naturals, Sequences

CONSTANTS Admins,
          MaxRuns,    \* bound: commands that operators start
          MaxInv,     \* bound: invocations of the unit
          MaxFaults,  \* bound: steps that raise and deaths
          None

BoundAssumption ==
    MaxRuns \in Nat /\ MaxInv \in Nat \ {0} /\ MaxFaults \in Nat

\* What a marker file says: which part of a restore it is for, by whom, for
\* which invocation of the unit, and that its 120 seconds have not run out.
Marks == [phase : {"maintenance", "armed", "claimed"},
          gen : 0 .. MaxRuns, inv : 0 .. MaxInv, live : BOOLEAN]

NoneAssumption == None \notin Marks

VARIABLES marker,     \* [phase, gen, inv, live], or None
          dropin,     \* Restart=no is installed
          at,         \* ["svc", "ext" -> where the writer is]
          inv,        \* the unit's current invocation
          mode, todo, \* [Admins -> its command, the steps it has left]
          held,       \* [Admins -> "none", "intent" or "gate"]
          token,      \* [Admins -> generation and invocation it read]
          sound,      \* [Admins -> every step of the compensation succeeded]
          drained,    \* history: gate was taken exclusively under this marker
          confirmed,  \* history: the window was reported as safely prepared
          runs, faults

admin == <<mode, todo, held, token, sound>>
counts == <<runs, faults>>
vars == <<marker, dropin, at, inv, admin, drained, confirmed, counts>>

Writers == {"svc", "ext"}

\* Mistake: the compensation takes the marker for published.
PlanUnmarked ==
  [prepare |-> <<"intent", "marker", "gate", "leave">>,
   preempt |-> <<"dropin", "stop", "prove", "gate", "leave">>,
   settle  |-> <<"dropin", "stop", "prove">>,
   undo    |-> <<"intent", "dropin", "stop", "gate", "leave", "prove">>,
   restore |-> <<"check", "prove", "arm", "start", "read", "claim", "renew",
                 "undrop", "renew", "same", "complete">>,
   back    |-> <<"reset", "dropin", "stop", "prove">>,
   window  |-> <<"enter", "leave">>,
   idle    |-> <<>>]

\* The steps of each command, in the order of the code.
Plan ==
  [prepare |-> <<"intent", "marker", "gate", "leave">>,
   preempt |-> <<"dropin", "stop", "prove", "gate", "leave">>,
   settle  |-> <<"dropin", "stop", "prove">>,
   undo    |-> <<"intent", "marker", "dropin", "stop", "gate", "leave", "prove">>,
   restore |-> <<"check", "prove", "arm", "start", "read", "claim", "renew",
                 "undrop", "renew", "same", "complete">>,
   back    |-> <<"reset", "dropin", "stop", "prove">>,
   window  |-> <<"enter", "leave">>,
   idle    |-> <<>>]

Init ==
    /\ marker = None /\ dropin = FALSE /\ inv = 1
    /\ at = [w \in Writers |-> IF w = "svc" THEN "ready" ELSE "off"]
    /\ mode = [a \in Admins |-> "idle"] /\ todo = [a \in Admins |-> <<>>]
    /\ held = [a \in Admins |-> "none"] /\ sound = [a \in Admins |-> TRUE]
    /\ token = [a \in Admins |-> [gen |-> 0, inv |-> 0]]
    /\ drained = FALSE /\ confirmed = FALSE /\ runs = 0 /\ faults = 0

Fault == faults < MaxFaults /\ faults' = faults + 1

\* Mistake: the record names no known phase.
MaintenanceUnnamed == [phase |-> "none", gen |-> 0, inv |-> 0, live |-> FALSE]

Maintenance == [phase |-> "maintenance", gen |-> 0, inv |-> 0, live |-> FALSE]

\* Shared and exclusive holders of the two flocks.
IntentFree == \A a \in Admins : held[a] = "none"
GateFree == \A a \in Admins : held[a] # "gate"
NoIntentReader == \A w \in Writers : at[w] # "intent"

\* Mistake: the permit is given back once the marker was read.
NoReaderOfMarker == \A w \in Writers : at[w] # "gate"

NoGateReader == \A w \in Writers : at[w] \notin {"gate", "write"}
Exclusive == IntentFree /\ NoIntentReader /\ NoGateReader

-----------------------------------------------------------------------------
(* The writers.  at[w] = "gate": the shared gate is held, the marker unread. *)

Move(w, place) ==
    /\ at' = [at EXCEPT ![w] = place]
    /\ UNCHANGED <<marker, dropin, inv, admin, drained, confirmed, counts>>

Appears == at["ext"] = "off" /\ Move("ext", "ready")

Leaves == at["ext"] = "ready" /\ Move("ext", "off")

ShareIntent(w) == at[w] = "ready" /\ IntentFree /\ Move(w, "intent")

ShareGate(w) == at[w] = "intent" /\ GateFree /\ Move(w, "gate")

Permitted(w) == at[w] = "gate" /\ Move(w, IF marker = None THEN "write" ELSE "ready")

Written(w) == at[w] = "write" /\ Move(w, "ready")

\* A standby instance waits, without writing, until the marker is gone; any
\* marker that is not its own, or has run out, or a lock it cannot get, ends it.
MayWait == \/ marker.phase = "armed" /\ marker.live
           \/ marker.phase = "claimed" /\ marker.live /\ marker.inv = inv

\* Mistake: an armed marker lets its standby wait although it has run out.
PollForgives ==
    /\ at["svc"] = "wait"
    /\ \/ marker = None /\ Move("svc", "ready")
       \/ /\ marker # None /\ Move("svc", "failed")
          /\ marker.phase = "maintenance" \/ (marker.phase = "claimed" /\ ~MayWait)

Poll ==
    /\ at["svc"] = "wait"
    /\ \/ marker = None /\ Move("svc", "ready")
       \/ marker # None /\ ~(MayWait /\ GateFree /\ IntentFree) /\ Move("svc", "failed")

\* systemd starts a failed unit again, unless the drop-in forbids it.
UnitRestarts ==
    /\ at["svc"] = "failed" /\ ~dropin /\ inv < MaxInv
    /\ inv' = inv + 1 /\ at' = [at EXCEPT !["svc"] = "wait"]
    /\ UNCHANGED <<marker, dropin, admin, drained, confirmed, counts>>

UnitDies ==
    /\ at["svc"] \notin {"off", "failed"} /\ Fault
    /\ at' = [at EXCEPT !["svc"] = "failed"]
    /\ UNCHANGED <<marker, dropin, inv, admin, drained, confirmed, runs>>

\* The 120 seconds of a standby run out.
Expire ==
    /\ marker # None /\ marker.live
    /\ marker' = [marker EXCEPT !.live = FALSE]
    /\ UNCHANGED <<dropin, at, inv, admin, drained, confirmed, counts>>

-----------------------------------------------------------------------------
(* The operators.  Each step is the head of todo[a].                       *)

Doing(a, step) == todo[a] # <<>> /\ Head(todo[a]) = step

Enters(a, m) == mode' = [mode EXCEPT ![a] = m] /\ todo' = [todo EXCEPT ![a] = Plan[m]]

Advance(a) == todo' = [todo EXCEPT ![a] = Tail(@)] /\ UNCHANGED mode

Release(a) == held' = [held EXCEPT ![a] = "none"]

Command(a) ==
    /\ mode[a] = "idle" /\ runs < MaxRuns /\ runs' = runs + 1
    /\ \E m \in {"prepare", "restore", "window"} : Enters(a, m)
    /\ sound' = [sound EXCEPT ![a] = TRUE]
    /\ UNCHANGED <<marker, dropin, at, inv, held, token, drained, confirmed, faults>>

TakeIntent(a) ==
    /\ Doing(a, "intent") /\ IntentFree /\ NoIntentReader
    /\ held' = [held EXCEPT ![a] = "intent"] /\ Advance(a)
    /\ UNCHANGED <<marker, dropin, at, inv, token, sound, drained, confirmed, counts>>

\* The marker comes before the gate: who reads it later is denied.
Publish(a) ==
    /\ Doing(a, "marker") /\ marker' = Maintenance /\ Advance(a)
    /\ UNCHANGED <<dropin, at, inv, held, token, sound, drained, confirmed, counts>>

TakeGate(a) ==
    /\ Doing(a, "gate") /\ NoGateReader /\ Advance(a)
    /\ held' = [held EXCEPT ![a] = "gate"] /\ drained' = (marker # None)
    /\ UNCHANGED <<marker, dropin, at, inv, token, sound, confirmed, counts>>

\* A failed step starts the compensation of its command; a failed step of a
\* compensation is noted and the next one tried.
Fails(a) ==
    CASE mode[a] = "restore" -> /\ Enters(a, IF Head(todo[a]) = "check" THEN "idle" ELSE "back")
                                /\ UNCHANGED <<held, sound>>
      [] mode[a] \in {"prepare", "preempt", "settle"} ->
            /\ Enters(a, IF Doing(a, "intent") THEN "idle" ELSE "undo")
            /\ Release(a) /\ UNCHANGED sound
      [] mode[a] \in {"undo", "back"} ->
            /\ IF Doing(a, "intent") THEN todo' = [todo EXCEPT ![a] = <<"prove">>]
               ELSE todo' = [todo EXCEPT ![a] = Tail(@)]
            /\ sound' = [sound EXCEPT ![a] = FALSE] /\ UNCHANGED <<mode, held>>
      [] OTHER -> Enters(a, "idle") /\ Release(a) /\ UNCHANGED sound

\* The gate stays shared for the five seconds of the wait.
GateBusy(a) ==
    /\ Doing(a, "gate") /\ ~NoGateReader
    /\ IF mode[a] = "prepare" THEN Enters(a, "preempt") /\ UNCHANGED <<held, sound>>
       ELSE Fails(a)
    /\ UNCHANGED <<marker, dropin, at, inv, token, drained, confirmed, counts>>

Leave(a) ==
    /\ Doing(a, "leave") /\ Release(a)
    /\ IF mode[a] \in {"prepare", "preempt"} THEN Enters(a, "settle") ELSE Advance(a)
    /\ UNCHANGED <<marker, dropin, at, inv, token, sound, drained, confirmed, counts>>

Systemd(a) ==
    /\ \/ Doing(a, "dropin") /\ dropin' = TRUE /\ UNCHANGED <<at, inv>>
       \/ Doing(a, "undrop") /\ dropin' = FALSE /\ UNCHANGED <<at, inv>>
       \/ Doing(a, "stop") /\ at' = [at EXCEPT !["svc"] = "off"] /\ UNCHANGED <<dropin, inv>>
       \/ /\ Doing(a, "start") /\ UNCHANGED dropin
          /\ IF at["svc"] \in {"off", "failed"}
             THEN inv < MaxInv /\ inv' = inv + 1 /\ at' = [at EXCEPT !["svc"] = "wait"]
             ELSE UNCHANGED <<at, inv>>
    /\ Advance(a)
    /\ UNCHANGED <<marker, held, token, sound, drained, confirmed, counts>>

Stopped == \A w \in Writers : at[w] = "off"
Running == at["svc"] \notin {"off", "failed"}

\* Steps that only look: what they ask for, or the step fails.
Holds(a, step) ==
    CASE step = "prove" -> Stopped
      [] step = "check" -> dropin /\ marker # None
      [] step = "same" -> Running /\ inv = token[a].inv
      [] OTHER -> Running

\* The last proof of a preparation or of a compensation without a flaw.
Proved(a, step) == step = "prove" /\ Stopped /\ Tail(todo[a]) = <<>> /\ sound[a]

Look(a) ==
    \E step \in {"prove", "check", "same", "read"} :
        /\ Doing(a, step)
        /\ IF Holds(a, step) THEN Advance(a) /\ UNCHANGED <<held, sound>> ELSE Fails(a)
        /\ token' = IF step = "read" /\ Running THEN [token EXCEPT ![a].inv = inv] ELSE token
        /\ confirmed' = (confirmed \/ Proved(a, step))
        /\ UNCHANGED <<marker, dropin, at, inv, drained, counts>>

Mine(a) == /\ marker # None /\ marker.phase = "claimed" /\ marker.live
           /\ marker.gen = token[a].gen /\ marker.inv = token[a].inv

\* What each change of the marker, made under the exclusive gate, asks of it
\* and leaves; runs is a generation that no earlier command has used.
Fits(a, step) ==
    CASE step = "reset" -> TRUE
      [] step = "arm" -> marker # None /\ marker.phase = "maintenance"
      [] step = "claim" -> /\ marker # None /\ marker.phase = "armed" /\ marker.live
                           /\ marker.gen = token[a].gen
      [] OTHER -> Mine(a)

Changed(a, step) ==
    CASE step = "reset" -> Maintenance
      [] step = "arm" -> [phase |-> "armed", gen |-> runs, inv |-> 0, live |-> TRUE]
      [] step = "claim" -> [marker EXCEPT !.phase = "claimed", !.inv = token[a].inv]
      [] step = "renew" -> marker
      [] OTHER -> None

\* A change may be in place although its step raises.
Change(a) ==
    \E step \in {"reset", "arm", "claim", "renew", "complete"} :
        /\ Doing(a, step) /\ Exclusive
        /\ IF ~Fits(a, step) THEN Fails(a) /\ UNCHANGED <<marker, token, drained, confirmed, faults>>
           ELSE /\ marker' = Changed(a, step)
                /\ token' = IF step = "arm" THEN [token EXCEPT ![a].gen = runs] ELSE token
                /\ drained' = (marker' # None)
                /\ confirmed' = (confirmed /\ step \in {"reset", "renew"})
                /\ \/ Advance(a) /\ UNCHANGED <<held, sound, faults>>
                   \/ Fault /\ Fails(a)
        /\ UNCHANGED <<dropin, at, inv, runs>>

\* Mistake: a change of what only operators may change asks for the intent
\* lock but not for the gate.
EnterShared(a) ==
    /\ Doing(a, "enter") /\ IntentFree /\ NoIntentReader
    /\ IF marker # None /\ marker.phase = "maintenance"
       THEN Advance(a) /\ held' = [held EXCEPT ![a] = "gate"] /\ UNCHANGED sound
       ELSE Fails(a)
    /\ UNCHANGED <<marker, dropin, at, inv, token, drained, confirmed, counts>>

\* The confirmed change of an operator: under both locks, in a window that the
\* marker, the drop-in and the stopped writers prove.
Enter(a) ==
    /\ Doing(a, "enter") /\ Exclusive /\ drained' = (marker # None)
    /\ IF marker # None /\ marker.phase = "maintenance" /\ dropin /\ Stopped
       THEN Advance(a) /\ held' = [held EXCEPT ![a] = "gate"] /\ UNCHANGED sound
       ELSE Fails(a)
    /\ UNCHANGED <<marker, dropin, at, inv, token, confirmed, counts>>

\* A step raises and has changed nothing.
Raises(a) ==
    /\ todo[a] # <<>> /\ Head(todo[a]) # "leave" /\ Fault /\ Fails(a)
    /\ UNCHANGED <<marker, dropin, at, inv, token, drained, confirmed, runs>>

Finish(a) ==
    /\ mode[a] # "idle" /\ todo[a] = <<>> /\ mode' = [mode EXCEPT ![a] = "idle"]
    /\ UNCHANGED <<marker, dropin, at, inv, todo, held, token, sound, drained, confirmed, counts>>

\* The operator's process dies; its flocks go with it.
Dies(a) ==
    /\ mode[a] # "idle" /\ Fault /\ Release(a)
    /\ mode' = [mode EXCEPT ![a] = "idle"] /\ todo' = [todo EXCEPT ![a] = <<>>]
    /\ UNCHANGED <<marker, dropin, at, inv, token, sound, drained, confirmed, runs>>

-----------------------------------------------------------------------------
Writer(w) == ShareIntent(w) \/ ShareGate(w) \/ Permitted(w) \/ Written(w)

Admin(a) ==
    \/ Command(a) \/ TakeIntent(a) \/ Publish(a) \/ TakeGate(a) \/ GateBusy(a)
    \/ Leave(a) \/ Systemd(a) \/ Look(a) \/ Change(a) \/ Enter(a) \/ Raises(a)
    \/ Finish(a) \/ Dies(a)

Next ==
    \/ Appears \/ Leaves \/ Poll \/ UnitRestarts \/ UnitDies \/ Expire
    \/ \E w \in Writers : Writer(w)
    \/ \E a \in Admins : Admin(a)

Spec == Init /\ [][Next]_vars

\* Time passes, and the standby polls while it does.
FairSpec == Spec /\ WF_vars(Poll) /\ WF_vars(Expire)

-----------------------------------------------------------------------------
(* Correctness.                                                            *)

Marked == marker # None

Steps ==
    {"intent", "marker", "gate", "leave", "dropin", "stop", "prove", "check",
     "arm", "start", "read", "claim", "renew", "undrop", "same", "complete",
     "reset", "enter"}

Places == {"off", "failed", "wait", "ready", "intent", "gate", "write"}
Locks == {"none", "intent", "gate"}
Tokens == [gen : 0 .. MaxRuns, inv : 0 .. MaxInv]

\* Values of the right kind.
TypeOK ==
    /\ marker \in {None} \cup Marks /\ dropin \in BOOLEAN /\ inv \in 1 .. MaxInv
    /\ at \in [Writers -> Places] /\ mode \in [Admins -> DOMAIN Plan]
    /\ todo \in [Admins -> Seq(Steps)] /\ held \in [Admins -> Locks]
    /\ token \in [Admins -> Tokens] /\ sound \in [Admins -> BOOLEAN]
    /\ drained \in BOOLEAN /\ confirmed \in BOOLEAN
    /\ runs \in 0 .. MaxRuns /\ faults \in 0 .. MaxFaults

\* Once the gate was taken under the marker, nobody writes until the marker is
\* gone: not who passed the gate before it, nor an instance started meanwhile.
DrainedIsQuiet ==
    Marked /\ drained => \A w \in Writers : at[w] # "write"

\* While an operator changes what only operators may, nobody writes and no
\* other operator moves the window on.
WindowExclusive ==
    \A a \in Admins : mode[a] = "window" /\ held[a] = "gate" =>
        /\ Marked /\ marker.phase = "maintenance"
        /\ \A w \in Writers : at[w] # "write"
        /\ \A b \in Admins \ {a} : held[b] = "none"

\* A window that was reported as prepared, or as safely closed again, stays
\* marked and without a writer until a restore is begun.
PreparedIsQuiet ==
    confirmed => Marked /\ \A w \in Writers : at[w] # "write"

-----------------------------------------------------------------------------
(* What makes them inductive.                                              *)

Left(a) == Len(todo[a])

\* The step that a command comes to with so many left of its plan.
Coming(m, left) == Plan[m][Len(Plan[m]) - left + 1]

\* What a command has left is the end of its plan.
TodoFits ==
    \A a \in Admins :
        /\ Left(a) \in 0 .. Len(Plan[mode[a]])
        /\ \A i \in 1 .. Left(a) : todo[a][i] = Coming(mode[a], Left(a) - i + 1)

\* The locks that a command holds, by the steps that it has left, and that no
\* two operators hold one.
LocksFit ==
    /\ \A a, b \in Admins : held[a] # "none" /\ held[b] # "none" => a = b
    /\ \A a \in Admins :
          /\ mode[a] \in {"idle", "restore", "back", "settle"} => held[a] = "none"
          /\ mode[a] = "prepare" =>
                /\ Left(a) # 0
                /\ held[a] = CASE Left(a) = 4 -> "none" [] Left(a) = 1 -> "gate"
                               [] OTHER -> "intent"
          /\ mode[a] = "preempt" =>
                /\ Left(a) # 0
                /\ held[a] = IF Left(a) = 1 THEN "gate" ELSE "intent"
          /\ mode[a] = "undo" =>
                /\ Left(a) \in {0, 1, 7} => held[a] = "none"
                /\ Left(a) \in 3 .. 6 => held[a] = "intent"
                /\ Left(a) = 2 => held[a] # "none"
          /\ mode[a] = "window" =>
                held[a] = IF Left(a) = 1 THEN "gate" ELSE "none"

\* The gate that was taken without a marker was not taken under one.
DrainedFits == drained => Marked

\* All of it together is kept by every step.
IInv ==
    /\ TypeOK /\ TodoFits /\ LocksFit /\ DrainedFits
    /\ DrainedIsQuiet /\ WindowExclusive

\* What a lone operator knows of its marker: there is one from its publication
\* to the end of the preparation, and when a compensation without a flaw has
\* written it.
MarkedFor(a) ==
    /\ mode[a] = "prepare" /\ Left(a) < 3 => Marked
    /\ mode[a] \in {"preempt", "settle"} => Marked
    /\ mode[a] = "undo" /\ sound[a] /\ Left(a) < 6 => Marked
    /\ mode[a] = "back" /\ sound[a] /\ Left(a) < 4 => Marked

MarkerKept == PreparedIsQuiet /\ \A a \in Admins : MarkedFor(a)

\* No standby waits for ever: it is given the right to write or ends, also
\* when the operator that started it has died.
StandbyEnds == at["svc"] = "wait" ~> at["svc"] # "wait"
=============================================================================

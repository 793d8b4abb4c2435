-------------------------- MODULE DeploymentGates --------------------------
(***************************************************************************)
(* The two gates of a deployment: a marker file that every managed unit    *)
(* asks for before it starts, and one that the web hook asks for besides   *)
(* (runtime_deployment_guard, _quiesce, _recovery, runtime_ingress_gate,   *)
(* runtime_systemd_handoff, ops/systemd_condition_guard).  systemd asks    *)
(* the conditions that it has loaded, which are not always those on the    *)
(* disk.  One controller calls at a time; each call is a list of steps,    *)
(* and dies between any two of them.                                       *)
(***************************************************************************)
EXTENDS Naturals, Sequences, SequencesExt

CONSTANTS Units,     \* the guarded units, a sequence
          Writers,   \* those that quiesce stops one by one, in its order
          Hook,      \* the web hook
          Plans,
          Foreign,   \* units with a drop-in of others that resets conditions
          Calm,      \* drop-ins of others change only between calls
          MaxFaults, \* bound: deaths, reboots, failing steps, stuck processes
          None

GatesAssumption ==
    /\ ToSet(Writers) \subseteq ToSet(Units) /\ Hook \in ToSet(Writers)
    /\ Foreign \subseteq ToSet(Units) /\ Calm \in BOOLEAN /\ MaxFaults \in Nat
    /\ Units \in Seq(ToSet(Units)) /\ Writers \in Seq(ToSet(Writers))
    /\ None \notin Plans

VARIABLES
    conf,    \* [unit -> its drop-ins on the disk]
    loaded,  \* [unit -> its drop-ins as systemd knows them]
    guard,   \* the plan in the marker of the deployment guard, or None
    ingress, \* the plan in the marker of the ingress gate, or None
    run,     \* [unit -> "on", "off", or "left": stopped, with a process left]
    plan,    \* of the call under way, or None
    todo,    \* what is left of it
    quiet,   \* history: maintenance was closed and the guard not taken away
    shut,    \* history: it was, and the ingress not opened
    faults

files == <<conf, guard, ingress>>
history == <<quiet, shut>>
vars == <<conf, loaded, guard, ingress, run, plan, todo, quiet, shut, faults>>

All == ToSet(Units)

\* conf starts without our drop-ins, as before the first deployment.
Init ==
    /\ conf = [u \in All |-> [ours |-> {}, other |-> IF u \in Foreign THEN "resets" ELSE "none"]]
    /\ loaded = conf /\ guard = None /\ ingress = None
    /\ run \in [All -> {"on", "off"}]
    /\ plan = None /\ todo = <<>> /\ quiet = FALSE /\ shut = FALSE /\ faults = 0

Fault == faults < MaxFaults /\ faults' = faults + 1

-----------------------------------------------------------------------------
(* systemd.                                                                *)

\* A condition holds unless a drop-in that comes later takes it back.
Effective(u, c) == c \in loaded[u].ours /\ loaded[u].other # "resets"

MayStart(u) ==
    /\ ~(guard # None /\ Effective(u, "guard"))
    /\ ~(u = Hook /\ ingress # None /\ Effective(u, "ingress"))

\* A user, a timer, a restart or the boot starts a unit.
Start(u) ==
    /\ run[u] = "off" /\ MayStart(u) /\ run' = [run EXCEPT ![u] = "on"]
    /\ UNCHANGED <<files, loaded, plan, todo, history, faults>>

\* What outlived its unit ends after all.
Ends(u) ==
    /\ run[u] = "left" /\ run' = [run EXCEPT ![u] = "off"]
    /\ UNCHANGED <<files, loaded, plan, todo, history, faults>>

\* A unit that nobody needs is forgotten and read anew.
LoadUnit(u) ==
    /\ run[u] = "off" /\ loaded[u] # conf[u]
    /\ loaded' = [loaded EXCEPT ![u] = conf[u]]
    /\ UNCHANGED <<files, run, plan, todo, history, faults>>

Reboot ==
    /\ Fault /\ run' = [u \in All |-> "off"] /\ loaded' = conf
    /\ plan' = None /\ todo' = <<>>
    /\ UNCHANGED <<files, history>>

\* An administrator mends a drop-in that reset the conditions, without a reload.
Mend(u) ==
    /\ conf[u].other = "resets" /\ (Calm => plan = None)
    /\ conf' = [conf EXCEPT ![u].other = "harmless"]
    /\ UNCHANGED <<loaded, guard, ingress, run, plan, todo, history, faults>>

-----------------------------------------------------------------------------
(* The calls, as lists of steps.                                           *)

Each(what, us) == [i \in 1 .. Len(us) |-> <<what, us[i]>>]
Do(what) == <<<<what, None>>>>

Activate == Each("install", Units) \o Do("reload") \o Do("conditions") \o Do("mark")

Quiesce == Each("stop", Writers) \o Do("prove") \o Do("prepare") \o Do("prove")

\* restore_maintenance_closed: the guard, the writers, the ingress, all again.
Restore == Activate \o Quiesce \o Do("noIngress") \o Do("closed")

ActivateIngress ==
    <<<<"installGate", Hook>>>> \o Do("reload") \o Do("condition") \o Do("close")

\* Mistake: the guard goes without a look at the gate that takes over.
HandoffBlind == Do("guarded") \o Do("staged") \o Do("unmark")

\* deactivate_systemd_handoff_guard: both gates, the payload, the guard goes,
\* the ingress gate again.
Handoff ==
    Do("guarded") \o Do("gated") \o Do("staged") \o Do("unmark") \o Do("gated")

DeactivateIngress == Do("gated") \o Do("open")

Call(p) ==
    /\ plan = None /\ plan' = p
    /\ todo' \in {Restore, ActivateIngress, Handoff, DeactivateIngress}
    /\ UNCHANGED <<files, loaded, run, history, faults>>

-----------------------------------------------------------------------------
(* Their steps.                                                            *)

At(what) == plan # None /\ todo # <<>> /\ Head(todo)[1] = what
Arg == Head(todo)[2]

\* The step is done; the call returns after its last one.
Done ==
    /\ todo' = Tail(todo)
    /\ plan' = IF Len(todo) = 1 THEN None ELSE plan

\* Mistake: a file on the disk is taken for a condition.
VerifiedOnDisk(u, c) == c \in conf[u].ours

\* verify_systemd_condition_guard: the drop-in is among those that systemd has
\* loaded, and no other one of them says a condition, as read from the disk.
Verified(u, c) ==
    /\ c \in loaded[u].ours
    /\ loaded[u].other = "none" \/ conf[u].other = "harmless"

GuardActive == guard = plan /\ \A u \in All : Verified(u, "guard")
GateActive == ingress = plan /\ Verified(Hook, "ingress")

\* Every writer inactive, no process in its cgroup; the units of the index too.
Stopped(us) == \A u \in us : run[u] = "off"

Install ==
    /\ \/ At("install") /\ conf' = [conf EXCEPT ![Arg].ours = @ \cup {"guard"}]
       \/ At("installGate") /\ conf' = [conf EXCEPT ![Arg].ours = @ \cup {"ingress"}]
    /\ Done /\ UNCHANGED <<loaded, guard, ingress, run, history, faults>>

Reload ==
    /\ At("reload") /\ loaded' = conf /\ Done
    /\ UNCHANGED <<files, run, history, faults>>

\* What a step only looks at.
Holds ==
    \/ At("conditions") /\ \A u \in All : Verified(u, "guard")
    \/ At("condition") /\ Verified(Hook, "ingress")
    \/ At("prove") /\ Stopped(ToSet(Writers))
    \/ At("guarded") /\ GuardActive
    \/ At("gated") /\ GateActive
    \/ At("staged")

Look ==
    /\ Holds /\ Done
    /\ UNCHANGED <<files, loaded, run, history, faults>>

Mark ==
    /\ At("mark") /\ guard' = plan /\ Done
    /\ UNCHANGED <<conf, loaded, ingress, run, history, faults>>

\* systemctl stop: the unit is inactive after it, its processes mostly too.
Stop ==
    /\ At("stop") /\ Done
    /\ \/ run' = [run EXCEPT ![Arg] = IF @ = "on" THEN "off" ELSE @] /\ UNCHANGED faults
       \/ run[Arg] = "on" /\ run' = [run EXCEPT ![Arg] = "left"] /\ Fault
    /\ UNCHANGED <<files, loaded, history>>

\* The maintenance of the index: its units stop, and are proved to have.
Prepare ==
    /\ At("prepare") /\ Done
    /\ run' = [u \in All |-> IF u \in ToSet(Writers) THEN run[u] ELSE "off"]
    /\ UNCHANGED <<files, loaded, history, faults>>

\* A marker of this plan is taken away, one of another plan is not.
NoIngress ==
    /\ At("noIngress") /\ (ingress = None \/ GateActive) /\ ingress' = None /\ Done
    /\ UNCHANGED <<conf, loaded, guard, run, history, faults>>

\* The guard, the writers and the index, and the ingress once more; returned.
Closed ==
    /\ At("closed") /\ GuardActive /\ Stopped(All) /\ ingress = None
    /\ quiet' = TRUE /\ shut' = TRUE /\ Done
    /\ UNCHANGED <<files, loaded, run, faults>>

Close ==
    /\ At("close") /\ ingress' = plan /\ Done
    /\ UNCHANGED <<conf, loaded, guard, run, history, faults>>

\* deactivate_deployment_guard verifies before it removes, then reads again.
Unmark ==
    /\ At("unmark") /\ GuardActive /\ guard' = None /\ quiet' = FALSE /\ Done
    /\ UNCHANGED <<conf, loaded, ingress, run, shut, faults>>

Open ==
    /\ At("open") /\ ingress' = None /\ shut' = FALSE /\ Done
    /\ UNCHANGED <<conf, loaded, guard, run, quiet, faults>>

Step ==
    \/ Install \/ Reload \/ Look \/ Mark \/ Stop \/ Prepare \/ NoIngress
    \/ Closed \/ Close \/ Unmark \/ Open

\* A step finds what it must not, fails, or the controller dies.
Raises ==
    /\ plan # None /\ plan' = None /\ todo' = <<>>
    /\ UNCHANGED <<files, loaded, run, history>>
    /\ \/ Fault
       \/ /\ \/ \E s \in {"conditions", "condition", "prove", "guarded", "gated"} : At(s) /\ ~Holds
             \/ At("noIngress") /\ ~(ingress = None \/ GateActive)
             \/ At("closed") /\ ~(GuardActive /\ Stopped(All) /\ ingress = None)
             \/ At("unmark") /\ ~GuardActive
          /\ UNCHANGED faults

Next ==
    \/ \E u \in All : Start(u) \/ Ends(u) \/ LoadUnit(u) \/ Mend(u)
    \/ Reboot \/ (\E p \in Plans : Call(p)) \/ Step \/ Raises

Spec == Init /\ [][Next]_vars

(***************************************************************************)
(* Properties                                                              *)
(***************************************************************************)
TypeOK ==
    /\ \A c \in {conf, loaded} : c \in [All ->
         [ours : SUBSET {"guard", "ingress"}, other : {"none", "resets", "harmless"}]]
    /\ guard \in Plans \cup {None} /\ ingress \in Plans \cup {None}
    /\ run \in [All -> {"on", "off", "left"}] /\ plan \in Plans \cup {None}
    /\ (plan = None) = (todo = <<>>) /\ quiet \in BOOLEAN /\ shut \in BOOLEAN

\* After restore_maintenance_closed has returned nothing writes and nothing can
\* be started, over deaths and reboots and calls of other plans, until a
\* hand-over takes the guard away.
MaintenanceStaysClosed ==
    quiet => Stopped(All) /\ \A u \in All : ~MayStart(u)

\* And the web hook stays shut beyond the hand-over, until its gate is opened.
IngressStaysShut == shut => run[Hook] = "off" /\ ~MayStart(Hook)

-----------------------------------------------------------------------------
(* What makes them inductive.                                              *)

Has(steps, what) == \E i \in DOMAIN steps : steps[i][1] = what

\* Before each step of the one kind there is one of the other.
Leads(steps, first, then) ==
    \A i \in DOMAIN steps : steps[i][1] = then =>
        \E j \in DOMAIN steps : j < i /\ steps[j][1] = first

Steps ==
    ({"install"} \X All) \cup ({"stop"} \X ToSet(Writers))
    \cup {<<"installGate", Hook>>}
    \cup ({"reload", "conditions", "mark", "prove", "prepare", "noIngress",
           "closed", "condition", "close", "guarded", "gated", "staged",
           "unmark", "open"} \X {None})

\* What a call has seen to, and nobody takes back while it runs.
Synced == \A u \in All : loaded[u].other = conf[u].other
Gated == ingress = plan /\ "ingress" \in loaded[Hook].ours

\* A call comes to a step only after the one that the step relies on.
CallFits ==
    /\ todo \in Seq(Steps)
    /\ Synced \/ Leads(todo, "reload", "closed")
    /\ guard = plan \/ Leads(todo, "mark", "noIngress")
    /\ Gated \/ Leads(todo, "gated", "unmark")
    /\ Has(todo, "unmark") =>
          \A what \in {"mark", "noIngress", "closed", "close", "open"} : ~Has(todo, what)

\* Our drop-ins stay once they are there, and systemd knows no other ones.
FilesFit ==
    \A u \in All :
        /\ loaded[u].ours \subseteq conf[u].ours
        /\ quiet \/ shut => /\ "guard" \in loaded[u].ours
                            /\ loaded[u].other # "resets" /\ conf[u].other # "resets"

MarkersFit ==
    /\ quiet => guard # None /\ Stopped(All)
    /\ shut => /\ run[Hook] = "off"
               /\ \/ guard # None
                  \/ ingress # None /\ "ingress" \in loaded[Hook].ours

\* All of it together is kept by every step.
IInv == TypeOK /\ CallFits /\ FilesFit /\ MarkersFit
=============================================================================

----------------------------- MODULE Generation -----------------------------
(***************************************************************************)
(* The runtime generation store (runtime_generation_store.py and the state *)
(* transitions that it checks): immutable generation, fence, acceptance    *)
(* and permit records, and the one state file, changed by compare-and-swap *)
(* under the proof of the current control lease.  The lease is that of     *)
(* ControlLease with its records and time stamps left out: a controller    *)
(* holds it until another one takes over.  Each mutation holds the         *)
(* deployment lock, so it is one step, but a crash may cut the two writes  *)
(* of a permit.                                                            *)
(***************************************************************************)
EXTENDS Naturals, Sequences, FiniteSets

CONSTANTS Controllers, Attempts,
          Generations,
          First, Before, \* what serves at the start, and its rollback
          Stamps,        \* the times that a public state may carry
          MaxEpoch,      \* bound: leases of one attempt
          MaxFence,      \* bound: epochs of serving fences
          MaxFaults,     \* bound: crashes
          None

GenerationAssumption ==
    /\ {First, Before} \subseteq Generations /\ First # Before
    /\ {MaxEpoch, MaxFence} \subseteq Nat \ {0} /\ MaxFaults \in Nat
    /\ None \notin Attempts \cup Controllers \cup Generations \cup Stamps \cup 1..MaxFence
    /\ 0 \notin Stamps

VARIABLES plan,        \* [Attempts -> the reservation: [base, target]]
          ended,       \* attempts whose lease is retired
          lease,       \* the control lease: [att, epoch, active, by]
          generations, \* generation records
          fences,      \* serving fence records: [att, epoch]
          acceptance,  \* [Attempts -> the fence epoch that it accepts]
          stages,      \* staged permits: [under: the maintenance state, for]
          permits,     \* permits by their content: the state they are for
          state,       \* generation-state.json
          view,        \* [Controllers -> the state it read or wrote last]
          reigns,      \* history variable: what served, with its fence
          said,        \* history variable: the final state of the evidence
          faults

control == <<plan, ended, lease, said>>
evidence == <<generations, fences, acceptance>>
allowed == <<stages, permits>>
vars == <<control, evidence, allowed, state, view, reigns, faults>>

Modes == {"steady", "switching", "validating", "restricted", "safety_unproven"}

\* The fields that the transitions read and write.  acc is the attempt whose
\* acceptance the state names; att and epoch are its control binding.
State == [version : Nat, mode : Modes, maint : BOOLEAN, gen : Generations,
          fence : 1..MaxFence, acc : Attempts \cup {None},
          want : Generations \cup {None}, back : Generations,
          att : Attempts \cup {None}, epoch : 0..MaxEpoch, stamp : Stamps \cup {0}]

Init ==
    /\ plan = [a \in Attempts |-> None] /\ ended = {}
    /\ lease = [att |-> None, epoch |-> 0, active |-> FALSE, by |-> None]
    /\ generations = {First} /\ fences = {}
    /\ acceptance = [a \in Attempts |-> None]
    /\ stages = {} /\ permits = {}
    /\ state = [version |-> 1, mode |-> "steady", maint |-> FALSE, gen |-> First,
                fence |-> 1, acc |-> None, want |-> None, back |-> Before,
                att |-> None, epoch |-> 0, stamp |-> 0]
    /\ view = [c \in Controllers |-> None]
    /\ reigns = <<[gen |-> First, fence |-> 1]>>
    /\ said = [a \in Attempts |-> None]
    /\ faults = 0

Target == plan[lease.att].target

(***************************************************************************)
(* Attempts and their lease.                                               *)
(***************************************************************************)
\* The baseline is the generation that serves when the attempt is reserved.
Reserve(a, target) ==
    /\ plan[a] = None /\ target # state.gen
    /\ plan' = [plan EXCEPT ![a] = [base |-> state.gen, target |-> target]]
    /\ UNCHANGED <<ended, lease, said, evidence, allowed, state, view, reigns, faults>>

AcquireInitial(c, a) ==
    /\ ~lease.active /\ plan[a] # None /\ a \notin ended
    /\ lease' = [att |-> a, epoch |-> 1, active |-> TRUE, by |-> c]
    /\ UNCHANGED <<plan, ended, said, evidence, allowed, state, view, reigns, faults>>

TakeOver(c) ==
    /\ lease.active /\ lease.by # c /\ lease.epoch < MaxEpoch
    /\ lease' = [lease EXCEPT !.epoch = @ + 1, !.by = c]
    /\ UNCHANGED <<plan, ended, said, evidence, allowed, state, view, reigns, faults>>

\* The mutation scope: the proof is that of the current lease.
Mutation(c) == lease.active /\ lease.by = c

Load(c) ==
    /\ view[c] # state
    /\ view' = [view EXCEPT ![c] = state]
    /\ UNCHANGED <<control, evidence, allowed, state, reigns, faults>>

(***************************************************************************)
(* Immutable records.                                                      *)
(***************************************************************************)
WriteGeneration(c) ==
    /\ Mutation(c) /\ Target \notin generations
    /\ generations' = generations \cup {Target}
    /\ UNCHANGED <<control, fences, acceptance, allowed, state, view, reigns, faults>>

\* The epoch is the caller's choice: it is compared at the commit only.
WriteFence(c, e) ==
    /\ Mutation(c) /\ Target \in generations
    /\ [att |-> lease.att, epoch |-> e] \notin fences
    /\ fences' = fences \cup {[att |-> lease.att, epoch |-> e]}
    /\ UNCHANGED <<control, generations, acceptance, allowed, state, view, reigns, faults>>

\* One acceptance for each attempt: it binds one fence for good.
WriteAcceptance(c, e) ==
    /\ Mutation(c) /\ Target \in generations
    /\ [att |-> lease.att, epoch |-> e] \in fences
    /\ acceptance[lease.att] = None
    /\ acceptance' = [acceptance EXCEPT ![lease.att] = e]
    /\ UNCHANGED <<control, generations, fences, allowed, state, view, reigns, faults>>

Accepted(e) ==
    /\ Target \in generations /\ [att |-> lease.att, epoch |-> e] \in fences
    /\ acceptance[lease.att] = e

(***************************************************************************)
(* State transitions.                                                      *)
(***************************************************************************)
Public(s) == s.mode = "steady" /\ ~s.maint
Staged(s) == s.mode = "steady" /\ s.maint

\* The state is bound to the attempt of the lease, by this lease or an earlier one.
Bound(s) == s.att = lease.att /\ s.epoch <= lease.epoch

Succ(s) == [s EXCEPT !.version = @ + 1, !.stamp = 0]
Rebound(s) == [Succ(s) EXCEPT !.att = lease.att, !.epoch = lease.epoch]

\* Mistake: the opened state keeps the binding of the attempt.
PublicationBound(s, t) ==
    [Succ(s) EXCEPT !.want = None, !.maint = FALSE, !.stamp = t]

\* The public state B that follows the maintenance state A, at time t.
Publication(s, t) ==
    [Succ(s) EXCEPT !.want = None, !.att = None, !.epoch = 0, !.maint = FALSE, !.stamp = t]

\* The swap of compare_and_swap_state, for the state that the caller saw.
Swap(c, next) ==
    /\ view[c] = state
    /\ state' = next
    /\ view' = [view EXCEPT ![c] = next]
    /\ UNCHANGED <<control, evidence, allowed, faults>>

\* Mistake: the rollback is taken from the attempt, whatever serves now.
SwitchFromPlan(c) ==
    /\ Mutation(c) /\ Public(state) /\ Target \in generations
    /\ Target # state.gen
    /\ Swap(c, [Rebound(state) EXCEPT !.mode = "switching", !.want = Target,
                    !.back = plan[lease.att].base, !.maint = TRUE])
    /\ UNCHANGED reigns

BeginSwitch(c) ==
    /\ Mutation(c) /\ Public(state) /\ Target \in generations
    /\ plan[lease.att].base = state.gen
    /\ Swap(c, [Rebound(state) EXCEPT !.mode = "switching", !.want = Target,
                    !.back = state.gen, !.maint = TRUE])
    /\ UNCHANGED reigns

BeginValidation(c) ==
    /\ Mutation(c) /\ state.mode = "switching" /\ Bound(state)
    /\ Swap(c, [Rebound(state) EXCEPT !.mode = "validating"])
    /\ UNCHANGED reigns

\* Mistake: the epoch of the new fence is not compared with the old one.
CommitAnyFence(c, e) ==
    /\ Mutation(c) /\ state.mode = "validating" /\ Bound(state)
    /\ Accepted(e)
    /\ Swap(c, [Rebound(state) EXCEPT !.mode = "steady", !.gen = state.want,
                    !.fence = e, !.acc = lease.att])
    /\ reigns' = Append(reigns, [gen |-> state.want, fence |-> e])

\* Mistake: the fence is read back, its acceptance is not.
CommitUnaccepted(c, e) ==
    /\ Mutation(c) /\ state.mode = "validating" /\ Bound(state)
    /\ [att |-> lease.att, epoch |-> e] \in fences /\ e > state.fence
    /\ Swap(c, [Rebound(state) EXCEPT !.mode = "steady", !.gen = state.want,
                    !.fence = e, !.acc = lease.att])
    /\ reigns' = Append(reigns, [gen |-> state.want, fence |-> e])

\* commit_serving: the doors stay closed.
CommitServing(c, e) ==
    /\ Mutation(c) /\ state.mode = "validating" /\ Bound(state)
    /\ Accepted(e) /\ e > state.fence
    /\ Swap(c, [Rebound(state) EXCEPT !.mode = "steady", !.gen = state.want,
                    !.fence = e, !.acc = lease.att])
    /\ reigns' = Append(reigns, [gen |-> state.want, fence |-> e])

PermitFor(s, b) == /\ Accepted(b.fence) /\ b.acc = lease.att
                   /\ \E t \in Stamps : b = Publication(s, t)

\* Mistake: the permit is addressed by its content alone.
StageAny(b) == Staged(state) /\ Bound(state) /\ PermitFor(state, b)

\* One staged permit for each maintenance state A; the same one may come again.
MayStage(b) ==
    /\ Staged(state) /\ Bound(state) /\ PermitFor(state, b)
    /\ \A p \in stages : p.under = state => p.for = b

\* write_serving_permit_once: the stage of A first, then the permit itself.
WritePermit(c, b) ==
    /\ Mutation(c) /\ MayStage(b) /\ b \notin permits
    /\ stages' = stages \cup {[under |-> state, for |-> b]}
    /\ permits' = permits \cup {b}
    /\ UNCHANGED <<control, evidence, state, view, reigns, faults>>

\* Mistake: the anchor is enough, the permit itself is not read back.
PublishOnStage(c, b) ==
    /\ Mutation(c) /\ Staged(state) /\ Bound(state) /\ PermitFor(state, b)
    /\ [under |-> state, for |-> b] \in stages
    /\ Swap(c, b)
    /\ UNCHANGED reigns

Publish(c, b) ==
    /\ Mutation(c) /\ Staged(state) /\ Bound(state) /\ PermitFor(state, b)
    /\ [under |-> state, for |-> b] \in stages /\ b \in permits
    /\ Swap(c, b)
    /\ UNCHANGED reigns

\* A state without a control binding is bound by whoever marks it.
Hazard(c, mode) ==
    /\ Mutation(c) /\ (state.att = None \/ Bound(state))
    /\ Swap(c, [Rebound(state) EXCEPT !.mode = mode, !.maint = TRUE])
    /\ UNCHANGED reigns

MarkRestricted(c) ==
    /\ state.mode \notin {"restricted", "safety_unproven"}
    /\ Hazard(c, "restricted")

\* Mistake: the mark may be taken back by marking it again.
MarkAgain(c) == Hazard(c, "safety_unproven")

MarkUnproven(c) ==
    /\ state.mode # "safety_unproven"
    /\ Hazard(c, "safety_unproven")

(***************************************************************************)
(* The end of an attempt.                                                  *)
(***************************************************************************)
HazardOfAttempt(s) ==
    /\ s.maint /\ Bound(s)
    /\ s.want # None => s.want = Target /\ s.back = plan[lease.att].base

OpenWith(s, g) == Public(s) /\ s.gen = g /\ s.acc = lease.att

\* Mistake: any public baseline will do, whoever's acceptance it has.
OutcomeUnaccepted(s) ==
    \/ OpenWith(s, Target)
    \/ s.gen = plan[lease.att].base /\ (Public(s) \/ (s.mode = "restricted" /\ HazardOfAttempt(s)))
    \/ s.mode = "safety_unproven" /\ HazardOfAttempt(s)

\* _require_outcome_shape: target committed, baseline restored, or unproven.
Outcome(s) ==
    \/ OpenWith(s, Target) \/ OpenWith(s, plan[lease.att].base)
    \/ s.gen = plan[lease.att].base /\ s.mode = "restricted" /\ HazardOfAttempt(s)
    \/ s.mode = "safety_unproven" /\ HazardOfAttempt(s)

\* Evidence, completed journal and retired lease.  The final state is the
\* caller's: the store of the transaction does not read the state file.
Finish(c) ==
    /\ Mutation(c) /\ view[c] # None /\ Outcome(view[c])
    /\ said' = [said EXCEPT ![lease.att] = view[c]]
    /\ ended' = ended \cup {lease.att}
    /\ lease' = [lease EXCEPT !.active = FALSE, !.by = None]
    /\ UNCHANGED <<plan, evidence, allowed, state, view, reigns, faults>>

\* The token of the lease dies with its process.
Crash(c) ==
    /\ Mutation(c) /\ faults < MaxFaults /\ faults' = faults + 1
    /\ lease' = [lease EXCEPT !.by = None]
    /\ view' = [view EXCEPT ![c] = None]
    /\ UNCHANGED <<plan, ended, said, evidence, allowed, state, reigns>>

\* The process dies between the two writes of a permit.
CrashInPermit(c, b) ==
    /\ Mutation(c) /\ MayStage(b) /\ faults < MaxFaults /\ faults' = faults + 1
    /\ stages' = stages \cup {[under |-> state, for |-> b]}
    /\ lease' = [lease EXCEPT !.by = None]
    /\ view' = [view EXCEPT ![c] = None]
    /\ UNCHANGED <<plan, ended, said, evidence, permits, state, reigns>>

Next ==
    \/ \E a \in Attempts, g \in Generations : Reserve(a, g)
    \/ \E c \in Controllers :
        \/ \E a \in Attempts : AcquireInitial(c, a)
        \/ TakeOver(c) \/ Load(c) \/ WriteGeneration(c)
        \/ \E e \in 1..MaxFence : WriteFence(c, e) \/ WriteAcceptance(c, e) \/ CommitServing(c, e)
        \/ BeginSwitch(c) \/ BeginValidation(c) \/ MarkRestricted(c) \/ MarkUnproven(c)
        \/ \E t \in Stamps :
            LET b == Publication(state, t)
            IN  WritePermit(c, b) \/ CrashInPermit(c, b) \/ Publish(c, b)
        \/ Finish(c) \/ Crash(c)

Spec == Init /\ [][Next]_vars

-----------------------------------------------------------------------------
(***************************************************************************)
(* Properties                                                              *)
(***************************************************************************)
Plans == [base : Generations, target : Generations]
Leases == [att : Attempts \cup {None}, epoch : 0..MaxEpoch, active : BOOLEAN,
           by : Controllers \cup {None}]

\* _require_state_shape: what a state looks like in each mode.
Shape(s) ==
    /\ ~Public(s) => s.maint /\ s.att # None
    /\ Public(s) => s.want = None /\ s.att = None
    /\ Staged(s) => s.want = s.gen
    /\ s.mode \in {"switching", "validating"} =>
           s.back = s.gen /\ s.want \notin {None, s.gen}
    /\ s.mode = "steady" => s.back # s.gen

\* The records have their forms, and the state its shape.
TypeOK ==
    /\ plan \in [Attempts -> Plans \cup {None}] /\ ended \subseteq Attempts /\ lease \in Leases
    /\ generations \subseteq Generations /\ fences \subseteq [att : Attempts, epoch : 1..MaxFence]
    /\ acceptance \in [Attempts -> 1..MaxFence \cup {None}]
    /\ stages \subseteq [under : State, for : State] /\ permits \subseteq State
    /\ state \in State /\ Shape(state) /\ view \in [Controllers -> State \cup {None}]
    /\ reigns \in Seq([gen : Generations, fence : 1..MaxFence])

\* What serves was accepted: the attempt that the state names aimed at this
\* generation, and its records (generation, fence, acceptance) are all there.
ServingIsAccepted ==
    state.acc # None =>
        /\ plan[state.acc].target = state.gen /\ state.gen \in generations
        /\ [att |-> state.acc, epoch |-> state.fence] \in fences
        /\ acceptance[state.acc] = state.fence

\* The doors open only for a state whose permit is on the disk, by its
\* content and under the maintenance state before it.
PublicHasPermit ==
    Public(state) /\ state.acc # None =>
        /\ state \in permits
        /\ \E p \in stages : p.for = state /\ p.under.version + 1 = state.version

\* A permit that was handed out is never joined by another one for the same
\* maintenance state, also when its writer died half way.
OnePermit ==
    \A p, q \in stages : p.under = q.under => p = q

\* An epoch of the serving fence names one reign: nothing that the fence let
\* in before is let in after the generation has changed.
FenceNamesReign ==
    \A i, j \in 1..Len(reigns) : i < j => reigns[i].fence < reigns[j].fence

\* The generation to roll back to is the one that served before this one.
RollbackServedBefore ==
    state.mode = "steady" /\ Len(reigns) > 1 =>
        state.back = reigns[Len(reigns) - 1].gen

\* An attempt does not end in the middle of its switch: when no lease is
\* active the doors are open, or the state says that they may not be.
EndsSettled ==
    ~lease.active => state.mode \notin {"switching", "validating"} /\ ~Staged(state)

\* All of this: what serves was accepted, behind its fence and with its permit.
ServingSound ==
    /\ ServingIsAccepted /\ PublicHasPermit /\ OnePermit
    /\ FenceNamesReign /\ RollbackServedBefore /\ EndsSettled

\* A hazard is never taken back: the doors stay shut, the attempt that the
\* state names stays named, and an unproven state is the last one.
HazardStays ==
    [][state.mode \in {"restricted", "safety_unproven"} /\ state' # state =>
           /\ state.mode = "restricted" /\ state'.mode = "safety_unproven"
           /\ state'.att = state.att]_state

\* The final state that the evidence of an attempt states is the one on the disk.
EvidenceIsCurrent ==
    ~lease.active /\ lease.att # None => said[lease.att] = state

\* The next deployment can leave a restricted state.
NextCanBegin ==
    lease.active /\ lease.by # None /\ state.mode = "restricted" => Bound(state)

-----------------------------------------------------------------------------
(* What makes them inductive.                                              *)

Hazardous(s) == s.mode \in {"restricted", "safety_unproven"}
InSwitch(s) == s.mode \in {"switching", "validating"} \/ Staged(s)

\* An attempt has one lease after the other, and none once it has ended.
LeaseFits ==
    /\ \A a \in Attempts : plan[a] # None => plan[a].base # plan[a].target
    /\ lease.active => lease.att \notin ended \cup {None} /\ plan[lease.att] # None

\* A switch is of the attempt that has the lease, and goes where it aims at;
\* what serves was accepted by the attempt of the lease or of one that has ended.
SwitchFits ==
    /\ InSwitch(state) => lease.active /\ state.att = lease.att
    /\ state.mode \in {"switching", "validating"} => state.want = plan[state.att].target
    /\ state.acc # None =>
          plan[state.acc] # None /\ (state.acc \in ended \/ (lease.active /\ lease.att = state.acc))

\* The last reign is that of the state.
ReignFits == reigns # <<>> /\ reigns[Len(reigns)] = [gen |-> state.gen, fence |-> state.fence]

\* What a controller saw last may be old: but a hazard that it saw is still one, and
\* an attempt that it saw in service has left its switch behind.
ViewFits ==
    \A c \in Controllers : view[c] # None =>
        /\ Hazardous(view[c]) => Hazardous(state)
        /\ Public(view[c]) /\ view[c].acc # None =>
              \/ view[c].acc \in ended
              \/ lease.active /\ lease.att = view[c].acc /\ state.acc = lease.att /\ ~InSwitch(state)

\* All of it together is kept by every step.
IInv ==
    /\ TypeOK /\ LeaseFits /\ SwitchFits /\ ReignFits /\ ViewFits
    /\ ServingIsAccepted /\ PublicHasPermit /\ OnePermit
    /\ FenceNamesReign /\ RollbackServedBefore /\ EndsSettled
=============================================================================

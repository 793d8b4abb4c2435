---------------------------- MODULE ControlLease ----------------------------
(***************************************************************************)
(* The control lease of a deployment attempt (runtime_fencing_store.py and *)
(* its persistence, recovery and lineage) together with the transaction    *)
(* records that it fences: the bootstrap of an attempt, its journal, the   *)
(* evidence of its end, and the envelope that names the active attempt.    *)
(* Every operation holds the deployment lock and first settles the pending *)
(* transition; a record of a lease is its own digest.                      *)
(***************************************************************************)
EXTENDS Naturals, Sequences, FiniteSets

CONSTANTS Controllers,
          Attempts,
          LineageLimit,  \* _MAX_LINEAGE_RECORDS
          ActsPerStep,   \* states of one action: prepared, applied, committed
          MaxEpoch,      \* bound: leases of one attempt
          MaxActs,       \* bound: records in a journal
          MaxFaults,     \* bound: crashes and failed writes
          None

Lease == [att : Attempts, epoch : 1..MaxEpoch, by : Controllers,
          early : BOOLEAN, status : {"active", "retired"}]
Intent == [kind : {"initial", "takeover", "retire"},
           expected : Lease \cup {None}, next : Lease]

LeaseAssumption ==
    /\ LineageLimit \in Nat \ {0} /\ ActsPerStep \in Nat \ {0}
    /\ MaxEpoch \in Nat \ {0} /\ MaxActs \in Nat /\ MaxFaults \in Nat
    /\ None \notin Attempts \cup Controllers \cup Lease \cup Intent

ASSUME LeaseAssumed == LeaseAssumption

VARIABLES stage,     \* [Attempts -> how far the bootstrap is]
          envelope,  \* the attempt that the active envelope names
          frozen,    \* attempts whose immutable attempt record is written
          journal,   \* [Attempts -> [acts, done]]
          evidence,  \* [Attempts -> the journal and the lease it binds]
          current,   \* control-lease.json
          history,   \* the immutable lease records
          pending,   \* the pending transition: [kind, expected, next]
          lock,      \* the deployment lock: [by, own], or None
          proof,     \* [Controllers -> the lease whose token it keeps]
          seen,      \* [Controllers -> the lease it loaded last]
          view,      \* [Controllers -> the journal it loaded last]
          past,      \* history variable: the leases that were current
          faults

boot == <<stage, envelope>>
records == <<frozen, journal, evidence>>
lease == <<current, history, pending, past>>
minds == <<proof, seen, view>>
vars == <<boot, records, lease, lock, minds, faults>>

Stages == {"none", "reserved", "genesis", "sealed"}

Init ==
    /\ stage = [a \in Attempts |-> "none"] /\ envelope = None
    /\ frozen = {}
    /\ journal = [a \in Attempts |-> [acts |-> <<>>, done |-> FALSE]]
    /\ evidence = [a \in Attempts |-> None]
    /\ current = None /\ history = {} /\ pending = None /\ past = {}
    /\ lock = None
    /\ proof = [c \in Controllers |-> None]
    /\ seen = [c \in Controllers |-> None]
    /\ view = [c \in Controllers |-> <<>>]
    /\ faults = 0

Is(l, status) == l # None /\ l.status = status

(***************************************************************************)
(* Bootstrap.  Only the envelope is written under the deployment lock.     *)
(***************************************************************************)
Reserve(a) ==
    /\ stage[a] = "none"
    /\ stage' = [stage EXCEPT ![a] = "reserved"]
    /\ UNCHANGED <<envelope, records, lease, lock, minds, faults>>

Genesis(a) ==
    /\ stage[a] = "reserved"
    /\ stage' = [stage EXCEPT ![a] = "genesis"]
    /\ UNCHANGED <<envelope, records, lease, lock, minds, faults>>

Seal(a) ==
    /\ stage[a] = "genesis" /\ lock = None
    /\ stage' = [stage EXCEPT ![a] = "sealed"]
    /\ UNCHANGED <<envelope, records, lease, lock, minds, faults>>

\* The exact head: nothing was written since the genesis of the journal.
ExactHead(a) == journal[a].acts = <<>> /\ ~journal[a].done

\* No reconciliation here: the lock is enough.
PublishEnvelope(a) ==
    /\ lock = None /\ envelope = None
    /\ stage[a] = "sealed" /\ ExactHead(a)
    /\ envelope' = a
    /\ UNCHANGED <<stage, records, lease, lock, minds, faults>>

(***************************************************************************)
(* What a lease must satisfy.                                              *)
(***************************************************************************)
Lineage(l) == {h \in history : h.att = l.att /\ h.status = "active" /\ h.epoch <= l.epoch}

ActiveLineage(l) ==
    /\ l.epoch <= LineageLimit
    /\ \A e \in 1..l.epoch : \E h \in Lineage(l) : h.epoch = e

\* The active lease from which the tombstone was retired.
RetiredFrom(t) == [t EXCEPT !.status = "active"]
Tombstone(t) == t \in history /\ RetiredFrom(t) \in history /\ ActiveLineage(RetiredFrom(t))

\* Mistake: a retired attempt may begin again.
InitialAfterAny(previous, a) ==
    previous # None => previous.status = "retired" /\ Tombstone(previous)

InitialAllowed(previous, a) ==
    previous # None =>
        previous.status = "retired" /\ Tombstone(previous) /\ previous.att # a

Committed(acts) == acts # <<>> /\ Len(acts) % ActsPerStep = 0

\* No later lease of the lineage was issued before the completion.
Window(l) ==
    LET ev == evidence[l.att]
    IN  \A h \in Lineage(l) : h.epoch > ev.epoch => ~h.early

Binds(a) == evidence[a] # None /\ evidence[a].acts = journal[a].acts

TerminalBinding(l) ==
    /\ journal[l.att].done /\ Binds(l.att)
    /\ Window(l)

Settles(i) ==
    /\ current \in {i.expected, i.next}
    /\ envelope = i.next.att
    /\ i.kind = "initial" => InitialAllowed(i.expected, i.next.att)
    /\ i.kind # "initial" => ActiveLineage(i.expected)
    /\ i.kind = "retire" => TerminalBinding(i.expected)

(***************************************************************************)
(* Transitions: the intent, the immutable record, the swap of current, and *)
(* the removal of the intent.  Whoever takes the lock next goes on.        *)
(***************************************************************************)
\* The scope of an operation that finds nothing to settle.
Quiet == lock = None /\ pending = None

\* load_current and load_journal: no lock, but no pending transition either.
Load(c) ==
    /\ pending = None
    /\ seen' = [seen EXCEPT ![c] = current]
    /\ view' = [view EXCEPT ![c] = IF envelope = None THEN <<>> ELSE journal[envelope].acts]
    /\ <<seen', view'>> # <<seen, view>>
    /\ UNCHANGED <<boot, records, lease, lock, proof, faults>>

Prepare(c, kind, next) ==
    /\ lock' = [by |-> c, own |-> TRUE]
    /\ pending' = [kind |-> kind, expected |-> current, next |-> next]
    /\ UNCHANGED <<boot, records, current, history, past, minds, faults>>

AcquireInitial(c) ==
    /\ Quiet /\ envelope # None /\ InitialAllowed(current, envelope)
    /\ Prepare(c, "initial", [att |-> envelope, epoch |-> 1, by |-> c,
                              early |-> FALSE, status |-> "active"])

\* The caller says when the lease was issued; the code only compares that
\* with the lease before it, so it may lie before the evidence.
TakeOver(c, early) ==
    /\ Quiet /\ Is(current, "active") /\ current = seen[c]
    /\ current.att = envelope /\ ActiveLineage(current)
    /\ current.epoch < MaxEpoch
    /\ early => evidence[current.att] # None
    /\ Prepare(c, "takeover", [att |-> current.att, epoch |-> current.epoch + 1,
                               by |-> c, early |-> early, status |-> "active"])

\* Mistake: the proof of an earlier lease of the attempt is accepted.
HoldsAttempt(c) ==
    /\ Is(current, "active") /\ proof[c] # None /\ proof[c].att = current.att
    /\ current.att = envelope /\ ActiveLineage(current)

\* The proof is that of the current lease.
Holds(c) ==
    /\ Is(current, "active") /\ proof[c] = current
    /\ current.att = envelope /\ ActiveLineage(current)

\* Mistake: the caller's word for the end is enough.
RetireOnWord(c) ==
    /\ Quiet /\ Holds(c)
    /\ Prepare(c, "retire", [current EXCEPT !.status = "retired"])

RetireCurrent(c) ==
    /\ Quiet /\ Holds(c) /\ TerminalBinding(current)
    /\ Prepare(c, "retire", [current EXCEPT !.status = "retired"])

\* _reconciled_deployment_scope with a transition to settle.
Enter(c) ==
    /\ lock = None /\ pending # None
    /\ lock' = [by |-> c, own |-> FALSE]
    /\ UNCHANGED <<boot, records, lease, minds, faults>>

Settling(c) == lock # None /\ lock.by = c /\ pending # None /\ Settles(pending)

FreezeHistory(c) ==
    /\ Settling(c) /\ current = pending.expected /\ pending.next \notin history
    /\ history' = history \cup {pending.next}
    /\ UNCHANGED <<boot, records, current, pending, past, lock, minds, faults>>

\* Mistake: current is swapped before its record is frozen.
SwapFirst(c) ==
    /\ Settling(c) /\ current = pending.expected
    /\ current' = pending.next /\ past' = past \cup {pending.next}
    /\ UNCHANGED <<boot, records, history, pending, lock, minds, faults>>

SwapCurrent(c) ==
    /\ Settling(c) /\ current = pending.expected /\ pending.next \in history
    /\ current' = pending.next /\ past' = past \cup {pending.next}
    /\ UNCHANGED <<boot, records, history, pending, lock, minds, faults>>

\* Mistake: the recovery hands its caller the token of the lease it settled.
ClearAndGrant(c) ==
    /\ Settling(c) /\ current = pending.next /\ current \in history
    /\ pending' = None /\ lock' = None
    /\ proof' = IF current.status = "active" THEN [proof EXCEPT ![c] = current] ELSE proof
    /\ UNCHANGED <<boot, records, current, history, past, seen, view, faults>>

\* Mistake: a transition that was already swapped is not recognised.
ClearOwn(c) ==
    /\ Settling(c) /\ lock.own /\ current = pending.next /\ current \in history
    /\ pending' = None /\ lock' = None
    /\ proof' = [proof EXCEPT ![c] = current]
    /\ UNCHANGED <<boot, records, current, history, past, seen, view, faults>>

\* Only the operation that chose the next lease has the token of it.
ClearPending(c) ==
    /\ Settling(c) /\ current = pending.next /\ current \in history
    /\ pending' = None /\ lock' = None
    /\ proof' = IF lock.own /\ current.status = "active"
                THEN [proof EXCEPT ![c] = current] ELSE proof
    /\ seen' = IF lock.own THEN [seen EXCEPT ![c] = current] ELSE seen
    /\ UNCHANGED <<boot, records, current, history, past, view, faults>>

(***************************************************************************)
(* Writes under the proof of the current lease.                            *)
(***************************************************************************)
Mutation(c) == Quiet /\ Holds(c)

WriteAttempt(c) ==
    /\ Mutation(c) /\ current.att \notin frozen
    /\ frozen' = frozen \cup {current.att}
    /\ UNCHANGED <<boot, journal, evidence, lease, lock, minds, faults>>

\* The head that the caller expects.
AtHead(c) == view[c] = journal[current.att].acts /\ ~journal[current.att].done

AppendAction(c) ==
    /\ Mutation(c) /\ AtHead(c) /\ Len(view[c]) < MaxActs
    /\ journal' = [journal EXCEPT ![current.att].acts = Append(view[c], proof[c])]
    /\ view' = [view EXCEPT ![c] = Append(view[c], proof[c])]
    /\ UNCHANGED <<boot, frozen, evidence, lease, lock, proof, seen, faults>>

\* complete_transaction_journal derives the evidence from the journal that
\* the caller has; the first one on the disk stays.
WriteEvidence(c) ==
    /\ Mutation(c) /\ AtHead(c) /\ Committed(view[c]) /\ current.att \in frozen
    /\ evidence[current.att] = None
    /\ evidence' = [evidence EXCEPT ![current.att] = [acts |-> view[c], epoch |-> current.epoch]]
    /\ UNCHANGED <<boot, frozen, journal, lease, lock, minds, faults>>

CompleteJournal(c) ==
    /\ Mutation(c) /\ AtHead(c) /\ current.att \in frozen /\ Binds(current.att)
    /\ journal' = [journal EXCEPT ![current.att].done = TRUE]
    /\ UNCHANGED <<boot, frozen, evidence, lease, lock, minds, faults>>

\* Mistake: a completed journal is enough to clear the envelope.
ClearCompleted(c) ==
    /\ Quiet /\ current # None /\ current = seen[c]
    /\ journal[current.att].done /\ Binds(current.att)
    /\ envelope = current.att
    /\ envelope' = None
    /\ UNCHANGED <<stage, records, lease, lock, minds, faults>>

\* clear_terminal_envelope_if_current_tombstone, for the tombstone it saw.
ClearEnvelope(c) ==
    /\ Quiet /\ Is(current, "retired") /\ current = seen[c] /\ Tombstone(current)
    /\ journal[current.att].done /\ Binds(current.att)
    /\ envelope = current.att
    /\ envelope' = None
    /\ UNCHANGED <<stage, records, lease, lock, minds, faults>>

(***************************************************************************)
(* Faults: the kernel releases the lock of the dead; a failed write raises.*)
(***************************************************************************)
Fault == faults < MaxFaults /\ faults' = faults + 1
Unlocked(c) == IF lock # None /\ lock.by = c THEN None ELSE lock

Crash(c) ==
    /\ Fault /\ (proof[c] # None \/ Unlocked(c) # lock)
    /\ lock' = Unlocked(c)
    /\ proof' = [proof EXCEPT ![c] = None] /\ seen' = [seen EXCEPT ![c] = None]
    /\ view' = [view EXCEPT ![c] = <<>>]
    /\ UNCHANGED <<boot, records, lease>>

\* Mistake: the failure takes the intent back.
WriteFailsBlind(c) ==
    /\ Fault /\ Unlocked(c) # lock
    /\ lock' = Unlocked(c) /\ pending' = None
    /\ UNCHANGED <<boot, records, current, history, past, minds>>

WriteFails(c) ==
    /\ Fault /\ Unlocked(c) # lock
    /\ lock' = Unlocked(c)
    /\ UNCHANGED <<boot, records, lease, minds>>

Settle(c) == Enter(c) \/ FreezeHistory(c) \/ SwapCurrent(c) \/ ClearPending(c)

Next ==
    \/ \E a \in Attempts : Reserve(a) \/ Genesis(a) \/ Seal(a) \/ PublishEnvelope(a)
    \/ \E c \in Controllers :
        \/ Load(c) \/ AcquireInitial(c) \/ RetireCurrent(c) \/ Settle(c)
        \/ \E early \in BOOLEAN : TakeOver(c, early)
        \/ WriteAttempt(c) \/ AppendAction(c) \/ WriteEvidence(c) \/ CompleteJournal(c)
        \/ ClearEnvelope(c) \/ Crash(c) \/ WriteFails(c)

Spec == Init /\ [][Next]_vars

\* The next caller of the store begins by settling what is pending.
FairSpec == Spec /\ \A c \in Controllers : WF_vars(Settle(c))

-----------------------------------------------------------------------------
(***************************************************************************)
(* Properties                                                              *)
(***************************************************************************)
\* The variables have the shapes of the records in the store, and a lease
\* whose token a controller keeps was current once.
TypeOK ==
    /\ stage \in [Attempts -> Stages] /\ envelope \in Attempts \cup {None}
    /\ frozen \subseteq Attempts
    /\ journal \in [Attempts -> [acts : Seq(Lease), done : BOOLEAN]]
    /\ evidence \in [Attempts -> [acts : Seq(Lease), epoch : 1..MaxEpoch] \cup {None}]
    /\ current \in Lease \cup {None} /\ history \subseteq Lease /\ past \subseteq Lease
    /\ pending = None \/ pending \in Intent
    /\ lock = None \/ lock \in [by : Controllers, own : BOOLEAN]
    /\ proof \in [Controllers -> past \cup {None}]
    /\ \A c \in Controllers : proof[c] # None => proof[c].by = c
    /\ seen \in [Controllers -> Lease \cup {None}] /\ view \in [Controllers -> Seq(Lease)]
    /\ faults \in 0..MaxFaults

\* The pointer never names a lease that the immutable history lacks, and the
\* history of the attempt leads back to its first lease, also after a crash
\* between any two writes of a transition.
CurrentIsFrozen ==
    current # None =>
        /\ current \in history
        /\ \A e \in 1..current.epoch : \E h \in Lineage(current) : h.epoch = e

\* The history holds no lease of a controller that lost: what is in it was
\* current, or is what the pending transition will make current.
NoOrphan ==
    \A h \in history : h \in past \/ (pending # None /\ h = pending.next)

\* A pending transition can always be settled: nobody changed, in the time
\* between a crash and the recovery, what its validation reads.
PendingSettles == pending # None => Settles(pending)

\* The journal of an attempt was written by its leases in the order of their
\* epochs: no record of an overtaken controller follows one of its successor.
FencedJournal ==
    \A a \in Attempts :
        LET acts == journal[a].acts
        IN  /\ \A i \in 1..Len(acts) : acts[i] \in past /\ acts[i].att = a
            /\ \A i, j \in 1..Len(acts) : i < j => acts[i].epoch <= acts[j].epoch

\* While a lease is active, the active envelope names its attempt: it is not
\* cleared early, and the next attempt is not published beside it.
EnvelopeFollowsLease == Is(current, "active") => envelope = current.att

\* All of this: one controller acts, under a lease that its history explains.
LeaseSound ==
    CurrentIsFrozen /\ NoOrphan /\ PendingSettles /\ FencedJournal /\ EnvelopeFollowsLease

\* What the proofs add.  The shape of an intent: what it replaces, by what.
IntentFits(i) ==
    /\ i.kind = "initial" => /\ i.next.status = "active" /\ i.next.epoch = 1
                             /\ ~Is(i.expected, "active")
    /\ i.kind # "initial" => Is(i.expected, "active") /\ i.next.att = i.expected.att
    /\ i.kind = "takeover" => /\ i.next.status = "active"
                              /\ i.next.epoch = i.expected.epoch + 1
    /\ i.kind = "retire" => i.next = [i.expected EXCEPT !.status = "retired"]

PendingFits ==
    /\ pending # None => IntentFits(pending)
    /\ lock # None => pending # None /\ (lock.own => pending.next.by = lock.by)

\* The leases that were current: the present one is the last of its attempt,
\* and the attempts of all others are complete, as a retired one is.
PastFits ==
    /\ past \subseteq history
    /\ current = None => past = {}
    /\ current # None => current \in past
    /\ \A h \in past : IF h.att = current.att THEN h.epoch <= current.epoch
                       ELSE journal[h.att].done
    /\ Is(current, "retired") => journal[current.att].done

\* The attempt of an envelope has no lease, or has the current one.
EnvelopeFits ==
    \A h \in past : h.att = envelope => current.att = envelope

\* The inductive invariant: the operations of the store keep it one by one.
IInv ==
    /\ TypeOK /\ PendingFits /\ PastFits /\ EnvelopeFits /\ LeaseSound

\* A retired attempt is over: the tombstone is replaced only by the first
\* lease of another attempt, never by one of its own.
RetiredForGood ==
    [][Is(current, "retired") /\ current' # current => current'.att # current.att]_current

\* A transition that was begun is settled by some later caller.
PendingEnds == pending # None ~> pending = None

\* Evidence of the end that is written before its journal is completed can
\* still complete it.
EvidenceFits ==
    \A a \in Attempts : evidence[a] # None => evidence[a].acts = journal[a].acts

\* A completed journal under an active lease can be retired by the successor.
CompletedRetires ==
    Is(current, "active") /\ journal[current.att].done => TerminalBinding(current)

\* Whoever took an attempt over can go on with it.
SuccessorWorks == Is(current, "active") => ActiveLineage(current)

=============================================================================

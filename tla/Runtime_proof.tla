--------------------------- MODULE Runtime_proof ----------------------------
(***************************************************************************)
(* Proofs about the runtime. The lease that is current explains everything *)
(* that was written, and a retired attempt never comes back, for any       *)
(* number of controllers, attempts, leases, journal records and faults.    *)
(* The gates that a deployment closes stay closed until it is over, for    *)
(* any units, writers, plans and faults. The generation that serves was    *)
(* accepted, behind a fence of its own and with its permit, for any        *)
(* controllers, attempts, generations and fences, and a hazard is never    *)
(* taken back. What an installation of units reports of the host is so,    *)
(* for any units, failing steps, interrupts and kills; while one moves,    *)
(* the host always has one, whatever fails, dies or is edited.             *)
(***************************************************************************)
EXTENDS MCRuntime, TLAPS

-----------------------------------------------------------------------------
(***************************************************************************)
(* The control lease.                                                      *)
(***************************************************************************)
\* The first lease of the attempt that the envelope names.
First(a, c) ==
    [att |-> a, epoch |-> 1, by |-> c, early |-> FALSE, status |-> "active"]

\* acquire_initial issues a lease of the attempt's first epoch.
LEMMA FirstIsLease ==
    ASSUME NEW a \in Attempts, NEW c \in Controllers
    PROVE  First(a, c) \in Lease
<1>1. 1 \in 1 .. MaxEpoch
  BY LeaseAssumed DEF LeaseAssumption
<1> QED
  BY <1>1, Zenon DEF Lease, First

\* take_over issues a lease of the next epoch.
LEMMA SuccessorIsLease ==
    ASSUME NEW l \in Lease, l.epoch < MaxEpoch, NEW c \in Controllers,
           NEW early \in BOOLEAN
    PROVE  [att |-> l.att, epoch |-> l.epoch + 1, by |-> c, early |-> early,
            status |-> "active"] \in Lease
<1>1. l.att \in Attempts /\ l.epoch \in 1 .. MaxEpoch
  BY Zenon DEF Lease
<1>2. l.epoch + 1 \in 1 .. MaxEpoch
  BY <1>1, LeaseAssumed DEF LeaseAssumption
<1> QED
  BY <1>1, <1>2, Zenon DEF Lease

\* retire_current keeps everything of a lease but its status.
LEMMA TombstoneIsLease ==
    ASSUME NEW l \in Lease
    PROVE  [l EXCEPT !.status = "retired"] \in Lease
  BY DEF Lease

\* An intent has the parts that prepare_pending_transition was given.
LEMMA IntentTyped ==
    ASSUME NEW k \in {"initial", "takeover", "retire"},
           NEW e \in Lease \cup {None}, NEW n \in Lease
    PROVE  [kind |-> k, expected |-> e, next |-> n] \in Intent
  BY DEF Intent

\* Writing one journal leaves all journals well-formed.
LEMMA JournalTyped ==
    ASSUME TypeOK, NEW a \in Attempts
    PROVE  /\ \A l \in Seq(Lease) :
                  [journal EXCEPT ![a].acts = l]
                      \in [Attempts -> [acts : Seq(Lease), done : BOOLEAN]]
           /\ [journal EXCEPT ![a].done = TRUE]
                  \in [Attempts -> [acts : Seq(Lease), done : BOOLEAN]]
<1> DEFINE R == [acts : Seq(Lease), done : BOOLEAN]
<1>1. journal \in [Attempts -> R]
  BY DEF TypeOK
<1>2. journal[a] \in R
  BY <1>1
<1>3. \A l \in Seq(Lease) : [journal[a] EXCEPT !.acts = l] \in R
  BY <1>2, Zenon
<1>4. [journal[a] EXCEPT !.done = TRUE] \in R
  BY <1>2, Zenon
<1> HIDE DEF R
<1>5. \A r \in R : [journal EXCEPT ![a] = r] \in [Attempts -> R]
  BY <1>1
<1> QED
  BY <1>1, <1>3, <1>4, <1>5, Zenon DEF R

\* An intent on the disk and a lock that is taken keep the types.
LEMMA PrepareTyped ==
    ASSUME TypeOK, NEW c \in Controllers, NEW n \in Lease,
           NEW k \in {"initial", "takeover", "retire"}, Prepare(c, k, n)
    PROVE  TypeOK' /\ pending' \in Intent
<1>1. lock' \in [by : Controllers, own : BOOLEAN]
  BY DEF Prepare
<1>2. pending' \in Intent
  BY IntentTyped DEF Prepare, TypeOK
<1> QED
  BY <1>1, <1>2 DEF Prepare, TypeOK, boot, records, minds

\* Every operation keeps the shapes of the records.
LEMMA TypeNext == IInv /\ [Next]_vars => TypeOK'
<1> SUFFICES ASSUME IInv, [Next]_vars
             PROVE  TypeOK'
  OBVIOUS
<1> USE LeaseAssumed DEF IInv, LeaseAssumption
<1>1. ASSUME NEW a \in Attempts,
             Reserve(a) \/ Genesis(a) \/ Seal(a) \/ PublishEnvelope(a)
      PROVE  TypeOK'
  BY <1>1 DEF Reserve, Genesis, Seal, PublishEnvelope, TypeOK, Stages,
              records, lease, minds
<1>2. ASSUME NEW c \in Controllers, Load(c)
      PROVE  TypeOK'
  <2>1. (IF envelope = None THEN <<>> ELSE journal[envelope].acts)
            \in Seq(Lease)
    BY DEF TypeOK
  <2> QED
    BY <1>2, <2>1 DEF Load, TypeOK, boot, records, lease
<1>3. ASSUME NEW c \in Controllers, AcquireInitial(c)
      PROVE  TypeOK'
  <2>1. envelope \in Attempts /\ Prepare(c, "initial", First(envelope, c))
    BY <1>3 DEF AcquireInitial, TypeOK, First
  <2> QED
    BY <2>1, FirstIsLease, PrepareTyped
<1>4. ASSUME NEW c \in Controllers, NEW early \in BOOLEAN, TakeOver(c, early)
      PROVE  TypeOK'
  <2>1. current \in Lease /\ current.epoch < MaxEpoch
    BY <1>4 DEF TakeOver, TypeOK, Is
  <2>2. [att |-> current.att, epoch |-> current.epoch + 1, by |-> c,
         early |-> early, status |-> "active"] \in Lease
    BY <2>1, SuccessorIsLease
  <2> QED
    BY <1>4, <2>2, PrepareTyped DEF TakeOver
<1>5. ASSUME NEW c \in Controllers, RetireCurrent(c)
      PROVE  TypeOK'
  <2>1. current \in Lease
    BY <1>5 DEF RetireCurrent, Holds, TypeOK, Is
  <2> QED
    BY <1>5, <2>1, TombstoneIsLease, PrepareTyped DEF RetireCurrent
<1>6. ASSUME NEW c \in Controllers,
             Enter(c) \/ FreezeHistory(c) \/ SwapCurrent(c)
      PROVE  TypeOK'
  <2>1. pending \in Intent /\ pending.next \in Lease
    BY <1>6 DEF Enter, FreezeHistory, SwapCurrent, Settling, TypeOK, Intent
  <2>2. CASE Enter(c)
    <3>1. lock' \in [by : Controllers, own : BOOLEAN]
      BY <2>2 DEF Enter
    <3> QED
      BY <2>2, <3>1 DEF Enter, TypeOK, boot, records, lease, minds
  <2>3. CASE FreezeHistory(c)
    BY <2>1, <2>3 DEF FreezeHistory, TypeOK, boot, records, minds
  <2>4. CASE SwapCurrent(c)
    <3>1. proof' \in [Controllers -> past' \cup {None}]
      BY <2>4 DEF SwapCurrent, TypeOK, minds
    <3> QED
      BY <2>1, <2>4, <3>1 DEF SwapCurrent, TypeOK, boot, records, minds
  <2> QED
    BY <1>6, <2>2, <2>3, <2>4
<1>7. ASSUME NEW c \in Controllers, ClearPending(c)
      PROVE  TypeOK'
  <2>1. current \in past /\ current \in Lease
    BY <1>7 DEF ClearPending, Settling, TypeOK, Intent, PastFits
  <2>2. lock.own => current.by = c
    BY <1>7 DEF ClearPending, Settling, PendingFits
  <2>3. /\ proof' \in [Controllers -> past' \cup {None}]
        /\ seen' \in [Controllers -> Lease \cup {None}]
        /\ \A d \in Controllers : proof'[d] # None => proof'[d].by = d
    BY <1>7, <2>1, <2>2 DEF ClearPending, TypeOK
  <2> QED
    BY <1>7, <2>3 DEF ClearPending, TypeOK, boot, records
<1>8. ASSUME NEW c \in Controllers, WriteAttempt(c) \/ ClearEnvelope(c)
      PROVE  TypeOK'
  <2>1. current \in Lease
    BY <1>8 DEF WriteAttempt, Mutation, Holds, ClearEnvelope, Is, TypeOK
  <2>2. current.att \in Attempts
    BY <2>1 DEF Lease
  <2> QED
    BY <1>8, <2>2 DEF WriteAttempt, ClearEnvelope, TypeOK, boot, records,
                      lease, minds
<1>9. ASSUME NEW c \in Controllers, AppendAction(c)
      PROVE  TypeOK'
  <2>1. current \in Lease /\ proof[c] = current
    BY <1>9 DEF AppendAction, Mutation, Holds, Is, TypeOK
  <2>2. current.att \in Attempts
    BY <2>1 DEF Lease
  <2>3. Append(view[c], proof[c]) \in Seq(Lease)
    BY <2>1 DEF TypeOK
  <2>4. journal' \in [Attempts -> [acts : Seq(Lease), done : BOOLEAN]]
    BY <1>9, <2>2, <2>3, JournalTyped DEF AppendAction
  <2> QED
    BY <1>9, <2>3, <2>4 DEF AppendAction, TypeOK, boot, lease
<1>10. ASSUME NEW c \in Controllers, WriteEvidence(c)
       PROVE  TypeOK'
  <2>1. current \in Lease
    BY <1>10 DEF WriteEvidence, Mutation, Holds, Is, TypeOK
  <2>2. current.att \in Attempts /\ current.epoch \in 1 .. MaxEpoch
    BY <2>1 DEF Lease
  <2> QED
    BY <1>10, <2>2 DEF WriteEvidence, TypeOK, boot, lease, minds
<1>11. ASSUME NEW c \in Controllers, CompleteJournal(c)
       PROVE  TypeOK'
  <2>1. current \in Lease
    BY <1>11 DEF CompleteJournal, Mutation, Holds, Is, TypeOK
  <2>2. current.att \in Attempts
    BY <2>1 DEF Lease
  <2>3. journal' \in [Attempts -> [acts : Seq(Lease), done : BOOLEAN]]
    BY <1>11, <2>2, JournalTyped DEF CompleteJournal
  <2> QED
    BY <1>11, <2>3 DEF CompleteJournal, TypeOK, boot, lease, minds
<1>12. ASSUME NEW c \in Controllers, Crash(c) \/ WriteFails(c)
       PROVE  TypeOK'
  <2>1. faults' \in 0 .. MaxFaults
    BY <1>12 DEF Crash, WriteFails, Fault, TypeOK
  <2>2. lock' = None \/ lock' \in [by : Controllers, own : BOOLEAN]
    BY <1>12 DEF Crash, WriteFails, Unlocked, TypeOK
  <2>3. /\ proof' \in [Controllers -> past \cup {None}]
        /\ \A d \in Controllers : proof'[d] # None => proof'[d].by = d
        /\ seen' \in [Controllers -> Lease \cup {None}]
        /\ view' \in [Controllers -> Seq(Lease)]
    <3>1. <<>> \in Seq(Lease)
      OBVIOUS
    <3>2. CASE Crash(c)
      BY <3>1, <3>2 DEF Crash, TypeOK
    <3>3. CASE WriteFails(c)
      BY <3>3 DEF WriteFails, TypeOK, minds
    <3> QED
      BY <1>12, <3>2, <3>3
  <2>4. UNCHANGED <<boot, records, lease>>
    BY <1>12 DEF Crash, WriteFails
  <2> QED
    BY <2>1, <2>2, <2>3, <2>4 DEF TypeOK, boot, records, lease
<1>13. CASE UNCHANGED vars
  BY <1>13 DEF vars, boot, records, lease, minds, TypeOK
<1> QED
  BY <1>1, <1>2, <1>3, <1>4, <1>5, <1>6, <1>7, <1>8, <1>9, <1>10, <1>11,
     <1>12, <1>13
     DEF Next, Settle

\* An empty store agrees with itself.
LEMMA IInvInit == Init => IInv
<1> SUFFICES ASSUME Init
             PROVE  IInv
  OBVIOUS
<1> USE LeaseAssumed DEF Init, LeaseAssumption
<1>1. TypeOK
  <2>1. <<>> \in Seq(Lease)
    OBVIOUS
  <2>2. [acts |-> <<>>, done |-> FALSE] \in [acts : Seq(Lease), done : BOOLEAN]
    BY <2>1, Zenon
  <2>3. journal \in [Attempts -> [acts : Seq(Lease), done : BOOLEAN]]
    BY <2>2
  <2> QED
    BY <2>1, <2>3 DEF TypeOK, Stages
<1>2. PendingFits /\ PastFits /\ EnvelopeFits
  BY DEF PendingFits, PastFits, EnvelopeFits, Is
<1>3. LeaseSound
  BY DEF LeaseSound, CurrentIsFrozen, NoOrphan, PendingSettles,
         FencedJournal, EnvelopeFollowsLease, Is
<1> QED
  BY <1>1, <1>2, <1>3 DEF IInv

\* What a pending transition waits for stays as it was.
LEMMA SettlesUnmoved ==
    ASSUME PendingSettles,
           UNCHANGED <<envelope, journal, evidence, current, history, pending>>
    PROVE  PendingSettles'
  BY DEF PendingSettles, Settles, InitialAllowed, Tombstone, RetiredFrom,
         ActiveLineage, Lineage, TerminalBinding, Binds, Window

\* A step that only takes or drops the lock, or changes what is in the minds.
LEMMA Unmoved ==
    ASSUME IInv, UNCHANGED <<envelope, journal, evidence, lease>>,
           lock' # None => pending # None /\ (lock'.own => lock' = lock)
    PROVE  PendingFits' /\ PastFits' /\ EnvelopeFits' /\ LeaseSound'
<1> USE DEF IInv, LeaseSound, lease
<1>1. PendingFits'
  BY DEF PendingFits, IntentFits, Is
<1>2. PastFits' /\ EnvelopeFits' /\ EnvelopeFollowsLease' /\ NoOrphan'
  BY DEF PastFits, EnvelopeFits, EnvelopeFollowsLease, NoOrphan, Is
<1>3. CurrentIsFrozen'
  BY DEF CurrentIsFrozen, Lineage
<1>4. PendingSettles'
  BY SettlesUnmoved
<1>5. FencedJournal'
  BY DEF FencedJournal
<1> QED
  BY <1>1, <1>2, <1>3, <1>4, <1>5

\* A step without a transition that leaves the leases alone, and no journal
\* incomplete that was complete.
LEMMA LeasesUnmoved ==
    ASSUME IInv, pending = None, lock = None, UNCHANGED <<lease, lock>>,
           \A a \in Attempts : journal[a].done => journal'[a].done
    PROVE  /\ PendingFits' /\ PastFits'
           /\ CurrentIsFrozen' /\ NoOrphan' /\ PendingSettles'
<1> USE DEF IInv, LeaseSound, lease
<1>1. PendingFits' /\ PendingSettles'
  BY DEF PendingFits, PendingSettles
<1>2. PastFits'
  <2>1. \A h \in past : h.att \in Attempts
    BY DEF TypeOK, Lease
  <2>2. current # None => current.att \in Attempts
    BY DEF TypeOK, Lease
  <2> QED
    BY <2>1, <2>2 DEF PastFits, Is
<1>3. NoOrphan'
  BY DEF NoOrphan
<1>4. CurrentIsFrozen'
  BY DEF CurrentIsFrozen, Lineage
<1> QED
  BY <1>1, <1>2, <1>3, <1>4

\* The envelope is published for an attempt that never had a lease, and it is
\* cleared when the current one is a tombstone.
LEMMA EnvelopeStep ==
    ASSUME IInv,
           \/ \E a \in Attempts : PublishEnvelope(a)
           \/ \E c \in Controllers : ClearEnvelope(c)
    PROVE  PendingFits' /\ PastFits' /\ EnvelopeFits' /\ LeaseSound'
<1> USE LeaseAssumed DEF IInv, LeaseSound, LeaseAssumption, records, lease
<1>1. \A h \in past : h.att \in Attempts
  BY DEF TypeOK, Lease
<1>2. current # None => current.att \in Attempts
  BY DEF TypeOK, Lease
<1>3. ASSUME NEW a \in Attempts, PublishEnvelope(a)
      PROVE  PendingFits' /\ PastFits' /\ EnvelopeFits' /\ LeaseSound'
  <2>1. ~Is(current, "active")
    BY <1>2, <1>3 DEF PublishEnvelope, EnvelopeFollowsLease, Is
  <2>2. pending = None
    <3>1. pending # None => pending.next.att \in Attempts
      BY DEF TypeOK, Intent, Lease
    <3> QED
      BY <1>3, <3>1 DEF PublishEnvelope, PendingSettles, Settles
  <2>3. UNCHANGED <<lease, lock, journal>> /\ lock = None
    BY <1>3 DEF PublishEnvelope
  <2>4. PendingFits' /\ PastFits' /\ CurrentIsFrozen' /\ NoOrphan'
            /\ PendingSettles'
    BY <2>2, <2>3, LeasesUnmoved
  <2>5. FencedJournal'
    BY <2>3 DEF FencedJournal
  <2>6. EnvelopeFollowsLease'
    BY <2>1, <2>3 DEF EnvelopeFollowsLease, Is
  <2>7. \A h \in past : h.att # a
    <3>1. ~journal[a].done
      BY <1>3 DEF PublishEnvelope, ExactHead
    <3>2. current # None => current.status \in {"active", "retired"}
      BY DEF TypeOK, Lease
    <3> QED
      BY <2>1, <3>1, <3>2 DEF PastFits, Is
  <2>8. EnvelopeFits'
    BY <1>3, <2>3, <2>7 DEF EnvelopeFits, PublishEnvelope
  <2> QED
    BY <2>4, <2>5, <2>6, <2>8
<1>4. ASSUME NEW c \in Controllers, ClearEnvelope(c)
      PROVE  PendingFits' /\ PastFits' /\ EnvelopeFits' /\ LeaseSound'
  <2>1. current # None /\ current.status = "retired" /\ envelope' = None
    BY <1>4 DEF ClearEnvelope, Is
  <2>2. UNCHANGED <<lease, lock, journal>> /\ lock = None /\ pending = None
    BY <1>4 DEF ClearEnvelope, Quiet
  <2>3. PendingFits' /\ PastFits' /\ CurrentIsFrozen' /\ NoOrphan'
            /\ PendingSettles'
    BY <2>2, LeasesUnmoved
  <2>4. FencedJournal'
    BY <2>2 DEF FencedJournal
  <2>5. EnvelopeFollowsLease' /\ EnvelopeFits'
    BY <1>1, <2>1, <2>2 DEF EnvelopeFollowsLease, EnvelopeFits, Is
  <2> QED
    BY <2>3, <2>4, <2>5
<1> QED
  BY <1>3, <1>4

\* What a controller writes under its proof is of the current lease, and the
\* journal of the attempt has nothing of a later one.
LEMMA RecordStep ==
    ASSUME IInv, NEW c \in Controllers,
           WriteAttempt(c) \/ AppendAction(c) \/ WriteEvidence(c)
               \/ CompleteJournal(c)
    PROVE  PendingFits' /\ PastFits' /\ EnvelopeFits' /\ LeaseSound'
<1> USE DEF IInv, LeaseSound
<1>1. /\ lock = None /\ pending = None /\ UNCHANGED <<lease, lock, envelope>>
      /\ current # None /\ proof[c] = current
  BY DEF WriteAttempt, AppendAction, WriteEvidence, CompleteJournal,
         Mutation, Quiet, Holds, Is, boot
<1>2. current \in Lease /\ current.att \in Attempts /\ current \in past
  BY <1>1 DEF TypeOK, Lease, PastFits
<1>3. /\ journal \in [Attempts -> [acts : Seq(Lease), done : BOOLEAN]]
      /\ view[c] \in Seq(Lease)
  BY DEF TypeOK
<1>4. \A a \in Attempts : journal[a].done => journal'[a].done
  BY <1>2, <1>3 DEF WriteAttempt, AppendAction, WriteEvidence, CompleteJournal
<1>5. PendingFits' /\ PastFits' /\ CurrentIsFrozen' /\ NoOrphan'
          /\ PendingSettles'
  BY <1>1, <1>4, LeasesUnmoved
<1>6. EnvelopeFits' /\ EnvelopeFollowsLease'
  BY <1>1 DEF EnvelopeFits, EnvelopeFollowsLease, lease
<1>7. FencedJournal'
  <2>1. CASE \A a \in Attempts : journal'[a].acts = journal[a].acts
    BY <1>1, <2>1 DEF FencedJournal, lease
  <2>2. CASE AppendAction(c)
    <3> DEFINE acts == journal[current.att].acts
    <3>1. acts \in Seq(Lease)
      BY <1>2, <1>3
    <3>2. /\ journal'[current.att].acts = Append(acts, current)
          /\ \A a \in Attempts \ {current.att} : journal'[a] = journal[a]
      BY <1>1, <1>2, <1>3, <2>2 DEF AppendAction, AtHead
    <3>3. \A i \in 1 .. Len(acts) :
              acts[i] \in past /\ acts[i].att = current.att
      BY <1>2 DEF FencedJournal
    <3>4. \A i \in 1 .. Len(acts) : acts[i].epoch <= current.epoch
      BY <3>3 DEF PastFits
    <3>5. \A i, j \in 1 .. Len(acts) : i < j => acts[i].epoch <= acts[j].epoch
      BY <1>2 DEF FencedJournal
    <3>6. current.epoch <= current.epoch
      BY <1>2 DEF Lease
    <3> HIDE DEF acts
    <3>7. LET new == Append(acts, current)
          IN  /\ \A i \in 1 .. Len(new) :
                     new[i] \in past /\ new[i].att = current.att
              /\ \A i, j \in 1 .. Len(new) :
                     i < j => new[i].epoch <= new[j].epoch
      BY <1>2, <3>1, <3>3, <3>4, <3>5
    <3>8. past' = past
      BY <1>1 DEF lease
    <3>9. ASSUME NEW a \in Attempts
          PROVE  LET j == journal'[a].acts
                 IN  /\ \A i \in 1 .. Len(j) : j[i] \in past /\ j[i].att = a
                     /\ \A i, k \in 1 .. Len(j) :
                            i < k => j[i].epoch <= j[k].epoch
      <4>1. CASE a = current.att
        BY <3>2, <3>7, <4>1
      <4>2. CASE a # current.att
        BY <3>2, <4>2 DEF FencedJournal
      <4> QED
        BY <4>1, <4>2
    <3> QED
      BY <3>8, <3>9 DEF FencedJournal
  <2>3. CASE CompleteJournal(c)
    <3>1. \A a \in Attempts : journal'[a].acts = journal[a].acts
      BY <1>2, <1>3, <2>3 DEF CompleteJournal
    <3> QED
      BY <2>1, <3>1
  <2>4. CASE WriteAttempt(c) \/ WriteEvidence(c)
    BY <2>1, <2>4 DEF WriteAttempt, WriteEvidence
  <2> QED
    BY <2>2, <2>3, <2>4
<1> QED
  BY <1>5, <1>6, <1>7

\* An intent says what is current, and what may come after it.
LEMMA PrepareStep ==
    ASSUME IInv, NEW c \in Controllers,
           \/ AcquireInitial(c) \/ RetireCurrent(c)
           \/ \E early \in BOOLEAN : TakeOver(c, early)
    PROVE  PendingFits' /\ PastFits' /\ EnvelopeFits' /\ LeaseSound'
<1> USE LeaseAssumed DEF IInv, LeaseSound, LeaseAssumption
<1>1. /\ UNCHANGED <<current, history, past, envelope, journal, evidence>>
      /\ pending = None
  BY DEF AcquireInitial, TakeOver, RetireCurrent, Prepare, Quiet, boot, records
<1>2. PastFits' /\ EnvelopeFits' /\ EnvelopeFollowsLease' /\ NoOrphan'
  BY <1>1 DEF PastFits, EnvelopeFits, EnvelopeFollowsLease, NoOrphan, Is
<1>3. CurrentIsFrozen' /\ FencedJournal'
  BY <1>1 DEF CurrentIsFrozen, Lineage, FencedJournal
<1>4. CASE AcquireInitial(c)
  <2>1. /\ envelope \in Attempts /\ InitialAllowed(current, envelope)
        /\ Prepare(c, "initial", First(envelope, c))
    BY <1>4 DEF AcquireInitial, First, TypeOK
  <2>2. pending' \in Intent
    BY <2>1, FirstIsLease, PrepareTyped
  <2>3. /\ pending'.kind = "initial" /\ pending'.expected = current
        /\ pending'.next = First(envelope, c)
        /\ lock' = [by |-> c, own |-> TRUE]
    BY <2>1 DEF Prepare
  <2>4. PendingFits'
    BY <2>1, <2>2, <2>3
       DEF PendingFits, IntentFits, InitialAllowed, First, Is
  <2>5. PendingSettles'
    BY <1>1, <2>1, <2>3
       DEF PendingSettles, Settles, First, InitialAllowed, Tombstone,
           RetiredFrom, ActiveLineage, Lineage
  <2> QED
    BY <1>2, <1>3, <2>4, <2>5
<1>5. ASSUME NEW early \in BOOLEAN, TakeOver(c, early)
      PROVE  PendingFits' /\ PendingSettles'
  <2> DEFINE next == [att |-> current.att, epoch |-> current.epoch + 1,
                      by |-> c, early |-> early, status |-> "active"]
  <2>1. /\ current # None /\ current.status = "active"
        /\ current.att = envelope /\ ActiveLineage(current)
        /\ Prepare(c, "takeover", next)
    BY <1>5 DEF TakeOver, Is
  <2>2. current \in Lease /\ current.epoch < MaxEpoch
    BY <1>5, <2>1 DEF TypeOK, TakeOver
  <2>3. pending' \in Intent
    BY <2>1, <2>2, SuccessorIsLease, PrepareTyped
  <2>4. /\ pending'.kind = "takeover" /\ pending'.expected = current
        /\ pending'.next = next /\ lock' = [by |-> c, own |-> TRUE]
    BY <2>1 DEF Prepare
  <2>5. PendingFits'
    BY <2>1, <2>3, <2>4 DEF PendingFits, IntentFits, Is
  <2>6. PendingSettles'
    BY <1>1, <2>1, <2>4
       DEF PendingSettles, Settles, ActiveLineage, Lineage
  <2> QED
    BY <2>5, <2>6
<1>6. CASE RetireCurrent(c)
  <2> DEFINE next == [current EXCEPT !.status = "retired"]
  <2>1. /\ current # None /\ current.status = "active" /\ proof[c] = current
        /\ current.att = envelope /\ ActiveLineage(current)
        /\ TerminalBinding(current) /\ Prepare(c, "retire", next)
    BY <1>6 DEF RetireCurrent, Holds, Is
  <2>2. current \in Lease /\ current.by = c
    BY <2>1 DEF TypeOK
  <2>3. next \in Lease /\ next.att = current.att /\ next.by = c
    BY <2>2 DEF Lease
  <2>4. pending' \in Intent
    BY <2>1, <2>3, PrepareTyped
  <2>5. /\ pending'.kind = "retire" /\ pending'.expected = current
        /\ pending'.next = next /\ lock' = [by |-> c, own |-> TRUE]
    BY <2>1 DEF Prepare
  <2>6. PendingFits'
    BY <2>1, <2>3, <2>4, <2>5 DEF PendingFits, IntentFits, Is
  <2>7. PendingSettles'
    BY <1>1, <2>1, <2>3, <2>5
       DEF PendingSettles, Settles, ActiveLineage, Lineage, TerminalBinding,
           Binds, Window
  <2> QED
    BY <1>2, <1>3, <2>6, <2>7
<1> QED
  BY <1>2, <1>3, <1>4, <1>5, <1>6

\* The record that is frozen adds to a lineage and is late for no completion.
LEMMA FreezeStep ==
    ASSUME IInv, NEW c \in Controllers, FreezeHistory(c)
    PROVE  PendingFits' /\ PastFits' /\ EnvelopeFits' /\ LeaseSound'
<1> USE DEF IInv, LeaseSound
<1>1. /\ pending # None /\ history' = history \cup {pending.next}
      /\ UNCHANGED <<envelope, journal, evidence, current, pending, past,
                     lock>>
  BY DEF FreezeHistory, Settling, boot, records
<1>2. PendingFits' /\ PastFits' /\ EnvelopeFits' /\ EnvelopeFollowsLease'
  BY <1>1 DEF PendingFits, IntentFits, PastFits, EnvelopeFits,
              EnvelopeFollowsLease, Is
<1>3. NoOrphan' /\ CurrentIsFrozen' /\ FencedJournal'
  BY <1>1 DEF NoOrphan, CurrentIsFrozen, Lineage, FencedJournal
<1>4. PendingSettles'
  <2>1. pending.kind = "retire" => pending.next.status = "retired"
    <3>1. pending.kind = "retire" => pending.expected \in Lease
      BY <1>1 DEF PendingFits, IntentFits, TypeOK, Intent, Is
    <3> QED
      BY <1>1, <3>1 DEF PendingFits, IntentFits, Lease
  <2> QED
    BY <1>1, <2>1
       DEF PendingSettles, Settles, InitialAllowed, Tombstone, RetiredFrom,
           ActiveLineage, Lineage, TerminalBinding, Binds, Window
<1> QED
  BY <1>2, <1>3, <1>4

\* The swap makes current what is frozen; the lease before it was the last of
\* its attempt, or its attempt is complete.
LEMMA SwapStep ==
    ASSUME IInv, NEW c \in Controllers, SwapCurrent(c)
    PROVE  PendingFits' /\ PastFits' /\ EnvelopeFits' /\ LeaseSound'
<1> USE LeaseAssumed DEF IInv, LeaseSound, LeaseAssumption
<1>1. /\ pending # None /\ current = pending.expected
      /\ pending.next \in history /\ current' = pending.next
      /\ past' = past \cup {pending.next} /\ Settles(pending)
      /\ UNCHANGED <<envelope, journal, evidence, history, pending, lock>>
  BY DEF SwapCurrent, Settling, boot, records
<1>2. pending \in Intent /\ pending.next \in Lease /\ current' # None
  BY <1>1 DEF TypeOK, Intent
<1>3. IntentFits(pending)
  BY <1>1 DEF PendingFits
<1>4. pending.kind \in {"initial", "takeover", "retire"}
  BY <1>2 DEF Intent
<1>5. current # None => current \in Lease
  BY DEF TypeOK
<1>6. pending.kind = "retire" =>
          /\ pending.next.status = "retired"
          /\ pending.next.epoch = current.epoch
  BY <1>1, <1>3, <1>5 DEF IntentFits, Lease, Is
<1>7. envelope = pending.next.att
  BY <1>1 DEF Settles
<1>8. PendingFits'
  BY <1>1 DEF PendingFits, IntentFits, Is
<1>9. NoOrphan' /\ FencedJournal' /\ EnvelopeFollowsLease'
  BY <1>1, <1>7 DEF NoOrphan, FencedJournal, EnvelopeFollowsLease
<1>10. EnvelopeFits'
  BY <1>1, <1>7 DEF EnvelopeFits
<1>11. CurrentIsFrozen'
  <2>1. CASE pending.kind = "initial"
    <3>1. pending.next.epoch = 1 /\ pending.next.status = "active"
      BY <1>3, <2>1 DEF IntentFits
    <3> QED
      BY <1>1, <3>1 DEF CurrentIsFrozen, Lineage
  <2>2. CASE pending.kind # "initial"
    <3>1. /\ current # None /\ current \in Lease
          /\ pending.next.att = current.att
      BY <1>1, <1>3, <1>5, <2>2 DEF IntentFits, Is
    <3>2. \A e \in 1 .. current.epoch : \E h \in Lineage(current) : h.epoch = e
      BY <3>1 DEF CurrentIsFrozen
    <3>3. CASE pending.kind = "retire"
      BY <1>1, <1>6, <3>1, <3>2, <3>3 DEF CurrentIsFrozen, Lineage
    <3>4. CASE pending.kind = "takeover"
      <4>1. /\ pending.next.epoch = current.epoch + 1
            /\ pending.next.status = "active" /\ current.epoch \in Nat
        BY <1>1, <1>3, <3>1, <3>4 DEF IntentFits, Lease
      <4>2. ASSUME NEW e \in 1 .. pending.next.epoch
            PROVE  \E h \in history : /\ h.att = pending.next.att
                                     /\ h.status = "active"
                                     /\ h.epoch <= pending.next.epoch
                                     /\ h.epoch = e
        <5>1. CASE e = pending.next.epoch
          BY <1>1, <4>1, <5>1
        <5>2. CASE e \in 1 .. current.epoch
          BY <3>1, <3>2, <4>1, <5>2 DEF Lineage
        <5> QED
          BY <4>1, <5>1, <5>2
      <4> QED
        BY <1>1, <4>2 DEF CurrentIsFrozen, Lineage
    <3> QED
      BY <1>4, <2>2, <3>3, <3>4
  <2> QED
    BY <2>1, <2>2
<1>12. PastFits'
  <2>1. pending.next \in past' /\ past' \subseteq history
    BY <1>1 DEF PastFits
  <2>2. ASSUME NEW h \in past'
        PROVE  IF h.att = pending.next.att THEN h.epoch <= pending.next.epoch
                                           ELSE journal[h.att].done
    <3>1. pending.next.epoch <= pending.next.epoch
      BY <1>2 DEF Lease
    <3>2. CASE h = pending.next
      BY <3>1, <3>2
    <3>3. CASE h \in past /\ pending.kind = "initial"
      <4>1. current # None
        BY <3>3 DEF PastFits
      <4>2. current.status = "retired" /\ current.att # pending.next.att
        BY <1>1, <3>3, <4>1 DEF Settles, InitialAllowed
      <4>3. journal[h.att].done
        BY <3>3, <4>1, <4>2 DEF PastFits, Is
      <4>4. h.att # pending.next.att
        BY <1>7, <3>3, <4>2 DEF EnvelopeFits
      <4> QED
        BY <4>3, <4>4
    <3>4. CASE h \in past /\ pending.kind # "initial"
      <4>1. current # None /\ current \in Lease /\ h \in Lease
            /\ current.att = pending.next.att
        BY <1>1, <1>3, <1>5, <3>4 DEF IntentFits, TypeOK, Is
      <4>2. h.epoch \in Nat /\ current.epoch \in Nat
        BY <4>1 DEF Lease
      <4>3. current.epoch <= pending.next.epoch
        BY <1>1, <1>3, <1>4, <1>6, <3>4, <4>2 DEF IntentFits
      <4> QED
        BY <1>2, <3>4, <4>1, <4>2, <4>3 DEF PastFits, Lease
    <3> QED
      BY <1>1, <3>2, <3>3, <3>4
  <2>3. pending.next.status = "retired" => journal[pending.next.att].done
    <3>1. pending.next.status = "retired" => pending.kind = "retire"
      BY <1>3, <1>4 DEF IntentFits
    <3>2. pending.kind = "retire" =>
              journal[current.att].done /\ pending.next.att = current.att
      BY <1>1, <1>3 DEF Settles, TerminalBinding, IntentFits
    <3> QED
      BY <3>1, <3>2
  <2> QED
    BY <1>1, <1>2, <2>1, <2>2, <2>3 DEF PastFits, Is
<1>13. PendingSettles'
  BY <1>1
     DEF PendingSettles, Settles, InitialAllowed, Tombstone, RetiredFrom,
         ActiveLineage, Lineage, TerminalBinding, Binds, Window
<1> QED
  BY <1>8, <1>9, <1>10, <1>11, <1>12, <1>13

\* What is cleared was swapped before: no record is left that was not current.
LEMMA ClearStep ==
    ASSUME IInv, NEW c \in Controllers, ClearPending(c)
    PROVE  PendingFits' /\ PastFits' /\ EnvelopeFits' /\ LeaseSound'
<1> USE DEF IInv, LeaseSound
<1>1. /\ pending # None /\ current = pending.next /\ current # None
      /\ pending' = None /\ lock' = None
      /\ UNCHANGED <<envelope, journal, evidence, current, history, past>>
  <2>1. pending.next # None
    BY LeaseAssumed DEF ClearPending, Settling, TypeOK, Intent, LeaseAssumption
  <2> QED
    BY <2>1 DEF ClearPending, Settling, boot, records
<1>2. PendingFits' /\ PendingSettles'
  BY <1>1 DEF PendingFits, PendingSettles
<1>3. PastFits' /\ EnvelopeFits' /\ EnvelopeFollowsLease'
  BY <1>1 DEF PastFits, EnvelopeFits, EnvelopeFollowsLease, Is
<1>4. NoOrphan'
  <2>1. current \in past
    BY <1>1 DEF PastFits
  <2> QED
    BY <1>1, <2>1 DEF NoOrphan
<1>5. CurrentIsFrozen' /\ FencedJournal'
  BY <1>1 DEF CurrentIsFrozen, Lineage, FencedJournal
<1> QED
  BY <1>2, <1>3, <1>4, <1>5

\* Every operation, crash and failed write keeps the invariant.
LEMMA IInvNext == IInv /\ [Next]_vars => IInv'
<1> SUFFICES ASSUME IInv, [Next]_vars
             PROVE  IInv'
  OBVIOUS
<1> DEFINE Rest == PendingFits /\ PastFits /\ EnvelopeFits /\ LeaseSound
<1>1. TypeOK'
  BY TypeNext
<1>2. ASSUME NEW a \in Attempts, Reserve(a) \/ Genesis(a) \/ Seal(a)
      PROVE  Rest'
  BY <1>2, Unmoved
     DEF Reserve, Genesis, Seal, records, IInv, PendingFits
<1>3. ASSUME NEW a \in Attempts, PublishEnvelope(a)
      PROVE  Rest'
  BY <1>3, EnvelopeStep
<1>4. ASSUME NEW c \in Controllers,
             Load(c) \/ Enter(c) \/ Crash(c) \/ WriteFails(c)
      PROVE  Rest'
  <2>1. UNCHANGED <<envelope, journal, evidence, lease>>
    BY <1>4 DEF Load, Enter, Crash, WriteFails, boot, records
  <2>2. lock' # None => pending # None /\ (lock'.own => lock' = lock)
    BY <1>4 DEF Load, Enter, Crash, WriteFails, Unlocked, IInv, PendingFits
  <2> QED
    BY <2>1, <2>2, Unmoved
<1>5. ASSUME NEW c \in Controllers,
             \/ AcquireInitial(c) \/ RetireCurrent(c)
             \/ \E early \in BOOLEAN : TakeOver(c, early)
      PROVE  Rest'
  BY <1>5, PrepareStep
<1>6. ASSUME NEW c \in Controllers,
             FreezeHistory(c) \/ SwapCurrent(c) \/ ClearPending(c)
      PROVE  Rest'
  BY <1>6, FreezeStep, SwapStep, ClearStep
<1>7. ASSUME NEW c \in Controllers,
             \/ WriteAttempt(c) \/ AppendAction(c) \/ WriteEvidence(c)
             \/ CompleteJournal(c)
      PROVE  Rest'
  BY <1>7, RecordStep
<1>8. ASSUME NEW c \in Controllers, ClearEnvelope(c)
      PROVE  Rest'
  BY <1>8, EnvelopeStep
<1>9. ASSUME UNCHANGED vars
      PROVE  Rest'
  <2>1. UNCHANGED <<envelope, journal, evidence, lease>> /\ UNCHANGED lock
    BY <1>9 DEF vars, boot, records
  <2>2. lock' # None => pending # None /\ (lock'.own => lock' = lock)
    BY <2>1 DEF IInv, PendingFits
  <2> QED
    BY <2>1, <2>2, Unmoved
<1> HIDE DEF Rest
<1>10. Rest'
  <2>1. ASSUME NEW a \in Attempts,
               Reserve(a) \/ Genesis(a) \/ Seal(a) \/ PublishEnvelope(a)
        PROVE  Rest'
    BY <2>1, <1>2, <1>3
  <2>2. ASSUME NEW c \in Controllers,
               \/ Load(c) \/ AcquireInitial(c) \/ RetireCurrent(c) \/ Settle(c)
               \/ \E early \in BOOLEAN : TakeOver(c, early)
               \/ WriteAttempt(c) \/ AppendAction(c) \/ WriteEvidence(c)
               \/ CompleteJournal(c) \/ ClearEnvelope(c) \/ Crash(c)
               \/ WriteFails(c)
        PROVE  Rest'
    BY <2>2, <1>4, <1>5, <1>6, <1>7, <1>8 DEF Settle
  <2> QED
    BY <2>1, <2>2, <1>9 DEF Next
<1> QED
  BY <1>1, <1>10 DEF IInv, Rest

\* Whatever controllers, crashes and late writers do to the store, between any
\* two of its writes: the pointer, the history, the pending transition, the
\* journals and the envelope agree.
THEOREM Invariance == Spec => []IInv
<1> QED
  BY IInvInit, IInvNext, PTL DEF Spec

\* The records of the store keep their shapes.
THEOREM TypeCorrect == Spec => []TypeOK
<1>1. IInv => TypeOK
  BY DEF IInv
<1> QED
  BY <1>1, Invariance, PTL

\* ControlLeaseStore: one controller acts at a time, under a lease that the
\* immutable history explains back to the first of its attempt; a transition
\* that a crash left can be settled; a journal has no record of an overtaken
\* controller behind one of its successor; and the envelope stays with the
\* attempt whose lease is active.
THEOREM LeaseIsSound == Spec => []LeaseSound
<1>1. IInv => LeaseSound
  BY DEF IInv
<1> QED
  BY <1>1, Invariance, PTL

\* require_initial_predecessor: what replaces a tombstone is the first lease of
\* another attempt.
THEOREM RetiredStaysRetired == Spec => RetiredForGood
<1>1. IInv /\ [Next]_vars =>
          [Is(current, "retired") /\ current' # current =>
              current'.att # current.att]_current
  <2> SUFFICES ASSUME IInv, [Next]_vars, Is(current, "retired"),
                      current' # current
               PROVE  current'.att # current.att
    OBVIOUS
  <2>1. PICK c \in Controllers : SwapCurrent(c)
    BY DEF Next, Settle, vars, lease, Reserve, Genesis, Seal,
           PublishEnvelope, Load, AcquireInitial, RetireCurrent, TakeOver,
           Prepare, Enter, FreezeHistory, ClearPending, WriteAttempt,
           AppendAction, WriteEvidence, CompleteJournal, ClearEnvelope,
           Crash, WriteFails
  <2>2. /\ pending # None /\ Settles(pending)
        /\ current = pending.expected /\ current' = pending.next
    BY <2>1 DEF SwapCurrent, Settling
  <2>3. pending.kind = "initial"
    BY <2>2 DEF IInv, PendingFits, IntentFits, Is
  <2> QED
    BY <2>2, <2>3 DEF Settles, InitialAllowed, Is
<1> QED
  BY <1>1, Invariance, PTL DEF Spec, RetiredForGood

-----------------------------------------------------------------------------
(***************************************************************************)
(* The gates of a deployment.                                              *)
(***************************************************************************)
\* A list of steps behind another one has the steps of both.
LEMMA HasConcat ==
  ASSUME NEW S, NEW s \in Seq(S), NEW t \in Seq(S), NEW what
  PROVE  /\ s \o t \in Seq(S)
         /\ DeploymentGates!Has(s \o t, what)
              <=> DeploymentGates!Has(s, what) \/ DeploymentGates!Has(t, what)
<1>1. ASSUME NEW i \in DOMAIN s, s[i][1] = what
      PROVE  DeploymentGates!Has(s \o t, what)
  <2>1. i \in DOMAIN (s \o t) /\ (s \o t)[i] = s[i]
    OBVIOUS
  <2> QED
    BY <1>1, <2>1 DEF DeploymentGates!Has
<1>2. ASSUME NEW i \in DOMAIN t, t[i][1] = what
      PROVE  DeploymentGates!Has(s \o t, what)
  <2>1. Len(s) + i \in DOMAIN (s \o t) /\ (s \o t)[Len(s) + i] = t[i]
    OBVIOUS
  <2> QED
    BY <1>2, <2>1 DEF DeploymentGates!Has
<1>3. ASSUME NEW i \in DOMAIN (s \o t), (s \o t)[i][1] = what
      PROVE  DeploymentGates!Has(s, what) \/ DeploymentGates!Has(t, what)
  <2>1. CASE i \in DOMAIN s
    BY <1>3, <2>1 DEF DeploymentGates!Has
  <2>2. CASE i \notin DOMAIN s
    <3>1. i - Len(s) \in DOMAIN t /\ (s \o t)[i] = t[i - Len(s)]
      BY <2>2
    <3> QED
      BY <1>3, <3>1 DEF DeploymentGates!Has
  <2> QED
    BY <2>1, <2>2
<1> QED
  BY <1>1, <1>2, <1>3 DEF DeploymentGates!Has

\* What leads in a list leads in it with more behind, if it is in the list or
\* leads in what is behind.
LEMMA LeadsConcat ==
  ASSUME NEW S, NEW s \in Seq(S), NEW t \in Seq(S), NEW first, NEW then,
         DeploymentGates!Leads(s, first, then),
         \/ DeploymentGates!Has(s, first)
         \/ DeploymentGates!Leads(t, first, then)
  PROVE  DeploymentGates!Leads(s \o t, first, then)
<1> SUFFICES ASSUME NEW i \in DOMAIN (s \o t), (s \o t)[i][1] = then
             PROVE  \E j \in DOMAIN (s \o t) : j < i /\ (s \o t)[j][1] = first
  BY DEF DeploymentGates!Leads
<1>1. CASE i \in DOMAIN s
  <2>1. PICK j \in DOMAIN s : j < i /\ s[j][1] = first
    BY <1>1 DEF DeploymentGates!Leads
  <2>2. j \in DOMAIN (s \o t) /\ (s \o t)[j] = s[j]
    OBVIOUS
  <2> QED
    BY <2>1, <2>2
<1>2. CASE i \notin DOMAIN s /\ DeploymentGates!Has(s, first)
  <2>1. PICK j \in DOMAIN s : s[j][1] = first
    BY <1>2 DEF DeploymentGates!Has
  <2>2. j \in DOMAIN (s \o t) /\ (s \o t)[j] = s[j] /\ j < i
    BY <1>2
  <2> QED
    BY <2>1, <2>2
<1>3. CASE i \notin DOMAIN s /\ DeploymentGates!Leads(t, first, then)
  <2>1. i - Len(s) \in DOMAIN t /\ (s \o t)[i] = t[i - Len(s)]
    BY <1>3
  <2>2. PICK j \in DOMAIN t : j < i - Len(s) /\ t[j][1] = first
    BY <1>3, <2>1 DEF DeploymentGates!Leads
  <2>3. /\ Len(s) + j \in DOMAIN (s \o t) /\ (s \o t)[Len(s) + j] = t[j]
        /\ Len(s) + j < i
    BY <2>2
  <2> QED
    BY <2>2, <2>3
<1> QED
  BY <1>1, <1>2, <1>3

\* What is not in a list needs no leader in it.
LEMMA LeadsNone ==
  ASSUME NEW s, NEW first, NEW then, ~DeploymentGates!Has(s, then)
  PROVE  DeploymentGates!Leads(s, first, then)
  BY DEF DeploymentGates!Has, DeploymentGates!Leads

\* What is left of a list has no other steps, and what led still leads unless
\* it was done.
LEMMA TailFits ==
  ASSUME NEW S, NEW s \in Seq(S), s # << >>
  PROVE  /\ Tail(s) \in Seq(S) /\ Head(s) \in S
         /\ \A what : DeploymentGates!Has(Tail(s), what)
               => DeploymentGates!Has(s, what)
         /\ \A what : Head(s)[1] = what => DeploymentGates!Has(s, what)
         /\ \A first, then :
               DeploymentGates!Leads(s, first, then)
               => /\ Head(s)[1] # then
                  /\ Head(s)[1] # first
                       => DeploymentGates!Leads(Tail(s), first, then)
<1>1. \A i \in DOMAIN Tail(s) : i + 1 \in DOMAIN s /\ Tail(s)[i] = s[i + 1]
  OBVIOUS
<1>2. 1 \in DOMAIN s /\ Head(s) = s[1] /\ Tail(s) \in Seq(S) /\ Head(s) \in S
  OBVIOUS
<1>3. ASSUME NEW first, NEW then, DeploymentGates!Leads(s, first, then)
      PROVE  Head(s)[1] # then
  BY <1>2, <1>3 DEF DeploymentGates!Leads
<1>4. ASSUME NEW first, NEW then, DeploymentGates!Leads(s, first, then),
             Head(s)[1] # first
      PROVE  DeploymentGates!Leads(Tail(s), first, then)
  <2> SUFFICES ASSUME NEW i \in DOMAIN Tail(s), Tail(s)[i][1] = then
               PROVE  \E j \in DOMAIN Tail(s) : j < i /\ Tail(s)[j][1] = first
    BY DEF DeploymentGates!Leads
  <2>1. PICK j \in DOMAIN s : j < i + 1 /\ s[j][1] = first
    BY <1>1, <1>4 DEF DeploymentGates!Leads
  <2>2. j # 1
    BY <1>2, <1>4, <2>1
  <2>3. j - 1 \in DOMAIN Tail(s) /\ Tail(s)[j - 1] = s[j] /\ j - 1 < i
    BY <2>1, <2>2
  <2> QED
    BY <2>1, <2>3
<1>5. ASSUME NEW what, DeploymentGates!Has(Tail(s), what)
      PROVE  DeploymentGates!Has(s, what)
  BY <1>1, <1>5 DEF DeploymentGates!Has
<1> QED
  BY <1>2, <1>3, <1>4, <1>5 DEF DeploymentGates!Has

\* One step for each unit, and one step.
LEMMA EachFits ==
  ASSUME NEW S, NEW us \in Seq(S), NEW name, NEW what
  PROVE  /\ DeploymentGates!Each(name, us) \in Seq({name} \X S)
         /\ DeploymentGates!Has(DeploymentGates!Each(name, us), what)
              => what = name
  BY DEF DeploymentGates!Each, DeploymentGates!Has

\* A single step is a plan of one.
LEMMA DoFits ==
  ASSUME NEW name, NEW what
  PROVE  /\ DeploymentGates!Do(name) \in Seq({name} \X {None})
         /\ DeploymentGates!Has(DeploymentGates!Do(name), what)
              <=> what = name
<1>1. DeploymentGates!Do(name) = << <<name, None>> >>
  BY DEF DeploymentGates!Do
<1>2. DOMAIN DeploymentGates!Do(name) = {1}
      /\ DeploymentGates!Do(name)[1] = <<name, None>>
  BY <1>1
<1> QED
  BY <1>1, <1>2 DEF DeploymentGates!Has

\* A list of some steps is a list of steps.
LEMMA SeqGrows ==
  ASSUME NEW S, NEW T, S \subseteq T, NEW s \in Seq(S)
  PROVE  s \in Seq(T)
  OBVIOUS

\* Each list that a call is made of has steps of the kinds we know.
LEMMA PartsFit ==
  ASSUME DeploymentGates!GatesAssumption
  PROVE  /\ DeploymentGates!Each("install", GuardedUnits)
            \in Seq(DeploymentGates!Steps)
         /\ DeploymentGates!Each("stop", StoppedUnits)
            \in Seq(DeploymentGates!Steps)
         /\ << <<"installGate", WebHook>> >> \in Seq(DeploymentGates!Steps)
         /\ \A what :
              DeploymentGates!Has(<< <<"installGate", WebHook>> >>, what)
               <=> what = "installGate"
<1>1. DeploymentGates!Each("install", GuardedUnits)
      \in Seq(DeploymentGates!Steps)
  <2>1. DeploymentGates!Each("install", GuardedUnits)
        \in Seq({"install"} \X DeploymentGates!All)
    BY EachFits DEF DeploymentGates!GatesAssumption, DeploymentGates!All
  <2>2. {"install"} \X DeploymentGates!All \subseteq DeploymentGates!Steps
    BY DEF DeploymentGates!Steps
  <2> QED
    BY <2>1, <2>2, SeqGrows
<1>2. DeploymentGates!Each("stop", StoppedUnits) \in Seq(DeploymentGates!Steps)
  <2>1. DeploymentGates!Each("stop", StoppedUnits)
          \in Seq({"stop"} \X DeploymentGates!ToSet(StoppedUnits))
    BY EachFits DEF DeploymentGates!GatesAssumption
  <2>2. {"stop"} \X DeploymentGates!ToSet(StoppedUnits)
          \subseteq DeploymentGates!Steps
    BY DEF DeploymentGates!Steps
  <2> QED
    BY <2>1, <2>2, SeqGrows
<1>3. /\ << <<"installGate", WebHook>> >> \in Seq(DeploymentGates!Steps)
      /\ \A what : DeploymentGates!Has(<< <<"installGate", WebHook>> >>, what)
            <=> what = "installGate"
  <2>1. <<"installGate", WebHook>> \in DeploymentGates!Steps
    BY DEF DeploymentGates!Steps
  <2>2. DOMAIN << <<"installGate", WebHook>> >> = {1}
    OBVIOUS
  <2>3. << <<"installGate", WebHook>> >>[1] = <<"installGate", WebHook>>
    OBVIOUS
  <2> QED
    BY <2>1, <2>2, <2>3 DEF DeploymentGates!Has
<1> QED
  BY <1>1, <1>2, <1>3

\* A step without a unit is a list of one step.
LEMMA DoIsStep ==
  ASSUME NEW name \in {"reload", "conditions", "mark", "prove", "prepare",
               "noIngress", "closed", "condition", "close", "guarded",
               "gated", "staged", "unmark", "open"}
  PROVE  DeploymentGates!Do(name) \in Seq(DeploymentGates!Steps)
<1>1. {name} \X {None} \subseteq DeploymentGates!Steps
  BY DEF DeploymentGates!Steps
<1>2. DeploymentGates!Do(name) \in Seq({name} \X {None})
  BY DoFits
<1> QED
  BY <1>1, <1>2, SeqGrows

\* One more step behind a list.
LEMMA OneMore ==
  ASSUME DeploymentGates!GatesAssumption, NEW s \in Seq(DeploymentGates!Steps),
         NEW name \in {"reload", "conditions", "mark", "prove", "prepare",
               "noIngress", "closed", "condition", "close", "guarded",
               "gated", "staged", "unmark", "open"}
  PROVE  /\ s \o DeploymentGates!Do(name) \in Seq(DeploymentGates!Steps)
         /\ \A what :
              DeploymentGates!Has(s \o DeploymentGates!Do(name),
                  what) <=> DeploymentGates!Has(s, what) \/ what = name
         /\ DeploymentGates!Has(s, "reload") \/ name # "closed" =>
               (DeploymentGates!Leads(s, "reload", "closed")
                  => DeploymentGates!Leads(s \o DeploymentGates!Do(name),
                      "reload", "closed"))
         /\ DeploymentGates!Has(s, "mark") \/ name # "noIngress" =>
               (DeploymentGates!Leads(s, "mark", "noIngress")
                  => DeploymentGates!Leads(s \o DeploymentGates!Do(name),
                      "mark", "noIngress"))
         /\ DeploymentGates!Has(s, "gated") \/ name # "unmark" =>
               (DeploymentGates!Leads(s, "gated", "unmark")
                  => DeploymentGates!Leads(s \o DeploymentGates!Do(name),
                      "gated", "unmark"))
<1>1. DeploymentGates!Do(name) \in Seq(DeploymentGates!Steps)
  BY DoIsStep
<1>2. \A what : DeploymentGates!Has(DeploymentGates!Do(name), what) <=> what
      = name
  BY DoFits
<1>3. \A what :
        DeploymentGates!Has(s \o DeploymentGates!Do(name),
            what) <=> DeploymentGates!Has(s, what) \/ what = name
  BY <1>1, <1>2, HasConcat
<1>4. ASSUME NEW first, NEW then, DeploymentGates!Has(s, first) \/ name # then,
             DeploymentGates!Leads(s, first, then)
      PROVE  DeploymentGates!Leads(s \o DeploymentGates!Do(name), first, then)
  <2>1. name # then
        => DeploymentGates!Leads(DeploymentGates!Do(name), first, then)
    BY <1>2, LeadsNone
  <2> QED
    BY <1>1, <1>4, <2>1, LeadsConcat
<1>5. s \o DeploymentGates!Do(name) \in Seq(DeploymentGates!Steps)
  BY <1>1, HasConcat
<1> QED
  BY <1>3, <1>4, <1>5

\* Nothing relies on anything in a call that is over.
LEMMA NothingLeft ==
  /\ << >> \in Seq(DeploymentGates!Steps)
     /\ \A what : ~DeploymentGates!Has(<< >>, what)
  /\ \A first, then : DeploymentGates!Leads(<< >>, first, then)
<1>1. DOMAIN << >> = {}
  OBVIOUS
<1> QED
  BY <1>1 DEF DeploymentGates!Has, DeploymentGates!Leads

\* restore_maintenance_closed reloads and marks before it takes a gate away
\* and before it returns.
LEMMA RestoreFits ==
  ASSUME DeploymentGates!GatesAssumption
  PROVE  /\ DeploymentGates!Restore \in Seq(DeploymentGates!Steps)
            /\ DeploymentGates!Restore # << >>
         /\ ~DeploymentGates!Has(DeploymentGates!Restore, "unmark")
         /\ DeploymentGates!Leads(DeploymentGates!Restore, "reload", "closed")
         /\ DeploymentGates!Leads(DeploymentGates!Restore, "mark", "noIngress")
<1> DEFINE installs == DeploymentGates!Each("install", GuardedUnits)
           first == installs \o DeploymentGates!Do("reload")
           second == first \o DeploymentGates!Do("conditions")
           halts == DeploymentGates!Each("stop", StoppedUnits)
           stops == halts \o DeploymentGates!Do("prove")
           stopped == stops \o DeploymentGates!Do("prepare")
           both == DeploymentGates!Activate \o DeploymentGates!Quiesce
           opened == both \o DeploymentGates!Do("noIngress")
<1>1. /\ installs \in Seq(DeploymentGates!Steps)
      /\ \A what : DeploymentGates!Has(installs, what) => what = "install"
  BY PartsFit, EachFits DEF DeploymentGates!GatesAssumption,
                            DeploymentGates!All
<1>2. /\ halts \in Seq(DeploymentGates!Steps)
      /\ \A what : DeploymentGates!Has(halts, what) => what = "stop"
  BY PartsFit, EachFits DEF DeploymentGates!GatesAssumption
<1>3. DeploymentGates!Activate = second \o DeploymentGates!Do("mark")
      /\ DeploymentGates!Quiesce = stopped \o DeploymentGates!Do("prove")
  BY DEF DeploymentGates!Activate, DeploymentGates!Quiesce
<1> HIDE DEF installs, halts
<1>4. /\ first \in Seq(DeploymentGates!Steps)
         /\ DeploymentGates!Has(first, "reload")
      /\ \A what : DeploymentGates!Has(first, what)
         => what \in {"install", "reload"}
  BY <1>1, OneMore
<1> HIDE DEF first
<1>5. /\ second \in Seq(DeploymentGates!Steps)
         /\ DeploymentGates!Has(second, "reload")
      /\ \A what : DeploymentGates!Has(second, what)
            => what \in {"install", "reload", "conditions"}
  BY <1>4, OneMore
<1> HIDE DEF second
<1>6. /\ DeploymentGates!Activate \in Seq(DeploymentGates!Steps)
         /\ DeploymentGates!Has(DeploymentGates!Activate, "reload")
      /\ DeploymentGates!Has(DeploymentGates!Activate, "mark")
      /\ \A what : DeploymentGates!Has(DeploymentGates!Activate, what)
            => what \in {"install", "reload", "conditions", "mark"}
  BY <1>3, <1>5, OneMore
<1>7. /\ stops \in Seq(DeploymentGates!Steps)
      /\ \A what : DeploymentGates!Has(stops, what)
         => what \in {"stop", "prove"}
  BY <1>2, OneMore
<1> HIDE DEF stops
<1>8. /\ stopped \in Seq(DeploymentGates!Steps)
      /\ \A what : DeploymentGates!Has(stopped, what)
         => what \in {"stop", "prove", "prepare"}
  BY <1>7, OneMore, NothingLeft
<1> HIDE DEF stopped
<1>9. /\ DeploymentGates!Quiesce \in Seq(DeploymentGates!Steps)
      /\ \A what : DeploymentGates!Has(DeploymentGates!Quiesce, what)
         => what \in {"stop", "prove", "prepare"}
  BY <1>3, <1>8, OneMore, NothingLeft
<1>10. /\ both \in Seq(DeploymentGates!Steps)
       /\ \A what :
            DeploymentGates!Has(both,
                what) <=> DeploymentGates!Has(DeploymentGates!Activate, what)
                  \/ DeploymentGates!Has(DeploymentGates!Quiesce, what)
  BY <1>6, <1>9, HasConcat
<1>11. /\ DeploymentGates!Has(both, "reload")
          /\ DeploymentGates!Has(both, "mark")
             /\ ~DeploymentGates!Has(both, "unmark")
       /\ ~DeploymentGates!Has(both, "closed")
          /\ ~DeploymentGates!Has(both, "noIngress")
  <2> HIDE DEF both
  <2> QED
    BY <1>6, <1>9, <1>10
<1> HIDE DEF both
<1>12. DeploymentGates!Leads(both, "reload", "closed")
       /\ DeploymentGates!Leads(both, "mark", "noIngress")
  BY <1>11, LeadsNone
<1>13. /\ opened \in Seq(DeploymentGates!Steps)
          /\ DeploymentGates!Has(opened, "reload")
       /\ ~DeploymentGates!Has(opened, "unmark")
          /\ DeploymentGates!Leads(opened, "reload", "closed")
       /\ DeploymentGates!Leads(opened, "mark", "noIngress") 
  BY <1>10, <1>11, <1>12, OneMore
<1>14. DeploymentGates!Restore = opened \o DeploymentGates!Do("closed")
  BY DEF DeploymentGates!Restore, both
<1> HIDE DEF opened
<1> QED
  BY <1>13, <1>14, OneMore, NothingLeft

\* A hand-over asks the ingress gate before it takes the guard away, and does
\* nothing that it would have to undo.
LEMMA HandoffFits ==
  ASSUME DeploymentGates!GatesAssumption
  PROVE  /\ DeploymentGates!Handoff \in Seq(DeploymentGates!Steps)
            /\ DeploymentGates!Handoff # << >>
         /\ DeploymentGates!Leads(DeploymentGates!Handoff, "gated", "unmark")
         /\ \A what : DeploymentGates!Has(DeploymentGates!Handoff, what)
               => what \in {"guarded", "gated", "staged", "unmark"}
<1> DEFINE zero == DeploymentGates!Do("guarded")
           one == zero \o DeploymentGates!Do("gated")
           two == one \o DeploymentGates!Do("staged")
           three == two \o DeploymentGates!Do("unmark")
<1>1. zero \in Seq(DeploymentGates!Steps)
      /\ \A what : DeploymentGates!Has(zero, what) => what = "guarded"
  BY DoIsStep, DoFits
<1>2. DeploymentGates!Handoff = three \o DeploymentGates!Do("gated")
  BY DEF DeploymentGates!Handoff
<1> HIDE DEF zero
<1>3. /\ one \in Seq(DeploymentGates!Steps)
         /\ DeploymentGates!Has(one, "gated")
      /\ \A what : DeploymentGates!Has(one, what)
         => what \in {"guarded", "gated"}
  BY <1>1, OneMore
<1> HIDE DEF one
<1>4. /\ two \in Seq(DeploymentGates!Steps)
         /\ DeploymentGates!Has(two, "gated")
      /\ \A what : DeploymentGates!Has(two, what)
         => what \in {"guarded", "gated", "staged"}
  BY <1>3, OneMore
<1> HIDE DEF two
<1>5. DeploymentGates!Leads(two, "gated", "unmark")
  BY <1>4, LeadsNone
<1>6. /\ three \in Seq(DeploymentGates!Steps)
         /\ DeploymentGates!Has(three, "gated")
      /\ DeploymentGates!Leads(three, "gated", "unmark")
      /\ \A what : DeploymentGates!Has(three, what)
            => what \in {"guarded", "gated", "staged", "unmark"}
  BY <1>4, <1>5, OneMore
<1> HIDE DEF three
<1> QED
  BY <1>2, <1>6, OneMore, NothingLeft

\* The gate of the web hook is closed, and opened, without a step of the guard.
LEMMA IngressFits ==
  ASSUME DeploymentGates!GatesAssumption,
         NEW steps
           \in {DeploymentGates!ActivateIngress,
               DeploymentGates!DeactivateIngress}
  PROVE  /\ steps \in Seq(DeploymentGates!Steps) /\ steps # << >>
         /\ \A what
            \in {"noIngress", "closed", "unmark"} :
                ~DeploymentGates!Has(steps, what)
<1> DEFINE zero == << <<"installGate", WebHook>> >>
           one == zero \o DeploymentGates!Do("reload")
           two == one \o DeploymentGates!Do("condition")
           gated == DeploymentGates!Do("gated")
<1>1. zero \in Seq(DeploymentGates!Steps)
      /\ \A what : DeploymentGates!Has(zero, what) => what = "installGate"
  BY PartsFit
<1>2. gated \in Seq(DeploymentGates!Steps)
      /\ \A what : DeploymentGates!Has(gated, what) => what = "gated"
  BY DoIsStep, DoFits
<1>3. DeploymentGates!ActivateIngress = two \o DeploymentGates!Do("close")
  BY DEF DeploymentGates!ActivateIngress
<1>4. DeploymentGates!DeactivateIngress = gated \o DeploymentGates!Do("open")
  BY DEF DeploymentGates!DeactivateIngress
<1> HIDE DEF zero, gated
<1>5. /\ one \in Seq(DeploymentGates!Steps)
      /\ \A what : DeploymentGates!Has(one, what)
         => what \in {"installGate", "reload"}
  BY <1>1, OneMore
<1> HIDE DEF one
<1>6. /\ two \in Seq(DeploymentGates!Steps)
      /\ \A what : DeploymentGates!Has(two, what)
            => what \in {"installGate", "reload", "condition"}
  BY <1>5, OneMore
<1> HIDE DEF two
<1>7. CASE steps = DeploymentGates!ActivateIngress
  <2>1. /\ steps \in Seq(DeploymentGates!Steps)
           /\ DeploymentGates!Has(steps, "close")
        /\ \A what : DeploymentGates!Has(steps, what)
              => what \in {"installGate", "reload", "condition", "close"}
    BY <1>3, <1>6, <1>7, OneMore
  <2> QED
    BY ONLY <2>1, NothingLeft
<1>8. CASE steps = DeploymentGates!DeactivateIngress
  <2>1. /\ steps \in Seq(DeploymentGates!Steps)
           /\ DeploymentGates!Has(steps, "open")
        /\ \A what : DeploymentGates!Has(steps, what)
           => what \in {"gated", "open"}
    BY <1>2, <1>4, <1>8, OneMore
  <2> QED
    BY ONLY <2>1, NothingLeft
<1> QED
  BY <1>7, <1>8

\* A step that is done leaves the others, and the call returns after the last.
LEMMA DoneFits ==
  ASSUME DeploymentGates!IInv, gatePlan # None, gateTodo # << >>,
           DeploymentGates!Done
  PROVE  /\ gateTodo' \in Seq(DeploymentGates!Steps)
            /\ Head(gateTodo) \in DeploymentGates!Steps
         /\ gatePlan' \in {gatePlan, None}
            /\ (gatePlan' = None) = (gateTodo' = << >>)
         /\ \A first, then : DeploymentGates!Leads(gateTodo, first, then)
               => /\ Head(gateTodo)[1] # then
                  /\ Head(gateTodo)[1] # first
                     => DeploymentGates!Leads(gateTodo', first, then)
         /\ \A first, then : gatePlan' = None
            => DeploymentGates!Leads(gateTodo', first, then)
         /\ \A what : DeploymentGates!Has(gateTodo', what)
            => DeploymentGates!Has(gateTodo, what)
         /\ \A what : Head(gateTodo)[1] = what
            => DeploymentGates!Has(gateTodo, what)
         /\ \A first, what : ~DeploymentGates!Has(gateTodo, what)
            => DeploymentGates!Leads(gateTodo', first, what)
<1>1. gateTodo \in Seq(DeploymentGates!Steps)
  BY DEF DeploymentGates!IInv, DeploymentGates!CallFits
<1>2. gateTodo' = Tail(gateTodo)
      /\ gatePlan' = IF Len(gateTodo) = 1 THEN None ELSE gatePlan
  BY DEF DeploymentGates!Done
<1>3. (gatePlan' = None) = (gateTodo' = << >>)
  <2>1. CASE Len(gateTodo) = 1
    BY <1>1, <1>2, <2>1
  <2>2. CASE Len(gateTodo) # 1
    <3>1. Len(Tail(gateTodo)) = Len(gateTodo) - 1 /\ Len(gateTodo) \in Nat
      BY <1>1
    <3>2. Len(Tail(gateTodo)) # 0
      BY <2>2, <3>1
    <3>3. Tail(gateTodo) # << >>
      BY ONLY <3>2, Len(<< >>) = 0
    <3> QED
      BY <1>2, <2>2, <3>3
  <2> QED
    BY <2>1, <2>2
<1>4. ASSUME gatePlan' = None
      PROVE  \A first, then : DeploymentGates!Leads(gateTodo', first, then)
  <2>1. gateTodo' = << >>
    BY <1>3, <1>4
  <2>2. DOMAIN gateTodo' = {}
    BY <2>1
  <2> QED
    BY <2>2 DEF DeploymentGates!Leads
<1>5. /\ Tail(gateTodo) \in Seq(DeploymentGates!Steps)
         /\ Head(gateTodo) \in DeploymentGates!Steps
      /\ \A what : DeploymentGates!Has(Tail(gateTodo), what)
         => DeploymentGates!Has(gateTodo, what)
      /\ \A what : Head(gateTodo)[1] = what
         => DeploymentGates!Has(gateTodo, what)
      /\ \A first, then : DeploymentGates!Leads(gateTodo, first, then)
            => /\ Head(gateTodo)[1] # then
               /\ Head(gateTodo)[1] # first
                  => DeploymentGates!Leads(Tail(gateTodo), first, then)
  BY ONLY <1>1, gateTodo # << >>, TailFits
<1>6. \A what : DeploymentGates!Has(gateTodo', what)
      => DeploymentGates!Has(gateTodo, what)
  BY <1>2, <1>5
<1>7. \A first, what : ~DeploymentGates!Has(gateTodo, what)
      => DeploymentGates!Leads(gateTodo', first, what)
  BY <1>6, LeadsNone
<1> QED
  BY <1>2, <1>3, <1>4, <1>5, <1>6, <1>7

\* A call goes on: a step that it relies on was done, or is still to come, or
\* what relies on it is not.
LEMMA CallGoesOn ==
  ASSUME DeploymentGates!IInv, gatePlan # None, gateTodo # << >>,
           DeploymentGates!Done,
         \/ DeploymentGates!Synced'
         \/ ~DeploymentGates!Synced /\ Head(gateTodo)[1] # "reload"
         \/ ~DeploymentGates!Has(gateTodo, "closed"),
         \/ guard' = gatePlan
         \/ guard # gatePlan /\ Head(gateTodo)[1] # "mark"
         \/ ~DeploymentGates!Has(gateTodo, "noIngress"),
         \/ ingress' = gatePlan /\ "ingress" \in gateLoaded[WebHook].ours'
         \/ ~DeploymentGates!Gated /\ Head(gateTodo)[1] # "gated"
         \/ ~DeploymentGates!Has(gateTodo, "unmark")
  PROVE  DeploymentGates!CallFits'
<1>0. /\ \/ DeploymentGates!Synced'
         \/ ~DeploymentGates!Synced /\ Head(gateTodo)[1] # "reload"
         \/ ~DeploymentGates!Has(gateTodo, "closed")
      /\ \/ guard' = gatePlan
         \/ guard # gatePlan /\ Head(gateTodo)[1] # "mark"
         \/ ~DeploymentGates!Has(gateTodo, "noIngress")
      /\ \/ ingress' = gatePlan /\ "ingress" \in gateLoaded[WebHook].ours'
         \/ ~DeploymentGates!Gated /\ Head(gateTodo)[1] # "gated"
         \/ ~DeploymentGates!Has(gateTodo, "unmark")
  OBVIOUS
<1>1. /\ gateTodo' \in Seq(DeploymentGates!Steps)
      /\ gatePlan' \in {gatePlan, None}
         /\ (gatePlan' = None) = (gateTodo' = << >>)
      /\ \A first, then : DeploymentGates!Leads(gateTodo, first, then)
            => (Head(gateTodo)[1] # first
                => DeploymentGates!Leads(gateTodo', first, then))
      /\ \A first, then : gatePlan' = None
         => DeploymentGates!Leads(gateTodo', first, then)
      /\ \A what : DeploymentGates!Has(gateTodo', what)
         => DeploymentGates!Has(gateTodo, what)
      /\ \A first, what : ~DeploymentGates!Has(gateTodo, what)
         => DeploymentGates!Leads(gateTodo', first, what)
  BY DoneFits
<1>2. /\ DeploymentGates!Synced
         \/ DeploymentGates!Leads(gateTodo, "reload", "closed")
      /\ guard = gatePlan
         \/ DeploymentGates!Leads(gateTodo, "mark", "noIngress")
      /\ DeploymentGates!Gated
         \/ DeploymentGates!Leads(gateTodo, "gated", "unmark")
      /\ DeploymentGates!Has(gateTodo, "unmark") =>
            \A what \in {"mark", "noIngress", "closed", "close", "open"} :
               ~DeploymentGates!Has(gateTodo, what)
  BY DEF DeploymentGates!IInv, DeploymentGates!CallFits
<1>3. ASSUME NEW first, NEW then, DeploymentGates!Leads(gateTodo, first, then),
             Head(gateTodo)[1] # first
      PROVE  DeploymentGates!Leads(gateTodo', first, then)
  BY ONLY <1>1, <1>3, Zenon
<1>4. ASSUME NEW first, NEW then, ~DeploymentGates!Has(gateTodo, then)
      PROVE  DeploymentGates!Leads(gateTodo', first, then)
  BY ONLY <1>1, <1>4, Zenon
<1>5. DeploymentGates!Synced'
      \/ DeploymentGates!Leads(gateTodo', "reload", "closed")
  BY ONLY <1>0, <1>2, <1>3, <1>4
<1>6. guard' = gatePlan'
      \/ DeploymentGates!Leads(gateTodo', "mark", "noIngress")
  <2>1. CASE gatePlan' = None
    BY ONLY <1>1, <2>1
  <2>2. CASE gatePlan' = gatePlan
    BY ONLY <1>0, <1>2, <1>3, <1>4, <2>2
  <2> QED
    BY ONLY <1>1, <2>1, <2>2
<1>7. DeploymentGates!Gated'
      \/ DeploymentGates!Leads(gateTodo', "gated", "unmark")
  <2>1. CASE gatePlan' = None
    BY ONLY <1>1, <2>1
  <2>2. CASE gatePlan' = gatePlan
    <3>1. ingress' = gatePlan /\ "ingress" \in gateLoaded[WebHook].ours'
          => DeploymentGates!Gated'
      BY <2>2 DEF DeploymentGates!Gated
    <3> QED
      BY ONLY <1>0, <1>2, <1>3, <1>4, <3>1
  <2> QED
    BY ONLY <1>1, <2>1, <2>2
<1>8. ASSUME DeploymentGates!Has(gateTodo', "unmark"),
             NEW what \in {"mark", "noIngress", "closed", "close", "open"}
      PROVE  ~DeploymentGates!Has(gateTodo', what)
  <2>1. DeploymentGates!Has(gateTodo, "unmark")
        /\ (DeploymentGates!Has(gateTodo', what)
             => DeploymentGates!Has(gateTodo, what))
    BY ONLY <1>1, <1>8, Zenon
  <2> QED
    BY ONLY <1>2, <1>8, <2>1
<1> QED
  BY <1>1, <1>5, <1>6, <1>7, <1>8 DEF DeploymentGates!CallFits

\* Before the first deployment no drop-in of ours is there, and no marker.
LEMMA GatesInit ==
  ASSUME DeploymentGates!GatesAssumption, DeploymentGates!Init
  PROVE  DeploymentGates!IInv
<1> USE DEF DeploymentGates!GatesAssumption, DeploymentGates!Init
<1>1. DeploymentGates!TypeOK
  <2>1. conf \in [DeploymentGates!All -> [ours : SUBSET {"guard", "ingress"},
                          other : {"none", "resets", "harmless"}]]
    OBVIOUS
  <2>2. gateRun \in [DeploymentGates!All -> {"on", "off", "left"}]
    OBVIOUS
  <2>3. quiet \in BOOLEAN /\ shut \in BOOLEAN
    OBVIOUS
  <2> QED
    BY <2>1, <2>2, <2>3 DEF DeploymentGates!TypeOK
<1>2. DeploymentGates!CallFits
  BY NothingLeft DEF DeploymentGates!CallFits
<1>3. DeploymentGates!FilesFit /\ DeploymentGates!MarkersFit
  BY DEF DeploymentGates!FilesFit, DeploymentGates!MarkersFit
<1> QED
  BY <1>1, <1>2, <1>3 DEF DeploymentGates!IInv

\* Every step of systemd, of the administrator, of a call and of its death
\* keeps the inductive invariant, while drop-ins of others change between
\* calls only.
LEMMA GatesNext ==
  ASSUME DeploymentGates!GatesAssumption, DeploymentGates!IInv,
           [DeploymentGates!Next]_(DeploymentGates!vars)
  PROVE  DeploymentGates!IInv'
<1> USE DEF DeploymentGates!GatesAssumption, DeploymentGates!IInv,
            DeploymentGates!TypeOK, DeploymentGates!CallFits,
            DeploymentGates!FilesFit, DeploymentGates!MarkersFit,
            DeploymentGates!Synced, DeploymentGates!Gated,
            DeploymentGates!Stopped
<1>a. /\ conf
         \in [DeploymentGates!All -> [ours :
             SUBSET {"guard", "ingress"}, other :
                 {"none", "resets", "harmless"}]]
      /\ gateLoaded
         \in [DeploymentGates!All -> [ours :
             SUBSET {"guard", "ingress"}, other :
                 {"none", "resets", "harmless"}]]
      /\ gateRun \in [DeploymentGates!All -> {"on", "off", "left"}]
  OBVIOUS
<1>b. /\ DeploymentGates!ToSet(StoppedUnits) \subseteq DeploymentGates!All
         /\ WebHook \in DeploymentGates!All
      /\ None \notin GatePlans
  BY DEF DeploymentGates!All
<1> USE <1>a, <1>b
<1>1. ASSUME NEW u \in DeploymentGates!All, DeploymentGates!Start(u)
      PROVE  DeploymentGates!IInv'
  BY <1>1 DEF DeploymentGates!Start, DeploymentGates!MayStart,
              DeploymentGates!Effective, DeploymentGates!files,
              DeploymentGates!history
<1>2. ASSUME NEW u \in DeploymentGates!All, DeploymentGates!Ends(u)
      PROVE  DeploymentGates!IInv'
  BY <1>2 DEF DeploymentGates!Ends, DeploymentGates!files,
              DeploymentGates!history
<1>3. ASSUME NEW u \in DeploymentGates!All, DeploymentGates!LoadUnit(u)
      PROVE  DeploymentGates!IInv'
  BY <1>3 DEF DeploymentGates!LoadUnit, DeploymentGates!files,
              DeploymentGates!history
<1>4. ASSUME NEW u \in DeploymentGates!All, DeploymentGates!Mend(u)
      PROVE  DeploymentGates!IInv'
  <2> USE <1>4 DEF DeploymentGates!Mend, DeploymentGates!history
  <2>1. /\ gateTodo' \in Seq(DeploymentGates!Steps)
           /\ \A what : ~DeploymentGates!Has(gateTodo', what)
        /\ \A first, then : DeploymentGates!Leads(gateTodo', first, then)
    BY NothingLeft
  <2>2. conf'
        \in [DeploymentGates!All -> [ours :
            SUBSET {"guard", "ingress"}, other :
                {"none", "resets", "harmless"}]]
    OBVIOUS
  <2>3. \A x \in DeploymentGates!All : conf'[x].ours = conf[x].ours
        /\ (conf'[x].other = conf[x].other \/ conf'[x].other = "harmless")
    OBVIOUS
  <2>4. DeploymentGates!TypeOK'
    BY <2>1, <2>2, <2>3
  <2>5. DeploymentGates!CallFits'
    BY ONLY <2>1 DEF DeploymentGates!CallFits
  <2>6. DeploymentGates!FilesFit'
    BY <2>1, <2>2, <2>3
  <2>7. DeploymentGates!MarkersFit'
    BY <2>1, <2>2, <2>3
  <2> QED
    BY <2>4, <2>5, <2>6, <2>7 DEF DeploymentGates!IInv
<1>5. CASE DeploymentGates!Reboot
  <2> USE <1>5 DEF DeploymentGates!Reboot, DeploymentGates!Fault,
                   DeploymentGates!files, DeploymentGates!history
  <2>1. /\ gateTodo' \in Seq(DeploymentGates!Steps)
           /\ \A what : ~DeploymentGates!Has(gateTodo', what)
        /\ \A first, then : DeploymentGates!Leads(gateTodo', first, then)
    BY NothingLeft
  <2>2. gateRun' \in [DeploymentGates!All -> {"on", "off", "left"}]
    OBVIOUS
  <2>3. DeploymentGates!TypeOK'
    BY <2>1, <2>2
  <2>4. DeploymentGates!CallFits'
    BY ONLY <2>1 DEF DeploymentGates!CallFits
  <2>5. DeploymentGates!FilesFit'
    BY <2>1, <2>2
  <2>6. DeploymentGates!MarkersFit'
    BY <2>1, <2>2
  <2> QED
    BY <2>3, <2>4, <2>5, <2>6 DEF DeploymentGates!IInv
<1>6. ASSUME NEW p \in GatePlans, DeploymentGates!Call(p)
      PROVE  DeploymentGates!IInv'
  <2> USE <1>6 DEF DeploymentGates!Call, DeploymentGates!files,
                   DeploymentGates!history
  <2>1. /\ gateTodo' \in Seq(DeploymentGates!Steps)
        /\ DeploymentGates!Leads(gateTodo', "reload", "closed")
           /\ DeploymentGates!Leads(gateTodo', "mark", "noIngress")
        /\ DeploymentGates!Leads(gateTodo', "gated", "unmark")
        /\ DeploymentGates!Has(gateTodo', "unmark") =>
              \A what \in {"mark", "noIngress", "closed", "close", "open"} :
                 ~DeploymentGates!Has(gateTodo', what)
    <3>1. CASE gateTodo' = DeploymentGates!Restore
      BY ONLY <3>1, DeploymentGates!GatesAssumption, RestoreFits, LeadsNone
    <3>2. CASE gateTodo' = DeploymentGates!Handoff
      <4>1. \A what \in {"mark", "noIngress", "closed", "close", "open"} :
               ~DeploymentGates!Has(gateTodo', what)
        BY ONLY <3>2, DeploymentGates!GatesAssumption, HandoffFits
      <4> QED
        BY ONLY <3>2, <4>1, DeploymentGates!GatesAssumption,
                HandoffFits, LeadsNone
    <3>3. CASE gateTodo'
               \in {DeploymentGates!ActivateIngress,
                   DeploymentGates!DeactivateIngress}
      BY ONLY <3>3, DeploymentGates!GatesAssumption, IngressFits, LeadsNone
    <3> QED
      BY <3>1, <3>2, <3>3
  <2>2. gateTodo' # << >>
    BY RestoreFits, HandoffFits, IngressFits
  <2>3. DeploymentGates!TypeOK'
    BY <2>1, <2>2
  <2>4. DeploymentGates!CallFits'
    BY ONLY <2>1 DEF DeploymentGates!CallFits
  <2>5. DeploymentGates!FilesFit'
    BY <2>1, <2>2
  <2>6. DeploymentGates!MarkersFit'
    BY <2>1, <2>2
  <2> QED
    BY <2>3, <2>4, <2>5, <2>6 DEF DeploymentGates!IInv
<1>7. CASE DeploymentGates!Install
  <2> USE <1>7 DEF DeploymentGates!Install, DeploymentGates!At,
                   DeploymentGates!Arg, DeploymentGates!history
  <2>1. gatePlan # None /\ gateTodo # << >> /\ DeploymentGates!Done
        /\ Head(gateTodo)[1] \in {"install", "installGate"}
           /\ DeploymentGates!IInv
    OBVIOUS
  <2>2. /\ gateTodo' \in Seq(DeploymentGates!Steps)
           /\ Head(gateTodo) \in DeploymentGates!Steps
        /\ gatePlan' \in {gatePlan, None}
           /\ (gatePlan' = None) = (gateTodo' = << >>)
        /\ \A first, then : DeploymentGates!Leads(gateTodo, first, then)
              => /\ Head(gateTodo)[1] # then
                 /\ Head(gateTodo)[1] # first
                    => DeploymentGates!Leads(gateTodo', first, then)
        /\ \A first, then : gatePlan' = None
           => DeploymentGates!Leads(gateTodo', first, then)
        /\ \A what : DeploymentGates!Has(gateTodo', what)
           => DeploymentGates!Has(gateTodo, what)
        /\ \A what : Head(gateTodo)[1] = what
           => DeploymentGates!Has(gateTodo, what)
        /\ \A first, what : ~DeploymentGates!Has(gateTodo, what)
           => DeploymentGates!Leads(gateTodo', first, what)
    BY ONLY <2>1, DoneFits
  <2>3. Head(gateTodo)[2] \in DeploymentGates!All
    BY <2>1, <2>2 DEF DeploymentGates!Steps
  <2>4. \E c
        \in {"guard", "ingress"} : conf'
          = [conf EXCEPT ![Head(gateTodo)[2]]
              = [conf[Head(gateTodo)[2]] EXCEPT !.ours
                  = conf[Head(gateTodo)[2]].ours \cup {c}]]
    BY ONLY <1>7, <1>a, <2>3 DEF DeploymentGates!Install, DeploymentGates!At,
                                 DeploymentGates!Arg, DeploymentGates!history
  <2>5. conf'
        \in [DeploymentGates!All -> [ours :
            SUBSET {"guard", "ingress"}, other :
                {"none", "resets", "harmless"}]]
    BY ONLY <1>a, <2>3, <2>4
  <2>6. \A u \in DeploymentGates!All : conf'[u].other = conf[u].other
        /\ conf[u].ours \subseteq conf'[u].ours
    BY ONLY <1>a, <2>3, <2>4
  <2>7. DeploymentGates!TypeOK'
    BY <2>1, <2>2, <2>5, SMTT(60)
  <2>8. \/ DeploymentGates!Synced'
        \/ ~DeploymentGates!Synced /\ Head(gateTodo)[1] # "reload"
        \/ ~DeploymentGates!Has(gateTodo, "closed")
    BY <2>1, <2>2, <2>3, <2>4, <2>5, <2>6
  <2>9. \/ guard' = gatePlan
        \/ guard # gatePlan /\ Head(gateTodo)[1] # "mark"
        \/ ~DeploymentGates!Has(gateTodo, "noIngress")
    BY ONLY <1>7, <2>1 DEF DeploymentGates!Install, DeploymentGates!At,
                           DeploymentGates!Arg, DeploymentGates!history
  <2>10. \/ ingress' = gatePlan /\ "ingress" \in gateLoaded[WebHook].ours'
         \/ ~DeploymentGates!Gated /\ Head(gateTodo)[1] # "gated"
         \/ ~DeploymentGates!Has(gateTodo, "unmark")
    BY <2>1, <2>2, <2>3, <2>4, <2>5, <2>6
  <2>11. DeploymentGates!CallFits'
    BY ONLY <2>1, <2>8, <2>9, <2>10, CallGoesOn
  <2>12. DeploymentGates!FilesFit'
    BY <2>1, <2>2, <2>3, <2>4, <2>5, <2>6
  <2>13. DeploymentGates!MarkersFit'
    BY <2>1, <2>2, <2>3, <2>4, <2>5, <2>6
  <2> QED
    BY <2>7, <2>11, <2>12, <2>13 DEF DeploymentGates!IInv
<1>8. CASE DeploymentGates!Reload
  <2> USE <1>8 DEF DeploymentGates!Reload, DeploymentGates!At,
                   DeploymentGates!files, DeploymentGates!history
  <2>1. gatePlan # None /\ gateTodo # << >> /\ DeploymentGates!Done
        /\ Head(gateTodo)[1] = "reload" /\ DeploymentGates!IInv
    OBVIOUS
  <2>2. /\ gateTodo' \in Seq(DeploymentGates!Steps)
           /\ Head(gateTodo) \in DeploymentGates!Steps
        /\ gatePlan' \in {gatePlan, None}
           /\ (gatePlan' = None) = (gateTodo' = << >>)
        /\ \A first, then : DeploymentGates!Leads(gateTodo, first, then)
              => /\ Head(gateTodo)[1] # then
                 /\ Head(gateTodo)[1] # first
                    => DeploymentGates!Leads(gateTodo', first, then)
        /\ \A first, then : gatePlan' = None
           => DeploymentGates!Leads(gateTodo', first, then)
        /\ \A what : DeploymentGates!Has(gateTodo', what)
           => DeploymentGates!Has(gateTodo, what)
        /\ \A what : Head(gateTodo)[1] = what
           => DeploymentGates!Has(gateTodo, what)
        /\ \A first, what : ~DeploymentGates!Has(gateTodo, what)
           => DeploymentGates!Leads(gateTodo', first, what)
    BY ONLY <2>1, DoneFits
  <2>3. DeploymentGates!TypeOK'
    BY <2>1, <2>2
  <2>4. \/ DeploymentGates!Synced'
        \/ ~DeploymentGates!Synced /\ Head(gateTodo)[1] # "reload"
        \/ ~DeploymentGates!Has(gateTodo, "closed")
    BY <2>1, <2>2
  <2>5. \/ guard' = gatePlan
        \/ guard # gatePlan /\ Head(gateTodo)[1] # "mark"
        \/ ~DeploymentGates!Has(gateTodo, "noIngress")
    BY <2>1, <2>2
  <2>6. \/ ingress' = gatePlan /\ "ingress" \in gateLoaded[WebHook].ours'
        \/ ~DeploymentGates!Gated /\ Head(gateTodo)[1] # "gated"
        \/ ~DeploymentGates!Has(gateTodo, "unmark")
    BY <2>1, <2>2
  <2>7. DeploymentGates!CallFits'
    BY ONLY <2>1, <2>4, <2>5, <2>6, CallGoesOn
  <2>8. DeploymentGates!FilesFit'
    BY <2>1, <2>2
  <2>9. DeploymentGates!MarkersFit'
    BY <2>1, <2>2
  <2> QED
    BY <2>3, <2>7, <2>8, <2>9 DEF DeploymentGates!IInv
<1>9. CASE DeploymentGates!Look
  <2> USE <1>9 DEF DeploymentGates!Look, DeploymentGates!Holds,
                   DeploymentGates!At, DeploymentGates!Verified,
                   DeploymentGates!GuardActive, DeploymentGates!GateActive,
                   DeploymentGates!files, DeploymentGates!history
  <2>1. gatePlan # None /\ gateTodo # << >> /\ DeploymentGates!Done
        /\ Head(gateTodo)[1]
           \in {"conditions", "condition", "prove", "guarded", "gated",
               "staged"} /\ DeploymentGates!IInv
    OBVIOUS
  <2>2. /\ gateTodo' \in Seq(DeploymentGates!Steps)
           /\ Head(gateTodo) \in DeploymentGates!Steps
        /\ gatePlan' \in {gatePlan, None}
           /\ (gatePlan' = None) = (gateTodo' = << >>)
        /\ \A first, then : DeploymentGates!Leads(gateTodo, first, then)
              => /\ Head(gateTodo)[1] # then
                 /\ Head(gateTodo)[1] # first
                    => DeploymentGates!Leads(gateTodo', first, then)
        /\ \A first, then : gatePlan' = None
           => DeploymentGates!Leads(gateTodo', first, then)
        /\ \A what : DeploymentGates!Has(gateTodo', what)
           => DeploymentGates!Has(gateTodo, what)
        /\ \A what : Head(gateTodo)[1] = what
           => DeploymentGates!Has(gateTodo, what)
        /\ \A first, what : ~DeploymentGates!Has(gateTodo, what)
           => DeploymentGates!Leads(gateTodo', first, what)
    BY ONLY <2>1, DoneFits
  <2>3. DeploymentGates!TypeOK'
    BY <2>1, <2>2
  <2>4. \/ DeploymentGates!Synced'
        \/ ~DeploymentGates!Synced /\ Head(gateTodo)[1] # "reload"
        \/ ~DeploymentGates!Has(gateTodo, "closed")
    BY <2>1, <2>2
  <2>5. \/ guard' = gatePlan
        \/ guard # gatePlan /\ Head(gateTodo)[1] # "mark"
        \/ ~DeploymentGates!Has(gateTodo, "noIngress")
    BY <2>1, <2>2
  <2>6. \/ ingress' = gatePlan /\ "ingress" \in gateLoaded[WebHook].ours'
        \/ ~DeploymentGates!Gated /\ Head(gateTodo)[1] # "gated"
        \/ ~DeploymentGates!Has(gateTodo, "unmark")
    BY <2>1, <2>2
  <2>7. DeploymentGates!CallFits'
    BY ONLY <2>1, <2>4, <2>5, <2>6, CallGoesOn
  <2>8. DeploymentGates!FilesFit'
    BY <2>1, <2>2
  <2>9. DeploymentGates!MarkersFit'
    BY <2>1, <2>2
  <2> QED
    BY <2>3, <2>7, <2>8, <2>9 DEF DeploymentGates!IInv
<1>10. CASE DeploymentGates!Mark
  <2> USE <1>10 DEF DeploymentGates!Mark, DeploymentGates!At,
                    DeploymentGates!history
  <2>1. gatePlan # None /\ gateTodo # << >> /\ DeploymentGates!Done
        /\ Head(gateTodo)[1] = "mark" /\ DeploymentGates!IInv
    OBVIOUS
  <2>2. /\ gateTodo' \in Seq(DeploymentGates!Steps)
           /\ Head(gateTodo) \in DeploymentGates!Steps
        /\ gatePlan' \in {gatePlan, None}
           /\ (gatePlan' = None) = (gateTodo' = << >>)
        /\ \A first, then : DeploymentGates!Leads(gateTodo, first, then)
              => /\ Head(gateTodo)[1] # then
                 /\ Head(gateTodo)[1] # first
                    => DeploymentGates!Leads(gateTodo', first, then)
        /\ \A first, then : gatePlan' = None
           => DeploymentGates!Leads(gateTodo', first, then)
        /\ \A what : DeploymentGates!Has(gateTodo', what)
           => DeploymentGates!Has(gateTodo, what)
        /\ \A what : Head(gateTodo)[1] = what
           => DeploymentGates!Has(gateTodo, what)
        /\ \A first, what : ~DeploymentGates!Has(gateTodo, what)
           => DeploymentGates!Leads(gateTodo', first, what)
    BY ONLY <2>1, DoneFits
  <2>3. DeploymentGates!TypeOK'
    BY <2>1, <2>2
  <2>4. \/ DeploymentGates!Synced'
        \/ ~DeploymentGates!Synced /\ Head(gateTodo)[1] # "reload"
        \/ ~DeploymentGates!Has(gateTodo, "closed")
    BY <2>1, <2>2
  <2>5. \/ guard' = gatePlan
        \/ guard # gatePlan /\ Head(gateTodo)[1] # "mark"
        \/ ~DeploymentGates!Has(gateTodo, "noIngress")
    BY <2>1, <2>2
  <2>6. \/ ingress' = gatePlan /\ "ingress" \in gateLoaded[WebHook].ours'
        \/ ~DeploymentGates!Gated /\ Head(gateTodo)[1] # "gated"
        \/ ~DeploymentGates!Has(gateTodo, "unmark")
    BY <2>1, <2>2
  <2>7. DeploymentGates!CallFits'
    BY ONLY <2>1, <2>4, <2>5, <2>6, CallGoesOn
  <2>8. DeploymentGates!FilesFit'
    BY <2>1, <2>2
  <2>9. DeploymentGates!MarkersFit'
    BY <2>1, <2>2
  <2> QED
    BY <2>3, <2>7, <2>8, <2>9 DEF DeploymentGates!IInv
<1>11. CASE DeploymentGates!Stop
  <2> USE <1>11 DEF DeploymentGates!Stop, DeploymentGates!At,
                    DeploymentGates!Arg, DeploymentGates!Fault,
                    DeploymentGates!files, DeploymentGates!history
  <2>1. gatePlan # None /\ gateTodo # << >> /\ DeploymentGates!Done
        /\ Head(gateTodo)[1] = "stop" /\ DeploymentGates!IInv
    OBVIOUS
  <2>2. /\ gateTodo' \in Seq(DeploymentGates!Steps)
           /\ Head(gateTodo) \in DeploymentGates!Steps
        /\ gatePlan' \in {gatePlan, None}
           /\ (gatePlan' = None) = (gateTodo' = << >>)
        /\ \A first, then : DeploymentGates!Leads(gateTodo, first, then)
              => /\ Head(gateTodo)[1] # then
                 /\ Head(gateTodo)[1] # first
                    => DeploymentGates!Leads(gateTodo', first, then)
        /\ \A first, then : gatePlan' = None
           => DeploymentGates!Leads(gateTodo', first, then)
        /\ \A what : DeploymentGates!Has(gateTodo', what)
           => DeploymentGates!Has(gateTodo, what)
        /\ \A what : Head(gateTodo)[1] = what
           => DeploymentGates!Has(gateTodo, what)
        /\ \A first, what : ~DeploymentGates!Has(gateTodo, what)
           => DeploymentGates!Leads(gateTodo', first, what)
    BY ONLY <2>1, DoneFits
  <2>3. Head(gateTodo)[2] \in DeploymentGates!ToSet(StoppedUnits)
    BY <2>1, <2>2 DEF DeploymentGates!Steps
  <2>4. Head(gateTodo)[2] \in DeploymentGates!All
    BY <2>3
  <2>5. \/ gateRun'
           = [gateRun EXCEPT ![Head(gateTodo)[2]]
               = IF gateRun[Head(gateTodo)[2]]
                 = "on" THEN "off" ELSE gateRun[Head(gateTodo)[2]]]
        \/ gateRun[Head(gateTodo)[2]] = "on"
           /\ gateRun' = [gateRun EXCEPT ![Head(gateTodo)[2]] = "left"]
    BY ONLY <1>11, <1>a, <2>4 DEF DeploymentGates!Stop, DeploymentGates!At,
                                  DeploymentGates!Arg, DeploymentGates!Fault,
                                  DeploymentGates!files,
                                  DeploymentGates!history
  <2>6. gateRun' \in [DeploymentGates!All -> {"on", "off", "left"}]
    BY ONLY <1>a, <2>4, <2>5
  <2>7. \A u \in DeploymentGates!All : gateRun[u] = "off"
        => gateRun'[u] = "off"
    BY ONLY <1>a, <2>4, <2>5
  <2>8. DeploymentGates!TypeOK'
    BY <2>1, <2>2, <2>3, <2>4, <2>5, <2>6, <2>7
  <2>9. \/ DeploymentGates!Synced'
        \/ ~DeploymentGates!Synced /\ Head(gateTodo)[1] # "reload"
        \/ ~DeploymentGates!Has(gateTodo, "closed")
    BY <2>1, <2>2, <2>3, <2>4, <2>5, <2>6, <2>7
  <2>10. \/ guard' = gatePlan
         \/ guard # gatePlan /\ Head(gateTodo)[1] # "mark"
         \/ ~DeploymentGates!Has(gateTodo, "noIngress")
    BY <2>1, <2>2, <2>3, <2>4, <2>5, <2>6, <2>7
  <2>11. \/ ingress' = gatePlan /\ "ingress" \in gateLoaded[WebHook].ours'
         \/ ~DeploymentGates!Gated /\ Head(gateTodo)[1] # "gated"
         \/ ~DeploymentGates!Has(gateTodo, "unmark")
    BY <2>1, <2>2, <2>3, <2>4, <2>5, <2>6, <2>7
  <2>12. DeploymentGates!CallFits'
    BY ONLY <2>1, <2>9, <2>10, <2>11, CallGoesOn
  <2>13. DeploymentGates!FilesFit'
    BY <2>1, <2>2, <2>3, <2>4, <2>5, <2>6, <2>7
  <2>14. DeploymentGates!MarkersFit'
    BY <2>1, <2>2, <2>3, <2>4, <2>5, <2>6, <2>7
  <2> QED
    BY <2>8, <2>12, <2>13, <2>14 DEF DeploymentGates!IInv
<1>12. CASE DeploymentGates!Prepare
  <2> USE <1>12 DEF DeploymentGates!Prepare, DeploymentGates!At,
                    DeploymentGates!files, DeploymentGates!history
  <2>1. gatePlan # None /\ gateTodo # << >> /\ DeploymentGates!Done
        /\ Head(gateTodo)[1] = "prepare" /\ DeploymentGates!IInv
    OBVIOUS
  <2>2. /\ gateTodo' \in Seq(DeploymentGates!Steps)
           /\ Head(gateTodo) \in DeploymentGates!Steps
        /\ gatePlan' \in {gatePlan, None}
           /\ (gatePlan' = None) = (gateTodo' = << >>)
        /\ \A first, then : DeploymentGates!Leads(gateTodo, first, then)
              => /\ Head(gateTodo)[1] # then
                 /\ Head(gateTodo)[1] # first
                    => DeploymentGates!Leads(gateTodo', first, then)
        /\ \A first, then : gatePlan' = None
           => DeploymentGates!Leads(gateTodo', first, then)
        /\ \A what : DeploymentGates!Has(gateTodo', what)
           => DeploymentGates!Has(gateTodo, what)
        /\ \A what : Head(gateTodo)[1] = what
           => DeploymentGates!Has(gateTodo, what)
        /\ \A first, what : ~DeploymentGates!Has(gateTodo, what)
           => DeploymentGates!Leads(gateTodo', first, what)
    BY ONLY <2>1, DoneFits
  <2>3. DeploymentGates!TypeOK'
    BY <2>1, <2>2
  <2>4. \/ DeploymentGates!Synced'
        \/ ~DeploymentGates!Synced /\ Head(gateTodo)[1] # "reload"
        \/ ~DeploymentGates!Has(gateTodo, "closed")
    BY <2>1, <2>2
  <2>5. \/ guard' = gatePlan
        \/ guard # gatePlan /\ Head(gateTodo)[1] # "mark"
        \/ ~DeploymentGates!Has(gateTodo, "noIngress")
    BY <2>1, <2>2
  <2>6. \/ ingress' = gatePlan /\ "ingress" \in gateLoaded[WebHook].ours'
        \/ ~DeploymentGates!Gated /\ Head(gateTodo)[1] # "gated"
        \/ ~DeploymentGates!Has(gateTodo, "unmark")
    BY <2>1, <2>2
  <2>7. DeploymentGates!CallFits'
    BY ONLY <2>1, <2>4, <2>5, <2>6, CallGoesOn
  <2>8. DeploymentGates!FilesFit'
    BY <2>1, <2>2
  <2>9. DeploymentGates!MarkersFit'
    BY <2>1, <2>2
  <2> QED
    BY <2>3, <2>7, <2>8, <2>9 DEF DeploymentGates!IInv
<1>13. CASE DeploymentGates!NoIngress
  <2> USE <1>13 DEF DeploymentGates!NoIngress, DeploymentGates!At,
                    DeploymentGates!GateActive, DeploymentGates!Verified,
                    DeploymentGates!history
  <2>1. gatePlan # None /\ gateTodo # << >> /\ DeploymentGates!Done
        /\ Head(gateTodo)[1] = "noIngress" /\ DeploymentGates!IInv
    OBVIOUS
  <2>2. /\ gateTodo' \in Seq(DeploymentGates!Steps)
           /\ Head(gateTodo) \in DeploymentGates!Steps
        /\ gatePlan' \in {gatePlan, None}
           /\ (gatePlan' = None) = (gateTodo' = << >>)
        /\ \A first, then : DeploymentGates!Leads(gateTodo, first, then)
              => /\ Head(gateTodo)[1] # then
                 /\ Head(gateTodo)[1] # first
                    => DeploymentGates!Leads(gateTodo', first, then)
        /\ \A first, then : gatePlan' = None
           => DeploymentGates!Leads(gateTodo', first, then)
        /\ \A what : DeploymentGates!Has(gateTodo', what)
           => DeploymentGates!Has(gateTodo, what)
        /\ \A what : Head(gateTodo)[1] = what
           => DeploymentGates!Has(gateTodo, what)
        /\ \A first, what : ~DeploymentGates!Has(gateTodo, what)
           => DeploymentGates!Leads(gateTodo', first, what)
    BY ONLY <2>1, DoneFits
  <2>3. DeploymentGates!TypeOK'
    BY <2>1, <2>2
  <2>4. \/ DeploymentGates!Synced'
        \/ ~DeploymentGates!Synced /\ Head(gateTodo)[1] # "reload"
        \/ ~DeploymentGates!Has(gateTodo, "closed")
    BY <2>1, <2>2
  <2>5. \/ guard' = gatePlan
        \/ guard # gatePlan /\ Head(gateTodo)[1] # "mark"
        \/ ~DeploymentGates!Has(gateTodo, "noIngress")
    BY <2>1, <2>2
  <2>6. \/ ingress' = gatePlan /\ "ingress" \in gateLoaded[WebHook].ours'
        \/ ~DeploymentGates!Gated /\ Head(gateTodo)[1] # "gated"
        \/ ~DeploymentGates!Has(gateTodo, "unmark")
    <3>1. ~DeploymentGates!Has(gateTodo, "unmark")
      <4>1. DeploymentGates!Has(gateTodo, Head(gateTodo)[1])
        BY ONLY <2>2, Zenon
      <4>2. DeploymentGates!Has(gateTodo, "unmark") =>
              \A what \in {"mark", "noIngress", "closed", "close", "open"} :
                 ~DeploymentGates!Has(gateTodo, what)
        BY ONLY <2>1 DEF DeploymentGates!IInv, DeploymentGates!CallFits
      <4> QED
        BY ONLY <2>1, <4>1, <4>2
    <3> QED
      BY <3>1
  <2>7. DeploymentGates!CallFits'
    BY ONLY <2>1, <2>4, <2>5, <2>6, CallGoesOn
  <2>8. DeploymentGates!FilesFit'
    BY <2>1, <2>2
  <2>9. DeploymentGates!MarkersFit'
    BY <2>1, <2>2
  <2> QED
    BY <2>3, <2>7, <2>8, <2>9 DEF DeploymentGates!IInv
<1>14. CASE DeploymentGates!Closed
  <2> USE <1>14 DEF DeploymentGates!Closed, DeploymentGates!At,
                    DeploymentGates!GuardActive, DeploymentGates!Verified,
                    DeploymentGates!files
  <2>1. gatePlan # None /\ gateTodo # << >> /\ DeploymentGates!Done
        /\ Head(gateTodo)[1] = "closed" /\ DeploymentGates!IInv
    OBVIOUS
  <2>2. /\ gateTodo' \in Seq(DeploymentGates!Steps)
           /\ Head(gateTodo) \in DeploymentGates!Steps
        /\ gatePlan' \in {gatePlan, None}
           /\ (gatePlan' = None) = (gateTodo' = << >>)
        /\ \A first, then : DeploymentGates!Leads(gateTodo, first, then)
              => /\ Head(gateTodo)[1] # then
                 /\ Head(gateTodo)[1] # first
                    => DeploymentGates!Leads(gateTodo', first, then)
        /\ \A first, then : gatePlan' = None
           => DeploymentGates!Leads(gateTodo', first, then)
        /\ \A what : DeploymentGates!Has(gateTodo', what)
           => DeploymentGates!Has(gateTodo, what)
        /\ \A what : Head(gateTodo)[1] = what
           => DeploymentGates!Has(gateTodo, what)
        /\ \A first, what : ~DeploymentGates!Has(gateTodo, what)
           => DeploymentGates!Leads(gateTodo', first, what)
    BY ONLY <2>1, DoneFits
  <2>3. DeploymentGates!TypeOK'
    BY <2>1, <2>2
  <2>4. \/ DeploymentGates!Synced'
        \/ ~DeploymentGates!Synced /\ Head(gateTodo)[1] # "reload"
        \/ ~DeploymentGates!Has(gateTodo, "closed")
    BY <2>1, <2>2
  <2>5. \/ guard' = gatePlan
        \/ guard # gatePlan /\ Head(gateTodo)[1] # "mark"
        \/ ~DeploymentGates!Has(gateTodo, "noIngress")
    BY <2>1, <2>2
  <2>6. \/ ingress' = gatePlan /\ "ingress" \in gateLoaded[WebHook].ours'
        \/ ~DeploymentGates!Gated /\ Head(gateTodo)[1] # "gated"
        \/ ~DeploymentGates!Has(gateTodo, "unmark")
    BY <2>1, <2>2
  <2>7. DeploymentGates!CallFits'
    BY ONLY <2>1, <2>4, <2>5, <2>6, CallGoesOn
  <2>8. DeploymentGates!FilesFit'
    BY <2>1, <2>2
  <2>9. DeploymentGates!MarkersFit'
    BY <2>1, <2>2
  <2> QED
    BY <2>3, <2>7, <2>8, <2>9 DEF DeploymentGates!IInv
<1>15. CASE DeploymentGates!Close
  <2> USE <1>15 DEF DeploymentGates!Close, DeploymentGates!At,
                    DeploymentGates!history
  <2>1. gatePlan # None /\ gateTodo # << >> /\ DeploymentGates!Done
        /\ Head(gateTodo)[1] = "close" /\ DeploymentGates!IInv
    OBVIOUS
  <2>2. /\ gateTodo' \in Seq(DeploymentGates!Steps)
           /\ Head(gateTodo) \in DeploymentGates!Steps
        /\ gatePlan' \in {gatePlan, None}
           /\ (gatePlan' = None) = (gateTodo' = << >>)
        /\ \A first, then : DeploymentGates!Leads(gateTodo, first, then)
              => /\ Head(gateTodo)[1] # then
                 /\ Head(gateTodo)[1] # first
                    => DeploymentGates!Leads(gateTodo', first, then)
        /\ \A first, then : gatePlan' = None
           => DeploymentGates!Leads(gateTodo', first, then)
        /\ \A what : DeploymentGates!Has(gateTodo', what)
           => DeploymentGates!Has(gateTodo, what)
        /\ \A what : Head(gateTodo)[1] = what
           => DeploymentGates!Has(gateTodo, what)
        /\ \A first, what : ~DeploymentGates!Has(gateTodo, what)
           => DeploymentGates!Leads(gateTodo', first, what)
    BY ONLY <2>1, DoneFits
  <2>3. DeploymentGates!TypeOK'
    BY <2>1, <2>2
  <2>4. \/ DeploymentGates!Synced'
        \/ ~DeploymentGates!Synced /\ Head(gateTodo)[1] # "reload"
        \/ ~DeploymentGates!Has(gateTodo, "closed")
    BY <2>1, <2>2
  <2>5. \/ guard' = gatePlan
        \/ guard # gatePlan /\ Head(gateTodo)[1] # "mark"
        \/ ~DeploymentGates!Has(gateTodo, "noIngress")
    BY <2>1, <2>2
  <2>6. \/ ingress' = gatePlan /\ "ingress" \in gateLoaded[WebHook].ours'
        \/ ~DeploymentGates!Gated /\ Head(gateTodo)[1] # "gated"
        \/ ~DeploymentGates!Has(gateTodo, "unmark")
    <3>1. ~DeploymentGates!Has(gateTodo, "unmark")
      <4>1. DeploymentGates!Has(gateTodo, Head(gateTodo)[1])
        BY ONLY <2>2, Zenon
      <4>2. DeploymentGates!Has(gateTodo, "unmark") =>
              \A what \in {"mark", "noIngress", "closed", "close", "open"} :
                 ~DeploymentGates!Has(gateTodo, what)
        BY ONLY <2>1 DEF DeploymentGates!IInv, DeploymentGates!CallFits
      <4> QED
        BY ONLY <2>1, <4>1, <4>2
    <3> QED
      BY <3>1
  <2>7. DeploymentGates!CallFits'
    BY ONLY <2>1, <2>4, <2>5, <2>6, CallGoesOn
  <2>8. DeploymentGates!FilesFit'
    BY <2>1, <2>2
  <2>9. DeploymentGates!MarkersFit'
    BY <2>1, <2>2
  <2> QED
    BY <2>3, <2>7, <2>8, <2>9 DEF DeploymentGates!IInv
<1>16. CASE DeploymentGates!Unmark
  <2> USE <1>16 DEF DeploymentGates!Unmark, DeploymentGates!At,
                    DeploymentGates!GuardActive, DeploymentGates!Verified
  <2>1. gatePlan # None /\ gateTodo # << >> /\ DeploymentGates!Done
        /\ Head(gateTodo)[1] = "unmark" /\ DeploymentGates!IInv
    OBVIOUS
  <2>2. /\ gateTodo' \in Seq(DeploymentGates!Steps)
           /\ Head(gateTodo) \in DeploymentGates!Steps
        /\ gatePlan' \in {gatePlan, None}
           /\ (gatePlan' = None) = (gateTodo' = << >>)
        /\ \A first, then : DeploymentGates!Leads(gateTodo, first, then)
              => /\ Head(gateTodo)[1] # then
                 /\ Head(gateTodo)[1] # first
                    => DeploymentGates!Leads(gateTodo', first, then)
        /\ \A first, then : gatePlan' = None
           => DeploymentGates!Leads(gateTodo', first, then)
        /\ \A what : DeploymentGates!Has(gateTodo', what)
           => DeploymentGates!Has(gateTodo, what)
        /\ \A what : Head(gateTodo)[1] = what
           => DeploymentGates!Has(gateTodo, what)
        /\ \A first, what : ~DeploymentGates!Has(gateTodo, what)
           => DeploymentGates!Leads(gateTodo', first, what)
    BY ONLY <2>1, DoneFits
  <2>3. DeploymentGates!TypeOK'
    BY <2>1, <2>2
  <2>4. \/ DeploymentGates!Synced'
        \/ ~DeploymentGates!Synced /\ Head(gateTodo)[1] # "reload"
        \/ ~DeploymentGates!Has(gateTodo, "closed")
    BY <2>1, <2>2
  <2>5. \/ guard' = gatePlan
        \/ guard # gatePlan /\ Head(gateTodo)[1] # "mark"
        \/ ~DeploymentGates!Has(gateTodo, "noIngress")
    <3>1. ~DeploymentGates!Has(gateTodo, "noIngress")
      <4>1. DeploymentGates!Has(gateTodo, Head(gateTodo)[1])
        BY ONLY <2>2, Zenon
      <4>2. DeploymentGates!Has(gateTodo, "unmark") =>
              \A what \in {"mark", "noIngress", "closed", "close", "open"} :
                 ~DeploymentGates!Has(gateTodo, what)
        BY ONLY <2>1 DEF DeploymentGates!IInv, DeploymentGates!CallFits
      <4> QED
        BY ONLY <2>1, <4>1, <4>2
    <3> QED
      BY <3>1
  <2>6. \/ ingress' = gatePlan /\ "ingress" \in gateLoaded[WebHook].ours'
        \/ ~DeploymentGates!Gated /\ Head(gateTodo)[1] # "gated"
        \/ ~DeploymentGates!Has(gateTodo, "unmark")
    BY <2>1, <2>2
  <2>7. DeploymentGates!CallFits'
    BY ONLY <2>1, <2>4, <2>5, <2>6, CallGoesOn
  <2>8. DeploymentGates!FilesFit'
    BY <2>1, <2>2
  <2>9. DeploymentGates!MarkersFit'
    BY <2>1, <2>2
  <2> QED
    BY <2>3, <2>7, <2>8, <2>9 DEF DeploymentGates!IInv
<1>17. CASE DeploymentGates!Open
  <2> USE <1>17 DEF DeploymentGates!Open, DeploymentGates!At
  <2>1. gatePlan # None /\ gateTodo # << >> /\ DeploymentGates!Done
        /\ Head(gateTodo)[1] = "open" /\ DeploymentGates!IInv
    OBVIOUS
  <2>2. /\ gateTodo' \in Seq(DeploymentGates!Steps)
           /\ Head(gateTodo) \in DeploymentGates!Steps
        /\ gatePlan' \in {gatePlan, None}
           /\ (gatePlan' = None) = (gateTodo' = << >>)
        /\ \A first, then : DeploymentGates!Leads(gateTodo, first, then)
              => /\ Head(gateTodo)[1] # then
                 /\ Head(gateTodo)[1] # first
                    => DeploymentGates!Leads(gateTodo', first, then)
        /\ \A first, then : gatePlan' = None
           => DeploymentGates!Leads(gateTodo', first, then)
        /\ \A what : DeploymentGates!Has(gateTodo', what)
           => DeploymentGates!Has(gateTodo, what)
        /\ \A what : Head(gateTodo)[1] = what
           => DeploymentGates!Has(gateTodo, what)
        /\ \A first, what : ~DeploymentGates!Has(gateTodo, what)
           => DeploymentGates!Leads(gateTodo', first, what)
    BY ONLY <2>1, DoneFits
  <2>3. DeploymentGates!TypeOK'
    BY <2>1, <2>2
  <2>4. \/ DeploymentGates!Synced'
        \/ ~DeploymentGates!Synced /\ Head(gateTodo)[1] # "reload"
        \/ ~DeploymentGates!Has(gateTodo, "closed")
    BY <2>1, <2>2
  <2>5. \/ guard' = gatePlan
        \/ guard # gatePlan /\ Head(gateTodo)[1] # "mark"
        \/ ~DeploymentGates!Has(gateTodo, "noIngress")
    BY <2>1, <2>2
  <2>6. \/ ingress' = gatePlan /\ "ingress" \in gateLoaded[WebHook].ours'
        \/ ~DeploymentGates!Gated /\ Head(gateTodo)[1] # "gated"
        \/ ~DeploymentGates!Has(gateTodo, "unmark")
    <3>1. ~DeploymentGates!Has(gateTodo, "unmark")
      <4>1. DeploymentGates!Has(gateTodo, Head(gateTodo)[1])
        BY ONLY <2>2, Zenon
      <4>2. DeploymentGates!Has(gateTodo, "unmark") =>
              \A what \in {"mark", "noIngress", "closed", "close", "open"} :
                 ~DeploymentGates!Has(gateTodo, what)
        BY ONLY <2>1 DEF DeploymentGates!IInv, DeploymentGates!CallFits
      <4> QED
        BY ONLY <2>1, <4>1, <4>2
    <3> QED
      BY <3>1
  <2>7. DeploymentGates!CallFits'
    BY ONLY <2>1, <2>4, <2>5, <2>6, CallGoesOn
  <2>8. DeploymentGates!FilesFit'
    BY <2>1, <2>2
  <2>9. DeploymentGates!MarkersFit'
    BY <2>1, <2>2
  <2> QED
    BY <2>3, <2>7, <2>8, <2>9 DEF DeploymentGates!IInv
<1>18. CASE DeploymentGates!Raises
  <2> USE <1>18 DEF DeploymentGates!Raises, DeploymentGates!files,
                    DeploymentGates!history, DeploymentGates!Fault,
                    DeploymentGates!At, DeploymentGates!Holds,
                    DeploymentGates!Verified, DeploymentGates!GuardActive,
                    DeploymentGates!GateActive
  <2>1. /\ gateTodo' \in Seq(DeploymentGates!Steps)
           /\ \A what : ~DeploymentGates!Has(gateTodo', what)
        /\ \A first, then : DeploymentGates!Leads(gateTodo', first, then)
    BY NothingLeft
  <2>2. DeploymentGates!TypeOK'
    BY <2>1
  <2>3. DeploymentGates!CallFits'
    BY ONLY <2>1 DEF DeploymentGates!CallFits
  <2>4. DeploymentGates!FilesFit'
    BY <2>1
  <2>5. DeploymentGates!MarkersFit'
    BY <2>1
  <2> QED
    BY <2>2, <2>3, <2>4, <2>5 DEF DeploymentGates!IInv
<1>19. CASE UNCHANGED DeploymentGates!vars
  BY <1>19 DEF DeploymentGates!vars
<1> QED
  BY <1>1, <1>2, <1>3, <1>4, <1>5, <1>6, <1>7, <1>8, <1>9, <1>10, <1>11, <1>12,
     <1>13, <1>14, <1>15, <1>16, <1>17, <1>18, <1>19
     DEF DeploymentGates!Next, DeploymentGates!Step

\* What the invariant says of the two gates is what they promise.
LEMMA GatesPromise ==
  ASSUME DeploymentGates!GatesAssumption, DeploymentGates!IInv
  PROVE  DeploymentGates!MaintenanceStaysClosed
         /\ DeploymentGates!IngressStaysShut
<1> USE DEF DeploymentGates!IInv, DeploymentGates!TypeOK,
            DeploymentGates!FilesFit, DeploymentGates!MarkersFit,
            DeploymentGates!MayStart, DeploymentGates!Effective
<1>1. DeploymentGates!MaintenanceStaysClosed
  BY DEF DeploymentGates!MaintenanceStaysClosed
<1>2. DeploymentGates!IngressStaysShut
  <2>1. WebHook \in DeploymentGates!All
    BY DEF DeploymentGates!GatesAssumption, DeploymentGates!All
  <2> QED
    BY <2>1 DEF DeploymentGates!IngressStaysShut
<1> QED
  BY <1>1, <1>2

\* For any units, writers and plans, and any number of deaths, reboots and
\* failing steps: once restore_maintenance_closed has returned nothing writes
\* or can be started until a hand-over, and the web hook not before its gate
\* is opened (MaintenanceStaysClosed, IngressStaysShut).
THEOREM GatesStayClosed ==
  ASSUME DeploymentGates!GatesAssumption
  PROVE  DeploymentGates!Spec => [](/\ DeploymentGates!MaintenanceStaysClosed
                                    /\ DeploymentGates!IngressStaysShut)
<1>1. DeploymentGates!Init => DeploymentGates!IInv
  BY GatesInit
<1>2. DeploymentGates!IInv /\ [DeploymentGates!Next]_(DeploymentGates!vars)
      => DeploymentGates!IInv'
  BY GatesNext
<1>3. DeploymentGates!IInv
      => DeploymentGates!MaintenanceStaysClosed
        /\ DeploymentGates!IngressStaysShut
  BY GatesPromise
<1> QED
  BY <1>1, <1>2, <1>3, PTL DEF DeploymentGates!Spec

\* Beside the other protocols the same holds: the suite's invariant.
THEOREM GatesHoldHere == RuntimeSpec => []GatesHold
<1>1. RuntimeInit => DeploymentGates!IInv
  BY GatesInit, InstancesAssumption DEF RuntimeInit
<1>2. [RuntimeNext]_runtimeVars
        => [DeploymentGates!Next]_(DeploymentGates!vars)
  BY DEF RuntimeNext, runtimeVars, gateVars, DeploymentGates!vars
<1>3. DeploymentGates!IInv /\ [RuntimeNext]_runtimeVars
      => DeploymentGates!IInv'
  BY <1>2, GatesNext, InstancesAssumption
<1>4. DeploymentGates!IInv => GatesHold
  BY GatesPromise, InstancesAssumption DEF GatesHold
<1> QED
  BY <1>1, <1>3, <1>4, PTL DEF RuntimeSpec

-----------------------------------------------------------------------------
(***************************************************************************)
(* The generation store.                                                   *)
(***************************************************************************)
\* The bounds allow a first lease and a first fence.
LEMMA Firsts ==
  ASSUME Generation!GenerationAssumption
  PROVE  /\ 1 \in 0..StoreEpochs /\ 0 \in 0..StoreEpochs
         /\ 1 \in 1..StoreFences
         /\ StoreEpochs \in Nat /\ StoreFences \in Nat
         /\ FirstGeneration \in StoreGenerations
         /\ GenerationBefore \in StoreGenerations
         /\ FirstGeneration # GenerationBefore
         /\ None \notin StoreAttempts /\ None \notin StoreControllers
         /\ None \notin StoreGenerations /\ None \notin 1..StoreFences
  BY DEF Generation!GenerationAssumption

\* The next version of a state, and one that is bound to the lease.
LEMMA NextVersions ==
  ASSUME NEW s \in Generation!State
  PROVE  /\ Generation!Succ(s) \in Generation!State
         /\ genLease \in Generation!Leases /\ genLease.att # None
            => Generation!Rebound(s) \in Generation!State
<1>1. s.version + 1 \in Nat /\ 0 \in StoreStamps \cup {0}
  BY DEF Generation!State
<1>2. \A v \in Nat, z \in StoreStamps \cup {0} :
        [s EXCEPT !.version = v, !.stamp = z] \in Generation!State
  BY DEF Generation!State
<1>3. Generation!Succ(s) \in Generation!State
  BY <1>1, <1>2 DEF Generation!Succ
<1> QED
  BY <1>3 DEF Generation!Rebound, Generation!State, Generation!Leases

\* What BeginSwitch makes of the state.
LEMMA BeginSwitchMoves ==
  ASSUME Generation!GenerationAssumption, genState \in Generation!State,
         genLease \in Generation!Leases, genLease.att # None, NEW c,
         Generation!Target \in StoreGenerations, Generation!BeginSwitch(c)
  PROVE  /\ genState' \in Generation!State
         /\ genState'.version = genState.version + 1
         /\ genState'.mode = "switching" /\ genState'.maint = TRUE
         /\ genState'.gen = genState.gen /\ genState'.fence = genState.fence
         /\ genState'.acc = genState.acc
         /\ genState'.want = Generation!Target /\ genState'.back = genState.gen
         /\ genState'.att = genLease.att
         /\ genState'.epoch = genLease.epoch /\ genState'.stamp = 0
<1>1. Generation!Succ(genState) \in Generation!State
      /\ Generation!Rebound(genState) \in Generation!State
  BY NextVersions
<1>2. \A r \in Generation!State :
        [r EXCEPT !.mode = "switching", !.want = Generation!Target,
            !.back = genState.gen, !.maint = TRUE] \in Generation!State
  <2>1. "switching" \in Generation!Modes
        /\ Generation!Target \in StoreGenerations
        /\ genState.gen \in StoreGenerations
    BY Firsts DEF Generation!Modes, Generation!Leases, Generation!State
  <2> QED
    BY <2>1 DEF Generation!State
<1>3. genState' \in Generation!State
  BY <1>1, <1>2 DEF Generation!BeginSwitch, Generation!Swap
<1> QED
  BY <1>3 DEF Generation!BeginSwitch, Generation!Swap, Generation!Rebound,
              Generation!Succ, Generation!State

\* What BeginValidation makes of the state.
LEMMA BeginValidationMoves ==
  ASSUME Generation!GenerationAssumption, genState \in Generation!State,
         genLease \in Generation!Leases, genLease.att # None, NEW c,
         Generation!BeginValidation(c)
  PROVE  /\ genState' \in Generation!State
         /\ genState'.version = genState.version + 1
         /\ genState'.mode = "validating" /\ genState'.maint = genState.maint
         /\ genState'.gen = genState.gen /\ genState'.fence = genState.fence
         /\ genState'.acc = genState.acc
         /\ genState'.want = genState.want /\ genState'.back = genState.back
         /\ genState'.att = genLease.att
         /\ genState'.epoch = genLease.epoch /\ genState'.stamp = 0
<1>1. Generation!Succ(genState) \in Generation!State
      /\ Generation!Rebound(genState) \in Generation!State
  BY NextVersions
<1>2. \A r \in Generation!State :
        [r EXCEPT !.mode = "validating"] \in Generation!State
  <2>1. "validating" \in Generation!Modes
    BY Firsts DEF Generation!Modes, Generation!Leases
  <2> QED
    BY <2>1 DEF Generation!State
<1>3. genState' \in Generation!State
  BY <1>1, <1>2 DEF Generation!BeginValidation, Generation!Swap
<1> QED
  BY <1>3 DEF Generation!BeginValidation, Generation!Swap, Generation!Rebound,
              Generation!Succ, Generation!State

\* What CommitServing makes of the state.
LEMMA CommitServingMoves ==
  ASSUME Generation!GenerationAssumption, genState \in Generation!State,
         genLease \in Generation!Leases, genLease.att # None, NEW c,
         NEW e \in 1..StoreFences,
         genState.want \in StoreGenerations, Generation!CommitServing(c, e)
  PROVE  /\ genState' \in Generation!State
         /\ genState'.version = genState.version + 1
         /\ genState'.mode = "steady" /\ genState'.maint = genState.maint
         /\ genState'.gen = genState.want /\ genState'.fence = e
         /\ genState'.acc = genLease.att
         /\ genState'.want = genState.want /\ genState'.back = genState.back
         /\ genState'.att = genLease.att
         /\ genState'.epoch = genLease.epoch /\ genState'.stamp = 0
<1>1. Generation!Succ(genState) \in Generation!State
      /\ Generation!Rebound(genState) \in Generation!State
  BY NextVersions
<1>2. \A r \in Generation!State :
        [r EXCEPT !.mode = "steady", !.gen = genState.want, !.fence = e,
            !.acc = genLease.att] \in Generation!State
  <2>1. "steady" \in Generation!Modes /\ genLease.att \in StoreAttempts
        /\ genState.want \in StoreGenerations
    BY Firsts DEF Generation!Modes, Generation!Leases
  <2> QED
    BY <2>1 DEF Generation!State
<1>3. genState' \in Generation!State
  BY <1>1, <1>2 DEF Generation!CommitServing, Generation!Swap
<1> QED
  BY <1>3 DEF Generation!CommitServing, Generation!Swap, Generation!Rebound,
              Generation!Succ, Generation!State

\* What MarkRestricted makes of the state.
LEMMA MarkRestrictedMoves ==
  ASSUME Generation!GenerationAssumption, genState \in Generation!State,
         genLease \in Generation!Leases, genLease.att # None, NEW c,
         Generation!MarkRestricted(c)
  PROVE  /\ genState' \in Generation!State
         /\ genState'.version = genState.version + 1
         /\ genState'.mode = "restricted" /\ genState'.maint = TRUE
         /\ genState'.gen = genState.gen /\ genState'.fence = genState.fence
         /\ genState'.acc = genState.acc
         /\ genState'.want = genState.want /\ genState'.back = genState.back
         /\ genState'.att = genLease.att
         /\ genState'.epoch = genLease.epoch /\ genState'.stamp = 0
<1>1. Generation!Succ(genState) \in Generation!State
      /\ Generation!Rebound(genState) \in Generation!State
  BY NextVersions
<1>2. \A r \in Generation!State :
        [r EXCEPT !.mode = "restricted", !.maint = TRUE] \in Generation!State
  <2>1. "restricted" \in Generation!Modes
    BY Firsts DEF Generation!Modes, Generation!Leases
  <2> QED
    BY <2>1 DEF Generation!State
<1>3. genState' \in Generation!State
  BY <1>1, <1>2 DEF Generation!MarkRestricted, Generation!Hazard,
                    Generation!Swap
<1> QED
  BY <1>3 DEF Generation!MarkRestricted, Generation!Hazard, Generation!Swap,
              Generation!Rebound, Generation!Succ, Generation!State

\* What MarkUnproven makes of the state.
LEMMA MarkUnprovenMoves ==
  ASSUME Generation!GenerationAssumption, genState \in Generation!State,
         genLease \in Generation!Leases, genLease.att # None, NEW c,
         Generation!MarkUnproven(c)
  PROVE  /\ genState' \in Generation!State
         /\ genState'.version = genState.version + 1
         /\ genState'.mode = "safety_unproven" /\ genState'.maint = TRUE
         /\ genState'.gen = genState.gen /\ genState'.fence = genState.fence
         /\ genState'.acc = genState.acc
         /\ genState'.want = genState.want /\ genState'.back = genState.back
         /\ genState'.att = genLease.att
         /\ genState'.epoch = genLease.epoch /\ genState'.stamp = 0
<1>1. Generation!Succ(genState) \in Generation!State
      /\ Generation!Rebound(genState) \in Generation!State
  BY NextVersions
<1>2. \A r \in Generation!State :
        [r EXCEPT !.mode = "safety_unproven", !.maint = TRUE]
          \in Generation!State
  <2>1. "safety_unproven" \in Generation!Modes
    BY Firsts DEF Generation!Modes, Generation!Leases
  <2> QED
    BY <2>1 DEF Generation!State
<1>3. genState' \in Generation!State
  BY <1>1, <1>2 DEF Generation!MarkUnproven, Generation!Hazard, Generation!Swap
<1> QED
  BY <1>3 DEF Generation!MarkUnproven, Generation!Hazard, Generation!Swap,
              Generation!Rebound, Generation!Succ, Generation!State

\* What Publish makes of the state.
LEMMA PublishMoves ==
  ASSUME Generation!GenerationAssumption, genState \in Generation!State,
         genLease \in Generation!Leases, genLease.att # None, NEW c,
             NEW t \in StoreStamps,
         Generation!Publish(c, Generation!Publication(genState, t))
  PROVE  /\ genState' \in Generation!State
         /\ genState'.version = genState.version + 1
         /\ genState'.mode = genState.mode /\ genState'.maint = FALSE
         /\ genState'.gen = genState.gen /\ genState'.fence = genState.fence
         /\ genState'.acc = genState.acc
         /\ genState'.want = None /\ genState'.back = genState.back
         /\ genState'.att = None
         /\ genState'.epoch = 0 /\ genState'.stamp = t
<1>1. Generation!Succ(genState) \in Generation!State
      /\ Generation!Rebound(genState) \in Generation!State
  BY NextVersions
<1>2. \A r \in Generation!State :
        [r EXCEPT !.want = None, !.att = None, !.epoch = 0, !.maint = FALSE,
            !.stamp = t] \in Generation!State
  <2>1. 0 \in 0..StoreEpochs /\ t \in StoreStamps
    BY Firsts DEF Generation!Modes, Generation!Leases
  <2> QED
    BY <2>1 DEF Generation!State
<1>3. genState' \in Generation!State
  BY <1>1, <1>2 DEF Generation!Publish, Generation!Swap, Generation!Publication
<1> QED
  BY <1>3 DEF Generation!Publish, Generation!Swap, Generation!Publication,
              Generation!Succ, Generation!State

\* The public state that a permit is for.
LEMMA NextPublic ==
  ASSUME Generation!GenerationAssumption, genState \in Generation!State,
         NEW t \in StoreStamps
  PROVE  Generation!Publication(genState, t) \in Generation!State
<1>1. Generation!Succ(genState) \in Generation!State
  BY NextVersions
<1>2. \A r \in Generation!State :
        [r EXCEPT !.want = None, !.att = None, !.epoch = 0, !.maint = FALSE,
            !.stamp = t] \in Generation!State
  <2>1. 0 \in 0..StoreEpochs /\ t \in StoreStamps
    BY Firsts
  <2> QED
    BY <2>1 DEF Generation!State
<1> QED
  BY <1>1, <1>2 DEF Generation!Publication

\* What a sequence holds is of its kind.
LEMMA ElementOf ==
  ASSUME NEW S, NEW q \in Seq(S)
  PROVE  \A i \in 1..Len(q) : q[i] \in S
  OBVIOUS

\* Every step keeps the forms of the records and of the state.
LEMMA GenTypeNext ==
  ASSUME Generation!GenerationAssumption, Generation!IInv,
         [Generation!Next]_(Generation!vars)
  PROVE  Generation!TypeOK'
<1> USE DEF Generation!GenerationAssumption, Generation!IInv,
            Generation!TypeOK, Generation!LeaseFits, Generation!SwitchFits,
            Generation!ReignFits, Generation!ViewFits,
            Generation!ServingIsAccepted, Generation!PublicHasPermit,
            Generation!OnePermit, Generation!FenceNamesReign,
            Generation!RollbackServedBefore, Generation!EndsSettled,
            Generation!Modes
<1> USE Firsts
<1>1. ASSUME NEW a \in StoreAttempts, NEW g \in StoreGenerations,
             Generation!Reserve(a, g)
      PROVE  Generation!TypeOK'
  <2>1. [base |-> genState.gen, target |-> g] \in Generation!Plans
    BY <1>1 DEF Generation!Plans, Generation!State
  <2> QED
    BY <1>1, <2>1 DEF Generation!Reserve, Generation!evidence,
                      Generation!allowed
<1>2. ASSUME NEW c \in StoreControllers, NEW a \in StoreAttempts,
             Generation!AcquireInitial(c, a)
      PROVE  Generation!TypeOK'
  <2>1. genLease' \in Generation!Leases
    BY <1>2 DEF Generation!AcquireInitial, Generation!Leases
  <2> QED
    BY <1>2, <2>1 DEF Generation!AcquireInitial, Generation!evidence,
                      Generation!allowed
<1>3. ASSUME NEW c \in StoreControllers, Generation!TakeOver(c)
      PROVE  Generation!TypeOK'
  <2>1. genLease.epoch + 1 \in 0..StoreEpochs
    BY <1>3 DEF Generation!TakeOver, Generation!Leases
  <2>2. genLease' \in Generation!Leases
    BY <1>3, <2>1 DEF Generation!TakeOver, Generation!Leases
  <2> QED
    BY <1>3, <2>2 DEF Generation!TakeOver, Generation!evidence,
                      Generation!allowed
<1>4. ASSUME NEW c \in StoreControllers, Generation!Load(c)
      PROVE  Generation!TypeOK'
  BY <1>4 DEF Generation!Load, Generation!control, Generation!evidence,
              Generation!allowed
<1>5. ASSUME NEW c \in StoreControllers, Generation!WriteGeneration(c)
      PROVE  Generation!TypeOK'
  <2>1. Generation!Target \in StoreGenerations
    BY <1>5 DEF Generation!WriteGeneration, Generation!Mutation,
                Generation!Target, Generation!Leases, Generation!Plans
  <2> QED
    BY <1>5, <2>1 DEF Generation!WriteGeneration, Generation!control,
                      Generation!allowed
<1>6. ASSUME NEW c \in StoreControllers, NEW e \in 1..StoreFences,
             Generation!WriteFence(c, e)
      PROVE  Generation!TypeOK'
  <2>1. genLease.att \in StoreAttempts
    BY <1>6 DEF Generation!WriteFence, Generation!Mutation, Generation!Leases
  <2> QED
    BY <1>6, <2>1 DEF Generation!WriteFence, Generation!control,
                      Generation!allowed
<1>7. ASSUME NEW c \in StoreControllers, NEW e \in 1..StoreFences,
             Generation!WriteAcceptance(c, e)
      PROVE  Generation!TypeOK'
  <2>1. genLease.att \in StoreAttempts
    BY <1>7 DEF Generation!WriteAcceptance, Generation!Mutation,
                Generation!Leases
  <2> QED
    BY <1>7, <2>1 DEF Generation!WriteAcceptance, Generation!control,
                      Generation!allowed
<1>8. ASSUME NEW c \in StoreControllers, NEW e \in 1..StoreFences,
             Generation!CommitServing(c, e)
      PROVE  Generation!TypeOK'
  <2>1. genLease.att # None /\ genState.want \in StoreGenerations
    BY <1>8 DEF Generation!CommitServing, Generation!Mutation,
                Generation!Shape, Generation!State
  <2>2. genState' \in Generation!State
    BY <1>8, <2>1, CommitServingMoves
  <2>3. Generation!Shape(genState')
    BY <1>8, <2>1, CommitServingMoves
       DEF Generation!CommitServing, Generation!Mutation, Generation!Shape,
           Generation!Public, Generation!Staged, Generation!Target,
           Generation!Bound
  <2>4. genView' \in [StoreControllers -> Generation!State \cup {None}]
    BY <1>8, <2>2 DEF Generation!CommitServing, Generation!Swap
  <2>5. [gen |-> genState.want, fence |-> e]
          \in [gen : StoreGenerations, fence : 1..StoreFences]
    BY <1>8, <2>1
  <2>6. genReigns' \in Seq([gen : StoreGenerations, fence : 1..StoreFences])
    BY <1>8, <2>5 DEF Generation!CommitServing
  <2> QED
    BY <1>8, <2>6, <2>2, <2>3, <2>4
       DEF Generation!CommitServing, Generation!Swap, Generation!control,
           Generation!evidence, Generation!allowed
<1>9. ASSUME NEW c \in StoreControllers, Generation!BeginSwitch(c)
      PROVE  Generation!TypeOK'
  <2>1. genLease.att # None /\ Generation!Target \in StoreGenerations
        /\ genLease.att \in StoreAttempts /\ Generation!Target # genState.gen
    BY <1>9 DEF Generation!BeginSwitch, Generation!Mutation, Generation!Leases,
                Generation!Target
  <2>2. genState' \in Generation!State
    BY <1>9, <2>1, BeginSwitchMoves
  <2>3. Generation!Shape(genState')
    <3>1. /\ genState'.mode = "switching" /\ genState'.maint = TRUE
          /\ genState'.att = genLease.att /\ genState'.want = Generation!Target
          /\ genState'.back = genState.gen /\ genState'.gen = genState.gen
      BY <1>9, <2>1, BeginSwitchMoves
    <3>2. genLease.att # None /\ Generation!Target # None
          /\ Generation!Target # genState.gen
      BY <2>1
    <3> QED
      BY ONLY <3>1, <3>2 DEF Generation!Shape, Generation!Public,
                             Generation!Staged
  <2>4. genView' \in [StoreControllers -> Generation!State \cup {None}]
    BY <1>9, <2>2 DEF Generation!BeginSwitch, Generation!Swap
  <2> QED
    BY <1>9, <2>2, <2>3, <2>4 DEF Generation!BeginSwitch, Generation!Swap,
                                  Generation!control, Generation!evidence,
                                  Generation!allowed
<1>10. ASSUME NEW c \in StoreControllers, Generation!BeginValidation(c)
      PROVE  Generation!TypeOK'
  <2>1. genLease.att # None
    BY <1>10 DEF Generation!BeginValidation, Generation!Mutation,
                 Generation!Shape, Generation!State
  <2>2. genState' \in Generation!State
    BY <1>10, <2>1, BeginValidationMoves
  <2>3. Generation!Shape(genState')
    BY <1>10, <2>1, BeginValidationMoves
       DEF Generation!BeginValidation, Generation!Mutation, Generation!Shape,
           Generation!Public, Generation!Staged, Generation!Target,
           Generation!Bound
  <2>4. genView' \in [StoreControllers -> Generation!State \cup {None}]
    BY <1>10, <2>2 DEF Generation!BeginValidation, Generation!Swap
  <2> QED
    BY <1>10, <2>2, <2>3, <2>4
       DEF Generation!BeginValidation, Generation!Swap, Generation!control,
           Generation!evidence, Generation!allowed
<1>11. ASSUME NEW c \in StoreControllers, Generation!MarkRestricted(c)
      PROVE  Generation!TypeOK'
  <2>1. genLease.att # None
    BY <1>11 DEF Generation!MarkRestricted, Generation!Hazard,
                 Generation!Mutation, Generation!Shape, Generation!State
  <2>2. genState' \in Generation!State
    BY <1>11, <2>1, MarkRestrictedMoves
  <2>3. Generation!Shape(genState')
    BY <1>11, <2>1, MarkRestrictedMoves
       DEF Generation!MarkRestricted, Generation!Hazard, Generation!Mutation,
           Generation!Shape, Generation!Public, Generation!Staged,
           Generation!Target, Generation!Bound
  <2>4. genView' \in [StoreControllers -> Generation!State \cup {None}]
    BY <1>11, <2>2 DEF Generation!MarkRestricted, Generation!Hazard,
                       Generation!Swap
  <2> QED
    BY <1>11, <2>2, <2>3, <2>4
       DEF Generation!MarkRestricted, Generation!Hazard, Generation!Swap,
           Generation!control, Generation!evidence, Generation!allowed
<1>12. ASSUME NEW c \in StoreControllers, Generation!MarkUnproven(c)
      PROVE  Generation!TypeOK'
  <2>1. genLease.att # None
    BY <1>12 DEF Generation!MarkUnproven, Generation!Hazard,
                 Generation!Mutation, Generation!Shape, Generation!State
  <2>2. genState' \in Generation!State
    BY <1>12, <2>1, MarkUnprovenMoves
  <2>3. Generation!Shape(genState')
    BY <1>12, <2>1, MarkUnprovenMoves
       DEF Generation!MarkUnproven, Generation!Hazard, Generation!Mutation,
           Generation!Shape, Generation!Public, Generation!Staged,
           Generation!Target, Generation!Bound
  <2>4. genView' \in [StoreControllers -> Generation!State \cup {None}]
    BY <1>12, <2>2 DEF Generation!MarkUnproven, Generation!Hazard,
                       Generation!Swap
  <2> QED
    BY <1>12, <2>2, <2>3, <2>4 DEF Generation!MarkUnproven, Generation!Hazard,
                                   Generation!Swap, Generation!control,
                                   Generation!evidence, Generation!allowed
<1>13. ASSUME NEW c \in StoreControllers, NEW t \in StoreStamps,
              Generation!WritePermit(c, Generation!Publication(genState, t))
      PROVE  Generation!TypeOK'
  <2>1. Generation!Publication(genState, t) \in Generation!State
    BY NextPublic
  <2>2. [under |-> genState, for |-> Generation!Publication(genState, t)]
        \in [under : Generation!State, for : Generation!State]
    BY <2>1
  <2> QED
    BY <1>13, <2>1, <2>2 DEF Generation!WritePermit, Generation!control,
                             Generation!evidence
<1>14. ASSUME NEW c \in StoreControllers, NEW t \in StoreStamps,
              Generation!CrashInPermit(c, Generation!Publication(genState, t))
      PROVE  Generation!TypeOK'
  <2>1. Generation!Publication(genState, t) \in Generation!State
    BY NextPublic
  <2>2. [under |-> genState, for |-> Generation!Publication(genState, t)]
        \in [under : Generation!State, for : Generation!State]
    BY <2>1
  <2>3. genLease' \in Generation!Leases
    BY <1>14 DEF Generation!CrashInPermit, Generation!Leases
  <2> QED
    BY <1>14, <2>2, <2>3 DEF Generation!CrashInPermit, Generation!evidence
<1>15. ASSUME NEW c \in StoreControllers, NEW t \in StoreStamps,
              Generation!Publish(c, Generation!Publication(genState, t))
      PROVE  Generation!TypeOK'
  <2>1. genLease.att # None
    BY <1>15 DEF Generation!Publish, Generation!Mutation, Generation!Shape,
                 Generation!State
  <2>2. genState' \in Generation!State
    BY <1>15, <2>1, PublishMoves
  <2>3. Generation!Shape(genState')
    BY <1>15, <2>1, PublishMoves DEF Generation!Publish, Generation!Mutation,
                                     Generation!Shape, Generation!Public,
                                     Generation!Staged, Generation!Target,
                                     Generation!Bound
  <2>4. genView' \in [StoreControllers -> Generation!State \cup {None}]
    BY <1>15, <2>2 DEF Generation!Publish, Generation!Swap
  <2> QED
    BY <1>15, <2>2, <2>3, <2>4 DEF Generation!Publish, Generation!Swap,
                                   Generation!control, Generation!evidence,
                                   Generation!allowed
<1>16. ASSUME NEW c \in StoreControllers, Generation!Finish(c)
      PROVE  Generation!TypeOK'
  <2>1. genLease' \in Generation!Leases /\ genLease.att \in StoreAttempts
    BY <1>16 DEF Generation!Finish, Generation!Mutation, Generation!Leases
  <2> QED
    BY <1>16, <2>1 DEF Generation!Finish, Generation!evidence,
                       Generation!allowed
<1>17. ASSUME NEW c \in StoreControllers, Generation!Crash(c)
      PROVE  Generation!TypeOK'
  <2>1. genLease' \in Generation!Leases
    BY <1>17 DEF Generation!Crash, Generation!Leases
  <2> QED
    BY <1>17, <2>1 DEF Generation!Crash, Generation!evidence,
                       Generation!allowed
<1>18. CASE UNCHANGED Generation!vars
  BY <1>18 DEF Generation!vars, Generation!control, Generation!evidence,
               Generation!allowed
<1> QED
  BY <1>1, <1>2, <1>3, <1>4, <1>5, <1>6, <1>7, <1>8, <1>9, <1>10, <1>11, <1>12,
     <1>13, <1>14, <1>15, <1>16, <1>17, <1>18
     DEF Generation!Next


\* The first generation serves and nothing was begun.
LEMMA GenInit == ASSUME Generation!GenerationAssumption PROVE Generation!Init
                 => Generation!IInv
<1> SUFFICES ASSUME Generation!Init
             PROVE  Generation!IInv
  OBVIOUS
<1> USE Firsts DEF Generation!Init
<1>1. /\ genState \in Generation!State /\ Generation!Shape(genState)
      /\ Generation!Public(genState)
      /\ genState.gen = FirstGeneration /\ genState.fence = 1
      /\ genState.acc = None
  BY DEF Generation!State, Generation!Shape, Generation!Modes,
         Generation!Public, Generation!Staged
<1>2. /\ genReigns \in Seq([gen : StoreGenerations, fence : 1..StoreFences])
      /\ Len(genReigns) = 1 /\ genReigns # <<>>
      /\ genReigns[1] = [gen |-> FirstGeneration, fence |-> 1]
  OBVIOUS
<1>3. genLease \in Generation!Leases /\ genLease.active = FALSE
  BY DEF Generation!Leases
<1>4. Generation!TypeOK
  <2>1. genView \in [StoreControllers -> Generation!State \cup {None}]
    OBVIOUS
  <2>2. genPlan \in [StoreAttempts -> Generation!Plans \cup {None}]
    OBVIOUS
  <2>3. genAcceptance \in [StoreAttempts -> 1..StoreFences \cup {None}]
    OBVIOUS
  <2>4. genGenerations \subseteq StoreGenerations
    OBVIOUS
  <2> QED
    BY ONLY <1>1, <1>2, <1>3, <2>1, <2>2, <2>3, <2>4, Generation!Init
       DEF Generation!TypeOK, Generation!Init
<1>5. Generation!LeaseFits
  BY <1>3 DEF Generation!LeaseFits
<1>6. Generation!SwitchFits /\ Generation!EndsSettled
  BY <1>1 DEF Generation!SwitchFits, Generation!EndsSettled,
              Generation!InSwitch, Generation!Public, Generation!Staged
<1>7. Generation!ReignFits /\ Generation!FenceNamesReign
      /\ Generation!RollbackServedBefore
  BY <1>1, <1>2 DEF Generation!ReignFits, Generation!FenceNamesReign,
                    Generation!RollbackServedBefore
<1>8. Generation!ViewFits
  BY DEF Generation!ViewFits
<1>9. Generation!ServingIsAccepted /\ Generation!PublicHasPermit
      /\ Generation!OnePermit
  BY <1>1 DEF Generation!ServingIsAccepted, Generation!PublicHasPermit,
              Generation!OnePermit
<1> QED
  BY <1>4, <1>5, <1>6, <1>7, <1>8, <1>9 DEF Generation!IInv

\* A switch is of the attempt that has the lease.
LEMMA GenLeaseNext ==
  ASSUME Generation!GenerationAssumption, Generation!IInv,
         [Generation!Next]_(Generation!vars)
  PROVE  Generation!LeaseFits' /\ Generation!SwitchFits'
         /\ Generation!EndsSettled'
<1> USE DEF Generation!GenerationAssumption, Generation!IInv,
            Generation!TypeOK, Generation!LeaseFits, Generation!SwitchFits,
            Generation!ReignFits, Generation!ViewFits,
            Generation!ServingIsAccepted, Generation!PublicHasPermit,
            Generation!OnePermit, Generation!FenceNamesReign,
            Generation!RollbackServedBefore, Generation!EndsSettled,
            Generation!Public, Generation!Staged, Generation!InSwitch,
            Generation!Hazardous
<1> USE Firsts
<1>1. ASSUME NEW a \in StoreAttempts, NEW g \in StoreGenerations,
             Generation!Reserve(a, g)
      PROVE  Generation!LeaseFits' /\ Generation!SwitchFits'
             /\ Generation!EndsSettled'
  BY <1>1 DEF Generation!Reserve, Generation!evidence, Generation!allowed
<1>2. ASSUME NEW c \in StoreControllers, NEW a \in StoreAttempts,
             Generation!AcquireInitial(c, a)
      PROVE  Generation!LeaseFits' /\ Generation!SwitchFits'
             /\ Generation!EndsSettled'
  BY <1>2 DEF Generation!AcquireInitial, Generation!evidence,
              Generation!allowed
<1>3. ASSUME NEW c \in StoreControllers, Generation!TakeOver(c)
      PROVE  Generation!LeaseFits' /\ Generation!SwitchFits'
             /\ Generation!EndsSettled'
  BY <1>3 DEF Generation!TakeOver, Generation!evidence, Generation!allowed
<1>4. ASSUME NEW c \in StoreControllers, Generation!Load(c)
      PROVE  Generation!LeaseFits' /\ Generation!SwitchFits'
             /\ Generation!EndsSettled'
  BY <1>4 DEF Generation!Load, Generation!control, Generation!evidence,
              Generation!allowed
<1>5. ASSUME NEW c \in StoreControllers, Generation!WriteGeneration(c)
      PROVE  Generation!LeaseFits' /\ Generation!SwitchFits'
             /\ Generation!EndsSettled'
  BY <1>5 DEF Generation!WriteGeneration, Generation!control,
              Generation!allowed
<1>6. ASSUME NEW c \in StoreControllers, NEW e \in 1..StoreFences,
             Generation!WriteFence(c, e)
      PROVE  Generation!LeaseFits' /\ Generation!SwitchFits'
             /\ Generation!EndsSettled'
  BY <1>6 DEF Generation!WriteFence, Generation!control, Generation!allowed
<1>7. ASSUME NEW c \in StoreControllers, NEW e \in 1..StoreFences,
             Generation!WriteAcceptance(c, e)
      PROVE  Generation!LeaseFits' /\ Generation!SwitchFits'
             /\ Generation!EndsSettled'
  BY <1>7 DEF Generation!WriteAcceptance, Generation!control,
              Generation!allowed
<1>8. ASSUME NEW c \in StoreControllers, NEW e \in 1..StoreFences,
             Generation!CommitServing(c, e)
      PROVE  Generation!LeaseFits' /\ Generation!SwitchFits'
             /\ Generation!EndsSettled'
  <2>1. genLease.active /\ genLease.att # None
        /\ genLease.att \in StoreAttempts
        /\ genState.want \in StoreGenerations
    BY <1>8 DEF Generation!CommitServing, Generation!Mutation,
                Generation!Leases, Generation!Target, Generation!Plans,
                Generation!Shape, Generation!State
  <2>2. /\ genState'.version = genState.version + 1
        /\ genState'.mode = "steady" /\ genState'.maint = genState.maint
        /\ genState'.gen = genState.want /\ genState'.fence = e
        /\ genState'.acc = genLease.att
        /\ genState'.want = genState.want /\ genState'.back = genState.back
        /\ genState'.att = genLease.att
        /\ genState'.epoch = genLease.epoch /\ genState'.stamp = 0
    BY <1>8, <2>1, CommitServingMoves
  <2>3. UNCHANGED <<Generation!control, Generation!evidence,
          Generation!allowed>>
    BY <1>8 DEF Generation!CommitServing, Generation!Swap
  <2> QED
    BY <1>8, <2>1, <2>2, <2>3 DEF Generation!CommitServing, Generation!control,
                                  Generation!evidence, Generation!allowed
<1>9. ASSUME NEW c \in StoreControllers, Generation!BeginSwitch(c)
      PROVE  Generation!LeaseFits' /\ Generation!SwitchFits'
             /\ Generation!EndsSettled'
  <2>1. genLease.active /\ genLease.att # None
        /\ genLease.att \in StoreAttempts
        /\ Generation!Target \in StoreGenerations
        /\ Generation!Target # genState.gen
    BY <1>9 DEF Generation!BeginSwitch, Generation!Mutation, Generation!Leases,
                Generation!Target, Generation!Plans, Generation!Shape,
                Generation!State
  <2>2. /\ genState'.version = genState.version + 1
        /\ genState'.mode = "switching" /\ genState'.maint = TRUE
        /\ genState'.gen = genState.gen /\ genState'.fence = genState.fence
        /\ genState'.acc = genState.acc
        /\ genState'.want = Generation!Target /\ genState'.back = genState.gen
        /\ genState'.att = genLease.att
        /\ genState'.epoch = genLease.epoch /\ genState'.stamp = 0
    BY <1>9, <2>1, BeginSwitchMoves
  <2>3. UNCHANGED <<Generation!control, Generation!evidence,
          Generation!allowed>>
    BY <1>9 DEF Generation!BeginSwitch, Generation!Swap
  <2> QED
    BY <1>9, <2>1, <2>2, <2>3 DEF Generation!BeginSwitch, Generation!control,
                                  Generation!evidence, Generation!allowed,
                                  Generation!Target
<1>10. ASSUME NEW c \in StoreControllers, Generation!BeginValidation(c)
      PROVE  Generation!LeaseFits' /\ Generation!SwitchFits'
             /\ Generation!EndsSettled'
  <2>1. genLease.active /\ genLease.att # None
        /\ genLease.att \in StoreAttempts
    BY <1>10 DEF Generation!BeginValidation, Generation!Mutation,
                 Generation!Leases, Generation!Target, Generation!Plans,
                 Generation!Shape, Generation!State
  <2>2. /\ genState'.version = genState.version + 1
        /\ genState'.mode = "validating" /\ genState'.maint = genState.maint
        /\ genState'.gen = genState.gen /\ genState'.fence = genState.fence
        /\ genState'.acc = genState.acc
        /\ genState'.want = genState.want /\ genState'.back = genState.back
        /\ genState'.att = genLease.att
        /\ genState'.epoch = genLease.epoch /\ genState'.stamp = 0
    BY <1>10, <2>1, BeginValidationMoves
  <2>3. UNCHANGED <<Generation!control, Generation!evidence,
          Generation!allowed>>
    BY <1>10 DEF Generation!BeginValidation, Generation!Swap
  <2> QED
    BY <1>10, <2>1, <2>2, <2>3
       DEF Generation!BeginValidation, Generation!control, Generation!evidence,
           Generation!allowed
<1>11. ASSUME NEW c \in StoreControllers, Generation!MarkRestricted(c)
      PROVE  Generation!LeaseFits' /\ Generation!SwitchFits'
             /\ Generation!EndsSettled'
  <2>1. genLease.active /\ genLease.att # None
        /\ genLease.att \in StoreAttempts
    BY <1>11 DEF Generation!MarkRestricted, Generation!Hazard,
                 Generation!Mutation, Generation!Leases, Generation!Target,
                 Generation!Plans, Generation!Shape, Generation!State
  <2>2. /\ genState'.version = genState.version + 1
        /\ genState'.mode = "restricted" /\ genState'.maint = TRUE
        /\ genState'.gen = genState.gen /\ genState'.fence = genState.fence
        /\ genState'.acc = genState.acc
        /\ genState'.want = genState.want /\ genState'.back = genState.back
        /\ genState'.att = genLease.att
        /\ genState'.epoch = genLease.epoch /\ genState'.stamp = 0
    BY <1>11, <2>1, MarkRestrictedMoves
  <2>3. UNCHANGED <<Generation!control, Generation!evidence,
          Generation!allowed>>
    BY <1>11 DEF Generation!MarkRestricted, Generation!Hazard, Generation!Swap
  <2> QED
    BY <1>11, <2>1, <2>2, <2>3
       DEF Generation!MarkRestricted, Generation!Hazard, Generation!control,
           Generation!evidence, Generation!allowed
<1>12. ASSUME NEW c \in StoreControllers, Generation!MarkUnproven(c)
      PROVE  Generation!LeaseFits' /\ Generation!SwitchFits'
             /\ Generation!EndsSettled'
  <2>1. genLease.active /\ genLease.att # None
        /\ genLease.att \in StoreAttempts
    BY <1>12 DEF Generation!MarkUnproven, Generation!Hazard,
                 Generation!Mutation, Generation!Leases, Generation!Target,
                 Generation!Plans, Generation!Shape, Generation!State
  <2>2. /\ genState'.version = genState.version + 1
        /\ genState'.mode = "safety_unproven" /\ genState'.maint = TRUE
        /\ genState'.gen = genState.gen /\ genState'.fence = genState.fence
        /\ genState'.acc = genState.acc
        /\ genState'.want = genState.want /\ genState'.back = genState.back
        /\ genState'.att = genLease.att
        /\ genState'.epoch = genLease.epoch /\ genState'.stamp = 0
    BY <1>12, <2>1, MarkUnprovenMoves
  <2>3. UNCHANGED <<Generation!control, Generation!evidence,
          Generation!allowed>>
    BY <1>12 DEF Generation!MarkUnproven, Generation!Hazard, Generation!Swap
  <2> QED
    BY <1>12, <2>1, <2>2, <2>3 DEF Generation!MarkUnproven, Generation!Hazard,
                                   Generation!control, Generation!evidence,
                                   Generation!allowed
<1>13. ASSUME NEW c \in StoreControllers, NEW t \in StoreStamps,
              Generation!WritePermit(c, Generation!Publication(genState, t))
      PROVE  Generation!LeaseFits' /\ Generation!SwitchFits'
             /\ Generation!EndsSettled'
  BY <1>13 DEF Generation!WritePermit, Generation!MayStage, Generation!Bound,
               Generation!control, Generation!evidence
<1>14. ASSUME NEW c \in StoreControllers, NEW t \in StoreStamps,
              Generation!CrashInPermit(c, Generation!Publication(genState, t))
      PROVE  Generation!LeaseFits' /\ Generation!SwitchFits'
             /\ Generation!EndsSettled'
  BY <1>14 DEF Generation!CrashInPermit, Generation!MayStage, Generation!Bound,
               Generation!evidence
<1>15. ASSUME NEW c \in StoreControllers, NEW t \in StoreStamps,
              Generation!Publish(c, Generation!Publication(genState, t))
      PROVE  Generation!LeaseFits' /\ Generation!SwitchFits'
             /\ Generation!EndsSettled'
  <2>1. genLease.active /\ genLease.att # None
        /\ genLease.att \in StoreAttempts
    BY <1>15 DEF Generation!Publish, Generation!Mutation, Generation!Leases,
                 Generation!Target, Generation!Plans, Generation!Shape,
                 Generation!State
  <2>2. /\ genState'.version = genState.version + 1
        /\ genState'.mode = genState.mode /\ genState'.maint = FALSE
        /\ genState'.gen = genState.gen /\ genState'.fence = genState.fence
        /\ genState'.acc = genState.acc
        /\ genState'.want = None /\ genState'.back = genState.back
        /\ genState'.att = None
        /\ genState'.epoch = 0 /\ genState'.stamp = t
    BY <1>15, <2>1, PublishMoves
  <2>3. UNCHANGED <<Generation!control, Generation!evidence,
          Generation!allowed>>
    BY <1>15 DEF Generation!Publish, Generation!Swap
  <2> QED
    BY <1>15, <2>1, <2>2, <2>3 DEF Generation!Publish, Generation!control,
                                   Generation!evidence, Generation!allowed
<1>16. ASSUME NEW c \in StoreControllers, Generation!Finish(c)
      PROVE  Generation!LeaseFits' /\ Generation!SwitchFits'
             /\ Generation!EndsSettled'
  BY <1>16 DEF Generation!Finish, Generation!Outcome, Generation!OpenWith,
               Generation!HazardOfAttempt, Generation!Bound,
               Generation!evidence, Generation!allowed
<1>17. ASSUME NEW c \in StoreControllers, Generation!Crash(c)
      PROVE  Generation!LeaseFits' /\ Generation!SwitchFits'
             /\ Generation!EndsSettled'
  BY <1>17 DEF Generation!Crash, Generation!evidence, Generation!allowed
<1>18. CASE UNCHANGED Generation!vars
  BY <1>18 DEF Generation!vars, Generation!control, Generation!evidence,
               Generation!allowed
<1> QED
  BY <1>1, <1>2, <1>3, <1>4, <1>5, <1>6, <1>7, <1>8, <1>9, <1>10, <1>11, <1>12,
     <1>13, <1>14, <1>15, <1>16, <1>17, <1>18
     DEF Generation!Next

\* The reigns follow each other.
LEMMA GenReignNext ==
  ASSUME Generation!GenerationAssumption, Generation!IInv,
         [Generation!Next]_(Generation!vars)
  PROVE  Generation!ReignFits' /\ Generation!FenceNamesReign'
         /\ Generation!RollbackServedBefore'
<1> USE DEF Generation!GenerationAssumption, Generation!IInv,
            Generation!TypeOK, Generation!LeaseFits, Generation!SwitchFits,
            Generation!ReignFits, Generation!ViewFits,
            Generation!ServingIsAccepted, Generation!PublicHasPermit,
            Generation!OnePermit, Generation!FenceNamesReign,
            Generation!RollbackServedBefore, Generation!EndsSettled,
            Generation!Public, Generation!Staged, Generation!InSwitch,
            Generation!Hazardous
<1> USE Firsts
<1>1. ASSUME NEW a \in StoreAttempts, NEW g \in StoreGenerations,
             Generation!Reserve(a, g)
      PROVE  Generation!ReignFits' /\ Generation!FenceNamesReign'
             /\ Generation!RollbackServedBefore'
  BY <1>1 DEF Generation!Reserve, Generation!evidence, Generation!allowed
<1>2. ASSUME NEW c \in StoreControllers, NEW a \in StoreAttempts,
             Generation!AcquireInitial(c, a)
      PROVE  Generation!ReignFits' /\ Generation!FenceNamesReign'
             /\ Generation!RollbackServedBefore'
  BY <1>2 DEF Generation!AcquireInitial, Generation!evidence,
              Generation!allowed
<1>3. ASSUME NEW c \in StoreControllers, Generation!TakeOver(c)
      PROVE  Generation!ReignFits' /\ Generation!FenceNamesReign'
             /\ Generation!RollbackServedBefore'
  BY <1>3 DEF Generation!TakeOver, Generation!evidence, Generation!allowed
<1>4. ASSUME NEW c \in StoreControllers, Generation!Load(c)
      PROVE  Generation!ReignFits' /\ Generation!FenceNamesReign'
             /\ Generation!RollbackServedBefore'
  BY <1>4 DEF Generation!Load, Generation!control, Generation!evidence,
              Generation!allowed
<1>5. ASSUME NEW c \in StoreControllers, Generation!WriteGeneration(c)
      PROVE  Generation!ReignFits' /\ Generation!FenceNamesReign'
             /\ Generation!RollbackServedBefore'
  BY <1>5 DEF Generation!WriteGeneration, Generation!control,
              Generation!allowed
<1>6. ASSUME NEW c \in StoreControllers, NEW e \in 1..StoreFences,
             Generation!WriteFence(c, e)
      PROVE  Generation!ReignFits' /\ Generation!FenceNamesReign'
             /\ Generation!RollbackServedBefore'
  BY <1>6 DEF Generation!WriteFence, Generation!control, Generation!allowed
<1>7. ASSUME NEW c \in StoreControllers, NEW e \in 1..StoreFences,
             Generation!WriteAcceptance(c, e)
      PROVE  Generation!ReignFits' /\ Generation!FenceNamesReign'
             /\ Generation!RollbackServedBefore'
  BY <1>7 DEF Generation!WriteAcceptance, Generation!control,
              Generation!allowed
<1>8. ASSUME NEW c \in StoreControllers, NEW e \in 1..StoreFences,
             Generation!CommitServing(c, e)
      PROVE  Generation!ReignFits' /\ Generation!FenceNamesReign'
             /\ Generation!RollbackServedBefore'
  <2>1. genLease.active /\ genLease.att # None
        /\ genLease.att \in StoreAttempts
        /\ genState.want \in StoreGenerations
    BY <1>8 DEF Generation!CommitServing, Generation!Mutation,
                Generation!Leases, Generation!Target, Generation!Plans,
                Generation!Shape, Generation!State
  <2>2. /\ genState'.version = genState.version + 1
        /\ genState'.mode = "steady" /\ genState'.maint = genState.maint
        /\ genState'.gen = genState.want /\ genState'.fence = e
        /\ genState'.acc = genLease.att
        /\ genState'.want = genState.want /\ genState'.back = genState.back
        /\ genState'.att = genLease.att
        /\ genState'.epoch = genLease.epoch /\ genState'.stamp = 0
    BY <1>8, <2>1, CommitServingMoves
  <2>3. UNCHANGED <<Generation!control, Generation!evidence,
          Generation!allowed>>
    BY <1>8 DEF Generation!CommitServing, Generation!Swap
  <2> DEFINE new == [gen |-> genState.want, fence |-> e]
  <2>4. /\ genReigns' = Append(genReigns, new) /\ e > genState.fence
        /\ Len(genReigns) \in Nat
    BY <1>8 DEF Generation!CommitServing
  <2>5. /\ Len(genReigns') = Len(genReigns) + 1 /\ genReigns' # <<>>
        /\ genReigns'[Len(genReigns) + 1] = new
        /\ \A i \in 1..Len(genReigns) : genReigns'[i] = genReigns[i]
    BY <2>4
  <2>6. /\ genReigns # <<>> /\ Len(genReigns) \in 1..Len(genReigns)
        /\ genReigns[Len(genReigns)].fence = genState.fence
        /\ genReigns[Len(genReigns)].gen = genState.gen
    BY <2>4
  <2>7. \A i \in 1..Len(genReigns) : genReigns[i].fence \in Nat
        /\ genReigns[i].fence < e
    <3>1. \A i \in 1..Len(genReigns) :
            genReigns[i] \in [gen : StoreGenerations, fence : 1..StoreFences]
      <4>1. genReigns \in Seq([gen : StoreGenerations, fence : 1..StoreFences])
        OBVIOUS
      <4> QED
        BY <4>1, ElementOf
    <3>2. \A i \in 1..Len(genReigns) :
            genReigns[i].fence \in Nat
            /\ (i # Len(genReigns) => genReigns[i].fence < genState.fence)
      BY <3>1, <2>4, <2>6
    <3> QED
      BY <3>2, <2>4, <2>6
  <2>8. Generation!ReignFits'
    BY <2>2, <2>5
  <2>9. Generation!FenceNamesReign'
    BY <2>4, <2>5, <2>7
  <2>10. Generation!RollbackServedBefore'
    <3>1. genState'.back = genState.gen
      BY <1>8, <2>2 DEF Generation!CommitServing, Generation!Shape
    <3>2. Len(genReigns') - 1 = Len(genReigns)
      BY <2>4, <2>5
    <3> QED
      BY <3>1, <3>2, <2>5, <2>6
  <2> QED
    BY <2>8, <2>9, <2>10
<1>9. ASSUME NEW c \in StoreControllers, Generation!BeginSwitch(c)
      PROVE  Generation!ReignFits' /\ Generation!FenceNamesReign'
             /\ Generation!RollbackServedBefore'
  <2>1. genLease.active /\ genLease.att # None
        /\ genLease.att \in StoreAttempts
        /\ Generation!Target \in StoreGenerations
        /\ Generation!Target # genState.gen
    BY <1>9 DEF Generation!BeginSwitch, Generation!Mutation, Generation!Leases,
                Generation!Target, Generation!Plans, Generation!Shape,
                Generation!State
  <2>2. /\ genState'.version = genState.version + 1
        /\ genState'.mode = "switching" /\ genState'.maint = TRUE
        /\ genState'.gen = genState.gen /\ genState'.fence = genState.fence
        /\ genState'.acc = genState.acc
        /\ genState'.want = Generation!Target /\ genState'.back = genState.gen
        /\ genState'.att = genLease.att
        /\ genState'.epoch = genLease.epoch /\ genState'.stamp = 0
    BY <1>9, <2>1, BeginSwitchMoves
  <2>3. UNCHANGED <<Generation!control, Generation!evidence,
          Generation!allowed>>
    BY <1>9 DEF Generation!BeginSwitch, Generation!Swap
  <2> QED
    BY <1>9, <2>1, <2>2, <2>3 DEF Generation!BeginSwitch, Generation!control,
                                  Generation!evidence, Generation!allowed
<1>10. ASSUME NEW c \in StoreControllers, Generation!BeginValidation(c)
      PROVE  Generation!ReignFits' /\ Generation!FenceNamesReign'
             /\ Generation!RollbackServedBefore'
  <2>1. genLease.active /\ genLease.att # None
        /\ genLease.att \in StoreAttempts
    BY <1>10 DEF Generation!BeginValidation, Generation!Mutation,
                 Generation!Leases, Generation!Target, Generation!Plans,
                 Generation!Shape, Generation!State
  <2>2. /\ genState'.version = genState.version + 1
        /\ genState'.mode = "validating" /\ genState'.maint = genState.maint
        /\ genState'.gen = genState.gen /\ genState'.fence = genState.fence
        /\ genState'.acc = genState.acc
        /\ genState'.want = genState.want /\ genState'.back = genState.back
        /\ genState'.att = genLease.att
        /\ genState'.epoch = genLease.epoch /\ genState'.stamp = 0
    BY <1>10, <2>1, BeginValidationMoves
  <2>3. UNCHANGED <<Generation!control, Generation!evidence,
          Generation!allowed>>
    BY <1>10 DEF Generation!BeginValidation, Generation!Swap
  <2> QED
    BY <1>10, <2>1, <2>2, <2>3
       DEF Generation!BeginValidation, Generation!control, Generation!evidence,
           Generation!allowed
<1>11. ASSUME NEW c \in StoreControllers, Generation!MarkRestricted(c)
      PROVE  Generation!ReignFits' /\ Generation!FenceNamesReign'
             /\ Generation!RollbackServedBefore'
  <2>1. genLease.active /\ genLease.att # None
        /\ genLease.att \in StoreAttempts
    BY <1>11 DEF Generation!MarkRestricted, Generation!Hazard,
                 Generation!Mutation, Generation!Leases, Generation!Target,
                 Generation!Plans, Generation!Shape, Generation!State
  <2>2. /\ genState'.version = genState.version + 1
        /\ genState'.mode = "restricted" /\ genState'.maint = TRUE
        /\ genState'.gen = genState.gen /\ genState'.fence = genState.fence
        /\ genState'.acc = genState.acc
        /\ genState'.want = genState.want /\ genState'.back = genState.back
        /\ genState'.att = genLease.att
        /\ genState'.epoch = genLease.epoch /\ genState'.stamp = 0
    BY <1>11, <2>1, MarkRestrictedMoves
  <2>3. UNCHANGED <<Generation!control, Generation!evidence,
          Generation!allowed>>
    BY <1>11 DEF Generation!MarkRestricted, Generation!Hazard, Generation!Swap
  <2> QED
    BY <1>11, <2>1, <2>2, <2>3
       DEF Generation!MarkRestricted, Generation!Hazard, Generation!control,
           Generation!evidence, Generation!allowed
<1>12. ASSUME NEW c \in StoreControllers, Generation!MarkUnproven(c)
      PROVE  Generation!ReignFits' /\ Generation!FenceNamesReign'
             /\ Generation!RollbackServedBefore'
  <2>1. genLease.active /\ genLease.att # None
        /\ genLease.att \in StoreAttempts
    BY <1>12 DEF Generation!MarkUnproven, Generation!Hazard,
                 Generation!Mutation, Generation!Leases, Generation!Target,
                 Generation!Plans, Generation!Shape, Generation!State
  <2>2. /\ genState'.version = genState.version + 1
        /\ genState'.mode = "safety_unproven" /\ genState'.maint = TRUE
        /\ genState'.gen = genState.gen /\ genState'.fence = genState.fence
        /\ genState'.acc = genState.acc
        /\ genState'.want = genState.want /\ genState'.back = genState.back
        /\ genState'.att = genLease.att
        /\ genState'.epoch = genLease.epoch /\ genState'.stamp = 0
    BY <1>12, <2>1, MarkUnprovenMoves
  <2>3. UNCHANGED <<Generation!control, Generation!evidence,
          Generation!allowed>>
    BY <1>12 DEF Generation!MarkUnproven, Generation!Hazard, Generation!Swap
  <2> QED
    BY <1>12, <2>1, <2>2, <2>3 DEF Generation!MarkUnproven, Generation!Hazard,
                                   Generation!control, Generation!evidence,
                                   Generation!allowed
<1>13. ASSUME NEW c \in StoreControllers, NEW t \in StoreStamps,
              Generation!WritePermit(c, Generation!Publication(genState, t))
      PROVE  Generation!ReignFits' /\ Generation!FenceNamesReign'
             /\ Generation!RollbackServedBefore'
  BY <1>13 DEF Generation!WritePermit, Generation!MayStage, Generation!Bound,
               Generation!control, Generation!evidence
<1>14. ASSUME NEW c \in StoreControllers, NEW t \in StoreStamps,
              Generation!CrashInPermit(c, Generation!Publication(genState, t))
      PROVE  Generation!ReignFits' /\ Generation!FenceNamesReign'
             /\ Generation!RollbackServedBefore'
  BY <1>14 DEF Generation!CrashInPermit, Generation!MayStage, Generation!Bound,
               Generation!evidence
<1>15. ASSUME NEW c \in StoreControllers, NEW t \in StoreStamps,
              Generation!Publish(c, Generation!Publication(genState, t))
      PROVE  Generation!ReignFits' /\ Generation!FenceNamesReign'
             /\ Generation!RollbackServedBefore'
  <2>1. genLease.active /\ genLease.att # None
        /\ genLease.att \in StoreAttempts
    BY <1>15 DEF Generation!Publish, Generation!Mutation, Generation!Leases,
                 Generation!Target, Generation!Plans, Generation!Shape,
                 Generation!State
  <2>2. /\ genState'.version = genState.version + 1
        /\ genState'.mode = genState.mode /\ genState'.maint = FALSE
        /\ genState'.gen = genState.gen /\ genState'.fence = genState.fence
        /\ genState'.acc = genState.acc
        /\ genState'.want = None /\ genState'.back = genState.back
        /\ genState'.att = None
        /\ genState'.epoch = 0 /\ genState'.stamp = t
    BY <1>15, <2>1, PublishMoves
  <2>3. UNCHANGED <<Generation!control, Generation!evidence,
          Generation!allowed>>
    BY <1>15 DEF Generation!Publish, Generation!Swap
  <2> QED
    BY <1>15, <2>1, <2>2, <2>3 DEF Generation!Publish, Generation!control,
                                   Generation!evidence, Generation!allowed
<1>16. ASSUME NEW c \in StoreControllers, Generation!Finish(c)
      PROVE  Generation!ReignFits' /\ Generation!FenceNamesReign'
             /\ Generation!RollbackServedBefore'
  BY <1>16 DEF Generation!Finish, Generation!Outcome, Generation!OpenWith,
               Generation!HazardOfAttempt, Generation!Bound,
               Generation!evidence, Generation!allowed
<1>17. ASSUME NEW c \in StoreControllers, Generation!Crash(c)
      PROVE  Generation!ReignFits' /\ Generation!FenceNamesReign'
             /\ Generation!RollbackServedBefore'
  BY <1>17 DEF Generation!Crash, Generation!evidence, Generation!allowed
<1>18. CASE UNCHANGED Generation!vars
  BY <1>18 DEF Generation!vars, Generation!control, Generation!evidence,
               Generation!allowed
<1> QED
  BY <1>1, <1>2, <1>3, <1>4, <1>5, <1>6, <1>7, <1>8, <1>9, <1>10, <1>11, <1>12,
     <1>13, <1>14, <1>15, <1>16, <1>17, <1>18
     DEF Generation!Next

\* What a controller has seen is so, or was.
LEMMA GenViewNext ==
  ASSUME Generation!GenerationAssumption, Generation!IInv,
         [Generation!Next]_(Generation!vars)
  PROVE  Generation!ViewFits'
<1> USE DEF Generation!GenerationAssumption, Generation!IInv,
            Generation!TypeOK, Generation!LeaseFits, Generation!SwitchFits,
            Generation!ReignFits, Generation!ViewFits,
            Generation!ServingIsAccepted, Generation!PublicHasPermit,
            Generation!OnePermit, Generation!FenceNamesReign,
            Generation!RollbackServedBefore, Generation!EndsSettled,
            Generation!Public, Generation!Staged, Generation!InSwitch,
            Generation!Hazardous
<1> USE Firsts
<1>1. ASSUME NEW a \in StoreAttempts, NEW g \in StoreGenerations,
             Generation!Reserve(a, g)
      PROVE  Generation!ViewFits'
  BY <1>1 DEF Generation!Reserve, Generation!evidence, Generation!allowed
<1>2. ASSUME NEW c \in StoreControllers, NEW a \in StoreAttempts,
             Generation!AcquireInitial(c, a)
      PROVE  Generation!ViewFits'
  BY <1>2 DEF Generation!AcquireInitial, Generation!evidence,
              Generation!allowed
<1>3. ASSUME NEW c \in StoreControllers, Generation!TakeOver(c)
      PROVE  Generation!ViewFits'
  BY <1>3 DEF Generation!TakeOver, Generation!evidence, Generation!allowed
<1>4. ASSUME NEW c \in StoreControllers, Generation!Load(c)
      PROVE  Generation!ViewFits'
  BY <1>4 DEF Generation!Load, Generation!control, Generation!evidence,
              Generation!allowed
<1>5. ASSUME NEW c \in StoreControllers, Generation!WriteGeneration(c)
      PROVE  Generation!ViewFits'
  BY <1>5 DEF Generation!WriteGeneration, Generation!control,
              Generation!allowed
<1>6. ASSUME NEW c \in StoreControllers, NEW e \in 1..StoreFences,
             Generation!WriteFence(c, e)
      PROVE  Generation!ViewFits'
  BY <1>6 DEF Generation!WriteFence, Generation!control, Generation!allowed
<1>7. ASSUME NEW c \in StoreControllers, NEW e \in 1..StoreFences,
             Generation!WriteAcceptance(c, e)
      PROVE  Generation!ViewFits'
  BY <1>7 DEF Generation!WriteAcceptance, Generation!control,
              Generation!allowed
<1>8. ASSUME NEW c \in StoreControllers, NEW e \in 1..StoreFences,
             Generation!CommitServing(c, e)
      PROVE  Generation!ViewFits'
  <2>1. genLease.active /\ genLease.att # None
        /\ genLease.att \in StoreAttempts
        /\ genState.want \in StoreGenerations
    BY <1>8 DEF Generation!CommitServing, Generation!Mutation,
                Generation!Leases, Generation!Target, Generation!Plans,
                Generation!Shape, Generation!State
  <2>2. /\ genState'.version = genState.version + 1
        /\ genState'.mode = "steady" /\ genState'.maint = genState.maint
        /\ genState'.gen = genState.want /\ genState'.fence = e
        /\ genState'.acc = genLease.att
        /\ genState'.want = genState.want /\ genState'.back = genState.back
        /\ genState'.att = genLease.att
        /\ genState'.epoch = genLease.epoch /\ genState'.stamp = 0
    BY <1>8, <2>1, CommitServingMoves
  <2>3. UNCHANGED <<Generation!control, Generation!evidence,
          Generation!allowed>>
    BY <1>8 DEF Generation!CommitServing, Generation!Swap
  <2>4. /\ genView' = [genView EXCEPT ![c] = genState']
        /\ genView'[c] = genState'
        /\ \A d \in StoreControllers \ {c} : genView'[d] = genView[d]
    BY <1>8 DEF Generation!CommitServing, Generation!Swap
  <2>5. ASSUME NEW d \in StoreControllers \ {c}, genView'[d] # None
        PROVE  /\ Generation!Hazardous(genView'[d])
                  => Generation!Hazardous(genState')
               /\ Generation!Public(genView'[d]) /\ genView'[d].acc # None =>
                     \/ genView'[d].acc \in genEnded'
                     \/ /\ genLease'.active /\ genLease'.att = genView'[d].acc
                        /\ genState'.acc = genLease'.att
                        /\ ~ Generation!InSwitch(genState')
    BY <1>8, <2>1, <2>2, <2>3, <2>4, <2>5
       DEF Generation!CommitServing, Generation!control, Generation!Accepted
  <2>6. /\ Generation!Hazardous(genView'[c]) => Generation!Hazardous(genState')
        /\ Generation!Public(genView'[c]) /\ genView'[c].acc # None =>
              \/ genView'[c].acc \in genEnded'
              \/ /\ genLease'.active /\ genLease'.att = genView'[c].acc
                 /\ genState'.acc = genLease'.att
                 /\ ~ Generation!InSwitch(genState')
    BY <1>8, <2>1, <2>2, <2>3, <2>4
       DEF Generation!CommitServing, Generation!control
  <2> QED
    BY <2>4, <2>5, <2>6
<1>9. ASSUME NEW c \in StoreControllers, Generation!BeginSwitch(c)
      PROVE  Generation!ViewFits'
  <2>1. genLease.active /\ genLease.att # None
        /\ genLease.att \in StoreAttempts
        /\ Generation!Target \in StoreGenerations
        /\ Generation!Target # genState.gen
    BY <1>9 DEF Generation!BeginSwitch, Generation!Mutation, Generation!Leases,
                Generation!Target, Generation!Plans, Generation!Shape,
                Generation!State
  <2>2. /\ genState'.version = genState.version + 1
        /\ genState'.mode = "switching" /\ genState'.maint = TRUE
        /\ genState'.gen = genState.gen /\ genState'.fence = genState.fence
        /\ genState'.acc = genState.acc
        /\ genState'.want = Generation!Target /\ genState'.back = genState.gen
        /\ genState'.att = genLease.att
        /\ genState'.epoch = genLease.epoch /\ genState'.stamp = 0
    BY <1>9, <2>1, BeginSwitchMoves
  <2>3. UNCHANGED <<Generation!control, Generation!evidence,
          Generation!allowed>>
    BY <1>9 DEF Generation!BeginSwitch, Generation!Swap
  <2>4. /\ genView' = [genView EXCEPT ![c] = genState']
        /\ genView'[c] = genState'
        /\ \A d \in StoreControllers \ {c} : genView'[d] = genView[d]
    BY <1>9 DEF Generation!BeginSwitch, Generation!Swap
  <2>5. ASSUME NEW d \in StoreControllers \ {c}, genView'[d] # None
        PROVE  /\ Generation!Hazardous(genView'[d])
                  => Generation!Hazardous(genState')
               /\ Generation!Public(genView'[d]) /\ genView'[d].acc # None =>
                     \/ genView'[d].acc \in genEnded'
                     \/ /\ genLease'.active /\ genLease'.att = genView'[d].acc
                        /\ genState'.acc = genLease'.att
                        /\ ~ Generation!InSwitch(genState')
    BY <1>9, <2>1, <2>2, <2>3, <2>4, <2>5
       DEF Generation!BeginSwitch, Generation!control, Generation!Target
  <2>6. /\ Generation!Hazardous(genView'[c]) => Generation!Hazardous(genState')
        /\ Generation!Public(genView'[c]) /\ genView'[c].acc # None =>
              \/ genView'[c].acc \in genEnded'
              \/ /\ genLease'.active /\ genLease'.att = genView'[c].acc
                 /\ genState'.acc = genLease'.att
                 /\ ~ Generation!InSwitch(genState')
    BY <1>9, <2>1, <2>2, <2>3, <2>4
       DEF Generation!BeginSwitch, Generation!control
  <2> QED
    BY <2>4, <2>5, <2>6
<1>10. ASSUME NEW c \in StoreControllers, Generation!BeginValidation(c)
      PROVE  Generation!ViewFits'
  <2>1. genLease.active /\ genLease.att # None
        /\ genLease.att \in StoreAttempts
    BY <1>10 DEF Generation!BeginValidation, Generation!Mutation,
                 Generation!Leases, Generation!Target, Generation!Plans,
                 Generation!Shape, Generation!State
  <2>2. /\ genState'.version = genState.version + 1
        /\ genState'.mode = "validating" /\ genState'.maint = genState.maint
        /\ genState'.gen = genState.gen /\ genState'.fence = genState.fence
        /\ genState'.acc = genState.acc
        /\ genState'.want = genState.want /\ genState'.back = genState.back
        /\ genState'.att = genLease.att
        /\ genState'.epoch = genLease.epoch /\ genState'.stamp = 0
    BY <1>10, <2>1, BeginValidationMoves
  <2>3. UNCHANGED <<Generation!control, Generation!evidence,
          Generation!allowed>>
    BY <1>10 DEF Generation!BeginValidation, Generation!Swap
  <2>4. /\ genView' = [genView EXCEPT ![c] = genState']
        /\ genView'[c] = genState'
        /\ \A d \in StoreControllers \ {c} : genView'[d] = genView[d]
    BY <1>10 DEF Generation!BeginValidation, Generation!Swap
  <2>5. ASSUME NEW d \in StoreControllers \ {c}, genView'[d] # None
        PROVE  /\ Generation!Hazardous(genView'[d])
                  => Generation!Hazardous(genState')
               /\ Generation!Public(genView'[d]) /\ genView'[d].acc # None =>
                     \/ genView'[d].acc \in genEnded'
                     \/ /\ genLease'.active /\ genLease'.att = genView'[d].acc
                        /\ genState'.acc = genLease'.att
                        /\ ~ Generation!InSwitch(genState')
    BY <1>10, <2>1, <2>2, <2>3, <2>4, <2>5
       DEF Generation!BeginValidation, Generation!control
  <2>6. /\ Generation!Hazardous(genView'[c]) => Generation!Hazardous(genState')
        /\ Generation!Public(genView'[c]) /\ genView'[c].acc # None =>
              \/ genView'[c].acc \in genEnded'
              \/ /\ genLease'.active /\ genLease'.att = genView'[c].acc
                 /\ genState'.acc = genLease'.att
                 /\ ~ Generation!InSwitch(genState')
    BY <1>10, <2>1, <2>2, <2>3, <2>4
       DEF Generation!BeginValidation, Generation!control
  <2> QED
    BY <2>4, <2>5, <2>6
<1>11. ASSUME NEW c \in StoreControllers, Generation!MarkRestricted(c)
      PROVE  Generation!ViewFits'
  <2>1. genLease.active /\ genLease.att # None
        /\ genLease.att \in StoreAttempts
    BY <1>11 DEF Generation!MarkRestricted, Generation!Hazard,
                 Generation!Mutation, Generation!Leases, Generation!Target,
                 Generation!Plans, Generation!Shape, Generation!State
  <2>2. /\ genState'.version = genState.version + 1
        /\ genState'.mode = "restricted" /\ genState'.maint = TRUE
        /\ genState'.gen = genState.gen /\ genState'.fence = genState.fence
        /\ genState'.acc = genState.acc
        /\ genState'.want = genState.want /\ genState'.back = genState.back
        /\ genState'.att = genLease.att
        /\ genState'.epoch = genLease.epoch /\ genState'.stamp = 0
    BY <1>11, <2>1, MarkRestrictedMoves
  <2>3. UNCHANGED <<Generation!control, Generation!evidence,
          Generation!allowed>>
    BY <1>11 DEF Generation!MarkRestricted, Generation!Hazard, Generation!Swap
  <2>4. /\ genView' = [genView EXCEPT ![c] = genState']
        /\ genView'[c] = genState'
        /\ \A d \in StoreControllers \ {c} : genView'[d] = genView[d]
    BY <1>11 DEF Generation!MarkRestricted, Generation!Hazard, Generation!Swap
  <2>5. ASSUME NEW d \in StoreControllers \ {c}, genView'[d] # None
        PROVE  /\ Generation!Hazardous(genView'[d])
                  => Generation!Hazardous(genState')
               /\ Generation!Public(genView'[d]) /\ genView'[d].acc # None =>
                     \/ genView'[d].acc \in genEnded'
                     \/ /\ genLease'.active /\ genLease'.att = genView'[d].acc
                        /\ genState'.acc = genLease'.att
                        /\ ~ Generation!InSwitch(genState')
    BY <1>11, <2>1, <2>2, <2>3, <2>4, <2>5
       DEF Generation!MarkRestricted, Generation!Hazard, Generation!control
  <2>6. /\ Generation!Hazardous(genView'[c]) => Generation!Hazardous(genState')
        /\ Generation!Public(genView'[c]) /\ genView'[c].acc # None =>
              \/ genView'[c].acc \in genEnded'
              \/ /\ genLease'.active /\ genLease'.att = genView'[c].acc
                 /\ genState'.acc = genLease'.att
                 /\ ~ Generation!InSwitch(genState')
    BY <1>11, <2>1, <2>2, <2>3, <2>4
       DEF Generation!MarkRestricted, Generation!Hazard, Generation!control
  <2> QED
    BY <2>4, <2>5, <2>6
<1>12. ASSUME NEW c \in StoreControllers, Generation!MarkUnproven(c)
      PROVE  Generation!ViewFits'
  <2>1. genLease.active /\ genLease.att # None
        /\ genLease.att \in StoreAttempts
    BY <1>12 DEF Generation!MarkUnproven, Generation!Hazard,
                 Generation!Mutation, Generation!Leases, Generation!Target,
                 Generation!Plans, Generation!Shape, Generation!State
  <2>2. /\ genState'.version = genState.version + 1
        /\ genState'.mode = "safety_unproven" /\ genState'.maint = TRUE
        /\ genState'.gen = genState.gen /\ genState'.fence = genState.fence
        /\ genState'.acc = genState.acc
        /\ genState'.want = genState.want /\ genState'.back = genState.back
        /\ genState'.att = genLease.att
        /\ genState'.epoch = genLease.epoch /\ genState'.stamp = 0
    BY <1>12, <2>1, MarkUnprovenMoves
  <2>3. UNCHANGED <<Generation!control, Generation!evidence,
          Generation!allowed>>
    BY <1>12 DEF Generation!MarkUnproven, Generation!Hazard, Generation!Swap
  <2>4. /\ genView' = [genView EXCEPT ![c] = genState']
        /\ genView'[c] = genState'
        /\ \A d \in StoreControllers \ {c} : genView'[d] = genView[d]
    BY <1>12 DEF Generation!MarkUnproven, Generation!Hazard, Generation!Swap
  <2>5. ASSUME NEW d \in StoreControllers \ {c}, genView'[d] # None
        PROVE  /\ Generation!Hazardous(genView'[d])
                  => Generation!Hazardous(genState')
               /\ Generation!Public(genView'[d]) /\ genView'[d].acc # None =>
                     \/ genView'[d].acc \in genEnded'
                     \/ /\ genLease'.active /\ genLease'.att = genView'[d].acc
                        /\ genState'.acc = genLease'.att
                        /\ ~ Generation!InSwitch(genState')
    BY <1>12, <2>1, <2>2, <2>3, <2>4, <2>5
       DEF Generation!MarkUnproven, Generation!Hazard, Generation!control
  <2>6. /\ Generation!Hazardous(genView'[c]) => Generation!Hazardous(genState')
        /\ Generation!Public(genView'[c]) /\ genView'[c].acc # None =>
              \/ genView'[c].acc \in genEnded'
              \/ /\ genLease'.active /\ genLease'.att = genView'[c].acc
                 /\ genState'.acc = genLease'.att
                 /\ ~ Generation!InSwitch(genState')
    BY <1>12, <2>1, <2>2, <2>3, <2>4
       DEF Generation!MarkUnproven, Generation!Hazard, Generation!control
  <2> QED
    BY <2>4, <2>5, <2>6
<1>13. ASSUME NEW c \in StoreControllers, NEW t \in StoreStamps,
              Generation!WritePermit(c, Generation!Publication(genState, t))
      PROVE  Generation!ViewFits'
  BY <1>13 DEF Generation!WritePermit, Generation!MayStage, Generation!Bound,
               Generation!control, Generation!evidence
<1>14. ASSUME NEW c \in StoreControllers, NEW t \in StoreStamps,
              Generation!CrashInPermit(c, Generation!Publication(genState, t))
      PROVE  Generation!ViewFits'
  BY <1>14 DEF Generation!CrashInPermit, Generation!MayStage, Generation!Bound,
               Generation!evidence
<1>15. ASSUME NEW c \in StoreControllers, NEW t \in StoreStamps,
              Generation!Publish(c, Generation!Publication(genState, t))
      PROVE  Generation!ViewFits'
  <2>1. genLease.active /\ genLease.att # None
        /\ genLease.att \in StoreAttempts
    BY <1>15 DEF Generation!Publish, Generation!Mutation, Generation!Leases,
                 Generation!Target, Generation!Plans, Generation!Shape,
                 Generation!State
  <2>2. /\ genState'.version = genState.version + 1
        /\ genState'.mode = genState.mode /\ genState'.maint = FALSE
        /\ genState'.gen = genState.gen /\ genState'.fence = genState.fence
        /\ genState'.acc = genState.acc
        /\ genState'.want = None /\ genState'.back = genState.back
        /\ genState'.att = None
        /\ genState'.epoch = 0 /\ genState'.stamp = t
    BY <1>15, <2>1, PublishMoves
  <2>3. UNCHANGED <<Generation!control, Generation!evidence,
          Generation!allowed>>
    BY <1>15 DEF Generation!Publish, Generation!Swap
  <2>4. /\ genView' = [genView EXCEPT ![c] = genState']
        /\ genView'[c] = genState'
        /\ \A d \in StoreControllers \ {c} : genView'[d] = genView[d]
    BY <1>15 DEF Generation!Publish, Generation!Swap
  <2>5. ASSUME NEW d \in StoreControllers \ {c}, genView'[d] # None
        PROVE  /\ Generation!Hazardous(genView'[d])
                  => Generation!Hazardous(genState')
               /\ Generation!Public(genView'[d]) /\ genView'[d].acc # None =>
                     \/ genView'[d].acc \in genEnded'
                     \/ /\ genLease'.active /\ genLease'.att = genView'[d].acc
                        /\ genState'.acc = genLease'.att
                        /\ ~ Generation!InSwitch(genState')
    BY <1>15, <2>1, <2>2, <2>3, <2>4, <2>5
       DEF Generation!Publish, Generation!control
  <2>6. /\ Generation!Hazardous(genView'[c]) => Generation!Hazardous(genState')
        /\ Generation!Public(genView'[c]) /\ genView'[c].acc # None =>
              \/ genView'[c].acc \in genEnded'
              \/ /\ genLease'.active /\ genLease'.att = genView'[c].acc
                 /\ genState'.acc = genLease'.att
                 /\ ~ Generation!InSwitch(genState')
    BY <1>15, <2>1, <2>2, <2>3, <2>4 DEF Generation!Publish, Generation!control
  <2> QED
    BY <2>4, <2>5, <2>6
<1>16. ASSUME NEW c \in StoreControllers, Generation!Finish(c)
      PROVE  Generation!ViewFits'
  BY <1>16 DEF Generation!Finish, Generation!Outcome, Generation!OpenWith,
               Generation!HazardOfAttempt, Generation!Bound,
               Generation!evidence, Generation!allowed
<1>17. ASSUME NEW c \in StoreControllers, Generation!Crash(c)
      PROVE  Generation!ViewFits'
  BY <1>17 DEF Generation!Crash, Generation!evidence, Generation!allowed
<1>18. CASE UNCHANGED Generation!vars
  BY <1>18 DEF Generation!vars, Generation!control, Generation!evidence,
               Generation!allowed
<1> QED
  BY <1>1, <1>2, <1>3, <1>4, <1>5, <1>6, <1>7, <1>8, <1>9, <1>10, <1>11, <1>12,
     <1>13, <1>14, <1>15, <1>16, <1>17, <1>18
     DEF Generation!Next

\* What serves was accepted and has its permit.
LEMMA GenServingNext ==
  ASSUME Generation!GenerationAssumption, Generation!IInv,
         [Generation!Next]_(Generation!vars)
  PROVE  Generation!ServingIsAccepted' /\ Generation!PublicHasPermit'
         /\ Generation!OnePermit'
<1> USE DEF Generation!GenerationAssumption, Generation!IInv,
            Generation!TypeOK, Generation!LeaseFits, Generation!SwitchFits,
            Generation!ReignFits, Generation!ViewFits,
            Generation!ServingIsAccepted, Generation!PublicHasPermit,
            Generation!OnePermit, Generation!FenceNamesReign,
            Generation!RollbackServedBefore, Generation!EndsSettled,
            Generation!Public, Generation!Staged, Generation!InSwitch,
            Generation!Hazardous
<1> USE Firsts
<1>1. ASSUME NEW a \in StoreAttempts, NEW g \in StoreGenerations,
             Generation!Reserve(a, g)
      PROVE  Generation!ServingIsAccepted' /\ Generation!PublicHasPermit'
             /\ Generation!OnePermit'
  BY <1>1 DEF Generation!Reserve, Generation!evidence, Generation!allowed
<1>2. ASSUME NEW c \in StoreControllers, NEW a \in StoreAttempts,
             Generation!AcquireInitial(c, a)
      PROVE  Generation!ServingIsAccepted' /\ Generation!PublicHasPermit'
             /\ Generation!OnePermit'
  BY <1>2 DEF Generation!AcquireInitial, Generation!evidence,
              Generation!allowed
<1>3. ASSUME NEW c \in StoreControllers, Generation!TakeOver(c)
      PROVE  Generation!ServingIsAccepted' /\ Generation!PublicHasPermit'
             /\ Generation!OnePermit'
  BY <1>3 DEF Generation!TakeOver, Generation!evidence, Generation!allowed
<1>4. ASSUME NEW c \in StoreControllers, Generation!Load(c)
      PROVE  Generation!ServingIsAccepted' /\ Generation!PublicHasPermit'
             /\ Generation!OnePermit'
  BY <1>4 DEF Generation!Load, Generation!control, Generation!evidence,
              Generation!allowed
<1>5. ASSUME NEW c \in StoreControllers, Generation!WriteGeneration(c)
      PROVE  Generation!ServingIsAccepted' /\ Generation!PublicHasPermit'
             /\ Generation!OnePermit'
  BY <1>5 DEF Generation!WriteGeneration, Generation!control,
              Generation!allowed
<1>6. ASSUME NEW c \in StoreControllers, NEW e \in 1..StoreFences,
             Generation!WriteFence(c, e)
      PROVE  Generation!ServingIsAccepted' /\ Generation!PublicHasPermit'
             /\ Generation!OnePermit'
  BY <1>6 DEF Generation!WriteFence, Generation!control, Generation!allowed
<1>7. ASSUME NEW c \in StoreControllers, NEW e \in 1..StoreFences,
             Generation!WriteAcceptance(c, e)
      PROVE  Generation!ServingIsAccepted' /\ Generation!PublicHasPermit'
             /\ Generation!OnePermit'
  BY <1>7 DEF Generation!WriteAcceptance, Generation!control,
              Generation!allowed
<1>8. ASSUME NEW c \in StoreControllers, NEW e \in 1..StoreFences,
             Generation!CommitServing(c, e)
      PROVE  Generation!ServingIsAccepted' /\ Generation!PublicHasPermit'
             /\ Generation!OnePermit'
  <2>1. genLease.active /\ genLease.att # None
        /\ genLease.att \in StoreAttempts
        /\ genState.want \in StoreGenerations
    BY <1>8 DEF Generation!CommitServing, Generation!Mutation,
                Generation!Leases, Generation!Target, Generation!Plans,
                Generation!Shape, Generation!State
  <2>2. /\ genState'.version = genState.version + 1
        /\ genState'.mode = "steady" /\ genState'.maint = genState.maint
        /\ genState'.gen = genState.want /\ genState'.fence = e
        /\ genState'.acc = genLease.att
        /\ genState'.want = genState.want /\ genState'.back = genState.back
        /\ genState'.att = genLease.att
        /\ genState'.epoch = genLease.epoch /\ genState'.stamp = 0
    BY <1>8, <2>1, CommitServingMoves
  <2>3. UNCHANGED <<Generation!control, Generation!evidence,
          Generation!allowed>>
    BY <1>8 DEF Generation!CommitServing, Generation!Swap
  <2>4. /\ Generation!Accepted(e) /\ genState.mode = "validating"
        /\ genState.att = genLease.att
    BY <1>8 DEF Generation!CommitServing, Generation!Bound
  <2>5. Generation!ServingIsAccepted'
    BY <2>1, <2>2, <2>3, <2>4 DEF Generation!Accepted, Generation!Target,
                                  Generation!control, Generation!evidence
  <2> QED
    BY <1>8, <2>2, <2>3, <2>4, <2>5 DEF Generation!allowed, Generation!Shape,
                                        Generation!CommitServing
<1>9. ASSUME NEW c \in StoreControllers, Generation!BeginSwitch(c)
      PROVE  Generation!ServingIsAccepted' /\ Generation!PublicHasPermit'
             /\ Generation!OnePermit'
  <2>1. genLease.active /\ genLease.att # None
        /\ genLease.att \in StoreAttempts
        /\ Generation!Target \in StoreGenerations
        /\ Generation!Target # genState.gen
    BY <1>9 DEF Generation!BeginSwitch, Generation!Mutation, Generation!Leases,
                Generation!Target, Generation!Plans, Generation!Shape,
                Generation!State
  <2>2. /\ genState'.version = genState.version + 1
        /\ genState'.mode = "switching" /\ genState'.maint = TRUE
        /\ genState'.gen = genState.gen /\ genState'.fence = genState.fence
        /\ genState'.acc = genState.acc
        /\ genState'.want = Generation!Target /\ genState'.back = genState.gen
        /\ genState'.att = genLease.att
        /\ genState'.epoch = genLease.epoch /\ genState'.stamp = 0
    BY <1>9, <2>1, BeginSwitchMoves
  <2>3. UNCHANGED <<Generation!control, Generation!evidence,
          Generation!allowed>>
    BY <1>9 DEF Generation!BeginSwitch, Generation!Swap
  <2> QED
    BY <1>9, <2>1, <2>2, <2>3 DEF Generation!BeginSwitch, Generation!control,
                                  Generation!evidence, Generation!allowed
<1>10. ASSUME NEW c \in StoreControllers, Generation!BeginValidation(c)
      PROVE  Generation!ServingIsAccepted' /\ Generation!PublicHasPermit'
             /\ Generation!OnePermit'
  <2>1. genLease.active /\ genLease.att # None
        /\ genLease.att \in StoreAttempts
    BY <1>10 DEF Generation!BeginValidation, Generation!Mutation,
                 Generation!Leases, Generation!Target, Generation!Plans,
                 Generation!Shape, Generation!State
  <2>2. /\ genState'.version = genState.version + 1
        /\ genState'.mode = "validating" /\ genState'.maint = genState.maint
        /\ genState'.gen = genState.gen /\ genState'.fence = genState.fence
        /\ genState'.acc = genState.acc
        /\ genState'.want = genState.want /\ genState'.back = genState.back
        /\ genState'.att = genLease.att
        /\ genState'.epoch = genLease.epoch /\ genState'.stamp = 0
    BY <1>10, <2>1, BeginValidationMoves
  <2>3. UNCHANGED <<Generation!control, Generation!evidence,
          Generation!allowed>>
    BY <1>10 DEF Generation!BeginValidation, Generation!Swap
  <2> QED
    BY <1>10, <2>1, <2>2, <2>3
       DEF Generation!BeginValidation, Generation!control, Generation!evidence,
           Generation!allowed
<1>11. ASSUME NEW c \in StoreControllers, Generation!MarkRestricted(c)
      PROVE  Generation!ServingIsAccepted' /\ Generation!PublicHasPermit'
             /\ Generation!OnePermit'
  <2>1. genLease.active /\ genLease.att # None
        /\ genLease.att \in StoreAttempts
    BY <1>11 DEF Generation!MarkRestricted, Generation!Hazard,
                 Generation!Mutation, Generation!Leases, Generation!Target,
                 Generation!Plans, Generation!Shape, Generation!State
  <2>2. /\ genState'.version = genState.version + 1
        /\ genState'.mode = "restricted" /\ genState'.maint = TRUE
        /\ genState'.gen = genState.gen /\ genState'.fence = genState.fence
        /\ genState'.acc = genState.acc
        /\ genState'.want = genState.want /\ genState'.back = genState.back
        /\ genState'.att = genLease.att
        /\ genState'.epoch = genLease.epoch /\ genState'.stamp = 0
    BY <1>11, <2>1, MarkRestrictedMoves
  <2>3. UNCHANGED <<Generation!control, Generation!evidence,
          Generation!allowed>>
    BY <1>11 DEF Generation!MarkRestricted, Generation!Hazard, Generation!Swap
  <2> QED
    BY <1>11, <2>1, <2>2, <2>3
       DEF Generation!MarkRestricted, Generation!Hazard, Generation!control,
           Generation!evidence, Generation!allowed
<1>12. ASSUME NEW c \in StoreControllers, Generation!MarkUnproven(c)
      PROVE  Generation!ServingIsAccepted' /\ Generation!PublicHasPermit'
             /\ Generation!OnePermit'
  <2>1. genLease.active /\ genLease.att # None
        /\ genLease.att \in StoreAttempts
    BY <1>12 DEF Generation!MarkUnproven, Generation!Hazard,
                 Generation!Mutation, Generation!Leases, Generation!Target,
                 Generation!Plans, Generation!Shape, Generation!State
  <2>2. /\ genState'.version = genState.version + 1
        /\ genState'.mode = "safety_unproven" /\ genState'.maint = TRUE
        /\ genState'.gen = genState.gen /\ genState'.fence = genState.fence
        /\ genState'.acc = genState.acc
        /\ genState'.want = genState.want /\ genState'.back = genState.back
        /\ genState'.att = genLease.att
        /\ genState'.epoch = genLease.epoch /\ genState'.stamp = 0
    BY <1>12, <2>1, MarkUnprovenMoves
  <2>3. UNCHANGED <<Generation!control, Generation!evidence,
          Generation!allowed>>
    BY <1>12 DEF Generation!MarkUnproven, Generation!Hazard, Generation!Swap
  <2> QED
    BY <1>12, <2>1, <2>2, <2>3 DEF Generation!MarkUnproven, Generation!Hazard,
                                   Generation!control, Generation!evidence,
                                   Generation!allowed
<1>13. ASSUME NEW c \in StoreControllers, NEW t \in StoreStamps,
              Generation!WritePermit(c, Generation!Publication(genState, t))
      PROVE  Generation!ServingIsAccepted' /\ Generation!PublicHasPermit'
             /\ Generation!OnePermit'
  BY <1>13 DEF Generation!WritePermit, Generation!MayStage, Generation!Bound,
               Generation!control, Generation!evidence
<1>14. ASSUME NEW c \in StoreControllers, NEW t \in StoreStamps,
              Generation!CrashInPermit(c, Generation!Publication(genState, t))
      PROVE  Generation!ServingIsAccepted' /\ Generation!PublicHasPermit'
             /\ Generation!OnePermit'
  BY <1>14 DEF Generation!CrashInPermit, Generation!MayStage, Generation!Bound,
               Generation!evidence
<1>15. ASSUME NEW c \in StoreControllers, NEW t \in StoreStamps,
              Generation!Publish(c, Generation!Publication(genState, t))
      PROVE  Generation!ServingIsAccepted' /\ Generation!PublicHasPermit'
             /\ Generation!OnePermit'
  <2>1. genLease.active /\ genLease.att # None
        /\ genLease.att \in StoreAttempts
    BY <1>15 DEF Generation!Publish, Generation!Mutation, Generation!Leases,
                 Generation!Target, Generation!Plans, Generation!Shape,
                 Generation!State
  <2>2. /\ genState'.version = genState.version + 1
        /\ genState'.mode = genState.mode /\ genState'.maint = FALSE
        /\ genState'.gen = genState.gen /\ genState'.fence = genState.fence
        /\ genState'.acc = genState.acc
        /\ genState'.want = None /\ genState'.back = genState.back
        /\ genState'.att = None
        /\ genState'.epoch = 0 /\ genState'.stamp = t
    BY <1>15, <2>1, PublishMoves
  <2>3. UNCHANGED <<Generation!control, Generation!evidence,
          Generation!allowed>>
    BY <1>15 DEF Generation!Publish, Generation!Swap
  <2>4. /\ genState' = Generation!Publication(genState, t)
        /\ genState' \in genPermits
        /\ [under |-> genState, for |-> genState'] \in genStages
    BY <1>15 DEF Generation!Publish, Generation!Swap
  <2>5. Generation!PublicHasPermit'
    BY <2>2, <2>3, <2>4 DEF Generation!allowed
  <2> QED
    BY <1>15, <2>2, <2>3, <2>5 DEF Generation!Publish, Generation!evidence,
                                   Generation!control, Generation!allowed
<1>16. ASSUME NEW c \in StoreControllers, Generation!Finish(c)
      PROVE  Generation!ServingIsAccepted' /\ Generation!PublicHasPermit'
             /\ Generation!OnePermit'
  BY <1>16 DEF Generation!Finish, Generation!Outcome, Generation!OpenWith,
               Generation!HazardOfAttempt, Generation!Bound,
               Generation!evidence, Generation!allowed
<1>17. ASSUME NEW c \in StoreControllers, Generation!Crash(c)
      PROVE  Generation!ServingIsAccepted' /\ Generation!PublicHasPermit'
             /\ Generation!OnePermit'
  BY <1>17 DEF Generation!Crash, Generation!evidence, Generation!allowed
<1>18. CASE UNCHANGED Generation!vars
  BY <1>18 DEF Generation!vars, Generation!control, Generation!evidence,
               Generation!allowed
<1> QED
  BY <1>1, <1>2, <1>3, <1>4, <1>5, <1>6, <1>7, <1>8, <1>9, <1>10, <1>11, <1>12,
     <1>13, <1>14, <1>15, <1>16, <1>17, <1>18
     DEF Generation!Next

\* Only an unproven mark follows a hazard.
LEMMA HazardNext ==
  ASSUME Generation!GenerationAssumption, Generation!IInv,
         [Generation!Next]_(Generation!vars)
  PROVE  genState.mode \in {"restricted", "safety_unproven"}
         /\ genState' # genState =>
            /\ genState.mode = "restricted"
            /\ genState'.mode = "safety_unproven"
            /\ genState'.att = genState.att
<1> USE DEF Generation!GenerationAssumption, Generation!IInv,
            Generation!TypeOK, Generation!LeaseFits, Generation!SwitchFits,
            Generation!ReignFits, Generation!ViewFits,
            Generation!ServingIsAccepted, Generation!PublicHasPermit,
            Generation!OnePermit, Generation!FenceNamesReign,
            Generation!RollbackServedBefore, Generation!EndsSettled,
            Generation!Public, Generation!Staged, Generation!InSwitch,
            Generation!Hazardous
<1> USE Firsts
<1> DEFINE Kept ==
      genState.mode \in {"restricted", "safety_unproven"}
        /\ genState' # genState =>
                 /\ genState.mode = "restricted"
                 /\ genState'.mode = "safety_unproven"
                 /\ genState'.att = genState.att
<1> SUFFICES Kept
  OBVIOUS
<1>1. ASSUME NEW a \in StoreAttempts, NEW g \in StoreGenerations,
             Generation!Reserve(a, g)
      PROVE  Kept
  BY <1>1 DEF Generation!Reserve, Generation!evidence, Generation!allowed
<1>2. ASSUME NEW c \in StoreControllers, NEW a \in StoreAttempts,
             Generation!AcquireInitial(c, a)
      PROVE  Kept
  BY <1>2 DEF Generation!AcquireInitial, Generation!evidence,
              Generation!allowed
<1>3. ASSUME NEW c \in StoreControllers, Generation!TakeOver(c)
      PROVE  Kept
  BY <1>3 DEF Generation!TakeOver, Generation!evidence, Generation!allowed
<1>4. ASSUME NEW c \in StoreControllers, Generation!Load(c)
      PROVE  Kept
  BY <1>4 DEF Generation!Load, Generation!control, Generation!evidence,
              Generation!allowed
<1>5. ASSUME NEW c \in StoreControllers, Generation!WriteGeneration(c)
      PROVE  Kept
  BY <1>5 DEF Generation!WriteGeneration, Generation!control,
              Generation!allowed
<1>6. ASSUME NEW c \in StoreControllers, NEW e \in 1..StoreFences,
             Generation!WriteFence(c, e)
      PROVE  Kept
  BY <1>6 DEF Generation!WriteFence, Generation!control, Generation!allowed
<1>7. ASSUME NEW c \in StoreControllers, NEW e \in 1..StoreFences,
             Generation!WriteAcceptance(c, e)
      PROVE  Kept
  BY <1>7 DEF Generation!WriteAcceptance, Generation!control,
              Generation!allowed
<1>8. ASSUME NEW c \in StoreControllers, NEW e \in 1..StoreFences,
             Generation!CommitServing(c, e)
      PROVE  Kept
  <2>1. genLease.active /\ genLease.att # None
        /\ genLease.att \in StoreAttempts
        /\ genState.want \in StoreGenerations
    BY <1>8 DEF Generation!CommitServing, Generation!Mutation,
                Generation!Leases, Generation!Target, Generation!Plans,
                Generation!Shape, Generation!State
  <2>2. /\ genState'.version = genState.version + 1
        /\ genState'.mode = "steady" /\ genState'.maint = genState.maint
        /\ genState'.gen = genState.want /\ genState'.fence = e
        /\ genState'.acc = genLease.att
        /\ genState'.want = genState.want /\ genState'.back = genState.back
        /\ genState'.att = genLease.att
        /\ genState'.epoch = genLease.epoch /\ genState'.stamp = 0
    BY <1>8, <2>1, CommitServingMoves
  <2> QED
    BY <1>8, <2>1, <2>2 DEF Generation!CommitServing, Generation!Shape,
                            Generation!Public, Generation!Staged,
                            Generation!Bound
<1>9. ASSUME NEW c \in StoreControllers, Generation!BeginSwitch(c)
      PROVE  Kept
  <2>1. genLease.active /\ genLease.att # None
        /\ genLease.att \in StoreAttempts
        /\ Generation!Target \in StoreGenerations
        /\ Generation!Target # genState.gen
    BY <1>9 DEF Generation!BeginSwitch, Generation!Mutation, Generation!Leases,
                Generation!Target, Generation!Plans, Generation!Shape,
                Generation!State
  <2>2. /\ genState'.version = genState.version + 1
        /\ genState'.mode = "switching" /\ genState'.maint = TRUE
        /\ genState'.gen = genState.gen /\ genState'.fence = genState.fence
        /\ genState'.acc = genState.acc
        /\ genState'.want = Generation!Target /\ genState'.back = genState.gen
        /\ genState'.att = genLease.att
        /\ genState'.epoch = genLease.epoch /\ genState'.stamp = 0
    BY <1>9, <2>1, BeginSwitchMoves
  <2> QED
    BY <1>9, <2>1, <2>2 DEF Generation!BeginSwitch, Generation!Shape,
                            Generation!Public, Generation!Staged,
                            Generation!Bound
<1>10. ASSUME NEW c \in StoreControllers, Generation!BeginValidation(c)
      PROVE  Kept
  <2>1. genLease.active /\ genLease.att # None
        /\ genLease.att \in StoreAttempts
    BY <1>10 DEF Generation!BeginValidation, Generation!Mutation,
                 Generation!Leases, Generation!Target, Generation!Plans,
                 Generation!Shape, Generation!State
  <2>2. /\ genState'.version = genState.version + 1
        /\ genState'.mode = "validating" /\ genState'.maint = genState.maint
        /\ genState'.gen = genState.gen /\ genState'.fence = genState.fence
        /\ genState'.acc = genState.acc
        /\ genState'.want = genState.want /\ genState'.back = genState.back
        /\ genState'.att = genLease.att
        /\ genState'.epoch = genLease.epoch /\ genState'.stamp = 0
    BY <1>10, <2>1, BeginValidationMoves
  <2> QED
    BY <1>10, <2>1, <2>2 DEF Generation!BeginValidation, Generation!Shape,
                             Generation!Public, Generation!Staged,
                             Generation!Bound
<1>11. ASSUME NEW c \in StoreControllers, Generation!MarkRestricted(c)
      PROVE  Kept
  <2>1. genLease.active /\ genLease.att # None
        /\ genLease.att \in StoreAttempts
    BY <1>11 DEF Generation!MarkRestricted, Generation!Hazard,
                 Generation!Mutation, Generation!Leases, Generation!Target,
                 Generation!Plans, Generation!Shape, Generation!State
  <2>2. /\ genState'.version = genState.version + 1
        /\ genState'.mode = "restricted" /\ genState'.maint = TRUE
        /\ genState'.gen = genState.gen /\ genState'.fence = genState.fence
        /\ genState'.acc = genState.acc
        /\ genState'.want = genState.want /\ genState'.back = genState.back
        /\ genState'.att = genLease.att
        /\ genState'.epoch = genLease.epoch /\ genState'.stamp = 0
    BY <1>11, <2>1, MarkRestrictedMoves
  <2> QED
    BY <1>11, <2>1, <2>2 DEF Generation!MarkRestricted, Generation!Hazard,
                             Generation!Shape, Generation!Public,
                             Generation!Staged, Generation!Bound
<1>12. ASSUME NEW c \in StoreControllers, Generation!MarkUnproven(c)
      PROVE  Kept
  <2>1. genLease.active /\ genLease.att # None
        /\ genLease.att \in StoreAttempts
    BY <1>12 DEF Generation!MarkUnproven, Generation!Hazard,
                 Generation!Mutation, Generation!Leases, Generation!Target,
                 Generation!Plans, Generation!Shape, Generation!State
  <2>2. /\ genState'.version = genState.version + 1
        /\ genState'.mode = "safety_unproven" /\ genState'.maint = TRUE
        /\ genState'.gen = genState.gen /\ genState'.fence = genState.fence
        /\ genState'.acc = genState.acc
        /\ genState'.want = genState.want /\ genState'.back = genState.back
        /\ genState'.att = genLease.att
        /\ genState'.epoch = genLease.epoch /\ genState'.stamp = 0
    BY <1>12, <2>1, MarkUnprovenMoves
  <2> QED
    BY <1>12, <2>1, <2>2 DEF Generation!MarkUnproven, Generation!Hazard,
                             Generation!Shape, Generation!Public,
                             Generation!Staged, Generation!Bound
<1>13. ASSUME NEW c \in StoreControllers, NEW t \in StoreStamps,
              Generation!WritePermit(c, Generation!Publication(genState, t))
      PROVE  Kept
  BY <1>13 DEF Generation!WritePermit, Generation!MayStage, Generation!Bound,
               Generation!control, Generation!evidence
<1>14. ASSUME NEW c \in StoreControllers, NEW t \in StoreStamps,
              Generation!CrashInPermit(c, Generation!Publication(genState, t))
      PROVE  Kept
  BY <1>14 DEF Generation!CrashInPermit, Generation!MayStage, Generation!Bound,
               Generation!evidence
<1>15. ASSUME NEW c \in StoreControllers, NEW t \in StoreStamps,
              Generation!Publish(c, Generation!Publication(genState, t))
      PROVE  Kept
  <2>1. genLease.active /\ genLease.att # None
        /\ genLease.att \in StoreAttempts
    BY <1>15 DEF Generation!Publish, Generation!Mutation, Generation!Leases,
                 Generation!Target, Generation!Plans, Generation!Shape,
                 Generation!State
  <2>2. /\ genState'.version = genState.version + 1
        /\ genState'.mode = genState.mode /\ genState'.maint = FALSE
        /\ genState'.gen = genState.gen /\ genState'.fence = genState.fence
        /\ genState'.acc = genState.acc
        /\ genState'.want = None /\ genState'.back = genState.back
        /\ genState'.att = None
        /\ genState'.epoch = 0 /\ genState'.stamp = t
    BY <1>15, <2>1, PublishMoves
  <2> QED
    BY <1>15, <2>1, <2>2 DEF Generation!Publish, Generation!Shape,
                             Generation!Public, Generation!Staged,
                             Generation!Bound
<1>16. ASSUME NEW c \in StoreControllers, Generation!Finish(c)
      PROVE  Kept
  BY <1>16 DEF Generation!Finish, Generation!Outcome, Generation!OpenWith,
               Generation!HazardOfAttempt, Generation!Bound,
               Generation!evidence, Generation!allowed
<1>17. ASSUME NEW c \in StoreControllers, Generation!Crash(c)
      PROVE  Kept
  BY <1>17 DEF Generation!Crash, Generation!evidence, Generation!allowed
<1>18. CASE UNCHANGED Generation!vars
  BY <1>18 DEF Generation!vars, Generation!control, Generation!evidence,
               Generation!allowed
<1> QED
  BY <1>1, <1>2, <1>3, <1>4, <1>5, <1>6, <1>7, <1>8, <1>9, <1>10, <1>11, <1>12,
     <1>13, <1>14, <1>15, <1>16, <1>17, <1>18
     DEF Generation!Next

\* runtime_generation_store.py: the invariant of the generation store holds for
\* any controllers, attempts, generations, epochs, fences and crashes.
THEOREM GenInvariance ==
  ASSUME Generation!GenerationAssumption
  PROVE  Generation!Spec => []Generation!IInv
<1>1. Generation!Init => Generation!IInv
  BY GenInit
<1>2. Generation!IInv /\ [Generation!Next]_(Generation!vars)
      => Generation!IInv'
  BY GenTypeNext, GenLeaseNext, GenReignNext, GenViewNext, GenServingNext
     DEF Generation!IInv
<1> QED
  BY <1>1, <1>2, PTL DEF Generation!Spec

\* compare_and_swap_state, write_serving_permit_once: what serves was accepted,
\* behind a fence of its own, with its one permit; no attempt ends in its
\* switch.
THEOREM ServingIsSound ==
  ASSUME Generation!GenerationAssumption
  PROVE  Generation!Spec => []Generation!ServingSound
<1>1. Generation!IInv => Generation!ServingSound
  BY DEF Generation!IInv, Generation!ServingSound
<1> QED
  BY <1>1, GenInvariance, PTL

\* A hazard is never taken back, and an unproven state is the last one.
THEOREM HazardIsFinal ==
  ASSUME Generation!GenerationAssumption
  PROVE  Generation!Spec => Generation!HazardStays
<1>1. Generation!IInv /\ [Generation!Next]_(Generation!vars) =>
        [genState.mode \in {"restricted", "safety_unproven"}
            /\ genState' # genState =>
          /\ genState.mode = "restricted" /\ genState'.mode = "safety_unproven"
          /\ genState'.att = genState.att]_genState
  BY HazardNext
<1> QED
  BY <1>1, GenInvariance, PTL DEF Generation!Spec, Generation!HazardStays

-----------------------------------------------------------------------------
(***************************************************************************)
(* The installation of units.                                              *)
(***************************************************************************)
\* What each mode works on.
LEMMA UnitsOfModes ==
  ASSUME UnitInstall!UnitAssumption, NEW m \in UnitInstall!Modes
  PROVE  /\ UnitInstall!UnitsOf(m) \subseteq UnitInstall!All
         /\ UnitInstall!StateNames(m) \subseteq UnitInstall!UnitsOf(m)
         /\ UnitInstall!RestartNames(m) \subseteq UnitInstall!StateNames(m)
         /\ UnitInstall!EnableNames(m) \subseteq UnitInstall!StateNames(m)
         /\ UnitInstall!EnableNames(m) \subseteq UnitsToEnable
         /\ UnitInstall!RestoresActivity(m) <=> m \notin UnitInstall!Quiet
         /\ m \in UnitInstall!Quiet => UnitInstall!RestartNames(m) = {}
         /\ m = "normal" => UnitInstall!StateNames(m) \subseteq StandardUnits
         /\ m \in UnitInstall!Modes \ (UnitInstall!Quiet \cup {"normal"}) =>
               UnitInstall!StateNames(m)
                 \subseteq UnitInstall!All \ DeferredUnits
  BY DEF UnitInstall!UnitAssumption, UnitInstall!Modes, UnitInstall!Quiet,
         UnitInstall!Stages, UnitInstall!All, UnitInstall!UnitsOf,
         UnitInstall!Postponed, UnitInstall!EnableNames,
         UnitInstall!RestartNames, UnitInstall!StateNames,
         UnitInstall!RestoresActivity

\* The order of the compensation.
LEMMA UndoInOrder ==
  /\ unitPc = "undo_receipt" => UnitInstall!Later = "undo_gone"
  /\ unitPc = "undo_gone" => UnitInstall!Later = "undo_gone_stop"
  /\ unitPc = "undo_gone_stop" => UnitInstall!Later = "undo_unit"
  /\ unitPc = "undo_unit" => UnitInstall!Later = "undo_shadow"
  /\ unitPc = "undo_shadow" => UnitInstall!Later = "undo_reload"
  /\ unitPc = "undo_reload" => UnitInstall!Later = "undo_enable"
  /\ unitPc = "undo_enable" => UnitInstall!Later = "undo_activity"
  /\ unitPc = "undo_activity" => UnitInstall!Later = "undo_proof"
<1>1. DOMAIN UnitInstall!UndoOrder = 1..9
  BY DEF UnitInstall!UndoOrder
<1>2. ASSUME NEW i \in 1..9, unitPc = UnitInstall!UndoOrder[i]
      PROVE  (CHOOSE j \in DOMAIN UnitInstall!UndoOrder :
               UnitInstall!UndoOrder[j] = unitPc) = i
  <2>1. \A j \in 1..9 : UnitInstall!UndoOrder[j] = UnitInstall!UndoOrder[i]
        => j = i
    BY DEF UnitInstall!UndoOrder
  <2> QED
    BY <1>1, <1>2, <2>1
<1> QED
  BY <1>1, <1>2 DEF UnitInstall!Later, UnitInstall!UndoOrder

\* The phases that put things back.
LEMMA Phases ==
  UnitInstall!Undoing
    = {"undo_receipt", "undo_gone", "undo_gone_stop", "undo_unit",
                         "undo_shadow", "undo_reload", "undo_enable",
                             "undo_activity",
                         "undo_proof"}
<1>1. DOMAIN UnitInstall!UndoOrder = 1..9
  BY DEF UnitInstall!UndoOrder
<1> QED
  BY <1>1 DEF UnitInstall!Undoing, UnitInstall!UndoOrder

\* Nothing was installed yet.
LEMMA InstallInit == ASSUME UnitInstall!UnitAssumption PROVE UnitInstall!Init
                     => UnitInstall!IInv
<1> SUFFICES ASSUME UnitInstall!Init
             PROVE  UnitInstall!IInv
  OBVIOUS
<1> USE Phases DEF UnitInstall!UnitAssumption, UnitInstall!Init
<1>1. UnitInstall!TypeOK
  <2>1. /\ unitDisk \in [UnitInstall!All -> UnitInstall!Contents]
        /\ unitLoaded \in [UnitInstall!All -> UnitInstall!Contents]
        /\ unitRun \in [UnitInstall!All -> UnitInstall!Contents]
        /\ shadow \in [UnitInstall!All -> UnitInstall!Shadows]
        /\ enabled \subseteq UnitsToEnable
    BY DEF UnitInstall!Contents, UnitInstall!Shadows
  <2>2. left \in [rounds : Nat, faults : Nat, crashes : Nat]
    OBVIOUS
  <2>3. unitBefore \in UnitInstall!Originals
    BY <2>1 DEF UnitInstall!Frozen, UnitInstall!Originals
  <2> QED
    BY <2>1, <2>2, <2>3 DEF UnitInstall!TypeOK, UnitInstall!Modes,
                            UnitInstall!Told
<1>2. UnitInstall!TodoFits
  BY DEF UnitInstall!TodoFits
<1>3. UnitInstall!BeforeFits
  <2>1. UnitInstall!Gone \subseteq UnitInstall!All /\ unitBefore.run = unitRun
        /\ unitBefore.disk = unitDisk
    BY UnitsOfModes DEF UnitInstall!Gone, UnitInstall!Modes, UnitInstall!Frozen
  <2> QED
    BY <2>1 DEF UnitInstall!BeforeFits, UnitInstall!Gone
<1>4. UnitInstall!ApplyFits /\ UnitInstall!UndoFits
  BY DEF UnitInstall!ApplyFits, UnitInstall!UndoFits, UnitInstall!Retired,
         UnitInstall!Effective, UnitInstall!Ending, UnitInstall!Reread,
         UnitInstall!Stopped
<1>5. UnitInstall!ReportIsTrue /\ UnitInstall!RolledBackIsTrue
      /\ UnitInstall!InterruptedIsSettled
  BY DEF UnitInstall!ReportIsTrue, UnitInstall!RolledBackIsTrue,
         UnitInstall!InterruptedIsSettled
<1>6. UnitInstall!TouchesOnlyItsOwn
  BY DEF UnitInstall!TouchesOnlyItsOwn
<1> QED
  BY <1>1, <1>2, <1>3, <1>4, <1>5, <1>6 DEF UnitInstall!IInv

\* Every step keeps the forms of files, services and labels.
LEMMA InstallTypeNext ==
  ASSUME UnitInstall!UnitAssumption, UnitInstall!IInv,
         [UnitInstall!Next]_(UnitInstall!vars)
  PROVE  UnitInstall!TypeOK'
<1> USE DEF UnitInstall!UnitAssumption, UnitInstall!IInv, UnitInstall!TypeOK,
            UnitInstall!TodoFits, UnitInstall!BeforeFits,
            UnitInstall!ApplyFits, UnitInstall!UndoFits,
            UnitInstall!ReportIsTrue, UnitInstall!RolledBackIsTrue,
            UnitInstall!InterruptedIsSettled, UnitInstall!TouchesOnlyItsOwn,
            UnitInstall!All, UnitInstall!Contents, UnitInstall!Shadows,
            UnitInstall!Originals, UnitInstall!Modes, UnitInstall!Told,
            UnitInstall!Applying, UnitInstall!Undoing, UnitInstall!UndoOrder,
            UnitInstall!Quiet, UnitInstall!Stages, UnitInstall!WorkOf,
            UnitInstall!Gone, UnitInstall!AsBefore, UnitInstall!Retired,
            UnitInstall!Effective, UnitInstall!Ending, UnitInstall!Reread,
            UnitInstall!Stopped, UnitInstall!Installed, UnitInstall!RolledBack
<1> USE UnitsOfModes, UndoInOrder, Phases
<1>1. ASSUME NEW m \in UnitInstall!Modes, UnitInstall!Prepare(m)
      PROVE  UnitInstall!TypeOK'
  <2>1. left' \in [rounds : Nat, faults : Nat, crashes : Nat]
    BY <1>1 DEF UnitInstall!Prepare, UnitInstall!Spent
  <2>2. unitBefore' \in UnitInstall!Originals
    BY <1>1 DEF UnitInstall!Prepare, UnitInstall!Frozen, UnitInstall!Originals
  <2> QED
    BY <1>1, <2>1, <2>2 DEF UnitInstall!Prepare, UnitInstall!Goto,
                            UnitInstall!host
<1>2. CASE UnitInstall!FirstWrite
  BY <1>2 DEF UnitInstall!FirstWrite, UnitInstall!Goto, UnitInstall!host
<1>3. CASE UnitInstall!Reload
  BY <1>3 DEF UnitInstall!Reload, UnitInstall!Reloaded, UnitInstall!Goto,
              UnitInstall!work
<1>4. CASE UnitInstall!EnableUnits
  BY <1>4 DEF UnitInstall!EnableUnits, UnitInstall!Goto, UnitInstall!work
<1>5. CASE UnitInstall!Verify
  BY <1>5 DEF UnitInstall!Verify, UnitInstall!Verified, UnitInstall!Goto,
              UnitInstall!host, UnitInstall!work
<1>6. CASE UnitInstall!WriteReceipt
  BY <1>6 DEF UnitInstall!WriteReceipt, UnitInstall!Goto, UnitInstall!work
<1>7. CASE UnitInstall!Commit
  BY <1>7 DEF UnitInstall!Commit, UnitInstall!Boundary, UnitInstall!Goto,
              UnitInstall!host, UnitInstall!work
<1>8. CASE UnitInstall!AllWritten
  BY <1>8 DEF UnitInstall!AllWritten, UnitInstall!Done, UnitInstall!Goto,
              UnitInstall!host, UnitInstall!work
<1>9. CASE UnitInstall!AllRetired
  BY <1>9 DEF UnitInstall!AllRetired, UnitInstall!Done, UnitInstall!Goto,
              UnitInstall!host, UnitInstall!work
<1>10. CASE UnitInstall!AllRestarted
  BY <1>10 DEF UnitInstall!AllRestarted, UnitInstall!Done, UnitInstall!Goto,
               UnitInstall!host, UnitInstall!work
<1>11. ASSUME NEW u \in UnitInstall!All, UnitInstall!WriteUnit(u)
      PROVE  UnitInstall!TypeOK'
  BY <1>11 DEF UnitInstall!WriteUnit, UnitInstall!Unit, UnitInstall!work
<1>12. ASSUME NEW u \in UnitInstall!All, UnitInstall!RetireShadow(u)
      PROVE  UnitInstall!TypeOK'
  BY <1>12 DEF UnitInstall!RetireShadow, UnitInstall!Unit, UnitInstall!work
<1>13. ASSUME NEW u \in UnitInstall!All, UnitInstall!RestartUnit(u)
      PROVE  UnitInstall!TypeOK'
  BY <1>13 DEF UnitInstall!RestartUnit, UnitInstall!Started, UnitInstall!Fault,
               UnitInstall!Spent, UnitInstall!work
<1>14. CASE UnitInstall!BodyFails
  BY <1>14 DEF UnitInstall!BodyFails, UnitInstall!Fault, UnitInstall!Spent,
               UnitInstall!Verified, UnitInstall!Boundary,
               UnitInstall!Compensate, UnitInstall!host
<1>15. CASE UnitInstall!NextPhase
  BY <1>15 DEF UnitInstall!NextPhase, UnitInstall!Goto, UnitInstall!host,
               UnitInstall!work
<1>16. CASE UnitInstall!UndoReceipt
  <2>1. left' \in [rounds : Nat, faults : Nat, crashes : Nat]
    BY <1>16 DEF UnitInstall!UndoReceipt, UnitInstall!Fault, UnitInstall!Spent
  <2>2. unitPc' = "undo_gone"
    BY <1>16 DEF UnitInstall!UndoReceipt, UnitInstall!Goto
  <2> QED
    BY <1>16, <2>1, <2>2 DEF UnitInstall!UndoReceipt
<1>17. CASE UnitInstall!UndoReload
  <2>1. left' \in [rounds : Nat, faults : Nat, crashes : Nat]
    BY <1>17 DEF UnitInstall!UndoReload, UnitInstall!Fault, UnitInstall!Spent
  <2>2. unitPc' = "undo_enable"
    BY <1>17 DEF UnitInstall!UndoReload, UnitInstall!Goto
  <2>3. unitLoaded' \in [UnitInstall!All -> UnitInstall!Contents]
        /\ proven' \in BOOLEAN
    <3>1. /\ unitLoaded \in [UnitInstall!All -> UnitInstall!Contents]
          /\ unitDisk \in [UnitInstall!All -> UnitInstall!Contents]
          /\ proven \in BOOLEAN
      OBVIOUS
    <3>2. \/ unitLoaded' = unitDisk /\ proven' = proven
          \/ unitLoaded' = unitLoaded /\ proven' = FALSE
      BY <1>17 DEF UnitInstall!UndoReload, UnitInstall!Reloaded
    <3> QED
      BY <3>1, <3>2
  <2> QED
    BY <1>17, <2>1, <2>2, <2>3 DEF UnitInstall!UndoReload
<1>18. CASE UnitInstall!UndoProof
  BY <1>18 DEF UnitInstall!UndoProof, UnitInstall!Goto, UnitInstall!Boundary,
               UnitInstall!host
<1>19. ASSUME NEW u \in UnitInstall!All, UnitInstall!UndoFails(u)
      PROVE  UnitInstall!TypeOK'
  <2>1. left' \in [rounds : Nat, faults : Nat, crashes : Nat]
    BY <1>19 DEF UnitInstall!UndoFails, UnitInstall!Fault, UnitInstall!Spent
  <2> QED
    BY <1>19, <2>1 DEF UnitInstall!UndoFails, UnitInstall!Undo
<1>20. ASSUME NEW u \in UnitInstall!All, UnitInstall!UndoUnit(u)
      PROVE  UnitInstall!TypeOK'
  BY <1>20 DEF UnitInstall!UndoUnit, UnitInstall!Undo
<1>21. ASSUME NEW u \in UnitInstall!All, UnitInstall!UndoShadow(u)
      PROVE  UnitInstall!TypeOK'
  BY <1>21 DEF UnitInstall!UndoShadow, UnitInstall!Undo
<1>22. ASSUME NEW u \in UnitInstall!All, UnitInstall!UndoEnable(u)
      PROVE  UnitInstall!TypeOK'
  BY <1>22 DEF UnitInstall!UndoEnable, UnitInstall!Undo, UnitInstall!Known
<1>23. ASSUME NEW u \in UnitInstall!All, UnitInstall!UndoActivity(u)
      PROVE  UnitInstall!TypeOK'
  BY <1>23 DEF UnitInstall!UndoActivity, UnitInstall!Undo, UnitInstall!Known,
               UnitInstall!Started
<1>24. CASE UnitInstall!Failed
  BY <1>24 DEF UnitInstall!Failed, UnitInstall!End, UnitInstall!Goto,
               UnitInstall!host
<1>25. CASE UnitInstall!Unlock
  BY <1>25 DEF UnitInstall!Unlock, UnitInstall!Goto, UnitInstall!End,
               UnitInstall!Fault, UnitInstall!Spent, UnitInstall!host
<1>26. CASE UnitInstall!UnlockUndoneFails
  BY <1>26 DEF UnitInstall!UnlockUndoneFails, UnitInstall!Fault,
               UnitInstall!Spent, UnitInstall!End, UnitInstall!Goto,
               UnitInstall!host
<1>27. CASE UnitInstall!ReportInstalled
  BY <1>27 DEF UnitInstall!ReportInstalled, UnitInstall!End, UnitInstall!Goto,
               UnitInstall!host
<1>28. CASE UnitInstall!ControlC
  BY <1>28 DEF UnitInstall!ControlC, UnitInstall!host
<1>29. CASE UnitInstall!Crash
  BY <1>29 DEF UnitInstall!Crash, UnitInstall!Spent, UnitInstall!Goto,
               UnitInstall!host
<1>30. ASSUME NEW u \in UnitInstall!All, UnitInstall!ServiceBounces(u)
      PROVE  UnitInstall!TypeOK'
  BY <1>30 DEF UnitInstall!ServiceBounces, UnitInstall!Fault,
               UnitInstall!Spent, UnitInstall!work
<1>31. CASE UNCHANGED UnitInstall!vars
  BY <1>31 DEF UnitInstall!vars, UnitInstall!host, UnitInstall!work
<1> QED
  BY <1>1, <1>2, <1>3, <1>4, <1>5, <1>6, <1>7, <1>8, <1>9, <1>10, <1>11, <1>12,
     <1>13, <1>14, <1>15, <1>16, <1>17, <1>18, <1>19, <1>20, <1>21, <1>22,
     <1>23, <1>24, <1>25, <1>26, <1>27, <1>28, <1>29, <1>30, <1>31
     DEF UnitInstall!Next, UnitInstall!Apply, UnitInstall!UndoNext

\* Each phase has its own units to work off.
LEMMA InstallTodoNext ==
  ASSUME UnitInstall!UnitAssumption, UnitInstall!IInv,
         [UnitInstall!Next]_(UnitInstall!vars)
  PROVE  UnitInstall!TodoFits' /\ UnitInstall!BeforeFits'
<1> USE DEF UnitInstall!UnitAssumption, UnitInstall!IInv, UnitInstall!TypeOK,
            UnitInstall!TodoFits, UnitInstall!BeforeFits,
            UnitInstall!ApplyFits, UnitInstall!UndoFits,
            UnitInstall!ReportIsTrue, UnitInstall!RolledBackIsTrue,
            UnitInstall!InterruptedIsSettled, UnitInstall!TouchesOnlyItsOwn,
            UnitInstall!All, UnitInstall!Contents, UnitInstall!Shadows,
            UnitInstall!Originals, UnitInstall!Modes, UnitInstall!Told,
            UnitInstall!Applying, UnitInstall!Undoing, UnitInstall!UndoOrder,
            UnitInstall!Quiet, UnitInstall!Stages, UnitInstall!WorkOf,
            UnitInstall!Gone, UnitInstall!AsBefore, UnitInstall!Retired,
            UnitInstall!Effective, UnitInstall!Ending, UnitInstall!Reread,
            UnitInstall!Stopped, UnitInstall!Installed, UnitInstall!RolledBack
<1> USE UnitsOfModes, UndoInOrder, Phases
<1>1. ASSUME NEW m \in UnitInstall!Modes, UnitInstall!Prepare(m)
      PROVE  UnitInstall!TodoFits' /\ UnitInstall!BeforeFits'
  BY <1>1 DEF UnitInstall!Prepare, UnitInstall!Reversible,
              UnitInstall!Boundary, UnitInstall!Frozen, UnitInstall!Spent,
              UnitInstall!Goto, UnitInstall!host
<1>2. CASE UnitInstall!FirstWrite
  BY <1>2 DEF UnitInstall!FirstWrite, UnitInstall!Goto, UnitInstall!host
<1>3. CASE UnitInstall!Reload
  BY <1>3 DEF UnitInstall!Reload, UnitInstall!Reloaded, UnitInstall!Goto,
              UnitInstall!work
<1>4. CASE UnitInstall!EnableUnits
  BY <1>4 DEF UnitInstall!EnableUnits, UnitInstall!Goto, UnitInstall!work
<1>5. CASE UnitInstall!Verify
  BY <1>5 DEF UnitInstall!Verify, UnitInstall!Verified, UnitInstall!Goto,
              UnitInstall!host, UnitInstall!work
<1>6. CASE UnitInstall!WriteReceipt
  BY <1>6 DEF UnitInstall!WriteReceipt, UnitInstall!Goto, UnitInstall!work
<1>7. CASE UnitInstall!Commit
  BY <1>7 DEF UnitInstall!Commit, UnitInstall!Boundary, UnitInstall!Goto,
              UnitInstall!host, UnitInstall!work
<1>8. CASE UnitInstall!AllWritten
  BY <1>8 DEF UnitInstall!AllWritten, UnitInstall!Done, UnitInstall!Goto,
              UnitInstall!host, UnitInstall!work
<1>9. CASE UnitInstall!AllRetired
  BY <1>9 DEF UnitInstall!AllRetired, UnitInstall!Done, UnitInstall!Goto,
              UnitInstall!host, UnitInstall!work
<1>10. CASE UnitInstall!AllRestarted
  BY <1>10 DEF UnitInstall!AllRestarted, UnitInstall!Done, UnitInstall!Goto,
               UnitInstall!host, UnitInstall!work
<1>11. ASSUME NEW u \in UnitInstall!All, UnitInstall!WriteUnit(u)
      PROVE  UnitInstall!TodoFits' /\ UnitInstall!BeforeFits'
  BY <1>11 DEF UnitInstall!WriteUnit, UnitInstall!Unit, UnitInstall!work
<1>12. ASSUME NEW u \in UnitInstall!All, UnitInstall!RetireShadow(u)
      PROVE  UnitInstall!TodoFits' /\ UnitInstall!BeforeFits'
  BY <1>12 DEF UnitInstall!RetireShadow, UnitInstall!Unit, UnitInstall!work
<1>13. ASSUME NEW u \in UnitInstall!All, UnitInstall!RestartUnit(u)
      PROVE  UnitInstall!TodoFits' /\ UnitInstall!BeforeFits'
  BY <1>13 DEF UnitInstall!RestartUnit, UnitInstall!Started, UnitInstall!Fault,
               UnitInstall!Spent, UnitInstall!work
<1>14. CASE UnitInstall!BodyFails
  BY <1>14 DEF UnitInstall!BodyFails, UnitInstall!Fault, UnitInstall!Spent,
               UnitInstall!Verified, UnitInstall!Boundary,
               UnitInstall!Compensate, UnitInstall!host
<1>15. CASE UnitInstall!NextPhase
  BY <1>15 DEF UnitInstall!NextPhase, UnitInstall!Goto, UnitInstall!host,
               UnitInstall!work
<1>16. CASE UnitInstall!UndoReceipt
  BY <1>16 DEF UnitInstall!UndoReceipt, UnitInstall!Goto, UnitInstall!Fault,
               UnitInstall!Spent
<1>17. CASE UnitInstall!UndoReload
  BY <1>17 DEF UnitInstall!UndoReload, UnitInstall!Goto, UnitInstall!Reloaded,
               UnitInstall!Fault, UnitInstall!Spent
<1>18. CASE UnitInstall!UndoProof
  BY <1>18 DEF UnitInstall!UndoProof, UnitInstall!Goto, UnitInstall!Boundary,
               UnitInstall!host
<1>19. ASSUME NEW u \in UnitInstall!All, UnitInstall!UndoFails(u)
      PROVE  UnitInstall!TodoFits' /\ UnitInstall!BeforeFits'
  BY <1>19 DEF UnitInstall!UndoFails, UnitInstall!Undo, UnitInstall!Known,
               UnitInstall!Fault, UnitInstall!Spent
<1>20. ASSUME NEW u \in UnitInstall!All, UnitInstall!UndoUnit(u)
      PROVE  UnitInstall!TodoFits' /\ UnitInstall!BeforeFits'
  BY <1>20 DEF UnitInstall!UndoUnit, UnitInstall!Undo
<1>21. ASSUME NEW u \in UnitInstall!All, UnitInstall!UndoShadow(u)
      PROVE  UnitInstall!TodoFits' /\ UnitInstall!BeforeFits'
  BY <1>21 DEF UnitInstall!UndoShadow, UnitInstall!Undo
<1>22. ASSUME NEW u \in UnitInstall!All, UnitInstall!UndoEnable(u)
      PROVE  UnitInstall!TodoFits' /\ UnitInstall!BeforeFits'
  BY <1>22 DEF UnitInstall!UndoEnable, UnitInstall!Undo, UnitInstall!Known
<1>23. ASSUME NEW u \in UnitInstall!All, UnitInstall!UndoActivity(u)
      PROVE  UnitInstall!TodoFits' /\ UnitInstall!BeforeFits'
  BY <1>23 DEF UnitInstall!UndoActivity, UnitInstall!Undo, UnitInstall!Known,
               UnitInstall!Started
<1>24. CASE UnitInstall!Failed
  BY <1>24 DEF UnitInstall!Failed, UnitInstall!End, UnitInstall!Goto,
               UnitInstall!host
<1>25. CASE UnitInstall!Unlock
  BY <1>25 DEF UnitInstall!Unlock, UnitInstall!Goto, UnitInstall!End,
               UnitInstall!Fault, UnitInstall!Spent, UnitInstall!host
<1>26. CASE UnitInstall!UnlockUndoneFails
  BY <1>26 DEF UnitInstall!UnlockUndoneFails, UnitInstall!Fault,
               UnitInstall!Spent, UnitInstall!End, UnitInstall!Goto,
               UnitInstall!host
<1>27. CASE UnitInstall!ReportInstalled
  BY <1>27 DEF UnitInstall!ReportInstalled, UnitInstall!End, UnitInstall!Goto,
               UnitInstall!host
<1>28. CASE UnitInstall!ControlC
  BY <1>28 DEF UnitInstall!ControlC, UnitInstall!host
<1>29. CASE UnitInstall!Crash
  BY <1>29 DEF UnitInstall!Crash, UnitInstall!Spent, UnitInstall!Goto,
               UnitInstall!host
<1>30. ASSUME NEW u \in UnitInstall!All, UnitInstall!ServiceBounces(u)
      PROVE  UnitInstall!TodoFits' /\ UnitInstall!BeforeFits'
  BY <1>30 DEF UnitInstall!ServiceBounces, UnitInstall!Fault,
               UnitInstall!Spent, UnitInstall!work
<1>31. CASE UNCHANGED UnitInstall!vars
  BY <1>31 DEF UnitInstall!vars, UnitInstall!host, UnitInstall!work
<1> QED
  BY <1>1, <1>2, <1>3, <1>4, <1>5, <1>6, <1>7, <1>8, <1>9, <1>10, <1>11, <1>12,
     <1>13, <1>14, <1>15, <1>16, <1>17, <1>18, <1>19, <1>20, <1>21, <1>22,
     <1>23, <1>24, <1>25, <1>26, <1>27, <1>28, <1>29, <1>30, <1>31
     DEF UnitInstall!Next, UnitInstall!Apply, UnitInstall!UndoNext

\* How far the new release is in place.
LEMMA InstallApplyNext ==
  ASSUME UnitInstall!UnitAssumption, UnitInstall!IInv,
         [UnitInstall!Next]_(UnitInstall!vars)
  PROVE  UnitInstall!ApplyFits'
<1> USE DEF UnitInstall!UnitAssumption, UnitInstall!IInv, UnitInstall!TypeOK,
            UnitInstall!TodoFits, UnitInstall!BeforeFits,
            UnitInstall!ApplyFits, UnitInstall!UndoFits,
            UnitInstall!ReportIsTrue, UnitInstall!RolledBackIsTrue,
            UnitInstall!InterruptedIsSettled, UnitInstall!TouchesOnlyItsOwn,
            UnitInstall!All, UnitInstall!Contents, UnitInstall!Shadows,
            UnitInstall!Originals, UnitInstall!Modes, UnitInstall!Told,
            UnitInstall!Applying, UnitInstall!Undoing, UnitInstall!UndoOrder,
            UnitInstall!Quiet, UnitInstall!Stages, UnitInstall!WorkOf,
            UnitInstall!Gone, UnitInstall!AsBefore, UnitInstall!Retired,
            UnitInstall!Effective, UnitInstall!Ending, UnitInstall!Reread,
            UnitInstall!Stopped, UnitInstall!Installed, UnitInstall!RolledBack
<1> USE UnitsOfModes, UndoInOrder, Phases
<1>1. ASSUME NEW m \in UnitInstall!Modes, UnitInstall!Prepare(m)
      PROVE  UnitInstall!ApplyFits'
  BY <1>1 DEF UnitInstall!Prepare, UnitInstall!Reversible,
              UnitInstall!Boundary, UnitInstall!Frozen, UnitInstall!Spent,
              UnitInstall!Goto, UnitInstall!host
<1>2. CASE UnitInstall!FirstWrite
  BY <1>2 DEF UnitInstall!FirstWrite, UnitInstall!Goto, UnitInstall!host
<1>3. CASE UnitInstall!Reload
  BY <1>3 DEF UnitInstall!Reload, UnitInstall!Reloaded, UnitInstall!Goto,
              UnitInstall!work
<1>4. CASE UnitInstall!EnableUnits
  BY <1>4 DEF UnitInstall!EnableUnits, UnitInstall!Goto, UnitInstall!work
<1>5. CASE UnitInstall!Verify
  BY <1>5 DEF UnitInstall!Verify, UnitInstall!Verified, UnitInstall!Goto,
              UnitInstall!host, UnitInstall!work
<1>6. CASE UnitInstall!WriteReceipt
  BY <1>6 DEF UnitInstall!WriteReceipt, UnitInstall!Goto, UnitInstall!work
<1>7. CASE UnitInstall!Commit
  BY <1>7 DEF UnitInstall!Commit, UnitInstall!Boundary, UnitInstall!Goto,
              UnitInstall!host, UnitInstall!work
<1>8. CASE UnitInstall!AllWritten
  BY <1>8 DEF UnitInstall!AllWritten, UnitInstall!Done, UnitInstall!Goto,
              UnitInstall!host, UnitInstall!work
<1>9. CASE UnitInstall!AllRetired
  BY <1>9 DEF UnitInstall!AllRetired, UnitInstall!Done, UnitInstall!Goto,
              UnitInstall!host, UnitInstall!work
<1>10. CASE UnitInstall!AllRestarted
  BY <1>10 DEF UnitInstall!AllRestarted, UnitInstall!Done, UnitInstall!Goto,
               UnitInstall!host, UnitInstall!work
<1>11. ASSUME NEW u \in UnitInstall!All, UnitInstall!WriteUnit(u)
      PROVE  UnitInstall!ApplyFits'
  BY <1>11 DEF UnitInstall!WriteUnit, UnitInstall!Unit, UnitInstall!work
<1>12. ASSUME NEW u \in UnitInstall!All, UnitInstall!RetireShadow(u)
      PROVE  UnitInstall!ApplyFits'
  BY <1>12 DEF UnitInstall!RetireShadow, UnitInstall!Unit, UnitInstall!work
<1>13. ASSUME NEW u \in UnitInstall!All, UnitInstall!RestartUnit(u)
      PROVE  UnitInstall!ApplyFits'
  BY <1>13 DEF UnitInstall!RestartUnit, UnitInstall!Started, UnitInstall!Fault,
               UnitInstall!Spent, UnitInstall!work
<1>14. CASE UnitInstall!BodyFails
  BY <1>14 DEF UnitInstall!BodyFails, UnitInstall!Fault, UnitInstall!Spent,
               UnitInstall!Verified, UnitInstall!Boundary,
               UnitInstall!Compensate, UnitInstall!host
<1>15. CASE UnitInstall!NextPhase
  BY <1>15 DEF UnitInstall!NextPhase, UnitInstall!Goto, UnitInstall!host,
               UnitInstall!work
<1>16. CASE UnitInstall!UndoReceipt
  BY <1>16 DEF UnitInstall!UndoReceipt, UnitInstall!Goto, UnitInstall!Fault,
               UnitInstall!Spent
<1>17. CASE UnitInstall!UndoReload
  BY <1>17 DEF UnitInstall!UndoReload, UnitInstall!Goto, UnitInstall!Reloaded,
               UnitInstall!Fault, UnitInstall!Spent
<1>18. CASE UnitInstall!UndoProof
  BY <1>18 DEF UnitInstall!UndoProof, UnitInstall!Goto, UnitInstall!Boundary,
               UnitInstall!host
<1>19. ASSUME NEW u \in UnitInstall!All, UnitInstall!UndoFails(u)
      PROVE  UnitInstall!ApplyFits'
  BY <1>19 DEF UnitInstall!UndoFails, UnitInstall!Undo, UnitInstall!Known,
               UnitInstall!Fault, UnitInstall!Spent
<1>20. ASSUME NEW u \in UnitInstall!All, UnitInstall!UndoUnit(u)
      PROVE  UnitInstall!ApplyFits'
  BY <1>20 DEF UnitInstall!UndoUnit, UnitInstall!Undo
<1>21. ASSUME NEW u \in UnitInstall!All, UnitInstall!UndoShadow(u)
      PROVE  UnitInstall!ApplyFits'
  BY <1>21 DEF UnitInstall!UndoShadow, UnitInstall!Undo
<1>22. ASSUME NEW u \in UnitInstall!All, UnitInstall!UndoEnable(u)
      PROVE  UnitInstall!ApplyFits'
  BY <1>22 DEF UnitInstall!UndoEnable, UnitInstall!Undo, UnitInstall!Known
<1>23. ASSUME NEW u \in UnitInstall!All, UnitInstall!UndoActivity(u)
      PROVE  UnitInstall!ApplyFits'
  BY <1>23 DEF UnitInstall!UndoActivity, UnitInstall!Undo, UnitInstall!Known,
               UnitInstall!Started
<1>24. CASE UnitInstall!Failed
  BY <1>24 DEF UnitInstall!Failed, UnitInstall!End, UnitInstall!Goto,
               UnitInstall!host
<1>25. CASE UnitInstall!Unlock
  BY <1>25 DEF UnitInstall!Unlock, UnitInstall!Goto, UnitInstall!End,
               UnitInstall!Fault, UnitInstall!Spent, UnitInstall!host
<1>26. CASE UnitInstall!UnlockUndoneFails
  BY <1>26 DEF UnitInstall!UnlockUndoneFails, UnitInstall!Fault,
               UnitInstall!Spent, UnitInstall!End, UnitInstall!Goto,
               UnitInstall!host
<1>27. CASE UnitInstall!ReportInstalled
  BY <1>27 DEF UnitInstall!ReportInstalled, UnitInstall!End, UnitInstall!Goto,
               UnitInstall!host
<1>28. CASE UnitInstall!ControlC
  BY <1>28 DEF UnitInstall!ControlC, UnitInstall!host
<1>29. CASE UnitInstall!Crash
  BY <1>29 DEF UnitInstall!Crash, UnitInstall!Spent, UnitInstall!Goto,
               UnitInstall!host
<1>30. ASSUME NEW u \in UnitInstall!All, UnitInstall!ServiceBounces(u)
      PROVE  UnitInstall!ApplyFits'
  BY <1>30 DEF UnitInstall!ServiceBounces, UnitInstall!Fault,
               UnitInstall!Spent, UnitInstall!work
<1>31. CASE UNCHANGED UnitInstall!vars
  BY <1>31 DEF UnitInstall!vars, UnitInstall!host, UnitInstall!work
<1> QED
  BY <1>1, <1>2, <1>3, <1>4, <1>5, <1>6, <1>7, <1>8, <1>9, <1>10, <1>11, <1>12,
     <1>13, <1>14, <1>15, <1>16, <1>17, <1>18, <1>19, <1>20, <1>21, <1>22,
     <1>23, <1>24, <1>25, <1>26, <1>27, <1>28, <1>29, <1>30, <1>31
     DEF UnitInstall!Next, UnitInstall!Apply, UnitInstall!UndoNext

\* How far everything is put back.
LEMMA InstallUndoNext ==
  ASSUME UnitInstall!UnitAssumption, UnitInstall!IInv,
         [UnitInstall!Next]_(UnitInstall!vars)
  PROVE  UnitInstall!UndoFits'
<1> USE DEF UnitInstall!UnitAssumption, UnitInstall!IInv, UnitInstall!TypeOK,
            UnitInstall!TodoFits, UnitInstall!BeforeFits,
            UnitInstall!ApplyFits, UnitInstall!UndoFits,
            UnitInstall!ReportIsTrue, UnitInstall!RolledBackIsTrue,
            UnitInstall!InterruptedIsSettled, UnitInstall!TouchesOnlyItsOwn,
            UnitInstall!All, UnitInstall!Contents, UnitInstall!Shadows,
            UnitInstall!Originals, UnitInstall!Modes, UnitInstall!Told,
            UnitInstall!Applying, UnitInstall!Undoing, UnitInstall!UndoOrder,
            UnitInstall!Quiet, UnitInstall!Stages, UnitInstall!WorkOf,
            UnitInstall!Gone, UnitInstall!AsBefore, UnitInstall!Retired,
            UnitInstall!Effective, UnitInstall!Ending, UnitInstall!Reread,
            UnitInstall!Stopped, UnitInstall!Installed, UnitInstall!RolledBack
<1> USE UnitsOfModes, UndoInOrder, Phases
<1>1. ASSUME NEW m \in UnitInstall!Modes, UnitInstall!Prepare(m)
      PROVE  UnitInstall!UndoFits'
  BY <1>1 DEF UnitInstall!Prepare, UnitInstall!Reversible,
              UnitInstall!Boundary, UnitInstall!Frozen, UnitInstall!Spent,
              UnitInstall!Goto, UnitInstall!host
<1>2. CASE UnitInstall!FirstWrite
  BY <1>2 DEF UnitInstall!FirstWrite, UnitInstall!Goto, UnitInstall!host
<1>3. CASE UnitInstall!Reload
  BY <1>3 DEF UnitInstall!Reload, UnitInstall!Reloaded, UnitInstall!Goto,
              UnitInstall!work
<1>4. CASE UnitInstall!EnableUnits
  BY <1>4 DEF UnitInstall!EnableUnits, UnitInstall!Goto, UnitInstall!work
<1>5. CASE UnitInstall!Verify
  BY <1>5 DEF UnitInstall!Verify, UnitInstall!Verified, UnitInstall!Goto,
              UnitInstall!host, UnitInstall!work
<1>6. CASE UnitInstall!WriteReceipt
  BY <1>6 DEF UnitInstall!WriteReceipt, UnitInstall!Goto, UnitInstall!work
<1>7. CASE UnitInstall!Commit
  BY <1>7 DEF UnitInstall!Commit, UnitInstall!Boundary, UnitInstall!Goto,
              UnitInstall!host, UnitInstall!work
<1>8. CASE UnitInstall!AllWritten
  BY <1>8 DEF UnitInstall!AllWritten, UnitInstall!Done, UnitInstall!Goto,
              UnitInstall!host, UnitInstall!work
<1>9. CASE UnitInstall!AllRetired
  BY <1>9 DEF UnitInstall!AllRetired, UnitInstall!Done, UnitInstall!Goto,
              UnitInstall!host, UnitInstall!work
<1>10. CASE UnitInstall!AllRestarted
  BY <1>10 DEF UnitInstall!AllRestarted, UnitInstall!Done, UnitInstall!Goto,
               UnitInstall!host, UnitInstall!work
<1>11. ASSUME NEW u \in UnitInstall!All, UnitInstall!WriteUnit(u)
      PROVE  UnitInstall!UndoFits'
  BY <1>11 DEF UnitInstall!WriteUnit, UnitInstall!Unit, UnitInstall!work
<1>12. ASSUME NEW u \in UnitInstall!All, UnitInstall!RetireShadow(u)
      PROVE  UnitInstall!UndoFits'
  BY <1>12 DEF UnitInstall!RetireShadow, UnitInstall!Unit, UnitInstall!work
<1>13. ASSUME NEW u \in UnitInstall!All, UnitInstall!RestartUnit(u)
      PROVE  UnitInstall!UndoFits'
  BY <1>13 DEF UnitInstall!RestartUnit, UnitInstall!Started, UnitInstall!Fault,
               UnitInstall!Spent, UnitInstall!work
<1>14. CASE UnitInstall!BodyFails
  BY <1>14 DEF UnitInstall!BodyFails, UnitInstall!Fault, UnitInstall!Spent,
               UnitInstall!Verified, UnitInstall!Boundary,
               UnitInstall!Compensate, UnitInstall!host
<1>15. CASE UnitInstall!NextPhase
  BY <1>15 DEF UnitInstall!NextPhase, UnitInstall!Goto, UnitInstall!host,
               UnitInstall!work
<1>16. CASE UnitInstall!UndoReceipt
  BY <1>16 DEF UnitInstall!UndoReceipt, UnitInstall!Goto, UnitInstall!Fault,
               UnitInstall!Spent
<1>17. CASE UnitInstall!UndoReload
  BY <1>17 DEF UnitInstall!UndoReload, UnitInstall!Goto, UnitInstall!Reloaded,
               UnitInstall!Fault, UnitInstall!Spent
<1>18. CASE UnitInstall!UndoProof
  BY <1>18 DEF UnitInstall!UndoProof, UnitInstall!Goto, UnitInstall!Boundary,
               UnitInstall!host
<1>19. ASSUME NEW u \in UnitInstall!All, UnitInstall!UndoFails(u)
      PROVE  UnitInstall!UndoFits'
  BY <1>19 DEF UnitInstall!UndoFails, UnitInstall!Undo, UnitInstall!Known,
               UnitInstall!Fault, UnitInstall!Spent
<1>20. ASSUME NEW u \in UnitInstall!All, UnitInstall!UndoUnit(u)
      PROVE  UnitInstall!UndoFits'
  BY <1>20 DEF UnitInstall!UndoUnit, UnitInstall!Undo
<1>21. ASSUME NEW u \in UnitInstall!All, UnitInstall!UndoShadow(u)
      PROVE  UnitInstall!UndoFits'
  BY <1>21 DEF UnitInstall!UndoShadow, UnitInstall!Undo
<1>22. ASSUME NEW u \in UnitInstall!All, UnitInstall!UndoEnable(u)
      PROVE  UnitInstall!UndoFits'
  BY <1>22 DEF UnitInstall!UndoEnable, UnitInstall!Undo, UnitInstall!Known
<1>23. ASSUME NEW u \in UnitInstall!All, UnitInstall!UndoActivity(u)
      PROVE  UnitInstall!UndoFits'
  BY <1>23 DEF UnitInstall!UndoActivity, UnitInstall!Undo, UnitInstall!Known,
               UnitInstall!Started
<1>24. CASE UnitInstall!Failed
  BY <1>24 DEF UnitInstall!Failed, UnitInstall!End, UnitInstall!Goto,
               UnitInstall!host
<1>25. CASE UnitInstall!Unlock
  BY <1>25 DEF UnitInstall!Unlock, UnitInstall!Goto, UnitInstall!End,
               UnitInstall!Fault, UnitInstall!Spent, UnitInstall!host
<1>26. CASE UnitInstall!UnlockUndoneFails
  BY <1>26 DEF UnitInstall!UnlockUndoneFails, UnitInstall!Fault,
               UnitInstall!Spent, UnitInstall!End, UnitInstall!Goto,
               UnitInstall!host
<1>27. CASE UnitInstall!ReportInstalled
  BY <1>27 DEF UnitInstall!ReportInstalled, UnitInstall!End, UnitInstall!Goto,
               UnitInstall!host
<1>28. CASE UnitInstall!ControlC
  BY <1>28 DEF UnitInstall!ControlC, UnitInstall!host
<1>29. CASE UnitInstall!Crash
  BY <1>29 DEF UnitInstall!Crash, UnitInstall!Spent, UnitInstall!Goto,
               UnitInstall!host
<1>30. ASSUME NEW u \in UnitInstall!All, UnitInstall!ServiceBounces(u)
      PROVE  UnitInstall!UndoFits'
  BY <1>30 DEF UnitInstall!ServiceBounces, UnitInstall!Fault,
               UnitInstall!Spent, UnitInstall!work
<1>31. CASE UNCHANGED UnitInstall!vars
  BY <1>31 DEF UnitInstall!vars, UnitInstall!host, UnitInstall!work
<1> QED
  BY <1>1, <1>2, <1>3, <1>4, <1>5, <1>6, <1>7, <1>8, <1>9, <1>10, <1>11, <1>12,
     <1>13, <1>14, <1>15, <1>16, <1>17, <1>18, <1>19, <1>20, <1>21, <1>22,
     <1>23, <1>24, <1>25, <1>26, <1>27, <1>28, <1>29, <1>30, <1>31
     DEF UnitInstall!Next, UnitInstall!Apply, UnitInstall!UndoNext

\* What is told, and what was touched.
LEMMA InstallReportsNext ==
  ASSUME UnitInstall!UnitAssumption, UnitInstall!IInv,
         [UnitInstall!Next]_(UnitInstall!vars)
  PROVE  UnitInstall!ReportIsTrue' /\ UnitInstall!RolledBackIsTrue'
         /\ UnitInstall!InterruptedIsSettled' /\ UnitInstall!TouchesOnlyItsOwn'
<1> USE DEF UnitInstall!UnitAssumption, UnitInstall!IInv, UnitInstall!TypeOK,
            UnitInstall!TodoFits, UnitInstall!BeforeFits,
            UnitInstall!ApplyFits, UnitInstall!UndoFits,
            UnitInstall!ReportIsTrue, UnitInstall!RolledBackIsTrue,
            UnitInstall!InterruptedIsSettled, UnitInstall!TouchesOnlyItsOwn,
            UnitInstall!All, UnitInstall!Contents, UnitInstall!Shadows,
            UnitInstall!Originals, UnitInstall!Modes, UnitInstall!Told,
            UnitInstall!Applying, UnitInstall!Undoing, UnitInstall!UndoOrder,
            UnitInstall!Quiet, UnitInstall!Stages, UnitInstall!WorkOf,
            UnitInstall!Gone, UnitInstall!AsBefore, UnitInstall!Retired,
            UnitInstall!Effective, UnitInstall!Ending, UnitInstall!Reread,
            UnitInstall!Stopped, UnitInstall!Installed, UnitInstall!RolledBack
<1> USE UnitsOfModes, UndoInOrder, Phases
<1>1. ASSUME NEW m \in UnitInstall!Modes, UnitInstall!Prepare(m)
      PROVE  UnitInstall!ReportIsTrue' /\ UnitInstall!RolledBackIsTrue'
             /\ UnitInstall!InterruptedIsSettled'
             /\ UnitInstall!TouchesOnlyItsOwn'
  BY <1>1 DEF UnitInstall!Prepare, UnitInstall!Reversible,
              UnitInstall!Boundary, UnitInstall!Frozen, UnitInstall!Spent,
              UnitInstall!Goto, UnitInstall!host
<1>2. CASE UnitInstall!FirstWrite
  BY <1>2 DEF UnitInstall!FirstWrite, UnitInstall!Goto, UnitInstall!host
<1>3. CASE UnitInstall!Reload
  BY <1>3 DEF UnitInstall!Reload, UnitInstall!Reloaded, UnitInstall!Goto,
              UnitInstall!work
<1>4. CASE UnitInstall!EnableUnits
  BY <1>4 DEF UnitInstall!EnableUnits, UnitInstall!Goto, UnitInstall!work
<1>5. CASE UnitInstall!Verify
  BY <1>5 DEF UnitInstall!Verify, UnitInstall!Verified, UnitInstall!Goto,
              UnitInstall!host, UnitInstall!work
<1>6. CASE UnitInstall!WriteReceipt
  BY <1>6 DEF UnitInstall!WriteReceipt, UnitInstall!Goto, UnitInstall!work
<1>7. CASE UnitInstall!Commit
  BY <1>7 DEF UnitInstall!Commit, UnitInstall!Boundary, UnitInstall!Goto,
              UnitInstall!host, UnitInstall!work
<1>8. CASE UnitInstall!AllWritten
  BY <1>8 DEF UnitInstall!AllWritten, UnitInstall!Done, UnitInstall!Goto,
              UnitInstall!host, UnitInstall!work
<1>9. CASE UnitInstall!AllRetired
  BY <1>9 DEF UnitInstall!AllRetired, UnitInstall!Done, UnitInstall!Goto,
              UnitInstall!host, UnitInstall!work
<1>10. CASE UnitInstall!AllRestarted
  BY <1>10 DEF UnitInstall!AllRestarted, UnitInstall!Done, UnitInstall!Goto,
               UnitInstall!host, UnitInstall!work
<1>11. ASSUME NEW u \in UnitInstall!All, UnitInstall!WriteUnit(u)
      PROVE  UnitInstall!ReportIsTrue' /\ UnitInstall!RolledBackIsTrue'
             /\ UnitInstall!InterruptedIsSettled'
             /\ UnitInstall!TouchesOnlyItsOwn'
  BY <1>11 DEF UnitInstall!WriteUnit, UnitInstall!Unit, UnitInstall!work
<1>12. ASSUME NEW u \in UnitInstall!All, UnitInstall!RetireShadow(u)
      PROVE  UnitInstall!ReportIsTrue' /\ UnitInstall!RolledBackIsTrue'
             /\ UnitInstall!InterruptedIsSettled'
             /\ UnitInstall!TouchesOnlyItsOwn'
  BY <1>12 DEF UnitInstall!RetireShadow, UnitInstall!Unit, UnitInstall!work
<1>13. ASSUME NEW u \in UnitInstall!All, UnitInstall!RestartUnit(u)
      PROVE  UnitInstall!ReportIsTrue' /\ UnitInstall!RolledBackIsTrue'
             /\ UnitInstall!InterruptedIsSettled'
             /\ UnitInstall!TouchesOnlyItsOwn'
  BY <1>13 DEF UnitInstall!RestartUnit, UnitInstall!Started, UnitInstall!Fault,
               UnitInstall!Spent, UnitInstall!work
<1>14. CASE UnitInstall!BodyFails
  BY <1>14 DEF UnitInstall!BodyFails, UnitInstall!Fault, UnitInstall!Spent,
               UnitInstall!Verified, UnitInstall!Boundary,
               UnitInstall!Compensate, UnitInstall!host
<1>15. CASE UnitInstall!NextPhase
  BY <1>15 DEF UnitInstall!NextPhase, UnitInstall!Goto, UnitInstall!host,
               UnitInstall!work
<1>16. CASE UnitInstall!UndoReceipt
  BY <1>16 DEF UnitInstall!UndoReceipt, UnitInstall!Goto, UnitInstall!Fault,
               UnitInstall!Spent
<1>17. CASE UnitInstall!UndoReload
  BY <1>17 DEF UnitInstall!UndoReload, UnitInstall!Goto, UnitInstall!Reloaded,
               UnitInstall!Fault, UnitInstall!Spent
<1>18. CASE UnitInstall!UndoProof
  BY <1>18 DEF UnitInstall!UndoProof, UnitInstall!Goto, UnitInstall!Boundary,
               UnitInstall!host
<1>19. ASSUME NEW u \in UnitInstall!All, UnitInstall!UndoFails(u)
      PROVE  UnitInstall!ReportIsTrue' /\ UnitInstall!RolledBackIsTrue'
             /\ UnitInstall!InterruptedIsSettled'
             /\ UnitInstall!TouchesOnlyItsOwn'
  BY <1>19 DEF UnitInstall!UndoFails, UnitInstall!Undo, UnitInstall!Known,
               UnitInstall!Fault, UnitInstall!Spent
<1>20. ASSUME NEW u \in UnitInstall!All, UnitInstall!UndoUnit(u)
      PROVE  UnitInstall!ReportIsTrue' /\ UnitInstall!RolledBackIsTrue'
             /\ UnitInstall!InterruptedIsSettled'
             /\ UnitInstall!TouchesOnlyItsOwn'
  BY <1>20 DEF UnitInstall!UndoUnit, UnitInstall!Undo
<1>21. ASSUME NEW u \in UnitInstall!All, UnitInstall!UndoShadow(u)
      PROVE  UnitInstall!ReportIsTrue' /\ UnitInstall!RolledBackIsTrue'
             /\ UnitInstall!InterruptedIsSettled'
             /\ UnitInstall!TouchesOnlyItsOwn'
  BY <1>21 DEF UnitInstall!UndoShadow, UnitInstall!Undo
<1>22. ASSUME NEW u \in UnitInstall!All, UnitInstall!UndoEnable(u)
      PROVE  UnitInstall!ReportIsTrue' /\ UnitInstall!RolledBackIsTrue'
             /\ UnitInstall!InterruptedIsSettled'
             /\ UnitInstall!TouchesOnlyItsOwn'
  BY <1>22 DEF UnitInstall!UndoEnable, UnitInstall!Undo, UnitInstall!Known
<1>23. ASSUME NEW u \in UnitInstall!All, UnitInstall!UndoActivity(u)
      PROVE  UnitInstall!ReportIsTrue' /\ UnitInstall!RolledBackIsTrue'
             /\ UnitInstall!InterruptedIsSettled'
             /\ UnitInstall!TouchesOnlyItsOwn'
  BY <1>23 DEF UnitInstall!UndoActivity, UnitInstall!Undo, UnitInstall!Known,
               UnitInstall!Started
<1>24. CASE UnitInstall!Failed
  BY <1>24 DEF UnitInstall!Failed, UnitInstall!End, UnitInstall!Goto,
               UnitInstall!host
<1>25. CASE UnitInstall!Unlock
  BY <1>25 DEF UnitInstall!Unlock, UnitInstall!Goto, UnitInstall!End,
               UnitInstall!Fault, UnitInstall!Spent, UnitInstall!host
<1>26. CASE UnitInstall!UnlockUndoneFails
  BY <1>26 DEF UnitInstall!UnlockUndoneFails, UnitInstall!Fault,
               UnitInstall!Spent, UnitInstall!End, UnitInstall!Goto,
               UnitInstall!host
<1>27. CASE UnitInstall!ReportInstalled
  BY <1>27 DEF UnitInstall!ReportInstalled, UnitInstall!End, UnitInstall!Goto,
               UnitInstall!host
<1>28. CASE UnitInstall!ControlC
  BY <1>28 DEF UnitInstall!ControlC, UnitInstall!host
<1>29. CASE UnitInstall!Crash
  BY <1>29 DEF UnitInstall!Crash, UnitInstall!Spent, UnitInstall!Goto,
               UnitInstall!host
<1>30. ASSUME NEW u \in UnitInstall!All, UnitInstall!ServiceBounces(u)
      PROVE  UnitInstall!ReportIsTrue' /\ UnitInstall!RolledBackIsTrue'
             /\ UnitInstall!InterruptedIsSettled'
             /\ UnitInstall!TouchesOnlyItsOwn'
  BY <1>30 DEF UnitInstall!ServiceBounces, UnitInstall!Fault,
               UnitInstall!Spent, UnitInstall!work
<1>31. CASE UNCHANGED UnitInstall!vars
  BY <1>31 DEF UnitInstall!vars, UnitInstall!host, UnitInstall!work
<1> QED
  BY <1>1, <1>2, <1>3, <1>4, <1>5, <1>6, <1>7, <1>8, <1>9, <1>10, <1>11, <1>12,
     <1>13, <1>14, <1>15, <1>16, <1>17, <1>18, <1>19, <1>20, <1>21, <1>22,
     <1>23, <1>24, <1>25, <1>26, <1>27, <1>28, <1>29, <1>30, <1>31
     DEF UnitInstall!Next, UnitInstall!Apply, UnitInstall!UndoNext


\* mcp_systemd_install_transaction.py: the invariant of an installation holds
\* for any units, declarations, failing steps, interrupts and kills.
THEOREM InstallInvariance ==
  ASSUME UnitInstall!UnitAssumption
  PROVE  UnitInstall!Spec => []UnitInstall!IInv
<1>1. UnitInstall!Init => UnitInstall!IInv
  BY InstallInit
<1>2. UnitInstall!IInv /\ [UnitInstall!Next]_(UnitInstall!vars)
      => UnitInstall!IInv'
  BY InstallTypeNext, InstallTodoNext, InstallApplyNext, InstallUndoNext,
     InstallReportsNext DEF UnitInstall!IInv
<1> QED
  BY <1>1, <1>2, PTL DEF UnitInstall!Spec

\* What an installation reports of the host is so: "installed" of a complete
\* installation, "rolled back" of a host that is as it was.
THEOREM InstallationIsTold ==
  ASSUME UnitInstall!UnitAssumption
  PROVE  UnitInstall!Spec => []UnitInstall!InstallSound
<1>1. UnitInstall!IInv => UnitInstall!InstallSound
  BY DEF UnitInstall!IInv, UnitInstall!InstallSound
<1> QED
  BY <1>1, InstallInvariance, PTL

-----------------------------------------------------------------------------
(***************************************************************************)
(* The move of a unit.                                                     *)
(***************************************************************************)
\* The three moves of a file.
LEMMA Moves ==
  /\ DOMAIN UnitLayout!From = {"move", "moveBack", "setAside"}
  /\ UnitLayout!From["move"] = "etc" /\ UnitLayout!To["move"] = "backup"
  /\ UnitLayout!After["move"] = "reload"
  /\ UnitLayout!From["moveBack"] = "backup"
  /\ UnitLayout!To["moveBack"] = "etc"
  /\ UnitLayout!After["moveBack"] = "ownCanonical"
  /\ UnitLayout!From["setAside"] = "usr"
  /\ UnitLayout!To["setAside"] = "rollback"
  /\ UnitLayout!After["setAside"] = "undoReload"
  BY DEF UnitLayout!From, UnitLayout!To, UnitLayout!After

\* One more fault, crash or edit is within its bound.
LEMMA LayoutCounts ==
  ASSUME UnitLayout!LayoutAssumption, counts \in UnitLayout!Counts
  PROVE  /\ UnitLayout!Fault => counts' \in UnitLayout!Counts
         /\ UnitLayout!Crash => counts' \in UnitLayout!Counts
         /\ counts.edits < LayoutEdits /\ UnitLayout!Counted("edits")
            => counts' \in UnitLayout!Counts
<1>1. /\ counts.faults < LayoutFaults => counts.faults + 1 \in 0..LayoutFaults
      /\ counts.crashes < LayoutCrashes
         => counts.crashes + 1 \in 0..LayoutCrashes
      /\ counts.edits < LayoutEdits => counts.edits + 1 \in 0..LayoutEdits
  BY DEF UnitLayout!LayoutAssumption, UnitLayout!Counts
<1> QED
  BY <1>1 DEF UnitLayout!Fault, UnitLayout!Crash, UnitLayout!Counted,
              UnitLayout!Counts

\* What a command prepares and notes has its form.
LEMMA LayoutForms ==
  ASSUME UnitLayout!LayoutAssumption, UnitLayout!TypeOK
  PROVE  /\ UnitLayout!NotPrepared \in UnitLayout!Prepared
         /\ UnitLayout!NoJournal \in UnitLayout!Journals
         /\ UnitLayout!Tried \in UnitLayout!Journals
         /\ UnitLayout!Prepare
            => layoutBefore' \in UnitLayout!Prepared
              /\ layoutJournal' \in UnitLayout!Journals
         /\ UnitLayout!Create \/ UnitLayout!Created \/ UnitLayout!MoveCheck
            \/ UnitLayout!MoveConfirm => layoutJournal' \in UnitLayout!Journals
<1>1. UnitLayout!NotPrepared \in UnitLayout!Prepared
      /\ UnitLayout!NoJournal \in UnitLayout!Journals
  BY DEF UnitLayout!NotPrepared, UnitLayout!NoJournal, UnitLayout!Prepared,
         UnitLayout!Journals, UnitLayout!Contents
<1>2. UnitLayout!Tried \in UnitLayout!Journals
  BY DEF UnitLayout!TypeOK, UnitLayout!Tried, UnitLayout!Journals
<1>3. ASSUME UnitLayout!Prepare
      PROVE  layoutBefore' \in UnitLayout!Prepared
             /\ layoutJournal' \in UnitLayout!Journals
  <2>1. [etc |-> layoutDisk.etc, usr |-> layoutDisk.usr,
          enabled |-> UnitLayout!Enabled,
         loaded |-> layoutLoaded, needed |-> UnitLayout!NeedsFinalization]
           \in UnitLayout!Prepared
    BY DEF UnitLayout!TypeOK, UnitLayout!Prepared, UnitLayout!Places,
           UnitLayout!Enabled, UnitLayout!NeedsFinalization
  <2> QED
    BY <1>1, <1>3, <2>1 DEF UnitLayout!Prepare, UnitLayout!Report
<1>4. ASSUME UnitLayout!Create \/ UnitLayout!Created \/ UnitLayout!MoveCheck
             \/ UnitLayout!MoveConfirm
      PROVE  layoutJournal' \in UnitLayout!Journals
  <2>1. CASE UnitLayout!Create
    BY <2>1 DEF UnitLayout!TypeOK, UnitLayout!Create, UnitLayout!Journals
  <2>2. CASE UnitLayout!Created
    BY <2>2 DEF UnitLayout!TypeOK, UnitLayout!Created, UnitLayout!Journals
  <2>3. CASE UnitLayout!MoveCheck
    BY <2>3 DEF UnitLayout!TypeOK, UnitLayout!MoveCheck, UnitLayout!Journals
  <2>4. CASE UnitLayout!MoveConfirm
    BY <2>4 DEF UnitLayout!TypeOK, UnitLayout!MoveConfirm, UnitLayout!Journals
  <2> QED
    BY <1>4, <2>1, <2>2, <2>3, <2>4
<1> QED
  BY <1>1, <1>2, <1>3, <1>4

\* The unit is in /etc, and nothing was begun.
LEMMA LayoutInit == ASSUME UnitLayout!LayoutAssumption PROVE UnitLayout!Init
                    => UnitLayout!IInv
<1> SUFFICES ASSUME UnitLayout!Init
             PROVE  UnitLayout!IInv
  OBVIOUS
<1> USE DEF UnitLayout!LayoutAssumption, UnitLayout!Init
<1> USE LayoutForms
<1>1. /\ layoutDisk = [etc |-> "old", backup |-> None, usr |-> layoutDisk.usr,
                       rollback |-> None]
      /\ layoutDisk.etc = "old" /\ layoutDisk.backup = None
      /\ layoutDisk.rollback = None
      /\ layoutDisk.usr \in {None, "new"}
      /\ DOMAIN layoutDisk = UnitLayout!Places
  <2>1. PICK u \in {None, "new"} :
          layoutDisk
            = [etc |-> "old", backup |-> None, usr |-> u, rollback |-> None]
    OBVIOUS
  <2> QED
    BY <2>1 DEF UnitLayout!Places
<1>2. UnitLayout!TypeOK
  <2>1. layoutDisk \in [UnitLayout!Places -> UnitLayout!Contents]
    BY <1>1 DEF UnitLayout!Places, UnitLayout!Contents
  <2>2. counts \in UnitLayout!Counts
    BY DEF UnitLayout!Counts
  <2>3. layoutBefore \in UnitLayout!Prepared
    BY DEF UnitLayout!NotPrepared, UnitLayout!Prepared, UnitLayout!Contents
  <2>4. layoutJournal \in UnitLayout!Journals
    BY DEF UnitLayout!NoJournal, UnitLayout!Journals
  <2> QED
    BY <2>1, <2>2, <2>3, <2>4 DEF UnitLayout!TypeOK, UnitLayout!Moving
<1>3. UnitLayout!HostFits /\ UnitLayout!UnitNeverLost
  BY <1>1 DEF UnitLayout!HostFits, UnitLayout!UnitNeverLost,
              UnitLayout!Resolved, UnitLayout!Undoing
<1>4. UnitLayout!CommandFits
  BY DEF UnitLayout!CommandFits, UnitLayout!NotPrepared, UnitLayout!Undoing
<1>5. UnitLayout!DiskFits /\ UnitLayout!NothingDestroyed
  BY <1>1 DEF UnitLayout!DiskFits, UnitLayout!NothingDestroyed,
              UnitLayout!Places
<1>6. UnitLayout!CalmFits /\ UnitLayout!NoFalseAlarm
  BY DEF UnitLayout!CalmFits, UnitLayout!NoFalseAlarm, UnitLayout!Undoing,
         UnitLayout!Applying
<1>7. UnitLayout!ReportsTrue
  BY DEF UnitLayout!ReportsTrue
<1>8. UnitLayout!Resumable
  BY <1>1 DEF UnitLayout!Resumable, UnitLayout!MigratableLayout,
              UnitLayout!NoStaleIsolation, UnitLayout!Masked,
              UnitLayout!Resolved
<1> QED
  BY <1>2, <1>3, <1>4, <1>5, <1>6, <1>7, <1>8 DEF UnitLayout!IInv

\* Every step keeps the forms of files, journal and labels.
LEMMA LayoutTypeNext ==
  ASSUME UnitLayout!LayoutAssumption, UnitLayout!IInv,
         [UnitLayout!Next]_(UnitLayout!vars)
  PROVE  UnitLayout!TypeOK'
<1> USE DEF UnitLayout!LayoutAssumption, UnitLayout!IInv, UnitLayout!TypeOK,
            UnitLayout!HostFits, UnitLayout!CommandFits, UnitLayout!DiskFits,
            UnitLayout!CalmFits, UnitLayout!UnitNeverLost,
            UnitLayout!NothingDestroyed, UnitLayout!ReportsTrue,
            UnitLayout!Resumable, UnitLayout!NoFalseAlarm, UnitLayout!Places,
            UnitLayout!Contents, UnitLayout!Applying, UnitLayout!Undoing,
            UnitLayout!Moving, UnitLayout!Resolved, UnitLayout!Masked,
            UnitLayout!MigratableLayout, UnitLayout!NoStaleIsolation
<1> USE Moves, LayoutCounts, LayoutForms
<1>1. CASE UnitLayout!Begin
  BY <1>1 DEF UnitLayout!Begin, UnitLayout!MaskSettled, UnitLayout!Goto,
              UnitLayout!host
<1>2. CASE UnitLayout!Unmask
  BY <1>2 DEF UnitLayout!Unmask, UnitLayout!Goto, UnitLayout!Report
<1>3. CASE UnitLayout!ReloadUnmasked
  BY <1>3 DEF UnitLayout!ReloadUnmasked, UnitLayout!Report, UnitLayout!Goto
<1>4. CASE UnitLayout!Prepare
  BY <1>4 DEF UnitLayout!Prepare, UnitLayout!Goto, UnitLayout!Report
<1>5. CASE UnitLayout!Create
  BY <1>5 DEF UnitLayout!Create, UnitLayout!Goto
<1>6. CASE UnitLayout!Created
  BY <1>6 DEF UnitLayout!Created, UnitLayout!Goto, UnitLayout!host
<1>7. CASE UnitLayout!MoveCheck
  BY <1>7 DEF UnitLayout!MoveCheck, UnitLayout!Original, UnitLayout!host
<1>8. CASE UnitLayout!Rename
  BY <1>8 DEF UnitLayout!Rename, UnitLayout!Leaves
<1>9. CASE UnitLayout!MoveConfirm
  BY <1>9 DEF UnitLayout!MoveConfirm, UnitLayout!Original, UnitLayout!Goto,
              UnitLayout!host
<1>10. CASE UnitLayout!MoveRestore
  BY <1>10 DEF UnitLayout!MoveRestore, UnitLayout!Original, UnitLayout!Leaves
<1>11. CASE UnitLayout!ReloadMoved
  BY <1>11 DEF UnitLayout!ReloadMoved, UnitLayout!Reloads, UnitLayout!Goto
<1>12. CASE UnitLayout!ReenableMoved
  BY <1>12 DEF UnitLayout!ReenableMoved, UnitLayout!Reenables, UnitLayout!Goto
<1>13. CASE UnitLayout!Verify
  BY <1>13 DEF UnitLayout!Verify, UnitLayout!Migrated, UnitLayout!LinkIs,
               UnitLayout!Report, UnitLayout!Goto, UnitLayout!host
<1>14. CASE UnitLayout!Fails
  BY <1>14 DEF UnitLayout!Fails, UnitLayout!Refused, UnitLayout!Original,
               UnitLayout!Migrated, UnitLayout!LinkIs, UnitLayout!Unowned,
               UnitLayout!RolledBack, UnitLayout!Effect, UnitLayout!Leaves,
               UnitLayout!Compensates, UnitLayout!WasMoved, UnitLayout!Report,
               UnitLayout!Goto
<1>15. CASE UnitLayout!OwnCanonical
  BY <1>15 DEF UnitLayout!OwnCanonical, UnitLayout!Unowned, UnitLayout!Goto,
               UnitLayout!host
<1>16. CASE UnitLayout!ReloadBack
  BY <1>16 DEF UnitLayout!ReloadBack, UnitLayout!Reloads, UnitLayout!Goto
<1>17. CASE UnitLayout!ReenableBack
  BY <1>17 DEF UnitLayout!ReenableBack, UnitLayout!Reenables, UnitLayout!Goto
<1>18. CASE UnitLayout!VerifyRollback
  BY <1>18 DEF UnitLayout!VerifyRollback, UnitLayout!RolledBack,
               UnitLayout!LinkIs, UnitLayout!Report, UnitLayout!Goto,
               UnitLayout!host
<1>19. CASE UnitLayout!UndoFails
  BY <1>19 DEF UnitLayout!UndoFails, UnitLayout!Refused, UnitLayout!Original,
               UnitLayout!Migrated, UnitLayout!LinkIs, UnitLayout!Unowned,
               UnitLayout!RolledBack, UnitLayout!Effect, UnitLayout!Leaves,
               UnitLayout!Report, UnitLayout!Goto
<1>20. CASE UnitLayout!Drift
  BY <1>20 DEF UnitLayout!Drift, UnitLayout!command
<1>21. ASSUME NEW f \in UnitLayout!Places, UnitLayout!Edit(f)
      PROVE  UnitLayout!TypeOK'
  BY <1>21 DEF UnitLayout!Edit, UnitLayout!command
<1>22. CASE UnitLayout!DaemonReload
  BY <1>22 DEF UnitLayout!DaemonReload, UnitLayout!command
<1>23. CASE UnitLayout!Kill
  BY <1>23 DEF UnitLayout!Kill, UnitLayout!Ends, UnitLayout!Goto,
               UnitLayout!host
<1>24. CASE UnitLayout!Reboot
  BY <1>24 DEF UnitLayout!Reboot, UnitLayout!Ends, UnitLayout!Goto
<1>25. CASE UNCHANGED UnitLayout!vars
  BY <1>25 DEF UnitLayout!vars, UnitLayout!host, UnitLayout!command
<1> QED
  BY <1>1, <1>2, <1>3, <1>4, <1>5, <1>6, <1>7, <1>8, <1>9, <1>10, <1>11, <1>12,
     <1>13, <1>14, <1>15, <1>16, <1>17, <1>18, <1>19, <1>20, <1>21, <1>22,
     <1>23, <1>24, <1>25
     DEF UnitLayout!Next, UnitLayout!Apply, UnitLayout!Compensate

\* A main unit is always found.
LEMMA LayoutHostNext ==
  ASSUME UnitLayout!LayoutAssumption, UnitLayout!IInv,
         [UnitLayout!Next]_(UnitLayout!vars)
  PROVE  UnitLayout!HostFits' /\ UnitLayout!UnitNeverLost'
<1> USE DEF UnitLayout!LayoutAssumption, UnitLayout!IInv, UnitLayout!TypeOK,
            UnitLayout!HostFits, UnitLayout!CommandFits, UnitLayout!DiskFits,
            UnitLayout!CalmFits, UnitLayout!UnitNeverLost,
            UnitLayout!NothingDestroyed, UnitLayout!ReportsTrue,
            UnitLayout!Resumable, UnitLayout!NoFalseAlarm, UnitLayout!Places,
            UnitLayout!Contents, UnitLayout!Applying, UnitLayout!Undoing,
            UnitLayout!Moving, UnitLayout!Prepared, UnitLayout!Journals,
            UnitLayout!Counts, UnitLayout!Resolved, UnitLayout!Masked,
            UnitLayout!MigratableLayout, UnitLayout!NoStaleIsolation
<1> USE Moves
<1>1. CASE UnitLayout!Begin
  BY <1>1 DEF UnitLayout!Begin, UnitLayout!MaskSettled, UnitLayout!Goto,
              UnitLayout!host
<1>2. CASE UnitLayout!Unmask
  BY <1>2 DEF UnitLayout!Unmask, UnitLayout!Goto, UnitLayout!Fault,
              UnitLayout!Counted, UnitLayout!Report, UnitLayout!NotPrepared,
              UnitLayout!NoJournal
<1>3. CASE UnitLayout!ReloadUnmasked
  BY <1>3 DEF UnitLayout!ReloadUnmasked, UnitLayout!Report, UnitLayout!Goto,
              UnitLayout!NotPrepared, UnitLayout!NoJournal, UnitLayout!Fault,
              UnitLayout!Counted
<1>4. CASE UnitLayout!Prepare
  BY <1>4 DEF UnitLayout!Prepare, UnitLayout!Enabled,
              UnitLayout!NeedsFinalization, UnitLayout!Goto,
              UnitLayout!NoJournal, UnitLayout!Report, UnitLayout!NotPrepared
<1>5. CASE UnitLayout!Create
  BY <1>5 DEF UnitLayout!Create, UnitLayout!Goto
<1>6. CASE UnitLayout!Created
  BY <1>6 DEF UnitLayout!Created, UnitLayout!Goto, UnitLayout!host
<1>7. CASE UnitLayout!MoveCheck
  BY <1>7 DEF UnitLayout!MoveCheck, UnitLayout!Original, UnitLayout!host
<1>8. CASE UnitLayout!Rename
  BY <1>8 DEF UnitLayout!Rename, UnitLayout!Leaves
<1>9. CASE UnitLayout!MoveConfirm
  BY <1>9 DEF UnitLayout!MoveConfirm, UnitLayout!Original, UnitLayout!Goto,
              UnitLayout!host
<1>10. CASE UnitLayout!MoveRestore
  BY <1>10 DEF UnitLayout!MoveRestore, UnitLayout!Original, UnitLayout!Leaves
<1>11. CASE UnitLayout!ReloadMoved
  BY <1>11 DEF UnitLayout!ReloadMoved, UnitLayout!Reloads, UnitLayout!Goto
<1>12. CASE UnitLayout!ReenableMoved
  BY <1>12 DEF UnitLayout!ReenableMoved, UnitLayout!Reenables, UnitLayout!Goto
<1>13. CASE UnitLayout!Verify
  BY <1>13 DEF UnitLayout!Verify, UnitLayout!Migrated, UnitLayout!LinkIs,
               UnitLayout!Report, UnitLayout!Goto, UnitLayout!NotPrepared,
               UnitLayout!NoJournal, UnitLayout!host
<1>14. CASE UnitLayout!Fails
  BY <1>14 DEF UnitLayout!Fails, UnitLayout!Refused, UnitLayout!Original,
               UnitLayout!Migrated, UnitLayout!LinkIs, UnitLayout!Unowned,
               UnitLayout!RolledBack, UnitLayout!Fault, UnitLayout!Counted,
               UnitLayout!Effect, UnitLayout!Leaves, UnitLayout!Compensates,
               UnitLayout!WasMoved, UnitLayout!Report, UnitLayout!Goto,
               UnitLayout!NotPrepared, UnitLayout!NoJournal, UnitLayout!Tried
<1>15. CASE UnitLayout!OwnCanonical
  BY <1>15 DEF UnitLayout!OwnCanonical, UnitLayout!Unowned, UnitLayout!Goto,
               UnitLayout!host
<1>16. CASE UnitLayout!ReloadBack
  BY <1>16 DEF UnitLayout!ReloadBack, UnitLayout!Reloads, UnitLayout!Goto
<1>17. CASE UnitLayout!ReenableBack
  BY <1>17 DEF UnitLayout!ReenableBack, UnitLayout!Reenables, UnitLayout!Goto
<1>18. CASE UnitLayout!VerifyRollback
  BY <1>18 DEF UnitLayout!VerifyRollback, UnitLayout!RolledBack,
               UnitLayout!LinkIs, UnitLayout!Report, UnitLayout!Goto,
               UnitLayout!NotPrepared, UnitLayout!NoJournal, UnitLayout!host
<1>19. CASE UnitLayout!UndoFails
  BY <1>19 DEF UnitLayout!UndoFails, UnitLayout!Refused, UnitLayout!Original,
               UnitLayout!Migrated, UnitLayout!LinkIs, UnitLayout!Unowned,
               UnitLayout!RolledBack, UnitLayout!Fault, UnitLayout!Counted,
               UnitLayout!Effect, UnitLayout!Leaves, UnitLayout!Report,
               UnitLayout!Goto, UnitLayout!NotPrepared, UnitLayout!NoJournal
<1>20. CASE UnitLayout!Drift
  BY <1>20 DEF UnitLayout!Drift, UnitLayout!Fault, UnitLayout!Counted,
               UnitLayout!command
<1>21. ASSUME NEW f \in UnitLayout!Places, UnitLayout!Edit(f)
      PROVE  UnitLayout!HostFits' /\ UnitLayout!UnitNeverLost'
  BY <1>21 DEF UnitLayout!Edit, UnitLayout!Counted, UnitLayout!command
<1>22. CASE UnitLayout!DaemonReload
  BY <1>22 DEF UnitLayout!DaemonReload, UnitLayout!command
<1>23. CASE UnitLayout!Kill
  BY <1>23 DEF UnitLayout!Kill, UnitLayout!Crash, UnitLayout!Counted,
               UnitLayout!Ends, UnitLayout!Goto, UnitLayout!NotPrepared,
               UnitLayout!NoJournal, UnitLayout!host
<1>24. CASE UnitLayout!Reboot
  BY <1>24 DEF UnitLayout!Reboot, UnitLayout!Crash, UnitLayout!Counted,
               UnitLayout!Ends, UnitLayout!Goto, UnitLayout!NotPrepared,
               UnitLayout!NoJournal
<1>25. CASE UNCHANGED UnitLayout!vars
  BY <1>25 DEF UnitLayout!vars, UnitLayout!host, UnitLayout!command
<1> QED
  BY <1>1, <1>2, <1>3, <1>4, <1>5, <1>6, <1>7, <1>8, <1>9, <1>10, <1>11, <1>12,
     <1>13, <1>14, <1>15, <1>16, <1>17, <1>18, <1>19, <1>20, <1>21, <1>22,
     <1>23, <1>24, <1>25
     DEF UnitLayout!Next, UnitLayout!Apply, UnitLayout!Compensate

\* What the command has prepared and done.
LEMMA LayoutCommandNext ==
  ASSUME UnitLayout!LayoutAssumption, UnitLayout!IInv,
         [UnitLayout!Next]_(UnitLayout!vars)
  PROVE  UnitLayout!CommandFits'
<1> USE DEF UnitLayout!LayoutAssumption, UnitLayout!IInv, UnitLayout!TypeOK,
            UnitLayout!HostFits, UnitLayout!CommandFits, UnitLayout!DiskFits,
            UnitLayout!CalmFits, UnitLayout!UnitNeverLost,
            UnitLayout!NothingDestroyed, UnitLayout!ReportsTrue,
            UnitLayout!Resumable, UnitLayout!NoFalseAlarm, UnitLayout!Places,
            UnitLayout!Contents, UnitLayout!Applying, UnitLayout!Undoing,
            UnitLayout!Moving, UnitLayout!Prepared, UnitLayout!Journals,
            UnitLayout!Counts, UnitLayout!Resolved, UnitLayout!Masked,
            UnitLayout!MigratableLayout, UnitLayout!NoStaleIsolation
<1> USE Moves
<1>1. CASE UnitLayout!Begin
  BY <1>1 DEF UnitLayout!Begin, UnitLayout!MaskSettled, UnitLayout!Goto,
              UnitLayout!host
<1>2. CASE UnitLayout!Unmask
  BY <1>2 DEF UnitLayout!Unmask, UnitLayout!Goto, UnitLayout!Fault,
              UnitLayout!Counted, UnitLayout!Report, UnitLayout!NotPrepared,
              UnitLayout!NoJournal
<1>3. CASE UnitLayout!ReloadUnmasked
  BY <1>3 DEF UnitLayout!ReloadUnmasked, UnitLayout!Report, UnitLayout!Goto,
              UnitLayout!NotPrepared, UnitLayout!NoJournal, UnitLayout!Fault,
              UnitLayout!Counted
<1>4. CASE UnitLayout!Prepare
  BY <1>4 DEF UnitLayout!Prepare, UnitLayout!Enabled,
              UnitLayout!NeedsFinalization, UnitLayout!Goto,
              UnitLayout!NoJournal, UnitLayout!Report, UnitLayout!NotPrepared
<1>5. CASE UnitLayout!Create
  BY <1>5 DEF UnitLayout!Create, UnitLayout!Goto
<1>6. CASE UnitLayout!Created
  BY <1>6 DEF UnitLayout!Created, UnitLayout!Goto, UnitLayout!host
<1>7. CASE UnitLayout!MoveCheck
  BY <1>7 DEF UnitLayout!MoveCheck, UnitLayout!Original, UnitLayout!host
<1>8. CASE UnitLayout!Rename
  BY <1>8 DEF UnitLayout!Rename, UnitLayout!Leaves
<1>9. CASE UnitLayout!MoveConfirm
  BY <1>9 DEF UnitLayout!MoveConfirm, UnitLayout!Original, UnitLayout!Goto,
              UnitLayout!host
<1>10. CASE UnitLayout!MoveRestore
  BY <1>10 DEF UnitLayout!MoveRestore, UnitLayout!Original, UnitLayout!Leaves
<1>11. CASE UnitLayout!ReloadMoved
  BY <1>11 DEF UnitLayout!ReloadMoved, UnitLayout!Reloads, UnitLayout!Goto
<1>12. CASE UnitLayout!ReenableMoved
  BY <1>12 DEF UnitLayout!ReenableMoved, UnitLayout!Reenables, UnitLayout!Goto
<1>13. CASE UnitLayout!Verify
  BY <1>13 DEF UnitLayout!Verify, UnitLayout!Migrated, UnitLayout!LinkIs,
               UnitLayout!Report, UnitLayout!Goto, UnitLayout!NotPrepared,
               UnitLayout!NoJournal, UnitLayout!host
<1>14. CASE UnitLayout!Fails
  BY <1>14 DEF UnitLayout!Fails, UnitLayout!Refused, UnitLayout!Original,
               UnitLayout!Migrated, UnitLayout!LinkIs, UnitLayout!Unowned,
               UnitLayout!RolledBack, UnitLayout!Fault, UnitLayout!Counted,
               UnitLayout!Effect, UnitLayout!Leaves, UnitLayout!Compensates,
               UnitLayout!WasMoved, UnitLayout!Report, UnitLayout!Goto,
               UnitLayout!NotPrepared, UnitLayout!NoJournal, UnitLayout!Tried
<1>15. CASE UnitLayout!OwnCanonical
  BY <1>15 DEF UnitLayout!OwnCanonical, UnitLayout!Unowned, UnitLayout!Goto,
               UnitLayout!host
<1>16. CASE UnitLayout!ReloadBack
  BY <1>16 DEF UnitLayout!ReloadBack, UnitLayout!Reloads, UnitLayout!Goto
<1>17. CASE UnitLayout!ReenableBack
  BY <1>17 DEF UnitLayout!ReenableBack, UnitLayout!Reenables, UnitLayout!Goto
<1>18. CASE UnitLayout!VerifyRollback
  BY <1>18 DEF UnitLayout!VerifyRollback, UnitLayout!RolledBack,
               UnitLayout!LinkIs, UnitLayout!Report, UnitLayout!Goto,
               UnitLayout!NotPrepared, UnitLayout!NoJournal, UnitLayout!host
<1>19. CASE UnitLayout!UndoFails
  BY <1>19 DEF UnitLayout!UndoFails, UnitLayout!Refused, UnitLayout!Original,
               UnitLayout!Migrated, UnitLayout!LinkIs, UnitLayout!Unowned,
               UnitLayout!RolledBack, UnitLayout!Fault, UnitLayout!Counted,
               UnitLayout!Effect, UnitLayout!Leaves, UnitLayout!Report,
               UnitLayout!Goto, UnitLayout!NotPrepared, UnitLayout!NoJournal
<1>20. CASE UnitLayout!Drift
  BY <1>20 DEF UnitLayout!Drift, UnitLayout!Fault, UnitLayout!Counted,
               UnitLayout!command
<1>21. ASSUME NEW f \in UnitLayout!Places, UnitLayout!Edit(f)
      PROVE  UnitLayout!CommandFits'
  BY <1>21 DEF UnitLayout!Edit, UnitLayout!Counted, UnitLayout!command
<1>22. CASE UnitLayout!DaemonReload
  BY <1>22 DEF UnitLayout!DaemonReload, UnitLayout!command
<1>23. CASE UnitLayout!Kill
  BY <1>23 DEF UnitLayout!Kill, UnitLayout!Crash, UnitLayout!Counted,
               UnitLayout!Ends, UnitLayout!Goto, UnitLayout!NotPrepared,
               UnitLayout!NoJournal, UnitLayout!host
<1>24. CASE UnitLayout!Reboot
  BY <1>24 DEF UnitLayout!Reboot, UnitLayout!Crash, UnitLayout!Counted,
               UnitLayout!Ends, UnitLayout!Goto, UnitLayout!NotPrepared,
               UnitLayout!NoJournal
<1>25. CASE UNCHANGED UnitLayout!vars
  BY <1>25 DEF UnitLayout!vars, UnitLayout!host, UnitLayout!command
<1> QED
  BY <1>1, <1>2, <1>3, <1>4, <1>5, <1>6, <1>7, <1>8, <1>9, <1>10, <1>11, <1>12,
     <1>13, <1>14, <1>15, <1>16, <1>17, <1>18, <1>19, <1>20, <1>21, <1>22,
     <1>23, <1>24, <1>25
     DEF UnitLayout!Next, UnitLayout!Apply, UnitLayout!Compensate

\* Files are moved, never destroyed, and the next command can go on.
LEMMA LayoutDiskNext ==
  ASSUME UnitLayout!LayoutAssumption, UnitLayout!IInv,
         [UnitLayout!Next]_(UnitLayout!vars)
  PROVE  UnitLayout!DiskFits' /\ UnitLayout!NothingDestroyed'
         /\ UnitLayout!Resumable'
<1> USE DEF UnitLayout!LayoutAssumption, UnitLayout!IInv, UnitLayout!TypeOK,
            UnitLayout!HostFits, UnitLayout!CommandFits, UnitLayout!DiskFits,
            UnitLayout!CalmFits, UnitLayout!UnitNeverLost,
            UnitLayout!NothingDestroyed, UnitLayout!ReportsTrue,
            UnitLayout!Resumable, UnitLayout!NoFalseAlarm, UnitLayout!Places,
            UnitLayout!Contents, UnitLayout!Applying, UnitLayout!Undoing,
            UnitLayout!Moving, UnitLayout!Prepared, UnitLayout!Journals,
            UnitLayout!Counts, UnitLayout!Resolved, UnitLayout!Masked,
            UnitLayout!MigratableLayout, UnitLayout!NoStaleIsolation
<1> USE Moves
<1>1. CASE UnitLayout!Begin
  BY <1>1 DEF UnitLayout!Begin, UnitLayout!MaskSettled, UnitLayout!Goto,
              UnitLayout!host
<1>2. CASE UnitLayout!Unmask
  BY <1>2 DEF UnitLayout!Unmask, UnitLayout!Goto, UnitLayout!Fault,
              UnitLayout!Counted, UnitLayout!Report, UnitLayout!NotPrepared,
              UnitLayout!NoJournal
<1>3. CASE UnitLayout!ReloadUnmasked
  BY <1>3 DEF UnitLayout!ReloadUnmasked, UnitLayout!Report, UnitLayout!Goto,
              UnitLayout!NotPrepared, UnitLayout!NoJournal, UnitLayout!Fault,
              UnitLayout!Counted
<1>4. CASE UnitLayout!Prepare
  BY <1>4 DEF UnitLayout!Prepare, UnitLayout!Enabled,
              UnitLayout!NeedsFinalization, UnitLayout!Goto,
              UnitLayout!NoJournal, UnitLayout!Report, UnitLayout!NotPrepared
<1>5. CASE UnitLayout!Create
  BY <1>5 DEF UnitLayout!Create, UnitLayout!Goto
<1>6. CASE UnitLayout!Created
  BY <1>6 DEF UnitLayout!Created, UnitLayout!Goto, UnitLayout!host
<1>7. CASE UnitLayout!MoveCheck
  BY <1>7 DEF UnitLayout!MoveCheck, UnitLayout!Original, UnitLayout!host
<1>8. CASE UnitLayout!Rename
  BY <1>8 DEF UnitLayout!Rename, UnitLayout!Leaves
<1>9. CASE UnitLayout!MoveConfirm
  BY <1>9 DEF UnitLayout!MoveConfirm, UnitLayout!Original, UnitLayout!Goto,
              UnitLayout!host
<1>10. CASE UnitLayout!MoveRestore
  BY <1>10 DEF UnitLayout!MoveRestore, UnitLayout!Original, UnitLayout!Leaves
<1>11. CASE UnitLayout!ReloadMoved
  BY <1>11 DEF UnitLayout!ReloadMoved, UnitLayout!Reloads, UnitLayout!Goto
<1>12. CASE UnitLayout!ReenableMoved
  BY <1>12 DEF UnitLayout!ReenableMoved, UnitLayout!Reenables, UnitLayout!Goto
<1>13. CASE UnitLayout!Verify
  BY <1>13 DEF UnitLayout!Verify, UnitLayout!Migrated, UnitLayout!LinkIs,
               UnitLayout!Report, UnitLayout!Goto, UnitLayout!NotPrepared,
               UnitLayout!NoJournal, UnitLayout!host
<1>14. CASE UnitLayout!Fails
  BY <1>14 DEF UnitLayout!Fails, UnitLayout!Refused, UnitLayout!Original,
               UnitLayout!Migrated, UnitLayout!LinkIs, UnitLayout!Unowned,
               UnitLayout!RolledBack, UnitLayout!Fault, UnitLayout!Counted,
               UnitLayout!Effect, UnitLayout!Leaves, UnitLayout!Compensates,
               UnitLayout!WasMoved, UnitLayout!Report, UnitLayout!Goto,
               UnitLayout!NotPrepared, UnitLayout!NoJournal, UnitLayout!Tried
<1>15. CASE UnitLayout!OwnCanonical
  BY <1>15 DEF UnitLayout!OwnCanonical, UnitLayout!Unowned, UnitLayout!Goto,
               UnitLayout!host
<1>16. CASE UnitLayout!ReloadBack
  BY <1>16 DEF UnitLayout!ReloadBack, UnitLayout!Reloads, UnitLayout!Goto
<1>17. CASE UnitLayout!ReenableBack
  BY <1>17 DEF UnitLayout!ReenableBack, UnitLayout!Reenables, UnitLayout!Goto
<1>18. CASE UnitLayout!VerifyRollback
  BY <1>18 DEF UnitLayout!VerifyRollback, UnitLayout!RolledBack,
               UnitLayout!LinkIs, UnitLayout!Report, UnitLayout!Goto,
               UnitLayout!NotPrepared, UnitLayout!NoJournal, UnitLayout!host
<1>19. CASE UnitLayout!UndoFails
  BY <1>19 DEF UnitLayout!UndoFails, UnitLayout!Refused, UnitLayout!Original,
               UnitLayout!Migrated, UnitLayout!LinkIs, UnitLayout!Unowned,
               UnitLayout!RolledBack, UnitLayout!Fault, UnitLayout!Counted,
               UnitLayout!Effect, UnitLayout!Leaves, UnitLayout!Report,
               UnitLayout!Goto, UnitLayout!NotPrepared, UnitLayout!NoJournal
<1>20. CASE UnitLayout!Drift
  BY <1>20 DEF UnitLayout!Drift, UnitLayout!Fault, UnitLayout!Counted,
               UnitLayout!command
<1>21. ASSUME NEW f \in UnitLayout!Places, UnitLayout!Edit(f)
      PROVE  UnitLayout!DiskFits' /\ UnitLayout!NothingDestroyed'
             /\ UnitLayout!Resumable'
  BY <1>21 DEF UnitLayout!Edit, UnitLayout!Counted, UnitLayout!command
<1>22. CASE UnitLayout!DaemonReload
  BY <1>22 DEF UnitLayout!DaemonReload, UnitLayout!command
<1>23. CASE UnitLayout!Kill
  BY <1>23 DEF UnitLayout!Kill, UnitLayout!Crash, UnitLayout!Counted,
               UnitLayout!Ends, UnitLayout!Goto, UnitLayout!NotPrepared,
               UnitLayout!NoJournal, UnitLayout!host
<1>24. CASE UnitLayout!Reboot
  BY <1>24 DEF UnitLayout!Reboot, UnitLayout!Crash, UnitLayout!Counted,
               UnitLayout!Ends, UnitLayout!Goto, UnitLayout!NotPrepared,
               UnitLayout!NoJournal
<1>25. CASE UNCHANGED UnitLayout!vars
  BY <1>25 DEF UnitLayout!vars, UnitLayout!host, UnitLayout!command
<1> QED
  BY <1>1, <1>2, <1>3, <1>4, <1>5, <1>6, <1>7, <1>8, <1>9, <1>10, <1>11, <1>12,
     <1>13, <1>14, <1>15, <1>16, <1>17, <1>18, <1>19, <1>20, <1>21, <1>22,
     <1>23, <1>24, <1>25
     DEF UnitLayout!Next, UnitLayout!Apply, UnitLayout!Compensate

\* Without faults and edits no step is refused.
LEMMA LayoutCalmNext ==
  ASSUME UnitLayout!LayoutAssumption, UnitLayout!IInv,
         [UnitLayout!Next]_(UnitLayout!vars)
  PROVE  UnitLayout!CalmFits' /\ UnitLayout!NoFalseAlarm'
<1> USE DEF UnitLayout!LayoutAssumption, UnitLayout!IInv, UnitLayout!TypeOK,
            UnitLayout!HostFits, UnitLayout!CommandFits, UnitLayout!DiskFits,
            UnitLayout!CalmFits, UnitLayout!UnitNeverLost,
            UnitLayout!NothingDestroyed, UnitLayout!ReportsTrue,
            UnitLayout!Resumable, UnitLayout!NoFalseAlarm, UnitLayout!Places,
            UnitLayout!Contents, UnitLayout!Applying, UnitLayout!Undoing,
            UnitLayout!Moving, UnitLayout!Prepared, UnitLayout!Journals,
            UnitLayout!Counts, UnitLayout!Resolved, UnitLayout!Masked,
            UnitLayout!MigratableLayout, UnitLayout!NoStaleIsolation
<1> USE Moves
<1>1. CASE UnitLayout!Begin
  BY <1>1 DEF UnitLayout!Begin, UnitLayout!MaskSettled, UnitLayout!Goto,
              UnitLayout!host
<1>2. CASE UnitLayout!Unmask
  BY <1>2 DEF UnitLayout!Unmask, UnitLayout!Goto, UnitLayout!Fault,
              UnitLayout!Counted, UnitLayout!Report, UnitLayout!NotPrepared,
              UnitLayout!NoJournal
<1>3. CASE UnitLayout!ReloadUnmasked
  BY <1>3 DEF UnitLayout!ReloadUnmasked, UnitLayout!Report, UnitLayout!Goto,
              UnitLayout!NotPrepared, UnitLayout!NoJournal, UnitLayout!Fault,
              UnitLayout!Counted
<1>4. CASE UnitLayout!Prepare
  <2>1. CASE ~ (UnitLayout!MigratableLayout /\ UnitLayout!NoStaleIsolation)
    BY <1>4, <2>1 DEF UnitLayout!Prepare, UnitLayout!Report, UnitLayout!Goto,
                      UnitLayout!NotPrepared
  <2>2. CASE UnitLayout!MigratableLayout /\ UnitLayout!NoStaleIsolation
    <3>1. /\ layoutBefore' = [etc |-> layoutDisk.etc, usr |-> layoutDisk.usr,
                            enabled |-> UnitLayout!Enabled,
                                loaded |-> layoutLoaded,
                            needed |-> UnitLayout!NeedsFinalization]
          /\ same' = TRUE /\ layoutStage' = "check" /\ layoutTold' = layoutTold
          /\ layoutPc' = IF ~ UnitLayout!NeedsFinalization THEN "verify"
                         ELSE IF layoutDisk.etc = None THEN "reload"
                         ELSE IF layoutDisk.usr = None
                             THEN "create" ELSE "move"
          /\ UNCHANGED <<layoutDisk, mask, link, layoutLoaded, counts>>
      BY <1>4, <2>2 DEF UnitLayout!Prepare, UnitLayout!Goto
    <3>2. CASE layoutDisk.etc = None
      BY <2>2, <3>1, <3>2 DEF UnitLayout!MigratableLayout, UnitLayout!Enabled,
                              UnitLayout!NeedsFinalization
    <3>3. CASE layoutDisk.etc # None /\ layoutDisk.usr = None
      BY <2>2, <3>1, <3>3 DEF UnitLayout!MigratableLayout,
                              UnitLayout!NoStaleIsolation, UnitLayout!Enabled,
                              UnitLayout!NeedsFinalization
    <3>4. CASE layoutDisk.etc # None /\ layoutDisk.usr # None
      BY <2>2, <3>1, <3>4 DEF UnitLayout!MigratableLayout,
                              UnitLayout!NoStaleIsolation, UnitLayout!Enabled,
                              UnitLayout!NeedsFinalization
    <3> QED
      BY <3>2, <3>3, <3>4
  <2> QED
    BY <2>1, <2>2
<1>5. CASE UnitLayout!Create
  BY <1>5 DEF UnitLayout!Create, UnitLayout!Goto
<1>6. CASE UnitLayout!Created
  BY <1>6 DEF UnitLayout!Created, UnitLayout!Goto, UnitLayout!host
<1>7. CASE UnitLayout!MoveCheck
  BY <1>7 DEF UnitLayout!MoveCheck, UnitLayout!Original, UnitLayout!host
<1>8. CASE UnitLayout!Rename
  BY <1>8 DEF UnitLayout!Rename, UnitLayout!Leaves
<1>9. CASE UnitLayout!MoveConfirm
  BY <1>9 DEF UnitLayout!MoveConfirm, UnitLayout!Original, UnitLayout!Goto,
              UnitLayout!host
<1>10. CASE UnitLayout!MoveRestore
  BY <1>10 DEF UnitLayout!MoveRestore, UnitLayout!Original, UnitLayout!Leaves
<1>11. CASE UnitLayout!ReloadMoved
  BY <1>11 DEF UnitLayout!ReloadMoved, UnitLayout!Reloads, UnitLayout!Goto
<1>12. CASE UnitLayout!ReenableMoved
  BY <1>12 DEF UnitLayout!ReenableMoved, UnitLayout!Reenables, UnitLayout!Goto
<1>13. CASE UnitLayout!Verify
  BY <1>13 DEF UnitLayout!Verify, UnitLayout!Migrated, UnitLayout!LinkIs,
               UnitLayout!Report, UnitLayout!Goto, UnitLayout!NotPrepared,
               UnitLayout!NoJournal, UnitLayout!host
<1>14. CASE UnitLayout!Fails
  BY <1>14 DEF UnitLayout!Fails, UnitLayout!Refused, UnitLayout!Original,
               UnitLayout!Migrated, UnitLayout!LinkIs, UnitLayout!Unowned,
               UnitLayout!RolledBack, UnitLayout!Fault, UnitLayout!Counted,
               UnitLayout!Effect, UnitLayout!Leaves, UnitLayout!Compensates,
               UnitLayout!WasMoved, UnitLayout!Report, UnitLayout!Goto,
               UnitLayout!NotPrepared, UnitLayout!NoJournal, UnitLayout!Tried
<1>15. CASE UnitLayout!OwnCanonical
  BY <1>15 DEF UnitLayout!OwnCanonical, UnitLayout!Unowned, UnitLayout!Goto,
               UnitLayout!host
<1>16. CASE UnitLayout!ReloadBack
  BY <1>16 DEF UnitLayout!ReloadBack, UnitLayout!Reloads, UnitLayout!Goto
<1>17. CASE UnitLayout!ReenableBack
  BY <1>17 DEF UnitLayout!ReenableBack, UnitLayout!Reenables, UnitLayout!Goto
<1>18. CASE UnitLayout!VerifyRollback
  BY <1>18 DEF UnitLayout!VerifyRollback, UnitLayout!RolledBack,
               UnitLayout!LinkIs, UnitLayout!Report, UnitLayout!Goto,
               UnitLayout!NotPrepared, UnitLayout!NoJournal, UnitLayout!host
<1>19. CASE UnitLayout!UndoFails
  BY <1>19 DEF UnitLayout!UndoFails, UnitLayout!Refused, UnitLayout!Original,
               UnitLayout!Migrated, UnitLayout!LinkIs, UnitLayout!Unowned,
               UnitLayout!RolledBack, UnitLayout!Fault, UnitLayout!Counted,
               UnitLayout!Effect, UnitLayout!Leaves, UnitLayout!Report,
               UnitLayout!Goto, UnitLayout!NotPrepared, UnitLayout!NoJournal
<1>20. CASE UnitLayout!Drift
  BY <1>20 DEF UnitLayout!Drift, UnitLayout!Fault, UnitLayout!Counted,
               UnitLayout!command
<1>21. ASSUME NEW f \in UnitLayout!Places, UnitLayout!Edit(f)
      PROVE  UnitLayout!CalmFits' /\ UnitLayout!NoFalseAlarm'
  BY <1>21 DEF UnitLayout!Edit, UnitLayout!Counted, UnitLayout!command
<1>22. CASE UnitLayout!DaemonReload
  BY <1>22 DEF UnitLayout!DaemonReload, UnitLayout!command
<1>23. CASE UnitLayout!Kill
  BY <1>23 DEF UnitLayout!Kill, UnitLayout!Crash, UnitLayout!Counted,
               UnitLayout!Ends, UnitLayout!Goto, UnitLayout!NotPrepared,
               UnitLayout!NoJournal, UnitLayout!host
<1>24. CASE UnitLayout!Reboot
  BY <1>24 DEF UnitLayout!Reboot, UnitLayout!Crash, UnitLayout!Counted,
               UnitLayout!Ends, UnitLayout!Goto, UnitLayout!NotPrepared,
               UnitLayout!NoJournal
<1>25. CASE UNCHANGED UnitLayout!vars
  BY <1>25 DEF UnitLayout!vars, UnitLayout!host, UnitLayout!command
<1> QED
  BY <1>1, <1>2, <1>3, <1>4, <1>5, <1>6, <1>7, <1>8, <1>9, <1>10, <1>11, <1>12,
     <1>13, <1>14, <1>15, <1>16, <1>17, <1>18, <1>19, <1>20, <1>21, <1>22,
     <1>23, <1>24, <1>25
     DEF UnitLayout!Next, UnitLayout!Apply, UnitLayout!Compensate

\* What is reported.
LEMMA LayoutReportsNext ==
  ASSUME UnitLayout!LayoutAssumption, UnitLayout!IInv,
         [UnitLayout!Next]_(UnitLayout!vars)
  PROVE  UnitLayout!ReportsTrue'
<1> USE DEF UnitLayout!LayoutAssumption, UnitLayout!IInv, UnitLayout!TypeOK,
            UnitLayout!HostFits, UnitLayout!CommandFits, UnitLayout!DiskFits,
            UnitLayout!CalmFits, UnitLayout!UnitNeverLost,
            UnitLayout!NothingDestroyed, UnitLayout!ReportsTrue,
            UnitLayout!Resumable, UnitLayout!NoFalseAlarm, UnitLayout!Places,
            UnitLayout!Contents, UnitLayout!Applying, UnitLayout!Undoing,
            UnitLayout!Moving, UnitLayout!Prepared, UnitLayout!Journals,
            UnitLayout!Counts, UnitLayout!Resolved, UnitLayout!Masked,
            UnitLayout!MigratableLayout, UnitLayout!NoStaleIsolation
<1> USE Moves
<1>1. CASE UnitLayout!Begin
  BY <1>1 DEF UnitLayout!Begin, UnitLayout!MaskSettled, UnitLayout!Goto,
              UnitLayout!host
<1>2. CASE UnitLayout!Unmask
  BY <1>2 DEF UnitLayout!Unmask, UnitLayout!Goto, UnitLayout!Fault,
              UnitLayout!Counted, UnitLayout!Report, UnitLayout!NotPrepared,
              UnitLayout!NoJournal
<1>3. CASE UnitLayout!ReloadUnmasked
  BY <1>3 DEF UnitLayout!ReloadUnmasked, UnitLayout!Report, UnitLayout!Goto,
              UnitLayout!NotPrepared, UnitLayout!NoJournal, UnitLayout!Fault,
              UnitLayout!Counted
<1>4. CASE UnitLayout!Prepare
  BY <1>4 DEF UnitLayout!Prepare, UnitLayout!Enabled,
              UnitLayout!NeedsFinalization, UnitLayout!Goto,
              UnitLayout!NoJournal, UnitLayout!Report, UnitLayout!NotPrepared
<1>5. CASE UnitLayout!Create
  BY <1>5 DEF UnitLayout!Create, UnitLayout!Goto
<1>6. CASE UnitLayout!Created
  BY <1>6 DEF UnitLayout!Created, UnitLayout!Goto, UnitLayout!host
<1>7. CASE UnitLayout!MoveCheck
  BY <1>7 DEF UnitLayout!MoveCheck, UnitLayout!Original, UnitLayout!host
<1>8. CASE UnitLayout!Rename
  BY <1>8 DEF UnitLayout!Rename, UnitLayout!Leaves
<1>9. CASE UnitLayout!MoveConfirm
  BY <1>9 DEF UnitLayout!MoveConfirm, UnitLayout!Original, UnitLayout!Goto,
              UnitLayout!host
<1>10. CASE UnitLayout!MoveRestore
  BY <1>10 DEF UnitLayout!MoveRestore, UnitLayout!Original, UnitLayout!Leaves
<1>11. CASE UnitLayout!ReloadMoved
  BY <1>11 DEF UnitLayout!ReloadMoved, UnitLayout!Reloads, UnitLayout!Goto
<1>12. CASE UnitLayout!ReenableMoved
  BY <1>12 DEF UnitLayout!ReenableMoved, UnitLayout!Reenables, UnitLayout!Goto
<1>13. CASE UnitLayout!Verify
  BY <1>13 DEF UnitLayout!Verify, UnitLayout!Migrated, UnitLayout!LinkIs,
               UnitLayout!Report, UnitLayout!Goto, UnitLayout!NotPrepared,
               UnitLayout!NoJournal, UnitLayout!host
<1>14. CASE UnitLayout!Fails
  BY <1>14 DEF UnitLayout!Fails, UnitLayout!Refused, UnitLayout!Original,
               UnitLayout!Migrated, UnitLayout!LinkIs, UnitLayout!Unowned,
               UnitLayout!RolledBack, UnitLayout!Fault, UnitLayout!Counted,
               UnitLayout!Effect, UnitLayout!Leaves, UnitLayout!Compensates,
               UnitLayout!WasMoved, UnitLayout!Report, UnitLayout!Goto,
               UnitLayout!NotPrepared, UnitLayout!NoJournal, UnitLayout!Tried
<1>15. CASE UnitLayout!OwnCanonical
  BY <1>15 DEF UnitLayout!OwnCanonical, UnitLayout!Unowned, UnitLayout!Goto,
               UnitLayout!host
<1>16. CASE UnitLayout!ReloadBack
  BY <1>16 DEF UnitLayout!ReloadBack, UnitLayout!Reloads, UnitLayout!Goto
<1>17. CASE UnitLayout!ReenableBack
  BY <1>17 DEF UnitLayout!ReenableBack, UnitLayout!Reenables, UnitLayout!Goto
<1>18. CASE UnitLayout!VerifyRollback
  BY <1>18 DEF UnitLayout!VerifyRollback, UnitLayout!RolledBack,
               UnitLayout!LinkIs, UnitLayout!Report, UnitLayout!Goto,
               UnitLayout!NotPrepared, UnitLayout!NoJournal, UnitLayout!host
<1>19. CASE UnitLayout!UndoFails
  BY <1>19 DEF UnitLayout!UndoFails, UnitLayout!Refused, UnitLayout!Original,
               UnitLayout!Migrated, UnitLayout!LinkIs, UnitLayout!Unowned,
               UnitLayout!RolledBack, UnitLayout!Fault, UnitLayout!Counted,
               UnitLayout!Effect, UnitLayout!Leaves, UnitLayout!Report,
               UnitLayout!Goto, UnitLayout!NotPrepared, UnitLayout!NoJournal
<1>20. CASE UnitLayout!Drift
  BY <1>20 DEF UnitLayout!Drift, UnitLayout!Fault, UnitLayout!Counted,
               UnitLayout!command
<1>21. ASSUME NEW f \in UnitLayout!Places, UnitLayout!Edit(f)
      PROVE  UnitLayout!ReportsTrue'
  BY <1>21 DEF UnitLayout!Edit, UnitLayout!Counted, UnitLayout!command
<1>22. CASE UnitLayout!DaemonReload
  BY <1>22 DEF UnitLayout!DaemonReload, UnitLayout!command
<1>23. CASE UnitLayout!Kill
  BY <1>23 DEF UnitLayout!Kill, UnitLayout!Crash, UnitLayout!Counted,
               UnitLayout!Ends, UnitLayout!Goto, UnitLayout!NotPrepared,
               UnitLayout!NoJournal, UnitLayout!host
<1>24. CASE UnitLayout!Reboot
  BY <1>24 DEF UnitLayout!Reboot, UnitLayout!Crash, UnitLayout!Counted,
               UnitLayout!Ends, UnitLayout!Goto, UnitLayout!NotPrepared,
               UnitLayout!NoJournal
<1>25. CASE UNCHANGED UnitLayout!vars
  BY <1>25 DEF UnitLayout!vars, UnitLayout!host, UnitLayout!command
<1> QED
  BY <1>1, <1>2, <1>3, <1>4, <1>5, <1>6, <1>7, <1>8, <1>9, <1>10, <1>11, <1>12,
     <1>13, <1>14, <1>15, <1>16, <1>17, <1>18, <1>19, <1>20, <1>21, <1>22,
     <1>23, <1>24, <1>25
     DEF UnitLayout!Next, UnitLayout!Apply, UnitLayout!Compensate


\* systemd_unit_layout_transaction.py: the invariant of a move holds in every
\* state that failing calls, kills, reboots and edits lead to.
THEOREM LayoutInvariance ==
  ASSUME UnitLayout!LayoutAssumption
  PROVE  UnitLayout!Spec => []UnitLayout!IInv
<1>1. UnitLayout!Init => UnitLayout!IInv
  BY LayoutInit
<1>2. UnitLayout!IInv /\ [UnitLayout!Next]_(UnitLayout!vars)
      => UnitLayout!IInv'
  BY LayoutTypeNext, LayoutHostNext, LayoutCommandNext, LayoutDiskNext,
     LayoutCalmNext, LayoutReportsNext DEF UnitLayout!IInv
<1> QED
  BY <1>1, <1>2, PTL DEF UnitLayout!Spec

\* Whoever dies, fails or edits: a main unit is found, no content is lost, what
\* was reported is so, and the next command can go on.
THEOREM UnitIsNeverLost ==
  ASSUME UnitLayout!LayoutAssumption
  PROVE  UnitLayout!Spec => []UnitLayout!LayoutSound
<1>1. UnitLayout!IInv => UnitLayout!LayoutSound
  BY DEF UnitLayout!IInv, UnitLayout!LayoutSound
<1> QED
  BY <1>1, LayoutInvariance, PTL

\* The same beside the other protocols: what the run checks.
THEOREM InstallSoundHere == RuntimeSpec => []InstallSound
<1>1. RuntimeInit => UnitInstall!IInv /\ UnitLayout!IInv
  BY InstallInit, LayoutInit, InstancesAssumption DEF RuntimeInit
<1>2. [RuntimeNext]_runtimeVars =>
        /\ [UnitInstall!Next]_(UnitInstall!vars)
        /\ [UnitLayout!Next]_(UnitLayout!vars)
  BY DEF RuntimeNext, runtimeVars, unitVars, layoutVars, UnitInstall!vars,
         UnitInstall!host, UnitInstall!work, UnitLayout!vars,
         UnitLayout!host, UnitLayout!command
<1>3. UnitInstall!IInv /\ [RuntimeNext]_runtimeVars => UnitInstall!IInv'
  BY <1>2, InstallTypeNext, InstallTodoNext, InstallApplyNext,
     InstallUndoNext, InstallReportsNext, InstancesAssumption
     DEF UnitInstall!IInv
<1>4. UnitLayout!IInv /\ [RuntimeNext]_runtimeVars => UnitLayout!IInv'
  BY <1>2, LayoutTypeNext, LayoutHostNext, LayoutCommandNext, LayoutDiskNext,
     LayoutCalmNext, LayoutReportsNext, InstancesAssumption
     DEF UnitLayout!IInv
<1>5. UnitInstall!IInv /\ UnitLayout!IInv => InstallSound
  BY DEF InstallSound, UnitInstall!IInv, UnitInstall!InstallSound,
         UnitLayout!IInv, UnitLayout!LayoutSound
<1> QED
  BY <1>1, <1>3, <1>4, <1>5, PTL DEF RuntimeSpec
=============================================================================

-------------------------- MODULE MCQueues_proof ----------------------------
(***************************************************************************)
(* Proofs about the queues side by side. The dependency gate blocks only   *)
(* over a failure of the same target, and at rest all indexes are of the   *)
(* target asked for last, for any kinds, targets and requests. What        *)
(* Queues_proof shows of the PostgreSQL queue and of the key lock is       *)
(* carried over to the two instances of each.                              *)
(***************************************************************************)
EXTENDS MCQueues, TLAPS

\* What Queues_proof says of the instances: Calm of the queue whose server ends
\* nothing and of the lock whose process ids do not recur, Rough of the others.
Calm == INSTANCE Queues_proof WITH
    Threads <- {t1, t2, t3}, Pids <- {p1, p2},
    PidOf <- t1 :> p1 @@ t2 :> p1 @@ t3 :> p2, PidReuse <- FALSE,
    ReadsFail <- FALSE, MaxFaults <- 3, gate <- lockGate, dir <- lockDir,
    info <- lockInfo, aged <- lockAged, alive <- lockAlive, keyPc <- lockPc,
    keyFaults <- lockFaults
Rough == INSTANCE Queues_proof WITH
    ServerKills <- TRUE, MaxNow <- 3, row <- killedRow,
    rowlock <- killedRowlock, tail <- killedTail, pc <- killedPc,
    view <- killedView, lost <- killedLost, dead <- killedDead,
    published <- killedPublished, now <- killedNow,
    Threads <- {t1, t2, t3}, Pids <- {p1, p2},
    PidOf <- t1 :> p1 @@ t2 :> p1 @@ t3 :> p2, PidReuse <- TRUE,
    ReadsFail <- FALSE, MaxFaults <- 3, gate <- reuseGate, dir <- reuseDir,
    info <- reuseInfo, aged <- reuseAged, alive <- reuseAlive,
    keyPc <- reusePc, keyFaults <- reuseFaults

-----------------------------------------------------------------------------
(***************************************************************************)
(* The dependency gate.  One worker works, so what its gate saw of the     *)
(* manifest is what is there when it publishes.  Whatever is claimed, given*)
(* back or published, a kind comes to the same target (Wanted), and only a *)
(* producer changes that, for all kinds one after the other; a producer that*)
(* has asked for the codegraph has still to ask for its dependents.        *)
(***************************************************************************)
\* What a queue says of a kind.
LEMMA TargetOfKind ==
  ASSUME NEW q \in Seq(DependencyGate!Jobs), DependencyGate!OneEach(q),
         NEW k \in Kinds
  PROVE  \/ DependencyGate!Places(q, k) = {}
            /\ DependencyGate!TargetIn(q, k) = None
         \/ \E n \in 1..Len(q) :
              /\ q[n].kind = k /\ DependencyGate!TargetIn(q, k) = q[n].target
              /\ q[n].target \in Targets
<1>1. CASE DependencyGate!Places(q, k) = {}
  BY <1>1 DEF DependencyGate!TargetIn
<1>2. CASE DependencyGate!Places(q, k) # {}
  <2>1. PICK n \in 1..Len(q) : n = CHOOSE i \in DependencyGate!Places(q, k) :
               TRUE
    BY <1>2 DEF DependencyGate!Places
  <2>2. n \in DependencyGate!Places(q, k)
    BY <1>2, <2>1
  <2>3. q[n] \in DependencyGate!Jobs /\ q[n].kind = k
    BY <2>2 DEF DependencyGate!Places
  <2>4. DependencyGate!TargetIn(q, k) = q[n].target
    BY <1>2, <2>1 DEF DependencyGate!TargetIn
  <2> QED
    BY <2>3, <2>4 DEF DependencyGate!Jobs
<1> QED
  BY <1>1, <1>2

\* A queue with one entry of a kind says what the entry says.
LEMMA TargetOfEntry ==
  ASSUME NEW q \in Seq(DependencyGate!Jobs), DependencyGate!OneEach(q),
         NEW n \in 1..Len(q)
  PROVE  q[n].kind \in Kinds
         /\ DependencyGate!TargetIn(q, q[n].kind) = q[n].target
<1>1. q[n] \in DependencyGate!Jobs
  OBVIOUS
<1>2. q[n].kind \in Kinds
  BY <1>1 DEF DependencyGate!Jobs
<1>3. DependencyGate!Places(q, q[n].kind) # {}
  BY DEF DependencyGate!Places
<1>4. PICK m \in 1..Len(q) :
        q[m].kind = q[n].kind
          /\ DependencyGate!TargetIn(q, q[n].kind) = q[m].target
  BY <1>2, <1>3, TargetOfKind
<1>5. m = n
  BY <1>4 DEF DependencyGate!OneEach
<1> QED
  BY <1>2, <1>4, <1>5

\* Where the queue has nothing, it says nothing.
LEMMA NoTarget ==
  ASSUME NEW q \in Seq(DependencyGate!Jobs), NEW k, \A n \in 1..Len(q) :
           q[n].kind # k
  PROVE  DependencyGate!TargetIn(q, k) = None
         /\ DependencyGate!Places(q, k) = {}
BY DEF DependencyGate!TargetIn, DependencyGate!Places

\* Two queues with the same entries of a kind say the same of it.
LEMMA SameTarget ==
  ASSUME NEW q \in Seq(DependencyGate!Jobs),
         NEW r \in Seq(DependencyGate!Jobs), DependencyGate!OneEach(q),
             DependencyGate!OneEach(r),
         NEW k \in Kinds,
         \A n \in 1..Len(q) : q[n].kind = k =>
           \E m \in 1..Len(r) : r[m] = q[n],
         \A m \in 1..Len(r) : r[m].kind = k =>
           \E n \in 1..Len(q) : r[m] = q[n]
  PROVE  DependencyGate!TargetIn(q, k) = DependencyGate!TargetIn(r, k)
<1>1. CASE \E n \in 1..Len(q) : q[n].kind = k
  <2>1. PICK n \in 1..Len(q) : q[n].kind = k
    BY <1>1
  <2>2. PICK m \in 1..Len(r) : r[m] = q[n]
    BY <2>1
  <2> QED
    BY <2>1, <2>2, TargetOfEntry
<1>2. CASE \A n \in 1..Len(q) : q[n].kind # k
  <2>1. \A m \in 1..Len(r) : r[m].kind # k
    BY <1>2
  <2> QED
    BY <1>2, <2>1, NoTarget
<1> QED
  BY <1>1, <1>2

\* What is left of the queue without a kind.
LEMMA WithoutKind ==
  ASSUME queue \in Seq(DependencyGate!Jobs), DependencyGate!OneEach(queue),
         NEW k \in Kinds
  PROVE  /\ DependencyGate!Without(k) \in Seq(DependencyGate!Jobs)
         /\ DependencyGate!OneEach(DependencyGate!Without(k))
         /\ DependencyGate!Places(DependencyGate!Without(k), k) = {}
         /\ DependencyGate!TargetIn(DependencyGate!Without(k), k) = None
         /\ \A l \in Kinds \ {k} :
              DependencyGate!TargetIn(DependencyGate!Without(k), l)
                = DependencyGate!TargetIn(queue, l)
<1>1. CASE DependencyGate!Places(queue, k) = {}
  BY <1>1 DEF DependencyGate!Without, DependencyGate!TargetIn
<1>2. CASE DependencyGate!Places(queue, k) # {}
  <2>1. PICK n \in 1..Len(queue) :
               n = CHOOSE i \in DependencyGate!Places(queue, k) : TRUE
    BY <1>2 DEF DependencyGate!Places
  <2>2. n \in DependencyGate!Places(queue, k)
    BY <1>2, <2>1
  <2>3. queue[n].kind = k
    BY <2>2 DEF DependencyGate!Places
  <2> DEFINE r == [i \in 1 .. Len(queue) - 1 |->
                     queue[IF i < n THEN i ELSE i + 1]]
  <2>4. DependencyGate!Without(k) = r
    BY <1>2, <2>1 DEF DependencyGate!Without
  <2>5. Len(queue) \in Nat /\ Len(queue) >= 1 /\ Len(queue) - 1 \in Nat
    OBVIOUS
  <2>6. \A i \in 1 .. Len(queue) - 1 :
          (IF i < n THEN i ELSE i + 1) \in (1..Len(queue)) \ {n}
    BY <2>5
  <2>7. \A i \in 1 .. Len(queue) - 1 : r[i] \in DependencyGate!Jobs
    BY <2>6
  <2>8. r \in Seq(DependencyGate!Jobs) /\ Len(r) = Len(queue) - 1
    BY <2>5, <2>7
  <2>9. DependencyGate!OneEach(r)
    <3> SUFFICES ASSUME NEW i \in 1..Len(r), NEW j \in 1..Len(r),
                        r[i].kind = r[j].kind
                 PROVE  i = j
      BY DEF DependencyGate!OneEach
    <3>1. (IF i < n THEN i ELSE i + 1) = (IF j < n THEN j ELSE j + 1)
      BY <2>6, <2>8 DEF DependencyGate!OneEach
    <3> QED
      BY <3>1, <2>8, <2>5
  <2>10. \A i \in 1..Len(r) : r[i].kind # k
    BY <2>3, <2>6, <2>8 DEF DependencyGate!OneEach
  <2>11. ASSUME NEW l \in Kinds \ {k}
         PROVE  DependencyGate!TargetIn(r, l)
                = DependencyGate!TargetIn(queue, l)
    <3>1. ASSUME NEW m \in 1..Len(r), r[m].kind = l
          PROVE  \E i \in 1..Len(queue) : r[m] = queue[i]
      BY <2>6, <2>8
    <3>2. ASSUME NEW i \in 1..Len(queue), queue[i].kind = l
          PROVE  \E m \in 1..Len(r) : r[m] = queue[i]
      <4>1. i # n
        BY <3>2, <2>3, <2>11
      <4>2. CASE i < n
        <5>1. i \in 1..Len(r) /\ r[i] = queue[i]
          BY <4>2, <2>8, <2>5
        <5> QED
          BY <5>1
      <4>3. CASE i > n
        <5>1. i - 1 \in 1..Len(r) /\ r[i - 1] = queue[i]
          BY <4>3, <2>8, <2>5
        <5> QED
          BY <5>1
      <4> QED
        BY <4>1, <4>2, <4>3, <2>5
    <3> HIDE DEF r
    <3> QED
      BY <3>1, <3>2, <2>8, <2>9, SameTarget
  <2> HIDE DEF r
  <2> QED
    BY <2>4, <2>8, <2>9, <2>10, <2>11, NoTarget
<1> QED
  BY <1>1, <1>2

\* A job that is put at the tail of a queue that has none of its kind.
LEMMA AtTail ==
  ASSUME NEW q \in Seq(DependencyGate!Jobs), DependencyGate!OneEach(q),
         NEW j \in DependencyGate!Jobs, NEW r,
         DependencyGate!Places(q, j.kind) = {}, r = Append(q, j)
  PROVE  /\ r \in Seq(DependencyGate!Jobs) /\ DependencyGate!OneEach(r)
         /\ DependencyGate!TargetIn(r, j.kind) = j.target
         /\ \A l \in Kinds \ {j.kind} :
              DependencyGate!TargetIn(r, l) = DependencyGate!TargetIn(q, l)
<1>1. /\ r \in Seq(DependencyGate!Jobs) /\ Len(r) = Len(q) + 1 /\ r[Len(r)] = j
      /\ Len(r) \in 1..Len(r)
      /\ \A i \in 1..Len(q) : r[i] = q[i] /\ i \in 1..Len(r)
  OBVIOUS
<1>2. \A i \in 1..Len(q) : q[i].kind # j.kind
  BY DEF DependencyGate!Places
<1>3. \A i \in 1..Len(r) : i \in 1..Len(q) \/ i = Len(r)
  BY <1>1
<1>4. DependencyGate!OneEach(r)
  BY <1>1, <1>2, <1>3 DEF DependencyGate!OneEach
<1>5. DependencyGate!TargetIn(r, j.kind) = j.target
  BY <1>1, <1>4, TargetOfEntry
<1>6. ASSUME NEW l \in Kinds \ {j.kind}
      PROVE  DependencyGate!TargetIn(r, l) = DependencyGate!TargetIn(q, l)
  <2>1. ASSUME NEW n \in 1..Len(q), q[n].kind = l
        PROVE  \E m \in 1..Len(r) : r[m] = q[n]
    BY <1>1
  <2>2. ASSUME NEW m \in 1..Len(r), r[m].kind = l
        PROVE  \E n \in 1..Len(q) : r[m] = q[n]
    BY <2>2, <1>1, <1>3, <1>6
  <2> QED
    BY <2>1, <2>2, <1>1, <1>4, <1>6, SameTarget
<1> QED
  BY <1>1, <1>4, <1>5, <1>6

\* What a request does to the queue.
LEMMA EnqueueQueue ==
  ASSUME DependencyGate!TypeOK, NEW j \in asking,
         queue' = Append(DependencyGate!Without(j.kind), j)
  PROVE  /\ queue' \in Seq(DependencyGate!Jobs)
         /\ DependencyGate!OneEach(queue')
         /\ j.kind \in Kinds /\ j.target \in Targets
         /\ DependencyGate!TargetIn(queue', j.kind) = j.target
         /\ \A l \in Kinds \ {j.kind} :
              DependencyGate!TargetIn(queue', l)
                = DependencyGate!TargetIn(queue, l)
<1>1. queue \in Seq(DependencyGate!Jobs) /\ DependencyGate!OneEach(queue)
      /\ j \in DependencyGate!Jobs
  BY DEF DependencyGate!TypeOK
<1>2. j.kind \in Kinds /\ j.target \in Targets
  BY <1>1 DEF DependencyGate!Jobs
<1>3. /\ DependencyGate!Without(j.kind) \in Seq(DependencyGate!Jobs)
      /\ DependencyGate!OneEach(DependencyGate!Without(j.kind))
      /\ DependencyGate!Places(DependencyGate!Without(j.kind), j.kind) = {}
      /\ \A l \in Kinds \ {j.kind} :
           DependencyGate!TargetIn(DependencyGate!Without(j.kind), l)
             = DependencyGate!TargetIn(queue, l)
  BY <1>1, <1>2, WithoutKind
<1>4. ASSUME NEW q, q = DependencyGate!Without(j.kind)
      PROVE  /\ queue' \in Seq(DependencyGate!Jobs)
             /\ DependencyGate!OneEach(queue')
             /\ DependencyGate!TargetIn(queue', j.kind) = j.target
             /\ \A l \in Kinds \ {j.kind} :
                  DependencyGate!TargetIn(queue', l)
                    = DependencyGate!TargetIn(q, l)
  BY <1>1, <1>3, <1>4, AtTail
<1> QED
  BY <1>2, <1>3, <1>4

\* What a claim takes from it.
LEMMA ClaimQueue ==
  ASSUME DependencyGate!TypeOK, NEW i \in 1 .. Len(queue),
         queue' = DependencyGate!Without(queue[i].kind)
  PROVE  /\ queue' \in Seq(DependencyGate!Jobs)
         /\ DependencyGate!OneEach(queue')
         /\ queue[i] \in DependencyGate!Jobs /\ queue[i].kind \in Kinds
         /\ queue[i].target \in Targets
         /\ DependencyGate!TargetIn(queue, queue[i].kind) = queue[i].target
         /\ DependencyGate!TargetIn(queue', queue[i].kind) = None
         /\ \A l \in Kinds \ {queue[i].kind} :
              DependencyGate!TargetIn(queue', l)
                = DependencyGate!TargetIn(queue, l)
<1>1. queue \in Seq(DependencyGate!Jobs) /\ DependencyGate!OneEach(queue)
      /\ queue[i] \in DependencyGate!Jobs
  BY DEF DependencyGate!TypeOK
<1>2. queue[i].kind \in Kinds /\ queue[i].target \in Targets
  BY <1>1 DEF DependencyGate!Jobs
<1> QED
  BY <1>1, <1>2, WithoutKind, TargetOfEntry

\* What the queue says is a target or nothing.
LEMMA PendingType ==
  ASSUME DependencyGate!TypeOK, NEW k \in Kinds
  PROVE  DependencyGate!TargetIn(queue, k) \in Targets \cup {None}
BY TargetOfKind DEF DependencyGate!TypeOK

\* What a retry gives back: the newer request, or the claimed target.
LEMMA RetryQueue ==
  ASSUME DependencyGate!NoneAssumption, DependencyGate!TypeOK,
         DependencyGate!WorkFits, NEW w \in Workers, gatePc[w] # "idle",
             DependencyGate!Retry(w)
  PROVE  /\ queue' \in Seq(DependencyGate!Jobs)
         /\ DependencyGate!OneEach(queue')
         /\ job[w].kind \in Kinds
         /\ DependencyGate!TargetIn(queue', job[w].kind) =
              IF DependencyGate!TargetIn(queue, job[w].kind) # None
                  THEN DependencyGate!TargetIn(queue, job[w].kind)
              ELSE active[job[w].kind]
         /\ DependencyGate!TargetIn(queue', job[w].kind) \in Targets
         /\ active[job[w].kind] \in Targets
         /\ \A l \in Kinds \ {job[w].kind} :
              DependencyGate!TargetIn(queue', l)
                = DependencyGate!TargetIn(queue, l)
<1> DEFINE k == job[w].kind
           t == IF DependencyGate!TargetIn(queue, k) # None
               THEN DependencyGate!TargetIn(queue, k) ELSE active[k]
<1>1. queue \in Seq(DependencyGate!Jobs) /\ DependencyGate!OneEach(queue)
  BY DEF DependencyGate!TypeOK
<1>2. k \in Kinds /\ active[k] = job[w].target /\ job[w].target \in Targets
  BY DEF DependencyGate!WorkFits, DependencyGate!Jobs
<1>3. t \in Targets
  BY <1>2, PendingType
<1>4. queue' = Append(DependencyGate!Without(k), [kind |-> k, target |-> t])
  BY DEF DependencyGate!Retry, DependencyGate!ReenterAtTail,
         DependencyGate!PendingTarget
<1> DEFINE j == [kind |-> k, target |-> t]
<1>5. j \in DependencyGate!Jobs /\ j.kind = k /\ j.target = t
  BY <1>2, <1>3 DEF DependencyGate!Jobs
<1>6. /\ DependencyGate!Without(k) \in Seq(DependencyGate!Jobs)
      /\ DependencyGate!OneEach(DependencyGate!Without(k))
      /\ DependencyGate!Places(DependencyGate!Without(k), k) = {}
      /\ \A l \in Kinds \ {k} :
           DependencyGate!TargetIn(DependencyGate!Without(k), l)
             = DependencyGate!TargetIn(queue, l)
  BY <1>1, <1>2, WithoutKind
<1>7. queue' = Append(DependencyGate!Without(k), j)
  BY <1>4
<1> HIDE DEF j, t
<1>8. /\ queue' \in Seq(DependencyGate!Jobs) /\ DependencyGate!OneEach(queue')
      /\ DependencyGate!TargetIn(queue', k) = t
      /\ \A l \in Kinds \ {k} :
           DependencyGate!TargetIn(queue', l)
             = DependencyGate!TargetIn(DependencyGate!Without(k), l)
  <2>1. ASSUME NEW q, q = DependencyGate!Without(k)
        PROVE  /\ queue' \in Seq(DependencyGate!Jobs)
               /\ DependencyGate!OneEach(queue')
               /\ DependencyGate!TargetIn(queue', j.kind) = j.target
               /\ \A l \in Kinds \ {j.kind} :
                    DependencyGate!TargetIn(queue', l)
                      = DependencyGate!TargetIn(q, l)
    BY <1>5, <1>6, <1>7, <2>1, AtTail
  <2> QED
    BY <1>5, <2>1
<1> USE DEF t
<1> QED
  BY <1>2, <1>3, <1>6, <1>8

\* Nothing is queued, claimed or published at first.
LEMMA GateInit ==
  ASSUME DependencyGate!KindAssumption, DependencyGate!BoundAssumption,
         DependencyGate!NoneAssumption, DependencyGate!Init
  PROVE  DependencyGate!IInv
<1>1. DependencyGate!TypeOK
  BY DEF DependencyGate!Init, DependencyGate!TypeOK, DependencyGate!OneEach
<1>2. \A k \in Kinds : DependencyGate!TargetIn(queue, k) = None
  <2>1. queue \in Seq(DependencyGate!Jobs) /\ Len(queue) = 0
    BY DEF DependencyGate!Init
  <2>2. 1 .. Len(queue) = {}
    BY <2>1
  <2> QED
    BY <2>1, <2>2, NoTarget
<1>3. "codegraph" \in Kinds
  BY DEF DependencyGate!KindAssumption
<1>4. DependencyGate!WorkFits /\ DependencyGate!SeenFits
      /\ DependencyGate!AskFits /\ DependencyGate!BuiltFromSameTarget
  BY DEF DependencyGate!Init, DependencyGate!WorkFits, DependencyGate!SeenFits,
         DependencyGate!AskFits, DependencyGate!BuiltFromSameTarget
<1>5. DependencyGate!WantedFits
  BY <1>2 DEF DependencyGate!Init, DependencyGate!WantedFits,
              DependencyGate!Wanted, DependencyGate!PendingTarget,
              DependencyGate!Asked
<1>6. DependencyGate!BlockFits
  BY <1>2, <1>3 DEF DependencyGate!Init, DependencyGate!BlockFits
<1> QED
  BY <1>1, <1>4, <1>5, <1>6 DEF DependencyGate!IInv

\* Every step keeps the labels, the records and one entry per kind.
LEMMA GateTypeNext ==
  ASSUME DependencyGate!KindAssumption, DependencyGate!NoneAssumption,
         DependencyGate!IInv, [DependencyGate!Next]_(DependencyGate!vars)
  PROVE  DependencyGate!TypeOK'
<1> USE DEF DependencyGate!IInv
<1>1. "codegraph" \in Kinds
  BY DEF DependencyGate!KindAssumption
<1>2. ASSUME NEW t \in Targets, DependencyGate!Ask(t)
      PROVE  DependencyGate!TypeOK'
  <2>1. DependencyGate!Group(t) \subseteq DependencyGate!Jobs
    BY DEF DependencyGate!Group, DependencyGate!Jobs
  <2> QED
    BY <1>2, <2>1 DEF DependencyGate!Ask, DependencyGate!TypeOK,
                      DependencyGate!OneEach
<1>3. CASE DependencyGate!Enqueue
  <2>1. PICK j \in asking :
             /\ queue' = Append(DependencyGate!Without(j.kind), j)
                            /\ asking' = asking \ {j}
    BY <1>3 DEF DependencyGate!Enqueue
  <2>2. queue' \in Seq(DependencyGate!Jobs) /\ DependencyGate!OneEach(queue')
    BY <2>1, EnqueueQueue
  <2> QED
    BY <1>3, <2>1, <2>2 DEF DependencyGate!Enqueue, DependencyGate!TypeOK
<1>4. ASSUME NEW w \in Workers, DependencyGate!Claim(w)
      PROVE  DependencyGate!TypeOK'
  <2>1. PICK i \in 1 .. Len(queue) :
          /\ job' = [job EXCEPT ![w] = queue[i]]
          /\ active' = [active EXCEPT ![queue[i].kind] = queue[i].target]
          /\ queue' = DependencyGate!Without(queue[i].kind)
          /\ DependencyGate!Goto(w,
               IF DependencyGate!DependsOn(queue[i].kind) = None
                   THEN "run" ELSE "gate")
    BY <1>4 DEF DependencyGate!Claim
  <2>2. /\ queue' \in Seq(DependencyGate!Jobs)
        /\ DependencyGate!OneEach(queue') /\ queue[i] \in DependencyGate!Jobs
        /\ queue[i].kind \in Kinds /\ queue[i].target \in Targets
    BY <2>1, ClaimQueue
  <2>3. gatePc'
        \in [Workers -> {"idle", "gate", "read", "run", "block", "ack"}]
    BY <2>1 DEF DependencyGate!Goto, DependencyGate!TypeOK
  <2>4. job' \in [Workers -> DependencyGate!Jobs \cup {None}]
    BY <2>1, <2>2 DEF DependencyGate!TypeOK
  <2>5. active' \in [Kinds -> Targets \cup {None}]
    BY <2>1, <2>2 DEF DependencyGate!TypeOK
  <2> QED
    BY <1>4, <2>2, <2>3, <2>4, <2>5
       DEF DependencyGate!Claim, DependencyGate!TypeOK
<1>5. ASSUME NEW w \in Workers, DependencyGate!ReadManifest(w)
      PROVE  DependencyGate!TypeOK'
  <2>1. DependencyGate!DependsOn(job[w].kind) = "codegraph"
    BY <1>5 DEF DependencyGate!ReadManifest, DependencyGate!WorkFits,
                DependencyGate!DependsOn
  <2> QED
    BY <1>1, <1>5, <2>1 DEF DependencyGate!ReadManifest, DependencyGate!Goto,
                            DependencyGate!TypeOK, DependencyGate!OneEach
<1>6. ASSUME NEW w \in Workers, gatePc[w] # "idle", DependencyGate!Retry(w),
             UNCHANGED <<manifest, asking>>
      PROVE  DependencyGate!TypeOK'
  <2>1. /\ queue' \in Seq(DependencyGate!Jobs)
        /\ DependencyGate!OneEach(queue') /\ job[w].kind \in Kinds
    BY <1>6, RetryQueue
  <2>2. /\ active' = [active EXCEPT ![job[w].kind] = None]
        /\ job' = [job EXCEPT ![w] = None] /\ seen' = [seen EXCEPT ![w] = None]
        /\ gatePc' = [gatePc EXCEPT ![w] = "idle"]
    BY <1>6 DEF DependencyGate!Retry, DependencyGate!Goto
  <2> QED
    BY <1>6, <2>1, <2>2 DEF DependencyGate!TypeOK
<1>7. ASSUME NEW w \in Workers, DependencyGate!Decide(w)
      PROVE  DependencyGate!TypeOK'
  <2>1. CASE DependencyGate!Retry(w)
    BY <1>6, <1>7, <2>1 DEF DependencyGate!Decide
  <2>2. CASE ~DependencyGate!Retry(w)
    BY <1>7, <2>2 DEF DependencyGate!Decide, DependencyGate!Goto,
                      DependencyGate!TypeOK, DependencyGate!OneEach
  <2> QED
    BY <2>1, <2>2
<1>8. ASSUME NEW w \in Workers, DependencyGate!RetryableEnd(w)
      PROVE  DependencyGate!TypeOK'
  BY <1>6, <1>8 DEF DependencyGate!RetryableEnd
<1>9. ASSUME NEW w \in Workers, DependencyGate!Publish(w)
      PROVE  DependencyGate!TypeOK'
  <2>1. job[w] \in DependencyGate!Jobs /\ job[w].kind \in Kinds
        /\ job[w].target \in Targets
    BY <1>9 DEF DependencyGate!Publish, DependencyGate!WorkFits,
                DependencyGate!Jobs
  <2>2. DependencyGate!DependencySnapshot(job[w].kind) \in Targets \cup {None}
    BY <1>1 DEF DependencyGate!DependencySnapshot, DependencyGate!TypeOK,
                DependencyGate!Builds
  <2>3. ASSUME NEW status \in {"ok", "failed", "blocked"}
        PROVE  [target |-> job[w].target, status |-> status,
                dep |-> DependencyGate!DependencySnapshot(job[w].kind)]
                  \in DependencyGate!Builds
    BY <2>1, <2>2 DEF DependencyGate!Builds
  <2>4. manifest' \in [Kinds -> DependencyGate!Builds \cup {None}]
    BY <1>9, <2>1, <2>3 DEF DependencyGate!Publish, DependencyGate!TypeOK
  <2>5. gatePc'
        \in [Workers -> {"idle", "gate", "read", "run", "block", "ack"}]
    BY <1>9 DEF DependencyGate!Publish, DependencyGate!Goto,
                DependencyGate!TypeOK
  <2> QED
    BY <1>9, <2>4, <2>5 DEF DependencyGate!Publish, DependencyGate!TypeOK,
                            DependencyGate!OneEach
<1>10. ASSUME NEW w \in Workers, DependencyGate!Ack(w)
       PROVE  DependencyGate!TypeOK'
  <2>1. job[w].kind \in Kinds
    BY <1>10 DEF DependencyGate!Ack, DependencyGate!WorkFits,
                 DependencyGate!Jobs
  <2> QED
    BY <1>10, <2>1 DEF DependencyGate!Ack, DependencyGate!Goto,
                       DependencyGate!TypeOK, DependencyGate!OneEach
<1>11. CASE UNCHANGED DependencyGate!vars
  BY <1>11 DEF DependencyGate!vars, DependencyGate!TypeOK,
               DependencyGate!OneEach
<1> QED
  BY <1>2, <1>3, <1>4, <1>5, <1>7, <1>8, <1>9, <1>10, <1>11
     DEF DependencyGate!Next, DependencyGate!Work

\* One worker works (the run lock), for one claim at a time.
LEMMA GateWorkNext ==
  ASSUME DependencyGate!KindAssumption, DependencyGate!NoneAssumption,
         DependencyGate!WorkerAssumption, DependencyGate!IInv,
             [DependencyGate!Next]_(DependencyGate!vars)
  PROVE  DependencyGate!WorkFits'
<1> USE DEF DependencyGate!IInv
<1>1. PICK u \in Workers : Workers = {u}
  BY DEF DependencyGate!WorkerAssumption
<1>2. /\ gatePc
         \in [Workers -> {"idle", "gate", "read", "run", "block", "ack"}]
      /\ job \in [Workers -> DependencyGate!Jobs \cup {None}]
      /\ active \in [Kinds -> Targets \cup {None}]
  BY DEF DependencyGate!TypeOK
<1>3. CASE (\E t \in Targets : DependencyGate!Ask(t)) \/ DependencyGate!Enqueue
           \/ UNCHANGED DependencyGate!vars
  <2>1. UNCHANGED <<gatePc, job, active>>
    BY <1>3 DEF DependencyGate!Ask, DependencyGate!Enqueue, DependencyGate!vars
  <2> QED
    BY <2>1 DEF DependencyGate!WorkFits
<1>4. CASE DependencyGate!Claim(u)
  <2>1. PICK i \in 1 .. Len(queue) :
          /\ job' = [job EXCEPT ![u] = queue[i]]
          /\ active' = [active EXCEPT ![queue[i].kind] = queue[i].target]
          /\ queue' = DependencyGate!Without(queue[i].kind)
          /\ DependencyGate!Goto(u,
               IF DependencyGate!DependsOn(queue[i].kind) = None
                   THEN "run" ELSE "gate")
    BY <1>4 DEF DependencyGate!Claim
  <2>2. queue[i] \in DependencyGate!Jobs /\ queue[i].kind \in Kinds
    BY <2>1, ClaimQueue
  <2>3. \A k \in Kinds : active[k] = None
    BY <1>1, <1>4 DEF DependencyGate!Claim, DependencyGate!WorkFits
  <2> QED
    BY <1>1, <1>2, <2>1, <2>2, <2>3 DEF DependencyGate!Goto,
                                        DependencyGate!WorkFits
<1>5. CASE DependencyGate!ReadManifest(u)
  BY <1>1, <1>2, <1>5 DEF DependencyGate!ReadManifest, DependencyGate!Goto,
                          DependencyGate!WorkFits
<1>6. CASE gatePc[u] # "idle" /\ DependencyGate!Retry(u)
  <2>1. /\ active' = [active EXCEPT ![job[u].kind] = None]
        /\ job' = [job EXCEPT ![u] = None]
        /\ gatePc' = [gatePc EXCEPT ![u] = "idle"]
    BY <1>6 DEF DependencyGate!Retry, DependencyGate!Goto
  <2> QED
    BY <1>1, <1>2, <1>6, <2>1 DEF DependencyGate!WorkFits
<1>7. CASE DependencyGate!Decide(u)
  <2>1. CASE DependencyGate!Retry(u)
    BY <1>6, <1>7, <2>1 DEF DependencyGate!Decide
  <2>2. CASE ~DependencyGate!Retry(u)
    BY <1>1, <1>2, <1>7, <2>2 DEF DependencyGate!Decide, DependencyGate!Goto,
                                  DependencyGate!WorkFits
  <2> QED
    BY <2>1, <2>2
<1>8. CASE DependencyGate!RetryableEnd(u)
  BY <1>6, <1>8 DEF DependencyGate!RetryableEnd
<1>9. CASE DependencyGate!Publish(u)
  BY <1>1, <1>2, <1>9 DEF DependencyGate!Publish, DependencyGate!Goto,
                          DependencyGate!WorkFits
<1>10. CASE DependencyGate!Ack(u)
  BY <1>1, <1>2, <1>10 DEF DependencyGate!Ack, DependencyGate!Goto,
                           DependencyGate!WorkFits
<1> QED
  BY <1>1, <1>3, <1>4, <1>5, <1>7, <1>8, <1>9, <1>10
     DEF DependencyGate!Next, DependencyGate!Work

\* What the gate has seen stays what the manifest says: the worker that saw it
\* is the one that writes it.
LEMMA GateSeenNext ==
  ASSUME DependencyGate!KindAssumption, DependencyGate!NoneAssumption,
         DependencyGate!WorkerAssumption, DependencyGate!IInv,
             [DependencyGate!Next]_(DependencyGate!vars)
  PROVE  DependencyGate!SeenFits'
<1> USE DEF DependencyGate!IInv
<1>1. PICK u \in Workers : Workers = {u}
  BY DEF DependencyGate!WorkerAssumption
<1>2. /\ gatePc
         \in [Workers -> {"idle", "gate", "read", "run", "block", "ack"}]
      /\ job \in [Workers -> DependencyGate!Jobs \cup {None}]
      /\ seen \in [Workers -> DependencyGate!Builds \cup {None}]
  BY DEF DependencyGate!TypeOK
<1>3. CASE (\E t \in Targets : DependencyGate!Ask(t)) \/ DependencyGate!Enqueue
           \/ UNCHANGED DependencyGate!vars
  <2>1. UNCHANGED <<gatePc, job, manifest, seen>>
    BY <1>3 DEF DependencyGate!Ask, DependencyGate!Enqueue, DependencyGate!vars
  <2> QED
    BY <2>1 DEF DependencyGate!SeenFits, DependencyGate!SeenAtTarget
<1>4. CASE DependencyGate!Claim(u)
  <2>1. PICK i \in 1 .. Len(queue) :
          /\ job' = [job EXCEPT ![u] = queue[i]]
          /\ DependencyGate!Goto(u,
               IF DependencyGate!DependsOn(queue[i].kind) = None
                   THEN "run" ELSE "gate")
    BY <1>4 DEF DependencyGate!Claim
  <2> QED
    BY <1>1, <1>2, <1>4, <2>1 DEF DependencyGate!Claim, DependencyGate!Goto,
                                  DependencyGate!SeenFits
<1>5. CASE DependencyGate!ReadManifest(u)
  <2>1. DependencyGate!DependsOn(job[u].kind) = "codegraph"
    BY <1>5 DEF DependencyGate!ReadManifest, DependencyGate!WorkFits,
                DependencyGate!DependsOn
  <2> QED
    BY <1>1, <1>2, <1>5, <2>1
       DEF DependencyGate!ReadManifest, DependencyGate!Goto,
           DependencyGate!SeenFits
<1>6. CASE gatePc[u] # "idle" /\ DependencyGate!Retry(u)
  BY <1>1, <1>2, <1>6 DEF DependencyGate!Retry, DependencyGate!Goto,
                          DependencyGate!SeenFits
<1>7. CASE DependencyGate!Decide(u)
  <2>1. CASE DependencyGate!Retry(u)
    BY <1>6, <1>7, <2>1 DEF DependencyGate!Decide
  <2>2. CASE ~DependencyGate!Retry(u)
    BY <1>1, <1>2, <1>7, <2>2 DEF DependencyGate!Decide, DependencyGate!Goto,
                                  DependencyGate!SeenFits,
                                  DependencyGate!SeenAtTarget,
                                  DependencyGate!Runs, DependencyGate!Blocks
  <2> QED
    BY <2>1, <2>2
<1>8. CASE DependencyGate!RetryableEnd(u)
  BY <1>6, <1>8 DEF DependencyGate!RetryableEnd
<1>9. CASE DependencyGate!Publish(u)
  BY <1>1, <1>2, <1>9 DEF DependencyGate!Publish, DependencyGate!Goto,
                          DependencyGate!SeenFits
<1>10. CASE DependencyGate!Ack(u)
  BY <1>1, <1>2, <1>10 DEF DependencyGate!Ack, DependencyGate!Goto,
                           DependencyGate!SeenFits
<1> QED
  BY <1>1, <1>3, <1>4, <1>5, <1>7, <1>8, <1>9, <1>10
     DEF DependencyGate!Next, DependencyGate!Work

\* A producer asks for each kind once.
LEMMA AskedOnce ==
  ASSUME asking \subseteq DependencyGate!Jobs, DependencyGate!AskFits,
         NEW i \in asking, NEW j \in asking, i.kind = j.kind
  PROVE  i = j
BY DEF DependencyGate!AskFits, DependencyGate!Jobs

\* The kinds have their own places in the order.
LEMMA RankOrder ==
  ASSUME DependencyGate!KindAssumption, NEW k \in Kinds, NEW l \in Kinds
  PROVE  /\ DependencyGate!Rank(k) \in Nat
         /\ DependencyGate!Rank(k) = DependencyGate!Rank(l) => k = l
         /\ DependencyGate!DependsOn(k) # None
            => DependencyGate!Rank("codegraph") <= DependencyGate!Rank(k)
BY DEF DependencyGate!KindAssumption, DependencyGate!Rank,
       DependencyGate!DependsOn

\* A producer has left what comes last.
LEMMA GateAskNext ==
  ASSUME DependencyGate!KindAssumption, DependencyGate!NoneAssumption,
         DependencyGate!IInv, [DependencyGate!Next]_(DependencyGate!vars)
  PROVE  DependencyGate!AskFits'
<1> USE DEF DependencyGate!IInv
<1>1. CASE UNCHANGED asking
  BY <1>1 DEF DependencyGate!AskFits, DependencyGate!Asked
<1>2. ASSUME NEW t \in Targets, DependencyGate!Ask(t)
      PROVE  DependencyGate!AskFits'
  <2>1. asking' = DependencyGate!Group(t)
    BY <1>2 DEF DependencyGate!Ask
  <2>2. \A k \in Kinds : \E j \in DependencyGate!Group(t) : j.kind = k
    <3> TAKE k \in Kinds
    <3>1. [kind |-> k, target |-> t] \in DependencyGate!Group(t)
      BY DEF DependencyGate!Group
    <3> QED
      BY <3>1
  <2>3. \A j \in DependencyGate!Group(t) : j.target = t
    BY DEF DependencyGate!Group
  <2> QED
    BY <2>1, <2>2, <2>3 DEF DependencyGate!AskFits, DependencyGate!Asked
<1>3. CASE DependencyGate!Enqueue
  <2>1. PICK j \in asking :
             /\ \A i \in asking :
                  DependencyGate!Rank(j.kind) <= DependencyGate!Rank(i.kind)
                            /\ asking' = asking \ {j}
    BY <1>3 DEF DependencyGate!Enqueue
  <2>2. asking \subseteq DependencyGate!Jobs
    BY DEF DependencyGate!TypeOK
  <2>3. ASSUME NEW i \in asking', NEW k \in Kinds,
               DependencyGate!Rank(i.kind) <= DependencyGate!Rank(k)
        PROVE  \E h \in asking' : h.kind = k
    <3>1. i \in asking /\ i # j /\ i.kind \in Kinds /\ j.kind \in Kinds
      BY <2>1, <2>2, <2>3 DEF DependencyGate!Jobs
    <3>2. PICK h \in asking : h.kind = k
      BY <2>3, <3>1 DEF DependencyGate!AskFits, DependencyGate!Asked
    <3>3. h # j
      <4>1. SUFFICES ASSUME k = j.kind
                     PROVE  FALSE
        BY <3>2
      <4>2. DependencyGate!Rank(i.kind) = DependencyGate!Rank(j.kind)
        BY <2>1, <2>3, <3>1, <4>1, RankOrder
      <4> QED
        BY <2>2, <3>1, <4>2, RankOrder, AskedOnce
    <3> QED
      BY <2>1, <3>2, <3>3
  <2>4. \A i, h \in asking' : h.target = i.target
    BY <2>1 DEF DependencyGate!AskFits
  <2> QED
    BY <2>3, <2>4 DEF DependencyGate!AskFits, DependencyGate!Asked
<1> QED
  BY <1>1, <1>2, <1>3 DEF DependencyGate!Next, DependencyGate!Work,
                          DependencyGate!Claim, DependencyGate!ReadManifest,
                          DependencyGate!Decide, DependencyGate!RetryableEnd,
                          DependencyGate!Publish, DependencyGate!Ack,
                          DependencyGate!vars

\* When a producer has begun, every kind is asked for.
LEMMA GroupAsksAll ==
  ASSUME NEW t \in Targets, NEW k \in Kinds
  PROVE  \E j \in DependencyGate!Group(t) : j.kind = k
<1>1. [kind |-> k, target |-> t] \in DependencyGate!Group(t)
  BY DEF DependencyGate!Group
<1> QED
  BY <1>1

\* All kinds come to the same target, but while a producer is at work: a worker
\* that claims, retries or publishes does not change what a kind comes to.
LEMMA GateWantedNext ==
  ASSUME DependencyGate!KindAssumption, DependencyGate!NoneAssumption,
         DependencyGate!WorkerAssumption, DependencyGate!IInv,
             [DependencyGate!Next]_(DependencyGate!vars)
  PROVE  DependencyGate!WantedFits'
<1> USE DEF DependencyGate!IInv
<1>1. PICK u \in Workers : Workers = {u}
  BY DEF DependencyGate!WorkerAssumption
<1>2. /\ gatePc
         \in [Workers -> {"idle", "gate", "read", "run", "block", "ack"}]
      /\ job \in [Workers -> DependencyGate!Jobs \cup {None}]
      /\ active \in [Kinds -> Targets \cup {None}]
      /\ manifest \in [Kinds -> DependencyGate!Builds \cup {None}]
      /\ asking \subseteq DependencyGate!Jobs
  BY DEF DependencyGate!TypeOK
<1>3. None \notin Targets /\ None \notin DependencyGate!Builds
  BY DEF DependencyGate!NoneAssumption
<1>4. CASE UNCHANGED DependencyGate!vars
  BY <1>4 DEF DependencyGate!vars, DependencyGate!WantedFits,
              DependencyGate!Wanted, DependencyGate!PendingTarget,
              DependencyGate!Asked
<1>5. ASSUME NEW t \in Targets, DependencyGate!Ask(t)
      PROVE  DependencyGate!WantedFits'
  <2>1. /\ asking = {} /\ asking' = DependencyGate!Group(t)
        /\ UNCHANGED <<queue, active, manifest, gatePc, job>>
    BY <1>5 DEF DependencyGate!Ask
  <2>2. \A k, l \in Kinds : DependencyGate!Wanted(k) = DependencyGate!Wanted(l)
    BY <2>1 DEF DependencyGate!WantedFits, DependencyGate!Asked
  <2>3. \A k \in Kinds : \E j \in asking' : j.kind = k
    BY <2>1, GroupAsksAll
  <2> QED
    BY <2>1, <2>2, <2>3 DEF DependencyGate!WantedFits, DependencyGate!Wanted,
                            DependencyGate!PendingTarget, DependencyGate!Asked
<1>6. CASE DependencyGate!Enqueue
  <2>1. PICK j \in asking :
             /\ queue' = Append(DependencyGate!Without(j.kind), j)
                            /\ asking' = asking \ {j}
    BY <1>6 DEF DependencyGate!Enqueue
  <2>2. UNCHANGED <<active, manifest, gatePc, job>>
    BY <1>6 DEF DependencyGate!Enqueue
  <2>3. /\ j.kind \in Kinds /\ j.target \in Targets
        /\ DependencyGate!TargetIn(queue', j.kind) = j.target
        /\ \A l \in Kinds \ {j.kind} :
             DependencyGate!TargetIn(queue', l)
               = DependencyGate!TargetIn(queue, l)
    BY <2>1, EnqueueQueue
  <2>4. /\ DependencyGate!Wanted(j.kind)' = j.target
        /\ \A l \in Kinds \ {j.kind} :
             DependencyGate!Wanted(l)' = DependencyGate!Wanted(l)
    BY <1>3, <2>2, <2>3 DEF DependencyGate!Wanted, DependencyGate!PendingTarget
  <2>5. /\ ~ DependencyGate!Asked(j.kind)'
        /\ \A l \in Kinds \ {j.kind} :
             DependencyGate!Asked(l)' <=> DependencyGate!Asked(l)
    BY <1>2, <2>1, AskedOnce DEF DependencyGate!Asked
  <2>6. DependencyGate!Asked(j.kind)
    BY DEF DependencyGate!Asked
  <2>7. \A i \in asking : i.target = j.target
    BY DEF DependencyGate!AskFits
  <2>8. \A k, l \in Kinds :
          (DependencyGate!Asked(k)' <=> DependencyGate!Asked(l)')
            => DependencyGate!Wanted(k)' = DependencyGate!Wanted(l)'
    BY <2>3, <2>4, <2>5, <2>6 DEF DependencyGate!WantedFits
  <2>9. \A i \in asking', k \in Kinds : ~DependencyGate!Asked(k)'
        => DependencyGate!Wanted(k)' = i.target
    BY <2>1, <2>3, <2>4, <2>5, <2>7 DEF DependencyGate!WantedFits
  <2>10. \A w \in Workers : gatePc'[w] = "ack" =>
           \/ DependencyGate!TargetIn(queue', job'[w].kind) # None
           \/ manifest'[job'[w].kind] # None
              /\ manifest'[job'[w].kind].target = job'[w].target
    <3> TAKE w \in Workers
    <3>1. HAVE gatePc'[w] = "ack"
    <3>2. job[w].kind \in Kinds
      BY <2>2, <3>1 DEF DependencyGate!WorkFits, DependencyGate!Jobs
    <3> QED
      BY <1>3, <2>2, <2>3, <3>1, <3>2
         DEF DependencyGate!WantedFits, DependencyGate!PendingTarget
  <2> QED
    BY <2>8, <2>9, <2>10 DEF DependencyGate!WantedFits,
                             DependencyGate!PendingTarget
<1>7. CASE DependencyGate!Claim(u)
  <2>1. PICK i \in 1 .. Len(queue) :
          /\ DependencyGate!Claimable(i)
          /\ job' = [job EXCEPT ![u] = queue[i]]
          /\ active' = [active EXCEPT ![queue[i].kind] = queue[i].target]
          /\ queue' = DependencyGate!Without(queue[i].kind)
          /\ DependencyGate!Goto(u,
               IF DependencyGate!DependsOn(queue[i].kind) = None
                   THEN "run" ELSE "gate")
    BY <1>7 DEF DependencyGate!Claim
  <2>2. UNCHANGED <<asking, manifest>>
    BY <1>7 DEF DependencyGate!Claim
  <2>3. /\ queue[i].kind \in Kinds /\ queue[i].target \in Targets
        /\ DependencyGate!TargetIn(queue, queue[i].kind) = queue[i].target
        /\ DependencyGate!TargetIn(queue', queue[i].kind) = None
        /\ \A l \in Kinds \ {queue[i].kind} :
             DependencyGate!TargetIn(queue', l)
               = DependencyGate!TargetIn(queue, l)
    BY <2>1, ClaimQueue
  <2>4. \A k \in Kinds : DependencyGate!Wanted(k)' = DependencyGate!Wanted(k)
    BY <1>2, <1>3, <2>1, <2>2, <2>3
       DEF DependencyGate!Wanted, DependencyGate!PendingTarget
  <2>5. \A w \in Workers : gatePc'[w] # "ack"
    BY <1>1, <1>2, <2>1 DEF DependencyGate!Goto
  <2> QED
    BY <2>2, <2>4, <2>5 DEF DependencyGate!WantedFits, DependencyGate!Asked
<1>8. CASE UNCHANGED <<queue, active, manifest, asking, job>>
           /\ gatePc'[u] # "ack"
  BY <1>1, <1>8 DEF DependencyGate!WantedFits, DependencyGate!Wanted,
                    DependencyGate!PendingTarget, DependencyGate!Asked
<1>9. CASE DependencyGate!ReadManifest(u)
  BY <1>2, <1>8, <1>9 DEF DependencyGate!ReadManifest, DependencyGate!Goto
<1>10. CASE gatePc[u] # "idle" /\ DependencyGate!Retry(u)
            /\ UNCHANGED <<manifest, asking>>
  <2>1. /\ active' = [active EXCEPT ![job[u].kind] = None]
        /\ gatePc' = [gatePc EXCEPT ![u] = "idle"]
    BY <1>10 DEF DependencyGate!Retry, DependencyGate!Goto
  <2>2. /\ job[u].kind \in Kinds
        /\ DependencyGate!TargetIn(queue', job[u].kind) =
             IF DependencyGate!TargetIn(queue, job[u].kind) # None
                 THEN DependencyGate!TargetIn(queue, job[u].kind)
             ELSE active[job[u].kind]
        /\ DependencyGate!TargetIn(queue', job[u].kind) \in Targets
        /\ active[job[u].kind] \in Targets
        /\ \A l \in Kinds \ {job[u].kind} :
             DependencyGate!TargetIn(queue', l)
               = DependencyGate!TargetIn(queue, l)
    BY <1>10, RetryQueue
  <2>3. \A k \in Kinds : DependencyGate!Wanted(k)' = DependencyGate!Wanted(k)
    BY <1>2, <1>3, <1>10, <2>1, <2>2
       DEF DependencyGate!Wanted, DependencyGate!PendingTarget
  <2>4. \A w \in Workers : gatePc'[w] # "ack"
    BY <1>1, <1>2, <2>1
  <2> QED
    BY <1>10, <2>3, <2>4 DEF DependencyGate!WantedFits, DependencyGate!Asked
<1>11. CASE DependencyGate!Decide(u)
  <2>1. CASE DependencyGate!Retry(u)
    BY <1>10, <1>11, <2>1 DEF DependencyGate!Decide
  <2>2. CASE ~DependencyGate!Retry(u)
    BY <1>2, <1>8, <1>11, <2>2 DEF DependencyGate!Decide, DependencyGate!Goto
  <2> QED
    BY <2>1, <2>2
<1>12. CASE DependencyGate!RetryableEnd(u)
  BY <1>10, <1>12 DEF DependencyGate!RetryableEnd
<1>13. CASE DependencyGate!Publish(u)
  <2>1. UNCHANGED <<queue, active, asking, job>>
        /\ gatePc' = [gatePc EXCEPT ![u] = "ack"]
    BY <1>13 DEF DependencyGate!Publish, DependencyGate!Goto
  <2>2. /\ job[u] \in DependencyGate!Jobs /\ job[u].kind \in Kinds
        /\ job[u].target \in Targets
        /\ active[job[u].kind] = job[u].target
    BY <1>13 DEF DependencyGate!Publish, DependencyGate!WorkFits,
                 DependencyGate!Jobs
  <2>3. \A k \in Kinds \ {job[u].kind} : manifest'[k] = manifest[k]
    BY <1>2, <1>13 DEF DependencyGate!Publish
  <2>4. \A k \in Kinds : DependencyGate!Wanted(k)' = DependencyGate!Wanted(k)
    BY <1>3, <2>1, <2>2, <2>3 DEF DependencyGate!Wanted,
                                  DependencyGate!PendingTarget
  <2>5. \/ DependencyGate!TargetIn(queue, job[u].kind) # None
        \/ manifest'[job[u].kind] # None
           /\ manifest'[job[u].kind].target = job[u].target
    <3>1. CASE DependencyGate!Superseded(u)
      BY <3>1 DEF DependencyGate!Superseded, DependencyGate!PendingTarget
    <3>2. CASE ~DependencyGate!Superseded(u)
      <4>1. manifest'[job[u].kind].target = job[u].target
        BY <1>2, <1>13, <2>2, <3>2 DEF DependencyGate!Publish
      <4>2. manifest'[job[u].kind] \in DependencyGate!Builds \cup {None}
        BY <2>2, GateTypeNext DEF DependencyGate!TypeOK
      <4>3. PICK status \in {"ok", "failed", "blocked"} :
              manifest'[job[u].kind] =
                [target |-> job[u].target, status |-> status,
                 dep |-> DependencyGate!DependencySnapshot(job[u].kind)]
        BY <1>2, <1>13, <2>2, <3>2 DEF DependencyGate!Publish
      <4>4. DependencyGate!DependencySnapshot(job[u].kind)
            \in Targets \cup {None}
        BY <1>2 DEF DependencyGate!DependencySnapshot, DependencyGate!Builds,
                    DependencyGate!KindAssumption
      <4>5. manifest'[job[u].kind] \in DependencyGate!Builds
        BY <2>2, <4>3, <4>4 DEF DependencyGate!Builds
      <4> QED
        BY <1>3, <4>1, <4>5
    <3> QED
      BY <3>1, <3>2
  <2>6. \A w \in Workers : gatePc'[w] = "ack" =>
           \/ DependencyGate!TargetIn(queue', job'[w].kind) # None
           \/ manifest'[job'[w].kind] # None
              /\ manifest'[job'[w].kind].target = job'[w].target
    BY <1>1, <2>1, <2>5
  <2> QED
    BY <2>1, <2>4, <2>6 DEF DependencyGate!WantedFits,
                            DependencyGate!PendingTarget, DependencyGate!Asked
<1>14. CASE DependencyGate!Ack(u)
  <2>1. /\ UNCHANGED <<queue, manifest, asking>> /\ gatePc[u] = "ack"
        /\ gatePc' = [gatePc EXCEPT ![u] = "idle"]
        /\ active' = [active EXCEPT ![job[u].kind] = None]
    BY <1>14 DEF DependencyGate!Ack, DependencyGate!Goto
  <2>2. /\ job[u].kind \in Kinds /\ job[u].target \in Targets
        /\ active[job[u].kind] = job[u].target
    BY <2>1 DEF DependencyGate!WorkFits, DependencyGate!Jobs
  <2>3. \/ DependencyGate!TargetIn(queue, job[u].kind) # None
        \/ manifest[job[u].kind] # None
           /\ manifest[job[u].kind].target = job[u].target
    BY <2>1 DEF DependencyGate!WantedFits, DependencyGate!PendingTarget
  <2>4. \A k \in Kinds : DependencyGate!Wanted(k)' = DependencyGate!Wanted(k)
    BY <1>2, <1>3, <2>1, <2>2, <2>3
       DEF DependencyGate!Wanted, DependencyGate!PendingTarget
  <2>5. \A w \in Workers : gatePc'[w] # "ack"
    BY <1>1, <1>2, <2>1
  <2> QED
    BY <2>1, <2>4, <2>5 DEF DependencyGate!WantedFits, DependencyGate!Asked
<1> QED
  BY <1>1, <1>4, <1>5, <1>6, <1>7, <1>9, <1>11, <1>12, <1>13, <1>14
     DEF DependencyGate!Next, DependencyGate!Work

\* What a worker publishes of its job: nothing if a newer request replaced it,
\* and a block only where the gate told it so.
LEMMA PublishWrites ==
  ASSUME DependencyGate!KindAssumption, DependencyGate!NoneAssumption,
         DependencyGate!IInv, NEW w \in Workers, DependencyGate!Publish(w)
  PROVE  /\ gatePc[w] \in {"run", "block"}
         /\ gatePc' = [gatePc EXCEPT ![w] = "ack"]
         /\ UNCHANGED <<queue, active, asking, job>>
         /\ job[w].kind \in Kinds /\ active[job[w].kind] \in Targets
         /\ \A k \in Kinds \ {job[w].kind} : manifest'[k] = manifest[k]
         /\ \/ DependencyGate!Superseded(w) /\ manifest' = manifest
            \/ /\ manifest'[job[w].kind] # None
               /\ manifest'[job[w].kind].target = job[w].target
               /\ manifest'[job[w].kind].dep
                  = DependencyGate!DependencySnapshot(job[w].kind)
               /\ IF gatePc[w] = "block"
                    THEN manifest'[job[w].kind].status = "blocked"
                  ELSE manifest'[job[w].kind].status \in {"ok", "failed"}
<1> USE DEF DependencyGate!IInv
<1>1. manifest \in [Kinds -> DependencyGate!Builds \cup {None}]
  BY DEF DependencyGate!TypeOK
<1>2. job[w] \in DependencyGate!Jobs /\ active[job[w].kind] = job[w].target
  BY DEF DependencyGate!Publish, DependencyGate!WorkFits
<1>3. job[w].kind \in Kinds /\ job[w].target \in Targets
  BY <1>2 DEF DependencyGate!Jobs
<1>4. DependencyGate!DependencySnapshot(job[w].kind) \in Targets \cup {None}
  BY <1>1 DEF DependencyGate!DependencySnapshot, DependencyGate!Builds,
              DependencyGate!KindAssumption
<1>5. CASE DependencyGate!Superseded(w)
  BY <1>2, <1>3, <1>5 DEF DependencyGate!Publish, DependencyGate!Goto
<1>6. CASE ~DependencyGate!Superseded(w)
  <2>1. PICK status \in IF gatePc[w] = "block"
               THEN {"blocked"} ELSE {"ok", "failed"} :
          manifest' = [manifest EXCEPT ![job[w].kind] =
            [target |-> job[w].target, status |-> status,
             dep |-> DependencyGate!DependencySnapshot(job[w].kind)]]
    BY <1>6 DEF DependencyGate!Publish
  <2> DEFINE b == [target |-> job[w].target, status |-> status,
                   dep |-> DependencyGate!DependencySnapshot(job[w].kind)]
  <2>2. manifest'[job[w].kind] = b
    BY <1>1, <1>3, <2>1
  <2>3. status \in {"ok", "failed", "blocked"}
    BY <2>1
  <2>4. b \in DependencyGate!Builds
    BY <1>3, <1>4, <2>3 DEF DependencyGate!Builds
  <2>5. b # None
    BY <2>4 DEF DependencyGate!NoneAssumption
  <2> QED
    BY <1>1, <1>2, <1>3, <2>1, <2>2, <2>5
       DEF DependencyGate!Publish, DependencyGate!Goto
<1> QED
  BY <1>5, <1>6

\* A blocked index stays blocked only while its codegraph stays failed.
LEMMA GateBlockNext ==
  ASSUME DependencyGate!KindAssumption, DependencyGate!NoneAssumption,
         DependencyGate!WorkerAssumption, DependencyGate!IInv,
             [DependencyGate!Next]_(DependencyGate!vars)
  PROVE  DependencyGate!BlockFits'
<1> USE DEF DependencyGate!IInv
<1>1. PICK u \in Workers : Workers = {u}
  BY DEF DependencyGate!WorkerAssumption
<1>2. /\ gatePc
         \in [Workers -> {"idle", "gate", "read", "run", "block", "ack"}]
      /\ job \in [Workers -> DependencyGate!Jobs \cup {None}]
      /\ active \in [Kinds -> Targets \cup {None}]
      /\ manifest \in [Kinds -> DependencyGate!Builds \cup {None}]
      /\ asking \subseteq DependencyGate!Jobs
  BY DEF DependencyGate!TypeOK
<1>3. None \notin Targets /\ None \notin DependencyGate!Builds
      /\ "codegraph" \in Kinds
  BY DEF DependencyGate!NoneAssumption, DependencyGate!KindAssumption
<1>4. CASE UNCHANGED DependencyGate!vars
  BY <1>4 DEF DependencyGate!vars, DependencyGate!BlockFits,
              DependencyGate!StaysFailed, DependencyGate!PendingTarget,
              DependencyGate!Asked
<1>5. ASSUME NEW t \in Targets, DependencyGate!Ask(t)
      PROVE  DependencyGate!BlockFits'
  <2>1. /\ asking' = DependencyGate!Group(t)
        /\ UNCHANGED <<queue, active, manifest, gatePc, job>>
    BY <1>5 DEF DependencyGate!Ask
  <2>2. \A k \in Kinds : DependencyGate!Asked(k)'
    BY <2>1, GroupAsksAll DEF DependencyGate!Asked
  <2>3. gatePc[u] = "block" => job[u].kind \in Kinds
    BY DEF DependencyGate!WorkFits, DependencyGate!Jobs
  <2> QED
    BY <1>1, <2>1, <2>2, <2>3 DEF DependencyGate!BlockFits
<1>6. CASE DependencyGate!Enqueue
  <2>1. PICK j \in asking :
             /\ queue' = Append(DependencyGate!Without(j.kind), j)
                            /\ asking' = asking \ {j}
    BY <1>6 DEF DependencyGate!Enqueue
  <2>2. UNCHANGED <<active, manifest, gatePc, job>>
    BY <1>6 DEF DependencyGate!Enqueue
  <2>3. /\ j.kind \in Kinds /\ j.target \in Targets
        /\ DependencyGate!TargetIn(queue', j.kind) = j.target
        /\ \A l \in Kinds \ {j.kind} :
             DependencyGate!TargetIn(queue', l)
               = DependencyGate!TargetIn(queue, l)
    BY <2>1, EnqueueQueue
  <2>4. \A l \in Kinds \ {j.kind} :
          DependencyGate!Asked(l)' <=> DependencyGate!Asked(l)
    BY <2>1 DEF DependencyGate!Asked
  <2>5. \A l \in Kinds : DependencyGate!PendingTarget(l) # None
        \/ DependencyGate!Asked(l)
                         => DependencyGate!PendingTarget(l)' # None
                           \/ DependencyGate!Asked(l)'
    BY <1>3, <2>3, <2>4 DEF DependencyGate!PendingTarget
  <2>6. DependencyGate!StaysFailed => DependencyGate!StaysFailed'
    <3>1. DependencyGate!Asked(j.kind)
      BY DEF DependencyGate!Asked
    <3> QED
      BY <1>3, <2>2, <2>3, <2>4, <3>1
         DEF DependencyGate!StaysFailed, DependencyGate!PendingTarget
  <2>7. gatePc[u] = "block" => job[u].kind \in Kinds
    BY DEF DependencyGate!WorkFits, DependencyGate!Jobs
  <2> QED
    BY <1>1, <2>2, <2>5, <2>6, <2>7 DEF DependencyGate!BlockFits
<1>7. CASE DependencyGate!Claim(u)
  <2>1. PICK i \in 1 .. Len(queue) :
          /\ job' = [job EXCEPT ![u] = queue[i]]
          /\ active' = [active EXCEPT ![queue[i].kind] = queue[i].target]
          /\ queue' = DependencyGate!Without(queue[i].kind)
          /\ DependencyGate!Goto(u,
               IF DependencyGate!DependsOn(queue[i].kind) = None
                   THEN "run" ELSE "gate")
    BY <1>7 DEF DependencyGate!Claim
  <2>2. UNCHANGED <<asking, manifest>> /\ gatePc[u] = "idle"
    BY <1>7 DEF DependencyGate!Claim
  <2>3. /\ queue[i].kind \in Kinds /\ queue[i].target \in Targets
        /\ DependencyGate!TargetIn(queue, queue[i].kind) = queue[i].target
        /\ \A l \in Kinds \ {queue[i].kind} :
             DependencyGate!TargetIn(queue', l)
               = DependencyGate!TargetIn(queue, l)
    BY <2>1, ClaimQueue
  <2>4. gatePc'[u] \in {"run", "gate"} /\ job'[u].kind = queue[i].kind
    BY <1>2, <2>1 DEF DependencyGate!Goto
  <2>5. DependencyGate!StaysFailed => DependencyGate!StaysFailed'
    BY <1>2, <1>3, <2>1, <2>2, <2>3
       DEF DependencyGate!StaysFailed, DependencyGate!PendingTarget,
           DependencyGate!Asked
  <2>6. ASSUME NEW k \in Kinds, manifest[k] # None,
               manifest[k].status = "blocked"
        PROVE  \/ DependencyGate!PendingTarget(k)' # None
                  \/ DependencyGate!Asked(k)' \/ DependencyGate!StaysFailed'
               \/ k = queue[i].kind
    BY <1>1, <2>2, <2>3, <2>5, <2>6
       DEF DependencyGate!BlockFits, DependencyGate!PendingTarget,
           DependencyGate!Asked
  <2> QED
    BY <1>1, <2>2, <2>4, <2>6 DEF DependencyGate!BlockFits
<1>8. ASSUME UNCHANGED <<queue, active, manifest, asking, job>>,
             gatePc[u] # "idle", gatePc'[u] \notin {"idle", "ack"},
             gatePc'[u] = "block"
               => DependencyGate!PendingTarget(job[u].kind) # None
                                     \/ DependencyGate!Asked(job[u].kind)
                                        \/ DependencyGate!StaysFailed
      PROVE  DependencyGate!BlockFits'
  BY <1>1, <1>8 DEF DependencyGate!BlockFits, DependencyGate!StaysFailed,
                    DependencyGate!PendingTarget, DependencyGate!Asked
<1>9. CASE DependencyGate!ReadManifest(u)
  BY <1>2, <1>8, <1>9 DEF DependencyGate!ReadManifest, DependencyGate!Goto
<1>10. CASE gatePc[u] # "idle" /\ DependencyGate!Retry(u)
            /\ UNCHANGED <<manifest, asking>>
  <2>1. /\ active' = [active EXCEPT ![job[u].kind] = None]
        /\ gatePc' = [gatePc EXCEPT ![u] = "idle"]
    BY <1>10 DEF DependencyGate!Retry, DependencyGate!Goto
  <2>2. /\ job[u].kind \in Kinds
        /\ DependencyGate!TargetIn(queue', job[u].kind) \in Targets
        /\ active[job[u].kind] \in Targets
        /\ \A l \in Kinds \ {job[u].kind} :
             DependencyGate!TargetIn(queue', l)
               = DependencyGate!TargetIn(queue, l)
    BY <1>10, RetryQueue
  <2>3. DependencyGate!StaysFailed => DependencyGate!StaysFailed'
    BY <1>2, <1>3, <1>10, <2>1, <2>2
       DEF DependencyGate!StaysFailed, DependencyGate!PendingTarget,
           DependencyGate!Asked
  <2>4. ASSUME NEW k \in Kinds, manifest[k] # None,
               manifest[k].status = "blocked"
        PROVE  DependencyGate!PendingTarget(k)' # None
               \/ DependencyGate!Asked(k)' \/ DependencyGate!StaysFailed'
    BY <1>1, <1>3, <1>10, <2>2, <2>3, <2>4
       DEF DependencyGate!BlockFits, DependencyGate!PendingTarget,
           DependencyGate!Asked
  <2> QED
    BY <1>1, <1>2, <1>10, <2>1, <2>4 DEF DependencyGate!BlockFits
<1>11. CASE DependencyGate!Decide(u)
  <2>1. CASE DependencyGate!Retry(u)
    BY <1>10, <1>11, <2>1 DEF DependencyGate!Decide
  <2>2. CASE DependencyGate!Runs(u) /\ DependencyGate!Goto(u, "run")
             /\ UNCHANGED <<queue, active, job, seen>>
    BY <1>2, <1>8, <1>11, <2>2 DEF DependencyGate!Decide, DependencyGate!Goto
  <2>3. CASE DependencyGate!Blocks(u) /\ DependencyGate!Goto(u, "block")
             /\ UNCHANGED <<queue, active, job, seen>>
    <3>1. /\ gatePc[u] = "read" /\ seen[u] = manifest["codegraph"]
          /\ DependencyGate!DependsOn(job[u].kind) # None
          /\ job[u].kind \in Kinds
          /\ DependencyGate!DependsOn(job[u].kind) = "codegraph"
      BY <1>11 DEF DependencyGate!Decide, DependencyGate!SeenFits,
                   DependencyGate!WorkFits, DependencyGate!DependsOn,
                   DependencyGate!Jobs
    <3>2. manifest["codegraph"] # None
          /\ manifest["codegraph"].status = "failed"
      BY <1>3, <2>3, <3>1 DEF DependencyGate!Blocks,
                              DependencyGate!SeenAtTarget,
                              DependencyGate!BlockFits
    <3>3. active["codegraph"] = None
          /\ DependencyGate!PendingTarget("codegraph") = None
      BY <2>3, <3>1 DEF DependencyGate!Blocks, DependencyGate!DependencyAbsent
    <3>4. DependencyGate!Asked("codegraph")
          => DependencyGate!Asked(job[u].kind)
      <4>1. DependencyGate!Rank("codegraph")
              <= DependencyGate!Rank(job[u].kind)
        BY <3>1, RankOrder
      <4> QED
        BY <3>1, <4>1 DEF DependencyGate!Asked, DependencyGate!AskFits
    <3>5. UNCHANGED <<queue, active, manifest, asking, job>>
          /\ gatePc'[u] = "block"
      BY <1>2, <1>11, <2>3 DEF DependencyGate!Decide, DependencyGate!Goto
    <3> QED
      BY <1>8, <3>1, <3>2, <3>3, <3>4, <3>5 DEF DependencyGate!StaysFailed
  <2> QED
    BY <1>11, <2>1, <2>2, <2>3 DEF DependencyGate!Decide
<1>12. CASE DependencyGate!RetryableEnd(u)
  BY <1>10, <1>12 DEF DependencyGate!RetryableEnd
<1>13. CASE DependencyGate!Publish(u)
  <2>1. /\ gatePc[u] \in {"run", "block"}
        /\ gatePc' = [gatePc EXCEPT ![u] = "ack"]
        /\ UNCHANGED <<queue, active, asking, job>>
        /\ job[u].kind \in Kinds /\ active[job[u].kind] \in Targets
        /\ \A k \in Kinds \ {job[u].kind} : manifest'[k] = manifest[k]
        /\ \/ DependencyGate!Superseded(u) /\ manifest' = manifest
           \/ IF gatePc[u] = "block"
                THEN manifest'[job[u].kind].status = "blocked"
              ELSE manifest'[job[u].kind].status \in {"ok", "failed"}
    BY <1>13, PublishWrites
  <2>2. DependencyGate!StaysFailed => job[u].kind # "codegraph"
    BY <1>3, <2>1 DEF DependencyGate!StaysFailed
  <2>3. DependencyGate!StaysFailed => DependencyGate!StaysFailed'
    BY <1>3, <2>1, <2>2 DEF DependencyGate!StaysFailed,
                            DependencyGate!PendingTarget, DependencyGate!Asked
  <2>4. gatePc[u] = "block" => job[u].kind # "codegraph"
    BY DEF DependencyGate!WorkFits, DependencyGate!DependsOn
  <2>5. manifest'["codegraph"] # None
        => manifest'["codegraph"].status # "blocked"
    BY <1>3, <2>1, <2>4 DEF DependencyGate!BlockFits
  <2>6. ASSUME NEW k \in Kinds, manifest'[k] # None,
               manifest'[k].status = "blocked"
        PROVE  DependencyGate!PendingTarget(k)' # None
               \/ DependencyGate!Asked(k)' \/ DependencyGate!StaysFailed'
    <3>1. CASE k = job[u].kind
      <4>1. CASE DependencyGate!Superseded(u)
        BY <2>1, <3>1, <4>1 DEF DependencyGate!Superseded,
                                DependencyGate!PendingTarget
      <4>2. CASE gatePc[u] = "block"
        BY <2>1, <2>3, <3>1, <4>2
           DEF DependencyGate!BlockFits, DependencyGate!PendingTarget,
               DependencyGate!Asked
      <4> QED
        BY <2>1, <2>6, <3>1, <4>1, <4>2
    <3>2. CASE k # job[u].kind
      BY <1>1, <2>1, <2>3, <2>6, <3>2
         DEF DependencyGate!BlockFits, DependencyGate!PendingTarget,
             DependencyGate!Asked
    <3> QED
      BY <3>1, <3>2
  <2>7. \A w \in Workers : gatePc'[w] = "ack"
    BY <1>1, <1>2, <2>1
  <2> QED
    BY <2>5, <2>6, <2>7 DEF DependencyGate!BlockFits
<1>14. CASE DependencyGate!Ack(u)
  <2>1. /\ UNCHANGED <<queue, manifest, asking>> /\ gatePc[u] = "ack"
        /\ gatePc' = [gatePc EXCEPT ![u] = "idle"]
        /\ active' = [active EXCEPT ![job[u].kind] = None]
    BY <1>14 DEF DependencyGate!Ack, DependencyGate!Goto
  <2>2. job[u].kind \in Kinds
    BY <2>1 DEF DependencyGate!WorkFits, DependencyGate!Jobs
  <2>3. DependencyGate!StaysFailed => DependencyGate!StaysFailed'
    BY <1>2, <1>3, <2>1, <2>2
       DEF DependencyGate!StaysFailed, DependencyGate!PendingTarget,
           DependencyGate!Asked
  <2> QED
    BY <1>1, <1>2, <2>1, <2>3 DEF DependencyGate!BlockFits,
                                  DependencyGate!PendingTarget,
                                  DependencyGate!Asked
<1> QED
  BY <1>1, <1>4, <1>5, <1>6, <1>7, <1>9, <1>11, <1>12, <1>13, <1>14
     DEF DependencyGate!Next, DependencyGate!Work

\* An index that was built names the codegraph of its own target.
LEMMA GateBuiltNext ==
  ASSUME DependencyGate!KindAssumption, DependencyGate!NoneAssumption,
         DependencyGate!IInv, [DependencyGate!Next]_(DependencyGate!vars)
  PROVE  DependencyGate!BuiltFromSameTarget'
<1> USE DEF DependencyGate!IInv
<1>1. CASE UNCHANGED manifest
  BY <1>1 DEF DependencyGate!BuiltFromSameTarget
<1>2. ASSUME NEW w \in Workers, DependencyGate!Publish(w)
      PROVE  DependencyGate!BuiltFromSameTarget'
  <2>1. /\ gatePc[w] \in {"run", "block"} /\ job[w].kind \in Kinds
        /\ \A k \in Kinds \ {job[w].kind} : manifest'[k] = manifest[k]
        /\ \/ manifest' = manifest
           \/ /\ manifest'[job[w].kind].target = job[w].target
              /\ manifest'[job[w].kind].dep
                 = DependencyGate!DependencySnapshot(job[w].kind)
              /\ gatePc[w] = "block"
                 => manifest'[job[w].kind].status = "blocked"
    BY <1>2, PublishWrites
  <2>2. job[w].kind = "code_vec" /\ gatePc[w] = "run" =>
          DependencyGate!DependencySnapshot(job[w].kind) = job[w].target
    <3>1. job[w].kind = "code_vec"
          => DependencyGate!DependsOn(job[w].kind) # None
      BY DEF DependencyGate!DependsOn, DependencyGate!KindAssumption,
             DependencyGate!NoneAssumption
    <3> QED
      BY <3>1 DEF DependencyGate!SeenFits, DependencyGate!SeenAtTarget,
                  DependencyGate!DependencySnapshot
  <2> QED
    BY <1>1, <2>1, <2>2 DEF DependencyGate!BuiltFromSameTarget
<1> QED
  BY <1>1, <1>2 DEF DependencyGate!Next, DependencyGate!Work,
                    DependencyGate!Ask, DependencyGate!Enqueue,
                    DependencyGate!Claim, DependencyGate!ReadManifest,
                    DependencyGate!Decide, DependencyGate!RetryableEnd,
                    DependencyGate!Ack, DependencyGate!vars

\* The invariant holds for any kinds, targets, requests and retries.
LEMMA GateNext ==
  ASSUME DependencyGate!KindAssumption, DependencyGate!NoneAssumption,
         DependencyGate!WorkerAssumption, DependencyGate!IInv,
             [DependencyGate!Next]_(DependencyGate!vars)
  PROVE  DependencyGate!IInv'
BY GateTypeNext, GateWorkNext, GateSeenNext, GateAskNext, GateWantedNext,
   GateBlockNext, GateBuiltNext DEF DependencyGate!IInv

\* When all work is done, every index is of the target asked for last.
LEMMA QuietWhenFit ==
  ASSUME DependencyGate!NoneAssumption, DependencyGate!WorkerAssumption,
         DependencyGate!IInv
  PROVE  DependencyGate!QuiescentConsistent
<1> SUFFICES ASSUME DependencyGate!Quiescent
             PROVE  DependencyGate!QuiescentConsistent
  BY DEF DependencyGate!QuiescentConsistent
<1>1. \A k \in Kinds : active[k] = None
  BY DEF DependencyGate!Quiescent, DependencyGate!IInv, DependencyGate!WorkFits
<1>2. \A k \in Kinds : DependencyGate!PendingTarget(k) = None
      /\ ~DependencyGate!Asked(k)
  <2>1. queue \in Seq(DependencyGate!Jobs) /\ 1 .. Len(queue) = {}
        /\ asking = {}
    BY DEF DependencyGate!Quiescent
  <2> QED
    BY <2>1, NoTarget DEF DependencyGate!PendingTarget, DependencyGate!Asked
<1>3. \A k \in Kinds :
        DependencyGate!Wanted(k) = IF manifest[k] # None
            THEN manifest[k].target ELSE None
  BY <1>1, <1>2 DEF DependencyGate!Wanted
<1>4. \A k, l \in Kinds : DependencyGate!Wanted(k) = DependencyGate!Wanted(l)
  BY <1>2 DEF DependencyGate!IInv, DependencyGate!WantedFits
<1>5. \A k \in Kinds : manifest[k] # None /\ manifest[k].status = "blocked"
      => DependencyGate!StaysFailed
  BY <1>2 DEF DependencyGate!IInv, DependencyGate!BlockFits,
              DependencyGate!Quiescent
<1>6. ASSUME NEW k \in Kinds, NEW l \in Kinds,
             manifest[k] # None, manifest[l] # None
      PROVE  manifest[k].target = manifest[l].target
  BY <1>3, <1>4, <1>6
<1>7. ASSUME NEW k \in Kinds, manifest[k] # None,
             manifest[k].status = "blocked"
      PROVE  manifest["codegraph"].status = "failed"
  BY <1>5, <1>7 DEF DependencyGate!StaysFailed
<1> QED
  BY <1>6, <1>7 DEF DependencyGate!QuiescentConsistent

\* A block is published only over a codegraph that failed for this target.
LEMMA BlockIsTrue ==
  ASSUME DependencyGate!KindAssumption, DependencyGate!NoneAssumption,
         DependencyGate!IInv, [DependencyGate!Next]_(DependencyGate!vars),
             NEW k \in Kinds,
         manifest'[k] # manifest[k], manifest'[k].status = "blocked"
  PROVE  /\ manifest["codegraph"] # None
         /\ manifest["codegraph"].target = manifest'[k].target
         /\ manifest["codegraph"].status # "ok"
<1>1. PICK w \in Workers : DependencyGate!Publish(w)
  BY DEF DependencyGate!Next, DependencyGate!Work, DependencyGate!Ask,
         DependencyGate!Enqueue, DependencyGate!Claim,
         DependencyGate!ReadManifest, DependencyGate!Decide,
         DependencyGate!RetryableEnd, DependencyGate!Ack, DependencyGate!vars
<1>2. /\ k = job[w].kind /\ manifest'[k].target = job[w].target
      /\ gatePc[w] = "block"
  BY <1>1, PublishWrites
<1> QED
  BY <1>2 DEF DependencyGate!IInv, DependencyGate!SeenFits,
              DependencyGate!SeenAtTarget

\* dependency_gate.py: the invariant of the gate, the worker and the producers
\* holds for any kinds, targets, requests and retries.
THEOREM GateInvariance ==
  ASSUME DependencyGate!KindAssumption, DependencyGate!BoundAssumption,
         DependencyGate!NoneAssumption, DependencyGate!WorkerAssumption
  PROVE  DependencyGate!Spec => []DependencyGate!IInv
<1>1. DependencyGate!Init => DependencyGate!IInv
  BY GateInit
<1>2. DependencyGate!IInv /\ [DependencyGate!Next]_(DependencyGate!vars)
      => DependencyGate!IInv'
  BY GateNext
<1> QED
  BY <1>1, <1>2, PTL DEF DependencyGate!Spec

\* When all work is done no index stands as blocked although its codegraph is
\* there, and every index is of the target that was asked for last.
THEOREM GateIsConsistent ==
  ASSUME DependencyGate!KindAssumption, DependencyGate!BoundAssumption,
         DependencyGate!NoneAssumption, DependencyGate!WorkerAssumption
  PROVE  DependencyGate!Spec
         => [](DependencyGate!QuiescentConsistent
             /\ DependencyGate!BuiltFromSameTarget)
<1>1. DependencyGate!IInv
      => DependencyGate!QuiescentConsistent
        /\ DependencyGate!BuiltFromSameTarget
  BY QuietWhenFit DEF DependencyGate!IInv
<1> QED
  BY <1>1, GateInvariance, PTL

\* evaluate: a block is put down to a codegraph that failed for this target,
\* and is so still when it is published.
THEOREM BlockedIsTrue ==
  ASSUME DependencyGate!KindAssumption, DependencyGate!BoundAssumption,
         DependencyGate!NoneAssumption, DependencyGate!WorkerAssumption
  PROVE  DependencyGate!Spec => DependencyGate!BlockedByFailure
<1>1. DependencyGate!IInv /\ [DependencyGate!Next]_(DependencyGate!vars) =>
        [\A k \in Kinds :
           manifest'[k] # manifest[k] /\ manifest'[k].status = "blocked" =>
             /\ manifest["codegraph"] # None
             /\ manifest["codegraph"].target = manifest'[k].target
             /\ manifest["codegraph"].status # "ok"]_(DependencyGate!vars)
  BY BlockIsTrue
<1> QED
  BY <1>1, GateInvariance, PTL DEF DependencyGate!Spec,
                                   DependencyGate!BlockedByFailure

-----------------------------------------------------------------------------
(***************************************************************************)
(* The run.  An instance of Queues_proof speaks of its own copies of the   *)
(* definitions; they are those of MCQueues.                                *)
(***************************************************************************)
\* The assumptions of PgQueue on its constants.
LEMMA CalmFits ==
  /\ OwnerOf \in [Procs -> Owners]
  /\ MaxNow \in Nat /\ ServerKills \in BOOLEAN
  /\ None \notin Keys \cup Targets \cup Procs \cup Owners
  /\ None \notin [token : 1 .. MaxNow, target : Targets]
  /\ None \notin Calm!View
BY OwnerAssumption, BoundAssumption, NoneAssumption, NoViewAssumption
   DEF View, Calm!View, Row, Calm!Row

\* The assumptions of PgKilled on its constants.
LEMMA RoughFits ==
  /\ OwnerOf \in [Procs -> Owners]
  /\ 3 \in Nat /\ TRUE \in BOOLEAN
  /\ None \notin Keys \cup Targets \cup Procs \cup Owners
  /\ None \notin [token : 1 .. 3, target : Targets]
  /\ None \notin Rough!View
BY InstancesAssumption
   DEF PgKilled!OwnerAssumption, PgKilled!NoneAssumption,
       PgKilled!NoViewAssumption, PgKilled!View, Rough!View, PgKilled!Row,
       Rough!Row

\* The lock of Calm is KeyLock.
LEMMA CalmKeyInit == KeyLock!Init => Calm!Key!Init
BY
  DEF KeyLock!Init, Calm!Key!Init

\* Every step of KeyLock is one of Calm's lock.
LEMMA CalmKeyNext ==
  [KeyLock!Next]_(KeyLock!vars) => [Calm!Key!Next]_(Calm!Key!vars)
BY
  DEF KeyLock!Next, Calm!Key!Next, KeyLock!vars, Calm!Key!vars, KeyLock!Step,
      Calm!Key!Step, KeyLock!Enter, Calm!Key!Enter, KeyLock!Fails,
      Calm!Key!Fails, KeyLock!Crash, Calm!Key!Crash, KeyLock!Reborn,
      Calm!Key!Reborn, KeyLock!Age, Calm!Key!Age, KeyLock!Ask, Calm!Key!Ask,
      KeyLock!Mkdir, Calm!Key!Mkdir, KeyLock!Write, Calm!Key!Write,
      KeyLock!Inspect, Calm!Key!Inspect, KeyLock!Leave, Calm!Key!Leave,
      KeyLock!CheckRelease, Calm!Key!CheckRelease, KeyLock!ClearInfo,
      Calm!Key!ClearInfo, KeyLock!ClearDir, Calm!Key!ClearDir, KeyLock!At,
      Calm!Key!At, KeyLock!Goto, Calm!Key!Goto, KeyLock!TakeGate,
      Calm!Key!TakeGate, KeyLock!GiveUp, Calm!Key!GiveUp, KeyLock!WriteFails,
      Calm!Key!WriteFails, KeyLock!ReleaseTimesOut, Calm!Key!ReleaseTimesOut,
      KeyLock!ClearFails, Calm!Key!ClearFails, KeyLock!Fault, Calm!Key!Fault,
      KeyLock!Payload, Calm!Key!Payload, KeyLock!LeaveGate, Calm!Key!LeaveGate,
      KeyLock!Reads, Calm!Key!Reads, KeyLock!Stale, Calm!Key!Stale,
      KeyLock!NextOf, Calm!Key!NextOf, KeyLock!AfterClear, Calm!Key!AfterClear

\* What Calm's lock keeps is what KeyLock promises.
LEMMA CalmKeyInv ==
  Calm!Key!IInv
    => KeyLock!IInv /\ KeyLock!TypeOK /\ KeyLock!MutualExclusion
BY
  DEF KeyLock!IInv, Calm!Key!IInv, KeyLock!TypeOK, Calm!Key!TypeOK,
      KeyLock!MutualExclusion, Calm!Key!MutualExclusion, KeyLock!GateInv,
      Calm!Key!GateInv, KeyLock!InsideInv, Calm!Key!InsideInv, KeyLock!Labels,
      Calm!Key!Labels, KeyLock!At, Calm!Key!At, KeyLock!UnderGate,
      Calm!Key!UnderGate

\* So for the lock of a living caller, which no step breaks.
LEMMA CalmKeyKept == Calm!Key!LiveLockKept => KeyLock!LiveLockKept
BY PTL
  DEF KeyLock!LiveLockKept, Calm!Key!LiveLockKept, KeyLock!vars, Calm!Key!vars

\* The assumptions of KeyLock on its constants.
LEMMA CalmKeyFits == Calm!KeyAssumptions
BY InstancesAssumption
  DEF Calm!KeyAssumptions, Calm!Key!NoneAssumption, KeyLock!NoneAssumption,
      Calm!Key!PidAssumption, KeyLock!PidAssumption, Calm!Key!SwitchAssumption,
      KeyLock!SwitchAssumption

\* The lock of Rough is KeyLockReuse.
LEMMA RoughKeyInit == KeyLockReuse!Init => Rough!Key!Init
BY
  DEF KeyLockReuse!Init, Rough!Key!Init

\* Every step of KeyLockReuse is one of Rough's lock.
LEMMA RoughKeyNext ==
  [KeyLockReuse!Next]_(KeyLockReuse!vars) => [Rough!Key!Next]_(Rough!Key!vars)
BY
  DEF KeyLockReuse!Next, Rough!Key!Next, KeyLockReuse!vars, Rough!Key!vars,
      KeyLockReuse!Step, Rough!Key!Step, KeyLockReuse!Enter, Rough!Key!Enter,
      KeyLockReuse!Fails, Rough!Key!Fails, KeyLockReuse!Crash, Rough!Key!Crash,
      KeyLockReuse!Reborn, Rough!Key!Reborn, KeyLockReuse!Age, Rough!Key!Age,
      KeyLockReuse!Ask, Rough!Key!Ask, KeyLockReuse!Mkdir, Rough!Key!Mkdir,
      KeyLockReuse!Write, Rough!Key!Write, KeyLockReuse!Inspect,
      Rough!Key!Inspect, KeyLockReuse!Leave, Rough!Key!Leave,
      KeyLockReuse!CheckRelease, Rough!Key!CheckRelease,
      KeyLockReuse!ClearInfo, Rough!Key!ClearInfo, KeyLockReuse!ClearDir,
      Rough!Key!ClearDir, KeyLockReuse!At, Rough!Key!At, KeyLockReuse!Goto,
      Rough!Key!Goto, KeyLockReuse!TakeGate, Rough!Key!TakeGate,
      KeyLockReuse!GiveUp, Rough!Key!GiveUp, KeyLockReuse!WriteFails,
      Rough!Key!WriteFails, KeyLockReuse!ReleaseTimesOut,
      Rough!Key!ReleaseTimesOut, KeyLockReuse!ClearFails, Rough!Key!ClearFails,
      KeyLockReuse!Fault, Rough!Key!Fault, KeyLockReuse!Payload,
      Rough!Key!Payload, KeyLockReuse!LeaveGate, Rough!Key!LeaveGate,
      KeyLockReuse!Reads, Rough!Key!Reads, KeyLockReuse!Stale, Rough!Key!Stale,
      KeyLockReuse!NextOf, Rough!Key!NextOf, KeyLockReuse!AfterClear,
      Rough!Key!AfterClear

\* What Rough's lock keeps is what KeyLockReuse promises.
LEMMA RoughKeyInv ==
  Rough!Key!IInv
    => KeyLockReuse!IInv /\ KeyLockReuse!TypeOK /\ KeyLockReuse!MutualExclusion
BY
  DEF KeyLockReuse!IInv, Rough!Key!IInv, KeyLockReuse!TypeOK, Rough!Key!TypeOK,
      KeyLockReuse!MutualExclusion, Rough!Key!MutualExclusion,
      KeyLockReuse!GateInv, Rough!Key!GateInv, KeyLockReuse!InsideInv,
      Rough!Key!InsideInv, KeyLockReuse!Labels, Rough!Key!Labels,
      KeyLockReuse!At, Rough!Key!At, KeyLockReuse!UnderGate,
      Rough!Key!UnderGate

\* So for the lock of a living caller, which no step breaks.
LEMMA RoughKeyKept == Rough!Key!LiveLockKept => KeyLockReuse!LiveLockKept
BY PTL
  DEF KeyLockReuse!LiveLockKept, Rough!Key!LiveLockKept, KeyLockReuse!vars,
      Rough!Key!vars

\* The assumptions of KeyLockReuse on its constants.
LEMMA RoughKeyFits == Rough!KeyAssumptions
BY InstancesAssumption
  DEF Rough!KeyAssumptions, Rough!Key!NoneAssumption,
      KeyLockReuse!NoneAssumption, Rough!Key!PidAssumption,
      KeyLockReuse!PidAssumption, Rough!Key!SwitchAssumption,
      KeyLockReuse!SwitchAssumption

\* What the run checks of key_lock, with and without recurring process ids.
THEOREM KeyLockExclusiveHere == QueuesSpec => KeyLockExclusive
<1>1. QueuesInit => Calm!Key!Init /\ Rough!Key!Init
  BY CalmKeyInit, RoughKeyInit DEF QueuesInit
<1>2. [QueuesNext]_queuesVars => [Calm!Key!Next]_(Calm!Key!vars)
                                 /\ [Rough!Key!Next]_(Rough!Key!vars)
  <2>1. [QueuesNext]_queuesVars => [KeyLock!Next]_(KeyLock!vars)
                                   /\ [KeyLockReuse!Next]_(KeyLockReuse!vars)
    BY DEF QueuesNext, queuesVars, lockVars, reuseVars, KeyLock!vars,
           KeyLockReuse!vars
  <2> QED
    BY <2>1, CalmKeyNext, RoughKeyNext
<1>3. QueuesSpec => Calm!Key!Spec /\ Rough!Key!Spec
  BY <1>1, <1>2, PTL DEF QueuesSpec, Calm!Key!Spec, Rough!Key!Spec
<1>4. Calm!Key!Spec => []Calm!Key!IInv /\ Calm!Key!LiveLockKept
  BY CalmKeyFits, Calm!KeyLockInvariance, Calm!NoLiveTakeover,
     CalmFits, PTL
<1>5. Rough!Key!Spec => []Rough!Key!IInv /\ Rough!Key!LiveLockKept
  BY RoughKeyFits, Rough!KeyLockInvariance, Rough!NoLiveTakeover,
     RoughFits, PTL
<1> QED
  BY <1>3, <1>4, <1>5, CalmKeyInv, RoughKeyInv, CalmKeyKept, RoughKeyKept, PTL
     DEF KeyLockExclusive

\* The queue of Calm is PgQueue.
LEMMA CalmInit == Init => Calm!Init
BY
  DEF Init, Calm!Init, NoRow, Calm!NoRow

\* Every step of the table of PgQueue is one of Calm's.
LEMMA CalmNext == [Next]_(vars) => [Calm!Next]_(Calm!vars)
BY
  DEF Next, Calm!Next, vars, Calm!vars, Statement, Calm!Statement, GoOn,
      Calm!GoOn, LockTimeout, Calm!LockTimeout, Rollback, Calm!Rollback,
      ServerEnds, Calm!ServerEnds, Crash, Calm!Crash, LeaseExpires,
      Calm!LeaseExpires, ProcessDies, Calm!ProcessDies, Enqueue, Calm!Enqueue,
      Claim, Calm!Claim, List, Calm!List, RecoverOwned, Calm!RecoverOwned,
      Renew, Calm!Renew, Reject, Calm!Reject, Complete, Calm!Complete, Discard,
      Calm!Discard, ReclaimStaleOwn, Calm!ReclaimStaleOwn, Quarantine,
      Calm!Quarantine, ClearQuarantine, Calm!ClearQuarantine, TailLock,
      Calm!TailLock, BeginMigrate, Calm!BeginMigrate, BeginPublish,
      Calm!BeginPublish, RetryRow, Calm!RetryRow, Publish, Calm!Publish, Ack,
      Calm!Ack, Commit, Calm!Commit, MigratePending, Calm!MigratePending,
      Blocked, Calm!Blocked, Goto, Calm!Goto, Unlock, Calm!Unlock, Claimed,
      Calm!Claimed, locks, Calm!locks, Idle, Calm!Idle, Tick, Calm!Tick,
      Update, Calm!Update, NoPending, Calm!NoPending, NextTarget,
      Calm!NextTarget, Pending, Calm!Pending, Claimable, Calm!Claimable, Reads,
      Calm!Reads, NoRow, Calm!NoRow, Sees, Calm!Sees, Owns, Calm!Owns,
      Settleable, Calm!Settleable, NoClaim, Calm!NoClaim, Reclaimed,
      Calm!Reclaimed, SameRecord, Calm!SameRecord, LockRow, Calm!LockRow,
      PublishLock, Calm!PublishLock, Matches, Calm!Matches, Reentry,
      Calm!Reentry

\* What Calm keeps is what the table of PgQueue promises.
LEMMA CalmInv == Calm!IInv => IInv
BY
  DEF IInv, Calm!IInv, TypeOK, Calm!TypeOK, LockInv, Calm!LockInv, ViewInv,
      Calm!ViewInv, PublishInv, Calm!PublishInv, Row, Calm!Row, Pending,
      Calm!Pending, Claimed, Calm!Claimed, Labels, Calm!Labels, View,
      Calm!View, Stamps, Calm!Stamps, HoldsRow, Calm!HoldsRow, Matches,
      Calm!Matches

\* So for a quarantined row, which keeps its claim.
LEMMA CalmHolds == Calm!QuarantineHoldsClaim => QuarantineHoldsClaim
BY PTL
  DEF QuarantineHoldsClaim, Calm!QuarantineHoldsClaim, vars, Calm!vars

\* So for the target of a key, which only a request changes.
LEMMA CalmNewest == Calm!NewestRequestWins => NewestRequestWins
BY PTL
  DEF NewestRequestWins, Calm!NewestRequestWins, vars, Calm!vars, Pending,
      Calm!Pending, Wanted, Calm!Wanted, Enqueue, Calm!Enqueue, MigratePending,
      Calm!MigratePending, Claimed, Calm!Claimed, Idle, Calm!Idle, Tick,
      Calm!Tick, Update, Calm!Update, locks, Calm!locks, Goto, Calm!Goto,
      Unlock, Calm!Unlock

\* The queue of Rough is PgKilled.
LEMMA RoughInit == PgKilled!Init => Rough!Init
BY
  DEF PgKilled!Init, Rough!Init, PgKilled!NoRow, Rough!NoRow

\* Every step of PgKilled is one of Rough's.
LEMMA RoughNext == [PgKilled!Next]_(PgKilled!vars) => [Rough!Next]_(Rough!vars)
BY
  DEF PgKilled!Next, Rough!Next, PgKilled!vars, Rough!vars, PgKilled!Statement,
      Rough!Statement, PgKilled!GoOn, Rough!GoOn, PgKilled!LockTimeout,
      Rough!LockTimeout, PgKilled!Rollback, Rough!Rollback,
      PgKilled!ServerEnds, Rough!ServerEnds, PgKilled!Crash, Rough!Crash,
      PgKilled!LeaseExpires, Rough!LeaseExpires, PgKilled!ProcessDies,
      Rough!ProcessDies, PgKilled!Enqueue, Rough!Enqueue, PgKilled!Claim,
      Rough!Claim, PgKilled!List, Rough!List, PgKilled!RecoverOwned,
      Rough!RecoverOwned, PgKilled!Renew, Rough!Renew, PgKilled!Reject,
      Rough!Reject, PgKilled!Complete, Rough!Complete, PgKilled!Discard,
      Rough!Discard, PgKilled!ReclaimStaleOwn, Rough!ReclaimStaleOwn,
      PgKilled!Quarantine, Rough!Quarantine, PgKilled!ClearQuarantine,
      Rough!ClearQuarantine, PgKilled!TailLock, Rough!TailLock,
      PgKilled!BeginMigrate, Rough!BeginMigrate, PgKilled!BeginPublish,
      Rough!BeginPublish, PgKilled!RetryRow, Rough!RetryRow, PgKilled!Publish,
      Rough!Publish, PgKilled!Ack, Rough!Ack, PgKilled!Commit, Rough!Commit,
      PgKilled!MigratePending, Rough!MigratePending, PgKilled!Blocked,
      Rough!Blocked, PgKilled!Goto, Rough!Goto, PgKilled!Unlock, Rough!Unlock,
      PgKilled!Claimed, Rough!Claimed, PgKilled!locks, Rough!locks,
      PgKilled!Idle, Rough!Idle, PgKilled!Tick, Rough!Tick, PgKilled!Update,
      Rough!Update, PgKilled!NoPending, Rough!NoPending, PgKilled!NextTarget,
      Rough!NextTarget, PgKilled!Pending, Rough!Pending, PgKilled!Claimable,
      Rough!Claimable, PgKilled!Reads, Rough!Reads, PgKilled!NoRow,
      Rough!NoRow, PgKilled!Sees, Rough!Sees, PgKilled!Owns, Rough!Owns,
      PgKilled!Settleable, Rough!Settleable, PgKilled!NoClaim, Rough!NoClaim,
      PgKilled!Reclaimed, Rough!Reclaimed, PgKilled!SameRecord,
      Rough!SameRecord, PgKilled!LockRow, Rough!LockRow, PgKilled!PublishLock,
      Rough!PublishLock, PgKilled!Matches, Rough!Matches, PgKilled!Reentry,
      Rough!Reentry

\* What Rough keeps is what PgKilled promises.
LEMMA RoughInv == Rough!IInv => PgKilled!IInv
BY
  DEF PgKilled!IInv, Rough!IInv, PgKilled!TypeOK, Rough!TypeOK,
      PgKilled!LockInv, Rough!LockInv, PgKilled!ViewInv, Rough!ViewInv,
      PgKilled!PublishInv, Rough!PublishInv, PgKilled!Row, Rough!Row,
      PgKilled!Pending, Rough!Pending, PgKilled!Claimed, Rough!Claimed,
      PgKilled!Labels, Rough!Labels, PgKilled!View, Rough!View,
      PgKilled!Stamps, Rough!Stamps, PgKilled!HoldsRow, Rough!HoldsRow,
      PgKilled!Matches, Rough!Matches

\* So for a quarantined row, which keeps its claim.
LEMMA RoughHolds == Rough!QuarantineHoldsClaim => PgKilled!QuarantineHoldsClaim
BY PTL
  DEF PgKilled!QuarantineHoldsClaim, Rough!QuarantineHoldsClaim, PgKilled!vars,
      Rough!vars

\* So for the target of a key, which only a request changes.
LEMMA RoughNewest == Rough!NewestRequestWins => PgKilled!NewestRequestWins
BY PTL
  DEF PgKilled!NewestRequestWins, Rough!NewestRequestWins, PgKilled!vars,
      Rough!vars, PgKilled!Pending, Rough!Pending, PgKilled!Wanted,
      Rough!Wanted, PgKilled!Enqueue, Rough!Enqueue, PgKilled!MigratePending,
      Rough!MigratePending, PgKilled!Claimed, Rough!Claimed, PgKilled!Idle,
      Rough!Idle, PgKilled!Tick, Rough!Tick, PgKilled!Update, Rough!Update,
      PgKilled!locks, Rough!locks, PgKilled!Goto, Rough!Goto, PgKilled!Unlock,
      Rough!Unlock

\* So for the queue port, which PgKilled implements.
LEMMA RoughPort == Rough!ImplementsWorkQueue => PgKilled!ImplementsWorkQueue
BY PTL
  DEF Rough!ImplementsWorkQueue, PgKilled!ImplementsWorkQueue, Rough!Wanted,
      PgKilled!Wanted, Rough!Claimed, PgKilled!Claimed, Rough!Stamps,
      PgKilled!Stamps, Rough!Pending, PgKilled!Pending, Rough!WQ!WQSpec,
      PgKilled!WQ!WQSpec, Rough!WQ!wqVars, PgKilled!WQ!wqVars, Rough!WQ!WQInit,
      PgKilled!WQ!WQInit, Rough!WQ!WQNext, PgKilled!WQ!WQNext,
      Rough!WQ!Request, PgKilled!WQ!Request, Rough!WQ!Grant, PgKilled!WQ!Grant,
      Rough!WQ!TakeOver, PgKilled!WQ!TakeOver, Rough!WQ!Finish,
      PgKilled!WQ!Finish, Rough!WQ!Return, PgKilled!WQ!Return,
      Rough!WQ!Withdraw, PgKilled!WQ!Withdraw, Rough!WQ!Bar, PgKilled!WQ!Bar,
      Rough!WQ!Revoke, PgKilled!WQ!Revoke, Rough!WQ!Unbar, PgKilled!WQ!Unbar,
      Rough!WQ!ReturnAll, PgKilled!WQ!ReturnAll, Rough!WQ!GrantedTarget,
      PgKilled!WQ!GrantedTarget

\* What the run checks of the table, with and without a server that ends
\* sessions.
THEOREM TableIsSoundHere == QueuesSpec => TableIsSound
<1>1. QueuesInit => Calm!Init /\ Rough!Init
  BY CalmInit, RoughInit DEF QueuesInit
<1>2. [QueuesNext]_queuesVars
        => [Calm!Next]_(Calm!vars) /\ [Rough!Next]_(Rough!vars)
  <2>1. [QueuesNext]_queuesVars
          => [Next]_vars /\ [PgKilled!Next]_(PgKilled!vars)
    BY DEF QueuesNext, queuesVars, pgVars, killedVars, PgKilled!vars
  <2> QED
    BY <2>1, CalmNext, RoughNext
<1>3. QueuesSpec => Calm!Spec /\ Rough!Spec
  BY <1>1, <1>2, PTL DEF QueuesSpec, Calm!Spec, Rough!Spec
<1>4. Calm!Spec => []Calm!IInv /\ Calm!QuarantineHoldsClaim
                   /\ Calm!NewestRequestWins
  BY CalmFits, Calm!Invariance, Calm!QuarantineHolds, Calm!NewestWins, PTL
<1>5. Rough!Spec => []Rough!IInv /\ Rough!QuarantineHoldsClaim
                    /\ Rough!NewestRequestWins /\ Rough!ImplementsWorkQueue
  BY RoughFits, Rough!Invariance, Rough!QuarantineHolds, Rough!NewestWins,
     Rough!Refinement, PTL
<1> QED
  BY <1>3, <1>4, <1>5, CalmInv, CalmHolds, CalmNewest, RoughInv, RoughHolds,
     RoughNewest, RoughPort, PTL DEF TableIsSound

\* What the run checks of the dependency gate.
THEOREM DependenciesConsistentHere == QueuesSpec => DependenciesConsistent
<1>1. QueuesInit => DependencyGate!Init
  BY DEF QueuesInit
<1>2. [QueuesNext]_queuesVars => [DependencyGate!Next]_(DependencyGate!vars)
  BY DEF QueuesNext, queuesVars, gateVars, DependencyGate!vars
<1>3. QueuesSpec => DependencyGate!Spec
  BY <1>1, <1>2, PTL DEF QueuesSpec, DependencyGate!Spec
<1> QED
  BY <1>3, GateInvariance, GateIsConsistent, BlockedIsTrue,
     InstancesAssumption, PTL
     DEF DependenciesConsistent
=============================================================================

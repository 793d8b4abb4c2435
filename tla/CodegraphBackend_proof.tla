----------------------- MODULE CodegraphBackend_proof -----------------------
(***************************************************************************)
(* Proofs about CodegraphBackend, for any repositories, callers, writers   *)
(* and faults: the codegraph child and a writer are never at work at once, *)
(* and no caller waits on a task that has ended.                           *)
(***************************************************************************)
EXTENDS CodegraphBackend, TLAPS

Places ==
    {"ask", "ensure", "create", "wait", "late", "submit", "queued", "done"}

Results == {None, "ok", "error", "draining", "refused", "cancelled"}

\* The backend, its callers and the writers begin apart.
LEMMA IInvInit == Init => IInv
<1> SUFFICES ASSUME Init
             PROVE  IInv
  OBVIOUS
<1> USE BackendAssumed DEF BackendAssumption, Init
<1>1. TypeOK
  <2>1. queue \in Seq(Clients)
    OBVIOUS
  <2>2. intent \in [ToSet(Repos) -> Writers \cup {None}]
    OBVIOUS
  <2> QED
    BY <2>1, <2>2 DEF TypeOK
<1>2. LeaseFits
  <2>1. ~session /\ task \notin Holding
    BY DEF Holding
  <2>2. Len(Repos) \in Nat
    OBVIOUS
  <2>3. \A w \in Writers : step[w] = -1
    BY DEF Out
  <2> QED
    BY <2>1, <2>2, <2>3 DEF LeaseFits
<1>3. InboxFits
  BY DEF InboxFits
<1> QED
  BY <1>1, <1>2, <1>3 DEF IInv

\* A step of a call, other than queueing it, does not make it wait.
LEMMA CallStep ==
    ASSUME TypeOK, NEW c \in Clients,
           \/ Ask(c) \/ Ensure(c) \/ Reuse(c) \/ Create(c) \/ Wake(c)
           \/ StartTimeout(c) \/ Late(c) \/ GiveUp(c)
    PROVE  /\ pc' \in [Clients -> Places] /\ result' \in [Clients -> Results]
           /\ \A d \in Clients : pc'[d] = "queued" => pc[d] = "queued"
<1>1. pc \in [Clients -> Places] /\ result \in [Clients -> Results]
  BY DEF TypeOK, Places, Results
<1>2. ASSUME NEW p \in Places \ {"queued"}, NEW r \in Results,
             pc' = [pc EXCEPT ![c] = p],
             result' = result \/ result' = [result EXCEPT ![c] = r]
      PROVE  /\ pc' \in [Clients -> Places] /\ result' \in [Clients -> Results]
             /\ \A d \in Clients : pc'[d] = "queued" => pc[d] = "queued"
  BY <1>1, <1>2
<1>3. \E p \in Places \ {"queued"}, r \in Results :
          /\ pc' = [pc EXCEPT ![c] = p]
          /\ result' = result \/ result' = [result EXCEPT ![c] = r]
  <2>1. \A r \in Results : Ends(c, r) =>
            pc' = [pc EXCEPT ![c] = "done"] /\ result' = [result EXCEPT ![c] = r]
    BY DEF Ends
  <2>2. Fails(c) =>
            \/ pc' = [pc EXCEPT ![c] = "ensure"] /\ result' = result
            \/ /\ pc' = [pc EXCEPT ![c] = "done"]
               /\ result' = [result EXCEPT ![c] = "error"]
    BY DEF Fails, Ends
  <2>3. \A g : Waits(c, g) =>
            pc' = [pc EXCEPT ![c] = "wait"] /\ result' = result
    BY DEF Waits
  <2>4. CASE Ask(c)
    BY <2>1, <2>4 DEF Ask, Places, Results
  <2>5. CASE Ensure(c)
    BY <2>1, <2>2, <2>5 DEF Ensure, Places, Results
  <2>6. CASE Reuse(c)
    BY <2>1, <2>2, <2>3, <2>6 DEF Reuse, Raises, Places, Results
  <2>7. CASE Create(c)
    BY <2>1, <2>2, <2>3, <2>7 DEF Create, Places, Results
  <2>8. CASE Wake(c)
    BY <2>1, <2>2, <2>8 DEF Wake, Raises, Places, Results
  <2>9. CASE StartTimeout(c) \/ Late(c) \/ GiveUp(c)
    BY <2>1, <2>2, <2>9 DEF StartTimeout, Late, GiveUp, Places, Results
  <2> QED
    BY <2>4, <2>5, <2>6, <2>7, <2>8, <2>9
<1> QED
  BY <1>2, <1>3

\* Who is answered, and waited, waits no more; nobody else is touched.
LEMMA AnswerStep ==
    ASSUME TypeOK, NEW a, \A c \in DOMAIN a : a[c] \in Results, AnsweredAs(a)
    PROVE  /\ pc' \in [Clients -> Places] /\ result' \in [Clients -> Results]
           /\ \A c \in Clients :
                  pc'[c] = "queued" => pc[c] = "queued" /\ c \notin DOMAIN a
  BY DEF AnsweredAs, TypeOK, Places, Results

\* The same, when everybody gets one answer.
LEMMA AnsweredStep ==
    ASSUME TypeOK, NEW cs, NEW r \in Results, Answered(cs, r)
    PROVE  /\ pc' \in [Clients -> Places] /\ result' \in [Clients -> Results]
           /\ \A c \in Clients :
                  pc'[c] = "queued" => pc[c] = "queued" /\ c \notin cs
<1> DEFINE a == [c \in cs |-> r]
<1>1. AnsweredAs(a) /\ \A c \in DOMAIN a : a[c] \in Results
  BY DEF Answered
<1>2. DOMAIN a = cs
  OBVIOUS
<1> QED
  BY <1>1, <1>2, AnswerStep

\* A closed inbox is empty, and nobody who was in it waits.
LEMMA RejectedStep ==
    ASSUME TypeOK, NEW h, NEW r \in Results, Rejected(h, r)
    PROVE  /\ pc' \in [Clients -> Places] /\ result' \in [Clients -> Results]
           /\ \A c \in Clients :
                  pc'[c] = "queued" =>
                      pc[c] = "queued" /\ c \notin Queued /\ c # h
           /\ accepting' = FALSE /\ queue' = <<>>
<1> DEFINE a == [c \in Queued \cup {h} |-> IF c = h THEN r ELSE "draining"]
<1>1. AnsweredAs(a) /\ \A c \in DOMAIN a : a[c] \in Results
  BY DEF Rejected, Results
<1>2. DOMAIN a = Queued \cup {h}
  OBVIOUS
<1>3. accepting' = FALSE /\ queue' = <<>>
  BY DEF Rejected, Closed
<1> QED
  BY <1>1, <1>2, <1>3, AnswerStep

\* A request that was taken out of the inbox is not in it; the rest is.
LEMMA InboxStep ==
    ASSUME queue \in Seq(Clients), queue # <<>>
    PROVE  /\ Head(queue) \in Clients /\ Tail(queue) \in Seq(Clients)
           /\ \A c \in Queued : c = Head(queue) \/ c \in ToSet(Tail(queue))
<1>1. ASSUME NEW i \in DOMAIN queue, i # 1
      PROVE  queue[i] \in ToSet(Tail(queue))
  <2>1. i - 1 \in DOMAIN Tail(queue) /\ Tail(queue)[i - 1] = queue[i]
    BY <1>1
  <2> QED
    BY <2>1 DEF ToSet
<1> QED
  BY <1>1 DEF Queued, ToSet

\* A caller moves: what it leaves in the inbox is there while the task lives.
LEMMA CallsKeep ==
    ASSUME IInv, NEW c \in Clients, Client(c) \/ GiveUp(c)
    PROVE  IInv'
<1> USE DEF IInv
<1>1. CASE Ask(c) \/ Ensure(c) \/ Reuse(c) \/ Wake(c) \/ Late(c) \/ GiveUp(c)
  <2>1. UNCHANGED worker /\ UNCHANGED locks
    BY <1>1 DEF Ask, Ensure, Reuse, Wake, Late, GiveUp
  <2>2. /\ pc' \in [Clients -> Places] /\ result' \in [Clients -> Results]
        /\ \A d \in Clients : pc'[d] = "queued" => pc[d] = "queued"
    BY <1>1, CallStep
  <2>3. TypeOK'
    BY <2>1, <2>2 DEF TypeOK, worker, locks, Places, Results
  <2>4. LeaseFits'
    BY <2>1 DEF LeaseFits, worker, locks
  <2>5. InboxFits'
    BY <2>1, <2>2 DEF InboxFits, worker, Queued
  <2> QED
    BY <2>3, <2>4, <2>5
<1>2. CASE Create(c)
  <2>1. UNCHANGED locks /\ UNCHANGED session /\ ~Live
    BY <1>2 DEF Create, worker
  <2>2. /\ pc' \in [Clients -> Places] /\ result' \in [Clients -> Results]
        /\ \A d \in Clients : pc'[d] = "queued" => pc[d] = "queued"
    BY <1>2, CallStep
  <2>3. \/ UNCHANGED worker
        \/ /\ task' = "start" /\ ready' = FALSE /\ error' = None
           /\ queue' = <<>> /\ accepting' = FALSE /\ hand' = None
           /\ seen' = seen
    BY <1>2 DEF Create
  <2>4. TypeOK'
    <3>1. <<>> \in Seq(Clients)
      OBVIOUS
    <3> QED
      BY <2>1, <2>2, <2>3, <3>1 DEF TypeOK, worker, locks, Places, Results
  <2>5. LeaseFits'
    BY <2>1, <2>3 DEF LeaseFits, worker, locks, Holding
  <2>6. InboxFits'
    <3>1. \A d \in Clients : pc[d] # "queued"
      BY <2>1 DEF InboxFits, Live
    <3> QED
      BY <2>2, <2>3, <3>1 DEF InboxFits, worker, Queued
  <2> QED
    BY <2>4, <2>5, <2>6
<1>3. CASE StartTimeout(c)
  <2>1. /\ task' = "exit" /\ ready' = TRUE /\ error' \in {error, "other"}
        /\ UNCHANGED <<session, accepting, queue, hand, seen>>
        /\ UNCHANGED locks /\ ~ready
    BY <1>3 DEF StartTimeout
  <2>2. /\ pc' \in [Clients -> Places] /\ result' \in [Clients -> Results]
        /\ \A d \in Clients : pc'[d] = "queued" => pc[d] = "queued"
    BY <1>3, CallStep
  <2>3. TypeOK'
    BY <2>1, <2>2 DEF TypeOK, locks, Places, Results
  <2>4. LeaseFits'
    BY <2>1 DEF LeaseFits, locks, Holding
  <2>5. InboxFits'
    BY <2>1, <2>2 DEF InboxFits, Queued
  <2> QED
    BY <2>3, <2>4, <2>5
<1>4. CASE Submit(c)
  <2>1. /\ UNCHANGED <<task, ready, error, session, accepting, hand, seen>>
        /\ UNCHANGED locks
    BY <1>4 DEF Submit
  <2>2. CASE accepting
    <3>1. queue' = Append(queue, c) /\ pc' = [pc EXCEPT ![c] = "queued"]
          /\ result' = result
      BY <1>4, <2>2 DEF Submit
    <3>2. queue' \in Seq(Clients) /\ c \in ToSet(queue')
          /\ ToSet(queue) \subseteq ToSet(queue')
      <4>1. queue \in Seq(Clients)
        BY DEF TypeOK
      <4>2. /\ Len(queue') = Len(queue) + 1 /\ queue'[Len(queue) + 1] = c
            /\ \A i \in 1 .. Len(queue) : queue'[i] = queue[i]
            /\ queue' \in Seq(Clients)
        BY <3>1, <4>1
      <4> QED
        BY <4>1, <4>2 DEF ToSet
    <3>3. TypeOK'
      BY <2>1, <3>1, <3>2 DEF TypeOK, locks
    <3>4. LeaseFits'
      BY <2>1 DEF LeaseFits, locks
    <3>5. InboxFits'
      <4>1. task \in {"idle", "call", "grace", "exit"}
        BY <2>2 DEF InboxFits
      <4>2. \A d \in Clients : pc'[d] = "queued" => d = c \/ pc[d] = "queued"
        BY <3>1 DEF TypeOK
      <4> QED
        BY <2>1, <3>2, <4>1, <4>2 DEF InboxFits, Queued
    <3> QED
      BY <3>3, <3>4, <3>5
  <2>3. CASE ~accepting
    <3>1. queue' = queue /\ pc' = [pc EXCEPT ![c] = "done"]
          /\ result' = [result EXCEPT ![c] = "draining"]
      BY <1>4, <2>3 DEF Submit, Ends
    <3>2. TypeOK'
      BY <2>1, <3>1 DEF TypeOK, locks
    <3>3. LeaseFits'
      BY <2>1 DEF LeaseFits, locks
    <3>4. InboxFits'
      <4>1. \A d \in Clients : pc'[d] = "queued" => pc[d] = "queued"
        BY <3>1 DEF TypeOK
      <4> QED
        BY <2>1, <3>1, <4>1 DEF InboxFits, Queued
    <3> QED
      BY <3>2, <3>3, <3>4
  <2> QED
    BY <2>2, <2>3
<1> QED
  BY <1>1, <1>2, <1>3, <1>4 DEF Client

\* The task starts: the inbox is closed until the lease was taken.
LEMMA StartKeeps ==
    ASSUME IInv, TakeLease \/ Check \/ Spawn \/ Initialize \/ Verify \/ Watch
    PROVE  IInv'
<1> USE BackendAssumed DEF IInv, BackendAssumption
<1>1. UNCHANGED <<pc, result, intent, step, hand>>
  BY DEF TakeLease, Check, Spawn, Initialize, Verify, Watch, calls, locks
<1>2. CASE TakeLease
  <2>1. TypeOK'
    BY <1>1, <1>2 DEF TakeLease, TypeOK
  <2>2. LeaseFits'
    <3>1. lease' # lease =>
              /\ lease[Served] = None
              /\ lease' = [lease EXCEPT ![Served] = "backend"]
      BY <1>2 DEF TakeLease
    <3>2. task' \in {"check", "exit"} /\ session' = session
          /\ (task' = "check" => lease'[Served] = "backend")
      BY <1>2 DEF TakeLease, TypeOK
    <3>3. ASSUME NEW w \in Writers, NEW i \in 1 .. Len(Repos),
                 i <= step[w] - Len(Repos)
          PROVE  lease'[Repos[i]] = w
      <4>1. lease[Repos[i]] = w /\ Repos[i] \in ToSet(Repos)
        BY <3>3 DEF LeaseFits, ToSet
      <4> QED
        BY <3>1, <4>1 DEF TypeOK
    <3>4. lease[Served] = "backend" => lease'[Served] = "backend"
      BY <3>1
    <3> QED
      BY <1>1, <3>2, <3>3, <3>4 DEF LeaseFits, Holding
  <2>3. InboxFits'
    BY <1>1, <1>2 DEF TakeLease, InboxFits
  <2> QED
    BY <2>1, <2>2, <2>3
<1>3. CASE Check \/ Spawn \/ Initialize
  <2>1. TypeOK'
    BY <1>1, <1>3 DEF Check, Spawn, Initialize, Leaves, TypeOK, locks
  <2>2. LeaseFits'
    BY <1>1, <1>3 DEF Check, Spawn, Initialize, Leaves, LeaseFits, Holding,
                      locks
  <2>3. InboxFits'
    <3>1. /\ task \in {"check", "spawn", "init"}
          /\ task' \in {"exit", "spawn", "init", "verify"}
          /\ accepting' = accepting /\ queue' = queue
      BY <1>3 DEF Check, Spawn, Initialize, Leaves
    <3>2. ~accepting /\ hand = None /\ \A c \in Clients : pc[c] # "queued"
      BY <3>1 DEF InboxFits
    <3> QED
      BY <1>1, <3>1, <3>2 DEF InboxFits
  <2> QED
    BY <2>1, <2>2, <2>3
<1>4. CASE Verify
  <2>1. TypeOK'
    <3>1. <<>> \in Seq(Clients)
      OBVIOUS
    <3>2. /\ task' \in {"exit", "idle"} /\ error' \in {error, "draining"}
          /\ ready' \in {ready, TRUE} /\ session' = session
          /\ accepting' \in {accepting, TRUE} /\ queue' \in {queue, <<>>}
          /\ seen' \in {seen, "watch"} /\ lease' = lease
      BY <1>4 DEF Verify, Leaves, locks
    <3> QED
      BY <1>1, <3>1, <3>2 DEF TypeOK
  <2>2. LeaseFits'
    BY <1>1, <1>4 DEF Verify, Leaves, LeaseFits, Holding, locks
  <2>3. InboxFits'
    BY <1>1, <1>4 DEF Verify, Leaves, InboxFits
  <2> QED
    BY <2>1, <2>2, <2>3
<1>5. CASE Watch
  <2>1. TypeOK'
    BY <1>1, <1>5 DEF Watch, TypeOK, locks
  <2>2. LeaseFits' /\ InboxFits'
    BY <1>1, <1>5 DEF Watch, LeaseFits, InboxFits, locks, Queued
  <2> QED
    BY <2>1, <2>2
<1> QED
  BY <1>2, <1>3, <1>4, <1>5

\* The lease and the child stay with a task that serves, up to its end.
LEMMA ServingHolds ==
    ASSUME IInv, task \in {"idle", "call", "grace"}, UNCHANGED locks,
           session' = session, task' \in {"idle", "call", "grace", "exit"}
    PROVE  LeaseFits'
  BY DEF IInv, LeaseFits, Holding, locks

\* The task answers: whoever waits is in the inbox, in its hand, or answered.
LEMMA ServeKeeps ==
    ASSUME IInv,
           \/ Next1 \/ Answer \/ DrainIdle \/ DrainCall
           \/ GraceAnswer \/ GraceOver \/ Break
    PROVE  IInv'
<1> USE DEF IInv
<1>1. /\ task \in {"idle", "call", "grace"} /\ session' = session
      /\ ready' = ready /\ seen' = seen /\ UNCHANGED locks
      /\ task' \in {"idle", "call", "grace", "exit"}
  BY DEF Next1, Answer, DrainIdle, DrainCall, GraceAnswer, GraceOver, Break,
         Leaves
<1>2. LeaseFits'
  BY <1>1, ServingHolds
<1>3. error' \in {error, "other"}
  BY DEF Next1, Answer, DrainIdle, DrainCall, GraceAnswer, GraceOver, Break,
         Leaves, PollError
<1>4. ASSUME pc' \in [Clients -> Places], result' \in [Clients -> Results],
             queue' \in Seq(Clients), hand' \in Clients \cup {None},
             accepting' \in BOOLEAN
      PROVE  TypeOK'
  BY <1>1, <1>3, <1>4 DEF TypeOK, locks, Places, Results
<1>5. {"ok", "error", "draining", "cancelled"} \subseteq Results
  BY DEF Results
<1>6. /\ queue \in Seq(Clients) /\ <<>> \in Seq(Clients)
      /\ hand \in Clients \cup {None} /\ accepting \in BOOLEAN
  BY DEF TypeOK
<1>7. ready /\ \A c \in Clients : pc[c] = "queued" => c \in Queued \/ c = hand
  BY <1>1 DEF InboxFits
<1>8. ASSUME task' \in {"call", "grace"} \/ hand' = None,
             \A c \in Clients :
                 pc'[c] = "queued" => c \in ToSet(queue') \/ c = hand'
      PROVE  InboxFits'
  BY <1>1, <1>7, <1>8 DEF InboxFits, Queued
<1>9. CASE Next1
  <2>1. /\ queue # <<>> /\ hand' = Head(queue) /\ queue' = Tail(queue)
        /\ task = "idle" /\ task' = "call" /\ accepting' = accepting
        /\ UNCHANGED <<pc, result>>
    BY <1>9 DEF Next1, calls
  <2>2. /\ Head(queue) \in Clients /\ Tail(queue) \in Seq(Clients)
        /\ \A c \in Queued : c = Head(queue) \/ c \in ToSet(Tail(queue))
    BY <1>6, <2>1, InboxStep
  <2>3. TypeOK'
    BY <1>4, <1>6, <2>1, <2>2 DEF TypeOK, Places, Results
  <2>4. hand = None
    BY <2>1 DEF InboxFits
  <2>5. \A c \in Clients :
            pc'[c] = "queued" => c \in ToSet(queue') \/ c = hand'
    <3>1. ASSUME NEW c \in Clients, pc[c] = "queued"
          PROVE  c \in Queued
      BY <1>7, <2>4, <3>1, BackendAssumed DEF BackendAssumption
    <3> QED
      BY <2>1, <2>2, <3>1
  <2> QED
    BY <1>2, <1>8, <2>1, <2>3, <2>5
<1>10. CASE Answer
  <2>1. hand' = None
    BY <1>10 DEF Answer
  <2>2. \E r \in {"ok", "error"} :
           \/ Answered({hand}, r) /\ UNCHANGED <<accepting, queue>>
           \/ Rejected(hand, r)
    BY <1>10 DEF Answer
  <2>3. PICK r \in {"ok", "error"} :
           \/ Answered({hand}, r) /\ UNCHANGED <<accepting, queue>>
           \/ Rejected(hand, r)
    BY <2>2
  <2>4. r \in Results
    BY <1>5
  <2>5. CASE Answered({hand}, r) /\ UNCHANGED <<accepting, queue>>
    <3>1. /\ pc' \in [Clients -> Places] /\ result' \in [Clients -> Results]
          /\ \A c \in Clients :
                 pc'[c] = "queued" => pc[c] = "queued" /\ c \notin {hand}
      BY <2>4, <2>5, AnsweredStep
    <3> QED
      BY <1>2, <1>4, <1>6, <1>7, <1>8, <2>1, <2>5, <3>1 DEF Queued
  <2>6. CASE Rejected(hand, r)
    BY <1>2, <1>4, <1>6, <1>7, <1>8, <2>1, <2>4, <2>6, RejectedStep
  <2> QED
    BY <2>3, <2>5, <2>6
<1>11. CASE DrainIdle
  <2>1. hand' = hand /\ hand = None
    BY <1>11 DEF DrainIdle, InboxFits
  <2>2. PICK h : Rejected(h, IF seen = "failed" THEN "error" ELSE "draining")
    BY <1>11 DEF DrainIdle
  <2>3. PICK r \in {"error", "draining"} : Rejected(h, r)
    BY <2>2
  <2> QED
    BY <1>2, <1>4, <1>5, <1>6, <1>7, <1>8, <2>1, <2>3, RejectedStep
<1>12. CASE DrainCall
  <2>1. CASE seen = "writer"
    <3>1. /\ accepting' = FALSE /\ queue' = <<>> /\ hand' = hand
          /\ task' = "grace" /\ Answered(Queued, "draining")
      BY <1>12, <2>1 DEF DrainCall, Closed
    <3> QED
      BY <1>2, <1>4, <1>5, <1>6, <1>7, <1>8, <3>1, AnsweredStep
  <2>2. CASE seen # "writer"
    <3>1. hand' = None /\ Rejected(hand, "error")
      BY <1>12, <2>2 DEF DrainCall
    <3> QED
      BY <1>2, <1>4, <1>5, <1>6, <1>7, <1>8, <3>1, RejectedStep
  <2> QED
    BY <2>1, <2>2
<1>13. CASE GraceAnswer \/ GraceOver
  <2>1. hand' = None /\ UNCHANGED <<accepting, queue>>
    BY <1>13 DEF GraceAnswer, GraceOver
  <2>2. PICK r \in {"ok", "error", "draining"} : Answered({hand}, r)
    BY <1>13 DEF GraceAnswer, GraceOver
  <2>3. /\ pc' \in [Clients -> Places] /\ result' \in [Clients -> Results]
        /\ \A c \in Clients :
               pc'[c] = "queued" => pc[c] = "queued" /\ c \notin {hand}
    BY <1>5, <2>2, AnsweredStep
  <2> QED
    BY <1>2, <1>4, <1>6, <1>7, <1>8, <2>1, <2>3 DEF Queued
<1>14. CASE Break
  <2>1. hand' = None /\ UNCHANGED <<accepting, queue>>
    BY <1>14 DEF Break
  <2>2. PICK r \in {"cancelled", "draining"} : Answered({hand} \ {None}, r)
    BY <1>14 DEF Break
  <2>3. /\ pc' \in [Clients -> Places] /\ result' \in [Clients -> Results]
        /\ \A c \in Clients :
               pc'[c] = "queued" =>
                   pc[c] = "queued" /\ c \notin {hand} \ {None}
    BY <1>5, <2>2, AnsweredStep
  <2>4. None \notin Clients
    BY BackendAssumed DEF BackendAssumption
  <2> QED
    BY <1>2, <1>4, <1>6, <1>7, <1>8, <2>1, <2>3, <2>4 DEF Queued
<1> QED
  BY <1>9, <1>10, <1>11, <1>12, <1>13, <1>14

\* The end of the task answers the inbox and gives back what it holds.
LEMMA ExitKeeps == IInv /\ Exit => IInv'
<1> SUFFICES ASSUME IInv, Exit
             PROVE  IInv'
  OBVIOUS
<1> USE BackendAssumed DEF IInv, BackendAssumption
<1>1. /\ task' = "done" /\ session' = FALSE /\ ready' = TRUE /\ hand' = None
      /\ accepting' = FALSE /\ queue' = <<>> /\ seen' = seen
      /\ error' \in {error, "other"} /\ UNCHANGED <<intent, step>>
      /\ Answered(Queued, "draining") /\ task = "exit"
      /\ lease' = [lease EXCEPT ![Served] = IF @ = "backend" THEN None ELSE @]
  BY DEF Exit, Closed
<1>2. /\ pc' \in [Clients -> Places] /\ result' \in [Clients -> Results]
      /\ \A c \in Clients :
             pc'[c] = "queued" => pc[c] = "queued" /\ c \notin Queued
  BY <1>1, AnsweredStep DEF Results
<1>3. TypeOK'
  <2>1. <<>> \in Seq(Clients)
    OBVIOUS
  <2> QED
    BY <1>1, <1>2, <2>1 DEF TypeOK, Places, Results
<1>4. LeaseFits'
  <2>1. ASSUME NEW w \in Writers, NEW i \in 1 .. Len(Repos),
               i <= step[w] - Len(Repos)
        PROVE  lease'[Repos[i]] = w
    <3>1. lease[Repos[i]] = w /\ Repos[i] \in ToSet(Repos)
      BY <2>1 DEF LeaseFits, ToSet
    <3> QED
      BY <1>1, <3>1 DEF TypeOK
  <2> QED
    BY <1>1, <2>1 DEF LeaseFits, Holding
<1>5. InboxFits'
  <2>1. \A c \in Clients : pc'[c] # "queued"
    BY <1>1, <1>2 DEF InboxFits
  <2> QED
    BY <1>1, <2>1 DEF InboxFits
<1> QED
  BY <1>3, <1>4, <1>5

\* A writer takes what nobody has, and gives back what is its own.
LEMMA WriterKeeps ==
    ASSUME IInv, NEW w \in Writers, Begin(w) \/ Writer(w) \/ TimesOut(w)
    PROVE  IInv'
<1> USE BackendAssumed DEF IInv, BackendAssumption
<1>1. UNCHANGED worker /\ UNCHANGED calls
  BY DEF Begin, Writer, Take, Leave, TimesOut, Release
<1>2. /\ Len(Repos) \in Nat
      /\ \A i \in 1 .. Len(Repos) : Repos[i] \in ToSet(Repos)
  BY DEF ToSet
<1>3. InboxFits'
  BY <1>1 DEF InboxFits, worker, calls, Queued
<1>4. CASE Begin(w)
  <2>1. /\ UNCHANGED <<intent, lease>> /\ step[w] = -1
        /\ step' = [step EXCEPT ![w] = 0]
    BY <1>4 DEF Begin, Out
  <2>2. 0 \in 0 .. All
    BY <1>2 DEF All
  <2>3. TypeOK'
    BY <1>1, <2>1, <2>2 DEF TypeOK, worker, calls
  <2>4. LeaseFits'
    BY <1>1, <1>2, <2>1 DEF TypeOK, LeaseFits, worker
  <2> QED
    BY <1>3, <2>3, <2>4
<1>5. CASE Take(w)
  <2> DEFINE n == Len(Repos)
  <2> DEFINE k == step[w]
  <2>1. k \in 0 .. 2 * n - 1
    BY <1>5 DEF Take, All
  <2>2. step' = [step EXCEPT ![w] = k + 1] /\ k + 1 \in 0 .. All
    BY <1>2, <1>5, <2>1 DEF Take, All
  <2>3. CASE k < n
    <3> DEFINE r == Repos[k + 1]
    <3>1. /\ r \in ToSet(Repos) /\ intent[r] = None
          /\ intent' = [intent EXCEPT ![r] = w] /\ lease' = lease
      BY <1>2, <1>5, <2>1, <2>3 DEF Take, Wanted, Order
    <3>2. TypeOK'
      BY <1>1, <2>2, <3>1 DEF TypeOK, worker, calls
    <3>3. ASSUME NEW v \in Writers, NEW i \in 1 .. n, i <= step'[v]
          PROVE  intent'[Repos[i]] = v
      <4>1. CASE v = w
        <5>1. CASE i = k + 1
          BY <1>2, <3>1, <4>1, <5>1 DEF TypeOK
        <5>2. CASE i # k + 1
          <6>1. i <= step[w]
            BY <1>2, <2>1, <2>2, <3>3, <4>1, <5>2 DEF TypeOK
          <6> QED
            BY <1>2, <3>1, <4>1, <6>1 DEF TypeOK, LeaseFits
        <5> QED
          BY <5>1, <5>2
      <4>2. CASE v # w
        <5>1. i <= step[v]
          BY <2>2, <3>3, <4>2 DEF TypeOK
        <5> QED
          BY <1>2, <3>1, <5>1 DEF TypeOK, LeaseFits
      <4> QED
        BY <4>1, <4>2
    <3>4. ASSUME NEW v \in Writers, NEW i \in 1 .. n, i <= step'[v] - n
          PROVE  lease'[Repos[i]] = v
      <4>1. v # w
        BY <1>2, <2>1, <2>2, <2>3, <3>4 DEF TypeOK
      <4>2. i <= step[v] - n
        BY <2>2, <3>4, <4>1 DEF TypeOK
      <4> QED
        BY <3>1, <4>2 DEF LeaseFits
    <3>5. LeaseFits'
      BY <1>1, <3>1, <3>3, <3>4 DEF LeaseFits, worker
    <3> QED
      BY <1>3, <3>2, <3>5
  <2>4. CASE ~(k < n)
    <3> DEFINE r == Repos[k - n + 1]
    <3>1. k - n + 1 \in 1 .. n
      BY <1>2, <2>1, <2>4
    <3>2. /\ r \in ToSet(Repos) /\ lease[r] = None
          /\ lease' = [lease EXCEPT ![r] = w] /\ intent' = intent
      BY <1>2, <1>5, <2>1, <2>4, <3>1 DEF Take, Wanted, Order
    <3>3. TypeOK'
      BY <1>1, <2>2, <3>2 DEF TypeOK, worker, calls
    <3>4. ASSUME NEW v \in Writers, NEW i \in 1 .. n, i <= step'[v]
          PROVE  intent'[Repos[i]] = v
      <4>1. i <= step[v]
        BY <1>2, <2>1, <2>2, <2>4, <3>4 DEF TypeOK
      <4> QED
        BY <3>2, <4>1 DEF LeaseFits
    <3>5. ASSUME NEW v \in Writers, NEW i \in 1 .. n, i <= step'[v] - n
          PROVE  lease'[Repos[i]] = v
      <4>1. CASE v = w /\ i = k - n + 1
        BY <3>2, <4>1 DEF TypeOK
      <4>2. CASE v # w \/ i # k - n + 1
        <5>1. i <= step[v] - n
          BY <1>2, <2>1, <2>2, <3>5, <4>2 DEF TypeOK
        <5> QED
          BY <1>2, <3>2, <5>1 DEF TypeOK, LeaseFits
      <4> QED
        BY <4>1, <4>2
    <3>6. session \/ task \in Holding => lease'[Served] = "backend"
      BY <3>2 DEF TypeOK, LeaseFits
    <3>7. LeaseFits'
      BY <1>1, <3>4, <3>5, <3>6 DEF LeaseFits, worker
    <3> QED
      BY <1>3, <3>3, <3>7
  <2> QED
    BY <2>3, <2>4
<1>6. CASE Leave(w) \/ TimesOut(w)
  <2>1. /\ step' = [step EXCEPT ![w] = -2]
        /\ intent' = [r \in DOMAIN intent |->
                          IF intent[r] = w THEN None ELSE intent[r]]
        /\ lease' = [r \in DOMAIN lease |->
                         IF lease[r] = w THEN None ELSE lease[r]]
    BY <1>6 DEF Leave, TimesOut, Release, Gone
  <2>2. TypeOK'
    BY <1>1, <2>1 DEF TypeOK, worker, calls, Gone
  <2>3. ASSUME NEW v \in Writers, NEW i \in 1 .. Len(Repos)
        PROVE  /\ i <= step'[v] => intent'[Repos[i]] = v
               /\ i <= step'[v] - Len(Repos) => lease'[Repos[i]] = v
    <3>1. CASE v = w
      BY <1>2, <2>1, <3>1 DEF TypeOK
    <3>2. CASE v # w
      BY <1>2, <2>1, <3>2 DEF TypeOK, LeaseFits
    <3> QED
      BY <3>1, <3>2
  <2>4. lease[Served] = "backend" => lease'[Served] = "backend"
    BY <2>1 DEF TypeOK
  <2>5. LeaseFits'
    BY <1>1, <2>3, <2>4 DEF LeaseFits, worker
  <2> QED
    BY <1>3, <2>2, <2>5
<1> QED
  BY <1>4, <1>5, <1>6 DEF Writer

\* Every step keeps the invariant.
LEMMA IInvNext == IInv /\ [Next]_vars => IInv'
<1> SUFFICES ASSUME IInv, [Next]_vars
             PROVE  IInv'
  OBVIOUS
<1>1. ASSUME NEW c \in Clients, Client(c) \/ GiveUp(c)
      PROVE  IInv'
  BY <1>1, CallsKeep
<1>2. CASE Worker \/ Initialize \/ Answer \/ GraceAnswer \/ Break
  BY <1>2, StartKeeps, ServeKeeps, ExitKeeps DEF Worker
<1>3. ASSUME NEW w \in Writers, Begin(w) \/ Writer(w) \/ TimesOut(w)
      PROVE  IInv'
  BY <1>3, WriterKeeps
<1>4. CASE UNCHANGED vars
  BY <1>4 DEF vars, worker, calls, locks, IInv, TypeOK, LeaseFits, InboxFits,
              Queued
<1> QED
  BY <1>1, <1>2, <1>3, <1>4 DEF Next

\* Who holds the locks and who waits for whom agree at every step of the calls,
\* the task and the writers.
THEOREM Invariance == Spec => []IInv
  BY IInvInit, IInvNext, PTL DEF Spec

\* Locks, labels and results have the values that the code gives them.
THEOREM TypeCorrect == Spec => []TypeOK
<1>1. IInv => TypeOK
  BY DEF IInv
<1> QED
  BY <1>1, Invariance, PTL

\* operation_lease and backend_session: the codegraph child lives under the
\* lease of its repository and a writer works only under the leases of all of
\* its own; a caller whose request was queued finds a task that will answer.
THEOREM SharedSoundly == Spec => []BackendShared
<1>1. IInv => BackendShared
  <2> SUFFICES ASSUME IInv
               PROVE  BackendShared
    OBVIOUS
  <2> USE BackendAssumed DEF IInv, BackendAssumption
  <2>1. \A w \in Writers : step[w] = All =>
           \A r \in ToSet(Repos) : lease[r] = w /\ intent[r] = w
    <3> SUFFICES ASSUME NEW w \in Writers, step[w] = All,
                        NEW r \in ToSet(Repos)
                 PROVE  lease[r] = w /\ intent[r] = w
      OBVIOUS
    <3>1. PICK i \in 1 .. Len(Repos) : Repos[i] = r
      BY DEF ToSet
    <3>2. Len(Repos) \in Nat
      OBVIOUS
    <3>3. i <= step[w] /\ i <= step[w] - Len(Repos)
      BY <3>2 DEF All
    <3> QED
      BY <3>1, <3>3 DEF LeaseFits
  <2>2. SessionExcludesWriter
    BY <2>1 DEF LeaseFits, SessionExcludesWriter
  <2>3. NobodyForgotten
    BY DEF InboxFits, NobodyForgotten, Live
  <2> QED
    BY <2>2, <2>3 DEF BackendShared
<1> QED
  BY <1>1, Invariance, PTL
=============================================================================

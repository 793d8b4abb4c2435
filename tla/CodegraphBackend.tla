-------------------------- MODULE CodegraphBackend --------------------------
(***************************************************************************)
(* One CodeGraph backend, a stdio session that serves queued requests, and *)
(* the reindex writers it has to make room for (codegraph/backend_session, *)
(* backend_startup, backend_inbox, operation_lease).  Each repository has  *)
(* a lease, held by the backend for its whole session or by a writer, and  *)
(* a writer intent, held by a writer from before it waits for the lease.   *)
(* Both are file locks: they end with the process that holds them.         *)
(***************************************************************************)
EXTENDS Integers, Sequences, SequencesExt

CONSTANTS Repos,     \* in the order of their paths, a sequence
          Served,    \* the repository of the backend
          Clients, Writers,
          Patient,   \* no caller is cancelled while the backend starts
          MaxFaults, \* bound: gates that refuse, sessions that break, false alarms
          None

BackendAssumption ==
    /\ MaxFaults \in Nat /\ Patient \in BOOLEAN
    /\ Repos \in Seq(ToSet(Repos)) /\ Served \in ToSet(Repos)
    /\ IsInjective(Repos)
    /\ None \notin Clients \cup Writers \cup {"backend"}
    /\ "backend" \notin Writers

ASSUME BackendAssumed == BackendAssumption

VARIABLES
    intent, lease,  \* [repository -> who holds it, or None]
    task,           \* where the worker task of the backend is
    gen,            \* how many worker tasks there were
    ready, error,   \* what the current task has published
    session,        \* a codegraph child is alive
    accepting, queue, hand, \* the inbox, and the request being served
    seen,           \* what the task that polls the writer intent has seen
    pc,             \* [client -> where its call is]
    mine,           \* [client -> the generation whose start it waits for]
    try,            \* [client -> 1 or 2]
    result,         \* [client -> what the call returned]
    step,           \* [writer -> how many locks it holds, Out or Gone]
    alarms,         \* history: drains with no writer in sight
    faults

worker == <<task, gen, ready, error, session, accepting, queue, hand, seen>>
calls == <<pc, mine, try, result>>
locks == <<intent, lease, step>>
vars == <<worker, calls, locks, alarms, faults>>

Live == task \notin {"none", "done"}
Serving == {"idle", "call"}

Out == -1
Gone == -2
All == 2 * Len(Repos)

Init ==
    /\ intent = [r \in ToSet(Repos) |-> None] /\ lease = intent
    /\ task = "none" /\ gen = 0 /\ ready = FALSE /\ error = None
    /\ session = FALSE /\ accepting = FALSE /\ queue = <<>> /\ hand = None
    /\ seen = "watch"
    /\ pc = [c \in Clients |-> "ask"] /\ mine = [c \in Clients |-> 0]
    /\ try = [c \in Clients |-> 1] /\ result = [c \in Clients |-> None]
    /\ step = [w \in Writers |-> Out] /\ alarms = 0 /\ faults = 0

Fault == faults < MaxFaults /\ faults' = faults + 1

-----------------------------------------------------------------------------
(* The probe of the writer intent takes the lock and gives it back: who    *)
(* probes at the same moment takes it for a writer.                        *)

Probers ==
    {c \in Clients : pc[c] \in {"ensure", "create"}}
        \cup (IF task \in {"check", "verify"} THEN {"task"} ELSE {})
        \cup (IF task \in Serving /\ seen = "watch" THEN {"watch"} ELSE {})

\* The probe by me answers a.
Probed(me, a) ==
    \/ a = (intent[Served] # None) /\ UNCHANGED <<alarms, faults>>
    \/ a /\ intent[Served] = None /\ Probers \ {me} # {}
       /\ Fault /\ alarms' = alarms + 1

\* The gate for maintenance refuses, or cannot be read.
Refused == Fault /\ UNCHANGED alarms
Permitted == UNCHANGED <<alarms, faults>>

-----------------------------------------------------------------------------
(* A call.                                                                 *)

Ends(c, r) ==
    /\ pc' = [pc EXCEPT ![c] = "done"] /\ result' = [result EXCEPT ![c] = r]
    /\ UNCHANGED <<mine, try>>

\* An error that is not of a draining backend: once more if the task is dead.
Fails(c) ==
    IF try[c] = 1 /\ ~Live
    THEN /\ pc' = [pc EXCEPT ![c] = "ensure"] /\ try' = [try EXCEPT ![c] = 2]
         /\ UNCHANGED <<mine, result>>
    ELSE Ends(c, "error")

Raises(c, e) == IF e = "draining" THEN Ends(c, "draining") ELSE Fails(c)

Ask(c) ==
    /\ pc[c] = "ask"
    /\ \/ /\ Permitted /\ pc' = [pc EXCEPT ![c] = "ensure"]
          /\ UNCHANGED <<mine, try, result>>
       \/ Refused /\ Ends(c, "refused")
    /\ UNCHANGED <<worker, locks>>

Ensure(c) ==
    /\ pc[c] = "ensure"
    /\ \/ Refused /\ Fails(c)
       \/ Probed(c, TRUE) /\ Ends(c, "draining")
       \/ /\ Probed(c, FALSE) /\ pc' = [pc EXCEPT ![c] = "create"]
          /\ UNCHANGED <<mine, try, result>>
    /\ UNCHANGED <<worker, locks>>

Waits(c, g) ==
    /\ pc' = [pc EXCEPT ![c] = "wait"] /\ mine' = [mine EXCEPT ![c] = g]
    /\ UNCHANGED <<try, result>>

Reuse(c) ==
    /\ pc[c] = "create" /\ Live
    /\ IF error # None THEN Raises(c, error) ELSE Waits(c, gen)
    /\ UNCHANGED <<worker, locks, alarms, faults>>

\* Under the lock of the startup: admission, reset, a new task.
Create(c) ==
    /\ pc[c] = "create" /\ ~Live
    /\ \/ Refused /\ Fails(c) /\ UNCHANGED worker
       \/ Probed(c, TRUE) /\ Ends(c, "draining") /\ UNCHANGED worker
       \/ /\ Probed(c, FALSE) /\ Waits(c, gen + 1)
          /\ task' = "start" /\ gen' = gen + 1 /\ ready' = FALSE /\ error' = None
          /\ queue' = <<>> /\ accepting' = FALSE /\ hand' = None
          /\ UNCHANGED <<session, seen>>
    /\ UNCHANGED locks

\* The start of an older task has always been decided.
Wake(c) ==
    /\ (pc[c] = "wait") /\ (mine[c] # gen \/ ready)
    /\ IF mine[c] = gen /\ error = None /\ Live
       THEN pc' = [pc EXCEPT ![c] = "submit"] /\ UNCHANGED <<mine, try, result>>
       ELSE Raises(c, IF error = None THEN "other" ELSE error)
    /\ UNCHANGED <<worker, locks, alarms, faults>>

\* The task is cancelled and given two seconds to end.
StartTimeout(c) ==
    /\ pc[c] = "wait" /\ mine[c] = gen /\ ~ready
    /\ error' = IF error = None THEN "other" ELSE error
    /\ ready' = TRUE /\ task' = "exit"
    /\ pc' = [pc EXCEPT ![c] = "late"]
    /\ UNCHANGED <<gen, session, accepting, queue, hand, seen, mine, try, result,
                   locks, alarms, faults>>

Late(c) ==
    /\ pc[c] = "late" /\ Fails(c)
    /\ UNCHANGED <<worker, locks, alarms, faults>>

Submit(c) ==
    /\ pc[c] = "submit"
    /\ IF accepting
       THEN /\ queue' = Append(queue, c) /\ pc' = [pc EXCEPT ![c] = "queued"]
            /\ UNCHANGED <<mine, try, result>>
       ELSE Ends(c, "draining") /\ UNCHANGED queue
    /\ UNCHANGED <<task, gen, ready, error, session, accepting, hand, seen,
                   locks, alarms, faults>>

\* The caller of the call is cancelled; what it queued stays queued.
GiveUp(c) ==
    /\ \/ pc[c] = "queued"
       \/ ~Patient /\ pc[c] = "wait"
    /\ Ends(c, "cancelled")
    /\ UNCHANGED <<worker, locks, alarms, faults>>

Client(c) ==
    \/ Ask(c) \/ Ensure(c) \/ Reuse(c) \/ Create(c) \/ Wake(c)
    \/ StartTimeout(c) \/ Late(c) \/ Submit(c)

-----------------------------------------------------------------------------
(* The worker task.                                                        *)

\* Who is in the domain of a and still waits is answered.  The task lives: an
\* error of one call is not tried again.
AnsweredAs(a) ==
    LET told == {c \in DOMAIN a : c \in Clients /\ pc[c] = "queued"} IN
    /\ pc' = [c \in Clients |-> IF c \in told THEN "done" ELSE pc[c]]
    /\ result' = [c \in Clients |-> IF c \in told THEN a[c] ELSE result[c]]
    /\ UNCHANGED <<mine, try>>

Answered(cs, r) == AnsweredAs([c \in cs |-> r])

\* Close the inbox: what is queued gets the draining error.
Closed == accepting' = FALSE /\ queue' = <<>>
Queued == ToSet(queue)

TakeLease ==
    /\ task = "start"
    /\ IF lease[Served] = None
       THEN /\ lease' = [lease EXCEPT ![Served] = "backend"] /\ task' = "check"
            /\ UNCHANGED <<ready, error>>
       ELSE task' = "exit" /\ error' = "other" /\ ready' = TRUE /\ UNCHANGED lease
    /\ UNCHANGED <<gen, session, accepting, queue, hand, seen, calls, intent, step,
                   alarms, faults>>

\* The task leaves with error e; the session is still open.
Leaves(e) ==
    /\ task' = "exit" /\ error' = IF error = None THEN e ELSE error
    /\ UNCHANGED <<gen, ready, session, seen>>

Check ==
    /\ task = "check"
    /\ \/ Probed("task", TRUE) /\ Leaves("draining")
       \/ /\ Probed("task", FALSE) /\ task' = "spawn"
          /\ UNCHANGED <<gen, ready, error, session, seen>>
    /\ UNCHANGED <<accepting, queue, hand, calls, locks>>

Spawn ==
    /\ task = "spawn"
    /\ \/ Refused /\ Leaves("other")
       \/ /\ Permitted /\ task' = "init" /\ session' = TRUE
          /\ UNCHANGED <<gen, ready, error, seen>>
    /\ UNCHANGED <<accepting, queue, hand, calls, locks>>

\* The codegraph child answers the handshake, or the session breaks.
Initialize ==
    /\ task = "init"
    /\ \/ Permitted /\ task' = "verify" /\ UNCHANGED <<gen, ready, error, session, seen>>
       \/ Fault /\ UNCHANGED alarms /\ Leaves("other")
    /\ UNCHANGED <<accepting, queue, hand, calls, locks>>

Verify ==
    /\ task = "verify"
    /\ \/ /\ Probed("task", TRUE) /\ Leaves("draining") /\ UNCHANGED <<accepting, queue>>
       \/ /\ Probed("task", FALSE) /\ task' = "idle"
          /\ accepting' = TRUE /\ queue' = <<>> /\ ready' = TRUE /\ seen' = "watch"
          /\ UNCHANGED <<gen, error, session>>
    /\ UNCHANGED <<hand, calls, locks>>

\* The task that polls the intent sees a writer, or fails.
Watch ==
    /\ task \in Serving /\ seen = "watch"
    /\ \/ Probed("watch", TRUE) /\ seen' = "writer"
       \/ Fault /\ UNCHANGED alarms /\ seen' = "failed"
    /\ UNCHANGED <<task, gen, ready, error, session, accepting, queue, hand, calls, locks>>

Next1 ==
    /\ task = "idle" /\ seen = "watch" /\ queue # <<>>
    /\ hand' = Head(queue) /\ queue' = Tail(queue) /\ task' = "call"
    /\ UNCHANGED <<gen, ready, error, session, accepting, seen, calls, locks, alarms, faults>>

\* What is queued is rejected, the request in hand is answered with r.
Rejected(h, r) ==
    /\ Closed
    /\ AnsweredAs([c \in Queued \cup {h} |-> IF c = h THEN r ELSE "draining"])

\* A poll that failed ends the task with its error.
PollError == IF seen = "failed" THEN "other" ELSE error

\* The codegraph child answers; a writer seen meanwhile ends the session.
Answer ==
    /\ task = "call" /\ hand' = None
    /\ \E r \in {"ok", "error"} :
         IF seen = "watch"
         THEN /\ Answered({hand}, r) /\ task' = "idle"
              /\ UNCHANGED <<error, accepting, queue>>
         ELSE /\ Rejected(hand, IF seen = "failed" THEN "error" ELSE r)
              /\ task' = "exit" /\ error' = PollError
    /\ UNCHANGED <<gen, ready, session, seen, locks, alarms, faults>>

\* Idle, and the poll has ended: close the inbox, reject what is in it.  A
\* request taken out in the same moment gets the error of the poll.
DrainIdle ==
    /\ task = "idle" /\ seen # "watch" /\ task' = "exit" /\ error' = PollError
    /\ \E h \in {None} \cup {queue[i] : i \in 1 .. IF queue = <<>> THEN 0 ELSE 1} :
         Rejected(h, IF seen = "failed" THEN "error" ELSE "draining")
    /\ UNCHANGED <<gen, ready, session, hand, seen, locks, alarms, faults>>

\* A call is under way: close the inbox and give it two more seconds, unless
\* the poll has failed.
DrainCall ==
    /\ task = "call" /\ seen # "watch"
    /\ IF seen = "writer"
       THEN /\ task' = "grace" /\ Closed /\ Answered(Queued, "draining")
            /\ UNCHANGED hand
       ELSE task' = "exit" /\ hand' = None /\ Rejected(hand, "error")
    /\ error' = PollError
    /\ UNCHANGED <<gen, ready, session, seen, locks, alarms, faults>>

GraceAnswer ==
    /\ task = "grace" /\ task' = "exit" /\ hand' = None
    /\ \E r \in {"ok", "error"} : Answered({hand}, r)
    /\ UNCHANGED <<gen, ready, error, session, accepting, queue, seen, locks, alarms, faults>>

\* Mistake: a call under way is waited for without a limit.
GraceKept == FALSE

GraceOver ==
    /\ task = "grace" /\ task' = "exit" /\ hand' = None
    /\ Answered({hand}, "draining")
    /\ UNCHANGED <<gen, ready, error, session, accepting, queue, seen, locks, alarms, faults>>

\* The pipes of the session break and cancel the task: a call that is under
\* way is cancelled in its caller, what is queued is left to the end.
Break ==
    /\ task \in {"idle", "call", "grace"} /\ Fault /\ UNCHANGED alarms
    /\ Leaves("other") /\ hand' = None
    /\ Answered({hand} \ {None}, IF task = "call" THEN "cancelled" ELSE "draining")
    /\ UNCHANGED <<accepting, queue, locks>>

\* Mistake: the inbox stays open when the task ends.
ExitOpen ==
    /\ task = "exit" /\ task' = "done" /\ session' = FALSE
    /\ lease' = [lease EXCEPT ![Served] = IF @ = "backend" THEN None ELSE @]
    /\ error' = IF error = None THEN "other" ELSE error
    /\ ready' = TRUE /\ hand' = None
    /\ UNCHANGED <<gen, accepting, queue, seen, calls, intent, step, alarms, faults>>

\* The session is closed, then the lease given back, the failure published and
\* the inbox closed.
Exit ==
    /\ task = "exit" /\ task' = "done" /\ session' = FALSE
    /\ lease' = [lease EXCEPT ![Served] = IF @ = "backend" THEN None ELSE @]
    /\ error' = IF error = None THEN "other" ELSE error
    /\ ready' = TRUE /\ hand' = None /\ Closed
    /\ Answered(Queued, "draining")
    /\ UNCHANGED <<gen, seen, intent, step, alarms, faults>>

Worker ==
    \/ TakeLease \/ Check \/ Spawn \/ Verify \/ Watch \/ Next1
    \/ DrainIdle \/ DrainCall \/ GraceOver \/ Exit

-----------------------------------------------------------------------------
(* A writer: all intents, then all leases, in the order of the paths.      *)

\* Mistake: each writer takes them in the order in which they were given to it.
GivenOrder(w) == IF w = CHOOSE v \in Writers : TRUE THEN Repos ELSE Reverse(Repos)

Order(w) == Repos

Begin(w) ==
    /\ step[w] = Out /\ step' = [step EXCEPT ![w] = 0]
    /\ UNCHANGED <<worker, calls, intent, lease, alarms, faults>>

Wanted(w) ==
    Order(w)[IF step[w] < Len(Repos) THEN step[w] + 1 ELSE step[w] - Len(Repos) + 1]

Take(w) ==
    /\ step[w] \in 0 .. All - 1
    /\ IF step[w] < Len(Repos)
       THEN /\ intent[Wanted(w)] = None
            /\ intent' = [intent EXCEPT ![Wanted(w)] = w] /\ UNCHANGED lease
       ELSE /\ lease[Wanted(w)] = None
            /\ lease' = [lease EXCEPT ![Wanted(w)] = w] /\ UNCHANGED intent
    /\ step' = [step EXCEPT ![w] = @ + 1]
    /\ UNCHANGED <<worker, calls, alarms, faults>>

\* The sync is over, the wait has been too long, or the process dies.
Release(w) ==
    /\ step[w] >= 0 /\ step' = [step EXCEPT ![w] = Gone]
    /\ intent' = [r \in DOMAIN intent |-> IF intent[r] = w THEN None ELSE intent[r]]
    /\ lease' = [r \in DOMAIN lease |-> IF lease[r] = w THEN None ELSE lease[r]]
    /\ UNCHANGED <<worker, calls, alarms>>

Leave(w) == step[w] = All /\ Release(w) /\ UNCHANGED faults

Writer(w) == Take(w) \/ Leave(w)

TimesOut(w) == step[w] < All /\ Fault /\ Release(w)

-----------------------------------------------------------------------------

Next ==
    \/ \E c \in Clients : Client(c) \/ GiveUp(c)
    \/ Worker \/ Initialize \/ Answer \/ GraceAnswer \/ Break
    \/ \E w \in Writers : Begin(w) \/ Writer(w) \/ TimesOut(w)

Spec == Init /\ [][Next]_vars

\* The event loop goes on and its clocks run; the child may stay silent.
FairSpec ==
    /\ Spec
    /\ WF_vars(Worker)
    /\ \A c \in Clients : WF_vars(Client(c))
    /\ \A w \in Writers : WF_vars(Writer(w))

(***************************************************************************)
(* Properties                                                              *)
(***************************************************************************)
\* Locks, labels and results have the values that the code gives them.
TypeOK ==
    /\ intent \in [ToSet(Repos) -> Writers \cup {None}]
    /\ lease \in [ToSet(Repos) -> Writers \cup {None, "backend"}]
    /\ step \in [Writers -> {Out, Gone} \cup 0 .. All]
    /\ task \in {"none", "start", "check", "spawn", "init", "verify", "idle",
                 "call", "grace", "exit", "done"}
    /\ ready \in BOOLEAN /\ session \in BOOLEAN /\ accepting \in BOOLEAN
    /\ error \in {None, "draining", "other"}
    /\ seen \in {"watch", "writer", "failed"}
    /\ hand \in Clients \cup {None} /\ queue \in Seq(Clients)
    /\ pc \in [Clients -> {"ask", "ensure", "create", "wait", "late", "submit",
                           "queued", "done"}]
    /\ result \in [Clients -> {None, "ok", "error", "draining", "refused",
                               "cancelled"}]

\* The child lives under the backend's lease, and no writer works on a
\* repository whose lease it does not hold: they never work at once.
SessionExcludesWriter ==
    /\ session => lease[Served] = "backend"
    /\ \A w \in Writers : step[w] = All =>
         \A r \in ToSet(Repos) : lease[r] = w /\ intent[r] = w

\* Who waits for an answer is queued or served by a task that lives.
NobodyForgotten ==
    \A c \in Clients : pc[c] = "queued" => Live /\ (c \in Queued \/ c = hand)

\* Both: the child and the writers, the task and the calls.
BackendShared == SessionExcludesWriter /\ NobodyForgotten

\* What the proofs add.  The task has the lease while it may have a child, and
\* a writer has the locks that it has counted.
Holding == {"check", "spawn", "init", "verify", "idle", "call", "grace"}

LeaseFits ==
    /\ session \/ task \in Holding => lease[Served] = "backend"
    /\ \A w \in Writers : \A i \in 1 .. Len(Repos) :
         /\ i <= step[w] => intent[Repos[i]] = w
         /\ i <= step[w] - Len(Repos) => lease[Repos[i]] = w

\* A request is in the inbox or in the hand of a task that will answer it: the
\* inbox is open only while the task lives, and who starts has an empty one.
InboxFits ==
    /\ task \in {"idle", "call", "grace"} => ready
    /\ task \notin {"call", "grace"} => hand = None
    /\ task \notin {"idle", "call", "grace", "exit"} =>
         ~accepting /\ \A c \in Clients : pc[c] # "queued"
    /\ \A c \in Clients : pc[c] = "queued" => c \in Queued \/ c = hand

\* The inductive invariant.
IInv == TypeOK /\ LeaseFits /\ InboxFits

\* A writer that keeps waiting gets in, whatever the child does or does not.
WriterEnters ==
    \A w \in Writers : step[w] >= 0 ~> step[w] \in {All, Gone}

\* Every call ends, unless it is the child that keeps it waiting.
CallEnds ==
    \A c \in Clients : pc[c] \notin {"ask", "done", "queued"} ~> pc[c] \in {"queued", "done"}

\* The backend drains only for a writer.
DrainsForWriter == alarms = 0
=============================================================================

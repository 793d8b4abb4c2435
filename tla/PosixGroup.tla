----------------------------- MODULE PosixGroup -----------------------------
(***************************************************************************)
(* The POSIX backend (reindex/posix_process.py), for development: one      *)
(* attempt in a process group of its own, a bootstrap that waits at a pipe *)
(* for the word to begin, descendants that may leave the group, and a      *)
(* worker that knows of processes only what its scans of /proc have shown. *)
(***************************************************************************)
EXTENDS Naturals, FiniteSets

CONSTANTS Kids,       \* the descendants of the root
          MaxCrashes, \* bound: deaths of the worker and reboots
          MaxFaults   \* bound: system calls that fail, scans that miss something

GroupAssumption == IsFiniteSet(Kids) /\ MaxCrashes \in Nat /\ MaxFaults \in Nat

VARIABLES pc,     \* the worker's next step, "down" when it is dead
          live,   \* its record: [known, uncertain, escaped], or none
          seen,   \* the descendants that its scans have found
          told,   \* the last report
          gate,   \* "none", "open" at the worker, "token" written, "closed"
          root,   \* "none", "blocked" at the gate, "target", "dead"
          kid,    \* each descendant: "none", "in" the group, "out" of it, "dead"
          journal,\* the journal has the handle
          sameBoot, \* the system has not been booted since the start
          ran,    \* history variable: the target was executed
          counts  \* [crashes, faults]

record == <<live, seen>>
tree == <<gate, root, kid, ran>>
vars == <<pc, record, told, tree, journal, sameBoot, counts>>

NoRecord == [known |-> FALSE, uncertain |-> FALSE, escaped |-> FALSE]

Init ==
    /\ pc = "idle" /\ live = NoRecord /\ seen = {} /\ told = "none"
    /\ gate = "none" /\ root = "none" /\ kid = [k \in Kids |-> "none"]
    /\ journal = FALSE /\ sameBoot = TRUE /\ ran = FALSE
    /\ counts = [crashes |-> 0, faults |-> 0]

RootLive == root \in {"blocked", "target"}
Living(s) == {k \in Kids : kid[k] = s}
Fault == counts.faults < MaxFaults /\ counts' = [counts EXCEPT !.faults = @ + 1]
Goto(l) == pc' = l
Tell(what) == told' = what

(***************************************************************************)
(* prepare and activate.                                                   *)
(***************************************************************************)
\* Popen returns when the bootstrap has a session of its own; its identity is read.
Prepare ==
    /\ pc = "idle" /\ told = "none" /\ root = "none"
    /\ root' = "blocked" /\ gate' = "open"
    /\ live' = [NoRecord EXCEPT !.known = TRUE] /\ Goto("journal")
    /\ UNCHANGED <<seen, told, kid, ran, journal, sameBoot, counts>>

\* No process; or one whose identity could not be read: its gate is closed, it is
\* killed and awaited, not for long.
StartFails ==
    /\ pc = "idle" /\ told = "none" /\ root = "none"
    /\ root' \in {"none", "blocked", "dead"} /\ gate' = "closed"
    /\ Tell("failed") /\ Goto("recover")
    /\ UNCHANGED <<record, kid, ran, journal, sameBoot, counts>>

\* A handle that cannot be persisted is only terminated.
Journal ==
    /\ pc = "journal"
    /\ \/ journal' = TRUE /\ Goto("activate")
       \/ Goto("terminate") /\ UNCHANGED journal
    /\ UNCHANGED <<record, told, tree, sameBoot, counts>>

\* Mistake: a group whose target was released can be proved dead like any other.
ReleaseTrusting ==
    /\ gate' = "token" /\ UNCHANGED live

\* From here on nothing that a scan does not show is a proof.
Release ==
    /\ gate' = "token" /\ live' = [live EXCEPT !.uncertain = TRUE]

Activate ==
    /\ pc = "activate" /\ Release /\ Goto("running")
    /\ UNCHANGED <<seen, told, root, kid, ran, journal, sameBoot, counts>>

\* The budget is over before the word is written, it cannot be written, or the
\* pipe does not close after it.
ActivateFails(written) ==
    /\ pc = "activate" /\ Goto("start_terminate")
    /\ \/ ~written /\ gate' = "closed" /\ UNCHANGED <<live, counts>>
       \/ /\ ~written /\ Fault
          /\ gate' = "closed" /\ live' = [live EXCEPT !.uncertain = TRUE]
       \/ written /\ Fault /\ Release
    /\ UNCHANGED <<seen, told, root, kid, ran, journal, sameBoot>>

\* The error carries the handle; the caller tries to persist it.
JournalLate ==
    /\ pc = "journal_late" /\ Goto("idle")
    /\ journal' \in {journal, TRUE}
    /\ UNCHANGED <<record, told, tree, sameBoot, counts>>

(***************************************************************************)
(* The bootstrap, the target and its descendants; the worker's death.      *)
(***************************************************************************)
\* The gate says go, or it is closed; a worker's death kills the root.
BootstrapGoes ==
    /\ root = "blocked" /\ gate \in {"token", "closed"}
    /\ IF gate = "token" THEN root' = "target" /\ ran' = TRUE
       ELSE root' = "dead" /\ UNCHANGED ran
    /\ UNCHANGED <<pc, record, told, gate, kid, journal, sameBoot, counts>>

RootEnds ==
    /\ \/ root = "target"
       \/ root = "blocked" /\ pc = "down"
    /\ root' = "dead"
    /\ UNCHANGED <<pc, record, told, gate, kid, ran, journal, sameBoot, counts>>

KidMoves(k) ==
    /\ \/ /\ kid[k] = "none" /\ kid' = [kid EXCEPT ![k] = "in"]
          /\ root = "target" \/ Living("in") \cup Living("out") # {}
       \/ kid[k] = "in" /\ kid' = [kid EXCEPT ![k] = "out"]
       \/ kid[k] \in {"in", "out"} /\ kid' = [kid EXCEPT ![k] = "dead"]
    /\ UNCHANGED <<pc, record, told, gate, root, ran, journal, sameBoot, counts>>

Crashed == counts.crashes < MaxCrashes /\ counts' = [counts EXCEPT !.crashes = @ + 1]
LastTold == IF told \in {"proof", "never", "failed"} THEN told ELSE "none"

Crash ==
    /\ pc # "down" /\ Crashed /\ Goto("down")
    /\ live' = NoRecord /\ seen' = {} /\ Tell(LastTold)
    /\ gate' = IF gate = "open" THEN "closed" ELSE gate
    /\ UNCHANGED <<root, kid, ran, journal, sameBoot>>

Reboot ==
    /\ Crashed /\ Goto("down") /\ sameBoot' = FALSE
    /\ live' = NoRecord /\ seen' = {} /\ Tell(LastTold)
    /\ root' = IF root = "none" THEN root ELSE "dead"
    /\ kid' = [k \in Kids |-> "dead"] /\ gate' = "closed"
    /\ UNCHANGED <<ran, journal>>

(***************************************************************************)
(* What a scan shows: every process, or some of them and the word that it  *)
(* is incomplete.  Which of the descendants it attributes to the root      *)
(* depends on their parents: one whose parent has ended is found only if   *)
(* an earlier scan has found it.                                           *)
(***************************************************************************)
Shown(complete, r, P) ==
    /\ r => RootLive
    /\ P \subseteq Living("in") \cup Living("out")
    /\ IF complete THEN r = RootLive /\ P = Living("in") \cup Living("out") /\ UNCHANGED counts
       ELSE Fault

Observed(complete, D) ==
    [live EXCEPT !.uncertain = @ \/ ~complete,
                 !.escaped = @ \/ D \cap Living("out") # {}]

\* Nothing of the root, the group, or what was ever found is in a scan.
TreeDead(r, P, found) == ~r /\ P \cap (Living("in") \cup found) = {}

Afterwards(state) == IF state \in {"start_term", "start_grace", "start_wait"} THEN "journal_late" ELSE "idle"

\* A death is confirmed only if no scan missed anything, nothing was seen outside
\* the group, and the gate was never opened.
Report(observed, found) ==
    IF observed.escaped \/ observed.uncertain
    THEN Tell("unconfirmed") /\ live' = observed /\ seen' = found
    ELSE Tell("proof") /\ live' = NoRecord /\ seen' = {}

\* terminate: the gate is closed, SIGTERM, the grace, SIGKILL, the deadline.
Terminate ==
    /\ \/ pc \in {"terminate", "start_terminate"}
       \/ pc \in {"running", "idle"} /\ live.known
    /\ gate' = IF gate = "open" THEN "closed" ELSE gate
    /\ Goto(IF pc = "start_terminate" THEN "start_term" ELSE "term")
    /\ UNCHANGED <<record, told, root, kid, ran, journal, sameBoot, counts>>

\* confirm_dead: nothing but the wait.
ConfirmDead ==
    /\ pc = "idle" /\ live.known /\ Goto("wait")
    /\ UNCHANGED <<record, told, tree, journal, sameBoot, counts>>

\* Each look of _wait_dead, and the one before the first signal; poll looks too.
Look(complete, r, P, D) ==
    /\ pc \in {"running", "term", "start_term", "grace", "start_grace", "wait", "start_wait"}
    /\ D \subseteq P /\ Shown(complete, r, P)
    /\ IF pc # "running" /\ TreeDead(r, P, seen \cup D)
       THEN Report(Observed(complete, D), seen \cup D) /\ Goto(Afterwards(pc))
       ELSE /\ live' = Observed(complete, D) /\ seen' = seen \cup D
            /\ UNCHANGED <<pc, told>>
    /\ UNCHANGED <<tree, journal, sameBoot>>

\* killpg, if a complete scan shows no stranger in the group; whoever ignores the
\* signal, or is still ending, goes on.
Signal(D, killEscaped) ==
    LET group == Living("in")
        found == seen \cup D
        known == group \subseteq found
        outside == IF killEscaped THEN found \cap Living("out") ELSE {}
    IN  /\ Shown(TRUE, RootLive, group \cup Living("out"))
        /\ seen' = found /\ live' = [Observed(TRUE, D) EXCEPT !.uncertain = @ \/ ~known]
        /\ \E E \in SUBSET (outside \cup IF known THEN group ELSE {}), ends \in BOOLEAN :
             /\ kid' = [k \in Kids |-> IF k \in E THEN "dead" ELSE kid[k]]
             /\ root' = IF ends /\ known /\ RootLive THEN "dead" ELSE root

Signals ==
    /\ pc \in {"term", "start_term", "grace", "start_grace"}
    /\ \/ \E D \in SUBSET (Living("in") \cup Living("out")) :
             Signal(D, pc \in {"grace", "start_grace"})
       \/ Fault /\ live' = [live EXCEPT !.uncertain = TRUE] /\ UNCHANGED <<seen, root, kid>>
    /\ Goto(CASE pc = "term" -> "grace"
              [] pc = "start_term" -> "start_grace"
              [] pc = "grace" -> "wait"
              [] pc = "start_grace" -> "start_wait")
    /\ UNCHANGED <<told, gate, ran, journal, sameBoot>>

Unconfirmed ==
    /\ pc \in {"wait", "start_wait"} /\ Tell("unconfirmed") /\ Goto(Afterwards(pc))
    /\ UNCHANGED <<record, tree, journal, sameBoot, counts>>

(***************************************************************************)
(* Recovery.                                                               *)
(***************************************************************************)
Restart ==
    /\ pc = "down" /\ Tell("none")
    /\ Goto(IF journal THEN "recover_handle" ELSE "recover")
    /\ UNCHANGED <<record, tree, journal, sameBoot, counts>>

Answer(what) == Tell(what) /\ Goto("idle")

\* Without a handle the gate was never opened, and it is closed by now.
RecoverUnbound ==
    /\ pc = "recover" /\ Answer("never")
    /\ UNCHANGED <<record, tree, journal, sameBoot, counts>>

\* Mistake: a root that is not there any more has taken its group along.
RecoverHandleByRoot ==
    /\ pc = "recover_handle"
    /\ IF sameBoot /\ RootLive
       THEN Answer("active") /\ live' = [NoRecord EXCEPT !.known = TRUE, !.uncertain = TRUE]
       ELSE Answer("proof") /\ UNCHANGED live
    /\ UNCHANGED <<seen, tree, journal, sameBoot, counts>>

\* Another boot is a proof; in the same one a root that lives is taken over, and
\* one that does not proves nothing of its group.
RecoverHandle ==
    /\ pc = "recover_handle"
    /\ \/ ~sameBoot /\ Answer("proof") /\ UNCHANGED <<live, counts>>
       \/ /\ sameBoot /\ RootLive /\ Answer("active") /\ UNCHANGED counts
          /\ live' = [NoRecord EXCEPT !.known = TRUE, !.uncertain = TRUE]
       \/ /\ sameBoot /\ Answer("unconfirmed") /\ UNCHANGED live
          /\ (~RootLive /\ UNCHANGED counts) \/ Fault
    /\ UNCHANGED <<seen, tree, journal, sameBoot>>

\* confirm_reference_dead, asked later: only another boot is a proof.
ConfirmReference ==
    /\ pc = "idle" /\ told = "unconfirmed" /\ journal /\ ~sameBoot
    /\ Answer("proof")
    /\ UNCHANGED <<record, tree, journal, sameBoot, counts>>

Next ==
    \/ Prepare \/ StartFails \/ Journal \/ JournalLate
    \/ Activate \/ \E written \in BOOLEAN : ActivateFails(written)
    \/ BootstrapGoes \/ RootEnds \/ (\E k \in Kids : KidMoves(k)) \/ Crash \/ Reboot
    \/ Terminate \/ ConfirmDead \/ Signals \/ Unconfirmed
    \/ \E complete, r \in BOOLEAN, P, D \in SUBSET Kids : Look(complete, r, P, D)
    \/ Restart \/ RecoverUnbound \/ RecoverHandle \/ ConfirmReference

Spec == Init /\ [][Next]_vars

-----------------------------------------------------------------------------
(***************************************************************************)
(* Properties                                                              *)
(***************************************************************************)
\* The variables have their types; a gate that can still be released belongs to a
\* process that the worker knows, and what ran went through it.
TypeOK ==
    /\ live \in [known : BOOLEAN, uncertain : BOOLEAN, escaped : BOOLEAN]
    /\ seen \subseteq Kids /\ gate \in {"none", "open", "token", "closed"}
    /\ root \in {"none", "blocked", "target", "dead"}
    /\ kid \in [Kids -> {"none", "in", "out", "dead"}]
    /\ journal \in BOOLEAN /\ sameBoot \in BOOLEAN /\ ran \in BOOLEAN
    /\ told \in {"none", "failed", "proof", "never", "active", "unconfirmed"}
    /\ gate = "open" => live.known
    /\ ran => gate # "open"

\* The target of the attempt as the port sees it.
Target ==
    IF ran THEN IF root = "target" \/ Living("in") \cup Living("out") # {} THEN "runs" ELSE "gone"
    ELSE IF root = "none" /\ gate = "none" /\ pc = "idle" /\ told = "none" THEN "none"
    ELSE IF root = "blocked" /\ gate \in {"open", "token"} THEN "held"
    ELSE "void"

Contained == INSTANCE Containment WITH target <- Target, recorded <- journal

\* The backend keeps the promises of its port by proving little: a target that was
\* released is not proved dead before the next boot, whatever scans have shown.
Implements == Contained!Spec

\* What the proof adds.  A gate that is open belongs to a start that goes on; the
\* token is written for a handle that is in the journal, and from then on the worker
\* that knows the root does not trust its scans.
GateFits ==
    /\ pc = "idle" /\ told = "none" => root = "none" /\ gate = "none" /\ sameBoot
    /\ pc = "journal_late" => told # "none"
    /\ (pc = "idle" /\ told = "none") \/ pc = "recover" => ~journal
    /\ gate = "open" => pc \in {"journal", "activate", "terminate"}
    /\ pc \in {"journal", "activate"} => gate = "open" /\ told = "none"
    /\ gate = "token" \/ ran \/ pc = "activate" => journal
    /\ live.known /\ (gate = "token" \/ ran) => live.uncertain
    /\ pc \in {"journal", "activate", "running", "terminate", "start_terminate", "term",
              "start_term", "grace", "start_grace", "wait", "start_wait"} => live.known
    /\ pc \in {"down", "recover", "recover_handle"} \/ (pc = "idle" /\ told = "none")
           => ~live.known

\* Descendants are the target's; a report is still true, and so is another boot.
TreeFits ==
    /\ root = "blocked" => ~ran
    /\ root = "target" \/ Living("in") \cup Living("out") # {} => ran
    /\ told \in {"failed", "never"} => ~journal /\ ~live.known
                                      /\ pc \in {"idle", "down", "recover"}
    /\ told = "proof" => ~live.known /\ pc \in {"idle", "down", "journal_late"}
    /\ told = "proof" \/ ~sameBoot => ~RootLive /\ Living("in") \cup Living("out") = {}
    /\ ~sameBoot => ~live.known /\ pc \in {"idle", "down", "recover", "recover_handle"}

\* The inductive invariant.
IInv == TypeOK /\ GateFits /\ TreeFits

=============================================================================

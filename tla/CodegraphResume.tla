--------------------------- MODULE CodegraphResume ---------------------------
(***************************************************************************)
(* The controlled end of a maintenance window                              *)
(* (ops/reindex_codegraph_resume.py).  Everything is closed once more;      *)
(* CodeGraph comes up over a bridge and then without it; a worker stands    *)
(* by; the web hook opens; last of all the marker goes, and the worker may  *)
(* write.  Any step fails with or without its effect: what is then closed   *)
(* again depends on where, and on what is known of the locks.               *)
(***************************************************************************)
EXTENDS Naturals, Sequences

CONSTANTS MaxFaults, \* bound: calls that fail, services that end
          MaxCrashes \* bound: kills and reboots

ResumeAssumption == {MaxFaults, MaxCrashes} \subseteq Nat

VARIABLES host,     \* on the disk: marker, dropin, hold, mask, bridge, webhold; read by
                    \* systemd: masked, bridged; running: cg, web, idx, and whether
                    \* these are "same" as when they were proved
          mode,     \* "idle", or which part of the command is at work
          todo,     \* the steps that are left of it
          ok,       \* no step that is taken in any case has failed
          told,     \* what the last command reported
          unmarked, \* a compensation could not write its marker
          torn,     \* a command was killed between a mask and the reload
          counts    \* [faults, crashes]

command == <<mode, todo, ok>>
vars == <<host, command, told, unmarked, torn, counts>>

Open == [marker |-> "none", dropin |-> FALSE, hold |-> FALSE, mask |-> FALSE, masked |-> FALSE,
         bridge |-> FALSE, bridged |-> FALSE, webhold |-> FALSE,
         cg |-> TRUE, same |-> FALSE, web |-> TRUE, idx |-> TRUE, idxSame |-> FALSE]

Init ==
    /\ host = Open /\ mode = "idle" /\ todo = <<>> /\ ok = TRUE /\ told = "none"
    /\ unmarked = FALSE /\ torn = FALSE /\ counts = [faults |-> 0, crashes |-> 0]

(***************************************************************************)
(* The steps, in the order of the code.                                    *)
(***************************************************************************)
CloseCodegraph == <<"cgHold", "cgMask", "cgStop">>
CloseWeb == <<"webHold", "webStop">>

\* Mistake: a bridge that an earlier command left does not matter.
PrepareKeepsBridge ==
    <<"intent", "marker", "gate">> \o CloseCodegraph \o <<"cgClosed">> \o CloseWeb
    \o <<"webClosed", "dropin", "idxStop", "prove", "inspect">>

Prepare ==
    <<"intent", "marker", "gate">> \o CloseCodegraph \o <<"cgClosed">> \o CloseWeb
    \o <<"webClosed", "dropin", "idxStop", "prove", "unbridge", "inspect">>

Undo ==
    <<"intent", "marker", "dropin", "idxStop">> \o CloseCodegraph \o <<"cgClosed">> \o CloseWeb

Activate ==
    <<"cgClosed", "bridge", "unmask", "effective", "unhold", "start", "running", "identity",
      "ready", "debridge", "normal", "ready">>

Handoff ==
    <<"ready", "webClosed", "quiet", "arm", "idxStart", "claim", "renew", "invocation",
      "renew", "undrop", "renew", "invocation", "ready", "webClosed">>

OpenWeb == <<"webUnhold", "webStart", "webRunning">>

\* Mistake: the worker may write before the web hook is proved.
BodyEarly ==
    <<"enterLease", "inspect", "enterSession", "enterGate">> \o Activate \o <<"leaveGate">>
    \o Handoff \o <<"enterGate", "renew", "invocation", "complete", "leaveGate">>
    \o OpenWeb \o <<"final", "invocation", "leaveSession", "leaveLease">>

Body ==
    <<"enterLease", "inspect", "enterSession", "enterGate">> \o Activate \o <<"leaveGate">>
    \o Handoff \o OpenWeb \o <<"final", "invocation">>
    \o <<"enterGate", "renew", "invocation", "complete", "leaveGate", "leaveSession", "leaveLease">>

\* Mistake: the services are closed before the writer is told to stop.
SettleMarkerLast ==
    CloseCodegraph \o CloseWeb
    \o <<"marker", "dropin", "idxStop", "prove", "unbridge", "inspect", "leaveGate">>

Settle ==
    <<"marker">> \o CloseCodegraph \o CloseWeb
    \o <<"dropin", "idxStop", "prove", "unbridge", "inspect", "leaveGate">>

(***************************************************************************)
(* What a step needs and does.                                             *)
(***************************************************************************)
MaskInForce(h) == h.mask /\ h.masked
CodegraphHeld(h) == h.hold /\ MaskInForce(h) /\ ~h.cg
WebHeld(h) == h.webhold /\ ~h.web
Stopped(h) == CodegraphHeld(h) /\ WebHeld(h) /\ ~h.idx

Needs(s, h) ==
    CASE s = "cgClosed" -> ok /\ CodegraphHeld(h)
      [] s = "webClosed" -> ok /\ WebHeld(h)
      [] s = "prove" -> Stopped(h)
      [] s = "inspect" -> Stopped(h) /\ h.marker = "maintenance" /\ h.dropin
      [] s = "cgMask" -> h.mask = h.masked
      [] s = "unmask" -> MaskInForce(h)
      [] s = "effective" -> h.bridge /\ h.bridged /\ h.dropin
      [] s = "start" -> ~h.masked
      [] s \in {"running", "identity"} -> h.cg
      [] s = "ready" -> h.cg /\ h.same
      [] s = "debridge" -> h.bridge
      [] s = "normal" -> ~h.bridge /\ ~h.bridged /\ h.dropin
      [] s = "quiet" -> h.dropin /\ h.marker = "maintenance" /\ ~h.idx
      [] s = "claim" -> h.idx /\ h.marker = "armed"
      [] s \in {"renew", "complete"} -> h.marker = "claimed"
      [] s = "invocation" -> h.idx /\ h.idxSame
      [] s = "undrop" -> h.dropin
      [] s = "webUnhold" -> h.webhold
      [] s = "webRunning" -> h.web
      [] s = "final" -> h.cg /\ h.same /\ h.web
      [] OTHER -> TRUE

\* systemd reads all files of units anew.
Reloaded(h) == [h EXCEPT !.masked = h.mask, !.bridged = h.bridge]

Does(s, h) ==
    CASE s = "marker" -> [h EXCEPT !.marker = "maintenance"]
      [] s = "cgHold" -> [h EXCEPT !.hold = TRUE]
      [] s = "cgMask" -> IF h.mask THEN h ELSE Reloaded([h EXCEPT !.mask = TRUE])
      [] s = "cgStop" -> [h EXCEPT !.cg = FALSE, !.same = FALSE]
      [] s = "webHold" -> [h EXCEPT !.webhold = TRUE]
      [] s = "webStop" -> [h EXCEPT !.web = FALSE]
      [] s = "dropin" -> Reloaded([h EXCEPT !.dropin = TRUE])
      [] s = "idxStop" -> [h EXCEPT !.idx = FALSE, !.idxSame = FALSE]
      [] s = "bridge" -> Reloaded([h EXCEPT !.bridge = TRUE])
      [] s \in {"unbridge", "debridge"} ->
            IF h.bridge THEN Reloaded([h EXCEPT !.bridge = FALSE]) ELSE h
      [] s = "unmask" -> Reloaded([h EXCEPT !.mask = FALSE])
      [] s = "unhold" -> [h EXCEPT !.hold = FALSE]
      [] s = "start" -> [h EXCEPT !.cg = ~h.hold]
      [] s = "identity" -> [h EXCEPT !.same = TRUE]
      [] s = "arm" -> [h EXCEPT !.marker = "armed"]
      [] s = "idxStart" -> [h EXCEPT !.idx = TRUE]
      [] s = "claim" -> [h EXCEPT !.marker = "claimed", !.idxSame = TRUE]
      [] s = "undrop" -> Reloaded([h EXCEPT !.dropin = FALSE])
      [] s = "webUnhold" -> [h EXCEPT !.webhold = FALSE]
      [] s = "webStart" -> [h EXCEPT !.web = ~h.webhold]
      [] s = "complete" -> [h EXCEPT !.marker = "none"]
      [] OTHER -> h

\* A step that fails, or is killed, has been done, or not, or a file of it was
\* written or removed and systemd not reloaded.
Halves(s, h) ==
    {h} \cup
    (IF ~Needs(s, h) THEN {}
     ELSE {Does(s, h)} \cup
          CASE s = "bridge" -> {[h EXCEPT !.bridge = TRUE]}
            [] s \in {"unbridge", "debridge"} -> {[h EXCEPT !.bridge = FALSE]}
            [] s \in {"dropin", "undrop"} -> {[h EXCEPT !.dropin = (s = "dropin")]}
            [] s \in {"cgMask", "unmask"} -> {[h EXCEPT !.mask = (s = "cgMask")]}
            [] OTHER -> {})

(***************************************************************************)
(* The command.                                                            *)
(***************************************************************************)
Counted(c) == counts' = [counts EXCEPT ![c] = @ + 1]
Fault == counts.faults < MaxFaults /\ Counted("faults")

Takes(m, steps) == mode' = m /\ todo' = steps /\ ok' = TRUE /\ UNCHANGED told
Report(r) == mode' = "idle" /\ todo' = <<>> /\ ok' = TRUE /\ told' = r

Begin ==
    /\ mode = "idle"
    /\ mode' = "prepare" /\ todo' = Prepare /\ ok' = TRUE /\ told' = "none"
    /\ UNCHANGED <<host, unmarked, torn, counts>>

\* Mistake: what failed in the compensation is not looked at.
ProvenAnyway == TRUE

Proven == ok

\* The last step of a part was taken.
Completes ==
    CASE mode = "prepare" -> Takes("body", Body)
      [] mode = "return" -> Report("maintenance")
      [] mode = "body" -> Report("resumed")
      [] mode = "settle" -> Report(IF Proven THEN "maintenance" ELSE "unproven")
      [] mode = "webUndo" -> Takes("leave", <<"leaveSession">>)
      [] mode = "leave" -> Takes("return", Prepare)
      [] OTHER -> Report("unproven")

Continues(o) ==
    IF Len(todo) = 1
    THEN Completes
    ELSE todo' = Tail(todo) /\ ok' = o /\ UNCHANGED <<mode, told>>

Noted(s) == unmarked' = IF s = "marker" THEN FALSE ELSE unmarked

Step ==
    /\ mode # "idle" /\ Needs(Head(todo), host)
    /\ host' = Does(Head(todo), host)
    /\ Continues(ok)
    /\ Noted(Head(todo)) /\ UNCHANGED <<torn, counts>>

Locks == {"enterGate", "leaveGate"}

\* The command is in the critical section of the gate.
InGate ==
    LET left == SelectSeq(todo, LAMBDA s : s \in Locks)
    IN  left # <<>> /\ Head(left) = "leaveGate"

\* Steps of which each is tried, whatever the one before it did.
Exhaustive(s) ==
    \/ mode = "undo" /\ s \notin {"intent", "cgClosed"}
    \/ mode = "settle" /\ s # "leaveGate"
    \/ mode = "webUndo"
    \/ mode \in {"prepare", "return"} /\ s \in {"cgHold", "cgMask", "cgStop", "webHold", "webStop"}

\* What a failure of step s leads to.  A lock that may or may not be held keeps
\* the command from closing anything again.
Aborts(s) ==
    CASE mode \in {"prepare", "return"} ->
            IF s \in {"intent", "unbridge", "inspect"} THEN Report("unproven") ELSE Takes("undo", Undo)
      [] mode = "body" ->
            (CASE s = "enterLease" -> Report("maintenance")
               [] s = "inspect" -> Takes("return", Prepare)
               [] s \in Locks \cup {"enterSession", "leaveSession", "leaveLease"} -> Report("unproven")
               [] OTHER -> IF InGate THEN Takes("settle", Settle)
                           ELSE IF s \in {"webUnhold", "webStart", "webRunning"}
                           THEN Takes("webUndo", CloseWeb)
                           ELSE Takes("leave", <<"leaveSession">>))
      [] OTHER -> Report("unproven")

\* The marker of a compensation is missing when its step fails, whether or not
\* the file is there.
Fails ==
    /\ mode # "idle"
    /\ LET s == Head(todo)
       IN  /\ \/ ~Needs(s, host) /\ UNCHANGED <<host, counts>>
              \/ Fault /\ host' \in Halves(s, host)
           /\ IF Exhaustive(s) THEN Continues(FALSE) ELSE Aborts(s)
           /\ unmarked' = (unmarked \/ (s = "marker" /\ Exhaustive(s) /\ host'.marker = "none"))
    /\ UNCHANGED torn

\* The gate is busy with a running worker, which is stopped first.
Preempts ==
    /\ mode \in {"prepare", "return"} /\ Head(todo) = "gate" /\ Fault
    /\ todo' = <<"dropin", "idxStop">> \o Tail(todo)
    /\ UNCHANGED <<host, mode, ok, told, unmarked, torn>>

(***************************************************************************)
(* The world.                                                              *)
(***************************************************************************)
\* Somebody, or a timer, starts a unit; its condition may refuse.
Starts ==
    /\ host' \in {[host EXCEPT !.cg = host.cg \/ ~(host.hold \/ host.masked)],
                  [host EXCEPT !.web = host.web \/ ~host.webhold],
                  [host EXCEPT !.idx = host.idx \/ host.marker = "none"]}
    /\ host' # host
    /\ UNCHANGED <<command, told, unmarked, torn, counts>>

\* A service ends; systemd may have it up again, as another process.
ServiceEnds ==
    /\ Fault
    /\ \/ host.cg /\ \E b \in BOOLEAN : host' = [host EXCEPT !.cg = b, !.same = FALSE]
       \/ host.web /\ host' = [host EXCEPT !.web = FALSE]
       \/ host.idx /\ host' = [host EXCEPT !.idx = ~host.dropin, !.idxSame = FALSE]
    /\ UNCHANGED <<command, told, unmarked, torn>>

Reloads ==
    /\ host # Reloaded(host) /\ host' = Reloaded(host)
    /\ UNCHANGED <<command, told, unmarked, torn, counts>>

Dies ==
    /\ counts.crashes < MaxCrashes /\ Counted("crashes")
    /\ mode' = "idle" /\ todo' = <<>> /\ ok' = TRUE /\ UNCHANGED <<told, unmarked>>

Kill ==
    /\ mode # "idle" /\ Dies /\ host' \in Halves(Head(todo), host)
    /\ torn' = (torn \/ host'.mask # host'.masked)

Reboot ==
    /\ Dies /\ UNCHANGED torn
    /\ host' = [host EXCEPT !.mask = FALSE, !.masked = FALSE, !.bridged = host.bridge,
                            !.cg = ~host.hold, !.same = FALSE, !.web = ~host.webhold,
                            !.idx = (host.marker = "none"), !.idxSame = FALSE]

Next ==
    \/ Begin \/ Step \/ Fails \/ Preempts
    \/ Starts \/ ServiceEnds \/ Reloads \/ Kill \/ Reboot

Spec == Init /\ [][Next]_vars

-----------------------------------------------------------------------------
(***************************************************************************)
(* Properties                                                              *)
(***************************************************************************)
\* The variables have their types; an idle command has nothing to do.
TypeOK ==
    /\ host \in [marker : {"none", "maintenance", "armed", "claimed"}, dropin : BOOLEAN,
                 hold : BOOLEAN, mask : BOOLEAN, masked : BOOLEAN, bridge : BOOLEAN, bridged : BOOLEAN,
                 webhold : BOOLEAN, cg : BOOLEAN, same : BOOLEAN, web : BOOLEAN,
                 idx : BOOLEAN, idxSame : BOOLEAN]
    /\ mode \in {"idle", "prepare", "return", "undo", "body", "settle", "webUndo", "leave"}
    /\ (mode = "idle") <=> (todo = <<>>)
    /\ {ok, unmarked, torn} \subseteq BOOLEAN
    /\ told \in {"none", "maintenance", "resumed", "unproven"}

\* "Back in maintenance" is so, and stays so over reboots and whatever anybody
\* starts: nothing runs, nothing can be started, and no bridge is left for the
\* next start of CodeGraph.
ClosedIsClosed ==
    told = "maintenance" =>
        /\ host.hold /\ host.webhold /\ host.dropin /\ host.marker = "maintenance"
        /\ ~host.cg /\ ~host.web /\ ~host.idx /\ ~host.bridge

\* The worker is the last to be let go: without a marker everything is open and
\* CodeGraph starts as it always does, wherever the command failed or was killed,
\* unless a compensation could not write its marker.
WriterLast ==
    host.marker = "none" /\ ~unmarked =>
        ~(host.dropin \/ host.hold \/ host.mask \/ host.masked \/ host.bridge \/ host.bridged \/ host.webhold)

\* A resumption that succeeded leaves nothing closed.
ResumedIsOpen == told = "resumed" => host.marker = "none"

\* A command that nothing disturbs succeeds, over everything that dead commands
\* left; only a mask that systemd has not read makes it fail, and it leaves none.
ResumesUndisturbed ==
    counts.faults = 0 /\ mode = "idle" =>
        /\ told # "maintenance"
        /\ told = "unproven" => torn /\ host.mask = host.masked

ResumeSound == ClosedIsClosed /\ WriterLast /\ ResumedIsOpen /\ ResumesUndisturbed

=============================================================================

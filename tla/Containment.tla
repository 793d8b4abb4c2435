---------------------------- MODULE Containment ----------------------------
(***************************************************************************)
(* What the port of the containment backends (reindex/attempt_process.py)  *)
(* promises of one attempt: the target is held until its handle is         *)
(* persisted, and what a report says of the target is true when it is made *)
(* and stays true.  CgroupTree, WindowsJob and PosixGroup do so.           *)
(***************************************************************************)

VARIABLES target,   \* "none", "held" before it is released, "runs", "gone" after
                    \* that, or "void": it never ran and never will
          recorded, \* the journal holds the handle
          told      \* the last report

vars == <<target, recorded, told>>

Told == {"none", "failed", "proof", "never", "active", "unconfirmed"}

Init == target = "none" /\ recorded = FALSE /\ told = "none"

\* A failed start and "never started" speak of a target that will not run, a
\* death proof of one that does not run any more.
Truth(t, what) ==
    /\ what \in {"failed", "never"} => t = "void"
    /\ what = "proof" => t \in {"void", "gone"}

Prepare == target = "none" /\ target' = "held" /\ UNCHANGED recorded
GiveUp == target \in {"none", "held"} /\ target' = "void" /\ UNCHANGED recorded
Persist == recorded' = TRUE /\ UNCHANGED target
Activate == target = "held" /\ recorded /\ target' = "runs" /\ UNCHANGED recorded
End == target = "runs" /\ target' = "gone" /\ UNCHANGED recorded

Next ==
    /\ Prepare \/ GiveUp \/ Persist \/ Activate \/ End \/ UNCHANGED <<target, recorded>>
    /\ told' \in Told /\ Truth(target', told')

Spec == Init /\ [][Next]_vars

=============================================================================

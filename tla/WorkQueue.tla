------------------------------ MODULE WorkQueue ------------------------------
(***************************************************************************)
(* What the reindex queue port (reindex/queue_ports.py) promises, without  *)
(* saying how a backend stores it.  A key ("project__kind") has at most    *)
(* one wanted target: a later request replaces an earlier one.  A claim is *)
(* an exclusive grant of the wanted target; finishing a claim forgets the  *)
(* wanted target only when it is the target that was granted.  A barred    *)
(* key (quarantine) is never granted, and its grant is only taken back by  *)
(* the evidenced clearing of the bar, which keeps the wanted target.       *)
(***************************************************************************)
CONSTANTS Keys,      \* queue keys, "project__kind"
          Targets,   \* target commits a request may name
          Tokens,    \* claim tokens
          None

VARIABLES want,      \* [Keys -> Targets \cup {None}], the wanted target
          grant,     \* [Keys -> Grants \cup {None}], the exclusive claim
          barred     \* [Keys -> BOOLEAN], the key is quarantined

wqVars == <<want, grant, barred>>

Grants == [token : Tokens, target : Targets]

GrantedTarget(k) == IF grant[k] = None THEN None ELSE grant[k].target

WQInit ==
    /\ want = [k \in Keys |-> None]
    /\ grant = [k \in Keys |-> None]
    /\ barred = [k \in Keys |-> FALSE]

\* enqueue and migrate_pending: the newest request wins, also on a barred key.
Request(k, t) ==
    /\ want' = [want EXCEPT ![k] = t]
    /\ UNCHANGED <<grant, barred>>

\* claim: exclusive, of exactly the wanted target, never on a barred key.
Grant(k, c) ==
    /\ ~barred[k] /\ grant[k] = None /\ want[k] # None
    /\ grant' = [grant EXCEPT ![k] = [token |-> c, target |-> want[k]]]
    /\ UNCHANGED <<want, barred>>

\* publish, reject: the claim ends; only its own target may be forgotten.
Finish(k) ==
    /\ ~barred[k] /\ grant[k] # None
    /\ want[k] = grant[k].target
    /\ grant' = [grant EXCEPT ![k] = None]
    /\ want' = [want EXCEPT ![k] = None]
    /\ UNCHANGED barred

\* retry, release, break_lease, a superseded publish: the claim ends and the
\* wanted target stays.
Return(k) ==
    /\ ~barred[k] /\ grant[k] # None
    /\ grant' = [grant EXCEPT ![k] = None]
    /\ UNCHANGED <<want, barred>>

\* reclaim_stale_own: all of an owner's claims end in one statement.
ReturnAll(ks) ==
    /\ \A k \in ks : ~barred[k] /\ grant[k] # None
    /\ grant' = [k \in Keys |-> IF k \in ks THEN None ELSE grant[k]]
    /\ UNCHANGED <<want, barred>>

\* discard: the caller withdraws the queued request, not the running one.
Withdraw(k) ==
    /\ ~barred[k]
    /\ want' = [want EXCEPT ![k] = GrantedTarget(k)]
    /\ UNCHANGED <<grant, barred>>

Bar(k) ==
    /\ grant[k] # None
    /\ barred' = [barred EXCEPT ![k] = TRUE]
    /\ UNCHANGED <<want, grant>>

\* claim of a key whose lease ran out: the grant passes to another claimer,
\* again of the wanted target.
TakeOver(k, c) ==
    /\ ~barred[k] /\ grant[k] # None /\ want[k] # None
    /\ grant' = [grant EXCEPT ![k] = [token |-> c, target |-> want[k]]]
    /\ UNCHANGED <<want, barred>>

\* clear_quarantine: the grant is taken back, before the bar is lifted or with
\* it, and the work is still wanted.
Revoke(k) ==
    /\ barred[k] /\ grant[k] # None
    /\ grant' = [grant EXCEPT ![k] = None]
    /\ UNCHANGED <<want, barred>>

Unbar(k) ==
    /\ barred[k] /\ want[k] # None
    /\ barred' = [barred EXCEPT ![k] = FALSE]
    /\ grant' = [grant EXCEPT ![k] = None]
    /\ UNCHANGED want

WQNext ==
    \/ \E k \in Keys :
          \/ \E t \in Targets : Request(k, t)
          \/ \E c \in Tokens : Grant(k, c) \/ TakeOver(k, c)
          \/ Finish(k) \/ Return(k) \/ Withdraw(k)
          \/ Bar(k) \/ Revoke(k) \/ Unbar(k)
    \/ \E ks \in SUBSET Keys : ReturnAll(ks)

WQSpec == WQInit /\ [][WQNext]_wqVars
=============================================================================

---------------------------- MODULE GraphIngest ----------------------------
(***************************************************************************)
(* The unified code graph of one project (graph/ingest.py over             *)
(* graph/store.py): the plugins run over every repository, their results   *)
(* replace what the store holds of each plugin, one transaction at a time, *)
(* and the passes that follow derive edges from what is in the store by    *)
(* then.  Plugins and passes fail on their own; a run may be killed        *)
(* between any two transactions.                                           *)
(***************************************************************************)
EXTENDS Naturals, FiniteSets

CONSTANTS Plugins,   \* analyzers, as "front" and "back"
          Repos,     \* the repositories of the project
          MaxCommit, \* bound: commits that a plugin tells apart in a repository
          MaxPushes, \* bound: changes of the sources
          MaxFaults, \* bound: plugins, passes and runs that fail or are killed
          None

IngestAssumption ==
    /\ Repos # {} /\ Plugins # {} /\ IsFiniteSet(Repos) /\ IsFiniteSet(Plugins)
    /\ {MaxCommit, MaxPushes, MaxFaults} \subseteq Nat

VARIABLES content, \* what a plugin would find in a repository; 0: not applicable
          rows,    \* the store: what of each repository a plugin's rows are of
          known,   \* the plugins with a row in ingest_meta
          derived, \* what the rows of each pass were derived from; None: not all there
          pc, todo,\* the run's next step, and the plugins it has still to write
          seen,    \* what its plugins found, or Failure
          failures,\* it has recorded a failure
          proof,   \* what the last run that proved its success found, or None
          counts   \* [pushes, faults]

store == <<rows, known, derived>>
run == <<pc, todo, seen, failures>>
vars == <<content, store, run, proof, counts>>

Failure == MaxCommit + 1 \* a plugin that raised has found nothing
Found == [Plugins -> [Repos -> 0..MaxCommit]]
Nothing == [p \in Plugins |-> [r \in Repos |-> 0]]
Passes == {"link", "calls", "deps", "bridge", "usage", "soft"}

Init ==
    /\ content = [p \in Plugins |-> [r \in Repos |-> 1]]
    /\ rows = Nothing /\ known = {}
    /\ derived = [d \in Passes |-> None]
    /\ pc = "idle" /\ todo = {} /\ seen = Nothing /\ failures = FALSE
    /\ proof = None
    /\ counts = [pushes |-> 0, faults |-> 0]

Fault == counts.faults < MaxFaults /\ counts' = [counts EXCEPT !.faults = @ + 1]
Goto(l) == pc' = l

\* Commits arrive between runs; what a run reads while a clone moves is not
\* published (AttemptInput).
Push(p, r, c) ==
    /\ pc = "idle" /\ counts.pushes < MaxPushes /\ c # content[p][r]
    /\ content' = [content EXCEPT ![p][r] = c]
    /\ counts' = [counts EXCEPT !.pushes = @ + 1]
    /\ UNCHANGED <<store, run, proof>>

(***************************************************************************)
(* The plugins over the repositories.                                      *)
(***************************************************************************)
Failed(p) == \E r \in Repos : seen[p][r] = Failure
Applies(p) == \E r \in Repos : seen[p][r] \notin {0, Failure}
Stale == {p \in Plugins : ~Failed(p) /\ ~Applies(p)}
Merged(p) == [r \in Repos |-> IF seen[p][r] = Failure THEN 0 ELSE seen[p][r]]

\* Every plugin in every repository; one that raises does not disturb the others.
CollectMerged ==
    /\ pc = "idle"
    /\ \/ seen' = content /\ failures' = FALSE /\ UNCHANGED counts
       \/ /\ Fault /\ failures' = TRUE
          /\ \E F \in SUBSET (Plugins \X Repos) \ {{}} :
                seen' = [p \in Plugins |-> [r \in Repos |->
                            IF <<p, r>> \in F THEN Failure ELSE content[p][r]]]
    /\ todo' = Plugins /\ Goto("write")
    /\ UNCHANGED <<content, store, proof>>

\* Mistake: what a plugin found in some repositories replaces all that it had.
MayReplaceAny(p) == Applies(p)

\* A plugin that failed somewhere keeps the rows it had; without any, what it did
\* find is written.
MayReplace(p) == Applies(p) /\ (Failed(p) => p \notin known)

\* Mistake: the rows of a plugin that does not apply any more stay.
ClearsNothing(p) == FALSE

\* A plugin that applies to no repository any more loses its rows.
ClearsStale(p) == p \in Stale /\ p \in known

\* The plugins that do not apply are cleared first.  upsert_result deletes and
\* inserts a plugin's rows in one transaction.
Upsert(p) ==
    /\ pc = "write" /\ p \in todo /\ (p \in Stale \/ todo \cap Stale = {})
    /\ IF MayReplace(p) \/ ClearsStale(p)
       THEN rows' = [rows EXCEPT ![p] = Merged(p)] /\ known' = known \cup {p}
       ELSE UNCHANGED <<rows, known>>
    /\ todo' = todo \ {p}
    /\ IF todo' = {} THEN Goto("link") ELSE UNCHANGED pc
    /\ UNCHANGED <<content, derived, seen, failures, proof, counts>>

(***************************************************************************)
(* The passes: each reads the sources or the whole store, and replaces its *)
(* own rows.                                                               *)
(***************************************************************************)
\* The components of the front end are read from the sources, all other edges are
\* derived from the rows that a pass depends on.
Reads(d) ==
    CASE d \in {"link", "calls"} -> <<rows>>
      [] d = "deps" -> content
      [] d \in {"bridge", "usage"} -> <<rows, derived["deps"]>>
      [] d = "soft" -> <<rows, [e \in Passes \ {"soft"} |-> derived[e]]>>

\* Mistake: the analyzers go before the edges of the front end are known.
EarlyAfter == [link |-> "calls", calls |-> "soft", soft |-> "deps",
               deps |-> "bridge", bridge |-> "usage", usage |-> "end"]

After == [link |-> "calls", calls |-> "deps", deps |-> "bridge",
          bridge |-> "usage", usage |-> "soft", soft |-> "end"]

\* The linker and the bridge compute from the store alone.  A resolver or an
\* analyzer that fails leaves its edges out of what is written, the usage pass
\* writes nothing; the scan of components fails without a word.
Pass(d) ==
    /\ pc = d
    /\ \/ derived' = [derived EXCEPT ![d] = Reads(d)] /\ UNCHANGED <<failures, counts>>
       \/ /\ d \notin {"link", "bridge"} /\ Fault
          /\ failures' = (failures \/ d # "deps")
          /\ derived' = [derived EXCEPT ![d] = IF d = "usage" THEN @ ELSE None]
    /\ Goto(After[d])
    /\ UNCHANGED <<content, rows, known, todo, seen, proof>>

\* Mistake: failures of components are warnings.
ProvesAnyway == proof' = seen

\* _run_ingest_stage: a run proves its success only if no component failed.
Proves == IF failures THEN UNCHANGED proof ELSE proof' = seen

End ==
    /\ pc = "end" /\ Proves /\ Goto("idle")
    /\ todo' = {} /\ seen' = Nothing /\ failures' = FALSE
    /\ UNCHANGED <<content, store, counts>>

\* The store cannot be written, or the run is killed: what is written stays.
Die ==
    /\ pc # "idle" /\ Fault /\ Goto("idle")
    /\ todo' = {} /\ seen' = Nothing /\ failures' = FALSE
    /\ UNCHANGED <<content, store, proof>>

Next ==
    \/ \E p \in Plugins, r \in Repos, c \in 0..MaxCommit : Push(p, r, c)
    \/ CollectMerged \/ (\E p \in Plugins : Upsert(p)) \/ (\E d \in Passes : Pass(d))
    \/ End \/ Die

Spec == Init /\ [][Next]_vars

-----------------------------------------------------------------------------
(***************************************************************************)
(* Properties                                                              *)
(***************************************************************************)
\* The variables have their types; rows belong to a plugin that is known.
TypeOK ==
    /\ content \in Found /\ rows \in Found /\ known \subseteq Plugins
    /\ pc \in Passes \cup {"idle", "write", "end"} /\ todo \subseteq Plugins
    /\ \A p \in Plugins \ known : rows[p] = Nothing[p]

\* What every pass derives from the store agrees with what the store holds now.
\* The scan of the components is not part of it: it may have failed.
Derived == \A d \in Passes \ {"deps"} : derived[d] = Reads(d)

\* A run that is about to prove its success leaves the graph of the sources: each
\* plugin's rows are what it found in every repository, and every derived edge is
\* derived from them, whatever earlier runs left behind.
ProvedIsWhole == pc = "end" /\ ~failures => rows = seen /\ Derived

\* And a proof is given to such a run only.
ProofIsOfWhole == [][proof' # proof => rows = proof' /\ Derived]_vars

\* What a plugin's rows say of a repository disappears only when the plugin says
\* it does not apply there any more: a failure elsewhere does not erase it.
KeepsShards ==
    [][\A p \in Plugins, r \in Repos :
          rows[p][r] # 0 /\ rows'[p][r] = 0 => seen[p][r] = 0]_vars

=============================================================================

---------------------------- MODULE AttemptInput ----------------------------
(***************************************************************************)
(* One execution of an attempt on the configured live clones               *)
(* (reindex/executor.py, attempt_inputs.py, git_sync.py).  The clones are  *)
(* shared: while the executor asks git its questions, one command at a     *)
(* time, and while the runner reads the files, other programs pull.        *)
(* Simplifications: the commits of a clone are numbered along its branch,  *)
(* the pull is fast-forward and first writes the files, then moves HEAD;   *)
(* a killed pull leaves files that are not of HEAD.  Edits of the work     *)
(* tree that are undone again during the attempt are not modelled.         *)
(***************************************************************************)
EXTENDS Integers

CONSTANTS Repos,      \* the clones of the project, the main one is 1
          MaxCommit,  \* bound: commits of a clone beyond the first, 0
          MaxFaults,  \* bound: git commands that fail or are killed
          None

InputAssumption ==
    /\ Repos \subseteq Nat \ {0} /\ Repos # {} /\ \A r \in Repos : 1..r \subseteq Repos
    /\ MaxCommit \in Nat \ {0} /\ MaxFaults \in Nat /\ None \notin 0..MaxCommit

Commits == 0..MaxCommit
Vectors == [Repos -> Commits \cup {None}]
Empty == [r \in Repos |-> None]

VARIABLES head,      \* HEAD of each clone
          files,     \* the commit whose files are in the work tree
          pulling,   \* who has a pull under way: "none", "executor", "other"
          target,    \* spec.target_commit, a commit of one of the clones
          wanted,    \* repo_targets; commit 0 wants nothing
          revision,  \* the executor runs the revision that the spec names
          pc,        \* the executor's next step
          repo,      \* the clone it works on
          commits, trees,    \* what materialize recorded
          commits2, trees2,  \* what verify saw
          result,    \* the AttemptResult, or None
          seen,      \* history variable: per clone, the commits the runner read
          faults

clones == <<head, files, pulling>>
spec == <<target, wanted, revision>>
snapshots == <<commits, trees, commits2, trees2>>
vars == <<clones, spec, pc, repo, snapshots, result, seen, faults>>

Fault == faults < MaxFaults /\ faults' = faults + 1
Verifying == pc \in {"verify_clean", "verify_head", "verify_tree"}

Init ==
    /\ head \in [Repos -> Commits] /\ files = head
    /\ pulling = [r \in Repos |-> "none"]
    /\ target \in [repo : Repos, commit : Commits \ {0}]
    /\ wanted \in {w \in [Repos -> Commits] : \A r \in Repos : w[r] # 0 => w[r] = MaxCommit}
    /\ revision \in BOOLEAN
    /\ pc = "identity" /\ repo = 1
    /\ commits = Empty /\ trees = Empty /\ commits2 = Empty /\ trees2 = Empty
    /\ result = None /\ seen = [r \in Repos |-> {}] /\ faults = 0

(***************************************************************************)
(* Git on one clone.                                                       *)
(***************************************************************************)
\* Mistake: the target commit is enough.
CoveredByTarget == head[target.repo] >= target.commit

\* _covers_targets, by merge-base --is-ancestor.
Covered == head[target.repo] >= target.commit /\ \A r \in Repos : head[r] >= wanted[r]

\* git status prints nothing.
Clean(r) == files[r] = head[r]

\* A pull that has something to fetch begins to write files.
StartPull(r, who) ==
    /\ pulling[r] = "none" /\ Clean(r)
    /\ \E c \in Commits : c > head[r] /\ files' = [files EXCEPT ![r] = c]
    /\ pulling' = [pulling EXCEPT ![r] = who]
    /\ UNCHANGED head

EndPull(r, who) ==
    /\ pulling[r] = who
    /\ head' = [head EXCEPT ![r] = files[r]]
    /\ pulling' = [pulling EXCEPT ![r] = "none"]
    /\ UNCHANGED files

\* run_tree kills the pull at its time limit.
KillPull(r, who) ==
    /\ pulling[r] = who /\ Fault
    /\ pulling' = [pulling EXCEPT ![r] = "none"]
    /\ UNCHANGED <<head, files>>

Others ==
    /\ \E r \in Repos :
          \/ StartPull(r, "other") /\ UNCHANGED faults
          \/ EndPull(r, "other") /\ UNCHANGED faults
          \/ KillPull(r, "other")
    /\ UNCHANGED <<spec, pc, repo, snapshots, result, seen>>

(***************************************************************************)
(* The executor.                                                           *)
(***************************************************************************)
\* _result: what materialize recorded goes with it.
Finish(outcome, rc, retryable) ==
    /\ result' = [outcome |-> outcome, rc |-> rc, retryable |-> retryable,
                  commits |-> commits, trees |-> trees]
    /\ pc' = "done" /\ UNCHANGED repo

Failed == Finish("failed", 1, FALSE)
Retry == Finish("retryable", 2, TRUE)
TimedOut == Finish("timed_out", 124, TRUE)
Goto(label) == pc' = label /\ repo' = 1 /\ UNCHANGED result

Identity ==
    /\ pc = "identity"
    /\ IF revision THEN Goto("covers") ELSE Failed
    /\ UNCHANGED <<clones, spec, snapshots, seen, faults>>

\* The first question of materialize; a command that fails counts as a no.
Covers ==
    /\ pc = "covers"
    /\ \/ Covered /\ Goto("clean") /\ UNCHANGED faults
       \/ ~Covered /\ Goto("sync") /\ UNCHANGED faults
       \/ Fault /\ Goto("sync")
    /\ UNCHANGED <<clones, spec, snapshots, seen>>

NextSync ==
    /\ IF repo + 1 \in Repos THEN pc' = "sync" /\ repo' = repo + 1 ELSE pc' = "covers_again" /\ repo' = 1
    /\ UNCHANGED result

\* Mistake: a pull that another one keeps out is waited for.
SyncSkipsClean ==
    /\ pc = "sync" /\ pulling[repo] # "executor" /\ Clean(repo) /\ NextSync
    /\ UNCHANGED <<clones, spec, snapshots, seen, faults>>

\* sync_repo_to_remote: not a clone with an upstream, up to date, refused or
\* unreachable: the next clone.  Else the pull begins.
SyncSkips ==
    /\ pc = "sync" /\ pulling[repo] # "executor" /\ NextSync
    /\ UNCHANGED <<clones, spec, snapshots, seen, faults>>

SyncPulls ==
    /\ pc = "sync" /\ StartPull(repo, "executor")
    /\ UNCHANGED <<spec, pc, repo, snapshots, result, seen, faults>>

\* Mistake: the executor goes on while its pull is under way.
SyncLeaves ==
    /\ pc = "sync" /\ pulling[repo] = "executor" /\ NextSync
    /\ UNCHANGED <<clones, spec, snapshots, seen, faults>>

SyncEnds ==
    /\ pc = "sync"
    /\ \/ EndPull(repo, "executor") /\ UNCHANGED faults
       \/ KillPull(repo, "executor")
    /\ NextSync
    /\ UNCHANGED <<spec, snapshots, seen>>

CoversAgain ==
    /\ pc = "covers_again"
    /\ \/ Covered /\ Goto("clean") /\ UNCHANGED faults
       \/ ~Covered /\ Retry /\ UNCHANGED faults
       \/ Fault /\ Retry
    /\ UNCHANGED <<clones, spec, snapshots, seen>>

\* _snapshot, for each clone three commands: status, HEAD, its tree.
SeesClean(from, to) ==
    /\ pc = from
    /\ \/ Clean(repo) /\ pc' = to /\ UNCHANGED <<repo, result, faults>>
       \/ ~Clean(repo) /\ Failed /\ UNCHANGED faults
       \/ Fault /\ Failed
    /\ UNCHANGED <<clones, spec, snapshots, seen>>

SnapshotClean == SeesClean("clean", "head")

SnapshotHead ==
    /\ pc = "head"
    /\ \/ commits' = [commits EXCEPT ![repo] = head[repo]] /\ pc' = "tree" /\ UNCHANGED <<repo, result, faults>>
       \/ Fault /\ Finish("failed", 1, FALSE) /\ UNCHANGED commits
    /\ UNCHANGED <<clones, spec, trees, commits2, trees2, seen>>

SnapshotTree ==
    /\ pc = "tree"
    /\ \/ /\ trees' = [trees EXCEPT ![repo] = head[repo]] /\ UNCHANGED <<result, faults>>
          /\ IF repo + 1 \in Repos THEN pc' = "clean" /\ repo' = repo + 1 ELSE pc' = "runner" /\ repo' = 1
       \/ Fault /\ Failed /\ UNCHANGED trees
    /\ UNCHANGED <<clones, spec, commits, commits2, trees2, seen>>

\* The registered runner reads whatever is in the work trees.
RunnerReads ==
    /\ pc = "runner"
    /\ \E r \in Repos : files[r] \notin seen[r] /\ seen' = [seen EXCEPT ![r] = @ \cup {files[r]}]
    /\ UNCHANGED <<clones, spec, pc, repo, snapshots, result, faults>>

\* Mistake: its own time limit is a reason to run it again, for ever.
RunnerFailureAgain(rc) ==
    IF rc \in {2, 124} THEN Finish("retryable", rc, TRUE)
    ELSE Finish("failed", IF rc \in 1..255 THEN rc ELSE 1, FALSE)

RunnerFailure(rc) ==
    IF rc = 2 THEN Finish("retryable", 2, TRUE)
    ELSE Finish("failed", IF rc \in 1..255 THEN rc ELSE 1, FALSE)

RunnerEnds ==
    /\ pc = "runner"
    /\ \/ Goto("verify")
       \/ \E rc \in {1, 2, 124, 256, -9} : RunnerFailure(rc)
       \/ TimedOut
       \/ Failed
    /\ UNCHANGED <<clones, spec, snapshots, seen, faults>>

Verify ==
    /\ pc = "verify"
    /\ \/ (IF Covered THEN Goto("verify_clean") ELSE Retry) /\ UNCHANGED faults
       \/ Fault /\ Retry
    /\ UNCHANGED <<clones, spec, snapshots, seen>>

\* Mistake: the second snapshot does not ask git status.
VerifyCleanUnasked ==
    /\ pc = "verify_clean" /\ pc' = "verify_head"
    /\ UNCHANGED <<clones, spec, repo, snapshots, result, seen, faults>>

VerifyClean == SeesClean("verify_clean", "verify_head")

VerifyHead ==
    /\ pc = "verify_head"
    /\ \/ commits2' = [commits2 EXCEPT ![repo] = head[repo]] /\ pc' = "verify_tree" /\ UNCHANGED <<repo, result, faults>>
       \/ Fault /\ Failed /\ UNCHANGED commits2
    /\ UNCHANGED <<clones, spec, commits, trees, trees2, seen>>

VerifyTree ==
    /\ pc = "verify_tree"
    /\ \/ /\ trees2' = [trees2 EXCEPT ![repo] = head[repo]] /\ UNCHANGED <<result, faults>>
          /\ IF repo + 1 \in Repos THEN pc' = "verify_clean" /\ repo' = repo + 1 ELSE pc' = "compare" /\ repo' = 1
       \/ Fault /\ Failed /\ UNCHANGED trees2
    /\ UNCHANGED <<clones, spec, commits, trees, commits2, seen>>

\* Mistake: only the trees are compared.
CompareTrees ==
    /\ pc = "compare"
    /\ IF trees2 = trees THEN Finish("succeeded", 0, FALSE) ELSE Retry
    /\ UNCHANGED <<clones, spec, snapshots, seen, faults>>

Compare ==
    /\ pc = "compare"
    /\ IF commits2 = commits /\ trees2 = trees THEN Finish("succeeded", 0, FALSE) ELSE Retry
    /\ UNCHANGED <<clones, spec, snapshots, seen, faults>>

Materialize == Covers \/ SyncSkips \/ SyncPulls \/ SyncEnds \/ CoversAgain
Snapshot == SnapshotClean \/ SnapshotHead \/ SnapshotTree
VerifySuccess == Verify \/ VerifyClean \/ VerifyHead \/ VerifyTree \/ Compare
Executor == Identity \/ Materialize \/ Snapshot \/ RunnerEnds \/ VerifySuccess

Next == Others \/ Executor \/ RunnerReads

Spec == Init /\ [][Next]_vars

\* The executor goes on, and the runner ends; nothing is asked of the others.
FairSpec == Spec /\ WF_vars(Executor)

-----------------------------------------------------------------------------
(***************************************************************************)
(* Properties                                                              *)
(***************************************************************************)
Labels ==
    {"identity", "covers", "sync", "covers_again", "clean", "head", "tree",
     "runner", "verify", "verify_clean", "verify_head", "verify_tree", "compare",
     "done"}
Results ==
    [outcome : {"failed", "retryable", "timed_out", "succeeded"}, rc : 0..255,
     retryable : BOOLEAN, commits : Vectors, trees : Vectors]

TypeOK ==
    /\ head \in [Repos -> Commits] /\ files \in [Repos -> Commits]
    /\ pulling \in [Repos -> {"none", "executor", "other"}]
    /\ target \in [repo : Repos, commit : Commits] /\ wanted \in [Repos -> Commits] /\ revision \in BOOLEAN
    /\ pc \in Labels
    /\ repo \in Repos /\ {commits, trees, commits2, trees2} \subseteq Vectors
    /\ result \in IF pc = "done" THEN Results ELSE {None}
    /\ seen \in [Repos -> SUBSET Commits] /\ faults \in 0..MaxFaults
    /\ \A r \in Repos : pulling[r] = "executor" => pc = "sync" /\ repo = r

\* What a success names is exactly what its runner read: no file of another
\* commit, although the clones are shared and pulled without a lock, a pull
\* may be killed half-way, and six commands see the clone at six moments.
SuccessIsExact ==
    pc = "done" /\ result.outcome = "succeeded" =>
        \A r \in Repos : seen[r] \subseteq {result.commits[r]} /\ result.trees[r] = result.commits[r]

\* A success has the target and every repository target in what it read.
SuccessCoversTargets ==
    pc = "done" /\ result.outcome = "succeeded" =>
        /\ result.commits[target.repo] >= target.commit
        /\ \A r \in Repos : result.commits[r] >= wanted[r]

\* A runner that gave up at its own time limit is not run again, and only an
\* exit status of 0 ends as one: the queue retries what says it is retryable.
OnlyRetryablesRetried ==
    pc = "done" =>
        /\ result.retryable <=> result.outcome \in {"retryable", "timed_out"}
        /\ result.rc = 0 <=> result.outcome = "succeeded"
        /\ result.outcome = "retryable" => result.rc = 2
        /\ result.rc \in 0..255

-----------------------------------------------------------------------------
(* What makes them inductive.                                              *)

\* The second half of the execution: materialize has seen the targets.
Snapped == {"runner", "verify", "verify_clean", "verify_head", "verify_tree", "compare"}
Taking == {"clean", "head", "tree"}
Checking == {"verify_clean", "verify_head", "verify_tree"}

\* How far the two snapshots are with a clone.
HasCommit(r) == pc \in Snapped \/ (pc \in Taking /\ (r < repo \/ (r = repo /\ pc = "tree")))
HasTree(r) == pc \in Snapped \/ (pc \in Taking /\ r < repo)
Calm(r) ==
    pc = "compare" \/ (pc \in Checking /\ (r < repo \/ (r = repo /\ pc # "verify_clean")))
HasCommit2(r) ==
    pc = "compare" \/ (pc \in Checking /\ (r < repo \/ (r = repo /\ pc = "verify_tree")))

\* Clones only go forward, the files ahead of HEAD; so what is asked later is
\* of a later commit, and what was read in between lies in between.
ClonesFit ==
    \A r \in Repos :
        /\ head[r] <= files[r]
        /\ pc \in Taking \cup Snapped => head[r] >= wanted[r]
        /\ HasCommit(r) => commits[r] \in wanted[r]..head[r]
        /\ HasTree(r) => trees[r] \in commits[r]..head[r]
        /\ HasCommit2(r) => commits2[r] \in trees[r]..head[r]

TargetFits ==
    /\ pc \in Taking \cup Snapped => head[target.repo] >= target.commit
    /\ HasCommit(target.repo) => commits[target.repo] >= target.commit

\* The runner reads between the snapshots, and the second one asks git status.
SeenFits ==
    \A r \in Repos :
        /\ pc \notin Snapped \cup {"done"} => seen[r] = {}
        /\ \A c \in seen[r] :
              /\ c <= files[r]
              /\ pc \in Snapped => c >= trees[r]
              /\ Calm(r) => c <= head[r]
              /\ HasCommit2(r) => c <= commits2[r]

\* All of it together is kept by every step.
IInv ==
    /\ TypeOK /\ ClonesFit /\ TargetFits /\ SeenFits
    /\ SuccessIsExact /\ SuccessCoversTargets /\ OnlyRetryablesRetried

\* Whatever the others do to the clones, the attempt comes to end with a result.
Ended == pc = "done"
=============================================================================

----------------------------- MODULE CodeVector -----------------------------
(***************************************************************************)
(* The code vector index (recall/code_vector_*.py) and its atomic hand-over*)
(* (core/index_handoff.py).  A build works in a side directory, or in the  *)
(* current one when it is incremental; a pointer names the directory that  *)
(* readers use; a manifest beside the vectors is the mark of success.      *)
(* A chunk is a pair of a node and the digest of its text.                 *)
(***************************************************************************)
EXTENDS Naturals, FiniteSets, Sequences

CONSTANTS Builders,   \* processes that build
          Readers,    \* threads that query
          Commits,
          Content,    \* [Commits -> the chunks of the graph at that commit]
          MaxBuilds,  \* bound: side builds ever made; 0 is the base directory
          MaxFaults,  \* bound: crashes, storage errors, an old lock
          None

ContentAssumption ==
    /\ MaxBuilds \in Nat /\ MaxFaults \in Nat /\ None \notin Commits
    /\ \A c \in Commits : /\ Content[c] # {}
                          /\ \A x, y \in Content[c] : x[1] = y[1] => x = y

VARIABLES lock,     \* .reindex.lock: [by, dead, old], or None
          dirs,     \* the directories that exist
          touched,  \* the side builds, the one written last at the end
          current,  \* what the pointer names; 0 without one
          store,    \* [directory -> vectors, manifest, checkpoint, soundness]
          made,     \* side builds made so far
          job,      \* [Builders -> its build]
          reader,   \* [Readers -> its query]
          before,   \* history: the build that was current before this one
          faults

disk == <<dirs, touched, current, store, made, before>>
vars == <<lock, dirs, touched, current, store, made, job, reader, before, faults>>

Ids(chunks) == {x[1] : x \in chunks}
Put(chunks, x) == {y \in chunks : y[1] # x[1]} \cup {x}

Empty == [col |-> {}, man |-> None, fp |-> None, size |-> 0, sound |-> TRUE]
Idle == [at |-> "idle", full |-> FALSE, heal |-> FALSE, fp |-> None, tgt |-> 0, base |-> {}]
Quiet == [at |-> "idle", b |-> 0, same |-> TRUE, seen |-> {}, got |-> {}]

Init ==
    /\ lock = None /\ dirs = {0} /\ touched = <<>> /\ current = 0 /\ made = 0 /\ before = 0
    /\ store = [b \in 0..MaxBuilds |-> Empty]
    /\ job = [p \in Builders |-> Idle] /\ reader = [r \in Readers |-> Quiet]
    /\ faults = 0

Fault == faults < MaxFaults /\ faults' = faults + 1
Goto(p, label) == job' = [job EXCEPT ![p].at = label]

Changed(p) == Content[job[p].fp] \ job[p].base
Deleted(p) == Ids(job[p].base) \ Ids(Content[job[p].fp])

Touch(b) ==
    touched' = IF b = 0 THEN touched
               ELSE Append(SelectSeq(touched, LAMBDA x : x # b), b)
Newest(S) == touched[CHOOSE i \in 1..Len(touched) :
                        touched[i] \in S /\ \A k \in i + 1 .. Len(touched) : touched[k] \notin S]

-----------------------------------------------------------------------------
(* The lock file: taken over from a dead holder, or from an old one.       *)

Take(p) == lock' = [by |-> p, dead |-> FALSE, old |-> FALSE]

Start(p) ==
    /\ job[p].at = "idle"
    /\ \E c \in Commits, full \in BOOLEAN :
        \/ /\ lock = None /\ Take(p)
           /\ job' = [job EXCEPT ![p] = [Idle EXCEPT !.at = "open", !.fp = c, !.full = full]]
        \/ /\ lock # None /\ (lock.dead \/ lock.old) /\ UNCHANGED lock
           /\ job' = [job EXCEPT ![p] = [Idle EXCEPT !.at = "unlink", !.fp = c, !.full = full]]
    /\ UNCHANGED <<disk, faults>>

UnlinkLock(p) ==
    /\ job[p].at = "unlink" /\ lock' = None /\ Goto(p, "create")
    /\ UNCHANGED <<disk, faults>>

CreateLock(p) ==
    /\ job[p].at = "create"
    /\ IF lock = None THEN Take(p) /\ Goto(p, "open")
       ELSE job' = [job EXCEPT ![p] = Idle] /\ UNCHANGED lock
    /\ UNCHANGED <<disk, faults>>

\* The path is unlinked, whoever made the file.
Release(p) ==
    /\ job[p].at = "release" /\ lock' = None /\ job' = [job EXCEPT ![p] = Idle]
    /\ UNCHANGED <<disk, faults>>

\* Half an hour after it was made; nothing renews it.
GrowsOld ==
    /\ lock # None /\ ~lock.old /\ Fault /\ lock' = [lock EXCEPT !.old = TRUE]
    /\ UNCHANGED <<disk, job>>

-----------------------------------------------------------------------------
(* Opening the target.                                                     *)

\* Mistake: the build that readers use is taken for a side build as well.
ResumableAny(c) ==
    {b \in dirs \ {0} : /\ store[b].fp = c /\ store[b].man # None /\ store[b].sound
                        /\ Cardinality(store[b].man) = store[b].size}

\* A side build whose checkpoint is of the same fingerprint and whole.
Resumable(c) ==
    {b \in dirs \ {0, current} :
        /\ store[b].fp = c /\ store[b].man # None /\ store[b].sound
        /\ Cardinality(store[b].man) = store[b].size}

\* Mistake: only the newest build survives.
KeptNewest(S) == {b \in S : b = Newest(S)}

\* gc_builds(keep=1): the newest and the current.
Kept(S) == {b \in S : b = current \/ b = Newest(S)}

\* A clean side build, after old ones are removed.
OpenClean(p, there, label) ==
    LET new == made + 1
        kept == Kept(there \ {0}) IN
    /\ made < MaxBuilds /\ made' = new
    /\ dirs' = kept \cup {0, new}
    /\ touched' = Append(SelectSeq(touched, LAMBDA x : x \in kept), new)
    /\ store' = [b \in DOMAIN store |-> IF b \in kept \cup {0} THEN store[b] ELSE Empty]
    /\ job' = [job EXCEPT ![p].at = label, ![p].tgt = new, ![p].base = {}, ![p].full = TRUE]

\* label: where a clean build goes on; a resumed one is proved first.
OpenFull(p, label) ==
    LET found == Resumable(job[p].fp) IN
    IF found # {}
    THEN /\ job' = [job EXCEPT ![p].at = "resume", ![p].tgt = Newest(found), ![p].full = TRUE,
                               ![p].heal = (label = "delete")]
         /\ UNCHANGED <<dirs, touched, store, made>>
    ELSE OpenClean(p, dirs, label)

MustBeFull == store[current].man = None \/ store[current].fp = None \/ ~store[current].sound

Open(p) ==
    /\ job[p].at = "open"
    /\ IF job[p].full \/ MustBeFull THEN OpenFull(p, "collect")
       ELSE /\ job' = [job EXCEPT ![p].at = "collect", ![p].tgt = current,
                                  ![p].base = store[current].man]
            /\ UNCHANGED <<dirs, touched, store, made>>
    /\ UNCHANGED <<lock, current, before, faults>>

\* Mistake: the checkpoint is taken at its word.
ResumeUnproved(p) ==
    LET b == job[p].tgt IN
    /\ job[p].at = "resume"
    /\ job' = [job EXCEPT ![p].at = IF job[p].heal THEN "delete" ELSE "collect",
                          ![p].base = store[b].man]
    /\ UNCHANGED <<lock, disk, faults>>

\* What cannot be proved is thrown away.
Resume(p) ==
    LET b == job[p].tgt
        next == IF job[p].heal THEN "delete" ELSE "collect" IN
    /\ job[p].at = "resume"
    /\ \/ /\ store[b].man # None /\ Ids(store[b].col) = Ids(store[b].man)
          /\ job' = [job EXCEPT ![p].at = next, ![p].base = store[b].man]
          /\ UNCHANGED <<dirs, touched, store, made, faults>>
       \/ /\ store[b].man = None \/ Ids(store[b].col) # Ids(store[b].man)
          /\ OpenClean(p, dirs \ {b}, next) /\ UNCHANGED faults
       \/ Fault /\ OpenClean(p, dirs \ {b}, next)
    /\ UNCHANGED <<lock, current, before>>

-----------------------------------------------------------------------------
(* Writing.  In place, the manifest goes before the first write.           *)

NoManifest(b) == store' = [store EXCEPT ![b].man = None]
RevokeInPlace(p) == IF job[p].full THEN UNCHANGED store ELSE NoManifest(job[p].tgt)


Collect(p) ==
    /\ job[p].at = "collect"
    /\ \/ /\ Goto(p, "delete") /\ UNCHANGED faults
          /\ IF Changed(p) = {} /\ Deleted(p) = {} THEN UNCHANGED store ELSE RevokeInPlace(p)
       \/ Fault /\ Goto(p, "release") /\ RevokeInPlace(p)
    /\ UNCHANGED <<lock, dirs, touched, current, made, before>>

Delete(p) ==
    LET b == job[p].tgt IN
    /\ job[p].at = "delete"
    /\ store' = [store EXCEPT ![b].col = {x \in @ : x[1] \notin Deleted(p)}]
    /\ job' = [job EXCEPT ![p].at = "embed",
                          ![p].base = {x \in @ : x[1] \notin Deleted(p)}]
    /\ UNCHANGED <<lock, dirs, touched, current, made, before, faults>>

\* A failed deletion fails a full build; it turns an incremental one into a
\* full one, which throws away a side build that it cannot clean.
DeleteFails(p) ==
    LET b == job[p].tgt IN
    /\ job[p].at = "delete" /\ Deleted(p) # {} /\ Fault
    /\ CASE job[p].full /\ ~job[p].heal ->
              Goto(p, "release") /\ NoManifest(b) /\ UNCHANGED <<dirs, touched, made>>
         [] job[p].full /\ job[p].heal -> OpenClean(p, dirs \ {b}, "delete")
         [] ~job[p].full -> OpenFull(p, "delete")
    /\ UNCHANGED <<lock, current, before>>

\* One batch.  A side build writes its manifest and its checkpoint after it.
Embed(p) ==
    LET b == job[p].tgt IN
    /\ job[p].at = "embed"
    /\ \E x \in Changed(p) :
        /\ store' = [store EXCEPT ![b].col = Put(@, x)]
        /\ job' = [job EXCEPT ![p].base = Put(@, x), ![p].at = IF job[p].full THEN "mark" ELSE "embed"]
    /\ UNCHANGED <<lock, dirs, touched, current, made, before, faults>>

\* The embedder or the storage fails; another dimension restarts a full build.
EmbedFails(p) ==
    /\ job[p].at = "embed" /\ Changed(p) # {} /\ Fault
    /\ \/ Goto(p, "release") /\ RevokeInPlace(p) /\ UNCHANGED <<dirs, touched, made>>
       \/ /\ job[p].full /\ job[p].base # {}
          /\ OpenClean(p, dirs \ {job[p].tgt}, "embed")
    /\ UNCHANGED <<lock, current, before>>

Mark(p) ==
    LET b == job[p].tgt IN
    /\ job[p].at = "mark" /\ Goto(p, "meta") /\ Touch(b)
    /\ store' = [store EXCEPT ![b].man = job[p].base]
    /\ UNCHANGED <<lock, dirs, current, made, before, faults>>

Meta(p) ==
    LET b == job[p].tgt IN
    /\ job[p].at = "meta" /\ Goto(p, "embed") /\ Touch(b)
    /\ store' = [store EXCEPT ![b].fp = job[p].fp, ![b].size = Cardinality(job[p].base)]
    /\ UNCHANGED <<lock, dirs, current, made, before, faults>>

-----------------------------------------------------------------------------
(* Proof and publication.                                                  *)

\* Another process compares the identifiers.  Four probes may be unavailable.
Prove(p) ==
    LET b == job[p].tgt IN
    /\ job[p].at = "embed" /\ Changed(p) = {}
    /\ \/ /\ Ids(store[b].col) = Ids(Content[job[p].fp])
          /\ Goto(p, "stamp") /\ UNCHANGED <<store, faults>>
       \/ /\ Ids(store[b].col) # Ids(Content[job[p].fp])
          /\ Goto(p, "release") /\ NoManifest(b) /\ UNCHANGED faults
       \/ Fault /\ Goto(p, "release") /\ NoManifest(b)
    /\ UNCHANGED <<lock, dirs, touched, current, made, before>>

Stamp(p) ==
    LET b == job[p].tgt IN
    /\ job[p].at = "stamp" /\ Touch(b)
    /\ \/ /\ Goto(p, "seal") /\ UNCHANGED faults
          /\ store' = [store EXCEPT ![b].fp = job[p].fp, ![b].size = Cardinality(Content[job[p].fp])]
       \/ Fault /\ Goto(p, "release") /\ RevokeInPlace(p)
    /\ UNCHANGED <<lock, dirs, current, made, before>>

Seal(p) ==
    LET b == job[p].tgt IN
    /\ job[p].at = "seal" /\ Touch(b)
    /\ \/ /\ Goto(p, IF job[p].full THEN "publish" ELSE "release") /\ UNCHANGED faults
          /\ store' = [store EXCEPT ![b].man = Content[job[p].fp]]
       \/ Fault /\ Goto(p, "release") /\ RevokeInPlace(p)
    /\ UNCHANGED <<lock, dirs, current, made, before>>

Publish(p) ==
    /\ job[p].at = "publish" /\ Goto(p, "release")
    /\ current' = job[p].tgt /\ before' = current
    /\ UNCHANGED <<lock, dirs, touched, store, made, faults>>

\* The process is killed; a write under way may lose a vector, or tear the file.
Crash(p) ==
    LET b == job[p].tgt IN
    /\ job[p].at # "idle" /\ Fault
    /\ job' = [job EXCEPT ![p] = Idle]
    /\ lock' = IF lock # None /\ lock.by = p THEN [lock EXCEPT !.dead = TRUE] ELSE lock
    /\ \/ UNCHANGED store
       \/ /\ \/ job[p].at = "delete" /\ Deleted(p) # {}
             \/ job[p].at = "embed" /\ Changed(p) # {}
          /\ \/ store' = [store EXCEPT ![b].sound = FALSE]
             \/ \E x \in store[b].col : store' = [store EXCEPT ![b].col = @ \ {x}]
    /\ UNCHANGED <<dirs, touched, current, made, before>>

-----------------------------------------------------------------------------
(* A query: the manifest and the checkpoint are sampled around it.         *)

Look(r) ==
    /\ reader[r].at = "idle" /\ store[current].man # None
    /\ reader' = [reader EXCEPT ![r] = [Quiet EXCEPT !.at = "found", !.b = current]]

\* Nothing is found any more: an empty answer.
GivesUp(r) ==
    /\ \/ reader[r].at \in {"found", "queried"} /\ store[reader[r].b].man = None
       \/ reader[r].at = "queried" /\ ~reader[r].same
       \/ reader[r].at # "idle" /\ reader[r].b \notin dirs
    /\ reader' = [reader EXCEPT ![r] = Quiet]

Sample(r) ==
    LET b == reader[r].b IN
    /\ reader[r].at = "found" /\ b \in dirs /\ store[b].man # None
    /\ reader' = [reader EXCEPT ![r].at = "sampled", ![r].seen = store[b].man, ![r].same = TRUE]

Query(r) ==
    LET b == reader[r].b IN
    /\ reader[r].at = "sampled" /\ b \in dirs
    /\ reader' = [reader EXCEPT ![r].at = "queried", ![r].got = store[b].col]

\* Mistake: the second sample is not compared.
AnswerUnchecked(r) ==
    /\ reader[r].at = "queried"
    /\ reader' = [reader EXCEPT ![r].at = "answered"]

Answer(r) ==
    /\ reader[r].at = "queried" /\ reader[r].same /\ store[reader[r].b].man # None
    /\ reader' = [reader EXCEPT ![r].at = "answered"]

Done(r) ==
    /\ reader[r].at = "answered" /\ reader' = [reader EXCEPT ![r] = Quiet]

\* What a write of the marks does to a sample: they are files of another
\* identity then.
Marks(there, b) == <<there[b].man, there[b].fp, there[b].size>>
Notice ==
    reader' = [r \in Readers |->
        [reader[r] EXCEPT !.same = @ /\ LET b == reader[r].b IN Marks(store, b) = Marks(store', b)]]

Build(p) ==
    \/ Start(p) \/ UnlinkLock(p) \/ CreateLock(p) \/ Release(p)
    \/ Open(p) \/ Resume(p) \/ Collect(p) \/ Delete(p) \/ DeleteFails(p)
    \/ Embed(p) \/ EmbedFails(p) \/ Mark(p) \/ Meta(p)
    \/ Prove(p) \/ Stamp(p) \/ Seal(p) \/ Publish(p) \/ Crash(p)

Read(r) == Look(r) \/ GivesUp(r) \/ Sample(r) \/ Query(r) \/ Answer(r) \/ Done(r)

Next ==
    \/ (GrowsOld \/ \E p \in Builders : Build(p)) /\ Notice
    \/ (\E r \in Readers : Read(r)) /\ UNCHANGED <<lock, disk, job, faults>>

Spec == Init /\ [][Next]_vars

-----------------------------------------------------------------------------
(* Properties.                                                             *)

Chunks == UNION {Content[c] : c \in Commits}

\* Every variable keeps its type (code_vector_build.py, index_handoff.py,
\* _reindex_lock.py).
TypeOK ==
    /\ lock \in {None} \cup [by : Builders, dead : BOOLEAN, old : BOOLEAN]
    /\ dirs \subseteq 0..MaxBuilds /\ 0 \in dirs /\ current \in dirs
    /\ {touched[i] : i \in 1..Len(touched)} = dirs \ {0} /\ Len(touched) = Cardinality(dirs) - 1
    /\ store \in [0..MaxBuilds -> [col : SUBSET Chunks, man : {None} \cup SUBSET Chunks,
                                   fp : Commits \cup {None}, size : Nat, sound : BOOLEAN]]
    /\ \A p \in Builders : /\ job[p].fp \in Commits \cup {None} /\ job[p].tgt \in 0..MaxBuilds
                           /\ job[p].base \subseteq Chunks
    /\ made \in 0..MaxBuilds /\ before \in 0..MaxBuilds /\ faults \in 0..MaxFaults

\* While the build that readers use carries its manifest, its vectors are those
\* of the manifest and all of one commit, whatever crashed, failed or was
\* resumed (the marker discipline of _build_locked).
MarkIsTrue ==
    store[current].man # None =>
        /\ store[current].col = store[current].man
        /\ \E c \in Commits : store[current].man = Content[c]

\* An answer was read from the vectors of the manifest sampled before it,
\* although a build may have changed or replaced them in between
\* (query_code_vectors, _published_generation).
AnswerIsPublished ==
    \A r \in Readers : reader[r].at = "answered" => reader[r].got = reader[r].seen

\* What a build believes to have stored is stored, after a resumption, a
\* discarded target or a failed deletion (_resumable_manifest,
\* _recover_incremental_delete_failure).
WorkIsThere ==
    \A p \in Builders :
        job[p].at \notin {"idle", "unlink", "create", "open", "resume", "release"} =>
            job[p].tgt \in dirs /\ job[p].base \subseteq store[job[p].tgt].col

\* Only a build in place takes a readable index away; a full build, its
\* clean-up and its failures never do (gc_builds, commit_build).
Readable == current \in dirs /\ store[current].man # None
FullKeepsCurrent ==
    [][Readable /\ ~Readable' => \E p \in Builders : ~job[p].full /\ job'[p] # job[p]]_vars

\* One process writes a directory (_reindex_lock.py, index_handoff.py).
OneWriter ==
    \A p, q \in Builders :
        p # q => \/ job[p].at \in {"idle", "unlink", "create"}
                 \/ job[q].at \in {"idle", "unlink", "create"}

\* A reader that found the build that was current until the last publication
\* can go on reading it (commit_build).
OldBuildSurvives ==
    \A r \in Readers : reader[r].at # "idle" /\ reader[r].b = before => before \in dirs
=============================================================================

----------------------------- MODULE DocsIndex ------------------------------
(***************************************************************************)
(* The document index (chroma/indexer.py) and the daemon's view of it      *)
(* (chroma/_project_state.py).  The indexer compares the documents with    *)
(* the manifest, edits the current build in place, or fills a side build   *)
(* and switches to it, has the identifiers proved by another process and   *)
(* then writes a stamp that makes the daemon load the project again.       *)
(***************************************************************************)
EXTENDS Naturals, Sequences, FiniteSets

CONSTANTS Docs,
          Size,       \* <<chunks of version 1, of version 2, ...>>
          MaxEdits,   \* bound: changes of documents
          MaxFaults,  \* bound: failing calls, kills, forced rebuilds
          Proven,     \* one read of a document gives its digest and its text
          None

Versions == 0..Len(Size)
Chunks(v) == IF v = 0 THEN 0 ELSE Size[v]
Places == 1 .. CHOOSE n \in {Size[v] : v \in 1..Len(Size)} : \A v \in 1..Len(Size) : Size[v] <= n

DocsAssumption ==
    /\ MaxEdits \in Nat /\ MaxFaults \in Nat /\ Size \in Seq(Nat \ {0}) /\ Size # <<>>
    /\ Proven \in BOOLEAN

VARIABLES files,    \* [Docs -> the version on disk, 0 when there is none]
          current,  \* the build that readers use, or None
          job,      \* the indexer; its side build is its own until the switch
          result,   \* of its last run: "none", "ok" or "failed"
          stamped,  \* a stamp exists
          project,  \* the daemon's state of the project, or None
          torn,     \* history: the documents in the build that readers use that a
                    \* run has replaced without coming to write its manifest
          edits, faults

vars == <<files, current, job, result, stamped, project, torn, edits, faults>>

\* A collection has one version, or 0, at each place of each document; an
\* entry of a manifest is a digest, here the version, and a number of chunks.
Text(v) == [i \in Places |-> IF i <= Chunks(v) THEN v ELSE 0]
Ids(col) == {x \in Docs \X Places : col[x[1]][x[2]] # 0}
Listed(man) == {x \in Docs \X Places : x[2] <= man[x[1]].n}

Blank == [col |-> [d \in Docs |-> Text(0)], man |-> None]
NoEntry == [sha |-> 0, n |-> 0]
NoFiles == [d \in Docs |-> NoEntry]
Whole(f) == [col |-> [d \in Docs |-> Text(f[d])],
             man |-> [d \in Docs |-> [sha |-> f[d], n |-> Chunks(f[d])]]]

Idle == [at |-> "idle", full |-> FALSE, scan |-> [d \in Docs |-> 0], mem |-> NoFiles,
         todo |-> {}, buf |-> {}, put |-> {}, side |-> Blank]

Init ==
    /\ files \in [Docs -> Versions]
    /\ current \in {Whole(files), None} /\ stamped = (current # None)
    /\ job = Idle /\ result = "none" /\ project = None
    /\ torn = {} /\ edits = 0 /\ faults = 0

Fault == faults < MaxFaults /\ faults' = faults + 1

\* The author writes, replaces or removes a document.
Edit(d) ==
    /\ edits < MaxEdits /\ edits' = edits + 1
    /\ \E v \in Versions \ {files[d]} : files' = [files EXCEPT ![d] = v]
    /\ UNCHANGED <<current, job, result, stamped, project, torn, faults>>

-----------------------------------------------------------------------------
(* A run of the indexer.                                                   *)

Target == IF job.full THEN job.side ELSE current
Write(build, label) ==
    IF job.full THEN job' = [job EXCEPT !.side = build, !.at = label] /\ UNCHANGED current
    ELSE job' = [job EXCEPT !.at = label] /\ current' = build

End(r) == result' = r
Fail(build) ==
    /\ job' = Idle /\ End("failed")
    /\ current' = IF job.full THEN current ELSE build

\* A failed proof or deletion takes the manifest away: the next run is full.
Revoked(build) == [build EXCEPT !.man = None]

Present(f) == {d \in Docs : f[d] # 0}

\* Mistake: a document of the same length is taken for unchanged.
ChangedBySize(mem) == {d \in Docs : files[d] # 0 /\ mem[d].n # Chunks(files[d])}

Changed(mem) == {d \in Present(files) : mem[d].sha # files[d]}
Removed(mem) == {d \in Docs : files[d] = 0 /\ mem[d].sha # 0}

\* The manifest is read, the documents are hashed; without a manifest, or when
\* forced to, the indexer fills a side build.
Start ==
    /\ job.at = "idle" /\ End("none")
    /\ \E force \in BOOLEAN :
        /\ IF force THEN Fault ELSE UNCHANGED faults
        /\ LET loaded == ~force /\ current # None /\ current.man # None
               mem == IF loaded THEN current.man ELSE NoFiles
               new == [Idle EXCEPT !.scan = files, !.mem = mem] IN
           job' = IF ~loaded
                  THEN [new EXCEPT !.at = "write", !.full = TRUE, !.todo = Present(files)]
                  ELSE IF Changed(mem) = {} /\ Removed(mem) = {}
                  THEN [new EXCEPT !.at = "prove"]
                  ELSE [new EXCEPT !.at = "purge", !.todo = Changed(mem)]
    /\ UNCHANGED <<files, current, stamped, project, torn, edits>>

Without(col, d, n) == [col EXCEPT ![d] = [i \in Places |-> IF i <= n THEN 0 ELSE @[i]]]

\* The chunks of removed documents, as many as the manifest says.
Purge ==
    LET gone == {d \in Docs : job.scan[d] = 0} IN
    /\ job.at = "purge"
    /\ current' = [current EXCEPT !.col = [d \in Docs |->
                       IF d \in gone THEN Without(@, d, job.mem[d].n)[d] ELSE @[d]]]
    /\ job' = [job EXCEPT !.at = "write",
                          !.mem = [d \in Docs |-> IF d \in gone THEN NoEntry ELSE @[d]]]
    /\ UNCHANGED <<files, result, stamped, project, torn, edits, faults>>

\* One document: its old chunks go, its text is read and waits to be embedded.
\* A proved input must be what was hashed; otherwise the text of now is taken,
\* and a document that cannot be read counts as one without text.
Rewrite(d) ==
    /\ job.at = "write" /\ d \in job.todo
    /\ LET erased == [Target EXCEPT !.col = Without(@, d, job.mem[d].n)] IN
       \/ /\ ~Proven \/ files[d] = job.scan[d]
          /\ current' = IF job.full THEN current ELSE erased
          /\ \E v \in {files[d], 0} :
              /\ IF v # files[d] THEN ~Proven /\ Fault ELSE UNCHANGED faults
              /\ job' = [job EXCEPT !.todo = @ \ {d}, !.side = IF job.full THEN erased ELSE @,
                                    !.buf = @ \cup {<<d, v>>},
                                    !.mem[d] = [sha |-> job.scan[d], n |-> Chunks(v)]]
          /\ UNCHANGED result
       \/ /\ Proven /\ files[d] # job.scan[d]
          /\ Fail(Revoked(erased)) /\ UNCHANGED faults
    /\ UNCHANGED <<files, stamped, project, torn, edits>>

DeleteFails ==
    /\ ~job.full /\ Fault
    /\ \/ job.at = "purge"
       \/ job.at = "write" /\ \E d \in job.todo : job.mem[d].n > 0
    /\ Fail(Revoked(current))
    /\ UNCHANGED <<files, stamped, project, torn, edits>>

\* A batch is full, or all is read: the chunks are embedded and put.  In place,
\* the manifest goes on to tell of the chunks before.
Flush ==
    /\ job.at = "write" /\ job.buf # {}
    /\ LET put == [Target EXCEPT !.col = [d \in Docs |->
                      [i \in Places |->
                          IF \E x \in job.buf : x[1] = d /\ i <= Chunks(x[2])
                          THEN (CHOOSE x \in job.buf : x[1] = d)[2] ELSE @[d][i]]]] IN
       /\ job' = [job EXCEPT !.buf = {}, !.put = @ \cup {x[1] : x \in job.buf},
                             !.side = IF job.full THEN put ELSE @]
       /\ current' = IF job.full THEN current ELSE put
    /\ torn' = IF job.full THEN torn ELSE torn \cup {x[1] : x \in job.buf}
    /\ UNCHANGED <<files, result, stamped, project, edits, faults>>

\* The embedder or the storage fails: the run ends, the manifest stays.
FlushFails ==
    /\ job.at = "write" /\ job.buf # {} /\ Fault
    /\ job' = Idle /\ End("failed")
    /\ UNCHANGED <<files, current, stamped, project, torn, edits>>

Save ==
    /\ job.at = "write" /\ job.todo = {} /\ job.buf = {}
    /\ Write([Target EXCEPT !.man = job.mem], "prove")
    /\ torn' = IF job.full THEN torn ELSE torn \ job.put
    /\ UNCHANGED <<files, result, stamped, project, edits, faults>>

\* Mistake: a failed proof leaves the manifest.
ProveKeeping ==
    /\ job.at = "prove"
    /\ IF Ids(Target.col) = Listed(Target.man)
       THEN Write(Target, "publish") /\ UNCHANGED result
       ELSE Fail(Target)
    /\ UNCHANGED <<files, stamped, project, torn, edits, faults>>

\* Another process opens the collection and compares the identifiers; it may
\* be unavailable four times.  A run without a change does it itself.
Prove ==
    /\ job.at = "prove"
    /\ \/ /\ Ids(Target.col) = Listed(Target.man)
          /\ Write(Target, "publish") /\ UNCHANGED <<result, faults>>
       \/ /\ Ids(Target.col) # Listed(Target.man)
          /\ Fail(Revoked(Target)) /\ UNCHANGED faults
       \/ Fault /\ Fail(Revoked(Target))
    /\ UNCHANGED <<files, stamped, project, torn, edits>>

-----------------------------------------------------------------------------
(* Publication, and the daemon.                                            *)

\* The states of the project that were loaded from the build before.
Orphaned == IF project = None \/ ~job.full THEN project ELSE [project EXCEPT !.own = FALSE]

\* What the daemon makes of a newer stamp: a project that was loaded takes it for
\* its first one, whatever has been published since.
Outdated(p) ==
    IF p = None THEN None
    ELSE IF p.seen = "new" THEN [p EXCEPT !.seen = "old"]
    ELSE IF p.seen = "none" THEN [p EXCEPT !.missed = TRUE]
    ELSE p

Switch ==
    /\ job.at = "publish"
    /\ current' = Target /\ project' = Orphaned
    /\ job' = [job EXCEPT !.at = "stamp", !.side = Blank]
    /\ torn' = IF job.full THEN {} ELSE torn
    /\ UNCHANGED <<files, result, stamped, edits, faults>>

Stamp ==
    /\ job.at = "stamp"
    /\ \/ /\ stamped' = TRUE /\ project' = Outdated(project) /\ End("ok") /\ UNCHANGED faults
       \/ Fault /\ End("failed") /\ UNCHANGED <<stamped, project>>
    /\ job' = [Idle EXCEPT !.scan = job.scan]
    /\ UNCHANGED <<files, current, torn, edits>>

\* The indexer is killed; the manifest that it was writing is cut short.
Kill ==
    /\ job.at # "idle" /\ Fault /\ End("failed")
    /\ job' = Idle
    /\ \/ UNCHANGED current
       \/ /\ job.at = "write" /\ job.todo = {} /\ job.buf = {} /\ ~job.full
          /\ current' = Revoked(current)
    /\ UNCHANGED <<files, stamped, project, torn, edits>>

\* The vectors are read from the build; what the word index has was read when
\* the project was loaded.  Without a collection the error is kept as a state.
Loaded ==
    [ok |-> current # None, own |-> TRUE, seen |-> "none", missed |-> FALSE,
     words |-> IF current = None THEN Blank.col ELSE current.col]

\* Mistake: a newer stamp is noted like the first one.
RequestNotes ==
    /\ project' = IF project = None THEN Loaded
                  ELSE IF stamped THEN [project EXCEPT !.seen = "new"] ELSE project
    /\ UNCHANGED <<files, current, job, result, stamped, torn, edits, faults>>

\* A project that is known is loaded again when a stamp is newer than the one
\* that was noted; the first stamp is only noted.
Request ==
    /\ project' = IF project = None \/ project.seen = "old" THEN Loaded
                  ELSE IF stamped THEN [project EXCEPT !.seen = "new"]
                  ELSE project
    /\ UNCHANGED <<files, current, job, result, stamped, torn, edits, faults>>

LoadFails ==
    /\ (IF project = None THEN TRUE ELSE project.seen = "old") /\ Fault
    /\ project' = [Loaded EXCEPT !.ok = FALSE]
    /\ UNCHANGED <<files, current, job, result, stamped, torn, edits>>

Run ==
    \/ Start \/ Purge \/ \E d \in Docs : Rewrite(d)
    \/ Flush \/ Save \/ Prove \/ Switch \/ Stamp

Next ==
    \/ \E d \in Docs : Edit(d)
    \/ Run \/ DeleteFails \/ FlushFails \/ Kill
    \/ Request \/ LoadFails

Spec == Init /\ [][Next]_vars
FairSpec == Spec /\ WF_vars(Run) /\ WF_vars(Request)

-----------------------------------------------------------------------------
(* Properties.                                                             *)

Cols == [Docs -> [Places -> Versions]]
Mans == [Docs -> [sha : Versions, n : Places \cup {0}]]
Builds == [col : Cols, man : {None} \cup Mans]

\* Every variable keeps its type (index, _ProjectState).
TypeOK ==
    /\ files \in [Docs -> Versions] /\ stamped \in BOOLEAN /\ torn \subseteq Docs
    /\ edits \in 0..MaxEdits /\ faults \in 0..MaxFaults
    /\ result \in {"none", "ok", "failed"}
    /\ current # None => current.col \in Cols /\ (current.man # None => current.man \in Mans)
    /\ job.at \in {"idle", "purge", "write", "prove", "publish", "stamp"}
    /\ job.scan \in [Docs -> Versions] /\ job.mem \in Mans /\ job.todo \subseteq Docs
    /\ project # None => project.words \in Cols /\ project.seen \in {"none", "old", "new"}

\* What of a document the proof cannot tell from the truth: its identifiers are
\* right and its text is what a run has put that never came to its manifest.
OnlyListed(d, v) ==
    d \in torn /\ {i \in Places : current.col[d][i] # 0} = {i \in Places : i <= Chunks(v)}

Holds(f) ==
    /\ current # None
    /\ \A d \in Docs : current.col[d] = Text(f[d]) \/ OnlyListed(d, f[d])

\* After a run that succeeded the collection holds the documents as they were
\* hashed, each chunk of that version, none missing and none left over, although
\* the proof compares identifiers only and runs before it may have been killed
\* between any two writes.  The exception is the proof's: a document that a
\* killed run has replaced and that is back at the version of the manifest with
\* as many chunks (index, verify_collection_ids).
OkIsTrue == result = "ok" => Holds(job.scan)

\* While the indexer rests after a success, a daemon that noted the last stamp
\* serves what was published with it, unless that stamp was written between the
\* load of the project and the next request, which takes it for the stamp of
\* what was loaded (_publish_build, _maybe_reload_project).
ReaderFollows ==
    (result = "ok" /\ project # None) =>
        (project.ok /\ project.seen = "new" /\ ~project.missed =>
            project.own /\ project.words = current.col)

\* Both, of an index and its reader.
IndexSound == TypeOK /\ OkIsTrue /\ ReaderFollows

\* What _maybe_reload_project says of the first stamp: the state is fresh.
NotedIsFresh ==
    (result = "ok" /\ project # None) =>
        (project.ok /\ project.seen = "new" => project.own /\ project.words = current.col)

\* The collection holds the documents of now: runs go on until it does, whatever
\* failed before.
Settled == Holds(files)

\* The daemon serves what the collection holds.
Followed == project # None => project.ok /\ project.own /\ project.words = current.col
=============================================================================

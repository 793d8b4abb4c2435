---------------------------- MODULE MCFileQueue ----------------------------
(* Small instances of FileQueue for TLC: two processes with owner tokens of
   their own (two isolated workers, or a worker and a maintenance command),
   and two processes that share one owner token (legacy workers of a host). *)
EXTENDS FileQueue, TLC

CONSTANTS p1, p2, o1, o2, t1, t2

MCOwnOwners == p1 :> o1 @@ p2 :> o2

MCSharedOwner == [p \in Procs |-> o1]

(* Targets are interchangeable, and so are the processes once each takes its
   owner token along. *)
SwapTargets == t1 :> t2 @@ t2 :> t1
SwapProcs   == p1 :> p2 @@ p2 :> p1
SwapOwners  == o1 :> o2 @@ o2 :> o1

OwnSymmetry    == {SwapTargets, SwapProcs @@ SwapOwners,
                   SwapTargets @@ SwapProcs @@ SwapOwners}
SharedSymmetry == {SwapTargets, SwapProcs, SwapTargets @@ SwapProcs}
OneProcSymmetry == {SwapTargets}
=============================================================================

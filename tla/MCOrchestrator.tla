--------------------------- MODULE MCOrchestrator ---------------------------
(* Small instances of Orchestrator for TLC.  Keys, targets and claim tokens
   are interchangeable. *)
EXTENDS Orchestrator, TLC

MCSymmetry ==
    Permutations(Keys) \cup Permutations(Targets) \cup Permutations(Tokens)
=============================================================================

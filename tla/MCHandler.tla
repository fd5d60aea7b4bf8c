----------------------------- MODULE MCHandler -----------------------------
(* Handler.tla on small sets of callers, targets and sessions.             *)
EXTENDS Handler, TLC

Symmetry == Permutations(Callers) \union Permutations(Targets) \union Permutations(Sessions)

=============================================================================

----------------------------- MODULE MCLifecycle -----------------------------
(* Lifecycle with interchangeable processes, identities and generations.   *)
EXTENDS Lifecycle, TLC

Symmetry == Permutations(Procs) \union Permutations(Ids) \union Permutations(Gens)

=============================================================================

--------------------------- MODULE MCBundleCache ---------------------------
(***************************************************************************)
(* TLC model of BundleCache: the symmetry sets.                            *)
(***************************************************************************)
EXTENDS BundleCache, TLC

Symmetry == Permutations(Procs) \cup Permutations(Inodes)

=============================================================================

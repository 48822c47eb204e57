------------------------------ MODULE MCListing ------------------------------
(* Listing with interchangeable listings, identities and generations.      *)
EXTENDS Listing, TLC

Symmetry == Permutations(Lists) \union Permutations(Ids) \union Permutations(Gens)

=============================================================================

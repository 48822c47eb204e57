----------------------------- MODULE MCHostAgent -----------------------------
(* HostAgent with interchangeable processes.                               *)
EXTENDS HostAgent, TLC

Symmetry == Permutations(Agents)

=============================================================================

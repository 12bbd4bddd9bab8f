------------------------------ MODULE MCIngest ------------------------------
(* Instances of Ingest for TLC. *)
EXTENDS Ingest, TLC

Symmetry == Permutations(Configs) \cup Permutations(Manual) \cup Permutations(Patchers)

=============================================================================

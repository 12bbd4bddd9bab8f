------------------------------ MODULE MCOpenPr ------------------------------
(* Instances of OpenPr for TLC. *)
EXTENDS OpenPr, TLC

\* Requests are told apart by the claim they hold only.
Symmetry == Permutations(Requests)
=============================================================================

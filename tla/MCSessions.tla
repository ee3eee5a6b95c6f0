---------------------------- MODULE MCSessions ------------------------------
(* Sessions for TLC: clients are interchangeable. *)
EXTENDS Sessions

ClientSymmetry == Permutations(Clients)

=============================================================================

---------------------------- MODULE MCEamService ----------------------------
(* Instances of EamService for TLC. *)
EXTENDS EamService, TLC

CONSTANTS c1, c2

OneClient == {c1}
TwoClients == {c1, c2}
Symmetry == Permutations(Clients)

=============================================================================

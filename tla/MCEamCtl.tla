------------------------------ MODULE MCEamCtl ------------------------------
(* Instances of EamCtl for TLC. *)
EXTENDS EamCtl

CONSTANTS c1, c2

TwoClients == {c1, c2}
OneClient == {c1}
AllCommands == {"install", "update", "uninstall"}

=============================================================================

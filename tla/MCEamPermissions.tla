-------------------------- MODULE MCEamPermissions --------------------------
(* Instances of EamPermissions for TLC: a directory with a file in it, and *)
(* a file beside it.                                                       *)
EXTENDS EamPermissions, TLC

CONSTANTS top, dir, inner, file, w1, w2

Tree == {top, dir, inner, file}
ParentOf == dir :> top @@ inner :> dir @@ file :> top
SubtreeOf == top :> Tree @@ dir :> {dir, inner} @@ inner :> {inner} @@ file :> {file}
OneWalker == {w1}
TwoWalkers == {w1, w2}
Symmetry == Permutations(Walkers)

=============================================================================

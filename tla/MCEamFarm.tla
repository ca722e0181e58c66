----------------------------- MODULE MCEamFarm -----------------------------
(* An instance of EamFarm for TLC: applications that share the             *)
(* subdirectory and some names.                                            *)
EXTENDS EamFarm, TLC

CONSTANTS a, b, w1, w2

TwoApps == {a, b}
TwoWorkers == {w1, w2}
BothVersions == {"v1", "v2"}

(* a has its program in games, and in its second version in bin too, and   *)
(* comes with a second one of the name of b's; the system has a program of *)
(* the name of a's.  b's second version starts a program of the system's,  *)
(* and has a file of the name of the subdirectory beside another one.      *)
BundleFiles ==
    (a :> [v1 |-> {<<"games", "play">>, <<"bin", "help">>, <<"top", "a">>, <<"sub", "a">>},
           v2 |-> {<<"bin", "play">>, <<"games", "play">>, <<"sub", "a">>, <<"sub", "icon">>}]) @@
    (b :> [v1 |-> {<<"bin", "help">>, <<"top", "b">>, <<"sub", "icon">>},
           v2 |-> {<<"top", "sub">>, <<"top", "b">>}])
Programs ==
    (a :> [v1 |-> "play", v2 |-> "play"]) @@ (b :> [v1 |-> "help", v2 |-> "python"])
System == {"python", "play"}

Symmetry == Permutations(Workers)

=============================================================================

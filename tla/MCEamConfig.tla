----------------------------- MODULE MCEamConfig -----------------------------
(* EamConfig for TLC: two commands, three keys, one of each type. *)
EXTENDS EamConfig, TLC

CONSTANTS c1, c2, url, deltas, seconds, typo, appupdates

MCNumbers == {-4, 0, 2, 4}      \* 4 is out of range with IntMax = 3
MCDefault == [k \in Keys |-> IF k = url THEN appupdates ELSE IF k = deltas THEN True ELSE 2]

MCSymmetry == Permutations({c1, c2})

=============================================================================

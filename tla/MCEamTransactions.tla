------------------------- MODULE MCEamTransactions -------------------------
(* Instances of EamTransactions for TLC. *)
EXTENDS EamTransactions, TLC

CONSTANTS s1, s2, w1, w2

OneWorker == {w1}
TwoWorkers == {w1, w2}
OneStorage == {s1}
TwoStorages == {s1, s2}
OtherStorage == {s2}
DefaultPrefix == {Apps}
Nowhere == {}
BothVersions == {"v1", "v2"}
OneVersion == {"v1"}

Symmetry == Permutations(Workers)

(* The state without what only action properties look at, without what an *)
(* idle worker last worked on, and without the extraction directory while  *)
(* nobody uses it: it is written before it is read.  While it is written   *)
(* it only matters that it is partial.  No guard and no property of the    *)
(* runs that use it depends on the rest.                                   *)
Work(w) ==
    <<kind[w], from[w], to[w], ver[w], delta[w], force[w], phase[w], faults[w],
      todo[w], at[w], ensured[w], skipped[w]>>
CacheSeen ==
    IF \E w \in Workers : pc[w] \in {"scripts", "deploy", "deploycopy"} THEN tree[Cache]
    ELSE IF \A w \in Workers : pc[w] # "extracting" THEN "none"
    ELSE IF tree[Cache] \in Partial THEN "part" ELSE tree[Cache]
NoGhosts ==
    <<[tree EXCEPT ![Cache] = CacheSeen], link, appLink, backupLink, pc,
      [w \in Workers |-> IF pc[w] = "idle" THEN <<>> ELSE Work(w)], owned, ops, crashes>>

AllKinds == {"install", "update", "uninstall", "migrate", "symlinks", "farm"}
Transactions == {"install", "update", "uninstall"}
AndFarm == Transactions \cup {"farm"}
OnlyUpdate == {"update"}

(* Every failure of every step: some are of a call inside it.              *)
Failing == Steps \cup {"hooks", "sanity", "opendir"}
Everything == AndFarm \X Failing

(* Every failure but those of an update that makes its links, and of the   *)
(* removal of links.                                                       *)
ButUpdateLinks ==
    {f \in Everything : /\ f[2] # "unlink"
                        /\ f[1] = "update" => f[2] \notin {"linkbin", "linksys", "linkapp"}}

LinkFailure == {<<"update", "linksys">>}

=============================================================================

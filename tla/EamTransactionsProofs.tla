------------------------ MODULE EamTransactionsProofs ------------------------
(***************************************************************************)
(* The theorems of EamTransactions about any number of workers, failures   *)
(* and crashes.                                                            *)
(***************************************************************************)
EXTENDS EamTransactions, TLAPS

Phases == {"forward", "back"}
Results == {"none", "ok", "already", "failed"}
Linking == {"linkbin", "linksys", "linkapp"}
Unpacking == {"extract", "extracting", "scripts", "deploy", "deploycopy", "drop"}
FarmPlaces == {App(p) : p \in Storages} \cup {Backup(p) : p \in Storages}

(* The steps a transaction of kind k takes, and undoes its work by.        *)
StageIn(k, ph, s) ==
    \/ s = "idle"
    \/ /\ ph = "forward"
       /\ \/ s = "check" /\ k \in Kinds
          \/ k \in {"install", "update"} /\ s \in Unpacking \cup Linking
          \/ k = "update" /\ s \in {"unlink", "backup", "backupcopy", "backupdrop",
                                      "remove", "removing"}
          \/ k = "uninstall" /\ s \in {"unlink", "remove", "removing"}
          \/ k = "migrate" /\ s \in {"deploy", "deploycopy", "drop", "unlink"} \cup Linking
          \/ k = "symlinks" /\ s \in {"unlink"} \cup Linking
          \/ k = "farm" /\ s \in {"farm"} \cup Linking
    \/ /\ ph = "back"
       /\ \/ k = "install" /\ s \in {"unlink", "remove", "removing"}
          \/ k = "update" /\ s \in {"restore"} \cup Linking

(* The parameters each kind is started with. *)
ParamsOK(w) ==
    /\ kind[w] = "install" => to[w] \in Storages /\ ver[w] \in Versions /\ ~delta[w]
    /\ kind[w] = "update" => from[w] \in UpdatePrefixes /\ to[w] \in UpdatePrefixes /\ ver[w] \in Versions
    /\ kind[w] = "uninstall" => from[w] \in Storages \cup {NoPrefix}
    /\ pc[w] = "removing" => ~Nothing(w)
    /\ kind[w] = "migrate" => from[w] \in Storages /\ to[w] \in Storages
    /\ kind[w] = "symlinks" => from[w] \in Prefixes /\ to[w] \in Storages \cup {NoPrefix}
    /\ todo[w] \subseteq FarmPlaces
    /\ kind[w] = "farm" /\ pc[w] \in Linking => at[w] \in FarmPlaces

StagesOK == \A w \in Workers : StageIn(kind[w], phase[w], pc[w]) /\ ParamsOK(w)

TypeInv == TypeOK /\ StagesOK

-----------------------------------------------------------------------------
(* Places. *)

LEMMA PlaceFacts ==
    /\ \A p \in Prefixes : App(p) \in Places /\ Backup(p) \in Places
    /\ Cache \in Places /\ Storages \subseteq Prefixes /\ Apps \in Prefixes
    /\ \A p, q : App(p) # Backup(q)
    /\ \A p, q : (App(p) = App(q) => p = q) /\ (Backup(p) = Backup(q) => p = q)
    /\ \A p \in Prefixes : App(p) # Cache /\ Backup(p) # Cache
    /\ FarmPlaces \subseteq Places \ {Cache, Backup(Apps), App(Apps)}
<1>1. \A p, q : App(p) # Backup(q) /\ (App(p) = App(q) => p = q) /\ (Backup(p) = Backup(q) => p = q)
  BY DEF App, Backup
<1>2. \A p \in Prefixes : App(p) # Cache /\ Backup(p) # Cache
  BY PrefixAssumption DEF App, Backup, Cache
<1>3. \A p \in Prefixes : App(p) \in Places /\ Backup(p) \in Places BY DEF Places
<1>4. Cache \in Places /\ Storages \subseteq Prefixes /\ Apps \in Prefixes BY DEF Places, Prefixes
<1>5. FarmPlaces \subseteq Places \ {Cache, Backup(Apps), App(Apps)}
  BY <1>1, <1>2, <1>3, <1>4, PrefixAssumption DEF FarmPlaces
<1> QED BY <1>1, <1>2, <1>3, <1>4, <1>5

LEMMA ResolvePlace ==
    ASSUME FsTypeOK, NEW p \in Prefixes
    PROVE  /\ Resolve(p) \in Places /\ Resolve(p) # Cache
           /\ p \in Storages => Resolve(p) = App(p)
BY PlaceFacts, PrefixAssumption DEF Resolve, FsTypeOK

LEMMA TreeAtTree ==
    ASSUME FsTypeOK, NEW p \in Prefixes \cup {NoPrefix}
    PROVE  TreeAt(p) \in Trees
<1>1. CASE p = NoPrefix BY <1>1 DEF TreeAt, Trees
<1>2. CASE p # NoPrefix
  <2>1. Resolve(p) \in Places BY <1>2, ResolvePlace
  <2> QED BY <1>2, <2>1 DEF TreeAt, FsTypeOK
<1> QED BY <1>1, <1>2

(* What the operations on the disk do to its types. *)
LEMMA TreeTypes ==
    ASSUME FsTypeOK, NEW pl \in Places, NEW ql \in Places
    PROVE  /\ Removed(pl) \in [Places -> Trees] /\ Renamed(pl, ql) \in [Places -> Trees]
           /\ Copied(pl, ql) \in [Places -> Trees]
           /\ Halfway(pl) \/ Gutted(pl) => tree' \in [Places -> Trees]
<1>1. tree \in [Places -> Trees] /\ "none" \in Trees /\ Partial \subseteq Trees
  BY DEF FsTypeOK, Trees
<1>2. Remains(tree[pl]) \subseteq Partial BY DEF Remains, Partial
<1>3. Removed(pl) \in [Places -> Trees] BY <1>1 DEF Removed
<1>4. Renamed(pl, ql) \in [Places -> Trees] /\ Copied(pl, ql) \in [Places -> Trees]
  BY <1>1 DEF Renamed, Copied
<1>5. Halfway(pl) => tree' \in [Places -> Trees] BY <1>1 DEF Halfway
<1>6. Gutted(pl) => tree' \in [Places -> Trees] BY <1>1, <1>2 DEF Gutted
<1> QED BY <1>3, <1>4, <1>5, <1>6

LEMMA DisturbTypes ==
    ASSUME FsTypeOK, \/ \E t \in [Places -> Trees] : Disturb(t)
                     \/ \E pl \in Places : Fills(pl) \/ Guts(pl)
                     \/ UNCHANGED fsVars
    PROVE  FsTypeOK'
<1>1. CASE \E t \in [Places -> Trees] : Disturb(t) BY <1>1 DEF Disturb, FsTypeOK
<1>2. CASE \E pl \in Places : Fills(pl) \/ Guts(pl)
  BY <1>2, TreeTypes DEF Fills, Guts, FsTypeOK
<1>3. CASE UNCHANGED fsVars BY <1>3 DEF fsVars, FsTypeOK
<1> QED BY <1>1, <1>2, <1>3

LEMMA LinkTypes ==
    ASSUME FsTypeOK, UNCHANGED tree
    PROVE  /\ \A p : PruneSymlinks(p) \/ PruneGivesUp(p) => FsTypeOK'
           /\ \A n \in LinkNames :
                 LinkCut(n) /\ UNCHANGED <<appLink, backupLink>> => FsTypeOK'
           /\ \A n \in LinkNames, pl \in FarmPlaces \cup {App(Apps)} :
                 LinkTo(n, pl) /\ UNCHANGED <<appLink, backupLink>> => FsTypeOK'
           /\ \A pl \in FarmPlaces \cup {App(Apps)} : LinkApp(pl) /\ UNCHANGED link => FsTypeOK'
<1>1. ASSUME NEW p, PruneSymlinks(p) \/ PruneGivesUp(p) PROVE FsTypeOK'
  <2>1. PICK names : link' = [n \in LinkNames |-> IF n \in names THEN NoPrefix ELSE link[n]]
    BY <1>1 DEF PruneSymlinks, PruneFarm, PruneGivesUp
  <2>2. appLink' \in {appLink, NoPrefix} /\ backupLink' = backupLink
    BY <1>1 DEF PruneSymlinks, PruneGivesUp
  <2> QED BY <2>1, <2>2 DEF FsTypeOK
<1>4. ASSUME NEW n \in LinkNames, LinkCut(n), UNCHANGED <<appLink, backupLink>>
      PROVE  FsTypeOK'
  BY <1>4 DEF LinkCut, FsTypeOK
<1>2. ASSUME NEW n \in LinkNames, NEW pl \in FarmPlaces \cup {App(Apps)},
             LinkTo(n, pl), UNCHANGED <<appLink, backupLink>>
      PROVE  FsTypeOK'
  <2>1. pl \in Places \ {Cache, Backup(Apps)} BY PlaceFacts
  <2> QED BY <1>2, <2>1 DEF LinkTo, FsTypeOK
<1>3. ASSUME NEW pl \in FarmPlaces \cup {App(Apps)}, LinkApp(pl), UNCHANGED link
      PROVE  FsTypeOK'
  <2>1. pl[1] \in Storages \cup {Apps} BY DEF FarmPlaces, App, Backup
  <2>2. appLink' \in {appLink, pl[1]} /\ backupLink' \in {backupLink, pl[1]}
        /\ (pl[1] = Apps => UNCHANGED <<appLink, backupLink>>)
    BY <1>3 DEF LinkApp
  <2> QED BY <1>3, <2>1, <2>2 DEF FsTypeOK
<1> QED BY <1>1, <1>2, <1>3, <1>4

-----------------------------------------------------------------------------
(* The control part of a worker's step: it goes to s, in phase ph, with    *)
(* the report r.                                                           *)
Step(w, s, ph, r) ==
    /\ s \in Steps /\ ph \in Phases /\ r \in Results
    /\ pc' = [pc EXCEPT ![w] = s]
    /\ phase' = [phase EXCEPT ![w] = ph]
    /\ result' = [result EXCEPT ![w] = r]
    /\ UNCHANGED <<params, old, ops, crashes>>
    /\ owned' \in BOOLEAN
    /\ owned' => owned \/ (s = "idle" /\ r = "ok" /\ kind[w] \in {"install", "update"})

(* What it does to the work left of ensure-symlink-farm. *)
FarmStep(w) ==
    /\ \E t \in SUBSET todo[w] : todo' = [todo EXCEPT ![w] = t]
    /\ \E pl \in todo[w] \cup {NoPrefix, at[w]} : at' = [at EXCEPT ![w] = pl]
    /\ \E e \in BOOLEAN : ensured' = [ensured EXCEPT ![w] = e]
    /\ \E k \in SUBSET Skippable : skipped' = [skipped EXCEPT ![w] = k]
Counted(w) ==
    \/ NoFault
    \/ faults[w] < MaxFaults /\ faults' = [faults EXCEPT ![w] = @ + 1]

Moves(w) ==
    /\ \E s \in Steps, ph \in Phases, r \in Results :
          /\ Step(w, s, ph, r) /\ StageIn(kind[w], ph, s)
          /\ kind[w] = "farm" /\ s \in Linking => at'[w] \in FarmPlaces
          /\ s = "removing" => ~Nothing(w)
    /\ FarmStep(w)

LEMMA FaultCounted ==
    ASSUME NEW w, NEW s, Fault(w, s)
    PROVE  Counted(w)
BY DEF Fault, Counted

LEMMA GotoStep ==
    ASSUME TypeOK, NEW w \in Workers, NEW s \in Steps, Goto(w, s)
    PROVE  /\ Step(w, s, phase[w], result[w]) /\ FarmStep(w)
           /\ UNCHANGED farm
<1>1. /\ phase' = [phase EXCEPT ![w] = phase[w]] /\ result' = [result EXCEPT ![w] = result[w]]
      /\ todo' = [todo EXCEPT ![w] = todo[w]] /\ at' = [at EXCEPT ![w] = at[w]]
      /\ ensured' = [ensured EXCEPT ![w] = ensured[w]]
      /\ skipped' = [skipped EXCEPT ![w] = skipped[w]] /\ skipped[w] \in SUBSET Skippable
  BY DEF Goto, TypeOK, control, farm
<1>2. phase[w] \in Phases /\ result[w] \in Results /\ owned \in BOOLEAN /\ ensured[w] \in BOOLEAN
  BY DEF TypeOK, Phases, Results
<1>3. FarmStep(w) BY <1>1, <1>2 DEF FarmStep
<1> QED BY <1>1, <1>2, <1>3 DEF Goto, Step, control

LEMMA GoBackStep ==
    ASSUME TypeOK, NEW w \in Workers, NEW s \in Steps, GoBack(w, s)
    PROVE  Step(w, s, "back", result[w]) /\ FarmStep(w) /\ UNCHANGED farm
<1>1. /\ result' = [result EXCEPT ![w] = result[w]]
      /\ todo' = [todo EXCEPT ![w] = todo[w]] /\ at' = [at EXCEPT ![w] = at[w]]
      /\ ensured' = [ensured EXCEPT ![w] = ensured[w]]
      /\ skipped' = [skipped EXCEPT ![w] = skipped[w]] /\ skipped[w] \in SUBSET Skippable
  BY DEF GoBack, TypeOK, farm
<1>2. result[w] \in Results /\ owned \in BOOLEAN /\ ensured[w] \in BOOLEAN
  BY DEF TypeOK, Results
<1>3. FarmStep(w) BY <1>1, <1>2 DEF FarmStep
<1> QED BY <1>1, <1>2, <1>3 DEF GoBack, Step, Phases

LEMMA FinishStep ==
    ASSUME TypeOK, NEW w \in Workers, NEW r \in Results, Finish(w, r)
    PROVE  Step(w, "idle", phase[w], r) /\ FarmStep(w) /\ UNCHANGED farm
<1>1. /\ phase' = [phase EXCEPT ![w] = phase[w]]
      /\ todo' = [todo EXCEPT ![w] = todo[w]] /\ at' = [at EXCEPT ![w] = at[w]]
      /\ ensured' = [ensured EXCEPT ![w] = ensured[w]]
      /\ skipped' = [skipped EXCEPT ![w] = skipped[w]] /\ skipped[w] \in SUBSET Skippable
  BY DEF Finish, TypeOK, control, farm
<1>2. phase[w] \in Phases /\ owned \in BOOLEAN /\ ensured[w] \in BOOLEAN
  BY DEF TypeOK, Phases
<1>3. FarmStep(w) BY <1>1, <1>2 DEF FarmStep
<1>4. "idle" \in Steps /\ owned' \in BOOLEAN BY DEF Finish, Steps
<1> QED BY <1>1, <1>2, <1>3, <1>4 DEF Finish, Step, control

LEMMA NextPlaceStep ==
    ASSUME TypeOK, NEW w \in Workers, NEW ok \in BOOLEAN, NextPlace(w, ok)
    PROVE  Step(w, "farm", phase[w], result[w]) /\ FarmStep(w)
<1>1. /\ phase' = [phase EXCEPT ![w] = phase[w]] /\ result' = [result EXCEPT ![w] = result[w]]
      /\ todo' = [todo EXCEPT ![w] = todo[w]] /\ at' = [at EXCEPT ![w] = NoPrefix]
      /\ ensured' = [ensured EXCEPT ![w] = (ensured[w] /\ ok)]
      /\ skipped' = [skipped EXCEPT ![w] = skipped[w]] /\ skipped[w] \in SUBSET Skippable
  BY DEF NextPlace, TypeOK
<1>2. phase[w] \in Phases /\ owned \in BOOLEAN /\ (ensured[w] /\ ok) \in BOOLEAN /\ result[w] \in Results
  BY DEF TypeOK, Phases, Results
<1>3. FarmStep(w) BY <1>1, <1>2 DEF FarmStep
<1>4. "farm" \in Steps BY DEF Steps
<1> QED BY <1>1, <1>2, <1>3, <1>4 DEF NextPlace, Step

(* A step of that form, with the disk's types kept, keeps TypeInv. *)
LEMMA TypeCompose ==
    ASSUME TypeInv, FsTypeOK', NEW w \in Workers, Moves(w), Counted(w)
    PROVE  TypeInv'
<1>1. PICK s \in Steps, ph \in Phases, r \in Results :
         /\ Step(w, s, ph, r) /\ StageIn(kind[w], ph, s)
         /\ kind[w] = "farm" /\ s \in Linking => at'[w] \in FarmPlaces
         /\ s = "removing" => ~Nothing(w)
  BY DEF Moves
<1>2. TypeOK /\ StagesOK /\ FarmStep(w) BY DEF TypeInv, Moves
<1>3. faults' \in [Workers -> 0..MaxFaults]
  BY <1>2, BoundsAssumption DEF Counted, NoFault, TypeOK
<1>4. /\ pc' \in [Workers -> Steps] /\ phase' \in [Workers -> Phases]
      /\ result' \in [Workers -> Results]
  BY <1>1, <1>2 DEF Step, TypeOK, Phases, Results
<1>5. todo' \in [Workers -> SUBSET Places] BY <1>2 DEF FarmStep, TypeOK
<1>6. at' \in [Workers -> Places \cup {NoPrefix}] BY <1>2 DEF FarmStep, TypeOK
<1>7. ensured' \in [Workers -> BOOLEAN] /\ skipped' \in [Workers -> SUBSET Skippable]
  BY <1>2 DEF FarmStep, TypeOK
<1>8. TypeOK'
  BY <1>1, <1>2, <1>3, <1>4, <1>5, <1>6, <1>7 DEF Step, TypeOK, params, Phases, Results
<1>9. ASSUME NEW x \in Workers PROVE (StageIn(kind[x], phase[x], pc[x]) /\ ParamsOK(x))'
  <2>1. /\ kind'[x] = kind[x] /\ from'[x] = from[x] /\ to'[x] = to[x] /\ ver'[x] = ver[x]
        /\ delta'[x] = delta[x] /\ StageIn(kind[x], phase[x], pc[x]) /\ ParamsOK(x)
    BY <1>1, <1>2 DEF Step, params, StagesOK
  <2>2. todo'[x] \subseteq FarmPlaces
    BY <1>2, <2>1 DEF FarmStep, ParamsOK, TypeOK
  <2>3. CASE x = w
    <3>1. pc'[x] = s /\ phase'[x] = ph BY <1>1, <1>2, <2>3 DEF Step, TypeOK
    <3> QED BY <1>1, <2>1, <2>2, <2>3, <3>1 DEF ParamsOK, Nothing
  <2>4. CASE x # w
    <3>1. pc'[x] = pc[x] /\ phase'[x] = phase[x] /\ at'[x] = at[x]
      BY <1>1, <1>2, <2>4 DEF Step, FarmStep, TypeOK
    <3> QED BY <2>1, <2>2, <3>1 DEF ParamsOK, Nothing
  <2> QED BY <2>3, <2>4
<1> QED BY <1>8, <1>9 DEF TypeInv, StagesOK

-----------------------------------------------------------------------------
(* The ways a worker goes on, one by one. *)

LEMMA WorkerKnows ==
    ASSUME TypeInv, NEW w \in Workers
    PROVE  /\ TypeOK /\ FsTypeOK /\ ParamsOK(w) /\ StageIn(kind[w], phase[w], pc[w])
           /\ kind[w] \in {"none", "install", "update", "uninstall", "migrate", "symlinks", "farm"}
           /\ phase[w] \in Phases /\ result[w] \in Results /\ pc[w] \in Steps
BY KindsAssumption DEF TypeInv, StagesOK, TypeOK, Phases, Results

LEMMA GotoMoves ==
    ASSUME TypeInv, NEW w \in Workers, NEW s \in Steps, Goto(w, s),
           StageIn(kind[w], phase[w], s),
           kind[w] = "farm" /\ s \in Linking => pc[w] \in Linking,
           s = "removing" => ~Nothing(w)
    PROVE  Moves(w)
<1>1. TypeOK /\ ParamsOK(w) /\ phase[w] \in Phases /\ result[w] \in Results BY WorkerKnows
<1>2. Step(w, s, phase[w], result[w]) /\ FarmStep(w) /\ at' = at BY <1>1, GotoStep DEF farm
<1>3. kind[w] = "farm" /\ s \in Linking => at'[w] \in FarmPlaces BY <1>1, <1>2 DEF ParamsOK
<1> QED BY <1>1, <1>2, <1>3 DEF Moves

LEMMA GoBackMoves ==
    ASSUME TypeInv, NEW w \in Workers, NEW s \in Steps, GoBack(w, s),
           StageIn(kind[w], "back", s), kind[w] # "farm", s # "removing"
    PROVE  Moves(w)
<1>1. TypeOK /\ result[w] \in Results /\ "back" \in Phases BY WorkerKnows DEF Phases
<1>2. Step(w, s, "back", result[w]) /\ FarmStep(w) BY <1>1, GoBackStep
<1> QED BY <1>1, <1>2 DEF Moves

LEMMA FinishMoves ==
    ASSUME TypeInv, NEW w \in Workers, NEW r \in Results, Finish(w, r)
    PROVE  Moves(w)
<1>1. TypeOK /\ phase[w] \in Phases BY WorkerKnows
<1>2. Step(w, "idle", phase[w], r) /\ FarmStep(w) BY <1>1, FinishStep
<1>3. "idle" \in Steps /\ "idle" \notin Linking /\ StageIn(kind[w], phase[w], "idle")
  BY DEF Steps, Linking, StageIn
<1> QED BY <1>1, <1>2, <1>3 DEF Moves

LEMMA AbandonMoves ==
    ASSUME TypeInv, NEW w \in Workers, Abandon(w)
    PROVE  Moves(w)
<1>1. "restore" \in Steps /\ "failed" \in Results BY DEF Steps, Results
<1>2. CASE kind[w] = "update"
  <2>1. StageIn(kind[w], "back", "restore") BY <1>2 DEF StageIn
  <2> QED BY <1>1, <1>2, <2>1, GoBackMoves DEF Abandon
<1>3. CASE kind[w] # "update" BY <1>1, <1>3, FinishMoves DEF Abandon
<1> QED BY <1>2, <1>3

LEMMA NextPlaceMoves ==
    ASSUME TypeInv, NEW w \in Workers, kind[w] = "farm", pc[w] # "idle",
           NEW ok \in BOOLEAN, NextPlace(w, ok)
    PROVE  Moves(w)
<1>1. TypeOK /\ phase[w] \in Phases /\ result[w] \in Results /\ StageIn(kind[w], phase[w], pc[w])
  BY WorkerKnows
<1>2. Step(w, "farm", phase[w], result[w]) /\ FarmStep(w) BY <1>1, NextPlaceStep
<1>3. "farm" \in Steps /\ "farm" \notin Linking /\ StageIn(kind[w], phase[w], "farm")
  BY <1>1 DEF Steps, Linking, StageIn
<1> QED BY <1>1, <1>2, <1>3 DEF Moves

LEMMA LinkFailedMoves ==
    ASSUME TypeInv, NEW w \in Workers, pc[w] \in Linking, LinkFailed(w)
    PROVE  Moves(w)
<1>1. /\ StageIn(kind[w], phase[w], pc[w]) /\ pc[w] # "idle"
      /\ "restore" \in Steps /\ "unlink" \in Steps /\ "failed" \in Results
  BY WorkerKnows DEF Steps, Results, Linking
<1>2. CASE kind[w] = "farm" BY <1>1, <1>2, NextPlaceMoves DEF LinkFailed
<1>3. CASE Finish(w, "failed") BY <1>1, <1>3, FinishMoves
<1>4. CASE kind[w] = "install" /\ GoBack(w, "unlink")
  <2>1. StageIn(kind[w], "back", "unlink") BY <1>4 DEF StageIn
  <2> QED BY <1>1, <1>4, <2>1, GoBackMoves
<1>5. CASE kind[w] = "update" /\ GoBack(w, "restore")
  <2>1. StageIn(kind[w], "back", "restore") BY <1>5 DEF StageIn
  <2> QED BY <1>1, <1>5, <2>1, GoBackMoves
<1>6. kind[w] \in {"farm", "install", "update", "migrate", "symlinks"}
  BY <1>1 DEF StageIn, Linking
<1> QED BY <1>2, <1>3, <1>4, <1>5, <1>6 DEF LinkFailed

LEMMA LinkedUpMoves ==
    ASSUME TypeInv, NEW w \in Workers, pc[w] = "linkapp", LinkedUp(w)
    PROVE  Moves(w)
<1>1. /\ StageIn(kind[w], phase[w], pc[w]) /\ phase[w] \in Phases
      /\ "remove" \in Steps /\ "failed" \in Results /\ "ok" \in Results /\ "remove" \notin Linking
  BY WorkerKnows DEF Steps, Results, Linking
<1>2. CASE kind[w] = "farm" BY <1>2, NextPlaceMoves DEF LinkedUp
<1>3. CASE Finish(w, "failed") \/ Finish(w, "ok") BY <1>1, <1>3, FinishMoves
<1>4. CASE kind[w] = "update" /\ phase[w] # "back" /\ Goto(w, "remove")
  <2>1. StageIn(kind[w], phase[w], "remove") BY <1>1, <1>4 DEF StageIn, Phases
  <2> QED BY <1>1, <1>4, <2>1, GotoMoves
<1> QED BY <1>2, <1>3, <1>4 DEF LinkedUp

(* The place a worker makes links for is one the farm can lead to. *)
LEMMA LinkPlaceIn ==
    ASSUME TypeInv, NEW w \in Workers, pc[w] \in Linking
    PROVE  LinkPlace(w) \in FarmPlaces \cup {App(Apps)}
<1>1. ParamsOK(w) /\ StageIn(kind[w], phase[w], pc[w]) /\ phase[w] \in Phases
  BY WorkerKnows
<1>2. \A p \in Prefixes : App(p) \in FarmPlaces \cup {App(Apps)} BY DEF Prefixes, FarmPlaces
<1>3. NoPrefix \notin Prefixes /\ Storages \subseteq Prefixes /\ UpdatePrefixes \subseteq Prefixes
  BY PrefixAssumption, UpdatePrefixesAssumption DEF Prefixes
<1>4. CASE kind[w] = "farm" BY <1>1, <1>4 DEF LinkPlace, ParamsOK
<1>5. CASE kind[w] # "farm"
  <2>1. \/ kind[w] = "install" /\ phase[w] = "forward"
        \/ kind[w] \in {"update", "migrate", "symlinks"}
    BY <1>1, <1>5 DEF StageIn, Linking
  <2>2. (IF phase[w] = "back" \/ to[w] = NoPrefix THEN from[w] ELSE to[w]) \in Prefixes
    BY <1>1, <1>3, <2>1 DEF ParamsOK
  <2>3. LinkPlace(w) = App(IF phase[w] = "back" \/ to[w] = NoPrefix THEN from[w] ELSE to[w])
    BY <1>5 DEF LinkPlace
  <2> QED BY <1>2, <2>2, <2>3
<1> QED BY <1>4, <1>5

-----------------------------------------------------------------------------
(* Every step of a worker fits: its types are kept, and it goes where its  *)
(* kind of transaction can go.                                             *)
Fits(w) == FsTypeOK' /\ Moves(w) /\ Counted(w)

LEMMA CheckFits ==
    ASSUME TypeInv, NEW w \in Workers, Check(w)
    PROVE  Fits(w)
<1>1. /\ TypeOK /\ FsTypeOK /\ StageIn(kind[w], phase[w], pc[w]) /\ pc[w] = "check"
      /\ phase[w] \in Phases /\ result[w] \in Results
      /\ kind[w] \in {"none", "install", "update", "uninstall", "migrate", "symlinks", "farm"}
  BY WorkerKnows DEF Check
<1>2. FsTypeOK' BY <1>1, DisturbTypes DEF Check
<1>3. Counted(w) BY FaultCounted DEF Check, Counted
<1>4. phase[w] = "forward" /\ kind[w] # "none" BY <1>1, KindsAssumption DEF StageIn, Linking, Unpacking
<1>5. CASE /\ pc' = [pc EXCEPT ![w] = FirstStep(w)]
           /\ owned' = (owned /\ kind[w] # "uninstall")
           /\ UNCHANGED <<control, result>>
  <2>1. /\ FirstStep(w) \in Steps /\ StageIn(kind[w], phase[w], FirstStep(w))
        /\ (kind[w] = "farm" => FirstStep(w) \notin Linking) /\ FirstStep(w) # "removing"
    BY <1>1, <1>4 DEF FirstStep, Steps, StageIn, Linking, Unpacking
  <2>2. /\ phase' = [phase EXCEPT ![w] = phase[w]] /\ result' = [result EXCEPT ![w] = result[w]]
        /\ todo' = [todo EXCEPT ![w] = todo[w]] /\ at' = [at EXCEPT ![w] = at[w]]
        /\ ensured' = [ensured EXCEPT ![w] = ensured[w]]
        /\ skipped' = [skipped EXCEPT ![w] = skipped[w]] /\ skipped[w] \in SUBSET Skippable
        /\ ensured[w] \in BOOLEAN /\ owned' \in BOOLEAN
    BY <1>1, <1>5 DEF TypeOK, control, farm
  <2>3. FarmStep(w) BY <2>2 DEF FarmStep
  <2>4. Step(w, FirstStep(w), phase[w], result[w])
    BY <1>1, <1>5, <2>1, <2>2 DEF Step, control
  <2>5. Moves(w) BY <1>1, <2>1, <2>3, <2>4 DEF Moves
  <2> QED BY <1>2, <1>3, <2>5 DEF Fits
<1>6. CASE Finish(w, Refused(w)) \/ Finish(w, "failed")
  <2>1. Refused(w) \in Results /\ "failed" \in Results BY DEF Refused, Results
  <2>2. Moves(w) BY <1>6, <2>1, FinishMoves
  <2> QED BY <1>2, <1>3, <2>2 DEF Fits
<1> QED BY <1>5, <1>6 DEF Check

LEMMA UnlinkFits ==
    ASSUME TypeInv, NEW w \in Workers, Unlink(w)
    PROVE  Fits(w)
<1>1. /\ FsTypeOK /\ StageIn(kind[w], phase[w], pc[w]) /\ pc[w] = "unlink"
      /\ Goto(w, AfterUnlink[kind[w]]) /\ Counted(w)
  BY WorkerKnows, FaultCounted DEF Unlink, Counted
<1>2. FsTypeOK' BY <1>1, LinkTypes DEF Unlink
<1>3. kind[w] \in {"install", "update", "uninstall", "migrate", "symlinks"}
  BY <1>1 DEF StageIn, Linking, Unpacking
<1>4. /\ AfterUnlink[kind[w]] \in Steps
      /\ StageIn(kind[w], phase[w], AfterUnlink[kind[w]]) /\ AfterUnlink[kind[w]] # "removing"
  BY <1>1, <1>3 DEF AfterUnlink, StageIn, Steps, Linking, Unpacking
<1>5. Moves(w) BY <1>1, <1>3, <1>4, GotoMoves
<1> QED BY <1>1, <1>2, <1>5 DEF Fits

LEMMA BackupPlaces ==
    ASSUME TypeInv, NEW w \in Workers, pc[w] \in {"backup", "backupcopy", "backupdrop", "restore"}
    PROVE  /\ kind[w] = "update" /\ App(from[w]) \in Places /\ Backup(from[w]) \in Places
           /\ from[w] \in UpdatePrefixes /\ from[w] \in Prefixes
           /\ (pc[w] # "restore" => phase[w] = "forward")
           /\ (pc[w] = "restore" => phase[w] = "back")
<1>1. StageIn(kind[w], phase[w], pc[w]) /\ ParamsOK(w) BY WorkerKnows
<1>2. kind[w] = "update" BY <1>1 DEF StageIn, Linking, Unpacking
<1> QED BY <1>1, <1>2, PlaceFacts, UpdatePrefixesAssumption DEF ParamsOK, StageIn, Linking, Unpacking

LEMMA BackupCopyFailedFits ==
    ASSUME TypeInv, NEW w \in Workers, pc[w] \in {"backup", "backupcopy"}, BackupCopyFailed(w)
    PROVE  FsTypeOK' /\ Moves(w)
<1>1. FsTypeOK /\ kind[w] = "update" /\ Backup(from[w]) \in Places BY WorkerKnows, BackupPlaces
<1>2. FsTypeOK' BY <1>1, TreeTypes, DisturbTypes DEF BackupCopyFailed
<1>3. "linkbin" \in Steps /\ StageIn(kind[w], "back", "linkbin") BY <1>1 DEF Steps, StageIn, Linking
<1>4. Moves(w) BY <1>1, <1>3, GoBackMoves DEF BackupCopyFailed
<1> QED BY <1>2, <1>4

LEMMA BackupAppFits ==
    ASSUME TypeInv, NEW w \in Workers, BackupApp(w)
    PROVE  Fits(w)
<1>1. /\ FsTypeOK /\ pc[w] = "backup" /\ kind[w] = "update" /\ phase[w] = "forward"
      /\ App(from[w]) \in Places /\ Backup(from[w]) \in Places
  BY WorkerKnows, BackupPlaces DEF BackupApp
<1>2. Counted(w) BY FaultCounted DEF BackupApp, Counted
<1>3. /\ "extract" \in Steps /\ "backupcopy" \in Steps /\ "failed" \in Results
      /\ "extract" \notin Linking /\ "backupcopy" \notin Linking
      /\ StageIn(kind[w], phase[w], "extract") /\ StageIn(kind[w], phase[w], "backupcopy")
  BY <1>1 DEF Steps, Results, StageIn, Linking, Unpacking
<1>4. CASE Disturb(Renamed(App(from[w]), Backup(from[w]))) /\ Goto(w, "extract")
  BY <1>1, <1>2, <1>3, <1>4, TreeTypes, DisturbTypes, GotoMoves DEF Fits
<1>5. CASE UNCHANGED fsVars /\ Finish(w, "failed")
  BY <1>1, <1>2, <1>3, <1>5, DisturbTypes, FinishMoves DEF Fits
<1>6. CASE Fills(Backup(from[w])) /\ Goto(w, "backupcopy")
  BY <1>1, <1>2, <1>3, <1>6, DisturbTypes, GotoMoves DEF Fits
<1>7. CASE BackupCopyFailed(w) BY <1>1, <1>2, <1>7, BackupCopyFailedFits DEF Fits
<1> QED BY <1>4, <1>5, <1>6, <1>7 DEF BackupApp

LEMMA BackupCopyFits ==
    ASSUME TypeInv, NEW w \in Workers, BackupCopy(w)
    PROVE  Fits(w)
<1>1. /\ FsTypeOK /\ pc[w] = "backupcopy" /\ kind[w] = "update" /\ phase[w] = "forward"
      /\ App(from[w]) \in Places /\ Backup(from[w]) \in Places
  BY WorkerKnows, BackupPlaces DEF BackupCopy
<1>2. Counted(w) BY FaultCounted DEF BackupCopy, Counted
<1>3. "backupdrop" \in Steps /\ "backupdrop" \notin Linking /\ StageIn(kind[w], phase[w], "backupdrop")
  BY <1>1 DEF Steps, StageIn, Linking, Unpacking
<1>4. CASE Disturb(Copied(App(from[w]), Backup(from[w]))) /\ Goto(w, "backupdrop")
  BY <1>1, <1>2, <1>3, <1>4, TreeTypes, DisturbTypes, GotoMoves DEF Fits
<1>5. CASE BackupCopyFailed(w) BY <1>1, <1>2, <1>5, BackupCopyFailedFits DEF Fits
<1> QED BY <1>4, <1>5 DEF BackupCopy

LEMMA DropSourceFits ==
    ASSUME TypeInv, NEW w \in Workers, NEW s \in Steps, NEW next \in Steps, NEW src \in Places,
           DropSource(w, s, src, next), StageIn(kind[w], phase[w], next),
           kind[w] # "farm", s # "removing", next # "removing"
    PROVE  Fits(w)
<1>1. FsTypeOK /\ StageIn(kind[w], phase[w], s) BY WorkerKnows DEF DropSource
<1>2. Counted(w) BY FaultCounted DEF DropSource, Counted
<1>3. CASE Guts(src) /\ Goto(w, s) BY <1>1, <1>2, <1>3, DisturbTypes, GotoMoves DEF Fits
<1>4. CASE Disturb(Removed(src)) /\ Goto(w, next)
  BY <1>1, <1>2, <1>4, TreeTypes, DisturbTypes, GotoMoves DEF Fits
<1>5. CASE UNCHANGED fsVars /\ Goto(w, next)
  BY <1>1, <1>2, <1>5, DisturbTypes, GotoMoves DEF Fits
<1> QED BY <1>3, <1>4, <1>5 DEF DropSource

LEMMA BackupDropFits ==
    ASSUME TypeInv, NEW w \in Workers, BackupDrop(w)
    PROVE  Fits(w)
<1>1. kind[w] = "update" /\ phase[w] = "forward" /\ App(from[w]) \in Places
  BY BackupPlaces DEF BackupDrop, DropSource
<1>2. "extract" \in Steps /\ "backupdrop" \in Steps /\ StageIn(kind[w], phase[w], "extract")
  BY <1>1 DEF Steps, StageIn, Unpacking
<1> QED BY <1>1, <1>2, DropSourceFits DEF BackupDrop

LEMMA UnpackingKinds ==
    ASSUME TypeInv, NEW w \in Workers, pc[w] \in Unpacking
    PROVE  /\ TypeOK /\ FsTypeOK /\ ParamsOK(w) /\ phase[w] = "forward"
           /\ kind[w] \in {"install", "update", "migrate"}
           /\ kind[w] = "migrate" => pc[w] \in {"deploy", "deploycopy", "drop"}
           /\ to[w] \in Prefixes /\ (kind[w] # "install" => from[w] \in Prefixes)
           /\ Cache \in Places
<1>1. StageIn(kind[w], phase[w], pc[w]) /\ ParamsOK(w) /\ TypeOK /\ FsTypeOK BY WorkerKnows
<1>2. /\ phase[w] = "forward" /\ kind[w] \in {"install", "update", "migrate"}
      /\ kind[w] = "migrate" => pc[w] \in {"deploy", "deploycopy", "drop"}
  BY <1>1 DEF StageIn, Linking, Unpacking
<1> QED BY <1>1, <1>2, PlaceFacts, UpdatePrefixesAssumption DEF ParamsOK

LEMMA ExtractFits ==
    ASSUME TypeInv, NEW w \in Workers, Extract(w)
    PROVE  Fits(w)
<1>1. /\ TypeOK /\ FsTypeOK /\ phase[w] = "forward" /\ kind[w] \in {"install", "update"}
      /\ Cache \in Places
  BY UnpackingKinds DEF Extract, Unpacking
<1>2. Counted(w) BY FaultCounted DEF Extract, Counted
<1>3. "extracting" \in Steps /\ "extracting" \notin Linking /\ StageIn(kind[w], phase[w], "extracting")
  BY <1>1 DEF Steps, StageIn, Linking, Unpacking
<1>4. CASE Fills(Cache) /\ Goto(w, "extracting")
  BY <1>1, <1>2, <1>3, <1>4, DisturbTypes, GotoMoves DEF Fits
<1>5. CASE Disturb(Removed(Cache)) /\ Abandon(w)
  BY <1>1, <1>2, <1>5, TreeTypes, DisturbTypes, AbandonMoves DEF Fits
<1> QED BY <1>4, <1>5 DEF Extract

LEMMA ExtractEndFits ==
    ASSUME TypeInv, NEW w \in Workers, ExtractEnd(w)
    PROVE  Fits(w)
<1>1. /\ TypeOK /\ FsTypeOK /\ phase[w] = "forward" /\ kind[w] \in {"install", "update"}
      /\ Cache \in Places /\ ver[w] \in Trees /\ tree \in [Places -> Trees]
  BY UnpackingKinds DEF ExtractEnd, Unpacking, TypeOK, FsTypeOK
<1>2. Counted(w) BY FaultCounted DEF ExtractEnd, Counted
<1>3. /\ "deploy" \in Steps /\ StageIn(kind[w], phase[w], "deploy") /\ "deploy" \notin Linking
      /\ "scripts" \in Steps /\ StageIn(kind[w], phase[w], "scripts") /\ "scripts" \notin Linking
  BY <1>1 DEF Steps, StageIn, Linking, Unpacking
<1>4. ASSUME NEW t \in Unpacked(w), Disturb([tree EXCEPT ![Cache] = t]),
             Goto(w, IF delta[w] THEN "deploy" ELSE "scripts")
      PROVE  Fits(w)
  <2>1. t \in Trees BY <1>1 DEF Unpacked, Trees
  <2>2. [tree EXCEPT ![Cache] = t] \in [Places -> Trees] BY <1>1, <2>1
  <2>3. Moves(w)
    <3>1. CASE delta[w] BY <1>3, <1>4, <3>1, GotoMoves
    <3>2. CASE ~delta[w] BY <1>3, <1>4, <3>2, GotoMoves
    <3> QED BY <3>1, <3>2
  <2> QED BY <1>1, <1>2, <1>4, <2>2, <2>3, DisturbTypes DEF Fits
<1>5. CASE Disturb(IF delta[w] THEN tree ELSE Removed(Cache)) /\ Abandon(w)
  <2>1. (IF delta[w] THEN tree ELSE Removed(Cache)) \in [Places -> Trees] BY <1>1, TreeTypes
  <2> QED BY <1>1, <1>2, <1>5, <2>1, DisturbTypes, AbandonMoves DEF Fits
<1> QED BY <1>4, <1>5 DEF ExtractEnd

LEMMA ScriptsFits ==
    ASSUME TypeInv, NEW w \in Workers, Scripts(w)
    PROVE  Fits(w)
<1>1. /\ TypeOK /\ FsTypeOK /\ phase[w] = "forward" /\ kind[w] \in {"install", "update"}
      /\ Cache \in Places
  BY UnpackingKinds DEF Scripts, Unpacking
<1>2. Counted(w) BY FaultCounted DEF Scripts, Counted
<1>3. "deploy" \in Steps /\ StageIn(kind[w], phase[w], "deploy") /\ "deploy" \notin Linking
  BY <1>1 DEF Steps, StageIn, Linking, Unpacking
<1>4. CASE UNCHANGED fsVars /\ Goto(w, "deploy")
  BY <1>1, <1>2, <1>3, <1>4, DisturbTypes, GotoMoves DEF Fits
<1>5. CASE Disturb(Removed(Cache)) /\ Abandon(w)
  BY <1>1, <1>2, <1>5, TreeTypes, DisturbTypes, AbandonMoves DEF Fits
<1> QED BY <1>4, <1>5 DEF Scripts

(* Where a transaction deploys from and to. *)
LEMMA DeployPlaces ==
    ASSUME TypeInv, NEW w \in Workers, pc[w] \in {"deploy", "deploycopy", "drop"}
    PROVE  /\ TypeOK /\ FsTypeOK /\ phase[w] = "forward" /\ kind[w] \in {"install", "update", "migrate"}
           /\ App(to[w]) \in Places /\ Resolve(to[w]) \in Places /\ Source(w) \in Places
           /\ DeployFailed(Source(w), to[w]) \in [Places -> Trees]
           /\ AfterDeploy(w) \in Steps /\ StageIn(kind[w], phase[w], AfterDeploy(w))
           /\ AfterDeploy(w) # "removing"
<1>1. /\ TypeOK /\ FsTypeOK /\ phase[w] = "forward" /\ kind[w] \in {"install", "update", "migrate"}
      /\ to[w] \in Prefixes /\ (kind[w] # "install" => from[w] \in Prefixes) /\ Cache \in Places
  BY UnpackingKinds DEF Unpacking
<1>2. App(to[w]) \in Places /\ Resolve(to[w]) \in Places /\ Source(w) \in Places
  BY <1>1, PlaceFacts, ResolvePlace DEF Source
<1>3. DeployFailed(Source(w), to[w]) \in [Places -> Trees]
  BY <1>1, <1>2 DEF DeployFailed, FsTypeOK, Trees
<1>4. AfterDeploy(w) \in Steps /\ StageIn(kind[w], phase[w], AfterDeploy(w))
      /\ AfterDeploy(w) # "removing"
  BY <1>1 DEF AfterDeploy, Steps, StageIn, Linking
<1> QED BY <1>1, <1>2, <1>3, <1>4

LEMMA DeployFits ==
    ASSUME TypeInv, NEW w \in Workers, Deploy(w)
    PROVE  Fits(w)
<1>1. /\ FsTypeOK /\ phase[w] = "forward" /\ kind[w] \in {"install", "update", "migrate"}
      /\ App(to[w]) \in Places /\ Source(w) \in Places
      /\ DeployFailed(Source(w), to[w]) \in [Places -> Trees]
  BY DeployPlaces DEF Deploy
<1>2. Counted(w) BY FaultCounted DEF Deploy, Counted
<1>3. /\ "deploycopy" \in Steps /\ StageIn(kind[w], phase[w], "deploycopy")
      /\ "drop" \in Steps /\ StageIn(kind[w], phase[w], "drop")
  BY <1>1 DEF Steps, StageIn, Linking, Unpacking
<1>4. CASE Disturb(Renamed(Source(w), App(to[w]))) /\ Goto(w, "drop")
  BY <1>1, <1>2, <1>3, <1>4, TreeTypes, DisturbTypes, GotoMoves DEF Fits
<1>5. CASE Fills(App(to[w])) /\ Goto(w, "deploycopy")
  BY <1>1, <1>2, <1>3, <1>5, DisturbTypes, GotoMoves DEF Fits
<1>6. CASE Disturb(DeployFailed(Source(w), to[w])) /\ Abandon(w)
  BY <1>1, <1>2, <1>6, DisturbTypes, AbandonMoves DEF Fits
<1> QED BY <1>4, <1>5, <1>6 DEF Deploy

LEMMA DeployCopyFits ==
    ASSUME TypeInv, NEW w \in Workers, DeployCopy(w)
    PROVE  Fits(w)
<1>1. /\ FsTypeOK /\ phase[w] = "forward" /\ kind[w] \in {"install", "update", "migrate"}
      /\ App(to[w]) \in Places /\ Source(w) \in Places
      /\ DeployFailed(Source(w), to[w]) \in [Places -> Trees]
  BY DeployPlaces DEF DeployCopy
<1>2. Counted(w) BY FaultCounted DEF DeployCopy, Counted
<1>3. "drop" \in Steps /\ StageIn(kind[w], phase[w], "drop")
  BY <1>1 DEF Steps, StageIn, Linking, Unpacking
<1>4. CASE Disturb(Copied(Source(w), App(to[w]))) /\ Goto(w, "drop")
  BY <1>1, <1>2, <1>3, <1>4, TreeTypes, DisturbTypes, GotoMoves DEF Fits
<1>6. CASE Disturb(DeployFailed(Source(w), to[w])) /\ Abandon(w)
  BY <1>1, <1>2, <1>6, DisturbTypes, AbandonMoves DEF Fits
<1> QED BY <1>4, <1>6 DEF DeployCopy

LEMMA DeployDropFits ==
    ASSUME TypeInv, NEW w \in Workers, DeployDrop(w)
    PROVE  Fits(w)
<1>1. /\ kind[w] \in {"install", "update", "migrate"} /\ Source(w) \in Places
      /\ AfterDeploy(w) \in Steps /\ StageIn(kind[w], phase[w], AfterDeploy(w))
      /\ AfterDeploy(w) # "removing" /\ "drop" \in Steps
  BY DeployPlaces DEF DeployDrop, DropSource, Steps
<1> QED BY <1>1, DropSourceFits DEF DeployDrop

LEMMA PassOverMoves ==
    ASSUME TypeInv, NEW w \in Workers, pc[w] = "linkbin", PassOver(w)
    PROVE  Moves(w)
<1>1. /\ TypeOK /\ ParamsOK(w) /\ StageIn(kind[w], phase[w], pc[w])
      /\ phase[w] \in Phases /\ result[w] \in Results
  BY WorkerKnows
<1>2. "linksys" \in Steps /\ StageIn(kind[w], phase[w], "linksys")
  BY <1>1 DEF Steps, StageIn, Linking, Unpacking
<1>3. /\ phase' = [phase EXCEPT ![w] = phase[w]] /\ result' = [result EXCEPT ![w] = result[w]]
      /\ todo' = [todo EXCEPT ![w] = todo[w]] /\ at' = [at EXCEPT ![w] = at[w]]
      /\ ensured' = [ensured EXCEPT ![w] = ensured[w]] /\ ensured[w] \in BOOLEAN
      /\ skipped' = [skipped EXCEPT ![w] = skipped[w] \cup {"bin"}]
      /\ skipped[w] \cup {"bin"} \in SUBSET Skippable /\ owned \in BOOLEAN
  BY <1>1 DEF PassOver, TypeOK, Skippable
<1>4. FarmStep(w) BY <1>3 DEF FarmStep
<1>5. Step(w, "linksys", phase[w], result[w]) BY <1>1, <1>2, <1>3 DEF Step, PassOver
<1>6. kind[w] = "farm" => at'[w] \in FarmPlaces BY <1>1, <1>3 DEF ParamsOK, Linking, PassOver
<1> QED BY <1>2, <1>4, <1>5, <1>6, <1>1 DEF Moves

LEMMA LinkBinFits ==
    ASSUME TypeInv, NEW w \in Workers, LinkBin(w)
    PROVE  Fits(w)
<1>1. /\ FsTypeOK /\ StageIn(kind[w], phase[w], pc[w]) /\ pc[w] \in Linking /\ pc[w] = "linkbin"
      /\ LinkPlace(w) \in FarmPlaces \cup {App(Apps)} /\ "bin" \in LinkNames
  BY WorkerKnows, LinkPlaceIn DEF LinkBin, Linking, LinkNames
<1>2. Counted(w) BY FaultCounted DEF LinkBin, Counted
<1>3. "linksys" \in Steps /\ StageIn(kind[w], phase[w], "linksys") BY <1>1 DEF Steps, StageIn, Linking, Unpacking
<1>4. CASE LinkTo("bin", LinkPlace(w)) /\ UNCHANGED <<tree, appLink, backupLink>> /\ Goto(w, "linksys")
  BY <1>1, <1>2, <1>3, <1>4, LinkTypes, GotoMoves DEF Fits
<1>5. CASE /\ LinkCut("bin") \/ UNCHANGED link
           /\ UNCHANGED <<tree, appLink, backupLink>>
           /\ PassOver(w) \/ LinkFailed(w)
  <2>1. FsTypeOK' BY <1>1, <1>5, LinkTypes, DisturbTypes DEF fsVars
  <2>2. Moves(w) BY <1>1, <1>5, PassOverMoves, LinkFailedMoves
  <2> QED BY <1>2, <2>1, <2>2 DEF Fits
<1> QED BY <1>4, <1>5 DEF LinkBin

LEMMA LinkSysFits ==
    ASSUME TypeInv, NEW w \in Workers, LinkSys(w)
    PROVE  Fits(w)
<1>1. /\ FsTypeOK /\ StageIn(kind[w], phase[w], pc[w]) /\ pc[w] \in Linking /\ pc[w] = "linksys"
      /\ LinkPlace(w) \in FarmPlaces \cup {App(Apps)} /\ "sys" \in LinkNames
  BY WorkerKnows, LinkPlaceIn DEF LinkSys, Linking, LinkNames
<1>2. Counted(w) BY FaultCounted DEF LinkSys, Counted
<1>3. "linkapp" \in Steps /\ StageIn(kind[w], phase[w], "linkapp") BY <1>1 DEF Steps, StageIn, Linking, Unpacking
<1>4. CASE /\ (LinkTo("sys", LinkPlace(w)) \/ UNCHANGED link) /\ UNCHANGED <<tree, appLink, backupLink>>
           /\ Goto(w, "linkapp")
  <2>1. FsTypeOK'
    BY <1>1, <1>4, LinkTypes, DisturbTypes DEF fsVars
  <2> QED BY <1>1, <1>2, <1>3, <1>4, <2>1, GotoMoves DEF Fits
<1>5. CASE /\ LinkCut("sys") \/ LinkTo("sys", LinkPlace(w))
           /\ UNCHANGED <<tree, appLink, backupLink>> /\ LinkFailed(w)
  BY <1>1, <1>2, <1>5, LinkTypes, LinkFailedMoves DEF Fits
<1> QED BY <1>4, <1>5 DEF LinkSys

LEMMA LinkAppFits ==
    ASSUME TypeInv, NEW w \in Workers, LinkAppStep(w)
    PROVE  Fits(w)
<1>1. /\ FsTypeOK /\ pc[w] \in Linking /\ pc[w] = "linkapp" /\ "failed" \in Results
      /\ LinkPlace(w) \in FarmPlaces \cup {App(Apps)}
  BY WorkerKnows, LinkPlaceIn DEF LinkAppStep, Linking, Results
<1>2. Counted(w) BY FaultCounted DEF LinkAppStep, HooksFail, Counted
<1>3. CASE LinkApp(LinkPlace(w)) /\ UNCHANGED <<tree, link>> /\ (LinkedUp(w) \/ Finish(w, "failed"))
  BY <1>1, <1>2, <1>3, LinkTypes, LinkedUpMoves, FinishMoves DEF Fits
<1>4. CASE UNCHANGED fsVars /\ LinkFailed(w)
  BY <1>1, <1>2, <1>4, DisturbTypes, LinkFailedMoves DEF Fits
<1> QED BY <1>3, <1>4 DEF LinkAppStep

LEMMA FarmVisitFits ==
    ASSUME TypeInv, NEW w \in Workers, FarmVisit(w)
    PROVE  Fits(w)
<1>1. /\ TypeOK /\ FsTypeOK /\ ParamsOK(w) /\ StageIn(kind[w], phase[w], pc[w]) /\ pc[w] = "farm"
      /\ phase[w] \in Phases /\ result[w] \in Results
  BY WorkerKnows DEF FarmVisit
<1>2. FsTypeOK' BY <1>1, DisturbTypes DEF FarmVisit
<1>3. Counted(w) BY FaultCounted DEF FarmVisit, Counted
<1>4. kind[w] = "farm" /\ phase[w] = "forward" BY <1>1 DEF StageIn, Linking, Unpacking
<1>5. /\ UNCHANGED <<params, old, ops, crashes>> /\ owned' \in BOOLEAN /\ owned' = owned
      /\ phase' = [phase EXCEPT ![w] = phase[w]] /\ result' = [result EXCEPT ![w] = result[w]]
  BY <1>1 DEF FarmVisit, TypeOK
<1>6. /\ "farm" \in Steps /\ StageIn(kind[w], phase[w], "farm") /\ "farm" \notin Linking
      /\ "linkbin" \in Steps /\ StageIn(kind[w], phase[w], "linkbin")
  BY <1>4 DEF Steps, StageIn, Linking
<1>7. \E t \in SUBSET todo[w] : todo' = [todo EXCEPT ![w] = t]
  <2>1. \A t : todo[w] \ t \in SUBSET todo[w] OBVIOUS
  <2> QED BY <1>1, <2>1 DEF FarmVisit
<1>8. \E e \in BOOLEAN : ensured' = [ensured EXCEPT ![w] = e]
  <2>1. ensured = [ensured EXCEPT ![w] = ensured[w]] /\ ensured[w] \in BOOLEAN BY <1>1 DEF TypeOK
  <2>2. ensured' = ensured \/ ensured' = [ensured EXCEPT ![w] = FALSE] BY DEF FarmVisit
  <2> QED BY <2>1, <2>2
<1>11. \E k \in SUBSET Skippable : skipped' = [skipped EXCEPT ![w] = k]
  <2>1. /\ skipped = [skipped EXCEPT ![w] = skipped[w]] /\ skipped[w] \in SUBSET Skippable
        /\ todo[w] \subseteq FarmPlaces
    BY <1>1 DEF TypeOK, ParamsOK
  <2>2. skipped' = skipped \/ \E pl \in todo[w] : skipped' = [skipped EXCEPT ![w] = skipped[w] \cup {pl[1]}]
    BY DEF FarmVisit
  <2>3. \A pl \in todo[w] : skipped[w] \cup {pl[1]} \in SUBSET Skippable
    BY <2>1 DEF FarmPlaces, App, Backup, Skippable
  <2> QED BY <2>1, <2>2, <2>3
<1>9. CASE UNCHANGED <<pc, at>>
  <2>1. at' = [at EXCEPT ![w] = at[w]] /\ pc' = [pc EXCEPT ![w] = "farm"]
    BY <1>1, <1>9 DEF TypeOK
  <2>2. FarmStep(w) BY <1>7, <1>8, <1>11, <2>1 DEF FarmStep
  <2>3. Step(w, "farm", phase[w], result[w]) BY <1>1, <1>5, <1>6, <2>1 DEF Step
  <2> QED BY <1>1, <1>2, <1>3, <1>6, <2>2, <2>3 DEF Fits, Moves
<1>10. ASSUME NEW pl \in todo[w], pc' = [pc EXCEPT ![w] = "linkbin"], at' = [at EXCEPT ![w] = pl]
       PROVE  Fits(w)
  <2>1. FarmStep(w) BY <1>7, <1>8, <1>11, <1>10 DEF FarmStep
  <2>2. Step(w, "linkbin", phase[w], result[w]) BY <1>1, <1>5, <1>6, <1>10 DEF Step
  <2>3. at'[w] \in FarmPlaces BY <1>1, <1>10 DEF TypeOK, ParamsOK
  <2> QED BY <1>1, <1>2, <1>3, <1>6, <2>1, <2>2, <2>3 DEF Fits, Moves
<1> QED BY <1>9, <1>10 DEF FarmVisit

LEMMA FarmDoneFits ==
    ASSUME TypeInv, NEW w \in Workers, FarmDone(w)
    PROVE  Fits(w)
<1>1. FsTypeOK /\ "ok" \in Results /\ "failed" \in Results BY WorkerKnows DEF Results
<1>2. Counted(w) BY FaultCounted DEF FarmDone, HooksFail, Counted
<1> QED BY <1>1, <1>2, DisturbTypes, FinishMoves DEF FarmDone, Fits

LEMMA RestoreAppFits ==
    ASSUME TypeInv, NEW w \in Workers, RestoreApp(w)
    PROVE  Fits(w)
<1>1. /\ FsTypeOK /\ pc[w] = "restore" /\ kind[w] = "update" /\ phase[w] = "back"
      /\ App(from[w]) \in Places /\ Backup(from[w]) \in Places
  BY WorkerKnows, BackupPlaces DEF RestoreApp
<1>2. Counted(w) BY FaultCounted DEF RestoreApp, Counted
<1>3. "linkbin" \in Steps /\ "failed" \in Results /\ StageIn(kind[w], phase[w], "linkbin")
  BY <1>1 DEF Steps, Results, StageIn, Linking
<1>4. CASE Disturb(Renamed(Backup(from[w]), App(from[w]))) /\ Goto(w, "linkbin")
  BY <1>1, <1>2, <1>3, <1>4, TreeTypes, DisturbTypes, GotoMoves DEF Fits
<1>5. CASE UNCHANGED fsVars /\ Finish(w, "failed")
  BY <1>1, <1>2, <1>3, <1>5, DisturbTypes, FinishMoves DEF Fits
<1> QED BY <1>4, <1>5 DEF RestoreApp

LEMMA DoomedPlace ==
    ASSUME TypeInv, NEW w \in Workers, pc[w] \in {"remove", "removing"}, ~Nothing(w)
    PROVE  /\ FsTypeOK /\ Doomed(w) \in Places
           /\ kind[w] \in {"install", "update", "uninstall"}
<1>1. FsTypeOK /\ ParamsOK(w) /\ StageIn(kind[w], phase[w], pc[w]) BY WorkerKnows
<1>2. kind[w] \in {"install", "update", "uninstall"} BY <1>1 DEF StageIn, Linking, Unpacking
<1>3. CASE kind[w] = "install" BY <1>1, <1>3, PlaceFacts DEF Doomed, ParamsOK
<1>4. CASE kind[w] = "update"
  BY <1>1, <1>4, PlaceFacts, UpdatePrefixesAssumption DEF Doomed, ParamsOK
<1>5. CASE kind[w] = "uninstall"
  BY <1>1, <1>5, PlaceFacts, ResolvePlace DEF Doomed, ParamsOK, Nothing
<1> QED BY <1>1, <1>2, <1>3, <1>4, <1>5

LEMMA RemoveFits ==
    ASSUME TypeInv, NEW w \in Workers, Remove(w)
    PROVE  Fits(w)
<1>1. /\ FsTypeOK /\ pc[w] = "remove" /\ StageIn(kind[w], phase[w], pc[w])
      /\ Removal(w) \in Results /\ RemovalFailed(w) \in Results /\ "ok" \in Results
  BY WorkerKnows DEF Remove, Removal, RemovalFailed, Results
<1>2. Counted(w) BY FaultCounted DEF Remove, Counted
<1>3. /\ "removing" \in Steps /\ StageIn(kind[w], phase[w], "removing") /\ "removing" \notin Linking
  BY <1>1 DEF Steps, StageIn, Linking, Unpacking
<1>4. CASE UNCHANGED fsVars /\ (Finish(w, "ok") \/ Finish(w, Removal(w)) \/ Finish(w, RemovalFailed(w)))
  BY <1>1, <1>2, <1>4, DisturbTypes, FinishMoves DEF Fits
<1>5. CASE ~Nothing(w) /\ Guts(Doomed(w)) /\ Goto(w, "removing")
  BY <1>1, <1>2, <1>3, <1>5, DoomedPlace, DisturbTypes, GotoMoves DEF Fits
<1> QED BY <1>4, <1>5 DEF Remove

(* A removal that has begun has something to remove. *)
LEMMA RemovingFits ==
    ASSUME TypeInv, NEW w \in Workers, Removing(w)
    PROVE  Fits(w)
<1>1. /\ FsTypeOK /\ pc[w] = "removing" /\ ParamsOK(w)
      /\ Removal(w) \in Results /\ RemovalFailed(w) \in Results
  BY WorkerKnows DEF Removing, Removal, RemovalFailed, Results
<1>2. Counted(w) BY FaultCounted DEF Removing, Counted
<1>3. CASE Disturb(Removed(Doomed(w))) /\ Finish(w, Removal(w))
  <2>1. ~Nothing(w) BY <1>1 DEF ParamsOK
  <2> QED BY <2>1, <1>1, <1>2, <1>3, DoomedPlace, TreeTypes, DisturbTypes, FinishMoves DEF Fits
<1>4. CASE UNCHANGED fsVars /\ Finish(w, RemovalFailed(w))
  BY <1>1, <1>2, <1>4, DisturbTypes, FinishMoves DEF Fits
<1> QED BY <1>3, <1>4 DEF Removing

-----------------------------------------------------------------------------
(* The parameters a transaction of each kind may be started with. *)
StartParams(k, f, t, v, d) ==
    /\ f \in Prefixes \cup {NoPrefix} /\ t \in Prefixes \cup {NoPrefix}
    /\ v \in Trees /\ d \in BOOLEAN
    /\ k = "install" => t \in Storages /\ v \in Versions /\ ~d
    /\ k = "update" => f \in UpdatePrefixes /\ t \in UpdatePrefixes /\ v \in Versions
    /\ k = "uninstall" => f \in Storages \cup {NoPrefix}
    /\ k = "migrate" => f \in Storages /\ t \in Storages
    /\ k = "symlinks" => f \in Prefixes /\ t \in Storages \cup {NoPrefix}

Starts(w) ==
    \/ InstallStart(w) \/ UpdateStart(w) \/ UninstallStart(w)
    \/ MigrateStart(w) \/ SymlinksStart(w) \/ FarmStart(w)

StartsAs(w, k, f, t, v, d, forced) ==
    k \in Kinds /\ forced \in BOOLEAN /\ StartParams(k, f, t, v, d) /\ Start(w, k, f, t, v, d, forced)

LEMMA StartsWith ==
    ASSUME TypeInv, NEW w \in Workers, Starts(w)
    PROVE  \E k, f, t, v, d, forced : StartsAs(w, k, f, t, v, d, forced)
<1>1. /\ FsTypeOK /\ Storages \subseteq Prefixes /\ UpdatePrefixes \subseteq Prefixes
      /\ "none" \in Trees /\ Versions \subseteq Trees /\ TRUE \in BOOLEAN /\ FALSE \in BOOLEAN
  BY WorkerKnows, PlaceFacts, UpdatePrefixesAssumption DEF Trees
<1>2. CASE InstallStart(w)
  <2>1. PICK p \in Storages, v \in Versions : Start(w, "install", NoPrefix, p, v, FALSE, FALSE)
    BY <1>2 DEF InstallStart
  <2>2. StartsAs(w, "install", NoPrefix, p, v, FALSE, FALSE)
    BY <1>1, <2>1 DEF StartsAs, StartParams, Start
  <2> QED BY <2>2
<1>3. CASE UpdateStart(w)
  <2>1. PICK p, q \in UpdatePrefixes, v \in Versions, d \in BOOLEAN :
           Start(w, "update", p, q, v, d, FALSE)
    BY <1>3 DEF UpdateStart
  <2>2. StartsAs(w, "update", p, q, v, d, FALSE)
    BY <1>1, <2>1 DEF StartsAs, StartParams, Start
  <2> QED BY <2>2
<1>4. CASE UninstallStart(w)
  <2>1. PICK p \in Storages \cup {DetectPrefix}, forced \in BOOLEAN :
           Start(w, "uninstall", p, NoPrefix, "none", FALSE, forced)
    BY <1>4 DEF UninstallStart
  <2>2. p \in Storages \cup {NoPrefix} BY <1>1 DEF DetectPrefix, FsTypeOK
  <2>3. StartsAs(w, "uninstall", p, NoPrefix, "none", FALSE, forced)
    BY <1>1, <2>1, <2>2 DEF StartsAs, StartParams, Start
  <2> QED BY <2>3
<1>5. CASE MigrateStart(w)
  <2>1. PICK p, q \in Storages : Start(w, "migrate", p, q, TreeAt(p), FALSE, FALSE)
    BY <1>5 DEF MigrateStart
  <2>2. TreeAt(p) \in Trees BY <1>1, TreeAtTree
  <2>3. StartsAs(w, "migrate", p, q, TreeAt(p), FALSE, FALSE)
    BY <1>1, <2>1, <2>2 DEF StartsAs, StartParams, Start
  <2> QED BY <2>3
<1>6. CASE SymlinksStart(w)
  <2>1. PICK p \in Prefixes, q \in Storages \cup {NoPrefix} :
           Start(w, "symlinks", p, q, "none", FALSE, FALSE)
    BY <1>6 DEF SymlinksStart
  <2>2. StartsAs(w, "symlinks", p, q, "none", FALSE, FALSE)
    BY <1>1, <2>1 DEF StartsAs, StartParams, Start
  <2> QED BY <2>2
<1>7. CASE FarmStart(w)
  <2>1. Start(w, "farm", NoPrefix, NoPrefix, "none", FALSE, FALSE) BY <1>7 DEF FarmStart
  <2>2. StartsAs(w, "farm", NoPrefix, NoPrefix, "none", FALSE, FALSE)
    BY <1>1, <2>1 DEF StartsAs, StartParams, Start
  <2> QED BY <2>2
<1> QED BY <1>2, <1>3, <1>4, <1>5, <1>6, <1>7 DEF Starts

LEMMA StartTypes ==
    ASSUME TypeInv, NEW w \in Workers, Starts(w)
    PROVE  TypeInv'
<1>0. PICK k, f, t, v, d, forced : StartsAs(w, k, f, t, v, d, forced)
  BY StartsWith
<1>1. /\ k \in Kinds /\ forced \in BOOLEAN
      /\ Start(w, k, f, t, v, d, forced) /\ StartParams(k, f, t, v, d)
  BY <1>0 DEF StartsAs
<1>2. TypeOK /\ StagesOK BY DEF TypeInv
<1>3. /\ FsTypeOK' /\ owned' \in BOOLEAN /\ crashes' \in 0..MaxCrashes
      /\ at' \in [Workers -> Places \cup {NoPrefix}]
  BY <1>1, <1>2, DisturbTypes DEF Start, TypeOK
<1>4. ops' \in 0..MaxOps BY <1>1, <1>2, BoundsAssumption DEF Start, TypeOK
<1>5. /\ pc' \in [Workers -> Steps] /\ phase' \in [Workers -> Phases]
      /\ result' \in [Workers -> Results] /\ faults' \in [Workers -> 0..MaxFaults]
  BY <1>1, <1>2, BoundsAssumption DEF Start, TypeOK, Steps, Phases, Results
<1>6. /\ kind' \in [Workers -> Kinds \cup {"none"}]
      /\ from' \in [Workers -> Prefixes \cup {NoPrefix}] /\ to' \in [Workers -> Prefixes \cup {NoPrefix}]
  BY <1>1, <1>2 DEF Start, StartParams, TypeOK
<1>7. /\ ver' \in [Workers -> Trees] /\ delta' \in [Workers -> BOOLEAN]
      /\ force' \in [Workers -> BOOLEAN] /\ ensured' \in [Workers -> BOOLEAN]
      /\ skipped' \in [Workers -> SUBSET Skippable]
  BY <1>1, <1>2 DEF Start, StartParams, TypeOK
<1>8. \E tt \in SUBSET FarmPlaces : todo' = [todo EXCEPT ![w] = tt]
  BY <1>1 DEF Start, FarmPlaces
<1>9. todo' \in [Workers -> SUBSET Places] BY <1>2, <1>8, PlaceFacts DEF TypeOK
<1>10. TypeOK'
  BY <1>3, <1>4, <1>5, <1>6, <1>7, <1>9 DEF TypeOK, Phases, Results
<1>11. ASSUME NEW x \in Workers PROVE (StageIn(kind[x], phase[x], pc[x]) /\ ParamsOK(x))'
  <2>1. todo'[x] \subseteq FarmPlaces BY <1>2, <1>8 DEF StagesOK, ParamsOK, TypeOK
  <2>2. CASE x = w
    <3>1. /\ pc'[x] = "check" /\ phase'[x] = "forward" /\ kind'[x] = k /\ from'[x] = f /\ to'[x] = t
          /\ ver'[x] = v /\ delta'[x] = d
      BY <1>1, <1>2, <2>2 DEF Start, TypeOK
    <3> QED BY <1>1, <2>1, <3>1 DEF ParamsOK, StageIn, StartParams, Linking
  <2>3. CASE x # w
    <3>1. /\ pc'[x] = pc[x] /\ phase'[x] = phase[x] /\ kind'[x] = kind[x] /\ from'[x] = from[x]
          /\ to'[x] = to[x] /\ ver'[x] = ver[x] /\ delta'[x] = delta[x] /\ at'[x] = at[x]
      BY <1>1, <1>2, <2>3 DEF Start, TypeOK
    <3> QED BY <1>2, <2>1, <3>1 DEF ParamsOK, Nothing, StagesOK
  <2> QED BY <2>2, <2>3
<1> QED BY <1>10, <1>11 DEF TypeInv, StagesOK

LEMMA CrashTypes ==
    ASSUME TypeInv, Crash
    PROVE  TypeInv'
<1>1. TypeOK /\ StagesOK BY DEF TypeInv
<1>2. UNCHANGED <<fsVars, params, phase, result, faults, farm, owned, ops>> /\ pc' = [w \in Workers |-> "idle"]
  BY DEF Crash
<1>3. crashes' \in 0..MaxCrashes BY <1>1, BoundsAssumption DEF Crash, TypeOK
<1>4. FsTypeOK' BY <1>1, <1>2, DisturbTypes DEF TypeOK
<1>5. TypeOK' BY <1>1, <1>2, <1>3, <1>4 DEF TypeOK, params, farm, Steps
<1>6. StagesOK' BY <1>1, <1>2 DEF StagesOK, StageIn, ParamsOK, params, farm, Linking
<1> QED BY <1>5, <1>6 DEF TypeInv

LEMMA InitTypes == Init => TypeInv
<1> SUFFICES ASSUME Init PROVE TypeInv
  OBVIOUS
<1>1. FsTypeOK
  <2>1. CASE FsInit BY <2>1 DEF FsInit, FsTypeOK, Trees
  <2>2. ASSUME NEW p \in Storages, NEW v \in Versions, InstalledAt(p, v) PROVE FsTypeOK
    <3>1. App(p) \in Places \ {Cache, Backup(Apps)} BY PlaceFacts
    <3> QED BY <2>2, <3>1 DEF InstalledAt, FsTypeOK, Trees
  <2> QED BY <2>1, <2>2 DEF Init
<1>2. "none" \in Trees /\ 0 \in 0..MaxFaults /\ 0 \in 0..MaxOps /\ 0 \in 0..MaxCrashes
  BY BoundsAssumption DEF Trees
<1>3. /\ pc \in [Workers -> Steps] /\ kind \in [Workers -> Kinds \cup {"none"}]
      /\ phase \in [Workers -> {"forward", "back"}]
      /\ result \in [Workers -> {"none", "ok", "already", "failed"}]
  BY DEF Init, Steps
<1>4. /\ from \in [Workers -> Prefixes \cup {NoPrefix}] /\ to \in [Workers -> Prefixes \cup {NoPrefix}]
      /\ ver \in [Workers -> Trees] /\ delta \in [Workers -> BOOLEAN] /\ force \in [Workers -> BOOLEAN]
  BY <1>2 DEF Init
<1>5. /\ todo \in [Workers -> SUBSET Places] /\ at \in [Workers -> Places \cup {NoPrefix}]
      /\ ensured \in [Workers -> BOOLEAN] /\ owned \in BOOLEAN
      /\ skipped \in [Workers -> SUBSET Skippable]
      /\ faults \in [Workers -> 0..MaxFaults] /\ ops \in 0..MaxOps /\ crashes \in 0..MaxCrashes
  BY <1>2 DEF Init
<1>6. TypeOK BY <1>1, <1>3, <1>4, <1>5 DEF TypeOK
<1>7. StagesOK BY DEF Init, StagesOK, StageIn, ParamsOK
<1> QED BY <1>6, <1>7 DEF TypeInv

-----------------------------------------------------------------------------
(* A step of a worker that has started. *)
Works(w) ==
    \/ FarmVisit(w) \/ FarmDone(w)
    \/ Check(w) \/ Unlink(w) \/ BackupApp(w) \/ BackupCopy(w) \/ BackupDrop(w)
    \/ Extract(w) \/ ExtractEnd(w) \/ Scripts(w) \/ Deploy(w) \/ DeployCopy(w) \/ DeployDrop(w)
    \/ LinkBin(w) \/ LinkSys(w) \/ LinkAppStep(w) \/ RestoreApp(w)
    \/ Remove(w) \/ Removing(w)

LEMMA NextParts ==
    ASSUME Next
    PROVE  Crash \/ \E w \in Workers : Starts(w) \/ Works(w)
BY DEF Next, Starts, Works

LEMMA WorksFit ==
    ASSUME TypeInv, NEW w \in Workers, Works(w)
    PROVE  Fits(w)
BY CheckFits, UnlinkFits, BackupAppFits, BackupCopyFits, BackupDropFits, ExtractFits,
   ExtractEndFits, ScriptsFits, DeployFits, DeployCopyFits, DeployDropFits, LinkBinFits, LinkSysFits, LinkAppFits, FarmVisitFits, FarmDoneFits,
   RestoreAppFits, RemoveFits, RemovingFits
   DEF Works

LEMMA TypeStep ==
    ASSUME TypeInv, [Next]_vars
    PROVE  TypeInv'
<1>1. CASE Next BY <1>1, NextParts, WorksFit, StartTypes, CrashTypes, TypeCompose DEF Fits
<1>2. CASE UNCHANGED vars
  BY <1>2 DEF TypeInv, TypeOK, FsTypeOK, StagesOK, StageIn, ParamsOK, Nothing, vars, fsVars, params, farm
<1> QED BY <1>1, <1>2

THEOREM StagesInvariance == Spec => []TypeInv
BY InitTypes, TypeStep, PTL DEF Spec

(* Every variable keeps its type, for every kind of transaction, any       *)
(* number of workers, every failure and crash: no path is built from a     *)
(* NULL prefix but where eam-uninstall.c looks for that, and the farm is   *)
(* never led into the extraction directory.                                *)
THEOREM TypeCorrect == Spec => []TypeOK
<1>1. TypeInv => TypeOK BY DEF TypeInv
<1> QED BY StagesInvariance, <1>1, PTL

-----------------------------------------------------------------------------
(* Updates in place: every update is from one storage to itself, where     *)
(* rename() of a directory works, and nothing else changes the             *)
(* application's directories at the time; links may be made again.         *)
InPlace(p) ==
    /\ p \in Storages \ Overlay
    /\ UpdatePrefixes = {p}
    /\ Kinds \subseteq {"update", "symlinks", "farm"}

(* The backup is some worker's from its making to the end of its removal.  *)
Holds(w) == HoldsBackup(w) \/ (kind[w] = "update" /\ pc[w] = "removing")

UpdateOK(w, p) ==
    /\ pc[w] \notin {"backupcopy", "backupdrop"}
    /\ HoldsBackup(w) => tree[Backup(p)] \in Versions
    /\ kind[w] = "update" /\ pc[w] = "removing" => tree[Backup(p)] \in Partial
    /\ pc[w] = "extracting" => tree[Cache] \in Partial
    /\ pc[w] \in {"scripts", "deploy", "deploycopy"} => tree[Cache] \in Versions
    /\ HoldsBackup(w) /\ pc[w] \in {"drop", "remove"} \cup Linking => tree[App(p)] \in Versions

(* A directory without a backup beside it is whole, and so is one beside   *)
(* the remains of a backup.                                                *)
DiskOK(p) ==
    /\ tree[Backup(p)] = "none" => tree[App(p)] \in Versions \cup {"none"}
    /\ tree[Backup(p)] \in Partial => tree[App(p)] \in Versions

Exclusive == \A w, x \in Workers : Holds(w) /\ Holds(x) => w = x

UInv(p) ==
    TypeInv /\ Exclusive /\ DiskOK(p) /\ (\A w \in Workers : UpdateOK(w, p)) /\ NeverLost

(* What a worker's step has to establish for the whole. *)
Keeps(w, p) ==
    /\ DiskOK(p)' /\ UpdateOK(w, p)' /\ NeverLost'
    /\ UNCHANGED tree \/ \A x \in Workers \ {w} : ~Holds(x)
    /\ Holds(w)' => Holds(w) \/ \A x \in Workers \ {w} : ~Holds(x)

LEMMA InPlaceFacts ==
    ASSUME TypeInv, NEW p, InPlace(p)
    PROVE  /\ p \in Storages /\ p \in Prefixes /\ Resolve(p) = App(p) /\ p # NoPrefix
           /\ App(p) \in Places /\ Backup(p) \in Places /\ Cache \in Places
           /\ App(p) # Backup(p) /\ App(p) # Cache /\ Backup(p) # Cache
           /\ tree \in [Places -> Trees]
           /\ "none" \notin Versions /\ Versions \cap Partial = {} /\ "none" \notin Partial
           /\ Trees = {"none"} \cup Partial \cup Versions
           /\ \A w \in Workers :
                 /\ kind[w] \in {"none", "update", "symlinks", "farm"}
                 /\ kind[w] = "update" => from[w] = p /\ to[w] = p /\ ver[w] \in Versions
<1>1. p \in Storages /\ p \in Prefixes /\ p # NoPrefix BY PlaceFacts, PrefixAssumption DEF InPlace
<1>2. FsTypeOK /\ TypeOK /\ StagesOK BY DEF TypeInv, TypeOK
<1>3. Resolve(p) = App(p) BY <1>1, <1>2, ResolvePlace
<1>4. "none" \notin Versions /\ Versions \cap Partial = {} /\ "none" \notin Partial
  BY VersionAssumption DEF Partial
<1>5. \A w \in Workers :
         /\ kind[w] \in {"none", "update", "symlinks", "farm"}
         /\ kind[w] = "update" => from[w] = p /\ to[w] = p /\ ver[w] \in Versions
  BY <1>2 DEF InPlace, TypeOK, StagesOK, ParamsOK
<1> QED BY <1>1, <1>2, <1>3, <1>4, <1>5, PlaceFacts DEF FsTypeOK, Trees

(* Whoever works with the backup or the cache holds the backup. *)
LEMMA HoldersWork ==
    ASSUME NEW p, InPlace(p), UInv(p), NEW w \in Workers
    PROVE  /\ pc[w] \in Unpacking => Holds(w)
           /\ Holds(w) => kind[w] = "update" /\ tree[Backup(p)] # "none"
<1>1. TypeInv /\ UpdateOK(w, p) BY DEF UInv
<1>2. StageIn(kind[w], phase[w], pc[w]) BY <1>1, WorkerKnows
<1>3. kind[w] \in {"none", "update", "symlinks", "farm"} BY <1>1, InPlaceFacts
<1>4. pc[w] \in Unpacking => Holds(w)
  BY <1>2, <1>3 DEF StageIn, Unpacking, Holds, HoldsBackup, Linking
<1>5. Holds(w) => kind[w] = "update" BY DEF Holds, HoldsBackup
<1>6. Holds(w) => tree[Backup(p)] \in Versions \cup Partial BY <1>1 DEF Holds, UpdateOK
<1> QED BY <1>1, <1>4, <1>5, <1>6, InPlaceFacts

LEMMA KeepsCompose ==
    ASSUME NEW p, InPlace(p), UInv(p), TypeInv', NEW w \in Workers, Keeps(w, p),
           UNCHANGED params,
           \A x \in Workers \ {w} : pc'[x] = pc[x] /\ phase'[x] = phase[x]
    PROVE  UInv(p)'
<1>1. ASSUME NEW x \in Workers \ {w} PROVE (Holds(x)' <=> Holds(x)) /\ (HoldsBackup(x)' <=> HoldsBackup(x))
  BY DEF Holds, HoldsBackup, params
<1>2. Exclusive' BY <1>1 DEF UInv, Exclusive, Keeps
<1>3. ASSUME NEW x \in Workers \ {w} PROVE UpdateOK(x, p)'
  <2>1. UpdateOK(x, p) BY DEF UInv
  <2>2. kind'[x] = kind[x] BY DEF params
  <2>3. CASE UNCHANGED tree BY <1>1, <2>1, <2>2, <2>3 DEF UpdateOK
  <2>4. CASE ~Holds(x)
    <3>1. pc[x] \notin Unpacking BY <2>4, HoldersWork
    <3> QED BY <1>1, <2>1, <2>2, <2>4, <3>1 DEF UpdateOK, Holds, Unpacking
  <2> QED BY <2>3, <2>4 DEF Keeps
<1> QED BY <1>2, <1>3 DEF UInv, Keeps

(* A complete copy stays if one of the two directories is complete, or     *)
(* both are as they were.                                                  *)
LEMMA LostNever ==
    ASSUME NEW p, InPlace(p), UInv(p), tree' \in [Places -> Trees],
           \A pl \in Places \ {App(p), Backup(p), Cache} : tree'[pl] = tree[pl],
           \/ tree'[App(p)] \in Versions \/ tree'[Backup(p)] \in Versions
           \/ tree'[App(p)] = tree[App(p)] /\ tree'[Backup(p)] = tree[Backup(p)] /\ (owned' => owned)
    PROVE  NeverLost'
<1>1. TypeInv /\ NeverLost BY DEF UInv
<1>2. App(p) \in Places \ {Cache} /\ Backup(p) \in Places \ {Cache} BY <1>1, InPlaceFacts
<1>3. CASE tree'[App(p)] \in Versions \/ tree'[Backup(p)] \in Versions
  BY <1>2, <1>3 DEF NeverLost, Copies
<1>4. CASE tree'[App(p)] = tree[App(p)] /\ tree'[Backup(p)] = tree[Backup(p)] /\ (owned' => owned)
  <2>1. \A pl \in Places \ {Cache} : tree'[pl] = tree[pl] BY <1>4
  <2> QED BY <1>1, <1>4, <2>1 DEF NeverLost, Copies
<1> QED BY <1>3, <1>4

(* Steps that leave the disk alone, and steps of the one that holds the    *)
(* backup that leave it alone.                                             *)
LEMMA StillKeeps ==
    ASSUME NEW p, InPlace(p), UInv(p), NEW w \in Workers, UNCHANGED tree,
           owned' => owned \/ tree[App(p)] \in Versions,
           UpdateOK(w, p)', Holds(w)' => Holds(w)
    PROVE  Keeps(w, p)
<1>1. TypeInv /\ DiskOK(p) BY DEF UInv
<1>2. tree' \in [Places -> Trees] /\ DiskOK(p)' BY <1>1, InPlaceFacts DEF DiskOK
<1>3. NeverLost' BY <1>2, LostNever
<1> QED BY <1>2, <1>3 DEF Keeps

LEMMA HolderKeeps ==
    ASSUME NEW p, InPlace(p), UInv(p), NEW w \in Workers, HoldsBackup(w),
           tree' \in [Places -> Trees],
           \A pl \in Places \ {App(p), Cache} : tree'[pl] = tree[pl],
           UpdateOK(w, p)'
    PROVE  Keeps(w, p)
<1>1. TypeInv /\ Exclusive /\ UpdateOK(w, p) BY DEF UInv
<1>2. tree'[Backup(p)] = tree[Backup(p)] /\ tree[Backup(p)] \in Versions
  BY <1>1, InPlaceFacts DEF UpdateOK
<1>3. DiskOK(p)' BY <1>1, <1>2, InPlaceFacts DEF DiskOK
<1>4. NeverLost' BY <1>2, LostNever
<1>5. Holds(w) /\ \A x \in Workers \ {w} : ~Holds(x) BY <1>1 DEF Exclusive, Holds
<1> QED BY <1>3, <1>4, <1>5 DEF Keeps

(* What a step of each form does to a worker's position. *)
LEMMA Positions ==
    ASSUME TypeInv, NEW w \in Workers
    PROVE  /\ \A s \in Steps : Goto(w, s) => pc'[w] = s /\ UNCHANGED <<params, phase, owned>>
           /\ \A s \in Steps : GoBack(w, s) => pc'[w] = s /\ phase'[w] = "back" /\ UNCHANGED <<params, owned>>
           /\ \A r : Finish(w, r) => /\ pc'[w] = "idle" /\ UNCHANGED params
                                     /\ owned' => owned \/ r = "ok"
           /\ \A ok : NextPlace(w, ok) => pc'[w] = "farm" /\ UNCHANGED <<params, phase, owned>>
  BY DEF TypeInv, TypeOK, Goto, GoBack, Finish, NextPlace, control

(* A worker that ends has nothing to answer for. *)
LEMMA IdleOK ==
    ASSUME NEW w \in Workers, NEW p, pc'[w] \in {"idle", "farm", "check"}
    PROVE  UpdateOK(w, p)' /\ ~Holds(w)'
BY DEF UpdateOK, Holds, HoldsBackup, Linking

-----------------------------------------------------------------------------
(* Commands that make links leave the directories alone. *)
LEMMA LinkersKeep ==
    ASSUME NEW p, InPlace(p), UInv(p), NEW w \in Workers, Works(w), kind[w] # "update"
    PROVE  Keeps(w, p)
<1>1. TypeInv /\ UpdateOK(w, p) BY DEF UInv
<1>2. StageIn(kind[w], phase[w], pc[w]) /\ Fits(w) /\ kind[w] \in {"none", "symlinks", "farm"}
  BY <1>1, WorkerKnows, WorksFit, InPlaceFacts
<1>3. pc[w] \in {"idle", "check", "unlink", "farm"} \cup Linking
  BY <1>2 DEF StageIn, Linking, Unpacking
<1>4. UNCHANGED tree
  BY <1>3 DEF Works, FarmVisit, FarmDone, Check, Unlink, BackupApp, BackupCopy, Extract, ExtractEnd,
              Scripts, Deploy, DeployCopy, LinkBin, LinkSys, LinkAppStep, RestoreApp, Remove,
              Removing, BackupDrop, DeployDrop, DropSource, fsVars, Linking
<1>5. PICK s \in Steps, ph \in Phases, r \in Results : Step(w, s, ph, r) /\ StageIn(kind[w], ph, s)
  BY <1>2 DEF Fits, Moves
<1>6. pc'[w] = s /\ kind'[w] = kind[w] /\ phase'[w] = ph /\ (owned' => owned)
  BY <1>1, <1>2, <1>5 DEF Step, params, TypeInv, TypeOK
<1>7. pc'[w] \in {"idle", "check", "unlink", "farm"} \cup Linking
  BY <1>2, <1>5, <1>6 DEF StageIn, Linking, Unpacking
<1>8. UpdateOK(w, p)' /\ ~Holds(w)'
  BY <1>2, <1>6, <1>7 DEF UpdateOK, Holds, HoldsBackup, Linking
<1> QED BY <1>4, <1>6, <1>8, StillKeeps

LEMMA BeforeBackupKeeps ==
    ASSUME NEW p, InPlace(p), UInv(p), NEW w \in Workers, kind[w] = "update",
           Check(w) \/ Unlink(w)
    PROVE  Keeps(w, p)
<1>1. TypeInv /\ UNCHANGED tree BY DEF UInv, Check, Unlink, fsVars
<1>2. pc'[w] \in {"idle", "unlink", "backup"} /\ UNCHANGED kind /\ (owned' => owned)
  BY <1>1 DEF TypeInv, TypeOK, Check, Unlink, FirstStep, AfterUnlink, Goto, Finish, Refused,
              control, params
<1>3. UpdateOK(w, p)' /\ ~Holds(w)'
  BY <1>2 DEF UpdateOK, Holds, HoldsBackup, Linking
<1> QED BY <1>1, <1>2, <1>3, StillKeeps

LEMMA BackupKeeps ==
    ASSUME NEW p, InPlace(p), UInv(p), NEW w \in Workers, BackupApp(w)
    PROVE  Keeps(w, p)
<1>1. TypeInv /\ DiskOK(p) /\ Exclusive BY DEF UInv
<1>2. kind[w] = "update" BY <1>1, BackupPlaces DEF BackupApp
<1>3. from[w] = p /\ p \notin Overlay BY <1>1, <1>2, InPlaceFacts DEF InPlace
<1>4. CASE CanRename(App(p), Backup(p)) /\ Disturb(Renamed(App(p), Backup(p))) /\ Goto(w, "extract")
  <2>1. tree[Backup(p)] = "none" /\ tree[App(p)] \in Versions
    BY <1>1, <1>4, InPlaceFacts DEF CanRename, DiskOK
  <2>2. /\ tree' \in [Places -> Trees] /\ tree'[Backup(p)] = tree[App(p)]
        /\ \A pl \in Places \ {App(p), Backup(p)} : tree'[pl] = tree[pl]
    BY <1>1, <1>4, InPlaceFacts DEF Disturb, Renamed
  <2>3. \A x \in Workers : ~Holds(x) BY <2>1, HoldersWork
  <2>4. pc'[w] = "extract" BY <1>1, <1>4, Positions DEF Steps
  <2>5. UpdateOK(w, p)' BY <2>1, <2>2, <2>4 DEF UpdateOK, Linking
  <2>6. DiskOK(p)' BY <1>1, <2>1, <2>2, InPlaceFacts DEF DiskOK
  <2>7. NeverLost' BY <2>1, <2>2, LostNever
  <2> QED BY <2>3, <2>5, <2>6, <2>7 DEF Keeps
<1>5. CASE UNCHANGED fsVars /\ Finish(w, "failed")
  <2>1. pc'[w] = "idle" /\ (owned' => owned) BY <1>1, <1>5, Positions
  <2> QED BY <1>5, <2>1, IdleOK, StillKeeps DEF fsVars
<1> QED BY <1>3, <1>4, <1>5 DEF BackupApp

(* An update that gives up goes to the restore, and still has the backup.  *)
LEMMA AbandonKeeps ==
    ASSUME NEW p, InPlace(p), UInv(p), NEW w \in Workers, kind[w] = "update", HoldsBackup(w),
           Abandon(w), tree' \in [Places -> Trees],
           \A pl \in Places \ {App(p), Cache} : tree'[pl] = tree[pl]
    PROVE  Keeps(w, p)
<1>1. TypeInv /\ UpdateOK(w, p) BY DEF UInv
<1>2. tree'[Backup(p)] = tree[Backup(p)] BY <1>1, InPlaceFacts
<1>3. pc'[w] = "restore" BY <1>1, Positions DEF Abandon, Steps
<1>4. UpdateOK(w, p)' BY <1>1, <1>2, <1>3 DEF UpdateOK, Linking
<1> QED BY <1>4, HolderKeeps

LEMMA UnpackingHolds ==
    ASSUME NEW p, InPlace(p), UInv(p), NEW w \in Workers, pc[w] \in Unpacking
    PROVE  /\ TypeInv /\ UpdateOK(w, p) /\ HoldsBackup(w) /\ kind[w] = "update" /\ phase[w] = "forward"
           /\ from[w] = p /\ to[w] = p /\ ver[w] \in Versions /\ Source(w) = Cache
           /\ tree[Backup(p)] \in Versions
           /\ \A x \in Workers \ {w} : pc[x] \notin Unpacking
<1>1. TypeInv /\ UpdateOK(w, p) /\ Exclusive BY DEF UInv
<1>2. Holds(w) /\ kind[w] = "update" /\ pc[w] # "removing" BY HoldersWork DEF Unpacking
<1>3. HoldsBackup(w) BY <1>2 DEF Holds
<1>4. \A x \in Workers \ {w} : pc[x] \notin Unpacking BY <1>1, <1>2, HoldersWork DEF Exclusive
<1>5. phase[w] = "forward" BY <1>1, UnpackingKinds
<1> QED BY <1>1, <1>2, <1>3, <1>4, <1>5, InPlaceFacts DEF Source, UpdateOK

LEMMA ExtractKeeps ==
    ASSUME NEW p, InPlace(p), UInv(p), NEW w \in Workers, Extract(w)
    PROVE  Keeps(w, p)
<1>1. TypeInv /\ UpdateOK(w, p) /\ HoldsBackup(w) /\ kind[w] = "update" /\ tree[Backup(p)] \in Versions
  BY UnpackingHolds DEF Extract, Unpacking
<1>2. tree \in [Places -> Trees] /\ Cache \in Places /\ Backup(p) \in Places /\ Backup(p) # Cache
      /\ Partial \subseteq Trees /\ "none" \in Trees
  BY <1>1, InPlaceFacts
<1>3. CASE Fills(Cache) /\ Goto(w, "extracting")
  <2>1. PICK t \in Partial : tree' = [tree EXCEPT ![Cache] = t] BY <1>3 DEF Fills, Halfway
  <2>2. pc'[w] = "extracting" BY <1>1, <1>3, Positions DEF Steps
  <2>3. UpdateOK(w, p)' BY <1>1, <1>2, <2>1, <2>2 DEF UpdateOK, Linking
  <2> QED BY <1>1, <1>2, <2>1, <2>3, HolderKeeps
<1>4. CASE Disturb(Removed(Cache)) /\ Abandon(w)
  BY <1>1, <1>2, <1>4, AbandonKeeps DEF Disturb, Removed
<1> QED BY <1>3, <1>4 DEF Extract

LEMMA ExtractEndKeeps ==
    ASSUME NEW p, InPlace(p), UInv(p), NEW w \in Workers, ExtractEnd(w)
    PROVE  Keeps(w, p)
<1>0. pc[w] = "extracting" BY DEF ExtractEnd
<1>1. /\ TypeInv /\ UpdateOK(w, p) /\ HoldsBackup(w) /\ kind[w] = "update"
      /\ tree[Backup(p)] \in Versions /\ ver[w] \in Versions
      /\ \A x \in Workers \ {w} : pc[x] \notin {"extracting", "drop"}
  BY <1>0, UnpackingHolds DEF Unpacking
<1>2. tree \in [Places -> Trees] /\ Cache \in Places /\ Backup(p) \in Places /\ Backup(p) # Cache
      /\ "none" \in Trees /\ Versions \subseteq Trees /\ "none" \notin Partial
  BY <1>1, InPlaceFacts
<1>3. tree[Cache] \in Partial BY <1>0, <1>1 DEF UpdateOK
<1>4. Unpacked(w) = {ver[w]} BY <1>1, <1>2, <1>3 DEF Unpacked
<1>5. CASE Disturb([tree EXCEPT ![Cache] = ver[w]]) /\ Goto(w, IF delta[w] THEN "deploy" ELSE "scripts")
  <2>1. pc'[w] \in {"deploy", "scripts"} BY <1>1, <1>5, Positions DEF Steps
  <2>2. tree' = [tree EXCEPT ![Cache] = ver[w]] BY <1>5 DEF Disturb
  <2>3. UpdateOK(w, p)' BY <1>1, <1>2, <2>1, <2>2 DEF UpdateOK, Linking
  <2> QED BY <1>1, <1>2, <2>2, <2>3, HolderKeeps
<1>6. CASE Disturb(IF delta[w] THEN tree ELSE Removed(Cache)) /\ Abandon(w)
  BY <1>1, <1>2, <1>6, AbandonKeeps DEF Disturb, Removed
<1> QED BY <1>4, <1>5, <1>6 DEF ExtractEnd

LEMMA ScriptsKeeps ==
    ASSUME NEW p, InPlace(p), UInv(p), NEW w \in Workers, Scripts(w)
    PROVE  Keeps(w, p)
<1>0. pc[w] = "scripts" BY DEF Scripts
<1>1. TypeInv /\ UpdateOK(w, p) /\ HoldsBackup(w) /\ kind[w] = "update" /\ tree[Backup(p)] \in Versions
  BY <1>0, UnpackingHolds DEF Unpacking
<1>2. tree \in [Places -> Trees] /\ "none" \in Trees BY <1>1, InPlaceFacts
<1>3. CASE UNCHANGED fsVars /\ Goto(w, "deploy")
  <2>1. pc'[w] = "deploy" /\ UNCHANGED tree BY <1>1, <1>3, Positions DEF Steps, fsVars
  <2>2. UpdateOK(w, p)' BY <1>0, <1>1, <2>1 DEF UpdateOK, Linking
  <2> QED BY <1>1, <1>2, <2>1, <2>2, HolderKeeps
<1>4. CASE Disturb(Removed(Cache)) /\ Abandon(w)
  BY <1>1, <1>2, <1>4, AbandonKeeps DEF Disturb, Removed
<1> QED BY <1>3, <1>4 DEF Scripts

LEMMA DeployKeeps ==
    ASSUME NEW p, InPlace(p), UInv(p), NEW w \in Workers, Deploy(w) \/ DeployCopy(w)
    PROVE  Keeps(w, p)
<1>0. pc[w] \in {"deploy", "deploycopy"} BY DEF Deploy, DeployCopy
<1>1. /\ TypeInv /\ UpdateOK(w, p) /\ HoldsBackup(w) /\ kind[w] = "update" /\ Source(w) = Cache
      /\ tree[Backup(p)] \in Versions /\ to[w] = p /\ tree[Cache] \in Versions
  BY <1>0, UnpackingHolds DEF Unpacking, UpdateOK
<1>2. /\ tree \in [Places -> Trees] /\ "none" \in Trees /\ Partial \subseteq Trees
      /\ App(p) \in Places /\ Backup(p) \in Places /\ Cache \in Places
      /\ App(p) # Cache /\ App(p) # Backup(p) /\ Backup(p) # Cache /\ Resolve(p) = App(p)
  BY <1>1, InPlaceFacts
<1>3. CASE /\ Disturb(Renamed(Cache, App(p))) \/ Disturb(Copied(Cache, App(p)))
           /\ Goto(w, "drop")
  <2>1. pc'[w] = "drop" BY <1>1, <1>3, Positions DEF Steps
  <2>2. /\ tree' \in [Places -> Trees] /\ tree'[App(p)] = tree[Cache]
        /\ \A pl \in Places \ {App(p), Cache} : tree'[pl] = tree[pl]
    BY <1>2, <1>3 DEF Disturb, Renamed, Copied
  <2>3. UpdateOK(w, p)' BY <1>1, <1>2, <2>1, <2>2 DEF UpdateOK, Linking
  <2> QED BY <1>1, <2>2, <2>3, HolderKeeps
<1>4. CASE Fills(App(p)) /\ Goto(w, "deploycopy")
  <2>1. pc'[w] = "deploycopy" BY <1>1, <1>4, Positions DEF Steps
  <2>2. PICK t \in Partial : tree' = [tree EXCEPT ![App(p)] = t] BY <1>4 DEF Fills, Halfway
  <2>3. UpdateOK(w, p)' BY <1>1, <1>2, <2>1, <2>2 DEF UpdateOK, Linking
  <2> QED BY <1>1, <1>2, <2>2, <2>3, HolderKeeps
<1>5. CASE Disturb(DeployFailed(Cache, p)) /\ Abandon(w)
  <2>1. /\ tree' \in [Places -> Trees]
        /\ \A pl \in Places \ {App(p), Cache} : tree'[pl] = tree[pl]
    BY <1>2, <1>5 DEF Disturb, DeployFailed
  <2> QED BY <1>1, <1>5, <2>1, AbandonKeeps
<1> QED BY <1>1, <1>3, <1>4, <1>5 DEF Deploy, DeployCopy

LEMMA DropKeeps ==
    ASSUME NEW p, InPlace(p), UInv(p), NEW w \in Workers, DeployDrop(w)
    PROVE  Keeps(w, p)
<1>0. pc[w] = "drop" BY DEF DeployDrop, DropSource
<1>1. /\ TypeInv /\ UpdateOK(w, p) /\ HoldsBackup(w) /\ kind[w] = "update" /\ Source(w) = Cache
      /\ tree[Backup(p)] \in Versions /\ tree[App(p)] \in Versions /\ AfterDeploy(w) = "linkbin"
  BY <1>0, UnpackingHolds DEF Unpacking, UpdateOK, AfterDeploy
<1>2. /\ tree \in [Places -> Trees] /\ "none" \in Trees /\ Partial \subseteq Trees
      /\ App(p) \in Places /\ Backup(p) \in Places /\ Cache \in Places
      /\ App(p) # Cache /\ App(p) # Backup(p) /\ Backup(p) # Cache
  BY <1>1, InPlaceFacts
<1>3. \A t \in Remains(tree[Cache]) : t \in Partial BY DEF Remains, Partial
<1>4. \E t \in Trees : tree' = [tree EXCEPT ![Cache] = t]
  <2>1. tree = [tree EXCEPT ![Cache] = tree[Cache]] /\ tree[Cache] \in Trees BY <1>2
  <2> QED BY <1>1, <1>2, <1>3, <2>1
          DEF DeployDrop, DropSource, Guts, Gutted, Disturb, Removed, fsVars
<1>5. pc'[w] \in {"drop", "linkbin"} BY <1>1, Positions DEF DeployDrop, DropSource, Steps
<1>6. UpdateOK(w, p)' BY <1>1, <1>2, <1>4, <1>5 DEF UpdateOK, Linking
<1> QED BY <1>1, <1>2, <1>4, <1>6, HolderKeeps

LEMMA LinkKeeps ==
    ASSUME NEW p, InPlace(p), UInv(p), NEW w \in Workers, kind[w] = "update",
           LinkBin(w) \/ LinkSys(w) \/ LinkAppStep(w)
    PROVE  Keeps(w, p)
<1>1. /\ TypeInv /\ UpdateOK(w, p) /\ pc[w] \in Linking /\ UNCHANGED tree
      /\ phase[w] \in Phases
  BY WorkerKnows DEF UInv, LinkBin, LinkSys, LinkAppStep, Linking, fsVars
<1>2. HoldsBackup(w) <=> phase[w] = "forward" BY <1>1 DEF HoldsBackup, Phases, Linking
<1>3. ~HooksFail(w) BY DEF HooksFail
<1>4. CASE Goto(w, "linksys") \/ Goto(w, "linkapp") \/ PassOver(w)
  <2>1. pc'[w] \in {"linksys", "linkapp"} /\ UNCHANGED <<params, phase, owned>>
    BY <1>1, <1>4, Positions DEF Steps, PassOver, TypeInv, TypeOK
  <2>2. /\ HoldsBackup(w)' <=> HoldsBackup(w)
        /\ Holds(w)' <=> Holds(w)
    BY <1>1, <1>2, <2>1 DEF HoldsBackup, Holds, Linking, Phases, params
  <2>3. UpdateOK(w, p)' BY <1>1, <2>1, <2>2 DEF UpdateOK, Linking
  <2> QED BY <1>1, <2>1, <2>2, <2>3, StillKeeps
<1>5. CASE LinkedUp(w) /\ phase[w] = "forward"
  <2>1. pc'[w] = "remove" /\ UNCHANGED <<params, phase, owned>>
    BY <1>1, <1>5, Positions DEF LinkedUp, Steps
  <2>2. Holds(w) /\ HoldsBackup(w) BY <1>2, <1>5 DEF Holds
  <2>3. UpdateOK(w, p)' BY <1>1, <2>1, <2>2 DEF UpdateOK, Linking
  <2> QED BY <1>1, <2>1, <2>2, <2>3, StillKeeps
<1>6. CASE LinkFailed(w) /\ phase[w] = "forward"
  <2>1. pc'[w] = "restore" /\ UNCHANGED <<params, owned>>
    BY <1>1, <1>6, Positions DEF LinkFailed, Steps
  <2>2. Holds(w) /\ HoldsBackup(w) BY <1>2, <1>6 DEF Holds
  <2>3. UpdateOK(w, p)' BY <1>1, <2>1, <2>2 DEF UpdateOK, Linking
  <2> QED BY <1>1, <2>1, <2>2, <2>3, StillKeeps
<1>7. CASE (LinkedUp(w) \/ LinkFailed(w)) /\ phase[w] = "back"
  <2>1. Finish(w, "failed") BY <1>7 DEF LinkedUp, LinkFailed
  <2>2. pc'[w] = "idle" /\ (owned' => owned) BY <1>1, <2>1, Positions
  <2> QED BY <1>1, <2>2, IdleOK, StillKeeps
<1> QED BY <1>1, <1>3, <1>4, <1>5, <1>6, <1>7 DEF LinkBin, LinkSys, LinkAppStep, Phases

LEMMA RestoreKeeps ==
    ASSUME NEW p, InPlace(p), UInv(p), NEW w \in Workers, RestoreApp(w)
    PROVE  Keeps(w, p)
<1>1. /\ TypeInv /\ DiskOK(p) /\ UpdateOK(w, p) /\ Exclusive
      /\ kind[w] = "update" /\ phase[w] = "back" /\ from[w] = p
  BY BackupPlaces, InPlaceFacts DEF UInv, RestoreApp
<1>2. Holds(w) /\ tree[Backup(p)] \in Versions
  BY <1>1 DEF RestoreApp, Holds, HoldsBackup, UpdateOK
<1>3. CASE Disturb(Renamed(Backup(p), App(p))) /\ Goto(w, "linkbin")
  <2>1. pc'[w] = "linkbin" /\ UNCHANGED <<params, phase, owned>> BY <1>1, <1>3, Positions DEF Steps
  <2>2. /\ tree' \in [Places -> Trees] /\ tree'[App(p)] = tree[Backup(p)] /\ tree'[Backup(p)] = "none"
        /\ \A pl \in Places \ {App(p), Backup(p), Cache} : tree'[pl] = tree[pl]
    BY <1>1, <1>3, InPlaceFacts DEF Disturb, Renamed
  <2>3. ~Holds(w)' /\ UpdateOK(w, p)'
    BY <1>1, <2>1 DEF UpdateOK, Holds, HoldsBackup, Linking
  <2>4. DiskOK(p)' BY <1>1, <1>2, <2>2, InPlaceFacts DEF DiskOK
  <2>5. NeverLost' BY <1>2, <2>2, LostNever
  <2>6. \A x \in Workers \ {w} : ~Holds(x) BY <1>1, <1>2 DEF Exclusive
  <2> QED BY <2>3, <2>4, <2>5, <2>6 DEF Keeps
<1>4. CASE UNCHANGED fsVars /\ Finish(w, "failed")
  <2>1. pc'[w] = "idle" /\ (owned' => owned) BY <1>1, <1>4, Positions
  <2> QED BY <1>4, <2>1, IdleOK, StillKeeps DEF fsVars
<1> QED BY <1>1, <1>3, <1>4 DEF RestoreApp

LEMMA RemoveKeeps ==
    ASSUME NEW p, InPlace(p), UInv(p), NEW w \in Workers, kind[w] = "update",
           Remove(w) \/ Removing(w)
    PROVE  Keeps(w, p)
<1>1. /\ TypeInv /\ DiskOK(p) /\ UpdateOK(w, p) /\ Exclusive /\ from[w] = p
      /\ Doomed(w) = Backup(p) /\ ~Nothing(w) /\ Removal(w) = "ok" /\ RemovalFailed(w) = "ok"
  BY InPlaceFacts DEF UInv, Doomed, Nothing, Removal, RemovalFailed
<1>2. /\ tree \in [Places -> Trees] /\ Backup(p) \in Places /\ "none" \in Trees /\ Partial \subseteq Trees
      /\ App(p) \in Places /\ App(p) # Backup(p) /\ Backup(p) # Cache
      /\ "none" \notin Partial /\ "none" \notin Versions /\ Versions \cap Partial = {}
  BY <1>1, InPlaceFacts
<1>3. Holds(w) /\ tree[App(p)] \in Versions
  BY <1>1 DEF Remove, Removing, Holds, HoldsBackup, UpdateOK, DiskOK
<1>4. \A x \in Workers \ {w} : ~Holds(x) BY <1>1, <1>3 DEF Exclusive
<1>5. CASE UNCHANGED fsVars /\ Finish(w, "ok")
  <2>1. pc'[w] = "idle" BY <1>1, <1>5, Positions
  <2> QED BY <1>3, <1>5, <2>1, IdleOK, StillKeeps DEF fsVars
<1>6. CASE pc[w] = "remove" /\ Guts(Backup(p)) /\ Goto(w, "removing")
  <2>1. pc'[w] = "removing" /\ UNCHANGED <<params, owned>> BY <1>1, <1>6, Positions DEF Steps
  <2>2. PICK t \in Remains(tree[Backup(p)]) : tree' = [tree EXCEPT ![Backup(p)] = t]
    BY <1>6 DEF Guts, Gutted
  <2>3. t \in Partial BY DEF Remains, Partial
  <2>4. /\ tree' \in [Places -> Trees] /\ tree'[Backup(p)] \in Partial /\ tree'[App(p)] = tree[App(p)]
        /\ \A pl \in Places \ {App(p), Backup(p), Cache} : tree'[pl] = tree[pl]
    BY <1>2, <2>2, <2>3
  <2>5. DiskOK(p)' BY <1>2, <1>3, <2>4 DEF DiskOK
  <2>6. NeverLost' BY <1>3, <2>4, LostNever
  <2>7. UpdateOK(w, p)' BY <2>1, <2>4 DEF UpdateOK, HoldsBackup, Linking
  <2> QED BY <1>3, <1>4, <2>5, <2>6, <2>7 DEF Keeps
<1>7. CASE pc[w] = "removing" /\ Disturb(Removed(Backup(p))) /\ Finish(w, "ok")
  <2>1. pc'[w] = "idle" BY <1>1, <1>7, Positions
  <2>2. /\ tree' \in [Places -> Trees] /\ tree'[Backup(p)] = "none" /\ tree'[App(p)] = tree[App(p)]
        /\ \A pl \in Places \ {App(p), Backup(p), Cache} : tree'[pl] = tree[pl]
    BY <1>2, <1>7 DEF Disturb, Removed
  <2>3. DiskOK(p)' BY <1>2, <1>3, <2>2 DEF DiskOK
  <2>4. NeverLost' BY <1>3, <2>2, LostNever
  <2> QED BY <1>4, <2>1, <2>3, <2>4, IdleOK DEF Keeps
<1> QED BY <1>1, <1>5, <1>6, <1>7 DEF Remove, Removing

-----------------------------------------------------------------------------
LEMMA WorksKeep ==
    ASSUME NEW p, InPlace(p), UInv(p), NEW w \in Workers, Works(w)
    PROVE  Keeps(w, p)
<1>1. CASE kind[w] # "update" BY <1>1, LinkersKeep
<1>2. CASE kind[w] = "update"
  <2>1. StageIn(kind[w], phase[w], pc[w]) /\ UpdateOK(w, p) BY WorkerKnows DEF UInv
  <2>2. pc[w] \notin {"farm", "backupcopy", "backupdrop"}
    BY <1>2, <2>1 DEF StageIn, UpdateOK, Linking, Unpacking
  <2>3. ~FarmVisit(w) /\ ~FarmDone(w) /\ ~BackupCopy(w) /\ ~BackupDrop(w)
    BY <2>2 DEF FarmVisit, FarmDone, BackupCopy, BackupDrop, DropSource
  <2> QED
    BY <1>2, <2>3, BeforeBackupKeeps, BackupKeeps, ExtractKeeps, ExtractEndKeeps, ScriptsKeeps,
       DeployKeeps, DropKeeps, LinkKeeps, RestoreKeeps, RemoveKeeps DEF Works
<1> QED BY <1>1, <1>2

LEMMA StartKeeps ==
    ASSUME NEW p, InPlace(p), UInv(p), NEW w \in Workers, Starts(w)
    PROVE  UInv(p)'
<1>1. PICK k, f, t, v, d, forced : StartsAs(w, k, f, t, v, d, forced) BY StartsWith DEF UInv
<1>2. Start(w, k, f, t, v, d, forced) BY <1>1 DEF StartsAs
<1>3. TypeInv /\ TypeOK /\ TypeInv' BY StartTypes DEF UInv, TypeInv
<1>4. UNCHANGED tree /\ owned' = owned /\ pc'[w] = "check"
  BY <1>2, <1>3 DEF Start, TypeOK, fsVars
<1>5. UpdateOK(w, p)' /\ ~Holds(w)' BY <1>4, IdleOK
<1>6. ASSUME NEW x \in Workers \ {w} PROVE UpdateOK(x, p)' /\ (Holds(x)' <=> Holds(x))
  <2>1. kind'[x] = kind[x] /\ phase'[x] = phase[x] /\ pc'[x] = pc[x] /\ UpdateOK(x, p)
    BY <1>2, <1>3 DEF Start, TypeOK, UInv
  <2> QED BY <1>4, <2>1 DEF UpdateOK, Holds, HoldsBackup
<1> QED BY <1>3, <1>4, <1>5, <1>6 DEF UInv, Exclusive, DiskOK, NeverLost, Copies

LEMMA CrashKeeps ==
    ASSUME NEW p, InPlace(p), UInv(p), Crash
    PROVE  UInv(p)'
<1>1. TypeInv' BY CrashTypes DEF UInv
<1>2. UNCHANGED tree /\ UNCHANGED owned /\ \A w \in Workers : pc'[w] = "idle" BY DEF Crash, fsVars
<1>3. \A w \in Workers : UpdateOK(w, p)' /\ ~Holds(w)' BY <1>2, IdleOK
<1> QED BY <1>1, <1>2, <1>3 DEF UInv, Exclusive, DiskOK, NeverLost, Copies

LEMMA UpdatesStep ==
    ASSUME NEW p, InPlace(p), UInv(p), [Next]_vars
    PROVE  UInv(p)'
<1>0. TypeInv /\ TypeInv' /\ TypeOK BY TypeStep DEF UInv, TypeInv
<1>1. ASSUME NEW w \in Workers, Works(w) PROVE UInv(p)'
  <2>1. Keeps(w, p) /\ Moves(w) BY <1>0, <1>1, WorksKeep, WorksFit DEF Fits
  <2>2. PICK s \in Steps, ph \in Phases, r \in Results : Step(w, s, ph, r) BY <2>1 DEF Moves
  <2>3. UNCHANGED params /\ \A x \in Workers \ {w} : pc'[x] = pc[x] /\ phase'[x] = phase[x]
    BY <1>0, <2>2 DEF Step, TypeOK
  <2> QED BY <1>0, <2>1, <2>3, KeepsCompose
<1>2. CASE Next BY <1>1, <1>2, NextParts, StartKeeps, CrashKeeps
<1>3. CASE UNCHANGED vars
  BY <1>0, <1>3
     DEF UInv, Exclusive, DiskOK, UpdateOK, Holds, HoldsBackup, NeverLost, Copies, vars, fsVars, params
<1> QED BY <1>2, <1>3

LEMMA UpdatesInit ==
    ASSUME NEW p, InPlace(p), Init
    PROVE  UInv(p)
<1>1. TypeInv BY InitTypes
<1>2. \A w \in Workers : UpdateOK(w, p) /\ ~Holds(w)
  BY DEF Init, UpdateOK, Holds, HoldsBackup, Linking
<1>3. CASE FsInit /\ owned = FALSE
  <2>1. DiskOK(p) /\ NeverLost BY <1>1, <1>3, InPlaceFacts DEF DiskOK, FsInit, NeverLost
  <2> QED BY <1>1, <1>2, <2>1 DEF UInv, Exclusive
<1>4. ASSUME NEW q \in Storages, NEW v \in Versions, InstalledAt(q, v) PROVE UInv(p)
  <2>1. App(q) \in Places \ {Cache} /\ \A pl \in Places : tree[pl] = IF pl = App(q) THEN v ELSE "none"
    BY <1>4, PlaceFacts DEF InstalledAt
  <2>2. NeverLost BY <2>1 DEF NeverLost, Copies
  <2>3. Backup(p) # App(q) BY PlaceFacts
  <2>4. DiskOK(p) BY <1>1, <2>1, <2>3, InPlaceFacts DEF DiskOK
  <2> QED BY <1>1, <1>2, <2>2, <2>4 DEF UInv, Exclusive
<1> QED BY <1>3, <1>4 DEF Init

(* Of concurrent updates in place, one holds the backup, has the cache to  *)
(* itself, and finds it unpacked when it deploys, whatever fails and       *)
(* wherever the machine stops.                                             *)
THEOREM UpdatesInvariance ==
    ASSUME NEW p, InPlace(p)
    PROVE  Spec => []UInv(p)
<1>1. Init => UInv(p) BY UpdatesInit
<1>2. UInv(p) /\ [Next]_vars => UInv(p)' BY UpdatesStep
<1> QED BY <1>1, <1>2, PTL DEF Spec

(* The backup directory keeps updates of one application apart             *)
(* (eam_fs_backup_app: a rename that replaces nothing), and the one that   *)
(* has made it finds it complete until it ends.                            *)
THEOREM BackupIsExclusive ==
    ASSUME NEW p, InPlace(p)
    PROVE  Spec => []BackupExcludes
<1>1. UInv(p) => BackupExcludes
  <2> SUFFICES ASSUME UInv(p), NEW w \in Workers, HoldsBackup(w)
               PROVE  /\ tree[Backup(from[w])] \in Versions
                      /\ \A x \in Workers \ {w} : ~HoldsBackup(x)
    BY DEF BackupExcludes
  <2>1. from[w] = p BY InPlaceFacts DEF UInv, HoldsBackup
  <2>2. Holds(w) /\ \A x \in Workers : HoldsBackup(x) => Holds(x) BY DEF Holds
  <2> QED BY <2>1, <2>2 DEF UInv, UpdateOK, Exclusive
<1> QED BY <1>1, UpdatesInvariance, PTL

(* An application the user has stays on the disk, complete, through any    *)
(* number of updates in place at once, each failing at any step, and any   *)
(* number of crashes (eam-update.c keeps the old copy until the new one is *)
(* there and linked).                                                      *)
THEOREM UpdatesLoseNothing ==
    ASSUME NEW p, InPlace(p)
    PROVE  Spec => []NeverLost
<1>1. UInv(p) => NeverLost BY DEF UInv
<1> QED BY <1>1, UpdatesInvariance, PTL

=============================================================================

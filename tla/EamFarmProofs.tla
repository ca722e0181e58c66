---------------------------- MODULE EamFarmProofs ----------------------------
(***************************************************************************)
(* The theorems of EamFarm, for any applications, bundles and number of    *)
(* workers.                                                                *)
(***************************************************************************)
EXTENDS EamFarm, TLAPS

Busy(w) == pc[w] # "idle"
Searching(w) == pc[w] \in {"binary", "games", "path"}
Linking(w) == Searching(w) \/ pc[w] \in {"link", "linksub", "clear", "make"}
Pruning(w) == pc[w] \in {"prune", "unlinksub", "prunesub"}

Own(a) == Linked(a, dir[a]) \ (Others(a) \cup FoundAnyway(a))

(* While a worker runs its application has a version.                      *)
BusyOf(w) ==
    Busy(w) =>
       /\ app[w] \in AppIds /\ dir[app[w]] \in Versions
       /\ kind[w] = "update" => new[w] \in Versions

(* It makes and removes links of its own application's names only.         *)
TodoOf(w) ==
    /\ Linking(w) => todo[w] \subseteq In({"top", "sub"}, Files(w))
    /\ pc[w] \in {"clear", "make"} =>
          cur[w] \in Files(w) /\ FarmName(cur[w]) \in Linked(app[w], dir[app[w]])
    /\ Pruning(w) => todo[w] \subseteq PruneNames(Files(w))
    /\ pc[w] = "unlinksub" => AtSub(w)

(* A name that is the application's alone is linked, or still to be.       *)
OwnOf(w) ==
    Linking(w) =>
       \A n \in Own(app[w]) :
          \/ link[n] = app[w] \/ n \in todo[w]
          \/ pc[w] \in {"clear", "make"} /\ n = FarmName(cur[w])
          \/ Searching(w) /\ n = Bin(Program(w))

(* No two workers run for one application. *)
Apart == \A w, x \in Workers : Busy(w) /\ Busy(x) /\ app[w] = app[x] => w = x

(* A link leads to a file; who removes an application's links still has    *)
(* all of them before it, but those it has given up on.  No program's link *)
(* is given up on.                                                         *)
LinksOK ==
    \A n \in Names \ left : link[n] # NoApp =>
       /\ dir[link[n]] \in Versions /\ n \in Linked(link[n], dir[link[n]])
       /\ \A w \in Workers : Pruning(w) /\ app[w] = link[n] => n \in todo[w]

Settled(a) == dir[a] \in Versions /\ \A n \in Own(a) : link[n] = a
GoodOK == \A a \in good : Idle(a) => Settled(a)

WorkersOK == \A w \in Workers : BusyOf(w) /\ TodoOf(w) /\ OwnOf(w)

LeftOK == \A n \in left : n[1] \in {"top", "sub"}

IInv == TypeOK /\ Apart /\ WorkersOK /\ LinksOK /\ LeftOK /\ GoodOK

-----------------------------------------------------------------------------
(* Names. *)

LEMMA SubName == Sub \in BundleNames /\ Sub \in Names /\ Sub[1] = "top" /\ Sub = <<"top", "sub">>
<1>1. Sub[1] = "top" /\ Sub = <<"top", "sub">> BY DEF Sub
<1>2. Sub \in BundleNames BY DEF BundleNames
<1>3. FarmName(Sub) = Sub BY <1>1 DEF FarmName
<1>4. Sub \in Names BY <1>2, <1>3 DEF Names
<1> QED BY <1>1, <1>2, <1>4

LEMMA FarmNames ==
    /\ \A n : n[1] # "games" => FarmName(n) = n
    /\ \A n : n[1] = "games" => FarmName(n) = <<"bin", n[2]>> /\ FarmName(n)[1] = "bin"
    /\ \A n \in BundleNames : FarmName(n) \in Names
    /\ \A a \in AppIds, v \in Versions : Bundle[a][v] \subseteq BundleNames
BY DEF FarmName, Names, BundleNames

(* The names an application can have links under are among those it is     *)
(* pruned by, and all are names of the farm.                               *)
LEMMA NamesOf ==
    ASSUME NEW a \in AppIds, NEW v \in Versions
    PROVE  /\ Linked(a, v) \subseteq PruneNames(Bundle[a][v])
           /\ PruneNames(Bundle[a][v]) \subseteq Names
           /\ In({"top", "sub"}, Bundle[a][v]) \subseteq Linked(a, v)
<1>1. \A n \in In({"top", "sub"}, Bundle[a][v]) : n \in Bundle[a][v] /\ FarmName(n) = n
  BY DEF In, FarmName
<1>2. In({"top", "sub"}, Bundle[a][v]) \subseteq PruneNames(Bundle[a][v])
  BY <1>1 DEF PruneNames
<1>3. PruneNames(Bundle[a][v]) \subseteq Names
  BY FarmNames DEF PruneNames
<1> QED BY <1>2, <1>3 DEF Linked

(* Pruned of what is not its own directory's: the links of the other       *)
(* directories are those of top and sub.                                   *)
LEMMA PrunedFiles ==
    ASSUME NEW a \in AppIds, NEW v \in Versions,
           NEW n \in PruneNames(Bundle[a][v]), n[1] \in {"top", "sub"}
    PROVE  n \in In({"top", "sub"}, Bundle[a][v])
<1>1. PICK m \in Bundle[a][v] : n = FarmName(m) BY DEF PruneNames
<1>2. m[1] # "games"
  <2>1. SUFFICES ASSUME m[1] = "games" PROVE FALSE OBVIOUS
  <2>2. n = <<"bin", m[2]>> BY <1>1, <2>1 DEF FarmName
  <2> QED BY <2>2
<1> QED BY <1>1, <1>2 DEF FarmName, In

(* The program is the one name in bin that an application has a link for.  *)
LEMMA OneProgram ==
    ASSUME NEW a \in AppIds, NEW v \in Versions, NEW n \in Linked(a, v), n[1] = "bin"
    PROVE  n = Bin(Exec[a][v])
BY DEF Linked, In

(* The directories of the farm. *)
LEMMA NameDirs ==
    ASSUME NEW a \in AppIds, NEW v \in Versions, NEW n \in PruneNames(Bundle[a][v])
    PROVE  n[1] \in {"bin", "top", "sub"}
<1>1. PICK m \in Bundle[a][v] : n = FarmName(m) BY DEF PruneNames
<1>2. m[1] \in {"bin", "games", "top", "sub"} BY BundleAssumption
<1>3. CASE m[1] = "games"
  <2>1. n = <<"bin", m[2]>> BY <1>1, <1>3 DEF FarmName
  <2> QED BY <2>1
<1>4. CASE m[1] # "games"
  <2>1. n = m BY <1>1, <1>4 DEF FarmName
  <2> QED BY <2>1, <1>2, <1>4
<1> QED BY <1>3, <1>4

(* What other applications' workers can remove is not one's own. *)
LEMMA OthersRemovable ==
    ASSUME NEW a \in AppIds, NEW b \in AppIds \ {a}, NEW v \in Versions
    PROVE  /\ PruneNames(Bundle[b][v]) \subseteq Others(a)
           /\ In({"sub"}, PruneNames(Bundle[b][v])) # {} => Sub \in Others(a)
<1>1. Removable(Bundle[b][v]) \subseteq Others(a) BY DEF Others
<1>2. \A n \in In({"sub"}, PruneNames(Bundle[b][v])) : n \in In({"sub"}, Bundle[b][v])
  BY PrunedFiles DEF In
<1> QED BY <1>1, <1>2 DEF Removable

-----------------------------------------------------------------------------
(* The names of a busy worker's application. *)
LEMMA FilesOf ==
    ASSUME NEW w \in Workers, BusyOf(w), Busy(w)
    PROVE  /\ app[w] \in AppIds /\ dir[app[w]] \in Versions
           /\ Files(w) = Bundle[app[w]][dir[app[w]]]
           /\ PruneNames(Files(w)) \subseteq Names
           /\ Linked(app[w], dir[app[w]]) \subseteq PruneNames(Files(w))
           /\ In({"top", "sub"}, Files(w)) \subseteq Linked(app[w], dir[app[w]])
           /\ \A n \in Files(w) : FarmName(n) \in PruneNames(Files(w))
<1>1. app[w] \in AppIds /\ dir[app[w]] \in Versions BY DEF BusyOf
<1>2. Files(w) = Bundle[app[w]][dir[app[w]]] BY DEF Files
<1>3. \A n \in Files(w) : FarmName(n) \in PruneNames(Files(w)) BY DEF PruneNames
<1> QED BY <1>1, <1>2, <1>3, NamesOf

-----------------------------------------------------------------------------
LEMMA InitIInv == Init => IInv
<1> SUFFICES ASSUME Init PROVE IInv
  OBVIOUS
<1>1. TypeOK
  <2>1. ops \in 0..MaxOps BY BoundAssumption DEF Init
  <2>2. \A n \in Names : link[n] = NoApp BY DEF Init
  <2>3. /\ dir \in [AppIds -> Versions \cup {"none"}] /\ link \in [Names -> AppIds \cup {NoApp}]
        /\ pc \in [Workers -> Steps] /\ app \in [Workers -> AppIds \cup {NoApp}]
        /\ kind \in [Workers -> {"none", "install", "update", "uninstall"}]
    BY DEF Init, Steps
  <2>4. /\ new \in [Workers -> Versions \cup {"none"}] /\ todo \in [Workers -> SUBSET Names]
        /\ cur \in [Workers -> BundleNames]
    BY SubName DEF Init
  <2>5. sub \in BOOLEAN /\ good \subseteq AppIds /\ left \subseteq Names BY DEF Init
  <2> QED BY <2>1, <2>2, <2>3, <2>4, <2>5, SubName DEF Init, TypeOK
<1>2. Apart /\ WorkersOK
  BY DEF Init, Apart, WorkersOK, BusyOf, TodoOf, OwnOf, Busy, Linking, Searching, Pruning
<1>3. LinksOK /\ LeftOK /\ GoodOK BY DEF Init, LinksOK, LeftOK, GoodOK
<1> QED BY <1>1, <1>2, <1>3 DEF IInv

(* Type correctness, step by step. *)
LEMMA TypeFails ==
    ASSUME IInv, NEW w \in Workers, Busy(w), UNCHANGED <<dir, link, sub, left>>,
           Fails(w) \/ Finish(w, TRUE)
    PROVE  TypeOK'
<1>1. TypeOK /\ BusyOf(w) BY DEF IInv, WorkersOK
<1>2. PruneNames(Files(w)) \subseteq Names /\ app[w] \in AppIds BY <1>1, FilesOf
<1> QED BY <1>1, <1>2, SubName DEF TypeOK, Steps, Fails, Finish, Goto, Leave, task

LEMMA TypeStep ==
    ASSUME IInv, Next
    PROVE  TypeOK'
<1> USE DEF TypeOK, Steps, task
<1>0. TypeOK /\ \A w \in Workers : BusyOf(w) /\ TodoOf(w) BY DEF IInv, WorkersOK
<1>1. ASSUME NEW w \in Workers, NEW a \in AppIds, NEW v \in Versions, Install(w, a, v)
      PROVE  TypeOK'
  <2>1. In({"top", "sub"}, Bundle[a][v]) \subseteq Names BY NamesOf
  <2> QED BY <1>0, <1>1, <2>1, BoundAssumption DEF Install, Begin, Goto, Leave
<1>2. ASSUME NEW w \in Workers, NEW k \in {"update", "uninstall"}, NEW a \in AppIds,
             NEW v \in Versions \cup {"none"}, UnlinkFirst(w, k, a, v)
      PROVE  TypeOK'
  <2>1. dir[a] \in Versions BY <1>0, <1>2 DEF UnlinkFirst
  <2>2. PruneNames(Bundle[a][dir[a]]) \subseteq Names BY <2>1, NamesOf
  <2> QED BY <1>0, <1>2, <2>2, BoundAssumption DEF UnlinkFirst, Begin, Goto, Leave
<1>3. ASSUME NEW w \in Workers, Binary(w) \/ Games(w)
      PROVE  TypeOK'
  <2>1. Busy(w) BY <1>3 DEF Busy, Binary, Games
  <2>2. Files(w) \subseteq BundleNames BY <1>0, <2>1, FilesOf, FarmNames
  <2> QED BY <1>0, <1>3, <2>2 DEF Binary, Games, Try, Goto
<1>4. ASSUME NEW w \in Workers, InPath(w)
      PROVE  TypeOK'
  <2>1. Busy(w) BY <1>4 DEF Busy, InPath
  <2>2. CASE Goto(w, "link") /\ UNCHANGED <<task, todo, cur, good, ops>>
    BY <1>0, <1>4, <2>2 DEF InPath, Goto
  <2>3. CASE Fails(w) BY <1>4, <2>1, <2>3, TypeFails DEF InPath
  <2> QED BY <1>4, <2>2, <2>3 DEF InPath
<1>5. ASSUME NEW w \in Workers, LinkNext(w)
      PROVE  TypeOK'
  <2>1. Busy(w) /\ pc[w] = "link" BY <1>5 DEF Busy, LinkNext
  <2>2. UNCHANGED <<dir, link, left>> BY <1>5 DEF LinkNext
  <2>3. \A n \in In({"top"}, todo[w]) : n \in BundleNames
    BY <1>0, <2>1, FilesOf, FarmNames DEF TodoOf, Linking, In
  <2>4. CASE \E n \in In({"top"}, todo[w]) :
                /\ Goto(w, "clear") /\ cur' = [cur EXCEPT ![w] = n]
                /\ UNCHANGED <<sub, task, todo, good, ops>>
    BY <1>0, <2>2, <2>3, <2>4 DEF Goto
  <2>5. CASE /\ link[Sub] = NoApp /\ sub' = TRUE /\ Goto(w, "linksub")
             /\ UNCHANGED <<task, todo, cur, good, ops>>
    BY <1>0, <2>2, <2>5, SubName DEF Goto
  <2>6. CASE UNCHANGED sub /\ (Fails(w) \/ Finish(w, TRUE))
    BY <2>1, <2>2, <2>6, TypeFails
  <2> QED BY <1>5, <2>4, <2>5, <2>6 DEF LinkNext
<1>6. ASSUME NEW w \in Workers, LinkNextInSub(w)
      PROVE  TypeOK'
  <2>1. Busy(w) /\ pc[w] = "linksub" BY <1>6 DEF Busy, LinkNextInSub
  <2>2. \A n \in In({"sub"}, todo[w]) : n \in BundleNames
    BY <1>0, <2>1, FilesOf, FarmNames DEF TodoOf, Linking, In
  <2> QED BY <1>0, <1>6, <2>2 DEF LinkNextInSub, Goto
<1>7. ASSUME NEW w \in Workers, Clear(w)
      PROVE  TypeOK'
  <2>1. FarmName(cur[w]) \in Names BY <1>0, FarmNames
  <2> QED BY <1>0, <1>7, <2>1 DEF Clear, Unlinked, Goto
<1>8. ASSUME NEW w \in Workers, Make(w)
      PROVE  TypeOK'
  <2> DEFINE n == FarmName(cur[w])
  <2>1. Busy(w) BY <1>8 DEF Busy, Make
  <2>2. n \in Names /\ app[w] \in AppIds BY <1>0, <2>1, FilesOf, FarmNames
  <2> HIDE DEF n
  <2>3. CASE CanMake(n) /\ link' = [link EXCEPT ![n] = app[w]] /\ left' = left \ {n}
             /\ Goto(w, Back(w)) /\ Leave(w, todo[w] \ {cur[w]})
             /\ UNCHANGED <<task, cur, good, ops, dir, sub>>
    BY <1>0, <2>2, <2>3, SubName DEF CanMake, Goto, Leave, Back
  <2>4. CASE UNCHANGED <<link, left, dir, sub>> /\ MakeFailed(w)
    <3>1. CASE Fails(w) BY <2>1, <2>4, <3>1, TypeFails
    <3>2. CASE \E at \in {"games", "path"} : Goto(w, at) /\ UNCHANGED <<task, todo, cur, good, ops>>
      BY <1>0, <2>4, <3>2 DEF Goto
    <3> QED BY <2>4, <3>1, <3>2 DEF MakeFailed
  <2> QED BY <1>8, <2>3, <2>4 DEF Make, n
<1>9. ASSUME NEW w \in Workers, PruneNext(w) \/ UnlinkSub(w)
      PROVE  TypeOK'
  <2>1. UNCHANGED link \/ \E n \in Names : link' = Unlinked(n)
    BY <1>0, <1>9, SubName DEF PruneNext, UnlinkNext, EnterSub, UnlinkSub, GivesUp, In
  <2>2. link' \in [Names -> AppIds \cup {NoApp}] /\ \A n \in Names : link'[n] \in {link[n], NoApp}
    BY <1>0, <2>1 DEF Unlinked
  <2>3. sub' = sub /\ dir' = dir /\ UNCHANGED <<task, cur, good, ops>>
    BY <1>9 DEF PruneNext, UnlinkSub
  <2>4. pc' \in [Workers -> Steps]
    <3>1. pc' = pc \/ \E at \in {"prune", "prunesub", "unlinksub"} : Goto(w, at)
      BY <1>9 DEF PruneNext, UnlinkNext, EnterSub, UnlinkSub, GivesUp
    <3> QED BY <1>0, <3>1 DEF Goto
  <2>5. todo' \in [Workers -> SUBSET Names]
    <3>1. todo' = todo \/ \E s \in SUBSET todo[w] : todo' = [todo EXCEPT ![w] = s]
      BY <1>9 DEF PruneNext, UnlinkNext, EnterSub, UnlinkSub, GivesUp, BeyondSub, Leave, In
    <3> QED BY <1>0, <3>1
  <2>6. left' \subseteq Names
    BY <1>0, <1>9 DEF PruneNext, UnlinkNext, EnterSub, UnlinkSub, GivesUp, In
  <2> QED BY <1>0, <2>2, <2>3, <2>4, <2>5, <2>6, SubName
<1>10. ASSUME NEW w \in Workers, PruneSub(w)
      PROVE  TypeOK'
  <2>0. UNCHANGED <<dir, task, cur, good, ops>> BY <1>10 DEF PruneSub
  <2>1. CASE RmdirSub /\ Goto(w, "prune") /\ UNCHANGED <<link, left, todo>>
    BY <1>0, <2>0, <2>1 DEF RmdirSub, Goto, In
  <2>2. CASE \E n \in In({"sub"}, todo[w]) :
                link' = Unlinked(n) /\ Leave(w, todo[w] \ {n}) /\ UNCHANGED <<pc, sub, left>>
    BY <1>0, <2>0, <2>2 DEF Unlinked, Leave, In
  <2>3. CASE GivesUp(w) /\ UNCHANGED sub
    BY <1>0, <2>0, <2>3 DEF GivesUp, Leave, Goto, In
  <2> QED BY <1>10, <2>1, <2>2, <2>3 DEF PruneSub
<1>11. ASSUME NEW w \in Workers, Pruned(w)
      PROVE  TypeOK'
  <2>1. Busy(w) BY <1>11 DEF Busy, Pruned
  <2>2. app[w] \in AppIds /\ (kind[w] = "update" => new[w] \in Versions)
    BY <1>0, <2>1 DEF BusyOf
  <2>3. kind[w] = "update" => In({"top", "sub"}, Bundle[app[w]][new[w]]) \subseteq Names
    BY <2>2, NamesOf
  <2> QED BY <1>0, <1>11, <2>2, <2>3, SubName DEF Pruned, Finish, Goto, Leave
<1> QED
  BY <1>1, <1>2, <1>3, <1>4, <1>5, <1>6, <1>7, <1>8, <1>9, <1>10, <1>11 DEF Next

-----------------------------------------------------------------------------
(* What a worker's step leaves alone: other workers, their applications,   *)
(* and the names that are theirs alone.                                    *)
Local(w) ==
    /\ app'[w] \in AppIds
    /\ Busy(w) => app'[w] = app[w]
    /\ \A x \in Workers \ {w} :
          /\ pc'[x] = pc[x] /\ app'[x] = app[x] /\ kind'[x] = kind[x] /\ new'[x] = new[x]
          /\ todo'[x] = todo[x] /\ cur'[x] = cur[x]
          /\ Busy(x) => app[x] # app'[w]
    /\ \A a \in AppIds \ {app'[w]} : dir'[a] = dir[a] /\ (a \in good' => a \in good)
    /\ \A n \in Names : link'[n] # link[n] =>
          /\ link'[n] \in {NoApp, app'[w]}
          /\ \A a \in AppIds \ {app'[w]} : n \in Others(a)
    /\ \A n \in left \ left' : link'[n] = app'[w]
    /\ \A n \in left' \ left : n[1] \in {"top", "sub"}

(* What it has to establish for itself. *)
LinksOf(w) ==
    \A n \in Names \ left : link[n] = app[w] =>
       /\ dir[app[w]] \in Versions /\ n \in Linked(app[w], dir[app[w]])
       /\ Pruning(w) => n \in todo[w]
Mine(w) ==
    /\ BusyOf(w) /\ TodoOf(w) /\ OwnOf(w) /\ LinksOf(w)
    /\ app[w] \in good /\ ~Busy(w) => Settled(app[w])

LEMMA Compose ==
    ASSUME IInv, TypeOK', NEW w \in Workers, Local(w), Mine(w)'
    PROVE  IInv'
<1>1. TypeOK /\ Apart /\ WorkersOK /\ LinksOK /\ LeftOK /\ GoodOK BY DEF IInv
<1>2. Apart' BY <1>1 DEF Apart, Local, Busy
<1>3. ASSUME NEW x \in Workers, x # w PROVE (BusyOf(x) /\ TodoOf(x) /\ OwnOf(x))'
  <2>1. CASE ~Busy(x)
    <3>1. pc'[x] = "idle" BY <1>3, <2>1 DEF Local, Busy
    <3> QED BY <3>1 DEF BusyOf, TodoOf, OwnOf, Busy, Linking, Searching, Pruning
  <2>2. CASE Busy(x)
    <3>1. app[x] \in AppIds /\ app'[x] = app[x] /\ app[x] # app'[w]
      BY <1>1, <1>3, <2>2 DEF Local, WorkersOK, BusyOf
    <3>2. dir'[app'[x]] = dir[app[x]] BY <3>1 DEF Local
    <3>3. Files(x)' = Files(x) /\ Program(x)' = Program(x) BY <3>1, <3>2 DEF Files, Program
    <3>4. Own(app[x])' = Own(app[x]) /\ Own(app[x]) \subseteq Names
      <4>1. dir[app[x]] \in Versions BY <1>1, <2>2 DEF WorkersOK, BusyOf
      <4> QED BY <3>1, <3>2, <4>1, NamesOf DEF Own, FoundAnyway
    <3>5. \A n \in Own(app[x]) : link'[n] = link[n]
      BY <3>1, <3>4 DEF Local, Own
    <3>6. BusyOf(x)' BY <1>1, <1>3, <3>1, <3>2 DEF WorkersOK, BusyOf, Busy, Local
    <3>7. TodoOf(x)'
      BY <1>1, <1>3, <3>1, <3>2, <3>3 DEF WorkersOK, TodoOf, AtSub, Linking, Searching, Pruning, Local
    <3>8. OwnOf(x)'
      BY <1>1, <1>3, <3>1, <3>3, <3>4, <3>5 DEF WorkersOK, OwnOf, Linking, Searching, Local
    <3> QED BY <3>6, <3>7, <3>8
  <2> QED BY <2>1, <2>2
<1>4. WorkersOK' BY <1>3 DEF WorkersOK, Mine
<1>5. LinksOK'
  <2> SUFFICES ASSUME NEW n \in Names \ left', link'[n] # NoApp
               PROVE  /\ dir'[link'[n]] \in Versions /\ n \in Linked(link'[n], dir'[link'[n]])
                      /\ \A x \in Workers : Pruning(x)' /\ app'[x] = link'[n] => n \in todo'[x]
    BY DEF LinksOK
  <2>1. CASE link'[n] = app'[w]
    <3>1. \A x \in Workers : Pruning(x)' /\ app'[x] = link'[n] => x = w
      BY <2>1 DEF Local, Pruning, Busy
    <3> QED BY <2>1, <3>1 DEF Mine, LinksOf
  <2>2. CASE link'[n] # app'[w]
    <3>1. link'[n] = link[n] /\ n \notin left BY <2>2 DEF Local
    <3>2. link[n] \in AppIds \ {app'[w]} BY <1>1, <2>2, <3>1 DEF TypeOK
    <3>3. dir'[link[n]] = dir[link[n]] BY <3>2 DEF Local
    <3>4. dir[link[n]] \in Versions /\ n \in Linked(link[n], dir[link[n]])
          /\ \A x \in Workers : Pruning(x) /\ app[x] = link[n] => n \in todo[x]
      BY <1>1, <3>1 DEF LinksOK
    <3>5. \A x \in Workers : Pruning(x)' /\ app'[x] = link'[n] => n \in todo'[x]
      BY <2>2, <3>1, <3>4 DEF Local, Pruning
    <3> QED BY <3>1, <3>3, <3>4, <3>5
  <2> QED BY <2>1, <2>2
<1>6. GoodOK'
  <2> SUFFICES ASSUME NEW a \in good', Idle(a)' PROVE Settled(a)'
    BY DEF GoodOK
  <2>1. CASE a = app'[w]
    <3>1. ~Busy(w)' BY <2>1 DEF Idle, Busy
    <3> QED BY <2>1, <3>1 DEF Mine
  <2>2. CASE a # app'[w]
    <3>1. a \in AppIds \ {app'[w]} BY <2>2 DEF TypeOK
    <3>2. a \in good /\ dir'[a] = dir[a] BY <3>1 DEF Local
    <3>3. Idle(a) BY <2>2 DEF Idle, Local, Busy
    <3>4. Settled(a) BY <1>1, <3>2, <3>3 DEF GoodOK
    <3>5. Own(a) \subseteq Names BY <3>1, <3>4, NamesOf DEF Settled, Own
    <3> QED BY <3>1, <3>2, <3>4, <3>5 DEF Settled, Own, FoundAnyway, Local
  <2> QED BY <2>1, <2>2
<1>7. LeftOK' BY <1>1 DEF LeftOK, Local
<1> QED BY <1>2, <1>4, <1>5, <1>6, <1>7 DEF IInv

-----------------------------------------------------------------------------
(* A worker's step on the links of its own application's names is local.   *)
LEMMA OwnNamesOnly ==
    ASSUME IInv, NEW w \in Workers, Busy(w),
           UNCHANGED <<dir, task>>,
           \A x \in Workers \ {w} : pc'[x] = pc[x] /\ todo'[x] = todo[x] /\ cur'[x] = cur[x],
           good' \subseteq good \cup {app[w]},
           \A n \in left \ left' : link'[n] = app[w],
           \A n \in left' \ left : n[1] \in {"top", "sub"},
           \A n \in Names : link'[n] # link[n] =>
              /\ link'[n] \in {NoApp, app[w]}
              /\ \/ n \in PruneNames(Files(w))
                 \/ n = Sub /\ In({"sub"}, PruneNames(Files(w))) # {}
    PROVE  Local(w)
<1>1. app' = app /\ kind' = kind /\ new' = new BY DEF task
<1>2. app[w] \in AppIds /\ dir[app[w]] \in Versions
      /\ Files(w) = Bundle[app[w]][dir[app[w]]]
  BY FilesOf DEF IInv, WorkersOK
<1>3. \A x \in Workers \ {w} : Busy(x) => app[x] # app[w] BY DEF IInv, Apart
<1>4. \A n \in Names : link'[n] # link[n] => \A a \in AppIds \ {app[w]} : n \in Others(a)
  <2> SUFFICES ASSUME NEW n \in Names, link'[n] # link[n], NEW a \in AppIds \ {app[w]}
               PROVE  n \in Others(a)
    OBVIOUS
  <2>1. app[w] \in AppIds \ {a} BY <1>2
  <2>2. /\ PruneNames(Files(w)) \subseteq Others(a)
        /\ In({"sub"}, PruneNames(Files(w))) # {} => Sub \in Others(a)
    <3>1. \A v \in Versions :
             /\ PruneNames(Bundle[app[w]][v]) \subseteq Others(a)
             /\ In({"sub"}, PruneNames(Bundle[app[w]][v])) # {} => Sub \in Others(a)
      BY <2>1, OthersRemovable
    <3> QED BY <1>2, <3>1
  <2> QED BY <2>2
<1> QED BY <1>1, <1>2, <1>3, <1>4 DEF Local

(* Before a worker's first link its application has none, but those that a *)
(* removal gave up on, and all it is to have are before the worker.        *)
LEMMA BeginsToLink ==
    ASSUME NEW w \in Workers, pc'[w] = "binary", BusyOf(w)',
           todo'[w] = In({"top", "sub"}, Files(w)'),
           \A n \in Names \ left' : link'[n] # app'[w]
    PROVE  Mine(w)'
<1>1. Linked(app'[w], dir'[app'[w]]) =
         In({"top", "sub"}, Files(w)') \cup (PruneNames(Files(w)') \cap {Bin(Program(w)')})
  BY DEF Linked, Files, Program
<1>2. TodoOf(w)' BY DEF TodoOf, Pruning
<1>3. OwnOf(w)' BY <1>1 DEF OwnOf, Own, Searching
<1>4. LinksOf(w)' BY DEF LinksOf
<1> QED BY <1>2, <1>3, <1>4 DEF Mine, Busy

LEMMA InstallStep ==
    ASSUME IInv, NEW w \in Workers, NEW a \in AppIds, NEW v \in Versions, Install(w, a, v)
    PROVE  Local(w) /\ Mine(w)'
<1>0. TypeOK /\ LinksOK BY DEF IInv
<1>1. pc[w] = "idle" /\ app' = [app EXCEPT ![w] = a] /\ kind' = [kind EXCEPT ![w] = "install"]
      /\ new' = [new EXCEPT ![w] = v] /\ pc' = [pc EXCEPT ![w] = "binary"]
      /\ dir[a] = "none" /\ dir' = [dir EXCEPT ![a] = v]
      /\ todo' = [todo EXCEPT ![w] = In({"top", "sub"}, Bundle[a][v])]
      /\ UNCHANGED <<link, sub, cur, good, left>>
      /\ \A x \in Workers : pc[x] # "idle" => app[x] # a
  BY DEF Install, Begin, Goto, Leave
<1>2. Local(w) BY <1>0, <1>1 DEF Local, Busy, TypeOK
<1>3. \A n \in Names \ left : link[n] # a
  BY <1>0, <1>1, NamesAssumption DEF LinksOK
<1>4. app'[w] = a /\ dir'[a] = v /\ pc'[w] = "binary" /\ kind'[w] = "install"
      /\ todo'[w] = In({"top", "sub"}, Bundle[a][v])
  BY <1>0, <1>1 DEF TypeOK
<1>5. Files(w)' = Bundle[a][v] /\ BusyOf(w)' BY <1>4 DEF Files, BusyOf
<1>6. Mine(w)'
  <2>1. todo'[w] = In({"top", "sub"}, Files(w)') BY <1>4, <1>5
  <2>2. \A n \in Names \ left' : link'[n] # app'[w] BY <1>1, <1>3, <1>4
  <2> QED BY <1>4, <1>5, <2>1, <2>2, BeginsToLink
<1> QED BY <1>2, <1>6

LEMMA UnlinkFirstStep ==
    ASSUME IInv, NEW w \in Workers, NEW k \in {"update", "uninstall"}, NEW a \in AppIds,
           NEW v \in Versions \cup {"none"}, k = "update" => v \in Versions,
           UnlinkFirst(w, k, a, v)
    PROVE  Local(w) /\ Mine(w)'
<1>0. TypeOK /\ LinksOK BY DEF IInv
<1>1. pc[w] = "idle" /\ app' = [app EXCEPT ![w] = a] /\ kind' = [kind EXCEPT ![w] = k]
      /\ new' = [new EXCEPT ![w] = v] /\ pc' = [pc EXCEPT ![w] = "prune"]
      /\ todo' = [todo EXCEPT ![w] = PruneNames(Bundle[a][dir[a]])]
      /\ dir[a] # "none" /\ good' = good \ {a}
      /\ UNCHANGED <<link, sub, cur, left, dir>>
      /\ \A x \in Workers : pc[x] # "idle" => app[x] # a
  BY DEF UnlinkFirst, Begin, Goto, Leave
<1>2. Local(w) BY <1>0, <1>1 DEF Local, Busy, TypeOK
<1>3. app'[w] = a /\ pc'[w] = "prune" /\ kind'[w] = k /\ new'[w] = v
      /\ todo'[w] = PruneNames(Bundle[a][dir[a]]) /\ dir[a] \in Versions
  BY <1>0, <1>1 DEF TypeOK
<1>4. Files(w)' = Bundle[a][dir[a]] BY <1>1, <1>3 DEF Files
<1>5. Linked(a, dir[a]) \subseteq PruneNames(Bundle[a][dir[a]]) BY <1>3, NamesOf
<1>6. \A n \in Names \ left : link[n] = a => n \in Linked(a, dir[a])
  BY <1>0, NamesAssumption DEF LinksOK
<1>7. Mine(w)'
  BY <1>1, <1>3, <1>4, <1>5, <1>6
     DEF Mine, BusyOf, TodoOf, OwnOf, LinksOf, Busy, Linking, Searching, Pruning
<1> QED BY <1>2, <1>7

(* What a busy worker knows of its application. *)
LEMMA Known ==
    ASSUME IInv, NEW w \in Workers, Busy(w)
    PROVE  /\ TypeOK /\ BusyOf(w) /\ TodoOf(w) /\ OwnOf(w) /\ LinksOf(w)
           /\ app[w] \in AppIds /\ dir[app[w]] \in Versions
           /\ PruneNames(Files(w)) \subseteq Names
           /\ Linked(app[w], dir[app[w]]) \subseteq PruneNames(Files(w))
<1>1. TypeOK /\ BusyOf(w) /\ TodoOf(w) /\ OwnOf(w) BY DEF IInv, WorkersOK
<1>2. app[w] \in AppIds /\ dir[app[w]] \in Versions BY <1>1 DEF BusyOf
<1>3. LinksOf(w) BY <1>2, NamesAssumption DEF IInv, LinksOK, LinksOf
<1> QED BY <1>1, <1>2, <1>3, FilesOf

(* A link that cannot be made. *)
LEMMA FailsStep ==
    ASSUME IInv, NEW w \in Workers, Busy(w), UNCHANGED <<dir, link, left>>, Fails(w)
    PROVE  Local(w) /\ Mine(w)'
<1>0. TypeOK /\ LinksOf(w) /\ BusyOf(w) /\ Linked(app[w], dir[app[w]]) \subseteq PruneNames(Files(w))
  BY Known
<1>1. UNCHANGED <<dir, link, left, task>> BY DEF Fails, Finish
<1>2. Files(w)' = Files(w) BY <1>1 DEF Files, task
<1>3. CASE kind[w] = "install"
  <2>1. pc' = [pc EXCEPT ![w] = "prune"] /\ todo' = [todo EXCEPT ![w] = PruneNames(Files(w))]
        /\ UNCHANGED <<cur, good>>
    BY <1>3 DEF Fails, Goto, Leave
  <2>2. pc'[w] = "prune" /\ todo'[w] = PruneNames(Files(w)) BY <1>0, <2>1 DEF TypeOK
  <2>3. Local(w) BY <1>1, <2>1, OwnNamesOnly
  <2>4. Mine(w)'
    BY <1>0, <1>1, <1>2, <2>1, <2>2
       DEF Mine, BusyOf, TodoOf, OwnOf, LinksOf, Busy, Linking, Searching, Pruning, task
  <2> QED BY <2>3, <2>4
<1>4. CASE kind[w] # "install"
  <2>1. pc' = [pc EXCEPT ![w] = "idle"] /\ todo' = [todo EXCEPT ![w] = {}]
        /\ cur' = [cur EXCEPT ![w] = Sub] /\ good' = good \ {app[w]}
    BY <1>4 DEF Fails, Finish, Goto, Leave
  <2>2. pc'[w] = "idle" BY <1>0, <2>1 DEF TypeOK
  <2>3. Local(w) BY <1>1, <2>1, OwnNamesOnly
  <2>4. Mine(w)'
    BY <1>0, <1>1, <2>1, <2>2
       DEF Mine, BusyOf, TodoOf, OwnOf, LinksOf, Busy, Linking, Searching, Pruning, task
  <2> QED BY <2>3, <2>4
<1> QED BY <1>3, <1>4

(* A worker that makes links goes on with what it has to do, with nothing  *)
(* but its position and its next file changed; what it has still to link   *)
(* stays so.                                                               *)
LEMMA GoesOn ==
    ASSUME IInv, NEW w \in Workers, Linking(w),
           UNCHANGED <<dir, link, left, task, todo, good>>,
           NEW s \in {"games", "path", "link", "linksub", "clear"}, Goto(w, s),
           \A x \in Workers \ {w} : cur'[x] = cur[x],
           s = "clear" => cur'[w] \in Files(w) /\ FarmName(cur'[w]) \in Linked(app[w], dir[app[w]]),
           \A n \in Own(app[w]) :
              \/ link[n] = app[w] \/ n \in todo[w]
              \/ s = "clear" /\ n = FarmName(cur'[w])
              \/ s \in {"games", "path"} /\ n = Bin(Program(w))
    PROVE  Local(w) /\ Mine(w)'
<1>0. Busy(w) BY DEF Busy, Linking, Searching
<1>1. TypeOK /\ LinksOf(w) /\ BusyOf(w) /\ TodoOf(w)
  BY <1>0, Known
<1>2. todo[w] \subseteq In({"top", "sub"}, Files(w)) BY <1>1 DEF TodoOf
<1>3. pc'[w] = s /\ Files(w)' = Files(w) /\ Program(w)' = Program(w)
      /\ Own(app[w])' = Own(app[w]) /\ app' = app
  BY <1>1 DEF TypeOK, Goto, Files, Program, Own, FoundAnyway, task
<1>4. Local(w)
  <2>1. \A x \in Workers \ {w} : pc'[x] = pc[x] /\ todo'[x] = todo[x] /\ cur'[x] = cur[x]
    BY <1>1 DEF TypeOK, Goto
  <2> QED BY <1>0, <2>1, OwnNamesOnly
<1>5. TodoOf(w)' BY <1>2, <1>3 DEF TodoOf, Pruning
<1>6. OwnOf(w)' BY <1>3 DEF OwnOf, Searching
<1>7. BusyOf(w)' /\ Busy(w)' BY <1>0, <1>1, <1>3 DEF BusyOf, Busy, task
<1>8. LinksOf(w)' BY <1>1, <1>3 DEF LinksOf, Pruning
<1> QED BY <1>4, <1>5, <1>6, <1>7, <1>8 DEF Mine

(* The file that is tried for the program's link. *)
LEMMA TryStep ==
    ASSUME IInv, NEW w \in Workers, NEW d \in {"bin", "games"}, NEW s \in {"games", "path"},
           Searching(w), Try(w, <<d, Program(w)>>, s)
    PROVE  Local(w) /\ Mine(w)'
<1> DEFINE file == <<d, Program(w)>>
<1>0. Busy(w) /\ Linking(w) BY DEF Busy, Linking, Searching
<1>1. /\ TypeOK /\ OwnOf(w) /\ UNCHANGED <<dir, link, left, task, todo, good>>
      /\ Files(w) = Bundle[app[w]][dir[app[w]]]
  BY <1>0, Known DEF Try, Files
<1>2. FarmName(file) = Bin(Program(w)) BY DEF FarmName, Bin
<1>3. \A n \in Own(app[w]) : link[n] = app[w] \/ n \in todo[w] \/ n = Bin(Program(w))
  BY <1>0, <1>1 DEF OwnOf, Searching
<1>4. CASE file \in Files(w)
  <2>1. Goto(w, "clear") /\ cur' = [cur EXCEPT ![w] = file] BY <1>4 DEF Try
  <2>2. cur'[w] = file /\ \A x \in Workers \ {w} : cur'[x] = cur[x] BY <1>1, <2>1 DEF TypeOK
  <2>3. FarmName(file) \in Linked(app[w], dir[app[w]])
    BY <1>1, <1>2, <1>4 DEF Linked, PruneNames, Program
  <2> HIDE DEF file
  <2> QED BY <1>0, <1>1, <1>2, <1>3, <1>4, <2>1, <2>2, <2>3, GoesOn
<1>5. CASE file \notin Files(w)
  <2>1. Goto(w, s) /\ cur' = cur BY <1>5 DEF Try
  <2> QED BY <1>0, <1>1, <1>3, <2>1, GoesOn
<1> QED BY <1>4, <1>5

(* Where PATH has the program, its link is there, is no link of the        *)
(* application's own or is one it can do without.                          *)
LEMMA InPathStep ==
    ASSUME IInv, NEW w \in Workers, InPath(w)
    PROVE  Local(w) /\ Mine(w)'
<1> DEFINE x == Program(w)
<1>0. Busy(w) /\ Linking(w) /\ pc[w] = "path" /\ UNCHANGED <<dir, link, left>>
  BY DEF Busy, Linking, Searching, InPath
<1>1. /\ TypeOK /\ OwnOf(w) /\ LinksOK /\ LeftOK /\ app[w] \in AppIds
  BY <1>0, Known DEF IInv
<1>2. CASE FindProgram(x) /\ Goto(w, "link") /\ UNCHANGED <<task, todo, cur, good, ops>>
  <2>1. ASSUME Bin(x) \in Own(app[w]) PROVE link[Bin(x)] = app[w]
    <3>1. x \notin SystemPrograms BY <2>1 DEF Own, FoundAnyway, Program
    <3>2. Bin(x) \in Names /\ link[Bin(x)] # NoApp BY <1>2, <3>1 DEF FindProgram
    <3>3. Bin(x) \notin left BY <1>1 DEF LeftOK, Bin
    <3>4. /\ link[Bin(x)] \in AppIds /\ dir[link[Bin(x)]] \in Versions
          /\ Bin(x) \in Linked(link[Bin(x)], dir[link[Bin(x)]])
      BY <1>1, <3>2, <3>3 DEF TypeOK, LinksOK
    <3>5. Bin(x) \in PruneNames(Bundle[link[Bin(x)]][dir[link[Bin(x)]]]) BY <3>4, NamesOf
    <3>6. link[Bin(x)] # app[w] => Bin(x) \in Others(app[w]) BY <1>1, <3>4, <3>5, OthersRemovable
    <3> QED BY <2>1, <3>6 DEF Own
  <2>2. \A n \in Own(app[w]) : link[n] = app[w] \/ n \in todo[w]
    BY <1>0, <1>1, <2>1 DEF OwnOf, Searching
  <2> HIDE DEF x
  <2> QED BY <1>0, <1>2, <2>2, GoesOn
<1>3. CASE Fails(w) BY <1>0, <1>3, FailsStep
<1> QED BY <1>2, <1>3 DEF InPath

(* The next file in the shared directories. *)
LEMMA NextFile ==
    ASSUME IInv, NEW w \in Workers, pc[w] \in {"link", "linksub"},
           UNCHANGED <<dir, link, left, task, todo, good>>, Goto(w, "clear"),
           \E n \in In({"top", "sub"}, todo[w]) : cur' = [cur EXCEPT ![w] = n]
    PROVE  Local(w) /\ Mine(w)'
<1>0. Busy(w) /\ Linking(w) BY DEF Busy, Linking
<1>1. /\ TypeOK /\ TodoOf(w) /\ OwnOf(w)
      /\ In({"top", "sub"}, Files(w)) \subseteq Linked(app[w], dir[app[w]])
  BY <1>0, Known, FilesOf
<1>2. PICK n \in In({"top", "sub"}, todo[w]) : cur' = [cur EXCEPT ![w] = n] OBVIOUS
<1>3. cur'[w] = n /\ \A x \in Workers \ {w} : cur'[x] = cur[x] BY <1>1, <1>2 DEF TypeOK
<1>4. n \in In({"top", "sub"}, Files(w)) BY <1>0, <1>1, <1>2 DEF TodoOf, In
<1>5. n \in Files(w) /\ FarmName(n) = n BY <1>4, FarmNames DEF In
<1>6. FarmName(n) \in Linked(app[w], dir[app[w]]) BY <1>1, <1>4, <1>5
<1>7. \A m \in Own(app[w]) : link[m] = app[w] \/ m \in todo[w]
  BY <1>0, <1>1 DEF OwnOf, Searching
<1> QED BY <1>0, <1>3, <1>5, <1>6, <1>7, GoesOn

LEMMA NextDirectory ==
    ASSUME IInv, NEW w \in Workers, pc[w] \in {"link", "linksub"},
           UNCHANGED <<dir, link, left, task, todo, cur, good>>,
           NEW s \in {"link", "linksub"}, Goto(w, s)
    PROVE  Local(w) /\ Mine(w)'
<1>0. Busy(w) /\ Linking(w) BY DEF Busy, Linking
<1>1. \A m \in Own(app[w]) : link[m] = app[w] \/ m \in todo[w]
  BY <1>0, Known DEF OwnOf, Searching
<1> QED BY <1>0, <1>1, GoesOn

LEMMA LinkNextStep ==
    ASSUME IInv, NEW w \in Workers, LinkNext(w)
    PROVE  Local(w) /\ Mine(w)'
<1>0. pc[w] = "link" /\ Busy(w) /\ UNCHANGED <<dir, link, left>> BY DEF LinkNext, Busy
<1>1. CASE \E n \in In({"top"}, todo[w]) :
              /\ Goto(w, "clear") /\ cur' = [cur EXCEPT ![w] = n]
              /\ UNCHANGED <<sub, task, todo, good, ops>>
  <2>1. In({"top"}, todo[w]) \subseteq In({"top", "sub"}, todo[w]) BY DEF In
  <2> QED BY <1>0, <1>1, <2>1, NextFile
<1>2. CASE Goto(w, "linksub") /\ UNCHANGED <<task, todo, cur, good, ops>>
  BY <1>0, <1>2, NextDirectory
<1>3. CASE Fails(w) BY <1>0, <1>3, FailsStep
<1>4. CASE todo[w] = {} /\ Finish(w, TRUE)
  <2>1. TypeOK /\ LinksOf(w) /\ OwnOf(w) /\ BusyOf(w) BY <1>0, Known
  <2>2. Local(w)
    <3>1. UNCHANGED task /\ pc' = [pc EXCEPT ![w] = "idle"] /\ todo' = [todo EXCEPT ![w] = {}]
          /\ cur' = [cur EXCEPT ![w] = Sub]
      BY <1>4 DEF Finish, Goto, Leave
    <3>2. good' \subseteq good \cup {app[w]} BY <1>4 DEF Finish
    <3> QED BY <1>0, <3>1, <3>2, OwnNamesOnly
  <2>3. pc'[w] = "idle" /\ UNCHANGED task BY <1>4, <2>1 DEF TypeOK, Finish, Goto
  <2>4. \A n \in Own(app[w]) : link[n] = app[w]
    BY <1>0, <1>4, <2>1 DEF OwnOf, Linking, Searching
  <2>5. Mine(w)'
    BY <1>0, <2>1, <2>3, <2>4
       DEF Mine, BusyOf, TodoOf, OwnOf, LinksOf, Settled, Own, FoundAnyway,
           Busy, Linking, Searching, Pruning, task
  <2> QED BY <2>2, <2>5
<1> QED BY <1>1, <1>2, <1>3, <1>4 DEF LinkNext

LEMMA LinkNextInSubStep ==
    ASSUME IInv, NEW w \in Workers, LinkNextInSub(w)
    PROVE  Local(w) /\ Mine(w)'
<1>0. pc[w] = "linksub" /\ UNCHANGED <<dir, link, left, task, todo, good>> BY DEF LinkNextInSub
<1>1. In({"sub"}, todo[w]) \subseteq In({"top", "sub"}, todo[w]) BY DEF In
<1>2. CASE \E n \in In({"sub"}, todo[w]) : Goto(w, "clear") /\ cur' = [cur EXCEPT ![w] = n]
  BY <1>0, <1>1, <1>2, NextFile
<1>3. CASE Goto(w, "link") /\ UNCHANGED cur BY <1>0, <1>3, NextDirectory
<1> QED BY <1>2, <1>3 DEF LinkNextInSub

LEMMA ClearStep ==
    ASSUME IInv, NEW w \in Workers, Clear(w)
    PROVE  Local(w) /\ Mine(w)'
<1> DEFINE n == FarmName(cur[w])
<1>0. pc[w] = "clear" /\ Busy(w) BY DEF Clear, Busy
<1>1. /\ TypeOK /\ LinksOf(w) /\ BusyOf(w) /\ TodoOf(w) /\ OwnOf(w) /\ app[w] \in AppIds
      /\ n \in PruneNames(Files(w)) /\ n \in Names
  BY <1>0, Known DEF TodoOf
<1>2. UNCHANGED <<dir, sub, task, todo, cur, good, left>> /\ pc' = [pc EXCEPT ![w] = "make"]
      /\ link' = [link EXCEPT ![n] = NoApp]
  BY DEF Clear, Goto, Unlinked
<1>3. pc'[w] = "make" /\ Files(w)' = Files(w) /\ Own(app[w])' = Own(app[w])
  BY <1>1, <1>2 DEF TypeOK, Files, Own, FoundAnyway, task
<1> HIDE DEF n
<1>4. \A m \in Names : link'[m] = IF m = n THEN NoApp ELSE link[m] BY <1>1, <1>2 DEF TypeOK
<1>5. Local(w)
  <2>1. \A m \in Names : link'[m] # link[m] => link'[m] = NoApp /\ m = n BY <1>4
  <2> QED BY <1>0, <1>1, <1>2, <2>1, OwnNamesOnly
<1>6. Own(app[w]) \subseteq Names BY <1>0, Known DEF Own
<1>7. TodoOf(w)' /\ BusyOf(w)' /\ LinksOf(w)' /\ Busy(w)'
  BY <1>0, <1>1, <1>2, <1>3, <1>4, NamesAssumption
     DEF BusyOf, TodoOf, LinksOf, Busy, Linking, Searching, Pruning, task
<1>8. OwnOf(w)'
  BY <1>0, <1>1, <1>2, <1>3, <1>4, <1>6 DEF OwnOf, Linking, Searching, task, n
<1> QED BY <1>5, <1>7, <1>8 DEF Mine

LEMMA MakeStep ==
    ASSUME IInv, NEW w \in Workers, Make(w)
    PROVE  Local(w) /\ Mine(w)'
<1> DEFINE n == FarmName(cur[w])
<1>0. pc[w] = "make" /\ Busy(w) /\ Linking(w) /\ UNCHANGED <<dir, sub>>
  BY DEF Make, Busy, Linking
<1>1. /\ TypeOK /\ LinksOf(w) /\ BusyOf(w) /\ TodoOf(w) /\ OwnOf(w) /\ app[w] \in AppIds
      /\ n \in PruneNames(Files(w)) /\ n \in Names /\ dir[app[w]] \in Versions
      /\ n \in Linked(app[w], dir[app[w]]) /\ cur[w] \in Files(w)
      /\ todo[w] \subseteq In({"top", "sub"}, Files(w))
  BY <1>0, Known DEF TodoOf
<1>2. CASE UNCHANGED <<link, left>> /\ Fails(w) BY <1>0, <1>2, FailsStep
<1>3. ASSUME UNCHANGED <<link, left, task, todo, cur, good, ops>>,
             NEW s \in {"games", "path"}, Goto(w, s), cur[w][1] \in {"bin", "games"}
      PROVE  Local(w) /\ Mine(w)'
  <2>1. n[1] = "bin" BY <1>3, FarmNames
  <2>2. n = Bin(Program(w)) BY <1>1, <2>1, OneProgram DEF Program
  <2>3. \A m \in Own(app[w]) : link[m] = app[w] \/ m \in todo[w] \/ m = Bin(Program(w))
    BY <1>0, <1>1, <2>2 DEF OwnOf, Searching
  <2> QED BY <1>0, <1>3, <2>3, GoesOn
<1>4. ASSUME NEW s \in {"link", "linksub"}, Goto(w, s),
             link' = [link EXCEPT ![n] = app[w]], left' = left \ {n},
             Leave(w, todo[w] \ {cur[w]}), UNCHANGED <<task, cur, good, ops>>
      PROVE  Local(w) /\ Mine(w)'
  <2>1. pc'[w] = s /\ Files(w)' = Files(w) /\ todo'[w] = todo[w] \ {cur[w]}
        /\ Own(app[w])' = Own(app[w])
    BY <1>0, <1>1, <1>4 DEF TypeOK, Goto, Leave, Files, Own, FoundAnyway, task
  <2> HIDE DEF n
  <2>2. \A m \in Names : link'[m] = IF m = n THEN app[w] ELSE link[m]
    BY <1>1, <1>4 DEF TypeOK
  <2>3. Local(w)
    <3>1. \A m \in left \ left' : link'[m] = app[w] BY <1>1, <1>4, <2>2 DEF TypeOK
    <3>2. \A m \in Names : link'[m] # link[m] => link'[m] = app[w] /\ m \in PruneNames(Files(w))
      BY <1>1, <2>2
    <3>3. \A x \in Workers \ {w} : pc'[x] = pc[x] /\ todo'[x] = todo[x] /\ cur'[x] = cur[x]
      BY <1>1, <1>4 DEF TypeOK, Goto, Leave
    <3> QED BY <1>0, <1>1, <1>4, <3>1, <3>2, <3>3, OwnNamesOnly
  <2>4. Own(app[w]) \subseteq Names BY <1>0, Known DEF Own
  <2>5. TodoOf(w)' /\ BusyOf(w)' /\ LinksOf(w)' /\ Busy(w)'
    BY <1>0, <1>1, <1>4, <2>1, <2>2
       DEF BusyOf, TodoOf, LinksOf, Busy, Linking, Searching, Pruning, task
  <2>6. cur[w] \in todo[w] => n = cur[w] BY <1>1, FarmNames DEF In, n
  <2>7. OwnOf(w)'
    <3>1. \A m \in Own(app[w]) : link'[m] = app[w] \/ m \in todo'[w]
      <4> SUFFICES ASSUME NEW m \in Own(app[w]), m # n PROVE link'[m] = app[w] \/ m \in todo'[w]
        BY <1>1, <2>2
      <4>1. link[m] = app[w] \/ m \in todo[w] BY <1>0, <1>1 DEF OwnOf, Searching, n
      <4> QED BY <2>1, <2>2, <2>4, <2>6, <4>1
    <3> QED BY <1>4, <2>1, <3>1 DEF OwnOf, task
  <2> QED BY <2>3, <2>5, <2>7 DEF Mine
<1>5. Back(w) \in {"link", "linksub"} BY DEF Back
<1>6. CASE UNCHANGED <<link, left>> /\ MakeFailed(w) BY <1>2, <1>3, <1>6 DEF MakeFailed
<1> QED BY <1>4, <1>5, <1>6 DEF Make

(* A worker that removes links goes to s with the names rest, having taken *)
(* at most the link of n: those it has not removed are still before it, or *)
(* it has given up on them.                                                *)
GoesTo(w, s, rest, n) ==
    /\ UNCHANGED <<dir, task, cur, good>>
    /\ s \in {"prune", "unlinksub", "prunesub"} /\ pc' = [pc EXCEPT ![w] = s]
    /\ s = "unlinksub" => rest = todo[w] /\ AtSub(w)
    /\ rest \subseteq todo[w] /\ todo' = [todo EXCEPT ![w] = rest]
    /\ n \in Names /\ link' \in {link, Unlinked(n)}
    /\ \/ n \in PruneNames(Files(w))
       \/ n = Sub /\ In({"sub"}, PruneNames(Files(w))) # {}
    /\ left \subseteq left' /\ \A m \in left' \ left : m[1] \in {"top", "sub"}
    /\ \A m \in todo[w] \ left' : link'[m] = app[w] => m \in rest

LEMMA Prunes ==
    ASSUME IInv, NEW w \in Workers, Pruning(w), NEW s, NEW rest, NEW n, GoesTo(w, s, rest, n)
    PROVE  Local(w) /\ Mine(w)'
<1> USE DEF GoesTo
<1>0. Busy(w) BY DEF Busy, Pruning
<1>1. /\ TypeOK /\ LinksOf(w) /\ BusyOf(w) /\ TodoOf(w) /\ app[w] \in AppIds
  BY <1>0, Known
<1>2. pc'[w] = s /\ todo'[w] = rest /\ Files(w)' = Files(w) BY <1>1 DEF TypeOK, Files, task
<1>3. \A m \in Names : link'[m] # link[m] => m = n /\ link'[m] = NoApp
  BY <1>1 DEF TypeOK, Unlinked
<1>4. Local(w) BY <1>0, <1>3, OwnNamesOnly
<1>5. \A m \in Names : link'[m] = app[w] => link[m] = app[w]
  BY <1>1, <1>3, NamesAssumption
<1>6. Mine(w)'
  BY <1>0, <1>1, <1>2, <1>5
     DEF Mine, BusyOf, TodoOf, AtSub, OwnOf, LinksOf, Busy, Linking, Searching, Pruning, task
<1> QED BY <1>4, <1>6

(* What a worker that removes links has before it. *)
LEMMA PruningKnown ==
    ASSUME IInv, NEW w \in Workers, Pruning(w)
    PROVE  /\ Busy(w) /\ TypeOK /\ app[w] \in AppIds
           /\ Files(w) = Bundle[app[w]][dir[app[w]]] /\ dir[app[w]] \in Versions
           /\ PruneNames(Files(w)) \subseteq Names
           /\ \A n \in todo[w] :
                 /\ n \in PruneNames(Files(w)) /\ n \in Names
                 /\ n[1] \in {"bin", "top", "sub"}
           /\ [pc EXCEPT ![w] = pc[w]] = pc /\ [todo EXCEPT ![w] = todo[w]] = todo
<1>1. Busy(w) BY DEF Busy, Pruning
<1>2. /\ TypeOK /\ TodoOf(w) /\ app[w] \in AppIds /\ dir[app[w]] \in Versions
      /\ PruneNames(Files(w)) \subseteq Names /\ Files(w) = Bundle[app[w]][dir[app[w]]]
  BY <1>1, Known DEF Files
<1>3. todo[w] \subseteq PruneNames(Files(w)) BY <1>2 DEF TodoOf
<1>4. \A n \in PruneNames(Files(w)) : n[1] \in {"bin", "top", "sub"} BY <1>2, NameDirs
<1>5. [pc EXCEPT ![w] = pc[w]] = pc /\ [todo EXCEPT ![w] = todo[w]] = todo BY <1>2 DEF TypeOK
<1> QED BY <1>1, <1>2, <1>3, <1>4, <1>5

LEMMA GivesUpStep ==
    ASSUME IInv, NEW w \in Workers, Pruning(w), GivesUp(w), todo[w] # {},
           UNCHANGED <<dir, task, cur, good>>
    PROVE  Local(w) /\ Mine(w)'
<1>1. PICK n \in todo[w] : TRUE OBVIOUS
<1>2. n \in Names /\ n \in PruneNames(Files(w)) BY PruningKnown
<1>3. In({"bin"}, todo[w]) \subseteq todo[w] BY DEF In
<1>4. left \subseteq left' /\ \A m \in left' \ left : m[1] \in {"top", "sub"} BY DEF GivesUp, In
<1>5. ASSUME NEW m \in todo[w] \ left', link'[m] = app[w] PROVE m \in In({"bin"}, todo[w])
  <2>1. m[1] \in {"bin", "top", "sub"} BY PruningKnown
  <2>2. m[1] \notin {"top", "sub"} BY <1>5 DEF GivesUp, In
  <2> QED BY <2>1, <2>2 DEF In
<1>6. GoesTo(w, "prune", In({"bin"}, todo[w]), n)
  BY <1>2, <1>3, <1>4, <1>5 DEF GoesTo, GivesUp, Goto, Leave
<1> QED BY <1>6, Prunes

(* A name is done with. *)
LEMMA UnlinksName ==
    ASSUME IInv, NEW w \in Workers, pc[w] \in {"prune", "prunesub"},
           NEW n \in todo[w], link' = Unlinked(n),
           Leave(w, todo[w] \ {n}), UNCHANGED <<pc, left, dir, task, cur, good>>
    PROVE  Local(w) /\ Mine(w)'
<1>0. Pruning(w) BY DEF Pruning
<1>1. n \in PruneNames(Files(w)) /\ n \in Names BY <1>0, PruningKnown
<1>2. link'[n] = NoApp /\ app[w] # NoApp
  BY <1>0, <1>1, PruningKnown, NamesAssumption DEF Unlinked, TypeOK
<1>3. \A m \in todo[w] \ left' : link'[m] = app[w] => m \in todo[w] \ {n} BY <1>2
<1>4. pc' = [pc EXCEPT ![w] = pc[w]] BY <1>0, PruningKnown
<1>5. GoesTo(w, pc[w], todo[w] \ {n}, n) BY <1>1, <1>3, <1>4 DEF GoesTo, Leave
<1> QED BY <1>0, <1>5, Prunes

(* Where the subdirectory's name is a link, or nothing, there is none to   *)
(* be removed beyond it.                                                   *)
LEMMA PassesSub ==
    ASSUME IInv, NEW w \in Workers, Pruning(w), AtSub(w), ~sub, link' \in {link, Unlinked(Sub)},
           link'[Sub] = NoApp, Leave(w, BeyondSub(w)), Goto(w, "prune"),
           UNCHANGED <<left, dir, task, cur, good>>
    PROVE  Local(w) /\ Mine(w)'
<1>1. TypeOK /\ app[w] # NoApp BY PruningKnown, NamesAssumption
<1>2. Sub \in PruneNames(Files(w)) \/ In({"sub"}, PruneNames(Files(w))) # {}
  BY PruningKnown DEF AtSub, In
<1>3. ASSUME NEW m \in todo[w], link'[m] = app[w] PROVE m \in BeyondSub(w)
  <2>1. m # Sub BY <1>1, <1>3
  <2>2. m \in Names BY PruningKnown
  <2>3. link'[m] = link[m] BY <1>1, <2>1, <2>2 DEF Unlinked, TypeOK
  <2>4. m[1] # "sub" BY <1>1, <1>3, <2>2, <2>3 DEF TypeOK
  <2> QED BY <2>1, <2>4 DEF BeyondSub, In
<1>4. BeyondSub(w) \subseteq todo[w] BY DEF BeyondSub
<1>5. GoesTo(w, "prune", BeyondSub(w), Sub)
  BY <1>2, <1>3, <1>4, SubName DEF GoesTo, Goto, Leave
<1> QED BY <1>5, Prunes

(* Nothing is removed on the way to the subdirectory or back. *)
LEMMA Moves ==
    ASSUME IInv, NEW w \in Workers, Pruning(w), NEW s \in {"prune", "unlinksub", "prunesub"},
           s = "unlinksub" => AtSub(w),
           Goto(w, s), UNCHANGED <<link, left, todo, dir, task, cur, good>>
    PROVE  Local(w) /\ Mine(w)'
<1>0. Busy(w) BY DEF Busy, Pruning
<1>1. Local(w) BY <1>0, OwnNamesOnly DEF Goto
<1>2. pc'[w] = s /\ Files(w)' = Files(w) BY <1>0, Known DEF TypeOK, Goto, Files, task
<1>3. Mine(w)'
  BY <1>0, <1>2, Known
     DEF Mine, BusyOf, TodoOf, AtSub, OwnOf, LinksOf, Busy, Linking, Searching, Pruning, task
<1> QED BY <1>1, <1>3

LEMMA PruneNextStep ==
    ASSUME IInv, NEW w \in Workers, PruneNext(w)
    PROVE  Local(w) /\ Mine(w)'
<1>0. pc[w] = "prune" /\ Pruning(w) /\ UNCHANGED <<dir, sub, task, cur, good, ops>>
  BY DEF PruneNext, Pruning
<1>1. CASE UnlinkNext(w)
  <2>1. \A n \in In({"bin", "top"}, todo[w]) \ {Sub} : n \in todo[w] BY DEF In
  <2> QED BY <1>0, <1>1, <2>1, UnlinksName DEF UnlinkNext
<1>2. CASE EnterSub(w)
  <2>1. AtSub(w) /\ todo[w] # {} BY <1>2 DEF EnterSub, AtSub, In
  <2>2. CASE link[Sub] = NoApp /\ ~sub /\ Leave(w, BeyondSub(w)) /\ UNCHANGED <<link, left, pc>>
    <3>1. Goto(w, "prune") BY <1>0, <2>2, PruningKnown DEF Goto
    <3> QED BY <1>0, <2>1, <2>2, <3>1, PassesSub
  <2>3. CASE GivesUp(w) BY <1>0, <2>1, <2>3, GivesUpStep
  <2>4. ASSUME NEW s \in {"unlinksub", "prunesub"}, Goto(w, s), UNCHANGED <<link, left, todo>>
        PROVE  Local(w) /\ Mine(w)'
    BY <1>0, <2>1, <2>4, Moves
  <2> QED BY <1>2, <2>2, <2>3, <2>4 DEF EnterSub
<1> QED BY <1>1, <1>2 DEF PruneNext

LEMMA UnlinkSubStep ==
    ASSUME IInv, NEW w \in Workers, UnlinkSub(w)
    PROVE  Local(w) /\ Mine(w)'
<1>0. pc[w] = "unlinksub" /\ Pruning(w) /\ UNCHANGED <<dir, sub, task, cur, good, ops>>
      /\ AtSub(w) /\ todo[w] # {} /\ TypeOK
  BY DEF UnlinkSub, Pruning, AtSub, In, IInv, WorkersOK, TodoOf
<1>1. CASE GivesUp(w) BY <1>0, <1>1, GivesUpStep
<1>2. CASE ~sub /\ link' = Unlinked(Sub) /\ Leave(w, BeyondSub(w)) /\ Goto(w, "prune")
           /\ UNCHANGED left
  <2>1. link'[Sub] = NoApp BY <1>0, <1>2, SubName DEF Unlinked, TypeOK
  <2> QED BY <1>0, <1>2, <2>1, PassesSub
<1> QED BY <1>1, <1>2 DEF UnlinkSub

LEMMA PruneSubStep ==
    ASSUME IInv, NEW w \in Workers, PruneSub(w)
    PROVE  Local(w) /\ Mine(w)'
<1>0. pc[w] = "prunesub" /\ Pruning(w) /\ UNCHANGED <<dir, task, cur, good, ops>>
  BY DEF PruneSub, Pruning
<1>1. \A n \in In({"sub"}, todo[w]) : n \in todo[w] BY DEF In
<1>2. CASE /\ \E n \in In({"sub"}, todo[w]) : link' = Unlinked(n) /\ Leave(w, todo[w] \ {n})
           /\ UNCHANGED <<pc, sub, left>>
  BY <1>0, <1>1, <1>2, UnlinksName
<1>3. CASE In({"sub"}, todo[w]) # {} /\ GivesUp(w)
  BY <1>0, <1>1, <1>3, GivesUpStep
<1>4. CASE Goto(w, "prune") /\ UNCHANGED <<link, left, todo>>
  BY <1>0, <1>4, Moves
<1> QED BY <1>2, <1>3, <1>4 DEF PruneSub

LEMMA PrunedStep ==
    ASSUME IInv, NEW w \in Workers, Pruned(w)
    PROVE  Local(w) /\ Mine(w)'
<1>0. pc[w] = "prune" /\ todo[w] = {} /\ Pruning(w) /\ Busy(w) /\ UNCHANGED <<link, sub, left, task>>
  BY DEF Pruned, Pruning, Busy, Finish
<1>1. TypeOK /\ BusyOf(w) /\ LinksOf(w) /\ app[w] \in AppIds BY <1>0, Known
<1>2. \A n \in Names \ left : link[n] # app[w] BY <1>0, <1>1 DEF LinksOf
<1>3. \A x \in Workers \ {w} : Busy(x) => app[x] # app[w] BY <1>0 DEF IInv, Apart
<1>4. CASE kind[w] = "update"
  <2>1. /\ dir' = [dir EXCEPT ![app[w]] = new[w]] /\ pc' = [pc EXCEPT ![w] = "binary"]
        /\ todo' = [todo EXCEPT ![w] = In({"top", "sub"}, Bundle[app[w]][new[w]])]
        /\ UNCHANGED <<cur, good>>
    BY <1>4 DEF Pruned, Goto, Leave
  <2>2. pc'[w] = "binary" /\ dir'[app[w]] = new[w] /\ new[w] \in Versions
        /\ todo'[w] = In({"top", "sub"}, Bundle[app[w]][new[w]])
    BY <1>0, <1>1, <1>4, <2>1 DEF TypeOK, BusyOf
  <2>3. Local(w) BY <1>0, <1>1, <1>3, <2>1 DEF Local, task, TypeOK
  <2>4. app' = app /\ new' = new BY <1>0 DEF task
  <2>5. Files(w)' = Bundle[app[w]][new[w]] /\ BusyOf(w)'
    BY <1>0, <1>1, <2>2, <2>4 DEF Files, BusyOf
  <2>6. todo'[w] = In({"top", "sub"}, Files(w)') BY <2>2, <2>5
  <2>7. \A n \in Names \ left' : link'[n] # app'[w] BY <1>0, <1>2, <2>4
  <2>8. Mine(w)' BY <2>2, <2>5, <2>6, <2>7, BeginsToLink
  <2> QED BY <2>3, <2>8
<1>5. CASE kind[w] # "update"
  <2>1. /\ dir' = [dir EXCEPT ![app[w]] = "none"] /\ pc' = [pc EXCEPT ![w] = "idle"]
        /\ todo' = [todo EXCEPT ![w] = {}] /\ cur' = [cur EXCEPT ![w] = Sub]
        /\ good' = good \ {app[w]}
    BY <1>5 DEF Pruned, Goto, Finish, Leave
  <2>2. pc'[w] = "idle" BY <1>1, <2>1 DEF TypeOK
  <2>3. Local(w) BY <1>0, <1>1, <1>3, <2>1 DEF Local, task, TypeOK
  <2>4. Mine(w)'
    BY <1>0, <1>1, <1>2, <2>1, <2>2
       DEF Mine, BusyOf, TodoOf, OwnOf, LinksOf, Busy, Linking, Searching, Pruning, task
  <2> QED BY <2>3, <2>4
<1> QED BY <1>4, <1>5

-----------------------------------------------------------------------------
(* The subdirectory is there for something: a link in it, a worker that    *)
(* makes or removes one there, or an application whose update has left its *)
(* links half made, and whose next transaction will remove them.           *)
Keeps(w) ==
    \/ pc[w] = "linksub" /\ In({"sub"}, todo[w]) # {}
    \/ pc[w] \in {"clear", "make"} /\ cur[w][1] = "sub"
    \/ pc[w] = "prune" /\ In({"sub"}, todo[w]) # {}
    \/ pc[w] = "prunesub"
HalfMade(a) ==
    Idle(a) /\ a \notin good /\ dir[a] \in Versions /\ In({"sub"}, Bundle[a][dir[a]]) # {}
LinkInSub == \E n \in In({"sub"}, Names) : link[n] # NoApp

SubUsed ==
    sub => LinkInSub \/ (\E w \in Workers : Keeps(w)) \/ (\E a \in AppIds : HalfMade(a))

(* A worker sees to that for itself. *)
UsedBy(w) == LinkInSub \/ Keeps(w) \/ HalfMade(app[w])
Hands(w) ==
    sub' => /\ sub \/ Keeps(w)'
            /\ LinkInSub \/ Keeps(w) \/ HalfMade(app'[w]) => UsedBy(w)'

LEMMA SubCompose ==
    ASSUME IInv, SubUsed, NEW w \in Workers, Local(w), Hands(w)
    PROVE  SubUsed'
<1> SUFFICES ASSUME sub'
             PROVE  (LinkInSub \/ (\E x \in Workers : Keeps(x)) \/ (\E a \in AppIds : HalfMade(a)))'
  BY DEF SubUsed
<1>0. app'[w] \in AppIds BY DEF Local
<1>1. CASE UsedBy(w)' BY <1>0, <1>1 DEF UsedBy
<1>2. CASE \E x \in Workers \ {w} : Keeps(x)
  <2>1. PICK x \in Workers \ {w} : Keeps(x) BY <1>2
  <2>2. Keeps(x)' BY <2>1 DEF Keeps, Local
  <2> QED BY <2>2
<1>3. CASE \E a \in AppIds \ {app'[w]} : HalfMade(a)
  <2>1. PICK a \in AppIds \ {app'[w]} : HalfMade(a) BY <1>3
  <2>2. Idle(a)' BY <2>1 DEF HalfMade, Idle, Local
  <2>3. dir'[a] = dir[a] /\ a \notin good' BY <2>1 DEF HalfMade, Local
  <2>4. HalfMade(a)' BY <2>1, <2>2, <2>3 DEF HalfMade
  <2> QED BY <2>4
<1>4. CASE ~sub BY <1>0, <1>4 DEF Hands, UsedBy
<1>5. CASE LinkInSub \/ Keeps(w) \/ HalfMade(app'[w]) BY <1>1, <1>5 DEF Hands
<1> QED BY <1>2, <1>3, <1>4, <1>5 DEF SubUsed

(* While a worker runs its application is nobody else's, so its files are  *)
(* not half made for anyone.                                               *)
LEMMA BusyNotHalf ==
    ASSUME NEW w \in Workers, Busy(w)
    PROVE  ~HalfMade(app[w])
BY DEF HalfMade, Idle, Busy

(* A name in the subdirectory that a worker has in hand is its files'. *)
LEMMA SubOfFiles ==
    ASSUME NEW a \in AppIds, NEW v \in Versions, NEW n \in PruneNames(Bundle[a][v]), n[1] = "sub"
    PROVE  n \in In({"sub"}, Bundle[a][v])
<1>1. n \in In({"top", "sub"}, Bundle[a][v]) BY PrunedFiles
<1> QED BY <1>1 DEF In

LEMMA FailsHands ==
    ASSUME IInv, NEW w \in Workers, pc[w] \in {"path", "link", "make"},
           UNCHANGED <<dir, link, sub>>, Fails(w)
    PROVE  Hands(w)
<1>0. Busy(w) /\ app' = app BY DEF Busy, Fails, Finish, task
<1>1. /\ TypeOK /\ TodoOf(w) /\ app[w] \in AppIds /\ dir[app[w]] \in Versions
      /\ Linked(app[w], dir[app[w]]) \subseteq PruneNames(Files(w))
      /\ Files(w) = Bundle[app[w]][dir[app[w]]]
  BY <1>0, Known DEF Files
<1>2. ~HalfMade(app'[w]) BY <1>0, BusyNotHalf
<1>3. LinkInSub => LinkInSub' BY DEF LinkInSub
<1>4. ASSUME Keeps(w) PROVE Keeps(w)' \/ HalfMade(app[w])'
  <2>0. cur[w][1] = "sub" /\ FarmName(cur[w]) \in PruneNames(Files(w)) BY <1>1, <1>4 DEF Keeps, TodoOf
  <2>1. cur[w] \in PruneNames(Files(w)) /\ cur[w][1] = "sub" BY <2>0, FarmNames
  <2>2. cur[w] \in In({"sub"}, Files(w)) BY <1>1, <2>1, SubOfFiles
  <2>3. CASE kind[w] = "install"
    <3>1. pc'[w] = "prune" /\ todo'[w] = PruneNames(Files(w))
      BY <1>1, <2>3 DEF Fails, Goto, Leave, TypeOK
    <3> QED BY <2>1, <3>1 DEF Keeps, In
  <2>4. CASE kind[w] # "install"
    <3>1. pc' = [pc EXCEPT ![w] = "idle"] /\ good' = good \ {app[w]}
      BY <2>4 DEF Fails, Finish, Goto
    <3>2. Idle(app[w])'
      BY <1>0, <1>1, <3>1 DEF IInv, Apart, Busy, Idle, TypeOK
    <3>3. app[w] \notin good' BY <3>1
    <3> QED BY <1>0, <1>1, <2>2, <3>2, <3>3 DEF HalfMade
  <2> QED BY <2>3, <2>4
<1> QED BY <1>0, <1>2, <1>3, <1>4 DEF Hands, UsedBy

-----------------------------------------------------------------------------
LEMMA BeginHands ==
    ASSUME IInv, NEW w \in Workers, NEW a \in AppIds,
           \/ \E v \in Versions : Install(w, a, v)
           \/ \E k \in {"update", "uninstall"}, v \in Versions \cup {"none"} : UnlinkFirst(w, k, a, v)
    PROVE  Hands(w)
<1>0. TypeOK BY DEF IInv
<1>1. pc[w] = "idle" /\ app' = [app EXCEPT ![w] = a] /\ UNCHANGED <<link, sub>>
  BY DEF Install, UnlinkFirst, Begin
<1>2. app'[w] = a /\ ~Keeps(w) /\ (LinkInSub => LinkInSub') BY <1>0, <1>1 DEF TypeOK, Keeps, LinkInSub
<1>3. ASSUME HalfMade(a) PROVE Keeps(w)'
  <2>1. dir[a] \in Versions /\ In({"sub"}, Bundle[a][dir[a]]) # {} BY <1>3 DEF HalfMade
  <2>2. pc' = [pc EXCEPT ![w] = "prune"] /\ todo' = [todo EXCEPT ![w] = PruneNames(Bundle[a][dir[a]])]
    BY <2>1, NamesAssumption DEF Install, UnlinkFirst, Goto, Leave
  <2>3. PICK n \in Bundle[a][dir[a]] : n[1] = "sub" BY <2>1 DEF In
  <2>4. n \in PruneNames(Bundle[a][dir[a]]) BY <2>3 DEF PruneNames, FarmName
  <2> QED BY <1>0, <2>2, <2>3, <2>4 DEF TypeOK, Keeps, In
<1> QED BY <1>1, <1>2, <1>3 DEF Hands, UsedBy

LEMMA SearchHands ==
    ASSUME IInv, NEW w \in Workers, Binary(w) \/ Games(w) \/ InPath(w)
    PROVE  Hands(w)
<1>0. Searching(w) /\ Busy(w) /\ UNCHANGED <<dir, link, sub>>
  BY DEF Binary, Games, InPath, Try, Searching, Busy
<1>1. CASE Fails(w) /\ pc[w] = "path" BY <1>0, <1>1, FailsHands
<1>2. CASE UNCHANGED task
  <2>1. ~Keeps(w) /\ ~HalfMade(app'[w]) BY <1>0, <1>2, BusyNotHalf DEF Keeps, Searching, task
  <2> QED BY <1>0, <2>1 DEF Hands, UsedBy, LinkInSub
<1> QED BY <1>1, <1>2 DEF Binary, Games, InPath, Try

LEMMA LinkNextHands ==
    ASSUME IInv, NEW w \in Workers, LinkNext(w)
    PROVE  Hands(w)
<1>0. pc[w] = "link" /\ Busy(w) /\ UNCHANGED <<dir, link, app>> /\ TypeOK
  BY DEF LinkNext, Fails, Finish, Busy, task, IInv
<1>1. ~Keeps(w) /\ ~HalfMade(app'[w]) /\ (LinkInSub => LinkInSub')
  BY <1>0, BusyNotHalf DEF Keeps, LinkInSub
<1>2. CASE UNCHANGED sub BY <1>1, <1>2 DEF Hands, UsedBy
<1>3. CASE In({"sub"}, todo[w]) # {} /\ Goto(w, "linksub") /\ UNCHANGED todo
  <2>1. Keeps(w)' BY <1>0, <1>3 DEF Keeps, Goto, TypeOK
  <2> QED BY <2>1 DEF Hands, UsedBy
<1> QED BY <1>2, <1>3 DEF LinkNext

LEMMA LinkNextInSubHands ==
    ASSUME IInv, NEW w \in Workers, LinkNextInSub(w)
    PROVE  Hands(w)
<1>0. pc[w] = "linksub" /\ Busy(w) /\ UNCHANGED <<link, sub, app, todo>> /\ TypeOK
  BY DEF LinkNextInSub, Busy, task, IInv
<1>1. ~HalfMade(app'[w]) /\ (LinkInSub => LinkInSub') BY <1>0, BusyNotHalf DEF LinkInSub
<1>2. ASSUME Keeps(w) PROVE Keeps(w)'
  <2>1. PICK n \in In({"sub"}, todo[w]) : Goto(w, "clear") /\ cur' = [cur EXCEPT ![w] = n]
    BY <1>0, <1>2 DEF LinkNextInSub, Keeps
  <2> QED BY <1>0, <2>1 DEF Keeps, Goto, TypeOK, In
<1> QED BY <1>0, <1>1, <1>2 DEF Hands, UsedBy

LEMMA ClearHands ==
    ASSUME IInv, NEW w \in Workers, Clear(w)
    PROVE  Hands(w)
<1>0. pc[w] = "clear" /\ Busy(w) /\ UNCHANGED <<sub, app, cur>> /\ TypeOK
      /\ pc' = [pc EXCEPT ![w] = "make"] /\ link' = [link EXCEPT ![FarmName(cur[w])] = NoApp]
  BY DEF Clear, Busy, task, IInv, Goto, Unlinked
<1>1. ~HalfMade(app'[w]) BY <1>0, BusyNotHalf
<1>2. pc'[w] = "make" BY <1>0 DEF TypeOK
<1>3. CASE cur[w][1] = "sub"
  <2>1. Keeps(w)' BY <1>0, <1>2, <1>3 DEF Keeps
  <2> QED BY <1>0, <2>1 DEF Hands, UsedBy
<1>4. CASE cur[w][1] # "sub"
  <2>1. ~Keeps(w) BY <1>0, <1>4 DEF Keeps
  <2>2. FarmName(cur[w])[1] # "sub" BY <1>4, FarmNames
  <2>3. LinkInSub => LinkInSub' BY <1>0, <2>2 DEF LinkInSub, TypeOK, In
  <2> QED BY <1>0, <1>1, <2>1, <2>3 DEF Hands, UsedBy
<1> QED BY <1>3, <1>4

LEMMA MakeHands ==
    ASSUME IInv, NEW w \in Workers, Make(w)
    PROVE  Hands(w)
<1> DEFINE n == FarmName(cur[w])
<1>0. pc[w] = "make" /\ Busy(w) /\ UNCHANGED <<dir, sub>> BY DEF Make, Busy
<1>1. TypeOK /\ app[w] \in AppIds /\ n \in Names BY <1>0, Known, FarmNames DEF TypeOK
<1>2. CASE UNCHANGED link /\ Fails(w) BY <1>0, <1>2, FailsHands
<1>3. CASE UNCHANGED <<link, task>> /\ cur[w][1] \in {"bin", "games"}
  <2>1. ~Keeps(w) /\ ~HalfMade(app'[w]) BY <1>0, <1>3, BusyNotHalf DEF Keeps, task
  <2> QED BY <1>0, <1>3, <2>1 DEF Hands, UsedBy, LinkInSub
<1>4. CASE link' = [link EXCEPT ![n] = app[w]] /\ UNCHANGED task
  <2>1. ~HalfMade(app'[w]) BY <1>0, <1>4, BusyNotHalf DEF task
  <2> HIDE DEF n
  <2>2. \A m \in Names : link'[m] = IF m = n THEN app[w] ELSE link[m]
    BY <1>1, <1>4 DEF TypeOK
  <2>3. cur[w][1] = "sub" => n[1] = "sub" BY FarmNames DEF n
  <2>4. LinkInSub \/ cur[w][1] = "sub" => LinkInSub'
    BY <1>1, <2>2, <2>3, NamesAssumption DEF LinkInSub, In
  <2> QED BY <1>0, <2>1, <2>4 DEF Hands, UsedBy, Keeps
<1> QED BY <1>2, <1>3, <1>4 DEF Make, MakeFailed

LEMMA PruneNextHands ==
    ASSUME IInv, NEW w \in Workers, PruneNext(w)
    PROVE  Hands(w)
<1>0. pc[w] = "prune" /\ Pruning(w) /\ UNCHANGED <<app, sub>> BY DEF PruneNext, Pruning, task
<1>1. TypeOK /\ Busy(w) BY <1>0, PruningKnown
<1>2. ~HalfMade(app'[w]) BY <1>0, <1>1, BusyNotHalf
<1> SUFFICES ASSUME sub PROVE (LinkInSub => LinkInSub') /\ (Keeps(w) => Keeps(w)')
  BY <1>0, <1>2 DEF Hands, UsedBy
<1>3. link[Sub] = NoApp BY <1>1 DEF TypeOK
<1>4. CASE Goto(w, "prunesub") /\ UNCHANGED link
  BY <1>1, <1>4 DEF Keeps, Goto, TypeOK, LinkInSub
<1>5. CASE Sub \in todo[w] /\ UNCHANGED link
  <2>1. Sub \in In({"top", "sub"}, Files(w)) BY <1>0, <1>5, PruningKnown, PrunedFiles, SubName
  <2>2. In({"sub"}, Files(w)) = {}
    BY <1>0, <2>1, PruningKnown, DirectoryAssumption DEF In
  <2>3. \A m \in todo[w] : m[1] # "sub" BY <1>0, <2>2, PruningKnown, SubOfFiles
  <2> QED BY <1>0, <1>5, <2>3 DEF Keeps, LinkInSub, In
<1>6. ASSUME NEW n \in In({"bin", "top"}, todo[w]), UNCHANGED pc, link' = Unlinked(n),
             Leave(w, todo[w] \ {n})
      PROVE  (LinkInSub => LinkInSub') /\ (Keeps(w) => Keeps(w)')
  <2>1. n[1] # "sub" /\ n \in Names BY <1>0, PruningKnown DEF In
  <2>2. LinkInSub => LinkInSub' BY <1>1, <1>6, <2>1 DEF LinkInSub, Unlinked, TypeOK, In
  <2>3. Keeps(w) => Keeps(w)' BY <1>0, <1>1, <1>6, <2>1 DEF Keeps, Leave, TypeOK, In
  <2> QED BY <2>2, <2>3
<1>7. CASE UnlinkNext(w) BY <1>6, <1>7 DEF UnlinkNext
<1>8. CASE EnterSub(w) BY <1>3, <1>4, <1>5, <1>8 DEF EnterSub, GivesUp
<1> QED BY <1>7, <1>8 DEF PruneNext

LEMMA UnlinkSubHands ==
    ASSUME IInv, NEW w \in Workers, UnlinkSub(w)
    PROVE  Hands(w)
<1>0. pc[w] = "unlinksub" /\ Busy(w) /\ UNCHANGED <<app, sub>> BY DEF UnlinkSub, Busy, task
<1>1. ~HalfMade(app'[w]) /\ ~Keeps(w) BY <1>0, BusyNotHalf DEF Keeps
<1>2. sub => UNCHANGED link BY DEF UnlinkSub, GivesUp
<1> QED BY <1>0, <1>1, <1>2 DEF Hands, UsedBy, LinkInSub

LEMMA PruneSubHands ==
    ASSUME IInv, NEW w \in Workers, PruneSub(w)
    PROVE  Hands(w)
<1>0. pc[w] = "prunesub" /\ Busy(w) /\ TypeOK /\ UNCHANGED app BY DEF PruneSub, Busy, task, IInv
<1>1. ~HalfMade(app'[w]) /\ Keeps(w) BY <1>0, BusyNotHalf DEF Keeps
<1>2. CASE UNCHANGED <<pc, sub>>
  <2>1. Keeps(w)' BY <1>0, <1>2 DEF Keeps
  <2> QED BY <1>2, <2>1 DEF Hands, UsedBy
<1>3. CASE RmdirSub /\ UNCHANGED link
  <2>1. sub' => sub /\ LinkInSub' BY <1>3 DEF RmdirSub, LinkInSub
  <2> QED BY <2>1 DEF Hands, UsedBy
<1>4. CASE link[Sub] # NoApp /\ UNCHANGED sub
  <2>1. ~sub' BY <1>0, <1>4 DEF TypeOK
  <2> QED BY <2>1 DEF Hands
<1> QED BY <1>2, <1>3, <1>4 DEF PruneSub

LEMMA PrunedHands ==
    ASSUME IInv, NEW w \in Workers, Pruned(w)
    PROVE  Hands(w)
<1>0. pc[w] = "prune" /\ todo[w] = {} /\ Busy(w) /\ UNCHANGED <<app, link, sub>>
  BY DEF Pruned, Busy, Finish, task
<1>1. ~HalfMade(app'[w]) /\ ~Keeps(w) BY <1>0, BusyNotHalf DEF Keeps, In
<1> QED BY <1>0, <1>1 DEF Hands, UsedBy, LinkInSub

-----------------------------------------------------------------------------
(* IInv is inductive: what holds between the steps of workers for          *)
(* different applications in the shared directories.                       *)
LEMMA WorkerStep ==
    ASSUME IInv, Next
    PROVE  \E w \in Workers : Local(w) /\ Mine(w)' /\ Hands(w)
<1>1. ASSUME NEW w \in Workers, NEW a \in AppIds, NEW v \in Versions, Install(w, a, v)
      PROVE  Local(w) /\ Mine(w)' /\ Hands(w)
  BY <1>1, InstallStep, BeginHands
<1>2. ASSUME NEW w \in Workers, NEW a \in AppIds, NEW v \in Versions, UnlinkFirst(w, "update", a, v)
      PROVE  Local(w) /\ Mine(w)' /\ Hands(w)
  BY <1>2, UnlinkFirstStep, BeginHands
<1>3. ASSUME NEW w \in Workers, NEW a \in AppIds, UnlinkFirst(w, "uninstall", a, "none")
      PROVE  Local(w) /\ Mine(w)' /\ Hands(w)
  BY <1>3, UnlinkFirstStep, BeginHands
<1>4. ASSUME NEW w \in Workers, Binary(w) \/ Games(w) \/ InPath(w)
      PROVE  Local(w) /\ Mine(w)' /\ Hands(w)
  <2>1. Hands(w) BY <1>4, SearchHands
  <2>2. CASE Binary(w) BY <2>1, <2>2, TryStep DEF Binary, Searching
  <2>3. CASE Games(w) BY <2>1, <2>3, TryStep DEF Games, Searching
  <2>4. CASE InPath(w) BY <2>1, <2>4, InPathStep
  <2> QED BY <1>4, <2>2, <2>3, <2>4
<1>5. ASSUME NEW w \in Workers, LinkNext(w) \/ LinkNextInSub(w) \/ Clear(w) \/ Make(w)
      PROVE  Local(w) /\ Mine(w)' /\ Hands(w)
  BY <1>5, LinkNextStep, LinkNextInSubStep, ClearStep, MakeStep,
     LinkNextHands, LinkNextInSubHands, ClearHands, MakeHands
<1>6. ASSUME NEW w \in Workers, PruneNext(w) \/ UnlinkSub(w) \/ PruneSub(w) \/ Pruned(w)
      PROVE  Local(w) /\ Mine(w)' /\ Hands(w)
  BY <1>6, PruneNextStep, UnlinkSubStep, PruneSubStep, PrunedStep,
     PruneNextHands, UnlinkSubHands, PruneSubHands, PrunedHands
<1> QED BY <1>1, <1>2, <1>3, <1>4, <1>5, <1>6 DEF Next

THEOREM Invariance == Spec => []IInv
<1>1. ASSUME IInv, [Next]_vars PROVE IInv'
  <2>1. CASE Next BY <1>1, <2>1, TypeStep, WorkerStep, Compose
  <2>2. CASE UNCHANGED vars
    BY <1>1, <2>2
       DEF IInv, TypeOK, Apart, WorkersOK, BusyOf, TodoOf, AtSub, OwnOf, LinksOK, LeftOK, GoodOK,
           Settled, Own, FoundAnyway, Idle, Busy, Linking, Searching, Pruning, Files, Program,
           vars, task
  <2> QED BY <1>1, <2>1, <2>2
<1> QED BY InitIInv, <1>1, PTL DEF Spec

(* Every variable keeps its type, and the shared subdirectory and the      *)
(* links in it and in its place agree (eam-fs-utils.c, symlinkdirs_recursive *)
(* and rmsymlinks_recursive).                                              *)
THEOREM TypeCorrect == Spec => []TypeOK
<1>1. IInv => TypeOK BY DEF IInv
<1> QED BY Invariance, <1>1, PTL

(* No link dangles once no transaction runs for its application, but what  *)
(* a removal gave up on: the names eam_fs_prune_symlinks goes by are all   *)
(* that eam_fs_create_symlinks can have made, whatever others do to the    *)
(* same directories.                                                       *)
THEOREM LinksLead == Spec => []NoDangling
<1>1. IInv => NoDangling BY NamesAssumption DEF IInv, LinksOK, NoDangling, Leads
<1> QED BY Invariance, <1>1, PTL

(* Removals give up only where one bundle has a file and another one a     *)
(* directory of that name: where all bundles agree no link ever dangles.   *)
Agreeing ==
    /\ left = {}
    /\ sub => \E a \in AppIds, v \in Versions : In({"sub"}, Bundle[a][v]) # {}
    /\ (\E w \in Workers : pc[w] = "unlinksub") =>
          \E a \in AppIds, v \in Versions : Sub \in Bundle[a][v]

THEOREM AgreedLinksLead ==
    ASSUME BundlesAgree
    PROVE  Spec => []AllLead
<1>1. Init => Agreeing BY DEF Init, Agreeing
<1>2. ASSUME IInv, Agreeing, [Next]_vars PROVE Agreeing'
  <2>0. TypeOK /\ LinksOK BY <1>2 DEF IInv
  <2>1. CASE UNCHANGED vars BY <1>2, <2>1 DEF Agreeing, vars
  <2> SUFFICES ASSUME Next PROVE Agreeing'
    BY <1>2, <2>1
  <2>2. link[Sub] # NoApp => \E a \in AppIds, v \in Versions : Sub \in Bundle[a][v]
    <3> SUFFICES ASSUME link[Sub] # NoApp PROVE \E a \in AppIds, v \in Versions : Sub \in Bundle[a][v]
      OBVIOUS
    <3>1. link[Sub] \in AppIds BY <2>0, SubName DEF TypeOK
    <3>2. dir[link[Sub]] \in Versions /\ Sub \in Linked(link[Sub], dir[link[Sub]])
      BY <1>2, <2>0, SubName DEF LinksOK, Agreeing
    <3>3. Sub \in PruneNames(Bundle[link[Sub]][dir[link[Sub]]]) BY <3>1, <3>2, NamesOf
    <3>4. Sub \in In({"top", "sub"}, Bundle[link[Sub]][dir[link[Sub]]])
      BY <3>1, <3>2, <3>3, PrunedFiles, SubName
    <3> QED BY <3>1, <3>2, <3>4 DEF In
  <2>3. ASSUME NEW w \in Workers, GivesUp(w), pc[w] \in {"prune", "unlinksub", "prunesub"},
               \/ (sub /\ (Sub \in todo[w] \/ pc[w] = "unlinksub"))
               \/ (link[Sub] # NoApp /\ In({"sub"}, todo[w]) # {})
        PROVE  FALSE
    <3>1. Pruning(w) BY <2>3 DEF Pruning
    <3>2. /\ app[w] \in AppIds /\ dir[app[w]] \in Versions
          /\ Files(w) = Bundle[app[w]][dir[app[w]]] /\ todo[w] \subseteq PruneNames(Files(w))
      BY <1>2, <3>1, PruningKnown
    <3>3. Sub \in todo[w] => Sub \in Bundle[app[w]][dir[app[w]]]
      BY <3>2, PrunedFiles, SubName DEF In
    <3>4. In({"sub"}, todo[w]) # {} => In({"sub"}, Bundle[app[w]][dir[app[w]]]) # {}
      BY <3>2, SubOfFiles DEF In
    <3> QED BY <1>2, <2>2, <2>3, <3>2, <3>3, <3>4 DEF BundlesAgree, Agreeing
  <2>4. left = {} BY <1>2 DEF Agreeing
  <2>5. left' = {}
    <3>1. ASSUME NEW w \in Workers, PruneNext(w) PROVE left' = {}
      <4>1. pc[w] = "prune" BY <3>1 DEF PruneNext
      <4>2. CASE UnlinkNext(w)
        <5>1. left' = left BY <4>2 DEF UnlinkNext
        <5> QED BY <2>4, <5>1
      <4>3. CASE GivesUp(w) /\ sub /\ Sub \in todo[w]
        <5>1. FALSE BY <2>3, <4>1, <4>3
        <5> QED BY <5>1
      <4>4. CASE left' = left BY <2>4, <4>4
      <4>5. EnterSub(w) => left' = left \/ (GivesUp(w) /\ sub /\ Sub \in todo[w])
        BY DEF EnterSub
      <4> QED BY <3>1, <4>2, <4>3, <4>4, <4>5 DEF PruneNext
    <3>2. ASSUME NEW w \in Workers, UnlinkSub(w) PROVE left' = {}
      BY <2>3, <2>4, <3>2 DEF UnlinkSub
    <3>3. ASSUME NEW w \in Workers, PruneSub(w) PROVE left' = {}
      BY <2>3, <2>4, <3>3 DEF PruneSub
    <3>4. ASSUME NEW w \in Workers, Make(w) PROVE left' = {}
      BY <2>4, <3>4 DEF Make
    <3>5. ASSUME NEW w \in Workers, NEW k, NEW a, NEW v, Install(w, a, v) \/ UnlinkFirst(w, k, a, v)
          PROVE  left' = left
      BY <3>5 DEF Install, UnlinkFirst, Begin
    <3>6. ASSUME NEW w \in Workers, Binary(w) \/ Games(w) \/ InPath(w)
          PROVE  left' = left
      BY <3>6 DEF Binary, Games, InPath, Try
    <3>7. ASSUME NEW w \in Workers, LinkNext(w) \/ LinkNextInSub(w) \/ Clear(w) \/ Pruned(w)
          PROVE  left' = left
      BY <3>7 DEF LinkNext, LinkNextInSub, Clear, Pruned
    <3> QED BY <2>4, <3>1, <3>2, <3>3, <3>4, <3>5, <3>6, <3>7 DEF Next
  <2>6. sub' => \E a \in AppIds, v \in Versions : In({"sub"}, Bundle[a][v]) # {}
    <3>1. ASSUME NEW w \in Workers, LinkNext(w), In({"sub"}, todo[w]) # {}
          PROVE  \E a \in AppIds, v \in Versions : In({"sub"}, Bundle[a][v]) # {}
      <4>1. Busy(w) /\ Linking(w) BY <3>1 DEF LinkNext, Busy, Linking
      <4>2. /\ todo[w] \subseteq In({"top", "sub"}, Files(w)) /\ app[w] \in AppIds
            /\ dir[app[w]] \in Versions /\ Files(w) = Bundle[app[w]][dir[app[w]]]
        BY <1>2, <4>1, Known DEF TodoOf, Files
      <4> QED BY <3>1, <4>2 DEF In
    <3>2. sub' => sub \/ \E w \in Workers : LinkNext(w) /\ In({"sub"}, todo[w]) # {}
      <4>1. ASSUME NEW w \in Workers, NEW k, NEW a, NEW v, Install(w, a, v) \/ UnlinkFirst(w, k, a, v)
            PROVE  sub' = sub
        BY <4>1 DEF Install, UnlinkFirst, Begin
      <4>2. ASSUME NEW w \in Workers, Binary(w) \/ Games(w) \/ InPath(w)
            PROVE  sub' = sub
        BY <4>2 DEF Binary, Games, InPath, Try
      <4>3. ASSUME NEW w \in Workers, LinkNextInSub(w) \/ Clear(w) \/ Make(w)
            PROVE  sub' = sub
        BY <4>3 DEF LinkNextInSub, Clear, Make
      <4>4. ASSUME NEW w \in Workers, PruneNext(w) \/ UnlinkSub(w) \/ Pruned(w)
            PROVE  sub' = sub
        BY <4>4 DEF PruneNext, UnlinkSub, Pruned
      <4>5. ASSUME NEW w \in Workers, LinkNext(w) PROVE sub' = sub \/ In({"sub"}, todo[w]) # {}
        BY <4>5 DEF LinkNext
      <4>6. ASSUME NEW w \in Workers, PruneSub(w) PROVE sub' => sub
        BY <4>6 DEF PruneSub, RmdirSub
      <4> QED BY <4>1, <4>2, <4>3, <4>4, <4>5, <4>6 DEF Next
    <3> QED BY <1>2, <3>1, <3>2 DEF Agreeing
  <2>7. ASSUME NEW x \in Workers, pc'[x] = "unlinksub"
        PROVE  \E a \in AppIds, v \in Versions : Sub \in Bundle[a][v]
    <3>1. CASE pc[x] = "unlinksub" BY <1>2, <3>1 DEF Agreeing
    <3>2. CASE pc[x] # "unlinksub"
      <4>1. link[Sub] # NoApp
        <5>1. ASSUME NEW w \in Workers, NEW s, Goto(w, s), s # "unlinksub" PROVE FALSE
          BY <2>0, <2>7, <3>2, <5>1 DEF Goto, TypeOK
        <5>2. \A w \in Workers : ~Finish(w, TRUE) /\ ~Finish(w, FALSE) /\ ~Fails(w)
          BY <5>1 DEF Fails, Finish
        <5>3. pc' # pc BY <2>7, <3>2
        <5>4. \A w \in Workers : Back(w) # "unlinksub" BY DEF Back
        <5>5. \E w \in Workers : link[Sub] # NoApp
          <6>1. ASSUME NEW w \in Workers, PruneNext(w) PROVE link[Sub] # NoApp
            BY <5>1, <5>3, <6>1 DEF PruneNext, UnlinkNext, EnterSub, GivesUp
          <6>2. ASSUME NEW w \in Workers PROVE ~Make(w)
            BY <5>1, <5>2, <5>4 DEF Make, MakeFailed
          <6>3. ASSUME NEW w \in Workers, UnlinkSub(w) \/ PruneSub(w) \/ Pruned(w) PROVE FALSE
            BY <5>1, <5>2, <5>3, <6>3 DEF UnlinkSub, PruneSub, Pruned, GivesUp, Finish
          <6>4. ASSUME NEW w \in Workers,
                       Binary(w) \/ Games(w) \/ InPath(w) \/ LinkNext(w) \/ LinkNextInSub(w) \/ Clear(w)
                PROVE  FALSE
            BY <5>1, <5>2, <6>4 DEF Binary, Games, Try, InPath, LinkNext, LinkNextInSub, Clear
          <6> QED BY <5>1, <6>1, <6>2, <6>3, <6>4 DEF Next, Install, UnlinkFirst
        <5> QED BY <5>5
      <4> QED BY <2>2, <4>1
    <3> QED BY <3>1, <3>2
  <2> QED BY <2>5, <2>6, <2>7 DEF Agreeing
<1>3. IInv /\ Agreeing => AllLead
  BY NamesAssumption DEF IInv, LinksOK, Agreeing, AllLead, Leads
<1> QED BY Invariance, <1>1, <1>2, <1>3, PTL DEF Spec

(* A transaction that succeeded has linked the names that are its          *)
(* application's alone, but a program's link it could do without, and      *)
(* transactions on others leave them.                                      *)
THEOREM OwnNamesKept == Spec => []OwnNamesLinked
<1>1. IInv => OwnNamesLinked BY DEF IInv, GoodOK, Settled, Own, OwnNamesLinked
<1> QED BY Invariance, <1>1, PTL

(* The subdirectory does not outlive its links, whichever worker removes   *)
(* the last of them (eam-fs-utils.c, rmsymlinks_recursive), but for an     *)
(* update that has left its own half made.                                 *)
THEOREM NoDirectoryLeft == Spec => []NoEmptyDirectory
<1>1. Init => SubUsed BY DEF Init, SubUsed
<1>2. ASSUME IInv, SubUsed, [Next]_vars PROVE SubUsed'
  <2>1. CASE Next BY <1>2, <2>1, WorkerStep, SubCompose
  <2>2. CASE UNCHANGED vars
    BY <1>2, <2>2 DEF SubUsed, LinkInSub, Keeps, HalfMade, Idle, vars, task
  <2> QED BY <1>2, <2>1, <2>2
<1>3. IInv /\ SubUsed => NoEmptyDirectory
  <2> SUFFICES ASSUME SubUsed, \A w \in Workers : pc[w] = "idle",
                      \A a \in AppIds : dir[a] # "none" => a \in good, sub
               PROVE  LinkInSub
    BY DEF NoEmptyDirectory, LinkInSub
  <2>1. \A w \in Workers : ~Keeps(w) BY DEF Keeps
  <2>2. \A a \in AppIds : ~HalfMade(a) BY NamesAssumption DEF HalfMade
  <2> QED BY <2>1, <2>2 DEF SubUsed
<1> QED BY Invariance, <1>1, <1>2, <1>3, PTL DEF Spec

=============================================================================

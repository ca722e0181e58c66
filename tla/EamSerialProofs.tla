--------------------------- MODULE EamSerialProofs ---------------------------
(***************************************************************************)
(* The theorems of EamTransactions about one transaction at a time: what   *)
(* it leaves on the disk when it succeeds, and when it fails; that it is   *)
(* atomic for the user; what ensure-symlink-farm makes of what a crash has *)
(* left; and that neither crashes nor failures lose the application.       *)
(***************************************************************************)
EXTENDS EamTransactionsProofs

(* Transactions one after the other, on any number of storages of any      *)
(* kind, with the failures the code rolls back from; updates name their    *)
(* storages.                                                               *)
OneAtATime(w) ==
    /\ Workers = {w}
    /\ UpdatePrefixes \subseteq Storages
    /\ FaultSteps \subseteq Handled

WithInfo == Versions \cup {"bare", "nobin", "husk"}
Whole == Versions \cup {"husk"}
Usable == Whole \cup {"nobin"}

(* The names tree t has files for.                                         *)
Files(t) == IF t \in Whole THEN LinkNames ELSE IF t = "nobin" THEN {"sys"} ELSE {}

(* The disk t with the links l and a between two transactions: one storage *)
(* at most has the application, there is no backup, and links lead to      *)
(* where there is something to link to.                                    *)
OneApp(t) ==
    /\ t[App(Apps)] = "none"
    /\ \A p, q \in Storages : t[App(p)] \in WithInfo /\ t[App(q)] \in WithInfo => p = q
NoBackups(t) == \A p \in Prefixes : t[Backup(p)] = "none"
Leads(t, l, a) ==
    /\ a # NoPrefix => t[App(a)] \in Usable
    /\ \A n \in LinkNames :
          \/ l[n] = NoPrefix
          \/ \E p \in Storages :
                n \in Files(t[App(p)]) /\ (l[n] = App(p) \/ (l[n] = App(Apps) /\ a = p))
Settled(t, l, a) == OneApp(t) /\ NoBackups(t) /\ Leads(t, l, a)

(* What an application the user has is not reduced to, and that it is      *)
(* listed.                                                                 *)
Sound(t) == \A p \in Storages : t[App(p)] \notin {"bare", "nobin"}
Kept(t, a) == a # NoPrefix /\ Sound(t)

-----------------------------------------------------------------------------
(* Where a transaction is, told from the disk it began with.               *)
Alike(w, pls) == \A pl \in Places \ (pls \cup {Cache}) : tree[pl] = oldTree[w][pl]
NowhereYet(w) == \A p \in Storages : oldTree[w][App(p)] \notin WithInfo
Cleaned(w, pl) == tree[pl] = oldTree[w][pl] \/ (oldTree[w][pl] = "part" /\ tree[pl] = "none")
LinksTo(pl) == link = [n \in LinkNames |-> pl]
LinksLeft(w) == \A n \in LinkNames : link[n] \in {NoPrefix, oldLink[w][n]}

Installing(w) ==
    LET d == App(to[w])
    IN  kind[w] = "install" =>
        /\ pc[w] \in {"check", "extract", "extracting", "scripts", "deploy"} =>
              Alike(w, {}) /\ SameLinks(w)
        /\ pc[w] = "check" => \A p \in Storages \ {to[w]} : oldTree[w][App(p)] \notin WithInfo
        /\ pc[w] \notin {"idle", "check"} => NowhereYet(w)
        /\ pc[w] \in {"deploycopy", "drop", "unlink", "remove", "removing"} \cup Linking =>
              Alike(w, {d}) /\ oldTree[w][d] = "none"
        /\ pc[w] \in {"drop", "unlink", "remove"} \cup Linking => tree[d] = ver[w]
        /\ pc[w] \in {"deploycopy", "removing"} => tree[d] \in Partial
        /\ pc[w] \in {"deploycopy", "drop", "linkbin", "remove", "removing"} => NoLinks
        /\ pc[w] \in {"unlink"} \cup Linking =>
              (\A n \in LinkNames : link[n] \in {NoPrefix, d}) /\ appLink \in {NoPrefix, to[w]}

(* The backup of an update, and what it moves the application to. *)
Moved(w) == App(to[w]) # App(from[w]) => tree[App(from[w])] = "none" /\ oldTree[w][App(to[w])] = "none"

Updating(w) ==
    LET a == App(from[w])
        b == Backup(from[w])
        d == App(to[w])
        had == oldTree[w][a]
    IN  kind[w] = "update" =>
        /\ pc[w] \notin {"idle", "check"} => had \in WithInfo
        /\ pc[w] \in {"check", "unlink"} => Alike(w, {}) /\ SameLinks(w)
        /\ pc[w] = "backup" => Alike(w, {}) /\ NoLinks
        /\ pc[w] = "backupcopy" => Alike(w, {b}) /\ tree[b] \in Partial /\ NoLinks
        /\ pc[w] = "backupdrop" => Alike(w, {a, b}) /\ tree[b] = had /\ NoLinks
        /\ pc[w] \in {"extract", "extracting", "scripts", "deploy"} =>
              Alike(w, {a, b}) /\ NoLinks /\ tree[a] = "none" /\ tree[b] = had
        /\ pc[w] = "deploycopy" =>
              Alike(w, {a, b, d}) /\ NoLinks /\ tree[b] = had /\ tree[d] \in Partial /\ Moved(w)
        /\ phase[w] = "forward" /\ pc[w] \in Linking \cup {"drop", "remove"} =>
              Alike(w, {a, b, d}) /\ tree[d] = ver[w] /\ Moved(w) /\ tree[b] = had
        /\ pc[w] = "removing" =>
              Alike(w, {a, b, d}) /\ tree[d] = ver[w] /\ Moved(w) /\ tree[b] \in Partial
        /\ pc[w] \in {"remove", "removing"} => LinksTo(d) /\ appLink = to[w]
        /\ pc[w] = "restore" =>
              /\ Alike(w, {a, b, d}) /\ NoLinks /\ tree[a] = "none" /\ tree[b] = had
              /\ d # a => Cleaned(w, d)
        /\ phase[w] = "back" /\ pc[w] \in Linking => Alike(w, {d}) /\ Cleaned(w, d)
        /\ pc[w] \in {"drop", "linkbin"} => NoLinks
        /\ pc[w] \in Linking => appLink = NoPrefix /\ \A n \in LinkNames : link[n] \in {NoPrefix, LinkPlace(w)}

(* The application is where the uninstall looks for it. *)
Found(w) == from[w] # NoPrefix /\ oldTree[w][App(from[w])] \in WithInfo

Uninstalling(w) ==
    LET a == App(from[w])
    IN  kind[w] = "uninstall" =>
        /\ pc[w] # "idle" /\ ~Found(w) /\ force[w] => \A n \in LinkNames : oldLink[w][n] # App(Apps)
        /\ pc[w] \notin {"idle", "check"} => ~owned /\ (force[w] \/ Found(w))
        /\ pc[w] \in {"check", "unlink"} => Alike(w, {}) /\ SameLinks(w)
        /\ pc[w] = "remove" => Alike(w, {})
        /\ pc[w] = "removing" =>
              from[w] # NoPrefix /\ Alike(w, {a}) /\ tree[a] \in Partial /\ (~Found(w) => tree[a] = "part")
        /\ pc[w] \in {"remove", "removing"} =>
              appLink = NoPrefix /\ LinksLeft(w) /\ (Found(w) => NoLinks)

Migrating(w) ==
    LET a == App(from[w])
        d == App(to[w])
        had == oldTree[w]
    IN  kind[w] = "migrate" =>
        /\ pc[w] # "idle" => had[d] # "part" /\ ver[w] = had[a] /\ had[a] # "nobin"
        /\ pc[w] \notin {"idle", "check"} => had[a] \in WithInfo /\ had[d] = "none"
        /\ pc[w] \in {"check", "deploy"} => Alike(w, {}) /\ SameLinks(w)
        /\ pc[w] = "deploycopy" => Alike(w, {d}) /\ tree[d] \in Partial /\ SameLinks(w)
        /\ pc[w] \in {"drop", "unlink"} \cup Linking => Alike(w, {a, d}) /\ tree[d] = had[a]
        /\ pc[w] = "drop" => tree[a] \in Partial \cup {"none", had[a]}
        /\ pc[w] \in {"unlink"} \cup Linking => tree[a] = "none"
        /\ pc[w] \in {"drop", "unlink"} => SameLinks(w)
        /\ pc[w] = "linkbin" => LinksLeft(w)
        /\ pc[w] \in Linking => appLink = NoPrefix

(* What create-symlinks is for. *)
Named(w) == IF to[w] # NoPrefix THEN to[w] ELSE IF from[w] = Apps THEN oldAppLink[w] ELSE from[w]

Relinking(w) ==
    kind[w] = "symlinks" =>
    /\ pc[w] # "idle" =>
          Alike(w, {}) /\ Named(w) # NoPrefix /\ oldTree[w][App(Named(w))] \in WithInfo \ {"nobin"}
    /\ pc[w] \in {"check", "unlink"} => SameLinks(w)
    /\ pc[w] = "unlink" => to[w] # NoPrefix
    /\ pc[w] = "linkbin" => LinksLeft(w)
    /\ pc[w] \in Linking => appLink = IF to[w] = NoPrefix THEN oldAppLink[w] ELSE NoPrefix

Ensuring(w) ==
    kind[w] = "farm" =>
    /\ pc[w] # "idle" =>
          /\ Alike(w, {}) /\ Leads(tree, link, appLink)
          /\ oldAppLink[w] # NoPrefix => appLink # NoPrefix
    /\ pc[w] = "check" => SameLinks(w) /\ \A p \in Storages : App(p) \in todo[w]
    /\ pc[w] = "farm" =>
          \A p \in Storages \ skipped[w] :
             tree[App(p)] \in Versions /\ App(p) \notin todo[w] /\ ensured[w]
             => ShownAt(Needed(w), p)
    /\ pc[w] \in Linking => \E p \in Storages : at[w] = App(p) /\ tree[App(p)] \in WithInfo

(* While links are made, those there were do no harm, and those that are   *)
(* made lead to what there is.                                             *)
LinksComing(w) ==
    LET pl == LinkPlace(w)
        found == tree[Target(pl)]
    IN  pc[w] \in Linking =>
        /\ OneApp(tree)
        /\ appLink # NoPrefix => tree[App(appLink)] \in Usable
        /\ found \notin Whole => Leads(tree, link, appLink) /\ ~owned
        /\ pc[w] # "linkbin" =>
              /\ found \in Usable
              /\ kind[w] \notin {"install", "farm"} /\ found \in Whole => link["bin"] = pl
              /\ link["bin"] = pl \/ ("bin" \in skipped[w] /\ Leads(tree, link, appLink))
        /\ pc[w] = "linkapp" => link["sys"] = pl

Unpacks(w) ==
    kind[w] # "migrate" =>
    /\ pc[w] = "extracting" => tree[Cache] \in Partial
    /\ pc[w] \in {"scripts", "deploy", "deploycopy"} => tree[Cache] = ver[w]

Stage(w) ==
    /\ Installing(w) /\ Updating(w) /\ Uninstalling(w) /\ Migrating(w) /\ Relinking(w) /\ Ensuring(w)
    /\ LinksComing(w) /\ Unpacks(w)

OldTypes(w) ==
    /\ DOMAIN oldTree = Workers /\ DOMAIN oldLink = Workers /\ DOMAIN oldAppLink = Workers
    /\ oldTree[w] \in [Places -> Trees] /\ oldLink[w] \in [LinkNames -> Places \cup {NoPrefix}]
    /\ oldAppLink[w] \in Storages \cup {NoPrefix}

SerialInv(w) ==
    /\ pc[w] = "idle" => Settled(tree, link, appLink) /\ (owned => Kept(tree, appLink))
    /\ pc[w] # "idle" =>
          Settled(oldTree[w], oldLink[w], oldAppLink[w]) /\ (owned => Kept(oldTree[w], oldAppLink[w]))
    /\ Stage(w) /\ OldTypes(w)

-----------------------------------------------------------------------------
(* What all steps rest on. *)

LEMMA Kinships ==
    /\ \A v \in Versions : v \notin {"none", "part", "bare", "nobin", "husk"}
    /\ Whole \subseteq Usable /\ Usable \subseteq WithInfo /\ WithInfo \subseteq Trees
    /\ Trees = {"none", "part"} \cup WithInfo
    /\ \A pl : IsAppDir(pl) <=> tree[pl] \in WithInfo
    /\ Usable = Whole \cup {"nobin"} /\ WithInfo = Usable \cup {"bare"}
    /\ Partial = {"part", "bare", "nobin", "husk"}
    /\ "none" \notin WithInfo /\ "part" \notin WithInfo /\ "bare" \notin Usable /\ "nobin" \notin Whole
    /\ Versions \subseteq Whole
BY VersionAssumption DEF Whole, Usable, WithInfo, Trees, Partial, IsAppDir

LEMMA FilesOf ==
    /\ \A t \in Whole : Files(t) = LinkNames /\ Exports(t) = {LinkNames}
    /\ Files("nobin") = {"sys"} /\ Exports("nobin") = {{"sys"}}
    /\ Exports("bare") = {{}} /\ Exports("none") = {{}}
    /\ \A t, n : n \in Files(t) => t \in Usable /\ n \in LinkNames /\ (n = "bin" => t \in Whole)
    /\ LinkNames = {"bin", "sys"} /\ {"sys"} # LinkNames
    /\ \A t \in WithInfo, n \in LinkNames : n \in Files(t) <=> \A names \in Exports(t) : n \in names
<1>1. Exports("nobin") = {{"sys"}} /\ Exports("bare") = {{}} /\ Exports("none") = {{}}
  BY VersionAssumption DEF Exports
<1>2. ASSUME NEW t \in Whole PROVE Files(t) = LinkNames /\ Exports(t) = {LinkNames}
  BY <1>2, VersionAssumption DEF Files, Exports, Whole
<1>3. Files("nobin") = {"sys"} BY VersionAssumption DEF Files, Whole
<1>4. LinkNames = {"bin", "sys"} /\ {"sys"} # LinkNames BY DEF LinkNames
<1>5. ASSUME NEW t, NEW n, n \in Files(t)
      PROVE  t \in Usable /\ n \in LinkNames /\ (n = "bin" => t \in Whole)
  BY <1>5 DEF Files, Usable, LinkNames
<1>6. ASSUME NEW t \in WithInfo, NEW n \in LinkNames
      PROVE  n \in Files(t) <=> \A names \in Exports(t) : n \in names
  <2>1. CASE t \in Whole BY <1>2, <2>1
  <2>2. CASE t = "nobin" BY <1>1, <1>3, <2>2
  <2>3. CASE t = "bare" BY <1>1, <2>3, VersionAssumption DEF Files, Whole
  <2> QED BY <2>1, <2>2, <2>3 DEF WithInfo, Whole
<1> QED BY <1>1, <1>2, <1>3, <1>4, <1>5, <1>6

LEMMA FilesAmong ==
    ASSUME NEW t \in WithInfo, NEW files \in Exports(t)
    PROVE  /\ t \in Whole => files = LinkNames
           /\ t \notin Whole => "bin" \notin files
           /\ "sys" \in files <=> t \in Usable
           /\ \A n \in LinkNames : n \in files <=> n \in Files(t)
<1>1. CASE t \in Whole BY <1>1, FilesOf, Kinships
<1>2. CASE t = "nobin"
  <2>1. files = {"sys"} BY <1>2, FilesOf
  <2> QED BY <1>2, <2>1, FilesOf, Kinships
<1>3. CASE t = "bare"
  <2>1. files = {} BY <1>3, FilesOf
  <2>2. t \notin Whole /\ t \notin Usable /\ Files(t) = {} BY <1>3, Kinships DEF Files
  <2> QED BY <2>1, <2>2
<1> QED BY <1>1, <1>2, <1>3, Kinships

LEMMA Lookups ==
    ASSUME FsTypeOK
    PROVE  /\ \A p \in Storages :
                /\ p \in Prefixes /\ p # Apps /\ p # NoPrefix
                /\ Resolve(p) = App(p) /\ TreeAt(p) = tree[App(p)] /\ Target(App(p)) = App(p)
                /\ AppIsInstalled(p) <=> tree[App(p)] \in WithInfo
                /\ TargetFree(p) <=> tree[App(p)] = "none"
           /\ ~AppIsInstalled(NoPrefix) /\ TreeAt(NoPrefix) = "none"
           /\ Resolve(Apps) = IF appLink # NoPrefix THEN App(appLink) ELSE App(Apps)
           /\ Target(App(Apps)) = Resolve(Apps)
           /\ Apps \in Prefixes /\ Apps # NoPrefix /\ TreeAt(Apps) = tree[Resolve(Apps)]
           /\ AppIsInstalled(Apps) <=> tree[Resolve(Apps)] \in WithInfo
<1>1. Apps \in Prefixes /\ Apps # NoPrefix BY PrefixAssumption DEF Prefixes
<1>2. Resolve(Apps) = IF appLink # NoPrefix THEN App(appLink) ELSE App(Apps)
  BY DEF Resolve
<1>3. Target(App(Apps)) = Resolve(Apps) BY DEF Target
<1>4. TreeAt(Apps) = tree[Resolve(Apps)] BY <1>1 DEF TreeAt
<1>5. AppIsInstalled(Apps) <=> tree[Resolve(Apps)] \in WithInfo
  BY <1>1, Kinships DEF AppIsInstalled
<1>6. ~AppIsInstalled(NoPrefix) /\ TreeAt(NoPrefix) = "none" BY DEF AppIsInstalled, TreeAt
<1>7. ASSUME NEW p \in Storages
      PROVE  /\ p \in Prefixes /\ p # Apps /\ p # NoPrefix
             /\ Resolve(p) = App(p) /\ TreeAt(p) = tree[App(p)] /\ Target(App(p)) = App(p)
             /\ AppIsInstalled(p) <=> tree[App(p)] \in WithInfo
             /\ TargetFree(p) <=> tree[App(p)] = "none"
  <2>1. p \in Prefixes /\ p # Apps /\ p # NoPrefix BY PrefixAssumption DEF Prefixes
  <2>2. Resolve(p) = App(p) BY <2>1 DEF Resolve
  <2>3. App(p) # App(Apps) BY <2>1, PlaceFacts
  <2>4. TreeAt(p) = tree[App(p)] BY <2>1, <2>2 DEF TreeAt
  <2>5. Target(App(p)) = App(p) BY <2>3 DEF Target
  <2>6. AppIsInstalled(p) <=> tree[App(p)] \in WithInfo BY <2>1, <2>2, Kinships DEF AppIsInstalled
  <2>7. TargetFree(p) <=> tree[App(p)] = "none" BY <2>2 DEF TargetFree
  <2> QED BY <2>1, <2>2, <2>4, <2>5, <2>6, <2>7
<1> QED BY <1>1, <1>2, <1>3, <1>4, <1>5, <1>6, <1>7

(* The failures there are. *)
LEMMA OnlyHandled ==
    ASSUME NEW w, OneAtATime(w), NEW s, Fault(w, s)
    PROVE  /\ kind[w] = "install" =>
                 s \in {"check", "extract", "scripts", "deploy", "drop", "linkbin", "linksys", "linkapp"}
           /\ kind[w] = "update" => s \in {"check", "backupcopy", "extract", "scripts", "deploy", "drop"}
           /\ kind[w] = "uninstall" => s \in {"check", "remove"}
           /\ kind[w] \in {"migrate", "symlinks"} => s \in {"check", "hooks"}
           /\ kind[w] = "farm" => s \in {"check", "sanity", "opendir", "linkbin", "linksys", "linkapp", "hooks"}
           /\ kind[w] \in {"install", "update", "uninstall", "migrate", "symlinks", "farm"}
<1>1. <<kind[w], s>> \in Handled BY DEF Fault, OneAtATime
<1> QED BY <1>1 DEF Handled

-----------------------------------------------------------------------------
(* A worker that is alone, before a step that is no crash. *)
Alone(w) ==
    /\ w \in Workers /\ OneAtATime(w)
    /\ TypeInv /\ TypeInv' /\ SerialInv(w)

(* What a transaction leaves when it ends. *)
Leaves(w) ==
    pc'[w] = "idle" =>
    /\ kind[w] = "install" /\ result'[w] = "failed" => SameTrees(w)' /\ SameLinks(w)'
    /\ kind[w] = "update" /\ result'[w] = "failed" => SameTrees(w)' /\ (WasShown(w) => SameLinks(w)')
    /\ result'[w] = "ok" => Achieved(w)'

Lawful(w) == SerialInv(w)' /\ Leaves(w)

LEMMA AloneKnows ==
    ASSUME NEW w, Alone(w)
    PROVE  /\ w \in Workers /\ TypeOK /\ TypeOK' /\ FsTypeOK /\ FsTypeOK'
           /\ ParamsOK(w) /\ StageIn(kind[w], phase[w], pc[w])
           /\ Stage(w) /\ OldTypes(w) /\ \A x \in Workers : x = w
           /\ pc[w] # "idle" =>
                 Settled(oldTree[w], oldLink[w], oldAppLink[w]) /\ (owned => Kept(oldTree[w], oldAppLink[w]))
BY WorkerKnows DEF Alone, TypeInv, TypeOK, SerialInv, OneAtATime

LEMMA Going ==
    ASSUME NEW w, Alone(w), NEW s \in Steps, Goto(w, s)
    PROVE  pc'[w] = s /\ UNCHANGED <<params, phase, farm, old, owned, result>>
BY AloneKnows DEF TypeOK, Goto, control

LEMMA GoingBack ==
    ASSUME NEW w, Alone(w), NEW s \in Steps, GoBack(w, s)
    PROVE  pc'[w] = s /\ phase'[w] = "back" /\ UNCHANGED <<params, farm, old, owned, result>>
BY AloneKnows DEF TypeOK, GoBack

LEMMA Finishing ==
    ASSUME NEW w, Alone(w), NEW r, Finish(w, r)
    PROVE  /\ pc'[w] = "idle" /\ result'[w] = r /\ UNCHANGED <<params, phase, farm, old>>
           /\ owned' = (owned \/ (r = "ok" /\ kind[w] \in {"install", "update"}))
BY AloneKnows DEF TypeOK, Finish, control

(* A transaction that goes on has its stage to show, ... *)
LEMMA Continued ==
    ASSUME NEW w, Alone(w), pc[w] # "idle", pc'[w] # "idle", UNCHANGED <<params, old>>,
           owned' => owned,
           kind[w] = "install" => Installing(w)', kind[w] = "update" => Updating(w)',
           kind[w] = "uninstall" => Uninstalling(w)', kind[w] = "migrate" => Migrating(w)',
           kind[w] = "symlinks" => Relinking(w)', kind[w] = "farm" => Ensuring(w)',
           LinksComing(w)', Unpacks(w)'
    PROVE  Lawful(w)
<1>1. UNCHANGED kind BY DEF params
<1>2. Stage(w)'
  BY <1>1 DEF Stage, Installing, Updating, Uninstalling, Migrating, Relinking, Ensuring
<1>3. OldTypes(w)' BY AloneKnows DEF OldTypes, old
<1>4. Settled(oldTree[w], oldLink[w], oldAppLink[w])' /\ (owned => Kept(oldTree[w], oldAppLink[w]))'
  BY AloneKnows DEF old, Settled, OneApp, NoBackups, Leads, Kept, Sound
<1> QED BY <1>2, <1>3, <1>4 DEF Lawful, SerialInv, Leaves

(* ... and one that ends leaves the disk settled. *)
LEMMA Concluded ==
    ASSUME NEW w, Alone(w), pc'[w] = "idle", UNCHANGED <<params, old>>,
           Settled(tree, link, appLink)', owned' => Kept(tree, appLink)', Leaves(w)
    PROVE  Lawful(w)
<1>1. Stage(w)'
  BY DEF Stage, Installing, Updating, Uninstalling, Migrating, Relinking, Ensuring, LinksComing,
         Unpacks, Linking
<1>2. OldTypes(w)' BY AloneKnows DEF OldTypes, old
<1> QED BY <1>1, <1>2 DEF Lawful, SerialInv

(* Where nothing but the cache has changed the disk is settled again. *)
LEMMA StillSettled ==
    ASSUME NEW w, Alone(w), pc[w] # "idle", UNCHANGED old, Alike(w, {})', SameLinks(w)'
    PROVE  Settled(tree, link, appLink)' /\ SameTrees(w)' /\ (owned => Kept(tree, appLink)')
<1>1. Settled(oldTree[w], oldLink[w], oldAppLink[w]) BY AloneKnows
<1>2. \A pl \in Places \ {Cache} : tree'[pl] = oldTree[w][pl] BY DEF Alike, old
<1>3. link' = oldLink[w] /\ appLink' = oldAppLink[w] BY DEF SameLinks, old
<1>4. /\ \A p \in Prefixes : tree'[App(p)] = oldTree[w][App(p)] /\ tree'[Backup(p)] = oldTree[w][Backup(p)]
      /\ \A p \in Storages \cup {Apps} : tree'[App(p)] = oldTree[w][App(p)]
  BY <1>2, PlaceFacts
<1>5. OneApp(tree') BY <1>1, <1>4 DEF Settled, OneApp
<1>6. NoBackups(tree') BY <1>1, <1>4 DEF Settled, NoBackups
<1>7. Leads(tree', link', appLink') BY <1>1, <1>3, <1>4, AloneKnows DEF Settled, Leads, OldTypes
<1>8. SameTrees(w)' BY <1>2 DEF SameTrees, old
<1>9. owned => Kept(tree', appLink') BY <1>3, <1>4, AloneKnows DEF Kept, Sound
<1> QED BY <1>5, <1>6, <1>7, <1>8, <1>9 DEF Kept, Sound, Settled, OneApp, NoBackups, Leads

LEMMA NothingDone ==
    ASSUME NEW w, Alone(w), pc[w] # "idle", NEW r, r # "ok", Finish(w, r),
           Alike(w, {})', SameLinks(w)'
    PROVE  Lawful(w)
<1>1. pc'[w] = "idle" /\ result'[w] = r /\ UNCHANGED <<params, old>> /\ (owned' => owned)
  BY Finishing
<1>2. Settled(tree, link, appLink)' /\ SameTrees(w)' /\ (owned' => Kept(tree, appLink)')
  BY <1>1, StillSettled
<1>3. Leaves(w) BY <1>1, <1>2 DEF Leaves
<1> QED BY <1>1, <1>2, <1>3, Concluded

-----------------------------------------------------------------------------
(* The checks. *)

LEMMA Checked ==
    ASSUME NEW w, Alone(w), pc[w] = "check"
    PROVE  /\ kind[w] \in {"install", "update", "uninstall", "migrate", "symlinks", "farm"}
           /\ Alike(w, {}) /\ SameLinks(w)
           /\ phase[w] = "forward"
           /\ Settled(tree, link, appLink) /\ (owned => Kept(tree, appLink))
<1>1. StageIn(kind[w], phase[w], pc[w]) /\ Stage(w) BY AloneKnows
<1>2. phase[w] = "forward" /\ kind[w] \in Kinds BY <1>1 DEF StageIn, Linking, Unpacking
<1>3. kind[w] \in {"install", "update", "uninstall", "migrate", "symlinks", "farm"}
  BY <1>2, KindsAssumption
<1>4. Alike(w, {}) /\ SameLinks(w)
  BY <1>1, <1>3 DEF Stage, Installing, Updating, Uninstalling, Migrating, Relinking, Ensuring
<1>5. Settled(oldTree[w], oldLink[w], oldAppLink[w]) BY AloneKnows
<1>6. \A p \in Prefixes : tree[App(p)] = oldTree[w][App(p)] /\ tree[Backup(p)] = oldTree[w][Backup(p)]
  BY <1>4, PlaceFacts DEF Alike
<1>7. Apps \in Prefixes /\ Storages \subseteq Prefixes /\ oldAppLink[w] \in Storages \cup {NoPrefix}
  BY AloneKnows DEF Prefixes, OldTypes
<1>8. Settled(tree, link, appLink)
  BY <1>4, <1>5, <1>6, <1>7 DEF Settled, OneApp, NoBackups, Leads, SameLinks
<1>9. owned => Kept(tree, appLink) BY <1>1, <1>4, <1>6, <1>7, AloneKnows DEF Kept, Sound, SameLinks
<1> QED BY <1>2, <1>3, <1>4, <1>8, <1>9

(* Links lead nowhere but to the one storage that has the application.     *)
LEMMA OneTarget ==
    ASSUME NEW t, NEW l, NEW a, Settled(t, l, a), NEW p \in Storages, t[App(p)] \in WithInfo,
           a \in Storages \cup {NoPrefix}
    PROVE  /\ a \in {NoPrefix, p}
           /\ \A q \in Storages \ {p} : t[App(q)] \notin WithInfo
           /\ \A n \in LinkNames : l[n] \in {NoPrefix, App(p), App(Apps)} /\ (l[n] = App(Apps) => l[n] = NoPrefix \/ a = p)
           /\ \A n \in LinkNames : l[n] = NoPrefix \/ n \in Files(t[App(p)])
           /\ t[App(p)] \notin Usable => a = NoPrefix
BY Kinships, FilesOf DEF Settled, OneApp, Leads

LEMMA NoTarget ==
    ASSUME NEW t, NEW l, NEW a, Settled(t, l, a), \A p \in Storages : t[App(p)] \notin WithInfo,
           a \in Storages \cup {NoPrefix}
    PROVE  a = NoPrefix /\ \A n \in LinkNames : l[n] = NoPrefix
BY Kinships, FilesOf DEF Settled, Leads

LEMMA CheckStops ==
    ASSUME NEW w, Alone(w), Check(w), NEW r \in {"failed", "already"}, Finish(w, r)
    PROVE  Lawful(w)
<1>1. pc[w] = "check" /\ UNCHANGED fsVars BY DEF Check
<1>2. Alike(w, {}) /\ SameLinks(w) BY <1>1, Checked
<1>3. UNCHANGED old BY Finishing
<1>4. Alike(w, {})' /\ SameLinks(w)' BY <1>1, <1>2, <1>3 DEF Alike, SameLinks, fsVars, old
<1> QED BY <1>1, <1>4, NothingDone

(* What the lemmas about the passing of a check have in common. *)
LEMMA Passing ==
    ASSUME NEW w, Alone(w), Check(w), pc' = [pc EXCEPT ![w] = FirstStep(w)],
           owned' = (owned /\ kind[w] # "uninstall"), UNCHANGED <<control, result>>
    PROVE  /\ pc[w] = "check" /\ pc'[w] = FirstStep(w) /\ UNCHANGED <<params, old, farm, phase>>
           /\ UNCHANGED <<tree, link, appLink>> /\ phase[w] = "forward"
           /\ Alike(w, {})' /\ SameLinks(w)'
           /\ \A p \in Prefixes :
                 tree[App(p)] = oldTree[w][App(p)] /\ tree[Backup(p)] = oldTree[w][Backup(p)]
           /\ Settled(tree, link, appLink) /\ (owned => Kept(tree, appLink))
           /\ link = oldLink[w] /\ appLink = oldAppLink[w]
           /\ (owned' => owned) /\ (kind[w] = "uninstall" => ~owned')
<1>1. pc[w] = "check" /\ UNCHANGED <<fsVars, params, old, phase, farm>> BY DEF Check, control
<1>2. /\ Alike(w, {}) /\ SameLinks(w) /\ phase[w] = "forward" /\ Settled(tree, link, appLink)
      /\ owned => Kept(tree, appLink)
  BY <1>1, Checked
<1>3. Alike(w, {})' /\ SameLinks(w)' BY <1>1, <1>2 DEF Alike, SameLinks, fsVars, old
<1>4. pc'[w] = FirstStep(w) BY AloneKnows DEF TypeOK
<1>5. \A p \in Prefixes : tree[App(p)] = oldTree[w][App(p)] /\ tree[Backup(p)] = oldTree[w][Backup(p)]
  BY <1>2, PlaceFacts DEF Alike
<1>6. link = oldLink[w] /\ appLink = oldAppLink[w] BY <1>2 DEF SameLinks
<1> QED BY <1>1, <1>2, <1>3, <1>4, <1>5, <1>6 DEF fsVars

LEMMA CheckPasses ==
    ASSUME NEW w, Alone(w), Check(w), Proceeds(w), pc' = [pc EXCEPT ![w] = FirstStep(w)],
           owned' = (owned /\ kind[w] # "uninstall"), UNCHANGED <<control, result>>
    PROVE  Lawful(w)
<1>1. /\ pc[w] = "check" /\ pc'[w] = FirstStep(w) /\ UNCHANGED <<params, old, farm, phase>>
      /\ UNCHANGED <<tree, link, appLink>> /\ phase[w] = "forward" /\ Alike(w, {})' /\ SameLinks(w)'
      /\ Settled(tree, link, appLink) /\ link = oldLink[w] /\ appLink = oldAppLink[w]
      /\ (owned => Kept(tree, appLink))
      /\ (owned' => owned) /\ (kind[w] = "uninstall" => ~owned')
  BY Passing
<1>2. \A p \in Prefixes : tree[App(p)] = oldTree[w][App(p)] /\ tree[Backup(p)] = oldTree[w][Backup(p)]
  BY Passing
<1>3. /\ kind'[w] = kind[w] /\ from'[w] = from[w] /\ to'[w] = to[w] /\ ver'[w] = ver[w] /\ force'[w] = force[w]
      /\ phase'[w] = "forward" /\ oldTree' = oldTree /\ oldLink' = oldLink /\ oldAppLink' = oldAppLink
      /\ tree' = tree /\ link' = link /\ appLink' = appLink /\ at' = at /\ todo' = todo
      /\ skipped' = skipped
  BY <1>1 DEF params, old, farm
<1>4. /\ ParamsOK(w) /\ Stage(w) /\ UpdatePrefixes \subseteq Storages /\ FsTypeOK
      /\ kind[w] \in {"install", "update", "uninstall", "migrate", "symlinks", "farm"}
  BY <1>1, AloneKnows, Checked DEF Alone, OneAtATime
<1>5. Storages \subseteq Prefixes /\ Apps \in Prefixes /\ oldAppLink[w] \in Storages \cup {NoPrefix}
  BY AloneKnows DEF Prefixes, OldTypes
<1>6. CASE kind[w] = "install"
  <2>1. pc'[w] = "extract" BY <1>1, <1>6 DEF FirstStep
  <2>2. to[w] \in Storages /\ ~AppIsInstalled(to[w]) BY <1>4, <1>6 DEF ParamsOK, Proceeds, InstallProceeds
  <2>3. NowhereYet(w)'
    BY <1>1, <1>2, <1>3, <1>4, <1>5, <1>6, <2>2, Lookups DEF NowhereYet, Stage, Installing
  <2>4. Installing(w)' /\ LinksComing(w)' /\ Unpacks(w)'
    BY <1>1, <2>1, <2>3 DEF Installing, LinksComing, Unpacks, Linking
  <2> QED BY <1>1, <1>6, <2>1, <2>4, Continued
<1>7. CASE kind[w] = "update"
  <2>1. pc'[w] = "unlink" BY <1>1, <1>7 DEF FirstStep
  <2>2. from[w] \in Storages /\ AppIsInstalled(from[w]) BY <1>4, <1>7 DEF ParamsOK, Proceeds, UpdateProceeds
  <2>3. oldTree'[w][App(from'[w])] \in WithInfo BY <1>2, <1>3, <1>4, <1>5, <2>2, Lookups
  <2>4. Updating(w)' /\ LinksComing(w)' /\ Unpacks(w)'
    BY <1>1, <2>1, <2>3 DEF Updating, LinksComing, Unpacks, Linking
  <2> QED BY <1>1, <1>7, <2>1, <2>4, Continued
<1>8. CASE kind[w] = "uninstall"
  <2>1. pc'[w] = "unlink" BY <1>1, <1>8 DEF FirstStep
  <2>2. from[w] \in Storages \cup {NoPrefix} /\ (force[w] \/ AppIsInstalled(from[w]))
    BY <1>4, <1>8 DEF ParamsOK, Proceeds, UninstallProceeds
  <2>3. force[w] \/ Found(w) BY <1>2, <1>4, <1>5, <2>2, Lookups DEF Found
  <2>4. Uninstalling(w)' /\ LinksComing(w)' /\ Unpacks(w)'
    BY <1>1, <1>3, <1>4, <1>8, <2>1, <2>3 DEF Stage, Uninstalling, Found, LinksComing, Unpacks, Linking
  <2> QED BY <1>1, <1>8, <2>1, <2>4, Continued
<1>9. CASE kind[w] = "migrate"
  <2>1. pc'[w] = "deploy" BY <1>1, <1>9 DEF FirstStep
  <2>2. /\ from[w] \in Storages /\ AppIsInstalled(from[w]) /\ to[w] \in Storages /\ ~AppIsInstalled(to[w])
    BY <1>4, <1>9 DEF ParamsOK, Proceeds, MigrateProceeds
  <2>3. tree[App(from[w])] \in WithInfo /\ tree[App(to[w])] \notin WithInfo /\ tree[App(to[w])] # "part"
        /\ ver[w] = oldTree[w][App(from[w])] /\ oldTree[w][App(from[w])] # "nobin"
    BY <1>1, <1>2, <1>4, <1>5, <1>9, <2>2, Lookups DEF Stage, Migrating
  <2>4. tree[App(to[w])] \in Trees BY <1>4, <1>5, <2>2, PlaceFacts DEF FsTypeOK
  <2>5. tree[App(to[w])] = "none" BY <2>3, <2>4, Kinships
  <2>6. /\ oldTree'[w][App(from'[w])] \in WithInfo /\ oldTree'[w][App(to'[w])] = "none"
        /\ ver'[w] = oldTree'[w][App(from'[w])] /\ ver'[w] # "nobin"
    BY <1>2, <1>3, <1>5, <2>2, <2>3, <2>5
  <2>7. Migrating(w)' /\ LinksComing(w)' /\ Unpacks(w)'
    BY <1>1, <1>3, <1>9, <2>1, <2>6 DEF Migrating, LinksComing, Unpacks, Linking
  <2> QED BY <1>1, <1>9, <2>1, <2>7, Continued
<1>10. CASE kind[w] = "farm"
  <2>1. pc'[w] = "farm" BY <1>1, <1>10 DEF FirstStep
  <2>2. Ensuring(w)' /\ LinksComing(w)' /\ Unpacks(w)'
    BY <1>1, <1>3, <1>4, <1>10, <2>1 DEF Stage, Ensuring, LinksComing, Unpacks, Linking
  <2> QED BY <1>1, <1>10, <2>1, <2>2, Continued
<1>11. CASE kind[w] = "symlinks"
  <2>1. pc'[w] \in {"linkbin", "unlink"} /\ (pc'[w] = "linkbin" <=> to[w] = NoPrefix)
    BY <1>1, <1>11 DEF FirstStep
  <2>2. Named(w)' = Named(w) /\ Named(w) \in Storages /\ tree[App(Named(w))] \in WithInfo \ {"nobin"}
    <3>1. Named(w) # NoPrefix /\ oldTree[w][App(Named(w))] \in WithInfo \ {"nobin"} /\ from[w] \in Prefixes
          /\ to[w] \in Storages \cup {NoPrefix}
      BY <1>1, <1>4, <1>11 DEF Stage, Relinking, ParamsOK
    <3>2. Named(w) \in Storages BY <1>5, <3>1 DEF Named, Prefixes
    <3> QED BY <1>2, <1>3, <1>5, <3>1, <3>2 DEF Named
  <2>3. LinksLeft(w)' BY <1>1, <1>3 DEF LinksLeft
  <2>4. Relinking(w)' /\ Unpacks(w)'
    <3>1. (Named(w) # NoPrefix /\ oldTree[w][App(Named(w))] \in WithInfo \ {"nobin"})'
      BY <1>2, <1>3, <1>5, <2>2, PrefixAssumption
    <3> QED BY <1>1, <1>3, <2>1, <2>3, <3>1 DEF Relinking, Unpacks, Linking
  <2>5. ASSUME pc'[w] = "linkbin" PROVE LinksComing(w)'
    <3>1. to[w] = NoPrefix /\ LinkPlace(w)' = App(from[w]) /\ from[w] \in Prefixes
      BY <1>3, <1>4, <1>11, <2>1, <2>5 DEF LinkPlace, ParamsOK
    <3>2. OneApp(tree) /\ Leads(tree, link, appLink) BY <1>1 DEF Settled
    <3>3. tree[App(Named(w))] \notin Whole => ~owned
      BY <1>1, <2>2, Kinships DEF Kept, Sound
    <3>4. Target(App(from[w])) = App(Named(w))
      BY <1>1, <1>4, <1>5, <3>1, <2>2, Lookups DEF Named, Prefixes
    <3>5. tree'[Target(LinkPlace(w))'] = tree[App(Named(w))]
      BY <1>3, <3>1, <3>4, Kinships DEF Target, Resolve
    <3> QED BY <1>1, <1>3, <2>5, <3>2, <3>3, <3>5 DEF LinksComing, OneApp, Leads
  <2>6. LinksComing(w)' BY <2>1, <2>5 DEF LinksComing, Linking
  <2> QED BY <1>1, <1>11, <2>1, <2>4, <2>6, Continued
<1> QED BY <1>4, <1>6, <1>7, <1>8, <1>9, <1>10, <1>11

LEMMA CheckLawful ==
    ASSUME NEW w, Alone(w), Check(w)
    PROVE  Lawful(w)
BY CheckPasses, CheckStops DEF Check, Refused

-----------------------------------------------------------------------------
(* The removal of links. *)

LEMMA PruneEffect ==
    ASSUME FsTypeOK, NEW p, PruneSymlinks(p)
    PROVE  /\ appLink' = NoPrefix /\ \A n \in LinkNames : link'[n] \in {NoPrefix, link[n]}
           /\ \A n \in Files(TreeAt(p)) : link'[n] = NoPrefix
           /\ (\A n \in LinkNames : link'[n] = NoPrefix) => link' = [n \in LinkNames |-> NoPrefix]
<1>1. PICK files \in Exports(TreeAt(p)) :
         link' = [n \in LinkNames |-> IF n \in files THEN NoPrefix ELSE link[n]]
  BY DEF PruneSymlinks, PruneFarm
<1>2. \A n \in Files(TreeAt(p)) : n \in files /\ n \in LinkNames BY <1>1, Kinships, FilesOf
<1>3. appLink' = NoPrefix BY DEF PruneSymlinks
<1> QED BY <1>1, <1>2, <1>3

(* Those of the one copy there is are all removed. *)
LEMMA PruneAll ==
    ASSUME NEW w, Alone(w), pc[w] # "idle", SameLinks(w), NEW p \in Storages,
           oldTree[w][App(p)] \in WithInfo, tree[App(p)] = oldTree[w][App(p)], PruneSymlinks(p)
    PROVE  NoLinks'
<1>1. FsTypeOK /\ Settled(oldTree[w], oldLink[w], oldAppLink[w]) /\ oldAppLink[w] \in Storages \cup {NoPrefix}
  BY AloneKnows DEF OldTypes
<1>2. TreeAt(p) = oldTree[w][App(p)] BY <1>1, Lookups
<1>3. \A n \in LinkNames : link[n] = NoPrefix \/ n \in Files(TreeAt(p))
  BY <1>1, <1>2, OneTarget DEF SameLinks
<1> QED BY <1>1, <1>3, PruneEffect DEF NoLinks

LEMMA UnlinkLawful ==
    ASSUME NEW w, Alone(w), Unlink(w)
    PROVE  Lawful(w)
<1>0. ~Fault(w, "unlink") BY OnlyHandled, AloneKnows DEF Alone
<1>1. /\ pc[w] = "unlink" /\ UNCHANGED tree /\ Goto(w, AfterUnlink[kind[w]])
      /\ PruneSymlinks(IF kind[w] = "install" THEN to[w] ELSE from[w])
  BY <1>0 DEF Unlink
<1>2. /\ ParamsOK(w) /\ Stage(w) /\ UpdatePrefixes \subseteq Storages /\ FsTypeOK
      /\ kind[w] \in {"install", "update", "uninstall", "migrate", "symlinks"}
      /\ Storages \subseteq Prefixes /\ Apps \in Prefixes /\ oldAppLink[w] \in Storages \cup {NoPrefix}
      /\ Settled(oldTree[w], oldLink[w], oldAppLink[w]) /\ (owned => Kept(oldTree[w], oldAppLink[w]))
  BY <1>1, AloneKnows DEF Alone, OneAtATime, Prefixes, OldTypes, StageIn, Linking, Unpacking
<1>3. /\ AfterUnlink[kind[w]] \in Steps /\ AfterUnlink[kind[w]] # "idle"
      /\ kind[w] \in {"install", "uninstall"} => AfterUnlink[kind[w]] = "remove"
      /\ kind[w] = "update" => AfterUnlink[kind[w]] = "backup"
      /\ kind[w] \in {"migrate", "symlinks"} => AfterUnlink[kind[w]] = "linkbin"
  BY <1>2 DEF AfterUnlink, Steps
<1>4. pc'[w] = AfterUnlink[kind[w]] /\ UNCHANGED <<params, old, phase, farm, owned>>
  BY <1>1, <1>3, Going
<1>5. /\ kind'[w] = kind[w] /\ from'[w] = from[w] /\ to'[w] = to[w] /\ ver'[w] = ver[w] /\ force'[w] = force[w]
      /\ phase'[w] = phase[w] /\ oldTree' = oldTree /\ oldLink' = oldLink /\ oldAppLink' = oldAppLink
      /\ tree' = tree /\ owned' = owned
  BY <1>1, <1>4 DEF params, old, farm
<1>6. appLink' = NoPrefix /\ \A n \in LinkNames : link'[n] \in {NoPrefix, link[n]} BY <1>1, <1>2, PruneEffect
<1>7. Unpacks(w)' BY <1>2, <1>3, <1>4 DEF Unpacks
<1>8. CASE kind[w] = "install"
  <2>1. /\ Alike(w, {App(to[w])}) /\ oldTree[w][App(to[w])] = "none" /\ NowhereYet(w)
        /\ tree[App(to[w])] = ver[w] /\ ver[w] \in Versions /\ to[w] \in Storages
    BY <1>1, <1>2, <1>8 DEF Stage, Installing, ParamsOK
  <2>2. NoLinks'
    BY <1>1, <1>2, <1>6, <1>8, <2>1, Kinships, FilesOf, Lookups, PruneEffect DEF NoLinks
  <2>3. Installing(w)' /\ LinksComing(w)'
    BY <1>3, <1>4, <1>5, <1>8, <2>1, <2>2 DEF Installing, Alike, NowhereYet, LinksComing, Linking
  <2> QED BY <1>1, <1>3, <1>4, <1>7, <1>8, <2>3, Continued
<1>9. CASE kind[w] = "update"
  <2>1. Alike(w, {}) /\ SameLinks(w) /\ from[w] \in Storages /\ oldTree[w][App(from[w])] \in WithInfo
    BY <1>1, <1>2, <1>9 DEF Stage, Updating, ParamsOK
  <2>2. NoLinks' BY <1>1, <1>2, <1>9, <2>1, PlaceFacts, PruneAll DEF Alike
  <2>3. Updating(w)' /\ LinksComing(w)'
    BY <1>3, <1>4, <1>5, <1>9, <2>1, <2>2 DEF Updating, Alike, LinksComing, Linking
  <2> QED BY <1>1, <1>3, <1>4, <1>7, <1>9, <2>3, Continued
<1>10. CASE kind[w] = "uninstall"
  <2>1. /\ Alike(w, {}) /\ SameLinks(w) /\ from[w] \in Storages \cup {NoPrefix}
        /\ ~owned /\ (force[w] \/ Found(w))
        /\ ~Found(w) /\ force[w] => \A n \in LinkNames : oldLink[w][n] # App(Apps)
    BY <1>1, <1>2, <1>10 DEF Stage, Uninstalling, ParamsOK
  <2>2. Found(w) => NoLinks' BY <1>1, <1>2, <1>10, <2>1, PlaceFacts, PruneAll DEF Alike, Found
  <2>3. Found(w)' = Found(w) /\ LinksLeft(w)' BY <1>5, <1>6, <2>1 DEF Found, LinksLeft, SameLinks
  <2>4. Uninstalling(w)' /\ LinksComing(w)'
    BY <1>3, <1>4, <1>5, <1>6, <1>10, <2>1, <2>2, <2>3 DEF Uninstalling, Alike, LinksComing, Linking
  <2> QED BY <1>1, <1>3, <1>4, <1>7, <1>10, <2>4, Continued
<1>11. CASE kind[w] = "migrate"
  <2>1. /\ Alike(w, {App(from[w]), App(to[w])}) /\ SameLinks(w) /\ from[w] \in Storages /\ to[w] \in Storages
        /\ oldTree[w][App(from[w])] \in WithInfo /\ oldTree[w][App(to[w])] = "none"
        /\ tree[App(from[w])] = "none" /\ tree[App(to[w])] = oldTree[w][App(from[w])]
        /\ ver[w] = oldTree[w][App(from[w])] /\ ver[w] # "nobin"
    BY <1>1, <1>2, <1>11 DEF Stage, Migrating, ParamsOK
  <2>2. LinksLeft(w)' BY <1>5, <1>6, <2>1 DEF LinksLeft, SameLinks
  <2>3. Migrating(w)'
    BY <1>3, <1>4, <1>5, <1>6, <1>11, <2>1, <2>2, Kinships DEF Migrating, Alike, Linking
  <2>4. /\ \A p \in Storages \ {from[w], to[w]} : tree[App(p)] = oldTree[w][App(p)]
        /\ tree[App(Apps)] = oldTree[w][App(Apps)]
    BY <1>2, <2>1, Lookups, PlaceFacts DEF Alike
  <2>5. OneApp(tree)' BY <1>2, <1>5, <2>1, <2>4, OneTarget, Kinships DEF OneApp, Settled
  <2>6. LinkPlace(w)' = App(to[w]) /\ Target(App(to[w]))' = App(to[w])
    <3>1. phase'[w] = "forward" BY <1>1, <1>2, <1>5, <1>11, AloneKnows DEF StageIn, Linking
    <3> QED BY <1>2, <1>5, <1>11, <2>1, <3>1, AloneKnows, Lookups, PlaceFacts DEF LinkPlace, Target
  <2>7. tree[App(to[w])] \notin Whole => Leads(tree, link, appLink)' /\ ~owned
    <3> SUFFICES ASSUME tree[App(to[w])] \notin Whole PROVE Leads(tree, link, appLink)' /\ ~owned
      OBVIOUS
    <3>1. oldTree[w][App(from[w])] \notin Usable BY <2>1, Kinships
    <3>2. oldAppLink[w] = NoPrefix /\ \A n \in LinkNames : oldLink[w][n] = NoPrefix
      BY <1>2, <2>1, <3>1, OneTarget, FilesOf
    <3> QED BY <1>2, <1>5, <1>6, <2>2, <3>2 DEF Leads, LinksLeft, Kept
  <2>8. tree'[Target(LinkPlace(w))'] = tree[App(to[w])] BY <1>5, <2>6
  <2>9. LinksComing(w)'
    BY <1>3, <1>4, <1>5, <1>6, <1>11, <2>5, <2>7, <2>8 DEF LinksComing, Linking
  <2> QED BY <1>1, <1>3, <1>4, <1>7, <1>11, <2>3, <2>9, Continued
<1>12. CASE kind[w] = "symlinks"
  <2>1. /\ Alike(w, {}) /\ SameLinks(w) /\ to[w] \in Storages /\ Named(w) = to[w]
        /\ oldTree[w][App(to[w])] \in WithInfo \ {"nobin"}
    BY <1>1, <1>2, <1>12 DEF Stage, Relinking, ParamsOK, Named
  <2>2. LinksLeft(w)' /\ Named(w)' = Named(w) BY <1>5, <1>6, <2>1 DEF LinksLeft, SameLinks, Named
  <2>3. Relinking(w)'
    BY <1>2, <1>3, <1>4, <1>5, <1>6, <1>12, <2>1, <2>2, Lookups DEF Relinking, Alike, Linking
  <2>4. \A p \in Prefixes : tree[App(p)] = oldTree[w][App(p)] BY <2>1, PlaceFacts DEF Alike
  <2>5. OneApp(tree)' BY <1>2, <1>5, <2>4 DEF OneApp, Settled
  <2>6. LinkPlace(w)' = App(to[w]) /\ Target(App(to[w]))' = App(to[w])
    <3>1. phase'[w] = "forward" BY <1>1, <1>2, <1>5, <1>12, AloneKnows DEF StageIn, Linking
    <3> QED BY <1>2, <1>5, <1>12, <2>1, <3>1, AloneKnows, Lookups, PlaceFacts DEF LinkPlace, Target
  <2>7. tree[App(to[w])] \notin Whole => Leads(tree, link, appLink)' /\ ~owned
    <3> SUFFICES ASSUME tree[App(to[w])] \notin Whole PROVE Leads(tree, link, appLink)' /\ ~owned
      OBVIOUS
    <3>1. oldTree[w][App(to[w])] \notin Usable BY <1>2, <2>1, <2>4, Kinships
    <3>2. oldAppLink[w] = NoPrefix /\ \A n \in LinkNames : oldLink[w][n] = NoPrefix
      BY <1>2, <2>1, <3>1, OneTarget, FilesOf
    <3> QED BY <1>2, <1>5, <1>6, <2>2, <3>2 DEF Leads, LinksLeft, Kept
  <2>8. tree'[Target(LinkPlace(w))'] = tree[App(to[w])] BY <1>5, <2>6
  <2>9. LinksComing(w)'
    BY <1>3, <1>4, <1>5, <1>6, <1>12, <2>5, <2>7, <2>8 DEF LinksComing, Linking
  <2> QED BY <1>1, <1>3, <1>4, <1>7, <1>12, <2>3, <2>9, Continued
<1> QED BY <1>2, <1>8, <1>9, <1>10, <1>11, <1>12

-----------------------------------------------------------------------------
(* The backup, and the way back from it. *)

(* The directories are as they were, but for what a failed removal had     *)
(* left in the target.                                                     *)
LEMMA TreesSettle ==
    ASSUME NEW w, Alone(w), pc[w] # "idle", UNCHANGED old, NEW p \in Storages,
           Alike(w, {App(p)})', Cleaned(w, App(p))'
    PROVE  /\ OneApp(tree)' /\ NoBackups(tree)' /\ SameTrees(w)' /\ (Sound(oldTree[w]) => Sound(tree)')
           /\ \A q \in Storages : oldTree[w][App(q)] \in WithInfo \cup Whole => tree'[App(q)] = oldTree[w][App(q)]
<1>1. Settled(oldTree[w], oldLink[w], oldAppLink[w]) /\ Storages \subseteq Prefixes /\ Apps \in Prefixes
      /\ p \in Prefixes /\ p # Apps
  BY AloneKnows, Lookups
<1>2. \A pl \in Places \ {App(p), Cache} : tree'[pl] = oldTree[w][pl] BY DEF Alike, old
<1>3. tree'[App(p)] = oldTree[w][App(p)] \/ (oldTree[w][App(p)] = "part" /\ tree'[App(p)] = "none")
  BY DEF Cleaned, old
<1>4. /\ \A q \in Prefixes : tree'[Backup(q)] = oldTree[w][Backup(q)]
      /\ \A q \in Prefixes \ {p} : tree'[App(q)] = oldTree[w][App(q)]
  BY <1>1, <1>2, PlaceFacts
<1>5. \A q \in Storages :
         /\ oldTree[w][App(q)] \in WithInfo \cup Whole => tree'[App(q)] = oldTree[w][App(q)]
         /\ tree'[App(q)] \in WithInfo => oldTree[w][App(q)] \in WithInfo
  BY <1>1, <1>3, <1>4, Kinships
<1>6. OneApp(tree)' BY <1>1, <1>4, <1>5 DEF OneApp, Settled
<1>7. NoBackups(tree)' BY <1>1, <1>4 DEF NoBackups, Settled
<1>8. SameTrees(w)' BY <1>2, <1>3, Kinships DEF SameTrees, old
<1>9. Sound(oldTree[w]) => Sound(tree)' BY <1>1, <1>5, Kinships DEF Sound
<1> QED BY <1>5, <1>6, <1>7, <1>8, <1>9

LEMMA NothingMoved ==
    ASSUME NEW w, Alone(w), pc[w] # "idle", NEW r, r # "ok", Finish(w, r), NEW p \in Storages,
           Alike(w, {App(p)})', Cleaned(w, App(p))', SameLinks(w)'
    PROVE  Lawful(w)
<1>1. pc'[w] = "idle" /\ result'[w] = r /\ UNCHANGED <<params, old>> /\ (owned' => owned)
  BY Finishing
<1>2. /\ OneApp(tree)' /\ NoBackups(tree)' /\ SameTrees(w)' /\ (Sound(oldTree[w]) => Sound(tree)')
      /\ \A q \in Storages : oldTree[w][App(q)] \in WithInfo \cup Whole => tree'[App(q)] = oldTree[w][App(q)]
  BY <1>1, TreesSettle
<1>3. owned' => Kept(tree, appLink)' BY <1>1, <1>2, AloneKnows DEF SameLinks, old, Kept
<1>4. Leads(tree, link, appLink)'
  BY <1>1, <1>2, AloneKnows, FilesOf, Kinships DEF SameLinks, old, Leads, Settled, OldTypes
<1>5. Leaves(w) BY <1>1, <1>2 DEF Leaves
<1> QED BY <1>1, <1>2, <1>3, <1>4, <1>5, Concluded DEF Settled, OneApp, NoBackups, Leads

LEMMA ComesToLink ==
    ASSUME NEW w, Alone(w), pc'[w] = "linkbin", OneApp(tree)', appLink' = NoPrefix,
           NEW p \in Storages, LinkPlace(w)' = App(p),
           tree'[App(p)] \in Whole \/ (Leads(tree, link, appLink)' /\ ~owned')
    PROVE  LinksComing(w)'
<1>1. Target(App(p))' = App(p) BY AloneKnows, Lookups, PlaceFacts DEF Target
<1>2. tree'[Target(LinkPlace(w))'] = tree'[App(p)] BY <1>1
<1> QED BY <1>2 DEF LinksComing, Linking

LEMMA UpdateKnows ==
    ASSUME NEW w, Alone(w), kind[w] = "update", pc[w] # "idle"
    PROVE  /\ from[w] \in Storages /\ to[w] \in Storages /\ ver[w] \in Versions /\ Updating(w)
           /\ from[w] \in Prefixes /\ to[w] \in Prefixes /\ UpdatePrefixes \subseteq Storages
           /\ App(from[w]) \in Places /\ App(to[w]) \in Places /\ Backup(from[w]) \in Places /\ Cache \in Places
           /\ App(from[w]) # Backup(from[w]) /\ App(to[w]) # Backup(from[w])
           /\ App(from[w]) # Cache /\ App(to[w]) # Cache /\ Backup(from[w]) # Cache
           /\ oldTree[w][Backup(from[w])] = "none"
           /\ oldTree[w][App(from[w])] \in WithInfo =>
                 \A q \in Storages \ {from[w]} : oldTree[w][App(q)] \notin WithInfo
           /\ tree \in [Places -> Trees] /\ oldTree[w] \in [Places -> Trees]
           /\ oldTree[w][App(Apps)] = "none"
<1>1. ParamsOK(w) /\ Stage(w) /\ OldTypes(w) /\ Settled(oldTree[w], oldLink[w], oldAppLink[w])
      /\ UpdatePrefixes \subseteq Storages /\ FsTypeOK
  BY AloneKnows DEF Alone, OneAtATime
<1>2. from[w] \in Storages /\ to[w] \in Storages /\ ver[w] \in Versions /\ Updating(w)
  BY <1>1 DEF ParamsOK, Stage
<1> QED BY <1>1, <1>2, PlaceFacts, Lookups, OneTarget DEF Settled, NoBackups, OneApp, OldTypes, FsTypeOK

(* The update has put the old version back, or left it, and links it. *)
LEMMA LinksBack ==
    ASSUME NEW w, Alone(w), kind[w] = "update", pc[w] \notin {"idle", "check"}, GoBack(w, "linkbin"),
           Alike(w, {App(to[w])})', Cleaned(w, App(to[w]))', NoLinks'
    PROVE  Lawful(w)
<1>1. pc'[w] = "linkbin" /\ phase'[w] = "back" /\ UNCHANGED <<params, farm, old, owned>>
  BY GoingBack DEF Steps
<1>2. /\ from[w] \in Storages /\ to[w] \in Storages /\ oldTree[w][App(from[w])] \in WithInfo
  BY UpdateKnows DEF Updating
<1>3. OneApp(tree)' /\ tree'[App(from[w])] = oldTree[w][App(from[w])] /\ (Sound(oldTree[w]) => Sound(tree)')
  <2>1. /\ OneApp(tree)' /\ (Sound(oldTree[w]) => Sound(tree)')
        /\ \A q \in Storages : oldTree[w][App(q)] \in WithInfo \cup Whole => tree'[App(q)] = oldTree[w][App(q)]
    BY <1>1, <1>2, TreesSettle DEF params
  <2> QED BY <1>2, <2>1
<1>4. kind'[w] = "update" /\ from'[w] = from[w] /\ to'[w] = to[w] /\ oldTree' = oldTree
      /\ LinkPlace(w)' = App(from[w]) /\ appLink' = NoPrefix
  BY <1>1 DEF params, LinkPlace, old, NoLinks
<1>5. tree'[App(from[w])] \notin Whole => ~owned'
  BY <1>1, <1>2, <1>3, AloneKnows, Kinships DEF Kept, Sound
<1>6. Leads(tree, link, appLink)' BY <1>4 DEF Leads, NoLinks
<1>7. LinksComing(w)' BY <1>1, <1>2, <1>3, <1>4, <1>5, <1>6, ComesToLink
<1>8. Updating(w)' BY <1>1, <1>2, <1>4 DEF Updating, Linking, NoLinks
<1>9. Unpacks(w)' BY <1>1 DEF Unpacks
<1> QED BY <1>1, <1>7, <1>8, <1>9, Continued

LEMMA BackupAppLawful ==
    ASSUME NEW w, Alone(w), BackupApp(w)
    PROVE  Lawful(w)
<1>0. pc[w] = "backup" BY DEF BackupApp
<1>1. kind[w] = "update" BY <1>0, AloneKnows DEF StageIn, Linking, Unpacking
<1>2. Alike(w, {}) /\ NoLinks /\ oldTree[w][App(from[w])] \in WithInfo
  BY <1>0, <1>1, UpdateKnows DEF Updating
<1>3. tree[App(from[w])] = oldTree[w][App(from[w])] /\ tree[Backup(from[w])] = "none"
  BY <1>0, <1>1, <1>2, UpdateKnows DEF Alike
<1>4. CanRename(App(from[w]), Backup(from[w])) BY <1>2, <1>3, Kinships DEF CanRename
<1>5. ~Fault(w, "backup") BY <1>1, OnlyHandled, AloneKnows DEF Alone
<1>6. CASE Disturb(Renamed(App(from[w]), Backup(from[w]))) /\ Goto(w, "extract")
  <2>1. pc'[w] = "extract" /\ UNCHANGED <<params, phase, farm, old, owned>> BY <1>6, Going DEF Steps
  <2>2. /\ tree'[Backup(from[w])] = oldTree[w][App(from[w])] /\ tree'[App(from[w])] = "none"
        /\ \A pl \in Places \ {App(from[w]), Backup(from[w])} : tree'[pl] = tree[pl]
        /\ UNCHANGED <<link, appLink>>
    BY <1>0, <1>1, <1>3, <1>6, UpdateKnows DEF Disturb, Renamed
  <2>3. Alike(w, {App(from[w]), Backup(from[w])})' BY <1>2, <2>1, <2>2 DEF Alike, old, params
  <2>4. Updating(w)' BY <1>1, <1>2, <2>1, <2>2, <2>3 DEF Updating, Linking, params, old, NoLinks
  <2>5. LinksComing(w)' /\ Unpacks(w)' BY <2>1 DEF LinksComing, Unpacks, Linking
  <2> QED BY <1>0, <1>1, <2>1, <2>4, <2>5, Continued
<1>7. CASE Fills(Backup(from[w])) /\ Goto(w, "backupcopy")
  <2>1. pc'[w] = "backupcopy" /\ UNCHANGED <<params, phase, farm, old, owned>> BY <1>7, Going DEF Steps
  <2>2. /\ tree'[Backup(from[w])] \in Partial /\ UNCHANGED <<link, appLink>>
        /\ \A pl \in Places \ {Backup(from[w])} : tree'[pl] = tree[pl]
    BY <1>0, <1>1, <1>7, UpdateKnows DEF Fills, Halfway
  <2>3. Alike(w, {Backup(from[w])})' BY <1>2, <2>1, <2>2 DEF Alike, old, params
  <2>4. Updating(w)' BY <1>1, <1>2, <2>1, <2>2, <2>3 DEF Updating, Linking, params, old, NoLinks
  <2>5. LinksComing(w)' /\ Unpacks(w)' BY <2>1 DEF LinksComing, Unpacks, Linking
  <2> QED BY <1>0, <1>1, <2>1, <2>4, <2>5, Continued
<1> QED BY <1>2, <1>3, <1>4, <1>5, <1>6, <1>7, Kinships DEF BackupApp

LEMMA BackupCopyLawful ==
    ASSUME NEW w, Alone(w), BackupCopy(w)
    PROVE  Lawful(w)
<1>0. pc[w] = "backupcopy" BY DEF BackupCopy
<1>1. kind[w] = "update" BY <1>0, AloneKnows DEF StageIn, Linking, Unpacking
<1>2. Alike(w, {Backup(from[w])}) /\ NoLinks /\ oldTree[w][App(from[w])] \in WithInfo
  BY <1>0, <1>1, UpdateKnows DEF Updating
<1>3. tree[App(from[w])] = oldTree[w][App(from[w])] BY <1>0, <1>1, <1>2, UpdateKnows DEF Alike
<1>4. CASE Disturb(Copied(App(from[w]), Backup(from[w]))) /\ Goto(w, "backupdrop")
  <2>1. pc'[w] = "backupdrop" /\ UNCHANGED <<params, phase, farm, old, owned>> BY <1>4, Going DEF Steps
  <2>2. /\ tree'[Backup(from[w])] = oldTree[w][App(from[w])] /\ UNCHANGED <<link, appLink>>
        /\ \A pl \in Places \ {App(from[w]), Backup(from[w])} : tree'[pl] = tree[pl]
    BY <1>0, <1>1, <1>3, <1>4, UpdateKnows DEF Disturb, Copied
  <2>3. Alike(w, {App(from[w]), Backup(from[w])})' BY <1>2, <2>1, <2>2 DEF Alike, old, params
  <2>4. Updating(w)' BY <1>1, <1>2, <2>1, <2>2, <2>3 DEF Updating, Linking, params, old, NoLinks
  <2>5. LinksComing(w)' /\ Unpacks(w)' BY <2>1 DEF LinksComing, Unpacks, Linking
  <2> QED BY <1>0, <1>1, <2>1, <2>4, <2>5, Continued
<1>5. CASE Disturb(Removed(Backup(from[w]))) /\ GoBack(w, "linkbin")
  <2>1. UNCHANGED <<params, old>> BY <1>5 DEF GoBack
  <2>2. /\ tree'[Backup(from[w])] = oldTree[w][Backup(from[w])] /\ UNCHANGED <<link, appLink>>
        /\ \A pl \in Places \ {Backup(from[w])} : tree'[pl] = tree[pl]
    BY <1>0, <1>1, <1>5, UpdateKnows DEF Disturb, Removed
  <2>3. \A pl \in Places \ {Cache} : tree'[pl] = oldTree[w][pl] BY <1>2, <2>2 DEF Alike
  <2>4. Alike(w, {App(to[w])})' /\ Cleaned(w, App(to[w]))'
    BY <1>0, <1>1, <2>1, <2>3, UpdateKnows DEF Alike, Cleaned, old, params
  <2> QED BY <1>0, <1>1, <1>2, <1>5, <2>2, <2>4, LinksBack DEF NoLinks
<1> QED BY <1>4, <1>5 DEF BackupCopy, BackupCopyFailed

LEMMA BackupDropLawful ==
    ASSUME NEW w, Alone(w), BackupDrop(w)
    PROVE  Lawful(w)
<1>0. pc[w] = "backupdrop" BY DEF BackupDrop, DropSource
<1>1. kind[w] = "update" BY <1>0, AloneKnows DEF StageIn, Linking, Unpacking
<1>2. /\ Alike(w, {App(from[w]), Backup(from[w])}) /\ NoLinks /\ oldTree[w][App(from[w])] \in WithInfo
      /\ tree[Backup(from[w])] = oldTree[w][App(from[w])]
  BY <1>0, <1>1, UpdateKnows DEF Updating
<1>3. ~Fault(w, "backupdrop") BY <1>1, OnlyHandled, AloneKnows DEF Alone
<1>4. PICK s \in {"backupdrop", "extract"} :
         /\ Goto(w, s) /\ UNCHANGED <<link, appLink>>
         /\ \A pl \in Places \ {App(from[w])} : tree'[pl] = tree[pl]
         /\ s = "extract" => tree'[App(from[w])] = "none"
  BY <1>0, <1>1, <1>3, UpdateKnows DEF BackupDrop, DropSource, Guts, Gutted, Disturb, Removed
<1>5. pc'[w] = s /\ UNCHANGED <<params, phase, farm, old, owned>> BY <1>4, Going DEF Steps
<1>6. tree'[Backup(from[w])] = oldTree[w][App(from[w])] BY <1>0, <1>1, <1>2, <1>4, UpdateKnows
<1>7. Alike(w, {App(from[w]), Backup(from[w])})' BY <1>2, <1>4, <1>5 DEF Alike, old, params
<1>8. Updating(w)' BY <1>1, <1>2, <1>4, <1>5, <1>6, <1>7 DEF Updating, Linking, params, old, NoLinks
<1>9. LinksComing(w)' /\ Unpacks(w)' BY <1>5 DEF LinksComing, Unpacks, Linking
<1> QED BY <1>0, <1>1, <1>5, <1>8, <1>9, Continued

(* eam_fs_restore_app finds its way free. *)
LEMMA RestoreAppLawful ==
    ASSUME NEW w, Alone(w), RestoreApp(w)
    PROVE  Lawful(w)
<1>0. pc[w] = "restore" BY DEF RestoreApp
<1>1. kind[w] = "update" /\ phase[w] = "back" BY <1>0, AloneKnows DEF StageIn, Linking, Unpacking
<1>2. /\ Alike(w, {App(from[w]), Backup(from[w]), App(to[w])}) /\ NoLinks
      /\ tree[App(from[w])] = "none" /\ tree[Backup(from[w])] = oldTree[w][App(from[w])]
      /\ App(to[w]) # App(from[w]) => Cleaned(w, App(to[w]))
      /\ oldTree[w][App(from[w])] \in WithInfo
  BY <1>0, <1>1, UpdateKnows DEF Updating
<1>3. CanRename(Backup(from[w]), App(from[w])) /\ TargetFree(from[w])
  BY <1>0, <1>1, <1>2, UpdateKnows, Kinships, Lookups, AloneKnows DEF CanRename
<1>4. ~Fault(w, "restore") BY <1>1, OnlyHandled, AloneKnows DEF Alone
<1>5. Disturb(Renamed(Backup(from[w]), App(from[w]))) /\ Goto(w, "linkbin")
  BY <1>3, <1>4 DEF RestoreApp
<1>6. UNCHANGED <<params, old>> /\ GoBack(w, "linkbin")
  <2>1. phase' = [phase EXCEPT ![w] = "back"] BY <1>1, <1>5, AloneKnows DEF Goto, control, TypeOK
  <2> QED BY <1>5, <2>1 DEF Goto, GoBack, control
<1>7. /\ tree'[App(from[w])] = oldTree[w][App(from[w])] /\ UNCHANGED <<link, appLink>>
      /\ tree'[Backup(from[w])] = oldTree[w][Backup(from[w])]
      /\ \A pl \in Places \ {App(from[w]), Backup(from[w])} : tree'[pl] = tree[pl]
  BY <1>0, <1>1, <1>2, <1>5, UpdateKnows DEF Disturb, Renamed
<1>8. Alike(w, {App(to[w])})' /\ Cleaned(w, App(to[w]))'
  BY <1>0, <1>1, <1>2, <1>6, <1>7, UpdateKnows DEF Alike, Cleaned, old, params
<1> QED BY <1>0, <1>1, <1>2, <1>6, <1>7, <1>8, LinksBack DEF NoLinks

-----------------------------------------------------------------------------
(* The new version is unpacked and deployed. *)

LEMMA InstallKnows ==
    ASSUME NEW w, Alone(w), kind[w] = "install", pc[w] # "idle"
    PROVE  /\ to[w] \in Storages /\ to[w] \in Prefixes /\ ver[w] \in Versions /\ Installing(w)
           /\ App(to[w]) \in Places /\ App(to[w]) # Cache /\ Cache \in Places
           /\ tree \in [Places -> Trees] /\ oldTree[w] \in [Places -> Trees]
           /\ oldTree[w][App(Apps)] = "none" /\ NoBackups(oldTree[w])
           /\ NowhereYet(w) =>
                 oldAppLink[w] = NoPrefix /\ oldLink[w] = [n \in LinkNames |-> NoPrefix]
<1>1. ParamsOK(w) /\ Stage(w) /\ OldTypes(w) /\ Settled(oldTree[w], oldLink[w], oldAppLink[w]) /\ FsTypeOK
  BY AloneKnows
<1>2. to[w] \in Storages /\ ver[w] \in Versions /\ Installing(w) BY <1>1 DEF ParamsOK, Stage
<1>3. NowhereYet(w) => oldAppLink[w] = NoPrefix /\ oldLink[w] = [n \in LinkNames |-> NoPrefix]
  <2> SUFFICES ASSUME NowhereYet(w)
               PROVE  oldAppLink[w] = NoPrefix /\ oldLink[w] = [n \in LinkNames |-> NoPrefix]
    OBVIOUS
  <2>1. oldAppLink[w] = NoPrefix /\ \A n \in LinkNames : oldLink[w][n] = NoPrefix
    BY <1>1, NoTarget DEF NowhereYet, OldTypes
  <2> QED BY <1>1, <2>1 DEF OldTypes
<1> QED BY <1>1, <1>2, <1>3, PlaceFacts, Lookups DEF Settled, OneApp, OldTypes, FsTypeOK

LEMMA UnpackingDoes ==
    ASSUME NEW w, Alone(w), pc[w] \in Unpacking
    PROVE  /\ kind[w] \in {"install", "update"} \/ (kind[w] = "migrate" /\ pc[w] \in {"deploy", "deploycopy", "drop"})
           /\ phase[w] = "forward" /\ pc[w] # "idle" /\ pc[w] # "check"
BY AloneKnows DEF StageIn, Linking, Unpacking

(* An install that gives up before it has linked anything. *)
LEMMA InstallGivesUp ==
    ASSUME NEW w, Alone(w), kind[w] = "install", pc[w] \in Unpacking \ {"drop"}, Abandon(w),
           \A pl \in Places \ {App(to[w]), Cache} : tree'[pl] = tree[pl],
           tree'[App(to[w])] = "none" \/ (pc[w] # "deploycopy" /\ tree'[App(to[w])] = tree[App(to[w])]),
           UNCHANGED <<link, appLink>>
    PROVE  Lawful(w)
<1>1. Finish(w, "failed") /\ pc[w] # "idle" /\ pc[w] # "check" BY DEF Abandon, Unpacking
<1>2. UNCHANGED <<params, old>> BY <1>1, Finishing
<1>3. PICK p \in Storages : p = to[w] BY <1>1, InstallKnows
<1>4. NowhereYet(w) /\ (pc[w] # "deploycopy" => SameLinks(w)) /\ (pc[w] = "deploycopy" => NoLinks)
  BY <1>1, InstallKnows DEF Installing, Unpacking
<1>5. SameLinks(w) BY <1>1, <1>4, InstallKnows DEF SameLinks, NoLinks
<1>6. SameLinks(w)' BY <1>2, <1>5 DEF SameLinks, old
<1>7. \A pl \in Places \ {App(p), Cache} : tree'[pl] = oldTree[w][pl]
  BY <1>1, <1>3, InstallKnows DEF Installing, Unpacking, Alike
<1>8. oldTree[w][App(p)] \in {"none", "part"}
  BY <1>1, <1>3, <1>4, InstallKnows, Kinships DEF NowhereYet
<1>9. pc[w] # "deploycopy" => tree[App(p)] = oldTree[w][App(p)]
  BY <1>1, <1>3, InstallKnows DEF Installing, Unpacking, Alike
<1>10. Alike(w, {App(p)})' /\ Cleaned(w, App(p))'
  BY <1>2, <1>3, <1>7, <1>8, <1>9 DEF Alike, Cleaned, old
<1> QED BY <1>1, <1>6, <1>10, NothingMoved

(* An update that gives up has its backup to restore. *)
LEMMA UpdateGivesUp ==
    ASSUME NEW w, Alone(w), kind[w] = "update", pc[w] \in Unpacking \ {"drop"}, Abandon(w),
           \A pl \in Places \ {App(to[w]), Cache} : tree'[pl] = tree[pl],
           tree'[App(to[w])] = "none" \/ (pc[w] # "deploycopy" /\ tree'[App(to[w])] = tree[App(to[w])]),
           UNCHANGED <<link, appLink>>
    PROVE  Lawful(w)
<1>1. GoBack(w, "restore") /\ pc[w] # "idle" /\ pc[w] # "check" BY DEF Abandon, Unpacking
<1>2. pc'[w] = "restore" /\ phase'[w] = "back" /\ UNCHANGED <<params, old, owned>>
  BY <1>1, GoingBack DEF Steps
<1>3. /\ tree[Backup(from[w])] = oldTree[w][App(from[w])] /\ oldTree[w][App(from[w])] \in WithInfo /\ NoLinks
      /\ \A pl \in Places \ {App(from[w]), Backup(from[w]), App(to[w]), Cache} : tree[pl] = oldTree[w][pl]
  BY <1>1, UpdateKnows DEF Updating, Unpacking, Alike
<1>4. tree'[App(from[w])] = "none"
  <2>1. App(from[w]) \in Places /\ App(from[w]) # Cache BY <1>1, UpdateKnows
  <2>2. App(to[w]) # App(from[w]) => tree[App(from[w])] = "none"
    BY <1>1, UpdateKnows DEF Updating, Unpacking, Moved
  <2>3. App(to[w]) = App(from[w]) /\ pc[w] # "deploycopy" => tree[App(from[w])] = "none"
    BY <1>1, UpdateKnows DEF Updating, Unpacking
  <2> QED BY <2>1, <2>2, <2>3
<1>5. App(to[w]) # App(from[w]) =>
         oldTree[w][App(to[w])] \in {"none", "part"} /\
         (tree'[App(to[w])] = "none" \/ tree'[App(to[w])] = oldTree[w][App(to[w])])
  <2>1. to[w] # from[w] => oldTree[w][App(to[w])] \in {"none", "part"}
    BY <1>1, <1>3, UpdateKnows, Kinships
  <2>2. pc[w] # "deploycopy" /\ App(to[w]) # App(from[w]) => tree[App(to[w])] = oldTree[w][App(to[w])]
    BY <1>1, UpdateKnows DEF Updating, Unpacking, Alike
  <2> QED BY <2>1, <2>2
<1>6. Updating(w)'
  BY <1>1, <1>2, <1>3, <1>4, <1>5, UpdateKnows
     DEF Updating, params, old, Alike, Cleaned, NoLinks, Linking
<1>7. LinksComing(w)' /\ Unpacks(w)' BY <1>2 DEF LinksComing, Unpacks, Linking
<1> QED BY <1>1, <1>2, <1>6, <1>7, Continued

LEMMA GivesUp ==
    ASSUME NEW w, Alone(w), kind[w] # "migrate", pc[w] \in Unpacking \ {"drop"}, Abandon(w),
           \A pl \in Places \ {App(to[w]), Cache} : tree'[pl] = tree[pl],
           tree'[App(to[w])] = "none" \/ (pc[w] # "deploycopy" /\ tree'[App(to[w])] = tree[App(to[w])]),
           UNCHANGED <<link, appLink>>
    PROVE  Lawful(w)
BY UnpackingDoes, InstallGivesUp, UpdateGivesUp

(* A step of the unpacking, which changes the cache only. *)
LEMMA UnpacksMore ==
    ASSUME NEW w, Alone(w), kind[w] # "migrate", pc[w] \in {"extract", "extracting", "scripts"},
           NEW s \in {"extracting", "scripts", "deploy"}, Goto(w, s),
           \A pl \in Places \ {Cache} : tree'[pl] = tree[pl], UNCHANGED <<link, appLink>>,
           s = "extracting" => tree'[Cache] \in Partial, s # "extracting" => tree'[Cache] = ver[w]
    PROVE  Lawful(w)
<1>1. pc'[w] = s /\ UNCHANGED <<params, phase, farm, old, owned>> BY Going DEF Steps
<1>2. kind[w] \in {"install", "update"} /\ pc[w] \notin {"idle", "check"} BY UnpackingDoes DEF Unpacking
<1>3. CASE kind[w] = "install"
  <2>1. Alike(w, {}) /\ SameLinks(w) /\ NowhereYet(w) BY <1>2, <1>3, InstallKnows DEF Installing
  <2>2. Installing(w)' BY <1>1, <2>1 DEF Installing, Alike, SameLinks, NowhereYet, old, params, Linking
  <2>3. LinksComing(w)' /\ Unpacks(w)' BY <1>1 DEF LinksComing, Unpacks, Linking, params
  <2> QED BY <1>1, <1>2, <1>3, <2>2, <2>3, Continued
<1>4. CASE kind[w] = "update"
  <2>1. /\ Alike(w, {App(from[w]), Backup(from[w])}) /\ NoLinks /\ tree[App(from[w])] = "none"
        /\ tree[Backup(from[w])] = oldTree[w][App(from[w])] /\ oldTree[w][App(from[w])] \in WithInfo
    BY <1>2, <1>4, UpdateKnows DEF Updating
  <2>2. Updating(w)'
    BY <1>1, <1>2, <1>4, <2>1, UpdateKnows DEF Updating, Alike, NoLinks, old, params, Linking
  <2>3. LinksComing(w)' /\ Unpacks(w)' BY <1>1 DEF LinksComing, Unpacks, Linking, params
  <2> QED BY <1>1, <1>2, <1>4, <2>2, <2>3, Continued
<1> QED BY <1>2, <1>3, <1>4

LEMMA ExtractLawful ==
    ASSUME NEW w, Alone(w), Extract(w)
    PROVE  Lawful(w)
<1>1. pc[w] = "extract" /\ pc[w] \in Unpacking BY DEF Extract, Unpacking
<1>2. kind[w] \in {"install", "update"} /\ tree \in [Places -> Trees] /\ Cache \in Places
  BY <1>1, UnpackingDoes, AloneKnows, PlaceFacts DEF FsTypeOK
<1>3. CASE Fills(Cache) /\ Goto(w, "extracting")
  <2>1. PICK t \in Partial : tree' = [tree EXCEPT ![Cache] = t] BY <1>3 DEF Fills, Halfway
  <2> QED BY <1>1, <1>2, <1>3, <2>1, UnpacksMore DEF Fills
<1>4. CASE Disturb(Removed(Cache)) /\ Abandon(w)
  BY <1>1, <1>2, <1>4, GivesUp, InstallKnows, UpdateKnows, UnpackingDoes DEF Disturb, Removed
<1> QED BY <1>3, <1>4 DEF Extract

LEMMA ExtractEndLawful ==
    ASSUME NEW w, Alone(w), ExtractEnd(w)
    PROVE  Lawful(w)
<1>1. pc[w] = "extracting" /\ pc[w] \in Unpacking /\ pc[w] # "deploycopy" BY DEF ExtractEnd, Unpacking
<1>2. kind[w] \in {"install", "update"} /\ tree \in [Places -> Trees] /\ Cache \in Places
  BY <1>1, UnpackingDoes, AloneKnows, PlaceFacts DEF FsTypeOK
<1>3. tree[Cache] \in Partial BY <1>1, <1>2, AloneKnows DEF Stage, Unpacks
<1>4. Unpacked(w) = {ver[w]} BY <1>3, AloneKnows, Kinships DEF Unpacked
<1>5. ASSUME NEW t \in Unpacked(w), Disturb([tree EXCEPT ![Cache] = t]),
             Goto(w, IF delta[w] THEN "deploy" ELSE "scripts")
      PROVE  Lawful(w)
  <2>1. PICK s \in {"scripts", "deploy"} : Goto(w, s) BY <1>5
  <2>2. /\ tree'[Cache] = ver[w] /\ UNCHANGED <<link, appLink>>
        /\ \A pl \in Places \ {Cache} : tree'[pl] = tree[pl]
    BY <1>2, <1>4, <1>5 DEF Disturb
  <2> QED BY <1>1, <1>2, <2>1, <2>2, UnpacksMore
<1>6. ASSUME Disturb(IF delta[w] THEN tree ELSE Removed(Cache)), Abandon(w)
      PROVE  Lawful(w)
  <2>1. UNCHANGED <<link, appLink>> /\ \A pl \in Places \ {Cache} : tree'[pl] = tree[pl]
    BY <1>2, <1>6 DEF Disturb, Removed
  <2>2. App(to[w]) \in Places /\ App(to[w]) # Cache BY <1>1, <1>2, InstallKnows, UpdateKnows
  <2> QED BY <1>1, <1>2, <1>6, <2>1, <2>2, GivesUp
<1> QED BY <1>5, <1>6 DEF ExtractEnd

LEMMA ScriptsLawful ==
    ASSUME NEW w, Alone(w), Scripts(w)
    PROVE  Lawful(w)
<1>1. pc[w] = "scripts" /\ pc[w] \in Unpacking /\ pc[w] # "deploycopy" BY DEF Scripts, Unpacking
<1>2. kind[w] \in {"install", "update"} /\ tree \in [Places -> Trees] /\ Cache \in Places
  BY <1>1, UnpackingDoes, AloneKnows, PlaceFacts DEF FsTypeOK
<1>3. tree[Cache] = ver[w] BY <1>1, <1>2, AloneKnows DEF Stage, Unpacks
<1>4. CASE UNCHANGED fsVars /\ Goto(w, "deploy")
  BY <1>1, <1>2, <1>3, <1>4, UnpacksMore DEF fsVars
<1>5. CASE Disturb(Removed(Cache)) /\ Abandon(w)
  <2>1. UNCHANGED <<link, appLink>> /\ \A pl \in Places \ {Cache} : tree'[pl] = tree[pl]
    BY <1>2, <1>5 DEF Disturb, Removed
  <2>2. App(to[w]) \in Places /\ App(to[w]) # Cache BY <1>1, <1>2, InstallKnows, UpdateKnows
  <2> QED BY <1>1, <1>2, <1>5, <2>1, <2>2, GivesUp
<1> QED BY <1>4, <1>5 DEF Scripts

LEMMA MigrateKnows ==
    ASSUME NEW w, Alone(w), kind[w] = "migrate", pc[w] \notin {"idle", "check"}
    PROVE  /\ from[w] \in Storages /\ to[w] \in Storages /\ Migrating(w) /\ from[w] # to[w]
           /\ from[w] \in Prefixes /\ to[w] \in Prefixes
           /\ App(from[w]) \in Places /\ App(to[w]) \in Places /\ App(from[w]) # App(to[w])
           /\ App(from[w]) # Cache /\ App(to[w]) # Cache
           /\ oldTree[w][App(from[w])] \in WithInfo /\ oldTree[w][App(to[w])] = "none"
           /\ ver[w] = oldTree[w][App(from[w])] /\ ver[w] # "nobin"
           /\ \A q \in Storages \ {from[w]} : oldTree[w][App(q)] \notin WithInfo
           /\ tree \in [Places -> Trees] /\ oldTree[w] \in [Places -> Trees]
           /\ oldTree[w][App(Apps)] = "none" /\ NoBackups(oldTree[w])
<1>1. ParamsOK(w) /\ Stage(w) /\ OldTypes(w) /\ Settled(oldTree[w], oldLink[w], oldAppLink[w]) /\ FsTypeOK
  BY AloneKnows
<1>2. from[w] \in Storages /\ to[w] \in Storages /\ Migrating(w) BY <1>1 DEF ParamsOK, Stage
<1>3. /\ oldTree[w][App(from[w])] \in WithInfo /\ oldTree[w][App(to[w])] = "none"
      /\ ver[w] = oldTree[w][App(from[w])] /\ ver[w] # "nobin"
  BY <1>2 DEF Migrating
<1>4. from[w] # to[w] BY <1>3, Kinships
<1> QED BY <1>1, <1>2, <1>3, <1>4, PlaceFacts, Lookups, OneTarget DEF Settled, OneApp, OldTypes, FsTypeOK

LEMMA DeployKnows ==
    ASSUME NEW w, Alone(w), pc[w] \in {"deploy", "deploycopy"}
    PROVE  /\ kind[w] \in {"install", "update", "migrate"} /\ phase[w] = "forward"
           /\ pc[w] \in Unpacking /\ pc[w] \notin {"idle", "check"}
           /\ to[w] \in Storages /\ App(to[w]) \in Places /\ Resolve(to[w]) = App(to[w])
           /\ Source(w) \in Places /\ Source(w) # App(to[w]) /\ tree \in [Places -> Trees]
           /\ kind[w] # "migrate" => Source(w) = Cache /\ tree[Cache] = ver[w] /\ ver[w] \in Versions
           /\ kind[w] = "migrate" =>
                 Source(w) = App(from[w]) /\ tree[App(from[w])] = oldTree[w][App(from[w])]
           /\ tree[Source(w)] # "none"
           /\ (TargetFree(to[w]) <=> tree[App(to[w])] = "none")
<1>1. /\ kind[w] \in {"install", "update", "migrate"} /\ phase[w] = "forward"
      /\ pc[w] \in Unpacking /\ pc[w] \notin {"idle", "check"}
  BY UnpackingDoes DEF Unpacking
<1>2. Stage(w) /\ FsTypeOK /\ tree \in [Places -> Trees] /\ Cache \in Places
  BY AloneKnows, PlaceFacts DEF FsTypeOK
<1>3. CASE kind[w] # "migrate"
  <2>1. /\ to[w] \in Storages /\ App(to[w]) \in Places /\ App(to[w]) # Cache /\ ver[w] \in Versions
    BY <1>1, <1>3, InstallKnows, UpdateKnows
  <2>2. Source(w) = Cache /\ tree[Cache] = ver[w] BY <1>2, <1>3 DEF Source, Stage, Unpacks
  <2> QED BY <1>1, <1>2, <1>3, <2>1, <2>2, Lookups, Kinships
<1>4. CASE kind[w] = "migrate"
  <2>1. Source(w) = App(from[w]) BY <1>4 DEF Source
  <2>2. tree[App(from[w])] = oldTree[w][App(from[w])]
    BY <1>1, <1>4, MigrateKnows DEF Migrating, Alike
  <2> QED BY <1>1, <1>2, <1>4, <2>1, <2>2, MigrateKnows, Lookups, Kinships
<1> QED BY <1>3, <1>4

(* The new version, or the migrated one, is in place. *)
LEMMA Deployed ==
    ASSUME NEW w, Alone(w), pc[w] \in {"deploy", "deploycopy"},
           pc[w] = "deploy" => tree[App(to[w])] = "none",
           tree'[App(to[w])] = tree[Source(w)],
           tree'[Source(w)] \in {"none", tree[Source(w)]},
           \A pl \in Places \ {App(to[w]), Source(w)} : tree'[pl] = tree[pl],
           UNCHANGED <<link, appLink>>, Goto(w, "drop")
    PROVE  Lawful(w)
<1>1. /\ kind[w] \in {"install", "update", "migrate"} /\ phase[w] = "forward"
      /\ pc[w] \notin {"idle", "check"} /\ to[w] \in Storages /\ to[w] \in Prefixes /\ to[w] # Apps
  BY DeployKnows, Lookups, AloneKnows
<1>2. pc'[w] = "drop" /\ UNCHANGED <<params, phase, farm, old, owned>> BY Going DEF Steps
<1>3. /\ kind'[w] = kind[w] /\ from'[w] = from[w] /\ to'[w] = to[w] /\ ver'[w] = ver[w]
      /\ phase'[w] = "forward" /\ oldTree' = oldTree /\ oldLink' = oldLink /\ oldAppLink' = oldAppLink
  BY <1>1, <1>2 DEF params, old
<1>4. Unpacks(w)' /\ LinksComing(w)' BY <1>2 DEF Unpacks, LinksComing, Linking
<1>5. CASE kind[w] = "install"
  <2>1. NowhereYet(w) /\ (pc[w] = "deploy" => SameLinks(w)) /\ (pc[w] = "deploycopy" => NoLinks)
    BY <1>1, <1>5, InstallKnows DEF Installing
  <2>2. NoLinks BY <1>1, <1>5, <2>1, InstallKnows DEF SameLinks, NoLinks
  <2>3. oldTree[w][App(to[w])] = "none"
    BY <1>1, <1>5, InstallKnows DEF Installing, Alike
  <2>4. \A pl \in Places \ {App(to[w]), Cache} : tree'[pl] = oldTree[w][pl]
    BY <1>1, <1>5, InstallKnows, DeployKnows DEF Installing, Alike
  <2>5. tree'[App(to[w])] = ver[w] BY <1>5, DeployKnows
  <2>6. Installing(w)'
    BY <1>2, <1>3, <2>1, <2>2, <2>3, <2>4, <2>5 DEF Installing, Alike, NowhereYet, NoLinks, Linking
  <2> QED BY <1>1, <1>2, <1>4, <1>5, <2>6, Continued
<1>6. CASE kind[w] = "update"
  <2>1. /\ NoLinks /\ tree[Backup(from[w])] = oldTree[w][App(from[w])] /\ oldTree[w][App(from[w])] \in WithInfo
        /\ \A pl \in Places \ {App(from[w]), Backup(from[w]), App(to[w]), Cache} : tree[pl] = oldTree[w][pl]
    BY <1>1, <1>6, UpdateKnows DEF Updating, Alike
  <2>2. App(to[w]) # App(from[w]) => tree[App(from[w])] = "none" /\ oldTree[w][App(to[w])] = "none"
    <3>1. CASE pc[w] = "deploy" BY <1>1, <1>6, <3>1, UpdateKnows DEF Updating, Alike
    <3>2. CASE pc[w] = "deploycopy" BY <1>1, <1>6, <3>2, UpdateKnows DEF Updating, Moved
    <3> QED BY <3>1, <3>2
  <2>3. /\ tree'[App(to[w])] = ver[w] /\ tree'[Backup(from[w])] = oldTree[w][App(from[w])]
        /\ App(to[w]) # App(from[w]) => tree'[App(from[w])] = "none"
        /\ \A pl \in Places \ {App(from[w]), Backup(from[w]), App(to[w]), Cache} : tree'[pl] = oldTree[w][pl]
    BY <1>1, <1>6, <2>1, <2>2, DeployKnows, UpdateKnows
  <2>4. Moved(w)' BY <1>3, <2>2, <2>3 DEF Moved
  <2>5. Updating(w)' BY <1>2, <1>3, <2>1, <2>3, <2>4 DEF Updating, Alike, NoLinks, Linking
  <2> QED BY <1>1, <1>2, <1>4, <1>6, <2>5, Continued
<1>7. CASE kind[w] = "migrate"
  <2>1. SameLinks(w) /\ \A pl \in Places \ {App(to[w]), Cache} : tree[pl] = oldTree[w][pl]
    BY <1>1, <1>7, MigrateKnows DEF Migrating, Alike
  <2>2. /\ tree'[App(to[w])] = oldTree[w][App(from[w])]
        /\ \A pl \in Places \ {App(from[w]), App(to[w]), Cache} : tree'[pl] = oldTree[w][pl]
        /\ tree'[App(from[w])] \in {"none", oldTree[w][App(from[w])]}
    BY <1>7, <2>1, DeployKnows
  <2>3. Migrating(w)'
    BY <1>1, <1>2, <1>3, <1>7, <2>1, <2>2, MigrateKnows, Kinships
       DEF Migrating, Alike, SameLinks, Linking
  <2> QED BY <1>1, <1>2, <1>4, <1>7, <2>3, Continued
<1> QED BY <1>1, <1>5, <1>6, <1>7

(* The removal of what was copied, or of the empty place of what was       *)
(* moved, goes on and comes to the links.                                  *)
LEMMA DropKnows ==
    ASSUME NEW w, Alone(w), pc[w] = "drop"
    PROVE  /\ kind[w] \in {"install", "update", "migrate"} /\ phase[w] = "forward"
           /\ to[w] \in Storages /\ to[w] \in Prefixes /\ to[w] # Apps /\ to[w] # NoPrefix
           /\ App(to[w]) \in Places
           /\ Source(w) \in Places /\ Source(w) # App(to[w]) /\ tree \in [Places -> Trees]
           /\ kind[w] # "migrate" => Source(w) = Cache /\ ver[w] \in Versions
           /\ kind[w] = "migrate" => Source(w) = App(from[w])
<1>1. /\ kind[w] \in {"install", "update", "migrate"} /\ phase[w] = "forward"
      /\ pc[w] \notin {"idle", "check"}
  BY UnpackingDoes DEF Unpacking
<1>2. FsTypeOK /\ tree \in [Places -> Trees] /\ Cache \in Places
  BY AloneKnows, PlaceFacts DEF FsTypeOK
<1>3. CASE kind[w] # "migrate"
  <2>1. /\ to[w] \in Storages /\ App(to[w]) \in Places /\ App(to[w]) # Cache /\ ver[w] \in Versions
    BY <1>1, <1>3, InstallKnows, UpdateKnows
  <2>2. Source(w) = Cache BY <1>3 DEF Source
  <2> QED BY <1>1, <1>2, <1>3, <2>1, <2>2, Lookups
<1>4. CASE kind[w] = "migrate" BY <1>1, <1>2, <1>4, MigrateKnows, Lookups DEF Source
<1> QED BY <1>3, <1>4

LEMMA DeployDropLawful ==
    ASSUME NEW w, Alone(w), DeployDrop(w)
    PROVE  Lawful(w)
<1>0. pc[w] = "drop" /\ pc[w] \notin {"idle", "check"} BY DEF DeployDrop, DropSource
<1>1. /\ kind[w] \in {"install", "update", "migrate"} /\ phase[w] = "forward"
      /\ to[w] \in Storages /\ to[w] \in Prefixes /\ to[w] # Apps /\ to[w] # NoPrefix
      /\ kind[w] # "migrate" => Source(w) = Cache /\ ver[w] \in Versions
      /\ kind[w] = "migrate" => Source(w) = App(from[w]) /\ ~Fault(w, "drop")
  BY <1>0, DropKnows, OnlyHandled, AloneKnows DEF Alone
<1>2. AfterDeploy(w) = IF kind[w] = "migrate" THEN "unlink" ELSE "linkbin" BY DEF AfterDeploy
<1>3. PICK s \in {"drop", AfterDeploy(w)} :
         /\ Goto(w, s) /\ UNCHANGED <<link, appLink>>
         /\ \A pl \in Places \ {Source(w)} : tree'[pl] = tree[pl]
         /\ kind[w] = "migrate" =>
               tree'[App(from[w])] = "none" \/ (s = "drop" /\ tree'[App(from[w])] \in Partial)
  <2>1. CASE Guts(Source(w)) /\ Goto(w, "drop")
    BY <1>0, <1>2, <2>1, DropKnows, VersionAssumption DEF Guts, Gutted, Remains, Partial
  <2>2. CASE Disturb(Removed(Source(w))) /\ Goto(w, AfterDeploy(w))
    BY <1>0, <1>2, <2>2, DropKnows DEF Disturb, Removed
  <2>3. CASE UNCHANGED fsVars /\ Goto(w, AfterDeploy(w)) /\ Fault(w, "drop")
    BY <1>0, <1>1, <1>2, <2>3 DEF fsVars
  <2> QED BY <2>1, <2>2, <2>3 DEF DeployDrop, DropSource
<1>4. pc'[w] = s /\ s # "idle" /\ UNCHANGED <<params, phase, farm, old, owned>>
  BY <1>2, <1>3, Going DEF Steps
<1>5. /\ kind'[w] = kind[w] /\ from'[w] = from[w] /\ to'[w] = to[w] /\ ver'[w] = ver[w]
      /\ phase'[w] = "forward" /\ oldTree' = oldTree /\ oldLink' = oldLink /\ oldAppLink' = oldAppLink
  BY <1>1, <1>4 DEF params, old
<1>6. Unpacks(w)' BY <1>2, <1>4 DEF Unpacks
<1>7. CASE kind[w] = "install"
  <2>1. /\ NowhereYet(w) /\ NoLinks /\ Alike(w, {App(to[w])}) /\ oldTree[w][App(to[w])] = "none"
        /\ tree[App(to[w])] = ver[w]
    BY <1>0, <1>7, InstallKnows DEF Installing
  <2>2. Alike(w, {App(to[w])})' /\ tree'[App(to[w])] = ver[w] /\ NoLinks'
    BY <1>0, <1>1, <1>3, <1>5, <1>7, <2>1, DropKnows, InstallKnows DEF Alike, NoLinks
  <2>3. Installing(w)'
    BY <1>2, <1>4, <1>5, <1>7, <2>1, <2>2 DEF Installing, NowhereYet, Linking, NoLinks
  <2>4. OneApp(tree)'
    BY <1>0, <1>1, <1>5, <1>7, <2>1, <2>2, InstallKnows, PlaceFacts DEF OneApp, NowhereYet, Alike
  <2>5. LinksComing(w)'
    <3>1. ASSUME s = "linkbin" PROVE LinksComing(w)'
      <4>1. LinkPlace(w)' = App(to[w]) BY <1>1, <1>5, <1>7 DEF LinkPlace
      <4> QED BY <1>1, <1>4, <1>7, <2>2, <2>4, <3>1, <4>1, ComesToLink DEF Whole, NoLinks
    <3> QED BY <1>2, <1>4, <1>7, <3>1 DEF LinksComing, Linking
  <2> QED BY <1>0, <1>4, <1>6, <1>7, <2>3, <2>5, Continued
<1>8. CASE kind[w] = "update"
  <2>1. /\ NoLinks /\ Alike(w, {App(from[w]), Backup(from[w]), App(to[w])}) /\ Moved(w)
        /\ tree[Backup(from[w])] = oldTree[w][App(from[w])] /\ oldTree[w][App(from[w])] \in WithInfo
        /\ tree[App(to[w])] = ver[w]
    BY <1>0, <1>1, <1>8, UpdateKnows DEF Updating
  <2>2. /\ Alike(w, {App(from[w]), Backup(from[w]), App(to[w])})' /\ Moved(w)' /\ NoLinks'
        /\ tree'[Backup(from[w])] = oldTree[w][App(from[w])] /\ tree'[App(to[w])] = ver[w]
        /\ App(to[w]) # App(from[w]) => tree'[App(from[w])] = "none"
    BY <1>0, <1>1, <1>3, <1>5, <1>8, <2>1, DropKnows, UpdateKnows DEF Alike, NoLinks, Moved
  <2>3. Updating(w)'
    BY <1>2, <1>4, <1>5, <1>8, <2>1, <2>2 DEF Updating, Linking, NoLinks
  <2>4. OneApp(tree)'
    <3>1. \A q \in Storages \ {to[w]} : tree'[App(q)] \notin WithInfo
      BY <1>0, <1>1, <1>5, <1>8, <2>1, <2>2, UpdateKnows, PlaceFacts, Kinships DEF Alike
    <3>2. tree'[App(Apps)] = "none"
      BY <1>0, <1>1, <1>5, <1>8, <2>2, UpdateKnows, PlaceFacts, PrefixAssumption DEF Alike
    <3> QED BY <1>1, <3>1, <3>2 DEF OneApp
  <2>5. LinksComing(w)'
    <3>1. ASSUME s = "linkbin" PROVE LinksComing(w)'
      <4>1. LinkPlace(w)' = App(to[w]) BY <1>1, <1>5, <1>8 DEF LinkPlace
      <4> QED BY <1>1, <1>4, <1>8, <2>2, <2>4, <3>1, <4>1, ComesToLink DEF Whole, NoLinks
    <3> QED BY <1>2, <1>4, <1>8, <3>1 DEF LinksComing, Linking
  <2> QED BY <1>0, <1>4, <1>6, <1>8, <2>3, <2>5, Continued
<1>9. CASE kind[w] = "migrate"
  <2>1. /\ SameLinks(w) /\ tree[App(to[w])] = oldTree[w][App(from[w])]
        /\ Alike(w, {App(from[w]), App(to[w])})
    BY <1>0, <1>9, MigrateKnows DEF Migrating
  <2>2. /\ tree'[App(to[w])] = oldTree[w][App(from[w])]
        /\ Alike(w, {App(from[w]), App(to[w])})' /\ SameLinks(w)'
    BY <1>0, <1>1, <1>3, <1>5, <1>9, <2>1, MigrateKnows DEF Alike, SameLinks
  <2>3. /\ oldTree[w][App(from[w])] \in WithInfo /\ oldTree[w][App(to[w])] = "none"
        /\ ver[w] = oldTree[w][App(from[w])] /\ ver[w] # "nobin" /\ s \in {"drop", "unlink"}
        /\ tree'[App(from[w])] = "none" \/ (s = "drop" /\ tree'[App(from[w])] \in Partial)
    BY <1>0, <1>2, <1>3, <1>9, MigrateKnows
  <2>4. Migrating(w)'
    BY <1>4, <1>5, <1>9, <2>2, <2>3, Kinships DEF Migrating, Linking
  <2>5. LinksComing(w)' BY <1>4, <2>3 DEF LinksComing, Linking
  <2> QED BY <1>0, <1>4, <1>6, <1>9, <2>4, <2>5, Continued
<1> QED BY <1>1, <1>7, <1>8, <1>9

LEMMA DeployStarts ==
    ASSUME NEW w, Alone(w), pc[w] = "deploy", tree[App(to[w])] = "none",
           Fills(App(to[w])), Goto(w, "deploycopy")
    PROVE  Lawful(w)
<1>1. /\ kind[w] \in {"install", "update", "migrate"} /\ phase[w] = "forward"
      /\ pc[w] \notin {"idle", "check"} /\ to[w] \in Storages
  BY DeployKnows
<1>2. /\ tree'[App(to[w])] \in Partial /\ UNCHANGED <<link, appLink>>
      /\ \A pl \in Places \ {App(to[w])} : tree'[pl] = tree[pl]
  BY DeployKnows DEF Fills, Halfway
<1>3. pc'[w] = "deploycopy" /\ UNCHANGED <<params, phase, farm, old, owned>> BY Going DEF Steps
<1>4. /\ kind'[w] = kind[w] /\ from'[w] = from[w] /\ to'[w] = to[w] /\ ver'[w] = ver[w]
      /\ phase'[w] = "forward" /\ oldTree' = oldTree /\ oldLink' = oldLink /\ oldAppLink' = oldAppLink
  BY <1>1, <1>3 DEF params, old
<1>5. LinksComing(w)' BY <1>3 DEF LinksComing, Linking
<1>6. Unpacks(w)'
  <2>1. kind[w] # "migrate" => tree'[Cache] = ver[w] /\ Cache # App(to[w]) /\ Cache \in Places
    BY <1>2, DeployKnows, PlaceFacts
  <2> QED BY <1>3, <1>4, <2>1 DEF Unpacks
<1>7. CASE kind[w] = "install"
  <2>1. Alike(w, {}) /\ SameLinks(w) /\ NowhereYet(w) BY <1>1, <1>7, InstallKnows DEF Installing
  <2>2. NoLinks BY <1>1, <1>7, <2>1, InstallKnows DEF SameLinks, NoLinks
  <2>3. oldTree[w][App(to[w])] = "none" BY <1>1, <1>7, <2>1, InstallKnows DEF Alike
  <2>4. Installing(w)'
    BY <1>2, <1>3, <1>4, <2>1, <2>2, <2>3 DEF Installing, Alike, NowhereYet, NoLinks, Linking
  <2> QED BY <1>1, <1>3, <1>5, <1>6, <1>7, <2>4, Continued
<1>8. CASE kind[w] = "update"
  <2>1. /\ NoLinks /\ tree[Backup(from[w])] = oldTree[w][App(from[w])] /\ oldTree[w][App(from[w])] \in WithInfo
        /\ Alike(w, {App(from[w]), Backup(from[w])}) /\ tree[App(from[w])] = "none"
    BY <1>1, <1>8, UpdateKnows DEF Updating
  <2>2. App(to[w]) # App(from[w]) => oldTree[w][App(to[w])] = "none"
    BY <1>1, <1>8, <2>1, UpdateKnows DEF Alike
  <2>3. tree'[Backup(from[w])] = oldTree[w][App(from[w])]
        /\ (App(to[w]) # App(from[w]) => tree'[App(from[w])] = "none")
    BY <1>1, <1>2, <1>8, <2>1, UpdateKnows
  <2>4. Moved(w)' BY <1>4, <2>2, <2>3 DEF Moved
  <2>5. Alike(w, {App(from[w]), Backup(from[w]), App(to[w])})' BY <1>2, <1>4, <2>1 DEF Alike
  <2>6. Updating(w)'
    BY <1>2, <1>3, <1>4, <2>1, <2>3, <2>4, <2>5 DEF Updating, NoLinks, Linking
  <2> QED BY <1>1, <1>3, <1>5, <1>6, <1>8, <2>6, Continued
<1>9. CASE kind[w] = "migrate"
  <2>1. SameLinks(w) /\ Alike(w, {}) BY <1>1, <1>9, MigrateKnows DEF Migrating
  <2>2. Migrating(w)'
    BY <1>1, <1>2, <1>3, <1>4, <1>9, <2>1, MigrateKnows, Kinships
       DEF Migrating, Alike, SameLinks, Linking
  <2> QED BY <1>1, <1>3, <1>5, <1>6, <1>9, <2>2, Continued
<1> QED BY <1>1, <1>7, <1>8, <1>9

(* The deployment that fails is cleaned up. *)
LEMMA DeployGivesUp ==
    ASSUME NEW w, Alone(w), pc[w] \in {"deploy", "deploycopy"}, kind[w] # "migrate",
           Disturb(DeployFailed(Source(w), to[w])), Abandon(w)
    PROVE  Lawful(w)
<1>1. /\ tree'[App(to[w])] = "none" /\ UNCHANGED <<link, appLink>>
      /\ \A pl \in Places \ {App(to[w]), Cache} : tree'[pl] = tree[pl]
  BY DeployKnows DEF Disturb, DeployFailed
<1> QED BY <1>1, GivesUp, DeployKnows

LEMMA DeployLawful ==
    ASSUME NEW w, Alone(w), Deploy(w)
    PROVE  Lawful(w)
<1>1. pc[w] = "deploy" BY DEF Deploy
<1>2. CanDeploy(w) <=> tree[App(to[w])] = "none" BY <1>1, DeployKnows DEF CanDeploy
<1>3. ASSUME IF CanDeploy(w) THEN Fault(w, "deploy") ELSE NoFault PROVE kind[w] # "migrate"
  <2> SUFFICES ASSUME kind[w] = "migrate" PROVE FALSE
    OBVIOUS
  <2>1. tree[App(to[w])] = "none"
    BY <1>1, MigrateKnows DEF Migrating, Alike
  <2> QED BY <1>2, <1>3, <2>1, OnlyHandled, AloneKnows DEF Alone
<1>4. ASSUME CanDeploy(w), Disturb(Renamed(Source(w), App(to[w]))), Goto(w, "drop") PROVE Lawful(w)
  BY <1>1, <1>2, <1>4, Deployed, DeployKnows DEF Disturb, Renamed
<1> QED BY <1>1, <1>2, <1>3, <1>4, DeployStarts, DeployGivesUp DEF Deploy

LEMMA DeployCopyLawful ==
    ASSUME NEW w, Alone(w), DeployCopy(w)
    PROVE  Lawful(w)
<1>1. pc[w] = "deploycopy" /\ tree[Source(w)] # "none" BY DeployKnows DEF DeployCopy
<1>2. ASSUME Fault(w, "deploy") PROVE kind[w] # "migrate" BY <1>2, OnlyHandled, AloneKnows DEF Alone
<1>3. ASSUME Disturb(Copied(Source(w), App(to[w]))), Goto(w, "drop") PROVE Lawful(w)
  BY <1>1, <1>3, Deployed, DeployKnows DEF Disturb, Copied
<1> QED BY <1>1, <1>2, <1>3, DeployGivesUp DEF DeployCopy

-----------------------------------------------------------------------------
(* The links are made. *)

(* They are made for the one storage p that has the application: by its    *)
(* name, or by way of the link in the applications directory.              *)
MadeFor(w, p) ==
    /\ p \in Storages /\ p \in Prefixes /\ p # NoPrefix /\ p # Apps /\ tree[App(p)] \in WithInfo
    /\ Target(LinkPlace(w)) = App(p) /\ App(p) # App(Apps)
    /\ \/ LinkPlace(w) = App(p)
       \/ kind[w] = "symlinks" /\ LinkPlace(w) = App(Apps) /\ appLink = p
    /\ kind[w] \in {"install", "migrate"} \/ (kind[w] = "update" /\ phase[w] = "forward") => p = to[w]
    /\ kind[w] = "update" /\ phase[w] = "back" => p = from[w]

LEMMA MadeForOne ==
    ASSUME NEW w, Alone(w), pc[w] \in Linking
    PROVE  \E p \in Storages : MadeFor(w, p)
<1>1. /\ StageIn(kind[w], phase[w], pc[w]) /\ ParamsOK(w) /\ Stage(w) /\ FsTypeOK
      /\ Storages \subseteq Prefixes /\ Apps \in Prefixes /\ NoPrefix \notin Prefixes
      /\ oldAppLink[w] \in Storages \cup {NoPrefix} /\ pc[w] \notin {"idle", "check", "unlink"}
  BY AloneKnows, PrefixAssumption DEF Prefixes, OldTypes, Linking
<1>2. /\ kind[w] \in {"install", "update", "migrate", "symlinks", "farm"} /\ phase[w] \in {"forward", "back"}
      /\ kind[w] # "update" => phase[w] = "forward"
  BY <1>1 DEF StageIn, Linking, Unpacking
<1>3. SUFFICES \E p \in Storages :
         /\ tree[App(p)] \in WithInfo
         /\ \/ LinkPlace(w) = App(p)
            \/ kind[w] = "symlinks" /\ LinkPlace(w) = App(Apps) /\ appLink = p
         /\ kind[w] \in {"install", "migrate"} \/ (kind[w] = "update" /\ phase[w] = "forward") => p = to[w]
         /\ kind[w] = "update" /\ phase[w] = "back" => p = from[w]
  BY <1>1, Lookups, PlaceFacts DEF MadeFor
<1>4. CASE kind[w] = "install"
  <2>1. to[w] \in Storages /\ ver[w] \in Versions /\ tree[App(to[w])] = ver[w]
    BY <1>1, <1>4 DEF ParamsOK, Stage, Installing
  <2> QED BY <1>1, <1>2, <1>4, <2>1, Kinships DEF LinkPlace
<1>5. CASE kind[w] = "update" /\ phase[w] = "forward"
  <2>1. to[w] \in Storages /\ ver[w] \in Versions /\ tree[App(to[w])] = ver[w]
    BY <1>1, <1>5, UpdateKnows DEF Updating
  <2> QED BY <1>1, <1>2, <1>5, <2>1, Kinships DEF LinkPlace
<1>6. CASE kind[w] = "update" /\ phase[w] = "back"
  <2>1. from[w] \in Storages /\ oldTree[w][App(from[w])] \in WithInfo /\ Alike(w, {App(to[w])}) /\ Cleaned(w, App(to[w]))
    BY <1>1, <1>6, UpdateKnows DEF Updating
  <2>2. tree[App(from[w])] \in WithInfo
    BY <1>1, <1>6, <2>1, UpdateKnows, Kinships DEF Alike, Cleaned
  <2> QED BY <1>1, <1>2, <1>6, <2>1, <2>2 DEF LinkPlace
<1>7. CASE kind[w] = "migrate"
  <2>1. to[w] \in Storages /\ tree[App(to[w])] \in WithInfo
    BY <1>1, <1>7, MigrateKnows DEF Migrating
  <2> QED BY <1>1, <1>2, <1>7, <2>1 DEF LinkPlace
<1>8. CASE kind[w] = "symlinks"
  <2>1. /\ Alike(w, {}) /\ Named(w) # NoPrefix /\ oldTree[w][App(Named(w))] \in WithInfo
        /\ to[w] = NoPrefix => appLink = oldAppLink[w]
        /\ from[w] \in Prefixes /\ to[w] \in Storages \cup {NoPrefix}
    BY <1>1, <1>8 DEF Stage, Relinking, ParamsOK
  <2>2. Named(w) \in Storages BY <1>1, <2>1 DEF Named, Prefixes
  <2>3. tree[App(Named(w))] \in WithInfo BY <1>1, <2>1, <2>2, PlaceFacts DEF Alike
  <2>4. LinkPlace(w) = App(Named(w)) \/ (LinkPlace(w) = App(Apps) /\ appLink = Named(w))
    BY <1>1, <1>2, <1>8, <2>1 DEF LinkPlace, Named
  <2> QED BY <1>8, <2>2, <2>3, <2>4
<1>9. CASE kind[w] = "farm"
  <2>1. \E p \in Storages : at[w] = App(p) /\ tree[App(p)] \in WithInfo
    BY <1>1, <1>9 DEF Stage, Ensuring
  <2> QED BY <1>9, <2>1 DEF LinkPlace
<1> QED BY <1>2, <1>4, <1>5, <1>6, <1>7, <1>8, <1>9

LEMMA LinkingKnows ==
    ASSUME NEW w, Alone(w), pc[w] \in Linking, NEW p, MadeFor(w, p)
    PROVE  /\ OneApp(tree) /\ appLink \in {NoPrefix, p} /\ FsTypeOK
           /\ pc[w] \notin {"idle", "check", "drop", "unlink", "remove", "removing"}
           /\ kind[w] \in {"install", "update", "migrate", "symlinks", "farm"}
           /\ phase[w] \in {"forward", "back"} /\ (kind[w] # "update" => phase[w] = "forward")
           /\ tree[Target(LinkPlace(w))] = tree[App(p)] /\ tree[App(p)] \in WithInfo
           /\ kind[w] \in {"migrate", "symlinks"} => tree[App(p)] # "nobin"
           /\ kind[w] = "install" \/ (kind[w] = "update" /\ phase[w] = "forward") => tree[App(p)] \in Whole
           /\ tree[App(p)] \notin Whole => Leads(tree, link, appLink) /\ ~owned
           /\ kind[w] \in {"install", "farm"} => Leads(tree, link, appLink)
           /\ pc[w] # "linkbin" =>
                 /\ tree[App(p)] \in Usable
                 /\ kind[w] \notin {"install", "farm"} /\ tree[App(p)] \in Whole => link["bin"] = LinkPlace(w)
                 /\ link["bin"] = LinkPlace(w) \/ ("bin" \in skipped[w] /\ Leads(tree, link, appLink))
           /\ (kind[w] = "update" => phase[w] = "back") => NoBackups(tree)
<1>1. /\ StageIn(kind[w], phase[w], pc[w]) /\ ParamsOK(w) /\ Stage(w) /\ FsTypeOK
      /\ pc[w] \notin {"idle", "check", "drop", "unlink", "remove", "removing"}
      /\ Settled(oldTree[w], oldLink[w], oldAppLink[w])
  BY AloneKnows DEF Linking
<1>2. /\ kind[w] \in {"install", "update", "migrate", "symlinks", "farm"} /\ phase[w] \in {"forward", "back"}
      /\ kind[w] # "update" => phase[w] = "forward"
  BY <1>1 DEF StageIn, Linking, Unpacking
<1>3. tree[Target(LinkPlace(w))] = tree[App(p)] /\ tree[App(p)] \in WithInfo BY DEF MadeFor
<1>4. /\ OneApp(tree) /\ (appLink # NoPrefix => tree[App(appLink)] \in Usable)
      /\ tree[App(p)] \notin Whole => Leads(tree, link, appLink) /\ ~owned
      /\ pc[w] # "linkbin" =>
            /\ tree[App(p)] \in Usable
            /\ kind[w] \notin {"install", "farm"} /\ tree[App(p)] \in Whole => link["bin"] = LinkPlace(w)
            /\ link["bin"] = LinkPlace(w) \/ ("bin" \in skipped[w] /\ Leads(tree, link, appLink))
  BY <1>1, <1>3 DEF Stage, LinksComing, Linking
<1>5. appLink \in {NoPrefix, p}
  BY <1>1, <1>4, Kinships DEF MadeFor, OneApp, FsTypeOK
<1>6. ASSUME kind[w] = "update" => phase[w] = "back" PROVE NoBackups(tree)
  <2>1. \A q \in Prefixes : tree[Backup(q)] = oldTree[w][Backup(q)]
    BY <1>1, <1>2, <1>6, PlaceFacts
       DEF Stage, Installing, Updating, Migrating, Relinking, Ensuring, Alike
  <2> QED BY <1>1, <2>1 DEF NoBackups, Settled
<1>7. kind[w] = "install" \/ (kind[w] = "update" /\ phase[w] = "forward") => tree[App(p)] \in Versions
  <2>1. CASE kind[w] = "install"
    <3>1. to[w] \in Storages /\ ver[w] \in Versions /\ tree[App(to[w])] = ver[w]
      BY <1>1, <2>1 DEF ParamsOK, Stage, Installing
    <3> QED BY <2>1, <3>1 DEF MadeFor
  <2>2. CASE kind[w] = "update" /\ phase[w] = "forward"
    <3>1. ver[w] \in Versions /\ tree[App(to[w])] = ver[w]
      BY <1>1, <2>2, UpdateKnows DEF Updating
    <3> QED BY <2>2, <3>1 DEF MadeFor
  <2> QED BY <2>1, <2>2
<1>8. ASSUME kind[w] = "migrate" PROVE tree[App(p)] # "nobin"
  <2>1. tree[App(to[w])] = oldTree[w][App(from[w])] /\ oldTree[w][App(from[w])] # "nobin"
    BY <1>1, <1>8, MigrateKnows DEF Migrating
  <2> QED BY <1>8, <2>1 DEF MadeFor
<1>9. ASSUME kind[w] = "symlinks" PROVE tree[App(p)] # "nobin"
  <2>1. /\ Alike(w, {}) /\ Named(w) # NoPrefix /\ oldTree[w][App(Named(w))] \in WithInfo \ {"nobin"}
        /\ from[w] \in Prefixes /\ to[w] \in Storages \cup {NoPrefix}
        /\ oldAppLink[w] \in Storages \cup {NoPrefix}
    BY <1>1, <1>9, AloneKnows DEF Stage, Relinking, ParamsOK, OldTypes
  <2>2. Named(w) \in Storages BY <2>1 DEF Named, Prefixes
  <2>3. Named(w) \in Prefixes /\ p \in Prefixes BY <2>2, Lookups, <1>1 DEF MadeFor
  <2>4. tree[App(Named(w))] \in WithInfo \ {"nobin"} BY <2>1, <2>3, PlaceFacts DEF Alike
  <2>5. Named(w) = p BY <1>3, <1>4, <2>2, <2>4 DEF OneApp, MadeFor
  <2> QED BY <2>4, <2>5
<1>10. ASSUME kind[w] \in {"install", "farm"} PROVE Leads(tree, link, appLink)
  <2>1. CASE kind[w] = "farm" BY <1>1, <2>1 DEF Stage, Ensuring
  <2>2. CASE kind[w] = "install"
    <3>1. p = to[w] /\ p \in Storages BY <1>1, <2>2 DEF MadeFor
    <3>2. \A n \in LinkNames : link[n] \in {NoPrefix, App(p)}
      BY <1>1, <2>2, <3>1, InstallKnows DEF Installing
    <3>3. tree[App(p)] \in Whole BY <1>7, <2>2, Kinships
    <3>4. \A n \in LinkNames : n \in Files(tree[App(p)]) BY <3>3, FilesOf
    <3> QED BY <1>4, <3>1, <3>2, <3>4 DEF Leads
  <2> QED BY <1>10, <2>1, <2>2
<1> QED BY <1>1, <1>2, <1>3, <1>4, <1>5, <1>6, <1>7, <1>8, <1>9, <1>10, Kinships

(* A link is made to a file that is there, or cut. *)
Rewired(w, p) ==
    \A n \in LinkNames :
       link'[n] \in {link[n], NoPrefix} \/ (link'[n] = LinkPlace(w) /\ n \in Files(tree[App(p)]))

LEMMA LeadsStill ==
    ASSUME NEW w, NEW p, MadeFor(w, p), UNCHANGED <<tree, appLink>>, Rewired(w, p),
           Leads(tree, link, appLink)
    PROVE  Leads(tree, link, appLink)'
BY DEF MadeFor, Rewired, Leads

(* A link that is made leads to the copy, and the others still do. *)
LEMMA LinkMade ==
    ASSUME NEW w, Alone(w), pc[w] \in Linking, NEW p, MadeFor(w, p), tree[App(p)] \in Usable,
           UNCHANGED <<tree, appLink>>, Rewired(w, p),
           NEW s \in {"linksys", "linkapp"}, pc'[w] = s,
           UNCHANGED <<params, phase, todo, at, ensured, old, owned>>,
           kind[w] \notin {"install", "farm"} /\ tree[App(p)] \in Whole => link'["bin"] = LinkPlace(w),
           link'["bin"] = LinkPlace(w) \/ "bin" \in skipped'[w],
           s = "linkapp" => link'["sys"] = LinkPlace(w)
    PROVE  Lawful(w)
<1>1. /\ OneApp(tree) /\ appLink \in {NoPrefix, p} /\ FsTypeOK /\ Stage(w)
      /\ pc[w] \notin {"idle", "check", "drop", "unlink", "remove", "removing"}
      /\ kind[w] \in {"install", "update", "migrate", "symlinks", "farm"}
      /\ phase[w] \in {"forward", "back"} /\ (kind[w] # "update" => phase[w] = "forward")
      /\ tree[Target(LinkPlace(w))] = tree[App(p)]
      /\ tree[App(p)] \notin Whole => Leads(tree, link, appLink) /\ ~owned
      /\ kind[w] \in {"install", "farm"} => Leads(tree, link, appLink)
  BY LinkingKnows, AloneKnows
<1>2. Leads(tree, link, appLink) => Leads(tree, link, appLink)' BY LeadsStill
<1>3. /\ kind'[w] = kind[w] /\ from'[w] = from[w] /\ to'[w] = to[w] /\ ver'[w] = ver[w]
      /\ phase'[w] = phase[w] /\ oldTree' = oldTree /\ oldLink' = oldLink /\ oldAppLink' = oldAppLink
      /\ owned' = owned /\ at' = at /\ tree' = tree /\ appLink' = appLink
  BY DEF params, old
<1>4. Unpacks(w)' BY DEF Unpacks
<1>5. LinkPlace(w)' = LinkPlace(w) BY <1>3 DEF LinkPlace
<1>6. tree'[Target(LinkPlace(w))'] = tree[App(p)] BY <1>1, <1>3, <1>5 DEF Target, Resolve
<1>7. LinksComing(w)'
  <2>1. appLink # NoPrefix => tree[App(appLink)] \in Usable BY <1>1
  <2>2. OneApp(tree)' BY <1>1, <1>3 DEF OneApp
  <2> QED BY <1>1, <1>2, <1>3, <1>5, <1>6, <2>1, <2>2 DEF LinksComing
<1>8. CASE kind[w] = "install"
  <2>1. LinkPlace(w) = App(to[w]) BY <1>1, <1>8, InstallKnows, Lookups DEF LinkPlace
  <2>2. Installing(w)'
    BY <1>1, <1>3, <1>8, <2>1 DEF Stage, Installing, Alike, NowhereYet, Linking, Rewired
  <2> QED BY <1>1, <1>4, <1>7, <1>8, <2>2, Continued
<1>9. CASE kind[w] = "update"
  <2>1. Updating(w)'
    BY <1>1, <1>3, <1>5, <1>9 DEF Stage, Updating, Alike, Moved, Cleaned, Linking, Rewired
  <2> QED BY <1>1, <1>4, <1>7, <1>9, <2>1, Continued
<1>10. CASE kind[w] = "migrate"
  <2>1. Migrating(w)' BY <1>1, <1>3, <1>10 DEF Stage, Migrating, Alike, Linking
  <2> QED BY <1>1, <1>4, <1>7, <1>10, <2>1, Continued
<1>11. CASE kind[w] = "symlinks"
  <2>1. Named(w)' = Named(w) BY <1>3 DEF Named
  <2>2. oldTree'[w][App(Named(w)')] = oldTree[w][App(Named(w))] BY <1>3, <2>1
  <2>3. Relinking(w)' BY <1>1, <1>3, <1>11, <2>1, <2>2 DEF Stage, Relinking, Alike, Linking
  <2> QED BY <1>1, <1>4, <1>7, <1>11, <2>3, Continued
<1>12. CASE kind[w] = "farm"
  <2>1. Leads(tree, link, appLink)' BY <1>1, <1>2, <1>12
  <2>2. Ensuring(w)' BY <1>1, <1>3, <1>12, <2>1 DEF Stage, Ensuring, Alike, Leads, Linking
  <2> QED BY <1>1, <1>4, <1>7, <1>12, <2>2, Continued
<1> QED BY <1>1, <1>8, <1>9, <1>10, <1>11, <1>12

(* ensure-symlink-farm goes on with the next place. *)
LEMMA NextPlaced ==
    ASSUME NEW w, Alone(w), pc[w] \in Linking, kind[w] = "farm", NEW ok \in BOOLEAN, NextPlace(w, ok),
           UNCHANGED tree, Leads(tree, link, appLink)', appLink # NoPrefix => appLink' # NoPrefix,
           ok => \A p \in Storages : MadeFor(w, p) => ShownAt(Needed(w), p)' /\ OneApp(tree)
    PROVE  Lawful(w)
<1>0. PICK p \in Storages : MadeFor(w, p) BY MadeForOne
<1>1. /\ Stage(w) /\ pc[w] \notin {"idle", "check", "farm"} BY AloneKnows DEF Linking
<1>2. /\ pc'[w] = "farm" /\ UNCHANGED <<params, old, owned, todo, skipped>>
      /\ ensured'[w] = (ensured[w] /\ ok)
  BY AloneKnows DEF NextPlace, TypeOK
<1>3. /\ kind'[w] = kind[w] /\ oldTree' = oldTree /\ oldAppLink' = oldAppLink /\ tree' = tree
  BY <1>2 DEF params, old
<1>4. Alike(w, {}) /\ (oldAppLink[w] # NoPrefix => appLink # NoPrefix)
  BY <1>1 DEF Stage, Ensuring
<1>5. Alike(w, {})' BY <1>3, <1>4 DEF Alike
<1>6. ASSUME ok, NEW q \in Storages, tree[App(q)] \in Versions PROVE ShownAt(Needed(w), q)'
  <2>1. q = p BY <1>0, <1>6, Kinships DEF MadeFor, OneApp
  <2> QED BY <1>0, <1>6, <2>1
<1>7. Ensuring(w)' BY <1>2, <1>3, <1>4, <1>5, <1>6 DEF Ensuring, Linking
<1>8. LinksComing(w)' /\ Unpacks(w)' BY <1>2 DEF LinksComing, Unpacks, Linking
<1> QED BY <1>1, <1>2, <1>7, <1>8, Continued

(* A command that could not link what there is leaves it as it was. *)
LEMMA LinkGivesUp ==
    ASSUME NEW w, Alone(w), pc[w] \in Linking, kind[w] # "install", kind[w] = "update" => phase[w] = "back",
           NEW p \in Storages, MadeFor(w, p), tree[App(p)] \notin Whole,
           UNCHANGED <<tree, link, appLink>>, Finish(w, "failed")
    PROVE  Lawful(w)
<1>1. /\ OneApp(tree) /\ NoBackups(tree) /\ Leads(tree, link, appLink) /\ ~owned
      /\ pc[w] \notin {"idle", "check"}
  BY LinkingKnows
<1>2. pc'[w] = "idle" /\ result'[w] = "failed" /\ UNCHANGED <<params, old>> /\ ~owned'
  BY <1>1, Finishing
<1>3. Settled(tree, link, appLink)'
  BY <1>1 DEF Settled, OneApp, NoBackups, Leads
<1>4. ASSUME kind[w] = "update" PROVE SameTrees(w)' /\ ~WasShown(w)
  <2>1. /\ from[w] \in Storages /\ to[w] \in Storages /\ p = from[w] /\ Alike(w, {App(to[w])})
        /\ Cleaned(w, App(to[w])) /\ oldTree[w][App(from[w])] \in WithInfo
    BY <1>1, <1>4, UpdateKnows DEF Updating, MadeFor
  <2>2. Alike(w, {App(to[w])})' /\ Cleaned(w, App(to[w]))'
    BY <1>2, <2>1 DEF Alike, Cleaned, old, params
  <2>3. PICK q \in Storages : q = to[w] BY <2>1
  <2>4. /\ SameTrees(w)' /\ (oldTree[w][App(from[w])] \in WithInfo \cup Whole =>
                               tree'[App(from[w])] = oldTree[w][App(from[w])])
    <3>1. Alike(w, {App(q)})' /\ Cleaned(w, App(q))' BY <1>2, <2>2, <2>3 DEF Alike, Cleaned, params
    <3> QED BY <1>1, <1>2, <2>1, <3>1, TreesSettle
  <2>5. oldTree[w][App(p)] \notin Whole BY <2>1, <2>4
  <2>6. oldLink[w]["bin"] = NoPrefix
    <3>1. /\ Settled(oldTree[w], oldLink[w], oldAppLink[w])
          /\ oldAppLink[w] \in Storages \cup {NoPrefix}
      BY <1>1, AloneKnows DEF OldTypes
    <3>2. \A n \in LinkNames : oldLink[w][n] = NoPrefix \/ n \in Files(oldTree[w][App(p)])
      BY <2>1, <3>1, OneTarget
    <3> QED BY <2>5, <3>2, FilesOf
  <2>7. "bin" \in LinkNames /\ App(from[w]) # NoPrefix /\ from[w] # Apps
    BY <2>1, FilesOf, Lookups, PlaceFacts, PlaceAssumption, AloneKnows
  <2> QED BY <2>4, <2>6, <2>7 DEF WasShown
<1>5. Leaves(w)
  <2>1. kind'[w] = kind[w] /\ WasShown(w)' = WasShown(w) BY <1>2 DEF params, old, WasShown
  <2> QED BY <1>2, <1>4, <2>1 DEF Leaves
<1> QED BY <1>2, <1>3, <1>5, Concluded

LEMMA LinkFails ==
    ASSUME NEW w, Alone(w), pc[w] \in Linking, UNCHANGED <<tree, appLink>>, LinkFailed(w),
           NEW p \in Storages, MadeFor(w, p), Rewired(w, p),
           kind[w] \in {"install", "farm"} \/ (tree[App(p)] \notin Whole /\ UNCHANGED link)
    PROVE  Lawful(w)
<1>1. /\ Stage(w) /\ pc[w] \notin {"idle", "check", "drop", "unlink", "remove", "removing"}
      /\ kind[w] \in {"install", "update", "migrate", "symlinks", "farm"}
      /\ phase[w] \in {"forward", "back"} /\ (kind[w] # "update" => phase[w] = "forward")
      /\ kind[w] = "update" /\ phase[w] = "forward" => tree[App(p)] \in Whole
      /\ kind[w] \in {"install", "farm"} => Leads(tree, link, appLink)
  BY LinkingKnows, AloneKnows
<1>2. CASE kind[w] = "farm"
  <2>1. NextPlace(w, FALSE) BY <1>2 DEF LinkFailed
  <2>2. Leads(tree, link, appLink)' BY <1>1, <1>2, LeadsStill
  <2> QED BY <1>2, <2>1, <2>2, NextPlaced
<1>3. CASE kind[w] = "install"
  <2>1. GoBack(w, "unlink") BY <1>1, <1>3 DEF LinkFailed
  <2>2. pc'[w] = "unlink" /\ UNCHANGED <<params, farm, old, owned>> BY <2>1, GoingBack DEF Steps
  <2>3. LinkPlace(w) = App(to[w]) /\ to[w] \in Storages
    BY <1>1, <1>3, InstallKnows, Lookups, AloneKnows DEF LinkPlace
  <2>4. Installing(w)'
    BY <1>1, <1>3, <2>2, <2>3
       DEF Stage, Installing, Alike, NowhereYet, NoLinks, Linking, params, old, Rewired
  <2>5. LinksComing(w)' /\ Unpacks(w)' BY <2>2 DEF LinksComing, Unpacks, Linking
  <2> QED BY <1>1, <1>3, <2>2, <2>4, <2>5, Continued
<1>4. CASE kind[w] \in {"update", "migrate", "symlinks"}
  <2>1. tree[App(p)] \notin Whole /\ UNCHANGED link BY <1>4
  <2>2. kind[w] = "update" => phase[w] = "back" BY <1>1, <2>1
  <2>3. Finish(w, "failed") BY <1>4, <2>2 DEF LinkFailed
  <2> QED BY <1>4, <2>1, <2>2, <2>3, LinkGivesUp
<1> QED BY <1>1, <1>2, <1>3, <1>4

(* The program is gone past. *)
LEMMA PassesOver ==
    ASSUME NEW w, Alone(w), PassOver(w)
    PROVE  /\ pc'[w] = "linksys" /\ "bin" \in skipped'[w]
           /\ UNCHANGED <<params, phase, todo, at, ensured, old, owned>>
BY AloneKnows DEF TypeOK, PassOver

LEMMA LinkBinLawful ==
    ASSUME NEW w, Alone(w), LinkBin(w)
    PROVE  Lawful(w)
<1>1. pc[w] = "linkbin" /\ pc[w] \in Linking /\ UNCHANGED <<tree, appLink>> BY DEF LinkBin, Linking
<1>2. PICK p \in Storages : MadeFor(w, p) BY <1>1, MadeForOne
<1>3. /\ tree[Target(LinkPlace(w))] = tree[App(p)] /\ tree[App(p)] \in WithInfo
      /\ kind[w] \in {"install", "update", "migrate", "symlinks", "farm"}
      /\ kind[w] \in {"migrate", "symlinks"} => tree[App(p)] # "nobin"
      /\ link \in [LinkNames -> Places \cup {NoPrefix}]
  BY <1>1, <1>2, LinkingKnows, AloneKnows DEF FsTypeOK
<1>4. PICK files \in Exports(tree[App(p)]) :
         \/ files = LinkNames /\ LinkTo("bin", LinkPlace(w)) /\ Goto(w, "linksys")
         \/ /\ "sys" \in files
            /\ IF "bin" \in files THEN LinkCut("bin") /\ Fault(w, "linkbin") ELSE UNCHANGED link
            /\ PassOver(w) \/ LinkFailed(w)
         \/ "sys" \notin files /\ UNCHANGED link /\ LinkFailed(w)
  BY <1>3 DEF LinkBin
<1>5. /\ tree[App(p)] \in Whole => files = LinkNames
      /\ tree[App(p)] \notin Whole => "bin" \notin files
      /\ "sys" \in files => tree[App(p)] \in Usable
      /\ \A n \in LinkNames : n \in files => n \in Files(tree[App(p)])
  BY <1>3, <1>4, FilesAmong
<1>6. CASE files = LinkNames /\ LinkTo("bin", LinkPlace(w)) /\ Goto(w, "linksys")
  <2>1. link'["bin"] = LinkPlace(w) /\ Rewired(w, p) /\ tree[App(p)] \in Usable
    BY <1>3, <1>5, <1>6, FilesOf DEF LinkTo, Rewired
  <2>2. pc'[w] = "linksys" /\ UNCHANGED <<params, phase, farm, old, owned>> BY <1>6, Going DEF Steps
  <2> QED BY <1>1, <1>2, <2>1, <2>2, LinkMade DEF farm
<1>7. CASE "sys" \in files /\ "bin" \in files /\ LinkCut("bin") /\ Fault(w, "linkbin")
           /\ (PassOver(w) \/ LinkFailed(w))
  <2>1. kind[w] \in {"install", "farm"} BY <1>3, <1>7, OnlyHandled, AloneKnows DEF Alone
  <2>2. Rewired(w, p) BY <1>3, <1>7, FilesOf DEF LinkCut, Rewired
  <2>3. CASE PassOver(w) BY <1>1, <1>2, <1>5, <1>7, <2>1, <2>2, <2>3, PassesOver, LinkMade
  <2> QED BY <1>1, <1>2, <1>7, <2>1, <2>2, <2>3, LinkFails
<1>8. CASE UNCHANGED link /\ "bin" \notin files /\ ((PassOver(w) /\ "sys" \in files) \/ LinkFailed(w))
  <2>1. tree[App(p)] \notin Whole BY <1>5, <1>8, FilesOf
  <2>2. Rewired(w, p) BY <1>8 DEF Rewired
  <2>3. CASE PassOver(w) /\ "sys" \in files
    BY <1>1, <1>2, <1>5, <2>1, <2>2, <2>3, PassesOver, LinkMade
  <2> QED BY <1>1, <1>2, <1>8, <2>1, <2>2, <2>3, LinkFails
<1>9. CASE UNCHANGED link /\ "sys" \notin files /\ LinkFailed(w)
  <2>1. "bin" \notin files BY <1>5, <1>9, FilesOf
  <2> QED BY <1>8, <1>9, <2>1
<1> QED BY <1>4, <1>6, <1>7, <1>8, <1>9

LEMMA LinkSysLawful ==
    ASSUME NEW w, Alone(w), LinkSys(w)
    PROVE  Lawful(w)
<1>1. pc[w] = "linksys" /\ pc[w] \in Linking /\ UNCHANGED <<tree, appLink>> BY DEF LinkSys, Linking
<1>2. PICK p \in Storages : MadeFor(w, p) BY <1>1, MadeForOne
<1>3. /\ tree[Target(LinkPlace(w))] = tree[App(p)] /\ tree[App(p)] \in WithInfo
      /\ kind[w] \in {"install", "update", "migrate", "symlinks", "farm"}
      /\ link \in [LinkNames -> Places \cup {NoPrefix}]
      /\ tree[App(p)] \in Usable
      /\ kind[w] \notin {"install", "farm"} /\ tree[App(p)] \in Whole => link["bin"] = LinkPlace(w)
      /\ link["bin"] = LinkPlace(w) \/ "bin" \in skipped[w]
  BY <1>1, <1>2, LinkingKnows, AloneKnows DEF FsTypeOK
<1>4. PICK files \in Exports(tree[App(p)]) :
         \/ (IF "sys" \in files THEN LinkTo("sys", LinkPlace(w)) ELSE UNCHANGED link)
            /\ Goto(w, "linkapp")
         \/ (LinkCut("sys") \/ ("sys" \in files /\ LinkTo("sys", LinkPlace(w))))
            /\ LinkFailed(w) /\ Fault(w, "linksys")
  BY <1>3 DEF LinkSys
<1>5. "sys" \in files /\ "sys" \in Files(tree[App(p)]) BY <1>3, <1>4, FilesAmong, FilesOf
<1>6. CASE LinkTo("sys", LinkPlace(w)) /\ Goto(w, "linkapp")
  <2>1. link'["sys"] = LinkPlace(w) /\ link'["bin"] = link["bin"] /\ Rewired(w, p)
    BY <1>3, <1>5, <1>6, FilesOf DEF LinkTo, Rewired
  <2>2. pc'[w] = "linkapp" /\ UNCHANGED <<params, phase, farm, old, owned>> BY <1>6, Going DEF Steps
  <2> QED BY <1>1, <1>2, <1>3, <2>1, <2>2, LinkMade DEF farm
<1>7. CASE (LinkCut("sys") \/ LinkTo("sys", LinkPlace(w))) /\ LinkFailed(w) /\ Fault(w, "linksys")
  <2>1. kind[w] \in {"install", "farm"} BY <1>3, <1>7, OnlyHandled, AloneKnows DEF Alone
  <2>2. Rewired(w, p) BY <1>3, <1>5, <1>7, FilesOf DEF LinkCut, LinkTo, Rewired
  <2> QED BY <1>1, <1>2, <1>7, <2>1, <2>2, LinkFails
<1> QED BY <1>4, <1>5, <1>6, <1>7

(* The last link is made: all that are needed lead to the one copy. *)
LEMMA AllLinked ==
    ASSUME NEW w, Alone(w), pc[w] = "linkapp", LinkApp(LinkPlace(w)), UNCHANGED <<tree, link, skipped>>,
           NEW p \in Storages, MadeFor(w, p)
    PROVE  /\ appLink' = p
           /\ kind[w] \notin {"install", "farm"} /\ tree[App(p)] \in Whole =>
                 link' = [n \in LinkNames |-> LinkPlace(w)]
           /\ ShownAt(Needed(w), p)' /\ (LinkPlace(w) = App(Apps) => ShownAt(Needed(w), Apps)')
           /\ OneApp(tree)' /\ Leads(tree, link, appLink)'
           /\ tree[App(p)] \in Whole => Kept(tree, appLink)'
           /\ tree[App(p)] \notin Whole => ~owned /\ kind[w] # "install"
           /\ (kind[w] = "update" => phase[w] = "back") => Settled(tree, link, appLink)'
<1>1. pc[w] \in Linking BY DEF Linking
<1>2. /\ OneApp(tree) /\ appLink \in {NoPrefix, p} /\ FsTypeOK
      /\ tree[App(p)] \in Usable
      /\ tree[App(p)] \notin Whole => Leads(tree, link, appLink) /\ ~owned
      /\ kind[w] = "install" => tree[App(p)] \in Whole
      /\ kind[w] \notin {"install", "farm"} /\ tree[App(p)] \in Whole => link["bin"] = LinkPlace(w)
      /\ link["bin"] = LinkPlace(w) \/ ("bin" \in skipped[w] /\ Leads(tree, link, appLink))
      /\ (kind[w] = "update" => phase[w] = "back") => NoBackups(tree)
  BY <1>1, LinkingKnows
<1>3. link["sys"] = LinkPlace(w) BY AloneKnows DEF Stage, LinksComing, Linking
<1>4. kind[w] \notin {"install", "farm"} /\ tree[App(p)] \in Whole =>
         link' = [n \in LinkNames |-> LinkPlace(w)]
  BY <1>2, <1>3 DEF FsTypeOK, LinkNames
<1>5. /\ p # NoPrefix /\ p # Apps /\ App(p) # App(Apps) /\ App(Apps) # NoPrefix /\ App(p) # NoPrefix
      /\ LinkPlace(w) = App(p) \/ (LinkPlace(w) = App(Apps) /\ appLink = p)
  BY PlaceFacts, PlaceAssumption DEF MadeFor
<1>6. appLink' = p
  <2>1. <<Apps, App(p)[2]>> = App(Apps) /\ App(p)[1] = p /\ App(Apps)[1] = Apps BY DEF App
  <2>2. tree[App(Apps)] = "none" BY <1>2 DEF OneApp
  <2> QED BY <1>2, <1>5, <2>1, <2>2 DEF LinkApp
<1>7. ShownAt(Needed(w), p)' /\ (LinkPlace(w) = App(Apps) => ShownAt(Needed(w), Apps)')
  <2>1. \A n \in Needed(w)' : link'[n] = LinkPlace(w) BY <1>2, <1>3, FilesOf DEF Needed
  <2> QED BY <1>5, <1>6, <2>1 DEF ShownAt, Target, Resolve
<1>8. OneApp(tree)' BY <1>2 DEF OneApp
<1>9. Leads(tree, link, appLink)'
  <2>1. Leads(tree, link, appLink) => Leads(tree, link, appLink)'
    <3>1. \A q \in Storages : q # NoPrefix BY <1>2, Lookups
    <3> QED BY <1>2, <1>5, <1>6, <3>1 DEF Leads
  <2>2. ASSUME tree[App(p)] \in Whole, NEW n \in LinkNames
        PROVE  \/ link'[n] = NoPrefix
               \/ \E q \in Storages : n \in Files(tree'[App(q)])
                     /\ (link'[n] = App(q) \/ (link'[n] = App(Apps) /\ appLink' = q))
    <3>1. CASE link[n] = LinkPlace(w) BY <1>5, <1>6, <2>2, <3>1, FilesOf
    <3>2. CASE Leads(tree, link, appLink) BY <2>1, <2>2, <3>2 DEF Leads
    <3> QED BY <1>2, <1>3, <2>2, <3>1, <3>2, FilesOf
  <2>3. tree[App(p)] \in Whole => Leads(tree, link, appLink)' BY <1>2, <1>6, <2>2 DEF Leads
  <2> QED BY <1>2, <2>1, <2>3
<1>10. (kind[w] = "update" => phase[w] = "back") => Settled(tree, link, appLink)'
  BY <1>2, <1>8, <1>9 DEF Settled, NoBackups, OneApp, Leads
<1>11. tree[App(p)] \in Whole => Kept(tree, appLink)'
  BY <1>2, <1>5, <1>6, Kinships DEF Kept, Sound, OneApp
<1> QED BY <1>2, <1>4, <1>6, <1>7, <1>8, <1>9, <1>10, <1>11

LEMMA LinkedEnds ==
    ASSUME NEW w, Alone(w), pc[w] = "linkapp", LinkApp(LinkPlace(w)), UNCHANGED <<tree, link>>,
           kind[w] \in {"install", "migrate", "symlinks"},
           NEW r \in {"ok", "failed"}, r = "failed" => kind[w] # "install", Finish(w, r)
    PROVE  Lawful(w)
<1>1. pc[w] \in Linking /\ pc[w] \notin {"idle", "check"} BY DEF Linking
<1>2. PICK p \in Storages : MadeFor(w, p) BY <1>1, MadeForOne
<1>3. /\ pc'[w] = "idle" /\ result'[w] = r /\ UNCHANGED <<params, phase, farm, old, skipped>>
      /\ owned' = (owned \/ (r = "ok" /\ kind[w] \in {"install", "update"}))
  BY Finishing DEF farm
<1>4. /\ ShownAt(Needed(w), p)' /\ (LinkPlace(w) = App(Apps) => ShownAt(Needed(w), Apps)')
      /\ Settled(tree, link, appLink)'
      /\ tree[App(p)] \in Whole => Kept(tree, appLink)'
      /\ tree[App(p)] \notin Whole => ~owned /\ kind[w] # "install"
  BY <1>2, <1>3, AllLinked
<1>5. kind'[w] = kind[w] /\ to'[w] = to[w] /\ ver'[w] = ver[w] /\ LinkPlace(w)' = LinkPlace(w)
  BY <1>3 DEF params, farm, LinkPlace
<1>6. p # NoPrefix /\ (LinkPlace(w) = App(p) \/ LinkPlace(w) = App(Apps))
      /\ (kind[w] \in {"install", "migrate"} => p = to[w])
  BY <1>2 DEF MadeFor
<1>7. owned' => Kept(tree, appLink)' BY <1>3, <1>4
<1>8. CASE kind[w] = "symlinks"
  <2>1. LinkPlace(w)[1] \in {p, Apps} /\ (LinkPlace(w)[1] = p \/ LinkPlace(w) = App(Apps))
    BY <1>6 DEF App
  <2>2. ShownAt(Needed(w), LinkPlace(w)[1])'
    <3>1. CASE LinkPlace(w)[1] = p BY <1>4, <1>5, <3>1 DEF ShownAt, Target, Resolve
    <3>2. CASE LinkPlace(w) = App(Apps)
      <4>1. LinkPlace(w)[1] = Apps BY <3>2 DEF App
      <4> QED BY <1>4, <1>5, <3>2, <4>1 DEF ShownAt, Target, Resolve
    <3> QED BY <2>1, <3>1, <3>2
  <2>3. Achieved(w)' BY <1>5, <1>8, <2>2 DEF Achieved
  <2>4. Leaves(w) BY <1>5, <1>8, <2>3 DEF Leaves
  <2> QED BY <1>1, <1>3, <1>4, <1>7, <2>4, Concluded
<1>9. CASE kind[w] \in {"install", "migrate"}
  <2>1. tree[App(to[w])] = ver[w]
    <3>1. CASE kind[w] = "install" BY <1>1, <3>1, InstallKnows DEF Installing, Linking
    <3>2. CASE kind[w] = "migrate" BY <1>1, <3>2, MigrateKnows DEF Migrating, Linking
    <3> QED BY <1>9, <3>1, <3>2
  <2>2. tree'[App(to'[w])] = ver'[w] /\ ShownAt(Needed(w), to[w])'
    BY <1>4, <1>5, <1>6, <1>9, <2>1 DEF ShownAt, Target, Resolve
  <2>3. Achieved(w)' BY <1>5, <1>9, <2>2 DEF Achieved
  <2>4. Leaves(w) BY <1>3, <1>5, <1>9, <2>3 DEF Leaves
  <2> QED BY <1>1, <1>3, <1>4, <1>7, <2>4, Concluded
<1> QED BY <1>8, <1>9

LEMMA LinkedBack ==
    ASSUME NEW w, Alone(w), pc[w] = "linkapp", LinkApp(LinkPlace(w)), UNCHANGED <<tree, link>>,
           kind[w] = "update", phase[w] = "back", Finish(w, "failed")
    PROVE  Lawful(w)
<1>1. pc[w] \in Linking /\ pc[w] \notin {"idle", "check"} BY DEF Linking
<1>2. PICK p \in Storages : MadeFor(w, p) BY <1>1, MadeForOne
<1>3. /\ pc'[w] = "idle" /\ result'[w] = "failed" /\ UNCHANGED <<params, old, skipped>> /\ (owned' => owned)
  <2>1. /\ pc'[w] = "idle" /\ result'[w] = "failed" /\ UNCHANGED <<params, phase, farm, old>>
        /\ owned' = (owned \/ ("failed" = "ok" /\ kind[w] \in {"install", "update"}))
    BY Finishing
  <2> QED BY <2>1 DEF farm
<1>4. /\ appLink' = p /\ Settled(tree, link, appLink)'
      /\ tree[App(p)] \in Whole => link' = [n \in LinkNames |-> App(p)] /\ Kept(tree, appLink)'
      /\ tree[App(p)] \notin Whole => ~owned
      /\ p = from[w] /\ p # NoPrefix /\ p # Apps
  BY <1>2, <1>3, AllLinked DEF MadeFor
<1>5. kind'[w] = kind[w] /\ from'[w] = from[w] /\ oldLink' = oldLink /\ oldAppLink' = oldAppLink
  BY <1>3 DEF params, old
<1>6. SameTrees(w)' /\ oldTree[w][App(p)] \in WithInfo /\ tree[App(p)] = oldTree[w][App(p)]
  <2>1. PICK q \in Storages : q = to[w] BY <1>1, UpdateKnows
  <2>2. Alike(w, {App(q)}) /\ Cleaned(w, App(q)) /\ oldTree[w][App(from[w])] \in WithInfo
    BY <1>1, <2>1, UpdateKnows DEF Updating
  <2>3. Alike(w, {App(q)})' /\ Cleaned(w, App(q))' BY <1>3, <2>2 DEF Alike, Cleaned, old
  <2>4. /\ SameTrees(w)'
        /\ \A x \in Storages : oldTree[w][App(x)] \in WithInfo \cup Whole => tree'[App(x)] = oldTree[w][App(x)]
    BY <1>1, <1>3, <2>3, TreesSettle
  <2> QED BY <1>4, <2>2, <2>4
<1>7. ASSUME WasShown(w) PROVE SameLinks(w)'
  <2>1. from[w] = p /\ p # Apps BY <1>4
  <2>2. oldAppLink[w] = p /\ oldLink[w] = [n \in LinkNames |-> App(p)] BY <1>7, <2>1 DEF WasShown
  <2>3. App(p) # NoPrefix BY <1>4, Lookups, PlaceFacts, PlaceAssumption, AloneKnows
  <2>4. oldLink[w]["bin"] # NoPrefix BY <2>2, <2>3, FilesOf
  <2>5. tree[App(p)] \in Whole
    <3>1. /\ Settled(oldTree[w], oldLink[w], oldAppLink[w])
          /\ oldAppLink[w] \in Storages \cup {NoPrefix}
      BY <1>1, AloneKnows DEF OldTypes
    <3>2. \A n \in LinkNames : oldLink[w][n] = NoPrefix \/ n \in Files(oldTree[w][App(p)])
      BY <1>6, <3>1, OneTarget
    <3> QED BY <1>6, <2>4, <3>2, FilesOf
  <2> QED BY <1>4, <1>5, <2>2, <2>5 DEF SameLinks
<1>8. Leaves(w) BY <1>3, <1>5, <1>6, <1>7 DEF Leaves
<1> QED BY <1>1, <1>3, <1>4, <1>8, Concluded

LEMMA LinkedForward ==
    ASSUME NEW w, Alone(w), pc[w] = "linkapp", LinkApp(LinkPlace(w)), UNCHANGED <<tree, link>>,
           kind[w] = "update", phase[w] = "forward", Goto(w, "remove")
    PROVE  Lawful(w)
<1>1. pc[w] \in Linking /\ pc[w] \notin {"idle", "check"} BY DEF Linking
<1>2. PICK p \in Storages : MadeFor(w, p) BY <1>1, MadeForOne
<1>3. pc'[w] = "remove" /\ UNCHANGED <<params, phase, farm, old, owned, skipped>> BY Going DEF Steps, farm
<1>4. appLink' = p /\ link' = [n \in LinkNames |-> App(p)] /\ p = to[w]
  <2>1. tree[App(p)] \in Whole BY <1>1, <1>2, LinkingKnows
  <2>2. LinkPlace(w) = App(p) BY <1>2 DEF MadeFor
  <2> QED BY <1>2, <1>3, <2>1, <2>2, AllLinked DEF MadeFor
<1>5. Updating(w)'
  BY <1>1, <1>3, <1>4, UpdateKnows DEF Updating, Alike, Moved, LinksTo, Linking, params, old
<1>6. LinksComing(w)' /\ Unpacks(w)' BY <1>3 DEF LinksComing, Unpacks, Linking
<1> QED BY <1>1, <1>3, <1>5, <1>6, Continued

LEMMA LinkAppLawful ==
    ASSUME NEW w, Alone(w), LinkAppStep(w)
    PROVE  Lawful(w)
<1>0. pc[w] = "linkapp" /\ pc[w] \in Linking BY DEF LinkAppStep, Linking
<1>1. /\ kind[w] \in {"install", "update", "migrate", "symlinks", "farm"}
      /\ phase[w] \in {"forward", "back"} /\ (kind[w] # "update" => phase[w] = "forward")
  BY <1>0, MadeForOne, LinkingKnows
<1>2. ASSUME LinkApp(LinkPlace(w)), UNCHANGED <<tree, link>>, LinkedUp(w)
      PROVE  Lawful(w)
  <2>1. CASE kind[w] = "farm"
    <3>1. NextPlace(w, TRUE) BY <1>2, <2>1 DEF LinkedUp
    <3>2. PICK p \in Storages : MadeFor(w, p) BY <1>0, MadeForOne
    <3>3. Leads(tree, link, appLink)' /\ appLink' # NoPrefix /\ UNCHANGED skipped
      BY <1>0, <1>2, <3>1, <3>2, AllLinked DEF MadeFor, NextPlace
    <3>4. ASSUME NEW q \in Storages, MadeFor(w, q) PROVE ShownAt(Needed(w), q)' /\ OneApp(tree)
      BY <1>0, <1>2, <3>3, <3>4, AllLinked, LinkingKnows
    <3> QED BY <1>0, <1>2, <2>1, <3>1, <3>3, <3>4, NextPlaced
  <2>2. CASE kind[w] = "update" /\ phase[w] = "back"
    BY <1>0, <1>2, <2>2, LinkedBack DEF LinkedUp
  <2>3. CASE kind[w] = "update" /\ phase[w] = "forward"
    BY <1>0, <1>2, <2>3, LinkedForward DEF LinkedUp
  <2>4. CASE kind[w] \in {"install", "migrate", "symlinks"}
    <3>1. Finish(w, "ok") BY <1>1, <1>2, <2>4 DEF LinkedUp
    <3> QED BY <1>0, <1>2, <2>4, <3>1, LinkedEnds
  <2> QED BY <1>1, <2>1, <2>2, <2>3, <2>4
<1>3. ASSUME LinkApp(LinkPlace(w)), UNCHANGED <<tree, link>>, kind[w] # "farm", Finish(w, "failed"), HooksFail(w)
      PROVE  Lawful(w)
  BY <1>0, <1>3, LinkedEnds DEF HooksFail
<1>4. ASSUME UNCHANGED fsVars, LinkFailed(w), Fault(w, "linkapp")
      PROVE  Lawful(w)
  <2>1. kind[w] \in {"install", "farm"} BY <1>1, <1>4, OnlyHandled, AloneKnows DEF Alone
  <2>2. PICK p \in Storages : MadeFor(w, p) BY <1>0, MadeForOne
  <2>3. Rewired(w, p) /\ UNCHANGED <<tree, appLink>> BY <1>4 DEF Rewired, fsVars
  <2> QED BY <1>0, <1>4, <2>1, <2>2, <2>3, LinkFails
<1> QED BY <1>2, <1>3, <1>4 DEF LinkAppStep

-----------------------------------------------------------------------------
(* ensure-symlink-farm looks at the next place, or has seen them all.      *)

LEMMA FarmKnows ==
    ASSUME NEW w, Alone(w), pc[w] = "farm"
    PROVE  /\ kind[w] = "farm" /\ phase[w] = "forward" /\ Ensuring(w) /\ todo[w] \subseteq FarmPlaces
           /\ Settled(tree, link, appLink) /\ (owned => Kept(tree, appLink)) /\ FsTypeOK
<1>1. /\ StageIn(kind[w], phase[w], pc[w]) /\ Stage(w) /\ ParamsOK(w) /\ FsTypeOK
      /\ Settled(oldTree[w], oldLink[w], oldAppLink[w]) /\ (owned => Kept(oldTree[w], oldAppLink[w]))
  BY AloneKnows
<1>2. kind[w] = "farm" /\ phase[w] = "forward" BY <1>1 DEF StageIn, Linking, Unpacking
<1>3. Ensuring(w) /\ Alike(w, {}) /\ Leads(tree, link, appLink) /\ (oldAppLink[w] # NoPrefix => appLink # NoPrefix)
  BY <1>1, <1>2 DEF Stage, Ensuring
<1>4. \A p \in Prefixes : tree[App(p)] = oldTree[w][App(p)] /\ tree[Backup(p)] = oldTree[w][Backup(p)]
  BY <1>3, PlaceFacts DEF Alike
<1>5. OneApp(tree) /\ NoBackups(tree)
  BY <1>1, <1>4, PlaceFacts DEF Settled, OneApp, NoBackups
<1>6. owned => Kept(tree, appLink) BY <1>1, <1>3, <1>4, Lookups DEF Kept, Sound
<1> QED BY <1>1, <1>2, <1>3, <1>5, <1>6 DEF Settled, ParamsOK

LEMMA FarmVisitLawful ==
    ASSUME NEW w, Alone(w), FarmVisit(w)
    PROVE  Lawful(w)
<1>0. pc[w] = "farm" BY DEF FarmVisit
<1>1. /\ kind[w] = "farm" /\ phase[w] = "forward" /\ Ensuring(w) /\ todo[w] \subseteq FarmPlaces
      /\ Settled(tree, link, appLink) /\ (owned => Kept(tree, appLink)) /\ FsTypeOK
  BY <1>0, FarmKnows
<1>2. /\ UNCHANGED <<fsVars, params, old, owned, phase>> BY DEF FarmVisit
<1>3. /\ kind'[w] = kind[w] /\ oldTree' = oldTree /\ oldAppLink' = oldAppLink
      /\ tree' = tree /\ link' = link /\ appLink' = appLink /\ owned' = owned
  BY <1>2 DEF params, old, fsVars
<1>4. Alike(w, {})' /\ Leads(tree, link, appLink)' /\ (oldAppLink'[w] # NoPrefix => appLink' # NoPrefix)
  BY <1>0, <1>1, <1>3 DEF Ensuring, Alike, Leads
<1>5. ASSUME NEW pl \in todo[w], IsAppDir(pl), pc' = [pc EXCEPT ![w] = "linkbin"],
             at' = [at EXCEPT ![w] = pl]
      PROVE  Lawful(w)
  <2>1. pc'[w] = "linkbin" /\ at'[w] = pl BY <1>5, AloneKnows DEF TypeOK
  <2>2. PICK p \in Storages : pl = App(p) /\ tree[App(p)] \in WithInfo
    <3>1. tree[pl] \in WithInfo BY <1>5, Kinships
    <3>2. \A p \in Storages : tree[Backup(p)] \notin WithInfo
      BY <1>1, PlaceFacts, Kinships DEF Settled, NoBackups
    <3> QED BY <1>1, <3>1, <3>2 DEF FarmPlaces
  <2>3. LinkPlace(w)' = App(p) BY <1>1, <1>3, <2>1, <2>2 DEF LinkPlace
  <2>4. Target(App(p))' = App(p) BY <2>2, AloneKnows, Lookups, PlaceFacts DEF Target
  <2>5. tree'[Target(LinkPlace(w))'] = tree[App(p)] BY <1>3, <2>3, <2>4
  <2>6. tree[App(p)] \notin Whole => ~owned
    <3>1. tree[App(p)] # "bare" => appLink \in {NoPrefix, p} BY <1>1, <2>2, OneTarget DEF FsTypeOK
    <3> QED BY <1>1, <2>2, <3>1, Kinships DEF Kept, Sound
  <2>7. LinksComing(w)'
    BY <1>1, <1>3, <1>4, <2>1, <2>5, <2>6 DEF LinksComing, Settled, OneApp, Leads, Linking
  <2>8. Ensuring(w)' BY <1>3, <1>4, <2>1, <2>2 DEF Ensuring, Linking
  <2>9. Unpacks(w)' BY <2>1 DEF Unpacks
  <2> QED BY <1>0, <1>1, <1>2, <2>1, <2>7, <2>8, <2>9, Continued
<1>6. ASSUME UNCHANGED pc, skipped[w] \subseteq skipped'[w],
             \A p \in Storages \ skipped'[w] :
                tree[App(p)] \in Versions /\ App(p) \notin todo'[w] /\ ensured'[w]
                => App(p) \notin todo[w] /\ ensured[w]
      PROVE  Lawful(w)
  <2>1. Needed(w)' \subseteq Needed(w) BY <1>6 DEF Needed
  <2>2. Ensuring(w)'
    BY <1>0, <1>1, <1>3, <1>4, <1>6, <2>1 DEF Ensuring, ShownAt, Target, Resolve, Linking
  <2>3. LinksComing(w)' /\ Unpacks(w)' BY <1>0, <1>6 DEF LinksComing, Unpacks, Linking
  <2> QED BY <1>0, <1>1, <1>2, <1>6, <2>2, <2>3, Continued
<1>7. ASSUME NEW pl \in todo[w], ~IsAppDir(pl), todo' = [todo EXCEPT ![w] = @ \ {pl}],
             UNCHANGED <<pc, at, ensured, skipped>>
      PROVE  Lawful(w)
  <2>1. todo'[w] = todo[w] \ {pl} BY <1>7, AloneKnows DEF TypeOK
  <2>2. tree[pl] \notin Versions BY <1>7 DEF IsAppDir
  <2> QED BY <1>6, <1>7, <2>1, <2>2
<1>8. ASSUME ensured' = [ensured EXCEPT ![w] = FALSE], UNCHANGED <<pc, at, skipped>>
      PROVE  Lawful(w)
  <2>1. ~ensured'[w] BY <1>8, AloneKnows DEF TypeOK
  <2> QED BY <1>6, <1>8, <2>1
<1>9. ASSUME NEW pl \in todo[w], todo' = [todo EXCEPT ![w] = @ \ Rest(w, pl[1])],
             skipped' = [skipped EXCEPT ![w] = @ \cup {pl[1]}], UNCHANGED <<pc, at, ensured>>
      PROVE  Lawful(w)
  <2>1. todo'[w] = todo[w] \ Rest(w, pl[1]) /\ skipped'[w] = skipped[w] \cup {pl[1]}
    BY <1>9, AloneKnows DEF TypeOK
  <2>2. \A p \in Storages \ skipped'[w] : App(p) \notin Rest(w, pl[1]) BY <2>1 DEF Rest, App
  <2> QED BY <1>6, <1>9, <2>1, <2>2
<1> QED BY <1>5, <1>7, <1>8, <1>9 DEF FarmVisit

LEMMA FarmDoneLawful ==
    ASSUME NEW w, Alone(w), FarmDone(w)
    PROVE  Lawful(w)
<1>0. pc[w] = "farm" /\ todo[w] = {} /\ UNCHANGED fsVars BY DEF FarmDone
<1>1. /\ kind[w] = "farm" /\ Ensuring(w) /\ Settled(tree, link, appLink) /\ (owned => Kept(tree, appLink))
  BY <1>0, FarmKnows
<1>2. PICK r \in {"ok", "failed"} : Finish(w, r) /\ (r = "ok" => ensured[w]) BY DEF FarmDone
<1>3. /\ pc'[w] = "idle" /\ result'[w] = r /\ UNCHANGED <<params, phase, farm, old>> /\ (owned' => owned)
  BY <1>1, <1>2, Finishing
<1>4. Settled(tree, link, appLink)' BY <1>0, <1>1 DEF fsVars, Settled, OneApp, NoBackups, Leads
<1>5. ensured[w] =>
         \A p \in Storages \ skipped[w] : tree[App(p)] \in Versions => ShownAt(Needed(w), p)
  BY <1>0, <1>1 DEF Ensuring
<1>6. Needed(w)' = Needed(w) /\ skipped' = skipped BY <1>3 DEF Needed, farm
<1>7. r = "ok" => Achieved(w)'
  BY <1>0, <1>1, <1>2, <1>3, <1>5, <1>6 DEF Achieved, ShownAt, Target, Resolve, fsVars, params
<1>8. Leaves(w) BY <1>1, <1>3, <1>7 DEF Leaves, params
<1>9. owned' => Kept(tree, appLink)' BY <1>0, <1>1, <1>3 DEF Kept, Sound, fsVars
<1> QED BY <1>0, <1>1, <1>3, <1>4, <1>8, <1>9, Concluded

-----------------------------------------------------------------------------
(* The removal that ends a transaction. *)

LEMMA RemovingKnows ==
    ASSUME NEW w, Alone(w), pc[w] \in {"remove", "removing"}
    PROVE  /\ kind[w] \in {"install", "update", "uninstall"} /\ (kind[w] # "install" => phase[w] = "forward")
           /\ pc[w] \notin {"idle", "check"}
           /\ pc[w] = "removing" => ~Nothing(w)
           /\ FsTypeOK /\ tree \in [Places -> Trees] /\ Stage(w) /\ ParamsOK(w)
BY AloneKnows DEF StageIn, Linking, Unpacking, ParamsOK, FsTypeOK

(* The rollback of an install removes what it deployed. *)
LEMMA InstallRemoves ==
    ASSUME NEW w, Alone(w), kind[w] = "install", Remove(w) \/ Removing(w)
    PROVE  Lawful(w)
<1>0. pc[w] \in {"remove", "removing"} BY DEF Remove, Removing
<1>1. /\ pc[w] \notin {"idle", "check"} /\ Doomed(w) = App(to[w]) /\ ~Nothing(w) /\ Removal(w) = "failed"
      /\ ~Fault(w, "remove")
  <2>1. ~Fault(w, "remove") BY OnlyHandled, AloneKnows DEF Alone
  <2> QED BY <1>0, <2>1, RemovingKnows DEF Doomed, Nothing, Removal
<1>2. /\ to[w] \in Storages /\ App(to[w]) \in Places /\ tree \in [Places -> Trees] /\ NoLinks /\ NowhereYet(w)
      /\ Alike(w, {App(to[w])}) /\ oldTree[w][App(to[w])] = "none"
      /\ pc[w] = "remove" => tree[App(to[w])] \in Versions
  BY <1>0, <1>1, InstallKnows DEF Installing
<1>3. CASE pc[w] = "remove"
  <2>1. tree[App(to[w])] # "none" BY <1>2, <1>3, Kinships
  <2>2. Guts(App(to[w])) /\ Goto(w, "removing")
    BY <1>1, <1>3, <2>1 DEF Remove, Removing
  <2>3. pc'[w] = "removing" /\ UNCHANGED <<params, phase, farm, old, owned>> BY <2>2, Going DEF Steps
  <2>4. /\ tree'[App(to[w])] \in Partial /\ UNCHANGED <<link, appLink>>
        /\ \A pl \in Places \ {App(to[w])} : tree'[pl] = tree[pl]
    <3>1. Remains(tree[App(to[w])]) \subseteq Partial BY DEF Remains, Partial
    <3> QED BY <1>2, <2>2, <3>1 DEF Guts, Gutted
  <2>5. Installing(w)'
    BY <1>2, <2>3, <2>4 DEF Installing, Alike, NowhereYet, NoLinks, Linking, params, old
  <2>6. LinksComing(w)' /\ Unpacks(w)' BY <2>3 DEF LinksComing, Unpacks, Linking
  <2> QED BY <1>1, <2>3, <2>5, <2>6, Continued
<1>4. CASE pc[w] = "removing"
  <2>1. Disturb(Removed(App(to[w]))) /\ Finish(w, "failed") BY <1>1, <1>4 DEF Remove, Removing
  <2>2. UNCHANGED <<params, old>> BY <2>1, Finishing
  <2>3. \A pl \in Places \ {Cache} : tree'[pl] = oldTree[w][pl]
    BY <1>2, <2>1 DEF Disturb, Removed, Alike
  <2>4. SameLinks(w) BY <1>1, <1>2, InstallKnows DEF SameLinks, NoLinks
  <2>5. Alike(w, {})' /\ SameLinks(w)' BY <2>1, <2>2, <2>3, <2>4 DEF Alike, SameLinks, Disturb, old
  <2> QED BY <1>1, <2>1, <2>5, NothingDone
<1> QED BY <1>0, <1>3, <1>4

(* A successful update drops the backup. *)
LEMMA UpdateRemoves ==
    ASSUME NEW w, Alone(w), kind[w] = "update", Remove(w) \/ Removing(w)
    PROVE  Lawful(w)
<1>0. pc[w] \in {"remove", "removing"} BY DEF Remove, Removing
<1>1. /\ pc[w] \notin {"idle", "check"} /\ phase[w] = "forward" /\ Doomed(w) = Backup(from[w])
      /\ ~Nothing(w) /\ Removal(w) = "ok" /\ ~Fault(w, "remove")
  <2>1. ~Fault(w, "remove") BY OnlyHandled, AloneKnows DEF Alone
  <2> QED BY <1>0, <2>1, RemovingKnows DEF Doomed, Nothing, Removal
<1>2. /\ Backup(from[w]) \in Places /\ App(to[w]) \in Places /\ App(from[w]) \in Places
      /\ App(to[w]) # Backup(from[w]) /\ App(from[w]) # Backup(from[w])
      /\ Alike(w, {App(from[w]), Backup(from[w]), App(to[w])}) /\ tree[App(to[w])] = ver[w] /\ Moved(w)
      /\ oldTree[w][App(from[w])] \in WithInfo /\ LinksTo(App(to[w])) /\ appLink = to[w]
      /\ ver[w] \in Versions /\ from[w] \in Storages /\ to[w] \in Storages
      /\ pc[w] = "remove" => tree[Backup(from[w])] = oldTree[w][App(from[w])]
  BY <1>0, <1>1, UpdateKnows DEF Updating
<1>3. CASE pc[w] = "remove"
  <2>1. tree[Backup(from[w])] # "none" BY <1>2, <1>3, Kinships
  <2>2. Guts(Backup(from[w])) /\ Goto(w, "removing")
    BY <1>1, <1>3, <2>1 DEF Remove, Removing
  <2>3. pc'[w] = "removing" /\ UNCHANGED <<params, phase, farm, old, owned>> BY <2>2, Going DEF Steps
  <2>4. /\ tree'[Backup(from[w])] \in Partial /\ UNCHANGED <<link, appLink>>
        /\ \A pl \in Places \ {Backup(from[w])} : tree'[pl] = tree[pl]
    <3>1. Remains(tree[Backup(from[w])]) \subseteq Partial BY DEF Remains, Partial
    <3> QED BY <1>0, <1>2, <2>2, <3>1, UpdateKnows DEF Guts, Gutted
  <2>5. Updating(w)'
    BY <1>1, <1>2, <2>3, <2>4 DEF Updating, Alike, Moved, LinksTo, Linking, params, old
  <2>6. LinksComing(w)' /\ Unpacks(w)' BY <2>3 DEF LinksComing, Unpacks, Linking
  <2> QED BY <1>1, <2>3, <2>5, <2>6, Continued
<1>4. CASE pc[w] = "removing"
  <2>1. Disturb(Removed(Backup(from[w]))) /\ Finish(w, "ok") BY <1>1, <1>4 DEF Remove, Removing
  <2>2. pc'[w] = "idle" /\ result'[w] = "ok" /\ UNCHANGED <<params, phase, farm, old>> BY <2>1, Finishing
  <2>3. kind'[w] = kind[w] /\ to'[w] = to[w] /\ ver'[w] = ver[w] BY <2>2 DEF params
  <2>4. /\ tree'[Backup(from[w])] = "none" /\ UNCHANGED <<link, appLink>>
        /\ \A pl \in Places \ {Backup(from[w])} : tree'[pl] = tree[pl]
    BY <1>1, <1>2, <2>1, UpdateKnows DEF Disturb, Removed
  <2>5. /\ tree'[App(to[w])] = ver[w] /\ (App(to[w]) # App(from[w]) => tree'[App(from[w])] = "none")
        /\ \A pl \in Places \ {App(from[w]), Backup(from[w]), App(to[w]), Cache} : tree'[pl] = oldTree[w][pl]
    BY <1>2, <2>4 DEF Alike, Moved
  <2>6. \A q \in Storages \ {to[w]} : tree'[App(q)] \notin WithInfo
    BY <1>1, <1>2, <2>5, UpdateKnows, PlaceFacts, Kinships
  <2>7. tree'[App(Apps)] = "none"
    BY <1>1, <1>2, <2>5, UpdateKnows, PlaceFacts, PrefixAssumption
  <2>8. OneApp(tree)' BY <2>6, <2>7 DEF OneApp
  <2>9. NoBackups(tree)'
    <3>1. NoBackups(oldTree[w]) BY <1>1, AloneKnows DEF Settled
    <3>2. ASSUME NEW q \in Prefixes PROVE tree'[Backup(q)] = "none"
      BY <2>4, <2>5, <3>1, PlaceFacts DEF NoBackups
    <3> QED BY <3>2 DEF NoBackups
  <2>10. Leads(tree, link, appLink)' BY <1>2, <2>4, <2>5, Kinships, FilesOf DEF Leads, LinksTo
  <2>11. ShownAt(Needed(w), to[w])'
    <3>1. /\ to[w] # NoPrefix /\ to[w] # Apps /\ App(to[w]) # App(Apps) /\ App(to[w]) # NoPrefix
      BY <1>2, Lookups, RemovingKnows, <1>0, PlaceFacts, PlaceAssumption
    <3> QED BY <1>2, <2>3, <2>4, <3>1 DEF Needed, ShownAt, LinksTo, Target, Resolve
  <2>12. Achieved(w)' BY <2>3, <2>5, <2>11 DEF Achieved, ShownAt, Target, Resolve
  <2>13. Kept(tree, appLink)'
    <3>1. appLink' # NoPrefix BY <1>2, <2>4, PrefixAssumption DEF Prefixes
    <3>2. Sound(tree)' BY <1>2, <2>5, <2>6, Kinships DEF Sound
    <3> QED BY <3>1, <3>2 DEF Kept
  <2> QED BY <1>1, <2>2, <2>3, <2>8, <2>9, <2>10, <2>12, <2>13, Concluded DEF Leaves, Settled, OneApp, NoBackups, Leads
<1> QED BY <1>0, <1>3, <1>4

LEMMA UninstallKnows ==
    ASSUME NEW w, Alone(w), kind[w] = "uninstall", pc[w] \in {"remove", "removing"}
    PROVE  /\ from[w] \in Storages \cup {NoPrefix} /\ Uninstalling(w) /\ ~owned /\ (force[w] \/ Found(w))
           /\ Settled(oldTree[w], oldLink[w], oldAppLink[w]) /\ oldAppLink[w] \in Storages \cup {NoPrefix}
           /\ pc[w] \notin {"idle", "check"} /\ tree \in [Places -> Trees]
           /\ from[w] # NoPrefix =>
                 from[w] \in Storages /\ App(from[w]) \in Places /\ App(from[w]) # Cache /\ Doomed(w) = App(from[w])
           /\ Alike(w, {App(from[w])}) /\ (pc[w] = "remove" => Alike(w, {}))
           /\ appLink = NoPrefix /\ LinksLeft(w) /\ (Found(w) => NoLinks)
           /\ ~Found(w) => \A n \in LinkNames : oldLink[w][n] # App(Apps)
<1>1. ParamsOK(w) /\ Stage(w) /\ FsTypeOK /\ OldTypes(w) /\ pc[w] \notin {"idle", "check"}
      /\ Settled(oldTree[w], oldLink[w], oldAppLink[w])
  BY AloneKnows
<1>2. from[w] \in Storages \cup {NoPrefix} /\ Uninstalling(w) BY <1>1 DEF ParamsOK, Stage
<1>3. ~owned /\ (force[w] \/ Found(w)) BY <1>1, <1>2 DEF Uninstalling
<1>4. Alike(w, {App(from[w])}) /\ (pc[w] = "remove" => Alike(w, {})) BY <1>2 DEF Uninstalling, Alike
<1>5. ~Found(w) => \A n \in LinkNames : oldLink[w][n] # App(Apps) BY <1>1, <1>2, <1>3 DEF Uninstalling
<1>6. from[w] # NoPrefix =>
         from[w] \in Storages /\ App(from[w]) \in Places /\ App(from[w]) # Cache /\ Doomed(w) = App(from[w])
  BY <1>1, <1>2, Lookups, PlaceFacts DEF Doomed
<1>7. appLink = NoPrefix /\ LinksLeft(w) /\ (Found(w) => NoLinks) BY <1>2 DEF Uninstalling
<1>8. oldAppLink[w] \in Storages \cup {NoPrefix} /\ tree \in [Places -> Trees]
  BY <1>1 DEF OldTypes, FsTypeOK
<1> QED BY <1>1, <1>2, <1>3, <1>4, <1>5, <1>6, <1>7, <1>8

(* An uninstall ends, having removed the application or not. *)
LEMMA UninstallEnds ==
    ASSUME NEW w, Alone(w), kind[w] = "uninstall", pc[w] \in {"remove", "removing"},
           NEW r \in {"ok", "failed"}, Finish(w, r), UNCHANGED <<link, appLink>>,
           \A pl \in Places \ {App(from[w]), Cache} : tree'[pl] = oldTree[w][pl],
           ~Found(w) /\ from[w] # NoPrefix => tree'[App(from[w])] \in {"none", "part"},
           r = "ok" => force[w] \/ tree'[App(from[w])] = "none"
    PROVE  Lawful(w)
<1>1. pc'[w] = "idle" /\ result'[w] = r /\ UNCHANGED <<params, phase, farm, old>> /\ ~owned'
  BY Finishing, UninstallKnows
<1>2. kind'[w] = kind[w] /\ from'[w] = from[w] /\ force'[w] = force[w] BY <1>1 DEF params
<1>3. /\ \A q \in Storages \ {from[w]} : tree'[App(q)] = oldTree[w][App(q)]
      /\ \A q \in Prefixes : tree'[Backup(q)] = oldTree[w][Backup(q)]
      /\ tree'[App(Apps)] = oldTree[w][App(Apps)]
  BY UninstallKnows, PlaceFacts, PrefixAssumption
<1>4. \A q \in Storages : tree'[App(q)] \in WithInfo => oldTree[w][App(q)] \in WithInfo
  <2>1. ASSUME ~Found(w), from[w] # NoPrefix PROVE tree'[App(from[w])] \notin WithInfo
    BY <2>1, Kinships
  <2>2. ASSUME Found(w) PROVE oldTree[w][App(from[w])] \in WithInfo BY <2>2 DEF Found
  <2>3. NoPrefix \notin Storages BY PrefixAssumption DEF Prefixes
  <2> QED BY <1>3, <2>1, <2>2, <2>3
<1>5. OneApp(tree)' BY <1>3, <1>4, UninstallKnows DEF OneApp, Settled
<1>6. NoBackups(tree)' BY <1>3, UninstallKnows DEF NoBackups, Settled
<1>7. Leads(tree, link, appLink)'
  <2>1. CASE Found(w) BY <2>1, UninstallKnows DEF NoLinks, Leads
  <2>2. CASE ~Found(w)
    <3>1. ASSUME NEW n \in LinkNames, link[n] # NoPrefix
          PROVE  \E p \in Storages : n \in Files(tree'[App(p)]) /\ link[n] = App(p)
      <4>1. link[n] = oldLink[w][n] /\ oldLink[w][n] # App(Apps)
        BY <2>2, <3>1, UninstallKnows DEF LinksLeft
      <4>2. PICK p \in Storages : n \in Files(oldTree[w][App(p)]) /\ oldLink[w][n] = App(p)
        BY <3>1, <4>1, UninstallKnows DEF Settled, Leads
      <4>3. p # from[w] BY <2>2, <4>2, UninstallKnows, FilesOf, Kinships, PrefixAssumption DEF Found, Prefixes
      <4> QED BY <1>3, <4>1, <4>2, <4>3
    <3> QED BY <3>1, UninstallKnows DEF Leads
  <2> QED BY <2>1, <2>2
<1>8. r = "ok" => Achieved(w)'
  <2> SUFFICES ASSUME r = "ok", ~force[w] PROVE (NoLinks /\ ~AppIsInstalled(from[w]))'
    BY <1>2 DEF Achieved
  <2>1. NoLinks /\ Found(w) /\ tree'[App(from[w])] = "none" BY UninstallKnows
  <2>2. from[w] # Apps BY <2>1, UninstallKnows, PrefixAssumption DEF Found
  <2>3. ~IsAppDir(Resolve(from[w]))'
    BY <1>2, <2>1, <2>2, VersionAssumption DEF Resolve, IsAppDir
  <2> QED BY <2>1, <2>3 DEF NoLinks, AppIsInstalled
<1>9. Leaves(w) BY <1>1, <1>2, <1>8 DEF Leaves
<1> QED BY <1>1, <1>5, <1>6, <1>7, <1>9, UninstallKnows, Concluded DEF Settled, OneApp, NoBackups, Leads

LEMMA UninstallRemoves ==
    ASSUME NEW w, Alone(w), kind[w] = "uninstall", Remove(w) \/ Removing(w)
    PROVE  Lawful(w)
<1>0. pc[w] \in {"remove", "removing"} BY DEF Remove, Removing
<1>1. ASSUME pc[w] = "remove", UNCHANGED fsVars, NEW r \in {"ok", "failed"}, Finish(w, r),
             r = "ok" => force[w] \/ tree[App(from[w])] = "none"
      PROVE  Lawful(w)
  <2>1. \A pl \in Places \ {App(from[w]), Cache} : tree'[pl] = oldTree[w][pl]
    BY <1>0, <1>1, UninstallKnows DEF Alike, fsVars
  <2>2. ~Found(w) /\ from[w] # NoPrefix => tree'[App(from[w])] \in {"none", "part"}
    <3> SUFFICES ASSUME ~Found(w), from[w] # NoPrefix PROVE tree[App(from[w])] \in {"none", "part"}
      BY <1>1 DEF fsVars
    <3>1. oldTree[w][App(from[w])] \notin WithInfo /\ tree[App(from[w])] = oldTree[w][App(from[w])]
      BY <1>0, <1>1, UninstallKnows DEF Found, Alike
    <3>2. tree[App(from[w])] \in Trees BY <1>0, UninstallKnows
    <3> QED BY <3>1, <3>2, Kinships
  <2> QED BY <1>0, <1>1, <2>1, <2>2, UninstallEnds DEF fsVars
<1>2. CASE Remove(w)
  <2>1. pc[w] = "remove" BY <1>2 DEF Remove
  <2>2. CASE Nothing(w) /\ UNCHANGED fsVars /\ Finish(w, "ok")
    <3>1. force[w] BY <1>0, <2>2, UninstallKnows DEF Nothing, Found
    <3> QED BY <1>1, <2>1, <2>2, <3>1
  <2>3. CASE ~Nothing(w) /\ tree[Doomed(w)] = "none" /\ UNCHANGED fsVars /\ Finish(w, Removal(w))
    <3>1. Removal(w) = "ok" /\ tree[App(from[w])] = "none"
      BY <1>0, <2>3, UninstallKnows DEF Removal, Nothing
    <3> QED BY <1>1, <2>1, <2>3, <3>1
  <2>4. CASE ~Nothing(w) /\ tree[Doomed(w)] # "none" /\ Guts(Doomed(w)) /\ Goto(w, "removing")
    <3>1. from[w] # NoPrefix /\ Doomed(w) = App(from[w]) /\ App(from[w]) \in Places /\ tree \in [Places -> Trees]
          /\ App(from[w]) # Cache
      BY <1>0, <2>4, UninstallKnows DEF Nothing
    <3>2. pc'[w] = "removing" /\ UNCHANGED <<params, phase, farm, old, owned>> BY <2>4, Going DEF Steps
    <3>3. /\ tree'[App(from[w])] \in Remains(tree[App(from[w])]) /\ UNCHANGED <<link, appLink>>
          /\ \A pl \in Places \ {App(from[w])} : tree'[pl] = tree[pl]
      BY <2>4, <3>1 DEF Guts, Gutted
    <3>4. tree'[App(from[w])] \in Partial BY <3>3 DEF Remains, Partial
    <3>5. ~Found(w) => tree'[App(from[w])] = "part"
      <4> SUFFICES ASSUME ~Found(w) PROVE tree'[App(from[w])] = "part"
        OBVIOUS
      <4>1. oldTree[w][App(from[w])] \notin WithInfo /\ tree[App(from[w])] = oldTree[w][App(from[w])]
        BY <1>0, <2>1, <3>1, UninstallKnows DEF Found, Alike
      <4>2. tree[App(from[w])] = "part" BY <2>4, <3>1, <4>1, Kinships
      <4> QED BY <3>3, <4>2 DEF Remains
    <3>6. Uninstalling(w)'
      <4>1. Found(w)' = Found(w) BY <3>2 DEF Found, params, old
      <4>2. Alike(w, {App(from[w])})'
        BY <1>0, <3>2, <3>3, UninstallKnows DEF Alike, params, old
      <4>3. appLink' = NoPrefix /\ LinksLeft(w)' /\ (Found(w) => NoLinks')
        BY <1>0, <3>2, <3>3, UninstallKnows DEF LinksLeft, NoLinks, old
      <4>4. from'[w] = from[w] /\ force'[w] = force[w] /\ oldLink' = oldLink BY <3>2 DEF params, old
      <4>5. ~owned' /\ (force[w] \/ Found(w)) /\ (~Found(w) => \A n \in LinkNames : oldLink[w][n] # App(Apps))
        BY <1>0, <3>2, UninstallKnows
      <4> QED BY <3>1, <3>2, <3>4, <3>5, <4>1, <4>2, <4>3, <4>4, <4>5 DEF Uninstalling
    <3>7. LinksComing(w)' /\ Unpacks(w)' BY <3>2 DEF LinksComing, Unpacks, Linking
    <3> QED BY <1>0, <3>2, <3>6, <3>7, Continued
  <2>5. CASE UNCHANGED fsVars /\ Finish(w, RemovalFailed(w))
    <3>1. RemovalFailed(w) \in {"ok", "failed"} /\ (RemovalFailed(w) = "ok" => force[w])
      BY DEF RemovalFailed
    <3> QED BY <1>1, <2>1, <2>5, <3>1
  <2> QED BY <1>2, <2>2, <2>3, <2>4, <2>5 DEF Remove
<1>3. CASE Removing(w)
  <2>1. pc[w] = "removing" BY <1>3 DEF Removing
  <2>2. /\ from[w] # NoPrefix /\ tree[App(from[w])] \in Partial /\ (~Found(w) => tree[App(from[w])] = "part")
    BY <1>0, <2>1, UninstallKnows DEF Uninstalling
  <2>3. /\ Doomed(w) = App(from[w]) /\ App(from[w]) \in Places /\ tree \in [Places -> Trees]
    BY <1>0, <2>2, UninstallKnows
  <2>4. \A pl \in Places \ {App(from[w]), Cache} : tree[pl] = oldTree[w][pl]
    BY <1>0, UninstallKnows DEF Alike
  <2>5. CASE Disturb(Removed(Doomed(w))) /\ Finish(w, Removal(w))
    <3>1. Removal(w) = "ok" BY DEF Removal
    <3>2. /\ tree'[App(from[w])] = "none" /\ UNCHANGED <<link, appLink>>
          /\ \A pl \in Places \ {App(from[w])} : tree'[pl] = tree[pl]
      BY <2>3, <2>5 DEF Disturb, Removed
    <3>3. \A pl \in Places \ {App(from[w]), Cache} : tree'[pl] = oldTree[w][pl] BY <2>4, <3>2
    <3> QED BY <1>0, <2>5, <3>1, <3>2, <3>3, UninstallEnds
  <2>6. CASE UNCHANGED fsVars /\ Finish(w, RemovalFailed(w))
    <3>1. RemovalFailed(w) \in {"ok", "failed"} /\ (RemovalFailed(w) = "ok" => force[w])
      BY DEF RemovalFailed
    <3> QED BY <1>0, <2>2, <2>4, <2>6, <3>1, UninstallEnds DEF fsVars
  <2> QED BY <1>3, <2>5, <2>6 DEF Removing
<1> QED BY <1>2, <1>3

LEMMA RemovesLawful ==
    ASSUME NEW w, Alone(w), Remove(w) \/ Removing(w)
    PROVE  Lawful(w)
<1>1. pc[w] \in {"remove", "removing"} BY DEF Remove, Removing
<1> QED BY <1>1, RemovingKnows, InstallRemoves, UpdateRemoves, UninstallRemoves

-----------------------------------------------------------------------------
(* A transaction starts from a settled disk. *)

(* What every start does, and one of kind k with the parameters f, t, v    *)
(* and forced.                                                             *)
Fresh(w) ==
    /\ pc[w] = "idle" /\ pc'[w] = "check" /\ UNCHANGED <<tree, link, appLink, owned>>
    /\ oldTree'[w] = tree /\ oldLink'[w] = link /\ oldAppLink'[w] = appLink
    /\ Settled(tree, link, appLink) /\ (owned => Kept(tree, appLink))
    /\ Alike(w, {})' /\ SameLinks(w)' /\ OldTypes(w)'

Began(w, k, f, t, v, forced) ==
    /\ Fresh(w)
    /\ kind'[w] = k /\ from'[w] = f /\ to'[w] = t /\ ver'[w] = v /\ force'[w] = forced
    /\ k = "farm" => \A p \in Storages : App(p) \in todo'[w]

LEMMA Begun ==
    ASSUME NEW w, Alone(w), NEW k, NEW f, NEW t, NEW v, NEW d, NEW forced, Start(w, k, f, t, v, d, forced)
    PROVE  Began(w, k, f, t, v, forced)
<1>1. /\ pc[w] = "idle" /\ k \in Kinds /\ UNCHANGED <<fsVars, owned>>
      /\ pc'[w] = "check" /\ kind'[w] = k /\ from'[w] = f /\ to'[w] = t /\ ver'[w] = v /\ force'[w] = forced
  BY AloneKnows DEF Start, TypeOK
<1>2. oldTree'[w] = tree /\ oldLink'[w] = link /\ oldAppLink'[w] = appLink
  BY AloneKnows DEF Start, OldTypes
<1>3. Settled(tree, link, appLink) /\ (owned => Kept(tree, appLink)) BY <1>1 DEF Alone, SerialInv
<1>4. k = "farm" => \A p \in Storages : App(p) \in todo'[w] BY AloneKnows DEF Start, TypeOK
<1>5. Alike(w, {})' /\ SameLinks(w)' BY <1>1, <1>2 DEF Alike, SameLinks, fsVars
<1>6. DOMAIN oldTree' = Workers /\ DOMAIN oldLink' = Workers /\ DOMAIN oldAppLink' = Workers
  BY AloneKnows DEF Start, OldTypes
<1>7. /\ tree \in [Places -> Trees] /\ link \in [LinkNames -> Places \cup {NoPrefix}]
      /\ appLink \in Storages \cup {NoPrefix}
  BY AloneKnows DEF FsTypeOK
<1>8. OldTypes(w)' BY <1>2, <1>6, <1>7 DEF OldTypes
<1> QED BY <1>1, <1>2, <1>3, <1>4, <1>5, <1>8 DEF Began, Fresh, fsVars

LEMMA BegunStage ==
    ASSUME NEW w, Fresh(w),
           kind'[w] = "install" => Installing(w)', kind'[w] = "update" => Updating(w)',
           kind'[w] = "uninstall" => Uninstalling(w)', kind'[w] = "migrate" => Migrating(w)',
           kind'[w] = "symlinks" => Relinking(w)', kind'[w] = "farm" => Ensuring(w)'
    PROVE  SerialInv(w)'
<1>1. Stage(w)'
  BY DEF Fresh, Stage, Installing, Updating, Uninstalling, Migrating, Relinking, Ensuring, LinksComing,
         Unpacks, Linking
<1>2. Settled(oldTree[w], oldLink[w], oldAppLink[w])' /\ (owned => Kept(oldTree[w], oldAppLink[w]))'
  BY DEF Fresh, Settled, OneApp, NoBackups, Leads, Kept, Sound
<1> QED BY <1>1, <1>2 DEF Fresh, SerialInv

LEMMA StartsLawful ==
    ASSUME NEW w, Alone(w), Starts(w)
    PROVE  SerialInv(w)'
<1>0. FsTypeOK /\ UpdatePrefixes \subseteq Storages BY AloneKnows DEF Alone, OneAtATime
<1>1. CASE InstallStart(w)
  <2>1. PICK p \in Storages, v \in Versions :
           /\ \A q \in Storages \ {p} : ~AppIsInstalled(q)
           /\ Start(w, "install", NoPrefix, p, v, FALSE, FALSE)
    BY <1>1 DEF InstallStart
  <2>2. \A q \in Storages \ {p} : tree[App(q)] \notin WithInfo BY <1>0, <2>1, Lookups
  <2>3. Began(w, "install", NoPrefix, p, v, FALSE) BY <2>1, Begun
  <2>4. Installing(w)' BY <2>2, <2>3 DEF Began, Fresh, Installing, Linking
  <2>5. Fresh(w) /\ kind'[w] = "install" BY <2>3 DEF Began
  <2> QED BY <2>4, <2>5, BegunStage
<1>2. CASE UpdateStart(w)
  <2>1. PICK p, q \in UpdatePrefixes, v \in Versions, d \in BOOLEAN :
           Start(w, "update", p, q, v, d, FALSE)
    BY <1>2 DEF UpdateStart
  <2>2. Began(w, "update", p, q, v, FALSE) BY <2>1, Begun
  <2>3. Updating(w)' BY <2>2 DEF Began, Fresh, Updating, Linking
  <2>4. Fresh(w) /\ kind'[w] = "update" BY <2>2 DEF Began
  <2> QED BY <2>3, <2>4, BegunStage
<1>3. CASE UninstallStart(w)
  <2>1. PICK p \in Storages \cup {DetectPrefix}, forced \in BOOLEAN :
           /\ forced /\ ~AppIsInstalled(p) => \A n \in LinkNames : link[n] # App(Apps)
           /\ Start(w, "uninstall", p, NoPrefix, "none", FALSE, forced)
    BY <1>3 DEF UninstallStart
  <2>2. p \in Storages \cup {NoPrefix} BY <1>0 DEF DetectPrefix, FsTypeOK
  <2>3. AppIsInstalled(p) => p # NoPrefix /\ tree[App(p)] \in WithInfo BY <1>0, <2>2, Lookups
  <2>4. Began(w, "uninstall", p, NoPrefix, "none", forced) BY <2>1, Begun
  <2>5. AppIsInstalled(p) => Found(w)' BY <2>3, <2>4 DEF Found, Began, Fresh
  <2>6. Uninstalling(w)' BY <2>1, <2>4, <2>5 DEF Began, Fresh, Uninstalling, Linking
  <2>7. Fresh(w) /\ kind'[w] = "uninstall" BY <2>4 DEF Began
  <2> QED BY <2>6, <2>7, BegunStage
<1>4. CASE MigrateStart(w)
  <2>1. PICK p, q \in Storages :
           /\ tree[App(q)] # "part" /\ TreeAt(p) # "nobin"
           /\ Start(w, "migrate", p, q, TreeAt(p), FALSE, FALSE)
    BY <1>4 DEF MigrateStart
  <2>2. TreeAt(p) = tree[App(p)] BY <1>0, Lookups
  <2>3. Began(w, "migrate", p, q, TreeAt(p), FALSE) BY <2>1, Begun
  <2>4. Migrating(w)' BY <2>1, <2>2, <2>3 DEF Began, Fresh, Migrating, Linking
  <2>5. Fresh(w) /\ kind'[w] = "migrate" BY <2>3 DEF Began
  <2> QED BY <2>4, <2>5, BegunStage
<1>5. CASE SymlinksStart(w)
  <2>1. PICK p \in Prefixes, q \in Storages \cup {NoPrefix} :
           /\ AppIsInstalled(IF q = NoPrefix THEN p ELSE q)
           /\ TreeAt(IF q = NoPrefix THEN p ELSE q) # "nobin"
           /\ Start(w, "symlinks", p, q, "none", FALSE, FALSE)
    BY <1>5 DEF SymlinksStart
  <2>2. NoPrefix \notin Prefixes /\ Apps \notin Storages BY PrefixAssumption
  <2>3. Began(w, "symlinks", p, q, "none", FALSE) BY <2>1, Begun
  <2>4. Named(w)' = IF q # NoPrefix THEN q ELSE IF p = Apps THEN appLink ELSE p
    BY <2>3 DEF Named, Began, Fresh
  <2>5. Named(w)' # NoPrefix /\ tree[App(Named(w)')] \in WithInfo \ {"nobin"}
    <3>1. CASE q # NoPrefix
      BY <1>0, <2>1, <2>4, <3>1, Lookups
    <3>2. CASE q = NoPrefix /\ p \in Storages
      BY <1>0, <2>1, <2>2, <2>4, <3>2, Lookups
    <3>3. CASE q = NoPrefix /\ p = Apps
      <4>1. tree[Resolve(Apps)] \in WithInfo \ {"nobin"} BY <1>0, <2>1, <3>3, Lookups
      <4>2. tree[App(Apps)] = "none" BY <2>3 DEF Began, Fresh, Settled, OneApp
      <4>3. appLink # NoPrefix /\ tree[App(appLink)] \in WithInfo \ {"nobin"}
        BY <4>1, <4>2, Kinships DEF Resolve
      <4> QED BY <2>4, <3>3, <4>3
    <3> QED BY <3>1, <3>2, <3>3 DEF Prefixes
  <2>6. oldTree'[w][App(Named(w)')] \in WithInfo \ {"nobin"} BY <2>3, <2>5 DEF Began, Fresh
  <2>7. Relinking(w)' BY <2>3, <2>5, <2>6 DEF Began, Fresh, Relinking, Linking
  <2>8. Fresh(w) /\ kind'[w] = "symlinks" BY <2>3 DEF Began
  <2> QED BY <2>7, <2>8, BegunStage
<1>6. CASE FarmStart(w)
  <2>1. Began(w, "farm", NoPrefix, NoPrefix, "none", FALSE) BY <1>6, Begun DEF FarmStart
  <2>2. Leads(tree, link, appLink)' BY <2>1 DEF Began, Fresh, Settled, Leads
  <2>3. Ensuring(w)' BY <2>1, <2>2 DEF Began, Fresh, Ensuring, Linking
  <2>4. Fresh(w) /\ kind'[w] = "farm" BY <2>1 DEF Began
  <2> QED BY <2>3, <2>4, BegunStage
<1> QED BY <1>1, <1>2, <1>3, <1>4, <1>5, <1>6 DEF Starts

LEMMA WorksLawful ==
    ASSUME NEW w, Alone(w), Works(w)
    PROVE  Lawful(w)
BY CheckLawful, UnlinkLawful, BackupAppLawful, BackupCopyLawful, BackupDropLawful, ExtractLawful,
   ExtractEndLawful, ScriptsLawful, DeployLawful, DeployCopyLawful, DeployDropLawful, LinkBinLawful,
   LinkSysLawful, LinkAppLawful,
   FarmVisitLawful, FarmDoneLawful, RestoreAppLawful, RemovesLawful
   DEF Works

-----------------------------------------------------------------------------
(* The invariant, as long as nothing has crashed. *)
SerialOK(w) == TypeInv /\ (crashes = 0 => SerialInv(w))

LEMMA InitSerial ==
    ASSUME NEW w, OneAtATime(w), Init
    PROVE  SerialOK(w)
<1>1. TypeInv /\ w \in Workers BY InitTypes DEF OneAtATime
<1>2. pc[w] = "idle" /\ oldTree = [x \in Workers |-> tree] /\ oldLink = [x \in Workers |-> link]
      /\ oldAppLink = [x \in Workers |-> appLink]
  BY <1>1 DEF Init
<1>3. OldTypes(w) BY <1>1, <1>2 DEF OldTypes, TypeInv, TypeOK, FsTypeOK
<1>4. Stage(w)
  BY <1>1, <1>2 DEF Init, Stage, Installing, Updating, Uninstalling, Migrating, Relinking, Ensuring,
                    LinksComing, Unpacks, Linking
<1>5. CASE FsInit /\ owned = FALSE
  <2>1. \A pl \in Places : tree[pl] = "none" BY <1>5 DEF FsInit
  <2>2. \A p \in Storages : tree[App(p)] \notin WithInfo /\ App(p) \in Places
    BY <2>1, PlaceFacts, Kinships
  <2>3. OneApp(tree) /\ NoBackups(tree) BY <2>1, <2>2, PlaceFacts DEF OneApp, NoBackups
  <2>4. Leads(tree, link, appLink) BY <1>5 DEF FsInit, Leads
  <2> QED BY <1>1, <1>2, <1>3, <1>4, <1>5, <2>3, <2>4 DEF SerialOK, SerialInv, Settled
<1>6. ASSUME NEW p \in Storages, NEW v \in Versions, InstalledAt(p, v), owned = TRUE
      PROVE  SerialOK(w)
  <2>1. /\ p \in Prefixes /\ p # Apps /\ p # NoPrefix /\ App(p) \in Places
    BY PrefixAssumption, PlaceFacts
  <2>2. tree[App(p)] = v /\ \A pl \in Places \ {App(p)} : tree[pl] = "none"
    BY <1>6, <2>1 DEF InstalledAt
  <2>3. OneApp(tree)
    <3>1. tree[App(Apps)] = "none" BY <2>1, <2>2, PlaceFacts
    <3>2. \A q \in Storages \ {p} : tree[App(q)] \notin WithInfo BY <2>2, PlaceFacts, Kinships
    <3> QED BY <3>1, <3>2 DEF OneApp
  <2>4. NoBackups(tree) BY <2>2, PlaceFacts DEF NoBackups
  <2>5. Leads(tree, link, appLink) BY <1>6, <2>2, Kinships, FilesOf DEF InstalledAt, Leads
  <2>6. Kept(tree, appLink)
    <3>1. appLink # NoPrefix BY <1>6, <2>1 DEF InstalledAt
    <3>2. Sound(tree) BY <2>2, PlaceFacts, Kinships DEF Sound
    <3> QED BY <3>1, <3>2 DEF Kept
  <2> QED BY <1>1, <1>2, <1>3, <1>4, <2>3, <2>4, <2>5, <2>6 DEF SerialOK, SerialInv, Settled
<1> QED BY <1>5, <1>6 DEF Init

(* A step with nothing crashed. *)
LEMMA SerialSteps ==
    ASSUME NEW w, OneAtATime(w), SerialOK(w), Next, crashes' = 0
    PROVE  Alone(w) /\ (Starts(w) \/ Works(w))
<1>1. TypeInv' BY TypeStep DEF SerialOK
<1>2. crashes \in Nat BY BoundsAssumption DEF SerialOK, TypeInv, TypeOK
<1>3. ~Crash BY <1>2 DEF Crash
<1>4. Starts(w) \/ Works(w) BY <1>3, NextParts DEF OneAtATime
<1>5. crashes = 0
  <2>1. CASE Starts(w)
    BY <2>1 DEF Starts, InstallStart, UpdateStart, UninstallStart, MigrateStart, SymlinksStart, FarmStart, Start
  <2>2. CASE Works(w)
    <3>1. w \in Workers BY DEF OneAtATime
    <3>2. Fits(w) BY <2>2, <3>1, WorksFit DEF SerialOK
    <3> QED BY <3>2 DEF Fits, Moves, Step
  <2> QED BY <1>4, <2>1, <2>2
<1> QED BY <1>1, <1>4, <1>5 DEF Alone, SerialOK, OneAtATime

LEMMA SerialStep ==
    ASSUME NEW w, OneAtATime(w), SerialOK(w), [Next]_vars
    PROVE  SerialOK(w)'
<1>1. TypeInv' BY TypeStep DEF SerialOK
<1>2. CASE Next
  <2>1. crashes' = 0 => SerialInv(w)'
    BY <1>2, SerialSteps, StartsLawful, WorksLawful DEF Lawful
  <2> QED BY <1>1, <2>1 DEF SerialOK
<1>3. CASE UNCHANGED vars
  <2>1. crashes = 0 => SerialInv(w)'
    <3> SUFFICES ASSUME crashes = 0 PROVE SerialInv(w)'
      OBVIOUS
    <3>1. SerialInv(w) BY DEF SerialOK
    <3>2. UNCHANGED <<tree, link, appLink, pc, kind, from, to, ver, force, phase, todo, at, ensured, skipped,
                      oldTree, oldLink, oldAppLink, owned>>
      BY <1>3 DEF vars, fsVars, params, farm, old
    <3>3. (Installing(w) /\ Updating(w) /\ Uninstalling(w) /\ Migrating(w))'
      BY <3>1, <3>2 DEF SerialInv, Stage, Installing, Updating, Uninstalling, Migrating, Alike, SameLinks,
           NowhereYet, NoLinks, Cleaned, LinksTo, LinksLeft, Moved, Found, LinkPlace
    <3>4. Relinking(w)'
      <4>1. Named(w)' = Named(w) BY <3>2 DEF Named
      <4>2. oldTree'[w][App(Named(w)')] = oldTree[w][App(Named(w))] BY <3>2, <4>1
      <4> QED BY <3>1, <3>2, <4>1, <4>2 DEF SerialInv, Stage, Relinking, Alike, SameLinks, LinksLeft
    <3>5. Ensuring(w)'
      BY <3>1, <3>2 DEF SerialInv, Stage, Ensuring, Alike, SameLinks, Leads, Needed, ShownAt, Target, Resolve
    <3>6. LinksComing(w)' /\ Unpacks(w)' /\ OldTypes(w)'
      <4>1. LinkPlace(w)' = LinkPlace(w) BY <3>2 DEF LinkPlace
      <4>2. tree'[Target(LinkPlace(w))'] = tree[Target(LinkPlace(w))]
        BY <3>2, <4>1 DEF Target, Resolve
      <4> QED BY <3>1, <3>2, <4>1, <4>2 DEF SerialInv, Stage, LinksComing, Unpacks, OldTypes, OneApp, Leads
    <3> QED BY <3>1, <3>2, <3>3, <3>4, <3>5, <3>6
            DEF SerialInv, Stage, Settled, OneApp, NoBackups, Leads, Kept, Sound
  <2> QED BY <1>1, <1>3, <2>1 DEF SerialOK, vars
<1> QED BY <1>2, <1>3

(* The states of one transaction at a time. *)
THEOREM SerialInvariance ==
    ASSUME NEW x, OneAtATime(x)
    PROVE  Spec => []SerialOK(x)
<1>1. Init => SerialOK(x) BY InitSerial
<1>2. SerialOK(x) /\ [Next]_vars => SerialOK(x)' BY SerialStep
<1> QED BY <1>1, <1>2, PTL DEF Spec

-----------------------------------------------------------------------------
(* What the properties of the runs say then.                               *)

LEMMA QuietSettles ==
    ASSUME NEW w, OneAtATime(w), SerialOK(w), Quiet
    PROVE  FsTypeOK /\ Settled(tree, link, appLink) /\ (owned => Kept(tree, appLink))
BY DEF OneAtATime, SerialOK, Quiet, SerialInv, TypeInv, TypeOK

(* While nothing runs no link dangles, whatever failed before: every       *)
(* transaction removes the links first and makes them last.                *)
THEOREM LinksStayLive ==
    ASSUME NEW x, OneAtATime(x)
    PROVE  Spec => []QuietLinksLive
<1>1. ASSUME SerialOK(x), Quiet PROVE LinksLive
  <2>1. FsTypeOK /\ Leads(tree, link, appLink) BY <1>1, QuietSettles DEF Settled
  <2>2. appLink # NoPrefix => appLink \in Storages /\ tree[App(appLink)] \in WithInfo
    BY <2>1, Kinships DEF Leads, FsTypeOK
  <2>3. appLink # NoPrefix => AppIsInstalled(appLink) BY <2>1, <2>2, Lookups
  <2>4. ASSUME NEW n \in LinkNames, link[n] # NoPrefix,
               NEW files \in Exports(tree[Target(link[n])])
        PROVE  n \in files
    <3>1. PICK p \in Storages :
             n \in Files(tree[App(p)]) /\ (link[n] = App(p) \/ (link[n] = App(Apps) /\ appLink = p))
      BY <2>1, <2>4 DEF Leads
    <3>2. Target(link[n]) = App(p)
      <4>1. CASE link[n] = App(p) BY <2>1, <4>1, Lookups
      <4>2. CASE link[n] = App(Apps) /\ appLink = p BY <2>1, <3>1, <4>2, Lookups
      <4> QED BY <3>1, <4>1, <4>2
    <3>3. tree[App(p)] \in WithInfo BY <3>1, FilesOf, Kinships
    <3> QED BY <2>4, <3>1, <3>2, <3>3, FilesAmong
  <2> QED BY <2>3, <2>4 DEF LinksLive
<1>2. SerialOK(x) => QuietLinksLive BY <1>1 DEF QuietLinksLive
<1> QED BY <1>2, SerialInvariance, PTL

(* While nothing runs there is one complete copy at most: an update has    *)
(* dropped the backup, a migrate the old place.                            *)
THEOREM OneCopyStays ==
    ASSUME NEW x, OneAtATime(x)
    PROVE  Spec => []QuietOneCopy
<1>1. ASSUME SerialOK(x), Quiet, NEW pl \in Copies, NEW ql \in Copies PROVE pl = ql
  <2>1. FsTypeOK /\ OneApp(tree) /\ NoBackups(tree) BY <1>1, QuietSettles DEF Settled
  <2>2. ASSUME NEW cl \in Copies
        PROVE  \E p \in Storages : cl = App(p) /\ tree[App(p)] \in WithInfo
    <3>1. cl \in Places \ {Cache} /\ tree[cl] \in Versions BY DEF Copies
    <3>2. tree[cl] # "none" /\ tree[cl] \in WithInfo BY <3>1, Kinships
    <3>3. \A p \in Prefixes : cl # Backup(p) BY <2>1, <3>2 DEF NoBackups
    <3>4. PICK p \in Prefixes : cl = App(p) BY <3>1, <3>3 DEF Places
    <3>5. p # Apps BY <2>1, <3>2, <3>4 DEF OneApp
    <3>6. p \in Storages BY <3>5 DEF Prefixes
    <3> QED BY <3>2, <3>4, <3>6
  <2> QED BY <1>1, <2>1, <2>2 DEF OneApp
<1>2. SerialOK(x) => QuietOneCopy BY <1>1 DEF QuietOneCopy
<1> QED BY <1>2, SerialInvariance, PTL

(* While nothing runs list-apps names the application of a user who has    *)
(* installed it and not removed it, whatever failed in between.            *)
THEOREM ListedStays ==
    ASSUME NEW x, OneAtATime(x)
    PROVE  Spec => []QuietListed
<1>1. ASSUME SerialOK(x), Quiet, owned PROVE Listed
  <2>1. FsTypeOK /\ Leads(tree, link, appLink) /\ appLink # NoPrefix
    BY <1>1, QuietSettles DEF Settled, Kept
  <2>2. tree[App(appLink)] \in WithInfo /\ Resolve(Apps) = App(appLink)
    BY <2>1, Lookups, Kinships DEF Leads
  <2> QED BY <2>2, Kinships DEF Listed
<1>2. SerialOK(x) => QuietListed BY <1>1 DEF QuietListed
<1> QED BY <1>2, SerialInvariance, PTL

-----------------------------------------------------------------------------
(* A step reports if and only if it ends the transaction. *)
Ended(w) ==
    \/ pc'[w] # "idle" /\ result'[w] = result[w]
    \/ pc'[w] = "idle" /\ \/ result'[w] \in {"ok", "failed"}
                          \/ kind[w] = "migrate" /\ result'[w] = "already"

LEMMA WorksEnd ==
    ASSUME NEW w, Alone(w), Works(w)
    PROVE  Ended(w)
<1>0. w \in Workers /\ TypeOK /\ StageIn(kind[w], phase[w], pc[w]) BY AloneKnows
<1>1. ASSUME NEW s, s # "idle", Goto(w, s) PROVE Ended(w) BY <1>0, <1>1 DEF Goto, Ended, TypeOK
<1>2. ASSUME NEW s, s # "idle", GoBack(w, s) PROVE Ended(w) BY <1>0, <1>2 DEF GoBack, Ended, TypeOK
<1>3. ASSUME NEW r \in {"ok", "failed"}, Finish(w, r) PROVE Ended(w)
  BY <1>0, <1>3 DEF Finish, Ended, TypeOK
<1>4. ASSUME NEW ok, NextPlace(w, ok) PROVE Ended(w) BY <1>0, <1>4 DEF NextPlace, Ended, TypeOK
<1>5. Abandon(w) => Ended(w) BY <1>2, <1>3 DEF Abandon
<1>6. LinkFailed(w) => Ended(w)
  <2>1. CASE kind[w] = "farm" BY <1>4, <2>1 DEF LinkFailed
  <2>2. CASE kind[w] # "farm" BY <1>2, <1>3, <2>2 DEF LinkFailed
  <2> QED BY <2>1, <2>2
<1>7. LinkedUp(w) => Ended(w)
  <2>1. CASE kind[w] = "farm" BY <1>4, <2>1 DEF LinkedUp
  <2>2. CASE kind[w] # "farm" BY <1>1, <1>3, <2>2 DEF LinkedUp
  <2> QED BY <2>1, <2>2
<1>8. ASSUME Check(w) PROVE Ended(w)
  <2>1. CASE pc' = [pc EXCEPT ![w] = FirstStep(w)] /\ UNCHANGED result
    <3>1. FirstStep(w) # "idle" BY DEF FirstStep
    <3> QED BY <1>0, <2>1, <3>1 DEF Ended, TypeOK
  <2>2. CASE Finish(w, Refused(w))
    <3>1. Refused(w) = "failed" \/ (kind[w] = "migrate" /\ Refused(w) = "already") BY DEF Refused
    <3> QED BY <1>0, <2>2, <3>1 DEF Ended, Finish, TypeOK
  <2>3. CASE Finish(w, "failed") BY <1>3, <2>3
  <2> QED BY <1>8, <2>1, <2>2, <2>3 DEF Check
<1>9. ASSUME Unlink(w) PROVE Ended(w)
  <2>1. kind[w] \in {"install", "update", "uninstall", "migrate", "symlinks"}
    BY <1>0, <1>9 DEF Unlink, StageIn, Unpacking, Linking
  <2>2. AfterUnlink[kind[w]] # "idle" BY <2>1 DEF AfterUnlink
  <2> QED BY <1>1, <1>9, <2>2 DEF Unlink
<1>10. BackupApp(w) \/ BackupCopy(w) \/ BackupDrop(w) => Ended(w)
  BY <1>1, <1>2, <1>3 DEF BackupApp, BackupCopy, BackupCopyFailed, BackupDrop, DropSource
<1>11. Extract(w) \/ Scripts(w) => Ended(w) BY <1>1, <1>5 DEF Extract, Scripts
<1>12. ASSUME ExtractEnd(w) PROVE Ended(w)
  <2>1. (IF delta[w] THEN "deploy" ELSE "scripts") # "idle" OBVIOUS
  <2> QED BY <1>1, <1>5, <1>12, <2>1 DEF ExtractEnd
<1>13. Deploy(w) \/ DeployCopy(w) \/ DeployDrop(w) => Ended(w)
  <2>1. AfterDeploy(w) # "idle" BY DEF AfterDeploy
  <2> QED BY <1>1, <1>5, <2>1 DEF Deploy, DeployCopy, DeployDrop, DropSource
<1>14. LinkBin(w) \/ LinkSys(w) \/ LinkAppStep(w) => Ended(w)
  <2>1. PassOver(w) => Ended(w) BY <1>0 DEF PassOver, Ended, TypeOK
  <2> QED BY <1>1, <1>3, <1>6, <1>7, <2>1 DEF LinkBin, LinkSys, LinkAppStep
<1>15. ASSUME FarmVisit(w) PROVE Ended(w)
  BY <1>0, <1>15 DEF FarmVisit, Ended, TypeOK
<1>16. FarmDone(w) => Ended(w)
  <2>1. (IF ensured[w] THEN "ok" ELSE "failed") \in {"ok", "failed"} OBVIOUS
  <2> QED BY <1>3, <2>1 DEF FarmDone
<1>17. RestoreApp(w) \/ Remove(w) \/ Removing(w) => Ended(w)
  <2>1. Removal(w) \in {"ok", "failed"} /\ RemovalFailed(w) \in {"ok", "failed"}
    BY DEF Removal, RemovalFailed
  <2> QED BY <1>1, <1>3, <2>1 DEF RestoreApp, Remove, Removing
<1> QED BY <1>8, <1>9, <1>10, <1>11, <1>12, <1>13, <1>14, <1>15, <1>16, <1>17 DEF Works

(* What a report says of the disk it leaves, as long as nothing crashes. *)
LEMMA ReportsLeave ==
    ASSUME NEW w, OneAtATime(w), SerialOK(w), MaxCrashes = 0, [Next]_vars,
           NEW x \in Workers, NEW k, NEW r, r # "none", Reports(x, k, r)
    PROVE  x = w /\ kind[w] = k /\ result'[w] = r /\ pc'[w] = "idle" /\ Leaves(w)
<1>1. x = w /\ w \in Workers /\ kind[w] = k /\ result'[w] = r /\ result'[w] # result[w]
  BY DEF OneAtATime, Reports
<1>2. TypeInv' /\ TypeOK BY TypeStep DEF SerialOK, TypeInv
<1>3. crashes' = 0 BY <1>2 DEF TypeInv, TypeOK
<1>4. Next BY <1>1 DEF vars
<1>5. Alone(w) /\ (Starts(w) \/ Works(w)) BY <1>3, <1>4, SerialSteps
<1>6. ~Starts(w)
  BY <1>1, <1>2 DEF Starts, InstallStart, UpdateStart, UninstallStart, MigrateStart, SymlinksStart,
       FarmStart, Start, TypeOK
<1>7. Works(w) BY <1>5, <1>6
<1>8. pc'[w] = "idle" BY <1>1, <1>5, <1>7, WorksEnd DEF Ended
<1>9. Leaves(w) BY <1>5, <1>7, WorksLawful DEF Lawful
<1> QED BY <1>1, <1>8, <1>9

(* A failed install has rolled everything back, wherever it failed. *)
THEOREM InstallsRollBack ==
    ASSUME NEW x, OneAtATime(x), MaxCrashes = 0
    PROVE  Spec => InstallFailureRestores
<1>1. ASSUME SerialOK(x), [Next]_vars, NEW w \in Workers, Reports(w, "install", "failed")
      PROVE  SameTrees(w)' /\ SameLinks(w)'
  <2>1. w = x /\ kind[x] = "install" /\ result'[x] = "failed" /\ pc'[x] = "idle" /\ Leaves(x)
    BY <1>1, ReportsLeave
  <2> QED BY <2>1 DEF Leaves
<1>2. SerialOK(x) /\ [Next]_vars => [InstallRestores]_vars BY <1>1 DEF InstallRestores
<1> QED BY <1>2, SerialInvariance, PTL DEF Spec, InstallFailureRestores

(* A failed update has put the old version back, and its links. *)
THEOREM UpdatesPutBack ==
    ASSUME NEW x, OneAtATime(x), MaxCrashes = 0
    PROVE  Spec => UpdateFailureRestores
<1>1. ASSUME SerialOK(x), [Next]_vars, NEW w \in Workers, Reports(w, "update", "failed")
      PROVE  SameTrees(w)' /\ (WasShown(w) => SameLinks(w)')
  <2>1. w = x /\ kind[x] = "update" /\ result'[x] = "failed" /\ pc'[x] = "idle" /\ Leaves(x)
    BY <1>1, ReportsLeave
  <2> QED BY <2>1 DEF Leaves
<1>2. SerialOK(x) /\ [Next]_vars => [UpdateRestores]_vars BY <1>1 DEF UpdateRestores
<1> QED BY <1>2, SerialInvariance, PTL DEF Spec, UpdateFailureRestores

(* A transaction that reports success has done what its caller asked for:  *)
(* the version is where it should be, with every link leading there but    *)
(* the program's where do_binaries_symlinks passed it over.  It is so of   *)
(* the calls that InstallStart and MigrateStart allow (an install of what  *)
(* another storage has, and a migrate onto leftovers, report a success     *)
(* that is none), and while a migrate's eam_fs_deploy_app works (its       *)
(* result is ignored: the call succeeds and the application stays behind). *)
THEOREM SuccessesAchieve ==
    ASSUME NEW x, OneAtATime(x), MaxCrashes = 0
    PROVE  Spec => SuccessAchieves
<1>1. ASSUME SerialOK(x), [Next]_vars, NEW w \in Workers, NEW k \in Kinds, Reports(w, k, "ok")
      PROVE  Achieved(w)'
  <2>1. w = x /\ result'[x] = "ok" /\ pc'[x] = "idle" /\ Leaves(x) BY <1>1, ReportsLeave
  <2> QED BY <2>1 DEF Leaves
<1>2. SerialOK(x) /\ [Next]_vars => [SuccessReported]_vars BY <1>1 DEF SuccessReported
<1> QED BY <1>2, SerialInvariance, PTL DEF Spec, SuccessAchieves

-----------------------------------------------------------------------------
(* Transactions are atomic for the user: EamTransactions implements        *)
(* AppVersions.                                                            *)

(* What AppVersions sees of one worker. *)
Version == IF Running = {} THEN VersionIn(tree) ELSE VersionDuring(Worker)
Before == VersionIn(IF Running = {} THEN tree ELSE oldTree[Worker])
Called(w) == [kind |-> CallKind(w), ver |-> IF kind[w] \in Brings THEN ver[w] ELSE "none"]
Call == IF Running = {} THEN [kind |-> "none", ver |-> "none"] ELSE Called(Worker)

LEMMA OneWorks ==
    ASSUME NEW w, Workers = {w}
    PROVE  /\ Worker = w /\ Worker' = w
           /\ Running = (IF pc[w] = "idle" THEN {} ELSE {w})
           /\ Running' = (IF pc'[w] = "idle" THEN {} ELSE {w})
<1>1. Worker = w BY DEF Worker
<1>2. Worker' = w BY DEF Worker
<1> QED BY <1>1, <1>2 DEF Running

LEMMA Sees ==
    ASSUME NEW w, OneAtATime(w)
    PROVE  /\ pc[w] = "idle" =>
                 Version = VersionIn(tree) /\ Before = VersionIn(tree) /\ Call = Versioned!NoCall
           /\ pc[w] # "idle" =>
                 Version = VersionDuring(w) /\ Before = VersionIn(oldTree[w]) /\ Call = Called(w)
           /\ result[Worker] = result[w]
BY OneWorks DEF OneAtATime, Version, Before, Call, Versioned!NoCall

LEMMA SeesNext ==
    ASSUME NEW w, OneAtATime(w)
    PROVE  /\ pc'[w] = "idle" =>
                 Version' = VersionIn(tree)' /\ Before' = VersionIn(tree)' /\ Call' = Versioned!NoCall
           /\ pc'[w] # "idle" =>
                 Version' = VersionDuring(w)' /\ Before' = VersionIn(oldTree[w])' /\ Call' = Called(w)'
           /\ (result[Worker])' = result'[w]
<1>1. Workers = {w} BY DEF OneAtATime
<1>2. Worker' = w /\ Running' = (IF pc'[w] = "idle" THEN {} ELSE {w}) BY <1>1, OneWorks
<1> QED BY <1>2 DEF Version, Before, Call, Versioned!NoCall

(* The version on a disk, whatever place it is in. *)
LEMMA SameVersion ==
    ASSUME NEW t, NEW u,
           \A pl \in Places \ {Cache} : t[pl] \in Versions => \E ql \in Places \ {Cache} : u[ql] = t[pl],
           \A pl \in Places \ {Cache} : u[pl] \in Versions => \E ql \in Places \ {Cache} : t[ql] = u[pl]
    PROVE  VersionIn(t) = VersionIn(u)
<1>1. {t[pl] : pl \in Places \ {Cache}} \cap Versions = {u[pl] : pl \in Places \ {Cache}} \cap Versions
  OBVIOUS
<1> QED BY <1>1 DEF VersionIn

LEMMA VersionHere ==
    ASSUME NEW t, NEW pl \in Places \ {Cache}, t[pl] \in Versions,
           \A ql \in Places \ {Cache} : t[ql] \in Versions => t[ql] = t[pl]
    PROVE  VersionIn(t) = t[pl]
<1>1. {t[ql] : ql \in Places \ {Cache}} \cap Versions = {t[pl]} OBVIOUS
<1> QED BY <1>1 DEF VersionIn

LEMMA NoVersion ==
    ASSUME NEW t, \A pl \in Places \ {Cache} : t[pl] \notin Versions
    PROVE  VersionIn(t) = "none"
<1>1. {t[ql] : ql \in Places \ {Cache}} \cap Versions = {} OBVIOUS
<1> QED BY <1>1 DEF VersionIn

LEMMA VersionInRange ==
    ASSUME NEW t
    PROVE  VersionIn(t) \in Versions \cup {"none"}
BY DEF VersionIn

(* With a storage that has the application, its tree says the version. *)
LEMMA SettledVersion ==
    ASSUME NEW t, OneApp(t), NoBackups(t), NEW p \in Storages, t[App(p)] \in WithInfo
    PROVE  VersionIn(t) = IF t[App(p)] \in Versions THEN t[App(p)] ELSE "none"
<1>1. App(p) \in Places \ {Cache} BY PlaceFacts
<1>2. ASSUME NEW pl \in Places \ {Cache}, pl # App(p) PROVE t[pl] \notin Versions
  <2>1. CASE pl = App(Apps) BY <2>1, Kinships DEF OneApp
  <2>2. ASSUME NEW q \in Storages, pl = App(q) PROVE t[pl] \notin Versions
    <3>1. q # p BY <1>2, <2>2
    <3> QED BY <2>2, <3>1, Kinships DEF OneApp
  <2>3. ASSUME NEW q \in Prefixes, pl = Backup(q) PROVE t[pl] \notin Versions
    BY <2>3, Kinships DEF NoBackups
  <2> QED BY <1>2, <2>1, <2>2, <2>3 DEF Places, Prefixes
<1>3. CASE t[App(p)] \in Versions BY <1>1, <1>2, <1>3, VersionHere
<1>4. CASE t[App(p)] \notin Versions BY <1>2, <1>4, NoVersion
<1> QED BY <1>3, <1>4

(* What a worker does to the version: nothing, until an update is decided  *)
(* or an uninstall removes what it found.                                  *)
Taken(w) == kind[w] = "uninstall" /\ pc[w] = "removing" /\ Found(w)
Known(w) ==
    VersionDuring(w) =
       IF Decided(w) THEN ver[w] ELSE IF Taken(w) THEN "none" ELSE VersionIn(oldTree[w])

LEMMA AlikeVersion ==
    ASSUME NEW w, NEW pls, Alike(w, pls),
           \A pl \in pls : tree[pl] \notin Versions /\ oldTree[w][pl] \notin Versions
    PROVE  VersionIn(tree) = VersionIn(oldTree[w])
<1>1. \A pl \in Places \ {Cache} :
         tree[pl] \in Versions \/ oldTree[w][pl] \in Versions => tree[pl] = oldTree[w][pl]
  BY DEF Alike
<1> QED BY <1>1, SameVersion

LEMMA UpdateVersion ==
    ASSUME NEW w \in Workers, OneAtATime(w), TypeInv, SerialInv(w), pc[w] # "idle", kind[w] = "update"
    PROVE  Known(w)
<1>1. /\ Updating(w) /\ ParamsOK(w) /\ StageIn(kind[w], phase[w], pc[w]) /\ phase[w] \in Phases
      /\ OneApp(oldTree[w]) /\ NoBackups(oldTree[w]) /\ OldTypes(w)
  BY WorkerKnows DEF SerialInv, Stage, Settled
<1>2. from[w] \in Storages /\ to[w] \in Storages /\ ver[w] \in Versions /\ from[w] \in Prefixes
  BY <1>1, PlaceFacts DEF ParamsOK, OneAtATime
<1>3. ~Taken(w) BY DEF Taken
<1>4. CASE Decided(w)
  <2>1. tree[App(to[w])] = ver[w] BY <1>1, <1>4 DEF Decided, Updating, Linking
  <2> QED BY <1>2, <1>4, <2>1 DEF Known, VersionDuring, HeldAt
<1>5. CASE ~Decided(w) /\ HoldsBackup(w)
  <2>1. pc[w] \in {"backupdrop", "extract", "extracting", "scripts", "deploy", "deploycopy", "restore"}
        \/ (phase[w] = "forward" /\ pc[w] \in {"drop"} \cup Linking)
    BY <1>1, <1>5 DEF HoldsBackup, Decided, StageIn, Linking, Unpacking
  <2>2. oldTree[w][App(from[w])] \in WithInfo BY <1>1, <2>1 DEF Updating, Linking
  <2>3. tree[Backup(from[w])] = oldTree[w][App(from[w])] BY <1>1, <2>1 DEF Updating, Linking
  <2>4. VersionIn(oldTree[w]) = HeldAt(Backup(from[w]))
    BY <1>1, <1>2, <2>2, <2>3, SettledVersion DEF HeldAt
  <2> QED BY <1>3, <1>5, <2>4 DEF Known, VersionDuring
<1>6. CASE ~Decided(w) /\ ~HoldsBackup(w)
  <2>1. pc[w] \in {"check", "unlink", "backup", "backupcopy"} \/ (phase[w] = "back" /\ pc[w] \in Linking)
    BY <1>1, <1>6 DEF HoldsBackup, Decided, StageIn, Linking, Unpacking
  <2>2. VersionDuring(w) = VersionIn(tree) BY <1>6 DEF VersionDuring
  <2>3. CASE pc[w] \in {"check", "unlink", "backup"}
    <3>1. Alike(w, {}) BY <1>1, <2>3 DEF Updating
    <3>2. VersionIn(tree) = VersionIn(oldTree[w]) BY <3>1, AlikeVersion
    <3> QED BY <1>3, <1>6, <2>2, <3>2 DEF Known
  <2>4. CASE pc[w] = "backupcopy"
    <3>1. Alike(w, {Backup(from[w])}) /\ tree[Backup(from[w])] \in Partial BY <1>1, <2>4 DEF Updating
    <3>2. oldTree[w][Backup(from[w])] = "none" BY <1>1, <1>2 DEF NoBackups
    <3>3. VersionIn(tree) = VersionIn(oldTree[w]) BY <3>1, <3>2, Kinships, AlikeVersion
    <3> QED BY <1>3, <1>6, <2>2, <3>3 DEF Known
  <2>5. CASE phase[w] = "back" /\ pc[w] \in Linking
    <3>1. Alike(w, {App(to[w])}) /\ Cleaned(w, App(to[w])) BY <1>1, <2>5 DEF Updating
    <3>2. \A pl \in Places \ {Cache} :
             tree[pl] \in Versions \/ oldTree[w][pl] \in Versions => tree[pl] = oldTree[w][pl]
      BY <3>1, Kinships DEF Alike, Cleaned
    <3>3. VersionIn(tree) = VersionIn(oldTree[w]) BY <3>2, SameVersion
    <3> QED BY <1>3, <1>6, <2>2, <3>3 DEF Known
  <2> QED BY <2>1, <2>3, <2>4, <2>5
<1> QED BY <1>4, <1>5, <1>6

LEMMA UninstallVersion ==
    ASSUME NEW w \in Workers, OneAtATime(w), TypeInv, SerialInv(w), pc[w] # "idle", kind[w] = "uninstall"
    PROVE  Known(w)
<1>1. /\ Uninstalling(w) /\ ParamsOK(w) /\ StageIn(kind[w], phase[w], pc[w]) /\ phase[w] \in Phases
      /\ OneApp(oldTree[w]) /\ NoBackups(oldTree[w]) /\ OldTypes(w)
  BY WorkerKnows DEF SerialInv, Stage, Settled
<1>2. from[w] \in Storages \cup {NoPrefix} BY <1>1 DEF ParamsOK
<1>3. ~Decided(w) /\ VersionDuring(w) = VersionIn(tree) BY DEF Decided, VersionDuring, HoldsBackup
<1>4. CASE pc[w] # "removing"
  <2>1. pc[w] \in {"check", "unlink", "remove"}
    BY <1>1, <1>4 DEF StageIn, Linking, Unpacking
  <2>2. Alike(w, {}) BY <1>1, <2>1 DEF Uninstalling
  <2>3. VersionIn(tree) = VersionIn(oldTree[w]) BY <2>2, AlikeVersion
  <2> QED BY <1>3, <1>4, <2>3 DEF Known, Taken
<1>5. CASE pc[w] = "removing"
  <2>1. /\ from[w] \in Storages /\ Alike(w, {App(from[w])}) /\ tree[App(from[w])] \in Partial
    BY <1>1, <1>2, <1>5 DEF Uninstalling
  <2>2. tree[App(from[w])] \notin Versions BY <2>1, Kinships DEF Partial
  <2>3. CASE Found(w)
    <3>1. \A pl \in Places \ {Cache} : tree[pl] \notin Versions
      <4> SUFFICES ASSUME NEW pl \in Places \ {Cache}, tree[pl] \in Versions PROVE FALSE
        OBVIOUS
      <4>1. pl # App(from[w]) /\ oldTree[w][pl] \in Versions BY <2>1, <2>2 DEF Alike
      <4>2. oldTree[w][pl] \in WithInfo /\ oldTree[w][pl] # "none" BY <4>1, Kinships
      <4>3. PICK q \in Storages : pl = App(q)
        BY <1>1, <4>2 DEF Places, Prefixes, OneApp, NoBackups
      <4>4. q = from[w] BY <1>1, <2>1, <2>3, <4>2, <4>3 DEF OneApp, Found
      <4> QED BY <4>1, <4>3, <4>4
    <3>2. VersionIn(tree) = "none" BY <3>1, NoVersion
    <3> QED BY <1>3, <1>5, <2>3, <3>2 DEF Known, Taken
  <2>4. CASE ~Found(w)
    <3>1. oldTree[w][App(from[w])] \notin Versions
      BY <2>1, <2>4, PrefixAssumption, Kinships DEF Found, Prefixes
    <3>2. VersionIn(tree) = VersionIn(oldTree[w]) BY <2>1, <2>2, <3>1, AlikeVersion
    <3> QED BY <1>3, <2>4, <3>2 DEF Known, Taken
  <2> QED BY <2>3, <2>4
<1> QED BY <1>4, <1>5

LEMMA MigrateVersion ==
    ASSUME NEW w \in Workers, OneAtATime(w), TypeInv, SerialInv(w), pc[w] # "idle", kind[w] = "migrate"
    PROVE  Known(w)
<1>1. /\ Migrating(w) /\ ParamsOK(w) /\ StageIn(kind[w], phase[w], pc[w]) /\ phase[w] \in Phases
      /\ OldTypes(w)
  BY WorkerKnows DEF SerialInv, Stage
<1>2. from[w] \in Storages /\ to[w] \in Storages BY <1>1 DEF ParamsOK
<1>3. ~Decided(w) /\ ~Taken(w) /\ VersionDuring(w) = VersionIn(tree)
  BY DEF Decided, Taken, VersionDuring, HoldsBackup
<1>4. VersionIn(tree) = VersionIn(oldTree[w])
  <2>1. CASE pc[w] \in {"check", "deploy"}
    <3>1. Alike(w, {}) BY <1>1, <2>1 DEF Migrating
    <3> QED BY <3>1, AlikeVersion
  <2>2. CASE pc[w] = "deploycopy"
    <3>1. /\ Alike(w, {App(to[w])}) /\ tree[App(to[w])] \in Partial
          /\ oldTree[w][App(to[w])] = "none"
      BY <1>1, <2>2 DEF Migrating
    <3> QED BY <3>1, Kinships, AlikeVersion
  <2>3. CASE pc[w] \in {"drop", "unlink"} \cup Linking
    <3>1. /\ Alike(w, {App(from[w]), App(to[w])})
          /\ tree[App(from[w])] \in Partial \cup {"none", oldTree[w][App(from[w])]}
          /\ tree[App(to[w])] = oldTree[w][App(from[w])] /\ oldTree[w][App(to[w])] = "none"
      BY <1>1, <2>3 DEF Migrating, Linking
    <3>2. /\ App(from[w]) \in Places \ {Cache} /\ App(to[w]) \in Places \ {Cache}
          /\ \A t \in Partial \cup {"none"} : t \notin Versions
      BY <1>2, PlaceFacts, Kinships
    <3>3. ASSUME NEW pl \in Places \ {Cache}, tree[pl] \in Versions
          PROVE  \E ql \in Places \ {Cache} : oldTree[w][ql] = tree[pl]
      BY <3>1, <3>2, <3>3 DEF Alike
    <3>4. ASSUME NEW pl \in Places \ {Cache}, oldTree[w][pl] \in Versions
          PROVE  \E ql \in Places \ {Cache} : tree[ql] = oldTree[w][pl]
      BY <3>1, <3>2, <3>4 DEF Alike
    <3> QED BY <3>3, <3>4, SameVersion
  <2> QED BY <1>1, <2>1, <2>2, <2>3 DEF StageIn, Unpacking
<1> QED BY <1>3, <1>4 DEF Known

LEMMA VersionKnown ==
    ASSUME NEW w, OneAtATime(w), TypeInv, SerialInv(w), pc[w] # "idle"
    PROVE  Known(w)
<1>1. w \in Workers BY DEF OneAtATime
<1>2. CASE kind[w] \in {"install", "symlinks", "farm"}
  <2>1. ~Decided(w) /\ ~Taken(w) /\ ~HoldsBackup(w) BY <1>2 DEF Decided, Taken, HoldsBackup
  <2>2. CASE kind[w] = "install" BY <2>1, <2>2 DEF Known, VersionDuring
  <2>3. CASE kind[w] \in {"symlinks", "farm"}
    <3>1. Alike(w, {}) BY <2>3 DEF SerialInv, Stage, Relinking, Ensuring
    <3>2. VersionIn(tree) = VersionIn(oldTree[w]) BY <3>1, AlikeVersion
    <3> QED BY <2>1, <2>3, <3>2 DEF Known, VersionDuring
  <2> QED BY <1>2, <2>2, <2>3
<1>3. kind[w] \in {"install", "update", "uninstall", "migrate", "symlinks", "farm"}
  BY <1>1, WorkerKnows, KindsAssumption DEF StageIn
<1> QED BY <1>1, <1>2, <1>3, UpdateVersion, UninstallVersion, MigrateVersion

LEMMA VersionKnownNext ==
    ASSUME NEW w, OneAtATime(w)
    PROVE  (TypeInv /\ SerialInv(w) /\ pc[w] # "idle" => Known(w))'
<1>1. TypeInv /\ SerialInv(w) /\ pc[w] # "idle" => Known(w) BY VersionKnown
<1> QED BY <1>1, PTL

(* What a worker's step keeps of its transaction. *)
LEMMA WorksKnow ==
    ASSUME NEW w, Alone(w), Works(w)
    PROVE  /\ pc[w] # "idle" /\ UNCHANGED <<params, old>>
           /\ kind[w] \in {"install", "update", "uninstall", "migrate", "symlinks", "farm"}
<1>1. w \in Workers /\ TypeInv /\ StageIn(kind[w], phase[w], pc[w]) BY AloneKnows DEF Alone
<1>2. pc[w] # "idle"
  BY DEF Works, Check, Unlink, BackupApp, BackupCopy, BackupDrop, Extract, ExtractEnd, Scripts, Deploy,
         DeployCopy, DeployDrop, DropSource, LinkBin, LinkSys, LinkAppStep, FarmVisit, FarmDone, RestoreApp,
         Remove, Removing
<1>3. UNCHANGED <<params, old>> BY <1>1, WorksFit DEF Fits, Moves, Step
<1> QED BY <1>1, <1>2, <1>3, KindsAssumption DEF StageIn

(* Commands that keep the version do not end with a step that changes the  *)
(* trees.                                                                  *)
Keepers == {"migrate", "symlinks", "farm"}

LEMMA KeepersEnd ==
    ASSUME NEW w, Alone(w), Works(w), kind[w] \in Keepers, pc'[w] = "idle"
    PROVE  UNCHANGED tree
<1>0. w \in Workers /\ TypeOK /\ StageIn(kind[w], phase[w], pc[w]) BY AloneKnows
<1>1. pc[w] \notin {"backup", "backupcopy", "backupdrop", "extract", "extracting", "scripts", "restore",
                     "remove", "removing"}
  BY <1>0 DEF StageIn, Unpacking, Linking, Keepers
<1>2. ASSUME NEW s, s # "idle", Goto(w, s) PROVE FALSE BY <1>0, <1>2 DEF Goto, TypeOK
<1>3. ~Deploy(w) /\ ~DeployCopy(w)
  <2> SUFFICES ASSUME Deploy(w) \/ DeployCopy(w) PROVE FALSE
    OBVIOUS
  <2>1. kind[w] = "migrate" /\ pc[w] \in {"deploy", "deploycopy"}
    BY <1>0 DEF Deploy, DeployCopy, StageIn, Unpacking, Linking, Keepers
  <2>2. AfterDeploy(w) # "idle" /\ ~Fault(w, "deploy")
    BY <2>1, OnlyHandled DEF AfterDeploy, Alone
  <2>3. tree[Source(w)] # "none" /\ (TargetFree(to[w]) <=> tree[App(to[w])] = "none") BY <2>1, DeployKnows
  <2>4. CASE Deploy(w)
    <3>1. tree[App(to[w])] = "none" BY <2>1, <2>4, MigrateKnows DEF Deploy, Migrating, Alike
    <3>2. CanDeploy(w) BY <2>3, <3>1 DEF CanDeploy
    <3> QED BY <1>2, <2>2, <2>4, <3>2 DEF Deploy
  <2>5. CASE DeployCopy(w) BY <1>2, <2>2, <2>3, <2>5 DEF DeployCopy
  <2> QED BY <2>4, <2>5
<1>4. ~DeployDrop(w)
  <2>1. AfterDeploy(w) # "idle" BY DEF AfterDeploy
  <2> QED BY <1>2, <2>1 DEF DeployDrop, DropSource
<1>5. \/ Check(w) \/ Unlink(w) \/ LinkBin(w) \/ LinkSys(w) \/ LinkAppStep(w) \/ FarmVisit(w) \/ FarmDone(w)
  BY <1>1, <1>3, <1>4
     DEF Works, BackupApp, BackupCopy, BackupDrop, DropSource, Extract, ExtractEnd, Scripts, RestoreApp,
         Remove, Removing
<1> QED BY <1>5 DEF Check, Unlink, LinkBin, LinkSys, LinkAppStep, FarmVisit, FarmDone, fsVars

(* So does an uninstall, unless it has removed the directory, or given up  *)
(* and been forced.                                                        *)
LEMMA UninstallEnd ==
    ASSUME NEW w, Alone(w), Works(w), kind[w] = "uninstall", pc'[w] = "idle"
    PROVE  \/ UNCHANGED tree /\ (result'[w] = "ok" => force[w])
           \/ /\ pc[w] = "removing" /\ from[w] # NoPrefix /\ tree' = [tree EXCEPT ![App(from[w])] = "none"]
              /\ tree[App(from[w])] \in Partial /\ (force[w] \/ Found(w))
<1>0. w \in Workers /\ TypeOK /\ StageIn(kind[w], phase[w], pc[w]) BY AloneKnows
<1>1. pc[w] \in {"check", "unlink", "remove", "removing"}
  BY <1>0, WorksKnow DEF StageIn, Unpacking, Linking
<1>2. ASSUME NEW s, s # "idle", Goto(w, s) PROVE FALSE BY <1>0, <1>2 DEF Goto, TypeOK
<1>3. ASSUME NEW r, Finish(w, r) PROVE result'[w] = r BY <1>3, Finishing
<1>4. RemovalFailed(w) = "ok" => force[w] BY DEF RemovalFailed
<1>5. CASE Check(w)
  <2>1. FirstStep(w) = "unlink" BY DEF FirstStep
  <2>2. Refused(w) = "failed" BY DEF Refused
  <2>3. Finish(w, "failed") /\ UNCHANGED tree BY <1>0, <1>5, <2>1, <2>2 DEF Check, fsVars, TypeOK
  <2> QED BY <1>3, <2>3
<1>6. CASE Unlink(w)
  <2>1. AfterUnlink[kind[w]] = "remove" BY DEF AfterUnlink
  <2> QED BY <1>2, <1>6, <2>1 DEF Unlink
<1>7. CASE Remove(w)
  <2>1. pc[w] = "remove" BY <1>7 DEF Remove
  <2>2. CASE Nothing(w) /\ UNCHANGED fsVars /\ Finish(w, "ok")
    <3>1. force[w] BY <2>1, <2>2, UninstallKnows DEF Nothing, Found
    <3> QED BY <2>2, <3>1 DEF fsVars
  <2>3. CASE ~Nothing(w) /\ tree[Doomed(w)] = "none" /\ UNCHANGED fsVars /\ Finish(w, Removal(w))
    <3>1. from[w] # NoPrefix /\ tree[App(from[w])] = "none" /\ App(from[w]) \in Places \ {Cache}
      BY <2>1, <2>3, UninstallKnows DEF Nothing
    <3>2. oldTree[w][App(from[w])] = "none" BY <2>1, <3>1, UninstallKnows DEF Alike
    <3>3. ~Found(w) BY <3>2, Kinships DEF Found
    <3> QED BY <2>1, <2>3, <3>3, UninstallKnows DEF fsVars
  <2>4. CASE Goto(w, "removing") BY <1>2, <2>4
  <2>5. CASE UNCHANGED fsVars /\ Finish(w, RemovalFailed(w)) BY <1>3, <1>4, <2>5 DEF fsVars
  <2> QED BY <1>7, <2>2, <2>3, <2>4, <2>5 DEF Remove
<1>8. CASE Removing(w)
  <2>1. pc[w] = "removing" BY <1>8 DEF Removing
  <2>2. /\ from[w] # NoPrefix /\ tree[App(from[w])] \in Partial /\ (force[w] \/ Found(w))
        /\ Doomed(w) = App(from[w])
    BY <2>1, UninstallKnows DEF Uninstalling
  <2>3. CASE Disturb(Removed(Doomed(w))) BY <2>1, <2>2, <2>3 DEF Disturb, Removed
  <2>4. CASE UNCHANGED fsVars /\ Finish(w, RemovalFailed(w)) BY <1>3, <1>4, <2>4 DEF fsVars
  <2> QED BY <1>8, <2>3, <2>4 DEF Removing
<1> QED BY <1>1, <1>5, <1>6, <1>7, <1>8
        DEF Works, BackupApp, BackupCopy, BackupDrop, Extract, ExtractEnd, Scripts, Deploy, DeployCopy,
            DeployDrop, DropSource, LinkBin, LinkSys, LinkAppStep, FarmVisit, FarmDone, RestoreApp

(* The steps of AppVersions, in the terms of what it sees. *)
LEMMA AbstractStutter ==
    ASSUME Version' = Version, Before' = Before, Call' = Call, (result[Worker])' = result[Worker]
    PROVE  UNCHANGED Versioned!appVars
BY DEF Version, Before, Call, Called, Versioned!appVars

LEMMA AbstractBegin ==
    ASSUME Call = Versioned!NoCall, Version' = Version, Before' = Before, (result[Worker])' = "none",
           NEW k \in Brings \cup {"uninstall", "forced"} \cup Keepers, NEW v \in Versions \cup {"none"},
           Call' = [kind |-> k, ver |-> v]
    PROVE  Versioned!Next
<1>1. Versioned!Begin(k, v) BY DEF Version, Before, Call, Called, Versioned!Begin
<1> QED BY <1>1 DEF Versioned!Next, Keepers

LEMMA AbstractEffect ==
    ASSUME Call # Versioned!NoCall, Version' = Versioned!Outcome, Before' = Before, Call' = Call,
           (result[Worker])' = result[Worker]
    PROVE  Versioned!Next
<1>1. Versioned!TakesEffect BY DEF Version, Before, Call, Called, Versioned!TakesEffect
<1> QED BY <1>1 DEF Versioned!Next

LEMMA AbstractEnd ==
    ASSUME Call # Versioned!NoCall, Call' = Versioned!NoCall, Before' = Version',
           Version' \in {Version, Versioned!Outcome}
    PROVE  Versioned!Ends((result[Worker])')
BY DEF Version, Before, Call, Called, Versioned!Ends

LEMMA AbstractSuccess ==
    ASSUME Call # Versioned!NoCall, Call' = Versioned!NoCall, Before' = Version',
           Version' = Versioned!Outcome, (result[Worker])' = "ok"
    PROVE  Versioned!Next
<1>1. Versioned!Ends("ok") BY AbstractEnd
<1>2. Versioned!Succeeds BY <1>1 DEF Versioned!Succeeds, Version
<1> QED BY <1>2 DEF Versioned!Next

LEMMA AbstractFailure ==
    ASSUME Call # Versioned!NoCall, Call' = Versioned!NoCall, Before' = Version', Version' = Version,
           (result[Worker])' \in {"failed", "already"},
           Call.kind \notin {"uninstall", "forced"} => Version' = Before
    PROVE  Versioned!Next
<1>1. Versioned!Ends((result[Worker])') BY AbstractEnd
<1>2. Versioned!Fails BY <1>1 DEF Versioned!Fails, Version, Before, Call, Called
<1> QED BY <1>2 DEF Versioned!Next

LEMMA AbstractGivesUp ==
    ASSUME Call # Versioned!NoCall, Call' = Versioned!NoCall, Before' = Version', Version' = Version,
           (result[Worker])' = "ok", Call.kind = "forced"
    PROVE  Versioned!Next
<1>1. Versioned!Ends("ok") BY AbstractEnd
<1>2. Versioned!GivesUp BY <1>1 DEF Versioned!GivesUp, Call, Called
<1> QED BY <1>2 DEF Versioned!Next

LEMMA CallsKnown ==
    ASSUME NEW w, Called(w) = Call,
           kind[w] \in {"install", "update", "uninstall", "migrate", "symlinks", "farm"}
    PROVE  /\ Call # Versioned!NoCall
           /\ Call.kind = IF kind[w] = "uninstall" /\ force[w] THEN "forced" ELSE kind[w]
           /\ kind[w] \in Brings => Versioned!Outcome = ver[w]
           /\ kind[w] = "uninstall" => Versioned!Outcome = "none"
           /\ kind[w] \in Keepers => Versioned!Outcome = Version
<1>1. /\ Call.kind = (IF kind[w] = "uninstall" /\ force[w] THEN "forced" ELSE kind[w])
      /\ Call.ver = IF kind[w] \in Brings THEN ver[w] ELSE "none"
  BY DEF Called, CallKind
<1>2. Call # Versioned!NoCall BY <1>1 DEF Versioned!NoCall
<1>3. Versioned!Outcome = IF Call.kind \in Brings THEN Call.ver
                          ELSE IF Call.kind \in {"uninstall", "forced"} THEN "none" ELSE Version
  BY DEF Versioned!Outcome, Call, Called, Version, Brings
<1> QED BY <1>1, <1>2, <1>3 DEF Brings, Keepers

-----------------------------------------------------------------------------
(* Step by step. *)

LEMMA InitVersioned ==
    ASSUME NEW w, OneAtATime(w), Init
    PROVE  Versioned!Init
<1>1. pc[w] = "idle" /\ result[w] = "none" BY DEF Init, OneAtATime
<1>2. Version = VersionIn(tree) /\ Before = VersionIn(tree) /\ Call = Versioned!NoCall /\ result[Worker] = "none"
  BY <1>1, Sees
<1>3. Version \in Versions \cup {"none"} BY <1>2, VersionInRange
<1> QED BY <1>2, <1>3 DEF Versioned!Init, Version, Before, Call, Called

LEMMA StartsVersioned ==
    ASSUME NEW w, Alone(w), Starts(w)
    PROVE  Versioned!Next
<1>0. w \in Workers /\ TypeInv /\ TypeInv' /\ OneAtATime(w) BY DEF Alone
<1>1. PICK k, f, t, v, d, forced : StartsAs(w, k, f, t, v, d, forced) BY <1>0, StartsWith
<1>2. Start(w, k, f, t, v, d, forced) BY <1>1 DEF StartsAs
<1>3. Began(w, k, f, t, v, forced) BY <1>2, Begun
<1>4. pc[w] = "idle" /\ pc'[w] = "check" /\ tree' = tree /\ oldTree'[w] = tree BY <1>3 DEF Began, Fresh
<1>5. result'[w] = "none" BY <1>0, <1>2 DEF Start, TypeInv, TypeOK
<1>6. kind'[w] \in {"install", "update", "uninstall", "migrate", "symlinks", "farm"}
  BY <1>1, <1>3, KindsAssumption DEF StartsAs, Began
<1>7. VersionDuring(w)' = VersionIn(tree)
  BY <1>4 DEF VersionDuring, Decided, HoldsBackup
<1>8. Version' = Version /\ Before' = Before /\ Call = Versioned!NoCall /\ (result[Worker])' = "none"
  BY <1>0, <1>4, <1>5, <1>7, Sees, SeesNext
<1>9. kind'[w] \in Brings => ver'[w] \in Versions
  BY <1>0 DEF TypeInv, StagesOK, ParamsOK, Brings
<1>10. CallKind(w)' \in Brings \cup {"uninstall", "forced"} \cup Keepers
  BY <1>6 DEF CallKind, Brings, Keepers
<1>11. Call' = [kind |-> CallKind(w)', ver |-> IF kind'[w] \in Brings THEN ver'[w] ELSE "none"]
  BY <1>0, <1>4, SeesNext DEF Called
<1> QED BY <1>8, <1>9, <1>10, <1>11, AbstractBegin

(* A step in between, with the invariant after it. *)
LEMMA GoesOnVersioned ==
    ASSUME NEW w, Alone(w), Works(w), SerialInv(w)', pc'[w] # "idle"
    PROVE  [Versioned!Next]_Versioned!appVars
<1>0. w \in Workers /\ TypeInv /\ TypeInv' /\ OneAtATime(w) /\ SerialInv(w) BY DEF Alone
<1>1. pc[w] # "idle" /\ UNCHANGED <<params, old>> /\ result'[w] = result[w]
      /\ kind[w] \in {"install", "update", "uninstall", "migrate", "symlinks", "farm"}
  BY WorksKnow, WorksEnd DEF Ended
<1>2. Known(w) /\ Known(w)' BY <1>0, <1>1, VersionKnown, VersionKnownNext
<1>3. /\ Version = VersionDuring(w) /\ Version' = VersionDuring(w)' /\ Call = Called(w) /\ Call' = Call
      /\ Before' = Before /\ (result[Worker])' = result[Worker]
  BY <1>0, <1>1, Sees, SeesNext DEF Called, CallKind, params, old
<1>4. CASE Decided(w)' \/ Taken(w)'
  <2>1. Version' = Versioned!Outcome
    BY <1>1, <1>2, <1>3, <1>4, CallsKnown DEF Known, Decided, Taken, params, Brings
  <2> QED BY <1>1, <1>3, <2>1, CallsKnown, AbstractEffect
<1>5. CASE ~Decided(w)' /\ ~Taken(w)'
  <2>1. ~Decided(w) /\ ~Taken(w)
    <3>1. ASSUME pc[w] = "remove", kind[w] = "update", phase[w] = "forward" PROVE Decided(w)'
      <4>1. Remove(w)
        BY <1>0, <3>1 DEF Works, Check, Unlink, BackupApp, BackupCopy, BackupDrop, Extract, ExtractEnd,
           Scripts, Deploy, DeployCopy, DeployDrop, DropSource, LinkBin, LinkSys, LinkAppStep, FarmVisit, FarmDone, RestoreApp, Removing
      <4>2. Goto(w, "removing") BY <1>0, <4>1 DEF Remove, Finish, TypeInv, TypeOK
      <4> QED BY <1>0, <3>1, <4>2, Going DEF Decided, params, Steps
    <3>2. pc[w] # "removing"
      <4> SUFFICES ASSUME pc[w] = "removing" PROVE FALSE
        OBVIOUS
      <4>1. Removing(w)
        BY <1>0 DEF Works, Check, Unlink, BackupApp, BackupCopy, BackupDrop, Extract, ExtractEnd, Scripts,
           Deploy, DeployCopy, DeployDrop, DropSource, LinkBin, LinkSys, LinkAppStep, FarmVisit, FarmDone, RestoreApp, Remove
      <4> QED BY <1>0, <4>1 DEF Removing, Finish, TypeInv, TypeOK
    <3> QED BY <3>1, <3>2, <1>5 DEF Decided, Taken
  <2>2. Version' = Version
    <3>1. VersionDuring(w) = VersionIn(oldTree[w]) BY <1>2, <2>1 DEF Known
    <3>2. VersionDuring(w)' = VersionIn(oldTree'[w]) BY <1>2, <1>5 DEF Known
    <3>3. oldTree' = oldTree BY <1>1 DEF old
    <3> QED BY <1>3, <3>1, <3>2, <3>3
  <2> QED BY <1>3, <2>2, AbstractStutter
<1> QED BY <1>4, <1>5

(* A step that ends a transaction leaves what it reports. *)
LEMMA EndsBringing ==
    ASSUME NEW w, Alone(w), Works(w), Lawful(w), pc'[w] = "idle", kind[w] \in Brings
    PROVE  Versioned!Next
<1>0. /\ w \in Workers /\ TypeInv /\ TypeInv' /\ OneAtATime(w) /\ SerialInv(w) /\ Leaves(w)
      /\ ParamsOK(w) /\ StageIn(kind[w], phase[w], pc[w])
  BY AloneKnows DEF Alone, Lawful
<1>1. /\ pc[w] # "idle" /\ UNCHANGED <<params, old>> /\ result'[w] \in {"ok", "failed"}
      /\ kind[w] \in {"install", "update", "uninstall", "migrate", "symlinks", "farm"}
      /\ kind'[w] = kind[w] /\ to'[w] = to[w] /\ ver'[w] = ver[w] /\ oldTree' = oldTree
  BY WorksKnow, WorksEnd DEF Ended, Brings, params, old
<1>2. Known(w) BY <1>0, <1>1, VersionKnown
<1>3. /\ Version = VersionDuring(w) /\ Version' = VersionIn(tree') /\ Call = Called(w)
      /\ Call' = Versioned!NoCall /\ Before' = Version' /\ Before = VersionIn(oldTree[w])
      /\ (result[Worker])' = result'[w]
  BY <1>0, <1>1, Sees, SeesNext
<1>4. /\ Call # Versioned!NoCall /\ Call.kind \notin {"uninstall", "forced"}
      /\ Versioned!Outcome = ver[w]
  BY <1>1, <1>3, CallsKnown DEF Brings
<1>5. CASE result'[w] = "ok"
  <2>1. tree'[App(to[w])] = ver[w] BY <1>0, <1>1, <1>5 DEF Leaves, Achieved, Brings
  <2>2. to[w] \in Storages /\ ver[w] \in Versions BY <1>0 DEF ParamsOK, OneAtATime, Brings
  <2>3. OneApp(tree') /\ NoBackups(tree')
    BY DEF Lawful, SerialInv, Settled, OneApp, NoBackups
  <2>4. VersionIn(tree') = ver[w] BY <2>1, <2>2, <2>3, Kinships, SettledVersion
  <2> QED BY <1>3, <1>4, <1>5, <2>4, AbstractSuccess
<1>6. CASE result'[w] = "failed"
  <2>1. SameTrees(w)' BY <1>0, <1>6 DEF Leaves, Brings
  <2>2. \A pl \in Places \ {Cache} :
           tree'[pl] \in Versions \/ oldTree[w][pl] \in Versions => tree'[pl] = oldTree[w][pl]
    BY <1>1, <2>1, Kinships DEF SameTrees
  <2>3. VersionIn(tree') = VersionIn(oldTree[w]) BY <2>2, SameVersion
  <2>4. ~Decided(w)
    <3> SUFFICES ASSUME Decided(w) PROVE FALSE
      OBVIOUS
    <3>1. pc[w] \in {"remove", "removing"} /\ kind[w] = "update" BY DEF Decided
    <3>2. Remove(w) \/ Removing(w)
      BY <1>0, <3>1 DEF Works, Check, Unlink, BackupApp, BackupCopy, BackupDrop, Extract, ExtractEnd,
         Scripts, Deploy, DeployCopy, DeployDrop, DropSource, LinkBin, LinkSys, LinkAppStep, FarmVisit, FarmDone, RestoreApp
    <3>3. ~Goto(w, "removing") BY <1>0 DEF Goto, TypeInv, TypeOK
    <3>4. Finish(w, "ok")
      BY <3>1, <3>2, <3>3 DEF Remove, Removing, Removal, RemovalFailed
    <3> QED BY <1>6, <3>4, Finishing
  <2>5. ~Taken(w) BY DEF Taken, Brings
  <2>6. Version' = Version /\ Version' = Before BY <1>2, <1>3, <2>3, <2>4, <2>5 DEF Known
  <2> QED BY <1>3, <1>4, <1>6, <2>6, AbstractFailure
<1> QED BY <1>1, <1>5, <1>6

LEMMA EndsKeeping ==
    ASSUME NEW w, Alone(w), Works(w), pc'[w] = "idle", kind[w] \in Keepers
    PROVE  Versioned!Next
<1>0. w \in Workers /\ TypeInv /\ OneAtATime(w) /\ SerialInv(w) BY DEF Alone
<1>1. /\ pc[w] # "idle" /\ result'[w] \in {"ok", "failed", "already"} /\ tree' = tree
      /\ kind[w] \in {"install", "update", "uninstall", "migrate", "symlinks", "farm"}
  BY WorksKnow, WorksEnd, KeepersEnd DEF Ended
<1>2. Known(w) /\ ~Decided(w) /\ ~Taken(w) BY <1>0, <1>1, VersionKnown DEF Decided, Taken, Keepers
<1>3. /\ Version = VersionDuring(w) /\ Version' = VersionIn(tree) /\ Call = Called(w)
      /\ Call' = Versioned!NoCall /\ Before' = Version' /\ Before = VersionIn(oldTree[w])
      /\ (result[Worker])' = result'[w]
  BY <1>0, <1>1, Sees, SeesNext
<1>4. VersionDuring(w) = VersionIn(tree) BY DEF VersionDuring, Decided, HoldsBackup, Keepers
<1>5. Version' = Version /\ Version' = Before BY <1>2, <1>3, <1>4 DEF Known
<1>6. /\ Call # Versioned!NoCall /\ Call.kind \notin {"uninstall", "forced"}
      /\ Versioned!Outcome = Version
  BY <1>1, <1>3, CallsKnown DEF Keepers
<1> QED BY <1>1, <1>3, <1>5, <1>6, AbstractSuccess, AbstractFailure

LEMMA EndsUninstall ==
    ASSUME NEW w, Alone(w), Works(w), pc'[w] = "idle", kind[w] = "uninstall"
    PROVE  Versioned!Next
<1>0. w \in Workers /\ TypeInv /\ OneAtATime(w) /\ SerialInv(w) /\ ParamsOK(w)
  BY AloneKnows DEF Alone
<1>1. pc[w] # "idle" /\ result'[w] \in {"ok", "failed"} BY WorksKnow, WorksEnd DEF Ended
<1>2. Known(w) /\ ~Decided(w) /\ VersionDuring(w) = VersionIn(tree)
  BY <1>0, <1>1, VersionKnown DEF Decided, VersionDuring, HoldsBackup
<1>3. /\ Version = VersionIn(tree) /\ Version' = VersionIn(tree') /\ Call = Called(w)
      /\ Call' = Versioned!NoCall /\ Before' = Version' /\ (result[Worker])' = result'[w]
  BY <1>0, <1>1, <1>2, Sees, SeesNext
<1>4. /\ Call # Versioned!NoCall /\ Versioned!Outcome = "none"
      /\ Call.kind = IF force[w] THEN "forced" ELSE "uninstall"
  BY <1>3, CallsKnown
<1>5. CASE UNCHANGED tree /\ (result'[w] = "ok" => force[w])
  <2>1. Version' = Version BY <1>3, <1>5
  <2> QED BY <1>1, <1>3, <1>4, <1>5, <2>1, AbstractFailure, AbstractGivesUp
<1>6. CASE /\ pc[w] = "removing" /\ from[w] # NoPrefix /\ tree' = [tree EXCEPT ![App(from[w])] = "none"]
           /\ tree[App(from[w])] \in Partial /\ (force[w] \/ Found(w))
  <2>1. \A pl \in Places \ {Cache} :
           tree'[pl] \in Versions \/ tree[pl] \in Versions => tree'[pl] = tree[pl]
    BY <1>0, <1>6, Kinships DEF TypeInv, TypeOK, FsTypeOK
  <2>2. VersionIn(tree') = VersionIn(tree) BY <2>1, SameVersion
  <2>3. Version' = Version BY <1>3, <2>2
  <2>4. CASE Found(w)
    <3>1. Version = "none" BY <1>2, <1>3, <1>6, <2>4 DEF Known, Taken
    <3> QED BY <1>1, <1>3, <1>4, <2>3, <3>1, AbstractSuccess, AbstractFailure
  <2>5. CASE ~Found(w) BY <1>1, <1>3, <1>4, <1>6, <2>3, <2>5, AbstractFailure, AbstractGivesUp
  <2> QED BY <2>4, <2>5
<1> QED BY <1>5, <1>6, UninstallEnd

LEMMA VersionedStep ==
    ASSUME NEW w, OneAtATime(w), MaxCrashes = 0, SerialOK(w), [Next]_vars
    PROVE  [Versioned!Next]_Versioned!appVars
<1>1. CASE Next
  <2>1. crashes' = 0
    <3>1. TypeInv' BY TypeStep DEF SerialOK
    <3> QED BY <3>1 DEF TypeInv, TypeOK
  <2>2. Alone(w) /\ (Starts(w) \/ Works(w)) BY <1>1, <2>1, SerialSteps
  <2>3. CASE Starts(w) BY <2>2, <2>3, StartsVersioned
  <2>4. CASE Works(w)
    <3>1. Lawful(w) BY <2>2, <2>4, WorksLawful
    <3>2. CASE pc'[w] # "idle" BY <2>2, <2>4, <3>1, <3>2, GoesOnVersioned DEF Lawful
    <3>3. CASE pc'[w] = "idle"
      <4>1. kind[w] \in Brings \cup {"uninstall"} \cup Keepers
        BY <2>2, <2>4, WorksKnow DEF Brings, Keepers
      <4> QED BY <2>2, <2>4, <3>1, <3>3, <4>1, EndsBringing, EndsKeeping, EndsUninstall
    <3> QED BY <3>2, <3>3
  <2> QED BY <2>2, <2>3, <2>4
<1>2. CASE UNCHANGED vars
  <2>1. UNCHANGED <<tree, pc, kind, ver, force, phase, from, to, result, oldTree>>
    BY <1>2 DEF vars, fsVars, params, old
  <2>2. /\ Version' = Version /\ Before' = Before /\ Call' = Call
        /\ (result[Worker])' = result[Worker]
    BY <2>1 DEF Version, Before, Call, Called, CallKind, Running, Worker, VersionDuring, Decided,
       HoldsBackup, HeldAt
  <2> QED BY <2>2, AbstractStutter
<1> QED BY <1>1, <1>2

(* Every transaction is atomic for the user: its steps amount to one       *)
(* change of the version or to none, and its report says which, whichever  *)
(* of the steps the code rolls back from fails.                            *)
THEOREM AtomicForTheUser ==
    ASSUME NEW x, OneAtATime(x), MaxCrashes = 0
    PROVE  Spec => AtomicVersions
<1>1. Init => Versioned!Init BY InitVersioned
<1>2. SerialOK(x) /\ [Next]_vars => [Versioned!Next]_Versioned!appVars BY VersionedStep
<1> QED BY <1>1, <1>2, SerialInvariance, PTL DEF Spec, AtomicVersions, Versioned!Spec

-----------------------------------------------------------------------------
(* One worker, with every failure and any number of crashes.  What it has  *)
(* unpacked, backed up and deployed itself is whole, whatever the crashes  *)
(* before it have left.                                                    *)
Lone(w) ==
    /\ Workers = {w}
    /\ "migrate" \notin Kinds
    /\ UpdatePrefixes \subseteq Storages

CacheReady(w) ==
    /\ pc[w] = "extracting" => tree[Cache] \in Partial
    /\ pc[w] \in {"scripts", "deploy", "deploycopy"} => tree[Cache] \in Versions

NewCopy(w) ==
    (kind[w] \in {"install", "update"} /\ (pc[w] = "drop" \/ (phase[w] = "forward" /\ pc[w] \in Linking)))
    => tree[App(to[w])] \in Versions

OldCopy(w) ==
    kind[w] = "update" =>
    /\ pc[w] \in {"unlink", "backup", "backupcopy"} \/ (phase[w] = "back" /\ pc[w] \in Linking) =>
          tree[App(from[w])] \in WithInfo
    /\ Holds(w) /\ pc[w] \notin {"remove", "removing"} => tree[Backup(from[w])] \in WithInfo

NamedCopy(w) ==
    kind[w] = "symlinks" /\ pc[w] # "idle" =>
    /\ tree[Target(LinkPlace(w))] \in WithInfo
    /\ pc[w] = "unlink" => to[w] # NoPrefix

Based(w) == CacheReady(w) /\ NewCopy(w) /\ OldCopy(w) /\ NamedCopy(w)

LEMMA LoneFacts ==
    ASSUME NEW w, Lone(w), TypeInv
    PROVE  /\ w \in Workers /\ TypeOK /\ FsTypeOK /\ ParamsOK(w) /\ tree \in [Places -> Trees]
           /\ StageIn(kind[w], phase[w], pc[w]) /\ phase[w] \in Phases
           /\ pc[w] # "idle" => kind[w] \in {"install", "update", "uninstall", "symlinks", "farm"}
           /\ kind[w] = "update" => from[w] \in Storages /\ to[w] \in Storages
           /\ kind[w] = "install" => to[w] \in Storages
           /\ kind[w] = "uninstall" => from[w] \in Storages \cup {NoPrefix}
           /\ Cache \notin FarmPlaces
           /\ \A p \in Storages : App(p) \in FarmPlaces /\ Backup(p) \in FarmPlaces
           /\ appLink # NoPrefix => appLink \in Storages
<1>1. w \in Workers BY DEF Lone
<1>2. /\ TypeOK /\ FsTypeOK /\ ParamsOK(w) /\ StageIn(kind[w], phase[w], pc[w])
      /\ kind[w] \in {"none", "install", "update", "uninstall", "migrate", "symlinks", "farm"}
      /\ phase[w] \in Phases
  BY <1>1, WorkerKnows
<1>3. "none" \notin Kinds /\ "migrate" \notin Kinds BY KindsAssumption DEF Lone
<1>4. pc[w] # "idle" => kind[w] \in Kinds \cup {"install", "update", "uninstall", "symlinks", "farm", "migrate"}
  BY <1>2 DEF StageIn
<1>5. kind[w] \in Kinds \cup {"none"} BY <1>1, <1>2 DEF TypeOK
<1>6. pc[w] # "idle" => kind[w] \in {"install", "update", "uninstall", "symlinks", "farm"}
  BY <1>2, <1>3, <1>4, <1>5
<1>7. /\ kind[w] = "update" => from[w] \in Storages /\ to[w] \in Storages
      /\ kind[w] = "install" => to[w] \in Storages
      /\ kind[w] = "uninstall" => from[w] \in Storages \cup {NoPrefix}
  BY <1>2 DEF ParamsOK, Lone
<1>8. Cache \notin FarmPlaces BY PlaceFacts
<1>9. \A p \in Storages : App(p) \in FarmPlaces /\ Backup(p) \in FarmPlaces BY DEF FarmPlaces
<1>10. (appLink # NoPrefix => appLink \in Storages) /\ tree \in [Places -> Trees]
  BY <1>2 DEF FsTypeOK
<1> QED BY <1>1, <1>2, <1>6, <1>7, <1>8, <1>9, <1>10

LEMMA Lands ==
    ASSUME NEW w \in Workers, TypeOK
    PROVE  /\ Abandon(w) => pc'[w] \in {"idle", "restore"}
           /\ kind[w] # "farm" /\ LinkFailed(w) => pc'[w] \in {"idle", "unlink", "restore"}
           /\ kind[w] # "farm" /\ LinkedUp(w) =>
                 pc'[w] = "idle" \/ (pc'[w] = "remove" /\ kind[w] = "update")
           /\ kind[w] # "farm" /\ PassOver(w) => pc'[w] = "linksys" /\ UNCHANGED <<phase, todo, at, ensured>>
           /\ kind[w] = "farm" /\ LinkFailed(w) =>
                 pc'[w] = "farm" /\ todo' = todo /\ ~ensured'[w]
           /\ kind[w] = "farm" /\ LinkedUp(w) =>
                 /\ pc'[w] = "farm" /\ UNCHANGED <<todo, skipped>> /\ (ensured'[w] => ensured[w])
<1>1. Abandon(w) => pc'[w] \in {"idle", "restore"} BY DEF TypeOK, Abandon, GoBack, Finish
<1>2. kind[w] # "farm" /\ LinkFailed(w) => pc'[w] \in {"idle", "unlink", "restore"}
  BY DEF TypeOK, LinkFailed, GoBack, Finish
<1>3. kind[w] # "farm" /\ LinkedUp(w) => pc'[w] = "idle" \/ (pc'[w] = "remove" /\ kind[w] = "update")
  BY DEF TypeOK, LinkedUp, Goto, Finish
<1>4. kind[w] = "farm" /\ LinkFailed(w) => pc'[w] = "farm" /\ todo' = todo /\ ~ensured'[w]
  BY DEF TypeOK, LinkFailed, NextPlace
<1>5. kind[w] = "farm" /\ LinkedUp(w) =>
         pc'[w] = "farm" /\ UNCHANGED <<todo, skipped>> /\ (ensured'[w] => ensured[w])
  BY DEF TypeOK, LinkedUp, NextPlace
<1>6. PassOver(w) => pc'[w] = "linksys" /\ UNCHANGED <<phase, todo, at, ensured>>
  BY DEF TypeOK, PassOver
<1> QED BY <1>1, <1>2, <1>3, <1>4, <1>5, <1>6

LEMMA Turns ==
    ASSUME NEW w \in Workers, TypeOK
    PROVE  /\ \A s : Goto(w, s) =>
                 /\ pc'[w] = s /\ phase'[w] = phase[w] /\ (owned' => owned)
                 /\ UNCHANGED <<phase, todo, at, ensured, skipped>>
           /\ \A s : GoBack(w, s) => pc'[w] = s /\ phase'[w] = "back" /\ (owned' => owned)
           /\ \A r : Finish(w, r) =>
                 /\ pc'[w] = "idle"
                 /\ owned' => owned \/ (r = "ok" /\ kind[w] \in {"install", "update"})
           /\ kind[w] = "update" /\ Abandon(w) =>
                 pc'[w] = "restore" /\ phase'[w] = "back" /\ (owned' => owned)
           /\ kind[w] # "update" /\ Abandon(w) => pc'[w] = "idle" /\ (owned' => owned)
           /\ PassOver(w) => pc'[w] = "linksys" /\ phase'[w] = phase[w] /\ (owned' => owned)
<1>1. \A s : Goto(w, s) =>
         /\ pc'[w] = s /\ phase'[w] = phase[w] /\ (owned' => owned)
         /\ UNCHANGED <<phase, todo, at, ensured, skipped>>
  BY DEF TypeOK, Goto, control, farm
<1>2. \A s : GoBack(w, s) => pc'[w] = s /\ phase'[w] = "back" /\ (owned' => owned)
  BY DEF TypeOK, GoBack
<1>3. \A r : Finish(w, r) =>
         /\ pc'[w] = "idle"
         /\ owned' => owned \/ (r = "ok" /\ kind[w] \in {"install", "update"})
  BY DEF TypeOK, Finish
<1>4. PassOver(w) => pc'[w] = "linksys" /\ phase'[w] = phase[w] /\ (owned' => owned)
  BY DEF TypeOK, PassOver
<1> QED BY <1>1, <1>2, <1>3, <1>4 DEF Abandon

LEMMA HoldsWhen ==
    ASSUME NEW w
    PROVE  /\ Holds(w) <=> /\ kind[w] = "update"
                           /\ \/ pc[w] \in Unpacking \cup {"backupdrop", "restore", "remove", "removing"}
                              \/ phase[w] = "forward" /\ pc[w] \in Linking
           /\ Holds(w)' <=> /\ kind'[w] = "update"
                            /\ \/ pc'[w] \in Unpacking \cup {"backupdrop", "restore", "remove", "removing"}
                               \/ phase'[w] = "forward" /\ pc'[w] \in Linking
BY DEF Holds, HoldsBackup, Unpacking, Linking

(* A step that changes nothing on the disk but the places pls. *)
Touches(pls) == \A pl \in Places \ pls : tree'[pl] = tree[pl]

LEMMA Touching ==
    ASSUME FsTypeOK, NEW pl \in Places, NEW ql \in Places
    PROVE  /\ Disturb(Removed(pl)) => Touches({pl}) /\ UNCHANGED appLink
           /\ Disturb(Renamed(pl, ql)) => Touches({pl, ql}) /\ UNCHANGED appLink
           /\ Disturb(Copied(pl, ql)) => Touches({ql}) /\ UNCHANGED appLink
           /\ Fills(pl) => Touches({pl}) /\ UNCHANGED appLink
           /\ Guts(pl) => Touches({pl}) /\ UNCHANGED appLink
           /\ \A t : Disturb([tree EXCEPT ![pl] = t]) => Touches({pl}) /\ UNCHANGED appLink
           /\ \A p \in Storages : Disturb(DeployFailed(pl, p)) => Touches({pl, App(p)}) /\ UNCHANGED appLink
           /\ UNCHANGED fsVars => Touches({}) /\ UNCHANGED appLink
<1>1. /\ Disturb(Removed(pl)) => Touches({pl}) /\ UNCHANGED appLink
      /\ Disturb(Renamed(pl, ql)) => Touches({pl, ql}) /\ UNCHANGED appLink
      /\ Disturb(Copied(pl, ql)) => Touches({ql}) /\ UNCHANGED appLink
  BY DEF FsTypeOK, Touches, Disturb, Removed, Renamed, Copied
<1>2. /\ Fills(pl) => Touches({pl}) /\ UNCHANGED appLink
      /\ Guts(pl) => Touches({pl}) /\ UNCHANGED appLink
  BY DEF FsTypeOK, Touches, Fills, Guts, Halfway, Gutted
<1>3. \A t : Disturb([tree EXCEPT ![pl] = t]) => Touches({pl}) /\ UNCHANGED appLink
  BY DEF FsTypeOK, Touches, Disturb
<1>4. ASSUME NEW p \in Storages, Disturb(DeployFailed(pl, p))
      PROVE  Touches({pl, App(p)}) /\ UNCHANGED appLink
  <2>1. Resolve(p) = App(p) BY Lookups
  <2> QED BY <1>4, <2>1 DEF FsTypeOK, Touches, Disturb, DeployFailed
<1>5. UNCHANGED fsVars => Touches({}) /\ UNCHANGED appLink BY DEF fsVars, Touches
<1> QED BY <1>1, <1>2, <1>3, <1>4, <1>5

LEMMA DropTouches ==
    ASSUME NEW w, Lone(w), TypeInv, NEW s, NEW src \in Places, NEW next, DropSource(w, s, src, next)
    PROVE  Touches({src}) /\ UNCHANGED appLink /\ (Goto(w, s) \/ Goto(w, next))
<1>1. FsTypeOK BY LoneFacts
<1>2. UNCHANGED fsVars => Touches({src}) /\ UNCHANGED appLink BY DEF fsVars, Touches
<1> QED BY <1>1, <1>2, Touching DEF DropSource

-----------------------------------------------------------------------------
(* A worker at rest has nothing to show. *)
LEMMA RestBased ==
    ASSUME NEW w,
           \/ pc'[w] = "idle"
           \/ kind'[w] # "symlinks" /\ pc'[w] \in {"remove", "removing", "check", "extract"}
              /\ (pc'[w] = "extract" => kind'[w] # "update")
           \/ kind'[w] = "install" /\ pc'[w] = "unlink"
           \/ kind'[w] \in {"uninstall", "farm"} /\ pc'[w] \notin Unpacking
    PROVE  Based(w)'
BY HoldsWhen DEF Based, CacheReady, NewCopy, OldCopy, NamedCopy, Linking, Unpacking

LEMMA CheckBased ==
    ASSUME NEW w, Lone(w), TypeInv, Based(w), UNCHANGED params, Check(w)
    PROVE  Based(w)'
<1>0. /\ w \in Workers /\ TypeOK /\ FsTypeOK /\ pc[w] = "check"
      /\ kind[w] \in {"install", "update", "uninstall", "symlinks", "farm"}
      /\ UNCHANGED fsVars /\ kind'[w] = kind[w] /\ from'[w] = from[w] /\ to'[w] = to[w]
  BY LoneFacts DEF Check, params
<1>1. ASSUME NEW r, Finish(w, r) PROVE Based(w)'
  <2>1. pc'[w] = "idle" BY <1>0, <1>1, Turns
  <2> QED BY <2>1, RestBased
<1>2. ASSUME Proceeds(w), pc'[w] = FirstStep(w), UNCHANGED control PROVE Based(w)'
  <2>1. CASE kind[w] \in {"install", "uninstall", "farm"}
    <3>1. pc'[w] \in {"extract", "unlink", "farm"} /\ (pc'[w] = "extract" => kind[w] = "install")
          /\ (pc'[w] # "extract" => kind[w] \in {"uninstall", "farm"})
      BY <1>2, <2>1 DEF FirstStep
    <3> QED BY <1>0, <3>1, RestBased DEF Unpacking
  <2>2. CASE kind[w] = "update"
    <3>1. pc'[w] = "unlink" BY <1>2, <2>2 DEF FirstStep
    <3>2. tree[App(from[w])] \in WithInfo
      BY <1>0, <1>2, <2>2, LoneFacts, Lookups DEF Proceeds, UpdateProceeds
    <3>3. tree'[App(from[w])] \in WithInfo BY <1>0, <3>2 DEF fsVars
    <3>4. ~Holds(w)' BY <3>1, HoldsWhen DEF Unpacking, Linking
    <3> QED BY <1>0, <2>2, <3>1, <3>3, <3>4
         DEF Based, CacheReady, NewCopy, OldCopy, NamedCopy, Linking
  <2>3. CASE kind[w] = "symlinks"
    <3>1. pc'[w] \in {"linkbin", "unlink"} /\ (pc'[w] = "unlink" => to[w] # NoPrefix)
      BY <1>2, <2>3 DEF FirstStep
    <3>2. tree[Target(LinkPlace(w))] \in WithInfo BY <1>0, <2>3 DEF Based, NamedCopy
    <3>3. LinkPlace(w)' = LinkPlace(w) BY <1>2 DEF LinkPlace, control, params, farm
    <3>4. (tree[Target(LinkPlace(w))])' \in WithInfo
      BY <1>0, <3>2, <3>3 DEF Target, Resolve, fsVars
    <3> QED BY <1>0, <2>3, <3>1, <3>4 DEF Based, CacheReady, NewCopy, OldCopy, NamedCopy
  <2> QED BY <1>0, <2>1, <2>2, <2>3
<1>3. CASE /\ Proceeds(w) /\ pc' = [pc EXCEPT ![w] = FirstStep(w)]
           /\ UNCHANGED <<control, result>>
  BY <1>0, <1>2, <1>3 DEF TypeOK
<1> QED BY <1>1, <1>3 DEF Check

(* The copy create-symlinks is for stays where it is. *)
LEMMA NamedStays ==
    ASSUME NEW w, Lone(w), TypeInv, Based(w), UNCHANGED <<params, phase, tree>>, kind[w] = "symlinks",
           pc[w] # "idle", pc'[w] \notin Unpacking,
           appLink' = appLink \/ to[w] # NoPrefix, pc'[w] = "unlink" => to[w] # NoPrefix
    PROVE  Based(w)'
<1>1. kind'[w] = kind[w] BY DEF params
<1>2. LinkPlace(w)' = LinkPlace(w) BY <1>1 DEF LinkPlace, params
<1>3. LinkPlace(w) = App(Apps) => appLink' = appLink
  <2>1. to[w] # NoPrefix /\ phase[w] # "back" => LinkPlace(w) = App(to[w]) BY DEF LinkPlace
  <2>2. phase[w] # "back" /\ to[w] \in Storages \cup {NoPrefix} /\ pc[w] \in Steps
    BY LoneFacts DEF StageIn, ParamsOK, TypeOK
  <2>3. to[w] # NoPrefix => App(to[w]) # App(Apps) BY <2>2, PlaceFacts, PrefixAssumption
  <2> QED BY <2>1, <2>2, <2>3
<1>4. (tree[Target(LinkPlace(w))])' = tree[Target(LinkPlace(w))] BY <1>2, <1>3 DEF Target, Resolve
<1>5. to'[w] = to[w] BY DEF params
<1>6. NamedCopy(w)' BY <1>1, <1>4, <1>5 DEF Based, NamedCopy
<1> QED BY <1>1, <1>6 DEF Based, CacheReady, NewCopy, OldCopy, Unpacking

LEMMA UnlinkBased ==
    ASSUME NEW w, Lone(w), TypeInv, Based(w), UNCHANGED params, Unlink(w)
    PROVE  Based(w)'
<1>0. /\ w \in Workers /\ TypeOK /\ pc[w] = "unlink" /\ StageIn(kind[w], phase[w], pc[w])
      /\ kind'[w] = kind[w] /\ from'[w] = from[w] /\ UNCHANGED tree
  BY LoneFacts DEF Unlink, params
<1>1. pc'[w] = AfterUnlink[kind[w]] /\ UNCHANGED phase BY <1>0, Turns DEF Unlink
<1>2. CASE kind[w] \in {"install", "uninstall"}
  <2>1. pc'[w] = "remove" BY <1>1, <1>2 DEF AfterUnlink
  <2> QED BY <1>0, <1>2, <2>1, RestBased
<1>3. CASE kind[w] = "update"
  <2>1. pc'[w] = "backup" BY <1>1, <1>3 DEF AfterUnlink
  <2>2. ~Holds(w)' BY <2>1, HoldsWhen DEF Unpacking, Linking
  <2>3. tree'[App(from[w])] \in WithInfo BY <1>0, <1>3 DEF Based, OldCopy
  <2> QED BY <1>0, <1>3, <2>1, <2>2, <2>3
       DEF Based, CacheReady, NewCopy, OldCopy, NamedCopy, Linking
<1>4. CASE kind[w] = "symlinks"
  <2>1. pc'[w] = "linkbin" BY <1>1, <1>4 DEF AfterUnlink
  <2>2. appLink' = appLink \/ to[w] # NoPrefix BY <1>0, <1>4 DEF Based, NamedCopy
  <2> QED BY <1>0, <1>1, <1>4, <2>1, <2>2, NamedStays DEF Unpacking
<1> QED BY <1>0, <1>2, <1>3, <1>4, LoneFacts DEF StageIn, Unpacking, Linking

(* An update that is about to have its backup, or has it.                  *)
LEMMA UpdateBased ==
    ASSUME NEW w, UNCHANGED params, kind[w] = "update",
           \/ pc'[w] \in {"backup", "backupcopy"} /\ tree'[App(from[w])] \in WithInfo
           \/ pc'[w] \in Linking /\ phase'[w] = "back" /\ tree'[App(from[w])] \in WithInfo
           \/ /\ pc'[w] \in {"backupdrop", "extract", "restore"}
              /\ tree'[Backup(from[w])] \in WithInfo
           \/ /\ pc'[w] \in Unpacking \/ (pc'[w] \in Linking /\ phase'[w] = "forward")
              /\ tree'[Backup(from[w])] \in WithInfo /\ CacheReady(w)' /\ NewCopy(w)'
    PROVE  Based(w)'
<1>1. kind'[w] = "update" /\ from'[w] = from[w] BY DEF params
<1>2. CASE \/ pc'[w] \in {"backup", "backupcopy"} /\ tree'[App(from[w])] \in WithInfo
           \/ pc'[w] \in Linking /\ phase'[w] = "back" /\ tree'[App(from[w])] \in WithInfo
  <2>1. ~Holds(w)' BY <1>2, HoldsWhen DEF Unpacking, Linking
  <2> QED BY <1>1, <1>2, <2>1 DEF Based, CacheReady, NewCopy, OldCopy, NamedCopy, Linking
<1>3. CASE pc'[w] \in {"backupdrop", "extract", "restore"} /\ tree'[Backup(from[w])] \in WithInfo
  BY <1>1, <1>3 DEF Based, CacheReady, NewCopy, OldCopy, NamedCopy, Linking
<1>4. CASE /\ pc'[w] \in Unpacking \/ (pc'[w] \in Linking /\ phase'[w] = "forward")
           /\ tree'[Backup(from[w])] \in WithInfo /\ CacheReady(w)' /\ NewCopy(w)'
  BY <1>1, <1>4 DEF Based, OldCopy, NamedCopy, Linking, Unpacking
<1> QED BY <1>2, <1>3, <1>4

LEMMA BackupBased ==
    ASSUME NEW w, Lone(w), TypeInv, Based(w), UNCHANGED params,
           BackupApp(w) \/ BackupCopy(w) \/ BackupDrop(w)
    PROVE  Based(w)'
<1> DEFINE src == App(from[w])
           dst == Backup(from[w])
<1>0. /\ w \in Workers /\ TypeOK /\ FsTypeOK /\ pc[w] \in {"backup", "backupcopy", "backupdrop"}
      /\ tree \in [Places -> Trees] /\ StageIn(kind[w], phase[w], pc[w])
  BY LoneFacts DEF BackupApp, BackupCopy, BackupDrop, DropSource
<1>1. kind[w] = "update" /\ from[w] \in Storages
  BY <1>0, LoneFacts DEF StageIn, Unpacking, Linking
<1>2. src \in Places /\ dst \in Places /\ src # dst BY <1>1, PlaceFacts
<1>3. pc[w] \in {"backup", "backupcopy"} => tree[src] \in WithInfo
  BY <1>1 DEF Based, OldCopy
<1>4. pc[w] = "backupdrop" => tree[dst] \in WithInfo
  <2>1. pc[w] = "backupdrop" => Holds(w) BY <1>1, HoldsWhen
  <2> QED BY <1>1, <2>1 DEF Based, OldCopy
<1>5. ASSUME Disturb(Renamed(src, dst)), Goto(w, "extract"), pc[w] = "backup" PROVE Based(w)'
  <2>1. tree'[dst] = tree[src] BY <1>0, <1>2, <1>5 DEF Disturb, Renamed
  <2>2. pc'[w] = "extract" BY <1>0, <1>5, Turns
  <2> QED BY <1>1, <1>3, <1>5, <2>1, <2>2, UpdateBased
<1>6. ASSUME NEW r, Finish(w, r) PROVE Based(w)'
  <2>1. pc'[w] = "idle" BY <1>0, <1>6, Turns
  <2> QED BY <2>1, RestBased
<1>7. ASSUME Fills(dst), Goto(w, "backupcopy"), pc[w] = "backup" PROVE Based(w)'
  <2>1. tree'[src] = tree[src] BY <1>0, <1>2, <1>7, Touching DEF Touches
  <2>2. pc'[w] = "backupcopy" BY <1>0, <1>7, Turns
  <2> QED BY <1>1, <1>3, <1>7, <2>1, <2>2, UpdateBased
<1>8. ASSUME BackupCopyFailed(w), pc[w] \in {"backup", "backupcopy"} PROVE Based(w)'
  <2>1. tree'[src] = tree[src] BY <1>0, <1>2, <1>8, Touching DEF Touches, BackupCopyFailed
  <2>2. pc'[w] = "linkbin" /\ phase'[w] = "back" BY <1>0, <1>8, Turns DEF BackupCopyFailed
  <2> QED BY <1>1, <1>3, <1>8, <2>1, <2>2, UpdateBased DEF Linking
<1>9. ASSUME Disturb(Copied(src, dst)), Goto(w, "backupdrop"), pc[w] = "backupcopy" PROVE Based(w)'
  <2>1. tree'[dst] = tree[src] BY <1>0, <1>2, <1>9 DEF Disturb, Copied
  <2>2. pc'[w] = "backupdrop" BY <1>0, <1>9, Turns
  <2> QED BY <1>1, <1>3, <1>9, <2>1, <2>2, UpdateBased
<1>10. CASE BackupApp(w) BY <1>5, <1>6, <1>7, <1>8, <1>10 DEF BackupApp
<1>11. CASE BackupCopy(w) BY <1>8, <1>9, <1>11 DEF BackupCopy
<1>12. CASE BackupDrop(w)
  <2>1. /\ Touches({src}) /\ (Goto(w, "backupdrop") \/ Goto(w, "extract"))
        /\ pc[w] = "backupdrop"
    BY <1>2, <1>12, DropTouches DEF BackupDrop, DropSource
  <2>2. tree'[dst] = tree[dst] BY <1>2, <2>1 DEF Touches
  <2>3. pc'[w] \in {"backupdrop", "extract"} BY <1>0, <2>1, Turns
  <2> QED BY <1>1, <1>4, <2>1, <2>2, <2>3, UpdateBased
<1> QED BY <1>10, <1>11, <1>12

(* Steps of an install or an update that has not made its links.           *)
LEMMA UnpackersKnow ==
    ASSUME NEW w, Lone(w), TypeInv, Based(w), pc[w] \in Unpacking
    PROVE  /\ w \in Workers /\ TypeOK /\ FsTypeOK /\ tree \in [Places -> Trees]
           /\ kind[w] \in {"install", "update"} /\ to[w] \in Storages /\ ver[w] \in Versions
           /\ phase[w] = "forward" /\ Cache \in Places /\ App(to[w]) \in Places
           /\ App(to[w]) # Cache /\ Source(w) = Cache /\ AfterDeploy(w) = "linkbin"
           /\ kind[w] = "update" =>
                 /\ from[w] \in Storages /\ tree[Backup(from[w])] \in WithInfo
                 /\ Backup(from[w]) \in Places \ {Cache, App(to[w])}
<1>1. /\ w \in Workers /\ TypeOK /\ FsTypeOK /\ tree \in [Places -> Trees]
      /\ StageIn(kind[w], phase[w], pc[w]) /\ ParamsOK(w)
  BY LoneFacts
<1>2. kind[w] \in {"install", "update"} /\ phase[w] = "forward"
  BY <1>1, LoneFacts DEF StageIn, Unpacking, Linking
<1>3. to[w] \in Storages /\ ver[w] \in Versions /\ (kind[w] = "update" => from[w] \in Storages)
  BY <1>1, <1>2, LoneFacts DEF ParamsOK
<1>4. Cache \in Places /\ App(to[w]) \in Places /\ App(to[w]) # Cache BY <1>3, PlaceFacts
<1>5. Source(w) = Cache /\ AfterDeploy(w) = "linkbin" BY <1>2 DEF Source, AfterDeploy
<1>6. CASE kind[w] = "update"
  <2>1. Holds(w) /\ pc[w] \notin {"remove", "removing"} BY <1>6, HoldsWhen DEF Unpacking
  <2>2. tree[Backup(from[w])] \in WithInfo BY <1>6, <2>1 DEF Based, OldCopy
  <2>3. Backup(from[w]) \in Places \ {Cache, App(to[w])} BY <1>3, <1>6, PlaceFacts
  <2> QED BY <1>1, <1>2, <1>3, <1>4, <1>5, <2>2, <2>3
<1> QED BY <1>1, <1>2, <1>3, <1>4, <1>5, <1>6

LEMMA UnpackedBased ==
    ASSUME NEW w, Lone(w), TypeInv, Based(w), UNCHANGED params, pc[w] \in Unpacking,
           Touches({Cache, App(to[w])}),
           \/ Abandon(w)
           \/ /\ pc'[w] \in Unpacking \/ (pc'[w] = "linkbin" /\ phase'[w] = "forward")
              /\ CacheReady(w)' /\ NewCopy(w)'
    PROVE  Based(w)'
<1>0. /\ w \in Workers /\ TypeOK /\ kind[w] \in {"install", "update"}
      /\ kind[w] = "update" =>
            tree[Backup(from[w])] \in WithInfo /\ Backup(from[w]) \in Places \ {Cache, App(to[w])}
  BY UnpackersKnow
<1>1. kind[w] = "update" => tree'[Backup(from[w])] \in WithInfo BY <1>0 DEF Touches
<1>2. kind'[w] = kind[w] BY DEF params
<1>3. CASE Abandon(w)
  <2>1. CASE kind[w] = "update"
    <3>1. pc'[w] = "restore" BY <1>0, <1>3, <2>1, Turns
    <3> QED BY <1>1, <2>1, <3>1, UpdateBased
  <2>2. CASE kind[w] = "install"
    <3>1. pc'[w] = "idle" BY <1>0, <1>3, <2>2, Turns
    <3> QED BY <3>1, RestBased
  <2> QED BY <1>0, <2>1, <2>2
<1>4. CASE /\ pc'[w] \in Unpacking \/ (pc'[w] = "linkbin" /\ phase'[w] = "forward")
           /\ CacheReady(w)' /\ NewCopy(w)'
  <2>1. CASE kind[w] = "update"
    <3>1. \/ pc'[w] \in Unpacking \/ (pc'[w] \in Linking /\ phase'[w] = "forward")
      BY <1>4 DEF Linking
    <3> QED BY <1>1, <1>4, <2>1, <3>1, UpdateBased
  <2>2. CASE kind[w] = "install" BY <1>2, <1>4, <2>2 DEF Based, OldCopy, NamedCopy
  <2> QED BY <1>0, <2>1, <2>2
<1> QED BY <1>3, <1>4

LEMMA ExtractBased ==
    ASSUME NEW w, Lone(w), TypeInv, Based(w), UNCHANGED params,
           Extract(w) \/ ExtractEnd(w) \/ Scripts(w)
    PROVE  Based(w)'
<1>0. pc[w] \in {"extract", "extracting", "scripts"} /\ pc[w] \in Unpacking
  BY DEF Extract, ExtractEnd, Scripts, Unpacking
<1>1. /\ w \in Workers /\ TypeOK /\ FsTypeOK /\ tree \in [Places -> Trees]
      /\ Cache \in Places /\ App(to[w]) \in Places /\ ver[w] \in Versions
  BY <1>0, UnpackersKnow
<1>2. Touches({Cache, App(to[w])})
  <2>1. CASE Fills(Cache) \/ Disturb(Removed(Cache)) BY <1>1, <2>1, Touching DEF Touches
  <2>2. CASE UNCHANGED fsVars BY <2>2 DEF fsVars, Touches
  <2>3. CASE Disturb(tree) BY <2>3 DEF Disturb, Touches
  <2>4. CASE \E t \in Unpacked(w) : Disturb([tree EXCEPT ![Cache] = t])
    BY <1>1, <2>4, Touching DEF Touches
  <2> QED BY <2>1, <2>2, <2>3, <2>4 DEF Extract, ExtractEnd, Scripts
<1>3. CASE Abandon(w) BY <1>0, <1>2, <1>3, UnpackedBased
<1>4. ASSUME Fills(Cache), Goto(w, "extracting") PROVE Based(w)'
  <2>1. pc'[w] = "extracting" BY <1>1, <1>4, Turns
  <2>2. tree'[Cache] \in Partial BY <1>1, <1>4 DEF Fills, Halfway
  <2>3. CacheReady(w)' /\ NewCopy(w)' BY <2>1, <2>2 DEF CacheReady, NewCopy, Linking
  <2>4. pc'[w] \in Unpacking BY <2>1 DEF Unpacking
  <2> QED BY <1>0, <1>2, <2>3, <2>4, UnpackedBased
<1>5. ASSUME NEW s \in {"deploy", "scripts"}, Goto(w, s), tree'[Cache] \in Versions
      PROVE  Based(w)'
  <2>1. pc'[w] = s BY <1>1, <1>5, Turns
  <2>2. CacheReady(w)' /\ NewCopy(w)' BY <1>5, <2>1 DEF CacheReady, NewCopy, Linking
  <2>3. pc'[w] \in Unpacking BY <1>5, <2>1 DEF Unpacking
  <2> QED BY <1>0, <1>2, <2>2, <2>3, UnpackedBased
<1>6. CASE Extract(w) BY <1>3, <1>4, <1>6 DEF Extract
<1>7. CASE ExtractEnd(w)
  <2>1. Unpacked(w) = {ver[w]}
    <3>1. pc[w] = "extracting" /\ tree[Cache] \in Partial BY <1>7 DEF ExtractEnd, Based, CacheReady
    <3>2. Workers \ {w} = {} BY DEF Lone
    <3>3. tree[Cache] # "none" BY <3>1 DEF Partial
    <3> QED BY <3>1, <3>2, <3>3 DEF Unpacked
  <2>2. ASSUME Disturb([tree EXCEPT ![Cache] = ver[w]]) PROVE tree'[Cache] \in Versions
    BY <1>1, <2>2 DEF Disturb
  <2> QED BY <1>3, <1>5, <1>7, <2>1, <2>2 DEF ExtractEnd
<1>8. CASE Scripts(w)
  <2>1. tree[Cache] \in Versions BY <1>8 DEF Scripts, Based, CacheReady
  <2>2. UNCHANGED fsVars => tree'[Cache] \in Versions BY <2>1 DEF fsVars
  <2> QED BY <1>3, <1>5, <1>8, <2>2 DEF Scripts
<1> QED BY <1>6, <1>7, <1>8

LEMMA DeployBased ==
    ASSUME NEW w, Lone(w), TypeInv, Based(w), UNCHANGED params,
           Deploy(w) \/ DeployCopy(w) \/ DeployDrop(w)
    PROVE  Based(w)'
<1>0. pc[w] \in {"deploy", "deploycopy", "drop"} /\ pc[w] \in Unpacking
  BY DEF Deploy, DeployCopy, DeployDrop, DropSource, Unpacking
<1>1. /\ w \in Workers /\ TypeOK /\ FsTypeOK /\ tree \in [Places -> Trees]
      /\ Cache \in Places /\ App(to[w]) \in Places /\ to[w] \in Storages /\ App(to[w]) # Cache
      /\ Source(w) = Cache /\ AfterDeploy(w) = "linkbin" /\ phase[w] = "forward"
      /\ kind[w] \in {"install", "update"}
  BY <1>0, UnpackersKnow
<1>2. Touches({Cache, App(to[w])})
  <2>1. CASE Disturb(Renamed(Cache, App(to[w]))) BY <1>1, <2>1, Touching
  <2>2. CASE Disturb(Copied(Cache, App(to[w]))) BY <1>1, <2>2, Touching DEF Touches
  <2>3. CASE Disturb(DeployFailed(Cache, to[w])) BY <1>1, <2>3, Touching
  <2>4. CASE Fills(App(to[w])) BY <1>1, <2>4, Touching DEF Touches
  <2>5. CASE DeployDrop(w) BY <1>1, <2>5, DropTouches DEF DeployDrop, Touches
  <2> QED BY <1>1, <2>1, <2>2, <2>3, <2>4, <2>5 DEF Deploy, DeployCopy
<1>3. CASE Abandon(w) BY <1>0, <1>2, <1>3, UnpackedBased
<1>4. ASSUME pc'[w] \in {"drop", "linkbin"}, phase'[w] = "forward", tree'[App(to[w])] \in Versions
      PROVE  Based(w)'
  <2>1. pc'[w] \in Unpacking \/ (pc'[w] = "linkbin" /\ phase'[w] = "forward")
    BY <1>4 DEF Unpacking
  <2>2. to'[w] = to[w] BY DEF params
  <2>3. CacheReady(w)' /\ NewCopy(w)' BY <1>4, <2>2 DEF CacheReady, NewCopy
  <2> QED BY <1>0, <1>2, <2>1, <2>3, UnpackedBased
<1>5. pc[w] \in {"deploy", "deploycopy"} => tree[Cache] \in Versions BY DEF Based, CacheReady
<1>6. pc[w] = "drop" => tree[App(to[w])] \in Versions BY <1>1 DEF Based, NewCopy
<1>7. CASE Deploy(w)
  <2>1. CASE Disturb(Renamed(Cache, App(to[w]))) /\ Goto(w, "drop")
    <3>1. tree'[App(to[w])] = tree[Cache] BY <1>1, <2>1 DEF Disturb, Renamed
    <3>2. pc'[w] = "drop" /\ phase'[w] = "forward" BY <1>1, <2>1, Turns
    <3> QED BY <1>4, <1>5, <1>7, <3>1, <3>2 DEF Deploy
  <2>2. CASE Fills(App(to[w])) /\ Goto(w, "deploycopy")
    <3>1. tree'[Cache] = tree[Cache] BY <1>1, <2>2, Touching DEF Touches
    <3>2. pc'[w] = "deploycopy" BY <1>1, <2>2, Turns
    <3>3. CacheReady(w)' /\ NewCopy(w)' BY <1>5, <1>7, <3>1, <3>2 DEF CacheReady, NewCopy, Linking, Deploy
    <3>4. pc'[w] \in Unpacking BY <3>2 DEF Unpacking
    <3> QED BY <1>0, <1>2, <3>3, <3>4, UnpackedBased
  <2> QED BY <1>1, <1>3, <1>7, <2>1, <2>2 DEF Deploy
<1>8. CASE DeployCopy(w)
  <2>1. CASE Disturb(Copied(Cache, App(to[w]))) /\ Goto(w, "drop")
    <3>1. tree'[App(to[w])] = tree[Cache] BY <1>1, <2>1 DEF Disturb, Copied
    <3>2. pc'[w] = "drop" /\ phase'[w] = "forward" BY <1>1, <2>1, Turns
    <3> QED BY <1>4, <1>5, <1>8, <3>1, <3>2 DEF DeployCopy
  <2> QED BY <1>1, <1>3, <1>8, <2>1 DEF DeployCopy
<1>9. CASE DeployDrop(w)
  <2>1. Touches({Cache}) /\ (Goto(w, "drop") \/ Goto(w, "linkbin")) /\ pc[w] = "drop"
    BY <1>1, <1>9, DropTouches DEF DeployDrop, DropSource
  <2>2. tree'[App(to[w])] = tree[App(to[w])] BY <1>1, <2>1 DEF Touches
  <2>3. pc'[w] \in {"drop", "linkbin"} /\ phase'[w] = "forward" BY <1>1, <2>1, Turns
  <2> QED BY <1>4, <1>6, <2>1, <2>2, <2>3
<1> QED BY <1>7, <1>8, <1>9

LEMMA RestoreBased ==
    ASSUME NEW w, Lone(w), TypeInv, Based(w), UNCHANGED params, RestoreApp(w)
    PROVE  Based(w)'
<1>0. /\ w \in Workers /\ TypeOK /\ tree \in [Places -> Trees] /\ pc[w] = "restore"
      /\ StageIn(kind[w], phase[w], pc[w])
  BY LoneFacts DEF RestoreApp
<1>1. kind[w] = "update" /\ from[w] \in Storages /\ phase[w] = "back"
  BY <1>0, LoneFacts DEF StageIn, Unpacking, Linking
<1>2. App(from[w]) \in Places /\ Backup(from[w]) \in Places /\ App(from[w]) # Backup(from[w])
  BY <1>1, PlaceFacts
<1>3. tree[Backup(from[w])] \in WithInfo
  <2>1. Holds(w) BY <1>0, <1>1, HoldsWhen
  <2> QED BY <1>0, <1>1, <2>1 DEF Based, OldCopy
<1>4. CASE Disturb(Renamed(Backup(from[w]), App(from[w]))) /\ Goto(w, "linkbin")
  <2>1. tree'[App(from[w])] = tree[Backup(from[w])] BY <1>0, <1>2, <1>4 DEF Disturb, Renamed
  <2>2. pc'[w] = "linkbin" /\ phase'[w] = "back" BY <1>0, <1>1, <1>4, Turns
  <2> QED BY <1>1, <1>3, <2>1, <2>2, UpdateBased DEF Linking
<1>5. CASE Finish(w, "failed")
  <2>1. pc'[w] = "idle" BY <1>0, <1>5, Turns
  <2> QED BY <2>1, RestBased
<1> QED BY <1>4, <1>5 DEF RestoreApp

(* Making links changes no directory.                                      *)
LEMMA LinkingBased ==
    ASSUME NEW w, Lone(w), TypeInv, Based(w), UNCHANGED params, pc[w] \in Linking, UNCHANGED tree,
           \/ /\ pc'[w] \in Linking /\ phase'[w] = phase[w]
              /\ appLink' = appLink /\ (kind[w] = "farm" \/ LinkPlace(w)' = LinkPlace(w))
           \/ LinkFailed(w) \/ LinkedUp(w) \/ (\E r : Finish(w, r))
    PROVE  Based(w)'
<1>0. /\ w \in Workers /\ TypeOK /\ pc[w] # "idle" /\ StageIn(kind[w], phase[w], pc[w])
      /\ kind[w] \in {"install", "update", "uninstall", "symlinks", "farm"}
  BY LoneFacts DEF Linking
<1>1. kind[w] # "uninstall" /\ pc[w] \notin Unpacking BY <1>0 DEF StageIn, Linking, Unpacking
<1>2. kind'[w] = kind[w] /\ from'[w] = from[w] /\ to'[w] = to[w] BY DEF params
<1>3. ASSUME pc'[w] = "idle" PROVE Based(w)' BY <1>3, RestBased
<1>4. \A r : Finish(w, r) => pc'[w] = "idle" BY <1>0, Turns
<1>5. CASE kind[w] = "farm"
  <2>1. pc'[w] \in Linking \cup {"farm", "idle"} BY <1>0, <1>4, <1>5, Lands
  <2> QED BY <1>2, <1>5, <2>1, RestBased DEF Linking, Unpacking
<1>6. CASE kind[w] = "symlinks"
  <2>1. LinkFailed(w) => pc'[w] = "idle"
    BY <1>0, <1>4, <1>6 DEF LinkFailed, StageIn
  <2>2. LinkedUp(w) => pc'[w] = "idle" BY <1>0, <1>6, Lands
  <2>3. CASE pc'[w] \in Linking /\ appLink' = appLink /\ phase'[w] = phase[w] /\ LinkPlace(w)' = LinkPlace(w)
    <3>1. (tree[Target(LinkPlace(w))])' = tree[Target(LinkPlace(w))] BY <2>3 DEF Target, Resolve
    <3>2. NamedCopy(w)' BY <1>0, <1>2, <1>6, <2>3, <3>1 DEF Based, NamedCopy, Linking
    <3> QED BY <1>2, <1>6, <2>3, <3>2 DEF Based, CacheReady, NewCopy, OldCopy, Linking
  <2> QED BY <1>3, <1>4, <1>6, <2>1, <2>2, <2>3
<1>7. CASE kind[w] \in {"install", "update"}
  <2>1. CASE pc'[w] \in Linking /\ phase'[w] = phase[w]
    <3>1. NewCopy(w)' BY <1>0, <1>2, <2>1 DEF Based, NewCopy, Linking
    <3>2. OldCopy(w)'
      <4>1. kind[w] = "update" /\ phase[w] = "back" => tree[App(from[w])] \in WithInfo
        BY DEF Based, OldCopy
      <4>2. kind[w] = "update" /\ phase[w] = "forward" => tree[Backup(from[w])] \in WithInfo
        <5>1. kind[w] = "update" /\ phase[w] = "forward" => Holds(w) BY HoldsWhen
        <5> QED BY <5>1 DEF Based, OldCopy, Linking
      <4>3. phase'[w] \in {"forward", "back"} BY <1>0, <2>1 DEF TypeOK
      <4>4. Holds(w)' => phase'[w] = "forward" BY <2>1, HoldsWhen DEF Linking, Unpacking
      <4> QED BY <1>2, <2>1, <4>1, <4>2, <4>3, <4>4 DEF OldCopy, Linking
    <3> QED BY <1>2, <1>7, <2>1, <3>1, <3>2 DEF Based, CacheReady, NamedCopy, Linking
  <2>2. CASE LinkFailed(w)
    <3>1. CASE kind[w] = "install"
      <4>1. pc'[w] \in {"unlink", "idle"}
        BY <1>0, <2>2, <3>1 DEF LinkFailed, GoBack, Finish, TypeOK
      <4> QED BY <1>2, <3>1, <4>1, RestBased
    <3>2. CASE kind[w] = "update" /\ phase[w] = "back"
      BY <1>3, <1>4, <2>2, <3>2 DEF LinkFailed
    <3>3. CASE kind[w] = "update" /\ phase[w] # "back"
      <4>1. GoBack(w, "restore") BY <2>2, <3>3 DEF LinkFailed
      <4>2. pc'[w] = "restore" BY <1>0, <4>1, Turns
      <4>3. phase[w] = "forward" BY <1>0, <3>3 DEF StageIn
      <4>4. Holds(w) BY <3>3, <4>3, HoldsWhen
      <4>5. tree'[Backup(from[w])] \in WithInfo BY <3>3, <4>4 DEF Based, OldCopy, Linking
      <4> QED BY <3>3, <4>2, <4>5, UpdateBased
    <3> QED BY <1>7, <3>1, <3>2, <3>3
  <2>3. CASE LinkedUp(w)
    <3>1. pc'[w] = "idle" \/ (pc'[w] = "remove" /\ kind[w] = "update") BY <1>0, <1>7, <2>3, Lands
    <3> QED BY <1>2, <3>1, RestBased
  <2> QED BY <1>3, <1>4, <2>1, <2>2, <2>3
<1> QED BY <1>0, <1>1, <1>5, <1>6, <1>7

LEMMA LinksBased ==
    ASSUME NEW w, Lone(w), TypeInv, Based(w), UNCHANGED params,
           LinkBin(w) \/ LinkSys(w) \/ LinkAppStep(w)
    PROVE  Based(w)'
<1>0. w \in Workers /\ TypeOK /\ pc[w] \in Linking BY LoneFacts DEF LinkBin, LinkSys, LinkAppStep, Linking
<1>1. UNCHANGED tree BY DEF LinkBin, LinkSys, LinkAppStep, fsVars
<1>2. \A s : Goto(w, s) => pc'[w] = s /\ phase'[w] = phase[w] /\ LinkPlace(w)' = LinkPlace(w)
  BY <1>0, Turns DEF Goto, control, params, farm, LinkPlace
<1>3. PassOver(w) => pc'[w] = "linksys" /\ phase'[w] = phase[w] /\ LinkPlace(w)' = LinkPlace(w)
  BY <1>0, Turns DEF PassOver, params, LinkPlace
<1>4. CASE LinkBin(w) \/ LinkSys(w)
  <2>1. UNCHANGED appLink /\ (Goto(w, "linksys") \/ Goto(w, "linkapp") \/ PassOver(w) \/ LinkFailed(w))
    BY <1>4 DEF LinkBin, LinkSys
  <2> QED BY <1>0, <1>1, <1>2, <1>3, <2>1, LinkingBased DEF Linking
<1>5. CASE LinkAppStep(w)
  <2>1. LinkedUp(w) \/ LinkFailed(w) \/ Finish(w, "failed") BY <1>5 DEF LinkAppStep
  <2> QED BY <1>0, <1>1, <2>1, LinkingBased
<1> QED BY <1>4, <1>5

LEMMA EndsBased ==
    ASSUME NEW w, Lone(w), TypeInv, Based(w), UNCHANGED params,
           Remove(w) \/ Removing(w) \/ FarmVisit(w) \/ FarmDone(w)
    PROVE  Based(w)'
<1>0. /\ w \in Workers /\ TypeOK /\ StageIn(kind[w], phase[w], pc[w]) /\ kind'[w] = kind[w]
      /\ pc[w] \in {"remove", "removing", "farm"}
  BY LoneFacts DEF Remove, Removing, FarmVisit, FarmDone, params
<1>1. pc[w] = "farm" => kind[w] = "farm" BY <1>0 DEF StageIn, Linking, Unpacking
<1>2. pc[w] \in {"remove", "removing"} => kind[w] # "symlinks" BY <1>0 DEF StageIn, Linking, Unpacking
<1>3. CASE Remove(w) \/ Removing(w)
  <2>1. pc'[w] \in {"idle", "removing"} BY <1>0, <1>3, Turns DEF Remove, Removing
  <2> QED BY <1>0, <1>2, <1>3, <2>1, RestBased DEF Remove, Removing
<1>4. CASE FarmVisit(w)
  <2>1. pc'[w] \in {"farm", "linkbin"} BY <1>0, <1>4 DEF FarmVisit, TypeOK
  <2> QED BY <1>0, <1>1, <1>4, <2>1, RestBased DEF FarmVisit, Unpacking
<1>5. CASE FarmDone(w)
  <2>1. pc'[w] = "idle" BY <1>0, <1>5, Turns DEF FarmDone
  <2> QED BY <2>1, RestBased
<1> QED BY <1>3, <1>4, <1>5

LEMMA StartsBased ==
    ASSUME NEW w, Lone(w), TypeInv, Starts(w)
    PROVE  Based(w)'
<1>0. w \in Workers /\ TypeOK BY LoneFacts
<1>1. PICK k, f, t, v, d, forced : Start(w, k, f, t, v, d, forced)
  BY <1>0, StartsWith DEF StartsAs
<1>2. pc'[w] = "check" /\ kind'[w] = k BY <1>0, <1>1 DEF Start, TypeOK
<1>3. CASE ~SymlinksStart(w)
  <2>1. kind'[w] # "symlinks"
    BY <1>0, <1>3 DEF Starts, InstallStart, UpdateStart, UninstallStart, MigrateStart, FarmStart,
         Start, TypeOK
  <2> QED BY <1>2, <2>1, RestBased
<1>4. CASE SymlinksStart(w)
  <2>1. PICK p \in Prefixes, q \in Storages \cup {NoPrefix} :
          /\ AppIsInstalled(IF q = NoPrefix THEN p ELSE q)
          /\ Start(w, "symlinks", p, q, "none", FALSE, FALSE)
    BY <1>4 DEF SymlinksStart
  <2>2. /\ UNCHANGED fsVars /\ kind'[w] = "symlinks" /\ from'[w] = p /\ to'[w] = q
        /\ phase'[w] = "forward"
    BY <1>0, <2>1 DEF Start, TypeOK
  <2>3. LinkPlace(w)' = App(IF q = NoPrefix THEN p ELSE q) BY <2>2 DEF LinkPlace
  <2>4. \A r : Target(App(r)) = Resolve(r)
    <3>1. \A r : App(r) = App(Apps) <=> r = Apps BY PlaceFacts
    <3> QED BY <3>1 DEF Target, Resolve
  <2>5. tree[Target(App(IF q = NoPrefix THEN p ELSE q))] \in WithInfo
    BY <2>1, <2>4, Kinships DEF AppIsInstalled
  <2>6. (tree[Target(LinkPlace(w))])' \in WithInfo
    BY <2>2, <2>3, <2>5 DEF Target, Resolve, fsVars
  <2> QED BY <1>2, <2>2, <2>6 DEF Based, CacheReady, NewCopy, OldCopy, NamedCopy, Linking
<1> QED BY <1>3, <1>4

LEMMA WorksBased ==
    ASSUME NEW w, Lone(w), TypeInv, Based(w), Works(w)
    PROVE  Based(w)'
<1>1. w \in Workers BY DEF Lone
<1>2. UNCHANGED params BY <1>1, WorksFit DEF Fits, Moves, Step
<1> QED BY <1>2, CheckBased, UnlinkBased, BackupBased, ExtractBased, DeployBased, RestoreBased,
           LinksBased, EndsBased
        DEF Works

LEMMA BasedStep ==
    ASSUME NEW w, Lone(w), TypeInv, Based(w), [Next]_vars
    PROVE  Based(w)'
<1>1. w \in Workers BY DEF Lone
<1>2. CASE Crash
  <2>1. pc'[w] = "idle" BY <1>1, <1>2 DEF Crash
  <2> QED BY <2>1, RestBased
<1>3. CASE UNCHANGED vars
  <2>1. UNCHANGED <<tree, appLink, pc, kind, from, to, phase, at>>
    BY <1>3 DEF vars, fsVars, params, farm
  <2>2. CacheReady(w)' /\ NewCopy(w)' BY <2>1 DEF Based, CacheReady, NewCopy
  <2>3. OldCopy(w)' BY <2>1 DEF Based, OldCopy, Holds, HoldsBackup
  <2>4. NamedCopy(w)' BY <2>1 DEF Based, NamedCopy, LinkPlace, Target, Resolve
  <2> QED BY <2>2, <2>3, <2>4 DEF Based
<1>4. CASE Starts(w) BY <1>4, StartsBased
<1>5. CASE Works(w) BY <1>5, WorksBased
<1> QED BY <1>2, <1>3, <1>4, <1>5, NextParts DEF Lone

LEMMA BasedInvariance ==
    ASSUME NEW x, Lone(x)
    PROVE  Spec => [](TypeInv /\ Based(x))
<1>1. Init => TypeInv /\ Based(x)
  <2>1. Init => pc[x] = "idle" /\ kind[x] = "none" BY DEF Init, Lone
  <2> QED BY <2>1, InitTypes DEF Based, CacheReady, NewCopy, OldCopy, NamedCopy, Linking
<1>2. TypeInv /\ Based(x) /\ [Next]_vars => (TypeInv /\ Based(x))' BY TypeStep, BasedStep
<1> QED BY <1>1, <1>2, PTL DEF Spec

-----------------------------------------------------------------------------
(* ensure-symlink-farm repairs what a crash left.                          *)

(* One transaction at a time, with any number of crashes and every failure *)
(* but one that leaves links behind where they are removed; a migrate that *)
(* crashes is not repaired.                                                *)
Repairable(w) == Lone(w) /\ \A k \in Kinds : <<k, "unlink">> \notin FaultSteps

(* The applications directory holds no application itself, and what it     *)
(* links to is one.                                                        *)
Grounded ==
    /\ tree[App(Apps)] = "none" /\ tree[Backup(Apps)] = "none"
    /\ appLink # NoPrefix => tree[App(appLink)] \in WithInfo

(* Whoever takes a directory away has removed the link to it before.       *)
Unlinked(w) ==
    /\ kind[w] = "update" /\ pc[w] \in {"backup", "backupcopy", "backupdrop"} \cup Unpacking =>
          appLink = NoPrefix
    /\ kind[w] = "install" /\ pc[w] \in Unpacking => appLink # to[w]
    /\ kind[w] \in {"install", "uninstall"} /\ pc[w] \in {"remove", "removing"} => appLink = NoPrefix

(* The applications ensure-symlink-farm has seen where it could read, and  *)
(* what it has made of them: the last one has all links it needs.          *)
Seen(w) == {pl \in FarmPlaces \ todo[w] : pl[1] \notin skipped[w] /\ tree[pl] \in WithInfo}

Relinked(w) ==
    kind[w] = "farm" =>
    /\ pc[w] = "check" => todo[w] = FarmPlaces
    /\ pc[w] = "farm" /\ ensured[w] =>
          /\ Seen(w) # {} =>
                \E pl \in FarmPlaces : tree[pl] \in WithInfo /\ \A n \in Needed(w) : link[n] = pl
          /\ \A p \in Storages : App(p) \in Seen(w) => appLink # NoPrefix
    /\ pc[w] \in Linking => at[w] \in FarmPlaces /\ tree[at[w]] \in WithInfo
    /\ pc[w] \in {"linksys", "linkapp"} =>
          tree[at[w]] \in Usable /\ ("bin" \in skipped[w] \/ link["bin"] = at[w])
    /\ pc[w] = "linkapp" => link["sys"] = at[w]
    /\ pc[w] \in Linking /\ ensured[w] =>
          \A p \in Storages : App(p) \in Seen(w) \ {at[w]} => appLink # NoPrefix

RepairInv(w) == TypeInv /\ Based(w) /\ Grounded /\ Unlinked(w) /\ Relinked(w)

(* What the steps rest on.                                                 *)
LEMMA RepairFacts ==
    ASSUME NEW w, Repairable(w), RepairInv(w)
    PROVE  /\ Lone(w) /\ TypeInv /\ Based(w)
           /\ w \in Workers /\ TypeOK /\ FsTypeOK /\ ParamsOK(w) /\ tree \in [Places -> Trees]
           /\ StageIn(kind[w], phase[w], pc[w]) /\ phase[w] \in Phases
           /\ pc[w] # "idle" => kind[w] \in {"install", "update", "uninstall", "symlinks", "farm"}
           /\ kind[w] = "update" => from[w] \in Storages /\ to[w] \in Storages
           /\ kind[w] = "install" => to[w] \in Storages
           /\ kind[w] = "uninstall" => from[w] \in Storages \cup {NoPrefix}
           /\ Cache \notin FarmPlaces
           /\ \A p \in Storages : App(p) \in FarmPlaces /\ Backup(p) \in FarmPlaces
           /\ appLink # NoPrefix => appLink \in Storages
<1>1. Lone(w) /\ TypeInv /\ Based(w) BY DEF Repairable, RepairInv
<1> QED BY <1>1, LoneFacts

LEMMA StillGrounded ==
    ASSUME FsTypeOK, Grounded, NEW pls \in SUBSET (FarmPlaces \cup {Cache}), Touches(pls),
           UNCHANGED appLink, appLink = NoPrefix \/ App(appLink) \notin pls
    PROVE  Grounded'
<1>1. /\ App(Apps) \in Places \ pls /\ Backup(Apps) \in Places \ pls
      /\ \A p \in Storages : App(p) \in Places
  BY PlaceFacts
<1>2. tree'[App(Apps)] = tree[App(Apps)] /\ tree'[Backup(Apps)] = tree[Backup(Apps)]
  BY <1>1 DEF Touches
<1>3. appLink # NoPrefix => tree'[App(appLink)] = tree[App(appLink)]
  BY <1>1 DEF Touches, FsTypeOK
<1> QED BY <1>2, <1>3 DEF Grounded

(* What a step has to show, besides its types. *)
Repairing(w) == Grounded' /\ Unlinked(w)' /\ Relinked(w)'

LEMMA ToRest ==
    ASSUME NEW w, pc'[w] \in {"idle", "check", "unlink", "restore", "linkbin", "farm"}
    PROVE  Unlinked(w)'
BY DEF Unlinked, Unpacking

(* A worker that is not making links, with the link out of the way of the  *)
(* places it changes.                                                      *)
LEMMA DiskStep ==
    ASSUME NEW w, Repairable(w), RepairInv(w), pc[w] # "idle", UNCHANGED params, kind[w] # "farm",
           NEW pls \in SUBSET (FarmPlaces \cup {Cache}), Touches(pls),
           UNCHANGED appLink, appLink = NoPrefix \/ App(appLink) \notin pls,
           \/ pc'[w] \in {"idle", "check", "unlink", "restore", "linkbin", "farm"}
           \/ appLink = NoPrefix
           \/ kind[w] = "update" /\ pc'[w] = "remove"
           \/ kind[w] = "update" /\ pc'[w] = "removing"
           \/ pc[w] \in Unpacking /\ pc'[w] \in Unpacking
    PROVE  Repairing(w)
<1>0. FsTypeOK /\ Grounded /\ Unlinked(w) BY RepairFacts DEF RepairInv
<1>1. Grounded' BY <1>0, StillGrounded
<1>2. kind'[w] = kind[w] /\ to'[w] = to[w] BY DEF params
<1>3. Relinked(w)' BY <1>2 DEF Relinked
<1>4. Unlinked(w)'
  <2>1. CASE pc'[w] \in {"idle", "check", "unlink", "restore", "linkbin", "farm"} BY <2>1, ToRest
  <2>2. CASE appLink = NoPrefix
    <3>1. kind[w] = "install" => to[w] # NoPrefix BY RepairFacts, PrefixAssumption DEF Prefixes
    <3> QED BY <1>2, <2>2, <3>1 DEF Unlinked
  <2>3. CASE kind[w] = "update" /\ pc'[w] \in {"remove", "removing"}
    BY <1>2, <2>3 DEF Unlinked, Unpacking
  <2>4. CASE pc[w] \in Unpacking /\ pc'[w] \in Unpacking
    BY <1>0, <1>2, <2>4 DEF Unlinked, Unpacking
  <2> QED BY <2>1, <2>2, <2>3, <2>4
<1> QED BY <1>1, <1>3, <1>4 DEF Repairing

LEMMA CheckRepairs ==
    ASSUME NEW w, Repairable(w), RepairInv(w), UNCHANGED params, Check(w)
    PROVE  Repairing(w)
<1>0. /\ w \in Workers /\ TypeOK /\ FsTypeOK /\ Grounded /\ Relinked(w) /\ pc[w] = "check"
      /\ kind[w] \in {"install", "update", "uninstall", "symlinks", "farm"}
  BY RepairFacts DEF RepairInv, Check
<1>1. Touches({}) /\ UNCHANGED <<tree, link, appLink>> BY <1>0 DEF Check, fsVars, Touches
<1>2. Grounded' BY <1>0, <1>1, StillGrounded
<1>3. kind'[w] = kind[w] /\ to'[w] = to[w] BY DEF params
<1>4. ASSUME NEW r, Finish(w, r) PROVE Repairing(w)
  <2>1. pc'[w] = "idle" BY <1>0, <1>4, Turns
  <2> QED BY <1>2, <2>1, ToRest DEF Repairing, Relinked, Linking
<1>5. ASSUME Proceeds(w), pc'[w] = FirstStep(w), UNCHANGED control PROVE Repairing(w)
  <2>1. CASE kind[w] = "install"
    <3>1. pc'[w] = "extract" BY <1>5, <2>1 DEF FirstStep
    <3>2. ~AppIsInstalled(to[w]) /\ to[w] \in Storages
      BY <1>5, <2>1, RepairFacts DEF Proceeds, InstallProceeds
    <3>3. appLink # to[w]
      <4>1. to[w] # NoPrefix /\ tree[App(to[w])] \notin WithInfo BY <1>0, <3>2, Lookups
      <4> QED BY <1>0, <4>1 DEF Grounded
    <3>4. Unlinked(w)' BY <1>1, <1>3, <2>1, <3>1, <3>3 DEF Unlinked
    <3> QED BY <1>2, <1>3, <2>1, <3>4 DEF Repairing, Relinked
  <2>2. CASE kind[w] \in {"update", "uninstall", "symlinks"}
    <3>1. pc'[w] \in {"unlink", "linkbin"} BY <1>5, <2>2 DEF FirstStep
    <3> QED BY <1>2, <1>3, <2>2, <3>1, ToRest DEF Repairing, Relinked
  <2>3. CASE kind[w] = "farm"
    <3>1. pc'[w] = "farm" BY <1>5, <2>3 DEF FirstStep
    <3>2. todo'[w] = FarmPlaces BY <1>0, <1>5, <2>3 DEF Relinked, control, farm
    <3>3. Seen(w)' = {} BY <3>2 DEF Seen
    <3>4. Relinked(w)' BY <3>1, <3>3 DEF Relinked, Linking
    <3> QED BY <1>2, <3>1, <3>4, ToRest DEF Repairing
  <2> QED BY <1>0, <2>1, <2>2, <2>3
<1>6. CASE /\ Proceeds(w) /\ pc' = [pc EXCEPT ![w] = FirstStep(w)]
           /\ UNCHANGED <<control, result>>
  BY <1>0, <1>5, <1>6 DEF TypeOK
<1> QED BY <1>4, <1>6 DEF Check

LEMMA UnlinkRepairs ==
    ASSUME NEW w, Repairable(w), RepairInv(w), UNCHANGED params, Unlink(w)
    PROVE  Repairing(w)
<1>0. w \in Workers /\ TypeOK /\ Grounded /\ pc[w] = "unlink" /\ StageIn(kind[w], phase[w], pc[w])
  BY RepairFacts DEF RepairInv, Unlink
<1>1. kind[w] \in {"install", "update", "uninstall", "symlinks"}
  BY <1>0, RepairFacts DEF StageIn, Unpacking, Linking
<1>2. UNCHANGED tree /\ appLink' = NoPrefix
  <2>1. kind[w] \in Kinds BY <1>0, <1>1 DEF TypeOK
  <2>2. ~Fault(w, "unlink") BY <2>1 DEF Repairable, Fault
  <2> QED BY <2>2 DEF Unlink, PruneSymlinks
<1>3. kind'[w] = kind[w] BY DEF params
<1>4. pc'[w] = AfterUnlink[kind[w]] BY <1>0, Turns DEF Unlink
<1>5. pc'[w] \in {"remove", "backup", "linkbin"} BY <1>1, <1>4 DEF AfterUnlink
<1>6. Grounded' BY <1>0, <1>2 DEF Grounded
<1>7. Unlinked(w)' BY <1>2, <1>5 DEF Unlinked, Unpacking
<1> QED BY <1>1, <1>3, <1>6, <1>7 DEF Repairing, Relinked

LEMMA BackupRepairs ==
    ASSUME NEW w, Repairable(w), RepairInv(w), UNCHANGED params, BackupApp(w) \/ BackupCopy(w) \/ BackupDrop(w)
    PROVE  Repairing(w)
<1>0. /\ w \in Workers /\ TypeOK /\ FsTypeOK /\ pc[w] \in {"backup", "backupcopy", "backupdrop"}
      /\ StageIn(kind[w], phase[w], pc[w])
  BY RepairFacts DEF BackupApp, BackupCopy, BackupDrop, DropSource
<1>1. kind[w] = "update" /\ from[w] \in Storages
  BY <1>0, RepairFacts DEF StageIn, Unpacking, Linking
<1>2. appLink = NoPrefix BY <1>0, <1>1 DEF RepairInv, Unlinked
<1>3. /\ App(from[w]) \in FarmPlaces /\ Backup(from[w]) \in FarmPlaces
      /\ App(from[w]) \in Places /\ Backup(from[w]) \in Places
  BY <1>1, RepairFacts, PlaceFacts
<1>4. pc'[w] \in {"extract", "backupcopy", "backupdrop", "linkbin", "idle"}
  BY <1>0, Turns DEF BackupApp, BackupCopy, BackupCopyFailed, BackupDrop, DropSource
<1>5. Touches({App(from[w]), Backup(from[w])}) /\ UNCHANGED appLink
  <2>1. CASE Disturb(Renamed(App(from[w]), Backup(from[w]))) BY <1>0, <1>3, <2>1, Touching
  <2>2. CASE UNCHANGED fsVars BY <2>2 DEF fsVars, Touches
  <2>3. CASE Fills(Backup(from[w])) BY <1>0, <1>3, <2>3, Touching DEF Touches
  <2>4. CASE Disturb(Removed(Backup(from[w]))) BY <1>0, <1>3, <2>4, Touching DEF Touches
  <2>5. CASE Disturb(Copied(App(from[w]), Backup(from[w]))) BY <1>0, <1>3, <2>5, Touching DEF Touches
  <2>6. CASE BackupDrop(w) BY <1>3, <2>6, DropTouches, RepairFacts DEF BackupDrop, Touches
  <2> QED BY <2>1, <2>2, <2>3, <2>4, <2>5, <2>6 DEF BackupApp, BackupCopy, BackupCopyFailed
<1> QED BY <1>0, <1>1, <1>2, <1>3, <1>4, <1>5, DiskStep

LEMMA UnpackRepairs ==
    ASSUME NEW w, Repairable(w), RepairInv(w), UNCHANGED params,
           Extract(w) \/ ExtractEnd(w) \/ Scripts(w)
    PROVE  Repairing(w)
<1>0. /\ w \in Workers /\ TypeOK /\ FsTypeOK /\ pc[w] \in {"extract", "extracting", "scripts"}
      /\ StageIn(kind[w], phase[w], pc[w]) /\ Cache \in Places
      /\ appLink = NoPrefix \/ App(appLink) # Cache
  BY RepairFacts, PlaceFacts DEF Extract, ExtractEnd, Scripts
<1>1. kind[w] # "farm" BY <1>0 DEF StageIn, Linking
<1>2. Touches({Cache}) /\ UNCHANGED appLink
  <2>1. CASE Fills(Cache) \/ Disturb(Removed(Cache)) BY <1>0, <2>1, Touching
  <2>2. CASE UNCHANGED fsVars BY <2>2 DEF fsVars, Touches
  <2>3. CASE Disturb(tree) BY <2>3 DEF Disturb, Touches
  <2>4. CASE \E t \in Unpacked(w) : Disturb([tree EXCEPT ![Cache] = t]) BY <1>0, <2>4, Touching
  <2> QED BY <2>1, <2>2, <2>3, <2>4 DEF Extract, ExtractEnd, Scripts
<1>3. pc'[w] \in {"idle", "restore"} \cup Unpacking
  BY <1>0, Lands, Turns DEF Extract, ExtractEnd, Scripts, Unpacking
<1> QED BY <1>0, <1>1, <1>2, <1>3, DiskStep DEF Unpacking

LEMMA DeployRepairs ==
    ASSUME NEW w, Repairable(w), RepairInv(w), UNCHANGED params, Deploy(w) \/ DeployCopy(w) \/ DeployDrop(w)
    PROVE  Repairing(w)
<1>0. /\ w \in Workers /\ TypeOK /\ FsTypeOK /\ Grounded /\ pc[w] \in {"deploy", "deploycopy", "drop"}
      /\ StageIn(kind[w], phase[w], pc[w])
  BY RepairFacts DEF RepairInv, Deploy, DeployCopy, DeployDrop, DropSource
<1>1. kind[w] \in {"install", "update"} /\ to[w] \in Storages
  BY <1>0, RepairFacts DEF StageIn, Linking
<1>2. appLink = NoPrefix \/ appLink # to[w]
  BY <1>0, <1>1 DEF RepairInv, Unlinked, Unpacking
<1>3. /\ App(to[w]) \in FarmPlaces /\ App(to[w]) \in Places /\ Cache \in Places
      /\ App(appLink) \notin {Cache, App(to[w])} \/ appLink = NoPrefix
  BY <1>1, <1>2, RepairFacts, PlaceFacts
<1>4. Source(w) = Cache /\ AfterDeploy(w) = "linkbin" BY <1>1 DEF Source, AfterDeploy
<1>5. pc'[w] \in {"idle", "restore", "linkbin", "deploycopy", "drop"}
  BY <1>0, <1>4, Lands, Turns DEF Deploy, DeployCopy, DeployDrop, DropSource
<1>6. Touches({Cache, App(to[w])}) /\ UNCHANGED appLink
  <2>1. CASE Disturb(Renamed(Cache, App(to[w]))) BY <1>0, <1>3, <2>1, Touching
  <2>2. CASE Disturb(DeployFailed(Cache, to[w])) BY <1>0, <1>1, <1>3, <2>2, Touching
  <2>3. CASE Fills(App(to[w])) BY <1>0, <1>3, <2>3, Touching DEF Touches
  <2>4. CASE Disturb(Copied(Cache, App(to[w]))) BY <1>0, <1>3, <2>4, Touching DEF Touches
  <2>5. CASE DeployDrop(w) BY <1>3, <1>4, <2>5, DropTouches, RepairFacts DEF DeployDrop, Touches
  <2> QED BY <1>4, <2>1, <2>2, <2>3, <2>4, <2>5 DEF Deploy, DeployCopy
<1>7. pc'[w] \in {"deploycopy", "drop"} => pc[w] \in Unpacking /\ pc'[w] \in Unpacking BY <1>0 DEF Unpacking
<1> QED BY <1>0, <1>1, <1>3, <1>5, <1>6, <1>7, DiskStep

LEMMA RestoreRepairs ==
    ASSUME NEW w, Repairable(w), RepairInv(w), UNCHANGED params, RestoreApp(w)
    PROVE  Repairing(w)
<1>0. /\ w \in Workers /\ TypeOK /\ FsTypeOK /\ Grounded /\ pc[w] = "restore"
      /\ StageIn(kind[w], phase[w], pc[w])
  BY RepairFacts DEF RepairInv, RestoreApp
<1>1. kind[w] = "update" /\ from[w] \in Storages
  BY <1>0, RepairFacts DEF StageIn, Unpacking, Linking
<1>2. /\ App(from[w]) \in FarmPlaces /\ Backup(from[w]) \in FarmPlaces
      /\ App(from[w]) \in Places /\ Backup(from[w]) \in Places
      /\ App(appLink) # Backup(from[w])
      /\ appLink # NoPrefix /\ App(appLink) = App(from[w]) => tree[App(from[w])] \in WithInfo
  BY <1>0, <1>1, RepairFacts, PlaceFacts DEF Grounded
<1>3. pc'[w] \in {"linkbin", "idle"} BY <1>0, Turns DEF RestoreApp
<1>4. CASE UNCHANGED fsVars
  <2>1. Touches({}) /\ UNCHANGED appLink BY <1>4 DEF fsVars, Touches
  <2> QED BY <1>0, <1>1, <1>3, <2>1, DiskStep
<1>5. CASE tree[App(from[w])] = "none" /\ Disturb(Renamed(Backup(from[w]), App(from[w])))
  <2>1. Touches({Backup(from[w]), App(from[w])}) /\ UNCHANGED appLink BY <1>0, <1>2, <1>5, Touching
  <2>2. appLink = NoPrefix \/ App(appLink) \notin {Backup(from[w]), App(from[w])}
    BY <1>2, <1>5, Kinships
  <2> QED BY <1>0, <1>1, <1>2, <1>3, <2>1, <2>2, DiskStep
<1> QED BY <1>4, <1>5 DEF RestoreApp, CanRename

LEMMA RemoveRepairs ==
    ASSUME NEW w, Repairable(w), RepairInv(w), UNCHANGED params, Remove(w) \/ Removing(w)
    PROVE  Repairing(w)
<1>0. /\ w \in Workers /\ TypeOK /\ FsTypeOK /\ pc[w] \in {"remove", "removing"}
      /\ StageIn(kind[w], phase[w], pc[w]) /\ ParamsOK(w)
  BY RepairFacts DEF Remove, Removing
<1>1. kind[w] \in {"install", "update", "uninstall"} /\ kind[w] # "farm"
  BY <1>0, RepairFacts DEF StageIn, Unpacking, Linking
<1>2. kind[w] \in {"install", "uninstall"} => appLink = NoPrefix
  BY <1>0 DEF RepairInv, Unlinked
<1>3. ~Nothing(w) => Doomed(w) \in FarmPlaces /\ (kind[w] = "update" => Doomed(w) = Backup(from[w]))
  <2>1. CASE kind[w] = "install" BY <2>1, RepairFacts DEF Doomed
  <2>2. CASE kind[w] = "update" BY <2>2, RepairFacts DEF Doomed
  <2>3. CASE kind[w] = "uninstall" /\ ~Nothing(w)
    <3>1. from[w] \in Storages BY <2>3, RepairFacts DEF Nothing
    <3>2. Resolve(from[w]) = App(from[w]) BY <1>0, <3>1, Lookups
    <3> QED BY <2>3, <3>1, <3>2, RepairFacts DEF Doomed
  <2> QED BY <1>1, <2>1, <2>2, <2>3 DEF Nothing
<1>4. pc'[w] \in {"idle", "removing"} BY <1>0, Turns DEF Remove, Removing
<1>5. CASE UNCHANGED fsVars
  <2>1. Touches({}) /\ UNCHANGED appLink BY <1>5 DEF fsVars, Touches
  <2> QED BY <1>0, <1>1, <1>2, <1>4, <2>1, DiskStep
<1>6. CASE ~Nothing(w) /\ (Guts(Doomed(w)) \/ Disturb(Removed(Doomed(w))))
  <2>1. Doomed(w) \in Places BY <1>3, <1>6, PlaceFacts
  <2>2. Touches({Doomed(w)}) /\ UNCHANGED appLink BY <1>0, <1>6, <2>1, Touching
  <2>3. appLink = NoPrefix \/ App(appLink) \notin {Doomed(w)}
    BY <1>1, <1>2, <1>3, <1>6, PlaceFacts
  <2> QED BY <1>0, <1>1, <1>2, <1>3, <1>4, <1>6, <2>2, <2>3, DiskStep
<1>7. pc[w] = "removing" => ~Nothing(w) BY <1>0 DEF ParamsOK
<1> QED BY <1>5, <1>6, <1>7 DEF Remove, Removing

(* Making links.                                                           *)
LEMMA LinkersKnow ==
    ASSUME NEW w, Repairable(w), RepairInv(w), pc[w] \in Linking
    PROVE  /\ w \in Workers /\ TypeOK /\ FsTypeOK /\ Grounded /\ Unlinked(w)
           /\ LinkPlace(w) \in FarmPlaces \cup {App(Apps)}
           /\ tree[Target(LinkPlace(w))] \in WithInfo
           /\ \A p : p # Apps => Target(App(p)) = App(p)
           /\ kind[w] = "farm" => LinkPlace(w) = at[w] /\ at[w] \in FarmPlaces /\ Target(at[w]) = at[w]
<1>1. /\ w \in Workers /\ TypeInv /\ TypeOK /\ FsTypeOK /\ ParamsOK(w) /\ Based(w) /\ pc[w] # "idle"
      /\ StageIn(kind[w], phase[w], pc[w]) /\ NoPrefix \notin Storages
  BY RepairFacts, PrefixAssumption DEF Linking, Prefixes
<1>2. LinkPlace(w) \in FarmPlaces \cup {App(Apps)} BY <1>1, LinkPlaceIn
<1>3. \A p : p # Apps => Target(App(p)) = App(p) BY PlaceFacts DEF Target
<1>4. CASE kind[w] = "farm"
  <2>1. LinkPlace(w) = at[w] /\ at[w] \in FarmPlaces /\ tree[at[w]] \in WithInfo
    BY <1>4 DEF RepairInv, Relinked, LinkPlace
  <2>2. Target(at[w]) = at[w] BY <2>1, PlaceFacts DEF Target
  <2> QED BY <1>1, <1>2, <1>3, <2>1, <2>2 DEF RepairInv
<1>5. CASE kind[w] = "symlinks"
  BY <1>1, <1>2, <1>3, <1>5 DEF RepairInv, Based, NamedCopy
<1>6. CASE kind[w] \in {"install", "update"}
  <2>1. CASE phase[w] = "forward"
    <3>1. tree[App(to[w])] \in Versions BY <1>1, <1>6, <2>1 DEF Based, NewCopy
    <3>2. to[w] \in Storages BY <1>1, <1>6, RepairFacts
    <3>3. LinkPlace(w) = App(to[w]) BY <1>1, <1>6, <2>1, <3>2 DEF LinkPlace
    <3>4. Target(LinkPlace(w)) = App(to[w]) BY <1>3, <3>2, <3>3, PrefixAssumption
    <3> QED BY <1>1, <1>2, <1>3, <1>6, <3>1, <3>4, Kinships DEF RepairInv
  <2>2. CASE phase[w] = "back"
    <3>1. kind[w] = "update" BY <1>1, <1>6, <2>2 DEF StageIn, Linking
    <3>2. tree[App(from[w])] \in WithInfo BY <2>2, <3>1 DEF RepairInv, Based, OldCopy
    <3>3. from[w] \in Storages /\ LinkPlace(w) = App(from[w]) BY <2>2, <3>1, RepairFacts DEF LinkPlace
    <3>4. Target(LinkPlace(w)) = App(from[w]) BY <1>3, <3>3, PrefixAssumption
    <3> QED BY <1>1, <1>2, <1>3, <3>1, <3>2, <3>4 DEF RepairInv
  <2> QED BY <1>1, <2>1, <2>2 DEF StageIn
<1> QED BY <1>1, <1>4, <1>5, <1>6, RepairFacts DEF StageIn, Linking, Unpacking

LEMMA LinkFailedRepairs ==
    ASSUME NEW w, Repairable(w), RepairInv(w), UNCHANGED params, pc[w] \in Linking,
           UNCHANGED <<tree, appLink>>, LinkFailed(w)
    PROVE  Repairing(w)
<1>0. w \in Workers /\ TypeOK /\ FsTypeOK /\ pc[w] # "idle" BY RepairFacts DEF Linking
<1>1. Touches({}) /\ UNCHANGED <<tree, appLink>> BY DEF Touches
<1>2. CASE kind[w] # "farm"
  <2>1. pc'[w] \in {"idle", "unlink", "restore"} BY <1>0, <1>2, Lands
  <2> QED BY <1>0, <1>1, <1>2, <2>1, DiskStep
<1>3. CASE kind[w] = "farm"
  <2>1. pc'[w] = "farm" /\ ~ensured'[w] BY <1>0, <1>3, Lands
  <2>2. Relinked(w)' BY <2>1 DEF Relinked, Linking
  <2>3. Grounded' BY <1>1 DEF RepairInv, Grounded
  <2> QED BY <2>1, <2>2, <2>3, ToRest DEF Repairing
<1> QED BY <1>2, <1>3

(* A link is made, or that of the program is passed over.                  *)
LEMMA LinkPlaced ==
    ASSUME NEW w, Repairable(w), RepairInv(w), UNCHANGED params, pc[w] \in Linking,
           UNCHANGED <<tree, appLink>>, UNCHANGED <<phase, todo, at, ensured>>,
           pc'[w] \in {"linksys", "linkapp"}, skipped[w] \subseteq skipped'[w],
           kind[w] = "farm" =>
              /\ tree[at[w]] \in Usable
              /\ "bin" \in skipped'[w] \/ link'["bin"] = at[w]
              /\ pc'[w] = "linkapp" => link'["sys"] = at[w]
    PROVE  Repairing(w)
<1>0. Grounded BY LinkersKnow
<1>1. Grounded' BY <1>0 DEF Grounded
<1>2. Unlinked(w)' BY DEF Unlinked, Unpacking
<1>3. kind'[w] = kind[w] BY DEF params
<1>4. CASE kind[w] # "farm" BY <1>1, <1>2, <1>3, <1>4 DEF Repairing, Relinked
<1>5. CASE kind[w] = "farm"
  <2>1. Seen(w)' \subseteq Seen(w) BY DEF Seen
  <2>2. Relinked(w) BY DEF RepairInv
  <2>3. Relinked(w)' BY <1>5, <2>1, <2>2 DEF Relinked
  <2> QED BY <1>1, <1>2, <2>3 DEF Repairing
<1> QED BY <1>4, <1>5

LEMMA LinkBinRepairs ==
    ASSUME NEW w, Repairable(w), RepairInv(w), UNCHANGED params, LinkBin(w)
    PROVE  Repairing(w)
<1>0. /\ pc[w] = "linkbin" /\ pc[w] \in Linking /\ w \in Workers /\ TypeOK /\ FsTypeOK
      /\ UNCHANGED <<tree, appLink>>
  BY RepairFacts DEF LinkBin, Linking
<1>1. /\ tree[Target(LinkPlace(w))] \in WithInfo
      /\ kind[w] = "farm" => LinkPlace(w) = at[w] /\ Target(at[w]) = at[w]
  BY <1>0, LinkersKnow
<1>2. PICK files \in Exports(tree[Target(LinkPlace(w))]) :
        \/ files = LinkNames /\ LinkTo("bin", LinkPlace(w)) /\ Goto(w, "linksys")
        \/ "sys" \in files /\ (PassOver(w) \/ LinkFailed(w))
        \/ LinkFailed(w)
  BY DEF LinkBin
<1>3. "sys" \in files => tree[Target(LinkPlace(w))] \in Usable BY <1>1, <1>2, FilesAmong
<1>4. CASE LinkFailed(w) BY <1>0, <1>4, LinkFailedRepairs
<1>5. CASE files = LinkNames /\ LinkTo("bin", LinkPlace(w)) /\ Goto(w, "linksys")
  <2>1. pc'[w] = "linksys" /\ UNCHANGED <<phase, todo, at, ensured, skipped>> BY <1>0, <1>5, Turns
  <2>2. link'["bin"] = LinkPlace(w) BY <1>0, <1>5 DEF LinkTo, FsTypeOK, LinkNames
  <2>3. tree[Target(LinkPlace(w))] \in Usable BY <1>3, <1>5 DEF LinkNames
  <2> QED BY <1>0, <1>1, <2>1, <2>2, <2>3, LinkPlaced
<1>6. CASE "sys" \in files /\ PassOver(w)
  <2>1. /\ pc'[w] = "linksys" /\ UNCHANGED <<phase, todo, at, ensured>>
        /\ skipped'[w] = skipped[w] \cup {"bin"}
    BY <1>0, <1>6 DEF PassOver, TypeOK
  <2> QED BY <1>0, <1>1, <1>3, <1>6, <2>1, LinkPlaced
<1> QED BY <1>2, <1>4, <1>5, <1>6

LEMMA LinkSysRepairs ==
    ASSUME NEW w, Repairable(w), RepairInv(w), UNCHANGED params, LinkSys(w)
    PROVE  Repairing(w)
<1>0. /\ pc[w] = "linksys" /\ pc[w] \in Linking /\ w \in Workers /\ TypeOK /\ FsTypeOK
      /\ UNCHANGED <<tree, appLink>> /\ Relinked(w)
  BY RepairFacts DEF LinkSys, Linking, RepairInv
<1>1. /\ tree[Target(LinkPlace(w))] \in WithInfo
      /\ kind[w] = "farm" => LinkPlace(w) = at[w] /\ Target(at[w]) = at[w]
  BY <1>0, LinkersKnow
<1>2. PICK files \in Exports(tree[Target(LinkPlace(w))]) :
        \/ /\ IF "sys" \in files THEN LinkTo("sys", LinkPlace(w)) ELSE UNCHANGED link
           /\ Goto(w, "linkapp")
        \/ LinkFailed(w)
  BY DEF LinkSys
<1>3. "sys" \in files <=> tree[Target(LinkPlace(w))] \in Usable BY <1>1, <1>2, FilesAmong
<1>4. CASE LinkFailed(w) BY <1>0, <1>4, LinkFailedRepairs
<1>5. CASE /\ IF "sys" \in files THEN LinkTo("sys", LinkPlace(w)) ELSE UNCHANGED link
           /\ Goto(w, "linkapp")
  <2>1. pc'[w] = "linkapp" /\ UNCHANGED <<phase, todo, at, ensured, skipped>> BY <1>0, <1>5, Turns
  <2>2. kind[w] = "farm" => tree[at[w]] \in Usable /\ ("bin" \in skipped[w] \/ link["bin"] = at[w])
    BY <1>0 DEF Relinked
  <2>3. kind[w] = "farm" => link'["sys"] = at[w] /\ link'["bin"] = link["bin"]
    BY <1>0, <1>1, <1>3, <1>5, <2>2 DEF LinkTo, FsTypeOK, LinkNames
  <2> QED BY <1>0, <2>1, <2>2, <2>3, LinkPlaced
<1> QED BY <1>2, <1>4, <1>5

LEMMA LinkAppRepairs ==
    ASSUME NEW w, Repairable(w), RepairInv(w), UNCHANGED params, LinkAppStep(w)
    PROVE  Repairing(w)
<1>0. pc[w] = "linkapp" /\ pc[w] \in Linking BY DEF LinkAppStep, Linking
<1>1. CASE UNCHANGED fsVars /\ LinkFailed(w) BY <1>0, <1>1, LinkFailedRepairs DEF fsVars
<1>2. CASE /\ LinkApp(LinkPlace(w)) /\ UNCHANGED <<tree, link>>
           /\ LinkedUp(w) \/ (kind[w] # "farm" /\ Finish(w, "failed"))
  <2>0. /\ w \in Workers /\ TypeOK /\ FsTypeOK /\ Grounded
        /\ tree[Target(LinkPlace(w))] \in WithInfo /\ LinkPlace(w) \in FarmPlaces \cup {App(Apps)}
    BY <1>0, LinkersKnow
  <2>1. Grounded'
    <3>1. CASE appLink' = appLink BY <1>2, <2>0, <3>1 DEF Grounded
    <3>2. CASE appLink' # appLink
      <4>1. PICK p : p # Apps /\ LinkPlace(w) = App(p) /\ appLink' = p BY <1>2, <3>2 DEF LinkApp
      <4>2. tree[App(p)] \in WithInfo BY <1>0, <2>0, <4>1, LinkersKnow
      <4> QED BY <1>2, <2>0, <4>1, <4>2 DEF Grounded
    <3> QED BY <3>1, <3>2
  <2>2. CASE kind[w] # "farm"
    <3>1. pc'[w] = "idle" \/ (pc'[w] = "remove" /\ kind[w] = "update")
      BY <1>2, <2>0, <2>2, Lands, Turns
    <3>2. kind'[w] = kind[w] BY DEF params
    <3>3. Unlinked(w)'
      <4>1. CASE pc'[w] = "idle" BY <4>1, ToRest
      <4>2. CASE pc'[w] = "remove" /\ kind[w] = "update" BY <3>2, <4>2 DEF Unlinked, Unpacking
      <4> QED BY <3>1, <4>1, <4>2
    <3> QED BY <2>1, <2>2, <3>2, <3>3 DEF Repairing, Relinked
  <2>3. CASE kind[w] = "farm"
    <3>1. /\ LinkPlace(w) = at[w] /\ at[w] \in FarmPlaces /\ Relinked(w)
          /\ tree[at[w]] \in WithInfo
      BY <1>0, <2>0, <2>3, LinkersKnow DEF RepairInv
    <3>2. /\ pc'[w] = "farm" /\ todo' = todo /\ skipped' = skipped
          /\ ensured'[w] => ensured[w]
      BY <1>2, <2>0, <2>3, Lands
    <3>3. Seen(w)' = Seen(w) BY <1>2, <3>2 DEF Seen
    <3>4. \A n \in Needed(w) : link[n] = at[w]
      BY <1>0, <2>3, <3>1 DEF Relinked, LinkNames, Needed
    <3>5. \A n \in Needed(w)' : link'[n] = at[w] BY <1>2, <3>2, <3>4 DEF Needed
    <3>6. ASSUME ensured[w], NEW p \in Storages, App(p) \in Seen(w) PROVE appLink' # NoPrefix
      <4>1. appLink # NoPrefix => appLink' # NoPrefix
        BY <1>2, PrefixAssumption DEF LinkApp, FsTypeOK
      <4>2. CASE App(p) # at[w] BY <1>0, <2>3, <3>1, <3>6, <4>1, <4>2 DEF Relinked
      <4>3. CASE App(p) = at[w]
        <5>1. /\ LinkPlace(w) = App(p) /\ App(p)[1] = p /\ <<Apps, App(p)[2]>> = App(Apps)
              /\ p # Apps /\ p # NoPrefix /\ tree[App(Apps)] = "none"
          BY <2>0, <3>1, <4>3, PrefixAssumption DEF App, Grounded, Prefixes
        <5>2. appLink' = IF appLink = NoPrefix THEN p ELSE appLink BY <1>2, <5>1 DEF LinkApp
        <5> QED BY <5>1, <5>2
      <4> QED BY <4>2, <4>3
    <3>7. tree'[at[w]] \in WithInfo BY <1>2, <3>1
    <3>8. Relinked(w)'
      BY <3>1, <3>2, <3>3, <3>5, <3>6, <3>7 DEF Relinked, Linking
    <3> QED BY <2>1, <3>2, <3>8, ToRest DEF Repairing
  <2> QED BY <2>2, <2>3
<1> QED BY <1>1, <1>2 DEF LinkAppStep

LEMMA FarmVisitRepairs ==
    ASSUME NEW w, Repairable(w), RepairInv(w), UNCHANGED params, FarmVisit(w)
    PROVE  Repairing(w)
<1>0. /\ w \in Workers /\ TypeOK /\ FsTypeOK /\ Grounded /\ Relinked(w) /\ pc[w] = "farm"
      /\ todo[w] \subseteq FarmPlaces
  BY RepairFacts DEF RepairInv, FarmVisit, ParamsOK
<1>1. UNCHANGED <<tree, link, appLink, kind>> BY DEF FarmVisit, fsVars, params
<1>2. kind[w] = "farm"
  BY <1>0, RepairFacts DEF StageIn, Linking, Unpacking
<1>3. Grounded' BY <1>0, <1>1 DEF Grounded
<1>4. PICK pl \in todo[w] :
        \/ /\ IsAppDir(pl)
           /\ pc' = [pc EXCEPT ![w] = "linkbin"]
           /\ at' = [at EXCEPT ![w] = pl]
           /\ todo' = [todo EXCEPT ![w] = @ \ {pl}]
           /\ UNCHANGED <<ensured, skipped>>
        \/ /\ ~IsAppDir(pl)
           /\ todo' = [todo EXCEPT ![w] = @ \ {pl}]
           /\ UNCHANGED <<pc, at, ensured, skipped>>
        \/ /\ ensured' = [ensured EXCEPT ![w] = FALSE]
           /\ UNCHANGED <<pc, at>>
        \/ /\ todo' = [todo EXCEPT ![w] = @ \ Rest(w, pl[1])]
           /\ skipped' = [skipped EXCEPT ![w] = @ \cup {pl[1]}]
           /\ UNCHANGED <<pc, at, ensured>>
  BY DEF FarmVisit
<1>5. CASE /\ IsAppDir(pl)
           /\ pc' = [pc EXCEPT ![w] = "linkbin"]
           /\ at' = [at EXCEPT ![w] = pl]
           /\ todo' = [todo EXCEPT ![w] = @ \ {pl}]
           /\ UNCHANGED <<ensured, skipped>>
  <2>1. /\ pc'[w] = "linkbin" /\ at'[w] = pl /\ todo'[w] = todo[w] \ {pl}
        /\ ensured'[w] = ensured[w] /\ skipped' = skipped
    BY <1>0, <1>5 DEF TypeOK
  <2>2. tree[pl] \in WithInfo /\ pl \in FarmPlaces BY <1>0, <1>5, Kinships
  <2>3. Seen(w)' \subseteq Seen(w) \cup {pl} BY <1>0, <1>1, <2>1, <2>2 DEF Seen
  <2>4. Relinked(w)' BY <1>0, <1>1, <1>2, <2>1, <2>2, <2>3 DEF Relinked
  <2> QED BY <1>3, <2>1, <2>4, ToRest DEF Repairing
<1>6. ASSUME Seen(w)' \subseteq Seen(w), pc'[w] = "farm", ensured'[w] = ensured[w],
             skipped[w] \subseteq skipped'[w]
      PROVE  Repairing(w)
  <2>1. Needed(w)' \subseteq Needed(w) BY <1>6 DEF Needed
  <2>2. Relinked(w)' BY <1>0, <1>1, <1>2, <1>6, <2>1 DEF Relinked, Linking
  <2> QED BY <1>3, <1>6, <2>2, ToRest DEF Repairing
<1>7. CASE /\ ~IsAppDir(pl)
           /\ todo' = [todo EXCEPT ![w] = @ \ {pl}]
           /\ UNCHANGED <<pc, at, ensured, skipped>>
  <2>1. todo'[w] = todo[w] \ {pl} BY <1>0, <1>7 DEF TypeOK
  <2>2. tree[pl] \notin WithInfo BY <1>7, Kinships
  <2>3. Seen(w)' \subseteq Seen(w) BY <1>0, <1>1, <1>7, <2>1, <2>2 DEF Seen
  <2> QED BY <1>0, <1>6, <1>7, <2>3
<1>8. CASE ensured' = [ensured EXCEPT ![w] = FALSE] /\ UNCHANGED <<pc, at>>
  <2>1. pc'[w] = "farm" /\ ~ensured'[w] BY <1>0, <1>8 DEF TypeOK
  <2>2. Relinked(w)' BY <2>1 DEF Relinked, Linking
  <2> QED BY <1>3, <2>1, <2>2, ToRest DEF Repairing
<1>9. CASE /\ todo' = [todo EXCEPT ![w] = @ \ Rest(w, pl[1])]
           /\ skipped' = [skipped EXCEPT ![w] = @ \cup {pl[1]}]
           /\ UNCHANGED <<pc, at, ensured>>
  <2>1. todo'[w] = todo[w] \ Rest(w, pl[1]) /\ skipped'[w] = skipped[w] \cup {pl[1]}
    BY <1>0, <1>9 DEF TypeOK
  <2>2. Seen(w)' \subseteq Seen(w) BY <1>1, <2>1 DEF Seen, Rest
  <2> QED BY <1>0, <1>6, <1>9, <2>1, <2>2
<1> QED BY <1>4, <1>5, <1>7, <1>8, <1>9

LEMMA WorksRepair ==
    ASSUME NEW w, Repairable(w), RepairInv(w), Works(w)
    PROVE  Repairing(w)
<1>1. w \in Workers /\ TypeInv /\ TypeOK BY RepairFacts
<1>2. UNCHANGED params BY <1>1, WorksFit DEF Fits, Moves, Step
<1>3. ASSUME FarmDone(w) PROVE Repairing(w)
  <2>1. pc'[w] = "idle" /\ UNCHANGED <<tree, appLink>> BY <1>1, <1>3, Turns DEF FarmDone, fsVars
  <2>2. Grounded' BY <2>1 DEF RepairInv, Grounded
  <2> QED BY <2>1, <2>2, ToRest DEF Repairing, Relinked, Linking
<1> QED BY <1>2, <1>3, CheckRepairs, UnlinkRepairs, BackupRepairs, UnpackRepairs, DeployRepairs,
           LinkBinRepairs, LinkSysRepairs, LinkAppRepairs, FarmVisitRepairs, RestoreRepairs, RemoveRepairs
        DEF Works

LEMMA StartsRepair ==
    ASSUME NEW w, Repairable(w), RepairInv(w), Starts(w)
    PROVE  Repairing(w)
<1>0. w \in Workers /\ TypeInv /\ TypeOK BY RepairFacts
<1>1. PICK k, f, t, v, d, forced : StartsAs(w, k, f, t, v, d, forced) BY <1>0, StartsWith
<1>2. Start(w, k, f, t, v, d, forced) BY <1>1 DEF StartsAs
<1>3. /\ pc'[w] = "check" /\ UNCHANGED <<tree, appLink>> /\ kind'[w] = k
      /\ k = "farm" => todo'[w] = FarmPlaces
  BY <1>0, <1>2 DEF Start, fsVars, TypeOK, FarmPlaces
<1>4. Grounded' BY <1>3 DEF RepairInv, Grounded
<1> QED BY <1>3, <1>4, ToRest DEF Repairing, Relinked, Linking

LEMMA RepairStep ==
    ASSUME NEW w, Repairable(w), RepairInv(w), [Next]_vars
    PROVE  RepairInv(w)'
<1>1. TypeInv' /\ w \in Workers /\ Based(w)' BY RepairFacts, TypeStep, BasedStep
<1>2. CASE Crash
  <2>1. pc'[w] = "idle" /\ UNCHANGED <<tree, appLink>> BY <1>1, <1>2 DEF Crash, fsVars
  <2>2. Grounded' BY <2>1 DEF RepairInv, Grounded
  <2> QED BY <1>1, <2>1, <2>2, ToRest DEF RepairInv, Relinked, Linking
<1>3. CASE Starts(w) \/ Works(w)
  BY <1>1, <1>3, StartsRepair, WorksRepair DEF Repairing, RepairInv
<1>4. CASE UNCHANGED vars
  <2>1. UNCHANGED <<tree, link, appLink, pc, kind, from, to, phase, todo, at, ensured, skipped>>
    BY <1>4 DEF vars, fsVars, params, farm
  <2>2. Unlinked(w)' BY <2>1 DEF RepairInv, Unlinked
  <2>3. Seen(w)' = Seen(w) /\ Needed(w)' = Needed(w) BY <2>1 DEF Seen, Needed
  <2>4. Relinked(w)' BY <2>1, <2>3 DEF RepairInv, Relinked
  <2>5. Grounded' BY <2>1 DEF RepairInv, Grounded
  <2> QED BY <1>1, <2>2, <2>4, <2>5 DEF RepairInv
<1> QED BY <1>2, <1>3, <1>4, NextParts DEF Repairable, Lone

LEMMA InitRepair ==
    ASSUME NEW w, Repairable(w), Init
    PROVE  RepairInv(w)
<1>1. TypeInv /\ w \in Workers BY InitTypes DEF Repairable, Lone
<1>2. pc[w] = "idle" /\ kind[w] = "none" BY <1>1 DEF Init
<1>3. Unlinked(w) /\ Relinked(w) /\ Based(w)
  BY <1>2 DEF Unlinked, Relinked, Unpacking, Linking, Based, CacheReady, NewCopy, OldCopy, NamedCopy
<1>4. App(Apps) \in Places /\ Backup(Apps) \in Places BY PlaceFacts
<1>5. ASSUME FsInit PROVE Grounded BY <1>4, <1>5 DEF FsInit, Grounded
<1>6. ASSUME NEW p \in Storages, NEW v \in Versions, InstalledAt(p, v) PROVE Grounded
  <2>1. /\ p # Apps /\ App(p) \in Places /\ App(p) # App(Apps) /\ App(p) # Backup(Apps)
    BY PlaceFacts, PrefixAssumption
  <2> QED BY <1>4, <1>6, <2>1, Kinships DEF InstalledAt, Grounded
<1>7. Grounded BY <1>5, <1>6 DEF Init
<1> QED BY <1>1, <1>3, <1>7 DEF RepairInv

(* What one worker's links lead to, through failures and crashes. *)
THEOREM RepairInvariance ==
    ASSUME NEW x, Repairable(x)
    PROVE  Spec => []RepairInv(x)
<1>1. Init => RepairInv(x) BY InitRepair
<1>2. RepairInv(x) /\ [Next]_vars => RepairInv(x)' BY RepairStep
<1> QED BY <1>1, <1>2, PTL DEF Spec

(* The only step with which ensure-symlink-farm reports success.           *)
LEMMA FarmReports ==
    ASSUME NEW w, Repairable(w), RepairInv(w), [Next]_vars, Reports(w, "farm", "ok")
    PROVE  pc[w] = "farm" /\ todo[w] = {} /\ ensured[w] /\ UNCHANGED <<fsVars, skipped>>
<1>0. w \in Workers /\ TypeOK /\ StageIn(kind[w], phase[w], pc[w])
  BY RepairFacts
<1>1. kind[w] = "farm" /\ result[w] = "none" /\ result'[w] = "ok" BY DEF Reports
<1>2. ~Crash /\ ~UNCHANGED vars BY <1>1 DEF Crash, vars
<1>3. ~Starts(w)
  BY <1>0, <1>1 DEF Starts, InstallStart, UpdateStart, UninstallStart, MigrateStart, SymlinksStart,
       FarmStart, Start, TypeOK
<1>4. Works(w) BY <1>2, <1>3, NextParts DEF Repairable, Lone
<1>5. pc[w] \in {"idle", "check", "farm"} \cup Linking BY <1>0, <1>1 DEF StageIn, Unpacking, Linking
<1>6. ~Check(w)
  <2>1. Refused(w) = "failed" BY <1>1 DEF Refused
  <2> QED BY <1>0, <1>1, <2>1 DEF Check, Finish, TypeOK
<1>7. ~LinkBin(w) /\ ~LinkSys(w) /\ ~LinkAppStep(w)
  <2>1. ~LinkFailed(w) /\ ~LinkedUp(w) /\ ~PassOver(w)
    BY <1>1 DEF LinkFailed, LinkedUp, NextPlace, PassOver
  <2>2. \A s : ~Goto(w, s) BY <1>1 DEF Goto
  <2> QED BY <1>1, <2>1, <2>2 DEF LinkBin, LinkSys, LinkAppStep
<1>8. ~FarmVisit(w) BY <1>1 DEF FarmVisit
<1>9. FarmDone(w)
  BY <1>4, <1>5, <1>6, <1>7, <1>8
     DEF Works, Linking, Unlink, BackupApp, BackupCopy, BackupDrop, Extract, ExtractEnd, Scripts,
         Deploy, DeployCopy, DeployDrop, DropSource, RestoreApp, Remove, Removing
<1>10. ensured[w] /\ UNCHANGED skipped
  BY <1>0, <1>1, <1>9 DEF FarmDone, Finish, TypeOK, control, farm
<1> QED BY <1>9, <1>10 DEF FarmDone

(* ensure-symlink-farm repairs what any number of crashes have left, of    *)
(* installs, updates and uninstalls, whatever steps of theirs have failed  *)
(* but the removal of links (eam_fs_prune_symlinks ignores what it could   *)
(* not remove): it does not report success before all links lead into one  *)
(* directory and list-apps names an application that is in a storage.  The *)
(* two it does not know of are in the statement: a storage that cannot be  *)
(* opened or read on (eam_fs_ensure_symlink_farm_for_prefix returns TRUE), *)
(* and the program's link, which do_binaries_symlinks does without where   *)
(* the search path has a program of that name.                             *)
THEOREM FarmRepaired ==
    ASSUME NEW x, Repairable(x)
    PROVE  Spec => FarmRepairs
<1>1. ASSUME RepairInv(x), [Next]_vars PROVE Repaired
  <2> SUFFICES ASSUME NEW w \in Workers, Reports(w, "farm", "ok")
               PROVE  LET read == Storages \ skipped'[w]
                          found(p) == {pl \in {App(p), Backup(p)} : IsAppDir(pl)'}
                      IN  /\ (\E p \in read : found(p) # {}) =>
                                \E p \in Storages : \E pl \in found(p) :
                                   \A n \in Needed(w)' : link'[n] = pl
                          /\ (\E p \in read : App(p) \in found(p)) => Listed'
    BY DEF Repaired
  <2>1. w = x BY DEF Repairable, Lone
  <2>2. /\ pc[x] = "farm" /\ todo[x] = {} /\ ensured[x]
        /\ UNCHANGED <<tree, link, appLink, skipped>> /\ kind[x] = "farm"
    BY <1>1, <2>1, FarmReports DEF fsVars, Reports
  <2>3. /\ Grounded
        /\ Seen(x) # {} =>
              \E pl \in FarmPlaces : tree[pl] \in WithInfo /\ \A n \in Needed(x) : link[n] = pl
        /\ \A p \in Storages : App(p) \in Seen(x) => appLink # NoPrefix
    BY <1>1, <2>2 DEF RepairInv, Relinked
  <2>4. \A pl : IsAppDir(pl)' <=> tree[pl] \in WithInfo BY <2>2 DEF IsAppDir, WithInfo
  <2>5. ASSUME NEW p \in Storages \ skipped'[w], NEW pl \in {App(p), Backup(p)}, IsAppDir(pl)'
        PROVE  pl \in Seen(x)
    <3>1. pl \in FarmPlaces /\ pl[1] = p BY <2>5 DEF FarmPlaces, App, Backup
    <3> QED BY <2>1, <2>2, <2>4, <2>5, <3>1 DEF Seen
  <2>6. Needed(w)' = Needed(x) BY <2>1, <2>2 DEF Needed
  <2>7. ASSUME NEW pl \in FarmPlaces, tree[pl] \in WithInfo
        PROVE  \E p \in Storages : pl \in {App(p), Backup(p)} /\ IsAppDir(pl)'
    BY <2>4, <2>7 DEF FarmPlaces
  <2>8. ASSUME NEW p \in Storages, App(p) \in Seen(x) PROVE Listed'
    <3>1. appLink # NoPrefix /\ tree[App(appLink)] \in WithInfo BY <2>3, <2>8 DEF Grounded
    <3>2. Resolve(Apps) = App(appLink) BY <3>1 DEF Resolve
    <3> QED BY <2>2, <3>1, <3>2 DEF Listed, IsAppDir, WithInfo, Resolve
  <2>9. ASSUME NEW p \in Storages \ skipped'[w], NEW ql \in {App(p), Backup(p)}, IsAppDir(ql)'
        PROVE  \E q \in Storages : \E pl \in {App(q), Backup(q)} :
                  IsAppDir(pl)' /\ \A n \in Needed(w)' : link'[n] = pl
    <3>1. PICK pl \in FarmPlaces : tree[pl] \in WithInfo /\ \A n \in Needed(x) : link[n] = pl
      BY <2>3, <2>5, <2>9
    <3> QED BY <2>2, <2>6, <2>7, <3>1
  <2> QED BY <2>5, <2>8, <2>9
<1>2. RepairInv(x) /\ [Next]_vars => [Repaired]_vars BY <1>1
<1> QED BY <1>2, RepairInvariance, PTL DEF Spec, FarmRepairs

-----------------------------------------------------------------------------
(* A single worker loses nothing, between any storages, whatever fails but *)
(* the links of an update, and however often it crashes.                   *)

(* rename() of a directory is no copy in any storage, and an update can    *)
(* make its links: one that cannot puts the old version back and leaves    *)
(* the new one as well, the first of two copies.                           *)
Recoverable(w) ==
    /\ Lone(w)
    /\ Storages \cap Overlay = {}
    /\ \A s \in Linking : <<"update", s>> \notin FaultSteps

(* A complete backup nobody is working with: nothing ever takes it away.   *)
SpareAt(w, p) == tree[Backup(p)] \in Versions /\ (Holds(w) => from[w] # p)
Spare(w) == \E p \in Storages : SpareAt(w, p)

(* Without one, one storage at most has the application, and what the user *)
(* has is complete there, or in the backup of the update that is running.  *)
HasApp == \E p \in Storages : tree[App(p)] \in Versions
OneOf == \A p, q \in Storages : tree[App(p)] \in WithInfo /\ tree[App(q)] \in WithInfo => p = q
Elsewhere(w) == \A p \in Storages : tree[App(p)] \in WithInfo => p = to[w]

SoleInstall(w) ==
    kind[w] = "install" =>
    /\ pc[w] # "idle" => Elsewhere(w) /\ ~force[w]
    /\ pc[w] \notin {"idle", "check"} => ~owned

SoleUpdate(w) ==
    kind[w] = "update" =>
    /\ Holds(w) => Elsewhere(w)
    /\ pc[w] \in Unpacking \cup {"restore"} => (owned => tree[Backup(from[w])] \in Versions)
    /\ pc[w] \in {"extract", "extracting", "scripts", "deploy", "restore"} =>
          tree[App(to[w])] \notin WithInfo
    /\ Holds(w) /\ pc[w] \in {"remove", "removing"} => tree[App(to[w])] \in Versions

Sole(w) ==
    /\ OneOf
    /\ owned => HasApp \/ (Holds(w) /\ tree[Backup(from[w])] \in Versions)
    /\ SoleInstall(w) /\ SoleUpdate(w)
    /\ kind[w] = "uninstall" /\ pc[w] \notin {"idle", "check"} => ~owned

(* No backup is copied. *)
Renames(w) == pc[w] \notin {"backupcopy", "backupdrop"}

Safe(w) == Renames(w) /\ (Spare(w) \/ Sole(w))
SafeInv(w) == TypeInv /\ Based(w) /\ Safe(w)

(* A worker that stops has nothing to answer for but the disk.             *)
LEMMA RestSafe ==
    ASSUME NEW w, pc'[w] \in {"idle", "farm"}, Spare(w)' \/ (OneOf' /\ (owned' => HasApp')),
           pc'[w] = "farm" => kind'[w] = "farm"
    PROVE  Safe(w)'
<1>1. ~Holds(w)' BY HoldsWhen DEF Unpacking, Linking
<1>2. Renames(w)' BY DEF Renames
<1>3. OneOf' /\ (owned' => HasApp') => Sole(w)'
  BY <1>1 DEF Sole, SoleInstall, SoleUpdate, Unpacking, Linking
<1> QED BY <1>2, <1>3 DEF Safe

(* Steps that touch no backup but that of a worker that holds it.          *)
LEMMA StillSpare ==
    ASSUME NEW w, FsTypeOK, UNCHANGED params, Spare(w), NEW pls, Touches(pls),
           \A p \in Storages : Backup(p) \in pls => Holds(w) /\ p = from[w],
           Holds(w)' => Holds(w)
    PROVE  Spare(w)'
<1>1. PICK p \in Storages : SpareAt(w, p) BY DEF Spare
<1>2. Backup(p) \in Places \ pls BY <1>1, PlaceFacts DEF SpareAt
<1>3. tree'[Backup(p)] = tree[Backup(p)] /\ from'[w] = from[w] BY <1>2 DEF Touches, params
<1>4. SpareAt(w, p)' BY <1>1, <1>3 DEF SpareAt
<1> QED BY <1>4 DEF Spare

(* Where the applications are, when none comes.                            *)
LEMMA NoneComes ==
    ASSUME NEW w, to'[w] = to[w],
           \A p \in Storages : tree'[App(p)] \in WithInfo => tree[App(p)] \in WithInfo
    PROVE  (OneOf => OneOf') /\ (Elsewhere(w) => Elsewhere(w)')
BY DEF OneOf, Elsewhere

LEMMA SameApps ==
    ASSUME NEW w, to'[w] = to[w], \A p \in Storages : tree'[App(p)] = tree[App(p)]
    PROVE  (OneOf => OneOf') /\ (Elsewhere(w) => Elsewhere(w)') /\ (HasApp => HasApp')
BY DEF OneOf, Elsewhere, HasApp

(* The only one. *)
LEMMA OneComes ==
    ASSUME NEW w, to'[w] = to[w], \A p \in Storages \ {to[w]} : tree'[App(p)] \notin WithInfo
    PROVE  OneOf' /\ Elsewhere(w)'
BY DEF OneOf, Elsewhere

LEMMA SafeFacts ==
    ASSUME NEW w, Recoverable(w), SafeInv(w)
    PROVE  /\ Lone(w) /\ TypeInv /\ Based(w) /\ Renames(w) /\ (Spare(w) \/ Sole(w))
           /\ w \in Workers /\ TypeOK /\ FsTypeOK
<1>1. Lone(w) /\ TypeInv /\ Based(w) /\ Renames(w) /\ (Spare(w) \/ Sole(w))
  BY DEF Recoverable, SafeInv, Safe
<1> QED BY <1>1, LoneFacts

(* Steps of the kinds and stages that leave the directories alone.         *)
LEMMA CheckSafe ==
    ASSUME NEW w, Recoverable(w), SafeInv(w), UNCHANGED params, Check(w)
    PROVE  Safe(w)'
<1>0. /\ Lone(w) /\ TypeInv /\ Based(w) /\ w \in Workers /\ TypeOK /\ FsTypeOK
      /\ Spare(w) \/ Sole(w)
      /\ pc[w] = "check" /\ UNCHANGED tree
      /\ kind[w] \in {"install", "update", "uninstall", "symlinks", "farm"}
  BY SafeFacts, LoneFacts DEF Check, fsVars
<1>1. kind'[w] = kind[w] /\ to'[w] = to[w] /\ from'[w] = from[w] /\ force'[w] = force[w]
  BY DEF params
<1>2. ~Holds(w) BY <1>0, HoldsWhen DEF Unpacking, Linking
<1>3. Touches({}) BY <1>0 DEF Touches
<1>4. Spare(w) /\ ~Holds(w)' => Spare(w)' BY <1>0, <1>3, StillSpare
<1>5. Sole(w) => OneOf' /\ (owned => HasApp') BY <1>0, <1>1, <1>2, SameApps DEF Sole
<1>6. ASSUME NEW r, Finish(w, r), r # "ok" PROVE Safe(w)'
  <2>1. pc'[w] = "idle" /\ (owned' => owned) BY <1>0, <1>6, Turns
  <2>2. ~Holds(w)' BY <2>1, HoldsWhen DEF Unpacking, Linking
  <2> QED BY <1>0, <1>4, <1>5, <2>1, <2>2, RestSafe
<1>7. ASSUME Proceeds(w), pc'[w] = FirstStep(w), owned' = (owned /\ kind[w] # "uninstall")
      PROVE  Safe(w)'
  <2>1. pc'[w] \in {"extract", "unlink", "linkbin", "farm"} /\ (pc'[w] = "extract" <=> kind[w] = "install")
        /\ (pc'[w] = "linkbin" => kind[w] = "symlinks") /\ (pc'[w] = "farm" => kind[w] = "farm")
    BY <1>0, <1>7 DEF FirstStep
  <2>2. ~Holds(w)' BY <1>1, <2>1, HoldsWhen DEF Unpacking, Linking
  <2>3. Renames(w)' BY <2>1 DEF Renames
  <2>4. ASSUME Sole(w) PROVE Sole(w)'
    <3>0. OneOf' /\ (owned' => HasApp') BY <1>5, <1>7, <2>4
    <3>1. CASE kind[w] = "install"
      <4>1. Elsewhere(w) /\ ~force[w] BY <1>0, <2>4, <3>1 DEF Sole, SoleInstall
      <4>2. to[w] \in Storages /\ tree[App(to[w])] \notin WithInfo
        BY <1>0, <1>7, <3>1, LoneFacts, Lookups DEF Proceeds, InstallProceeds
      <4>3. ~HasApp BY <4>1, <4>2, Kinships DEF HasApp, Elsewhere, WithInfo
      <4>4. ~owned BY <1>2, <2>4, <4>3 DEF Sole
      <4>5. Elsewhere(w)' BY <1>0, <1>1, <4>1, SameApps
      <4>6. SoleInstall(w)' BY <1>1, <1>7, <2>1, <3>1, <4>1, <4>4, <4>5 DEF SoleInstall, Linking
      <4> QED BY <1>1, <3>0, <3>1, <4>6 DEF Sole, SoleUpdate
    <3>2. CASE kind[w] = "update"
      <4>1. SoleUpdate(w)' BY <1>0, <1>1, <2>1, <2>2, <3>2 DEF SoleUpdate, Unpacking
      <4> QED BY <1>1, <3>0, <3>2, <4>1 DEF Sole, SoleInstall
    <3>3. CASE kind[w] \in {"uninstall", "symlinks", "farm"}
      BY <1>1, <1>7, <3>0, <3>3 DEF Sole, SoleInstall, SoleUpdate
    <3> QED BY <1>0, <3>1, <3>2, <3>3
  <2> QED BY <1>0, <1>4, <2>2, <2>3, <2>4 DEF Safe
<1>8. CASE /\ Proceeds(w) /\ pc' = [pc EXCEPT ![w] = FirstStep(w)]
           /\ owned' = (owned /\ kind[w] # "uninstall")
  BY <1>0, <1>7, <1>8 DEF TypeOK
<1>9. Refused(w) # "ok" BY DEF Refused
<1> QED BY <1>6, <1>8, <1>9 DEF Check

LEMMA UnlinkSafe ==
    ASSUME NEW w, Recoverable(w), SafeInv(w), UNCHANGED params, Unlink(w)
    PROVE  Safe(w)'
<1>0. /\ Lone(w) /\ TypeInv /\ Based(w) /\ w \in Workers /\ TypeOK /\ FsTypeOK
      /\ Spare(w) \/ Sole(w)
      /\ pc[w] = "unlink" /\ UNCHANGED tree /\ StageIn(kind[w], phase[w], pc[w])
  BY SafeFacts, LoneFacts DEF Unlink
<1>1. kind'[w] = kind[w] /\ to'[w] = to[w] /\ from'[w] = from[w] /\ force'[w] = force[w]
  BY DEF params
<1>2. ~Holds(w) BY <1>0, HoldsWhen DEF Unpacking, Linking
<1>3. kind[w] \in {"install", "update", "uninstall", "symlinks"}
  BY <1>0, LoneFacts DEF StageIn, Unpacking, Linking
<1>4. pc'[w] = AfterUnlink[kind[w]] /\ phase'[w] = phase[w] /\ (owned' => owned)
  BY <1>0, Turns DEF Unlink
<1>5. pc'[w] = CASE kind[w] \in {"install", "uninstall"} -> "remove" [] kind[w] = "update" -> "backup"
                 [] OTHER -> "linkbin"
  BY <1>3, <1>4 DEF AfterUnlink
<1>6. ~Holds(w)' BY <1>1, <1>3, <1>5, HoldsWhen DEF Unpacking, Linking
<1>7. Touches({}) BY <1>0 DEF Touches
<1>8. Spare(w) => Spare(w)' BY <1>0, <1>6, <1>7, StillSpare
<1>9. Renames(w)' BY <1>3, <1>5 DEF Renames
<1>10. ASSUME Sole(w) PROVE Sole(w)'
  <2>1. OneOf' /\ (Elsewhere(w) => Elsewhere(w)') /\ (owned' => HasApp')
    BY <1>0, <1>1, <1>2, <1>4, <1>10, SameApps DEF Sole
  <2>2. CASE kind[w] = "install"
    <3>1. SoleInstall(w)'
      BY <1>0, <1>1, <1>4, <1>5, <1>10, <2>1, <2>2 DEF Sole, SoleInstall, Linking
    <3> QED BY <1>1, <2>1, <2>2, <3>1 DEF Sole, SoleUpdate
  <2>3. CASE kind[w] = "update"
    <3>1. SoleUpdate(w)'
      BY <1>0, <1>1, <1>5, <1>6, <1>10, <2>3 DEF Sole, SoleUpdate, Unpacking
    <3> QED BY <1>1, <2>1, <2>3, <3>1 DEF Sole, SoleInstall
  <2>4. CASE kind[w] = "uninstall"
    BY <1>0, <1>1, <1>4, <1>10, <2>1, <2>4 DEF Sole, SoleInstall, SoleUpdate
  <2>5. CASE kind[w] = "symlinks" BY <1>1, <2>1, <2>5 DEF Sole, SoleInstall, SoleUpdate
  <2> QED BY <1>3, <2>2, <2>3, <2>4, <2>5
<1> QED BY <1>0, <1>8, <1>9, <1>10 DEF Safe

LEMMA BackupSafe ==
    ASSUME NEW w, Recoverable(w), SafeInv(w), UNCHANGED params, BackupApp(w)
    PROVE  Safe(w)'
<1> DEFINE a == App(from[w])
           b == Backup(from[w])
<1>0. /\ Lone(w) /\ TypeInv /\ Based(w) /\ w \in Workers /\ TypeOK /\ FsTypeOK
      /\ Spare(w) \/ Sole(w)
      /\ pc[w] = "backup"
  BY SafeFacts DEF BackupApp
<1>1. /\ kind'[w] = kind[w] /\ to'[w] = to[w] /\ from'[w] = from[w]
      /\ kind[w] = "update" /\ from[w] \in Storages /\ to[w] \in Storages
      /\ a \in Places /\ b \in Places /\ a # b /\ tree \in [Places -> Trees]
  BY <1>0, BackupPlaces, LoneFacts, PlaceFacts DEF params, FsTypeOK
<1>2. ~Holds(w) BY <1>0, HoldsWhen DEF Unpacking, Linking
<1>3. from[w] \notin Overlay BY <1>1 DEF Recoverable
<1>4. CASE CanRename(a, b) /\ Disturb(Renamed(a, b)) /\ Goto(w, "extract")
  <2>1. pc'[w] = "extract" /\ phase'[w] = phase[w] /\ (owned' => owned) BY <1>0, <1>4, Turns
  <2>2. /\ tree'[b] = tree[a] /\ tree'[a] = "none" /\ tree[b] = "none"
        /\ \A pl \in Places \ {a, b} : tree'[pl] = tree[pl]
    BY <1>1, <1>4 DEF Disturb, Renamed, CanRename
  <2>3. Renames(w)' BY <2>1 DEF Renames
  <2>4. Holds(w)' BY <1>1, <2>1, HoldsWhen DEF Unpacking
  <2>5. ASSUME NEW p \in Storages, SpareAt(w, p) PROVE SpareAt(w, p)'
    <3>1. p # from[w] BY <2>2, <2>5, Kinships DEF SpareAt
    <3>2. Backup(p) \in Places \ {a, b} BY <3>1, PlaceFacts
    <3> QED BY <1>1, <2>2, <2>5, <3>1, <3>2 DEF SpareAt
  <2>6. ASSUME Sole(w) PROVE Sole(w)'
    <3>1. OneOf /\ tree[a] \in WithInfo /\ (owned => HasApp)
      BY <1>0, <1>1, <1>2, <2>6 DEF Sole, Based, OldCopy
    <3>2. \A p \in Storages : tree[App(p)] \in WithInfo => p = from[w]
      BY <1>1, <3>1 DEF OneOf
    <3>3. owned => tree[a] \in Versions BY <3>1, <3>2 DEF HasApp, WithInfo
    <3>4. ASSUME NEW p \in Storages PROVE tree'[App(p)] \notin WithInfo
      <4>1. App(p) \in Places /\ App(p) # b /\ (p # from[w] => App(p) # a) BY PlaceFacts
      <4> QED BY <2>2, <3>2, <4>1, Kinships
    <3>5. OneOf' /\ Elsewhere(w)' BY <3>4 DEF OneOf, Elsewhere
    <3>6. tree'[App(to[w])] \notin WithInfo BY <1>1, <3>4
    <3>7. owned' => tree'[b] \in Versions BY <2>1, <2>2, <3>3
    <3>8. SoleUpdate(w)' BY <1>1, <2>1, <3>5, <3>6, <3>7 DEF SoleUpdate, Linking
    <3> QED BY <1>1, <2>4, <3>5, <3>7, <3>8 DEF Sole, SoleInstall
  <2> QED BY <1>0, <2>3, <2>5, <2>6 DEF Safe, Spare
<1>5. CASE UNCHANGED fsVars /\ Finish(w, "failed")
  <2>1. pc'[w] = "idle" /\ (owned' => owned) /\ UNCHANGED tree BY <1>0, <1>5, Turns DEF fsVars
  <2>2. ~Holds(w)' BY <2>1, HoldsWhen DEF Unpacking, Linking
  <2>3. Touches({}) BY <2>1 DEF Touches
  <2>4. Spare(w) => Spare(w)' BY <1>0, <2>2, <2>3, StillSpare
  <2>5. Sole(w) => OneOf' /\ (owned' => HasApp') BY <1>1, <1>2, <2>1, SameApps DEF Sole
  <2> QED BY <1>0, <2>1, <2>4, <2>5, RestSafe
<1> QED BY <1>3, <1>4, <1>5 DEF BackupApp

(* What an install or an update that unpacks the new version has done.     *)
LEMMA UnpackingSafe ==
    ASSUME NEW w, Recoverable(w), SafeInv(w), UNCHANGED params, pc[w] \in Unpacking
    PROVE  /\ kind[w] \in {"install", "update"} /\ to[w] \in Storages /\ App(to[w]) \in Places
           /\ phase[w] = "forward"
           /\ kind[w] = "update" => Holds(w) /\ from[w] \in Storages /\ Backup(from[w]) \in Places
           /\ kind[w] # "update" => ~Holds(w)'
           /\ Sole(w) => /\ OneOf /\ Elsewhere(w) /\ (kind[w] = "install" => ~owned /\ ~force[w])
                         /\ kind[w] = "update" /\ owned => tree[Backup(from[w])] \in Versions
<1>1. /\ Lone(w) /\ TypeInv /\ Based(w) /\ StageIn(kind[w], phase[w], pc[w]) /\ pc[w] # "idle"
      /\ pc[w] # "check" /\ kind'[w] = kind[w]
  BY SafeFacts, LoneFacts DEF Unpacking, params
<1>2. kind[w] \in {"install", "update"} /\ phase[w] = "forward"
  BY <1>1, LoneFacts DEF StageIn, Unpacking, Linking
<1>3. /\ to[w] \in Storages /\ App(to[w]) \in Places
      /\ kind[w] = "update" => from[w] \in Storages /\ Backup(from[w]) \in Places
  BY <1>1, <1>2, LoneFacts, PlaceFacts
<1>4. (kind[w] = "update" => Holds(w)) /\ (kind[w] # "update" => ~Holds(w)')
  BY <1>1, HoldsWhen
<1>5. Sole(w) => /\ OneOf /\ Elsewhere(w) /\ (kind[w] = "install" => ~owned /\ ~force[w])
                 /\ kind[w] = "update" /\ owned => tree[Backup(from[w])] \in Versions
  BY <1>1, <1>2, <1>4 DEF Sole, SoleInstall, SoleUpdate
<1> QED BY <1>2, <1>3, <1>4, <1>5

LEMMA UnpackOn ==
    ASSUME NEW w, Recoverable(w), SafeInv(w), UNCHANGED params,
           pc[w] \in {"extract", "extracting", "scripts"}, pc'[w] \in {"extracting", "scripts", "deploy"},
           phase'[w] = phase[w], owned' => owned, Touches({Cache}), Renames(w)'
    PROVE  Safe(w)'
<1>0. /\ FsTypeOK /\ (Spare(w) \/ Sole(w)) /\ pc[w] \in Unpacking /\ phase[w] = "forward"
      /\ kind[w] \in {"install", "update"} /\ to[w] \in Storages
      /\ kind[w] = "update" => Holds(w) /\ from[w] \in Storages
      /\ kind[w] # "update" => ~Holds(w)'
  BY SafeFacts, UnpackingSafe DEF Unpacking
<1>1. kind'[w] = kind[w] /\ to'[w] = to[w] /\ from'[w] = from[w] /\ force'[w] = force[w]
  BY DEF params
<1>2. \A p \in Storages : Backup(p) # Cache /\ App(p) # Cache /\ App(p) \in Places /\ Backup(p) \in Places
  BY PlaceFacts
<1>3. \A p \in Storages : tree'[App(p)] = tree[App(p)] /\ tree'[Backup(p)] = tree[Backup(p)]
  BY <1>2 DEF Touches
<1>4. Spare(w) => Spare(w)' BY <1>0, <1>2, StillSpare
<1>5. ASSUME Sole(w) PROVE Sole(w)'
  <2>1. OneOf' /\ Elsewhere(w)' BY <1>0, <1>1, <1>3, <1>5, SameApps, UnpackingSafe
  <2>2. CASE kind[w] = "install"
    <3>1. ~owned /\ ~force[w] BY <1>0, <1>5, <2>2, UnpackingSafe
    <3> QED BY <1>1, <2>1, <2>2, <3>1 DEF Sole, SoleInstall, SoleUpdate, Linking
  <2>3. CASE kind[w] = "update"
    <3>1. owned => tree[Backup(from[w])] \in Versions BY <1>0, <1>5, <2>3, UnpackingSafe
    <3>2. tree[App(to[w])] \notin WithInfo BY <1>5, <2>3 DEF Sole, SoleUpdate
    <3>3. owned' => tree'[Backup(from[w])] \in Versions BY <1>0, <1>3, <2>3, <3>1
    <3>4. tree'[App(to[w])] \notin WithInfo BY <1>0, <1>3, <3>2
    <3>5. SoleUpdate(w)' BY <1>1, <2>1, <3>3, <3>4 DEF SoleUpdate, Linking
    <3>6. Holds(w)' BY <1>1, <2>3, HoldsWhen DEF Unpacking
    <3> QED BY <1>1, <2>1, <2>3, <3>3, <3>5, <3>6 DEF Sole, SoleInstall
  <2> QED BY <1>0, <2>2, <2>3
<1> QED BY <1>0, <1>4, <1>5 DEF Safe

LEMMA AbandonSafe ==
    ASSUME NEW w, Recoverable(w), SafeInv(w), UNCHANGED params, pc[w] \in Unpacking, Abandon(w),
           Touches({Cache, App(to[w])}),
           \/ tree'[App(to[w])] = "none"
           \/ tree'[App(to[w])] = tree[App(to[w])] /\ pc[w] \notin {"deploycopy", "drop"}
    PROVE  Safe(w)'
<1>0. /\ w \in Workers /\ TypeOK /\ FsTypeOK /\ (Spare(w) \/ Sole(w)) /\ phase[w] = "forward"
      /\ kind[w] \in {"install", "update"} /\ to[w] \in Storages
      /\ kind[w] = "update" => Holds(w) /\ from[w] \in Storages
      /\ kind[w] # "update" => ~Holds(w)'
  BY SafeFacts, UnpackingSafe
<1>1. kind'[w] = kind[w] /\ to'[w] = to[w] /\ from'[w] = from[w] BY DEF params
<1>2. \A p \in Storages :
         /\ Backup(p) # Cache /\ App(p) # Cache /\ App(p) \in Places /\ Backup(p) \in Places
         /\ Backup(p) # App(to[w]) /\ (p # to[w] => App(p) # App(to[w]))
  BY PlaceFacts
<1>3. \A p \in Storages :
         /\ tree'[Backup(p)] = tree[Backup(p)]
         /\ p # to[w] => tree'[App(p)] = tree[App(p)]
  BY <1>2 DEF Touches
<1>4. \A p \in Storages : tree'[App(p)] \in WithInfo => tree[App(p)] \in WithInfo
  BY <1>3, Kinships
<1>5. Spare(w) => Spare(w)' BY <1>0, <1>2, StillSpare
<1>6. CASE kind[w] = "install"
  <2>1. pc'[w] = "idle" /\ (owned' => owned) BY <1>0, <1>6, Turns
  <2>2. Sole(w) => OneOf' /\ ~owned' BY <1>1, <1>4, <1>6, <2>1, NoneComes, UnpackingSafe
  <2> QED BY <1>0, <1>5, <2>1, <2>2, RestSafe
<1>7. CASE kind[w] = "update"
  <2>1. pc'[w] = "restore" /\ phase'[w] = "back" /\ (owned' => owned) BY <1>0, <1>7, Turns
  <2>2. Renames(w)' BY <2>1 DEF Renames
  <2>3. ASSUME Sole(w) PROVE Sole(w)'
    <3>1. OneOf' /\ Elsewhere(w)' BY <1>1, <1>4, <2>3, NoneComes, UnpackingSafe
    <3>2. owned => tree[Backup(from[w])] \in Versions BY <1>0, <1>7, <2>3, UnpackingSafe
    <3>3. owned' => tree'[Backup(from[w])] \in Versions BY <1>0, <1>3, <1>7, <2>1, <3>2
    <3>4. tree'[App(to[w])] \notin WithInfo
      BY <1>7, <2>3, Kinships DEF Sole, SoleUpdate, Unpacking
    <3>5. SoleUpdate(w)' BY <1>1, <2>1, <3>1, <3>3, <3>4 DEF SoleUpdate, Linking
    <3>6. Holds(w)' BY <1>1, <1>7, <2>1, HoldsWhen
    <3> QED BY <1>1, <1>7, <3>1, <3>3, <3>5, <3>6 DEF Sole, SoleInstall
  <2> QED BY <1>0, <1>5, <2>2, <2>3 DEF Safe
<1> QED BY <1>0, <1>6, <1>7

LEMMA UnpackSafe ==
    ASSUME NEW w, Recoverable(w), SafeInv(w), UNCHANGED params,
           Extract(w) \/ ExtractEnd(w) \/ Scripts(w)
    PROVE  Safe(w)'
<1>0. /\ w \in Workers /\ TypeOK /\ FsTypeOK
      /\ pc[w] \in {"extract", "extracting", "scripts"} /\ pc[w] \in Unpacking /\ Cache \in Places
  BY SafeFacts, PlaceFacts DEF Extract, ExtractEnd, Scripts, Unpacking
<1>1. App(to[w]) \in Places /\ App(to[w]) # Cache BY <1>0, UnpackingSafe, PlaceFacts
<1>2. Touches({Cache})
  <2>1. CASE Fills(Cache) \/ Disturb(Removed(Cache)) BY <1>0, <2>1, Touching
  <2>2. CASE UNCHANGED fsVars BY <2>2 DEF fsVars, Touches
  <2>3. CASE Disturb(tree) BY <2>3 DEF Disturb, Touches
  <2>4. CASE \E t \in Unpacked(w) : Disturb([tree EXCEPT ![Cache] = t]) BY <1>0, <2>4, Touching
  <2> QED BY <2>1, <2>2, <2>3, <2>4 DEF Extract, ExtractEnd, Scripts
<1>3. ASSUME Abandon(w) PROVE Safe(w)'
  <2>1. tree'[App(to[w])] = tree[App(to[w])] BY <1>1, <1>2 DEF Touches
  <2>2. Touches({Cache, App(to[w])}) BY <1>2 DEF Touches
  <2>3. pc[w] \notin {"deploycopy", "drop"} BY <1>0
  <2> QED BY <1>0, <1>3, <2>1, <2>2, <2>3, AbandonSafe
<1>4. ASSUME NEW s \in {"extracting", "scripts", "deploy"}, Goto(w, s) PROVE Safe(w)'
  <2>1. pc'[w] = s /\ phase'[w] = phase[w] /\ (owned' => owned) BY <1>0, <1>4, Turns
  <2>2. Renames(w)' BY <1>4, <2>1 DEF Renames
  <2> QED BY <1>0, <1>2, <1>4, <2>1, <2>2, UnpackOn
<1> QED BY <1>3, <1>4 DEF Extract, ExtractEnd, Scripts

(* The new copy is at its target, whole or still being copied: there is no *)
(* other.                                                                  *)
LEMMA DeploySafe ==
    ASSUME NEW w, Recoverable(w), SafeInv(w), UNCHANGED params, Deploy(w) \/ DeployCopy(w) \/ DeployDrop(w)
    PROVE  Safe(w)'
<1> DEFINE d == App(to[w])
<1>0. /\ w \in Workers /\ TypeOK /\ FsTypeOK /\ Lone(w) /\ TypeInv /\ (Spare(w) \/ Sole(w))
      /\ pc[w] \in {"deploy", "deploycopy", "drop"} /\ pc[w] \in Unpacking
      /\ tree \in [Places -> Trees]
  BY SafeFacts DEF Deploy, DeployCopy, DeployDrop, DropSource, Unpacking, FsTypeOK
<1>1. /\ kind[w] \in {"install", "update"} /\ to[w] \in Storages /\ phase[w] = "forward"
      /\ d \in Places /\ Cache \in Places /\ d # Cache
      /\ kind[w] = "update" => Holds(w) /\ from[w] \in Storages
      /\ kind[w] # "update" => ~Holds(w)'
      /\ Source(w) = Cache /\ AfterDeploy(w) = "linkbin" /\ Resolve(to[w]) = d
  BY <1>0, UnpackingSafe, PlaceFacts, Lookups DEF Source, AfterDeploy
<1>2. /\ kind'[w] = kind[w] /\ to'[w] = to[w] /\ from'[w] = from[w] /\ force'[w] = force[w]
  BY DEF params
<1>3. ASSUME Disturb(DeployFailed(Cache, to[w])), Abandon(w) PROVE Safe(w)'
  <2>1. Touches({Cache, d}) BY <1>0, <1>1, <1>3, Touching
  <2>2. tree'[d] = "none" BY <1>0, <1>1, <1>3 DEF Disturb, DeployFailed
  <2> QED BY <1>0, <1>3, <2>1, <2>2, AbandonSafe
<1>4. ASSUME NEW s \in {"deploycopy", "drop", "linkbin"}, Goto(w, s), Touches({Cache, d})
      PROVE  Safe(w)'
  <2>1. pc'[w] = s /\ phase'[w] = "forward" /\ (owned' => owned) BY <1>0, <1>1, <1>4, Turns
  <2>2. Renames(w)' BY <1>4, <2>1 DEF Renames
  <2>3. kind[w] = "update" => Holds(w)' BY <1>2, <1>4, <2>1, HoldsWhen DEF Unpacking, Linking
  <2>4. \A p \in Storages :
           /\ Backup(p) # Cache /\ App(p) # Cache /\ App(p) \in Places /\ Backup(p) \in Places
           /\ Backup(p) # d /\ (p # to[w] => App(p) # d)
    BY PlaceFacts
  <2>5. \A p \in Storages :
           /\ tree'[Backup(p)] = tree[Backup(p)]
           /\ p # to[w] => tree'[App(p)] = tree[App(p)]
    BY <1>4, <2>4 DEF Touches
  <2>6. Spare(w) => Spare(w)' BY <1>0, <1>1, <1>4, <2>4, StillSpare
  <2>7. ASSUME Sole(w) PROVE Sole(w)'
    <3>1. \A p \in Storages \ {to[w]} : tree'[App(p)] \notin WithInfo
      BY <1>0, <2>5, <2>7, UnpackingSafe DEF Elsewhere
    <3>2. OneOf' /\ Elsewhere(w)' BY <1>2, <3>1, OneComes
    <3>3. CASE kind[w] = "install"
      <4>1. ~owned /\ ~force[w] BY <1>0, <2>7, <3>3, UnpackingSafe
      <4>2. SoleInstall(w)' BY <1>2, <1>4, <2>1, <3>2, <4>1 DEF SoleInstall, Linking
      <4> QED BY <1>2, <2>1, <3>2, <3>3, <4>1, <4>2 DEF Sole, SoleUpdate
    <3>4. CASE kind[w] = "update"
      <4>1. owned => tree[Backup(from[w])] \in Versions BY <1>0, <2>7, <3>4, UnpackingSafe
      <4>2. owned' => tree'[Backup(from[w])] \in Versions BY <1>1, <2>1, <2>5, <3>4, <4>1
      <4>3. SoleUpdate(w)' BY <1>2, <1>4, <2>1, <3>2, <4>2 DEF SoleUpdate, Linking, Unpacking
      <4> QED BY <1>2, <2>3, <3>2, <3>4, <4>2, <4>3 DEF Sole, SoleInstall
    <3> QED BY <1>1, <3>3, <3>4
  <2> QED BY <1>0, <2>2, <2>6, <2>7 DEF Safe
<1>5. Touches({Cache, d})
  <2>1. CASE Disturb(Renamed(Cache, d)) BY <1>0, <1>1, <2>1, Touching
  <2>2. CASE Disturb(Copied(Cache, d)) BY <1>0, <1>1, <2>2, Touching DEF Touches
  <2>3. CASE Disturb(DeployFailed(Cache, to[w])) BY <1>0, <1>1, <2>3, Touching
  <2>4. CASE Fills(d) BY <1>0, <1>1, <2>4, Touching DEF Touches
  <2>5. CASE DeployDrop(w) BY <1>0, <1>1, <2>5, DropTouches DEF DeployDrop, Touches
  <2> QED BY <1>1, <2>1, <2>2, <2>3, <2>4, <2>5 DEF Deploy, DeployCopy
<1>6. CASE Deploy(w)
  <2>1. \/ Goto(w, "drop") \/ Goto(w, "deploycopy")
        \/ Disturb(DeployFailed(Cache, to[w])) /\ Abandon(w)
    BY <1>1, <1>6 DEF Deploy
  <2> QED BY <1>3, <1>4, <1>5, <2>1
<1>7. CASE DeployCopy(w)
  <2>1. Goto(w, "drop") \/ (Disturb(DeployFailed(Cache, to[w])) /\ Abandon(w))
    BY <1>1, <1>7 DEF DeployCopy
  <2> QED BY <1>3, <1>4, <1>5, <2>1
<1>8. CASE DeployDrop(w)
  <2>1. Goto(w, "drop") \/ Goto(w, "linkbin") BY <1>1, <1>8 DEF DeployDrop, DropSource
  <2> QED BY <1>4, <1>5, <2>1
<1> QED BY <1>6, <1>7, <1>8

LEMMA LinkTurnSafe ==
    ASSUME NEW w, Recoverable(w), SafeInv(w), UNCHANGED params, pc[w] \in Linking, UNCHANGED tree,
           \/ (\E s \in {"linksys", "linkapp"} : Goto(w, s)) \/ PassOver(w)
           \/ LinkFailed(w) /\ (kind[w] = "update" /\ phase[w] = "forward" => ~Sole(w))
           \/ LinkedUp(w)
           \/ Finish(w, "failed") /\ kind[w] # "farm"
    PROVE  Safe(w)'
<1>0. /\ Lone(w) /\ TypeInv /\ Based(w) /\ w \in Workers /\ TypeOK /\ FsTypeOK
      /\ Spare(w) \/ Sole(w)
      /\ StageIn(kind[w], phase[w], pc[w]) /\ phase[w] \in Phases
  BY SafeFacts, LoneFacts
<1>1. /\ kind'[w] = kind[w] /\ to'[w] = to[w] /\ from'[w] = from[w] /\ force'[w] = force[w]
      /\ kind[w] \in {"install", "update", "symlinks", "farm"}
      /\ phase[w] \in {"forward", "back"} /\ (kind[w] # "update" => phase[w] = "forward")
      /\ kind[w] = "install" => to[w] \in Storages
      /\ kind[w] = "update" => to[w] \in Storages /\ from[w] \in Storages
  BY <1>0, LoneFacts DEF StageIn, Unpacking, Linking, Phases, params
<1>2. Holds(w) <=> kind[w] = "update" /\ phase[w] = "forward"
  BY HoldsWhen DEF Unpacking, Linking
<1>3. Touches({}) BY DEF Touches
<1>4. Spare(w) /\ (Holds(w)' => Holds(w)) => Spare(w)' BY <1>0, <1>3, StillSpare
<1>5. Sole(w) => OneOf' /\ (Elsewhere(w) => Elsewhere(w)') /\ (HasApp => HasApp')
  BY <1>1, SameApps DEF Sole
<1>6. Sole(w) /\ kind[w] = "install" => HasApp /\ Elsewhere(w) /\ ~owned /\ ~force[w]
  <2>1. kind[w] = "install" => tree[App(to[w])] \in Versions BY <1>0, <1>1 DEF Based, NewCopy
  <2> QED BY <1>1, <2>1 DEF Sole, SoleInstall, HasApp, Linking
<1>7. Sole(w) /\ Holds(w) => HasApp /\ Elsewhere(w) /\ tree[App(to[w])] \in Versions
  <2>1. Holds(w) => tree[App(to[w])] \in Versions BY <1>0, <1>2 DEF Based, NewCopy
  <2> QED BY <1>1, <1>2, <2>1 DEF Sole, SoleUpdate, HasApp
<1>8. Sole(w) /\ owned => HasApp BY <1>7 DEF Sole
<1>9. ASSUME pc'[w] \in {"idle", "farm"}, pc'[w] = "farm" => kind[w] = "farm",
             owned' => owned \/ (kind[w] = "install" \/ Holds(w))
      PROVE  Safe(w)'
  <2>1. ~Holds(w)' BY <1>9, HoldsWhen DEF Unpacking, Linking
  <2>2. Spare(w) => Spare(w)' BY <1>4, <2>1
  <2>3. Sole(w) => OneOf' /\ (owned' => HasApp') BY <1>5, <1>6, <1>7, <1>8, <1>9
  <2> QED BY <1>0, <1>1, <1>9, <2>2, <2>3, RestSafe
<1>10. ASSUME NEW s \in {"linksys", "linkapp"}, Goto(w, s) \/ (s = "linksys" /\ PassOver(w))
       PROVE  Safe(w)'
  <2>1. pc'[w] = s /\ phase'[w] = phase[w] /\ (owned' => owned) BY <1>0, <1>10, Turns
  <2>2. Renames(w)' BY <2>1 DEF Renames
  <2>3. Holds(w)' <=> Holds(w) BY <1>1, <1>2, <2>1, HoldsWhen DEF Unpacking, Linking
  <2>4. ASSUME Sole(w) PROVE Sole(w)'
    <3>1. OneOf' /\ (owned' => HasApp') BY <1>5, <1>8, <2>1, <2>4
    <3>2. SoleInstall(w)'
      BY <1>1, <1>5, <1>6, <2>1, <2>4 DEF Sole, SoleInstall
    <3>3. SoleUpdate(w)'
      BY <1>1, <1>5, <1>7, <1>10, <2>1, <2>3, <2>4 DEF SoleUpdate, Unpacking
    <3> QED BY <1>1, <3>1, <3>2, <3>3 DEF Sole
  <2> QED BY <1>0, <1>4, <2>2, <2>3, <2>4 DEF Safe
<1>11. ASSUME LinkFailed(w), kind[w] = "update" /\ phase[w] = "forward" => ~Sole(w)
       PROVE  Safe(w)'
  <2>1. CASE kind[w] = "farm"
    <3>1. pc'[w] = "farm" BY <1>0, <1>11, <2>1, Lands
    <3>2. owned' => owned BY <1>11, <2>1 DEF LinkFailed, NextPlace
    <3> QED BY <1>9, <2>1, <3>1, <3>2
  <2>2. CASE Finish(w, "failed") /\ kind[w] # "farm"
    <3>1. pc'[w] = "idle" /\ (owned' => owned) BY <1>0, <2>2, Turns
    <3> QED BY <1>9, <3>1
  <2>3. CASE kind[w] = "install" /\ GoBack(w, "unlink")
    <3>1. pc'[w] = "unlink" /\ phase'[w] = "back" /\ (owned' => owned) BY <1>0, <2>3, Turns
    <3>2. ~Holds(w)' BY <1>1, <2>3, HoldsWhen
    <3>3. Renames(w)' BY <3>1 DEF Renames
    <3>4. ASSUME Sole(w) PROVE Sole(w)'
      <4>1. OneOf' /\ Elsewhere(w)' /\ ~owned /\ ~force[w] BY <1>5, <1>6, <2>3, <3>4
      <4> QED BY <1>1, <2>3, <3>1, <4>1 DEF Sole, SoleInstall, SoleUpdate, Linking
    <3> QED BY <1>0, <1>4, <3>2, <3>3, <3>4 DEF Safe
  <2>4. CASE kind[w] = "update" /\ phase[w] = "forward" /\ GoBack(w, "restore")
    <3>1. pc'[w] = "restore" BY <1>0, <2>4, Turns
    <3>2. Renames(w)' BY <3>1 DEF Renames
    <3> QED BY <1>0, <1>2, <1>4, <1>11, <2>4, <3>2 DEF Safe
  <2>5. \/ Finish(w, "failed") /\ kind[w] # "farm"
        \/ kind[w] = "install" /\ GoBack(w, "unlink")
        \/ kind[w] = "update" /\ phase[w] = "forward" /\ GoBack(w, "restore")
        \/ kind[w] = "farm"
    BY <1>1, <1>11 DEF LinkFailed
  <2> QED BY <2>1, <2>2, <2>3, <2>4, <2>5
<1>12. ASSUME LinkedUp(w) PROVE Safe(w)'
  <2>1. CASE kind[w] = "farm"
    <3>1. pc'[w] = "farm" BY <1>0, <1>12, <2>1, Lands
    <3>2. owned' => owned BY <1>12, <2>1 DEF LinkedUp, NextPlace
    <3> QED BY <1>9, <2>1, <3>1, <3>2
  <2>2. CASE Finish(w, "failed") /\ kind[w] # "farm"
    <3>1. pc'[w] = "idle" /\ (owned' => owned) BY <1>0, <2>2, Turns
    <3> QED BY <1>9, <3>1
  <2>3. CASE Finish(w, "ok") /\ kind[w] \in {"install", "symlinks"}
    <3>1. pc'[w] = "idle" /\ (owned' => owned \/ kind[w] = "install") BY <1>0, <2>3, Turns
    <3> QED BY <1>9, <3>1
  <2>4. CASE kind[w] = "update" /\ phase[w] = "forward" /\ Goto(w, "remove")
    <3>1. pc'[w] = "remove" /\ phase'[w] = "forward" /\ (owned' => owned) BY <1>0, <2>4, Turns
    <3>2. Renames(w)' BY <3>1 DEF Renames
    <3>3. ASSUME Sole(w) PROVE Sole(w)'
      <4>1. /\ OneOf' /\ Elsewhere(w)' /\ (owned' => HasApp')
            /\ tree'[App(to[w])] \in Versions
        BY <1>2, <1>5, <1>7, <1>8, <2>4, <3>1, <3>3
      <4>2. SoleUpdate(w)' BY <1>1, <3>1, <4>1 DEF SoleUpdate, Unpacking
      <4> QED BY <1>1, <2>4, <4>1, <4>2 DEF Sole, SoleInstall
    <3> QED BY <1>0, <1>2, <1>4, <2>4, <3>2, <3>3 DEF Safe
  <2>5. \/ Finish(w, "failed") /\ kind[w] # "farm"
        \/ Finish(w, "ok") /\ kind[w] \in {"install", "symlinks"}
        \/ kind[w] = "update" /\ phase[w] = "forward" /\ Goto(w, "remove")
        \/ kind[w] = "farm"
    BY <1>1, <1>12 DEF LinkedUp
  <2> QED BY <2>1, <2>2, <2>3, <2>4, <2>5
<1>13. ASSUME Finish(w, "failed") PROVE Safe(w)'
  <2>1. pc'[w] = "idle" /\ (owned' => owned) BY <1>0, <1>13, Turns
  <2> QED BY <1>9, <2>1
<1> QED BY <1>10, <1>11, <1>12, <1>13

(* An update, whose new copy is whole, makes its links.                    *)
LEMMA LinksSafe ==
    ASSUME NEW w, Recoverable(w), SafeInv(w), UNCHANGED params,
           LinkBin(w) \/ LinkSys(w) \/ LinkAppStep(w)
    PROVE  Safe(w)'
<1>1. pc[w] \in Linking /\ UNCHANGED tree
  BY DEF LinkBin, LinkSys, LinkAppStep, Linking, fsVars
<1>2. ASSUME NEW s \in Linking, Fault(w, s) PROVE kind[w] # "update"
  BY <1>2 DEF Fault, Recoverable
<1>3. "linkbin" \in Linking /\ "linksys" \in Linking /\ "linkapp" \in Linking BY DEF Linking
<1>4. ASSUME kind[w] = "update", phase[w] = "forward"
      PROVE  Exports(tree[Target(LinkPlace(w))]) = {LinkNames}
  <2>1. tree[App(to[w])] \in Versions BY <1>1, <1>4, SafeFacts DEF Based, NewCopy
  <2>2. to[w] \in Storages /\ FsTypeOK /\ to[w] # NoPrefix
    BY <1>4, SafeFacts, LoneFacts, PrefixAssumption DEF Prefixes
  <2>3. LinkPlace(w) = App(to[w]) BY <1>4, <2>2 DEF LinkPlace
  <2>4. Target(App(to[w])) = App(to[w]) BY <2>2, Lookups
  <2>5. Target(LinkPlace(w)) = App(to[w]) BY <2>3, <2>4
  <2>6. tree[App(to[w])] \in Whole BY <2>1, Kinships
  <2>7. Exports(tree[App(to[w])]) = {LinkNames} BY <2>6, FilesOf
  <2> QED BY <2>5, <2>7
<1>5. CASE LinkBin(w)
  <2>1. ASSUME kind[w] = "update", phase[w] = "forward" PROVE Goto(w, "linksys")
    <3>1. ~Fault(w, "linkbin") BY <1>2, <1>3, <2>1
    <3> QED BY <1>4, <1>5, <2>1, <3>1 DEF LinkBin, LinkNames
  <2>2. Goto(w, "linksys") \/ PassOver(w) \/ LinkFailed(w) BY <1>5 DEF LinkBin
  <2> QED BY <1>1, <2>1, <2>2, LinkTurnSafe
<1>6. CASE LinkSys(w)
  <2>1. Goto(w, "linkapp") \/ (LinkFailed(w) /\ kind[w] # "update")
    BY <1>2, <1>3, <1>6 DEF LinkSys
  <2> QED BY <1>1, <2>1, LinkTurnSafe
<1>7. CASE LinkAppStep(w)
  <2>1. \/ LinkedUp(w) \/ (kind[w] # "farm" /\ Finish(w, "failed"))
        \/ LinkFailed(w) /\ kind[w] # "update"
    BY <1>2, <1>3, <1>7 DEF LinkAppStep
  <2> QED BY <1>1, <2>1, LinkTurnSafe
<1> QED BY <1>5, <1>6, <1>7

LEMMA RestoreSafe ==
    ASSUME NEW w, Recoverable(w), SafeInv(w), UNCHANGED params, RestoreApp(w)
    PROVE  Safe(w)'
<1> DEFINE a == App(from[w])
           b == Backup(from[w])
<1>0. /\ Lone(w) /\ TypeInv /\ Based(w) /\ w \in Workers /\ TypeOK /\ FsTypeOK
      /\ Spare(w) \/ Sole(w)
      /\ pc[w] = "restore"
  BY SafeFacts DEF RestoreApp
<1>1. /\ kind'[w] = kind[w] /\ to'[w] = to[w] /\ from'[w] = from[w]
      /\ kind[w] = "update" /\ phase[w] = "back" /\ from[w] \in Storages /\ to[w] \in Storages
      /\ a \in Places /\ b \in Places /\ a # b /\ tree \in [Places -> Trees]
  BY <1>0, BackupPlaces, LoneFacts, PlaceFacts DEF params, FsTypeOK
<1>2. Holds(w) BY <1>0, <1>1, HoldsWhen
<1>3. Sole(w) =>
         /\ OneOf /\ \A p \in Storages : tree[App(p)] \notin WithInfo
         /\ owned => tree[b] \in Versions
  BY <1>0, <1>1, <1>2 DEF Sole, SoleUpdate, Elsewhere
<1>4. CASE Disturb(Renamed(b, a)) /\ Goto(w, "linkbin")
  <2>1. pc'[w] = "linkbin" /\ phase'[w] = "back" /\ (owned' => owned) BY <1>0, <1>1, <1>4, Turns
  <2>2. ~Holds(w)' BY <2>1, HoldsWhen DEF Unpacking
  <2>3. tree'[a] = tree[b] /\ Touches({a, b}) BY <1>0, <1>1, <1>4, Touching DEF Disturb, Renamed
  <2>4. \A p \in Storages :
           /\ App(p) \in Places /\ Backup(p) # a /\ (Backup(p) = b => p = from[w])
           /\ App(p) # b /\ (p # from[w] => App(p) # a)
    BY PlaceFacts
  <2>5. Spare(w) => Spare(w)' BY <1>0, <1>2, <2>2, <2>3, <2>4, StillSpare
  <2>6. ASSUME Sole(w) PROVE Sole(w)'
    <3>1. \A p \in Storages : tree'[App(p)] \in WithInfo => p = from[w]
      BY <1>3, <2>3, <2>4, <2>6 DEF Touches
    <3>2. OneOf' BY <3>1 DEF OneOf
    <3>3. owned' => HasApp' BY <1>1, <1>3, <2>1, <2>3, <2>6 DEF HasApp
    <3>4. SoleUpdate(w)' BY <2>1, <2>2 DEF SoleUpdate, Unpacking
    <3> QED BY <1>1, <3>2, <3>3, <3>4 DEF Sole, SoleInstall
  <2>7. Renames(w)' BY <2>1 DEF Renames
  <2> QED BY <1>0, <2>5, <2>6, <2>7 DEF Safe
<1>5. CASE UNCHANGED fsVars /\ Finish(w, "failed")
  <2>1. pc'[w] = "idle" /\ (owned' => owned) /\ UNCHANGED tree BY <1>0, <1>5, Turns DEF fsVars
  <2>2. ~Holds(w)' BY <2>1, HoldsWhen DEF Unpacking, Linking
  <2>3. Touches({}) BY <2>1 DEF Touches
  <2>4. Spare(w) => Spare(w)' BY <1>0, <2>2, <2>3, StillSpare
  <2>5. Sole(w) => OneOf' BY <1>1, <1>3, <2>1, SameApps
  <2>6. Sole(w) /\ owned => Spare(w)' BY <1>1, <1>3, <2>1, <2>2 DEF Spare, SpareAt
  <2> QED BY <1>0, <2>1, <2>4, <2>5, <2>6, RestSafe
<1> QED BY <1>4, <1>5 DEF RestoreApp

(* A removal leaves no directory the .info that had none.                  *)
LEMMA GutsLess ==
    ASSUME FsTypeOK, NEW pl \in Places, NEW ql \in Places,
           UNCHANGED fsVars \/ (tree[pl] # "none" /\ Guts(pl)) \/ Disturb(Removed(pl))
    PROVE  Touches({pl}) /\ (tree'[ql] \in WithInfo => tree[ql] \in WithInfo)
<1>1. Touches({pl}) BY Touching DEF fsVars, Touches
<1>2. CASE ql # pl BY <1>1, <1>2 DEF Touches
<1>3. CASE ql = pl
  <2>1. UNCHANGED fsVars => tree'[ql] = tree[ql] BY DEF fsVars
  <2>2. Disturb(Removed(pl)) => tree'[pl] = "none" BY DEF Disturb, Removed, FsTypeOK
  <2>3. tree[pl] # "none" /\ Guts(pl) => tree'[pl] \in Remains(tree[pl]) BY DEF Guts, Gutted, FsTypeOK
  <2>4. tree[pl] = "part" => Remains(tree[pl]) = {"part"} BY DEF Remains
  <2>5. tree[pl] \in {"none", "part"} \cup WithInfo BY Kinships DEF FsTypeOK
  <2>6. "none" \notin WithInfo /\ "part" \notin WithInfo BY Kinships
  <2>7. CASE tree[pl] \in WithInfo BY <1>1, <1>3, <2>7
  <2>8. CASE tree[pl] = "none" BY <1>1, <1>3, <2>1, <2>2, <2>6, <2>8
  <2>9. CASE tree[pl] = "part" BY <1>1, <1>3, <2>1, <2>2, <2>3, <2>4, <2>6, <2>9
  <2> QED BY <2>5, <2>7, <2>8, <2>9
<1> QED BY <1>1, <1>2, <1>3

LEMMA RemoveSafe ==
    ASSUME NEW w, Recoverable(w), SafeInv(w), UNCHANGED params, Remove(w) \/ Removing(w)
    PROVE  Safe(w)'
<1>0. /\ Lone(w) /\ TypeInv /\ Based(w) /\ w \in Workers /\ TypeOK /\ FsTypeOK
      /\ Spare(w) \/ Sole(w)
      /\ pc[w] \in {"remove", "removing"} /\ ParamsOK(w)
      /\ StageIn(kind[w], phase[w], pc[w])
  BY SafeFacts, LoneFacts DEF Remove, Removing
<1>1. /\ kind'[w] = kind[w] /\ to'[w] = to[w] /\ from'[w] = from[w] /\ force'[w] = force[w]
      /\ kind[w] \in {"install", "update", "uninstall"}
      /\ kind[w] = "update" => to[w] \in Storages /\ from[w] \in Storages
      /\ kind[w] = "install" => to[w] \in Storages
      /\ kind[w] = "uninstall" => from[w] \in Storages \cup {NoPrefix}
      /\ ~Nothing(w) /\ kind[w] = "uninstall" => from[w] \in Storages
      /\ pc[w] = "removing" => ~Nothing(w)
  BY <1>0, LoneFacts DEF StageIn, Unpacking, Linking, params, Nothing, ParamsOK
<1>2. \/ \E r \in {"ok", "failed"} :
            Finish(w, r) /\ (r = "ok" /\ kind[w] = "install" => force[w])
      \/ ~Nothing(w) /\ Goto(w, "removing")
  BY <1>1 DEF Remove, Removing, Removal, RemovalFailed, Nothing
<1>3. \/ pc'[w] = "idle"
         /\ (owned' => owned \/ kind[w] = "update" \/ (kind[w] = "install" /\ force[w]))
      \/ pc'[w] = "removing" /\ (owned' => owned)
  BY <1>0, <1>2, Turns
<1>4. \/ UNCHANGED fsVars
      \/ /\ ~Nothing(w)
         /\ (tree[Doomed(w)] # "none" /\ Guts(Doomed(w))) \/ Disturb(Removed(Doomed(w)))
  BY <1>1 DEF Remove, Removing
<1>5. Holds(w) <=> kind[w] = "update" BY <1>0, HoldsWhen
<1>6. Holds(w)' => Holds(w) BY <1>1, <1>5, HoldsWhen
<1>7. Renames(w)' BY <1>3 DEF Renames
<1>8. CASE kind[w] \in {"install", "uninstall"}
  <2>1. Sole(w) => ~owned /\ OneOf /\ (kind[w] = "install" => Elsewhere(w) /\ ~force[w])
    BY <1>0, <1>1, <1>8 DEF Sole, SoleInstall
  <2>2. \E p \in Storages : Touches({App(p)})
        /\ \A q \in Storages : tree'[App(q)] \in WithInfo => tree[App(q)] \in WithInfo
    <3>1. CASE UNCHANGED fsVars
      <4>1. PICK p : p \in Storages BY PrimaryAssumption
      <4> QED BY <3>1, <4>1 DEF fsVars, Touches
    <3>2. CASE ~UNCHANGED fsVars
      <4>1. \E p \in Storages : Doomed(w) = App(p)
        BY <1>0, <1>1, <1>4, <1>8, <3>2, Lookups DEF Doomed
      <4>2. PICK p \in Storages : Doomed(w) = App(p) BY <4>1
      <4>3. \A q \in Storages : App(q) \in Places BY PlaceFacts
      <4> QED BY <1>0, <1>4, <3>2, <4>2, <4>3, GutsLess
    <3> QED BY <3>1, <3>2
  <2>3. PICK p \in Storages : Touches({App(p)})
        /\ \A q \in Storages : tree'[App(q)] \in WithInfo => tree[App(q)] \in WithInfo
    BY <2>2
  <2>4. \A q \in Storages : Backup(q) # App(p) BY PlaceFacts
  <2>5. Spare(w) => Spare(w)' BY <1>0, <1>6, <2>3, <2>4, StillSpare
  <2>6. Sole(w) => OneOf' /\ ~owned' /\ (kind[w] = "install" => Elsewhere(w)')
    BY <1>1, <1>3, <1>8, <2>1, <2>3, NoneComes
  <2>7. Sole(w) => Sole(w)'
    BY <1>1, <1>3, <1>8, <2>1, <2>6 DEF Sole, SoleInstall, SoleUpdate, Linking
  <2> QED BY <1>0, <1>7, <2>5, <2>7 DEF Safe
<1>9. CASE kind[w] = "update"
  <2>1. Doomed(w) = Backup(from[w]) /\ Backup(from[w]) \in Places
    BY <1>1, <1>9, PlaceFacts DEF Doomed
  <2>2. Touches({Backup(from[w])})
    BY <1>0, <1>4, <2>1, GutsLess
  <2>3. \A p \in Storages :
           /\ App(p) \in Places /\ App(p) # Backup(from[w])
           /\ (Backup(p) = Backup(from[w]) => p = from[w])
    BY PlaceFacts
  <2>4. \A p \in Storages : tree'[App(p)] = tree[App(p)] BY <2>2, <2>3 DEF Touches
  <2>5. Spare(w) => Spare(w)' BY <1>0, <1>5, <1>6, <1>9, <2>2, <2>3, StillSpare
  <2>6. ASSUME Sole(w) PROVE Sole(w)'
    <3>1. OneOf /\ Elsewhere(w) /\ tree[App(to[w])] \in Versions
      BY <1>0, <1>5, <1>9, <2>6 DEF Sole, SoleUpdate
    <3>2. OneOf' /\ Elsewhere(w)' BY <1>1, <2>4, <3>1, SameApps
    <3>3. tree'[App(to[w])] \in Versions /\ HasApp' BY <1>1, <1>9, <2>4, <3>1 DEF HasApp
    <3>4. SoleUpdate(w)'
      BY <1>1, <1>3, <3>2, <3>3 DEF SoleUpdate, Unpacking
    <3> QED BY <1>1, <1>9, <3>2, <3>3, <3>4 DEF Sole, SoleInstall
  <2> QED BY <1>0, <1>7, <2>5, <2>6 DEF Safe
<1> QED BY <1>1, <1>8, <1>9

LEMMA FarmSafe ==
    ASSUME NEW w, Recoverable(w), SafeInv(w), UNCHANGED params, FarmVisit(w) \/ FarmDone(w)
    PROVE  Safe(w)'
<1>0. /\ Lone(w) /\ TypeInv /\ Based(w) /\ w \in Workers /\ TypeOK /\ FsTypeOK
      /\ Spare(w) \/ Sole(w)
      /\ pc[w] = "farm" /\ UNCHANGED tree /\ StageIn(kind[w], phase[w], pc[w])
  BY SafeFacts, LoneFacts DEF FarmVisit, FarmDone, fsVars
<1>1. kind[w] = "farm" /\ kind'[w] = kind[w] /\ to'[w] = to[w]
  BY <1>0, LoneFacts DEF StageIn, Linking, Unpacking, params
<1>2. pc'[w] \in {"farm", "linkbin", "idle"} /\ (owned' => owned)
  <2>1. CASE FarmVisit(w) BY <1>0, <2>1 DEF FarmVisit, TypeOK
  <2>2. CASE FarmDone(w) BY <1>0, <1>1, <2>2, Turns DEF FarmDone
  <2> QED BY <2>1, <2>2
<1>3. ~Holds(w) /\ ~Holds(w)' BY <1>1, HoldsWhen
<1>4. Touches({}) BY <1>0 DEF Touches
<1>5. Spare(w) => Spare(w)' BY <1>0, <1>3, <1>4, StillSpare
<1>6. Sole(w) => OneOf' /\ (owned' => HasApp') BY <1>0, <1>1, <1>2, <1>3, SameApps DEF Sole
<1>7. Sole(w) => Sole(w)' BY <1>1, <1>6 DEF Sole, SoleInstall, SoleUpdate
<1>8. Renames(w)' BY <1>2 DEF Renames
<1> QED BY <1>0, <1>5, <1>7, <1>8 DEF Safe

LEMMA WorksSafe ==
    ASSUME NEW w, Recoverable(w), SafeInv(w), Works(w)
    PROVE  Safe(w)'
<1>1. w \in Workers /\ TypeInv /\ Renames(w) BY SafeFacts
<1>2. UNCHANGED params BY <1>1, WorksFit DEF Fits, Moves, Step
<1>3. ~BackupCopy(w) /\ ~BackupDrop(w) BY <1>1 DEF BackupCopy, BackupDrop, DropSource, Renames
<1> QED BY <1>2, <1>3, CheckSafe, UnlinkSafe, BackupSafe, UnpackSafe, DeploySafe, LinksSafe,
           FarmSafe, RestoreSafe, RemoveSafe
        DEF Works

LEMMA StartsSafe ==
    ASSUME NEW w, Recoverable(w), SafeInv(w), Starts(w)
    PROVE  Safe(w)'
<1>0. /\ w \in Workers /\ TypeInv /\ TypeOK /\ FsTypeOK /\ (Spare(w) \/ Sole(w))
  BY SafeFacts
<1>1. PICK k, f, t, v, d, forced : StartsAs(w, k, f, t, v, d, forced) BY <1>0, StartsWith
<1>2. Start(w, k, f, t, v, d, forced) BY <1>1 DEF StartsAs
<1>3. /\ pc[w] = "idle" /\ pc'[w] = "check" /\ UNCHANGED tree /\ owned' = owned
  BY <1>0, <1>2 DEF Start, fsVars, TypeOK
<1>4. ~Holds(w) /\ ~Holds(w)' BY <1>3, HoldsWhen DEF Unpacking, Linking
<1>5. Spare(w) => Spare(w)' BY <1>3, <1>4 DEF Spare, SpareAt
<1>6. Renames(w)' BY <1>3 DEF Renames
<1>7. ASSUME Sole(w) PROVE Sole(w)'
  <2>1. OneOf' /\ (owned' => HasApp') BY <1>3, <1>4, <1>7 DEF Sole, OneOf, HasApp
  <2>2. kind'[w] = "install" => Elsewhere(w)' /\ ~force'[w]
    <3>1. CASE InstallStart(w)
      <4>1. PICK p \in Storages, vv \in Versions :
               /\ \A q \in Storages \ {p} : ~AppIsInstalled(q)
               /\ Start(w, "install", NoPrefix, p, vv, FALSE, FALSE)
        BY <3>1 DEF InstallStart
      <4>2. to'[w] = p /\ ~force'[w] BY <1>0, <4>1 DEF Start, TypeOK
      <4>3. \A q \in Storages \ {p} : tree[App(q)] \notin WithInfo BY <1>0, <4>1, Lookups
      <4> QED BY <1>3, <4>2, <4>3 DEF Elsewhere
    <3>2. CASE ~InstallStart(w)
      <4>1. kind'[w] \in {"update", "uninstall", "migrate", "symlinks", "farm"}
        BY <1>0, <3>2
           DEF Starts, UpdateStart, UninstallStart, MigrateStart, SymlinksStart, FarmStart, Start, TypeOK
      <4> QED BY <4>1
    <3> QED BY <3>1, <3>2
  <2>3. SoleInstall(w)' /\ SoleUpdate(w)'
    BY <1>3, <1>4, <2>2 DEF SoleInstall, SoleUpdate, Unpacking, Linking
  <2> QED BY <1>3, <2>1, <2>3 DEF Sole
<1> QED BY <1>0, <1>5, <1>6, <1>7 DEF Safe

(* A crash leaves the backup of an update to nobody.                       *)
LEMMA CrashSafe ==
    ASSUME NEW w, Recoverable(w), SafeInv(w), Crash
    PROVE  Safe(w)'
<1>0. /\ w \in Workers /\ Lone(w) /\ TypeInv /\ Based(w) /\ (Spare(w) \/ Sole(w)) BY SafeFacts
<1>1. pc'[w] = "idle" /\ UNCHANGED tree /\ owned' = owned /\ from'[w] = from[w]
  BY <1>0 DEF Crash, fsVars, params
<1>2. ~Holds(w)' BY <1>1, HoldsWhen DEF Unpacking, Linking
<1>3. Spare(w) => Spare(w)' BY <1>1, <1>2 DEF Spare, SpareAt
<1>4. Sole(w) => Spare(w)' \/ (OneOf' /\ (owned' => HasApp'))
  <2>1. Holds(w) => from[w] \in Storages BY <1>0, HoldsWhen, LoneFacts
  <2>2. Holds(w) /\ tree[Backup(from[w])] \in Versions => Spare(w)'
    BY <1>1, <1>2, <2>1 DEF Spare, SpareAt
  <2>3. Sole(w) => OneOf' BY <1>1 DEF Sole, OneOf
  <2>4. HasApp => HasApp' BY <1>1 DEF HasApp
  <2> QED BY <1>1, <2>2, <2>3, <2>4 DEF Sole
<1> QED BY <1>0, <1>1, <1>3, <1>4, RestSafe

LEMMA SafeStep ==
    ASSUME NEW w, Recoverable(w), SafeInv(w), [Next]_vars
    PROVE  SafeInv(w)'
<1>0. TypeInv' /\ Based(w)' BY SafeFacts, TypeStep, BasedStep
<1>1. CASE Crash BY <1>0, <1>1, CrashSafe DEF SafeInv
<1>2. CASE Starts(w) \/ Works(w) BY <1>0, <1>2, StartsSafe, WorksSafe DEF SafeInv
<1>3. CASE UNCHANGED vars
  <2>1. /\ UNCHANGED <<tree, pc, kind, from, to, force, phase, owned>>
    BY <1>3 DEF vars, fsVars, params
  <2>2. Renames(w)' BY <2>1 DEF SafeInv, Safe, Renames
  <2>3. Holds(w)' <=> Holds(w) BY <2>1, HoldsWhen
  <2>4. Spare(w) => Spare(w)' BY <2>1, <2>3 DEF Spare, SpareAt
  <2>5. Sole(w) => SoleInstall(w)' BY <2>1 DEF Sole, SoleInstall, Elsewhere
  <2>6. Sole(w) => SoleUpdate(w)' BY <2>1, <2>3 DEF Sole, SoleUpdate, Elsewhere
  <2>7. Sole(w) => Sole(w)' BY <2>1, <2>3, <2>5, <2>6 DEF Sole, OneOf, HasApp
  <2> QED BY <1>0, <2>2, <2>4, <2>7 DEF SafeInv, Safe
<1> QED BY <1>1, <1>2, <1>3, NextParts DEF Recoverable, Lone

LEMMA InitSafe ==
    ASSUME NEW w, Recoverable(w), Init
    PROVE  SafeInv(w)
<1>1. TypeInv /\ w \in Workers BY InitTypes DEF Recoverable, Lone
<1>2. pc[w] = "idle" /\ kind[w] = "none" BY <1>1 DEF Init
<1>3. \A p \in Storages : App(p) \in Places BY PlaceFacts
<1>4. OneOf /\ (owned => HasApp)
  <2>1. CASE FsInit /\ owned = FALSE BY <1>3, <2>1, Kinships DEF FsInit, OneOf
  <2>2. ASSUME NEW p \in Storages, NEW v \in Versions, InstalledAt(p, v)
        PROVE  OneOf /\ HasApp
    <3>1. \A q \in Storages : tree[App(q)] = IF App(q) = App(p) THEN v ELSE "none"
      BY <1>3, <2>2 DEF InstalledAt
    <3>2. tree[App(p)] = v /\ \A q \in Storages : q # p => tree[App(q)] = "none"
      BY <3>1, PlaceFacts
    <3> QED BY <3>2, Kinships DEF OneOf, HasApp
  <2> QED BY <2>1, <2>2 DEF Init
<1>5. Sole(w) BY <1>2, <1>4 DEF Sole, SoleInstall, SoleUpdate
<1>6. Based(w) BY <1>2 DEF Based, CacheReady, NewCopy, OldCopy, NamedCopy, Linking
<1> QED BY <1>1, <1>2, <1>5, <1>6 DEF SafeInv, Safe, Renames

(* What one worker has of copies, through failures and crashes. *)
THEOREM SafeInvariance ==
    ASSUME NEW x, Recoverable(x)
    PROVE  Spec => []SafeInv(x)
<1>1. Init => SafeInv(x) BY InitSafe
<1>2. SafeInv(x) /\ [Next]_vars => SafeInv(x)' BY SafeStep
<1> QED BY <1>1, <1>2, PTL DEF Spec

(* A complete copy of what the user has is on the disk at every moment,    *)
(* while one transaction after the other moves it between any storages,    *)
(* fails at any step but the links of an update, and is cut off by any     *)
(* number of crashes.                                                      *)
THEOREM NothingIsLost ==
    ASSUME NEW x, Recoverable(x)
    PROVE  Spec => []NeverLost
<1>1. SafeInv(x) => NeverLost
  <2>1. ASSUME SafeInv(x), owned PROVE Copies # {}
    <3>1. /\ Lone(x) /\ TypeInv /\ (Spare(x) \/ Sole(x)) BY <2>1, SafeFacts
    <3>2. \A p \in Storages : App(p) \in Places \ {Cache} /\ Backup(p) \in Places \ {Cache}
      BY PlaceFacts
    <3>3. Holds(x) => from[x] \in Storages BY <3>1, HoldsWhen, LoneFacts
    <3>4. \E p \in Storages : tree[App(p)] \in Versions \/ tree[Backup(p)] \in Versions
      BY <2>1, <3>1, <3>3 DEF Spare, SpareAt, Sole, HasApp
    <3> QED BY <3>2, <3>4 DEF Copies
  <2> QED BY <2>1 DEF NeverLost
<1> QED BY <1>1, SafeInvariance, PTL

=============================================================================

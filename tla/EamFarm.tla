------------------------------ MODULE EamFarm ------------------------------
(***************************************************************************)
(* The symlink farm that all applications share: eam_fs_create_symlinks    *)
(* and eam_fs_prune_symlinks of eam-fs-utils.c, name by name, as the       *)
(* worker threads of transactions on different applications run them.      *)
(*                                                                         *)
(* Of the system directories the model has the one for programs, "bin",    *)
(* which a bundle fills from its own "bin" and "games", and one of the     *)
(* others, "top", with one subdirectory, "sub", that is made when it is    *)
(* needed and removed when it is empty.  An entry of the shallow ekn/data  *)
(* is one of "top".  What happens to an application's own directory is     *)
(* EamTransactions' business: here it has a version or it has none, and    *)
(* the link /endless/<appid>, which is nobody else's, is left out.         *)
(***************************************************************************)
EXTENDS Naturals

CONSTANTS
    AppIds, Workers, Versions,
    NoApp,             \* no link, or no application
    Bundle,            \* application, version -> the files: <<directory, name>>
    Exec,              \* application, version -> the program to start
    SystemPrograms,    \* programs outside the farm, in PATH or by absolute path
    MaxOps             \* transactions in a behaviour

ASSUME NamesAssumption == NoApp \notin AppIds /\ "none" \notin Versions
ASSUME BundleAssumption ==
    \A a \in AppIds, v \in Versions : \A n \in Bundle[a][v] : n[1] \in {"bin", "games", "top", "sub"}
ASSUME BoundAssumption == MaxOps \in Nat

Bin(x) == <<"bin", x>>
Sub == <<"top", "sub">>      \* the subdirectory's own name

In(d, names) == {n \in names : n[1] \in d}

(* A bundle has a file of the subdirectory's name, or files in it; of two  *)
(* bundles one can have the one and one the other.                         *)
ASSUME DirectoryAssumption ==
    \A a \in AppIds, v \in Versions : Sub \in Bundle[a][v] => In({"sub"}, Bundle[a][v]) = {}

(* games has no directory of its own in the farm. *)
FarmName(n) == IF n[1] = "games" THEN <<"bin", n[2]>> ELSE n

BundleNames == {Sub} \cup UNION {Bundle[a][v] : a \in AppIds, v \in Versions}
Names == {FarmName(n) : n \in BundleNames}

VARIABLES
    dir,     \* application -> the version in its directory
    link,    \* name -> the application whose file it leads to
    sub,     \* the subdirectory is there
    pc,      \* worker -> the step it is at
    kind, app, new,   \* worker -> its transaction
    todo,    \* worker -> the names it has still to link or to remove
    cur,     \* worker -> the file it makes a link for
    good,    \* applications whose links were all made the last time (ghost)
    left,    \* names whose links a removal has given up on (ghost)
    ops

task == <<kind, app, new>>
vars == <<dir, link, sub, pc, task, todo, cur, good, left, ops>>

Init ==
    /\ dir = [a \in AppIds |-> "none"]
    /\ link = [n \in Names |-> NoApp]
    /\ sub = FALSE
    /\ pc = [w \in Workers |-> "idle"]
    /\ kind = [w \in Workers |-> "none"]
    /\ app = [w \in Workers |-> NoApp]
    /\ new = [w \in Workers |-> "none"]
    /\ todo = [w \in Workers |-> {}]
    /\ cur = [w \in Workers |-> Sub]
    /\ good = {}
    /\ left = {}
    /\ ops = 0

Files(w) == Bundle[app[w]][dir[app[w]]]

Goto(w, s) == pc' = [pc EXCEPT ![w] = s]
Leave(w, names) == todo' = [todo EXCEPT ![w] = names]
Unlinked(n) == [link EXCEPT ![n] = NoApp]

Finish(w, ok) ==
    /\ Goto(w, "idle")
    /\ good' = IF ok /\ kind[w] # "uninstall" THEN good \cup {app[w]} ELSE good \ {app[w]}
    /\ Leave(w, {})
    /\ cur' = [cur EXCEPT ![w] = Sub]
    /\ UNCHANGED <<task, ops>>

-----------------------------------------------------------------------------
(* A transaction on an application none is running for: an install has its *)
(* files deployed, the others remove the links first.                      *)
GamesForgotten(files) ==      \* a mutant of PruneNames
    {n \in files : n[1] # "games"}
PruneNames(files) == {FarmName(n) : n \in files}

Begin(w, k, a, v) ==
    /\ pc[w] = "idle"
    /\ ops < MaxOps
    /\ \A x \in Workers : pc[x] # "idle" => app[x] # a
    /\ ops' = ops + 1
    /\ kind' = [kind EXCEPT ![w] = k]
    /\ app' = [app EXCEPT ![w] = a]
    /\ new' = [new EXCEPT ![w] = v]
    /\ UNCHANGED <<link, sub, cur, left>>

Install(w, a, v) ==
    /\ dir[a] = "none"
    /\ dir' = [dir EXCEPT ![a] = v]
    /\ Begin(w, "install", a, v)
    /\ Goto(w, "binary")
    /\ Leave(w, In({"top", "sub"}, Bundle[a][v]))
    /\ UNCHANGED good

UnlinkFirst(w, k, a, v) ==
    /\ dir[a] # "none"
    /\ Begin(w, k, a, v)
    /\ Goto(w, "prune")
    /\ Leave(w, PruneNames(Bundle[a][dir[a]]))
    /\ good' = good \ {a}
    /\ UNCHANGED dir

-----------------------------------------------------------------------------
(* eam_fs_create_symlinks. *)

(* A failed install removes what it made; a failed update finds its new    *)
(* version in the way of the old one and leaves the links as they are.     *)
Fails(w) ==
    IF kind[w] = "install"
      THEN /\ Goto(w, "prune")
           /\ Leave(w, PruneNames(Files(w)))
           /\ UNCHANGED <<task, cur, good, ops>>
      ELSE Finish(w, FALSE)

(* PATH, at its largest.  remove_dir_from_path keeps the directory it is   *)
(* to remove and drops the others; as the one asked for is a storage's and *)
(* not in PATH, nothing is left, and for nothing all of PATH is searched.  *)
Path == {"farm", "system"}

SearchPath(unwanted) ==
    LET kept == {d \in Path : d = unwanted} IN IF kept = {} THEN Path ELSE kept

FindProgram(x) ==
    \E d \in SearchPath("storage") :
       IF d = "system" THEN x \in SystemPrograms ELSE Bin(x) \in Names /\ link[Bin(x)] # NoApp

(* do_binaries_symlinks: only the program to start is linked, to the       *)
(* bundle's bin or, if that has none or its link cannot be made, to its    *)
(* games; failing both it is enough that PATH has a program of that name.  *)
Program(w) == Exec[app[w]][dir[app[w]]]

Try(w, file, otherwise) ==
    /\ IF file \in Files(w)
         THEN Goto(w, "clear") /\ cur' = [cur EXCEPT ![w] = file]
         ELSE Goto(w, otherwise) /\ UNCHANGED cur
    /\ UNCHANGED <<dir, link, sub, task, todo, good, left, ops>>

Binary(w) == pc[w] = "binary" /\ Try(w, <<"bin", Program(w)>>, "games")
Games(w) == pc[w] = "games" /\ Try(w, <<"games", Program(w)>>, "path")

InPath(w) ==
    /\ pc[w] = "path"
    /\ UNCHANGED <<dir, link, sub, left>>
    /\ IF FindProgram(Program(w))
         THEN Goto(w, "link") /\ UNCHANGED <<task, todo, cur, good, ops>>
         ELSE Fails(w)

(* symlinkdirs_recursive: the entries of a directory in any order; the     *)
(* subdirectory is made before its entries are.                            *)
LinkNext(w) ==
    /\ pc[w] = "link"
    /\ UNCHANGED <<dir, link, left>>
    /\ \/ \E n \in In({"top"}, todo[w]) :
             /\ Goto(w, "clear")
             /\ cur' = [cur EXCEPT ![w] = n]
             /\ UNCHANGED <<sub, task, todo, good, ops>>
       \/ /\ In({"sub"}, todo[w]) # {}
          /\ IF link[Sub] = NoApp
               THEN sub' = TRUE /\ Goto(w, "linksub") /\ UNCHANGED <<task, todo, cur, good, ops>>
               ELSE UNCHANGED sub /\ Fails(w)
       \/ todo[w] = {} /\ UNCHANGED sub /\ Finish(w, TRUE)

LinkNextInSub(w) ==
    /\ pc[w] = "linksub"
    /\ UNCHANGED <<dir, link, sub, task, todo, good, left, ops>>
    /\ \/ \E n \in In({"sub"}, todo[w]) : Goto(w, "clear") /\ cur' = [cur EXCEPT ![w] = n]
       \/ In({"sub"}, todo[w]) = {} /\ Goto(w, "link") /\ UNCHANGED cur

(* create_symlink: what is in the way goes, unless it is a directory, and  *)
(* then the link is made, unless the way is not free or not there.         *)
Clear(w) ==
    /\ pc[w] = "clear"
    /\ Goto(w, "make")
    /\ link' = Unlinked(FarmName(cur[w]))
    /\ UNCHANGED <<dir, sub, task, todo, cur, good, left, ops>>

DirectoryAssumed(n) == link[n] = NoApp      \* a mutant of CanMake
CanMake(n) ==
    /\ link[n] = NoApp
    /\ n[1] = "sub" => sub
    /\ n = Sub => ~sub

Back(w) == IF cur[w][1] = "sub" THEN "linksub" ELSE "link"

(* Failing the link of the program is not yet failing. *)
PassedOver(w) ==      \* a mutant of MakeFailed
    Goto(w, Back(w)) /\ Leave(w, todo[w] \ {cur[w]}) /\ UNCHANGED <<task, cur, good, ops>>
MakeFailed(w) ==
    CASE cur[w][1] = "bin" -> Goto(w, "games") /\ UNCHANGED <<task, todo, cur, good, ops>>
      [] cur[w][1] = "games" -> Goto(w, "path") /\ UNCHANGED <<task, todo, cur, good, ops>>
      [] OTHER -> Fails(w)

Make(w) ==
    LET n == FarmName(cur[w])
    IN  /\ pc[w] = "make"
        /\ UNCHANGED <<dir, sub>>
        /\ \/ /\ CanMake(n)
              /\ link' = [link EXCEPT ![n] = app[w]]
              /\ left' = left \ {n}
              /\ Goto(w, Back(w))
              /\ Leave(w, todo[w] \ {cur[w]})
              /\ UNCHANGED <<task, cur, good, ops>>
           \/ ~CanMake(n) /\ UNCHANGED <<link, left>> /\ MakeFailed(w)
           \/ UNCHANGED <<link, left>> /\ MakeFailed(w)      \* no space, an I/O error

-----------------------------------------------------------------------------
(* eam_fs_prune_symlinks: rmsymlinks_recursive goes by the names in the    *)
(* application's directory, whoever's the links are.  lstat() and unlink() *)
(* are one step, but where a directory can come between them.              *)

(* The walk ends at a name it cannot look at or remove: those it has not   *)
(* come to keep their links, in all the directories it is in.  The program *)
(* directory has a walk of its own.                                        *)
GivesUp(w) ==
    /\ left' = left \cup {n \in In({"top", "sub"}, todo[w]) : link[n] = app[w]}
    /\ Leave(w, In({"bin"}, todo[w]))
    /\ Goto(w, "prune")
    /\ UNCHANGED link

UnlinkNext(w) ==
    \E n \in In({"bin", "top"}, todo[w]) \ {Sub} :
       /\ link' = Unlinked(n)
       /\ Leave(w, todo[w] \ {n})
       /\ UNCHANGED <<pc, left>>

(* The subdirectory's own name: nothing, a directory, which ends the walk  *)
(* of an application that has a file there, or a link.                     *)
AtSub(w) == In({"sub"}, todo[w]) # {} \/ Sub \in todo[w]
BeyondSub(w) == todo[w] \ (In({"sub"}, todo[w]) \cup {Sub})

EnterSub(w) ==
    /\ AtSub(w)
    /\ \/ /\ link[Sub] = NoApp /\ ~sub
          /\ Leave(w, BeyondSub(w))
          /\ UNCHANGED <<link, left, pc>>
       \/ sub /\ Sub \notin todo[w] /\ Goto(w, "prunesub") /\ UNCHANGED <<link, left, todo>>
       \/ sub /\ Sub \in todo[w] /\ GivesUp(w)
       \/ link[Sub] # NoApp /\ Goto(w, "unlinksub") /\ UNCHANGED <<link, left, todo>>

PruneNext(w) ==
    /\ pc[w] = "prune"
    /\ UnlinkNext(w) \/ EnterSub(w)
    /\ UNCHANGED <<dir, sub, task, cur, good, ops>>

(* unlink() of what lstat() saw a link: by now it can be a directory. *)
UnlinkSub(w) ==
    /\ pc[w] = "unlinksub"
    /\ IF sub
         THEN GivesUp(w)
         ELSE /\ link' = Unlinked(Sub)
              /\ Leave(w, BeyondSub(w))
              /\ Goto(w, "prune")
              /\ UNCHANGED left
    /\ UNCHANGED <<dir, sub, task, cur, good, ops>>

(* In the subdirectory, which can be gone by now, or a link in its place   *)
(* (ENOTDIR).  It goes once it is empty.                                   *)
SubKept == UNCHANGED sub      \* a mutant of RmdirSub
RmdirSub == sub' = (sub /\ \E n \in In({"sub"}, Names) : link[n] # NoApp)

PruneSub(w) ==
    /\ pc[w] = "prunesub"
    /\ UNCHANGED <<dir, task, cur, good, ops>>
    /\ \/ /\ link[Sub] = NoApp
          /\ \E n \in In({"sub"}, todo[w]) : link' = Unlinked(n) /\ Leave(w, todo[w] \ {n})
          /\ UNCHANGED <<pc, sub, left>>
       \/ link[Sub] # NoApp /\ In({"sub"}, todo[w]) # {} /\ GivesUp(w) /\ UNCHANGED sub
       \/ /\ In({"sub"}, todo[w]) = {}
          /\ RmdirSub
          /\ Goto(w, "prune")
          /\ UNCHANGED <<link, left, todo>>

(* With the links gone the directory goes too, or the new version comes;   *)
(* an update that gets no new version makes the links of the old one again *)
(* (new is then what it has).                                              *)
Pruned(w) ==
    /\ pc[w] = "prune" /\ todo[w] = {}
    /\ UNCHANGED <<link, sub, left>>
    /\ IF kind[w] = "update"
         THEN /\ dir' = [dir EXCEPT ![app[w]] = new[w]]
              /\ Goto(w, "binary")
              /\ Leave(w, In({"top", "sub"}, Bundle[app[w]][new[w]]))
              /\ UNCHANGED <<task, cur, good, ops>>
         ELSE /\ dir' = [dir EXCEPT ![app[w]] = "none"]
              /\ Finish(w, kind[w] = "uninstall")

Next ==
    \E w \in Workers :
       \/ \E a \in AppIds, v \in Versions : Install(w, a, v)
       \/ \E a \in AppIds, v \in Versions : UnlinkFirst(w, "update", a, v)
       \/ \E a \in AppIds : UnlinkFirst(w, "uninstall", a, "none")
       \/ Binary(w) \/ Games(w) \/ InPath(w)
       \/ LinkNext(w) \/ LinkNextInSub(w) \/ Clear(w) \/ Make(w)
       \/ PruneNext(w) \/ UnlinkSub(w) \/ PruneSub(w) \/ Pruned(w)

Spec == Init /\ [][Next]_vars

-----------------------------------------------------------------------------
(* Properties.                                                             *)

Steps == {"idle", "binary", "games", "path", "link", "linksub", "clear", "make",
          "prune", "unlinksub", "prunesub"}

(* Every variable stays in its set; there is nothing in a subdirectory     *)
(* that is not there, and no link in its place while it is.                *)
TypeOK ==
    /\ dir \in [AppIds -> Versions \cup {"none"}]
    /\ link \in [Names -> AppIds \cup {NoApp}]
    /\ sub \in BOOLEAN
    /\ pc \in [Workers -> Steps]
    /\ kind \in [Workers -> {"none", "install", "update", "uninstall"}]
    /\ app \in [Workers -> AppIds \cup {NoApp}]
    /\ new \in [Workers -> Versions \cup {"none"}]
    /\ todo \in [Workers -> SUBSET Names]
    /\ cur \in [Workers -> BundleNames]
    /\ good \subseteq AppIds
    /\ left \subseteq Names
    /\ ops \in 0..MaxOps
    /\ sub => link[Sub] = NoApp
    /\ \A n \in Names : n[1] = "sub" /\ link[n] # NoApp => sub

Idle(a) == \A w \in Workers : pc[w] # "idle" => app[w] # a

(* The names of the farm that lead to a file of a's version v. *)
Linked(a, v) == In({"top", "sub"}, Bundle[a][v]) \cup
                (PruneNames(Bundle[a][v]) \cap {Bin(Exec[a][v])})

(* Once no transaction runs for an application, every link that leads to   *)
(* it leads to a file it has, whatever workers do to other applications at *)
(* that moment, and however its own last transaction failed: after an      *)
(* uninstall, or an install that was rolled back, none does.  Only a link  *)
(* that a removal gave up on may be left, where bundles disagree on what   *)
(* is a directory.                                                         *)
Leads(n) ==
    link[n] # NoApp /\ Idle(link[n]) =>
       dir[link[n]] # "none" /\ n \in Linked(link[n], dir[link[n]])

NoDangling == \A n \in Names \ left : Leads(n)

(* Where bundles agree, no link is left. *)
BundlesAgree ==
    \/ \A a \in AppIds, v \in Versions : Sub \notin Bundle[a][v]
    \/ \A a \in AppIds, v \in Versions : In({"sub"}, Bundle[a][v]) = {}
AllLead == \A n \in Names : Leads(n)

(* An install or an update that succeeded has linked every name that is    *)
(* the application's alone, but a program's that is found in PATH without  *)
(* its link, and no work on others, theirs failed or not, takes such a     *)
(* link away.                                                              *)
Removable(files) == PruneNames(files) \cup (IF In({"sub"}, files) = {} THEN {} ELSE {Sub})
Others(a) == UNION {Removable(Bundle[b][v]) : b \in AppIds \ {a}, v \in Versions}
FoundAnyway(a) == {Bin(x) : x \in {Exec[a][dir[a]]} \cap SystemPrograms}

OwnNamesLinked ==
    \A a \in good :
       Idle(a) => \A n \in Linked(a, dir[a]) \ (Others(a) \cup FoundAnyway(a)) : link[n] = a

(* When nothing runs and no update has left its links half made, the       *)
(* shared subdirectory is there only for its links: whoever removes the    *)
(* last one removes it too ("Try to cleanup empty directories that had     *)
(* links"), whatever others did in it meanwhile.                           *)
NoEmptyDirectory ==
    /\ \A w \in Workers : pc[w] = "idle"
    /\ \A a \in AppIds : dir[a] # "none" => a \in good
    /\ sub
    => \E n \in In({"sub"}, Names) : link[n] # NoApp

=============================================================================

-------------------------- MODULE EamTransactions --------------------------
(***************************************************************************)
(* The transactions that change the disk, as threads of the daemon and     *)
(* eamctl processes run them on one application: eam-install.c,            *)
(* eam-update.c, eam-uninstall.c (their *_run_sync) and                    *)
(* tools/eam-command-migrate.c, over the file system of EamFs.             *)
(*                                                                         *)
(* A worker is one thread or process; a step is one system call, or a run  *)
(* of calls nothing else can come between that matters here.  Every step   *)
(* that can fail may fail, if FaultSteps lists it for that kind of         *)
(* transaction: an I/O error, a bad signature, a helper process that exits *)
(* with an error, or the cancellable being cancelled.                      *)
(***************************************************************************)
EXTENDS EamFs

CONSTANTS
    Workers,
    Kinds,             \* the kinds of transaction that are run
    UpdatePrefixes,    \* the prefixes clients pass to an update
    InPath,            \* the search path may have a program of that name
    FaultSteps,        \* <<kind, step>>: the steps that may fail
    MaxFaults,         \* failures of one transaction
    MaxOps,            \* transactions in a behaviour
    MaxCrashes         \* crashes in a behaviour

ASSUME KindsAssumption == 
    Kinds \subseteq {"install", "update", "uninstall", "migrate", "symlinks", "farm"}
ASSUME UpdatePrefixesAssumption == UpdatePrefixes \subseteq Prefixes
ASSUME PathAssumption == InPath \in BOOLEAN
ASSUME BoundsAssumption == MaxFaults \in Nat /\ MaxOps \in Nat /\ MaxCrashes \in Nat

VARIABLES
    pc,         \* worker -> the step it is at
    kind,       \* worker -> the kind of its transaction, and its parameters
    from, to, ver, delta, force,
    phase,      \* worker -> "forward", or "back" once it undoes its work
    result,     \* worker -> what it reported
    faults,     \* worker -> failures so far
    todo,       \* worker -> the places ensure-symlink-farm still has to see
    at,         \* worker -> the place it makes links for
    ensured,    \* worker -> it has not failed so far
    skipped,    \* worker -> what it went past without a failure: storages it
                \* could not read, "bin" for a program it did not link (ghost)
    oldTree, oldLink, oldAppLink,   \* worker -> the disk when it started (ghost)
    owned,      \* the user has the application and never removed it (ghost)
    ops, crashes

params == <<kind, from, to, ver, delta, force>>
old == <<oldTree, oldLink, oldAppLink>>
farm == <<todo, at, ensured, skipped>>
control == <<params, phase, farm, old, ops, crashes>>
vars == <<fsVars, pc, params, phase, result, faults, farm, old, owned, ops, crashes>>

Steps == {"idle", "check", "unlink", "backup", "backupcopy", "backupdrop", "extract",
          "extracting", "scripts", "deploy", "deploycopy", "drop", "linkbin", "linksys", "linkapp",
          "restore", "remove", "removing", "farm"}

Init ==
    /\ pc = [w \in Workers |-> "idle"]
    /\ kind = [w \in Workers |-> "none"]
    /\ from = [w \in Workers |-> NoPrefix]
    /\ to = [w \in Workers |-> NoPrefix]
    /\ ver = [w \in Workers |-> "none"]
    /\ delta = [w \in Workers |-> FALSE]
    /\ force = [w \in Workers |-> FALSE]
    /\ phase = [w \in Workers |-> "forward"]
    /\ result = [w \in Workers |-> "none"]
    /\ faults = [w \in Workers |-> 0]
    /\ todo = [w \in Workers |-> {}]
    /\ at = [w \in Workers |-> NoPrefix]
    /\ ensured = [w \in Workers |-> TRUE]
    /\ skipped = [w \in Workers |-> {}]
    /\ ops = 0
    /\ crashes = 0
    /\ \/ FsInit /\ owned = FALSE
       \/ \E p \in Storages, v \in Versions : InstalledAt(p, v) /\ owned = TRUE
    /\ oldTree = [w \in Workers |-> tree]
    /\ oldLink = [w \in Workers |-> link]
    /\ oldAppLink = [w \in Workers |-> appLink]

-----------------------------------------------------------------------------
(* Where the links lead: the target, or the source once an update puts the *)
(* old version back; create-symlinks without --migrate-to has one prefix.  *)
LinkPlace(w) ==
    IF kind[w] = "farm" THEN at[w]
    ELSE IF phase[w] = "back" \/ to[w] = NoPrefix THEN App(from[w]) ELSE App(to[w])

Goto(w, s) == pc' = [pc EXCEPT ![w] = s] /\ UNCHANGED <<control, result, owned>>

GoBack(w, s) ==
    /\ pc' = [pc EXCEPT ![w] = s]
    /\ phase' = [phase EXCEPT ![w] = "back"]
    /\ UNCHANGED <<params, farm, old, ops, crashes, result, owned>>

Finish(w, r) ==
    /\ pc' = [pc EXCEPT ![w] = "idle"]
    /\ result' = [result EXCEPT ![w] = r]
    /\ owned' = (owned \/ (r = "ok" /\ kind[w] \in {"install", "update"}))
    /\ UNCHANGED control

(* Step s of w fails. *)
Fault(w, s) ==
    /\ <<kind[w], s>> \in FaultSteps
    /\ faults[w] < MaxFaults
    /\ faults' = [faults EXCEPT ![w] = @ + 1]

NoFault == UNCHANGED faults

Disturb(t) == tree' = t /\ UNCHANGED <<link, appLink, backupLink>>
Fills(pl) == Halfway(pl) /\ UNCHANGED <<link, appLink, backupLink>>
Guts(pl) == Gutted(pl) /\ UNCHANGED <<link, appLink, backupLink>>

(* A failed install reports at once; a failed update first puts the old    *)
(* version back.                                                           *)
DropsBackup(w) ==      \* a mutant of Abandon
    IF kind[w] = "update" THEN GoBack(w, "remove") ELSE Finish(w, "failed")
NoRestore(w) == Finish(w, "failed")      \* a mutant of Abandon
Abandon(w) ==
    IF kind[w] = "update" THEN GoBack(w, "restore") ELSE Finish(w, "failed")

-----------------------------------------------------------------------------
(* A transaction starts: its parameters are the caller's. *)
Start(w, k, f, t, v, d, forced) ==
    /\ pc[w] = "idle"
    /\ k \in Kinds
    /\ ops < MaxOps
    /\ ops' = ops + 1
    /\ pc' = [pc EXCEPT ![w] = "check"]
    /\ kind' = [kind EXCEPT ![w] = k]
    /\ from' = [from EXCEPT ![w] = f]
    /\ to' = [to EXCEPT ![w] = t]
    /\ ver' = [ver EXCEPT ![w] = v]
    /\ delta' = [delta EXCEPT ![w] = d]
    /\ force' = [force EXCEPT ![w] = forced]
    /\ phase' = [phase EXCEPT ![w] = "forward"]
    /\ result' = [result EXCEPT ![w] = "none"]
    /\ faults' = [faults EXCEPT ![w] = 0]
    /\ todo' = [todo EXCEPT ![w] =
          IF k = "farm" THEN {App(p) : p \in Storages} \cup {Backup(p) : p \in Storages} ELSE {}]
    /\ ensured' = [ensured EXCEPT ![w] = TRUE]
    /\ skipped' = [skipped EXCEPT ![w] = {}]
    /\ oldTree' = [oldTree EXCEPT ![w] = tree]
    /\ oldLink' = [oldLink EXCEPT ![w] = link]
    /\ oldAppLink' = [oldAppLink EXCEPT ![w] = appLink]
    /\ UNCHANGED <<fsVars, at, owned, crashes>>

(* Bound: clients do not install what another storage already has. *)
InstallStart(w) ==
    \E p \in Storages, v \in Versions :
       /\ \A q \in Storages \ {p} : ~AppIsInstalled(q)
       /\ Start(w, "install", NoPrefix, p, v, FALSE, FALSE)

UpdateStart(w) ==
    \E s, t \in UpdatePrefixes, v \in Versions, d \in BOOLEAN :
       Start(w, "update", s, t, v, d, FALSE)

(* Bound: an uninstall is not forced where the application is not, while   *)
(* links lead to it by way of the applications directory.                  *)
UninstallStart(w) ==
    \E p \in Storages \cup {DetectPrefix}, forced \in BOOLEAN :
       /\ forced /\ ~AppIsInstalled(p) => \A n \in LinkNames : link[n] # App(Apps)
       /\ Start(w, "uninstall", p, NoPrefix, "none", FALSE, forced)

(* Bound: nobody migrates onto the leftovers of a failed removal, or moves *)
(* those that lack the program.                                            *)
MigrateStart(w) ==
    \E f, t \in Storages :
       /\ tree[App(t)] # "part" /\ TreeAt(f) # "nobin"
       /\ Start(w, "migrate", f, t, TreeAt(f), FALSE, FALSE)

(* eamctl create-symlinks, by default for the applications directory.      *)
(* Bound: for the copy there is, with its program, or moving its links     *)
(* there.                                                                  *)
SymlinksStart(w) ==
    \E p \in Prefixes, t \in Storages \cup {NoPrefix} :
       LET shown == IF t = NoPrefix THEN p ELSE t IN
       /\ AppIsInstalled(shown) /\ TreeAt(shown) # "nobin"
       /\ Start(w, "symlinks", p, t, "none", FALSE, FALSE)

(* eamctl ensure-symlink-farm: at boot, or run by hand. *)
FarmStart(w) == Start(w, "farm", NoPrefix, NoPrefix, "none", FALSE, FALSE)

-----------------------------------------------------------------------------
(* The checks each kind of transaction begins with. *)
InstallProceeds(w) == ~AppIsInstalled(to[w])
UpdateProceeds(w) == AppIsInstalled(from[w])
UninstallProceeds(w) == AppIsInstalled(from[w]) \/ force[w]
MigrateProceeds(w) == AppIsInstalled(from[w]) /\ ~AppIsInstalled(to[w])

Proceeds(w) ==
    CASE kind[w] = "install" -> InstallProceeds(w)
      [] kind[w] = "update" -> UpdateProceeds(w)
      [] kind[w] = "uninstall" -> UninstallProceeds(w)
      [] kind[w] = "migrate" -> MigrateProceeds(w)
      [] OTHER -> TRUE

(* eamctl migrate exits with success, and does nothing, when the target    *)
(* has the application.                                                    *)
Refused(w) ==
    IF kind[w] = "migrate" /\ AppIsInstalled(from[w]) THEN "already" ELSE "failed"

FirstStep(w) ==
    CASE kind[w] = "install" -> "extract"
      [] kind[w] \in {"update", "uninstall"} -> "unlink"
      [] kind[w] = "migrate" -> "deploy"
      [] kind[w] = "symlinks" -> IF to[w] = NoPrefix THEN "linkbin" ELSE "unlink"
      [] OTHER -> "farm"

(* The signature is verified after the look for the application: the next  *)
(* step may come much later.                                               *)
Check(w) ==
    /\ pc[w] = "check"
    /\ UNCHANGED fsVars
    /\ \/ Proceeds(w) /\ NoFault
          /\ pc' = [pc EXCEPT ![w] = FirstStep(w)]
          /\ owned' = (owned /\ kind[w] # "uninstall")
          /\ UNCHANGED <<control, result>>
       \/ ~Proceeds(w) /\ NoFault /\ Finish(w, Refused(w))
       \/ Proceeds(w) /\ Fault(w, "check") /\ Finish(w, "failed")

(* eam_fs_prune_symlinks, for its five callers. *)
AfterUnlink ==
    [install |-> "remove", update |-> "backup", uninstall |-> "remove", migrate |-> "linkbin",
     symlinks |-> "linkbin"]

Unlink(w) ==
    /\ pc[w] = "unlink"
    /\ LET p == IF kind[w] = "install" THEN to[w] ELSE from[w]
       IN  \/ PruneSymlinks(p) /\ NoFault
           \/ PruneGivesUp(p) /\ Fault(w, "unlink")
    /\ UNCHANGED tree
    /\ Goto(w, AfterUnlink[kind[w]])

(* The rest of eam_fs_backup_app.  Only a copy that fails has the symlinks *)
(* made again.                                                             *)
BackupCopyFailed(w) == Disturb(Removed(Backup(from[w]))) /\ GoBack(w, "linkbin")

BackupApp(w) ==
    LET src == App(from[w])
        dst == Backup(from[w])
        renames == from[w] \notin Overlay
    IN  /\ pc[w] = "backup"
        /\ \/ renames /\ CanRename(src, dst) /\ NoFault
              /\ Disturb(Renamed(src, dst)) /\ Goto(w, "extract")
           \/ renames /\ (IF CanRename(src, dst) THEN Fault(w, "backup") ELSE NoFault)
              /\ UNCHANGED fsVars /\ Finish(w, "failed")
           \/ ~renames /\ tree[src] = "none" /\ NoFault
              /\ UNCHANGED fsVars /\ Finish(w, "failed")
           \/ ~renames /\ CanRename(src, dst) /\ NoFault
              /\ Fills(dst) /\ Goto(w, "backupcopy")
           \/ ~renames /\ tree[src] # "none" /\ tree[dst] # "none" /\ NoFault
              /\ BackupCopyFailed(w)

BackupCopy(w) ==
    LET src == App(from[w])
    IN  /\ pc[w] = "backupcopy"
        /\ \/ tree[src] # "none" /\ NoFault
              /\ Disturb(Copied(src, Backup(from[w])))
              /\ Goto(w, "backupdrop")
           \/ (IF tree[src] = "none" THEN NoFault ELSE Fault(w, "backupcopy"))
              /\ BackupCopyFailed(w)

(* eam_fs_rmdir_recursive of what was copied, or renamed away and made     *)
(* again by another worker: nobody looks at its result.                    *)
DropSource(w, s, src, next) ==
    /\ pc[w] = s
    /\ \/ tree[src] # "none" /\ Guts(src) /\ Goto(w, s) /\ NoFault
       \/ Disturb(Removed(src)) /\ Goto(w, next) /\ NoFault
       \/ UNCHANGED fsVars /\ Goto(w, next) /\ Fault(w, s)

BackupDrop(w) == DropSource(w, "backupdrop", App(from[w]), "extract")

-----------------------------------------------------------------------------
(* The new version is unpacked in the cache: over what is there for a full *)
(* bundle, into a fresh directory for a delta.                             *)
Extract(w) ==
    /\ pc[w] = "extract"
    /\ \/ Fills(Cache) /\ Goto(w, "extracting") /\ NoFault
       \/ Disturb(Removed(Cache)) /\ Abandon(w) /\ Fault(w, "extract")

(* What comes out: another worker may be writing or removing the same      *)
(* directory, or have taken it away.                                       *)
Unpacked(w) ==
    LET alone == \A x \in Workers \ {w} : pc[x] \notin {"extracting", "drop"}
    IN  IF tree[Cache] = "none" THEN Partial
        ELSE IF tree[Cache] \in Partial /\ alone THEN {ver[w]}
        ELSE {ver[w]} \cup Partial

(* A failed delta leaves the cache as it is. *)
ExtractEnd(w) ==
    LET hasBase == delta[w] => tree[Backup(from[w])] \in Versions
    IN  /\ pc[w] = "extracting"
        /\ \/ hasBase /\ NoFault
              /\ \E t \in Unpacked(w) : Disturb([tree EXCEPT ![Cache] = t])
              /\ Goto(w, IF delta[w] THEN "deploy" ELSE "scripts")
           \/ (IF hasBase THEN Fault(w, "extract") ELSE NoFault)
              /\ Disturb(IF delta[w] THEN tree ELSE Removed(Cache))
              /\ Abandon(w)

(* eam_utils_run_external_scripts reads the unpacked .info. *)
Scripts(w) ==
    /\ pc[w] = "scripts"
    /\ \/ IsAppDir(Cache) /\ UNCHANGED fsVars /\ Goto(w, "deploy") /\ NoFault
       \/ (IF IsAppDir(Cache) THEN Fault(w, "scripts") ELSE NoFault)
          /\ Disturb(Removed(Cache)) /\ Abandon(w)

(* eam_fs_deploy_app: out of the cache, or out of a prefix for a migrate.  *)
Source(w) == IF kind[w] = "migrate" THEN App(from[w]) ELSE Cache

SameDevice(w) ==
    to[w] \in OneDevice /\ (kind[w] = "migrate" => from[w] \in OneDevice)

CanDeploy(w) == tree[Source(w)] # "none" /\ TargetFree(to[w])

AfterDeploy(w) == IF kind[w] = "migrate" THEN "unlink" ELSE "linkbin"

Deploy(w) ==
    LET dst == App(to[w])
    IN  /\ pc[w] = "deploy"
        /\ \/ CanDeploy(w) /\ SameDevice(w) /\ NoFault
              /\ Disturb(Renamed(Source(w), dst)) /\ Goto(w, "drop")
           \/ CanDeploy(w) /\ ~SameDevice(w) /\ NoFault
              /\ Fills(dst) /\ Goto(w, "deploycopy")
           \/ (IF CanDeploy(w) THEN Fault(w, "deploy") ELSE NoFault)
              /\ Disturb(DeployFailed(Source(w), to[w])) /\ Abandon(w)

DeployCopy(w) ==
    LET src == Source(w)
    IN  /\ pc[w] = "deploycopy"
        /\ \/ tree[src] # "none" /\ NoFault
              /\ Disturb(Copied(src, App(to[w])))
              /\ Goto(w, "drop")
           \/ (IF tree[src] = "none" THEN NoFault ELSE Fault(w, "deploy"))
              /\ Disturb(DeployFailed(src, to[w])) /\ Abandon(w)

DeployDrop(w) == DropSource(w, "drop", Source(w), AfterDeploy(w))

-----------------------------------------------------------------------------
(* eam_fs_create_symlinks, and what its callers do when it fails: an       *)
(* install takes its work back, an update restores, the commands that only *)
(* make links leave things as they are, ensure-symlink-farm goes on with   *)
(* the next directory, and nobody looks when it is part of a restore.      *)
NextPlace(w, ok) ==
    /\ pc' = [pc EXCEPT ![w] = "farm"]
    /\ at' = [at EXCEPT ![w] = NoPrefix]
    /\ ensured' = [ensured EXCEPT ![w] = @ /\ ok]
    /\ UNCHANGED <<params, phase, todo, skipped, old, ops, crashes, result, owned>>

NoRollback(w) ==      \* a mutant of LinkFailed
    IF kind[w] = "farm" THEN NextPlace(w, FALSE)
    ELSE IF phase[w] = "back" \/ kind[w] # "update" THEN Finish(w, "failed")
    ELSE GoBack(w, "restore")
LinkFailed(w) ==
    IF kind[w] = "farm" THEN NextPlace(w, FALSE)
    ELSE IF phase[w] = "back" \/ kind[w] \in {"migrate", "symlinks"} THEN Finish(w, "failed")
    ELSE GoBack(w, IF kind[w] = "install" THEN "unlink" ELSE "restore")

(* do_binaries_symlinks: no desktop file is a failure; a program that is   *)
(* not there, or whose link cannot be made, is looked for in the search    *)
(* path, and if it is found there nothing else happens.                    *)
PassOver(w) ==
    /\ InPath
    /\ pc' = [pc EXCEPT ![w] = "linksys"]
    /\ skipped' = [skipped EXCEPT ![w] = @ \cup {"bin"}]
    /\ UNCHANGED <<params, phase, todo, at, ensured, old, ops, crashes, result, owned>>

LinkBin(w) ==
    LET pl == LinkPlace(w)
    IN  /\ pc[w] = "linkbin"
        /\ UNCHANGED <<tree, appLink, backupLink>>
        /\ \E files \in Exports(tree[Target(pl)]) :
              \/ files = LinkNames /\ LinkTo("bin", pl) /\ Goto(w, "linksys") /\ NoFault
              \/ /\ "sys" \in files
                 /\ IF "bin" \in files THEN LinkCut("bin") /\ Fault(w, "linkbin")
                    ELSE UNCHANGED link /\ NoFault
                 /\ PassOver(w) \/ LinkFailed(w)
              \/ "sys" \notin files /\ UNCHANGED link /\ LinkFailed(w) /\ NoFault

(* The other directories may be missing. *)
LinkSys(w) ==
    LET pl == LinkPlace(w)
    IN  /\ pc[w] = "linksys"
        /\ UNCHANGED <<tree, appLink, backupLink>>
        /\ \E files \in Exports(tree[Target(pl)]) :
              \/ (IF "sys" \in files THEN LinkTo("sys", pl) ELSE UNCHANGED link)
                 /\ Goto(w, "linkapp") /\ NoFault
              \/ (LinkCut("sys") \/ ("sys" \in files /\ LinkTo("sys", pl)))
                 /\ LinkFailed(w) /\ Fault(w, "linksys")

(* The desktop caches: a command of eamctl that cannot update any fails,   *)
(* a transaction goes on.                                                  *)
HooksFail(w) == kind[w] \in {"migrate", "symlinks", "farm"} /\ Fault(w, "hooks")

(* The link in the applications directory; after it a successful update    *)
(* drops the backup.                                                       *)
BackupLeft(w) ==      \* a mutant of LinkedUp
    IF kind[w] = "farm" THEN NextPlace(w, TRUE)
    ELSE IF phase[w] = "back" THEN Finish(w, "failed") ELSE Finish(w, "ok")
LinkedUp(w) ==
    IF kind[w] = "farm" THEN NextPlace(w, TRUE)
    ELSE IF phase[w] = "back" THEN Finish(w, "failed")
    ELSE IF kind[w] = "update" THEN Goto(w, "remove")
    ELSE Finish(w, "ok")

LinkAppStep(w) ==
    /\ pc[w] = "linkapp"
    /\ \/ LinkApp(LinkPlace(w)) /\ UNCHANGED <<tree, link>>
          /\ \/ LinkedUp(w) /\ NoFault
             \/ kind[w] # "farm" /\ Finish(w, "failed") /\ HooksFail(w)
       \/ UNCHANGED fsVars /\ LinkFailed(w) /\ Fault(w, "linkapp")

(* eam_fs_ensure_symlink_farm: the directories with an .info, those of the *)
(* primary storage first, in the order they are read.  Failed sanity       *)
(* checks skip a storage and count as a failure; a storage that cannot be  *)
(* opened, or read on, is left there and does not.  Failed hooks come at   *)
(* the end.                                                                *)
Rest(w, p) == {pl \in todo[w] : pl[1] = p}

FarmVisit(w) ==
    /\ pc[w] = "farm"
    /\ \E pl \in todo[w] :
          /\ \A ql \in todo[w] : ql[1] = Primary => pl[1] = Primary
          /\ UNCHANGED <<fsVars, params, phase, old, ops, crashes, result, owned>>
          /\ \/ /\ IsAppDir(pl)
                /\ pc' = [pc EXCEPT ![w] = "linkbin"]
                /\ at' = [at EXCEPT ![w] = pl]
                /\ todo' = [todo EXCEPT ![w] = @ \ {pl}]
                /\ UNCHANGED <<ensured, skipped>> /\ NoFault
             \/ /\ ~IsAppDir(pl)
                /\ todo' = [todo EXCEPT ![w] = @ \ {pl}]
                /\ UNCHANGED <<pc, at, ensured, skipped>> /\ NoFault
             \/ /\ {App(pl[1]), Backup(pl[1])} \subseteq todo[w]
                /\ todo' = [todo EXCEPT ![w] = @ \ Rest(w, pl[1])]
                /\ ensured' = [ensured EXCEPT ![w] = FALSE]
                /\ UNCHANGED <<pc, at, skipped>> /\ Fault(w, "sanity")
             \/ /\ todo' = [todo EXCEPT ![w] = @ \ Rest(w, pl[1])]
                /\ skipped' = [skipped EXCEPT ![w] = @ \cup {pl[1]}]
                /\ UNCHANGED <<pc, at, ensured>> /\ Fault(w, "opendir")

FarmDone(w) ==
    /\ pc[w] = "farm" /\ todo[w] = {}
    /\ UNCHANGED fsVars
    /\ \/ Finish(w, IF ensured[w] THEN "ok" ELSE "failed") /\ NoFault
       \/ Finish(w, "failed") /\ HooksFail(w)

(* eam_fs_restore_app; its result is not looked at.  Once a backup could   *)
(* be made in the prefix its rename back does not cross devices.           *)
RestoreApp(w) ==
    LET src == Backup(from[w])
        dst == App(from[w])
        can == CanRename(src, dst) /\ TargetFree(from[w])
    IN  /\ pc[w] = "restore"
        /\ \/ can /\ Disturb(Renamed(src, dst)) /\ Goto(w, "linkbin") /\ NoFault
           \/ (IF can THEN Fault(w, "restore") ELSE NoFault)
              /\ UNCHANGED fsVars /\ Finish(w, "failed")

-----------------------------------------------------------------------------
(* The recursive removal that ends an uninstall, the rollback of an        *)
(* install, or a successful update, which has a backup left.               *)
Doomed(w) ==
    CASE kind[w] = "install" -> App(to[w])
      [] kind[w] = "update" -> Backup(from[w])
      [] OTHER -> Resolve(from[w])

Nothing(w) == kind[w] = "uninstall" /\ from[w] = NoPrefix

Removal(w) == IF kind[w] = "install" THEN "failed" ELSE "ok"

ErrorIgnored(w) == "ok"      \* a mutant of RemovalFailed
RemovalFailed(w) ==
    IF kind[w] = "update" \/ force[w] THEN "ok" ELSE "failed"

Remove(w) ==
    /\ pc[w] = "remove"
    /\ \/ Nothing(w) /\ UNCHANGED fsVars /\ Finish(w, "ok") /\ NoFault
       \/ ~Nothing(w) /\ NoFault
          /\ \/ tree[Doomed(w)] = "none" /\ UNCHANGED fsVars /\ Finish(w, Removal(w))
             \/ tree[Doomed(w)] # "none" /\ Guts(Doomed(w)) /\ Goto(w, "removing")
       \/ ~Nothing(w) /\ UNCHANGED fsVars /\ Finish(w, RemovalFailed(w)) /\ Fault(w, "remove")

Removing(w) ==
    /\ pc[w] = "removing"
    /\ \/ Disturb(Removed(Doomed(w))) /\ Finish(w, Removal(w)) /\ NoFault
       \/ UNCHANGED fsVars /\ Finish(w, RemovalFailed(w)) /\ Fault(w, "remove")

-----------------------------------------------------------------------------
(* The machine stops: no worker is left, and the disk is as it was. *)
Crash ==
    /\ crashes < MaxCrashes
    /\ \E w \in Workers : pc[w] # "idle"
    /\ crashes' = crashes + 1
    /\ pc' = [w \in Workers |-> "idle"]
    /\ UNCHANGED <<fsVars, params, phase, result, faults, farm, old, owned, ops>>

Next ==
    \/ \E w \in Workers :
          \/ InstallStart(w) \/ UpdateStart(w) \/ UninstallStart(w) \/ MigrateStart(w)
          \/ SymlinksStart(w) \/ FarmStart(w) \/ FarmVisit(w) \/ FarmDone(w)
          \/ Check(w) \/ Unlink(w) \/ BackupApp(w) \/ BackupCopy(w) \/ BackupDrop(w)
          \/ Extract(w) \/ ExtractEnd(w) \/ Scripts(w)
          \/ Deploy(w) \/ DeployCopy(w) \/ DeployDrop(w)
          \/ LinkBin(w) \/ LinkSys(w) \/ LinkAppStep(w) \/ RestoreApp(w)
          \/ Remove(w) \/ Removing(w)
    \/ Crash

Spec == Init /\ [][Next]_vars

-----------------------------------------------------------------------------
(* The failures the code rolls back from, or reports without a promise. *)
Handled ==
    {<<"install", s>> : s \in {"check", "extract", "scripts", "deploy", "drop",
                               "linkbin", "linksys", "linkapp"}}
    \cup {<<"update", s>> : s \in {"check", "backupcopy", "extract", "scripts", "deploy", "drop"}}
    \cup {<<"uninstall", s>> : s \in {"check", "remove"}}
    \cup {<<k, s>> : k \in {"migrate", "symlinks"}, s \in {"check", "hooks"}}
    \cup {<<"farm", s>> : s \in {"check", "sanity", "opendir", "linkbin", "linksys", "linkapp", "hooks"}}

-----------------------------------------------------------------------------
(* Properties.                                                             *)

(* Every variable stays in its set.                                        *)
Skippable == Storages \cup (IF InPath THEN {"bin"} ELSE {})

TypeOK ==
    /\ FsTypeOK
    /\ pc \in [Workers -> Steps]
    /\ kind \in [Workers -> Kinds \cup {"none"}]
    /\ from \in [Workers -> Prefixes \cup {NoPrefix}]
    /\ to \in [Workers -> Prefixes \cup {NoPrefix}]
    /\ ver \in [Workers -> Trees]
    /\ delta \in [Workers -> BOOLEAN]
    /\ force \in [Workers -> BOOLEAN]
    /\ phase \in [Workers -> {"forward", "back"}]
    /\ result \in [Workers -> {"none", "ok", "already", "failed"}]
    /\ faults \in [Workers -> 0..MaxFaults]
    /\ todo \in [Workers -> SUBSET Places]
    /\ at \in [Workers -> Places \cup {NoPrefix}]
    /\ ensured \in [Workers -> BOOLEAN]
    /\ skipped \in [Workers -> SUBSET Skippable]
    /\ owned \in BOOLEAN
    /\ ops \in 0..MaxOps
    /\ crashes \in 0..MaxCrashes

Quiet == crashes = 0 /\ \A w \in Workers : pc[w] = "idle"

Reports(w, k, r) == kind[w] = k /\ result[w] = "none" /\ result'[w] = r

(* As it was when w started, but for the leftovers of a failed removal,    *)
(* which may be gone.                                                      *)
SameTrees(w) ==
    \A pl \in Places \ {Cache} :
       tree[pl] = oldTree[w][pl] \/ (tree[pl] = "none" /\ oldTree[w][pl] \in Partial)

SameLinks(w) == link = oldLink[w] /\ appLink = oldAppLink[w]

(* An install that reports a failure has rolled everything back            *)
(* (eam-install.c, "Further operations require rollback"): the disk and    *)
(* every link are as they were when it started.                            *)
InstallRestores ==
    \A w \in Workers : Reports(w, "install", "failed") => SameTrees(w)' /\ SameLinks(w)'
InstallFailureRestores == [][InstallRestores]_vars

(* An update that reports a failure has put the old version back, with its *)
(* links if it had them (eam-update.c, "If the update failed, restore from *)
(* backup and bail out").                                                  *)
WasShown(w) ==
    LET p == IF from[w] = Apps THEN oldAppLink[w] ELSE from[w]
    IN  oldAppLink[w] = p /\ oldLink[w] = [n \in LinkNames |-> App(p)]

UpdateRestores ==
    \A w \in Workers : Reports(w, "update", "failed") =>
       SameTrees(w)' /\ (WasShown(w) => SameLinks(w)')
UpdateFailureRestores == [][UpdateRestores]_vars

(* What a success means: the new version is complete at its target and     *)
(* every link shows that copy; after an uninstall that was not forced no   *)
(* link is left and the application is gone.  Made again, the links show   *)
(* the copy they were made for, or the one ensure-symlink-farm found where *)
(* it could read.  The link of the program is the one a success may be     *)
(* without (do_binaries_symlinks, "already in $PATH"): where the search    *)
(* path has another program of the name, if making the link failed.        *)
Needed(w) == LinkNames \ skipped[w]

Achieved(w) ==
    CASE kind[w] = "uninstall" -> force[w] \/ (NoLinks /\ ~AppIsInstalled(from[w]))
      [] kind[w] = "symlinks" ->
            tree[Target(LinkPlace(w))] \in Versions => ShownAt(Needed(w), LinkPlace(w)[1])
      [] kind[w] = "farm" ->
            \A p \in Storages \ skipped[w] :
               tree[App(p)] \in Versions => ShownAt(Needed(w), p)
      [] OTHER -> /\ tree[App(to[w])] = ver[w]
                  /\ ver[w] \in Versions => ShownAt(Needed(w), to[w])

SuccessReported ==
    \A w \in Workers, k \in Kinds : Reports(w, k, "ok") => Achieved(w)'
SuccessAchieves == [][SuccessReported]_vars

(* While nothing runs, no link of the farm dangles: the desktop never      *)
(* shows an application that cannot be started (eam-uninstall.c, "Remove   *)
(* the symbolic links first, so even if any later operation fails, the     *)
(* application won't appear in the system").                               *)
QuietLinksLive == Quiet => LinksLive

(* Transactions leave at most one complete copy of the application: an     *)
(* update drops the backup, a migrate the old place.                       *)
Copies == {pl \in Places \ {Cache} : tree[pl] \in Versions}

QuietOneCopy == Quiet => \A pl, ql \in Copies : pl = ql

(* While nothing runs, eamctl list-apps names an application the user has  *)
(* installed and never removed, whatever updates, migrates and commands    *)
(* that make links again have done to it, failed ones too.                 *)
QuietListed == Quiet /\ owned => Listed

(* ensure-symlink-farm repairs what a crash left (its unit runs it at      *)
(* every boot): when it reports success and there is anything to link to   *)
(* in a storage it could read, every link leads into one directory, and    *)
(* list-apps names an application that is in such a storage.  Only the     *)
(* program's link may be another one, where the search path has a program  *)
(* of the name and the link could not be made.                             *)
Repaired ==
    \A w \in Workers : Reports(w, "farm", "ok") =>
       LET read == Storages \ skipped'[w]
           found(p) == {pl \in {App(p), Backup(p)} : IsAppDir(pl)'}
       IN  /\ (\E p \in read : found(p) # {}) =>
                 \E p \in Storages : \E pl \in found(p) :
                    \A n \in Needed(w)' : link'[n] = pl
           /\ (\E p \in read : App(p) \in found(p)) => Listed'
FarmRepairs == [][Repaired]_vars

(* Once the user has the application, some complete copy of it stays on    *)
(* the disk until the user removes it, at every step, failure and crash:   *)
(* eam_update_run_sync keeps the old copy around in case the update fails. *)
(* It holds of updates in place, and of one worker that migrates nothing,  *)
(* whose storages rename directories and whose updates can make the links. *)
NeverLost == owned => Copies # {}

(* An update holds the backup of its source from eam_fs_backup_app to the  *)
(* restore or the removal of the backup.                                   *)
HoldsBackup(w) ==
    /\ kind[w] = "update"
    /\ \/ pc[w] \in {"backupdrop", "extract", "extracting", "scripts", "deploy", "deploycopy",
                    "drop", "restore", "remove"}
       \/ phase[w] = "forward" /\ pc[w] \in {"linkbin", "linksys", "linkapp"}

(* The backup directory excludes updates of one application from each      *)
(* other, though nothing in the code locks it: an update that has made its *)
(* backup finds it complete until it ends, and no other update of the same *)
(* source gets that far.                                                   *)
BackupExcludes ==
    \A w \in Workers :
       HoldsBackup(w) =>
          /\ tree[Backup(from[w])] \in Versions
          /\ \A x \in Workers \ {w} : HoldsBackup(x) => from[x] # from[w]

-----------------------------------------------------------------------------
(* What a single worker does, as AppVersions sees it: the version the user *)
(* has is the backup's while an update is not decided, the new copy's once *)
(* it is, and what there was before an install until that is linked.       *)
HeldAt(pl) == IF tree[pl] \in Versions THEN tree[pl] ELSE "none"

VersionIn(t) ==
    LET complete == {t[pl] : pl \in Places \ {Cache}} \cap Versions
    IN  IF complete = {} THEN "none" ELSE CHOOSE v \in complete : TRUE

Decided(w) == kind[w] = "update" /\ phase[w] = "forward" /\ pc[w] \in {"remove", "removing"}

VersionDuring(w) ==
    CASE Decided(w) -> HeldAt(App(to[w]))
      [] HoldsBackup(w) /\ ~Decided(w) -> HeldAt(Backup(from[w]))
      [] kind[w] = "install" -> VersionIn(oldTree[w])
      [] OTHER -> VersionIn(tree)

Running == {w \in Workers : pc[w] # "idle"}
Worker == CHOOSE w \in Workers : Running # {} => w \in Running

Brings == {"install", "update"}
CallKind(w) == IF kind[w] = "uninstall" /\ force[w] THEN "forced" ELSE kind[w]

Versioned ==
    INSTANCE AppVersions
    WITH TakesAway <- {"uninstall", "forced"},
         Keeps <- {"migrate", "symlinks", "farm"},
         version <- IF Running = {} THEN VersionIn(tree) ELSE VersionDuring(Worker),
         before <- VersionIn(IF Running = {} THEN tree ELSE oldTree[Worker]),
         call <- IF Running = {} THEN [kind |-> "none", ver |-> "none"]
                 ELSE [kind |-> CallKind(Worker),
                       ver |-> IF kind[Worker] \in Brings THEN ver[Worker] ELSE "none"],
         report <- result[Worker]

(* Every transaction is atomic for the user: what its many steps do to the *)
(* disk amounts to one change of version, or to none, and the report says  *)
(* which of them it was.                                                   *)
AtomicVersions == Versioned!Spec

=============================================================================

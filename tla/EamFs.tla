------------------------------- MODULE EamFs -------------------------------
(***************************************************************************)
(* The disk as eam-fs-utils.c and eam-utils.c change it, for one           *)
(* application: its directory in the applications directory (/endless) and *)
(* in each storage, the "<appid>.backup" next to it, the extraction        *)
(* directory in the cache, the symlink farm under the applications         *)
(* directory and the link /endless/<appid>.                                *)
(*                                                                         *)
(* A directory tree is abstracted to whether it is there, is partial or is *)
(* a complete copy of a version; an empty directory counts as none.  Of a  *)
(* partial tree it matters whether it has the .info, and which of the      *)
(* files the farm links to it has: a "part" has no .info, a "bare" one has *)
(* nothing to link to, a "nobin" has all but the program, a "husk" lacks   *)
(* files of neither kind.  Both versions export the same file names.       *)
(***************************************************************************)
EXTENDS Naturals

CONSTANTS
    Apps,          \* eam_config_get_applications_dir, /endless
    Storages,      \* the primary and secondary storage
    Primary,       \* the primary one
    NoPrefix,      \* a NULL prefix, and the target of a link that is not there
    Versions,      \* versions of the application a bundle can hold
    OneDevice,     \* the prefixes on the file system of the cache directory
    Overlay        \* prefixes where rename() of a directory reports EXDEV

Prefixes == Storages \cup {Apps}

ASSUME PrefixAssumption ==
    NoPrefix \notin Prefixes /\ "cache" \notin Prefixes /\ Apps \notin Storages
ASSUME DeviceAssumption == OneDevice \subseteq Prefixes /\ Overlay \subseteq Prefixes
ASSUME PrimaryAssumption == Primary \in Storages
ASSUME VersionAssumption == Versions \cap {"none", "part", "bare", "nobin", "husk"} = {}

App(p) == <<p, "app">>
Backup(p) == <<p, "backup">>
Cache == <<"cache", "app">>

Places == {App(p) : p \in Prefixes} \cup {Backup(p) : p \in Prefixes} \cup {Cache}
ASSUME PlaceAssumption == NoPrefix \notin Places

Partial == {"part", "bare", "nobin", "husk"}
Trees == {"none"} \cup Partial \cup Versions

(* The farm: "bin" stands for the binary in /endless/bin, "sys" for the    *)
(* links in the other system directories.                                  *)
LinkNames == {"bin", "sys"}

VARIABLES
    tree,       \* place -> what is there
    link,       \* link name -> the place it points into, or NoPrefix
    appLink,    \* what /endless/<appid> points to, if it is a link
    backupLink  \* the same for /endless/<appid>.backup

fsVars == <<tree, link, appLink, backupLink>>

FsInit ==
    /\ tree = [pl \in Places |-> "none"]
    /\ link = [n \in LinkNames |-> NoPrefix]
    /\ appLink = NoPrefix
    /\ backupLink = NoPrefix

FsTypeOK ==
    /\ tree \in [Places -> Trees]
    /\ link \in [LinkNames -> (Places \ {Cache, Backup(Apps)}) \cup {NoPrefix}]
    /\ appLink \in Storages \cup {NoPrefix}
    /\ backupLink \in Storages \cup {NoPrefix}

-----------------------------------------------------------------------------
(* Path lookups: <prefix>/<appid> follows the link in the applications     *)
(* directory; a path built from a NULL prefix is empty.                    *)
Resolve(p) == IF p = Apps /\ appLink # NoPrefix THEN App(appLink) ELSE App(p)
TreeAt(p) == IF p = NoPrefix THEN "none" ELSE tree[Resolve(p)]

(* Where a link leads: one into /endless/<appid> by way of the link there. *)
Target(pl) == IF pl = App(Apps) THEN Resolve(Apps) ELSE pl

(* eam_fs_is_app_dir: there is an .info, whatever else is missing. *)
IsAppDir(pl) == tree[pl] \in Versions \cup {"bare", "nobin", "husk"}

(* The names a tree may have files for: the desktop file is among "sys",   *)
(* and without an .info a tree can have any of them.                       *)
Exports(t) ==
    CASE t \in Versions \cup {"husk"} -> {LinkNames}
      [] t = "nobin" -> {{"sys"}}
      [] t = "part" -> SUBSET LinkNames
      [] OTHER -> {{}}

(* eam_utils_app_is_installed: the .info is the application's. *)
AppIsInstalled(p) == p # NoPrefix /\ IsAppDir(Resolve(p))

(* eam-uninstall.c: detect_prefix. *)
DetectPrefix == appLink

-----------------------------------------------------------------------------
(* eam_fs_rmdir_recursive and eam_fs_prune_dir on a whole directory. *)
Removed(pl) == [tree EXCEPT ![pl] = "none"]

(* A tree that is being written, or removed, by its files in any order. *)
Halfway(pl) == \E t \in Partial : tree' = [tree EXCEPT ![pl] = t]

Remains(t) ==
    CASE t = "part" -> {"part"}
      [] t = "bare" -> {"part", "bare"}
      [] t = "nobin" -> {"part", "bare", "nobin"}
      [] OTHER -> Partial
Gutted(pl) == \E t \in Remains(tree[pl]) : tree' = [tree EXCEPT ![pl] = t]

(* rename() of a directory: it replaces nothing but an empty directory. *)
RenameReplaces(src, dst) == tree[src] # "none"      \* a mutant of CanRename
CanRename(src, dst) == tree[src] # "none" /\ tree[dst] = "none"

SourceKept(src, dst) == [tree EXCEPT ![dst] = tree[src]]      \* a mutant of Renamed
Renamed(src, dst) == [tree EXCEPT ![dst] = tree[src], ![src] = "none"]
Copied(src, dst) == [tree EXCEPT ![dst] = tree[src]]

(* A link in the way of the target makes rename() and mkdir() fail. *)
TargetFree(p) == tree[App(p)] = "none" /\ Resolve(p) = App(p)

(* eam_fs_deploy_app gives up: the target is cleaned up, through the link  *)
(* if it is one, and the source is removed whatever happened.              *)
DeployFailed(src, p) == [tree EXCEPT ![Resolve(p)] = "none", ![src] = "none"]

-----------------------------------------------------------------------------
(* The symlink farm. *)

(* eam_fs_prune_symlinks: rmsymlinks_recursive goes by the names in the    *)
(* application's directory, wherever the links point.  The link in the     *)
(* applications directory always goes.                                     *)
PruneFarm(p) ==
    \E files \in Exports(TreeAt(p)) :
       link' = [n \in LinkNames |-> IF n \in files THEN NoPrefix ELSE link[n]]

AppLinkKept(p) == PruneFarm(p) /\ UNCHANGED <<appLink, backupLink>>      \* a mutant of PruneSymlinks
PruneSymlinks(p) == PruneFarm(p) /\ appLink' = NoPrefix /\ UNCHANGED backupLink

(* Its walks give up at an error, and nobody looks: any of the links may   *)
(* stay.                                                                   *)
PruneGivesUp(p) ==
    /\ \E files \in Exports(TreeAt(p)) : \E names \in SUBSET files :
          link' = [n \in LinkNames |-> IF n \in names THEN NoPrefix ELSE link[n]]
    /\ appLink' \in {appLink, NoPrefix}
    /\ UNCHANGED backupLink

(* do_binaries_symlinks and one round of symlinkdirs_recursive: a link     *)
(* that is in the way is replaced.                                         *)
LinkToPrefix(n, pl) == link' = [link EXCEPT ![n] = pl[1]]      \* a mutant of LinkTo
LinkKept(n, pl) ==      \* a mutant of LinkTo
    link' = IF link[n] = NoPrefix THEN [link EXCEPT ![n] = pl] ELSE link
LinkTo(n, pl) == link' = [link EXCEPT ![n] = pl]

(* create_symlink fails, with or without having removed the old link.      *)
LinkCut(n) == link' \in {link, [link EXCEPT ![n] = NoPrefix]}

(* The last step of eam_fs_create_symlinks makes /endless/<appid>, or      *)
(* /endless/<appid>.backup for a backup; EEXIST is not an error.           *)
LinkApp(pl) ==
    LET p == pl[1]
        made(l) == IF l = NoPrefix /\ tree[<<Apps, pl[2]>>] = "none" /\ p # Apps THEN p ELSE l
    IN  IF pl = App(p)
          THEN appLink' = made(appLink) /\ UNCHANGED backupLink
          ELSE backupLink' = made(backupLink) /\ UNCHANGED appLink

-----------------------------------------------------------------------------
(* The application complete under p, shown by every link, and nowhere else. *)
InstalledAt(p, v) ==
    /\ tree = [pl \in Places |-> IF pl = App(p) THEN v ELSE "none"]
    /\ link = [n \in LinkNames |-> App(p)]
    /\ appLink = p
    /\ backupLink = NoPrefix

NoLinks == link = [n \in LinkNames |-> NoPrefix] /\ appLink = NoPrefix

(* A link of the farm leads to a file of the application, and              *)
(* /endless/<appid> to the application.                                    *)
LinksLive ==
    /\ \A n \in LinkNames :
          link[n] # NoPrefix => \A files \in Exports(tree[Target(link[n])]) : n \in files
    /\ appLink # NoPrefix => AppIsInstalled(appLink)

(* The copy under p is the one the system shows: these names of the farm,  *)
(* and /endless/<appid>, lead there.                                       *)
ShownAt(names, p) ==
    /\ \A n \in names : link[n] # NoPrefix /\ Target(link[n]) = Resolve(p)
    /\ Resolve(Apps) = Resolve(p)

(* eamctl list-apps: the application, if it is in the applications         *)
(* directory or linked there.                                              *)
Listed == IsAppDir(Resolve(Apps))

=============================================================================

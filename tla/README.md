# A verification development for eos-app-manager

eos-app-manager installs, updates and removes application bundles. A D-Bus
daemon, `com.endlessm.AppManager`, does it for unprivileged clients; the
`eamctl` tool does it directly when it runs as root, and through the daemon
otherwise. This directory holds TLA+ modules translated from the C code under
`src/` and `tools/`, TLC configurations that check them on small instances, and
proofs checked by TLAPS. Paths below are relative to the repository.

## 1. Inventory

| Part | State it keeps | Operations | What makes it correct |
|---|---|---|---|
| `src/eam-dbus-server.c`, main loop | the loop, the bus name, the poll timer | poll every 60 s, SIGHUP, SIGTERM/SIGINT, name lost, quit | ends when idle long enough, and never while it serves somebody |
| `src/eam-service.c`, manager | busy counter, idle timer, next transaction number | Install, Update, Uninstall, GetUserCapabilities | the counter is balanced on every path; every call is answered |
| `src/eam-transaction-dbus.c`, transaction objects | sender, cancellable, pending invocation, registration | CompleteTransaction, CancelTransaction, sender vanished, completion callback | freed once, never used after; one answer per call |
| `src/eam-transaction.c` and the `*_run_async` functions | a GTask and a thread per run | run_sync in a thread, finish on the loop | nothing of the loop is touched by the thread |
| `src/eam-install.c` | bundle, signature, prefix | verify, extract, scripts, deploy, link; roll back | a failure leaves nothing behind |
| `src/eam-update.c` | bundle, source and target prefix | verify, back up, full or delta update, link, drop the backup; restore | a failure gives the old version back |
| `src/eam-uninstall.c` | prefix, force | unlink, remove | the application no longer shows, whatever fails later |
| `src/eam-fs-utils.c` | directories, `<appid>.backup`, the symlink farm, `/endless/<appid>` | deploy, back up, restore, copy, remove, create and prune links, fix permissions, farm at boot | links lead to complete applications; the only copy is never removed by accident |
| `src/eam-utils.c` | none of its own | extraction, deltas, GPG, scripts, path search | failure is reported and leaves a known state |
| `src/eam-config.c` | a key file, a per-process cache | get, set, reset | a write changes its key only |
| `tools/eam-command-install.c`, `-update.c`, `-uninstall.c` | one session with the daemon each | ask for capabilities, begin, complete, cancel | the exit code is true; no command and no daemon is left waiting |
| `tools/eam-command-migrate.c`, `-create-symlinks.c`, `-ensure-symlink-farm.c`, `-init-fs.c` | none | move an application; make links again; make the farm at boot | nothing is lost by a move; the links lead to one complete copy again |
| `tools/eam-command-config.c`, `eos-select-app-server` | none | list, get, set, reset; select a server and restart the daemon | the daemon works with what was set |
| other `tools/eam-command-*.c`, `eam-dbus-utils.c`, `eam-log.c`, `eam-error.c` | none | queries, printing, the Polkit check | |

The daemon's handlers run one at a time on the main loop. Each Install or Update
call makes a transaction object with a D-Bus path; a later CompleteTransaction
call on that path starts a worker thread, whose result comes back to the loop as
a callback. Worker threads and root's `eamctl` processes share the disk and
nothing else: there is no lock per application, and the extraction directory
`<cache>/<appid>` and the backup `<prefix>/<appid>.backup` have fixed names.
The symlink farm is shared by the transactions of all applications. The
configuration file is shared by all processes, is replaced whole, and is read
by the daemon when it starts.

The hard parts, listed line by line under `hazards` in `PROJECT.json`: freeing
an object whose worker still runs; the balance of the busy counter; the idle
poll racing clients and workers; rollback after every possible failure; crashes
between the steps of an update, and what the repair at boot makes of them; two
transactions on one application at once; transactions on different applications
in one directory of links; two writers of the configuration file.

## 2. Modules

| Module | Models | Needs |
|---|---|---|
| `TransactionCalls` | abstract: what the D-Bus transaction interface promises a caller | |
| `EamService` | the daemon: main loop, manager, transaction objects, clients, worker threads as tasks | `TransactionCalls` |
| `EamServiceProofs` | the theorems about its invariants | `EamService` |
| `EamServiceRefinement` | the theorem that it implements `TransactionCalls` | `EamServiceProofs` |
| `EamCtl` | install, update and uninstall commands as clients of the daemon, composed with it | `EamService` |
| `EamCtlProofs` | the theorems about the commands, and about the daemon with them | `EamCtl`, `EamServiceRefinement` |
| `EamConfig` | the configuration file, its writers and the daemon that loads it | |
| `EamConfigProofs` | the theorems about it | `EamConfig` |
| `EamPermissions` | the walk that opens an application's tree to other users | |
| `EamPermissionsProofs` | the theorems about it | `EamPermissions` |
| `AppVersions` | abstract: transactions that are atomic for the user | |
| `EamFs` | the disk of one application and the operations of `eam-fs-utils.c` on it | |
| `EamTransactions` | install, update, uninstall, migrate, create-symlinks and ensure-symlink-farm, step by step, in several workers, with failures and crashes | `EamFs`, `AppVersions` |
| `EamTransactionsProofs` | the theorems about it, with any number of workers | `EamTransactions` |
| `EamSerialProofs` | the theorems about one transaction after the other: rollback, restore, success, atomicity; the repair after a crash | `EamTransactionsProofs` |
| `EamFarm` | the directories of links that all applications share, name by name | |
| `EamFarmProofs` | the theorems about it | `EamFarm` |
| `MC*` | instances for TLC | |

Definitions marked "a mutant of" (or "mutant") are wrong versions of the
definition that follows them; no specification uses them. Substituting one for
its original makes the property it is paired with in `PROJECT.json` fail, which
shows that the property depends on that piece of code.

### EamService

`busy`, `elapsed` and `last` are `busy_counter`, `timer` (in poll periods) and
`last_transaction`. A transaction object is the number in its path; `tx`,
`sender`, `cancelled`, `bundle` and `invocation` are the fields of
`EamRemoteTransaction`, `invocation` being the number of the CompleteTransaction
call it points to. `task[x][k]` and `reply[x][k]` are the GTask of call k and
what its caller was told. Every handler or callback is one action, because the
loop runs it to completion; `freedAccess` records a callback on freed memory,
after which the model stops, since nothing can be said of the program any more.
`Exit` is separate from the quit because `g_main_loop_quit` lets the iteration
under way dispatch its other sources.

`TransactionCalls` knows objects that are unused, open or gone, and calls that
are worked on, answered or cancelled. `Promise` in `EamService` is the refinement
mapping: an object is gone when its memory is freed, a call counts as answered
when its reply is sent, and what `busy_counter`, the cancellable and the pending
invocation do is hidden. The daemon's end may leave calls without a reply.

Authorization is a choice of outcomes. What a worker does is abstracted to its
result: without a bundle path it can only fail.

### EamCtl

A command is a process and a client of `EamService`: `session` says where its
`main` is, or how it exited. Its steps are the actions of `EamService` with what
the command does with the reply: `Begin` is `SendRequest`, `Answer` the handler
of the request, `Complete` CompleteTransaction with a bundle path, `CompleteAnswer`
the completion callback. `GetUserCapabilities`, a query, is one step with its
reply. `allowed` is the outcome of the capability checks for the user; the
handler of the request checks again, with its own outcome. `done` is a ghost: a
worker thread did what the command asked for.

One life of the daemon is modelled. A call under way when it ends is answered by
the bus with an error (`Lost`); a command that has not begun is left to the next
daemon, which D-Bus would activate. Root's commands bypass the daemon: they are
workers of `EamTransactions`.

### EamPermissions

`fix_permissions_for_application` is a recursion. Its stack is the path from the
top directory to the node `at[w]`; `left[w][n]` is what the enumerator of the
call for `n` has not returned, `retval[w][n]` its local variable. `Enter` is the
recursive call, `FixMode` the `stat` and `chmod` with the return of TRUE,
`GiveUp` the return of FALSE for a child that failed, `Fail` any failing system
call, the `stat` of a dangling link among them. The tree is given by `Parent`;
`Under`, the subtree of each node, is determined by the assumption. Directories
are taken to be accessible to their owner, as the bundles unpack them.

### EamConfig

The file holds a raw value, a number or a word, for each key, or is missing or
does not parse. An `eamctl config` process (`pc[c]`) loads the file
(`LoadKeyFile`), changes one key of what it loaded and writes it all back
(`Save`); nothing locks the file in between. `Parsed` is
`eam_config_set_key_internal`: a raw value of the wrong type, or a number out of
range, reads as the default, and a negative number is converted to a guint.
`SelectServer` is the script `eos-select-app-server`, which kills the daemon
after its `eamctl config set` succeeded. The daemon's part is the configuration
it loaded, its idle time and a pending signal; whether it has work is the
business of `EamService`. `missed`, `loaded` and `selected` are ghosts.

### EamFs and EamTransactions

One application is modelled; what those of different applications do to each
other in the shared directories is `EamFarm`. A directory is absent, partial, or
a complete copy of a version; of a partial one it matters whether it still has
its `.info` (it then counts as installed) and which of the files that links are
made for: the program ("nobin" has all but it) and the others. `Exports` is the
names a directory may still have; recursive removals take files away in any
order. The farm is two links, the
binary in `/endless/bin` and one for all other system directories, plus the
links `/endless/<appid>` and `/endless/<appid>.backup`. Link names are those of
the application, and both versions export the same ones: files a new version no
longer has are in `EamFarm`.

`pc[w]` is where the `run_sync` function of a worker is; each step is a system
call or a run of calls that other workers cannot tell apart. Long operations
(extraction, copies across file systems, recursive removals) are two steps with
a partial directory between them. A failure (`Fault`) stands for an I/O error,
a bad signature, a helper that exits with an error and a cancelled transaction
alike. `phase` becomes "back" when a transaction undoes its work. `oldTree`,
`oldLink`, `oldAppLink` and `owned` are ghosts. Path lookups follow
`/endless/<appid>` (`Resolve`), because the default prefix of an update, the
applications directory, does. `FarmVisit` takes the directories of a storage in
any order, the primary storage first, as `eam_fs_ensure_symlink_farm` does.

`LinkBin` is `do_binaries_symlinks` with its three places: when the program's
link cannot be made, for want of the file or of the `symlink`, the search path may
have a program of that name (`InPath`), and the code goes on without the link
(`PassOver`). `FarmVisit` passes over a storage it cannot open or read on, as the
code does, without a failure. The ghost `skipped` remembers both, and the
properties of a success say what it then means: `SuccessAchieves` and
`FarmRepairs` are about all links but a program's that was passed over, and about
the storages that could be read. The removal of a source after a copy or a rename
is a step of its own (`DropSource`), which may fail or be interrupted without
anybody noticing; so is a removal of links that gives up (`PruneGivesUp`).

What is abstracted: an empty directory counts as none; removing links by name is
one step, and so is the cleaning up after a failed extraction, deployment or copy
of a backup, which does not fail; the non-fatal steps at the end of a transaction
(Python compilation, desktop caches)
appear only where their failure is reported, by the commands of `eamctl`
(`HooksFail`).

`AppVersions` has no directories at all: the user has one version or none, a
transaction takes effect in one step, and its report says whether it did.
`Versioned` in `EamTransactions` maps a worker's state to it: during an update
the user's version is that of the backup, until everything is in place and only
the backup's removal is left (`Decided`).

### EamFarm

The links of the directory for programs, filled from a bundle's `bin` and
`games`, and of another directory, `top`, with a subdirectory, `sub`, that comes
and goes; a bundle may have a file under the subdirectory's name instead.
`link[n]` is the application whose file the name leads to, `dir[a]` the version
application `a` has. Workers run on different applications at once.

A worker makes links one by one: `Clear` and `Make` are the `unlink` and `symlink`
of `create_symlink`, and every call that makes a link may fail. `Binary`, `Games`
and `InPath` are the three places `do_binaries_symlinks` tries for the program,
one after the other also when a link cannot be made; `FindProgram` is
`eam_utils_find_program_in_path` with the PATH that `remove_dir_from_path` leaves
of it. Links are removed one by one and by name, whoever's they are (`UnlinkNext`,
`PruneSub`). `lstat` and `unlink` of one name are one step, except at the
subdirectory's name, where a directory can come in between (`UnlinkSub`). A walk
gives up (`GivesUp`) where it meets a directory under a file's name, where another
worker has put a link in the place of the subdirectory it is in (ENOTDIR), and
where what it saw a link has become a directory (EISDIR); it then leaves the names
it has still to come to, and the ghost `left` remembers those that lead to the
worker's application. `good` is a ghost too: the applications whose last
transaction succeeded.

## 3. Runs

All runs disable the deadlock check: the daemon really ends, and a bounded
number of transactions is run.

| Run | Configuration | Question and answer |
|---|---|---|
| `service` | `MCEamService.cfg` | Two clients, two transactions, one CompleteTransaction each: type, exact busy counter, no use after free by a cancelled task, no abandoned and no doubly answered call, no idle quit under a client; the daemon implements `TransactionCalls` (`KeepsPromise`). Holds. |
| `service_live` | `MCEamServiceLive.cfg` | With fairness: calls are answered, also as `TransactionCalls` asks (`KeepsPromiseInTime`), vanished senders are released, an abandoned daemon ends. Holds. |
| `ctl` | `MCEamCtl.cfg` | Two commands of any kind, killed or not, under every signal: exit codes are true, a transaction is completed once, the cancel after a failure finds nothing, every command that began exits, and the daemon ends after them. Holds. |
| `config` | `MCEamConfig.cfg` | Two commands at once, any keys and values, failing saves, missing and broken files: a save undoes only what was written since its load, the selected server is served, the idle timeout is the file's. Holds. |
| `tx_serial` | `MCTxSerial.cfg` | Four transactions or link-making commands in sequence on two storages, one handled failure each: rollback, restore, success means success, no dangling link, no second copy, an application the user has is listed; the steps implement `AppVersions` (`AtomicVersions`). Holds. |
| `tx_crash` | `MCTxCrash.cfg` | Four transactions or repairs of the farm, two failures each of any steps but the links of an update and the removal of links, two crashes anywhere; of a repair any link, a storage it cannot read and the sanity checks may fail: an application the user has stays on the disk, and after a repair that reports success the farm leads into one directory of those read, but for a program's link that was passed over. Holds. |
| `tx_updates` | `MCTxUpdates.cfg` | Two concurrent workers, four updates in place, any failure, two crashes: the backup directory keeps updates apart, and nothing is lost. Holds. |
| `farm` | `MCEamFarm.cfg` | Two workers, five transactions on two applications that share a directory and names, every failure of a link: no dangling link but one a removal gave up on, no link lost that nobody else's name takes (a program's may be missing where PATH has the program), no empty directory left. Holds. |
| `permissions` | `MCEamPermissions.cfg` | Two overlapping walks, one kill, one failing call: no failure, no open top over a file that is not fixed; never write access. Holds. |
| `idle_quit_kills_work` | `MCIdleQuitKillsNoWork.cfg` | Violated: see section 4. |
| `tx_link_failure` | `MCTxLinkFailure.cfg` | Violated. |
| `ctl_update_refused` | `MCUpdateRefused.cfg` | Violated. |

### Bounds

* `MaxTx`, `MaxComplete`: transactions of one daemon and CompleteTransaction
  calls on one object. Two transactions and two clients give every pair of
  concurrent lives. With `MaxComplete` 1, which is what `eamctl` does, all
  safety properties hold; with 2 they do not (section 4). `ctl` allows 2, to
  show with `CompletedOnce` that its commands do not use the second, and the
  proofs allow any number.
* `Timeout` 1: the idle time is then below, at or above the limit. `BusyModulus`
  stands for 2^32; 256 is already out of reach of the counter, and the proofs
  need no more than that.
* `MaxOps`: an update, a transaction over what it left, and one more; four where
  the state space allows. `MaxFaults`: failures within one transaction.
  `MaxCrashes`: a crash, and one in the recovery from it.
* Storages: one on the file system of the cache (rename) and one not (copy).
  `Overlay` is a storage where rename of a directory reports `EXDEV`, the one
  case in which `eam_fs_backup_app` copies.
* `tx_serial` leaves out the failures the code does not roll back from: of the
  rename in a backup, of the links of an update, of the removal of the backup, of
  the removal of a source that was copied for a backup or a migrate, of the move
  and the links of a migrate, of the links made by hand, and of any removal of
  links. `tx_link_failure` and section 4 are about those.
* `tx_crash` leaves out migrates, failing links of an update and storages among
  the `Overlay`: each loses the application (section 4). It leaves out the failing
  removal of links, after which `FarmRepairs` is false (section 4); `tx_updates`
  has it. It has one version, since
  neither of its properties tells two complete copies apart, and four
  transactions, since the losses of section 4 take three or four.
* `tx_serial` and `tx_crash` run one worker, and `tx_updates`
  updates only, in place: other overlaps lose the application (section 4).
* `tx_crash` and `tx_updates` identify states that differ only in variables no
  guard and no property of theirs reads (`VIEW NoGhosts`: the reports and the
  old state of the disk); `tx_updates` and `farm` treat the workers as
  interchangeable, which they are. `FarmRepairs` looks at the report in the
  primed state of the step that makes it, and the guard `result = "none"` holds
  for every step of a worker that is not idle, so the view keeps its meaning.
* `InPath` is true in `tx_serial` and `tx_crash`, where any program may be found
  or not found in the search path, and false in `tx_updates` and
  `tx_link_failure`, where it makes no difference to the files.
* `EamFarm`: a bundle file is in one of four directories; one subdirectory is
  enough for the mkdir and rmdir of all levels, which are alike. The instance
  has a program in `games` and in `bin` that the system has too, one that is not a
  bundle's own, a name both applications have, and a file of the subdirectory's
  own name that comes with a second version, beside another file: removals give
  up in all three ways. No bundle has both a file of that name and files under it
  (`DirectoryAssumption`), which no file system allows. Errors of the disk in
  `lstat`, `unlink` and `rmdir` are left out. Five transactions on two
  applications give an install, an
  update and an uninstall of one between an install and an update of the other.
* `config`: one key of each type; two commands overlap in every way, and a third
  would only overlap one of them again. `IntMax` 3 gives values below, in and
  above the range; the proofs are for every width.
* `ctl`: two commands meet in the daemon in every pair of states; the third
  would add nothing that shares a transaction. Its liveness is checked without
  symmetry.
* `permissions`: a directory with a file and a file beside it is the smallest
  tree where a failure can be followed by a success in the same directory, and
  where it can be two levels down.
* No run installs in one storage what the other has (`InstallStart`), migrates
  onto leftovers of a failed removal or leftovers without their program
  (`MigrateStart`), makes links by hand for a copy that is not there or lacks its
  program (`SymlinksStart`), or forces an uninstall where the
  application is not while links lead to it by way of `/endless/<appid>`
  (`UninstallStart`): section 4 says what happens then.

### Fairness

`FairSpec` has weak fairness of the loop's dispatch of each source, of the
worker threads and of the clock. GLib dispatches ready sources in turn, and the
workers run finite work; nothing is assumed of clients, signals or the bus.
`CtlFairSpec` adds that a command makes its next call. The authorization inside
a handler may ask the user for a password and holds the loop until it is
answered or dismissed; fairness of the handlers takes that as given.

## 4. What the code does not do

* `idle_quit_kills_work`: cancelling pops the busy counter at once, while the
  worker thread continues; the idle poll can end the process in the middle of a
  deployment.
* `tx_link_failure`: when the links of an update in place fail, the restore
  renames the backup onto the new version, gets `ENOTEMPTY` and gives up. The
  backup that stays makes every later update fail after it has pruned the links.
* `ctl_update_refused`: GetUserCapabilities never reports CanUpdate, which
  `eamctl update` requires, so it refuses every user without write access to the
  applications directory. The model's sessions of `update` end there; what the
  daemon does with Update calls of other clients is covered by `service`.

The same models show more, with a constant or a property changed:

* `MCEamPermissions.cfg` with the invariant `TopFixedLast`:
  `fix_permissions_for_application` overwrites the result of a failing child by
  that of a later one; the top directory is opened, and no later walk looks
  at the rest again. The comment at `eam-fs-utils.c:152` promises that "we can
  try again the next time if something went wrong". A dangling link in a
  subdirectory, after which the subdirectory is left closed, is enough.
* `MCEamService.cfg` with `MaxComplete` 2: a second CompleteTransaction
  overwrites the pending invocation, the first caller is never answered
  (`NoCallAbandoned`), and the second task to finish uses the freed object
  (`NoUseAfterFree`).
* `MCTxLinkFailure.cfg` with `UpdatePrefixes <- DefaultPrefix` and `FaultSteps <-
  Nowhere`: an update whose
  client names no source storage looks the application up through
  `/endless/<appid>`, removes that link, and then cannot find the directory to
  back up; no link is restored (`UpdateFailureRestores`).
* `MCTxSerial.cfg` with `<<"migrate", "deploy">>` among the `FaultSteps`:
  `eam_fs_deploy_app` removes its source even if the move failed, and the
  application is gone (`QuietListed`, `NeverLost`); so does a migration onto the
  leftovers of a failed removal or of an interrupted one.
* `MCTxCrash.cfg` with `FaultSteps <- Everything`: an update from s2 to s1 whose
  links cannot be made puts the old version back in s2 and leaves the new one in
  s1. When an uninstall then fails halfway through the copy in s2, and another
  update runs from s2 to s1, it takes those remains for the installed
  application, finds its target taken, and `eam_fs_deploy_app` removes the target,
  by then the only complete copy (`NeverLost`). It needs no crash.
* `MCTxCrash.cfg` with `Overlay <- OneStorage`: a crash after the copy of a backup
  leaves the backup. When the removal after a failed install leaves half of the
  application, the next update's copy finds the old backup in the way, fails, and
  removes what is there (`eam-fs-utils.c:947`), the only complete copy
  (`NeverLost`).
* `MCTxUpdates.cfg` with `Kinds` the installs: an install that
  finds its target taken removes the target, which another install has deployed
  and reported (`NeverLost`). With two storages, or with the storage among the
  `Overlay`, two updates at once lose the application too, and
  `BackupExcludes` fails: an update whose look for the application is older than
  another's move, or whose copy of the backup meets another's.
* `MCEamFarm.cfg` with the invariant `AllLead` in the place of `NoDangling`: where
  the farm has a directory under a file's name, `rmsymlinks_recursive` cannot open
  the file as a directory and gives up on the rest of the names, and the links it
  has not come to dangle. It gives up too when another worker removes the
  subdirectory it walks and puts a link there, or makes it where there was a link.
* `MCTxCrash.cfg` with `FaultSteps <- Everything` and the property `FarmRepairs`:
  an uninstall or an update whose removal of links fails leaves `/endless/<appid>`
  or links behind; no repair replaces a `/endless/<appid>` that leads to what is no
  longer there.
* `MCTxSerial.cfg` with `<<"migrate", "drop">>` or `<<"update", "backupdrop">>`
  among the `FaultSteps`: the removal of a source after its copy fails, the call
  goes on, and two copies of the application are left (`QuietOneCopy`).
* A success without the program's link: where PATH has another program of the
  name, an install whose link cannot be made reports success and the name leads
  to that other program (`SuccessAchieves` without `skipped`).

What the models take over from the code, and a reader may not expect:

* After a crash `ensure-symlink-farm` makes links for every directory with an
  `.info`: a left-over `<appid>.backup` too, as an application of that name. The
  directory read last gets the links, so they may lead into the backup, and a
  directory that was removed half way and kept its `.info` is linked and counts
  as installed. `FarmRepairs` is what holds in spite of this.
* `/endless/<appid>` is made with EEXIST ignored. After a crash in the middle of
  a migrate it dangles, and no repair corrects it; an install of what the other
  storage has reports success while it shows the other copy.
* A storage that cannot be opened, or read to its end, counts as done:
  `ensure-symlink-farm` reports success without its applications.
* A migrate, or links moved by hand, of leftovers without the program fail at the
  program's link, after `/endless/<appid>` is removed and the files have moved:
  links that go by way of it, or to the old place, dangle.
* A migrate removes the links after the files have moved, by the names at the
  old place, where there are none; the new links replace them one by one.
* `create-symlinks` without a prefix makes links by way of `/endless/<appid>`; an
  uninstall that is forced for the other storage removes that link, no other.
* Links are removed by name. Of a name two applications have, the later one's
  link goes with the earlier one. An install can fail because another's removal
  takes the shared directory away between its `mkdir` and its `symlink`.
* `remove_dir_from_path` keeps the one directory it should drop from PATH, and as
  that is not in PATH all of PATH is searched: a program is found by
  another application's link. An absolute Exec under `/endless/<appid>` is
  looked for before that link is made.
* An InactivityTimeout of -n is one of 2^32 - n seconds. A value of the wrong
  type is stored, reported as set, and read as the default. The names
  `eamctl config list` prints for three keys (ServerURL, ProtocolVersion,
  DeltaUpdates) are not those `config set` takes (ServerUrl, ApiVersion,
  EnableDeltaUpdates), and a file that is missing cannot be set.

Read and not modelled: `eamctl install` sends the option StorageType, and the
daemon reads SourceStorageType and TargetStorageType only;
`eam_service_get_idle` returns the time since the last reset
of the timer, which the end of the work does not reset.

## 5. Proofs

`EamServiceProofs` proves, for every set of clients, every number of
transactions, every timeout and every counter width that can hold them:

* `Invariance`: `IInv`, the inductive invariant;
* `BusyCounterExact`, `TypeCorrect`, `CallbackSafe`, `CallsNotAbandoned`: the
  invariants of the run `service`;
* `RepliesFinal`, `IdleQuitSafe`: its action properties.

They are about behaviours with `[]CompletedOnce`, in which the clients complete
each transaction at most once however often they may: without it
`NoCallAbandoned` is false (section 4). The daemon cannot bring that about;
`EamCtlProofs` discharges it for the commands of `eamctl`.

The argument: `BusyExact` is not inductive alone, because whether a cancelled
task's callback pops the counter depends on the life of the object. `RemoteInv`
relates the object, the invocation it holds and the task of that invocation: a
task not yet called back belongs to an open object or to a cancelled one, so the
callback either returns early or finds the object open. `PathInv` says that
transaction numbers are fresh. One lemma per action shows that the action
preserves `IInv`, and the lemmas about cardinality relate the counter to the
sets of open transactions and pending uninstalls.

`EamServiceRefinement` proves from `IInv`, under the same assumptions, that the
daemon implements `TransactionCalls` (`Refinement`): every action maps to one of
its actions or to a stutter. Two general facts, on a step that changes one
object and on one that changes one call, carry the twenty actions; `IInv`
supplies that a cancelled object has at most the one call it holds pending.

`EamCtlProofs` proves, for every number of commands, of transactions and of
CompleteTransaction calls, whatever is killed and whichever signal comes:

* `CtlInvariance`: `CtlIInv`, the invariant of the composition;
* `CtlTypeCorrect`, `CommandsCompleteOnce`, `ExitCodesTruthful` and
  `CancelHarmless`: the invariants of the run `ctl`;
* `CommandsAreClients`: `CtlSpec => Spec`, and with it `PromiseToCommands`: the
  daemon keeps the promise of `TransactionCalls` to its commands, and its other
  safety properties, with no assumption on the clients left.

`CtlIInv` is `IInv` of the service, `CompletedOnce`, and `ClientOK` of each
command, which says what its place in `main` tells about the daemon: the object
of its path is its own, has had no CompleteTransaction call before it makes one,
and is not open any more when it cancels. `CompletedOnce` is needed for the
service's part and the service's part for `CompletedOnce`, so the two are proved
together. A step of another client, or of the daemon, that leaves a command's
object, calls and session alone leaves its `ClientOK` alone (`Frame`).

`EamConfigProofs` proves, for every number of commands, every set of keys, every
raw value and every integer width:

* `Fresh`: what a command will write back is what the file holds, but for the
  keys saved since it loaded the file; `LossIsOverlap`, that a save undoes
  nothing else, follows;
* `ServerSelected`: the script's way of reaching the daemon works, although the
  daemon may start anew between the save and the signal;
* `TimeoutHonoured` and `TypeCorrect`: the conversions.

`EamFarmProofs` proves, for every set of applications, versions, bundles and
programs, every number of workers and of transactions, from `NamesAssumption`,
`BundleAssumption` (the directories a bundle has) and `DirectoryAssumption` (in
one bundle a name is a file's or a directory's):

* `Invariance`: `IInv` of `EamFarmProofs`;
* `LinksLead`: no link dangles once nothing runs for its application, but those a
  removal gave up on (`left`);
* `AgreedLinksLead`: where all bundles agree on what is a directory
  (`BundlesAgree`) no removal gives up, and no link dangles at all;
* `OwnNamesKept`: the names an application shares with none stay linked after a
  success, whatever fails for others; a program that the system has as well is
  excepted, since success does not need its link;
* `NoDirectoryLeft`: the subdirectory does not outlive its links, whichever
  worker removes the last of them;
* `TypeCorrect`: the types, and that the shared directory is there for its links.

Neither property is inductive. While a worker runs, `LinksOK` says that links
lead to files even then, and that a worker that removes links has all those of
its application still before it or in `left`; `OwnOf` says that a name is linked or still to
be. A step of a worker then has two halves: it is local (`Local`: it changes
only its own position, its own application's directory, and links of names that
no other application has to itself), and it establishes the worker's own part
(`Mine`). `Compose` puts these together once for all actions. The directory
needs one more invariant, `SubUsed`: if it is there, then for a link in it, for a
worker that is still to make one there or to remove it, or for what a failed
update has left. `Hands` is what each action has to show for it, and
`SubCompose` is again the composition.

`EamTransactionsProofs` proves, for every number of workers, storages, versions,
faults, crashes and transactions:

* `StagesInvariance`: for each kind of transaction the stages it can be in, doing
  and undoing, and the parameters it then has; so `TypeCorrect`, for the whole
  module: no path is built from a missing prefix, and the farm never leads into
  the extraction directory;
* `UpdatesInvariance`: `UInv`, for updates in place, and from it
  `BackupIsExclusive` (`BackupExcludes`: one worker at most has a backup, and
  finds it complete until it ends) and `UpdatesLoseNothing` (`NeverLost`: what
  the user has stays on the disk).

The last two have the hypothesis `InPlace(p)`: all updates name the storage `p`,
`p` renames directories (it is not among the `Overlay`), and besides updates only
commands that make links run. It is the case of the daemon with one storage, and
of two storages when no update moves an application. Without it both are false:
section 4 has the runs. `UInv` says that the backup, once made, belongs to one
worker (`Exclusive`): `rename` fails when the target is a directory with files in
it, and only the worker that has made it removes it or renames it back. Whoever
has the backup also has the extraction directory to itself, so that what it
deploys is what it has unpacked (`UpdateOK`); all others stand before the backup
and touch neither. `NeverLost` is then a matter of the worker with the backup:
until its new version is in place and linked the backup is complete. A crash
takes the workers but no directory, so `UInv` is stated on the disk for
what a crash leaves.

`EamSerialProofs` proves, for any number of storages, on one file system or
several, with or without `rename`, any versions and any sequence of
transactions and commands, one after the other:

* `SerialInvariance`: `SerialOK`, the inductive invariant;
* `LinksStayLive`, `OneCopyStays` and `ListedStays`: the invariants of a quiet
  disk (`QuietLinksLive`, `QuietOneCopy`, `QuietListed`), until a crash;
* `InstallsRollBack`, `UpdatesPutBack` and `SuccessesAchieve`: what a report
  says of the disk (`InstallFailureRestores`, `UpdateFailureRestores`,
  `SuccessAchieves`), without crashes (`MaxCrashes = 0`);
* `AtomicForTheUser`: the transactions implement `AppVersions`
  (`AtomicVersions`), without crashes.

The hypothesis is `OneAtATime(w)`: one worker, updates that name their storages,
and failures of the steps in `Handled`. Each part is needed: section 4 shows what
two workers, an update by way of `/endless/<appid>`, failing links of an update
and a failing move of a migrate do. The run `tx_serial` is an instance of it.
`SuccessesAchieve` has two exceptions that are no part of its hypothesis but of
its statement and of the specification: the program's link where it was passed
over (`skipped`), and the calls that `InstallStart` and `MigrateStart` leave out.

A report is about the disk as it was when the transaction began, and a
transaction may begin after any sequence of others, failed or not. `SerialInv`
therefore has two halves. Between transactions the disk is `Settled`: one
storage at most has the application, there is no backup, and each link leads to
something it can show. During one, the ghosts hold a settled disk, and `Stage`
says, for each kind of transaction and each step, which places differ from it
and how (`Alike(w, pls)`: only `pls` and the cache), and where the links are. A
failed removal may leave a directory that still counts as installed, so
"settled" has to allow for it; that is why it speaks of what has an `.info`, not of
complete copies. One lemma per step shows the next stage, or, where the
transaction ends, that the disk is settled again and the report true (`Leaves`);
`Continued` and `Concluded` put that together.

The refinement rests on the same invariant. `Known` says what the refinement
mapping gives in every state of a transaction: the version it brings once an
update is decided, none once an uninstall has begun to remove what it found, and
otherwise the version the disk had at the beginning, wherever the copy of it is
by then. A step that changes what `Known` says is `TakesEffect`, any other step
in between a stutter (`GoesOnVersioned`); a step that ends a transaction is
`Succeeds`, `Fails` or `GivesUp` by its report, of which `Leaves` says what it
means on the disk (`EndsBringing`, `EndsKeeping`, `EndsUninstall`).

Of crashes the module proves, by an invariant of their own (`RepairInvariance`):

* `FarmRepaired`: `FarmRepairs`, after any number of crashes and with any step of
  any transaction failing but the removal of links.

The hypothesis `Repairable(w)` is one worker whose updates name their storages,
no migrates (`Lone`), and no failing removal of links: a crash in the middle of a
migrate leaves `/endless/<appid>` dangling, and so does a removal of links that
fails, and no repair corrects it (section 4). `Based`, proved first and for any
failure (`BasedInvariance`), is what one worker may rely on of its own work: what
it has unpacked, backed up or deployed is still whole when it goes on.
`Unlinked` is why crashes do no harm to `/endless/<appid>`: whoever takes a
directory away has removed it before, so that, if it is there, it leads to an
application at every moment (`Grounded`). `Relinked` follows the walk of
`ensure-symlink-farm`: of the directories it has made links for (`Seen`), the last
has all the links it needs, those of the storages it has passed over aside. What a
success then means is in the statement: it is about the storages that could be
read and the links that were not passed over, which `do_binaries_symlinks` and
`eam_fs_ensure_symlink_farm_for_prefix` report success without.

And that crashes and failures lose nothing (`SafeInvariance`, for `SafeInv`):

* `NothingIsLost`: `NeverLost`, after any number of crashes, with any step failing
  but the links of an update, failing removals of links among them.

The hypothesis `Recoverable(w)` is `Lone(w)`, links of updates that do not
fail, and storages that rename directories: what `tx_crash` is an instance of,
and without any one of the three the property is false (section 4). The
invariant has two cases. If some storage has a complete backup with which no
update is at work (`Spare`), nothing takes it away: `rename` does not replace a
directory with files in it, and an update restores or removes only what it has
backed up. Otherwise (`Sole`) one storage at most has the application, so that an
update that finds its target taken finds itself; the copy the user has is complete
there, or in the backup of the running update, and that update's own directory
is all that the steps after the backup remove. A crash turns the second case into
the first, or leaves it. `NeverLost` alone is not inductive: two copies, one of
them half removed, are what the losses of section 4 begin with.

`EamPermissionsProofs` proves, for every tree, every number of walks, failures
and kills:

* `Invariance`: `IInv` of `EamPermissions`;
* `TopIsFixedLast`: without failing system calls an open top directory means a
  fixed tree;
* `TypeCorrect`: others never get write access.

That the top is opened last is not inductive alone: it needs to know what a walk
has behind it. `WalkOK` says it for every call on the stack: each child of the
directory is still to be visited, or on the stack, or fixed with all below it.
Since modes only grow, a walk's steps keep this true for the others (`OtherWalk`).

Only model-checked: liveness, for which there is no proof rule to use, and so
`SessionEnds`, `DaemonEnds` and their like. Every safety property the runs check
is stated by a theorem, those of `EamTransactions` under the hypotheses above.

## 6. Not modelled

Logging, argument parsing and printing; authorization beyond its outcome; the
archive format, signatures, downloads and scripts beyond success and failure;
contents of files. `EamService` and `EamCtl` have one life of the daemon: a
client that keeps a transaction path across a restart, where numbers start over,
is not modelled. The two storages are not part of `EamCtl`. Of the queries,
`list-apps` is modelled (`Listed`); the others read what `EamFs` and `EamConfig`
already have and change nothing.

## 7. Plan

1. Done: `EamService`, `TransactionCalls`, `EamPermissions`, `EamConfig`,
   `EamFarm`, their runs and proofs; `EamCtl`, `EamFs`, `EamTransactions`,
   `AppVersions` and their runs.
2. Done: `EamCtlProofs`, `EamTransactionsProofs` and `EamSerialProofs`.
3. The composition of `EamService` and `EamTransactions`: what a client may
   conclude from a reply, with cancellation, over two lives of the daemon.

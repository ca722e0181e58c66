------------------------------ MODULE EamConfig ------------------------------
(***************************************************************************)
(* The configuration file (eam-config.c) and the processes around it:      *)
(* eamctl config set and reset (tools/eam-command-config.c), the script    *)
(* tools/eos-select-app-server, which sets ServerUrl and then kills the    *)
(* daemon, and the daemon, which loads the file once.                      *)
(*                                                                         *)
(* The file is its values by key, in one group or another; a raw value is  *)
(* a number or a word.  A save is g_file_set_contents, which replaces the  *)
(* file at once.  The cache an eamctl process keeps of the file dies with  *)
(* it and is left out.                                                     *)
(***************************************************************************)
EXTENDS Integers

CONSTANTS
    Commands,               \* slots for eamctl config processes
    Admins,                 \* those run by root
    Keys,                   \* eam_config_keys
    NumberKeys, BooleanKeys,   \* their types; the others are strings
    Timeout,                \* InactivityTimeout
    ServerUrl,
    UnknownKeys,            \* names that are not in the table
    Numbers, Words,         \* raw values
    True, False,            \* the words "true" and "false"
    Default,                \* key -> its default
    Unset,                  \* a key that is not in the file
    NoFile, BadFile,        \* a file that is missing, or does not parse
    None,                   \* no value
    IntMax,                 \* G_MAXINT
    MaxCommands             \* bound: commands in a behaviour

Raw == Numbers \cup Words
IntValues == -(IntMax + 1)..IntMax
UIntValues == 0..(2 * IntMax + 1)
Contents == [Keys -> Raw \cup {Unset}]

ASSUME KeysAssumption ==
    /\ NumberKeys \subseteq Keys /\ BooleanKeys \subseteq Keys \ NumberKeys
    /\ Timeout \in NumberKeys /\ ServerUrl \in Keys \ (NumberKeys \cup BooleanKeys)
    /\ UnknownKeys \cap Keys = {}
ASSUME RawAssumption ==
    /\ Numbers \subseteq Int /\ {True, False} \subseteq Words
    /\ Unset \notin Raw /\ None \notin Raw
    /\ NoFile \notin Contents /\ BadFile \notin Contents
ASSUME DefaultAssumption ==
    /\ Default \in [Keys -> Raw]
    /\ \A k \in NumberKeys : Default[k] \in IntValues \cap UIntValues
    /\ \A k \in BooleanKeys : Default[k] \in {True, False}
ASSUME BoundsAssumption == IntMax \in Nat /\ MaxCommands \in Nat
ASSUME CommandsAssumption == Admins \subseteq Commands

VARIABLES
    file,       \* what the file holds
    pc,         \* command -> the step it is at
    script,     \* command -> it is run by eos-select-app-server
    key, value, \* command -> what it sets; a reset sets the default
    image,      \* command -> the key file it loaded
    missed,     \* command -> keys others have saved since it loaded (ghost)
    count,      \* commands so far
    up,         \* the daemon runs
    config,     \* what the daemon loaded when it started
    loaded,     \* the raw timeout in the file when it started (ghost)
    idle,       \* its idle time
    term,       \* a SIGTERM is pending
    selected    \* the server the script set last, if it is still set (ghost)

command == <<pc, script, key, value, image, missed, count>>
daemon == <<up, config, loaded, idle, term>>
vars == <<file, command, daemon, selected>>

-----------------------------------------------------------------------------
(* An int assigned to a guint. *)
AsGuint(n) == IF n < 0 THEN n + 2 * IntMax + 2 ELSE n

(* eam_config_set_key_internal: a value that does not parse as its key's   *)
(* type reads as the default.                                              *)
SignedTimeout(k, raw) ==      \* a mutant of Parsed
    IF k \in NumberKeys /\ raw \in Numbers THEN raw
    ELSE IF raw = Unset \/ k \in NumberKeys THEN Default[k] ELSE raw
Parsed(k, raw) ==
    IF k \in NumberKeys
      THEN IF raw \in Numbers \cap IntValues THEN AsGuint(raw) ELSE Default[k]
    ELSE IF k \in BooleanKeys
      THEN IF raw \in {True, 1} THEN True
           ELSE IF raw \in {False, 0} THEN False ELSE Default[k]
    ELSE IF raw = Unset THEN Default[k] ELSE raw

Readable(f) == f \notin {NoFile, BadFile}

(* What the key file has for k, and eam_config_get: defaults without one.  *)
RawOf(f, k) == IF Readable(f) THEN f[k] ELSE Unset
Load(f) == [k \in Keys |-> Parsed(k, RawOf(f, k))]

TimerAlways(c) == TRUE      \* a mutant of TimerArmed
TimerArmed(c) == c[Timeout] > 0

-----------------------------------------------------------------------------
(* The file a machine has: as shipped, without some keys, or none.         *)
Init ==
    /\ \/ file \in {f \in Contents : \A k \in Keys : f[k] \in {Default[k], Unset}}
       \/ file \in {NoFile, BadFile}
    /\ pc = [c \in Commands |-> "off"]
    /\ script = [c \in Commands |-> FALSE]
    /\ key = [c \in Commands |-> ServerUrl]
    /\ value = [c \in Commands |-> Default[ServerUrl]]
    /\ image = [c \in Commands |-> NoFile]
    /\ missed = [c \in Commands |-> {}]
    /\ count = 0
    /\ up = FALSE
    /\ config = Load(NoFile)
    /\ loaded = Unset
    /\ idle = 0
    /\ term = FALSE
    /\ selected = None

(* eam_command_config after main has looked for the file; one that is not  *)
(* run by root ends at once.                                               *)
EamCommandConfig(c, k, v, s) ==
    /\ pc[c] = "off"
    /\ count < MaxCommands
    /\ count' = count + 1
    /\ pc' = [pc EXCEPT ![c] = IF c \in Admins /\ file # NoFile THEN "load" ELSE "off"]
    /\ key' = [key EXCEPT ![c] = k]
    /\ value' = [value EXCEPT ![c] = v]
    /\ script' = [script EXCEPT ![c] = s]
    /\ UNCHANGED <<file, image, missed, daemon, selected>>

SetCommand(c) == \E k \in Keys \cup UnknownKeys, v \in Raw : EamCommandConfig(c, k, v, FALSE)
ResetCommand(c) == \E k \in Keys : EamCommandConfig(c, k, Default[k], FALSE)
SelectServer(c) == \E v \in Words : EamCommandConfig(c, ServerUrl, v, TRUE)

(* eam_config_set_key and eam_config_reset_key load the file again.        *)
KeyFileKept(c) ==      \* a mutant of LoadKeyFile
    /\ pc[c] = "load"
    /\ image' = IF image[c] = NoFile THEN [image EXCEPT ![c] = file] ELSE image
    /\ missed' = [missed EXCEPT ![c] = {}]
    /\ pc' = [pc EXCEPT ![c] = IF Readable(file) /\ key[c] \in Keys THEN "save" ELSE "off"]
    /\ UNCHANGED <<file, script, key, value, count, daemon, selected>>
LoadKeyFile(c) ==
    /\ pc[c] = "load"
    /\ image' = [image EXCEPT ![c] = file]
    /\ missed' = [missed EXCEPT ![c] = {}]
    /\ pc' = [pc EXCEPT ![c] = IF Readable(file) /\ key[c] \in Keys THEN "save" ELSE "off"]
    /\ UNCHANGED <<file, script, key, value, count, daemon, selected>>

(* The whole file is written from what was loaded, with one key changed.   *)
Written(c) == [image[c] EXCEPT ![key[c]] = value[c]]

AfterSave(c) == IF script[c] THEN "kill" ELSE "off"

Save(c) ==
    /\ pc[c] = "save"
    /\ file' = Written(c)
    /\ pc' = [pc EXCEPT ![c] = AfterSave(c)]
    /\ missed' = [d \in Commands |->
          IF pc[d] = "save" /\ d # c
            THEN missed[d] \cup {k \in Keys : k = key[c] \/ file'[k] # file[k]}
            ELSE missed[d]]
    /\ selected' = IF file'[ServerUrl] = selected THEN selected ELSE None
    /\ UNCHANGED <<script, key, value, image, count, daemon>>

(* g_key_file_save_to_file fails: the old file stays. *)
SaveFails(c) ==
    /\ pc[c] = "save"
    /\ pc' = [pc EXCEPT ![c] = "off"]
    /\ UNCHANGED <<file, script, key, value, image, missed, count, daemon, selected>>

(* restartDaemon: pkill eamd. *)
RestartDaemon(c) ==
    /\ pc[c] = "kill"
    /\ pc' = [pc EXCEPT ![c] = "off"]
    /\ term' = up
    /\ selected' = IF file[ServerUrl] = value[c] THEN value[c] ELSE None
    /\ UNCHANGED <<file, script, key, value, image, missed, count, up, config, loaded, idle>>

-----------------------------------------------------------------------------
(* D-Bus activates the daemon: eam_service_constructed loads the file.     *)
DaemonStart ==
    /\ ~up
    /\ up' = TRUE
    /\ config' = Load(file)
    /\ loaded' = RawOf(file, Timeout)
    /\ idle' = 0
    /\ UNCHANGED <<file, command, term, selected>>

DaemonEnds ==
    /\ up' = FALSE
    /\ term' = FALSE
    /\ UNCHANGED <<file, command, config, loaded, idle, selected>>

(* A call resets the timer; time passes; bound: up to the largest guint.   *)
Call == up /\ idle' = 0 /\ UNCHANGED <<file, command, up, config, loaded, term, selected>>
Tick ==
    /\ up /\ idle + 1 \in UIntValues
    /\ idle' = idle + 1
    /\ UNCHANGED <<file, command, up, config, loaded, term, selected>>

(* timeout_cb, if eam_dbus_server_init started the timer. *)
TimeoutCb == up /\ TimerArmed(config) /\ idle > config[Timeout] /\ DaemonEnds
Reload ==      \* a mutant of SignalTerminate
    up /\ term /\ term' = FALSE
    /\ UNCHANGED <<file, command, up, config, loaded, idle, selected>>
SignalTerminate == up /\ term /\ DaemonEnds

Next ==
    \/ \E c \in Commands :
          \/ SetCommand(c) \/ ResetCommand(c) \/ SelectServer(c)
          \/ LoadKeyFile(c) \/ Save(c) \/ SaveFails(c) \/ RestartDaemon(c)
    \/ DaemonStart \/ Call \/ Tick \/ TimeoutCb \/ SignalTerminate

Spec == Init /\ [][Next]_vars

-----------------------------------------------------------------------------
(* Properties.                                                             *)

(* Every variable stays in its set: whatever is written to the file, the   *)
(* daemon's timeout is a guint and its booleans are booleans.              *)
TypeOK ==
    /\ file \in Contents \cup {NoFile, BadFile}
    /\ pc \in [Commands -> {"off", "load", "save", "kill"}]
    /\ script \in [Commands -> BOOLEAN]
    /\ key \in [Commands -> Keys \cup UnknownKeys]
    /\ value \in [Commands -> Raw]
    /\ image \in [Commands -> Contents \cup {NoFile, BadFile}]
    /\ missed \in [Commands -> SUBSET Keys]
    /\ count \in 0..MaxCommands
    /\ up \in BOOLEAN /\ term \in BOOLEAN
    /\ DOMAIN config = Keys
    /\ \A k \in NumberKeys : config[k] \in UIntValues
    /\ \A k \in BooleanKeys : config[k] \in {True, False}
    /\ loaded \in Raw \cup {Unset}
    /\ idle \in UIntValues
    /\ selected \in Raw \cup {None}

(* The loads and saves of two commands are not locked against each other,  *)
(* so a save can undo one that came after its load.  It undoes nothing     *)
(* else: every key it does not set keeps its value, unless another command *)
(* wrote that key in between.                                              *)
OnlyOverlapLoses ==
    [][\A c \in Commands :
          pc[c] = "save" /\ file' # file /\ file' = Written(c) =>
             \A k \in Keys \ (missed[c] \cup {key[c]}) : file'[k] = file[k]]_vars

(* The invariant behind it: what a command will write back is what the     *)
(* file holds, but for the keys it missed.                                 *)
ImagesFresh ==
    \A c \in Commands :
       pc[c] = "save" =>
          /\ Readable(file) /\ Readable(image[c]) /\ key[c] \in Keys
          /\ \A k \in Keys \ missed[c] : image[c][k] = file[k]

(* The daemon never rereads the file; eos-select-app-server therefore ends *)
(* it.  Once the signal has been taken, no daemon that runs works with     *)
(* another server than the one selected, until the file is changed again.  *)
SelectedServed ==
    up /\ ~term /\ selected # None => config[ServerUrl] = selected

(* The daemon ends for inactivity only after the time the file gave it     *)
(* when it started, and never if that was 0; a negative time is one of     *)
(* more than half the range of a guint, and the default is for a value     *)
(* that is missing, not a number or out of range.                          *)
QuitsAsConfigured ==
    [][up /\ ~up' /\ ~term =>
          IF loaded \in Numbers \cap IntValues
            THEN loaded # 0 /\ idle > (IF loaded > 0 THEN loaded ELSE IntMax)
          ELSE idle > Default[Timeout]]_vars

=============================================================================

--------------------------- MODULE EamConfigProofs ---------------------------
(***************************************************************************)
(* The theorems of EamConfig, for any number of commands, any keys of any  *)
(* type, any raw values and any width of an int.                           *)
(***************************************************************************)
EXTENDS EamConfig, TLAPS

(* What the file holds once a command wrote it, and what the daemon has of *)
(* the file it loaded.                                                     *)
Consistent ==
    /\ \A c \in Commands : pc[c] = "kill" => Readable(file)
    /\ selected # None => Readable(file) /\ file[ServerUrl] = selected
    /\ up => config[Timeout] = Parsed(Timeout, loaded)

IInv == TypeOK /\ ImagesFresh /\ Consistent /\ SelectedServed

-----------------------------------------------------------------------------
(* A key's value parses to a value of its type. *)
LEMMA ParsedType ==
    ASSUME NEW raw
    PROVE  /\ \A k \in NumberKeys : Parsed(k, raw) \in UIntValues
           /\ \A k \in BooleanKeys : Parsed(k, raw) \in {True, False}
<1>1. ASSUME NEW k \in NumberKeys PROVE Parsed(k, raw) \in UIntValues
  <2>1. CASE raw \in Numbers \cap IntValues
    BY <2>1, BoundsAssumption DEF Parsed, AsGuint, IntValues, UIntValues
  <2>2. CASE raw \notin Numbers \cap IntValues
    BY <2>2, DefaultAssumption DEF Parsed
  <2> QED BY <2>1, <2>2
<1>2. ASSUME NEW k \in BooleanKeys PROVE Parsed(k, raw) \in {True, False}
  <2>1. k \notin NumberKeys BY KeysAssumption
  <2> QED BY <2>1, DefaultAssumption DEF Parsed
<1> QED BY <1>1, <1>2

(* So does every key of a file, also of one that cannot be read. *)
LEMMA LoadType ==
    ASSUME NEW f
    PROVE  /\ DOMAIN Load(f) = Keys
           /\ \A k \in NumberKeys : Load(f)[k] \in UIntValues
           /\ \A k \in BooleanKeys : Load(f)[k] \in {True, False}
           /\ Load(f)[Timeout] = Parsed(Timeout, RawOf(f, Timeout))
<1>1. NumberKeys \subseteq Keys /\ BooleanKeys \subseteq Keys /\ Timeout \in Keys
  BY KeysAssumption
<1>2. \A k \in Keys : Load(f)[k] = Parsed(k, RawOf(f, k)) BY DEF Load
<1>3. DOMAIN Load(f) = Keys BY DEF Load
<1> QED BY <1>1, <1>2, <1>3, ParsedType

(* A server that is set reads as itself. *)
LEMMA ServerRead ==
    ASSUME NEW f \in Contents, f[ServerUrl] # Unset
    PROVE  Load(f)[ServerUrl] = f[ServerUrl]
<1>1. Readable(f) BY RawAssumption DEF Readable
<1>2. ServerUrl \in Keys /\ ServerUrl \notin NumberKeys /\ ServerUrl \notin BooleanKeys
  BY KeysAssumption
<1> QED BY <1>1, <1>2 DEF Load, RawOf, Parsed

LEMMA ReadableFile ==
    ASSUME TypeOK
    PROVE  Readable(file) <=> file \in Contents
BY RawAssumption DEF TypeOK, Readable

LEMMA RawOfType ==
    ASSUME TypeOK, NEW k \in Keys
    PROVE  RawOf(file, k) \in Raw \cup {Unset}
BY ReadableFile DEF RawOf, Contents

-----------------------------------------------------------------------------
(* The file a command writes is a file. *)
LEMMA WrittenType ==
    ASSUME IInv, NEW c \in Commands, pc[c] = "save"
    PROVE  /\ Written(c) \in Contents /\ Readable(Written(c))
           /\ \A k \in Keys \ (missed[c] \cup {key[c]}) : Written(c)[k] = file[k]
<1>1. image[c] \in Contents /\ key[c] \in Keys /\ value[c] \in Raw
  BY RawAssumption DEF IInv, TypeOK, ImagesFresh, Readable
<1>2. Written(c) \in Contents BY <1>1 DEF Written, Contents
<1>3. Readable(Written(c)) BY <1>2, RawAssumption DEF Readable
<1>4. \A k \in Keys \ {key[c]} : Written(c)[k] = image[c][k]
  BY <1>1 DEF Written, Contents
<1> QED BY <1>2, <1>3, <1>4 DEF IInv, ImagesFresh

LEMMA InitIInv == Init => IInv
<1> SUFFICES ASSUME Init PROVE IInv OBVIOUS
<1>1. file \in Contents \cup {NoFile, BadFile} BY DEF Init
<1>2. config = Load(NoFile) BY DEF Init
<1>3. TypeOK
  <2>1. ServerUrl \in Keys /\ Default[ServerUrl] \in Raw
    BY KeysAssumption, DefaultAssumption
  <2>2. 0 \in UIntValues /\ 0 \in 0..MaxCommands BY BoundsAssumption DEF UIntValues
  <2> QED BY <1>1, <1>2, <2>1, <2>2, LoadType DEF Init, TypeOK
<1>4. ImagesFresh BY DEF Init, ImagesFresh
<1>5. Consistent /\ SelectedServed BY DEF Init, Consistent, SelectedServed
<1> QED BY <1>3, <1>4, <1>5 DEF IInv

LEMMA StartIInv ==
    ASSUME IInv, NEW c \in Commands, NEW k \in Keys \cup UnknownKeys,
           NEW v \in Raw, NEW s \in BOOLEAN, EamCommandConfig(c, k, v, s)
    PROVE  IInv'
<1> USE DEF EamCommandConfig, daemon
<1>1. TypeOK' BY BoundsAssumption DEF IInv, TypeOK
<1>2. \A d \in Commands : pc'[d] \in {"save", "kill"} => d # c /\ pc'[d] = pc[d]
  BY DEF IInv, TypeOK
<1>3. ImagesFresh' BY <1>2 DEF IInv, TypeOK, ImagesFresh, Readable
<1>4. Consistent' /\ SelectedServed'
  BY <1>2 DEF IInv, TypeOK, Consistent, SelectedServed, Readable
<1> QED BY <1>1, <1>3, <1>4 DEF IInv

LEMMA LoadIInv ==
    ASSUME IInv, NEW c \in Commands, LoadKeyFile(c)
    PROVE  IInv'
<1> USE DEF LoadKeyFile, daemon
<1>1. TypeOK' BY DEF IInv, TypeOK
<1>2. ImagesFresh'
  <2> SUFFICES ASSUME NEW d \in Commands, pc'[d] = "save"
               PROVE  /\ Readable(file') /\ Readable(image'[d]) /\ key'[d] \in Keys
                      /\ \A k \in Keys \ missed'[d] : image'[d][k] = file'[k]
    BY DEF ImagesFresh
  <2>1. CASE d = c BY <2>1 DEF IInv, TypeOK
  <2>2. CASE d # c BY <2>2 DEF IInv, TypeOK, ImagesFresh
  <2> QED BY <2>1, <2>2
<1>3. Consistent' /\ SelectedServed'
  BY DEF IInv, TypeOK, Consistent, SelectedServed, Readable
<1> QED BY <1>1, <1>2, <1>3 DEF IInv

LEMMA SaveIInv ==
    ASSUME IInv, NEW c \in Commands, Save(c)
    PROVE  IInv'
<1> USE DEF Save, AfterSave, daemon
<1>1. file' \in Contents /\ Readable(file') BY WrittenType
<1>2. TypeOK' BY <1>1 DEF IInv, TypeOK
<1>3. ImagesFresh'
  <2> SUFFICES ASSUME NEW d \in Commands, pc'[d] = "save"
               PROVE  /\ Readable(image'[d]) /\ key'[d] \in Keys
                      /\ \A k \in Keys \ missed'[d] : image'[d][k] = file'[k]
    BY <1>1 DEF ImagesFresh
  <2>1. d # c /\ pc[d] = "save" BY DEF IInv, TypeOK
  <2>2. missed'[d] = missed[d] \cup {k \in Keys : k = key[c] \/ file'[k] # file[k]}
    BY <2>1
  <2>3. \A k \in Keys \ missed'[d] : k \notin missed[d] /\ file'[k] = file[k] BY <2>2
  <2> QED BY <2>1, <2>3 DEF IInv, ImagesFresh
<1>4. Consistent'
  BY <1>1 DEF IInv, TypeOK, Consistent
<1>5. SelectedServed' BY DEF IInv, SelectedServed
<1> QED BY <1>2, <1>3, <1>4, <1>5 DEF IInv

LEMMA SaveFailsIInv ==
    ASSUME IInv, NEW c \in Commands, SaveFails(c)
    PROVE  IInv'
<1> USE DEF SaveFails, daemon
<1>1. TypeOK' BY DEF IInv, TypeOK
<1>2. ImagesFresh' BY DEF IInv, TypeOK, ImagesFresh, Readable
<1>3. Consistent' /\ SelectedServed'
  BY DEF IInv, TypeOK, Consistent, SelectedServed, Readable
<1> QED BY <1>1, <1>2, <1>3 DEF IInv

LEMMA RestartIInv ==
    ASSUME IInv, NEW c \in Commands, RestartDaemon(c)
    PROVE  IInv'
<1> USE DEF RestartDaemon
<1>1. TypeOK' BY DEF IInv, TypeOK
<1>2. ImagesFresh' BY DEF IInv, TypeOK, ImagesFresh, Readable
<1>3. Consistent' BY DEF IInv, TypeOK, Consistent, Readable
<1>4. SelectedServed' BY DEF IInv, TypeOK, SelectedServed
<1> QED BY <1>1, <1>2, <1>3, <1>4 DEF IInv

LEMMA DaemonStartIInv ==
    ASSUME IInv, DaemonStart
    PROVE  IInv'
<1> USE DEF DaemonStart, command
<1>1. TypeOK'
  <2>1. 0 \in UIntValues BY BoundsAssumption DEF UIntValues
  <2>2. loaded' \in Raw \cup {Unset} BY RawOfType, KeysAssumption DEF IInv
  <2> QED BY <2>1, <2>2, LoadType DEF IInv, TypeOK
<1>2. ImagesFresh' BY DEF IInv, ImagesFresh, Readable
<1>3. Consistent' BY LoadType DEF IInv, Consistent, Readable
<1>4. SelectedServed'
  <2> SUFFICES ASSUME selected # None PROVE config'[ServerUrl] = selected
    BY DEF SelectedServed
  <2>1. file \in Contents /\ file[ServerUrl] = selected
    BY ReadableFile DEF IInv, Consistent
  <2>2. selected # Unset BY RawAssumption DEF IInv, TypeOK
  <2> QED BY <2>1, <2>2, ServerRead
<1> QED BY <1>1, <1>2, <1>3, <1>4 DEF IInv

(* The daemon's other steps change nothing the rest depends on. *)
LEMMA DaemonIInv ==
    ASSUME IInv, Call \/ Tick \/ TimeoutCb \/ SignalTerminate
    PROVE  IInv'
<1> USE DEF Call, Tick, TimeoutCb, SignalTerminate, DaemonEnds, command
<1>1. TypeOK'
  <2>1. 0 \in UIntValues BY BoundsAssumption DEF UIntValues
  <2> QED BY <2>1 DEF IInv, TypeOK
<1>2. ImagesFresh' BY DEF IInv, ImagesFresh, Readable
<1>3. Consistent' BY DEF IInv, Consistent, Readable
<1>4. SelectedServed' BY DEF IInv, SelectedServed
<1> QED BY <1>1, <1>2, <1>3, <1>4 DEF IInv

LEMMA NextIInv == IInv /\ [Next]_vars => IInv'
<1> SUFFICES ASSUME IInv, [Next]_vars PROVE IInv' OBVIOUS
<1>1. CASE UNCHANGED vars
  BY <1>1 DEF vars, command, daemon, IInv, TypeOK, ImagesFresh, Consistent,
              SelectedServed, Readable
<1>2. ASSUME NEW c \in Commands, SetCommand(c) PROVE IInv'
  BY <1>2, StartIInv DEF SetCommand
<1>3. ASSUME NEW c \in Commands, ResetCommand(c) PROVE IInv'
  BY <1>3, StartIInv, DefaultAssumption DEF ResetCommand
<1>4. ASSUME NEW c \in Commands, SelectServer(c) PROVE IInv'
  BY <1>4, StartIInv, KeysAssumption DEF SelectServer, Raw
<1> QED
  BY <1>1, <1>2, <1>3, <1>4, LoadIInv, SaveIInv, SaveFailsIInv, RestartIInv,
     DaemonStartIInv, DaemonIInv DEF Next

-----------------------------------------------------------------------------
(* The inductive invariant: every command that will save has an image of   *)
(* the file that is wrong only about the keys it missed, and the daemon    *)
(* has what the file held when it started.                                 *)
THEOREM Invariance == Spec => []IInv
BY InitIInv, NextIInv, PTL DEF Spec

(* The daemon's configuration has its types whatever the file holds.       *)
THEOREM TypeCorrect == Spec => []TypeOK
BY Invariance, PTL DEF IInv

(* What a command will write back is the file but for the keys it missed.  *)
THEOREM Fresh == Spec => []ImagesFresh
BY Invariance, PTL DEF IInv

(* eos-select-app-server leaves no daemon with another server.             *)
THEOREM ServerSelected == Spec => []SelectedServed
BY Invariance, PTL DEF IInv

(* Commands one after the other lose nothing; overlapping ones lose only   *)
(* what was written between the load and the save of the loser.            *)
THEOREM LossIsOverlap == Spec => OnlyOverlapLoses
<1>1. IInv => \A c \in Commands :
                 pc[c] = "save" /\ file' # file /\ file' = Written(c) =>
                    \A k \in Keys \ (missed[c] \cup {key[c]}) : file'[k] = file[k]
  BY WrittenType
<1> QED BY <1>1, Invariance, PTL DEF OnlyOverlapLoses

(* The time of inactivity is the file's, and negative ones are long.       *)
THEOREM TimeoutHonoured == Spec => QuitsAsConfigured
<1> DEFINE Late ==
      up /\ ~up' /\ ~term =>
          IF loaded \in Numbers \cap IntValues
            THEN loaded # 0 /\ idle > (IF loaded > 0 THEN loaded ELSE IntMax)
          ELSE idle > Default[Timeout]
<1>1. ASSUME IInv, TimeoutCb PROVE Late
  <2>1. config[Timeout] = Parsed(Timeout, loaded) /\ config[Timeout] > 0 /\ idle > config[Timeout]
    BY <1>1 DEF TimeoutCb, TimerArmed, IInv, Consistent
  <2>2. idle \in Int BY <1>1, BoundsAssumption DEF IInv, TypeOK, UIntValues
  <2>3. Timeout \in NumberKeys BY KeysAssumption
  <2>4. CASE loaded \in Numbers \cap IntValues
    BY <2>1, <2>2, <2>3, <2>4, BoundsAssumption DEF Parsed, AsGuint, IntValues
  <2>5. CASE loaded \notin Numbers \cap IntValues
    BY <2>1, <2>3, <2>5 DEF Parsed
  <2> QED BY <2>4, <2>5
<1>2. IInv /\ [Next]_vars => [Late]_vars
  <2> SUFFICES ASSUME IInv, Next, up, ~up', ~term PROVE Late OBVIOUS
  <2>1. TimeoutCb
    BY DEF Next, SetCommand, ResetCommand, SelectServer, EamCommandConfig, LoadKeyFile,
           Save, SaveFails, RestartDaemon, DaemonStart, Call, Tick, SignalTerminate, daemon
  <2> QED BY <1>1, <2>1
<1> QED BY <1>2, Invariance, PTL DEF Spec, QuitsAsConfigured

=============================================================================

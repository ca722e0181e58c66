------------------------------- MODULE EamCtl -------------------------------
(***************************************************************************)
(* The install, update and uninstall commands of eamctl, run by users who  *)
(* may not write the applications directory, as clients of the daemon of   *)
(* EamService.  A command is one process: it asks for the user's           *)
(* capabilities, begins a transaction, completes it, and its exit code     *)
(* tells the user what happened.  All its calls are synchronous, with no   *)
(* timeout.                                                                *)
(*                                                                         *)
(* One life of the daemon is modelled.  A command that has not begun when  *)
(* the daemon ends is served by the next one, and is left where it is.     *)
(***************************************************************************)
EXTENDS EamService

CONSTANT Commands       \* the commands users run

ASSUME CommandsAssumption == Commands \subseteq {"install", "update", "uninstall"}

VARIABLES
    command,    \* client -> the command it is
    allowed,    \* client -> polkit or the admin group allow its user the command
    session,    \* client -> where the command is, or how it exited
    path,       \* client -> the transaction it was given, MaxTx for none
    done        \* client -> a worker thread did what the command asks for

ctlVars == <<command, allowed, session, path, done>>
allVars == <<vars, ctlVars>>

Exited == {"success", "failed", "refused", "killed"}
Sessions == {"start", "begin", "asked", "complete", "waiting", "cancel"} \cup Exited

Reachable == Alive /\ busName

Moves(c, s) ==
    /\ session' = [session EXCEPT ![c] = s]
    /\ UNCHANGED <<command, allowed>>

-----------------------------------------------------------------------------
(* handle_get_user_capabilities: the keys of the reply, here TRUE or FALSE *)
(* together, since a command looks one up.                                 *)
Capabilities(c) == IF allowed[c] THEN {"CanInstall", "CanUninstall"} ELSE {}

(* The key a command looks up. *)
Needs(c) ==
    CASE command[c] = "install" -> "CanInstall"
      [] command[c] = "update" -> "CanUpdate"
      [] command[c] = "uninstall" -> "CanUninstall"

GetUserCapabilities(c) ==
    /\ session[c] = "start"
    /\ Reachable
    /\ Moves(c, IF Needs(c) \in Capabilities(c) THEN "begin" ELSE "refused")
    /\ UNCHANGED <<vars, path, done>>

ProxyFails(c) ==        \* no proxy for the manager, or for the transaction
    /\ session[c] \in {"start", "complete"}
    /\ Moves(c, "failed")
    /\ UNCHANGED <<vars, path, done>>

Method(c) ==
    CASE command[c] = "install" -> "Install"
      [] command[c] = "update" -> "Update"
      [] command[c] = "uninstall" -> "Uninstall"

Begin(c) ==
    /\ session[c] = "begin"
    /\ SendRequest(c, Method(c))
    /\ Moves(c, "asked")
    /\ UNCHANGED <<path, done>>

NextPath == last + 1        \* mutant: the path of the reply is read after the count
GivenPath == last

(* The reply to Install or Update is the path of the new transaction, the  *)
(* one to Uninstall comes from uninstall_cb.  The call of a command killed *)
(* meanwhile is handled all the same.                                      *)
Answer(c) ==
    /\ HandleRequest(c)
    /\ LET got == last' # last /\ tx'[last] = "open"
       IN  /\ path' = IF got THEN [path EXCEPT ![c] = GivenPath] ELSE path
           /\ Moves(c, IF session[c] # "asked" THEN session[c]
                       ELSE IF got THEN "complete"
                       ELSE IF uninstall'[c] = "running" THEN "asked" ELSE "failed")
    /\ UNCHANGED done

(* The exit of a command whose last call got this reply. *)
ErrorUnchecked(r) == "success"      \* mutant: the error of the call is not looked at
Outcome(r) == IF r \in {"ok", "success"} THEN "success" ELSE "failed"

UninstallAnswer(c) ==
    /\ UninstallCb(c)
    /\ Moves(c, IF session[c] = "asked" THEN Outcome(uninstall[c]) ELSE session[c])
    /\ UNCHANGED <<path, done>>

-----------------------------------------------------------------------------
(* The second half of install and update. *)

CompleteAgain(c) == Moves(c, "complete")    \* mutant: the call is made in a loop
CompleteOnce(c) == Moves(c, "waiting")

Complete(c) ==
    /\ session[c] = "complete"
    /\ CompleteTransaction(path[c], TRUE)
    /\ CompleteOnce(c)
    /\ UNCHANGED <<path, done>>

(* A failed completion is followed by CancelTransaction, and then by the   *)
(* failed exit.                                                            *)
CompleteAnswer(c) ==
    /\ path[c] \in Tx
    /\ TransactionCompleteCb(path[c], 1)
    /\ LET r == reply'[path[c]][1]
       IN  Moves(c, IF session[c] # "waiting" \/ r = "waiting" THEN session[c]
                    ELSE IF Outcome(r) = "success" THEN "success" ELSE "cancel")
    /\ UNCHANGED <<path, done>>

(* A transaction that is gone, or whose daemon is, has no object on the    *)
(* bus: the call fails, and its error is ignored.                          *)
Cancel(c) ==
    /\ session[c] = "cancel"
    /\ IF Reachable /\ tx[path[c]] = "open" THEN CancelTransaction(path[c]) ELSE UNCHANGED vars
    /\ Moves(c, "failed")
    /\ UNCHANGED <<path, done>>

(* The daemon is gone, or has lost its name before the command's last call *)
(* was sent: the bus answers in its place.                                 *)
Lost(c) ==
    /\ \/ ~Alive /\ session[c] \in {"asked", "waiting"}
       \/ ~Reachable /\ session[c] = "complete"
    /\ Moves(c, IF session[c] = "asked" THEN "failed" ELSE "cancel")
    /\ UNCHANGED <<vars, path, done>>

-----------------------------------------------------------------------------
(* The processes of the commands, and the worker threads in the daemon. *)

Leave(c) ==
    /\ session[c] \in Exited
    /\ Disconnect(c)
    /\ UNCHANGED ctlVars

Kill(c) ==
    /\ session[c] \notin Exited
    /\ Disconnect(c)
    /\ Moves(c, "killed")
    /\ UNCHANGED <<path, done>>

Work(c) ==
    /\ \/ UninstallWorkerReturn(c) /\ done' = [done EXCEPT ![c] = uninstall'[c] = "ok"]
       \/ /\ path[c] \in Tx
          /\ WorkerReturn(path[c], 1)
          /\ done' = [done EXCEPT ![c] = task'[path[c]][1] = "ok"]
    /\ UNCHANGED <<command, allowed, session, path>>

-----------------------------------------------------------------------------
CtlInit ==
    /\ Init
    /\ command \in [Clients -> Commands]
    /\ allowed \in [Clients -> BOOLEAN]
    /\ session = [c \in Clients |-> "start"]
    /\ path = [c \in Clients |-> MaxTx]
    /\ done = [c \in Clients |-> FALSE]

SessionStep(c) ==
    GetUserCapabilities(c) \/ Begin(c) \/ Complete(c) \/ Cancel(c) \/ Lost(c) \/ Leave(c)

DaemonStep(c) == Answer(c) \/ UninstallAnswer(c) \/ Work(c) \/ CompleteAnswer(c)

CtlNext ==
    \/ ServerNext /\ UNCHANGED ctlVars
    \/ \E x \in Tx : SenderVanished(x) /\ UNCHANGED ctlVars
    \/ \E c \in Clients : SessionStep(c) \/ DaemonStep(c) \/ ProxyFails(c) \/ Kill(c)

CtlSpec == CtlInit /\ [][CtlNext]_allVars

(* The fairness of EamService, and commands that make their next call.     *)
CtlFairness ==
    /\ WF_allVars(TimeoutCb /\ UNCHANGED ctlVars)
    /\ WF_allVars(Exit /\ UNCHANGED ctlVars)
    /\ WF_allVars(Tick /\ UNCHANGED ctlVars)
    /\ \A x \in Tx : WF_allVars(SenderVanished(x) /\ UNCHANGED ctlVars)
    /\ \A c \in Clients : /\ WF_allVars(SessionStep(c))
                          /\ WF_allVars(Answer(c) \/ UninstallAnswer(c))
                          /\ WF_allVars(Work(c))
                          /\ WF_allVars(CompleteAnswer(c))

CtlFairSpec == CtlSpec /\ CtlFairness

-----------------------------------------------------------------------------
(* The values of the variables of the commands; a command that got a path  *)
(* works on the transaction made for it.                                   *)
CtlTypeOK ==
    /\ command \in [Clients -> Commands]
    /\ allowed \in [Clients -> BOOLEAN]
    /\ session \in [Clients -> Sessions]
    /\ path \in [Clients -> 0 .. MaxTx]
    /\ done \in [Clients -> BOOLEAN]
    /\ \A c \in Clients :
          session[c] \in {"complete", "waiting", "cancel"} =>
             path[c] \in Tx /\ sender[path[c]] = c

(* The exit code of eamctl is true: success only if a worker thread of the *)
(* daemon did the work, and failure although it did only if the daemon     *)
(* ended before it could answer.                                           *)
ExitTruthful ==
    \A c \in Clients :
       /\ session[c] = "success" => done[c]
       /\ session[c] = "failed" /\ done[c] => loop = "exited"

(* CancelTransaction after a failed completion never reaches an open       *)
(* transaction: what makes the completion fail has freed it.  So eamctl    *)
(* never stops the work of a worker thread.                                *)
CancelFindsNothing ==
    \A c \in Clients :
       session[c] = "cancel" /\ Reachable => tx[path[c]] # "open"

(* A user whom the daemon would let run a command is not told by eamctl    *)
(* that they cannot: the keys of GetUserCapabilities are those of          *)
(* eam-service-interface.xml:24-26.                                        *)
AuthorizedNotRefused ==
    \A c \in Clients : session[c] = "refused" => ~allowed[c]

(* Without timeouts on its calls every command still exits, whatever       *)
(* happens to the daemon it has begun with.                                *)
SessionEnds ==
    \A c \in Clients :
       session[c] \notin {"start", "begin"} ~> session[c] \in Exited

(* The daemon that the commands activated goes away after them: none of    *)
(* their exits, ordinary, failed or killed, leaves it busy.                *)
DaemonEnds == <>(loop = "exited")

=============================================================================

----------------------------- MODULE EamService -----------------------------
(***************************************************************************)
(* The app manager daemon: the main loop of eam-dbus-server.c, the manager *)
(* object of eam-service.c and the transaction objects of                  *)
(* eam-transaction-dbus.c, with the GTask worker threads they start.       *)
(*                                                                         *)
(* Every handler runs to completion on the main loop, so it is one action. *)
(* What interleaves is the order in which the loop dispatches its sources  *)
(* (calls, name watches, finished tasks, the poll timer, signals), the     *)
(* worker threads, the clients and the clock.  What a worker does to the   *)
(* disk is abstracted to the result it hands to its task.                  *)
(***************************************************************************)
EXTENDS Naturals, FiniteSets

CONSTANTS
    Clients,       \* D-Bus peers, one unique bus name each
    NoClient,      \* the sender of a transaction that does not exist
    MaxTx,         \* bound: transactions created in a behaviour
    MaxComplete,   \* bound: CompleteTransaction calls on one transaction
    Timeout,       \* InactivityTimeout, in periods of the 60 s poll
    BusyModulus    \* values of busy_counter (a guint: 2^32)

ASSUME ClientsAssumption == IsFiniteSet(Clients) /\ NoClient \notin Clients
ASSUME BoundsAssumption == /\ MaxTx \in Nat
                           /\ MaxComplete \in Nat \ {0}
                           /\ Timeout \in Nat
ASSUME BusyAssumption == BusyModulus \in Nat /\ BusyModulus > MaxTx + Cardinality(Clients)

Tx == 0 .. MaxTx - 1            \* the number in a transaction's object path
Calls == 1 .. MaxComplete       \* the CompleteTransaction calls on it, in order

VARIABLES
    loop,         \* the main loop: "run", "quit" (finishing its iteration), "exited"
    busName,      \* the process owns com.endlessm.AppManager
    elapsed,      \* priv->timer: periods since reset_timer, up to Timeout + 1
    busy,         \* priv->busy_counter
    last,         \* priv->last_transaction
    connected,    \* clients still on the bus
    request,      \* client -> its manager call not yet dispatched
    uninstall,    \* client -> state of the task of its Uninstall call
    tx,           \* transaction -> "unused", "open" or "freed"
    sender,       \* remote->sender
    cancelled,    \* remote->cancellable is cancelled
    bundle,       \* a bundle path was set on remote->transaction
    invocation,   \* remote->invocation: which call it points to, 0 for NULL
    task,         \* transaction, call -> state of the call's GTask
    reply,        \* transaction, call -> what the caller was told
    freedAccess   \* a callback used the memory of a freed transaction

serverVars == <<loop, busName>>
serviceVars == <<elapsed, busy, last>>
clientVars == <<connected, request, uninstall>>
remoteVars == <<tx, sender, cancelled, bundle, invocation, task, reply, freedAccess>>
vars == <<serverVars, serviceVars, clientVars, remoteVars>>

Requests == {"none", "Install", "Update", "Uninstall"}
TaskStates == {"none", "running", "ok", "error", "done"}
Replies == {"none", "waiting", "success", "error", "cancelled"}

Open == {x \in Tx : tx[x] = "open"}
Uninstalling == {c \in Clients : uninstall[c] # "none"}

(* Tasks of cancelled transactions that the worker threads still run. *)
Running == {t \in Tx \X Calls : task[t[1]][t[2]] = "running"}

(* The process is there to run its handlers and threads; after a use of    *)
(* freed memory nothing more is said of it.                                *)
Alive == loop # "exited" /\ ~freedAccess

-----------------------------------------------------------------------------
(* eam-service.c: the helpers every handler is built from. *)

PushForgotten == UNCHANGED busy     \* mutant: a path that pops without a push
EamServicePushBusy == busy' = (busy + 1) % BusyModulus

PopForgotten == UNCHANGED busy      \* mutant: a path that never pops
EamServicePopBusy == busy' = (busy + BusyModulus - 1) % BusyModulus
EamServiceResetTimer == elapsed' = 0

EamServiceIsBusy == busy > 0

IdleWhileBusy == elapsed            \* mutant: get_idle without its is_busy test

(* The value timeout_cb compares with the configured inactivity timeout. *)
EamServiceGetIdle == IF EamServiceIsBusy THEN 0 ELSE elapsed

(* eam_service_get_next_transaction_path: the number of the next path. *)
EamServiceGetNextTransactionPath == last

-----------------------------------------------------------------------------
(* eam-dbus-server.c: the process and its main loop. *)

(* g_main_loop_quit: the loop stops after the iteration under way, whose   *)
(* other ready sources are still dispatched.                               *)
EamDbusServerQuit == loop' = "quit"

(* The poll source exists only for a positive timeout; a poll that finds   *)
(* the service not idle long enough changes nothing.                       *)
TimeoutCb ==
    /\ Timeout > 0
    /\ loop = "run"
    /\ EamServiceGetIdle > Timeout
    /\ EamDbusServerQuit
    /\ UNCHANGED <<busName, serviceVars, clientVars, remoteVars>>

SignalTerminate ==      \* SIGTERM and SIGINT
    /\ loop = "run"
    /\ EamDbusServerQuit
    /\ UNCHANGED <<busName, serviceVars, clientVars, remoteVars>>

SignalHangup ==         \* gives the name up first
    /\ loop = "run"
    /\ busName' = FALSE
    /\ EamDbusServerQuit
    /\ UNCHANGED <<serviceVars, clientVars, remoteVars>>

OnNameLost ==           \* another process replaced this one on the bus
    /\ loop = "run"
    /\ busName
    /\ busName' = FALSE
    /\ EamDbusServerQuit
    /\ UNCHANGED <<serviceVars, clientVars, remoteVars>>

(* eam_dbus_server_run returns and main ends the process; the worker       *)
(* threads die with it, wherever they are.                                 *)
Exit ==
    /\ loop = "quit"
    /\ loop' = "exited"
    /\ UNCHANGED <<busName, serviceVars, clientVars, remoteVars>>

(* One more poll period passes on priv->timer. *)
Tick ==
    /\ loop = "run"
    /\ elapsed <= Timeout
    /\ elapsed' = elapsed + 1
    /\ UNCHANGED <<serverVars, busy, last, clientVars, remoteVars>>

-----------------------------------------------------------------------------
(* Clients (eam-command-*.c: one manager call at a time each). *)

StartRequests == {c \in Clients : request[c] \in {"Install", "Update"}}

SendRequest(c, m) ==
    /\ Alive
    /\ busName
    /\ c \in connected
    /\ request[c] = "none" /\ uninstall[c] = "none"
    /\ m # "Uninstall" => last + Cardinality(StartRequests) < MaxTx
    /\ request' = [request EXCEPT ![c] = m]
    /\ UNCHANGED <<serverVars, serviceVars, connected, uninstall, remoteVars>>

(* A call already sent is still delivered: the bus keeps the order.        *)
Disconnect(c) ==
    /\ c \in connected
    /\ connected' = connected \ {c}
    /\ UNCHANGED <<serverVars, serviceVars, request, uninstall, remoteVars>>

-----------------------------------------------------------------------------
(* eam-service.c: the handlers of the manager interface. *)

(* eam_service_check_auth_full failed: the error is the reply, and the     *)
(* handler returns before it touches the timer.                            *)
NotAuthorized(c) ==
    /\ request' = [request EXCEPT ![c] = "none"]
    /\ UNCHANGED <<serverVars, serviceVars, connected, uninstall, remoteVars>>

(* eam_remote_transaction_new: the object is registered and its sender     *)
(* watched, or the registration fails and it is freed on the spot.         *)
EamRemoteTransactionNew(c, registered) ==
    LET x == EamServiceGetNextTransactionPath
    IN  /\ last' = last + 1
        /\ tx' = [tx EXCEPT ![x] = IF registered THEN "open" ELSE "freed"]
        /\ sender' = [sender EXCEPT ![x] = c]
        /\ UNCHANGED <<cancelled, bundle, invocation, task, reply, freedAccess>>

(* start_dbus_transaction, and the reply with the path or the error. *)
StartDbusTransaction(c) ==
    /\ request' = [request EXCEPT ![c] = "none"]
    /\ EamServiceResetTimer
    /\ \/ EamRemoteTransactionNew(c, TRUE) /\ EamServicePushBusy
       \/ EamRemoteTransactionNew(c, FALSE) /\ UNCHANGED busy
    /\ UNCHANGED <<serverVars, connected, uninstall>>

HandleInstall(c) ==
    /\ Alive
    /\ request[c] = "Install"
    /\ NotAuthorized(c) \/ StartDbusTransaction(c)

HandleUpdate(c) ==
    /\ Alive
    /\ request[c] = "Update"
    /\ NotAuthorized(c) \/ StartDbusTransaction(c)

(* The task is started and the call stays open; the timer is not reset.    *)
HandleUninstall(c) ==
    /\ Alive
    /\ request[c] = "Uninstall"
    /\ \/ NotAuthorized(c)
       \/ /\ request' = [request EXCEPT ![c] = "none"]
          /\ uninstall' = [uninstall EXCEPT ![c] = "running"]
          /\ EamServicePushBusy
          /\ UNCHANGED <<serverVars, elapsed, last, connected, remoteVars>>

SuccessOnly == {"ok"}               \* mutant: uninstall_cb ignores a failed task
FinishedTask == {"ok", "error"}

UninstallCb(c) ==
    /\ Alive
    /\ uninstall[c] \in FinishedTask
    /\ uninstall' = [uninstall EXCEPT ![c] = "none"]     \* the call is answered
    /\ EamServicePopBusy
    /\ UNCHANGED <<serverVars, elapsed, last, connected, request, remoteVars>>

-----------------------------------------------------------------------------
(* eam-transaction-dbus.c: the transaction objects. *)

NeverFreed(x) == tx' = tx           \* mutant: the object stays registered
EamRemoteTransactionFree(x) == tx' = [tx EXCEPT ![x] = "freed"]

(* Cancelling answers the pending call, if remote->invocation is not NULL. *)
NoCancelReply(x) == reply' = reply  \* mutant: the pending call is forgotten
ReplyCancelled(x) ==
    reply' = IF invocation[x] # 0
             THEN [reply EXCEPT ![x][invocation[x]] = "cancelled"]
             ELSE reply

EamRemoteTransactionCancel(x) ==
    /\ cancelled' = [cancelled EXCEPT ![x] = TRUE]
    /\ ReplyCancelled(x)
    /\ EamServicePopBusy
    /\ EamRemoteTransactionFree(x)
    /\ UNCHANGED <<sender, bundle, invocation, task, freedAccess>>

(* Any peer may call; nothing looks at a call that came before.  withBundle *)
(* is whether the options have a non-empty BundlePath.                      *)
CompleteTransaction(x, withBundle) ==
    /\ Alive
    /\ tx[x] = "open"
    /\ invocation[x] < MaxComplete
    /\ EamServiceResetTimer
    /\ bundle' = [bundle EXCEPT ![x] = @ \/ withBundle]
    /\ invocation' = [invocation EXCEPT ![x] = @ + 1]
    /\ task' = [task EXCEPT ![x][invocation[x] + 1] = "running"]
    /\ reply' = [reply EXCEPT ![x][invocation[x] + 1] = "waiting"]
    /\ UNCHANGED <<serverVars, busy, last, clientVars, tx, sender, cancelled, freedAccess>>

CancelTransaction(x) ==
    /\ Alive
    /\ tx[x] = "open"
    /\ EamServiceResetTimer
    /\ EamRemoteTransactionCancel(x)
    /\ UNCHANGED <<serverVars, last, clientVars>>

(* The name watch of the transaction reports its sender. *)
GoneWhileRunning(x) == sender[x] \notin connected /\ invocation[x] # 0   \* mutant
SenderGone(x) == sender[x] \notin connected

SenderVanished(x) ==
    /\ Alive
    /\ tx[x] = "open"
    /\ SenderGone(x)
    /\ EamServiceResetTimer
    /\ EamRemoteTransactionCancel(x)
    /\ UNCHANGED <<serverVars, last, clientVars>>

(* eam_transaction_finish reports CANCELLED for a task whose cancellable   *)
(* is cancelled, whatever the worker returned.                             *)
NeverCancelled(x) == FALSE          \* mutant: no early return for CANCELLED
FinishedCancelled(x) == cancelled[x]

(* The answer to the call remote->invocation points to. *)
ReplyResult(x, k) ==
    reply' = [reply EXCEPT ![x][invocation[x]] = IF task[x][k] = "ok" THEN "success" ELSE "error"]

(* For a cancelled task the callback returns without touching the          *)
(* transaction, which the cancellation has freed.                          *)
TransactionCompleteCb(x, k) ==
    /\ Alive
    /\ task[x][k] \in FinishedTask
    /\ task' = [task EXCEPT ![x][k] = "done"]
    /\ \/ /\ FinishedCancelled(x)
          /\ UNCHANGED <<busy, tx, reply, freedAccess>>
       \/ /\ ~FinishedCancelled(x) /\ tx[x] = "open"
          /\ ReplyResult(x, k)
          /\ EamRemoteTransactionFree(x)
          /\ EamServicePopBusy
          /\ UNCHANGED freedAccess
       \/ /\ ~FinishedCancelled(x) /\ tx[x] # "open"
          /\ freedAccess' = TRUE
          /\ UNCHANGED <<busy, tx, reply>>
    /\ UNCHANGED <<serverVars, elapsed, last, clientVars, sender, cancelled, bundle, invocation>>

-----------------------------------------------------------------------------
(* The worker threads of the GTasks.  Without a bundle path run_sync fails; *)
(* a cancelled worker ends too, with either result.                         *)

WorkerReturn(x, k) ==
    /\ Alive
    /\ task[x][k] = "running"
    /\ \E r \in {"error"} \cup (IF bundle[x] THEN {"ok"} ELSE {}) :
          task' = [task EXCEPT ![x][k] = r]
    /\ UNCHANGED <<serverVars, serviceVars, clientVars, tx, sender, cancelled, bundle,
                   invocation, reply, freedAccess>>

UninstallWorkerReturn(c) ==
    /\ Alive
    /\ uninstall[c] = "running"
    /\ \E r \in {"ok", "error"} : uninstall' = [uninstall EXCEPT ![c] = r]
    /\ UNCHANGED <<serverVars, serviceVars, connected, request, remoteVars>>

-----------------------------------------------------------------------------
Init ==
    /\ loop = "run" /\ busName = TRUE
    /\ elapsed = 0 /\ busy = 0 /\ last = 0
    /\ connected = Clients
    /\ request = [c \in Clients |-> "none"]
    /\ uninstall = [c \in Clients |-> "none"]
    /\ tx = [x \in Tx |-> "unused"]
    /\ sender = [x \in Tx |-> NoClient]
    /\ cancelled = [x \in Tx |-> FALSE]
    /\ bundle = [x \in Tx |-> FALSE]
    /\ invocation = [x \in Tx |-> 0]
    /\ task = [x \in Tx |-> [k \in Calls |-> "none"]]
    /\ reply = [x \in Tx |-> [k \in Calls |-> "none"]]
    /\ freedAccess = FALSE

HandleRequest(c) == HandleInstall(c) \/ HandleUpdate(c) \/ HandleUninstall(c)

ServerNext == TimeoutCb \/ SignalTerminate \/ SignalHangup \/ OnNameLost \/ Exit \/ Tick

ClientNext(c) ==
    \/ \E m \in Requests \ {"none"} : SendRequest(c, m)
    \/ Disconnect(c)
    \/ HandleRequest(c)
    \/ UninstallWorkerReturn(c)
    \/ UninstallCb(c)

TxNext(x) ==
    \/ \E b \in BOOLEAN : CompleteTransaction(x, b)
    \/ CancelTransaction(x)
    \/ SenderVanished(x)
    \/ \E k \in Calls : WorkerReturn(x, k) \/ TransactionCompleteCb(x, k)

Next ==
    \/ ServerNext
    \/ \E c \in Clients : ClientNext(c)
    \/ \E x \in Tx : TxNext(x)

Spec == Init /\ [][Next]_vars

(* The loop dispatches every ready source, the workers (external commands  *)
(* and copies of finite trees) end, and time passes.  Clients, signals and *)
(* the bus owe nothing.                                                    *)
Fairness ==
    /\ WF_vars(TimeoutCb) /\ WF_vars(Exit) /\ WF_vars(Tick)
    /\ \A c \in Clients : /\ WF_vars(HandleRequest(c))
                          /\ WF_vars(UninstallWorkerReturn(c))
                          /\ WF_vars(UninstallCb(c))
    /\ \A x \in Tx : /\ WF_vars(SenderVanished(x))
                     /\ \A k \in Calls : /\ WF_vars(WorkerReturn(x, k))
                                         /\ WF_vars(TransactionCompleteCb(x, k))

FairSpec == Spec /\ Fairness

-----------------------------------------------------------------------------
(* The values of the variables, busy_counter being any guint. *)
TypeInv ==
    /\ loop \in {"run", "quit", "exited"}
    /\ busName \in BOOLEAN
    /\ elapsed \in 0 .. Timeout + 1
    /\ busy \in 0 .. BusyModulus - 1
    /\ last \in 0 .. MaxTx
    /\ connected \subseteq Clients
    /\ request \in [Clients -> Requests]
    /\ uninstall \in [Clients -> TaskStates \ {"done"}]
    /\ tx \in [Tx -> {"unused", "open", "freed"}]
    /\ sender \in [Tx -> Clients \cup {NoClient}]
    /\ cancelled \in [Tx -> BOOLEAN]
    /\ bundle \in [Tx -> BOOLEAN]
    /\ invocation \in [Tx -> 0 .. MaxComplete]
    /\ task \in [Tx -> [Calls -> TaskStates]]
    /\ reply \in [Tx -> [Calls -> Replies]]
    /\ freedAccess \in BOOLEAN

(* The type invariant: busy_counter moreover stays within its possible     *)
(* uses, so the guint of eam-service.c never wraps below zero, where the   *)
(* daemon would stay busy for good.                                        *)
TypeOK == TypeInv /\ busy <= MaxTx + Cardinality(Clients)

(* busy_counter counts exactly the transactions a client can still         *)
(* complete and the uninstalls not yet answered: every path that ends one  *)
(* (completion, cancellation, a vanished sender, uninstall_cb, a failed    *)
(* registration) balances the push of the path that began it.              *)
BusyExact == busy = Cardinality(Open) + Cardinality(Uninstalling)

(* transaction_complete_cb never dereferences a remote transaction that a  *)
(* cancellation, or the loss of its sender, has freed.  (A client's second *)
(* CompleteTransaction would let the first to end free it under the other: *)
(* MaxComplete = 1 leaves that out, as the README's section 4 says.)       *)
NoUseAfterFree == ~freedAccess

(* A client has one manager call under way; a path number is handed out    *)
(* once, and only while one is left.                                       *)
PathInv ==
    /\ \A c \in Clients : request[c] = "none" \/ uninstall[c] = "none"
    /\ last + Cardinality(StartRequests) <= MaxTx
    /\ \A x \in Tx : tx[x] = "unused" <=> x >= last

(* The object, the call it accepted and the task of that call go together. *)
RemoteOK(x) ==
    /\ tx[x] = "unused" => invocation[x] = 0
    /\ tx[x] # "freed" => ~cancelled[x]
    /\ tx[x] = "open" /\ invocation[x] # 0 => reply[x][invocation[x]] = "waiting"
    /\ \A k \in Calls :
          /\ k > invocation[x] => task[x][k] = "none" /\ reply[x][k] = "none"
          /\ task[x][k] \in {"running", "ok", "error"} => cancelled[x] \/ tx[x] = "open"
          /\ reply[x][k] = "waiting" => tx[x] = "open"

RemoteInv == \A x \in Tx : RemoteOK(x)

(* What clients owe the daemon: a transaction is completed once, so that   *)
(* remote->invocation of eam-transaction-dbus.c, the only record of the    *)
(* caller, is never overwritten.  Nothing in the daemon sees to it; it is  *)
(* checked of the commands of eamctl (EamCtl).                             *)
CompletedOnce == \A x \in Tx : invocation[x] <= 1

(* The inductive invariant behind the safety properties, for clients that  *)
(* complete a transaction once: the counter, the path numbers and the life *)
(* of every transaction object of eam-transaction-dbus.c.                  *)
IInv == TypeInv /\ BusyExact /\ PathInv /\ RemoteInv /\ NoUseAfterFree

(* When a transaction object goes away, each CompleteTransaction call it   *)
(* accepted has been answered: remote->invocation is the only record of    *)
(* the caller, so a call left unanswered then never will be.               *)
NoCallAbandoned ==
    \A x \in Tx, k \in Calls : tx[x] = "freed" => reply[x][k] # "waiting"

(* A CompleteTransaction call is answered once: completion, cancellation   *)
(* and the vanished-sender callback never both use the same invocation.    *)
AnsweredOnce ==
    [][\A x \in Tx, k \in Calls :
          reply[x][k] \notin {"none", "waiting"} => reply'[x][k] = reply[x][k]]_vars

(* timeout_cb never ends the daemon while a client holds an open           *)
(* transaction or waits for an uninstall.                                  *)
IdleQuitServesNobody ==
    [][(TimeoutCb /\ loop' # loop) => Open = {} /\ Uninstalling = {}]_vars

(* timeout_cb ends the daemon only when "the service is idle"              *)
(* (eam-dbus-server.c:144), so no worker thread is killed in its work.     *)
IdleQuitKillsNoWork ==
    [][(TimeoutCb /\ loop' # loop) => Running = {}]_vars

(* A client that leaves the bus leaves no open transaction behind for good. *)
VanishedSenderReleased ==
    \A c \in Clients :
       c \notin connected ~> \/ ~Alive
                             \/ \A x \in Tx : sender[x] = c => tx[x] # "open"

(* Every manager call is answered while the daemon lives. *)
RequestAnswered ==
    \A c \in Clients :
       request[c] # "none" ~> ~Alive \/ (request[c] = "none" /\ uninstall[c] = "none")

(* Once every client has left, the daemon ends: no path leaks a busy count. *)
QuitsWhenAbandoned == connected = {} ~> loop # "run"

-----------------------------------------------------------------------------
(* Refinement: the daemon keeps the promise of TransactionCalls.  A call is *)
(* what its caller was told, or, while it waits, how far its worker is;     *)
(* busy_counter, remote->invocation, remote->cancellable and the results of *)
(* cancelled workers are hidden.                                            *)
ObjectOf(x) == IF tx[x] = "freed" THEN "gone" ELSE tx[x]

CallOf(x, k) ==
    CASE reply[x][k] = "waiting" ->
            IF task[x][k] \in {"ok", "error"} THEN task[x][k] ELSE "working"
      [] reply[x][k] = "error" -> "failure"
      [] OTHER -> reply[x][k]

Promise == INSTANCE TransactionCalls
              WITH object <- [x \in Tx |-> ObjectOf(x)],
                   call <- [x \in Tx |-> [k \in Calls |-> CallOf(x, k)]],
                   ended <- loop = "exited"

(* Every step of the daemon is a step of the promise, or hidden from it:   *)
(* an answer goes to the call it is for, says what that call's worker      *)
(* returned, and no object is freed with a call still unanswered.          *)
KeepsPromise == Promise!Spec

(* Under the daemon's fairness the promise is kept in time too: workers'   *)
(* results reach their callers.                                            *)
KeepsPromiseInTime == Promise!FairSpec

=============================================================================

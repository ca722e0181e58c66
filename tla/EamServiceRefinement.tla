------------------------ MODULE EamServiceRefinement ------------------------
(***************************************************************************)
(* Proof that the daemon keeps the promise of TransactionCalls, for any    *)
(* finite set of clients, any number of transactions and any timeout.      *)
(***************************************************************************)
EXTENDS EamServiceProofs

USE DEF vars, serverVars, serviceVars, clientVars, remoteVars

Objects == [x \in Tx |-> ObjectOf(x)]
CallStates == [x \in Tx |-> [k \in Calls |-> CallOf(x, k)]]

LEMMA InitRefines == Init => Promise!Init
<1> SUFFICES ASSUME Init PROVE Promise!Init
  OBVIOUS
<1>1. \A x \in Tx : ObjectOf(x) = "unused"
  BY DEF Init, ObjectOf
<1>2. \A x \in Tx, k \in Calls : CallOf(x, k) = "none"
  BY DEF Init, CallOf
<1> QED
  BY <1>1, <1>2 DEF Init, Promise!Init

(* What neither touches objects, replies and tasks nor ends the daemon is  *)
(* hidden.                                                                 *)
LEMMA Hidden ==
  ASSUME UNCHANGED <<tx, task, reply>>, (loop = "exited") = (loop' = "exited")
  PROVE  UNCHANGED Promise!callVars
<1>1. \A x \in Tx : ObjectOf(x)' = ObjectOf(x)
  BY DEF ObjectOf
<1>2. \A x \in Tx, k \in Calls : CallOf(x, k)' = CallOf(x, k)
  BY DEF CallOf
<1> QED
  BY <1>1, <1>2 DEF Promise!callVars

LEMMA ServerRefines == ServerNext => [Promise!Next]_Promise!callVars
<1> SUFFICES ASSUME ServerNext PROVE [Promise!Next]_Promise!callVars
  OBVIOUS
<1>1. CASE Exit
  <2>1. loop # "exited" /\ loop' = "exited" /\ UNCHANGED <<tx, task, reply>>
    BY <1>1 DEF Exit
  <2>2. \A x \in Tx : ObjectOf(x)' = ObjectOf(x)
    BY <2>1 DEF ObjectOf
  <2>3. \A x \in Tx, k \in Calls : CallOf(x, k)' = CallOf(x, k)
    BY <2>1 DEF CallOf
  <2> QED
    BY <2>1, <2>2, <2>3 DEF Promise!Next, Promise!End
<1>2. CASE ~Exit
  BY <1>2, Hidden
     DEF ServerNext, TimeoutCb, SignalTerminate, SignalHangup, OnNameLost, Tick, EamDbusServerQuit
<1> QED
  BY <1>1, <1>2

(* One object changes, and no call. *)
LEMMA ObjectStep ==
  ASSUME TypeInv, NEW x \in Tx, NEW s, tx' = [tx EXCEPT ![x] = s], UNCHANGED <<task, reply>>
  PROVE  /\ Objects' = [Objects EXCEPT ![x] = IF s = "freed" THEN "gone" ELSE s]
         /\ CallStates' = CallStates
<1>1. \A y \in Tx : ObjectOf(y)' = IF y = x THEN (IF s = "freed" THEN "gone" ELSE s) ELSE ObjectOf(y)
  BY DEF ObjectOf, TypeInv
<1>2. \A y \in Tx, k \in Calls : CallOf(y, k)' = CallOf(y, k)
  BY DEF CallOf
<1> QED
  BY <1>1, <1>2 DEF Objects, CallStates

LEMMA ClientRefines ==
  ASSUME IInv, NEW c \in Clients, ClientNext(c)
  PROVE  [Promise!Next]_Promise!callVars
<1>1. CASE UNCHANGED <<tx, task, reply, loop>>
  BY <1>1, Hidden
<1>2. CASE StartDbusTransaction(c) /\ Alive /\ request[c] \in {"Install", "Update"}
  <2>1. last \in Tx /\ tx[last] = "unused" /\ TypeInv /\ loop # "exited" /\ loop' = loop
    BY <1>2, PathLeft DEF IInv, PathInv, TypeInv, Alive, StartDbusTransaction
  <2>2. PICK s \in {"open", "freed"} : tx' = [tx EXCEPT ![last] = s] /\ UNCHANGED <<task, reply>>
    BY <1>2 DEF StartDbusTransaction, EamRemoteTransactionNew, EamServiceGetNextTransactionPath
  <2>3. /\ Objects' = [Objects EXCEPT ![last] = IF s = "freed" THEN "gone" ELSE s]
        /\ CallStates' = CallStates
        /\ Objects[last] = "unused"
    BY <2>1, <2>2, ObjectStep DEF Objects, ObjectOf
  <2>4. Promise!Create(last)
    BY <2>1, <2>3 DEF Promise!Create, Objects, CallStates
  <2> QED
    BY <2>1, <2>4 DEF Promise!Next
<1> QED
  BY <1>1, <1>2 DEF ClientNext, SendRequest, Disconnect, HandleRequest, HandleInstall, HandleUpdate,
                    HandleUninstall, NotAuthorized, UninstallWorkerReturn, UninstallCb

-----------------------------------------------------------------------------
(* The steps of one transaction object.  Clients complete it once, so it   *)
(* has one call.                                                           *)

LEMMA CallStep ==
  ASSUME NEW x \in Tx, NEW k \in Calls, NEW v, CallOf(x, k)' = v,
         \A y \in Tx, j \in Calls : y # x \/ j # k => CallOf(y, j)' = CallOf(y, j)
  PROVE  /\ CallStates' = [CallStates EXCEPT ![x][k] = v]
         /\ CallStates[x][k] = CallOf(x, k)
<1>1. [j \in Calls |-> CallOf(x, j)'] = [[j \in Calls |-> CallOf(x, j)] EXCEPT ![k] = v]
  OBVIOUS
<1>2. \A y \in Tx : y # x => [j \in Calls |-> CallOf(y, j)'] = [j \in Calls |-> CallOf(y, j)]
  OBVIOUS
<1>3. CallStates[x][k] = CallOf(x, k)
  BY DEF CallStates
<1>4. CallStates' = [y \in Tx |-> [j \in Calls |-> CallOf(y, j)']]
  BY DEF CallStates
<1>5. \A y \in Tx : CallStates[y] = [j \in Calls |-> CallOf(y, j)]
  BY DEF CallStates
<1>6. \A y \in Tx :
         CallStates'[y] = IF y = x THEN [CallStates[x] EXCEPT ![k] = v] ELSE CallStates[y]
  BY <1>1, <1>2, <1>4, <1>5
<1>7. CallStates' = [y \in Tx |-> IF y = x THEN [CallStates[x] EXCEPT ![k] = v] ELSE CallStates[y]]
  BY <1>4, <1>6
<1>8. CallStates = [y \in Tx |-> CallStates[y]]
  BY DEF CallStates
<1> QED
  BY <1>3, <1>7, <1>8

LEMMA CompleteRefines ==
  ASSUME CompletedOnce, CompletedOnce', IInv, NEW x \in Tx, NEW b \in BOOLEAN, CompleteTransaction(x, b)
  PROVE  Promise!Ask(x, 1)
<1> USE DEF IInv, TypeInv
<1>0. invocation'[x] = invocation[x] + 1 /\ invocation'[x] <= 1
  BY DEF CompleteTransaction, CompletedOnce
<1>1. 1 \in Calls /\ RemoteOK(x) /\ tx[x] = "open" /\ invocation[x] = 0
  BY <1>0, OnlyCall DEF CompleteTransaction
<1>2. /\ task' = [task EXCEPT ![x][1] = "running"]
      /\ reply' = [reply EXCEPT ![x][1] = "waiting"]
      /\ UNCHANGED <<tx, loop>>
  BY <1>1 DEF CompleteTransaction
<1>3. reply[x][1] = "none"
  BY <1>1 DEF RemoteOK
<1>4. CallOf(x, 1) = "none" /\ CallOf(x, 1)' = "working"
  BY <1>1, <1>2, <1>3 DEF CallOf
<1>5. \A y \in Tx, k \in Calls : y # x \/ k # 1 => CallOf(y, k)' = CallOf(y, k)
  BY <1>1, <1>2 DEF CallOf
<1>6. CallStates' = [CallStates EXCEPT ![x][1] = "working"] /\ CallStates[x][1] = "none"
  BY <1>1, <1>4, <1>5, CallStep
<1>7. Objects' = Objects /\ Objects[x] = "open"
  BY <1>1, <1>2 DEF Objects, ObjectOf
<1> QED
  BY <1>1, <1>2, <1>6, <1>7 DEF Promise!Ask, CallStates, Objects

(* CancelTransaction and a vanished sender: the call that waits, if there  *)
(* is one, is the one remote->invocation points to.                        *)
LEMMA CancelRefines ==
  ASSUME CompletedOnce, CompletedOnce', IInv, NEW x \in Tx, CancelTransaction(x) \/ SenderVanished(x)
  PROVE  Promise!Cancel(x)
<1> USE DEF IInv, TypeInv
<1>0. tx[x] = "open" /\ EamRemoteTransactionCancel(x) /\ loop' = loop
  BY DEF CancelTransaction, SenderVanished
<1>1. /\ 1 \in Calls /\ RemoteOK(x) /\ invocation[x] \in {0, 1}
      /\ \A k \in Calls \ {1} : reply[x][k] = "none"
  BY OnlyCall
<1>2. tx' = [tx EXCEPT ![x] = "freed"] /\ task' = task
  BY <1>0 DEF EamRemoteTransactionCancel, EamRemoteTransactionFree
<1>3. \A y \in Tx, k \in Calls : y # x => CallOf(y, k)' = CallOf(y, k)
  <2>1. \A y \in Tx : y # x => reply'[y] = reply[y]
    BY <1>0, <1>1 DEF EamRemoteTransactionCancel, ReplyCancelled
  <2> QED
    BY <1>2, <2>1 DEF CallOf
<1>4. CallOf(x, 1)' = IF CallOf(x, 1) \in Promise!Pending THEN "cancelled" ELSE CallOf(x, 1)
  <2>1. CASE invocation[x] = 0
    <3>1. reply[x][1] = "none" /\ reply' = reply
      BY <1>0, <1>1, <2>1 DEF RemoteOK, EamRemoteTransactionCancel, ReplyCancelled
    <3> QED
      BY <1>2, <3>1 DEF CallOf, Promise!Pending
  <2>2. CASE invocation[x] = 1
    <3>1. reply[x][1] = "waiting" /\ reply'[x][1] = "cancelled"
      BY <1>0, <1>1, <2>2 DEF RemoteOK, EamRemoteTransactionCancel, ReplyCancelled
    <3>2. CallOf(x, 1) \in Promise!Pending
      BY <3>1 DEF CallOf, Promise!Pending
    <3>3. CallOf(x, 1)' = "cancelled"
      BY <3>1 DEF CallOf
    <3> QED
      BY <3>2, <3>3
  <2> QED
    BY <1>1, <2>1, <2>2
<1>5. CallStates' = [CallStates EXCEPT ![x] =
         [k \in Calls |-> IF CallStates[x][k] \in Promise!Pending THEN "cancelled" ELSE CallStates[x][k]]]
  <2>1. \A k \in Calls \ {1} : CallOf(x, k) = "none" /\ CallOf(x, k)' = "none"
    <3>1. \A k \in Calls \ {1} : reply'[x][k] = reply[x][k]
      BY <1>0, <1>1 DEF EamRemoteTransactionCancel, ReplyCancelled
    <3> QED
      BY <1>1, <3>1 DEF CallOf
  <2>2. \A k \in Calls : CallOf(x, k)' =
           IF CallOf(x, k) \in Promise!Pending THEN "cancelled" ELSE CallOf(x, k)
    BY <1>4, <2>1 DEF Promise!Pending
  <2> QED
    BY <1>1, <1>3, <2>2 DEF CallStates
<1>6. Objects' = [Objects EXCEPT ![x] = "gone"] /\ Objects[x] = "open"
  BY <1>0, <1>2 DEF Objects, ObjectOf
<1> QED
  BY <1>0, <1>5, <1>6 DEF Promise!Cancel, CallStates, Objects

(* A worker of an open object has a result; that of a cancelled one is     *)
(* hidden.                                                                 *)
LEMMA WorkerRefines ==
  ASSUME CompletedOnce, CompletedOnce', IInv, NEW x \in Tx, NEW k \in Calls, WorkerReturn(x, k)
  PROVE  Promise!Work(x, k) \/ UNCHANGED Promise!callVars
<1> USE DEF IInv, TypeInv
<1>1. PICK r \in {"ok", "error"} : task' = [task EXCEPT ![x][k] = r] /\ UNCHANGED <<tx, reply, loop>>
  BY DEF WorkerReturn
<1>2. RemoteOK(x) /\ task[x][k] = "running"
  BY DEF RemoteInv, WorkerReturn
<1>3. \A y \in Tx, j \in Calls : y # x \/ j # k => CallOf(y, j)' = CallOf(y, j)
  BY <1>1 DEF CallOf
<1>4. Objects' = Objects
  BY <1>1 DEF Objects, ObjectOf
<1>5. CASE reply[x][k] = "waiting"
  <2>1. tx[x] = "open"
    BY <1>2, <1>5 DEF RemoteOK
  <2>2. CallOf(x, k) = "working" /\ CallOf(x, k)' = r
    BY <1>1, <1>2, <1>5 DEF CallOf
  <2>3. CallStates' = [CallStates EXCEPT ![x][k] = r] /\ CallStates[x][k] = "working"
    BY <1>3, <2>2, CallStep
  <2>4. Objects[x] = "open"
    BY <2>1 DEF Objects, ObjectOf
  <2> QED
    BY <1>1, <1>4, <2>3, <2>4 DEF Promise!Work, CallStates, Objects
<1>6. CASE reply[x][k] # "waiting"
  <2>1. CallOf(x, k)' = CallOf(x, k)
    BY <1>1, <1>6 DEF CallOf
  <2>2. CallStates' = CallStates
    BY <1>3, <2>1 DEF CallStates
  <2> QED
    BY <1>1, <1>4, <2>2 DEF Promise!callVars, CallStates, Objects
<1> QED
  BY <1>5, <1>6

LEMMA CallbackRefines ==
  ASSUME CompletedOnce, CompletedOnce', IInv, NEW x \in Tx, NEW k \in Calls, TransactionCompleteCb(x, k)
  PROVE  Promise!Answer(x, k) \/ UNCHANGED Promise!callVars
<1> USE DEF IInv, TypeInv
<1>1. k = 1 /\ RemoteOK(x) /\ invocation[x] = 1 /\ (cancelled[x] \/ tx[x] = "open")
  BY PendingTask, OnlyCall DEF TransactionCompleteCb, FinishedTask
<1>2. task[x][k] \in {"ok", "error"} /\ task' = [task EXCEPT ![x][k] = "done"] /\ loop' = loop
  BY DEF TransactionCompleteCb, FinishedTask
<1>3. CASE cancelled[x]
  <2>1. tx' = tx /\ reply' = reply /\ tx[x] # "open" /\ reply[x][k] # "waiting"
    BY <1>1, <1>3 DEF TransactionCompleteCb, FinishedCancelled, RemoteOK
  <2>2. \A y \in Tx, j \in Calls : CallOf(y, j)' = CallOf(y, j)
    BY <1>2, <2>1 DEF CallOf
  <2>3. \A y \in Tx : ObjectOf(y)' = ObjectOf(y)
    BY <2>1 DEF ObjectOf
  <2> QED
    BY <1>2, <2>2, <2>3 DEF Promise!callVars
<1>4. CASE ~cancelled[x]
  <2>1. /\ tx[x] = "open" /\ tx' = [tx EXCEPT ![x] = "freed"]
        /\ reply' = [reply EXCEPT ![x][k] = IF task[x][k] = "ok" THEN "success" ELSE "error"]
        /\ reply[x][k] = "waiting"
    BY <1>1, <1>4
       DEF TransactionCompleteCb, FinishedCancelled, RemoteOK, ReplyResult, EamRemoteTransactionFree
  <2>2. /\ CallOf(x, k) = task[x][k]
        /\ CallOf(x, k)' = IF task[x][k] = "ok" THEN "success" ELSE "failure"
    BY <1>2, <2>1 DEF CallOf
  <2>3. \A y \in Tx, j \in Calls : y # x \/ j # k => CallOf(y, j)' = CallOf(y, j)
    BY <1>2, <2>1 DEF CallOf
  <2>4. /\ CallStates' = [CallStates EXCEPT ![x][k] = IF task[x][k] = "ok" THEN "success" ELSE "failure"]
        /\ CallStates[x][k] = task[x][k]
    BY <2>2, <2>3, CallStep
  <2>5. Objects' = [Objects EXCEPT ![x] = "gone"] /\ Objects[x] = "open"
    BY <2>1 DEF Objects, ObjectOf
  <2>6. \A j \in Calls \ {k} : CallStates[x][j] \notin Promise!Pending
    BY <1>1, OnlyCall DEF CallStates, CallOf, Promise!Pending
  <2> QED
    BY <1>1, <1>2, <2>4, <2>5, <2>6 DEF Promise!Answer, CallStates, Objects
<1> QED
  BY <1>3, <1>4

-----------------------------------------------------------------------------
(* The daemon implements the promise of TransactionCalls: every step of it *)
(* is a step of the promise, or hidden from the callers.                   *)
THEOREM Refinement == Spec /\ []CompletedOnce => KeepsPromise
<1>1. IInv /\ CompletedOnce /\ CompletedOnce' /\ [Next]_vars => [Promise!Next]_Promise!callVars
  <2> SUFFICES ASSUME IInv, CompletedOnce, CompletedOnce', [Next]_vars PROVE [Promise!Next]_Promise!callVars
    OBVIOUS
  <2>1. CASE \E x \in Tx : TxNext(x)
    <3> PICK x \in Tx : TxNext(x)
      BY <2>1
    <3>1. loop # "exited" /\ loop' = loop
      BY DEF TxNext, CompleteTransaction, CancelTransaction, SenderVanished, WorkerReturn,
             TransactionCompleteCb, Alive
    <3>2. ASSUME NEW b \in BOOLEAN, CompleteTransaction(x, b) PROVE Promise!Ask(x, 1)
      BY <3>2, CompleteRefines
    <3>3. ASSUME NEW k \in Calls, WorkerReturn(x, k) \/ TransactionCompleteCb(x, k)
          PROVE  Promise!Work(x, k) \/ Promise!Answer(x, k) \/ UNCHANGED Promise!callVars
      BY <3>3, WorkerRefines, CallbackRefines
    <3>4. 1 \in Calls
      BY BoundsAssumption DEF Calls
    <3>5. CASE \E b \in BOOLEAN : CompleteTransaction(x, b)
      BY <3>1, <3>2, <3>4, <3>5 DEF Promise!Next
    <3>6. CASE \E k \in Calls : WorkerReturn(x, k) \/ TransactionCompleteCb(x, k)
      BY <3>1, <3>3, <3>6 DEF Promise!Next
    <3>7. CASE CancelTransaction(x) \/ SenderVanished(x)
      BY <3>1, <3>7, CancelRefines DEF Promise!Next
    <3> QED
      BY <3>5, <3>6, <3>7 DEF TxNext
  <2>2. CASE UNCHANGED vars
    BY <2>2, Hidden
  <2> QED
    BY <2>1, <2>2, ServerRefines, ClientRefines DEF Next
<1> QED
  BY <1>1, InitRefines, Invariance, PTL DEF Spec, KeepsPromise, Promise!Spec

=============================================================================

-------------------------- MODULE EamServiceProofs --------------------------
(***************************************************************************)
(* Proofs about EamService, for any finite set of clients, any number of   *)
(* transactions and any timeout.                                           *)
(***************************************************************************)
EXTENDS EamService, FiniteSetTheorems, TLAPS

USE BoundsAssumption

LEMMA TxFinite == IsFiniteSet(Tx) /\ Cardinality(Tx) = MaxTx
  BY FS_Interval DEF Tx

LEMMA ClientsFinite == IsFiniteSet(Clients) /\ Cardinality(Clients) \in Nat
  BY ClientsAssumption, FS_CardinalityType

(* What a set of transactions or of clients can count. *)
LEMMA OpenFinite ==
  /\ IsFiniteSet(Open) /\ Cardinality(Open) \in 0 .. MaxTx
  BY TxFinite, FS_Subset, FS_CardinalityType DEF Open

LEMMA UninstallingFinite ==
  /\ IsFiniteSet(Uninstalling) /\ Cardinality(Uninstalling) \in 0 .. Cardinality(Clients)
  BY ClientsFinite, ClientsAssumption, FS_Subset, FS_CardinalityType DEF Uninstalling

LEMMA StartRequestsFinite ==
  /\ IsFiniteSet(StartRequests) /\ Cardinality(StartRequests) \in Nat
  BY ClientsAssumption, FS_Subset, FS_CardinalityType DEF StartRequests

(* Opening and freeing a transaction moves the size of Open by one. *)
LEMMA OpenAdded ==
  ASSUME TypeInv, NEW x \in Tx, tx[x] # "open", tx' = [tx EXCEPT ![x] = "open"]
  PROVE  Cardinality(Open') = Cardinality(Open) + 1
<1>1. Open' = Open \cup {x} /\ x \notin Open
  BY DEF Open, TypeInv
<1> QED
  BY <1>1, OpenFinite, FS_AddElement

LEMMA OpenFreed ==
  ASSUME TypeInv, NEW x \in Tx, tx[x] = "open", EamRemoteTransactionFree(x)
  PROVE  Cardinality(Open') = Cardinality(Open) - 1 /\ Cardinality(Open) >= 1
<1>1. Open' = Open \ {x} /\ x \in Open
  BY DEF Open, TypeInv, EamRemoteTransactionFree
<1>2. Cardinality(Open) # 0
  BY <1>1, OpenFinite, FS_EmptySet
<1> QED
  BY <1>1, <1>2, OpenFinite, FS_RemoveElement

(* Starting and answering an Uninstall moves the size of Uninstalling by one. *)
LEMMA UninstallStarted ==
  ASSUME TypeInv, NEW c \in Clients, uninstall[c] = "none",
         uninstall' = [uninstall EXCEPT ![c] = "running"]
  PROVE  Cardinality(Uninstalling') = Cardinality(Uninstalling) + 1
<1>1. Uninstalling' = Uninstalling \cup {c} /\ c \notin Uninstalling
  BY DEF Uninstalling, TypeInv
<1> QED
  BY <1>1, UninstallingFinite, FS_AddElement

LEMMA UninstallEnded ==
  ASSUME TypeInv, NEW c \in Clients, uninstall[c] # "none",
         uninstall' = [uninstall EXCEPT ![c] = "none"]
  PROVE  Cardinality(Uninstalling') = Cardinality(Uninstalling) - 1 /\ Cardinality(Uninstalling) >= 1
<1>1. Uninstalling' = Uninstalling \ {c} /\ c \in Uninstalling
  BY DEF Uninstalling, TypeInv
<1>2. Cardinality(Uninstalling) # 0
  BY <1>1, UninstallingFinite, FS_EmptySet
<1> QED
  BY <1>1, <1>2, UninstallingFinite, FS_RemoveElement

(* Within its range the guint counts like a natural number. *)
LEMMA PushAdds ==
  ASSUME busy \in Nat, busy < MaxTx + Cardinality(Clients), EamServicePushBusy
  PROVE  busy' = busy + 1
<1>1. busy + 1 \in Nat /\ busy + 1 < BusyModulus /\ BusyModulus \in Nat
  BY BusyAssumption, ClientsFinite
<1> QED
  BY <1>1 DEF EamServicePushBusy

LEMMA PopSubtracts ==
  ASSUME busy \in Nat, busy >= 1, busy <= MaxTx + Cardinality(Clients), EamServicePopBusy
  PROVE  busy' = busy - 1
<1>1. busy < BusyModulus /\ BusyModulus \in Nat
  BY BusyAssumption, ClientsFinite
<1>2. (busy + BusyModulus - 1) % BusyModulus = busy - 1
  BY <1>1
<1> QED
  BY <1>2 DEF EamServicePopBusy

LEMMA BusyIsGuint ==
  ASSUME busy \in 0 .. BusyModulus - 1, EamServicePushBusy \/ EamServicePopBusy \/ UNCHANGED busy
  PROVE  busy' \in 0 .. BusyModulus - 1
<1>1. BusyModulus \in Nat /\ BusyModulus > 0
  BY BusyAssumption, ClientsFinite
<1>2. ASSUME NEW n \in Nat PROVE n % BusyModulus \in 0 .. BusyModulus - 1
  BY <1>1
<1>3. busy + 1 \in Nat /\ busy + BusyModulus - 1 \in Nat
  BY <1>1
<1> QED
  BY <1>2, <1>3 DEF EamServicePushBusy, EamServicePopBusy

(* Changing one entry of a table indexed by transaction and call. *)
LEMMA TableUpdate ==
  ASSUME NEW V, NEW f \in [Tx -> [Calls -> V]], NEW x \in Tx, NEW i, NEW v \in V
  PROVE  [f EXCEPT ![x][i] = v] \in [Tx -> [Calls -> V]]
<1>1. [f[x] EXCEPT ![i] = v] \in [Calls -> V]
  OBVIOUS
<1> QED
  BY <1>1

(* A pending Install or Update call finds a path number left. *)
LEMMA PathLeft ==
  ASSUME TypeInv, PathInv, NEW c \in Clients, request[c] \in {"Install", "Update"}
  PROVE  c \in StartRequests /\ Cardinality(StartRequests) >= 1 /\ last \in Tx
<1>1. c \in StartRequests
  BY DEF StartRequests
<1>2. Cardinality(StartRequests) # 0
  BY <1>1, StartRequestsFinite, FS_EmptySet
<1>3. last \in Nat /\ last + Cardinality(StartRequests) <= MaxTx
  BY DEF TypeInv, PathInv
<1> QED
  BY <1>1, <1>2, <1>3, StartRequestsFinite DEF Tx

-----------------------------------------------------------------------------
(* Type correctness. *)

USE DEF vars, serverVars, serviceVars, clientVars, remoteVars

LEMMA TypeStep == TypeInv /\ PathInv /\ [Next]_vars => TypeInv'
<1> SUFFICES ASSUME TypeInv, PathInv, [Next]_vars
             PROVE  TypeInv'
  OBVIOUS
<1> USE DEF TypeInv
<1>1. CASE ServerNext
  <2>1. CASE Tick
    BY <2>1 DEF Tick
  <2>2. CASE ServerNext /\ ~Tick
    BY <2>2 DEF ServerNext, TimeoutCb, SignalTerminate, SignalHangup, OnNameLost, Exit, EamDbusServerQuit
  <2> QED
    BY <1>1, <2>1, <2>2
<1>2. CASE \E c \in Clients : ClientNext(c)
  <2> PICK c \in Clients : ClientNext(c)
    BY <1>2
  <2>1. ASSUME NEW m \in Requests \ {"none"}, SendRequest(c, m)
        PROVE  TypeInv'
    BY <2>1 DEF SendRequest
  <2>2. CASE Disconnect(c)
    BY <2>2 DEF Disconnect
  <2>3. CASE NotAuthorized(c)
    BY <2>3 DEF NotAuthorized, Requests
  <2>4. CASE StartDbusTransaction(c) /\ request[c] \in {"Install", "Update"}
    <3>3. last \in Tx
      BY <2>4, PathLeft
    <3>4. busy' \in 0 .. BusyModulus - 1
      BY <2>4, BusyIsGuint DEF StartDbusTransaction
    <3>5. /\ last' = last + 1
          /\ tx' \in [Tx -> {"unused", "open", "freed"}]
          /\ sender' \in [Tx -> Clients \cup {NoClient}]
          /\ UNCHANGED <<cancelled, bundle, invocation, task, reply, freedAccess>>
      BY <2>4 DEF StartDbusTransaction, EamRemoteTransactionNew
    <3>6. request' \in [Clients -> Requests] /\ elapsed' = 0
      BY <2>4 DEF StartDbusTransaction, EamServiceResetTimer, Requests
    <3> QED
      BY <2>4, <3>3, <3>4, <3>5, <3>6 DEF StartDbusTransaction, Tx
  <2>5. CASE HandleUninstall(c) /\ ~NotAuthorized(c)
    <3>1. busy' \in 0 .. BusyModulus - 1
      BY <2>5, BusyIsGuint DEF HandleUninstall
    <3> QED
      BY <2>5, <3>1 DEF HandleUninstall, Requests, TaskStates
  <2>6. CASE UninstallWorkerReturn(c)
    BY <2>6 DEF UninstallWorkerReturn, TaskStates
  <2>7. CASE UninstallCb(c)
    <3>1. busy' \in 0 .. BusyModulus - 1
      BY <2>7, BusyIsGuint DEF UninstallCb
    <3> QED
      BY <2>7, <3>1 DEF UninstallCb, TaskStates
  <2> QED
    BY <2>1, <2>2, <2>3, <2>4, <2>5, <2>6, <2>7
       DEF ClientNext, HandleRequest, HandleInstall, HandleUpdate, HandleUninstall
<1>3. CASE \E x \in Tx : TxNext(x)
  <2> PICK x \in Tx : TxNext(x)
    BY <1>3
  <2>1. ASSUME NEW b \in BOOLEAN, CompleteTransaction(x, b)
        PROVE  TypeInv'
    BY <2>1 DEF CompleteTransaction, EamServiceResetTimer, Calls, TaskStates, Replies
  <2>2. ASSUME EamRemoteTransactionCancel(x), EamServiceResetTimer,
               UNCHANGED <<serverVars, last, clientVars>>
        PROVE  TypeInv'
    <3>1. busy' \in 0 .. BusyModulus - 1
      BY <2>2, BusyIsGuint DEF EamRemoteTransactionCancel
    <3>2. reply' \in [Tx -> [Calls -> Replies]]
      <4>1. [reply EXCEPT ![x][invocation[x]] = "cancelled"] \in [Tx -> [Calls -> Replies]]
        BY TableUpdate DEF Replies
      <4> QED
        BY <2>2, <4>1 DEF EamRemoteTransactionCancel, ReplyCancelled
    <3>3. tx' \in [Tx -> {"unused", "open", "freed"}] /\ cancelled' \in [Tx -> BOOLEAN]
      BY <2>2 DEF EamRemoteTransactionCancel, EamRemoteTransactionFree
    <3>4. elapsed' \in 0 .. Timeout + 1
      BY <2>2 DEF EamServiceResetTimer
    <3> QED
      BY <2>2, <3>1, <3>2, <3>3, <3>4 DEF EamRemoteTransactionCancel
  <2>3. ASSUME NEW k \in Calls, WorkerReturn(x, k)
        PROVE  TypeInv'
    BY <2>3 DEF WorkerReturn, TaskStates
  <2>4. ASSUME NEW k \in Calls, TransactionCompleteCb(x, k)
        PROVE  TypeInv'
    <3>1. busy' \in 0 .. BusyModulus - 1
      BY <2>4, BusyIsGuint DEF TransactionCompleteCb
    <3>2. reply' \in [Tx -> [Calls -> Replies]]
      <4>1. ASSUME NEW r \in Replies
            PROVE  [reply EXCEPT ![x][invocation[x]] = r] \in [Tx -> [Calls -> Replies]]
        BY <4>1, TableUpdate
      <4>2. \/ reply' = reply
            \/ \E r \in Replies : reply' = [reply EXCEPT ![x][invocation[x]] = r]
        BY <2>4 DEF TransactionCompleteCb, ReplyResult, Replies
      <4> QED
        BY <4>1, <4>2
    <3>3. tx' \in [Tx -> {"unused", "open", "freed"}]
      BY <2>4 DEF TransactionCompleteCb, EamRemoteTransactionFree
    <3>4. task' \in [Tx -> [Calls -> TaskStates]] /\ freedAccess' \in BOOLEAN
      BY <2>4 DEF TransactionCompleteCb, TaskStates
    <3> QED
      BY <2>4, <3>1, <3>2, <3>3, <3>4 DEF TransactionCompleteCb
  <2> QED
    BY <2>1, <2>2, <2>3, <2>4 DEF TxNext, CancelTransaction, SenderVanished
<1>4. CASE UNCHANGED vars
  BY <1>4
<1> QED
  BY <1>1, <1>2, <1>3, <1>4 DEF Next

-----------------------------------------------------------------------------
(* Path numbers and pending calls. *)

LEMMA StartRequestsShrink ==
  ASSUME TypeInv, NEW c \in Clients, request' = [request EXCEPT ![c] = "none"]
  PROVE  /\ Cardinality(StartRequests') <= Cardinality(StartRequests)
         /\ c \in StartRequests => Cardinality(StartRequests') = Cardinality(StartRequests) - 1
         /\ Cardinality(StartRequests') \in Nat
<1>1. StartRequests' = StartRequests \ {c}
  BY DEF StartRequests, TypeInv
<1>2. IsFiniteSet(StartRequests \ {c})
  BY StartRequestsFinite, FS_RemoveElement
<1> QED
  BY <1>1, <1>2, StartRequestsFinite, FS_RemoveElement, FS_CardinalityType

LEMMA PathStep == TypeInv /\ PathInv /\ [Next]_vars => PathInv'
<1> SUFFICES ASSUME TypeInv, PathInv, [Next]_vars
             PROVE  PathInv'
  OBVIOUS
<1>1. ASSUME UNCHANGED <<last, request, uninstall>>,
             \A x \in Tx : tx'[x] = "unused" <=> tx[x] = "unused"
      PROVE  PathInv'
  <2>1. StartRequests' = StartRequests
    BY <1>1 DEF StartRequests
  <2> QED
    BY <1>1, <2>1 DEF PathInv
<1>2. CASE ServerNext
  BY <1>1, <1>2 DEF ServerNext, TimeoutCb, SignalTerminate, SignalHangup, OnNameLost, Exit, Tick
<1>3. CASE \E c \in Clients : ClientNext(c)
  <2> PICK c \in Clients : ClientNext(c)
    BY <1>3
  <2>0. last \in Nat /\ last + Cardinality(StartRequests) <= MaxTx
    BY DEF TypeInv, PathInv
  <2>1. ASSUME NEW m \in Requests \ {"none"}, SendRequest(c, m)
        PROVE  PathInv'
    <3>1. \A d \in Clients : request'[d] = "none" \/ uninstall'[d] = "none"
      BY <2>1 DEF SendRequest, PathInv, TypeInv
    <3>2. \A x \in Tx : tx'[x] = "unused" <=> x >= last'
      BY <2>1 DEF SendRequest, PathInv
    <3>3. last' + Cardinality(StartRequests') <= MaxTx
      <4>1. CASE m = "Uninstall"
        <5>1. StartRequests' = StartRequests
          BY <2>1, <4>1 DEF SendRequest, StartRequests, TypeInv
        <5> QED
          BY <2>0, <2>1, <5>1 DEF SendRequest
      <4>2. CASE m # "Uninstall"
        <5>1. StartRequests' = StartRequests \cup {c} /\ c \notin StartRequests
          BY <2>1, <4>2 DEF SendRequest, StartRequests, TypeInv, Requests
        <5>2. Cardinality(StartRequests') = Cardinality(StartRequests) + 1
          BY <5>1, StartRequestsFinite, FS_AddElement
        <5>3. last' = last /\ last + Cardinality(StartRequests) < MaxTx
          BY <2>1, <4>2 DEF SendRequest
        <5> QED
          BY <2>0, <5>2, <5>3, StartRequestsFinite
      <4> QED
        BY <4>1, <4>2
    <3> QED
      BY <3>1, <3>2, <3>3 DEF PathInv
  <2>2. CASE Disconnect(c)
    BY <1>1, <2>2 DEF Disconnect
  <2>3. ASSUME request' = [request EXCEPT ![c] = "none"], UNCHANGED <<last, tx>>,
               \A d \in Clients \ {c} : uninstall'[d] = uninstall[d]
        PROVE  PathInv'
    <3>1. last' + Cardinality(StartRequests') <= MaxTx
      <4>1. /\ Cardinality(StartRequests') \in Nat /\ Cardinality(StartRequests) \in Nat
            /\ Cardinality(StartRequests') <= Cardinality(StartRequests)
        BY <2>3, StartRequestsShrink, StartRequestsFinite
      <4>2. last' = last
        BY <2>3
      <4> QED
        BY <2>0, <4>1, <4>2
    <3> QED
      BY <2>3, <3>1 DEF PathInv, TypeInv
  <2>4. CASE StartDbusTransaction(c) /\ request[c] \in {"Install", "Update"}
    <3>1. last \in Tx /\ c \in StartRequests
      BY <2>4, PathLeft
    <3>2. last' = last + 1 /\ request' = [request EXCEPT ![c] = "none"] /\ uninstall' = uninstall
      BY <2>4 DEF StartDbusTransaction, EamRemoteTransactionNew
    <3>3. last' + Cardinality(StartRequests') <= MaxTx
      <4>1. /\ Cardinality(StartRequests') \in Nat /\ Cardinality(StartRequests) \in Nat
            /\ Cardinality(StartRequests') = Cardinality(StartRequests) - 1
        BY <3>1, <3>2, StartRequestsShrink, StartRequestsFinite
      <4> QED
        BY <2>0, <3>2, <4>1
    <3>4. \E s \in {"open", "freed"} : tx' = [tx EXCEPT ![last] = s]
      BY <2>4 DEF StartDbusTransaction, EamRemoteTransactionNew, EamServiceGetNextTransactionPath
    <3>5. \A x \in Tx : tx'[x] = "unused" <=> x >= last'
      BY <2>0, <3>1, <3>2, <3>4 DEF PathInv, TypeInv, Tx
    <3> QED
      BY <3>2, <3>3, <3>5 DEF PathInv, TypeInv
  <2>5. CASE UninstallWorkerReturn(c)
    <3>1. \A d \in Clients : uninstall'[d] = "none" <=> uninstall[d] = "none"
      BY <2>5 DEF UninstallWorkerReturn, TypeInv
    <3>2. StartRequests' = StartRequests
      BY <2>5 DEF UninstallWorkerReturn, StartRequests
    <3> QED
      BY <2>5, <3>1, <3>2 DEF UninstallWorkerReturn, PathInv
  <2>6. CASE UninstallCb(c)
    <3>1. StartRequests' = StartRequests
      BY <2>6 DEF UninstallCb, StartRequests
    <3> QED
      BY <2>6, <3>1 DEF UninstallCb, PathInv, TypeInv
  <2>7. CASE NotAuthorized(c)
    BY <2>3, <2>7 DEF NotAuthorized
  <2>8. CASE HandleUninstall(c) /\ ~NotAuthorized(c)
    <3>1. \A d \in Clients \ {c} : uninstall'[d] = uninstall[d]
      BY <2>8 DEF HandleUninstall, TypeInv
    <3> QED
      BY <2>3, <2>8, <3>1 DEF HandleUninstall
  <2> QED
    BY <2>1, <2>2, <2>4, <2>5, <2>6, <2>7, <2>8
       DEF ClientNext, HandleRequest, HandleInstall, HandleUpdate, HandleUninstall
<1>4. CASE \E x \in Tx : TxNext(x)
  <2> PICK x \in Tx : TxNext(x)
    BY <1>4
  <2>1. UNCHANGED <<last, request, uninstall>>
    BY DEF TxNext, CompleteTransaction, CancelTransaction, SenderVanished, WorkerReturn,
           TransactionCompleteCb
  <2>2. tx' = tx \/ (tx[x] = "open" /\ tx' = [tx EXCEPT ![x] = "freed"])
    BY DEF TxNext, CompleteTransaction, CancelTransaction, SenderVanished, WorkerReturn,
           TransactionCompleteCb, EamRemoteTransactionCancel, EamRemoteTransactionFree
  <2>3. \A y \in Tx : tx'[y] = "unused" <=> tx[y] = "unused"
    BY <2>2 DEF TypeInv
  <2> QED
    BY <1>1, <2>1, <2>3
<1>5. CASE UNCHANGED vars
  BY <1>1, <1>5
<1> QED
  BY <1>2, <1>3, <1>4, <1>5 DEF Next

-----------------------------------------------------------------------------
(* The life of a transaction object whose client completes it once. *)

LEMMA RemoteUnchanged ==
  ASSUME RemoteInv, UNCHANGED <<tx, cancelled, invocation, task, reply>>
  PROVE  RemoteInv'
  BY DEF RemoteInv, RemoteOK

LEMMA OnlyCall ==
  ASSUME CompletedOnce, TypeInv, RemoteInv, NEW x \in Tx
  PROVE  /\ 1 \in Calls /\ invocation[x] \in {0, 1} /\ RemoteOK(x)
         /\ \A k \in Calls \ {1} : k > 1 /\ task[x][k] = "none" /\ reply[x][k] = "none"
<1>1. 1 \in Calls /\ \A k \in Calls \ {1} : k \in Nat /\ k > 1
  BY DEF Calls
<1>2. invocation[x] \in {0, 1} /\ RemoteOK(x)
  <2>1. invocation[x] \in Nat /\ invocation[x] <= 1
    BY DEF TypeInv, CompletedOnce
  <2> QED
    BY <2>1 DEF RemoteInv
<1>3. ASSUME NEW k \in Calls \ {1} PROVE task[x][k] = "none" /\ reply[x][k] = "none"
  <2>1. k > invocation[x]
    BY <1>1, <1>2
  <2> QED
    BY <1>2, <2>1 DEF RemoteOK
<1> QED
  BY <1>1, <1>2, <1>3

(* A task the loop still has to dispatch belongs to an open transaction,    *)
(* unless that was cancelled; remote->invocation is then its call.          *)
LEMMA PendingTask ==
  ASSUME CompletedOnce, TypeInv, RemoteInv, NEW x \in Tx, NEW k \in Calls,
         task[x][k] \in {"running", "ok", "error"}
  PROVE  k = 1 /\ invocation[x] = 1 /\ (cancelled[x] \/ tx[x] = "open")
<1>1. k = 1
  BY OnlyCall
<1> QED
  BY <1>1, OnlyCall DEF RemoteOK

LEMMA RemoteStep ==
  ASSUME CompletedOnce, CompletedOnce', TypeInv, PathInv, RemoteInv, NoUseAfterFree, [Next]_vars
  PROVE  RemoteInv' /\ NoUseAfterFree'
<1>0. SUFFICES ASSUME ~UNCHANGED <<tx, cancelled, invocation, task, reply, freedAccess>>
               PROVE  RemoteInv' /\ NoUseAfterFree'
  BY RemoteUnchanged DEF NoUseAfterFree
<1>1. CASE \E c \in Clients : ClientNext(c)
  <2>1. PICK c \in Clients : StartDbusTransaction(c) /\ request[c] \in {"Install", "Update"}
    BY <1>0, <1>1 DEF ClientNext, SendRequest, Disconnect, HandleRequest, HandleInstall, HandleUpdate,
                      HandleUninstall, NotAuthorized, UninstallWorkerReturn, UninstallCb
  <2>2. last \in Tx /\ tx[last] = "unused"
    BY <2>1, PathLeft DEF PathInv, Tx
  <2>3. /\ \E s \in {"open", "freed"} : tx' = [tx EXCEPT ![last] = s]
        /\ UNCHANGED <<cancelled, invocation, task, reply, freedAccess>>
    BY <2>1 DEF StartDbusTransaction, EamRemoteTransactionNew, EamServiceGetNextTransactionPath
  <2>4. ASSUME NEW y \in Tx PROVE RemoteOK(y)'
    <3>1. RemoteOK(y) /\ (y = last => invocation[y] = 0)
      BY <2>2 DEF RemoteInv, RemoteOK
    <3>2. CASE y = last
      <4>1. invocation[y] = 0 /\ ~cancelled[y] /\ \A k \in Calls : task[y][k] = "none" /\ reply[y][k] = "none"
        BY <3>1, <3>2, <2>2 DEF RemoteOK, Calls
      <4> QED
        BY <2>3, <4>1 DEF RemoteOK
    <3>3. CASE y # last
      BY <2>3, <3>1, <3>3 DEF RemoteOK, TypeInv
    <3> QED
      BY <3>2, <3>3
  <2> QED
    BY <2>3, <2>4 DEF RemoteInv, NoUseAfterFree
<1>2. CASE \E x \in Tx : TxNext(x)
  <2> PICK x \in Tx : TxNext(x)
    BY <1>2
  <2>0. /\ 1 \in Calls /\ invocation[x] \in {0, 1} /\ RemoteOK(x)
        /\ \A k \in Calls \ {1} : k > 1 /\ task[x][k] = "none" /\ reply[x][k] = "none"
    BY OnlyCall
  <2>1. ASSUME NEW b \in BOOLEAN, CompleteTransaction(x, b)
        PROVE  RemoteInv' /\ NoUseAfterFree'
    <3>1. invocation[x] = 0 /\ tx[x] = "open"
      <4>1. invocation'[x] = invocation[x] + 1 /\ invocation'[x] <= 1
        BY <2>1 DEF CompleteTransaction, TypeInv, CompletedOnce
      <4> QED
        BY <2>0, <2>1, <4>1 DEF CompleteTransaction
    <3>2. /\ invocation' = [invocation EXCEPT ![x] = 1]
          /\ task' = [task EXCEPT ![x][1] = "running"]
          /\ reply' = [reply EXCEPT ![x][1] = "waiting"]
          /\ UNCHANGED <<tx, cancelled, freedAccess>>
      BY <2>1, <3>1 DEF CompleteTransaction, TypeInv
    <3>3. RemoteOK(x)'
      BY <2>0, <3>1, <3>2 DEF RemoteOK, TypeInv
    <3>4. ASSUME NEW y \in Tx, y # x PROVE RemoteOK(y)'
      BY <3>2, <3>4 DEF RemoteInv, RemoteOK, TypeInv
    <3> QED
      BY <3>2, <3>3, <3>4 DEF RemoteInv, NoUseAfterFree
  <2>2. ASSUME tx[x] = "open", EamRemoteTransactionCancel(x)
        PROVE  RemoteInv' /\ NoUseAfterFree'
    <3>1. /\ tx' = [tx EXCEPT ![x] = "freed"]
          /\ cancelled' = [cancelled EXCEPT ![x] = TRUE]
          /\ UNCHANGED <<invocation, task, freedAccess>>
      BY <2>2 DEF EamRemoteTransactionCancel, EamRemoteTransactionFree
    <3>2. reply' = IF invocation[x] = 1 THEN [reply EXCEPT ![x][1] = "cancelled"] ELSE reply
      <4>1. CASE invocation[x] = 0
        BY <2>2, <4>1 DEF EamRemoteTransactionCancel, ReplyCancelled
      <4>2. CASE invocation[x] = 1
        BY <2>2, <4>2 DEF EamRemoteTransactionCancel, ReplyCancelled
      <4> QED
        BY <2>0, <4>1, <4>2
    <3>3. RemoteOK(x)'
      BY <2>0, <3>1, <3>2 DEF RemoteOK, TypeInv
    <3>4. ASSUME NEW y \in Tx, y # x PROVE RemoteOK(y)'
      BY <3>1, <3>2, <3>4 DEF RemoteInv, RemoteOK, TypeInv
    <3> QED
      BY <3>1, <3>3, <3>4 DEF RemoteInv, NoUseAfterFree
  <2>3. ASSUME NEW k \in Calls, WorkerReturn(x, k)
        PROVE  RemoteInv' /\ NoUseAfterFree'
    <3>1. /\ \E r \in {"ok", "error"} : task' = [task EXCEPT ![x][k] = r]
          /\ task[x][k] = "running"
          /\ UNCHANGED <<tx, cancelled, invocation, reply, freedAccess>>
      BY <2>3 DEF WorkerReturn
    <3>2. invocation[x] = 1 /\ k = 1
      BY <3>1, PendingTask
    <3>3. RemoteOK(x)'
      BY <2>0, <3>1, <3>2 DEF RemoteOK, TypeInv
    <3>4. ASSUME NEW y \in Tx, y # x PROVE RemoteOK(y)'
      BY <3>1, <3>4 DEF RemoteInv, RemoteOK, TypeInv
    <3> QED
      BY <3>1, <3>3, <3>4 DEF RemoteInv, NoUseAfterFree
  <2>4. ASSUME NEW k \in Calls, TransactionCompleteCb(x, k)
        PROVE  RemoteInv' /\ NoUseAfterFree'
    <3>1. task[x][k] \in {"ok", "error"} /\ task' = [task EXCEPT ![x][k] = "done"]
          /\ UNCHANGED <<cancelled, invocation>>
      BY <2>4 DEF TransactionCompleteCb, FinishedTask
    <3>2. invocation[x] = 1 /\ k = 1 /\ (cancelled[x] \/ tx[x] = "open")
      BY <3>1, PendingTask
    <3>3. freedAccess' = freedAccess
      BY <2>4, <3>2 DEF TransactionCompleteCb, FinishedCancelled
    <3>4. \/ cancelled[x] /\ UNCHANGED <<tx, reply>>
          \/ /\ tx' = [tx EXCEPT ![x] = "freed"]
             /\ \E r \in {"success", "error"} : reply' = [reply EXCEPT ![x][1] = r]
      BY <2>4, <3>2 DEF TransactionCompleteCb, FinishedCancelled, ReplyResult, EamRemoteTransactionFree
    <3>5. RemoteOK(x)'
      BY <2>0, <3>1, <3>2, <3>4 DEF RemoteOK, TypeInv
    <3>6. ASSUME NEW y \in Tx, y # x PROVE RemoteOK(y)'
      BY <3>1, <3>4, <3>6 DEF RemoteInv, RemoteOK, TypeInv
    <3> QED
      BY <3>3, <3>5, <3>6 DEF RemoteInv, NoUseAfterFree
  <2> QED
    BY <2>1, <2>2, <2>3, <2>4 DEF TxNext, CancelTransaction, SenderVanished
<1> QED
  BY <1>0, <1>1, <1>2 DEF Next, ServerNext, TimeoutCb, SignalTerminate, SignalHangup, OnNameLost,
                          Exit, Tick

-----------------------------------------------------------------------------
(* The busy counter. *)

LEMMA BusyStep ==
  ASSUME CompletedOnce, CompletedOnce', IInv, [Next]_vars
  PROVE  BusyExact'
<1> USE DEF IInv
<1>0. /\ busy \in Nat /\ busy = Cardinality(Open) + Cardinality(Uninstalling)
      /\ Cardinality(Open) \in 0 .. MaxTx
      /\ Cardinality(Uninstalling) \in 0 .. Cardinality(Clients)
      /\ Cardinality(Clients) \in Nat
      /\ busy <= MaxTx + Cardinality(Clients)
  BY OpenFinite, UninstallingFinite, ClientsFinite, BusyAssumption DEF TypeInv, BusyExact
<1>1. ASSUME UNCHANGED <<busy, tx, uninstall>>
      PROVE  BusyExact'
  BY <1>1 DEF BusyExact, Open, Uninstalling
<1>2. ASSUME NEW x \in Tx, tx[x] = "open", EamRemoteTransactionFree(x), EamServicePopBusy,
             uninstall' = uninstall
      PROVE  BusyExact'
  <2>1. Uninstalling' = Uninstalling
    BY <1>2 DEF Uninstalling
  <2>2. Cardinality(Open') = Cardinality(Open) - 1 /\ Cardinality(Open) >= 1
    BY <1>2, OpenFreed
  <2>3. busy' = busy - 1
    BY <1>0, <1>2, <2>2, PopSubtracts
  <2> QED
    BY <1>0, <2>1, <2>2, <2>3 DEF BusyExact
<1>3. CASE ServerNext
  BY <1>1, <1>3 DEF ServerNext, TimeoutCb, SignalTerminate, SignalHangup, OnNameLost, Exit, Tick
<1>4. CASE \E c \in Clients : ClientNext(c)
  <2> PICK c \in Clients : ClientNext(c)
    BY <1>4
  <2>1. CASE UNCHANGED <<busy, tx, uninstall>>
    BY <1>1, <2>1
  <2>2. CASE StartDbusTransaction(c) /\ request[c] \in {"Install", "Update"}
    <3>1. last \in Tx /\ tx[last] = "unused"
      BY <2>2, PathLeft DEF PathInv, Tx
    <3>2. Uninstalling' = Uninstalling
      BY <2>2 DEF StartDbusTransaction, Uninstalling
    <3>3. CASE EamRemoteTransactionNew(c, TRUE) /\ EamServicePushBusy
      <4>1. tx' = [tx EXCEPT ![last] = "open"]
        BY <3>3 DEF EamRemoteTransactionNew, EamServiceGetNextTransactionPath
      <4>2. Cardinality(Open') = Cardinality(Open) + 1
        BY <3>1, <4>1, OpenAdded
      <4>3. Cardinality(Open) < MaxTx
        <5>1. Open \subseteq Tx \ {last} /\ last \in Tx
          BY <3>1 DEF Open
        <5>2. IsFiniteSet(Tx \ {last}) /\ Cardinality(Tx \ {last}) = MaxTx - 1
          BY <3>1, TxFinite, FS_RemoveElement
        <5>3. Cardinality(Open) <= Cardinality(Tx \ {last})
          BY <5>1, <5>2, FS_Subset
        <5> QED
          BY <1>0, <5>2, <5>3
      <4>4. busy' = busy + 1
        BY <1>0, <3>3, <4>3, PushAdds
      <4> QED
        BY <1>0, <3>2, <4>2, <4>4 DEF BusyExact
    <3>4. CASE EamRemoteTransactionNew(c, FALSE) /\ UNCHANGED busy
      <4>1. Open' = Open
        BY <3>1, <3>4 DEF EamRemoteTransactionNew, EamServiceGetNextTransactionPath, Open, TypeInv
      <4> QED
        BY <1>0, <3>2, <3>4, <4>1 DEF BusyExact
    <3> QED
      BY <2>2, <3>3, <3>4 DEF StartDbusTransaction
  <2>3. CASE HandleUninstall(c) /\ ~NotAuthorized(c)
    <3>1. /\ uninstall[c] = "none" /\ uninstall' = [uninstall EXCEPT ![c] = "running"]
          /\ EamServicePushBusy /\ tx' = tx
      BY <2>3 DEF HandleUninstall, PathInv
    <3>2. Cardinality(Uninstalling') = Cardinality(Uninstalling) + 1
      BY <3>1, UninstallStarted
    <3>3. Cardinality(Uninstalling) < Cardinality(Clients)
      <4>1. Uninstalling \subseteq Clients \ {c}
        BY <3>1 DEF Uninstalling
      <4>2. IsFiniteSet(Clients \ {c}) /\ Cardinality(Clients \ {c}) = Cardinality(Clients) - 1
        BY ClientsFinite, FS_RemoveElement
      <4>3. Cardinality(Uninstalling) <= Cardinality(Clients \ {c})
        BY <4>1, <4>2, FS_Subset
      <4> QED
        BY <1>0, <4>2, <4>3
    <3>4. busy' = busy + 1
      BY <1>0, <3>1, <3>3, PushAdds
    <3>5. Open' = Open
      BY <3>1 DEF Open
    <3> QED
      BY <1>0, <3>2, <3>4, <3>5 DEF BusyExact
  <2>4. CASE UninstallWorkerReturn(c)
    <3>1. Uninstalling' = Uninstalling /\ Open' = Open /\ busy' = busy
      BY <2>4 DEF UninstallWorkerReturn, Uninstalling, Open, TypeInv
    <3> QED
      BY <3>1 DEF BusyExact
  <2>5. CASE UninstallCb(c)
    <3>1. /\ uninstall[c] # "none" /\ uninstall' = [uninstall EXCEPT ![c] = "none"]
          /\ EamServicePopBusy /\ tx' = tx
      BY <2>5 DEF UninstallCb, FinishedTask
    <3>2. /\ Cardinality(Uninstalling') = Cardinality(Uninstalling) - 1
          /\ Cardinality(Uninstalling) >= 1
      BY <3>1, UninstallEnded
    <3>3. busy' = busy - 1
      BY <1>0, <3>1, <3>2, PopSubtracts
    <3>4. Open' = Open
      BY <3>1 DEF Open
    <3> QED
      BY <1>0, <3>2, <3>3, <3>4 DEF BusyExact
  <2> QED
    BY <2>1, <2>2, <2>3, <2>4, <2>5
       DEF ClientNext, HandleRequest, HandleInstall, HandleUpdate, HandleUninstall, SendRequest,
           Disconnect, NotAuthorized
<1>5. CASE \E x \in Tx : TxNext(x)
  <2> PICK x \in Tx : TxNext(x)
    BY <1>5
  <2>1. CASE UNCHANGED <<busy, tx, uninstall>>
    BY <1>1, <2>1
  <2>2. CASE tx[x] = "open" /\ EamRemoteTransactionFree(x) /\ EamServicePopBusy /\ UNCHANGED uninstall
    BY <1>2, <2>2
  <2> QED
    BY <2>1, <2>2
       DEF TxNext, CompleteTransaction, CancelTransaction, SenderVanished, EamRemoteTransactionCancel,
           WorkerReturn, TransactionCompleteCb
<1>6. CASE UNCHANGED vars
  BY <1>1, <1>6
<1> QED
  BY <1>3, <1>4, <1>5, <1>6 DEF Next

-----------------------------------------------------------------------------
(* The properties the runs check, for every value of the constants. *)

LEMMA InitIInv == Init => IInv
<1> SUFFICES ASSUME Init PROVE IInv
  OBVIOUS
<1> USE DEF Init
<1>1. TypeInv
  <2>1. 0 \in 0 .. BusyModulus - 1
    BY BusyAssumption, ClientsFinite
  <2>2. 0 \in 0 .. Timeout + 1 /\ 0 \in 0 .. MaxTx /\ 0 \in 0 .. MaxComplete
    OBVIOUS
  <2>3. /\ request \in [Clients -> Requests] /\ uninstall \in [Clients -> TaskStates \ {"done"}]
        /\ tx \in [Tx -> {"unused", "open", "freed"}] /\ sender \in [Tx -> Clients \cup {NoClient}]
    BY DEF Requests, TaskStates
  <2>4. /\ cancelled \in [Tx -> BOOLEAN] /\ bundle \in [Tx -> BOOLEAN]
        /\ invocation \in [Tx -> 0 .. MaxComplete]
    BY <2>2
  <2>5. task \in [Tx -> [Calls -> TaskStates]] /\ reply \in [Tx -> [Calls -> Replies]]
    BY DEF TaskStates, Replies
  <2> QED
    BY <2>1, <2>2, <2>3, <2>4, <2>5 DEF TypeInv
<1>2. Open = {} /\ Uninstalling = {} /\ StartRequests = {}
  BY DEF Open, Uninstalling, StartRequests
<1>3. BusyExact
  BY <1>2, FS_EmptySet DEF BusyExact
<1>4. PathInv
  BY <1>2, FS_EmptySet DEF PathInv, Tx
<1>5. RemoteInv /\ NoUseAfterFree
  BY DEF RemoteInv, RemoteOK, NoUseAfterFree, Calls
<1> QED
  BY <1>1, <1>3, <1>4, <1>5 DEF IInv

LEMMA IInvStep == IInv /\ CompletedOnce /\ CompletedOnce' /\ [Next]_vars => IInv'
  BY TypeStep, PathStep, RemoteStep, BusyStep DEF IInv

(* With clients that complete a transaction once, the inductive invariant   *)
(* of the daemon: counter, path numbers and the life of the transactions.   *)
THEOREM Invariance == Spec /\ []CompletedOnce => []IInv
  BY IInvStep, InitIInv, PTL DEF Spec

(* The busy counter of eam-service.c counts what is under way, in every     *)
(* state and for every number of clients and transactions.                  *)
THEOREM BusyCounterExact == Spec /\ []CompletedOnce => []BusyExact
<1>1. IInv => BusyExact
  BY DEF IInv
<1> QED
  BY <1>1, Invariance, PTL

(* Type correctness, with the guint never wrapping.                         *)
THEOREM TypeCorrect == Spec /\ []CompletedOnce => []TypeOK
<1>1. IInv => TypeOK
  BY OpenFinite, UninstallingFinite, ClientsFinite DEF IInv, TypeOK, BusyExact
<1> QED
  BY <1>1, Invariance, PTL

(* transaction_complete_cb never uses a freed transaction.                  *)
THEOREM CallbackSafe == Spec /\ []CompletedOnce => []NoUseAfterFree
<1>1. IInv => NoUseAfterFree
  BY DEF IInv
<1> QED
  BY <1>1, Invariance, PTL

(* A CompleteTransaction call is answered once: only a waiting reply, or     *)
(* none, is ever written.                                                   *)
THEOREM RepliesFinal == Spec /\ []CompletedOnce => AnsweredOnce
<1> DEFINE Final == \A x \in Tx, k \in Calls :
                       reply[x][k] \notin {"none", "waiting"} => reply'[x][k] = reply[x][k]
<1>1. IInv /\ CompletedOnce /\ CompletedOnce' /\ [Next]_vars => [Final]_vars
  <2> SUFFICES ASSUME IInv, CompletedOnce, CompletedOnce', Next PROVE Final
    OBVIOUS
  <2> USE DEF IInv
  <2>1. CASE reply' = reply
    BY <2>1
  <2>2. ASSUME NEW x \in Tx, NEW i \in Calls, reply[x][i] \in {"none", "waiting"},
               NEW r, reply' = [reply EXCEPT ![x][i] = r]
        PROVE  Final
    BY <2>2 DEF TypeInv
  <2>3. CASE ServerNext
    BY <2>1, <2>3 DEF ServerNext, TimeoutCb, SignalTerminate, SignalHangup, OnNameLost, Exit, Tick
  <2>4. CASE \E c \in Clients : ClientNext(c)
    BY <2>1, <2>4 DEF ClientNext, SendRequest, Disconnect, HandleRequest, HandleInstall, HandleUpdate,
                      HandleUninstall, NotAuthorized, StartDbusTransaction, EamRemoteTransactionNew,
                      UninstallWorkerReturn, UninstallCb
  <2>5. CASE \E x \in Tx : TxNext(x)
    <3> PICK x \in Tx : TxNext(x)
      BY <2>5
    <3>0. RemoteOK(x) /\ invocation[x] \in 0 .. 1 /\ 1 \in Calls
      BY DEF RemoteInv, TypeInv, CompletedOnce, Calls
    <3>1. ASSUME NEW b \in BOOLEAN, CompleteTransaction(x, b)
          PROVE  Final
      <4>1. invocation[x] = 0 /\ reply' = [reply EXCEPT ![x][1] = "waiting"]
        <5>1. invocation[x] = 0
          <6>1. invocation'[x] = invocation[x] + 1 /\ invocation'[x] <= 1
            BY <3>1 DEF CompleteTransaction, TypeInv, CompletedOnce
          <6> QED
            BY <3>0, <6>1
        <5> QED
          BY <3>1, <5>1 DEF CompleteTransaction
      <4>2. reply[x][1] = "none"
        BY <3>0, <4>1 DEF RemoteOK
      <4> QED
        BY <2>2, <3>0, <4>1, <4>2
    <3>2. CASE tx[x] = "open" /\ EamRemoteTransactionCancel(x)
      <4>1. CASE invocation[x] = 0
        BY <2>1, <3>2, <4>1 DEF EamRemoteTransactionCancel, ReplyCancelled
      <4>2. CASE invocation[x] = 1
        <5>1. reply' = [reply EXCEPT ![x][1] = "cancelled"] /\ reply[x][1] = "waiting"
          BY <3>0, <3>2, <4>2 DEF EamRemoteTransactionCancel, ReplyCancelled, RemoteOK
        <5> QED
          BY <2>2, <3>0, <5>1
      <4> QED
        BY <3>0, <4>1, <4>2
    <3>3. ASSUME NEW k \in Calls, WorkerReturn(x, k)
          PROVE  Final
      BY <2>1, <3>3 DEF WorkerReturn
    <3>4. ASSUME NEW k \in Calls, TransactionCompleteCb(x, k)
          PROVE  Final
      <4>1. k = 1 /\ invocation[x] = 1 /\ (cancelled[x] \/ tx[x] = "open")
        BY <3>4, PendingTask DEF TransactionCompleteCb, FinishedTask
      <4>2. CASE reply' # reply
        <5>1. tx[x] = "open" /\ \E r : reply' = [reply EXCEPT ![x][1] = r]
          BY <3>4, <4>1, <4>2 DEF TransactionCompleteCb, ReplyResult
        <5>2. reply[x][1] = "waiting"
          BY <3>0, <4>1, <5>1 DEF RemoteOK
        <5> QED
          BY <2>2, <3>0, <5>1, <5>2
      <4> QED
        BY <2>1, <4>2
    <3> QED
      BY <3>1, <3>2, <3>3, <3>4 DEF TxNext, CancelTransaction, SenderVanished
  <2> QED
    BY <2>3, <2>4, <2>5 DEF Next
<1> QED
  BY <1>1, Invariance, PTL DEF Spec, AnsweredOnce

(* The idle poll never ends the daemon while a client holds a transaction   *)
(* or waits for an uninstall, however many there are.                       *)
THEOREM IdleQuitSafe == Spec /\ []CompletedOnce => IdleQuitServesNobody
<1>1. IInv /\ TimeoutCb => Open = {} /\ Uninstalling = {}
  <2> SUFFICES ASSUME IInv, TimeoutCb PROVE Open = {} /\ Uninstalling = {}
    OBVIOUS
  <2>1. busy = 0
    BY DEF TimeoutCb, EamServiceGetIdle, EamServiceIsBusy, IInv, TypeInv
  <2>2. Cardinality(Open) = 0 /\ Cardinality(Uninstalling) = 0
    BY <2>1, OpenFinite, UninstallingFinite, ClientsFinite DEF IInv, BusyExact
  <2> QED
    BY <2>2, OpenFinite, UninstallingFinite, FS_EmptySet
<1>2. IInv /\ [Next]_vars => [(TimeoutCb /\ loop' # loop) => Open = {} /\ Uninstalling = {}]_vars
  BY <1>1
<1> QED
  BY <1>2, Invariance, PTL DEF Spec, IdleQuitServesNobody

(* No CompleteTransaction call is left unanswered by a freed transaction.   *)
THEOREM CallsNotAbandoned == Spec /\ []CompletedOnce => []NoCallAbandoned
<1>1. IInv => NoCallAbandoned
  BY DEF IInv, RemoteInv, RemoteOK, NoCallAbandoned
<1> QED
  BY <1>1, Invariance, PTL

=============================================================================

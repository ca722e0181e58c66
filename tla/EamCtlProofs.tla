---------------------------- MODULE EamCtlProofs ----------------------------
(***************************************************************************)
(* Proofs about EamCtl, for any finite set of clients and any number of    *)
(* commands: what their exit codes say, and that they owe the daemon       *)
(* nothing, so that what is proved of EamService for clients that complete *)
(* a transaction once holds of the daemon with its commands.               *)
(***************************************************************************)
EXTENDS EamCtl, EamServiceRefinement

-----------------------------------------------------------------------------
(* The inductive invariant.                                                *)

Given(c) == path[c] \in Tx

(* Nothing of what the command began can still succeed, or nobody is left  *)
(* to do it.                                                               *)
Failed(c) ==
    \/ loop = "exited"
    \/ /\ ~done[c] /\ request[c] = "none" /\ uninstall[c] = "none"
       /\ Given(c) => task[path[c]][1] \in {"none", "done"}

(* The command, its calls and its transaction go together.                 *)
ClientOK(c) ==
    /\ Given(c) =>
          /\ sender[path[c]] = c /\ tx[path[c]] # "unused"
          /\ request[c] = "none" /\ uninstall[c] = "none"
          /\ task[path[c]][1] \in {"none", "running", "error"} => ~done[c]
          /\ task[path[c]][1] = "ok" => done[c]
    /\ request[c] # "none" \/ uninstall[c] \in {"running", "error"} => ~done[c]
    /\ uninstall[c] = "ok" => done[c]
    /\ session[c] \notin Exited => c \in connected
    /\ session[c] \in {"start", "begin"} =>
          request[c] = "none" /\ uninstall[c] = "none" /\ ~Given(c) /\ ~done[c]
    /\ session[c] = "complete" => Given(c) /\ tx[path[c]] = "open" /\ invocation[path[c]] = 0
    /\ session[c] = "waiting" => Given(c) /\ tx[path[c]] = "open" /\ invocation[path[c]] = 1
    /\ session[c] = "cancel" =>
          /\ Given(c) /\ Failed(c)
          /\ Reachable => tx[path[c]] # "open"
    /\ session[c] = "success" => done[c]
    /\ session[c] = "failed" => Failed(c)

CtlTypes ==
    /\ command \in [Clients -> Commands]
    /\ allowed \in [Clients -> BOOLEAN]
    /\ session \in [Clients -> Sessions]
    /\ path \in [Clients -> 0 .. MaxTx]
    /\ done \in [Clients -> BOOLEAN]

ClientsOK == \A c \in Clients : ClientOK(c)

CtlIInv == IInv /\ CtlTypes /\ CompletedOnce /\ ClientsOK

(* What ClientOK says of a client does not change with a step that leaves  *)
(* its session, its calls and its transaction alone.                       *)
Untouched(d) ==
    /\ session'[d] = session[d] /\ path'[d] = path[d] /\ done'[d] = done[d]
    /\ request'[d] = request[d] /\ uninstall'[d] = uninstall[d]
    /\ session[d] \notin Exited => (d \in connected => d \in connected')
    /\ Given(d) =>
          /\ sender'[path[d]] = sender[path[d]] /\ tx'[path[d]] = tx[path[d]]
          /\ invocation'[path[d]] = invocation[path[d]]
          /\ task'[path[d]][1] = task[path[d]][1]

(* The daemon does not come back, nor does its name.                       *)
Lasting ==
    /\ loop = "exited" => loop' = "exited"
    /\ Reachable' => Reachable

LEMMA Frame ==
  ASSUME NEW d \in Clients, ClientOK(d), Untouched(d), Lasting
  PROVE  ClientOK(d)'
<1>1. Given(d)' <=> Given(d)
  BY DEF Untouched, Given
<1>2. Failed(d) => Failed(d)'
  BY <1>1 DEF Untouched, Lasting, Failed
<1> QED
  BY <1>1, <1>2 DEF ClientOK, Untouched, Lasting

(* Nobody else was given a client's transaction. *)
LEMMA OwnPath ==
  ASSUME ClientsOK, NEW c \in Clients, NEW d \in Clients \ {c}, Given(c), Given(d)
  PROVE  path[d] # path[c]
BY DEF ClientsOK, ClientOK

(* A step of c that changes at most its own entries, and its transaction's. *)
OwnSessions(c) ==
    \A d \in Clients \ {c} :
       session'[d] = session[d] /\ path'[d] = path[d] /\ done'[d] = done[d]

OwnCalls(c) ==
    \A d \in Clients \ {c} : request'[d] = request[d] /\ uninstall'[d] = uninstall[d]

OwnTx(c) ==
    \A x \in Tx :
       ~(Given(c) /\ x = path[c]) =>
          /\ sender'[x] = sender[x] /\ tx'[x] = tx[x] /\ invocation'[x] = invocation[x]
          /\ task'[x] = task[x]

LEMMA OthersUntouched ==
  ASSUME ClientsOK, NEW c \in Clients, OwnSessions(c), OwnCalls(c), OwnTx(c), connected' = connected
  PROVE  \A d \in Clients \ {c} : Untouched(d)
BY OwnPath DEF OwnSessions, OwnCalls, OwnTx, Untouched, Given

-----------------------------------------------------------------------------
(* The steps of the commands.                                              *)

(* What a step of c has to establish. *)
Keeps(c) ==
    /\ CtlTypes' /\ CompletedOnce' /\ Lasting
    /\ ClientOK(c)' /\ \A d \in Clients \ {c} : Untouched(d)

(* Only the session of c moves. *)
LEMMA MoveStep ==
  ASSUME CtlIInv, NEW c \in Clients, NEW s \in Sessions, Moves(c, s), UNCHANGED <<vars, path, done>>
  PROVE  /\ CtlTypes' /\ CompletedOnce' /\ Lasting /\ session'[c] = s
         /\ \A d \in Clients \ {c} : Untouched(d)
         /\ Given(c)' = Given(c) /\ Failed(c)' = Failed(c) /\ Reachable' = Reachable
<1> USE DEF CtlIInv, vars, serverVars, serviceVars, clientVars, remoteVars
<1>1. CtlTypes' /\ session'[c] = s /\ OwnSessions(c) BY DEF CtlTypes, Moves, OwnSessions
<1>2. CompletedOnce' BY DEF CompletedOnce
<1>3. Lasting /\ Reachable' = Reachable BY DEF Lasting, Reachable, Alive
<1>4. \A d \in Clients \ {c} : Untouched(d) BY <1>1, OthersUntouched DEF OwnCalls, OwnTx
<1>5. Given(c)' = Given(c) /\ Failed(c)' = Failed(c) BY DEF Given, Failed
<1> QED BY <1>1, <1>2, <1>3, <1>4, <1>5

LEMMA PlainSteps ==
  ASSUME CtlIInv, NEW c \in Clients, GetUserCapabilities(c) \/ ProxyFails(c) \/ Lost(c)
  PROVE  Keeps(c)
<1>0. /\ ClientOK(c) /\ UNCHANGED <<vars, path, done>> /\ CtlTypes
  BY DEF CtlIInv, ClientsOK, GetUserCapabilities, ProxyFails, Lost
<1> USE DEF vars, serverVars, serviceVars, clientVars, remoteVars
<1>1. ASSUME NEW s \in {"begin", "refused"}, session[c] = "start", Moves(c, s) PROVE Keeps(c)
  <2>1. s \in Sessions BY DEF Sessions, Exited
  <2>2. ClientOK(c)' BY <1>0, <1>1, <2>1, MoveStep DEF ClientOK, Exited
  <2> QED BY <1>0, <1>1, <2>1, <2>2, MoveStep DEF Keeps
<1>2. ASSUME session[c] \in {"start", "complete"}, Moves(c, "failed") PROVE Keeps(c)
  <2>1. "failed" \in Sessions BY DEF Sessions, Exited
  <2>2. Failed(c)
    <3>1. CASE session[c] = "start" BY <1>0, <3>1 DEF ClientOK, Failed
    <3>2. CASE session[c] = "complete"
      <4>1. Given(c) /\ invocation[path[c]] = 0 BY <1>0, <3>2 DEF ClientOK
      <4>2. task[path[c]][1] = "none"
        BY <4>1, OnlyCall DEF CtlIInv, IInv, RemoteOK, Given
      <4> QED BY <1>0, <4>1, <4>2 DEF ClientOK, Failed
    <3> QED BY <1>2, <3>1, <3>2
  <2>3. ClientOK(c)' BY <1>0, <1>2, <2>1, <2>2, MoveStep DEF ClientOK, Exited
  <2> QED BY <1>0, <1>2, <2>1, <2>3, MoveStep DEF Keeps
<1>3. ASSUME Lost(c), session[c] = "asked" PROVE Keeps(c)
  <2>1. "failed" \in Sessions /\ Moves(c, "failed") BY <1>3 DEF Sessions, Exited, Lost
  <2>2. Failed(c) BY <1>3 DEF Lost, Alive, Failed, CtlIInv, IInv, NoUseAfterFree
  <2>3. ClientOK(c)' BY <1>0, <1>3, <2>1, <2>2, MoveStep DEF ClientOK, Exited
  <2> QED BY <1>0, <1>3, <2>1, <2>3, MoveStep DEF Keeps
<1>4. ASSUME Lost(c), session[c] # "asked" PROVE Keeps(c)
  <2>1. "cancel" \in Sessions /\ Moves(c, "cancel") /\ session[c] \in {"waiting", "complete"}
    BY <1>4 DEF Sessions, Lost
  <2>2. Given(c) /\ ~Reachable BY <1>0, <1>4, <2>1 DEF ClientOK, Lost, Reachable
  <2>3. Failed(c)
    <3>1. CASE session[c] = "waiting"
      BY <1>4, <3>1 DEF Lost, Alive, Failed, CtlIInv, IInv, NoUseAfterFree
    <3>2. CASE session[c] = "complete"
      <4>1. invocation[path[c]] = 0 BY <1>0, <3>2 DEF ClientOK
      <4>2. task[path[c]][1] = "none"
        BY <2>2, <4>1, OnlyCall DEF CtlIInv, IInv, RemoteOK, Given
      <4> QED BY <1>0, <2>2, <4>2 DEF ClientOK, Failed
    <3> QED BY <2>1, <3>1, <3>2
  <2>4. ClientOK(c)' BY <1>0, <1>4, <2>1, <2>2, <2>3, MoveStep DEF ClientOK, Exited
  <2> QED BY <1>0, <1>4, <2>1, <2>4, MoveStep DEF Keeps
<1> QED BY <1>1, <1>2, <1>3, <1>4 DEF GetUserCapabilities, ProxyFails

LEMMA BeginStep ==
  ASSUME CtlIInv, NEW c \in Clients, Begin(c)
  PROVE  Keeps(c)
<1> USE DEF vars, serverVars, serviceVars, clientVars, remoteVars
<1>0. ClientOK(c) /\ CtlTypes /\ TypeInv BY DEF CtlIInv, IInv, ClientsOK
<1>1. /\ session[c] = "begin" /\ request' = [request EXCEPT ![c] = Method(c)]
      /\ session' = [session EXCEPT ![c] = "asked"]
      /\ UNCHANGED <<serverVars, serviceVars, connected, uninstall, remoteVars, command, allowed, path, done>>
  BY DEF Begin, SendRequest, Moves
<1>2. CtlTypes' /\ OwnSessions(c) BY <1>0, <1>1 DEF CtlTypes, OwnSessions, Sessions
<1>3. CompletedOnce' /\ Lasting BY <1>1 DEF CtlIInv, CompletedOnce, Lasting, Reachable, Alive
<1>4. OwnCalls(c) /\ OwnTx(c) BY <1>0, <1>1 DEF TypeInv, OwnCalls, OwnTx
<1>5. \A d \in Clients \ {c} : Untouched(d) BY <1>1, <1>2, <1>4, OthersUntouched DEF CtlIInv
<1>6. session'[c] = "asked" BY <1>0, <1>1 DEF CtlTypes
<1>7. ClientOK(c)' BY <1>0, <1>1, <1>6 DEF ClientOK, Given, Exited
<1> QED BY <1>2, <1>3, <1>5, <1>7 DEF Keeps

LEMMA LeaveStep ==
  ASSUME CtlIInv, NEW c \in Clients, Leave(c) \/ Kill(c)
  PROVE  Keeps(c)
<1> USE DEF vars, serverVars, serviceVars, clientVars, remoteVars
<1>0. ClientOK(c) /\ CtlTypes BY DEF CtlIInv, ClientsOK
<1>1. /\ connected' = connected \ {c}
      /\ UNCHANGED <<serverVars, serviceVars, request, uninstall, remoteVars, command, allowed, path, done>>
  BY DEF Leave, Kill, Disconnect, Moves, ctlVars
<1>2. \/ session' = session /\ session[c] \in Exited
      \/ session' = [session EXCEPT ![c] = "killed"]
  BY DEF Leave, Kill, Moves, ctlVars
<1>3. CtlTypes' /\ OwnSessions(c) BY <1>0, <1>1, <1>2 DEF CtlTypes, OwnSessions, Sessions, Exited
<1>4. CompletedOnce' /\ Lasting BY <1>1 DEF CtlIInv, CompletedOnce, Lasting, Reachable, Alive
<1>5. \A d \in Clients \ {c} : Untouched(d) BY <1>1, <1>3 DEF Untouched, OwnSessions
<1>6. session'[c] \in {session[c], "killed"} /\ session'[c] \in Exited
  BY <1>0, <1>2 DEF CtlTypes, Exited
<1>7. ClientOK(c)' BY <1>0, <1>1, <1>6 DEF ClientOK, Given, Failed, Reachable, Alive, Exited
<1> QED BY <1>3, <1>4, <1>5, <1>7 DEF Keeps

(* The daemon handles the command's call: at most a new transaction comes  *)
(* of it, that nobody has.                                                 *)
LEMMA AnswerStep ==
  ASSUME CtlIInv, NEW c \in Clients, Answer(c)
  PROVE  Keeps(c)
<1> USE DEF vars, serverVars, serviceVars, clientVars, remoteVars
<1>0. ClientOK(c) /\ CtlTypes /\ TypeInv /\ PathInv /\ Alive /\ ClientsOK
  BY DEF CtlIInv, IInv, ClientsOK, Answer, HandleRequest, HandleInstall, HandleUpdate, HandleUninstall
<1>1. request[c] # "none" /\ ~Given(c) /\ ~done[c] /\ uninstall[c] = "none"
  BY <1>0 DEF ClientOK, PathInv, Answer, HandleRequest, HandleInstall, HandleUpdate, HandleUninstall
<1>2. /\ request' = [request EXCEPT ![c] = "none"]
      /\ UNCHANGED <<serverVars, connected, invocation, task, reply, cancelled, freedAccess, done, command, allowed>>
  BY DEF Answer, HandleRequest, HandleInstall, HandleUpdate, HandleUninstall, NotAuthorized,
         StartDbusTransaction, EamRemoteTransactionNew, Moves
<1>3. Lasting /\ CompletedOnce' BY <1>2 DEF CtlIInv, CompletedOnce, Lasting, Reachable, Alive
<1>4. request'[c] = "none" /\ \A d \in Clients \ {c} : request'[d] = request[d]
  BY <1>0, <1>2 DEF TypeInv
<1>5. CASE StartDbusTransaction(c) /\ tx'[last] = "open" /\ request[c] \in {"Install", "Update"}
  <2>1. last \in Tx /\ tx[last] = "unused" /\ RemoteOK(last)
    BY <1>0, <1>5, PathLeft DEF PathInv, TypeInv, CtlIInv, IInv, RemoteInv
  <2>2. /\ \E t \in {"open", "freed"} : tx' = [tx EXCEPT ![last] = t]
        /\ sender' = [sender EXCEPT ![last] = c]
        /\ last' = last + 1 /\ uninstall' = uninstall
    BY <1>5 DEF StartDbusTransaction, EamRemoteTransactionNew, EamServiceGetNextTransactionPath
  <2>3. last' # last BY <2>1, <2>2 DEF Tx
  <2>4. /\ path' = [path EXCEPT ![c] = last]
        /\ session' = [session EXCEPT ![c] = IF session[c] # "asked" THEN session[c] ELSE "complete"]
    BY <1>5, <2>3 DEF Answer, GivenPath, Moves
  <2>5. CtlTypes' /\ OwnSessions(c)
    BY <1>0, <1>2, <2>1, <2>4, BoundsAssumption DEF CtlTypes, OwnSessions, Sessions, Tx
  <2>6. \A x \in Tx : x # last => sender'[x] = sender[x] /\ tx'[x] = tx[x]
    BY <1>0, <2>2 DEF TypeInv
  <2>7. \A d \in Clients \ {c} : Given(d) => path[d] # last
    BY <1>0, <2>1 DEF ClientsOK, ClientOK
  <2>8. \A d \in Clients \ {c} : Untouched(d)
    BY <1>2, <1>4, <2>2, <2>5, <2>6, <2>7 DEF Untouched, OwnSessions, Given
  <2>9. /\ path'[c] = last /\ sender'[last] = c
        /\ session'[c] = IF session[c] # "asked" THEN session[c] ELSE "complete"
    BY <1>0, <2>1, <2>2, <2>4 DEF CtlTypes, TypeInv
  <2>10. invocation[last] = 0 /\ task[last][1] = "none"
    BY <2>1, OnlyCall DEF RemoteOK, CtlIInv, IInv
  <2>11. session[c] \in {"asked", "killed", "refused"}
    BY <1>0, <1>1 DEF ClientOK, Failed, Alive, CtlTypes, Sessions, Exited
  <2>12. ClientOK(c)'
    BY <1>0, <1>1, <1>2, <1>4, <1>5, <2>1, <2>2, <2>9, <2>10, <2>11 DEF ClientOK, Given, Exited
  <2> QED BY <1>3, <2>5, <2>8, <2>12 DEF Keeps
<1>6. CASE ~(StartDbusTransaction(c) /\ tx'[last] = "open" /\ request[c] \in {"Install", "Update"})
  <2>1. \/ last' = last \/ tx'[last] # "open"
    BY <1>6 DEF Answer, HandleRequest, HandleInstall, HandleUpdate, HandleUninstall, NotAuthorized
  <2>2. /\ path' = path
        /\ session' = [session EXCEPT ![c] =
              IF session[c] # "asked" THEN session[c]
              ELSE IF uninstall'[c] = "running" THEN "asked" ELSE "failed"]
    BY <2>1 DEF Answer, Moves
  <2>3. CtlTypes' /\ OwnSessions(c)
    BY <1>0, <1>2, <2>2 DEF CtlTypes, OwnSessions, Sessions, Exited
  <2>4. \/ uninstall' = uninstall
        \/ uninstall' = [uninstall EXCEPT ![c] = "running"]
    BY DEF Answer, HandleRequest, HandleInstall, HandleUpdate, HandleUninstall, NotAuthorized,
           StartDbusTransaction
  <2>5. OwnCalls(c) /\ uninstall'[c] \in {"none", "running"}
    BY <1>0, <1>1, <1>4, <2>4 DEF OwnCalls, TypeInv
  <2>6. \/ UNCHANGED <<tx, sender>>
        \/ /\ request[c] \in {"Install", "Update"}
           /\ \E t \in {"open", "freed"} : tx' = [tx EXCEPT ![last] = t]
           /\ sender' = [sender EXCEPT ![last] = c]
    BY DEF Answer, HandleRequest, HandleInstall, HandleUpdate, HandleUninstall, NotAuthorized,
           StartDbusTransaction, EamRemoteTransactionNew, EamServiceGetNextTransactionPath
  <2>7. \A d \in Clients \ {c} : Given(d) =>
           tx'[path[d]] = tx[path[d]] /\ sender'[path[d]] = sender[path[d]]
    <3>1. CASE UNCHANGED <<tx, sender>> BY <3>1
    <3>2. CASE /\ request[c] \in {"Install", "Update"}
               /\ \E t \in {"open", "freed"} : tx' = [tx EXCEPT ![last] = t]
               /\ sender' = [sender EXCEPT ![last] = c]
      <4>1. last \in Tx /\ tx[last] = "unused"
        BY <1>0, <3>2, PathLeft DEF PathInv, TypeInv
      <4>2. \A d \in Clients \ {c} : Given(d) => path[d] # last
        BY <1>0, <4>1 DEF ClientsOK, ClientOK
      <4> QED BY <1>0, <3>2, <4>2 DEF TypeInv, Given
    <3> QED BY <2>6, <3>1, <3>2
  <2>8. \A d \in Clients \ {c} : Untouched(d)
    BY <1>2, <1>4, <2>2, <2>3, <2>5, <2>7 DEF Untouched, OwnSessions, OwnCalls
  <2>9. session'[c] = IF session[c] # "asked" THEN session[c]
                      ELSE IF uninstall'[c] = "running" THEN "asked" ELSE "failed"
    BY <1>0, <2>2 DEF CtlTypes
  <2>10. session[c] \in {"asked", "killed", "refused"}
    BY <1>0, <1>1 DEF ClientOK, Failed, Alive, CtlTypes, Sessions, Exited
  <2>11. ClientOK(c)'
    BY <1>0, <1>1, <1>2, <1>4, <2>2, <2>5, <2>9, <2>10 DEF ClientOK, Given, Failed, Exited
  <2> QED BY <1>3, <2>3, <2>8, <2>11 DEF Keeps
<1> QED BY <1>5, <1>6

LEMMA UninstallAnswerStep ==
  ASSUME CtlIInv, NEW c \in Clients, UninstallAnswer(c)
  PROVE  Keeps(c)
<1> USE DEF vars, serverVars, serviceVars, clientVars, remoteVars
<1>0. ClientOK(c) /\ CtlTypes /\ TypeInv BY DEF CtlIInv, IInv, ClientsOK
<1>1. /\ uninstall[c] \in {"ok", "error"} /\ uninstall' = [uninstall EXCEPT ![c] = "none"]
      /\ UNCHANGED <<serverVars, connected, request, remoteVars, command, allowed, path, done>>
      /\ session' = [session EXCEPT ![c] = IF session[c] = "asked" THEN Outcome(uninstall[c]) ELSE session[c]]
      /\ Alive
  BY DEF UninstallAnswer, UninstallCb, FinishedTask, Moves
<1>2. CtlTypes' /\ OwnSessions(c)
  BY <1>0, <1>1 DEF CtlTypes, OwnSessions, Sessions, Exited, Outcome
<1>3. CompletedOnce' /\ Lasting BY <1>1 DEF CtlIInv, CompletedOnce, Lasting, Reachable, Alive
<1>4. OwnCalls(c) /\ OwnTx(c) /\ uninstall'[c] = "none" BY <1>0, <1>1 DEF TypeInv, OwnCalls, OwnTx
<1>5. \A d \in Clients \ {c} : Untouched(d) BY <1>1, <1>2, <1>4, OthersUntouched DEF CtlIInv
<1>6. session'[c] = IF session[c] = "asked" THEN Outcome(uninstall[c]) ELSE session[c]
  BY <1>0, <1>1 DEF CtlTypes
<1>7. ~Given(c) /\ request[c] = "none" BY <1>0, <1>1 DEF ClientOK, CtlIInv, IInv, PathInv
<1>8. ClientOK(c)'
  BY <1>0, <1>1, <1>4, <1>6, <1>7 DEF ClientOK, Given, Failed, Reachable, Alive, Exited, Outcome
<1> QED BY <1>2, <1>3, <1>5, <1>8 DEF Keeps

-----------------------------------------------------------------------------
(* The steps on a transaction.                                             *)

LEMMA CompleteStep ==
  ASSUME CtlIInv, NEW c \in Clients, Complete(c)
  PROVE  Keeps(c)
<1> USE DEF vars, serverVars, serviceVars, clientVars, remoteVars
<1> DEFINE x == path[c]
<1>0. /\ ClientOK(c) /\ CtlTypes /\ TypeInv /\ session[c] = "complete"
      /\ x \in Tx /\ Given(c) /\ tx[x] = "open" /\ invocation[x] = 0
  BY DEF CtlIInv, IInv, ClientsOK, ClientOK, Given, Complete
<1>1. /\ invocation' = [invocation EXCEPT ![x] = @ + 1]
      /\ task' = [task EXCEPT ![x][invocation[x] + 1] = "running"]
      /\ session' = [session EXCEPT ![c] = "waiting"]
      /\ UNCHANGED <<serverVars, clientVars, tx, sender, cancelled, freedAccess, command, allowed, path, done>>
  BY DEF Complete, CompleteTransaction, CompleteOnce, Moves
<1>2. task[x][1] = "none" /\ 1 \in Calls BY <1>0, OnlyCall DEF RemoteOK, CtlIInv, IInv
<1>3. invocation'[x] = 1 /\ task'[x][1] = "running" /\ session'[c] = "waiting"
  BY <1>0, <1>1, <1>2 DEF TypeInv, CtlTypes
<1>4. CtlTypes' /\ OwnSessions(c) BY <1>0, <1>1 DEF CtlTypes, OwnSessions, Sessions
<1>5. OwnCalls(c) /\ OwnTx(c) BY <1>0, <1>1 DEF OwnCalls, OwnTx, TypeInv
<1>6. CompletedOnce' /\ Lasting
  BY <1>0, <1>1, <1>3 DEF CtlIInv, CompletedOnce, Lasting, Reachable, Alive, TypeInv
<1>7. \A d \in Clients \ {c} : Untouched(d) BY <1>1, <1>4, <1>5, OthersUntouched DEF CtlIInv
<1>8. ClientOK(c)' BY <1>0, <1>1, <1>2, <1>3 DEF ClientOK, Given, Exited
<1> QED BY <1>4, <1>6, <1>7, <1>8 DEF Keeps

(* While a command waits, the callback finds the transaction open: it is   *)
(* not cancelled, and the reply says what the worker returned.             *)
LEMMA CompleteAnswerStep ==
  ASSUME CtlIInv, NEW c \in Clients, CompleteAnswer(c)
  PROVE  Keeps(c)
<1> USE DEF vars, serverVars, serviceVars, clientVars, remoteVars
<1> DEFINE x == path[c]
<1>0. ClientOK(c) /\ CtlTypes /\ TypeInv /\ RemoteOK(x) /\ x \in Tx /\ Given(c) /\ 1 \in Calls
  BY OnlyCall DEF CtlIInv, IInv, ClientsOK, Given, CompleteAnswer
<1>1. /\ task[x][1] \in {"ok", "error"} /\ task' = [task EXCEPT ![x][1] = "done"]
      /\ UNCHANGED <<serverVars, clientVars, sender, cancelled, invocation, command, allowed, path, done>>
  BY DEF CompleteAnswer, TransactionCompleteCb, FinishedTask, Moves
<1>2. invocation[x] = 1 /\ (cancelled[x] \/ tx[x] = "open")
  BY <1>0, <1>1, PendingTask DEF CtlIInv, IInv
<1>3. \/ cancelled[x] /\ tx[x] = "freed" /\ UNCHANGED <<tx, reply, freedAccess>>
      \/ /\ ~cancelled[x] /\ tx[x] = "open" /\ tx' = [tx EXCEPT ![x] = "freed"]
         /\ reply' = [reply EXCEPT ![x][1] = IF task[x][1] = "ok" THEN "success" ELSE "error"]
         /\ freedAccess' = freedAccess
  BY <1>0, <1>2 DEF CompleteAnswer, TransactionCompleteCb, FinishedCancelled, ReplyResult,
                    EamRemoteTransactionFree, RemoteOK, TypeInv
<1>4. session' = [session EXCEPT ![c] =
         IF session[c] # "waiting" \/ reply'[x][1] = "waiting" THEN session[c]
         ELSE IF Outcome(reply'[x][1]) = "success" THEN "success" ELSE "cancel"]
  BY DEF CompleteAnswer, Moves
<1>5. CtlTypes' /\ OwnSessions(c) BY <1>0, <1>1, <1>4 DEF CtlTypes, OwnSessions, Sessions, Exited
<1>6. OwnCalls(c) /\ OwnTx(c) BY <1>0, <1>1, <1>3 DEF OwnCalls, OwnTx, TypeInv
<1>7. CompletedOnce' /\ Lasting
  BY <1>1, <1>3 DEF CtlIInv, CompletedOnce, Lasting, Reachable, Alive
<1>8. \A d \in Clients \ {c} : Untouched(d) BY <1>1, <1>5, <1>6, OthersUntouched DEF CtlIInv
<1>9. task'[x][1] = "done" /\ path'[c] = x BY <1>0, <1>1 DEF TypeInv
<1>10. CASE session[c] = "waiting"
  <2>1. tx'[x] = "freed" /\ reply'[x][1] = IF task[x][1] = "ok" THEN "success" ELSE "error"
    BY <1>0, <1>3, <1>10 DEF ClientOK, TypeInv
  <2>2. session'[c] = IF task[x][1] = "ok" THEN "success" ELSE "cancel"
    BY <1>0, <1>1, <1>4, <1>10, <2>1 DEF CtlTypes, Outcome
  <2> QED
    BY <1>0, <1>1, <1>5, <1>7, <1>8, <1>9, <1>10, <2>1, <2>2 DEF Keeps, ClientOK, Given, Failed, Exited
<1>11. CASE session[c] # "waiting"
  <2>1. session'[c] = session[c] /\ tx'[x] # "unused" BY <1>0, <1>3, <1>4, <1>11 DEF CtlTypes, TypeInv
  <2>2. session[c] \notin {"start", "begin", "complete"} BY <1>0, <1>2 DEF ClientOK
  <2>3. session[c] = "cancel" => loop = "exited" /\ (Reachable' => FALSE)
    BY <1>0, <1>1, <1>2, <1>3 DEF ClientOK, Failed, Reachable, Alive, CompleteAnswer, TransactionCompleteCb
  <2>4. ClientOK(c)'
    BY <1>0, <1>1, <1>9, <1>11, <2>1, <2>2, <2>3 DEF ClientOK, Given, Failed, Exited
  <2> QED BY <1>5, <1>7, <1>8, <2>4 DEF Keeps
<1> QED BY <1>10, <1>11

(* By the time a command cancels there is nothing left to cancel. *)
LEMMA CancelStep ==
  ASSUME CtlIInv, NEW c \in Clients, Cancel(c)
  PROVE  Keeps(c) /\ UNCHANGED vars
<1>0. ClientOK(c) /\ session[c] = "cancel" BY DEF CtlIInv, ClientsOK, Cancel
<1>1. UNCHANGED vars /\ UNCHANGED <<path, done>> /\ Moves(c, "failed") BY <1>0 DEF Cancel, ClientOK
<1>2. "failed" \in Sessions /\ Failed(c) BY <1>0 DEF Sessions, Exited, ClientOK
<1>3. ClientOK(c)'
  BY <1>0, <1>1, <1>2, MoveStep
     DEF ClientOK, Exited, vars, serverVars, serviceVars, clientVars, remoteVars
<1> QED BY <1>1, <1>2, <1>3, MoveStep DEF Keeps

LEMMA WorkStep ==
  ASSUME CtlIInv, NEW c \in Clients, Work(c)
  PROVE  Keeps(c)
<1> USE DEF vars, serverVars, serviceVars, clientVars, remoteVars
<1>0. ClientOK(c) /\ CtlTypes /\ TypeInv BY DEF CtlIInv, IInv, ClientsOK
<1>1. UNCHANGED <<serverVars, connected, request, tx, sender, invocation, freedAccess, command, allowed, session, path>>
  BY DEF Work, UninstallWorkerReturn, WorkerReturn
<1>2. CompletedOnce' /\ Lasting BY <1>1 DEF CtlIInv, CompletedOnce, Lasting, Reachable, Alive
<1>3. CASE UninstallWorkerReturn(c) /\ done' = [done EXCEPT ![c] = uninstall'[c] = "ok"]
  <2>1. /\ uninstall[c] = "running" /\ task' = task
        /\ \E r \in {"ok", "error"} : uninstall' = [uninstall EXCEPT ![c] = r]
    BY <1>3 DEF UninstallWorkerReturn
  <2>2. CtlTypes' /\ OwnSessions(c) BY <1>0, <1>1, <1>3 DEF CtlTypes, OwnSessions
  <2>3. OwnCalls(c) /\ OwnTx(c) BY <1>0, <1>1, <2>1 DEF OwnCalls, OwnTx, TypeInv
  <2>4. \A d \in Clients \ {c} : Untouched(d) BY <1>1, <2>2, <2>3, OthersUntouched DEF CtlIInv
  <2>5. uninstall'[c] \in {"ok", "error"} /\ done'[c] = (uninstall'[c] = "ok")
    BY <1>0, <1>3, <2>1 DEF TypeInv, CtlTypes
  <2>6. ~Given(c) /\ ~done[c] /\ request[c] = "none"
    BY <1>0, <2>1 DEF ClientOK, CtlIInv, IInv, PathInv
  <2>7. session[c] \in {"asked", "killed", "refused"} \/ loop = "exited"
    BY <1>0, <2>1, <2>6 DEF ClientOK, Failed, CtlTypes, Sessions, Exited
  <2>8. loop # "exited" BY DEF Work, UninstallWorkerReturn, WorkerReturn, Alive
  <2>9. ClientOK(c)' BY <1>0, <1>1, <2>5, <2>6, <2>7, <2>8 DEF ClientOK, Given, Exited
  <2> QED BY <1>2, <2>2, <2>4, <2>9 DEF Keeps
<1>4. CASE /\ path[c] \in Tx /\ WorkerReturn(path[c], 1)
           /\ done' = [done EXCEPT ![c] = task'[path[c]][1] = "ok"]
  <2> DEFINE x == path[c]
  <2>1. 1 \in Calls BY <1>4, OnlyCall DEF CtlIInv, IInv
  <2>2. /\ task[x][1] = "running" /\ uninstall' = uninstall
        /\ \E r \in {"ok", "error"} : task' = [task EXCEPT ![x][1] = r]
    BY <1>4 DEF WorkerReturn
  <2>3. CtlTypes' /\ OwnSessions(c) BY <1>0, <1>1, <1>4 DEF CtlTypes, OwnSessions
  <2>4. Given(c) /\ OwnCalls(c) /\ OwnTx(c) BY <1>0, <1>1, <1>4, <2>2 DEF Given, OwnCalls, OwnTx, TypeInv
  <2>5. \A d \in Clients \ {c} : Untouched(d) BY <1>1, <2>3, <2>4, OthersUntouched DEF CtlIInv
  <2>6. task'[x][1] \in {"ok", "error"} /\ done'[c] = (task'[x][1] = "ok") /\ path'[c] = x
    BY <1>0, <1>1, <1>4, <2>1, <2>2 DEF TypeInv, CtlTypes
  <2>7. ~done[c] /\ invocation[x] = 1
    BY <1>0, <1>4, <2>1, <2>2, <2>4, PendingTask DEF ClientOK, CtlIInv, IInv
  <2>8. session[c] \notin {"start", "begin", "complete", "success"} BY <1>0, <2>4, <2>7 DEF ClientOK
  <2>9. loop # "exited" BY DEF Work, UninstallWorkerReturn, WorkerReturn, Alive
  <2>10. session[c] \notin {"cancel", "failed"} BY <1>0, <2>2, <2>4, <2>9 DEF ClientOK, Failed
  <2>11. ClientOK(c)'
    BY <1>0, <1>1, <2>2, <2>4, <2>6, <2>8, <2>10 DEF ClientOK, Given, Exited
  <2> QED BY <1>2, <2>3, <2>5, <2>11 DEF Keeps
<1> QED BY <1>3, <1>4 DEF Work

(* A sender that has vanished has exited, or was killed.                   *)
LEMMA VanishedStep ==
  ASSUME CtlIInv, NEW x \in Tx, SenderVanished(x), UNCHANGED ctlVars
  PROVE  CtlTypes' /\ CompletedOnce' /\ ClientsOK'
<1> USE DEF vars, serverVars, serviceVars, clientVars, remoteVars, ctlVars
<1>0. CtlTypes /\ TypeInv BY DEF CtlIInv, IInv
<1>1. /\ tx[x] = "open" /\ sender[x] \notin connected /\ tx' = [tx EXCEPT ![x] = "freed"]
      /\ UNCHANGED <<serverVars, clientVars, sender, invocation, task, freedAccess>>
  BY DEF SenderVanished, SenderGone, EamRemoteTransactionCancel, EamRemoteTransactionFree
<1>2. Lasting BY <1>1 DEF Lasting, Reachable, Alive
<1>3. ASSUME NEW d \in Clients PROVE ClientOK(d)'
  <2>0. ClientOK(d) BY DEF CtlIInv, ClientsOK
  <2>1. CASE Given(d) /\ path[d] = x
    <3>1. session[d] \in Exited BY <1>1, <2>0, <2>1 DEF ClientOK
    <3>2. tx'[x] = "freed" BY <1>0, <1>1 DEF TypeInv
    <3> QED
      BY <1>1, <2>0, <2>1, <3>1, <3>2 DEF ClientOK, Given, Failed, Exited
  <2>2. CASE ~(Given(d) /\ path[d] = x)
    <3>1. Untouched(d) BY <1>0, <1>1, <2>2 DEF Untouched, Given, TypeInv
    <3> QED BY <1>2, <2>0, <3>1, Frame
  <2> QED BY <2>1, <2>2
<1>4. CtlTypes' /\ CompletedOnce' BY <1>1 DEF CtlIInv, CtlTypes, CompletedOnce
<1> QED BY <1>3, <1>4 DEF ClientsOK

LEMMA ServerStep ==
  ASSUME CtlIInv, ServerNext \/ UNCHANGED vars, UNCHANGED ctlVars
  PROVE  CtlTypes' /\ CompletedOnce' /\ ClientsOK'
<1> USE DEF vars, serverVars, serviceVars, clientVars, remoteVars, ctlVars
<1>1. UNCHANGED <<clientVars, remoteVars>>
  BY DEF ServerNext, TimeoutCb, SignalTerminate, SignalHangup, OnNameLost, Exit, Tick
<1>2. Lasting
  BY DEF ServerNext, TimeoutCb, SignalTerminate, SignalHangup, OnNameLost, Exit, Tick,
         EamDbusServerQuit, Lasting, Reachable, Alive
<1>3. \A d \in Clients : Untouched(d) BY <1>1 DEF Untouched
<1>4. CtlTypes' /\ CompletedOnce' BY <1>1 DEF CtlIInv, CtlTypes, CompletedOnce
<1> QED BY <1>2, <1>3, <1>4, Frame DEF CtlIInv, ClientsOK

LEMMA ClientStep ==
  ASSUME CtlIInv, NEW c \in Clients,
         SessionStep(c) \/ DaemonStep(c) \/ ProxyFails(c) \/ Kill(c)
  PROVE  Keeps(c)
BY PlainSteps, BeginStep, LeaveStep, AnswerStep, UninstallAnswerStep, CompleteStep, CompleteAnswerStep,
   CancelStep, WorkStep DEF SessionStep, DaemonStep

-----------------------------------------------------------------------------
(* The commands are clients of EamService: whatever they do with the       *)
(* daemon is a step that module has, or none at all.                       *)
LEMMA ServiceStep == CtlIInv /\ [CtlNext]_allVars => [Next]_vars
<1> SUFFICES ASSUME CtlIInv, [CtlNext]_allVars PROVE [Next]_vars
  OBVIOUS
<1>1. CASE ServerNext BY <1>1 DEF Next
<1>2. CASE \E x \in Tx : SenderVanished(x) BY <1>2 DEF Next, TxNext
<1>3. ASSUME NEW c \in Clients, SessionStep(c) \/ DaemonStep(c) \/ ProxyFails(c) \/ Kill(c)
      PROVE  [Next]_vars
  <2>0. ClientOK(c) BY DEF CtlIInv, ClientsOK
  <2>1. CASE GetUserCapabilities(c) \/ ProxyFails(c) \/ Lost(c)
    BY <2>1 DEF GetUserCapabilities, ProxyFails, Lost
  <2>2. CASE Begin(c)
    <3>1. Method(c) \in Requests \ {"none"}
      <4>1. command[c] \in {"install", "update", "uninstall"}
        BY CommandsAssumption DEF CtlIInv, CtlTypes
      <4> QED BY <4>1 DEF Method, Requests
    <3> QED BY <2>2, <3>1 DEF Begin, Next, ClientNext
  <2>3. CASE Leave(c) \/ Kill(c) BY <2>3 DEF Leave, Kill, Next, ClientNext
  <2>4. CASE Answer(c) BY <2>4 DEF Answer, Next, ClientNext
  <2>5. CASE UninstallAnswer(c) BY <2>5 DEF UninstallAnswer, Next, ClientNext
  <2>6. CASE Complete(c)
    <3>1. path[c] \in Tx BY <2>0, <2>6 DEF ClientOK, Given, Complete
    <3> QED BY <2>6, <3>1 DEF Complete, Next, TxNext
  <2>7. CASE CompleteAnswer(c)
    BY <2>7, BoundsAssumption DEF CompleteAnswer, Next, TxNext, Calls
  <2>8. CASE Cancel(c) BY <2>8, CancelStep
  <2>9. CASE Work(c)
    BY <2>9, BoundsAssumption DEF Work, Next, ClientNext, TxNext, Calls
  <2> QED BY <1>3, <2>1, <2>2, <2>3, <2>4, <2>5, <2>6, <2>7, <2>8, <2>9 DEF SessionStep, DaemonStep
<1>4. CASE UNCHANGED allVars BY <1>4 DEF allVars
<1> QED BY <1>1, <1>2, <1>3, <1>4 DEF CtlNext

LEMMA CtlInitIInv == CtlInit => CtlIInv
<1> SUFFICES ASSUME CtlInit PROVE CtlIInv
  OBVIOUS
<1>1. IInv BY InitIInv DEF CtlInit
<1>2. CtlTypes BY BoundsAssumption DEF CtlInit, CtlTypes, Sessions
<1>3. CompletedOnce BY DEF CtlInit, Init, CompletedOnce
<1>4. ASSUME NEW c \in Clients PROVE ClientOK(c)
  <2>1. path[c] \notin Tx BY BoundsAssumption DEF CtlInit, Tx
  <2> QED BY <2>1 DEF CtlInit, Init, ClientOK, Given
<1> QED BY <1>1, <1>2, <1>3, <1>4 DEF CtlIInv, ClientsOK

(* What holds of the daemon and its commands in every state. *)
THEOREM CtlInvariance == CtlSpec => []CtlIInv
<1>1. ASSUME CtlIInv, [CtlNext]_allVars PROVE CtlIInv'
  <2>1. CtlTypes' /\ CompletedOnce' /\ ClientsOK'
    <3>1. CASE ServerNext /\ UNCHANGED ctlVars BY <1>1, <3>1, ServerStep
    <3>2. CASE \E x \in Tx : SenderVanished(x) /\ UNCHANGED ctlVars BY <1>1, <3>2, VanishedStep
    <3>3. ASSUME NEW c \in Clients, SessionStep(c) \/ DaemonStep(c) \/ ProxyFails(c) \/ Kill(c)
          PROVE  CtlTypes' /\ CompletedOnce' /\ ClientsOK'
      <4>1. Keeps(c) BY <1>1, <3>3, ClientStep
      <4>2. ASSUME NEW d \in Clients PROVE ClientOK(d)'
        <5>1. CASE d = c BY <4>1, <5>1 DEF Keeps
        <5>2. CASE d # c BY <1>1, <4>1, <5>2, Frame DEF Keeps, CtlIInv, ClientsOK
        <5> QED BY <5>1, <5>2
      <4> QED BY <4>1, <4>2 DEF Keeps, ClientsOK
    <3>4. CASE UNCHANGED allVars BY <1>1, <3>4, ServerStep DEF allVars
    <3> QED BY <1>1, <3>1, <3>2, <3>3, <3>4 DEF CtlNext
  <2>2. IInv' BY <1>1, <2>1, ServiceStep, IInvStep DEF CtlIInv
  <2> QED BY <2>1, <2>2 DEF CtlIInv
<1> QED BY <1>1, CtlInitIInv, PTL DEF CtlSpec

(* Every variable keeps its type, and a command that got a path works on   *)
(* the transaction made for it, whoever else asks the daemon.              *)
THEOREM CtlTypeCorrect == CtlSpec => []CtlTypeOK
<1>1. CtlIInv => CtlTypeOK BY DEF CtlIInv, CtlTypes, ClientsOK, ClientOK, Given, CtlTypeOK
<1> QED BY CtlInvariance, <1>1, PTL

(* The commands of eamctl complete a transaction once, and so do what the  *)
(* daemon needs of its clients.                                            *)
THEOREM CommandsCompleteOnce == CtlSpec => []CompletedOnce
<1>1. CtlIInv => CompletedOnce BY DEF CtlIInv
<1> QED BY CtlInvariance, <1>1, PTL

(* A command exits with success only if a worker thread did its work, and  *)
(* with failure in spite of it only if the daemon ended first.             *)
THEOREM ExitCodesTruthful == CtlSpec => []ExitTruthful
<1>1. CtlIInv => ExitTruthful BY DEF CtlIInv, ClientsOK, ClientOK, Failed, ExitTruthful
<1> QED BY CtlInvariance, <1>1, PTL

(* The CancelTransaction that follows a failed completion never reaches an *)
(* open transaction.                                                       *)
THEOREM CancelHarmless == CtlSpec => []CancelFindsNothing
<1>1. CtlIInv => CancelFindsNothing BY DEF CtlIInv, ClientsOK, ClientOK, CancelFindsNothing
<1> QED BY CtlInvariance, <1>1, PTL

(* With its commands the daemon behaves as EamService has it.              *)
THEOREM CommandsAreClients == CtlSpec => Spec
<1>1. CtlInit => Init BY DEF CtlInit
<1> QED BY <1>1, CtlInvariance, ServiceStep, PTL DEF CtlSpec, Spec

(* So it keeps the promise of TransactionCalls towards them, and what it   *)
(* owes itself: no callback on a freed transaction, no call answered       *)
(* twice, none forgotten, no idle exit on work it accepted.                *)
THEOREM PromiseToCommands ==
  CtlSpec => /\ KeepsPromise /\ AnsweredOnce /\ IdleQuitServesNobody
             /\ [](TypeOK /\ NoUseAfterFree /\ NoCallAbandoned)
BY CommandsAreClients, CommandsCompleteOnce, Refinement, RepliesFinal, IdleQuitSafe, TypeCorrect,
   CallbackSafe, CallsNotAbandoned, PTL

=============================================================================

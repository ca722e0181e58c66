-------------------------- MODULE TransactionCalls --------------------------
(***************************************************************************)
(* What com.endlessm.AppManager.Transaction promises its callers, without  *)
(* the counter, pointers, flags and tasks the daemon keeps the promise     *)
(* with: an object is handed out once; a CompleteTransaction call on it    *)
(* is answered once, with what its worker returned or as cancelled; and    *)
(* the object goes away only together with the answers it owes.            *)
(***************************************************************************)
CONSTANTS Tx, Calls

VARIABLES
    object,   \* transaction -> "unused", "open" or "gone"
    call,     \* transaction, call -> how far it is
    ended     \* the daemon has ended

callVars == <<object, call, ended>>

(* "ok" and "error": the worker has returned, the caller does not know yet. *)
Pending == {"working", "ok", "error"}
Answers == {"success", "failure", "cancelled"}

Init ==
    /\ object = [x \in Tx |-> "unused"]
    /\ call = [x \in Tx |-> [k \in Calls |-> "none"]]
    /\ ended = FALSE

-----------------------------------------------------------------------------
(* A registration may fail: the number is used up all the same. *)
Create(x) ==
    /\ object[x] = "unused"
    /\ \E o \in {"open", "gone"} : object' = [object EXCEPT ![x] = o]
    /\ UNCHANGED <<call, ended>>

Ask(x, k) ==
    /\ object[x] = "open"
    /\ call[x][k] = "none"
    /\ call' = [call EXCEPT ![x][k] = "working"]
    /\ UNCHANGED <<object, ended>>

Work(x, k) ==
    /\ object[x] = "open"
    /\ call[x][k] = "working"
    /\ \E r \in {"ok", "error"} : call' = [call EXCEPT ![x][k] = r]
    /\ UNCHANGED <<object, ended>>

(* The object goes with the answer, so no other call may be left. *)
Answer(x, k) ==
    /\ object[x] = "open"
    /\ call[x][k] \in {"ok", "error"}
    /\ \A j \in Calls \ {k} : call[x][j] \notin Pending
    /\ object' = [object EXCEPT ![x] = "gone"]
    /\ call' = [call EXCEPT ![x][k] = IF call[x][k] = "ok" THEN "success" ELSE "failure"]
    /\ UNCHANGED ended

Cancel(x) ==
    /\ object[x] = "open"
    /\ object' = [object EXCEPT ![x] = "gone"]
    /\ call' = [call EXCEPT ![x] =
                  [k \in Calls |-> IF call[x][k] \in Pending THEN "cancelled" ELSE call[x][k]]]
    /\ UNCHANGED ended

End == ended' = TRUE /\ UNCHANGED <<object, call>>

Next ==
    /\ ~ended
    /\ \/ \E x \in Tx :
             \/ Create(x) \/ Cancel(x)
             \/ \E k \in Calls : Ask(x, k) \/ Work(x, k) \/ Answer(x, k)
       \/ End

Spec == Init /\ [][Next]_callVars

(* Accepted calls are worked on and answered while the daemon lives. *)
Fairness ==
    \A x \in Tx, k \in Calls :
       /\ WF_callVars(~ended /\ Work(x, k))
       /\ WF_callVars(~ended /\ Answer(x, k))

FairSpec == Spec /\ Fairness

=============================================================================

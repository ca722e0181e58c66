----------------------------- MODULE AppVersions -----------------------------
(***************************************************************************)
(* What install, update, uninstall and migrate promise the user, without   *)
(* directories, backups, copies and links: the application has one version *)
(* or none; a transaction brings its version in one step or not at all;    *)
(* what it reports says which.                                             *)
(***************************************************************************)
CONSTANTS
    Versions,
    Brings,    \* the kinds of transaction that bring a version
    TakesAway,    \* the kinds that take the application away
    Keeps      \* the kinds that leave the version alone

VARIABLES
    version,    \* what the user has, or "none"
    before,     \* what the user had when the transaction under way began
    call,       \* the transaction under way, of kind "none" if there is none
    report      \* what the last one reported

appVars == <<version, before, call, report>>

NoCall == [kind |-> "none", ver |-> "none"]

Init ==
    /\ version \in Versions \cup {"none"}
    /\ before = version
    /\ call = NoCall
    /\ report = "none"

Outcome ==
    CASE call.kind \in Brings -> call.ver
      [] call.kind \in TakesAway -> "none"
      [] OTHER -> version

-----------------------------------------------------------------------------
Begin(k, v) ==
    /\ call = NoCall
    /\ call' = [kind |-> k, ver |-> v]
    /\ report' = "none"
    /\ UNCHANGED <<version, before>>

TakesEffect ==
    /\ call # NoCall
    /\ version' = Outcome
    /\ UNCHANGED <<before, call, report>>

Ends(r) ==
    /\ call # NoCall
    /\ call' = NoCall
    /\ report' = r
    /\ before' = version'
    /\ version' \in {version, Outcome}

(* A success has taken effect. *)
Succeeds == Ends("ok") /\ version' = Outcome

(* A failure has not, unless the application was to go: half of it may.  A *)
(* removal that is forced takes a failure for a success.                   *)
Fails ==
    \E r \in {"failed", "already"} : Ends(r) /\ (call.kind \notin TakesAway => version' = before)
GivesUp == call.kind = "forced" /\ Ends("ok")

Next ==
    \/ \E k \in Brings \cup TakesAway \cup Keeps, v \in Versions \cup {"none"} : Begin(k, v)
    \/ TakesEffect
    \/ Succeeds
    \/ Fails
    \/ GivesUp

Spec == Init /\ [][Next]_appVars

=============================================================================

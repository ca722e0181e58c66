--------------------------- MODULE EamPermissions ---------------------------
(***************************************************************************)
(* fix_permissions_for_application of eam-fs-utils.c: the walk that gives  *)
(* everybody the access to an application's tree that its owner has, run   *)
(* by eam_fs_sanity_check at the start of every transaction, so by several *)
(* processes and threads at once.                                          *)
(*                                                                         *)
(* The walk is a recursion; its stack is the path from the top directory   *)
(* to the node it is at.  A step of a walker is a call, or a return with   *)
(* the stat and chmod before it.                                          *)
(***************************************************************************)
EXTENDS Naturals

CONSTANTS
    Nodes,        \* the files and directories of the application
    Root,         \* its top directory
    Parent,       \* the directory a node other than the top is in
    Under,        \* node -> the nodes of its subtree, itself included
    Walkers,      \* the transactions
    NoNode,       \* where a transaction is that does not walk
    MaxFaults,    \* bound: failing system calls
    MaxCrashes    \* bound: walks killed with their process

Children(n) == {k \in Nodes \ {Root} : Parent[k] = n}

ASSUME TreeAssumption ==
    /\ Root \in Nodes /\ NoNode \notin Nodes
    /\ Parent \in [Nodes \ {Root} -> Nodes]
    /\ Under \in [Nodes -> SUBSET Nodes]
    /\ Under[Root] = Nodes
    /\ \A n \in Nodes : Under[n] = {n} \cup UNION {Under[k] : k \in Children(n)}
    /\ \A n \in Nodes, k \in Nodes \ {Root} :
          k \in Under[n] <=> k = n \/ Parent[k] \in Under[n]
    /\ \A n, k \in Nodes : n \in Under[k] /\ k \in Under[n] => n = k
    /\ \A k \in Nodes \ {Root} : Parent[k] # k

ASSUME BoundsAssumption == MaxFaults \in Nat /\ MaxCrashes \in Nat

VARIABLES
    owner,      \* node -> what its owner may do, of "r", "w" and "x"
    other,      \* node -> what others may do
    at,         \* walker -> the node its innermost call is for
    left,       \* walker, node -> the children its call has not looked at
    retval,     \* walker, node -> retval of its call
    faults,
    crashes

vars == <<owner, other, at, left, retval, faults, crashes>>

Readable == {"r", "x"}      \* what the walk passes on

Fixed(n) == owner[n] \cap Readable \subseteq other[n]
SubtreeFixed(n) == \A m \in Under[n] : Fixed(m)

(* The test of fix_application_permissions_if_needed. *)
OpenToOthers(n) == Readable \subseteq other[n]

-----------------------------------------------------------------------------
Call(w, n) ==
    /\ at' = [at EXCEPT ![w] = n]
    /\ retval' = [retval EXCEPT ![w][n] = TRUE]

Listing(n) == Children(n)               \* g_file_enumerate_children

(* eam_fs_sanity_check comes to this application. *)
Start(w) ==
    /\ at[w] = NoNode
    /\ ~OpenToOthers(Root)
    /\ Call(w, Root)
    /\ left' = [left EXCEPT ![w][Root] = Listing(Root)]
    /\ UNCHANGED <<owner, other, faults, crashes>>

Enter(w, k) ==
    /\ at[w] # NoNode
    /\ k \in left[w][at[w]]
    /\ Call(w, k)
    /\ left' = [left EXCEPT ![w][at[w]] = @ \ {k}, ![w][k] = Listing(k)]
    /\ UNCHANGED <<owner, other, faults, crashes>>

(* The caller assigns the result to its own retval, whatever was there. *)
Return(w, r) ==
    LET n == at[w]
        unwound == [retval EXCEPT ![w][n] = TRUE]
    IN  /\ left' = [left EXCEPT ![w][n] = {}]
        /\ IF n = Root
           THEN at' = [at EXCEPT ![w] = NoNode] /\ retval' = unwound
           ELSE /\ at' = [at EXCEPT ![w] = Parent[n]]
                /\ retval' = [unwound EXCEPT ![w][Parent[n]] = r]

TopFirst(w) == at[w] # NoNode           \* mutant: a node is fixed before its children
ChildrenDone(w) == at[w] # NoNode /\ left[w][at[w]] = {}

AllGiven(n) == owner[n]                 \* mutant: all of the owner's bits are passed on
Given(n) == owner[n] \cap Readable

(* stat and chmod of the node itself, after its children. *)
FixMode(w) ==
    /\ ChildrenDone(w)
    /\ retval[w][at[w]]
    /\ other' = [other EXCEPT ![at[w]] = @ \cup Given(at[w])]
    /\ Return(w, TRUE)
    /\ UNCHANGED <<owner, faults, crashes>>

(* The last child failed: the node is left alone. *)
GiveUp(w) ==
    /\ ChildrenDone(w)
    /\ ~retval[w][at[w]]
    /\ Return(w, FALSE)
    /\ UNCHANGED <<owner, other, faults, crashes>>

(* The enumeration, stat (of a dangling link, say) or chmod fails. *)
Fail(w) ==
    /\ faults < MaxFaults
    /\ faults' = faults + 1
    /\ at[w] # NoNode
    /\ Return(w, FALSE)
    /\ UNCHANGED <<owner, other, crashes>>

Crash(w) ==
    /\ crashes < MaxCrashes
    /\ crashes' = crashes + 1
    /\ at[w] # NoNode
    /\ at' = [at EXCEPT ![w] = NoNode]
    /\ left' = [left EXCEPT ![w] = [n \in Nodes |-> {}]]
    /\ retval' = [retval EXCEPT ![w] = [n \in Nodes |-> TRUE]]
    /\ UNCHANGED <<owner, other, faults>>

-----------------------------------------------------------------------------
(* A tree as it was unpacked: every node is readable by its owner, every   *)
(* directory can be entered, and the top is still closed to others.        *)
Init ==
    /\ owner \in [Nodes -> {{"r", "w"}, {"r", "w", "x"}}]
    /\ \A n \in Nodes : n = Root \/ Children(n) # {} => "x" \in owner[n]
    /\ other \in [Nodes -> SUBSET Readable]
    /\ ~OpenToOthers(Root)
    /\ at = [w \in Walkers |-> NoNode]
    /\ left = [w \in Walkers |-> [n \in Nodes |-> {}]]
    /\ retval = [w \in Walkers |-> [n \in Nodes |-> TRUE]]
    /\ faults = 0 /\ crashes = 0

WalkNext(w) ==
    \/ Start(w)
    \/ \E k \in Nodes : Enter(w, k)
    \/ FixMode(w) \/ GiveUp(w) \/ Fail(w) \/ Crash(w)

Next == \E w \in Walkers : WalkNext(w)

Spec == Init /\ [][Next]_vars

-----------------------------------------------------------------------------
(* The values of the variables: in particular the walk never lets others   *)
(* write to the application.                                               *)
TypeOK ==
    /\ owner \in [Nodes -> SUBSET {"r", "w", "x"}]
    /\ other \in [Nodes -> SUBSET Readable]
    /\ at \in [Walkers -> Nodes \cup {NoNode}]
    /\ left \in [Walkers -> [Nodes -> SUBSET Nodes]]
    /\ \A w \in Walkers, n \in Nodes : left[w][n] \subseteq Children(n)
    /\ retval \in [Walkers -> [Nodes -> BOOLEAN]]
    /\ faults \in 0 .. MaxFaults
    /\ crashes \in 0 .. MaxCrashes

(* What a walk has behind it: on the path from the top to where it is, a   *)
(* child is still to be visited, or is being visited, or is fixed with all *)
(* below it.                                                               *)
WalkOK(w) ==
    \A m \in Nodes :
       at[w] \in Under[m] =>
          /\ retval[w][m]
          /\ \A k \in Children(m) :
                k \in left[w][m] \/ at[w] \in Under[k] \/ SubtreeFixed(k)

(* The top directory is opened to others last (eam-fs-utils.c:152-155): as *)
(* long as no system call fails, wherever walks are killed and however     *)
(* they overlap, a top directory that is open is one that needs no further *)
(* walk, the only sign fix_application_permissions_if_needed goes by.      *)
CleanWalksFixAll == faults = 0 /\ OpenToOthers(Root) => SubtreeFixed(Root)

(* The inductive invariant behind it. *)
IInv ==
    /\ TypeOK
    /\ CleanWalksFixAll
    /\ faults = 0 => \A w \in Walkers : at[w] # NoNode => WalkOK(w)

(* The same when system calls fail: "the root path is the last thing we    *)
(* fix when everything else has worked as expected, so that we can try     *)
(* again the next time if something went wrong" (eam-fs-utils.c:152).  The *)
(* code does not have this property: README, section 4.                    *)
TopFixedLast == OpenToOthers(Root) => SubtreeFixed(Root)

=============================================================================

------------------------ MODULE EamPermissionsProofs ------------------------
(* Proofs about EamPermissions, for every tree and any number of walkers.  *)
EXTENDS EamPermissions, TLAPS

USE DEF Children, Listing

(* A subtree is its top node and the subtrees of that node's children.     *)
LEMMA SubtreeSplit ==
    ASSUME NEW n \in Nodes
    PROVE  SubtreeFixed(n) <=> Fixed(n) /\ \A k \in Children(n) : SubtreeFixed(k)
  BY TreeAssumption DEF TreeAssumption, SubtreeFixed

(* The subtrees a node is in are its own and those its directory is in.    *)
LEMMA UnderParent ==
    ASSUME NEW k \in Nodes \ {Root}, NEW m \in Nodes
    PROVE  /\ Parent[k] \in Nodes
           /\ Parent[k] \in Under[m] => k \in Under[m]
           /\ k \in Under[m] => k = m \/ Parent[k] \in Under[m]
  BY TreeAssumption DEF TreeAssumption

(* The top directory is in no subtree but its own.                         *)
LEMMA RootOnTop ==
    ASSUME NEW m \in Nodes, Root \in Under[m]
    PROVE  m = Root
  BY TreeAssumption DEF TreeAssumption

(* A directory is in no subtree of its children.                           *)
LEMMA NotBelowChild ==
    ASSUME NEW n \in Nodes, NEW k \in Children(n)
    PROVE  k \in Under[n] /\ n \notin Under[k]
<1>1. k \in Nodes \ {Root} /\ Parent[k] = n /\ n \in Under[n]
  BY TreeAssumption DEF TreeAssumption
<1>2. k \in Under[n] /\ k # n
  BY <1>1, UnderParent, TreeAssumption DEF TreeAssumption
<1>3. QED
  BY <1>1, <1>2, TreeAssumption DEF TreeAssumption

(* Initially no walk is under way and the top is closed.                   *)
LEMMA InitInv == Init => IInv
<1> SUFFICES ASSUME Init PROVE IInv
  OBVIOUS
<1>1. TypeOK
  BY TreeAssumption, BoundsAssumption DEF Init, TypeOK, Readable, TreeAssumption, BoundsAssumption
<1>2. \A w \in Walkers : at[w] = NoNode
  BY DEF Init
<1>3. QED
  BY <1>1, <1>2 DEF Init, IInv, CleanWalksFixAll

(* A step that only widens modes keeps what is fixed fixed.                *)
LEMMA FixedStays ==
    ASSUME NEW n \in Nodes, owner' = owner,
           \A m \in Nodes : other[m] \subseteq other'[m],
           SubtreeFixed(n)
    PROVE  SubtreeFixed(n)'
  BY TreeAssumption DEF TreeAssumption, SubtreeFixed, Fixed

(* What a walk has behind it is not disturbed by the step of another one.  *)
LEMMA OtherWalk ==
    ASSUME NEW v \in Walkers,
           at'[v] = at[v], left'[v] = left[v], retval'[v] = retval[v],
           owner' = owner, \A m \in Nodes : other[m] \subseteq other'[m],
           WalkOK(v)
    PROVE  WalkOK(v)'
<1>1. \A k \in Nodes : SubtreeFixed(k) => SubtreeFixed(k)'
  BY FixedStays
<1>2. QED
  BY <1>1 DEF WalkOK

(* A return unwinds the stack by one call.                                 *)
LEMMA ReturnTypes ==
    ASSUME TypeOK, NEW w \in Walkers, at[w] \in Nodes, NEW r \in BOOLEAN, Return(w, r)
    PROVE  /\ at' \in [Walkers -> Nodes \cup {NoNode}]
           /\ left' \in [Walkers -> [Nodes -> SUBSET Nodes]]
           /\ \A v \in Walkers, n \in Nodes : left'[v][n] \subseteq Children(n)
           /\ retval' \in [Walkers -> [Nodes -> BOOLEAN]]
<1>1. at[w] # Root => Parent[at[w]] \in Nodes
  BY TreeAssumption DEF TreeAssumption
<1>2. at' \in [Walkers -> Nodes \cup {NoNode}]
  <2>1. \E m \in Nodes \cup {NoNode} : at' = [at EXCEPT ![w] = m]
    BY <1>1 DEF Return
  <2>2. QED
    BY <2>1 DEF TypeOK
<1>3. retval' \in [Walkers -> [Nodes -> BOOLEAN]]
  <2> DEFINE unwound == [retval EXCEPT ![w][at[w]] = TRUE]
  <2>1. unwound \in [Walkers -> [Nodes -> BOOLEAN]]
    BY DEF TypeOK
  <2>2. retval' = unwound \/ (at[w] # Root /\ retval' = [unwound EXCEPT ![w][Parent[at[w]]] = r])
    BY DEF Return
  <2>3. ASSUME at[w] # Root
        PROVE  [unwound EXCEPT ![w][Parent[at[w]]] = r] \in [Walkers -> [Nodes -> BOOLEAN]]
    <3> HIDE DEF unwound
    <3> QED BY <1>1, <2>1, <2>3
  <2>4. QED
    BY <2>1, <2>2, <2>3
<1>4. /\ left' \in [Walkers -> [Nodes -> SUBSET Nodes]]
      /\ \A v \in Walkers, n \in Nodes : left'[v][n] \subseteq Children(n)
  BY DEF TypeOK, Return
<1>5. QED
  BY <1>2, <1>3, <1>4

(* A new walk has nothing behind it.                                       *)
LEMMA StartInv ==
    ASSUME IInv, NEW w \in Walkers, Start(w)
    PROVE  IInv'
<1>1. TypeOK'
  BY TreeAssumption DEF IInv, TypeOK, Start, Call, TreeAssumption
<1>2. CleanWalksFixAll'
  BY DEF IInv, CleanWalksFixAll, Start, OpenToOthers, SubtreeFixed, Fixed
<1>3. ASSUME faults' = 0, NEW v \in Walkers, at'[v] # NoNode
      PROVE  WalkOK(v)'
  <2>1. CASE v = w
    <3>1. at'[w] = Root /\ left'[w][Root] = Children(Root) /\ retval'[w][Root] = TRUE
      BY TreeAssumption DEF IInv, TypeOK, Start, Call, TreeAssumption
    <3>2. QED
      BY <2>1, <3>1, RootOnTop DEF WalkOK
  <2>2. CASE v # w
    <3>1. at'[v] = at[v] /\ left'[v] = left[v] /\ retval'[v] = retval[v]
      BY <2>2 DEF IInv, TypeOK, Start, Call
    <3>2. QED
      BY <1>3, <3>1, OtherWalk DEF IInv, Start
  <2>3. QED
    BY <2>1, <2>2
<1>4. QED
  BY <1>1, <1>2, <1>3 DEF IInv

(* A child that is entered moves from those to be visited to the path.     *)
LEMMA EnterInv ==
    ASSUME IInv, NEW w \in Walkers, NEW k \in Nodes, Enter(w, k)
    PROVE  IInv'
<1>1. TypeOK'
  <2>1. at[w] \in Nodes /\ left[w] \in [Nodes -> SUBSET Nodes]
    BY DEF IInv, TypeOK, Enter
  <2> DEFINE entered == [left[w] EXCEPT ![at[w]] = @ \ {k}, ![k] = Children(k)]
  <2>2. left' = [left EXCEPT ![w] = entered]
    BY <2>1 DEF IInv, TypeOK, Enter
  <2>3. /\ entered \in [Nodes -> SUBSET Nodes]
        /\ \A n \in Nodes : entered[n] \subseteq Children(n)
    <3>1. \A n \in Nodes : entered[n] = Children(n) \/ entered[n] \subseteq left[w][n]
      BY <2>1
    <3>2. \A n \in Nodes : left[w][n] \subseteq Children(n)
      BY DEF IInv, TypeOK
    <3>3. entered \in [Nodes -> SUBSET Nodes]
      BY <2>1
    <3>4. QED
      BY <3>1, <3>2, <3>3
  <2> HIDE DEF entered
  <2>4. /\ left' \in [Walkers -> [Nodes -> SUBSET Nodes]]
        /\ \A v \in Walkers, n \in Nodes : left'[v][n] \subseteq Children(n)
    BY <2>2, <2>3 DEF IInv, TypeOK
  <2>5. /\ at' \in [Walkers -> Nodes \cup {NoNode}]
        /\ retval' \in [Walkers -> [Nodes -> BOOLEAN]]
    BY DEF IInv, TypeOK, Enter, Call
  <2>6. QED
    BY <2>4, <2>5 DEF IInv, TypeOK, Enter
<1>2. CleanWalksFixAll'
  BY DEF IInv, CleanWalksFixAll, Enter, OpenToOthers, SubtreeFixed, Fixed
<1>3. ASSUME faults' = 0, NEW v \in Walkers, at'[v] # NoNode
      PROVE  WalkOK(v)'
  <2>1. CASE v = w
    <3> DEFINE n == at[w]
    <3>1. n \in Nodes /\ WalkOK(w)
      BY <1>3 DEF IInv, TypeOK, Enter
    <3>2. k \in Children(n)
      BY <3>1 DEF IInv, TypeOK, Enter
    <3>3. k \in Nodes \ {Root} /\ Parent[k] = n /\ k # n
      BY <3>2, <3>1, TreeAssumption DEF TreeAssumption
    <3>4. /\ at'[w] = k
          /\ left'[w][k] = Children(k) /\ retval'[w][k] = TRUE
          /\ left'[w][n] = left[w][n] \ {k}
          /\ \A m \in Nodes \ {k} : retval'[w][m] = retval[w][m]
          /\ \A m \in Nodes \ {k, n} : left'[w][m] = left[w][m]
      BY <3>1, <3>3 DEF IInv, TypeOK, Enter, Call
    <3>5. ASSUME NEW m \in Nodes, k \in Under[m], NEW j \in Children(m), m # k
          PROVE  j \in left'[w][m] \/ k \in Under[j] \/ SubtreeFixed(j)
      <4>1. n \in Under[m]
        BY <3>3, <3>5, UnderParent
      <4>2. j \in left[w][m] \/ n \in Under[j] \/ SubtreeFixed(j)
        BY <3>1, <4>1, <3>5 DEF WalkOK
      <4>3. n \in Under[j] => k \in Under[j]
        BY <3>3, <3>5, UnderParent
      <4>4. k \in Under[k]
        BY TreeAssumption DEF TreeAssumption
      <4>5. QED
        BY <4>2, <4>3, <4>4, <3>4, <3>5
    <3>6. ASSUME NEW m \in Nodes, k \in Under[m]
          PROVE  retval'[w][m]
      BY <3>1, <3>3, <3>4, <3>6, UnderParent DEF WalkOK
    <3>7. \A j \in Nodes : SubtreeFixed(j) => SubtreeFixed(j)'
      BY FixedStays DEF Enter
    <3>8. QED
      BY <2>1, <3>4, <3>5, <3>6, <3>7 DEF WalkOK
  <2>2. CASE v # w
    <3>1. at'[v] = at[v] /\ left'[v] = left[v] /\ retval'[v] = retval[v]
      BY <2>2 DEF IInv, TypeOK, Enter, Call
    <3>2. QED
      BY <1>3, <3>1, OtherWalk DEF IInv, Enter
  <2>3. QED
    BY <2>1, <2>2
<1>4. QED
  BY <1>1, <1>2, <1>3 DEF IInv

(* A call that returns TRUE leaves its whole subtree fixed behind it; the  *)
(* top's call does so last of all.                                         *)
LEMMA FixModeInv ==
    ASSUME IInv, NEW w \in Walkers, FixMode(w)
    PROVE  IInv'
<1>0. PICK n \in Nodes : n = at[w]
  BY DEF IInv, TypeOK, FixMode, ChildrenDone
<1>1. left[w][n] = {} /\ owner' = owner
  BY <1>0 DEF FixMode, ChildrenDone
<1>2. /\ other' \in [Nodes -> SUBSET Readable]
      /\ \A m \in Nodes : other[m] \subseteq other'[m]
      /\ owner[n] \cap Readable \subseteq other'[n]
      /\ \A m \in Nodes \ {n} : other'[m] = other[m]
  BY <1>0 DEF IInv, TypeOK, FixMode, Given
<1>3. /\ \A m \in Nodes : SubtreeFixed(m) => SubtreeFixed(m)'
      /\ Fixed(n)'
  <2>1. \A m \in Nodes : SubtreeFixed(m) => SubtreeFixed(m)'
    BY <1>1, <1>2, FixedStays
  <2>2. Fixed(n)'
    BY <1>1, <1>2 DEF Fixed
  <2>3. QED
    BY <2>1, <2>2
<1>4. TypeOK'
  BY <1>0, <1>1, <1>2, ReturnTypes DEF IInv, TypeOK, FixMode
<1>5. ASSUME faults = 0
      PROVE  SubtreeFixed(n)'
  <2>1. \A k \in Children(n) : SubtreeFixed(k)
    BY <1>0, <1>1, <1>5, NotBelowChild, TreeAssumption DEF IInv, TypeOK, WalkOK, TreeAssumption
  <2>2. \A k \in Children(n) : SubtreeFixed(k)'
    BY <2>1, <1>3
  <2>3. SubtreeFixed(n)' <=> Fixed(n)' /\ \A k \in Children(n) : SubtreeFixed(k)'
    BY TreeAssumption DEF TreeAssumption, SubtreeFixed
  <2>4. QED
    BY <1>3, <2>2, <2>3
<1>6. CleanWalksFixAll'
  <2>1. CASE n = Root
    BY <2>1, <1>5 DEF CleanWalksFixAll, FixMode
  <2>2. CASE n # Root
    BY <2>2, <1>2, <1>3, TreeAssumption
       DEF IInv, CleanWalksFixAll, FixMode, OpenToOthers, TreeAssumption
  <2>3. QED
    BY <2>1, <2>2
<1>7. ASSUME faults' = 0, NEW v \in Walkers, at'[v] # NoNode
      PROVE  WalkOK(v)'
  <2>1. CASE v = w
    <3>1. n # Root
      BY <1>0, <2>1, <1>7 DEF IInv, TypeOK, FixMode, Return
    <3>2. /\ at'[w] = Parent[n] /\ n \in Children(Parent[n])
          /\ Parent[n] \in Nodes /\ Parent[n] # n
          /\ retval'[w][Parent[n]] = TRUE
          /\ \A m \in Nodes \ {n} : left'[w][m] = left[w][m]
          /\ \A m \in Nodes \ {n, Parent[n]} : retval'[w][m] = retval[w][m]
      BY <1>0, <3>1, TreeAssumption DEF IInv, TypeOK, FixMode, Return, TreeAssumption
    <3>3. WalkOK(w) /\ SubtreeFixed(n)'
      BY <1>0, <1>5, <1>7, <2>1 DEF IInv, FixMode, ChildrenDone
    <3>4. ASSUME NEW m \in Nodes, Parent[n] \in Under[m]
          PROVE  m # n /\ n \in Under[m] /\ retval'[w][m]
      <4>1. m # n
        BY <3>2, <3>4, NotBelowChild
      <4>2. n \in Under[m]
        BY <3>1, <3>4, UnderParent
      <4>3. QED
        BY <1>0, <4>1, <4>2, <3>2, <3>3 DEF WalkOK
    <3>5. ASSUME NEW m \in Nodes, Parent[n] \in Under[m], NEW j \in Children(m)
          PROVE  j \in left'[w][m] \/ Parent[n] \in Under[j] \/ SubtreeFixed(j)'
      <4>1. j \in left[w][m] \/ n \in Under[j] \/ SubtreeFixed(j)
        BY <1>0, <3>3, <3>4, <3>5 DEF WalkOK
      <4>2. n \in Under[j] => j = n \/ Parent[n] \in Under[j]
        BY <3>1, <3>5, UnderParent
      <4>3. QED
        BY <4>1, <4>2, <3>2, <3>3, <3>4, <3>5, <1>3
    <3>6. QED
      BY <2>1, <3>2, <3>4, <3>5 DEF WalkOK
  <2>2. CASE v # w
    <3>1. at'[v] = at[v] /\ left'[v] = left[v] /\ retval'[v] = retval[v]
      BY <2>2 DEF IInv, TypeOK, FixMode, Return
    <3>2. QED
      BY <1>1, <1>2, <1>7, <3>1, OtherWalk DEF IInv, FixMode
  <2>3. QED
    BY <2>1, <2>2
<1>8. QED
  BY <1>4, <1>6, <1>7 DEF IInv

(* Without a failing system call no call of a walk gives up.               *)
LEMMA GiveUpInv ==
    ASSUME IInv, NEW w \in Walkers, GiveUp(w)
    PROVE  IInv'
<1>1. faults # 0
  BY TreeAssumption DEF IInv, TypeOK, WalkOK, GiveUp, ChildrenDone, TreeAssumption
<1>2. TypeOK'
  <2>1. at[w] \in Nodes /\ Return(w, FALSE)
    BY DEF IInv, TypeOK, GiveUp, ChildrenDone
  <2>2. QED
    BY <2>1, ReturnTypes DEF IInv, TypeOK, GiveUp
<1>3. QED
  BY <1>1, <1>2 DEF IInv, CleanWalksFixAll, GiveUp

(* A failing system call ends what the invariant says.                     *)
LEMMA FailInv ==
    ASSUME IInv, NEW w \in Walkers, Fail(w)
    PROVE  IInv'
<1>1. faults' # 0 /\ faults' \in 0 .. MaxFaults
  BY BoundsAssumption DEF IInv, TypeOK, Fail, BoundsAssumption
<1>2. TypeOK'
  <2>1. at[w] \in Nodes /\ Return(w, FALSE)
    BY DEF IInv, TypeOK, Fail
  <2>2. QED
    BY <1>1, <2>1, ReturnTypes DEF IInv, TypeOK, Fail
<1>3. QED
  BY <1>1, <1>2 DEF IInv, CleanWalksFixAll

(* A killed walk claims nothing, and has opened nothing it should not.     *)
LEMMA CrashInv ==
    ASSUME IInv, NEW w \in Walkers, Crash(w)
    PROVE  IInv'
<1>1. TypeOK'
  BY BoundsAssumption DEF IInv, TypeOK, Crash, BoundsAssumption
<1>2. CleanWalksFixAll'
  BY DEF IInv, CleanWalksFixAll, Crash, OpenToOthers, SubtreeFixed, Fixed
<1>3. ASSUME faults' = 0, NEW v \in Walkers, at'[v] # NoNode
      PROVE  WalkOK(v)'
  <2>1. v # w /\ at'[v] = at[v] /\ left'[v] = left[v] /\ retval'[v] = retval[v]
    BY <1>3 DEF IInv, TypeOK, Crash
  <2>2. QED
    BY <1>3, <2>1, OtherWalk DEF IInv, Crash
<1>4. QED
  BY <1>1, <1>2, <1>3 DEF IInv

LEMMA StutterInv ==
    ASSUME IInv, UNCHANGED vars
    PROVE  IInv'
<1>1. TypeOK' /\ CleanWalksFixAll'
  BY DEF IInv, TypeOK, CleanWalksFixAll, vars, OpenToOthers, SubtreeFixed, Fixed
<1>2. \A v \in Walkers : WalkOK(v) => WalkOK(v)'
  BY OtherWalk DEF vars
<1>3. QED
  BY <1>1, <1>2 DEF IInv, vars

(* The walks of fix_permissions_for_application keep the invariant IInv,   *)
(* for every tree, every number of walkers, failures and crashes.          *)
THEOREM Invariance == Spec => []IInv
<1>1. Init => IInv
  BY InitInv
<1>2. IInv /\ [Next]_vars => IInv'
  <2> SUFFICES ASSUME IInv, [Next]_vars PROVE IInv'
    OBVIOUS
  <2>1. ASSUME NEW w \in Walkers, WalkNext(w) PROVE IInv'
    BY <2>1, StartInv, EnterInv, FixModeInv, GiveUpInv, FailInv, CrashInv DEF WalkNext
  <2>2. CASE UNCHANGED vars
    BY <2>2, StutterInv
  <2>3. QED
    BY <2>1, <2>2 DEF Next
<1>3. QED
  BY <1>1, <1>2, PTL DEF Spec

(* As long as no system call fails, an open top directory of an            *)
(* application is one whose whole tree is fixed.                           *)
THEOREM TopIsFixedLast == Spec => []CleanWalksFixAll
<1>1. IInv => CleanWalksFixAll
  BY DEF IInv
<1>2. QED
  BY Invariance, <1>1, PTL

(* The walk never lets others write to the application, whatever fails.    *)
THEOREM TypeCorrect == Spec => []TypeOK
<1>1. IInv => TypeOK
  BY DEF IInv
<1>2. QED
  BY Invariance, <1>1, PTL

=============================================================================

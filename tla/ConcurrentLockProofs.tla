------------------------ MODULE ConcurrentLockProofs ------------------------
(***************************************************************************)
(* What ConcurrentLLTrie's lock order gives, for every set of threads,     *)
(* keys and characters: no deadlock among finitely many threads, nodes     *)
(* that do not change under the thread that holds them, and a clear() that *)
(* stays behind the threads and misses no node.                            *)
(***************************************************************************)
EXTENDS ConcurrentTreeProofs, ConcurrentClear, FiniteSetTheorems

-----------------------------------------------------------------------------
(* Lock order *)

\* A new node is not linked while its place in the list is searched.
LEMMA NewUnlinked ==
    ASSUME TypeInv, TreeInv, NEW t \in Threads, pc[t] \in {"link_first", "link_right"}
    PROVE  ~Linked(new[t])
<1>1. ~InTree(new[t])
  BY LinkingFacts DEF TreeInv, Linking
<1>2. ASSUME NEW s \in Threads, pc[s] = "link_child" PROVE new[s] # new[t]
  BY <1>2, NewNodesDiffer DEF TreeInv, Linking
<1> QED BY <1>1, <1>2 DEF Linked

\* The node a thread waits for is linked, and comes after the nodes it holds
\* that are.
LEMMA WantedIsAhead ==
    ASSUME TypeInv, TreeInv, NEW t \in Threads, NEW n \in Nodes, Wants(t, n)
    PROVE  /\ Linked(n)
           /\ \A m \in Held(t) : Precedes(m, n) \/ (m = new[t] /\ ~Linked(m))
<1> USE DEF Linking, Scanning
<1>a. /\ Nodes \subseteq Paths /\ NoNode \notin Nodes
      /\ \A m \in Nodes : children[m] \subseteq Chars
      /\ \A m \in Nodes, d \in Chars : Precedes(m, Child(m, d))
  <2>1. Nodes \subseteq Paths /\ NoNode \notin Nodes
        /\ \A m \in Nodes : children[m] \subseteq Chars
    BY NodesArePaths DEF TypeInv, TypeOK
  <2> QED BY <2>1, CharsAreIntegers, AppendPath DEF Child
<1>b. \A m \in Nodes, d \in Chars : d \in children[m] => Linked(Child(m, d))
  BY ChildInTree DEF Linked
<1>c. \A m \in Nodes : next[m] # NoNode => Linked(next[m]) /\ Precedes(m, next[m])
  BY DEF TreeInv, NextForward
<1>1. CASE pc[t] = "lock_root" /\ n = Root
  <2>1. Held(t) = {}
    BY <1>1 DEF TypeInv, Shape, Held
  <2> QED BY <1>1, <2>1 DEF Linked, InTree
<1>2. CASE pc[t] = "descend" /\ \E d \in children[cur[t]] : n = Child(cur[t], d)
  <2>1. cur[t] \in Nodes /\ Held(t) = {cur[t]}
    BY <1>2, HoldsOne DEF TreeInv
  <2> QED BY <1>2, <1>a, <1>b, <2>1
<1>3. CASE pc[t] = "link_first" /\ \E d \in children[cur[t]] : n = Child(cur[t], d)
  <2>1. /\ cur[t] \in Nodes /\ ~Linked(new[t])
        /\ Held(t) = {cur[t], new[t]}
    <3>1. probe[t] = NoNode /\ cur[t] \in Nodes /\ new[t] \in Nodes
      BY <1>3, LinkingFacts DEF TypeInv, Shape, TreeInv
    <3> QED BY <1>3, <1>a, <3>1, NewUnlinked DEF Held
  <2> QED BY <1>3, <1>a, <1>b, <2>1
<1>4. CASE pc[t] = "link_right" /\ \E d \in children[probe[t]] : n = Child(probe[t], d)
  <2>1. /\ cur[t] \in Nodes /\ probe[t] \in Nodes /\ ~Linked(new[t])
        /\ \A m \in Held(t) : m = cur[t] \/ m = new[t] \/ m = probe[t]
    BY <1>4, LinkingFacts, NewUnlinked DEF TypeInv, TypeOK, Shape, TreeInv, Held
  <2>2. Precedes(cur[t], probe[t])
    BY <1>4, <1>a, <2>1, PrefixPrecedes DEF TreeInv, RightSpine, IsStrictPrefixOf
  <2>3. Precedes(probe[t], n) /\ Linked(n)
    BY <1>4, <1>a, <1>b, <2>1
  <2>4. Precedes(cur[t], n)
    BY <1>a, <2>1, <2>2, <2>3, PrecedesTransitive
  <2> QED BY <2>1, <2>3, <2>4
<1>5. CASE pc[t] \in Scanning \cup {"ahead_first"} /\ n = next[cur[t]]
  <2>1. cur[t] \in Nodes /\ Held(t) = {cur[t]}
    BY <1>5, HoldsOne DEF TreeInv
  <2> QED BY <1>5, <1>a, <1>c, <2>1
<1>6. CASE pc[t] = "ahead" /\ n = next[probe[t]]
  <2>1. /\ cur[t] \in Nodes /\ probe[t] \in Nodes /\ Held(t) = {cur[t], probe[t]}
        /\ Precedes(cur[t], probe[t])
    BY <1>6, HoldsTwo DEF TreeInv
  <2>2. Linked(n) /\ Precedes(probe[t], n)
    BY <1>6, <1>a, <1>c, <2>1
  <2>3. Precedes(cur[t], n)
    BY <1>a, <2>1, <2>2, PrecedesTransitive
  <2> QED BY <2>1, <2>2, <2>3
<1> QED BY <1>1, <1>2, <1>3, <1>4, <1>5, <1>6
        DEF Wants, IsLowerBound, IsPredecessor, IsLast, LeftSibling

\* A thread waits for one node.
LEMMA WantsOne ==
    ASSUME TypeInv, HeldInTree, NEW t \in Threads, NEW n \in Nodes, NEW m \in Nodes,
           Wants(t, n), Wants(t, m)
    PROVE  n = m
<1> USE DEF Scanning
<1>1. ASSUME NEW a \in Nodes, NEW k, NEW d \in Chars, NEW e \in Chars,
             \/ IsLowerBound(children[a], k, d) /\ IsLowerBound(children[a], k, e)
             \/ IsPredecessor(children[a], k, d) /\ IsPredecessor(children[a], k, e)
             \/ IsLast(children[a], d) /\ IsLast(children[a], e)
      PROVE  d = e
  BY <1>1, CharsAreIntegers DEF IsLowerBound, IsPredecessor, IsLast
<1>2. pc[t] \in {"descend", "link_first"} => cur[t] \in Nodes
  BY HoldsCur
<1>3. pc[t] = "link_right" => probe[t] \in Nodes
  BY DEF TypeInv, TypeOK, Shape
<1>4. CASE pc[t] = "descend"
  BY <1>1, <1>2, <1>4 DEF Wants
<1>5. CASE pc[t] \in {"link_first", "link_right"}
  BY <1>1, <1>2, <1>3, <1>5 DEF Wants, LeftSibling
<1>6. CASE pc[t] \notin {"descend", "link_first", "link_right"}
  BY <1>6 DEF Wants
<1> QED BY <1>4, <1>5, <1>6

\* Locks are requested in key order in every behaviour in which erase(it) is
\* called only at values.
THEOREM LocksInOrder ==
    ASSUME ~EraseAnyIterator
    PROVE  Spec => []LockOrder
<1>1. Init => Inv
  BY TypeInit, TreeInit DEF Inv
<1>2. Inv => LockOrder
  BY WantedIsAhead DEF Inv, LockOrder
<1> QED BY <1>1, <1>2, TreeStep, PTL DEF Spec

-----------------------------------------------------------------------------
(* No deadlock *)

\* Among finitely many threads that all wait, one waits for a node that none of
\* the others' nodes follows.
LEMMA LastWanted ==
    ASSUME NEW S, IsFiniteSet(S), S # {}, NEW want \in [S -> Paths]
    PROVE  \E t \in S : \A s \in S : ~Precedes(want[t], want[s])
<1> DEFINE Later(t) == {s \in S : Precedes(want[t], want[s])}
           Counts == {Cardinality(Later(t)) : t \in S}
<1>1. \A t \in S : IsFiniteSet(Later(t)) /\ Cardinality(Later(t)) \in Nat
  <2>1. ASSUME NEW t \in S PROVE IsFiniteSet(Later(t))
    BY FS_Subset
  <2> HIDE DEF Later
  <2> QED BY <2>1, FS_CardinalityType
<1>2. PICK t \in S : \A s \in S : Cardinality(Later(t)) <= Cardinality(Later(s))
  <2>1. Counts \in SUBSET Nat /\ Counts # {}
    BY <1>1
  <2>2. PICK x \in Counts : \A y \in Counts : x <= y
    <3> HIDE DEF Counts
    <3> QED BY <2>1, LeastNatural
  <2> HIDE DEF Later
  <2>3. PICK t \in S : x = Cardinality(Later(t))
    BY <2>2, Zenon
  <2>4. \A s \in S : Cardinality(Later(s)) \in Counts
    BY Zenon
  <2>5. \A s \in S : Cardinality(Later(t)) <= Cardinality(Later(s))
    BY <2>2, <2>3, <2>4, Zenon
  <2> QED BY <2>5, Zenon
<1>3. ASSUME NEW s \in S, Precedes(want[t], want[s]) PROVE FALSE
  <2>1. Later(s) \in SUBSET Later(t)
    BY <1>3, PrecedesTransitive
  <2>2. s \in Later(t) /\ s \notin Later(s)
    BY <1>3, PrecedesIrreflexive
  <2> HIDE DEF Later
  <2>3. Cardinality(Later(s)) <= Cardinality(Later(t)) /\ Cardinality(Later(s)) # Cardinality(Later(t))
    BY <1>1, <2>1, <2>2, FS_Subset
  <2>4. Cardinality(Later(s)) \in Nat /\ Cardinality(Later(t)) \in Nat
    BY <1>1
  <2> QED BY <1>2, <2>3, <2>4
<1> QED BY <1>3

\* A thread is blocked by one that holds the node it waits for, and so waits
\* for a later node, or by one that waits for the same node exclusively.
LEMMA BlockersAreAhead ==
    ASSUME TypeInv, TreeInv, NEW t \in Threads, NEW s \in Threads,
           NEW n \in Nodes, Wants(t, n), NEW m \in Nodes, Wants(s, m), BlockedBy(t, s)
    PROVE  Precedes(n, m) \/ (m = n /\ ~Exclusive(t) /\ Exclusive(s))
<1>1. PICK a \in Nodes : /\ Wants(t, a)
                         /\ \/ writer[a] = s
                            \/ Exclusive(t) /\ s \in readers[a]
                            \/ ~Exclusive(t) /\ Wants(s, a) /\ Exclusive(s)
  BY DEF BlockedBy
<1>2. a = n
  BY <1>1, WantsOne DEF TreeInv
<1>3. CASE writer[n] = s \/ s \in readers[n]
  <2>1. n \in Held(s)
    BY <1>3 DEF TreeInv, LockDiscipline
  <2> QED BY <2>1, WantedIsAhead
<1>4. CASE ~Exclusive(t) /\ Wants(s, n) /\ Exclusive(s)
  BY <1>4, WantsOne DEF TreeInv
<1> QED BY <1>1, <1>2, <1>3, <1>4

\* Finitely many threads never deadlock, provided that erase(it) is called only
\* at values: of those that wait for the last node, one can have it.
THEOREM DeadlockFree ==
    ASSUME ~EraseAnyIterator, IsFiniteSet(Threads)
    PROVE  Spec => []NoDeadlock
<1>1. Init => Inv
  BY TypeInit, TreeInit DEF Inv
<1>2. Inv => NoDeadlock
  <2> SUFFICES ASSUME TypeInv, TreeInv, NEW S \in SUBSET Threads, S # {}
               PROVE  \E t \in S : \A s \in S : ~BlockedBy(t, s)
    BY DEF Inv, NoDeadlock
  <2>1. CASE \E t \in S : \A n \in Nodes : ~Wants(t, n)
    BY <2>1 DEF BlockedBy
  <2>2. CASE \A t \in S : \E n \in Nodes : Wants(t, n)
    <3> DEFINE want == [t \in S |-> CHOOSE n \in Nodes : Wants(t, n)]
    <3>1. \A t \in S : want[t] \in Nodes /\ Wants(t, want[t])
      BY <2>2
    <3>2. want \in [S -> Paths]
      BY <3>1, NodesArePaths
    <3> HIDE DEF want
    <3>3. IsFiniteSet(S)
      BY FS_Subset
    <3>4. PICK t \in S : \A s \in S : ~Precedes(want[t], want[s])
      BY <3>2, <3>3, LastWanted
    <3>5. CASE \E s \in S : want[s] = want[t] /\ Exclusive(s)
      <4>1. PICK s \in S : want[s] = want[t] /\ Exclusive(s)
        BY <3>5
      <4>2. ASSUME NEW r \in S PROVE ~BlockedBy(s, r)
        BY <3>1, <3>4, <4>1, BlockersAreAhead
      <4> QED BY <4>2
    <3>6. CASE \A s \in S : ~(want[s] = want[t] /\ Exclusive(s))
      <4>1. ASSUME NEW r \in S PROVE ~BlockedBy(t, r)
        BY <3>1, <3>4, <3>6, BlockersAreAhead
      <4> QED BY <4>1
    <3> QED BY <3>5, <3>6
  <2> QED BY <2>1, <2>2
<1> QED BY <1>1, <1>2, TreeStep, PTL DEF Spec

-----------------------------------------------------------------------------
(* Nodes change only under their lock *)

\* A step changes the data of nodes the thread holds exclusively, or of the
\* node it has just created; and it leaves its place in the code.
LEMMA ChangesAreLocked ==
    ASSUME TypeInv, TreeInv, NEW s \in Threads, Step(s), NEW n \in Nodes,
           ~UNCHANGED <<children[n], next[n], value[n]>>
    PROVE  /\ pc'[s] # pc[s]
           /\ (n \in Held(s) /\ Exclusive(s)) \/ (\A t \in Threads : n \notin Held(t))
<1> USE DEF trie, Goto, Linking
<1>a. /\ pc \in [Threads -> PCs] /\ children \in [Nodes -> SUBSET Chars]
      /\ next \in [Nodes -> Nodes \cup {NoNode}] /\ value \in [Nodes -> Values \cup {NoValue}]
  BY DEF TypeInv, TypeOK
<1>b. pc[s] \notin {"idle", "lock_root"} => cur[s] \in Nodes /\ cur[s] \in Held(s)
  BY HoldsCur DEF TreeInv
<1>c. pc[s] \in Linking => Exclusive(s) /\ new[s] \in Held(s)
  BY LinkingFacts DEF TreeInv
<1>1. CASE CreateMiddle(s) \/ CreateFirst(s) \/ CreateLast(s) \/ CreateOnly(s)
  <2>1. /\ Allocate(s) /\ pc'[s] \in Linking /\ pc'[s] # pc[s]
        /\ \A t \in Threads : t # s => pc'[t] = pc[t]
        /\ n = cur[s] \/ n = NewPath(s)
    BY <1>1, <1>a DEF CreateMiddle, CreateFirst, CreateLast, CreateOnly, Allocate,
                      EdgeMissing
  <2>2. /\ Exclusive(s) /\ cur[s] \in Held(s) /\ ~Linked(NewPath(s)) /\ NewPath(s) \in Nodes
        /\ \A t \in Threads : pc[t] \in Linking => new[t] # NewPath(s)
    BY <2>1, AllocateFacts
  <2>3. ASSUME NEW t \in Threads PROVE NewPath(s) \notin Held(t)
    <3>1. NewPath(s) # NoNode
      BY <2>2, NodesArePaths
    <3>2. cur[t] # NewPath(s) /\ probe[t] # NewPath(s)
      BY <2>2, <3>1 DEF TreeInv, HeldInTree, Linked
    <3>3. new[t] # NewPath(s)
      BY <2>2, <3>1 DEF TypeInv, Shape
    <3> QED BY <3>2, <3>3 DEF Held
  <2> QED BY <2>1, <2>2, <2>3
<1>2. CASE LinkRight(s)
  <2>1. probe[s] \in Held(s) /\ pc'[s] # pc[s]
    BY <1>2, <1>a, NodesArePaths DEF LinkRight, TypeInv, TypeOK, Shape, Held,
                                     RightLinks
  <2> QED BY <1>2, <1>a, <1>c, <2>1 DEF LinkRight, RightLinks
<1>3. CASE LinkChild(s)
  BY <1>3, <1>a, <1>b, <1>c DEF LinkChild
<1>4. CASE StoreValue(s) \/ EraseAtKey(s) \/ EraseIterator(s)
  BY <1>4, <1>a, <1>b
     DEF StoreValue, EraseAtKey, EraseIterator, Inserting, Exclusive, ExclusiveOps,
         Arrived, AlreadyThere
<1>5. CASE UNCHANGED <<children, next, value>>
  BY <1>5
<1> QED BY <1>1, <1>2, <1>3, <1>4, <1>5
        DEF Step, Internal, Insertion, Lookup, Erasure, Iteration, UseIterator, DropIterator,
            LinkFirst, WalkRight, InsertExisting, SizeInc, LockRoot, Descend, LookupAbsent,
            FindAtKey, CountAtKey, BoundAbove, BoundScan, SizeDec, EraseIteratorDec,
            ScanStop, ScanNext, ScanEnd, NextStep, NextEnd, NextReturn,
            Increment, NextCall, EraseValueless, Call, Unlock, UnlockOne,
            LeftSibling, Arrived, AlreadyThere, EdgeMissing, Decremented

\* While a thread holds a node nobody else changes it, in every behaviour in
\* which erase(it) is called only at values.  What a thread has read from the
\* node is still true when the lock it waits for is granted.
THEOREM HeldNodesDoNotChange ==
    ASSUME ~EraseAnyIterator
    PROVE  Spec => HeldNodesFrozen
<1> DEFINE Frozen == \A t \in Threads :
              UNCHANGED <<pc[t], cur[t], new[t], probe[t]>> =>
                 \A n \in Held(t) : UNCHANGED <<children[n], next[n], value[n]>>
<1>1. Init => Inv
  BY TypeInit, TreeInit DEF Inv
<1>2. Inv /\ [Next]_vars => [Frozen]_vars
  <2> SUFFICES ASSUME TypeInv, TreeInv, NEW s \in Threads, Step(s),
                      NEW t \in Threads, UNCHANGED <<pc[t], cur[t], new[t], probe[t]>>,
                      NEW n \in Held(t)
               PROVE  UNCHANGED <<children[n], next[n], value[n]>>
    BY DEF Next, Inv, Held
  <2>1. n \in Nodes
    BY DEF Held, TypeInv, TypeOK
  <2>2. t = s => pc'[s] = pc[s]
    OBVIOUS
  <2>3. t # s /\ n \in Held(s) => ~Exclusive(s)
    BY <2>1, HeldTogether DEF TreeInv
  <2> QED BY <2>1, <2>2, <2>3, ChangesAreLocked
<1> QED BY <1>1, <1>2, TreeStep, PTL DEF Spec, HeldNodesFrozen

-----------------------------------------------------------------------------
(* clear() beside threads *)

\* The node the Owner is in, the nodes and the edges are paths and numbers.
OwnerTypes == stage \in Stages /\ doomed \in Nodes /\ edge \in Int

\* What is in front of the Owner, stage by stage.
LEMMA InFrontAt ==
    ASSUME OwnerTypes, NEW n
    PROVE  /\ stage = "before" => InFront(n)
           /\ stage = "lock" => (InFront(n) <=> n = doomed \/ Precedes(doomed, n))
           /\ stage = "delete_children" =>
                 (InFront(n) <=> /\ Precedes(doomed, n)
                                 /\ IsPrefixOf(doomed, n) => n[Len(doomed) + 1] > edge)
           /\ stage = "unlocked" =>
                 (InFront(n) <=> Precedes(doomed, n) /\ ~IsPrefixOf(doomed, n))
           /\ stage \in {"reset_size", "after"} => ~InFront(n)
BY DEF InFront, OwnerTypes, Stages

\* Whatever follows a node in front of the Owner is in front of it.
LEMMA InFrontGoesOn ==
    ASSUME OwnerTypes, NEW n \in Paths, NEW m \in Paths, InFront(n), Precedes(n, m)
    PROVE  InFront(m)
<1>1. doomed \in Paths /\ Len(doomed) \in Nat /\ Len(n) \in Nat /\ Len(m) \in Nat
  BY NodesArePaths DEF OwnerTypes, Paths
<1>2. CASE stage \in {"before", "reset_size", "after"}
  BY <1>2, InFrontAt
<1>3. CASE stage = "lock"
  BY <1>1, <1>3, InFrontAt, PrecedesTransitive
<1>4. CASE stage \in {"delete_children", "unlocked"}
  <2>1. Precedes(doomed, n) /\ Precedes(doomed, m)
    BY <1>1, <1>4, InFrontAt, PrecedesTransitive
  <2>2. ~IsPrefixOf(doomed, n) => ~IsPrefixOf(doomed, m)
    BY <1>1, <2>1, AsideStaysAside
  <2>3. CASE ~IsPrefixOf(doomed, m)
    BY <1>4, <2>1, <2>3, InFrontAt
  <2>4. CASE IsPrefixOf(doomed, n) /\ IsPrefixOf(doomed, m)
    <3>1. Len(doomed) < Len(n) /\ Len(doomed) < Len(m)
      BY <1>1, <2>1, <2>4, PrefixSameLength, PrecedesIrreflexive
    <3>2. n[Len(doomed) + 1] \in Int /\ m[Len(doomed) + 1] \in Int
      BY <1>1, <3>1 DEF Paths
    <3>3. ~(m[Len(doomed) + 1] < n[Len(doomed) + 1])
      BY <1>1, <2>4, <3>1, SmallerEdgeFirst, PrecedesAsymmetric
    <3>4. stage = "delete_children" /\ n[Len(doomed) + 1] > edge
      BY <1>4, <2>4, InFrontAt
    <3>5. m[Len(doomed) + 1] > edge
      BY <3>2, <3>3, <3>4 DEF OwnerTypes
    <3> QED BY <2>1, <3>4, <3>5, InFrontAt
  <2> QED BY <2>2, <2>3, <2>4
<1> QED BY <1>2, <1>3, <1>4 DEF OwnerTypes, Stages

\* A step takes a thread to nodes it held or waited for, or to the node that it
\* creates below the one it is at.
LEMMA HeldNext ==
    ASSUME TypeInv, TreeInv, NEW t \in Threads, Step(t), NEW s \in Threads, NEW n \in Held(s)'
    PROVE  \/ n \in Held(s)
           \/ s = t /\ Wants(t, n)
           \/ s = t /\ pc[t] = "descend" /\ n \in Nodes /\ Precedes(cur[t], n)
<1> USE DEF trie, locks, Goto, ReturnNoIterator
<1>0. /\ pc \in [Threads -> PCs] /\ cur \in [Threads -> Nodes \cup {NoNode}]
      /\ new \in [Threads -> Nodes \cup {NoNode}] /\ probe \in [Threads -> Nodes \cup {NoNode}]
  BY DEF TypeInv, TypeOK
<1>1. n # NoNode /\ n \in {cur'[s], new'[s], probe'[s]}
  BY DEF Held
<1>2. CASE Lookup(t)
  <2>1. new' = new /\ probe' = probe /\ \A r \in Threads : r # t => cur'[r] = cur[r]
    BY <1>0, <1>2 DEF Lookup, LockRoot, Descend, LookupAbsent, FindAtKey, CountAtKey,
                      BoundAbove, BoundScan
  <2>2. cur'[t] \in {cur[t], NoNode} \/ Wants(t, cur'[t])
    BY <1>0, <1>2 DEF Lookup, LockRoot, Descend, LookupAbsent, FindAtKey, CountAtKey,
                      BoundAbove, BoundScan, EdgeMissing, Wants
  <2> QED BY <1>1, <2>1, <2>2 DEF Held
<1>3. CASE CreateMiddle(t) \/ CreateFirst(t) \/ CreateLast(t) \/ CreateOnly(t)
  <2>1. /\ Allocate(t) /\ pc'[t] \in Linking /\ \A r \in Threads : r # t => pc'[r] = pc[r]
        /\ cur' = cur /\ probe' = probe /\ new' = [new EXCEPT ![t] = NewPath(t)]
    BY <1>0, <1>3 DEF CreateMiddle, CreateFirst, CreateLast, CreateOnly, Allocate, Linking
  <2>2. /\ pc[t] = "descend" /\ cur[t] \in Nodes /\ KChar(t) \in Chars
        /\ NewPath(t) \in Nodes /\ NewPath(t) = Child(cur[t], KChar(t))
    BY <2>1, AllocateFacts
  <2>3. Precedes(cur[t], NewPath(t))
    <3>1. cur[t] \in Paths /\ KChar(t) \in Int /\ NewPath(t) = Append(cur[t], KChar(t))
      BY <2>2, NodesArePaths, CharsAreIntegers DEF Child
    <3> QED BY <3>1, AppendPath
  <2>4. new'[s] = IF s = t THEN NewPath(t) ELSE new[s]
    BY <1>0, <2>1
  <2> QED BY <1>1, <2>1, <2>2, <2>3, <2>4 DEF Held
<1>4. CASE LinkFirst(t) \/ WalkRight(t) \/ LinkRight(t)
  <2>1. /\ new' = new /\ cur' = cur /\ \A r \in Threads : r # t => probe'[r] = probe[r]
        /\ probe'[t] = NoNode \/ Wants(t, probe'[t])
    BY <1>0, <1>4 DEF LinkFirst, WalkRight, LinkRight, Wants
  <2> QED BY <1>1, <2>1 DEF Held
<1>5. CASE LinkChild(t)
  BY <1>0, <1>1, <1>5 DEF LinkChild, Held
<1>6. CASE Iteration(t)
  <2>1. CASE ScanNext(t)
    <3>1. /\ new' = new /\ probe' = probe /\ \A r \in Threads : r # t => cur'[r] = cur[r]
          /\ Wants(t, cur'[t])
      BY <1>0, <2>1 DEF ScanNext, Wants
    <3> QED BY <1>1, <3>1 DEF Held
  <2>2. CASE NextStep(t)
    <3>1. /\ new' = new /\ cur' = cur /\ \A r \in Threads : r # t => probe'[r] = probe[r]
          /\ Wants(t, probe'[t])
      BY <1>0, <2>2 DEF NextStep, Wants, Front
    <3> QED BY <1>1, <3>1 DEF Held
  <2>3. CASE ScanStop(t) \/ ScanEnd(t) \/ NextEnd(t) \/ NextReturn(t)
    BY <1>0, <1>1, <2>3 DEF ScanStop, ScanEnd, NextEnd, NextReturn, Held
  <2> QED BY <1>6, <2>1, <2>2, <2>3 DEF Iteration
<1>7. CASE UnlockOne(t)
  BY <1>0, <1>1, <1>7 DEF UnlockOne, Held
<1>8. CASE \/ InsertExisting(t) \/ StoreValue(t) \/ SizeInc(t) \/ Erasure(t)
           \/ Call(t) \/ UseIterator(t) \/ Unlock(t)
  BY <1>0, <1>1, <1>8
     DEF InsertExisting, StoreValue, SizeInc, Erasure, EraseAtKey, SizeDec,
         EraseIteratorDec, Call, UseIterator, Increment, NextCall, EraseIterator,
         EraseValueless, Unlock, Held
<1> QED BY <1>2, <1>3, <1>4, <1>5, <1>6, <1>7, <1>8
        DEF Step, Internal, Insertion, DropIterator

LEMMA ClearTypes == ClearInv => OwnerTypes
BY DEF ClearInv, OwnerTypes

\* What a thread in the trie waits for is in front of the Owner, and not the
\* node that the Owner waits for.
LEMMA WantedInFront ==
    ASSUME TypeInv, TreeInv, ClearInv, NEW t \in Threads, NEW n \in Nodes, Wants(t, n)
    PROVE  InFront(n) /\ (stage # "before" => n # doomed)
<1>1. CASE pc[t] = "lock_root"
  <2>1. stage = "before"
    BY <1>1 DEF ClearInv
  <2> QED BY <2>1, ClearTypes, InFrontAt
<1>2. CASE pc[t] # "lock_root"
  <2>1. pc[t] # "idle"
    BY <1>2 DEF Wants, Scanning
  <2>2. /\ cur[t] \in Nodes /\ cur[t] \in Paths /\ InTree(cur[t]) /\ cur[t] \in Held(t)
    BY <1>2, <2>1, HoldsCur DEF TreeInv
  <2>3. Precedes(cur[t], n)
    BY <2>2, WantedIsAhead DEF Linked
  <2>4. n \in Paths /\ doomed \in Paths /\ InFront(cur[t]) /\ OwnerTypes
    BY <2>2, NodesArePaths, ClearTypes DEF ClearInv
  <2>5. InFront(n)
    BY <2>2, <2>3, <2>4, InFrontGoesOn
  <2>6. stage = "lock" => Precedes(doomed, n)
    BY <2>2, <2>3, <2>4, InFrontAt, PrecedesTransitive
  <2>7. stage \notin {"before", "lock"} => ~InFront(doomed)
    BY <2>4, InFrontAt, PrecedesIrreflexive DEF OwnerTypes, Stages, IsPrefixOf
  <2> QED BY <2>4, <2>5, <2>6, <2>7, PrecedesIrreflexive
<1> QED BY <1>1, <1>2

\* When nothing is in front of the Owner, every thread is idle.
LEMMA NobodyInside ==
    ASSUME TypeInv, TreeInv, ClearInv, NEW t \in Threads, stage \in {"reset_size", "after"}
    PROVE  pc[t] = "idle"
<1>1. pc[t] # "lock_root" /\ Held(t) = {}
  BY ClearTypes, InFrontAt DEF ClearInv
<1> QED BY <1>1, HoldsCur DEF TreeInv

\* Only a call makes a thread wait for the root.
LEMMA OnlyCallsWait ==
    ASSUME TypeInv, NEW t \in Threads, UseIterator(t) \/ Internal(t) \/ DropIterator(t),
           NEW s \in Threads, pc'[s] = "lock_root"
    PROVE  pc[s] = "lock_root"
<1> USE DEF Goto, ReturnNoIterator, Scanning
<1>0. pc \in [Threads -> PCs]
  BY DEF TypeInv, TypeOK
<1>1. CASE Insertion(t)
  BY <1>0, <1>1 DEF Insertion, CreateMiddle, CreateFirst, CreateLast, CreateOnly,
                    LinkFirst, WalkRight, LinkRight, LinkChild, InsertExisting, StoreValue,
                    SizeInc
<1>2. CASE Lookup(t) \/ Erasure(t)
  BY <1>0, <1>2 DEF Lookup, LockRoot, Descend, LookupAbsent, FindAtKey, CountAtKey,
                    BoundAbove, BoundScan, Erasure, EraseAtKey, SizeDec, EraseIteratorDec
<1>3. CASE Iteration(t)
  BY <1>0, <1>3 DEF Iteration, ScanStop, ScanNext, ScanEnd, NextStep, NextEnd, NextReturn
<1>4. CASE UseIterator(t) \/ DropIterator(t)
  BY <1>0, <1>4 DEF UseIterator, DropIterator, Increment, NextCall, EraseIterator,
                    EraseValueless, Unlock, UnlockOne
<1> QED BY <1>1, <1>2, <1>3, <1>4 DEF Internal

\* No step of an idle thread but a call.
LEMMA IdleStays ==
    ASSUME NEW t \in Threads, UseIterator(t) \/ Internal(t) \/ DropIterator(t)
    PROVE  pc[t] # "idle"
BY DEF Internal, Insertion, Lookup, Erasure, Iteration, UseIterator, DropIterator,
       CreateMiddle, CreateFirst, CreateLast, CreateOnly, Allocate, EdgeMissing, Arrived,
       LinkFirst, WalkRight, LinkRight, LinkChild, InsertExisting, StoreValue, SizeInc,
       LockRoot, Descend, LookupAbsent, FindAtKey, CountAtKey, BoundAbove, BoundScan,
       EraseAtKey, SizeDec, EraseIteratorDec, ScanStop, ScanNext, ScanEnd, NextStep,
       NextEnd, NextReturn, Increment, NextCall, EraseIterator, EraseValueless,
       Unlock, UnlockOne, Scanning

\* A thread's step leaves all threads in front of the Owner.
LEMMA ThreadKeepsClear ==
    ASSUME TypeInv, TreeInv, ClearInv, TypeInv', NEW t \in Threads, ThreadStep(t)
    PROVE  ClearInv'
<1>1. /\ Step(t) /\ UNCHANGED <<stage, doomed, edge, deleted, owned>>
      /\ stage # "before" => UseIterator(t) \/ Internal(t) \/ DropIterator(t)
  BY DEF ThreadStep, ClientStep, Step, clearVars
<1>2. \A n : InFront(n)' <=> InFront(n)
  BY <1>1 DEF InFront
<1>3. OwnerTypes /\ doomed \in Paths /\ Nodes \subseteq Paths
  BY ClearTypes, NodesArePaths DEF OwnerTypes
<1>4. InTree(doomed)'
  BY <1>1, TreeGrows DEF ClearInv
<1>5. stage # "before" => \A s \in Threads : pc'[s] # "lock_root"
  BY <1>1, OnlyCallsWait DEF ClearInv
<1>6. ASSUME NEW s \in Threads, NEW n \in Held(s)' PROVE InFront(n)
  <2>1. n \in Nodes
    BY <1>6 DEF Held, TypeInv, TypeOK
  <2>2. CASE n \in Held(s)
    BY <2>2 DEF ClearInv
  <2>3. CASE Wants(t, n)
    BY <2>1, <2>3, WantedInFront
  <2>4. CASE pc[t] = "descend" /\ Precedes(cur[t], n)
    <3>1. cur[t] \in Paths /\ InFront(cur[t])
      BY <2>4, HoldsCur DEF TreeInv, ClearInv
    <3> QED BY <1>3, <2>1, <2>4, <3>1, InFrontGoesOn
  <2> QED BY <1>1, <1>6, <2>2, <2>3, <2>4, HeldNext
<1>7. DeletedBehind'
  <2>1. ASSUME NEW n \in Nodes, ~InFront(n) PROVE InTree(n)' <=> InTree(n)
    BY <1>1, <2>1, TreeGrows, NewIsHeld DEF TreeInv, ClearInv
  <2> QED BY <1>1, <1>2, <2>1 DEF DeletedBehind, ClearInv
<1>8. stage # "after"
  BY <1>1, NobodyInside, IdleStays
<1> QED BY <1>1, <1>2, <1>4, <1>5, <1>6, <1>7, <1>8 DEF ClearInv

\* Nodes that are in the tree or about to be.
Inside(n) == InTree(n) \/ \E t \in Threads : n \in Held(t)

\* What is below the node whose children are being deleted, and in front, is
\* below a child that is left.
LEMMA BelowChildLeft ==
    ASSUME TypeInv, TreeInv, ClearInv, stage = "delete_children",
           NEW n \in Nodes, Inside(n), InFront(n), IsPrefixOf(doomed, n)
    PROVE  Len(doomed) < Len(n) /\ n[Len(doomed) + 1] \in ChildrenLeft
<1>1. /\ doomed \in Nodes /\ doomed \in Paths /\ Len(doomed) \in Nat
      /\ n \in Paths /\ Len(n) \in Nat /\ OwnerTypes
  BY NodesArePaths, ClearTypes DEF OwnerTypes, Paths
<1>2. Precedes(doomed, n) /\ n[Len(doomed) + 1] > edge
  BY <1>1, InFrontAt
<1>3. Len(doomed) < Len(n)
  BY <1>1, <1>2, PrefixSameLength, PrecedesIrreflexive
<1>4. CASE InTree(n)
  BY <1>1, <1>2, <1>3, <1>4, AboveInTree DEF TreeInv, ChildrenLeft
<1>5. CASE ~InTree(n)
  <2>1. PICK t \in Threads : n \in Held(t)
    BY <1>5 DEF Inside
  <2>2. n = new[t] /\ n # NoNode
    BY <1>5, <2>1 DEF Held, TreeInv, HeldInTree
  <2>3. pc[t] \in Linking
    BY <2>2 DEF TypeInv, Shape
  <2>4. /\ cur[t] \in Nodes /\ InTree(cur[t]) /\ InFront(cur[t])
        /\ KChar(t) \in Int /\ n = Append(cur[t], KChar(t))
    BY <2>2, <2>3, LinkingFacts, CharsAreIntegers DEF TreeInv, Child, ClearInv
  <2>5. /\ cur[t] \in Paths /\ Len(cur[t]) \in Nat /\ Len(n) = Len(cur[t]) + 1
        /\ \A i \in 1..Len(cur[t]) : n[i] = cur[t][i]
    BY <2>4, NodesArePaths, AppendPath DEF Paths
  <2>6. IsPrefixOf(doomed, cur[t]) /\ Precedes(doomed, cur[t])
    BY <1>1, <1>3, <2>4, <2>5, PrefixOfChild, InFrontAt
  <2>7. Len(doomed) < Len(cur[t])
    BY <1>1, <2>5, <2>6, PrefixSameLength, PrecedesIrreflexive
  <2>8. cur[t][Len(doomed) + 1] \in children[doomed]
    BY <1>1, <2>4, <2>6, <2>7, AboveInTree DEF TreeInv
  <2>9. n[Len(doomed) + 1] = cur[t][Len(doomed) + 1]
    BY <1>1, <2>5, <2>7
  <2> QED BY <1>2, <1>3, <2>8, <2>9 DEF ChildrenLeft
<1> QED BY <1>4, <1>5

\* Steps of the Owner that leave the trie alone and delete nothing: what is in
\* front of the Owner afterwards was so before, what it passes is on its path
\* or not in the tree, and nobody is there.
LEMMA OwnerMoves ==
    ASSUME TypeInv, TreeInv, ClearInv, UNCHANGED <<vars, deleted>>,
           OwnerTypes', InTree(doomed'), stage' = "lock" => edge' = NoEdge,
           stage' # "before", stage' # "after", stage' = "reset_size" => doomed' = Root,
           stage' = "unlocked" => doomed' # Root,
           \A t \in Threads : pc[t] # "lock_root",
           \A n \in Nodes : InFront(n)' => InFront(n),
           \A n \in Nodes : Inside(n) /\ InFront(n) /\ ~InFront(n)' =>
              IsPrefixOf(n, doomed') /\ \A t \in Threads : n \notin Held(t),
           \A n \in Nodes : ~InFront(n) => (IsPrefixOf(n, doomed') <=> IsPrefixOf(n, doomed)),
           owned' \subseteq Nodes, \A n \in owned' : ~InFront(n)'
    PROVE  ClearInv'
<1>1. \A n : InTree(n)' <=> InTree(n)
  BY DEF vars, InTree
<1>2. \A t \in Threads : \A n \in Held(t)' : InFront(n)'
  <2> SUFFICES ASSUME NEW t \in Threads, NEW n \in Held(t) PROVE InFront(n)'
    BY DEF vars, Held
  <2>1. n \in Nodes /\ InFront(n) /\ Inside(n)
    BY DEF Held, TypeInv, TypeOK, ClearInv, Inside
  <2> QED BY <2>1
<1>3. DeletedBehind'
  <2>1. ASSUME NEW n \in Nodes, InTree(n)
        PROVE  ~InFront(n) /\ ~IsPrefixOf(n, doomed) <=> ~InFront(n)' /\ ~IsPrefixOf(n, doomed')
    BY <2>1 DEF Inside
  <2> QED BY <1>1, <2>1 DEF DeletedBehind, ClearInv
<1> QED BY <1>1, <1>2, <1>3 DEF ClearInv, OwnerTypes, vars

\* clear() begins at the root: everything is in front of it.
LEMMA ClearCallStep ==
    ASSUME TypeInv, TreeInv, ClearInv, ClearCall
    PROVE  ClearInv'
<1>1. /\ stage = "before" /\ doomed = Root /\ stage' = "lock" /\ edge' = NoEdge
      /\ UNCHANGED <<vars, doomed, deleted, owned>> /\ \A t \in Threads : pc[t] # "lock_root"
  BY DEF ClearCall, ClearInv
<1>2. \A n \in Nodes : InFront(n) /\ InFront(n)'
  <2>1. ASSUME NEW n \in Nodes PROVE n = Root \/ Precedes(Root, n)
    BY NodesArePaths, RootIsFirst
  <2> QED BY <1>1, <2>1 DEF InFront
<1>3. OwnerTypes' /\ InTree(doomed')
  BY <1>1 DEF ClearInv, OwnerTypes, Stages, NoEdge
<1>4. owned' = {}
  BY <1>1, <1>2 DEF ClearInv
<1> QED BY <1>1, <1>2, <1>3, <1>4, OwnerMoves

\* Node::clear() gets its lock: nobody holds the node any more.
LEMMA OwnerLocksStep ==
    ASSUME TypeInv, TreeInv, ClearInv, OwnerLocks
    PROVE  ClearInv'
<1>1. /\ stage = "lock" /\ edge = NoEdge /\ doomed \in Nodes /\ stage' = "delete_children"
      /\ writer[doomed] = NoThread /\ readers[doomed] = {}
      /\ owned' = owned \cup {doomed} /\ UNCHANGED <<vars, doomed, edge, deleted>>
      /\ \A t \in Threads : pc[t] # "lock_root"
  BY DEF OwnerLocks, ClearInv
<1>2. Nodes \subseteq Paths /\ Nodes \subseteq Seq(Chars) /\ doomed \in Paths
  BY <1>1, NodesArePaths
<1>3. \A n \in Nodes : InFront(n) <=> n = doomed \/ Precedes(doomed, n)
  BY <1>1, ClearTypes, InFrontAt
<1>4. ASSUME NEW n \in Nodes PROVE InFront(n)' <=> Precedes(doomed, n)
  <2>1. InFront(n)' <=> /\ Precedes(doomed, n)
                        /\ IsPrefixOf(doomed, n) => n[Len(doomed) + 1] > edge
    BY <1>1 DEF InFront
  <2>2. ASSUME Precedes(doomed, n), IsPrefixOf(doomed, n) PROVE n[Len(doomed) + 1] > edge
    <3>1. Len(doomed) < Len(n) /\ Len(n) \in Nat /\ Len(doomed) \in Nat
      BY <1>2, <2>2, PrefixSameLength, PrecedesIrreflexive DEF Paths
    <3>2. n[Len(doomed) + 1] \in Chars
      BY <1>2, <3>1, CharsAreIntegers, SequencesArePaths
    <3>3. \A c \in Chars : c > NoEdge
      BY ConstantsAssumption DEF NoEdge
    <3> QED BY <1>1, <3>2, <3>3
  <2> QED BY <2>1, <2>2
<1>5. \A t \in Threads : doomed \notin Held(t)
  BY <1>1, ConstantsAssumption DEF TreeInv, LockDiscipline
<1>6. IsPrefixOf(doomed, doomed)
  BY <1>2 DEF IsPrefixOf, Paths
<1>7. ~Precedes(doomed, doomed) /\ owned \subseteq Nodes /\ \A n \in owned : ~InFront(n)
  BY <1>2, PrecedesIrreflexive DEF ClearInv
<1>8. OwnerTypes' /\ InTree(doomed')
  BY <1>1 DEF ClearInv, OwnerTypes, Stages
<1> QED BY <1>1, <1>3, <1>4, <1>5, <1>6, <1>7, <1>8, OwnerMoves

\* The Owner goes on to the first child that is left: nothing in front of it is
\* before that child.
LEMMA OwnerDescendsStep ==
    ASSUME TypeInv, TreeInv, ClearInv, OwnerDescends
    PROVE  ClearInv'
<1>1. PICK c \in ChildrenLeft : /\ \A d \in ChildrenLeft : c <= d
                                /\ doomed' = Child(doomed, c)
  BY DEF OwnerDescends
<1>2. /\ stage = "delete_children" /\ stage' = "lock" /\ edge' = NoEdge
      /\ UNCHANGED <<vars, deleted, owned>> /\ \A t \in Threads : pc[t] # "lock_root"
  BY DEF OwnerDescends, ClearInv
<1>3. /\ doomed \in Nodes /\ doomed \in Paths /\ c \in children[doomed] /\ c \in Chars
      /\ c \in Int /\ c > edge /\ Nodes \subseteq Paths /\ edge \in Int
      /\ doomed' \in Nodes /\ InTree(doomed')
  <2>1. doomed \in Nodes /\ c \in children[doomed] /\ c > edge /\ edge \in Int
    BY <1>1 DEF ClearInv, ChildrenLeft
  <2>2. c \in Chars /\ Child(doomed, c) \in Nodes
    BY <2>1 DEF TypeInv, TypeOK, EdgesOK
  <2> QED BY <1>1, <2>1, <2>2, NodesArePaths, CharsAreIntegers, ChildInTree
<1>4. /\ doomed' \in Paths /\ doomed' = Append(doomed, c) /\ Len(doomed') = Len(doomed) + 1
      /\ doomed'[Len(doomed) + 1] = c /\ IsPrefixOf(doomed, doomed')
      /\ Precedes(doomed, doomed') /\ Len(doomed) \in Nat
      /\ \A i \in 1..Len(doomed) : doomed'[i] = doomed[i]
  BY <1>1, <1>3, AppendPath DEF Child, Paths
<1>5. \A n \in Nodes : InFront(n) <=> /\ Precedes(doomed, n)
                                      /\ IsPrefixOf(doomed, n) => n[Len(doomed) + 1] > edge
  BY <1>2, ClearTypes, InFrontAt
<1>6. \A n \in Nodes : InFront(n)' <=> n = doomed' \/ Precedes(doomed', n)
  BY <1>2 DEF InFront
<1>7. InFront(doomed')
  BY <1>3, <1>4, <1>5
<1>8. ASSUME NEW n \in Nodes, InFront(n)' PROVE InFront(n)
  BY <1>3, <1>4, <1>6, <1>7, <1>8, ClearTypes, InFrontGoesOn
<1>9. ASSUME NEW n \in Nodes, Inside(n), InFront(n) PROVE InFront(n)'
  <2>1. n \in Paths /\ Precedes(doomed, n)
    BY <1>3, <1>5, <1>9
  <2>2. CASE ~IsPrefixOf(doomed, n)
    BY <1>3, <1>4, <1>6, <2>1, <2>2, ChildPrecedesAside
  <2>3. CASE IsPrefixOf(doomed, n)
    <3>1. Len(doomed) < Len(n) /\ n[Len(doomed) + 1] \in ChildrenLeft
      BY <1>2, <1>9, <2>3, BelowChildLeft
    <3>2. c <= n[Len(doomed) + 1] /\ n[Len(doomed) + 1] \in Int /\ Len(n) \in Nat
      BY <1>1, <2>1, <3>1 DEF Paths
    <3>3. CASE c < n[Len(doomed) + 1]
      BY <1>3, <1>4, <1>6, <2>1, <2>3, <3>1, <3>3, ChildPrecedesBelow
    <3>4. CASE c = n[Len(doomed) + 1]
      <4>1. IsPrefixOf(doomed', n)
        BY <1>3, <1>4, <2>1, <2>3, <3>1, <3>4, ChildIsPrefix
      <4>2. Len(doomed') >= Len(n) => n = doomed'
        BY <1>4, <2>1, <4>1, PrefixSameLength
      <4>3. Len(doomed') < Len(n) => Precedes(doomed', n)
        BY <1>4, <2>1, <4>1, PrefixPrecedes
      <4> QED BY <1>4, <1>6, <3>2, <4>2, <4>3
    <3> QED BY <1>3, <3>2, <3>3, <3>4
  <2> QED BY <2>2, <2>3
<1>10. ASSUME NEW n \in Nodes, ~InFront(n)
       PROVE  IsPrefixOf(n, doomed') <=> IsPrefixOf(n, doomed)
  <2>1. n \in Paths /\ n # doomed' /\ Len(n) \in Nat
    BY <1>3, <1>7, <1>10 DEF Paths
  <2>2. IsPrefixOf(n, doomed) => IsPrefixOf(n, doomed')
    BY <1>3, <1>4, <2>1, PrefixTransitive
  <2>3. ASSUME IsPrefixOf(n, doomed') PROVE IsPrefixOf(n, doomed)
    <3>1. ~(Len(n) >= Len(doomed'))
      BY <1>4, <2>1, <2>3, PrefixSameLength
    <3>2. Len(n) <= Len(doomed)
      BY <1>4, <2>1, <3>1
    <3> QED BY <1>3, <1>4, <2>1, <2>3, <3>2, PrefixOfChild
  <2> QED BY <2>2, <2>3
<1>11. \A n \in owned' : ~InFront(n)' /\ owned' \subseteq Nodes
  BY <1>2, <1>8 DEF ClearInv
<1>12. OwnerTypes' /\ owned' \subseteq Nodes
  BY <1>2, <1>3 DEF ClearInv, OwnerTypes, Stages, NoEdge
<1> QED BY <1>2, <1>3, <1>8, <1>9, <1>10, <1>11, <1>12, OwnerMoves

\* Node::clear() has deleted the children: nothing is left below the node.
LEMMA OwnerUnlocksStep ==
    ASSUME TypeInv, TreeInv, ClearInv, OwnerUnlocks
    PROVE  ClearInv'
<1>1. /\ stage = "delete_children" /\ ChildrenLeft = {} /\ doomed \in Nodes
      /\ stage' = IF doomed = Root THEN "reset_size" ELSE "unlocked"
      /\ owned' = owned \ {doomed} /\ UNCHANGED <<vars, doomed, edge, deleted>>
      /\ \A t \in Threads : pc[t] # "lock_root"
  BY DEF OwnerUnlocks, ClearInv
<1>2. \A n \in Nodes : Inside(n) /\ InFront(n) => Precedes(doomed, n) /\ ~IsPrefixOf(doomed, n)
  BY <1>1, BelowChildLeft, ClearTypes, InFrontAt
<1>3. \A n \in Nodes : InFront(n)' <=> /\ doomed # Root
                                       /\ Precedes(doomed, n) /\ ~IsPrefixOf(doomed, n)
  BY <1>1 DEF InFront
<1>4. \A n \in Nodes : InFront(n)' => InFront(n)
  BY <1>1, <1>3, ClearTypes, InFrontAt
<1>5. \A n \in Nodes : IsPrefixOf(Root, n)
  BY NodesArePaths, RootIsFirst
<1>6. \A n \in Nodes : Inside(n) /\ InFront(n) => InFront(n)'
  BY <1>2, <1>3, <1>5
<1>7. owned' \subseteq Nodes /\ \A n \in owned' : ~InFront(n)'
  BY <1>1, <1>4 DEF ClearInv
<1>8. OwnerTypes' /\ InTree(doomed')
  BY <1>1 DEF ClearInv, OwnerTypes, Stages
<1> QED BY <1>1, <1>4, <1>6, <1>7, <1>8, OwnerMoves

\* A node is gone: the Owner is back in the loop over its siblings.
LEMMA OwnerFreesStep ==
    ASSUME TypeInv, TreeInv, ClearInv, OwnerFrees
    PROVE  ClearInv'
<1> DEFINE c == doomed[Len(doomed)]
<1>1. /\ stage = "unlocked" /\ stage' = "delete_children"
      /\ doomed' = SubSeq(doomed, 1, Len(doomed) - 1) /\ edge' = c
      /\ deleted' = deleted \cup {doomed} /\ UNCHANGED <<vars, owned>>
      /\ doomed \in Nodes /\ doomed # Root /\ InTree(doomed)
      /\ \A t \in Threads : pc[t] # "lock_root"
  BY DEF OwnerFrees, ClearInv
<1>2. doomed \in Paths /\ Len(doomed) \in Nat /\ Len(doomed) # 0 /\ Nodes \subseteq Paths
  <2>1. doomed \in Paths /\ IsPrefixOf(doomed, Root) => doomed = Root
    BY <1>1, NodesArePaths, RootIsFirst
  <2> QED BY <1>1, <2>1, NodesArePaths DEF Paths, IsPrefixOf, Root
<1>3. /\ doomed' \in Paths /\ Len(doomed') = Len(doomed) - 1 /\ c \in Int
      /\ \A i \in 1..Len(doomed') : doomed'[i] = doomed[i]
  <2>1. Len(doomed) - 1 \in 0..Len(doomed) /\ Len(doomed) \in 1..Len(doomed)
    BY <1>2
  <2>2. c \in Int
    BY <1>2, <2>1 DEF Paths
  <2> QED BY <1>1, <1>2, <2>1, <2>2, SubSeqPath
<1> HIDE DEF c
<1>4. /\ doomed = Append(doomed', c) /\ IsPrefixOf(doomed', doomed) /\ Precedes(doomed', doomed)
      /\ doomed[Len(doomed') + 1] = c /\ Len(doomed') \in Nat
  <2>1. doomed[Len(doomed') + 1] = c /\ Len(doomed') \in Nat /\ Len(doomed') < Len(doomed)
    BY <1>2, <1>3 DEF c
  <2>2. IsPrefixOf(doomed', doomed)
    BY <1>3, <2>1 DEF IsPrefixOf
  <2>3. /\ IsPrefixOf(Append(doomed', c), doomed) /\ Append(doomed', c) \in Paths
        /\ Len(Append(doomed', c)) >= Len(doomed)
    <3>1. IsPrefixOf(Append(doomed', c), doomed)
      BY <1>2, <1>3, <2>1, <2>2, ChildIsPrefix
    <3>2. Append(doomed', c) \in Paths /\ Len(Append(doomed', c)) = Len(doomed') + 1
      BY <1>3, AppendPath
    <3> QED BY <1>2, <1>3, <3>1, <3>2
  <2>4. Append(doomed', c) = doomed
    BY <1>2, <2>3, PrefixSameLength
  <2> QED BY <1>2, <1>3, <2>1, <2>2, <2>4, PrefixPrecedes
<1>5. doomed' \in Nodes /\ InTree(doomed')
  <2>1. doomed' \in Nodes /\ InTree(doomed')
    BY <1>1, <1>3, <1>4, AboveInTree DEF TreeInv
  <2> QED BY <2>1
<1>6. \A n \in Nodes : InFront(n) <=> Precedes(doomed, n) /\ ~IsPrefixOf(doomed, n)
  BY <1>1, ClearTypes, InFrontAt
<1>7. \A n : InFront(n)' <=> /\ Precedes(doomed', n)
                             /\ IsPrefixOf(doomed', n) => n[Len(doomed') + 1] > c
  BY <1>1 DEF InFront
<1>8. ASSUME NEW n \in Nodes PROVE InFront(n)' <=> InFront(n)
  <2>0. n \in Paths /\ Len(n) \in Nat
    BY <1>2 DEF Paths
  <2>1. CASE IsPrefixOf(doomed', n) /\ Len(doomed') < Len(n)
    <3>1. n[Len(doomed') + 1] \in Int /\ Precedes(doomed', n)
      BY <1>3, <1>4, <2>0, <2>1, PrefixPrecedes DEF Paths
    <3>2. IsPrefixOf(doomed, n) <=> n[Len(doomed') + 1] = c
      <4>1. IsPrefixOf(doomed, n) => n[Len(doomed') + 1] = c
        BY <1>2, <1>3, <1>4 DEF IsPrefixOf
      <4>2. n[Len(doomed') + 1] = c => IsPrefixOf(doomed, n)
        BY <1>3, <1>4, <2>0, <2>1, ChildIsPrefix
      <4> QED BY <4>1, <4>2
    <3>3. /\ n[Len(doomed') + 1] < c => Precedes(n, doomed)
          /\ c < n[Len(doomed') + 1] => Precedes(doomed, n)
      BY <1>3, <1>4, <2>0, <2>1, ChildPrecedesBelow
    <3>4. ~(Precedes(n, doomed) /\ Precedes(doomed, n))
      BY <1>2, <2>0, PrecedesAsymmetric
    <3> QED BY <1>3, <1>6, <1>7, <2>1, <3>1, <3>2, <3>3, <3>4
  <2>2. CASE IsPrefixOf(doomed', n) /\ ~(Len(doomed') < Len(n))
    <3>1. n = doomed'
      BY <1>3, <1>4, <2>0, <2>2, PrefixSameLength
    <3> QED BY <1>2, <1>3, <1>4, <1>6, <1>7, <3>1, PrecedesIrreflexive, PrecedesAsymmetric
  <2>3. CASE ~IsPrefixOf(doomed', n)
    <3>1. ~IsPrefixOf(doomed, n)
      BY <1>2, <1>3, <1>4, <2>0, <2>3, PrefixTransitive
    <3>2. Precedes(doomed', n) => Precedes(doomed, n)
      BY <1>3, <1>4, <2>0, <2>3, ChildPrecedesAside
    <3>3. Precedes(doomed, n) => Precedes(doomed', n)
      BY <1>2, <1>3, <1>4, <2>0, PrecedesTransitive
    <3> QED BY <1>6, <1>7, <2>3, <3>1, <3>2, <3>3
  <2> QED BY <2>1, <2>2, <2>3
<1>9. DeletedBehind'
  <2>1. ASSUME NEW n \in Nodes
        PROVE  IsPrefixOf(n, doomed') <=> IsPrefixOf(n, doomed) /\ n # doomed
    <3>1. n \in Paths /\ Len(n) \in Nat
      BY <1>2 DEF Paths
    <3>2. IsPrefixOf(n, doomed') => IsPrefixOf(n, doomed) /\ n # doomed
      <4>1. IsPrefixOf(n, doomed') => Len(n) <= Len(doomed')
        BY DEF IsPrefixOf
      <4>2. IsPrefixOf(n, doomed') => IsPrefixOf(n, doomed)
        BY <1>2, <1>3, <1>4, <3>1, PrefixTransitive
      <4> QED BY <1>2, <1>3, <4>1, <4>2
    <3>3. ASSUME IsPrefixOf(n, doomed), n # doomed PROVE IsPrefixOf(n, doomed')
      <4>1. ~(Len(n) >= Len(doomed))
        BY <1>2, <3>1, <3>3, PrefixSameLength
      <4>2. Len(n) <= Len(doomed')
        BY <1>2, <1>3, <3>1, <4>1
      <4> QED BY <1>3, <1>4, <3>1, <3>3, <4>2, PrefixOfChild
    <3> QED BY <3>2, <3>3
  <2>2. ~InFront(doomed) /\ IsPrefixOf(doomed, doomed)
    BY <1>1, <1>2, <1>6, PrecedesIrreflexive DEF IsPrefixOf
  <2>3. \A n : InTree(n)' <=> InTree(n)
    BY <1>1 DEF vars, InTree
  <2>4. deleted = {n \in Nodes : InTree(n) /\ ~InFront(n) /\ ~IsPrefixOf(n, doomed)}
    BY DEF ClearInv, DeletedBehind
  <2>5. deleted' = {n \in Nodes : InTree(n)' /\ ~InFront(n)' /\ ~IsPrefixOf(n, doomed')}
    BY <1>1, <1>8, <2>1, <2>2, <2>3, <2>4
  <2> QED BY <2>5 DEF DeletedBehind
<1>10. \A t \in Threads : \A n \in Held(t)' : InFront(n)'
  <2> SUFFICES ASSUME NEW t \in Threads, NEW n \in Held(t) PROVE InFront(n)'
    BY <1>1 DEF vars, Held
  <2>1. n \in Nodes /\ InFront(n)
    BY DEF Held, TypeInv, TypeOK, ClearInv
  <2> QED BY <1>8, <2>1
<1>11. owned' \subseteq Nodes /\ \A n \in owned' : ~InFront(n)'
  BY <1>1, <1>8 DEF ClearInv
<1>12. InTree(doomed)' /\ edge' \in Int /\ pc' = pc
  BY <1>1, <1>3, <1>5 DEF vars, InTree
<1> QED BY <1>1, <1>5, <1>9, <1>10, <1>11, <1>12 DEF ClearInv, Stages

\* clear() returns: nobody is inside and the counter is reset.
LEMMA ClearReturnStep ==
    ASSUME TypeInv, TreeInv, ClearInv, ClearReturn
    PROVE  ClearInv'
<1>1. /\ stage = "reset_size" /\ stage' = "after" /\ size' = 0
      /\ UNCHANGED <<children, threadVars, doomed, edge, deleted, owned>>
  BY DEF ClearReturn, SizeReset
<1>2. \A n : (InTree(n)' <=> InTree(n)) /\ ~InFront(n) /\ ~InFront(n)'
  BY <1>1 DEF InFront, InTree
<1>3. DeletedBehind'
  BY <1>1, <1>2 DEF ClearInv, DeletedBehind
<1>4. \A t \in Threads : Held(t)' = Held(t) /\ pc'[t] = pc[t]
  BY <1>1 DEF Held, threadVars
<1> QED BY <1>1, <1>2, <1>3, <1>4 DEF ClearInv, Stages

\* Before clear() is called nothing is deleted and the Owner holds no lock.
LEMMA ClearStarts == ClearInit => Inv /\ ClearInv
<1> SUFFICES ASSUME ClearInit PROVE Inv /\ ClearInv
  OBVIOUS
<1>1. /\ Init /\ stage = "before" /\ doomed = Root /\ edge = NoEdge
      /\ deleted = {} /\ owned = {}
  BY DEF ClearInit
<1>2. Inv
  BY <1>1, TypeInit, TreeInit DEF Inv
<1>3. Root \in Nodes /\ InTree(doomed) /\ edge \in Int
  BY <1>1, NodesArePaths DEF InTree, NoEdge
<1>4. \A n : InFront(n)
  BY <1>1 DEF InFront
<1>5. DeletedBehind
  BY <1>1, <1>4 DEF DeletedBehind
<1> QED BY <1>1, <1>2, <1>3, <1>4, <1>5 DEF ClearInv, Stages

\* A reset counter is a number, and no part of the tree.
LEMMA ResetKeepsTree ==
    ASSUME Inv, ClearReturn
    PROVE  Inv'
<1>1. UNCHANGED <<children, next, value, locks, threadVars>> /\ size' = 0
  BY DEF ClearReturn, SizeReset
<1>2. TreeInv'
  BY <1>1, SameTree DEF Inv, threadVars
<1>3. 0 \in 0..(SizeModulus - 1)
  BY ConstantsAssumption
<1>4. TypeInv'
  BY <1>1, <1>3 DEF Inv, TypeInv, TypeOK, Shape, EdgesOK, threadVars, locks,
                    AtKey, KChar, NewPath, Inserting
<1> QED BY <1>2, <1>4 DEF Inv

\* Threads and the Owner together keep the invariant.
LEMMA ClearKeeps ==
    ASSUME ~EraseAnyIterator
    PROVE  Inv /\ ClearInv /\ [ClearNext]_<<vars, clearVars>> => Inv' /\ ClearInv'
<1> SUFFICES ASSUME Inv, ClearInv, [ClearNext]_<<vars, clearVars>> PROVE Inv' /\ ClearInv'
  OBVIOUS
<1>0. TypeInv /\ TreeInv
  BY DEF Inv
<1>1. ASSUME NEW t \in Threads, ThreadStep(t) PROVE Inv' /\ ClearInv'
  <2>1. Next
    BY <1>1 DEF ThreadStep, ClientStep, Next, Step
  <2>2. Inv'
    BY <2>1, TreeStep
  <2> QED BY <1>0, <1>1, <2>2, ThreadKeepsClear DEF Inv
<1>2. UNCHANGED vars => Inv'
  BY TreeStep
<1>3. CASE ClearCall \/ OwnerLocks \/ OwnerDescends \/ OwnerUnlocks \/ OwnerFrees
  <2>1. UNCHANGED vars
    BY <1>3 DEF ClearCall, OwnerLocks, OwnerDescends, OwnerUnlocks, OwnerFrees
  <2> QED BY <1>0, <1>2, <1>3, <2>1, ClearCallStep, OwnerLocksStep, OwnerDescendsStep,
             OwnerUnlocksStep, OwnerFreesStep
<1>4. CASE ClearReturn
  BY <1>0, <1>4, ResetKeepsTree, ClearReturnStep
<1>5. CASE UNCHANGED <<vars, clearVars>>
  <2>1. Inv' /\ UNCHANGED <<stage, doomed, edge, deleted, owned>>
        /\ UNCHANGED <<children, size, pc, cur, new, probe>>
    BY <1>2, <1>5 DEF vars, clearVars
  <2>2. \A n : (InFront(n)' <=> InFront(n)) /\ (InTree(n)' <=> InTree(n))
    BY <2>1 DEF InFront, InTree
  <2>3. DeletedBehind'
    BY <2>1, <2>2 DEF ClearInv, DeletedBehind
  <2>4. \A t \in Threads : Held(t)' = Held(t)
    BY <2>1 DEF Held
  <2> QED BY <2>1, <2>2, <2>3, <2>4 DEF ClearInv
<1> QED BY <1>1, <1>3, <1>4, <1>5 DEF ClearNext, ClearStep

\* clear() stays behind every thread, in every behaviour in which erase(it) is
\* called only at values: nobody holds or waits for a node that is deleted or
\* about to be, or queues for a lock that the Owner holds or waits for.
THEOREM ClearIsBehind ==
    ASSUME ~EraseAnyIterator
    PROVE  ClearSpec => []ClearStaysBehind
<1>1. Inv /\ ClearInv => ClearStaysBehind
  <2> SUFFICES ASSUME TypeInv, TreeInv, ClearInv, NEW t \in Threads, NEW n \in Nodes,
                      n \in Held(t) \/ Wants(t, n)
               PROVE  /\ n \notin deleted /\ n \notin owned
                      /\ ~(stage = "unlocked" /\ n = doomed)
                      /\ Wants(t, n) => stage = "before" \/ n # doomed
    BY DEF Inv, ClearStaysBehind
  <2>1. InFront(n) /\ (Wants(t, n) => stage = "before" \/ n # doomed)
    BY WantedInFront DEF ClearInv
  <2>2. stage = "unlocked" => n # doomed
    BY <2>1, ClearTypes, InFrontAt, NodesArePaths, PrecedesIrreflexive
  <2> QED BY <2>1, <2>2 DEF ClearInv, DeletedBehind
<1> QED BY <1>1, ClearStarts, ClearKeeps, PTL DEF ClearSpec

\* When clear() returns, in such a behaviour, it has deleted every node but the
\* root, also those that insertions linked beside it, and the counter is 0 and
\* stays 0.
THEOREM ClearIsComplete ==
    ASSUME ~EraseAnyIterator
    PROVE  ClearSpec => []NothingIsLeft
<1>1. Inv /\ ClearInv => NothingIsLeft
  <2> SUFFICES ASSUME TypeInv, TreeInv, ClearInv, stage = "after" PROVE NothingIsLeft
    BY DEF Inv, NothingIsLeft
  <2>1. \A n \in Nodes : ~InFront(n) /\ (IsPrefixOf(n, doomed) <=> n = Root)
    BY ClearTypes, InFrontAt, NodesArePaths, RootIsFirst DEF ClearInv
  <2>2. \A n \in Nodes : n \in deleted <=> InTree(n) /\ n # Root
    BY <2>1 DEF ClearInv, DeletedBehind
  <2>3. size = 0 /\ \A t \in Threads : pc[t] = "idle"
    BY NobodyInside DEF ClearInv
  <2> QED BY <2>2, <2>3 DEF NothingIsLeft
<1> QED BY <1>1, ClearStarts, ClearKeeps, PTL DEF ClearSpec
=============================================================================

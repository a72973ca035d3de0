----------------------- MODULE ConcurrentCallProofs -----------------------
(***************************************************************************)
(* What a call of ConcurrentLLTrie has done at each place of its code, and *)
(* what an iterator is at: the invariant CallInv, and that the iterator of *)
(* a bound is not below the bound.                                         *)
(***************************************************************************)
EXTENDS ConcurrentTreeProofs, FiniteSetTheorems

-----------------------------------------------------------------------------
(* What a step may change *)

\* A step of one thread changes no other thread's locals.
LEMMA OthersStay ==
    ASSUME TypeInv, NEW t \in Threads, Step(t), NEW s \in Threads, s # t
    PROVE  UNCHANGED <<pc[s], op[s], cur[s], probe[s], ret[s]>>
<1> USE DEF Goto, ReturnNoIterator
<1>0. /\ pc \in [Threads -> PCs] /\ op \in [Threads -> OpSet \cup {NoOp}]
      /\ cur \in [Threads -> Nodes \cup {NoNode}]
      /\ probe \in [Threads -> Nodes \cup {NoNode}]
      /\ ret \in [Threads -> {"none", "yes", "no", "end"}]
  BY DEF TypeInv, TypeOK
<1>1. CASE Insertion(t)
  BY <1>0, <1>1 DEF Insertion, CreateMiddle, CreateFirst, CreateLast, CreateOnly, Allocate,
                    LinkFirst, WalkRight, LinkRight, LinkChild, InsertExisting, StoreValue,
                    SizeInc
<1>2. CASE Lookup(t)
  BY <1>0, <1>2 DEF Lookup, LockRoot, Descend, LookupAbsent, FindAtKey, CountAtKey,
                    BoundAbove, BoundScan
<1>3. CASE Erasure(t)
  BY <1>0, <1>3 DEF Erasure, EraseAtKey, SizeDec, EraseIteratorDec
<1>4. CASE Iteration(t)
  BY <1>0, <1>4 DEF Iteration, ScanStop, ScanNext, ScanEnd, NextStep, NextEnd, NextReturn
<1>5. CASE Call(t) \/ UseIterator(t) \/ DropIterator(t)
  BY <1>0, <1>5 DEF Call, UseIterator, DropIterator, Increment, NextCall, EraseIterator,
                    EraseValueless, Unlock, UnlockOne
<1> QED BY <1>1, <1>2, <1>3, <1>4, <1>5 DEF Step, Internal

\* The steps that change a value: to the call's value at the node of its key,
\* or to no value.
LEMMA ValueChanges ==
    ASSUME NEW t \in Threads, Step(t)
    PROVE  \/ value' = value
           \/ StoreValue(t)
           \/ value' = [value EXCEPT ![cur[t]] = NoValue]
BY DEF trie, Step, Internal, Insertion, Lookup, Erasure, Iteration, UseIterator, DropIterator,
       CreateMiddle, CreateFirst, CreateLast, CreateOnly, Allocate,
       LinkFirst, WalkRight, LinkRight, LinkChild, InsertExisting, SizeInc,
       LockRoot, Descend, LookupAbsent,
       FindAtKey, CountAtKey, BoundAbove, BoundScan, EraseAtKey, SizeDec,
       EraseIteratorDec, ScanStop, ScanNext, ScanEnd, NextStep, NextEnd, NextReturn,
       Increment, NextCall, EraseIterator, EraseValueless, Call, Unlock, UnlockOne

\* The path of a key is a node.
LEMMA KeysAreNodes == Keys \subseteq Nodes
<1> SUFFICES ASSUME NEW k \in Keys PROVE k \in Nodes
  OBVIOUS
<1>1. k \in Seq(Chars)
  BY ConstantsAssumption
<1>2. Len(k) \in 0..Len(k) /\ SubSeq(k, 1, Len(k)) = k
  BY <1>1
<1>3. k \in PathsTo(k)
  BY <1>2 DEF PathsTo
<1> QED BY <1>3, NodesArePaths

\* A descent that has used up its key is at the node of the key.
LEMMA ArrivedAtKey ==
    ASSUME TypeInv, NEW t \in Threads, Arrived(t)
    PROVE  /\ op[t] \in OpSet /\ op[t].key \in Keys
           /\ cur[t] = op[t].key
<1>1. op[t] \in OpSet /\ op[t].key \in Keys /\ op[t].key \in Seq(Chars)
  BY ConstantsAssumption DEF TypeInv, Shape, Arrived, OpSet
<1>2. cur[t] \in PathsTo(op[t].key) /\ Len(cur[t]) >= Len(op[t].key)
  BY DEF TypeInv, Shape, Arrived, AtKey
<1>3. /\ cur[t] \in Seq(Chars) /\ Len(cur[t]) <= Len(op[t].key)
      /\ \A i \in 1..Len(cur[t]) : cur[t][i] = op[t].key[i]
  BY <1>1, <1>2, PathIsSequence
<1>4. Len(cur[t]) = Len(op[t].key)
  BY <1>1, <1>2, <1>3
<1> QED BY <1>1, <1>3, <1>4

\* A descent that finds no edge to go on by proves that its key has no value.
LEMMA MissingKey ==
    ASSUME TypeInv, TreeInv, ValuesAtKeys, NEW t \in Threads, EdgeMissing(t)
    PROVE  /\ op[t] \in OpSet /\ op[t].key \in Keys
           /\ ~HasValue(op[t].key)
<1>1. op[t] \in OpSet /\ op[t].key \in Keys /\ op[t].key \in Seq(Chars)
  BY ConstantsAssumption DEF TypeInv, Shape, EdgeMissing, OpSet
<1>2. cur[t] \in PathsTo(op[t].key) /\ ~(Len(cur[t]) >= Len(op[t].key))
  BY DEF TypeInv, Shape, EdgeMissing, AtKey
<1>3. /\ cur[t] \in Seq(Chars) /\ Len(cur[t]) <= Len(op[t].key)
      /\ \A i \in 1..Len(cur[t]) : cur[t][i] = op[t].key[i]
  BY <1>1, <1>2, PathIsSequence
<1>4. cur[t] \in Paths /\ cur[t] \in Nodes /\ Len(cur[t]) < Len(op[t].key)
  BY <1>1, <1>2, <1>3, NodesArePaths, ConstantsAssumption, PathIsSequence
<1>5. op[t].key \in Nodes
  BY <1>1, KeysAreNodes
<1>6. ASSUME HasValue(op[t].key) PROVE FALSE
  <2>1. InTree(op[t].key)
    BY <1>5, <1>6 DEF ValuesAtKeys
  <2>2. op[t].key[Len(cur[t]) + 1] \in children[cur[t]]
    BY <1>3, <1>4, <1>5, <2>1, AboveInTree DEF IsPrefixOf, TreeInv
  <2> QED BY <2>2 DEF EdgeMissing, KChar
<1> QED BY <1>1, <1>6

-----------------------------------------------------------------------------
(* The invariant *)

\* Values stay at keys of the tree.
LEMMA ValuesStep ==
    ASSUME TypeInv, TreeInv, ValuesAtKeys, NEW t \in Threads, Step(t)
    PROVE  ValuesAtKeys'
<1>0. value \in [Nodes -> Values \cup {NoValue}]
  BY DEF TypeInv, TypeOK
<1>1. SUFFICES ASSUME NEW n \in Nodes, HasValue(n)' PROVE n \in Keys /\ InTree(n)
  BY TreeGrows DEF ValuesAtKeys
<1>2. CASE HasValue(n)
  BY <1>1, <1>2 DEF ValuesAtKeys
<1>3. CASE ~HasValue(n)
  <2>1. StoreValue(t)
    BY <1>0, <1>1, <1>3, ValueChanges DEF HasValue
  <2>2. n = cur[t] /\ Arrived(t)
    BY <1>0, <1>1, <1>3, <2>1 DEF StoreValue, HasValue
  <2>3. InTree(cur[t])
    BY <2>2, NodesArePaths DEF TreeInv, HeldInTree
  <2> QED BY <2>2, <2>3, ArrivedAtKey
<1> QED BY <1>2, <1>3

\* A call's result is known after the step that determines it, not before.
LEMMA ProgressStep ==
    ASSUME TypeInv, Progress, NEW t \in Threads, Step(t)
    PROVE  Progress'
<1> USE DEF Goto, Linking, Undecided, Decided, Scanning, Inserting
<1> DEFINE P(s) ==
        /\ pc[s] \in Undecided => ret[s] = "none"
        /\ pc[s] \in Decided => ret[s] # "none"
        /\ pc[s] \in {"step", "step_value"} /\ ret[s] = "none" =>
              op[s].name = "upper_bound"
        /\ pc[s] = "size_inc" => Inserting(s)
        /\ pc[s] = "scan_geq" => op[s].name \in BoundOps
        /\ pc[s] = "scan_value" => op[s].name \in BoundOps \cup {"begin", "shared_begin"}
<1>0. /\ pc \in [Threads -> PCs] /\ op \in [Threads -> OpSet \cup {NoOp}]
      /\ ret \in [Threads -> {"none", "yes", "no", "end"}]
  BY DEF TypeInv, TypeOK
<1>p. P(t)
  BY DEF Progress
<1>r. ASSUME NEW r, ReturnNoIterator(t, r) PROVE P(t)'
  BY <1>0, <1>r DEF ReturnNoIterator
<1>s. SUFFICES P(t)'
  <2>1. ASSUME NEW s \in Threads, s # t PROVE P(s)'
    <3>1. UNCHANGED <<pc[s], op[s], ret[s]>>
      BY <2>1, OthersStay
    <3> QED BY <3>1 DEF Progress
  <2>2. ASSUME P(t)', NEW s \in Threads PROVE P(s)'
    <3> HIDE DEF P
    <3> QED BY <2>1, <2>2
  <2> QED BY <2>2 DEF Progress
<1>1. CASE Insertion(t)
  <2>1. CASE CreateMiddle(t) \/ CreateFirst(t) \/ CreateLast(t) \/ CreateOnly(t)
    BY <1>0, <1>p, <2>1 DEF CreateMiddle, CreateFirst, CreateLast, CreateOnly, Allocate, EdgeMissing
  <2>2. CASE LinkFirst(t) \/ WalkRight(t) \/ LinkRight(t) \/ LinkChild(t)
    BY <1>0, <1>p, <2>2 DEF LinkFirst, WalkRight, LinkRight, LinkChild
  <2>3. CASE InsertExisting(t) \/ StoreValue(t) \/ SizeInc(t)
    BY <1>0, <1>p, <2>3 DEF InsertExisting, StoreValue, SizeInc
  <2> QED BY <1>1, <2>1, <2>2, <2>3 DEF Insertion
<1>2. CASE Lookup(t)
  <2>1. CASE LookupAbsent(t) \/ CountAtKey(t)
    BY <1>r, <2>1 DEF LookupAbsent, CountAtKey
  <2>2. CASE FindAtKey(t)
    BY <1>0, <1>r, <2>2 DEF FindAtKey
  <2>3. CASE LockRoot(t) \/ Descend(t)
    BY <1>0, <1>p, <2>3 DEF LockRoot, Descend
  <2>4. CASE BoundAbove(t) \/ BoundScan(t)
    BY <1>0, <1>p, <2>4 DEF BoundAbove, BoundScan, EdgeMissing
  <2> QED BY <1>2, <2>1, <2>2, <2>3, <2>4 DEF Lookup
<1>3. CASE Erasure(t)
  <2> QED BY <1>0, <1>p, <1>r, <1>3 DEF Erasure, EraseAtKey, SizeDec, EraseIteratorDec
<1>4. CASE Iteration(t)
  <2>1. CASE ScanStop(t)
    BY <1>0, <1>p, <2>1 DEF ScanStop, ScanDone
  <2>2. CASE ScanNext(t)
    BY <1>0, <1>p, <2>2 DEF ScanNext
  <2>3. CASE ScanEnd(t)
    BY <1>r, <2>3 DEF ScanEnd
  <2>4. CASE NextStep(t) \/ NextEnd(t) \/ NextReturn(t)
    BY <1>0, <1>p, <2>4 DEF NextStep, NextEnd, NextReturn
  <2> QED BY <1>4, <2>1, <2>2, <2>3, <2>4 DEF Iteration
<1>5. CASE Call(t) \/ UseIterator(t) \/ DropIterator(t)
  <2>1. CASE Call(t)
    BY <1>0, <2>1 DEF Call
  <2>2. CASE EraseValueless(t) \/ Unlock(t)
    BY <1>r, <2>2 DEF EraseValueless, Unlock
  <2>3. CASE Increment(t) \/ NextCall(t) \/ EraseIterator(t) \/ UnlockOne(t)
    BY <1>0, <1>p, <2>3 DEF Increment, NextCall, EraseIterator, UnlockOne
  <2> QED BY <1>5, <2>1, <2>2, <2>3 DEF UseIterator, DropIterator
<1> QED BY <1>1, <1>2, <1>3, <1>4, <1>5 DEF Step, Internal

\* Where bounds are defined the order of std::string is the order of the tree.
LEMMA OneOrderOfNodes ==
    ASSUME OneOrder, Ops \cap BoundOps # {}, NEW p \in Nodes, NEW q \in Nodes
    PROVE  KeyLess(p, q) <=> Precedes(p, q)
<1>1. Chars \in SUBSET Int /\ p \in Seq(Chars) /\ q \in Seq(Chars)
  BY NodesArePaths, CharsAreIntegers
<1>2. \A c, d \in Chars : c < d => c % 256 < d % 256
  BY DEF OneOrder
<1> QED BY <1>1, <1>2, OrdersCoincide

\* The list leads to a node after this one.
LEMMA NextFollows ==
    ASSUME TypeInv, TreeInv, NEW n \in Nodes, next[n] # NoNode
    PROVE  /\ next[n] \in Nodes /\ next[n] \in Paths /\ n \in Paths
           /\ Linked(next[n]) /\ Precedes(n, next[n])
BY NodesArePaths DEF TypeInv, TypeOK, TreeInv, NextForward

\* The first larger edge leads past the key.
LEMMA BoundAbovePassesKey ==
    ASSUME TypeInv, TreeInv, NEW t \in Threads, EdgeMissing(t),
           NEW u \in Chars, IsLowerBound(children[cur[t]], KChar(t), u)
    PROVE  /\ Child(cur[t], u) \in Nodes /\ op[t].key \in Nodes
           /\ cur[t] \in Nodes /\ cur[t] \in Paths
           /\ IsPrefixOf(cur[t], op[t].key) /\ Len(cur[t]) < Len(op[t].key)
           /\ op[t].key[Len(cur[t]) + 1] < u
           /\ Precedes(op[t].key, Child(cur[t], u))
<1>1. op[t] \in OpSet /\ op[t].key \in Keys /\ op[t].key \in Seq(Chars)
  BY ConstantsAssumption DEF TypeInv, Shape, EdgeMissing, OpSet
<1>2. cur[t] \in PathsTo(op[t].key) /\ ~(Len(cur[t]) >= Len(op[t].key))
  BY DEF TypeInv, Shape, EdgeMissing, AtKey
<1>3. /\ cur[t] \in Seq(Chars) /\ Len(cur[t]) <= Len(op[t].key)
      /\ \A i \in 1..Len(cur[t]) : cur[t][i] = op[t].key[i]
  BY <1>1, <1>2, PathIsSequence
<1>4. /\ cur[t] \in Nodes /\ cur[t] \in Paths /\ Len(cur[t]) < Len(op[t].key)
      /\ op[t].key \in Nodes /\ op[t].key \in Paths
  BY <1>1, <1>2, <1>3, NodesArePaths, KeysAreNodes
<1>5. u \in children[cur[t]] /\ u \in Int /\ KChar(t) < u
  <2>1. KChar(t) \in Int
    BY NewPathIsNode, CharsAreIntegers DEF EdgeMissing
  <2> QED BY <2>1, CharsAreIntegers DEF IsLowerBound, EdgeMissing
<1>6. Child(cur[t], u) \in Nodes
  BY <1>4, <1>5 DEF TypeInv, EdgesOK
<1>7. IsPrefixOf(cur[t], op[t].key) /\ op[t].key[Len(cur[t]) + 1] < u
  BY <1>3, <1>5 DEF IsPrefixOf, KChar
<1>8. Precedes(op[t].key, Child(cur[t], u))
  BY <1>4, <1>5, <1>7, ChildPrecedesBelow DEF Child
<1> QED BY <1>4, <1>6, <1>7, <1>8

\* The thread of a bound stays past the bound's key.
LEMMA BoundStep ==
    ASSUME ~EraseAnyIterator, OneOrder, TypeInv, TreeInv, Progress, AtBound,
           NEW t \in Threads, Step(t)
    PROVE  AtBound'
<1> USE DEF Goto, Linking, Decided, Scanning
<1> DEFINE A(s) ==
        pc[s] # "idle" /\ op[s].name \in BoundOps =>
           /\ pc[s] \in {"scan_value", "step_value"} => Precedes(op[s].key, cur[s])
           /\ pc[s] \in Decided \cup {"step"} => ~Precedes(cur[s], op[s].key)
<1>0. /\ pc \in [Threads -> PCs] /\ op \in [Threads -> OpSet \cup {NoOp}]
      /\ cur \in [Threads -> Nodes \cup {NoNode}]
  BY DEF TypeInv, TypeOK
<1>a. A(t)
  BY DEF AtBound
<1>b. ASSUME pc[t] \notin {"idle", "lock_root"}
      PROVE  /\ cur[t] \in Nodes /\ cur[t] \in Paths
             /\ op[t] \in OpSet /\ op[t].key \in Nodes /\ op[t].key \in Paths
             /\ op[t].name \in Ops
  BY <1>b, HoldsCur, KeysAreNodes, NodesArePaths DEF TreeInv, TypeInv, Shape, OpSet
<1>c. ASSUME pc[t] \notin {"idle", "lock_root"}, op[t].name \in BoundOps
      PROVE  KeyLess(cur[t], op[t].key) <=> Precedes(cur[t], op[t].key)
  BY <1>b, <1>c, OneOrderOfNodes
<1>s. SUFFICES A(t)'
  <2>1. ASSUME NEW s \in Threads, s # t PROVE A(s)'
    <3>1. UNCHANGED <<pc[s], op[s], cur[s]>>
      BY <2>1, OthersStay
    <3> QED BY <3>1 DEF AtBound
  <2>2. ASSUME A(t)', NEW s \in Threads PROVE A(s)'
    <3> HIDE DEF A
    <3> QED BY <2>1, <2>2
  <2> QED BY <2>2 DEF AtBound
<1>1. CASE BoundAbove(t)
  <2>1. PICK u \in Chars : /\ IsLowerBound(children[cur[t]], KChar(t), u)
                           /\ cur' = [cur EXCEPT ![t] = Child(cur[t], u)]
    BY <1>1 DEF BoundAbove
  <2>2. Precedes(op[t].key, Child(cur[t], u))
    BY <1>1, <2>1, BoundAbovePassesKey DEF BoundAbove
  <2>3. op' = op /\ pc'[t] = "scan_value" /\ cur'[t] = Child(cur[t], u)
    BY <1>0, <1>1, <2>1 DEF BoundAbove
  <2> QED BY <2>2, <2>3
<1>2. CASE ScanStop(t)
  <2>1. /\ op' = op /\ cur' = cur /\ pc'[t] \in {"step", "iter"}
        /\ pc[t] \in {"scan_geq", "scan_value", "step_value"}
        /\ pc[t] = "scan_geq" => ~KeyLess(cur[t], op[t].key)
    BY <1>0, <1>2 DEF ScanStop, ScanDone
  <2>2. op[t].name \in BoundOps => ~Precedes(cur[t], op[t].key)
    BY <1>a, <1>b, <1>c, <2>1, PrecedesAsymmetric
  <2> QED BY <2>1, <2>2
<1>3. CASE ScanNext(t)
  <2>1. /\ op' = op /\ cur'[t] = next[cur[t]] /\ next[cur[t]] # NoNode /\ pc[t] \in Scanning
        /\ pc'[t] = CASE pc[t] = "step" -> "step_value"
                      [] pc[t] = "erase_next" -> "iter"
                      [] OTHER -> pc[t]
    BY <1>0, <1>3 DEF ScanNext
  <2> DEFINE n == next[cur[t]]
             k == op[t].key
  <2>2. /\ cur[t] \in Paths /\ k \in Paths /\ n \in Paths /\ Precedes(cur[t], n)
    BY <1>b, <2>1, NextFollows
  <2> HIDE DEF n
  <2>3. Precedes(k, cur[t]) \/ ~Precedes(cur[t], k) => Precedes(k, n) /\ ~Precedes(n, k)
    BY <2>2, PrecedesTotal, PrecedesTransitive, PrecedesAsymmetric
  <2> QED BY <1>a, <2>1, <2>3 DEF n
<1>4. CASE UnlockOne(t)
  <2>1. /\ pc[t] = "iter2" /\ op' = op /\ cur'[t] \in {cur[t], probe[t]}
    BY <1>0, <1>4 DEF UnlockOne
  <2>2. Precedes(cur[t], probe[t]) /\ probe[t] \in Paths
    BY <2>1, HoldsTwo, NodesArePaths DEF TreeInv
  <2>3. cur[t] \in Paths /\ op[t].key \in Paths
    BY <1>b, <2>1
  <2>4. ~Precedes(cur[t], op[t].key) => ~Precedes(probe[t], op[t].key)
    BY <2>2, <2>3, PrecedesTransitive
  <2>5. pc'[t] = "iter"
    BY <1>0, <1>4 DEF UnlockOne
  <2> QED BY <1>a, <2>1, <2>4, <2>5
<1>5. CASE Insertion(t)
  <2>1. pc[t] = "size_inc" \/ (Inserting(t) /\ op' = op)
    BY <1>5 DEF Insertion, CreateMiddle, CreateFirst, CreateLast, CreateOnly, Allocate,
                LinkFirst, WalkRight, LinkRight, LinkChild, InsertExisting, StoreValue,
                SizeInc, TypeInv, Shape, AlreadyThere, Inserting
  <2>2. CASE pc[t] = "size_inc"
    BY <1>0, <1>5, <1>a, <2>2
       DEF Insertion, CreateMiddle, CreateFirst, CreateLast, CreateOnly, Allocate,
           LinkFirst, WalkRight, LinkRight, LinkChild, InsertExisting, StoreValue,
           SizeInc, EdgeMissing, Arrived
  <2>3. CASE Inserting(t) /\ op' = op
    BY <2>3 DEF Inserting, BoundOps
  <2> QED BY <2>1, <2>2, <2>3
<1>r. ASSUME NEW r, ReturnNoIterator(t, r) PROVE A(t)'
  BY <1>0, <1>r DEF ReturnNoIterator
<1>6. CASE Lookup(t) /\ ~BoundAbove(t)
  <2>1. CASE LookupAbsent(t) \/ CountAtKey(t)
    BY <1>r, <2>1 DEF LookupAbsent, CountAtKey
  <2>2. CASE FindAtKey(t)
    BY <1>0, <1>r, <2>2 DEF FindAtKey, BoundOps
  <2>3. CASE LockRoot(t) \/ Descend(t) \/ BoundScan(t)
    BY <1>0, <2>3 DEF LockRoot, Descend, BoundScan, BoundOps
  <2> QED BY <1>6, <2>1, <2>2, <2>3 DEF Lookup
<1>7. CASE Erasure(t)
  BY <1>0, <1>a, <1>r, <1>7 DEF Erasure, EraseAtKey, SizeDec, EraseIteratorDec, BoundOps
<1>8. CASE ScanEnd(t) \/ NextStep(t) \/ NextEnd(t) \/ NextReturn(t)
  BY <1>0, <1>a, <1>r, <1>8 DEF ScanEnd, NextStep, NextEnd, NextReturn
<1>9. CASE Call(t) \/ UseIterator(t) \/ Unlock(t)
  BY <1>0, <1>a, <1>r, <1>9 DEF Call, UseIterator, Increment, NextCall, EraseIterator,
                                EraseValueless, Unlock
<1> QED BY <1>1, <1>2, <1>3, <1>4, <1>5, <1>6, <1>7, <1>8, <1>9
        DEF Step, Internal, Iteration, DropIterator

LEMMA CallInit == Init => ValuesAtKeys /\ Progress /\ AtBound
BY DEF Init, ValuesAtKeys, Progress, AtBound, HasValue, Undecided, Decided, Linking

\* Where bounds are defined, the invariant of calls is inductive under Inv.
LEMMA CallStep ==
    ASSUME ~EraseAnyIterator, OneOrder
    PROVE  Inv /\ CallInv /\ [Next]_vars => CallInv'
<1> SUFFICES ASSUME TypeInv, TreeInv, CallInv, [Next]_vars PROVE CallInv'
  BY DEF Inv
<1>1. CASE UNCHANGED vars
  <2> USE <1>1 DEF CallInv, vars
  <2>1. ValuesAtKeys'
    BY DEF ValuesAtKeys, HasValue, InTree
  <2>2. Progress' /\ AtBound'
    BY DEF Progress, AtBound, Inserting
  <2> QED BY <2>1, <2>2
<1>2. ASSUME NEW t \in Threads, Step(t) PROVE CallInv'
  BY <1>2, ValuesStep, ProgressStep, BoundStep DEF CallInv
<1> QED BY <1>1, <1>2 DEF Next

\* In every behaviour in which erase(it) is called only at values, and for keys
\* on which the order of edges and that of std::string agree, the iterator that
\* a bound returns, and wherever it is moved, is at a key not below the bound.
THEOREM BoundsAreNotBelow ==
    ASSUME ~EraseAnyIterator, OneOrder
    PROVE  Spec => []BoundNotBelowKey
<1>1. Init => Inv /\ CallInv
  BY TypeInit, TreeInit, CallInit DEF Inv, CallInv
<1>2. Inv /\ CallInv => BoundNotBelowKey
  <2> SUFFICES ASSUME TypeInv, TreeInv, CallInv, NEW t \in Threads,
                      pc[t] \in {"iter", "iter2"}, op[t].name \in BoundOps
               PROVE  ~KeyLess(cur[t], op[t].key)
    BY DEF Inv, BoundNotBelowKey
  <2>1. ~Precedes(cur[t], op[t].key)
    BY DEF CallInv, AtBound, Decided
  <2>2. cur[t] \in Nodes /\ op[t].key \in Nodes /\ op[t].name \in Ops
    BY HoldsCur, KeysAreNodes DEF TreeInv, TypeInv, Shape, OpSet
  <2> QED BY <2>1, <2>2, OneOrderOfNodes
<1> QED BY <1>1, <1>2, TreeStep, CallStep, PTL DEF Spec

-----------------------------------------------------------------------------
(* The counter: remainders *)

\* A remainder is determined by the equation that defines it.
LEMMA Remainder ==
    ASSUME NEW M \in Nat \ {0}, NEW a \in Int
    PROVE  /\ \E q \in Int : a = M * q + (a % M)
           /\ a % M \in 0..(M - 1)
           /\ \A q \in Int, r \in 0..(M - 1) : a = M * q + r => a % M = r
<1>1. a \div M \in Int /\ a % M \in 0..(M - 1) /\ a = M * (a \div M) + (a % M)
  OBVIOUS
<1> DEFINE s == a % M
           p == a \div M
<1>2. p \in Int /\ s \in 0..(M - 1) /\ a = M * p + s
  BY <1>1
<1> HIDE DEF s, p
<1>3. ASSUME NEW q \in Int, NEW r \in 0..(M - 1), a = M * q + r PROVE s = r
  <2>1. ASSUME NEW i \in Int, NEW j \in Int, i > j PROVE M * i >= M * j + M
    <3>1. M * (i - j - 1) >= 0
      BY <2>1
    <3>2. M * (i - j - 1) = M * i - M * j - M
      OBVIOUS
    <3> QED BY <3>1, <3>2
  <2>2. M * q \in Int /\ M * p \in Int
    BY <1>2
  <2>3. CASE p > q
    <3>1. M * p >= M * q + M
      BY <1>2, <2>1, <2>3
    <3> QED BY <1>2, <1>3, <2>2, <3>1
  <2>4. CASE q > p
    <3>1. M * q >= M * p + M
      BY <1>2, <2>1, <2>4
    <3> QED BY <1>2, <1>3, <2>2, <3>1
  <2>5. CASE p = q
    BY <1>2, <1>3, <2>2, <2>5
  <2> QED BY <1>2, <2>3, <2>4, <2>5
<1> QED BY <1>1, <1>3 DEF s

\* Numbers with the same remainder have so after an addition to both.
LEMMA SameRemainder ==
    ASSUME NEW M \in Nat \ {0}, NEW a \in Int, NEW b \in Int, NEW d \in Int,
           a % M = b % M
    PROVE  (a + d) % M = (b + d) % M
<1>1. PICK p \in Int : a = M * p + (a % M)
  BY Remainder
<1>2. PICK q \in Int : b = M * q + (b % M)
  BY Remainder
<1> DEFINE e == a + d
           f == b + d
           r == e % M
           x == q - p
<1>3. e \in Int /\ f \in Int /\ x \in Int
  OBVIOUS
<1> HIDE DEF e, f, r, x
<1>4. PICK s \in Int : e = M * s + (e % M)
  BY <1>3, Remainder
<1>5. r \in 0..(M - 1)
  BY <1>3, Remainder DEF r
<1>6. f = M * (x + s) + r
  <2>1. M * (x + s) = M * q - M * p + M * s
    BY DEF x
  <2>2. M * q \in Int /\ M * p \in Int /\ M * s \in Int /\ a % M \in Int
    OBVIOUS
  <2> QED BY <1>1, <1>2, <1>4, <1>5, <2>1, <2>2 DEF e, f, r
<1>7. x + s \in Int
  BY <1>3
<1>8. f % M = r
  BY <1>3, <1>5, <1>6, <1>7, Remainder
<1> QED BY <1>8 DEF r, e, f

\* Taking the remainder first makes no difference.
LEMMA RemainderFirst ==
    ASSUME NEW M \in Nat \ {0}, NEW a \in Int
    PROVE  (a % M) % M = a % M
<1> DEFINE r == a % M
<1>1. r \in 0..(M - 1) /\ r \in Int
  BY Remainder
<1>2. r = M * 0 + r
  BY <1>1
<1> HIDE DEF r
<1>3. r % M = r
  BY <1>1, <1>2, Remainder
<1> QED BY <1>3 DEF r

-----------------------------------------------------------------------------
(* The counter *)

\* The keys that are stored are finitely many, if the client's keys are.
LEMMA PresentFinite ==
    ASSUME IsFiniteSet(Keys)
    PROVE  IsFiniteSet(Present) /\ Cardinality(Present) \in Nat
<1>1. Present \in SUBSET Keys
  BY DEF Present
<1> QED BY <1>1, FS_Subset, FS_CardinalityType

\* A step that stores a value where there was none adds one key, a step that
\* takes one away removes one.
LEMMA PresentChanges ==
    ASSUME TypeInv, IsFiniteSet(Keys), NEW k \in Keys
    PROVE  /\ \A v \in Values : ~HasValue(k) /\ value' = [value EXCEPT ![k] = v] =>
                 Cardinality(Present') = Cardinality(Present) + 1
           /\ HasValue(k) /\ value' = [value EXCEPT ![k] = NoValue] =>
                 Cardinality(Present') = Cardinality(Present) - 1
<1>0. /\ value \in [Nodes -> Values \cup {NoValue}] /\ NoValue \notin Values
      /\ k \in Nodes /\ Keys \subseteq Nodes
  BY KeysAreNodes, ConstantsAssumption DEF TypeInv, TypeOK
<1>1. ASSUME NEW v \in Values, value' = [value EXCEPT ![k] = v], ~HasValue(k)
      PROVE  Cardinality(Present') = Cardinality(Present) + 1
  <2>1. Present' = Present \cup {k} /\ k \notin Present
    BY <1>0, <1>1 DEF Present, HasValue
  <2> QED BY <2>1, PresentFinite, FS_AddElement
<1>2. ASSUME value' = [value EXCEPT ![k] = NoValue], HasValue(k)
      PROVE  Cardinality(Present') = Cardinality(Present) - 1
  <2>1. Present' = Present \ {k} /\ k \in Present
    BY <1>0, <1>2 DEF Present, HasValue
  <2> QED BY <2>1, PresentFinite, FS_RemoveElement
<1> QED BY <1>1, <1>2

\* The steps that neither change a value nor store size_.
CountsNothing(t) ==
    /\ UNCHANGED <<value, size>>
    /\ pc[t] \notin {"size_inc", "size_dec", "erase_it_dec"}
    /\ pc'[t] \notin {"size_inc", "size_dec", "erase_it_dec"}

\* All steps but six are such.
LEMMA MostAreQuiet ==
    ASSUME TypeInv, NEW t \in Threads, Step(t)
    PROVE  \/ CountsNothing(t)
           \/ StoreValue(t) \/ SizeInc(t)
           \/ EraseAtKey(t) /\ HasValue(cur[t])
           \/ SizeDec(t) \/ EraseIterator(t) \/ EraseIteratorDec(t)
<1> USE DEF trie, Goto, ReturnNoIterator, CountsNothing
<1>0. pc \in [Threads -> PCs]
  BY DEF TypeInv, TypeOK
<1>1. CASE Insertion(t)
  BY <1>0, <1>1 DEF Insertion, CreateMiddle, CreateFirst, CreateLast, CreateOnly, Allocate,
                    LinkFirst, WalkRight, LinkRight, LinkChild, InsertExisting, EdgeMissing,
                    Arrived
<1>2. CASE Lookup(t)
  BY <1>0, <1>2 DEF Lookup, LockRoot, Descend, LookupAbsent, FindAtKey, CountAtKey,
                    BoundAbove, BoundScan, EdgeMissing, Arrived
<1>3. CASE EraseAtKey(t)
  BY <1>0, <1>3 DEF EraseAtKey, Arrived
<1>4. CASE Iteration(t)
  BY <1>0, <1>4 DEF Iteration, ScanStop, ScanNext, ScanEnd, NextStep, NextEnd, NextReturn,
                    Scanning
<1>5. CASE Call(t) \/ UseIterator(t) \/ DropIterator(t)
  BY <1>0, <1>5 DEF Call, UseIterator, DropIterator, Increment, NextCall,
                    EraseValueless, Unlock, UnlockOne
<1> QED BY <1>1, <1>2, <1>3, <1>4, <1>5 DEF Step, Internal, Erasure

\* A thread in a call stays in it until it returns.
LEMMA CallKept ==
    ASSUME TypeInv, NEW t \in Threads, Step(t), ~Call(t)
    PROVE  pc'[t] = "idle" \/ (pc[t] # "idle" /\ op' = op)
<1> USE DEF Goto, ReturnNoIterator, Scanning
<1>0. pc \in [Threads -> PCs]
  BY DEF TypeInv, TypeOK
<1>1. CASE Insertion(t)
  BY <1>0, <1>1 DEF Insertion, CreateMiddle, CreateFirst, CreateLast, CreateOnly, Allocate,
                    LinkFirst, WalkRight, LinkRight, LinkChild, InsertExisting, StoreValue,
                    SizeInc, EdgeMissing, Arrived
<1>2. CASE Lookup(t)
  BY <1>0, <1>2 DEF Lookup, LockRoot, Descend, LookupAbsent, FindAtKey, CountAtKey,
                    BoundAbove, BoundScan, EdgeMissing, Arrived
<1>3. CASE Erasure(t)
  BY <1>0, <1>3 DEF Erasure, EraseAtKey, SizeDec, EraseIteratorDec, Arrived
<1>4. CASE Iteration(t)
  BY <1>0, <1>4 DEF Iteration, ScanStop, ScanNext, ScanEnd, NextStep, NextEnd, NextReturn
<1>5. CASE UseIterator(t) \/ DropIterator(t)
  BY <1>0, <1>5 DEF UseIterator, DropIterator, Increment, NextCall, EraseIterator,
                    EraseValueless, Unlock, UnlockOne
<1> QED BY <1>1, <1>2, <1>3, <1>4, <1>5 DEF Step, Internal

\* With one thread, size_ and what the thread is about to count make up the
\* number of keys.
LEMMA CountStep ==
    ASSUME IsFiniteSet(Keys), "insert_or_assign" \notin Ops,
           NEW t, Threads = {t}, TypeInv, CountInv, Step(t)
    PROVE  CountInv'
<1> DEFINE c == Cardinality(Present)
           M == SizeModulus
<1>0. /\ value \in [Nodes -> Values \cup {NoValue}]
      /\ pc \in [Threads -> PCs] /\ op \in [Threads -> OpSet \cup {NoOp}]
      /\ loaded \in [Threads -> 0..(M - 1)]
      /\ M \in Nat \ {0} /\ t \in Threads /\ NoValue \notin Values
      /\ size \in 0..(M - 1)
  BY ConstantsAssumption DEF TypeInv, TypeOK
<1>1. c \in Nat
  BY PresentFinite
<1>2. /\ Uncounted(t) # 0 => loaded[t] = size
      /\ (size + Uncounted(t)) % M = c % M
      /\ pc[t] # "idle" /\ Inserting(t) => op[t].val \in Values
      /\ \A n \in Nodes : HasValue(n) => n \in Keys
  BY <1>0 DEF CountInv
<1>3. \A n \in Nodes : HasValue(n)' => n \in Keys
  <2>1. CASE StoreValue(t)
    <3>1. cur[t] \in Keys
      BY <1>0, <2>1, ArrivedAtKey DEF StoreValue
    <3> QED BY <1>0, <1>2, <2>1, <3>1 DEF StoreValue, HasValue
  <2>2. CASE value' = value
    BY <1>2, <2>2 DEF HasValue
  <2>3. CASE value' = [value EXCEPT ![cur[t]] = NoValue]
    BY <1>0, <1>2, <2>3 DEF HasValue
  <2> QED BY <1>0, <2>1, <2>2, <2>3, ValueChanges
<1>4. pc'[t] # "idle" /\ Inserting(t)' => op'[t].val \in Values
  <2>1. CASE Call(t)
    BY <1>0, <2>1 DEF Call, OpSet, Inserting, Goto
  <2>2. CASE ~Call(t)
    BY <1>0, <1>2, <2>2, CallKept DEF Inserting
  <2> QED BY <2>1, <2>2
<1>5. SUFFICES /\ Uncounted(t)' # 0 => loaded'[t] = size'
               /\ (size' + Uncounted(t)') % M = Cardinality(Present') % M
  BY <1>0, <1>3, <1>4 DEF CountInv
<1>m. \A a, b \in Int, d \in Int : a % M = b % M => (a + d) % M = (b + d) % M
  BY <1>0, SameRemainder
<1>r. \A a \in Int : (a % M) % M = a % M
  BY <1>0, RemainderFirst
<1>i. size \in Int /\ c \in Int /\ 1 \in Int /\ -1 \in Int
  BY <1>0, <1>1
<1> HIDE DEF c, M
<1>6. CASE CountsNothing(t)
  <2>1. Present' = Present /\ size' = size /\ Uncounted(t) = 0 /\ Uncounted(t)' = 0
    BY <1>6 DEF CountsNothing, Present, HasValue, Uncounted
  <2> QED BY <1>2, <2>1 DEF c
<1>7. CASE StoreValue(t)
  <2>1. /\ cur[t] \in Keys /\ pc[t] = "descend" /\ ~HasValue(cur[t])
        /\ op[t].val \in Values /\ value' = [value EXCEPT ![cur[t]] = op[t].val]
        /\ size' = size /\ loaded'[t] = size /\ pc'[t] = "size_inc"
    BY <1>0, <1>2, <1>7, ArrivedAtKey
       DEF StoreValue, Arrived, Inserting, AlreadyThere, OpSet, Goto
  <2>2. Cardinality(Present') = c + 1
    BY <2>1, PresentChanges DEF c
  <2>3. Uncounted(t) = 0 /\ Uncounted(t)' = 1
    BY <2>1 DEF Uncounted
  <2>4. size % M = c % M
    BY <1>0, <1>2, <2>3
  <2>5. (size + 1) % M = (c + 1) % M
    BY <1>i, <1>m, <2>4, Zenon
  <2> QED BY <2>1, <2>2, <2>3, <2>5
<1>8. CASE (EraseAtKey(t) /\ HasValue(cur[t])) \/ EraseIterator(t)
  <2>1. /\ cur[t] \in Nodes /\ HasValue(cur[t])
        /\ pc[t] \in {"descend", "iter"} /\ pc'[t] \in {"size_dec", "erase_it_dec"}
        /\ value' = [value EXCEPT ![cur[t]] = NoValue]
        /\ size' = size /\ loaded'[t] = size
    <3>1. cur[t] \in Nodes
      BY <1>8, <1>0 DEF TypeInv, TypeOK, Shape, EraseAtKey, EraseIterator, Arrived
    <3> QED BY <1>0, <1>8, <3>1 DEF EraseAtKey, EraseIterator, Arrived, Goto
  <2>2. Cardinality(Present') = c - 1
    BY <1>2, <2>1, PresentChanges DEF c
  <2>3. Uncounted(t) = 0 /\ Uncounted(t)' = -1
    BY <2>1 DEF Uncounted
  <2>4. size % M = c % M
    BY <1>0, <1>2, <2>3
  <2>5. (size + (-1)) % M = (c + (-1)) % M
    BY <1>i, <1>m, <2>4, Zenon
  <2>6. c - 1 = c + (-1)
    BY <1>1
  <2> QED BY <2>1, <2>2, <2>3, <2>5, <2>6
<1>9. CASE SizeInc(t) \/ SizeDec(t) \/ EraseIteratorDec(t)
  <2> DEFINE u == Uncounted(t)
  <2>1. /\ pc[t] \in {"size_inc", "size_dec", "erase_it_dec"}
        /\ pc'[t] \in {"iter", "idle", "erase_next"}
        /\ value' = value
        /\ size' = IF pc[t] = "size_inc" THEN (loaded[t] + 1) % M ELSE (loaded[t] - 1) % M
    BY <1>0, <1>9 DEF SizeInc, SizeDec, EraseIteratorDec, Decremented, Goto,
                      ReturnNoIterator, M
  <2>2. u = (IF pc[t] = "size_inc" THEN 1 ELSE -1) /\ Uncounted(t)' = 0
    BY <2>1 DEF Uncounted
  <2>3. u \in Int /\ u # 0
    BY <2>2
  <2> HIDE DEF u
  <2>4. size' = (size + u) % M
    <3>1. loaded[t] = size /\ size - 1 = size + (-1)
      BY <1>0, <1>2, <2>3 DEF u
    <3> QED BY <2>1, <2>2, <3>1
  <2>5. size' % M = (size + u) % M
    <3>1. size + u \in Int
      BY <1>i, <2>3
    <3> QED BY <1>r, <2>4, <3>1, Zenon
  <2>6. Present' = Present
    BY <2>1 DEF Present, HasValue
  <2>7. size' + 0 = size'
    BY <1>0, <2>3, <2>4
  <2> QED BY <1>2, <2>2, <2>5, <2>6, <2>7 DEF u, c
<1> QED BY <1>6, <1>7, <1>8, <1>9, MostAreQuiet, <1>0

\* One thread's calls, insert_or_assign excepted, keep size() the number of keys
\* stored: its loads and stores of size_ are not interrupted, and every change
\* of a value is counted once.
THEOREM SizeIsCount ==
    ASSUME IsFiniteSet(Keys), "insert_or_assign" \notin Ops, NEW t, Threads = {t}
    PROVE  Spec => []SizeCounts
<1>1. Init => TypeInv /\ CountInv
  <2> SUFFICES ASSUME Init PROVE CountInv
    BY TypeInit
  <2>1. Present = {} /\ size = 0 /\ Uncounted(t) = 0 /\ pc[t] = "idle"
    BY KeysAreNodes DEF Init, Present, HasValue, Uncounted
  <2>2. Cardinality(Present) = 0
    BY <2>1, FS_EmptySet
  <2>3. \A n \in Nodes : HasValue(n) => n \in Keys
    BY DEF Init, HasValue
  <2> QED BY <2>1, <2>2, <2>3 DEF CountInv
<1>2. TypeInv /\ CountInv /\ [Next]_vars => CountInv'
  <2> SUFFICES ASSUME TypeInv, CountInv, [Next]_vars PROVE CountInv'
    OBVIOUS
  <2>1. CASE UNCHANGED vars
    BY <2>1 DEF vars, CountInv, Uncounted, Present, HasValue, Inserting
  <2>2. CASE Step(t)
    BY <2>2, CountStep
  <2> QED BY <2>1, <2>2 DEF Next
<1>3. TypeInv /\ CountInv => SizeCounts
  <2> SUFFICES ASSUME TypeInv, CountInv, pc[t] = "idle"
               PROVE  size = Cardinality(Present) % SizeModulus
    BY DEF SizeCounts
  <2>1. Uncounted(t) = 0
    BY DEF Uncounted
  <2>2. size \in 0..(SizeModulus - 1) /\ SizeModulus \in Nat \ {0}
    BY ConstantsAssumption DEF TypeInv, TypeOK
  <2>3. size % SizeModulus = size /\ size + 0 = size
    BY <2>2
  <2> QED BY <2>1, <2>3 DEF CountInv
<1> QED BY <1>1, <1>2, <1>3, TypeStep, PTL DEF Spec
=============================================================================

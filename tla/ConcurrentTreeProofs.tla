------------------------ MODULE ConcurrentTreeProofs ------------------------
(***************************************************************************)
(* ConcurrentLLTrie's type invariant, its locks and the order of its list, *)
(* for every set of threads, keys and characters; locks and list as long   *)
(* as erase(it) is called only on iterators at a value.                    *)
(***************************************************************************)
EXTENDS ConcurrentInvariant, KeyOrderProofs

-----------------------------------------------------------------------------
(* Types *)

\* Nodes are paths; the root and the prefixes of keys are nodes.
LEMMA NodesArePaths ==
    /\ Root \in Nodes
    /\ Nodes \subseteq Seq(Chars)
    /\ Nodes \subseteq Paths
    /\ \A k \in Keys : PathsTo(k) \subseteq Nodes
    /\ NoNode \notin Nodes
<1>1. \A k \in Keys : PathsTo(k) \subseteq Seq(Chars)
  BY ConstantsAssumption, PathIsSequence
<1>2. Root \in Seq(Chars)
  BY DEF Root
<1>3. ASSUME NEW s \in Seq(Chars) PROVE s \in Paths
  <2>1. Chars \subseteq Int
    BY ConstantsAssumption
  <2>2. /\ Len(s) \in Nat /\ DOMAIN s = 1..Len(s) /\ s = [i \in 1..Len(s) |-> s[i]]
        /\ \A i \in 1..Len(s) : s[i] \in Int
    BY <2>1
  <2>3. s \in [1..Len(s) -> Int]
    BY <2>2
  <2> QED BY <2>2, <2>3 DEF Paths
<1>4. Root \in Nodes /\ \A k \in Keys : PathsTo(k) \subseteq Nodes
  BY DEF Nodes
<1>5. Nodes \subseteq Seq(Chars)
  BY <1>1, <1>2 DEF Nodes
<1>6. Nodes \subseteq Paths
  BY <1>3, <1>5
<1>7. NoNode \notin Nodes
  BY ConstantsAssumption
<1> QED BY <1>4, <1>5, <1>6, <1>7

\* size_ wraps at its width.
LEMMA SizeWraps == \A i \in Int : i % SizeModulus \in 0..(SizeModulus - 1)
BY ConstantsAssumption

\* Locking and unlocking keep the types of the lock tables.
LEMMA LockTypes ==
    ASSUME TypeOK, NEW t \in Threads, NEW n \in Nodes, NEW behind,
           LockAndRelease(t, n, behind)
    PROVE  /\ writer' \in [Nodes -> Threads \cup {NoThread}]
           /\ readers' \in [Nodes -> SUBSET Threads]
BY DEF LockAndRelease, TypeOK

LEMMA ReleaseTypes ==
    ASSUME TypeOK, NEW t \in Threads, NEW n \in Nodes, Release(t, n)
    PROVE  /\ writer' \in [Nodes -> Threads \cup {NoThread}]
           /\ readers' \in [Nodes -> SUBSET Threads]
BY DEF Release, TypeOK

\* Short of its key, a thread that descends is above a node for the next edge.
LEMMA NewPathIsNode ==
    ASSUME TypeInv, NEW t \in Threads, pc[t] \in Linking \cup {"descend"}, ~AtKey(t)
    PROVE  /\ op[t] \in OpSet /\ op[t].key \in Keys
           /\ cur[t] \in Nodes
           /\ KChar(t) \in Chars
           /\ NewPath(t) \in PathsTo(op[t].key)
           /\ NewPath(t) \in Nodes
<1>1. op[t] \in OpSet /\ op[t].key \in Keys /\ op[t].key \in Seq(Chars)
  BY ConstantsAssumption DEF TypeInv, Shape, Linking, OpSet
<1>2. cur[t] \in PathsTo(op[t].key)
  BY DEF TypeInv, Shape
<1>3. Len(cur[t]) < Len(op[t].key) /\ cur[t] \in Seq(Chars)
  BY <1>1, <1>2, PathIsSequence DEF AtKey
<1>4. KChar(t) \in Chars
  BY <1>1, <1>3 DEF KChar
<1>5. NewPath(t) \in PathsTo(op[t].key)
  BY <1>1, <1>2, <1>3, PathExtends DEF NewPath, Child, KChar
<1> QED BY <1>1, <1>2, <1>4, <1>5, NodesArePaths

\* Descending, looking up and starting a scan preserve the types.
LEMMA TypeLookup ==
    ASSUME TypeInv, NEW t \in Threads, Lookup(t)
    PROVE  TypeInv'
<1> USE DEF trie, locks, Goto, PCs, Scanning, Linking, ReturnNoIterator
<1>0. TypeOK /\ Shape /\ EdgesOK /\ Root \in Nodes /\ NoNode \notin Nodes
  BY NodesArePaths DEF TypeInv
<1>1. CASE LockRoot(t)
  <2>1. TypeOK'
    BY <1>0, <1>1, LockTypes DEF TypeOK, LockRoot
  <2>2. op[t] \in OpSet /\ Root \in PathsTo(op[t].key)
    <3>1. op[t] \in OpSet /\ op[t].key \in Seq(Chars)
      BY <1>0, <1>1, ConstantsAssumption DEF Shape, LockRoot, OpSet
    <3> QED BY <3>1, RootIsOnPath
  <2>3. Root # NoNode
    BY <1>0
  <2>4. Shape'
    BY <1>0, <1>1, <2>2, <2>3 DEF TypeOK, Shape, LockRoot, AtKey, Inserting, NewPath, KChar
  <2>5. EdgesOK'
    BY <1>0, <1>1 DEF EdgesOK, LockRoot
  <2> QED BY <2>1, <2>4, <2>5 DEF TypeInv
<1>2. CASE Descend(t)
  <2>0. Child(cur[t], KChar(t)) \in Nodes
    BY <1>0, <1>2, NewPathIsNode DEF Descend, NewPath
  <2>1. TypeOK'
    BY <1>0, <1>2, <2>0, LockTypes DEF TypeOK, Descend
  <2>2. Shape'
    BY <1>0, <1>2, <2>0, NewPathIsNode DEF TypeInv, TypeOK, Shape, Descend, AtKey, Inserting, NewPath, KChar
  <2>3. EdgesOK'
    BY <1>0, <1>2 DEF EdgesOK, Descend
  <2> QED BY <2>1, <2>2, <2>3 DEF TypeInv
<1>3. CASE LookupAbsent(t)
  <2>1. TypeOK'
    BY <1>0, <1>3, ReleaseTypes DEF TypeOK, LookupAbsent, Shape, EdgeMissing
  <2>2. Shape'
    BY <1>0, <1>3 DEF TypeInv, TypeOK, Shape, LookupAbsent, AtKey, Inserting, NewPath, KChar,
                      EdgeMissing
  <2>3. EdgesOK'
    BY <1>0, <1>3 DEF EdgesOK, LookupAbsent, EdgeMissing
  <2> QED BY <2>1, <2>2, <2>3 DEF TypeInv
<1>4. CASE FindAtKey(t)
  <2>0. cur[t] \in Nodes
    BY <1>0, <1>4 DEF TypeOK, FindAtKey, Shape, Arrived
  <2>1. TypeOK'
    <3>1. CASE HasValue(cur[t])
      BY <1>0, <1>4, <3>1 DEF TypeOK, FindAtKey, Arrived
    <3>2. CASE ~HasValue(cur[t])
      BY <1>0, <1>4, <2>0, <3>2, ReleaseTypes DEF TypeOK, FindAtKey, Arrived
    <3> QED BY <3>1, <3>2
  <2>2. Shape'
    BY <1>0, <1>4 DEF TypeInv, TypeOK, Shape, FindAtKey, AtKey, Inserting, NewPath, KChar,
                      Arrived
  <2>3. EdgesOK'
    BY <1>0, <1>4 DEF EdgesOK, FindAtKey, Arrived
  <2> QED BY <2>1, <2>2, <2>3 DEF TypeInv
<1>5. CASE CountAtKey(t)
  <2>1. TypeOK'
    BY <1>0, <1>5, ReleaseTypes DEF TypeOK, CountAtKey, Shape, Arrived
  <2>2. Shape'
    BY <1>0, <1>5 DEF TypeInv, TypeOK, Shape, CountAtKey, AtKey, Inserting, NewPath, KChar,
                      Arrived
  <2>3. EdgesOK'
    BY <1>0, <1>5 DEF EdgesOK, CountAtKey, Arrived
  <2> QED BY <2>1, <2>2, <2>3 DEF TypeInv
<1>6. CASE BoundAbove(t)
  <2>1. TypeOK'
    BY <1>0, <1>6, LockTypes DEF TypeOK, BoundAbove, Shape, EdgesOK, IsLowerBound,
                                 EdgeMissing
  <2>2. Shape'
    BY <1>0, <1>6 DEF TypeOK, Shape, EdgesOK, BoundAbove, IsLowerBound, BoundOps,
                      AtKey, Inserting, NewPath, KChar, EdgeMissing
  <2>3. EdgesOK'
    BY <1>0, <1>6 DEF EdgesOK, BoundAbove, EdgeMissing
  <2> QED BY <2>1, <2>2, <2>3 DEF TypeInv
<1>7. CASE BoundScan(t)
  <2>1. TypeOK'
    BY <1>0, <1>7 DEF TypeOK, BoundScan
  <2>2. Shape'
    BY <1>0, <1>7 DEF TypeInv, TypeOK, Shape, BoundScan, AtKey, Inserting, NewPath, KChar
  <2>3. EdgesOK'
    BY <1>0, <1>7 DEF EdgesOK, BoundScan
  <2> QED BY <2>1, <2>2, <2>3 DEF TypeInv
<1> QED BY <1>1, <1>2, <1>3, <1>4, <1>5, <1>6, <1>7 DEF Lookup

\* Erasure preserves the types.
LEMMA TypeErasure ==
    ASSUME TypeInv, NEW t \in Threads, Erasure(t)
    PROVE  TypeInv'
<1> USE DEF trie, locks, Goto, PCs, Scanning, Linking, ReturnNoIterator
<1>0. TypeOK /\ Shape /\ EdgesOK /\ Root \in Nodes /\ NoNode \notin Nodes
  BY NodesArePaths DEF TypeInv
<1>1. CASE EraseAtKey(t)
  <2>0. cur[t] \in Nodes
    BY <1>0, <1>1 DEF TypeOK, EraseAtKey, Shape, Arrived
  <2>1. TypeOK'
    <3>1. CASE HasValue(cur[t])
      BY <1>0, <1>1, <3>1 DEF TypeOK, EraseAtKey, Arrived
    <3>2. CASE ~HasValue(cur[t])
      BY <1>0, <1>1, <2>0, <3>2, ReleaseTypes DEF TypeOK, EraseAtKey, Arrived
    <3> QED BY <3>1, <3>2
  <2>2. Shape'
    BY <1>0, <1>1 DEF TypeInv, TypeOK, Shape, EraseAtKey, AtKey, Inserting, NewPath, KChar,
                      Arrived
  <2>3. EdgesOK'
    BY <1>0, <1>1 DEF EdgesOK, EraseAtKey, Arrived
  <2> QED BY <2>1, <2>2, <2>3 DEF TypeInv
<1>2. CASE SizeDec(t)
  <2>0. (loaded[t] - 1) % SizeModulus \in 0..(SizeModulus - 1)
    <3>1. loaded[t] \in Int
      BY <1>0, ConstantsAssumption DEF TypeOK
    <3> QED BY <3>1, SizeWraps
  <2>1. TypeOK'
    <3>1. cur[t] \in Nodes
      BY <1>0, <1>2 DEF TypeOK, SizeDec, Shape, Decremented
    <3>2. /\ writer' \in [Nodes -> Threads \cup {NoThread}]
          /\ readers' \in [Nodes -> SUBSET Threads]
      BY <1>0, <1>2, <3>1, ReleaseTypes DEF SizeDec, Decremented
    <3>3. 0 \in 0..(SizeModulus - 1)
      BY ConstantsAssumption
    <3> HIDE DEF PCs, Scanning, Linking
    <3>4. "idle" \in PCs
      BY DEF PCs
    <3> QED BY <1>0, <1>2, <2>0, <3>2, <3>3, <3>4 DEF TypeOK, SizeDec,
                                                      Decremented
  <2>2. Shape'
    BY <1>0, <1>2 DEF TypeInv, TypeOK, Shape, SizeDec, AtKey, Inserting, NewPath, KChar,
                      Decremented
  <2>3. EdgesOK'
    BY <1>0, <1>2 DEF EdgesOK, SizeDec, Decremented
  <2> QED BY <2>1, <2>2, <2>3 DEF TypeInv
<1>3. CASE EraseIteratorDec(t)
  <2>0. (loaded[t] - 1) % SizeModulus \in 0..(SizeModulus - 1)
    <3>1. loaded[t] \in Int
      BY <1>0, ConstantsAssumption DEF TypeOK
    <3> QED BY <3>1, SizeWraps
  <2>1. TypeOK'
    BY <1>0, <1>3, <2>0, ConstantsAssumption DEF TypeOK, EraseIteratorDec,
                                                 Decremented
  <2>2. Shape'
    BY <1>0, <1>3 DEF TypeInv, TypeOK, Shape, EraseIteratorDec, AtKey, Inserting, NewPath, KChar,
                      Decremented
  <2>3. EdgesOK'
    BY <1>0, <1>3 DEF EdgesOK, EraseIteratorDec, Decremented
  <2> QED BY <2>1, <2>2, <2>3 DEF TypeInv
<1> QED BY <1>1, <1>2, <1>3 DEF Erasure

\* Insertion preserves the types, and new edges lead to nodes.
LEMMA TypeInsertion ==
    ASSUME TypeInv, NEW t \in Threads, Insertion(t)
    PROVE  TypeInv'
<1> USE DEF trie, locks, Goto, PCs, Scanning, Linking, ReturnNoIterator
<1>0. TypeOK /\ Shape /\ EdgesOK /\ Root \in Nodes /\ NoNode \notin Nodes
  BY NodesArePaths DEF TypeInv
<1>1. CASE CreateMiddle(t)
  <2>1. TypeOK'
    BY <1>0, <1>1, NewPathIsNode DEF TypeOK, CreateMiddle, EdgesOK, Allocate, IsLowerBound,
                                     EdgeMissing
  <2>2. Shape'
    BY <1>0, <1>1, NewPathIsNode DEF TypeInv, TypeOK, Shape, CreateMiddle, Allocate, AtKey, Inserting, NewPath, KChar,
                                     EdgeMissing
  <2>3. EdgesOK'
    BY <1>0, <1>1 DEF EdgesOK, CreateMiddle, Allocate, EdgeMissing
  <2> QED BY <2>1, <2>2, <2>3 DEF TypeInv
<1>2. CASE CreateFirst(t)
  <2>1. TypeOK'
    BY <1>0, <1>2, NewPathIsNode DEF TypeOK, CreateFirst, EdgesOK, Allocate, IsLowerBound,
                                     EdgeMissing
  <2>2. Shape'
    BY <1>0, <1>2, NewPathIsNode DEF TypeInv, TypeOK, Shape, CreateFirst, Allocate, AtKey, Inserting, NewPath, KChar,
                                     EdgeMissing
  <2>3. EdgesOK'
    BY <1>0, <1>2 DEF EdgesOK, CreateFirst, Allocate, EdgeMissing
  <2> QED BY <2>1, <2>2, <2>3 DEF TypeInv
<1>3. CASE CreateLast(t)
  <2>1. TypeOK'
    BY <1>0, <1>3, NewPathIsNode DEF TypeOK, CreateLast, EdgesOK, Allocate,
                                     EdgeMissing
  <2>2. Shape'
    BY <1>0, <1>3, NewPathIsNode DEF TypeInv, TypeOK, Shape, CreateLast, Allocate, AtKey, Inserting, NewPath, KChar,
                                     EdgeMissing
  <2>3. EdgesOK'
    BY <1>0, <1>3 DEF EdgesOK, CreateLast, Allocate, EdgeMissing
  <2> QED BY <2>1, <2>2, <2>3 DEF TypeInv
<1>4. CASE CreateOnly(t)
  <2>1. TypeOK'
    BY <1>0, <1>4, NewPathIsNode DEF TypeOK, CreateOnly, EdgesOK, Allocate,
                                     EdgeMissing
  <2>2. Shape'
    BY <1>0, <1>4, NewPathIsNode DEF TypeInv, TypeOK, Shape, CreateOnly, Allocate, AtKey, Inserting, NewPath, KChar,
                                     EdgeMissing
  <2>3. EdgesOK'
    BY <1>0, <1>4 DEF EdgesOK, CreateOnly, Allocate, EdgeMissing
  <2> QED BY <2>1, <2>2, <2>3 DEF TypeInv
<1>5. CASE LinkFirst(t)
  <2>1. TypeOK'
    BY <1>0, <1>5, LockTypes DEF TypeOK, LinkFirst, Shape, EdgesOK, IsPredecessor,
                                 LeftSibling
  <2>2. Shape'
    BY <1>0, <1>5 DEF TypeOK, Shape, EdgesOK, LinkFirst, IsPredecessor,
                      AtKey, Inserting, NewPath, KChar, LeftSibling
  <2>3. EdgesOK'
    BY <1>0, <1>5 DEF EdgesOK, LinkFirst, LeftSibling
  <2> QED BY <2>1, <2>2, <2>3 DEF TypeInv
<1>6. CASE WalkRight(t)
  <2>1. TypeOK'
    BY <1>0, <1>6, LockTypes DEF TypeOK, WalkRight, Shape, EdgesOK, IsLast
  <2>2. Shape'
    BY <1>0, <1>6 DEF TypeOK, Shape, EdgesOK, WalkRight, IsLast,
                      AtKey, Inserting, NewPath, KChar
  <2>3. EdgesOK'
    BY <1>0, <1>6 DEF EdgesOK, WalkRight
  <2> QED BY <2>1, <2>2, <2>3 DEF TypeInv
<1>7. CASE LinkRight(t)
  <2>1. TypeOK'
    BY <1>0, <1>7 DEF TypeOK, LinkRight, Shape, RightLinks
  <2>2. Shape'
    BY <1>0, <1>7 DEF TypeInv, TypeOK, Shape, LinkRight, AtKey, Inserting, NewPath, KChar,
                      RightLinks
  <2>3. EdgesOK'
    BY <1>0, <1>7 DEF EdgesOK, LinkRight, RightLinks
  <2> QED BY <2>1, <2>2, <2>3 DEF TypeInv
<1>8. CASE LinkChild(t)
  <2>1. TypeOK'
    BY <1>0, <1>8, NewPathIsNode DEF TypeOK, LinkChild, Shape
  <2>2. Shape'
    BY <1>0, <1>8, NewPathIsNode DEF TypeInv, TypeOK, Shape, LinkChild, AtKey, Inserting, NewPath, KChar
  <2>3. EdgesOK'
    BY <1>0, <1>8, NewPathIsNode DEF EdgesOK, LinkChild, Shape, NewPath
  <2> QED BY <2>1, <2>2, <2>3 DEF TypeInv
<1>9. CASE InsertExisting(t)
  <2>1. TypeOK'
    BY <1>0, <1>9 DEF TypeOK, InsertExisting, Arrived, AlreadyThere
  <2>2. Shape'
    BY <1>0, <1>9 DEF TypeInv, TypeOK, Shape, InsertExisting, AtKey, Inserting, NewPath, KChar,
                      Arrived, AlreadyThere
  <2>3. EdgesOK'
    BY <1>0, <1>9 DEF EdgesOK, InsertExisting, Arrived, AlreadyThere
  <2> QED BY <2>1, <2>2, <2>3 DEF TypeInv
<1>10. CASE StoreValue(t)
  <2>1. TypeOK'
    BY <1>0, <1>10 DEF TypeOK, StoreValue, Shape, OpSet, Inserting,
                       Arrived, AlreadyThere
  <2>2. Shape'
    BY <1>0, <1>10 DEF TypeInv, TypeOK, Shape, StoreValue, AtKey, Inserting, NewPath, KChar,
                       Arrived, AlreadyThere
  <2>3. EdgesOK'
    BY <1>0, <1>10 DEF EdgesOK, StoreValue, Arrived, AlreadyThere
  <2> QED BY <2>1, <2>2, <2>3 DEF TypeInv
<1>11. CASE SizeInc(t)
  <2>0. (loaded[t] + 1) % SizeModulus \in 0..(SizeModulus - 1)
    <3>1. loaded[t] \in Int
      BY <1>0, ConstantsAssumption DEF TypeOK
    <3> QED BY <3>1, SizeWraps
  <2>1. TypeOK'
    BY <1>0, <1>11, <2>0, ConstantsAssumption DEF TypeOK, SizeInc
  <2>2. Shape'
    BY <1>0, <1>11 DEF TypeInv, TypeOK, Shape, SizeInc, AtKey, Inserting, NewPath, KChar
  <2>3. EdgesOK'
    BY <1>0, <1>11 DEF EdgesOK, SizeInc
  <2> QED BY <2>1, <2>2, <2>3 DEF TypeInv
<1> QED BY <1>1, <1>2, <1>3, <1>4, <1>5, <1>6, <1>7, <1>8, <1>9, <1>10, <1>11 DEF Insertion

\* Scans preserve the types.
LEMMA TypeIteration ==
    ASSUME TypeInv, NEW t \in Threads, Iteration(t)
    PROVE  TypeInv'
<1> USE DEF trie, locks, Goto, PCs, Scanning, Linking, ReturnNoIterator
<1>0. TypeOK /\ Shape /\ EdgesOK /\ Root \in Nodes /\ NoNode \notin Nodes
  BY NodesArePaths DEF TypeInv
<1>1. CASE ScanStop(t)
  <2>1. TypeOK'
    BY <1>0, <1>1 DEF TypeOK, ScanStop
  <2>2. Shape'
    BY <1>0, <1>1 DEF TypeInv, TypeOK, Shape, ScanStop, AtKey, Inserting, NewPath, KChar
  <2>3. EdgesOK'
    BY <1>0, <1>1 DEF EdgesOK, ScanStop
  <2> QED BY <2>1, <2>2, <2>3 DEF TypeInv
<1>2. CASE ScanNext(t)
  <2>1. TypeOK'
    BY <1>0, <1>2, LockTypes DEF TypeOK, ScanNext, Shape
  <2>2. Shape'
    BY <1>0, <1>2 DEF TypeInv, TypeOK, Shape, ScanNext, AtKey, Inserting, NewPath, KChar
  <2>3. EdgesOK'
    BY <1>0, <1>2 DEF EdgesOK, ScanNext
  <2> QED BY <2>1, <2>2, <2>3 DEF TypeInv
<1>3. CASE ScanEnd(t)
  <2>1. TypeOK'
    BY <1>0, <1>3, ReleaseTypes DEF TypeOK, ScanEnd, Shape
  <2>2. Shape'
    BY <1>0, <1>3 DEF TypeInv, TypeOK, Shape, ScanEnd, AtKey, Inserting, NewPath, KChar
  <2>3. EdgesOK'
    BY <1>0, <1>3 DEF EdgesOK, ScanEnd
  <2> QED BY <2>1, <2>2, <2>3 DEF TypeInv
<1>4. CASE NextStep(t)
  <2>1. TypeOK'
    BY <1>0, <1>4, LockTypes DEF TypeOK, NextStep, Shape, Front
  <2>2. Shape'
    BY <1>0, <1>4 DEF TypeInv, TypeOK, Shape, NextStep, Front, AtKey, Inserting, NewPath, KChar
  <2>3. EdgesOK'
    BY <1>0, <1>4 DEF EdgesOK, NextStep
  <2> QED BY <2>1, <2>2, <2>3 DEF TypeInv
<1>5. CASE NextEnd(t)
  <2>1. TypeOK'
    BY <1>0, <1>5, ReleaseTypes DEF TypeOK, NextEnd, Shape
  <2>2. Shape'
    BY <1>0, <1>5 DEF TypeInv, TypeOK, Shape, NextEnd, AtKey, Inserting, NewPath, KChar
  <2>3. EdgesOK'
    BY <1>0, <1>5 DEF EdgesOK, NextEnd
  <2> QED BY <2>1, <2>2, <2>3 DEF TypeInv
<1>6. CASE NextReturn(t)
  <2>1. TypeOK'
    BY <1>0, <1>6 DEF TypeOK, NextReturn
  <2>2. Shape'
    BY <1>0, <1>6 DEF TypeInv, TypeOK, Shape, NextReturn, AtKey, Inserting, NewPath, KChar
  <2>3. EdgesOK'
    BY <1>0, <1>6 DEF EdgesOK, NextReturn
  <2> QED BY <2>1, <2>2, <2>3 DEF TypeInv
<1> QED BY <1>1, <1>2, <1>3, <1>4, <1>5, <1>6 DEF Iteration

\* What the client does preserves the types.
LEMMA TypeClient ==
    ASSUME TypeInv, NEW t \in Threads, Call(t) \/ UseIterator(t) \/ DropIterator(t)
    PROVE  TypeInv'
<1> USE DEF trie, locks, Goto, PCs, Scanning, Linking, ReturnNoIterator
<1>0. TypeOK /\ Shape /\ EdgesOK /\ Root \in Nodes /\ NoNode \notin Nodes
  BY NodesArePaths DEF TypeInv
<1>1. CASE Call(t)
  <2>1. TypeOK'
    BY <1>0, <1>1 DEF TypeOK, Call, OpSet
  <2>2. Shape'
    BY <1>0, <1>1 DEF TypeInv, TypeOK, Shape, Call, AtKey, Inserting, NewPath, KChar
  <2>3. EdgesOK'
    BY <1>0, <1>1 DEF EdgesOK, Call
  <2> QED BY <2>1, <2>2, <2>3 DEF TypeInv
<1>2. CASE Increment(t)
  <2>1. TypeOK'
    BY <1>0, <1>2 DEF TypeOK, Increment
  <2>2. Shape'
    BY <1>0, <1>2 DEF TypeInv, TypeOK, Shape, Increment, AtKey, Inserting, NewPath, KChar
  <2>3. EdgesOK'
    BY <1>0, <1>2 DEF EdgesOK, Increment
  <2> QED BY <2>1, <2>2, <2>3 DEF TypeInv
<1>3. CASE NextCall(t)
  <2>1. TypeOK'
    BY <1>0, <1>3 DEF TypeOK, NextCall
  <2>2. Shape'
    BY <1>0, <1>3 DEF TypeInv, TypeOK, Shape, NextCall, AtKey, Inserting, NewPath, KChar
  <2>3. EdgesOK'
    BY <1>0, <1>3 DEF EdgesOK, NextCall
  <2> QED BY <2>1, <2>2, <2>3 DEF TypeInv
<1>4. CASE EraseIterator(t)
  <2>1. TypeOK'
    BY <1>0, <1>4 DEF TypeOK, EraseIterator
  <2>2. Shape'
    BY <1>0, <1>4 DEF TypeInv, TypeOK, Shape, EraseIterator, AtKey, Inserting, NewPath, KChar
  <2>3. EdgesOK'
    BY <1>0, <1>4 DEF EdgesOK, EraseIterator
  <2> QED BY <2>1, <2>2, <2>3 DEF TypeInv
<1>5. CASE EraseValueless(t)
  <2>1. TypeOK'
    BY <1>0, <1>5 DEF TypeOK, EraseValueless
  <2>2. Shape'
    BY <1>0, <1>5 DEF TypeInv, TypeOK, Shape, EraseValueless, AtKey, Inserting, NewPath, KChar
  <2>3. EdgesOK'
    BY <1>0, <1>5 DEF EdgesOK, EraseValueless
  <2> QED BY <2>1, <2>2, <2>3 DEF TypeInv
<1>6. CASE Unlock(t)
  <2>1. TypeOK'
    BY <1>0, <1>6, ReleaseTypes DEF TypeOK, Unlock, Shape
  <2>2. Shape'
    BY <1>0, <1>6 DEF TypeInv, TypeOK, Shape, Unlock, AtKey, Inserting, NewPath, KChar
  <2>3. EdgesOK'
    BY <1>0, <1>6 DEF EdgesOK, Unlock
  <2> QED BY <2>1, <2>2, <2>3 DEF TypeInv
<1>7. CASE UnlockOne(t)
  <2>1. TypeOK'
    BY <1>0, <1>7, ReleaseTypes DEF TypeOK, UnlockOne, Shape
  <2>2. Shape'
    BY <1>0, <1>7 DEF TypeInv, TypeOK, Shape, UnlockOne, AtKey, Inserting, NewPath, KChar
  <2>3. EdgesOK'
    BY <1>0, <1>7 DEF EdgesOK, UnlockOne
  <2> QED BY <2>1, <2>2, <2>3 DEF TypeInv
<1> QED BY <1>1, <1>2, <1>3, <1>4, <1>5, <1>6, <1>7 DEF UseIterator, DropIterator

-----------------------------------------------------------------------------
\* Initially nothing is stored, locked or under way.
LEMMA TypeInit == Init => TypeInv
BY NodesArePaths, ConstantsAssumption
   DEF Init, TypeInv, TypeOK, Shape, EdgesOK, PCs, Linking, Scanning

\* TypeInv is inductive.
LEMMA TypeStep == TypeInv /\ [Next]_vars => TypeInv'
<1> SUFFICES ASSUME TypeInv, [Next]_vars PROVE TypeInv'
  OBVIOUS
<1>1. CASE UNCHANGED vars
  BY <1>1 DEF TypeInv, TypeOK, Shape, EdgesOK, vars, AtKey, Inserting, NewPath, KChar
<1>2. ASSUME NEW t \in Threads, Step(t) PROVE TypeInv'
  BY <1>2, TypeLookup, TypeErasure, TypeInsertion, TypeIteration, TypeClient
     DEF Step, Internal
<1> QED BY <1>1, <1>2 DEF Next

\* Every variable keeps its type in every behaviour.  In particular the paths
\* that insertion extends are prefixes of the key and size_ never leaves the
\* range of its width.
THEOREM TypeCorrect == Spec => []TypeOK
<1>1. TypeInv => TypeOK
  BY DEF TypeInv
<1> QED BY <1>1, TypeInit, TypeStep, PTL DEF Spec

-----------------------------------------------------------------------------
(* Locks and list *)

\* Characters are numbers.
LEMMA CharsAreIntegers == Chars \subseteq Int
BY ConstantsAssumption

-----------------------------------------------------------------------------
(* What the locks exclude *)

\* Two threads that hold one node hold it shared.
LEMMA HeldTogether ==
    ASSUME TypeInv, LockDiscipline, NEW t \in Threads, NEW s \in Threads, s # t,
           NEW n \in Nodes, n \in Held(t), n \in Held(s)
    PROVE  ~Exclusive(t) /\ ~Exclusive(s)
BY ConstantsAssumption DEF LockDiscipline

\* The node a thread locks is not held exclusively, and by nobody when the
\* thread locks it exclusively.
LEMMA LockableIsFree ==
    ASSUME TypeInv, LockDiscipline, NEW t \in Threads, NEW n \in Nodes, CanLock(t, n),
           NEW s \in Threads, n \in Held(s)
    PROVE  ~Exclusive(s) /\ ~Exclusive(t)
BY ConstantsAssumption DEF LockDiscipline, CanLock

\* Hand over hand: n is locked, the nodes behind are unlocked.
LEMMA LockStep ==
    ASSUME TypeInv, LockDiscipline, NEW t \in Threads, NEW n \in Nodes, NEW behind,
           behind \subseteq Held(t), n \notin behind, LockAndRelease(t, n, behind),
           Held(t)' = (Held(t) \ behind) \cup {n}, op' = op,
           \A s \in Threads : s # t => Held(s)' = Held(s)
    PROVE  LockDiscipline'
<1>1. CASE Exclusive(t)
  <2>1. writer' = [m \in Nodes |-> IF m \in behind THEN NoThread
                                   ELSE IF m = n THEN t ELSE writer[m]]
        /\ readers' = readers /\ writer[n] = NoThread /\ readers[n] = {}
    BY <1>1 DEF LockAndRelease, CanLock
  <2> SUFFICES ASSUME NEW s \in Threads, NEW m \in Nodes
               PROVE  /\ writer'[m] = s <=> m \in Held(s)' /\ Exclusive(s)
                      /\ s \in readers'[m] <=> m \in Held(s)' /\ ~Exclusive(s)
                      /\ writer'[m] # NoThread => readers'[m] = {}
    BY DEF LockDiscipline, Exclusive
  <2>2. /\ writer[m] = s <=> m \in Held(s) /\ Exclusive(s)
        /\ writer[m] = t <=> m \in Held(t) /\ Exclusive(t)
        /\ s \in readers[m] <=> m \in Held(s) /\ ~Exclusive(s)
        /\ writer[m] # NoThread => readers[m] = {}
    BY DEF LockDiscipline
  <2>3. NoThread \notin Threads
    BY ConstantsAssumption
  <2>4. CASE s = t
    BY <1>1, <2>1, <2>2, <2>3, <2>4
  <2>5. CASE s # t
    BY <1>1, <2>1, <2>2, <2>3, <2>5
  <2> QED BY <2>4, <2>5
<1>2. CASE ~Exclusive(t)
  <2>1. readers' = [m \in Nodes |-> IF m \in behind THEN readers[m] \ {t}
                                    ELSE IF m = n THEN readers[m] \cup {t} ELSE readers[m]]
        /\ writer' = writer /\ writer[n] = NoThread
    BY <1>2 DEF LockAndRelease, CanLock
  <2> SUFFICES ASSUME NEW s \in Threads, NEW m \in Nodes
               PROVE  /\ writer'[m] = s <=> m \in Held(s)' /\ Exclusive(s)
                      /\ s \in readers'[m] <=> m \in Held(s)' /\ ~Exclusive(s)
                      /\ writer'[m] # NoThread => readers'[m] = {}
    BY DEF LockDiscipline, Exclusive
  <2>2. /\ writer[m] = s <=> m \in Held(s) /\ Exclusive(s)
        /\ s \in readers[m] <=> m \in Held(s) /\ ~Exclusive(s)
        /\ writer[m] # NoThread => readers[m] = {}
    BY DEF LockDiscipline
  <2>3. NoThread \notin Threads
    BY ConstantsAssumption
  <2>4. CASE s = t
    BY <1>2, <2>1, <2>2, <2>3, <2>4
  <2>5. CASE s # t
    BY <1>2, <2>1, <2>2, <2>3, <2>5
  <2> QED BY <2>4, <2>5
<1> QED BY <1>1, <1>2

\* Unlocking one node.  The call may be over when it was the last.
LEMMA ReleaseStep ==
    ASSUME TypeInv, LockDiscipline, NEW t \in Threads, NEW n \in Nodes,
           n \in Held(t), Release(t, n), Held(t)' = Held(t) \ {n},
           op'[t] = op[t] \/ Held(t)' = {},
           \A s \in Threads : s # t => Held(s)' = Held(s) /\ op'[s] = op[s]
    PROVE  LockDiscipline'
<1> SUFFICES ASSUME NEW s \in Threads, NEW m \in Nodes
             PROVE  /\ writer'[m] = s <=> m \in Held(s)' /\ Exclusive(s)'
                    /\ s \in readers'[m] <=> m \in Held(s)' /\ ~Exclusive(s)'
                    /\ writer'[m] # NoThread => readers'[m] = {}
  BY DEF LockDiscipline
<1>1. /\ writer[m] = s <=> m \in Held(s) /\ Exclusive(s)
      /\ writer[m] = t <=> m \in Held(t) /\ Exclusive(t)
      /\ s \in readers[m] <=> m \in Held(s) /\ ~Exclusive(s)
      /\ writer[m] # NoThread => readers[m] = {}
  BY DEF LockDiscipline
<1>2. NoThread \notin Threads /\ s # NoThread /\ t # NoThread
  BY ConstantsAssumption
<1>3. writer \in [Nodes -> Threads \cup {NoThread}] /\ readers \in [Nodes -> SUBSET Threads]
  BY DEF TypeInv, TypeOK
<1>4. s # t => (Exclusive(s)' <=> Exclusive(s)) /\ Held(s)' = Held(s)
  BY DEF Exclusive
<1>5. (Exclusive(t)' <=> Exclusive(t)) \/ Held(t)' = {}
  BY DEF Exclusive
<1>6. CASE Exclusive(t)
  <2>1. writer' = [writer EXCEPT ![n] = NoThread] /\ readers' = readers
    BY <1>6 DEF Release
  <2>2. CASE s = t
    BY <1>1, <1>2, <1>3, <1>5, <1>6, <2>1, <2>2
  <2>3. CASE s # t
    BY <1>1, <1>2, <1>3, <1>4, <1>6, <2>1, <2>3
  <2> QED BY <2>2, <2>3
<1>7. CASE ~Exclusive(t)
  <2>1. readers' = [readers EXCEPT ![n] = @ \ {t}] /\ writer' = writer
    BY <1>7 DEF Release
  <2>2. CASE s = t
    BY <1>1, <1>2, <1>3, <1>5, <1>7, <2>1, <2>2
  <2>3. CASE s # t
    BY <1>1, <1>2, <1>3, <1>4, <1>7, <2>1, <2>3
  <2> QED BY <2>2, <2>3
<1> QED BY <1>6, <1>7

\* A step that locks and unlocks nothing.
LEMMA SameLocks ==
    ASSUME TypeInv, LockDiscipline, NEW t \in Threads, UNCHANGED locks,
           Held(t)' = Held(t), op'[t] = op[t] \/ Held(t) = {},
           \A s \in Threads : s # t => Held(s)' = Held(s) /\ op'[s] = op[s]
    PROVE  LockDiscipline'
<1> SUFFICES ASSUME NEW s \in Threads, NEW m \in Nodes
             PROVE  /\ writer'[m] = s <=> m \in Held(s)' /\ Exclusive(s)'
                    /\ s \in readers'[m] <=> m \in Held(s)' /\ ~Exclusive(s)'
                    /\ writer'[m] # NoThread => readers'[m] = {}
  BY DEF LockDiscipline
<1>1. /\ writer[m] = s <=> m \in Held(s) /\ Exclusive(s)
      /\ s \in readers[m] <=> m \in Held(s) /\ ~Exclusive(s)
      /\ writer[m] # NoThread => readers[m] = {}
  BY DEF LockDiscipline
<1>2. Held(s)' = Held(s) /\ ((Exclusive(s)' <=> Exclusive(s)) \/ Held(s) = {})
  BY DEF Exclusive
<1> QED BY <1>1, <1>2 DEF locks

-----------------------------------------------------------------------------
(* Where nodes are *)

\* The ancestors of a node are nodes.
LEMMA NodesPrefixClosed ==
    ASSUME NEW n \in Nodes, NEW i \in 0..Len(n)
    PROVE  SubSeq(n, 1, i) \in Nodes
<1>1. CASE n = Root
  <2>1. SubSeq(n, 1, i) = Root
    BY <1>1 DEF Root
  <2> QED BY <2>1, NodesArePaths
<1>2. ASSUME NEW k \in Keys, n \in PathsTo(k) PROVE SubSeq(n, 1, i) \in Nodes
  <2>1. k \in Seq(Chars)
    BY ConstantsAssumption
  <2>2. PICK j \in 0..Len(k) : n = SubSeq(k, 1, j)
    BY <1>2 DEF PathsTo
  <2>3. Len(n) = j /\ n \in Seq(Chars)
    BY <2>1, <2>2
  <2>4. i \in 0..Len(k) /\ i <= j
    BY <2>2, <2>3
  <2>5. SubSeq(n, 1, i) = SubSeq(k, 1, i)
    <3>1. \A l \in 1..i : n[l] = k[l]
      BY <2>1, <2>2, <2>4
    <3>2. SubSeq(n, 1, i) = [l \in 1..i |-> n[l]]
      BY <2>3, <2>4
    <3>3. SubSeq(k, 1, i) = [l \in 1..i |-> k[l]]
      BY <2>1, <2>4
    <3> QED BY <3>1, <3>2, <3>3
  <2>6. SubSeq(n, 1, i) \in PathsTo(k)
    BY <2>4, <2>5 DEF PathsTo
  <2> QED BY <2>6, NodesArePaths
<1> QED BY <1>1, <1>2 DEF Nodes

\* A child is in the tree just when the edge to it is.
LEMMA ChildInTree ==
    ASSUME TypeInv, NEW m \in Nodes, NEW c \in Chars
    PROVE  InTree(Child(m, c)) <=> c \in children[m]
<1>1. /\ Nodes \subseteq Paths /\ Chars \subseteq Int
      /\ \A n \in Nodes : children[n] \subseteq Chars
  BY NodesArePaths, ConstantsAssumption DEF TypeInv, TypeOK
<1>2. Child(m, c) # Root
  <2>1. Len(Append(m, c)) = Len(m) + 1
    BY <1>1, AppendPath
  <2> QED BY <1>1, <2>1 DEF Child, Root, Paths
<1>3. ASSUME NEW n \in Nodes, NEW d \in children[n], Child(m, c) = Child(n, d)
      PROVE  c \in children[m]
  BY <1>1, <1>3, AppendInjective DEF Child
<1> QED BY <1>2, <1>3 DEF InTree

\* The way down to a node of the tree.
LEMMA AboveInTree ==
    ASSUME TypeInv, Rooted, NEW n \in Nodes, InTree(n),
           NEW p \in Paths, IsPrefixOf(p, n)
    PROVE  /\ p \in Nodes
           /\ InTree(p)
           /\ Len(p) < Len(n) => n[Len(p) + 1] \in children[p]
<1>1. n \in Paths /\ Len(n) \in Nat /\ Len(p) \in Nat /\ Len(p) <= Len(n)
  BY NodesArePaths DEF Paths, IsPrefixOf
<1>2. ASSUME NEW i \in 0..Len(n), NEW q \in Paths, Len(q) = i,
             \A j \in 1..i : q[j] = n[j]
      PROVE  SubSeq(n, 1, i) = q
  BY <1>1, <1>2 DEF Paths
<1>3. SubSeq(n, 1, Len(p)) = p
  BY <1>1, <1>2 DEF IsPrefixOf
<1>4. p \in Nodes
  <2>1. Len(p) \in 0..Len(n)
    BY <1>1
  <2>2. SubSeq(n, 1, Len(p)) \in Nodes
    BY <2>1, NodesPrefixClosed
  <2> QED BY <1>3, <2>2
<1>5. ASSUME Len(p) < Len(n) PROVE n[Len(p) + 1] \in children[p]
  <2>1. Len(p) + 1 \in 1..Len(n) /\ (Len(p) + 1) - 1 = Len(p)
    BY <1>1, <1>5
  <2>2. n[Len(p) + 1] \in children[SubSeq(n, 1, (Len(p) + 1) - 1)]
    BY <2>1 DEF Rooted
  <2> QED BY <1>3, <2>1, <2>2
<1>6. InTree(p)
  <2>1. CASE Len(p) = 0
    BY <2>1 DEF InTree, Root, Paths
  <2>2. CASE Len(p) > 0
    <3> DEFINE i == Len(p) - 1
               q == SubSeq(n, 1, i)
    <3>1. i \in 0..Len(n) /\ i + 1 \in 1..Len(n)
      BY <1>1, <2>2
    <3>2. q \in Nodes
      BY <3>1, NodesPrefixClosed
    <3>3. n[i + 1] \in children[q]
      <4>1. n[i + 1] \in children[SubSeq(n, 1, (i + 1) - 1)]
        BY <3>1 DEF Rooted
      <4>2. (i + 1) - 1 = i
        BY <3>1
      <4> QED BY <4>1, <4>2
    <3>4. Child(q, n[i + 1]) = p
      <4>1. q \in Paths /\ Len(q) = i /\ n[i + 1] \in Int /\ \A j \in 1..i : q[j] = n[j]
        <5>1. q \in Paths /\ Len(q) = i /\ \A j \in 1..i : q[j] = n[j]
          BY <1>1, <3>1, SubSeqPath
        <5>2. n[i + 1] \in Int
          BY <1>1, <3>1 DEF Paths
        <5> QED BY <5>1, <5>2
      <4> HIDE DEF q
      <4>2. /\ Append(q, n[i + 1]) \in Paths /\ Len(Append(q, n[i + 1])) = i + 1
            /\ Append(q, n[i + 1])[i + 1] = n[i + 1]
            /\ \A j \in 1..i : Append(q, n[i + 1])[j] = q[j]
        BY <4>1, AppendPath
      <4>3. \A j \in 1..(i + 1) : Append(q, n[i + 1])[j] = n[j]
        BY <3>1, <4>1, <4>2
      <4>4. SubSeq(n, 1, i + 1) = Append(q, n[i + 1])
        BY <1>2, <3>1, <4>2, <4>3
      <4>5. i + 1 = Len(p)
        BY <1>1
      <4> QED BY <1>3, <4>4, <4>5 DEF Child
    <3> QED BY <3>2, <3>3, <3>4 DEF InTree
  <2> QED BY <1>1, <2>1, <2>2
<1> QED BY <1>4, <1>5, <1>6

\* What an inserting thread has at hand between creating a node and linking it.
LEMMA LinkingFacts ==
    ASSUME TypeInv, HeldInTree, NEW t \in Threads, pc[t] \in Linking
    PROVE  /\ Exclusive(t)
           /\ cur[t] \in Nodes /\ cur[t] \in Held(t) /\ InTree(cur[t])
           /\ new[t] \in Nodes /\ new[t] \in Held(t) /\ ~InTree(new[t])
           /\ KChar(t) \in Chars /\ new[t] = Child(cur[t], KChar(t))
<1>1. Inserting(t) /\ ~AtKey(t) /\ new[t] = NewPath(t)
  BY DEF TypeInv, Shape
<1>2. cur[t] \in Nodes /\ KChar(t) \in Chars /\ NewPath(t) \in Nodes
  BY <1>1, NewPathIsNode
<1>3. cur[t] # NoNode /\ new[t] # NoNode
  BY <1>1, <1>2, NodesArePaths
<1>4. ~InTree(new[t])
  BY <1>1, <1>2, ChildInTree DEF HeldInTree, NewPath
<1> QED BY <1>1, <1>2, <1>3, <1>4
        DEF Held, HeldInTree, NewPath, Inserting, Exclusive, ExclusiveOps

\* A linked node that can be locked is in the tree: until a new node is a
\* child, its creator holds it.
LEMMA LinkedLockable ==
    ASSUME TypeInv, LockDiscipline, HeldInTree, NEW t \in Threads, NEW n \in Nodes,
           Linked(n), CanLock(t, n)
    PROVE  InTree(n)
<1>1. ASSUME NEW s \in Threads, pc[s] = "link_child", new[s] = n PROVE FALSE
  <2>1. Exclusive(s) /\ n \in Held(s)
    BY <1>1, LinkingFacts DEF Linking
  <2> QED BY <2>1, LockableIsFree
<1> QED BY <1>1 DEF Linked

\* Two threads never create the same node.
LEMMA NewNodesDiffer ==
    ASSUME TypeInv, LockDiscipline, HeldInTree,
           NEW t \in Threads, NEW s \in Threads, s # t,
           pc[t] \in Linking, pc[s] \in Linking
    PROVE  new[s] # new[t]
<1>1. /\ Exclusive(t) /\ new[t] \in Nodes
      /\ new[t] \in Held(t) /\ new[s] \in Held(s)
  BY LinkingFacts
<1> QED BY <1>1, HeldTogether

\* Below a node that a thread holds exclusively, whatever is linked is reached
\* by one of the node's edges or is the child the thread is about to add.
LEMMA LinkedBelow ==
    ASSUME TypeInv, LockDiscipline, HeldInTree, Rooted,
           NEW t \in Threads, Exclusive(t), NEW p \in Nodes, p \in Held(t),
           NEW m \in Nodes, Linked(m), IsStrictPrefixOf(p, m)
    PROVE  \/ m[Len(p) + 1] \in children[p]
           \/ pc[t] = "link_child" /\ m = new[t] /\ p = cur[t]
<1> USE DEF IsStrictPrefixOf
<1>1. p \in Paths /\ m \in Paths /\ Chars \subseteq Int
  BY NodesArePaths, ConstantsAssumption
<1>2. CASE InTree(m)
  BY <1>1, <1>2, AboveInTree
<1>3. ASSUME NEW s \in Threads, pc[s] = "link_child", new[s] = m
      PROVE  \/ m[Len(p) + 1] \in children[p]
             \/ pc[t] = "link_child" /\ m = new[t] /\ p = cur[t]
  <2>1. /\ cur[s] \in Nodes /\ cur[s] \in Held(s) /\ InTree(cur[s])
        /\ KChar(s) \in Chars /\ m = Append(cur[s], KChar(s))
    BY <1>3, LinkingFacts DEF Linking, Child
  <2>2. /\ cur[s] \in Paths /\ KChar(s) \in Int /\ Len(m) = Len(cur[s]) + 1
        /\ \A i \in 1..Len(cur[s]) : m[i] = cur[s][i]
    BY <1>1, <2>1, NodesArePaths, AppendPath
  <2>3. Len(p) <= Len(cur[s]) /\ Len(p) \in Nat /\ Len(cur[s]) \in Nat
    BY <1>1, <2>2 DEF Paths
  <2>4. IsPrefixOf(p, cur[s])
    BY <1>1, <2>1, <2>2, <2>3, PrefixOfChild
  <2>5. CASE Len(p) = Len(cur[s])
    <3>1. p = cur[s]
      BY <1>1, <2>2, <2>4, <2>5, PrefixSameLength
    <3>2. s = t
      BY <2>1, <3>1, HeldTogether
    <3> QED BY <1>3, <3>1, <3>2
  <2>6. CASE Len(p) < Len(cur[s])
    <3>1. cur[s][Len(p) + 1] \in children[p]
      BY <1>1, <2>1, <2>4, <2>6, AboveInTree
    <3>2. m[Len(p) + 1] = cur[s][Len(p) + 1]
      BY <2>2, <2>3, <2>6
    <3> QED BY <3>1, <3>2
  <2> QED BY <2>3, <2>5, <2>6
<1> QED BY <1>2, <1>3 DEF Linked

-----------------------------------------------------------------------------
(* Steps that leave the tree and the list alone *)

\* Thread t moves, and no edge, list pointer or new node changes.
Quiet(t) ==
    /\ UNCHANGED <<children, next, new>>
    /\ pc[t] # "link_child" /\ pc'[t] # "link_child"
    /\ \A s \in Threads : s # t =>
          /\ pc'[s] = pc[s] /\ op'[s] = op[s]
          /\ cur'[s] = cur[s] /\ probe'[s] = probe[s]

\* The part of RightSpine about one place of rightmost_node.
SpineAt(c, p, w) ==
    /\ IsStrictPrefixOf(c, p)
    /\ Precedes(p, w)
    /\ \A m \in Nodes : Linked(m) /\ Precedes(p, m) /\ Precedes(m, w) => IsPrefixOf(p, m)

\* A quiet step links nothing.
LEMMA QuietLinked ==
    ASSUME NEW t \in Threads, Quiet(t), NEW n
    PROVE  (InTree(n)' <=> InTree(n)) /\ (Linked(n)' <=> Linked(n))
<1>1. InTree(n)' <=> InTree(n)
  BY DEF Quiet, InTree
<1>2. ASSUME NEW s \in Threads
      PROVE  (pc[s] = "link_child" /\ new[s] = n)' <=> pc[s] = "link_child" /\ new[s] = n
  BY DEF Quiet
<1> QED BY <1>1, <1>2 DEF Linked

\* What a quiet step of one thread has to establish.
LEMMA QuietStep ==
    ASSUME TypeInv, TreeInv, TypeInv', LockDiscipline', NEW t \in Threads, Quiet(t),
           cur'[t] # NoNode => InTree(cur'[t]),
           probe'[t] # NoNode => InTree(probe'[t]),
           pc'[t] \in Linking => pc[t] \in Linking /\ cur'[t] = cur[t] /\ op'[t] = op[t],
           pc'[t] \in {"ahead", "iter2"} => Precedes(cur'[t], probe'[t]),
           pc'[t] = "link_right" => SpineAt(cur[t], probe'[t], new[t]),
           \A s \in Threads : s # t /\ pc[s] = "link_right"
                                    /\ pc'[t] \in Linking \cup {"descend"} =>
              ~(IsStrictPrefixOf(cur[s], cur'[t]) /\ IsStrictPrefixOf(cur'[t], probe[s])),
           \A s \in Threads : s # t /\ pc'[t] = "link_right"
                                    /\ pc[s] \in Linking \cup {"descend"} =>
              ~(IsStrictPrefixOf(cur[t], cur[s]) /\ IsStrictPrefixOf(cur[s], probe'[t]))
    PROVE  TreeInv'
<1> USE DEF TreeInv
<1>0. /\ \A n : (InTree(n)' <=> InTree(n)) /\ (Linked(n)' <=> Linked(n))
      /\ children' = children /\ next' = next /\ new' = new
      /\ \A s \in Threads : s # t =>
            /\ pc'[s] = pc[s] /\ op'[s] = op[s]
            /\ cur'[s] = cur[s] /\ probe'[s] = probe[s]
      /\ pc[t] # "link_child" /\ pc'[t] # "link_child"
  BY QuietLinked DEF Quiet
<1>1. Rooted'
  BY <1>0 DEF Rooted
<1>2. HeldInTree'
  <2> SUFFICES ASSUME NEW s \in Threads
               PROVE  /\ cur'[s] # NoNode => InTree(cur'[s])
                      /\ probe'[s] # NoNode => InTree(probe'[s])
                      /\ pc'[s] \in Linking => KChar(s)' \notin children'[cur'[s]]
    BY <1>0 DEF HeldInTree
  <2>1. CASE s = t
    BY <1>0, <2>1 DEF HeldInTree, KChar
  <2>2. CASE s # t
    BY <1>0, <2>2 DEF HeldInTree, KChar
  <2> QED BY <2>1, <2>2
<1>3. NextForward'
  BY <1>0 DEF NextForward
<1>4. ListIsTreeOrder'
  BY <1>0 DEF ListIsTreeOrder
<1>5. AheadInOrder'
  <2> SUFFICES ASSUME NEW s \in Threads, pc'[s] \in {"ahead", "iter2"}
               PROVE  Precedes(cur'[s], probe'[s])
    BY DEF AheadInOrder
  <2> QED BY <1>0 DEF AheadInOrder
<1>6. NewBeforeSibling'
  <2> SUFFICES ASSUME NEW s \in Threads, pc'[s] \in {"link_first", "link_right"}, Greater(s)'
               PROVE  \E u \in Chars : /\ IsLowerBound(children'[cur'[s]], KChar(s)', u)
                                       /\ next'[new'[s]] = Child(cur'[s], u)
    BY DEF NewBeforeSibling
  <2>1. pc[s] \in {"link_first", "link_right"} /\ cur'[s] = cur[s] /\ op'[s] = op[s]
    BY <1>0 DEF Linking
  <2>2. Greater(s) /\ KChar(s)' = KChar(s)
    BY <1>0, <2>1 DEF Greater, KChar
  <2> QED BY <1>0, <2>1, <2>2 DEF NewBeforeSibling
<1>7. RightSpine'
  <2> SUFFICES ASSUME NEW s \in Threads, pc'[s] = "link_right"
               PROVE  SpineAt(cur'[s], probe'[s], new'[s])
    BY <1>0 DEF RightSpine, SpineAt
  <2>1. CASE s = t
    BY <1>0, <2>1 DEF Linking
  <2>2. CASE s # t
    BY <1>0, <2>2 DEF RightSpine, SpineAt
  <2> QED BY <2>1, <2>2
<1>8. NobodyBehind'
  <2> SUFFICES ASSUME NEW r \in Threads, NEW s \in Threads, pc'[r] = "link_right", s # r,
                      pc'[s] \in Linking \cup {"descend"},
                      IsStrictPrefixOf(cur'[r], cur'[s]), IsStrictPrefixOf(cur'[s], probe'[r])
               PROVE  FALSE
    BY DEF NobodyBehind
  <2>1. CASE r # t /\ s # t
    BY <1>0, <2>1 DEF NobodyBehind
  <2>2. CASE r = t
    BY <1>0, <2>2 DEF Linking
  <2>3. CASE s = t
    BY <1>0, <2>3
  <2> QED BY <2>1, <2>2, <2>3
<1> QED BY <1>1, <1>2, <1>3, <1>4, <1>5, <1>6, <1>7, <1>8

\* The case of a thread that is not inserting and not ahead.
LEMMA PlainStep ==
    ASSUME TypeInv, TreeInv, TypeInv', LockDiscipline', NEW t \in Threads, Quiet(t),
           cur'[t] # NoNode => InTree(cur'[t]),
           probe'[t] # NoNode => InTree(probe'[t]),
           pc'[t] \notin Linking \cup {"descend", "ahead", "iter2"}
    PROVE  TreeInv'
BY QuietStep DEF Linking

-----------------------------------------------------------------------------
(* The shapes of quiet steps *)

\* A thread with one local set holds that node.
LEMMA HoldsOne ==
    ASSUME TypeInv, HeldInTree, NEW t \in Threads,
           pc[t] \notin Linking \cup {"idle", "lock_root", "ahead", "iter2"}
    PROVE  /\ cur[t] \in Nodes /\ InTree(cur[t]) /\ Linked(cur[t])
           /\ new[t] = NoNode /\ probe[t] = NoNode /\ Held(t) = {cur[t]}
<1>1. cur[t] \in Nodes /\ cur[t] # NoNode /\ new[t] = NoNode /\ probe[t] = NoNode
  BY DEF TypeInv, TypeOK, Shape, Linking
<1> QED BY <1>1 DEF Held, HeldInTree, Linked

\* A thread in the trie holds the node it is at.
LEMMA HoldsCur ==
    ASSUME TypeInv, HeldInTree, NEW t \in Threads, pc[t] \notin {"idle", "lock_root"}
    PROVE  /\ cur[t] \in Nodes /\ InTree(cur[t]) /\ cur[t] \in Held(t)
           /\ cur[t] \in Paths /\ Len(cur[t]) \in Nat
<1>1. cur[t] \in Nodes /\ cur[t] # NoNode
  BY DEF TypeInv, TypeOK, Shape
<1>2. cur[t] \in Paths /\ Len(cur[t]) \in Nat
  BY <1>1, NodesArePaths DEF Paths
<1> QED BY <1>1, <1>2 DEF Held, HeldInTree

\* Only the place in the code changes.
LEMMA StayStep ==
    ASSUME TypeInv, TreeInv, TypeInv', NEW t \in Threads, NEW label,
           UNCHANGED <<children, next, locks, op, cur, new, probe>>,
           pc' = [pc EXCEPT ![t] = label],
           pc[t] # "link_child",
           label \notin Linking \cup {"descend", "ahead"},
           label = "iter2" => pc[t] = "ahead"
    PROVE  TreeInv'
<1>0. pc'[t] = label /\ \A s \in Threads : s # t => pc'[s] = pc[s]
  BY DEF TypeInv, TypeOK
<1>1. Quiet(t)
  BY <1>0 DEF Quiet, Linking
<1>2. \A s \in Threads : Held(s)' = Held(s)
  BY DEF Held
<1>3. LockDiscipline'
  BY <1>2, SameLocks DEF TreeInv
<1>4. /\ cur'[t] # NoNode => InTree(cur'[t])
      /\ probe'[t] # NoNode => InTree(probe'[t])
  BY DEF TreeInv, HeldInTree
<1>5. label = "iter2" => Precedes(cur'[t], probe'[t])
  BY DEF TreeInv, AheadInOrder
<1> QED BY <1>0, <1>1, <1>3, <1>4, <1>5, QuietStep DEF Linking

\* The call returns and its node is unlocked.
LEMMA ReturnStep ==
    ASSUME TypeInv, TreeInv, TypeInv', NEW t \in Threads, NEW r,
           pc[t] \notin Linking \cup {"idle", "lock_root", "ahead", "iter2"},
           Release(t, cur[t]), ReturnNoIterator(t, r),
           UNCHANGED <<children, next, new, probe>>
    PROVE  TreeInv'
<1>0. /\ pc'[t] = "idle" /\ cur'[t] = NoNode
      /\ \A s \in Threads : s # t => pc'[s] = pc[s] /\ op'[s] = op[s] /\ cur'[s] = cur[s]
  BY DEF TypeInv, TypeOK, ReturnNoIterator, Goto
<1>1. Quiet(t)
  BY <1>0 DEF Quiet, Linking
<1>2. /\ cur[t] \in Nodes /\ Held(t) = {cur[t]} /\ new[t] = NoNode /\ probe[t] = NoNode
  BY HoldsOne DEF TreeInv
<1>3. Held(t)' = {} /\ \A s \in Threads : s # t => Held(s)' = Held(s)
  BY <1>0, <1>2 DEF Held
<1>4. LockDiscipline'
  BY <1>0, <1>2, <1>3, ReleaseStep DEF TreeInv
<1> QED BY <1>0, <1>1, <1>2, <1>4, PlainStep DEF Linking

\* Hand over hand to a linked node, which is then in the tree.
LEMMA MoveStep ==
    ASSUME TypeInv, TreeInv, NEW t \in Threads, NEW n \in Nodes,
           pc[t] \notin Linking \cup {"idle", "lock_root", "ahead", "iter2"},
           Linked(n), n # cur[t], LockAndRelease(t, n, {cur[t]}),
           cur' = [cur EXCEPT ![t] = n], UNCHANGED <<op, new, probe>>
    PROVE  /\ LockDiscipline' /\ InTree(n) /\ cur'[t] = n /\ probe'[t] = NoNode
           /\ \A s \in Threads : s # t => cur'[s] = cur[s]
<1>1. cur[t] \in Nodes /\ Held(t) = {cur[t]} /\ new[t] = NoNode /\ probe[t] = NoNode
  BY HoldsOne DEF TreeInv
<1>2. cur'[t] = n /\ n # NoNode /\ \A s \in Threads : s # t => cur'[s] = cur[s]
  BY NodesArePaths DEF TypeInv, TypeOK
<1>3. Held(t)' = {n} /\ \A s \in Threads : s # t => Held(s)' = Held(s)
  BY <1>1, <1>2 DEF Held
<1>4. LockDiscipline'
  BY <1>1, <1>3, LockStep DEF TreeInv
<1>5. InTree(n)
  BY LinkedLockable DEF TreeInv, LockAndRelease
<1> QED BY <1>1, <1>2, <1>4, <1>5

\* A thread whose node stays off the path traverse_rightmost has walked does
\* not get onto it by one edge: it would have to pass the node held there.
LEMMA NotBehindByEdge ==
    ASSUME TypeInv, TreeInv, NEW t \in Threads, NEW s \in Threads, s # t,
           pc[s] = "link_right", pc[t] \in Linking \cup {"descend"}, NEW k \in Chars,
           IsStrictPrefixOf(cur[s], Child(cur[t], k)),
           IsStrictPrefixOf(Child(cur[t], k), probe[s])
    PROVE  FALSE
<1> USE DEF IsStrictPrefixOf
<1>1. Exclusive(s) /\ cur[s] \in Nodes /\ cur[s] \in Held(s)
  BY LinkingFacts DEF TreeInv, Linking
<1>2. cur[t] \in Nodes /\ cur[t] \in Held(t) /\ probe[s] \in Nodes
  BY NodesArePaths DEF TypeInv, TypeOK, Shape, Linking, Held
<1>3. /\ cur[s] \in Paths /\ cur[t] \in Paths /\ probe[s] \in Paths /\ k \in Int
      /\ Len(cur[s]) \in Nat /\ Len(cur[t]) \in Nat /\ Len(probe[s]) \in Nat
  BY <1>1, <1>2, NodesArePaths, ConstantsAssumption DEF Paths
<1>4. /\ Child(cur[t], k) \in Paths /\ Len(Child(cur[t], k)) = Len(cur[t]) + 1
      /\ IsPrefixOf(cur[t], Child(cur[t], k))
  BY <1>3, AppendPath DEF Child
<1>5. IsPrefixOf(cur[s], cur[t])
  BY <1>3, <1>4, PrefixOfChild DEF Child
<1>6. cur[s] # cur[t]
  BY <1>1, <1>2, HeldTogether DEF TreeInv
<1>7. Len(cur[s]) < Len(cur[t])
  BY <1>3, <1>5, <1>6, PrefixSameLength
<1>8. IsPrefixOf(cur[t], probe[s]) /\ Len(cur[t]) < Len(probe[s])
  BY <1>3, <1>4, PrefixTransitive
<1> QED BY <1>5, <1>7, <1>8 DEF TreeInv, NobodyBehind

\* Descending, looking up and starting a scan preserve the invariant.
LEMMA TreeLookup ==
    ASSUME TypeInv, TreeInv, NEW t \in Threads, Lookup(t)
    PROVE  TreeInv'
<1> USE DEF trie, locks, Goto, Linking, Scanning
<1>0. TypeInv'
  BY TypeLookup
<1>a. /\ pc \in [Threads -> PCs] /\ cur \in [Threads -> Nodes \cup {NoNode}]
      /\ \A n \in Nodes : children[n] \subseteq Chars
  BY DEF TypeInv, TypeOK
<1>1. CASE LockRoot(t)
  <2>1. cur[t] = NoNode /\ new[t] = NoNode /\ probe[t] = NoNode
    BY <1>1 DEF LockRoot, TypeInv, Shape
  <2>2. cur'[t] = Root /\ Root \in Nodes /\ Root # NoNode
    BY <1>1, <1>a, NodesArePaths DEF LockRoot
  <2>3. /\ Held(t) = {} /\ Held(t)' = {Root}
        /\ \A s \in Threads : s # t => Held(s)' = Held(s)
    BY <1>1, <1>a, <2>1, <2>2 DEF Held, LockRoot
  <2>4. LockDiscipline'
    BY <1>1, <2>2, <2>3, LockStep DEF TreeInv, LockRoot
  <2>5. Quiet(t)
    BY <1>1, <1>a DEF Quiet, LockRoot
  <2>6. InTree(cur'[t]) /\ probe'[t] = NoNode
    BY <1>1, <2>1, <2>2 DEF InTree, LockRoot
  <2>7. pc'[t] \notin {"link_first", "link_right", "link_child", "ahead", "iter2"}
    BY <1>1, <1>a DEF LockRoot
  <2>8. \A n \in Nodes : ~IsStrictPrefixOf(n, cur'[t])
    BY <2>2, NodesArePaths DEF IsStrictPrefixOf, Root, Paths
  <2>9. \A s \in Threads : pc[s] = "link_right" => cur[s] \in Nodes
    BY <1>a DEF TypeInv, Shape
  <2> QED BY <1>0, <2>4, <2>5, <2>6, <2>7, <2>8, <2>9, QuietStep
<1>2. CASE Descend(t)
  <2> DEFINE n == Child(cur[t], KChar(t))
  <2>1. /\ pc[t] = "descend" /\ KChar(t) \in children[cur[t]] /\ KChar(t) \in Chars
        /\ cur[t] \in Nodes /\ n \in Nodes
    BY <1>2, NewPathIsNode DEF Descend, NewPath
  <2>2. n # cur[t]
    BY <2>1, NodesArePaths, ConstantsAssumption, AppendPath, PrecedesIrreflexive DEF Child
  <2>3. Linked(n)
    BY <2>1, ChildInTree DEF Linked
  <2> HIDE DEF n
  <2>4. /\ LockDiscipline' /\ InTree(n) /\ cur'[t] = n /\ probe'[t] = NoNode
        /\ \A s \in Threads : s # t => cur'[s] = cur[s]
    BY <1>2, <2>1, <2>2, <2>3, MoveStep DEF Descend, n
  <2>5. Quiet(t) /\ pc'[t] = "descend"
    BY <1>2, <2>1, <2>4 DEF Quiet, Descend
  <2>6. ASSUME NEW s \in Threads, s # t, pc[s] = "link_right"
        PROVE  ~(IsStrictPrefixOf(cur[s], n) /\ IsStrictPrefixOf(n, probe[s]))
    BY <2>1, <2>6, NotBehindByEdge DEF n
  <2> QED BY <1>0, <2>4, <2>5, <2>6, QuietStep
<1>3. CASE LookupAbsent(t)
  BY <1>0, <1>3, ReturnStep DEF LookupAbsent, EdgeMissing
<1>4. CASE FindAtKey(t)
  <2>1. CASE HasValue(cur[t])
    BY <1>0, <1>4, <2>1, StayStep DEF FindAtKey, Arrived
  <2>2. CASE ~HasValue(cur[t])
    BY <1>0, <1>4, <2>2, ReturnStep DEF FindAtKey, Arrived
  <2> QED BY <2>1, <2>2
<1>5. CASE CountAtKey(t)
  BY <1>0, <1>5, ReturnStep DEF CountAtKey, Arrived
<1>6. CASE BoundAbove(t)
  <2>1. pc[t] = "descend" /\ cur[t] \in Nodes
    BY <1>6, HoldsOne DEF BoundAbove, TreeInv, EdgeMissing
  <2>2. PICK u \in Chars : /\ u \in children[cur[t]]
                           /\ LockAndRelease(t, Child(cur[t], u), {cur[t]})
                           /\ cur' = [cur EXCEPT ![t] = Child(cur[t], u)]
    BY <1>6 DEF BoundAbove, IsLowerBound, EdgeMissing
  <2> DEFINE n == Child(cur[t], u)
  <2>3. n \in Nodes /\ Linked(n)
    BY <2>1, <2>2, ChildInTree DEF TypeInv, EdgesOK, Linked
  <2>4. n # cur[t]
    BY <2>1, NodesArePaths, ConstantsAssumption, AppendPath, PrecedesIrreflexive DEF Child
  <2> HIDE DEF n
  <2>5. /\ LockDiscipline' /\ InTree(n) /\ cur'[t] = n /\ probe'[t] = NoNode
        /\ \A s \in Threads : s # t => cur'[s] = cur[s]
    BY <1>6, <2>1, <2>2, <2>3, <2>4, MoveStep DEF BoundAbove, n, EdgeMissing
  <2>6. Quiet(t) /\ pc'[t] = "scan_value"
    BY <1>6, <1>a, <2>5 DEF Quiet, BoundAbove, EdgeMissing
  <2> QED BY <1>0, <2>5, <2>6, PlainStep
<1>7. CASE BoundScan(t)
  BY <1>0, <1>7, StayStep DEF BoundScan
<1> QED BY <1>1, <1>2, <1>3, <1>4, <1>5, <1>6, <1>7 DEF Lookup

\* Erasure preserves the invariant: nodes stay where they are.
LEMMA TreeErasure ==
    ASSUME TypeInv, TreeInv, NEW t \in Threads, Erasure(t)
    PROVE  TreeInv'
<1> USE DEF trie, locks, Goto, Linking, Scanning
<1>0. TypeInv'
  BY TypeErasure
<1>1. CASE EraseAtKey(t)
  <2>1. CASE HasValue(cur[t])
    BY <1>0, <1>1, <2>1, StayStep DEF EraseAtKey, Arrived
  <2>2. CASE ~HasValue(cur[t])
    BY <1>0, <1>1, <2>2, ReturnStep DEF EraseAtKey, Arrived
  <2> QED BY <2>1, <2>2
<1>2. CASE SizeDec(t)
  BY <1>0, <1>2, ReturnStep DEF SizeDec, Decremented
<1>3. CASE EraseIteratorDec(t)
  BY <1>0, <1>3, StayStep DEF EraseIteratorDec, Decremented
<1> QED BY <1>1, <1>2, <1>3 DEF Erasure

\* A thread with two iterators holds their nodes, the first before the second.
LEMMA HoldsTwo ==
    ASSUME TypeInv, HeldInTree, AheadInOrder, NEW t \in Threads,
           pc[t] \in {"ahead", "iter2"}
    PROVE  /\ cur[t] \in Nodes /\ probe[t] \in Nodes /\ new[t] = NoNode
           /\ InTree(cur[t]) /\ InTree(probe[t])
           /\ Precedes(cur[t], probe[t]) /\ cur[t] # probe[t]
           /\ Held(t) = {cur[t], probe[t]}
<1>1. /\ cur[t] \in Nodes /\ cur[t] # NoNode /\ new[t] = NoNode
      /\ probe[t] \in Nodes /\ probe[t] # NoNode
  BY DEF TypeInv, TypeOK, Shape, Linking
<1>2. Precedes(cur[t], probe[t])
  BY DEF AheadInOrder
<1>3. cur[t] # probe[t]
  BY <1>1, <1>2, NodesArePaths, PrecedesIrreflexive
<1> QED BY <1>1, <1>2, <1>3 DEF Held, HeldInTree

\* Scans preserve the invariant: the list leads forward to linked nodes.
LEMMA TreeIteration ==
    ASSUME TypeInv, TreeInv, NEW t \in Threads, Iteration(t)
    PROVE  TreeInv'
<1> USE DEF trie, locks, Goto, Linking, Scanning
<1>0. TypeInv'
  BY TypeIteration
<1>a. /\ pc \in [Threads -> PCs] /\ probe \in [Threads -> Nodes \cup {NoNode}]
      /\ next \in [Nodes -> Nodes \cup {NoNode}]
      /\ cur \in [Threads -> Nodes \cup {NoNode}]
  BY DEF TypeInv, TypeOK
<1>1. CASE ScanStop(t)
  <2>1. CASE pc' = [pc EXCEPT ![t] = "step"]
    BY <1>0, <1>1, <2>1, StayStep DEF ScanStop
  <2>2. CASE pc' = [pc EXCEPT ![t] = "iter"]
    BY <1>0, <1>1, <2>2, StayStep DEF ScanStop
  <2> QED BY <1>1, <2>1, <2>2 DEF ScanStop
<1>2. CASE ScanNext(t)
  <2> DEFINE n == next[cur[t]]
  <2>1. pc[t] \in Scanning /\ cur[t] \in Nodes /\ n \in Nodes
    BY <1>2, <1>a, HoldsOne DEF ScanNext, TreeInv
  <2>2. Linked(n) /\ Precedes(cur[t], n)
    BY <1>2, <2>1 DEF ScanNext, TreeInv, NextForward
  <2>3. n # cur[t]
    BY <2>1, <2>2, NodesArePaths, PrecedesIrreflexive
  <2> HIDE DEF n
  <2>4. /\ LockDiscipline' /\ InTree(n) /\ cur'[t] = n /\ probe'[t] = NoNode
        /\ \A s \in Threads : s # t => cur'[s] = cur[s]
    BY <1>2, <2>1, <2>2, <2>3, MoveStep DEF ScanNext, n
  <2>5. pc'[t] \in {"step_value", "iter", "scan_geq", "scan_value"}
    BY <1>2, <1>a, <2>1 DEF ScanNext
  <2>6. Quiet(t)
    BY <1>2, <1>a, <2>1, <2>4, <2>5 DEF Quiet, ScanNext
  <2> QED BY <1>0, <2>4, <2>5, <2>6, PlainStep
<1>3. CASE ScanEnd(t)
  BY <1>0, <1>3, ReturnStep DEF ScanEnd
<1>4. CASE NextStep(t)
  <2> DEFINE n == next[Front(t)]
  <2>1. /\ pc[t] \in {"ahead_first", "ahead"} /\ cur[t] \in Nodes /\ InTree(cur[t])
        /\ Front(t) \in Nodes /\ n \in Nodes
        /\ Front(t) = cur[t] \/ Precedes(cur[t], Front(t))
        /\ Held(t) = {cur[t], Front(t)} /\ new[t] = NoNode
    <3>1. CASE pc[t] = "ahead_first"
      BY <1>4, <1>a, <3>1, HoldsOne DEF NextStep, TreeInv, Front
    <3>2. CASE pc[t] = "ahead"
      BY <1>4, <1>a, <3>2, HoldsTwo DEF NextStep, TreeInv, Front
    <3> QED BY <1>4, <3>1, <3>2 DEF NextStep
  <2>2. Linked(n) /\ Precedes(Front(t), n)
    BY <1>4, <2>1 DEF NextStep, TreeInv, NextForward
  <2>3. Precedes(cur[t], n) /\ n # cur[t] /\ n # Front(t)
    BY <2>1, <2>2, NodesArePaths, PrecedesIrreflexive, PrecedesTransitive
  <2> HIDE DEF n
  <2>4. /\ LockAndRelease(t, n, {Front(t)} \ {cur[t]}) /\ probe' = [probe EXCEPT ![t] = n]
        /\ pc' = [pc EXCEPT ![t] = "ahead"]
        /\ UNCHANGED <<children, next, op, cur, new>>
    BY <1>4 DEF NextStep, n
  <2>5. InTree(n)
    BY <2>1, <2>2, <2>4, LinkedLockable DEF TreeInv, LockAndRelease, n
  <2>6. cur[t] # NoNode /\ n # NoNode /\ probe'[t] = n
    BY <1>a, <2>1, <2>4, NodesArePaths DEF n
  <2>7. /\ Held(t)' = (Held(t) \ ({Front(t)} \ {cur[t]})) \cup {n}
        /\ \A s \in Threads : s # t => Held(s)' = Held(s)
    BY <1>a, <2>1, <2>3, <2>4, <2>6 DEF Held
  <2>8. LockDiscipline'
    <3>1. {Front(t)} \ {cur[t]} \subseteq Held(t) /\ n \notin {Front(t)} \ {cur[t]}
      BY <2>1, <2>3
    <3> QED BY <2>1, <2>4, <2>7, <3>1, LockStep DEF TreeInv, n
  <2>9. Quiet(t) /\ pc'[t] = "ahead"
    BY <1>a, <2>1, <2>4 DEF Quiet
  <2> QED BY <1>0, <2>1, <2>3, <2>4, <2>5, <2>6, <2>8, <2>9, QuietStep
<1>5. CASE NextEnd(t)
  <2>1. CASE pc[t] = "ahead_first"
    <3>1. probe[t] = NoNode /\ probe' = probe
      BY <1>5, <1>a, <2>1, HoldsOne DEF NextEnd, TreeInv
    <3> QED BY <1>0, <1>5, <2>1, <3>1, StayStep DEF NextEnd
  <2>2. CASE pc[t] = "ahead"
    <3>1. /\ cur[t] \in Nodes /\ probe[t] \in Nodes /\ new[t] = NoNode
          /\ InTree(cur[t]) /\ cur[t] # probe[t] /\ Held(t) = {cur[t], probe[t]}
      BY <2>2, HoldsTwo DEF TreeInv
    <3>2. /\ Release(t, probe[t]) /\ probe' = [probe EXCEPT ![t] = NoNode]
          /\ pc' = [pc EXCEPT ![t] = "iter"] /\ UNCHANGED <<children, next, op, cur, new>>
      BY <1>5, <2>2 DEF NextEnd
    <3>3. /\ Held(t)' = Held(t) \ {probe[t]}
          /\ \A s \in Threads : s # t => Held(s)' = Held(s)
      BY <1>a, <3>1, <3>2, NodesArePaths DEF Held
    <3>4. LockDiscipline'
      BY <3>1, <3>2, <3>3, ReleaseStep DEF TreeInv
    <3>5. Quiet(t) /\ pc'[t] = "iter" /\ probe'[t] = NoNode
      BY <1>a, <2>2, <3>2 DEF Quiet
    <3> QED BY <1>0, <3>1, <3>2, <3>4, <3>5, PlainStep
  <2> QED BY <1>5, <2>1, <2>2 DEF NextEnd
<1>6. CASE NextReturn(t)
  BY <1>0, <1>6, StayStep DEF NextReturn
<1> QED BY <1>1, <1>2, <1>3, <1>4, <1>5, <1>6 DEF Iteration

\* What the client does preserves the invariant, as long as it does not erase
\* at an iterator without value, which would leak the lock.
LEMMA TreeClient ==
    ASSUME ~EraseAnyIterator, TypeInv, TreeInv, NEW t \in Threads,
           Call(t) \/ UseIterator(t) \/ DropIterator(t)
    PROVE  TreeInv'
<1> USE DEF trie, locks, Goto, Linking
<1>0. TypeInv'
  BY TypeClient
<1>a. /\ pc \in [Threads -> PCs] /\ probe \in [Threads -> Nodes \cup {NoNode}]
      /\ op \in [Threads -> OpSet \cup {NoOp}]
      /\ cur \in [Threads -> Nodes \cup {NoNode}]
  BY DEF TypeInv, TypeOK
<1>1. CASE Call(t)
  <2>1. cur[t] = NoNode /\ new[t] = NoNode /\ probe[t] = NoNode
    BY <1>1 DEF Call, TypeInv, Shape
  <2>2. Held(t) = {} /\ \A s \in Threads : Held(s)' = Held(s)
    BY <1>1, <2>1 DEF Held, Call
  <2>3. Quiet(t) /\ pc'[t] = "lock_root" /\ \A s \in Threads : s # t => op'[s] = op[s]
    BY <1>1, <1>a DEF Quiet, Call
  <2>4. LockDiscipline'
    BY <1>1, <2>2, <2>3, SameLocks DEF TreeInv, Call
  <2> QED BY <1>0, <1>1, <2>1, <2>3, <2>4, PlainStep DEF Call
<1>2. CASE Increment(t)
  BY <1>0, <1>2, StayStep DEF Increment
<1>3. CASE NextCall(t)
  BY <1>0, <1>3, StayStep DEF NextCall
<1>4. CASE EraseIterator(t)
  BY <1>0, <1>4, StayStep DEF EraseIterator
<1>5. CASE EraseValueless(t)
  BY <1>5 DEF EraseValueless
<1>6. CASE Unlock(t)
  BY <1>0, <1>6, ReturnStep DEF Unlock
<1>7. CASE UnlockOne(t)
  <2>1. /\ cur[t] \in Nodes /\ probe[t] \in Nodes /\ new[t] = NoNode
        /\ InTree(cur[t]) /\ InTree(probe[t]) /\ cur[t] # probe[t]
        /\ Held(t) = {cur[t], probe[t]}
    BY <1>7, HoldsTwo DEF TreeInv, UnlockOne
  <2>2. PICK n \in {cur[t], probe[t]} :
           /\ Release(t, n)
           /\ cur' = [cur EXCEPT ![t] = IF n = cur[t] THEN probe[t] ELSE cur[t]]
    BY <1>7 DEF UnlockOne
  <2>3. /\ probe' = [probe EXCEPT ![t] = NoNode] /\ pc' = [pc EXCEPT ![t] = "iter"]
        /\ pc[t] = "iter2" /\ UNCHANGED <<children, next, op, new>>
    BY <1>7 DEF UnlockOne
  <2>4. /\ cur'[t] \in {cur[t], probe[t]} \ {n} /\ probe'[t] = NoNode /\ pc'[t] = "iter"
        /\ \A s \in Threads : s # t => cur'[s] = cur[s] /\ probe'[s] = probe[s]
    BY <1>a, <2>1, <2>2, <2>3
  <2>5. /\ Held(t)' = Held(t) \ {n}
        /\ \A s \in Threads : s # t => Held(s)' = Held(s)
    BY <2>1, <2>2, <2>3, <2>4, NodesArePaths DEF Held
  <2>6. LockDiscipline'
    BY <2>1, <2>2, <2>3, <2>5, ReleaseStep DEF TreeInv
  <2>7. Quiet(t)
    BY <1>a, <2>3, <2>4 DEF Quiet
  <2> QED BY <1>0, <2>1, <2>4, <2>6, <2>7, PlainStep
<1> QED BY <1>1, <1>2, <1>3, <1>4, <1>5, <1>6, <1>7 DEF UseIterator, DropIterator

-----------------------------------------------------------------------------
(* The walk to the rightmost node on the left of the new node *)

\* Below `at`, whatever is linked between the child by d and the new node is
\* below that child, when d is the last edge before the new node.
LEMMA BelowLastEdge ==
    ASSUME TypeInv, LockDiscipline, HeldInTree, Rooted,
           NEW t \in Threads, Exclusive(t), pc[t] # "link_child",
           NEW at \in Nodes, at \in Held(t),
           NEW d \in children[at], NEW m \in Nodes, Linked(m), IsStrictPrefixOf(at, m),
           ~Precedes(m, Child(at, d)), m[Len(at) + 1] \in children[at] => m[Len(at) + 1] <= d
    PROVE  IsPrefixOf(Child(at, d), m)
<1>1. at \in Paths /\ m \in Paths /\ d \in Int /\ Len(at) \in Nat /\ Len(m) \in Nat
  BY NodesArePaths, ConstantsAssumption DEF TypeInv, TypeOK, Paths
<1>2. m[Len(at) + 1] \in children[at]
  BY LinkedBelow
<1>3. m[Len(at) + 1] <= d /\ m[Len(at) + 1] \in Int
  <2>1. children[at] \subseteq Chars /\ Chars \subseteq Int
    BY ConstantsAssumption DEF TypeInv, TypeOK
  <2> QED BY <1>2, <2>1
<1>4. ~(m[Len(at) + 1] < d)
  BY <1>1, ChildPrecedesBelow DEF IsStrictPrefixOf, Child
<1>5. m[Len(at) + 1] = d
  BY <1>1, <1>3, <1>4
<1> QED BY <1>1, <1>5, ChildIsPrefix DEF IsStrictPrefixOf, Child

\* Locking the sibling to the left preserves the invariant.
LEMMA TreeLinkFirst ==
    ASSUME TypeInv, TreeInv, TypeInv', NEW t \in Threads, LinkFirst(t)
    PROVE  TreeInv'
<1> USE DEF trie, locks, Goto, Linking, IsStrictPrefixOf
<1>a. /\ pc \in [Threads -> PCs] /\ probe \in [Threads -> Nodes \cup {NoNode}]
      /\ \A n \in Nodes : children[n] \subseteq Chars
  BY DEF TypeInv, TypeOK
<1> DEFINE c == cur[t]
           k == KChar(t)
           w == new[t]
<1>1. PICK d \in Chars : /\ IsPredecessor(children[c], k, d)
                         /\ LockAndRelease(t, Child(c, d), {})
                         /\ probe' = [probe EXCEPT ![t] = Child(c, d)]
  BY DEF LinkFirst, LeftSibling
<1> DEFINE n == Child(c, d)
<1>2. /\ pc[t] = "link_first" /\ pc' = [pc EXCEPT ![t] = "link_right"]
      /\ UNCHANGED <<children, next, op, cur, new>>
  BY DEF LinkFirst, LeftSibling
<1>3. /\ Exclusive(t) /\ c \in Nodes /\ c \in Held(t) /\ InTree(c)
      /\ w \in Nodes /\ ~InTree(w) /\ k \in Chars /\ w = Child(c, k)
      /\ probe[t] = NoNode
  BY <1>2, LinkingFacts DEF TreeInv, TypeInv, Shape
<1>4. n \in Nodes /\ InTree(n) /\ d \in children[c] /\ d < k
      /\ \A e \in children[c] : e < k => e <= d
  BY <1>1, <1>3, ChildInTree DEF TypeInv, EdgesOK, IsPredecessor
<1>5. /\ c \in Paths /\ n \in Paths /\ w \in Paths /\ d \in Int /\ k \in Int /\ Len(c) \in Nat
      /\ Len(n) = Len(c) + 1 /\ n[Len(c) + 1] = d /\ IsPrefixOf(c, n) /\ Precedes(c, n)
  <2>1. c \in Paths /\ n \in Paths /\ w \in Paths /\ d \in Int /\ k \in Int
    <3>1. Chars \subseteq Int
      BY ConstantsAssumption
    <3>2. d \in Chars /\ k \in Chars
      BY <1>3
    <3> HIDE DEF c, k, w, n
    <3> QED BY <1>3, <1>4, <3>1, <3>2, NodesArePaths
  <2>2. Len(c) \in Nat
    BY <2>1 DEF Paths
  <2> QED BY <2>1, <2>2, AppendPath DEF Child
<1>6. n # NoNode /\ n # c
  BY <1>4, <1>5, NodesArePaths
<1> HIDE DEF c, k, w, n
<1>7. probe'[t] = n /\ \A s \in Threads : s # t => probe'[s] = probe[s] /\ pc'[s] = pc[s]
  BY <1>a, <1>1, <1>2 DEF n
<1>8. /\ Held(t)' = (Held(t) \ {}) \cup {n}
      /\ \A s \in Threads : s # t => Held(s)' = Held(s)
  BY <1>2, <1>3, <1>6, <1>7 DEF Held
<1>9. LockDiscipline'
  BY <1>1, <1>2, <1>4, <1>8, LockStep DEF TreeInv, n
<1>10. Quiet(t) /\ pc'[t] = "link_right" /\ cur'[t] = c
  BY <1>a, <1>2, <1>7 DEF Quiet, c
<1>11. SpineAt(c, n, w)
  <2>1. Precedes(n, w)
    BY <1>3, <1>4, <1>5, ChildPrecedesBelow DEF Child
  <2>2. ASSUME NEW m \in Nodes, Linked(m), Precedes(n, m), Precedes(m, w)
        PROVE  IsPrefixOf(n, m)
    <3>1. m \in Paths
      BY NodesArePaths
    <3>2. Precedes(c, m)
      BY <1>5, <2>2, <3>1, PrecedesTransitive
    <3>3. IsPrefixOf(c, m) /\ Len(c) < Len(m) /\ m[Len(c) + 1] < k
      BY <1>3, <1>5, <2>2, <3>1, <3>2, BetweenNodeAndChild DEF Child
    <3>4. ~Precedes(m, n)
      BY <1>5, <2>2, <3>1, PrecedesAsymmetric
    <3> QED BY <1>2, <1>3, <1>4, <2>2, <3>3, <3>4, BelowLastEdge DEF TreeInv, n
  <2> QED BY <1>5, <2>1, <2>2 DEF SpineAt
<1>12. ASSUME NEW s \in Threads, s # t, pc[s] \in Linking \cup {"descend"}
       PROVE  ~(IsStrictPrefixOf(c, cur[s]) /\ IsStrictPrefixOf(cur[s], n))
  <2>1. cur[s] \in Paths
    BY <1>12, HoldsCur DEF TreeInv
  <2> QED BY <1>5, <2>1 DEF Paths
<1>13. ASSUME NEW s \in Threads, s # t, pc[s] = "link_right"
       PROVE  ~(IsStrictPrefixOf(cur[s], cur[t]) /\ IsStrictPrefixOf(cur[t], probe[s]))
  BY <1>2, <1>13 DEF TreeInv, NobodyBehind
<1> QED BY <1>2, <1>3, <1>4, <1>7, <1>9, <1>10, <1>11, <1>12, <1>13, QuietStep
        DEF TreeInv, c, w

\* A step of traverse_rightmost preserves the invariant.
LEMMA TreeWalkRight ==
    ASSUME TypeInv, TreeInv, TypeInv', NEW t \in Threads, WalkRight(t)
    PROVE  TreeInv'
<1> USE DEF trie, locks, Goto, Linking, IsStrictPrefixOf
<1>a. /\ pc \in [Threads -> PCs] /\ probe \in [Threads -> Nodes \cup {NoNode}]
      /\ \A n \in Nodes : children[n] \subseteq Chars
  BY DEF TypeInv, TypeOK
<1> DEFINE c == cur[t]
           k == KChar(t)
           w == new[t]
           p == probe[t]
<1>1. PICK d \in Chars : /\ IsLast(children[p], d)
                         /\ LockAndRelease(t, Child(p, d), {p})
                         /\ probe' = [probe EXCEPT ![t] = Child(p, d)]
  BY DEF WalkRight
<1> DEFINE n == Child(p, d)
<1>2. pc[t] = "link_right" /\ UNCHANGED <<children, next, pc, op, cur, new>>
  BY DEF WalkRight
<1>3. /\ Exclusive(t) /\ c \in Nodes /\ c \in Held(t) /\ InTree(c)
      /\ w \in Nodes /\ ~InTree(w) /\ k \in Chars /\ w = Child(c, k)
      /\ p \in Nodes /\ p # NoNode
  BY <1>2, LinkingFacts DEF TreeInv, TypeInv, TypeOK, Shape
<1>4. n \in Nodes /\ InTree(n) /\ d \in children[p] /\ \A e \in children[p] : e <= d
  BY <1>1, <1>3, ChildInTree DEF TypeInv, EdgesOK, IsLast
<1>5. /\ c \in Paths /\ p \in Paths /\ n \in Paths /\ w \in Paths /\ d \in Int /\ k \in Int
      /\ Len(c) \in Nat /\ Len(p) \in Nat
      /\ Len(n) = Len(p) + 1 /\ IsPrefixOf(p, n) /\ Precedes(p, n)
      /\ \A i \in 1..Len(p) : n[i] = p[i]
  <2>1. c \in Paths /\ p \in Paths /\ n \in Paths /\ w \in Paths /\ d \in Int /\ k \in Int
    <3>1. Chars \subseteq Int
      BY ConstantsAssumption
    <3>2. d \in Chars /\ k \in Chars
      BY <1>3
    <3> HIDE DEF c, k, w, n, p
    <3> QED BY <1>3, <1>4, <3>1, <3>2, NodesArePaths
  <2>2. Len(c) \in Nat /\ Len(p) \in Nat
    BY <2>1 DEF Paths
  <2> QED BY <2>1, <2>2, AppendPath DEF Child
<1>6. SpineAt(c, p, w)
  BY <1>2 DEF TreeInv, RightSpine, SpineAt
<1>7. n # NoNode /\ n # p /\ p # c /\ p # w
  <2>1. Len(c) < Len(p) /\ Precedes(p, w)
    BY <1>6 DEF SpineAt
  <2> QED BY <1>4, <1>5, <2>1, NodesArePaths, PrecedesIrreflexive
<1> HIDE DEF c, k, w, p, n
<1>8. probe'[t] = n /\ \A s \in Threads : s # t => probe'[s] = probe[s]
  BY <1>a, <1>1, <1>2 DEF n
<1>9. /\ p \in Held(t) /\ Held(t)' = (Held(t) \ {p}) \cup {n}
      /\ \A s \in Threads : s # t => Held(s)' = Held(s)
  BY <1>2, <1>3, <1>7, <1>8 DEF Held, c, w, p
<1>10. LockDiscipline'
  <2>1. {p} \subseteq Held(t) /\ n \notin {p}
    BY <1>7, <1>9
  <2> QED BY <1>1, <1>2, <1>4, <1>9, <2>1, LockStep DEF TreeInv, n
<1>11. Quiet(t) /\ pc'[t] = "link_right" /\ cur'[t] = c
  BY <1>a, <1>2, <1>8 DEF Quiet, c
<1>12. SpineAt(c, n, w)
  <2>1. IsPrefixOf(c, p) /\ Len(c) < Len(p) /\ Precedes(p, w)
    BY <1>6 DEF SpineAt
  <2>2. IsPrefixOf(c, n) /\ Len(c) < Len(n) /\ n[Len(c) + 1] = p[Len(c) + 1]
    BY <1>5, <2>1, PrefixTransitive
  <2>3. Precedes(c, p)
    BY <1>5, <2>1, PrefixPrecedes
  <2>4. p[Len(c) + 1] < k
    BY <1>3, <1>5, <2>1, <2>3, BetweenNodeAndChild DEF Child
  <2>5. Precedes(n, w)
    BY <1>3, <1>5, <2>2, <2>4, ChildPrecedesBelow DEF Child
  <2>6. ASSUME NEW m \in Nodes, Linked(m), Precedes(n, m), Precedes(m, w)
        PROVE  IsPrefixOf(n, m)
    <3>1. m \in Paths
      BY NodesArePaths
    <3>2. Precedes(p, m)
      BY <1>5, <2>6, <3>1, PrecedesTransitive
    <3>3. IsPrefixOf(p, m) /\ m # p
      BY <1>5, <1>6, <2>6, <3>1, <3>2, PrecedesIrreflexive DEF SpineAt
    <3>4. Len(p) < Len(m)
      BY <1>5, <3>1, <3>3, PrefixSameLength DEF Paths
    <3>5. ~Precedes(m, n)
      BY <1>5, <2>6, <3>1, PrecedesAsymmetric
    <3> QED BY <1>2, <1>3, <1>4, <1>9, <2>6, <3>3, <3>4, <3>5, BelowLastEdge DEF TreeInv, n
  <2> QED BY <2>2, <2>5, <2>6 DEF SpineAt
<1>13. ASSUME NEW s \in Threads, s # t, pc[s] \in Linking \cup {"descend"},
              IsStrictPrefixOf(c, cur[s]), IsStrictPrefixOf(cur[s], n)
       PROVE  FALSE
  <2>1. cur[s] \in Nodes /\ cur[s] \in Held(s) /\ cur[s] \in Paths /\ Len(cur[s]) \in Nat
    BY <1>13, HoldsCur DEF TreeInv
  <2>2. IsPrefixOf(cur[s], p)
    BY <1>5, <1>13, <2>1, PrefixOfChild DEF n, Child
  <2>3. cur[s] # p
    BY <1>3, <1>9, <1>13, <2>1, HeldTogether DEF TreeInv
  <2>4. Len(cur[s]) < Len(p)
    BY <1>5, <2>1, <2>2, <2>3, PrefixSameLength
  <2> QED BY <1>2, <1>13, <2>2, <2>4 DEF TreeInv, NobodyBehind, c, p
<1>14. ASSUME NEW s \in Threads, s # t, pc[s] = "link_right"
       PROVE  ~(IsStrictPrefixOf(cur[s], cur[t]) /\ IsStrictPrefixOf(cur[t], probe[s]))
  BY <1>2, <1>14 DEF TreeInv, NobodyBehind
<1> QED BY <1>2, <1>3, <1>4, <1>8, <1>10, <1>11, <1>12, <1>13, <1>14, QuietStep
        DEF TreeInv, c, w

-----------------------------------------------------------------------------
(* New nodes *)

\* A node linked by t between another thread's rightmost_node and new_node is
\* below that rightmost_node.
LEMMA SpineGrows ==
    ASSUME TypeInv, TreeInv, NEW t \in Threads, NEW s \in Threads, s # t,
           pc[s] = "link_right", pc[t] \in Linking \cup {"descend"},
           NEW k \in Chars, NEW n \in Nodes, n = Child(cur[t], k),
           Precedes(probe[s], n), Precedes(n, new[s])
    PROVE  IsPrefixOf(probe[s], n)
<1>1. /\ Exclusive(s) /\ cur[s] \in Nodes /\ cur[s] \in Held(s)
      /\ new[s] = Child(cur[s], KChar(s)) /\ KChar(s) \in Chars /\ new[s] \in Nodes
  BY LinkingFacts DEF TreeInv, Linking
<1>2. cur[t] \in Nodes /\ cur[t] \in Held(t) /\ InTree(cur[t])
  BY HoldsCur DEF TreeInv, Linking
<1>3. probe[s] \in Nodes /\ probe[s] \in Held(s)
  BY NodesArePaths DEF TypeInv, TypeOK, Shape, Held
<1>4. k \in Int /\ KChar(s) \in Int
  <2>1. Chars \subseteq Int
    BY ConstantsAssumption
  <2> QED BY <1>1, <2>1
<1>5. /\ cur[s] \in Paths /\ cur[t] \in Paths /\ probe[s] \in Paths
      /\ n \in Paths /\ new[s] \in Paths
  BY <1>1, <1>2, <1>3, NodesArePaths
<1>6. Len(cur[s]) \in Nat /\ Len(cur[t]) \in Nat /\ Len(probe[s]) \in Nat
  BY <1>5 DEF Paths
<1>7. SpineAt(cur[s], probe[s], new[s])
  BY DEF TreeInv, RightSpine, SpineAt
<1>8. /\ Len(n) = Len(cur[t]) + 1 /\ IsPrefixOf(cur[t], n) /\ Precedes(cur[t], n)
  BY <1>4, <1>5, AppendPath DEF Child
<1>9. CASE Precedes(probe[s], cur[t])
  <2>1. Precedes(cur[t], new[s])
    BY <1>5, <1>8, PrecedesTransitive
  <2>2. IsPrefixOf(probe[s], cur[t])
    BY <1>2, <1>7, <1>9, <2>1 DEF SpineAt, Linked
  <2> QED BY <1>5, <1>8, <2>2, PrefixTransitive
<1>10. CASE IsPrefixOf(cur[t], probe[s])
  <2>1. cur[t] # probe[s]
    BY <1>1, <1>2, <1>3, HeldTogether DEF TreeInv
  <2>2. IsStrictPrefixOf(cur[t], probe[s])
    BY <1>5, <1>6, <1>10, <2>1, PrefixSameLength DEF IsStrictPrefixOf
  <2>3. Precedes(cur[s], n)
    BY <1>5, <1>7, PrefixPrecedes, PrecedesTransitive DEF SpineAt, IsStrictPrefixOf
  <2>4. IsPrefixOf(cur[s], n) /\ Len(cur[s]) < Len(n)
    BY <1>1, <1>4, <1>5, <2>3, BetweenNodeAndChild DEF Child
  <2>5. IsPrefixOf(cur[s], cur[t])
    BY <1>4, <1>5, <1>6, <1>8, <2>4, PrefixOfChild DEF Child
  <2>6. cur[s] # cur[t]
    BY <1>1, <1>2, HeldTogether DEF TreeInv
  <2>7. IsStrictPrefixOf(cur[s], cur[t])
    BY <1>5, <1>6, <2>5, <2>6, PrefixSameLength DEF IsStrictPrefixOf
  <2> QED BY <2>2, <2>7 DEF TreeInv, NobodyBehind
<1> QED BY <1>4, <1>5, <1>9, <1>10, BeforeChild DEF Child

\* Linking w between p and its successor keeps the list in order.
LEMMA ListInsertion ==
    ASSUME TypeInv, NextForward, ListIsTreeOrder,
           NEW p \in Nodes, NEW w \in Nodes, NEW x \in Nodes \cup {NoNode},
           Linked(p), ~Linked(w), Precedes(p, w),
           \A m \in Nodes : Linked(m) => ~(Precedes(p, m) /\ Precedes(m, w)),
           x # NoNode => Linked(x) /\ Precedes(w, x),
           \A m \in Nodes : Linked(m) /\ Precedes(w, m) => x # NoNode /\ ~Precedes(m, x),
           next'[w] = x, next'[p] = w,
           \A n \in Nodes : n # p /\ n # w => next'[n] = next[n],
           \A m \in Nodes : Linked(m)' <=> Linked(m) \/ m = w
    PROVE  NextForward' /\ ListIsTreeOrder'
<1>1. Nodes \subseteq Paths /\ NoNode \notin Nodes /\ next \in [Nodes -> Nodes \cup {NoNode}]
  BY NodesArePaths DEF TypeInv, TypeOK
<1>2. p # w /\ ~Precedes(w, w)
  BY <1>1, PrecedesIrreflexive
<1>3. ASSUME NEW n \in Nodes, NEW y, y = next'[n], y # NoNode
      PROVE  y \in Nodes /\ Linked(y)' /\ Precedes(n, y)
  <2>1. CASE n = w
    BY <1>3, <2>1
  <2>2. CASE n = p
    BY <1>3, <2>2
  <2>3. CASE n # p /\ n # w
    BY <1>1, <1>3, <2>3 DEF NextForward
  <2> QED BY <2>1, <2>2, <2>3
<1>4. ASSUME NEW n \in Nodes, Linked(n)', NEW m \in Nodes, Linked(m)', Precedes(n, m)
      PROVE  next'[n] # NoNode /\ ~Precedes(m, next'[n])
  <2>1. CASE n = w
    BY <1>2, <1>4, <2>1
  <2>2. CASE n = p
    BY <1>1, <1>2, <1>4, <2>2
  <2>3. CASE n # p /\ n # w /\ m # w
    BY <1>4, <2>3 DEF ListIsTreeOrder
  <2>4. CASE n # p /\ n # w /\ m = w
    <3>1. Linked(n) /\ ~Precedes(p, n)
      BY <1>4, <2>4
    <3>2. Precedes(n, p)
      BY <1>1, <2>4, <3>1, PrecedesTotal
    <3>3. next[n] # NoNode /\ ~Precedes(p, next[n]) /\ next[n] \in Nodes
      BY <1>1, <3>1, <3>2 DEF ListIsTreeOrder
    <3>4. ~Precedes(w, next[n])
      BY <1>1, <3>3, PrecedesTransitive
    <3> QED BY <2>4, <3>3, <3>4
  <2> QED BY <2>1, <2>2, <2>3, <2>4
<1>5. ASSUME NEW n \in Nodes, next'[n] # NoNode
      PROVE  Linked(next[n])' /\ Precedes(n, next'[n])
  BY <1>3, <1>5 DEF Linked, InTree
<1>6. NextForward'
  BY <1>5 DEF NextForward
<1>7. ListIsTreeOrder'
  BY <1>4, <1>5 DEF ListIsTreeOrder
<1> QED BY <1>6, <1>7

\* What a step that creates or links the new node w of t has to establish.
LEMMA NewNodeStep ==
    ASSUME TypeInv, TreeInv, TypeInv', NEW t \in Threads,
           LockDiscipline', NextForward', ListIsTreeOrder',
           pc[t] \in Linking \cup {"descend"}, pc'[t] \in {"link_first", "link_child"},
           KChar(t) \in Chars, KChar(t) \notin children[cur[t]],
           NEW w \in Nodes, w = Child(cur[t], KChar(t)),
           UNCHANGED <<children, cur, op>>, new'[t] = w, probe'[t] = NoNode,
           \A s \in Threads : s # t =>
              pc'[s] = pc[s] /\ new'[s] = new[s] /\ probe'[s] = probe[s],
           \A m \in Nodes : Linked(m)' => Linked(m) \/ m = w,
           \A s \in Threads : s # t /\ pc[s] \in Linking => next'[new[s]] = next[new[s]],
           pc'[t] = "link_first" /\ Greater(t) =>
              \E u \in Chars : /\ IsLowerBound(children[cur[t]], KChar(t), u)
                               /\ next'[w] = Child(cur[t], u)
    PROVE  TreeInv'
<1> USE DEF TreeInv
<1>0. \A n : InTree(n)' <=> InTree(n)
  BY DEF InTree
<1>1. Rooted'
  BY <1>0 DEF Rooted
<1>2. HeldInTree'
  <2> SUFFICES ASSUME NEW s \in Threads
               PROVE  /\ cur'[s] # NoNode => InTree(cur'[s])
                      /\ probe'[s] # NoNode => InTree(probe'[s])
                      /\ pc'[s] \in Linking => KChar(s)' \notin children'[cur'[s]]
    BY <1>0 DEF HeldInTree
  <2>1. KChar(s)' = KChar(s)
    BY DEF KChar
  <2> QED BY <2>1 DEF HeldInTree
<1>3. AheadInOrder'
  BY DEF AheadInOrder
<1>4. NewBeforeSibling'
  <2> SUFFICES ASSUME NEW s \in Threads, pc'[s] \in {"link_first", "link_right"}, Greater(s)'
               PROVE  \E u \in Chars : /\ IsLowerBound(children'[cur'[s]], KChar(s)', u)
                                       /\ next'[new'[s]] = Child(cur'[s], u)
    BY DEF NewBeforeSibling
  <2>1. Greater(s) /\ KChar(s)' = KChar(s)
    BY DEF Greater, KChar
  <2>2. CASE s = t
    BY <2>1, <2>2
  <2>3. CASE s # t
    BY <2>1, <2>3 DEF NewBeforeSibling, Linking
  <2> QED BY <2>2, <2>3
<1>5. RightSpine'
  <2> SUFFICES ASSUME NEW s \in Threads, pc'[s] = "link_right"
               PROVE  /\ IsStrictPrefixOf(cur[s], probe[s]) /\ Precedes(probe[s], new[s])
                      /\ \A m \in Nodes :
                            Linked(m)' /\ Precedes(probe[s], m) /\ Precedes(m, new[s]) =>
                               IsPrefixOf(probe[s], m)
    BY DEF RightSpine
  <2>1. s # t /\ pc[s] = "link_right"
    OBVIOUS
  <2>2. ASSUME NEW m \in Nodes, Linked(m)', Precedes(probe[s], m), Precedes(m, new[s])
        PROVE  IsPrefixOf(probe[s], m)
    <3>1. CASE Linked(m)
      BY <2>1, <2>2, <3>1 DEF RightSpine
    <3>2. CASE m = w
      BY <2>1, <2>2, <3>2, SpineGrows
    <3> QED BY <2>2, <3>1, <3>2
  <2> QED BY <2>1, <2>2 DEF RightSpine
<1>6. NobodyBehind'
  <2> SUFFICES ASSUME NEW r \in Threads, NEW s \in Threads, pc'[r] = "link_right", s # r,
                      pc'[s] \in Linking \cup {"descend"},
                      IsStrictPrefixOf(cur[r], cur[s]), IsStrictPrefixOf(cur[s], probe'[r])
               PROVE  FALSE
    BY DEF NobodyBehind
  <2>1. r # t /\ pc[r] = "link_right" /\ probe'[r] = probe[r]
    OBVIOUS
  <2>2. pc[s] \in Linking \cup {"descend"}
    OBVIOUS
  <2> QED BY <2>1, <2>2 DEF NobodyBehind
<1> QED BY <1>1, <1>2, <1>3, <1>4, <1>5, <1>6

\* Allocating the node for a missing edge: nobody knows it.
LEMMA AllocateFacts ==
    ASSUME TypeInv, TreeInv, NEW t \in Threads, Allocate(t), pc'[t] \in Linking,
           \A s \in Threads : s # t => pc'[s] = pc[s]
    PROVE  /\ Exclusive(t) /\ pc[t] = "descend"
           /\ cur[t] \in Nodes /\ cur[t] \in Held(t) /\ Linked(cur[t])
           /\ KChar(t) \in Chars /\ KChar(t) \notin children[cur[t]]
           /\ NewPath(t) \in Nodes /\ NewPath(t) = Child(cur[t], KChar(t))
           /\ ~Linked(NewPath(t)) /\ probe'[t] = NoNode
           /\ new'[t] = NewPath(t)
           /\ \A s \in Threads : s # t => new'[s] = new[s] /\ probe'[s] = probe[s]
           /\ \A s \in Threads : pc[s] \in Linking => new[s] # NewPath(t)
           /\ LockDiscipline'
<1> DEFINE w == NewPath(t)
<1>1. /\ pc[t] = "descend" /\ Inserting(t) /\ ~AtKey(t) /\ KChar(t) \notin children[cur[t]]
      /\ new' = [new EXCEPT ![t] = w] /\ writer' = [writer EXCEPT ![w] = t]
      /\ UNCHANGED <<children, readers, op, cur, probe>>
  BY DEF Allocate, EdgeMissing
<1>2. Exclusive(t)
  BY <1>1 DEF Inserting, Exclusive, ExclusiveOps
<1>3. /\ cur[t] \in Nodes /\ Linked(cur[t]) /\ Held(t) = {cur[t]}
      /\ new[t] = NoNode /\ probe[t] = NoNode
  BY <1>1, HoldsOne DEF TreeInv, Linking
<1>4. KChar(t) \in Chars /\ w \in Nodes /\ w = Child(cur[t], KChar(t))
  BY <1>1, NewPathIsNode DEF NewPath
<1>5. ~InTree(w)
  BY <1>1, <1>3, <1>4, ChildInTree
<1> HIDE DEF w
<1>6. ASSUME NEW s \in Threads, pc[s] \in Linking PROVE new[s] # w
  <2>1. s # t
    BY <1>1, <1>6 DEF Linking
  <2>2. /\ Exclusive(s) /\ cur[s] \in Nodes /\ cur[s] \in Held(s)
        /\ new[s] = Child(cur[s], KChar(s)) /\ KChar(s) \in Chars
    BY <1>6, LinkingFacts DEF TreeInv
  <2>3. cur[s] # cur[t]
    BY <1>3, <2>1, <2>2, HeldTogether DEF TreeInv
  <2>4. cur[s] \in Paths /\ cur[t] \in Paths
    BY <1>3, <2>2, NodesArePaths
  <2>5. KChar(s) \in Int /\ KChar(t) \in Int
    BY <1>4, <2>2, CharsAreIntegers
  <2>6. Append(cur[s], KChar(s)) # Append(cur[t], KChar(t))
    BY <2>3, <2>4, <2>5, AppendInjective
  <2> QED BY <1>4, <2>2, <2>6 DEF Child
<1>7. ~Linked(w)
  BY <1>5, <1>6 DEF Linked, Linking
<1>8. ASSUME NEW s \in Threads PROVE w \notin Held(s)
  <2>1. w # NoNode
    BY <1>4, NodesArePaths
  <2>2. new[s] # w
    BY <1>6, <2>1 DEF TypeInv, Shape
  <2>3. cur[s] # w /\ probe[s] # w
    BY <1>5, <2>1 DEF TreeInv, HeldInTree
  <2> QED BY <2>2, <2>3 DEF Held
<1>9. writer[w] = NoThread /\ readers[w] = {}
  <2>1. writer[w] \in Threads \cup {NoThread} /\ readers[w] \subseteq Threads
    BY <1>4 DEF TypeInv, TypeOK
  <2> QED BY <1>4, <1>8, <2>1 DEF TreeInv, LockDiscipline
<1>10. new'[t] = w /\ \A s \in Threads : s # t => new'[s] = new[s]
  BY <1>1 DEF TypeInv, TypeOK
<1>11. /\ Held(t)' = Held(t) \cup {w}
       /\ \A s \in Threads : s # t => Held(s)' = Held(s)
  <2>1. w # NoNode
    BY <1>4, NodesArePaths
  <2> QED BY <1>1, <1>3, <1>10, <2>1 DEF Held
<1>12. LockAndRelease(t, w, {})
  <2>1. writer' = [m \in Nodes |-> IF m \in {} THEN NoThread
                                   ELSE IF m = w THEN t ELSE writer[m]]
    BY <1>1, <1>4 DEF TypeInv, TypeOK
  <2> QED BY <1>1, <1>2, <1>9, <2>1 DEF LockAndRelease, CanLock
<1>13. LockDiscipline'
  <2>1. Held(t)' = (Held(t) \ {}) \cup {w}
    BY <1>11
  <2> QED BY <1>1, <1>4, <1>11, <1>12, <2>1, LockStep DEF TreeInv
<1> QED BY <1>1, <1>2, <1>3, <1>4, <1>6, <1>7, <1>10, <1>13 DEF w

\* The child by the edge that follows k comes after a new child by k and before
\* whatever is linked after that.
LEMMA NextSiblingFollows ==
    ASSUME TypeInv, LockDiscipline, HeldInTree, Rooted,
           NEW t \in Threads, Exclusive(t), pc[t] # "link_child",
           NEW c \in Nodes, c \in Held(t),
           NEW k \in Chars, k \notin children[c], Child(c, k) \in Nodes,
           NEW u \in Chars, IsLowerBound(children[c], k, u)
    PROVE  /\ Child(c, u) \in Nodes /\ Linked(Child(c, u))
           /\ Precedes(Child(c, k), Child(c, u))
           /\ \A m \in Nodes : Linked(m) /\ Precedes(Child(c, k), m) =>
                 ~Precedes(m, Child(c, u))
<1> USE DEF Child
<1>1. /\ u \in children[c] /\ u >= k /\ \A d \in children[c] : d >= k => u <= d
  BY DEF IsLowerBound
<1>2. Append(c, u) \in Nodes /\ Linked(Append(c, u))
  BY <1>1, ChildInTree DEF TypeInv, EdgesOK, Linked
<1>3. /\ Nodes \subseteq Paths /\ u \in Int /\ k \in Int /\ Chars \subseteq Int
      /\ children[c] \subseteq Chars
  <2>1. Chars \subseteq Int /\ children[c] \subseteq Chars
    BY ConstantsAssumption DEF TypeInv, TypeOK
  <2> QED BY <2>1, NodesArePaths
<1>4. k < u
  BY <1>1, <1>3
<1>5. /\ Len(Append(c, k)) = Len(c) + 1 /\ Append(c, k)[Len(c) + 1] = k
      /\ IsPrefixOf(c, Append(c, k)) /\ Precedes(c, Append(c, k)) /\ Len(c) \in Nat
  BY <1>3, AppendPath DEF Paths
<1>6. Precedes(Append(c, k), Append(c, u))
  <2>1. Len(c) < Len(Append(c, k))
    BY <1>5
  <2> QED BY <1>3, <1>4, <1>5, <2>1, ChildPrecedesBelow
<1>7. ASSUME NEW m \in Nodes, Linked(m), Precedes(Append(c, k), m), Precedes(m, Append(c, u))
      PROVE  FALSE
  <2>1. Precedes(c, m)
    BY <1>3, <1>5, <1>7, PrecedesTransitive
  <2>2. IsPrefixOf(c, m) /\ Len(c) < Len(m) /\ m[Len(c) + 1] < u
    BY <1>3, <1>7, <2>1, BetweenNodeAndChild
  <2>3. m[Len(c) + 1] \in children[c]
    BY <1>7, <2>2, LinkedBelow DEF IsStrictPrefixOf
  <2>4. m[Len(c) + 1] < k
    <3>1. m[Len(c) + 1] \in Int
      BY <1>3, <2>3
    <3> QED BY <1>1, <1>3, <2>2, <2>3, <3>1
  <2>5. Precedes(m, Append(c, k))
    BY <1>3, <2>2, <2>4, ChildPrecedesBelow
  <2> QED BY <1>3, <1>7, <2>5, PrecedesAsymmetric
<1> QED BY <1>2, <1>6, <1>7

\* What is linked by a step that adds no edge.
LEMMA LinkedGrows ==
    ASSUME NEW t \in Threads, NEW w, UNCHANGED children, pc[t] # "link_child",
           new'[t] = w, \A s \in Threads : s # t => pc'[s] = pc[s] /\ new'[s] = new[s],
           NEW m
    PROVE  Linked(m)' <=> Linked(m) \/ (pc'[t] = "link_child" /\ m = w)
<1>1. InTree(m)' <=> InTree(m)
  BY DEF InTree
<1>2. (\E s \in Threads : pc[s] = "link_child" /\ new[s] = m)'
         <=> \/ \E s \in Threads : pc[s] = "link_child" /\ new[s] = m
             \/ pc'[t] = "link_child" /\ m = w
  OBVIOUS
<1> QED BY <1>1, <1>2 DEF Linked

\* Creating a node between two siblings, or after the last one, preserves the
\* invariant; the node is not linked yet.
LEMMA TreeCreateLinkLater ==
    ASSUME TypeInv, TreeInv, TypeInv', NEW t \in Threads, CreateMiddle(t) \/ CreateLast(t)
    PROVE  TreeInv'
<1> USE DEF Goto, Linking
<1> DEFINE w == NewPath(t)
<1>a. pc \in [Threads -> PCs] /\ next \in [Nodes -> Nodes \cup {NoNode}]
  BY DEF TypeInv, TypeOK
<1>1. /\ Allocate(t) /\ pc' = [pc EXCEPT ![t] = "link_first"]
      /\ UNCHANGED <<children, op, cur>>
  BY DEF CreateMiddle, CreateLast, Allocate, EdgeMissing
<1>2. pc'[t] = "link_first" /\ \A s \in Threads : s # t => pc'[s] = pc[s]
  BY <1>a, <1>1
<1>3. /\ Exclusive(t) /\ pc[t] = "descend"
      /\ cur[t] \in Nodes /\ cur[t] \in Held(t)
      /\ KChar(t) \in Chars /\ KChar(t) \notin children[cur[t]]
      /\ w \in Nodes /\ w = Child(cur[t], KChar(t)) /\ ~Linked(w)
      /\ probe'[t] = NoNode /\ new'[t] = w
      /\ \A s \in Threads : s # t => new'[s] = new[s] /\ probe'[s] = probe[s]
      /\ \A s \in Threads : pc[s] \in Linking => new[s] # w
      /\ LockDiscipline'
  BY <1>1, <1>2, AllocateFacts
<1> HIDE DEF w
<1>4. \A m : Linked(m)' <=> Linked(m)
  BY <1>1, <1>2, <1>3, LinkedGrows
<1>5. /\ \A n \in Nodes : n # w => next'[n] = next[n]
      /\ \/ next'[w] = next[w] /\ ~Greater(t)
         \/ \E u \in Chars : /\ IsLowerBound(children[cur[t]], KChar(t), u)
                             /\ next'[w] = Child(cur[t], u)
  <2>1. CASE CreateMiddle(t)
    BY <1>a, <1>3, <2>1 DEF CreateMiddle, w
  <2>2. CASE CreateLast(t)
    BY <1>a, <2>2 DEF CreateLast
  <2> QED BY <2>1, <2>2
<1>6. ASSUME NEW n \in Nodes, NEW y, y = next'[n], y # NoNode
      PROVE  Linked(y) /\ Precedes(n, y)
  <2>1. CASE next'[n] = next[n]
    BY <1>6, <2>1 DEF TreeInv, NextForward
  <2>2. CASE next'[n] # next[n]
    <3>1. n = w
      BY <1>5, <2>2
    <3>2. PICK u \in Chars : /\ IsLowerBound(children[cur[t]], KChar(t), u)
                             /\ next'[w] = Child(cur[t], u)
      BY <1>5, <2>2, <3>1
    <3> QED BY <1>3, <1>6, <3>1, <3>2, NextSiblingFollows DEF TreeInv
  <2> QED BY <2>1, <2>2
<1>7. NextForward'
  <2>1. ASSUME NEW n \in Nodes, next'[n] # NoNode
        PROVE  Linked(next[n])' /\ Precedes(n, next'[n])
    <3>1. Linked(next'[n]) /\ Precedes(n, next'[n])
      BY <1>6, <2>1
    <3>2. Linked(next[n])' <=> Linked(next'[n])
      BY <1>1, <1>2, <1>3 DEF Linked, InTree
    <3> QED BY <3>1, <3>2
  <2> QED BY <2>1 DEF NextForward
<1>8. ListIsTreeOrder'
  <2> SUFFICES ASSUME NEW n \in Nodes, Linked(n)'
               PROVE  /\ next'[n] # NoNode => Linked(next[n])' /\ Precedes(n, next'[n])
                      /\ \A m \in Nodes : Linked(m)' /\ Precedes(n, m) =>
                            next'[n] # NoNode /\ ~Precedes(m, next'[n])
    BY DEF ListIsTreeOrder
  <2>1. next'[n] = next[n] /\ Linked(n)
    BY <1>3, <1>4, <1>5
  <2>2. next'[n] # NoNode => Linked(next[n])' /\ Precedes(n, next'[n])
    BY <1>7 DEF NextForward
  <2> QED BY <1>4, <2>1, <2>2 DEF TreeInv, ListIsTreeOrder
<1>9. ASSUME NEW s \in Threads, pc[s] \in Linking PROVE next'[new[s]] = next[new[s]]
  BY <1>3, <1>5, <1>9, LinkingFacts DEF TreeInv
<1> QED BY <1>1, <1>2, <1>3, <1>4, <1>5, <1>7, <1>8, <1>9, NewNodeStep

\* Creating a first child links it between its parent and what followed.
LEMMA TreeCreateFirst ==
    ASSUME TypeInv, TreeInv, TypeInv', NEW t \in Threads, CreateFirst(t) \/ CreateOnly(t)
    PROVE  TreeInv'
<1> USE DEF Goto, Linking
<1> DEFINE w == NewPath(t)
           c == cur[t]
           k == KChar(t)
<1>a. pc \in [Threads -> PCs] /\ next \in [Nodes -> Nodes \cup {NoNode}]
  BY DEF TypeInv, TypeOK
<1>1. /\ Allocate(t) /\ pc' = [pc EXCEPT ![t] = "link_child"]
      /\ UNCHANGED <<children, op, cur>> /\ ~Smaller(t)
  BY DEF CreateFirst, CreateOnly, Allocate, Smaller, EdgeMissing
<1>2. pc'[t] = "link_child" /\ \A s \in Threads : s # t => pc'[s] = pc[s]
  BY <1>a, <1>1
<1>3. /\ Exclusive(t) /\ pc[t] = "descend"
      /\ c \in Nodes /\ c \in Held(t) /\ Linked(c)
      /\ k \in Chars /\ k \notin children[c]
      /\ w \in Nodes /\ w = Child(c, k) /\ ~Linked(w)
      /\ probe'[t] = NoNode /\ new'[t] = w
      /\ \A s \in Threads : s # t => new'[s] = new[s] /\ probe'[s] = probe[s]
      /\ \A s \in Threads : pc[s] \in Linking => new[s] # w
      /\ LockDiscipline'
  BY <1>1, <1>2, AllocateFacts
<1>4. c \in Paths /\ w \in Paths /\ k \in Int /\ Precedes(c, w) /\ c # w
  <2>1. c \in Paths /\ w \in Paths /\ k \in Int
    BY <1>3, NodesArePaths, CharsAreIntegers
  <2>2. Precedes(c, w)
    BY <1>3, <2>1, AppendPath DEF Child
  <2> QED BY <2>1, <2>2, PrecedesIrreflexive
<1>b. \A d \in children[c] : ~(d < k)
  BY <1>1 DEF Smaller
<1>5. PICK x \in Nodes \cup {NoNode} :
         /\ next' = [next EXCEPT ![w] = x, ![c] = w]
         /\ \/ \E u \in Chars : IsLowerBound(children[c], k, u) /\ x = Child(c, u)
            \/ children[c] = {} /\ x = next[c]
  <2>1. CASE CreateFirst(t)
    <3>1. PICK u \in Chars :
             /\ IsLowerBound(children[c], k, u)
             /\ next' = [next EXCEPT ![w] = Child(c, u), ![c] = w]
      BY <2>1 DEF CreateFirst
    <3>2. Child(c, u) \in Nodes
      BY <1>3, <3>1, NextSiblingFollows DEF TreeInv
    <3> QED BY <3>1, <3>2
  <2>2. CASE CreateOnly(t)
    BY <1>a, <1>3, <2>2 DEF CreateOnly
  <2> QED BY <2>1, <2>2
<1> HIDE DEF w, c, k
<1>6. ASSUME NEW m \in Nodes, Linked(m), Precedes(c, m), Precedes(m, w)
      PROVE  FALSE
  <2>1. m \in Paths
    BY NodesArePaths
  <2>2. IsPrefixOf(c, m) /\ Len(c) < Len(m) /\ m[Len(c) + 1] < k
    BY <1>3, <1>4, <1>6, <2>1, BetweenNodeAndChild DEF Child
  <2>3. m[Len(c) + 1] \in children[c]
    BY <1>3, <1>6, <2>2, LinkedBelow DEF IsStrictPrefixOf, TreeInv
  <2> QED BY <1>b, <2>2, <2>3
<1>7. /\ x # NoNode => Linked(x) /\ Precedes(w, x)
      /\ \A m \in Nodes : Linked(m) /\ Precedes(w, m) => x # NoNode /\ ~Precedes(m, x)
  <2>1. ASSUME NEW u \in Chars, IsLowerBound(children[c], k, u), x = Child(c, u)
        PROVE  <1>7!:
    BY <1>3, <2>1, NextSiblingFollows, NodesArePaths DEF TreeInv
  <2>2. CASE x = next[c]
    <3>1. ASSUME x # NoNode PROVE Linked(x) /\ Precedes(w, x)
      <4>1. x \in Nodes /\ Linked(x) /\ Precedes(c, x)
        BY <1>3, <2>2, <3>1 DEF TreeInv, NextForward
      <4>2. x # w /\ ~Precedes(x, w) /\ x \in Paths
        BY <1>3, <1>6, <4>1, NodesArePaths
      <4> QED BY <1>4, <4>1, <4>2, PrecedesTotal
    <3>2. ASSUME NEW m \in Nodes, Linked(m), Precedes(w, m)
          PROVE  x # NoNode /\ ~Precedes(m, x)
      <4>1. Precedes(c, m)
        BY <1>4, <3>2, NodesArePaths, PrecedesTransitive
      <4> QED BY <1>3, <2>2, <3>2, <4>1 DEF TreeInv, ListIsTreeOrder
    <3> QED BY <3>1, <3>2
  <2> QED BY <1>5, <2>1, <2>2
<1>8. \A m : Linked(m)' <=> Linked(m) \/ m = w
  BY <1>1, <1>2, <1>3, LinkedGrows
<1>9. /\ next'[w] = x /\ next'[c] = w
      /\ \A n \in Nodes : n # c /\ n # w => next'[n] = next[n]
  BY <1>a, <1>3, <1>4, <1>5
<1>10. NextForward' /\ ListIsTreeOrder'
  BY <1>3, <1>4, <1>6, <1>7, <1>8, <1>9, ListInsertion DEF TreeInv
<1>11. ASSUME NEW s \in Threads, pc[s] \in Linking PROVE next'[new[s]] = next[new[s]]
  <2>1. new[s] \in Nodes /\ new[s] # w /\ ~InTree(new[s])
    BY <1>3, <1>11, LinkingFacts DEF TreeInv
  <2>2. InTree(c)
    BY <1>3, HoldsCur DEF TreeInv, c
  <2> QED BY <1>9, <2>1, <2>2
<1> QED BY <1>1, <1>2, <1>3, <1>8, <1>10, <1>11, NewNodeStep DEF c, k

\* Linking the new node after the rightmost node preserves the invariant.
LEMMA TreeLinkRight ==
    ASSUME TypeInv, TreeInv, TypeInv', NEW t \in Threads, LinkRight(t)
    PROVE  TreeInv'
<1> USE DEF Goto, Linking
<1> DEFINE w == new[t]
           c == cur[t]
           k == KChar(t)
           p == probe[t]
           x == IF Greater(t) THEN next[w] ELSE next[p]
<1>a. /\ pc \in [Threads -> PCs] /\ next \in [Nodes -> Nodes \cup {NoNode}]
      /\ probe \in [Threads -> Nodes \cup {NoNode}]
      /\ writer \in [Nodes -> Threads \cup {NoThread}]
  BY DEF TypeInv, TypeOK
<1>1. /\ pc[t] = "link_right" /\ children[p] = {}
      /\ next' = [next EXCEPT ![w] = IF Greater(t) THEN @ ELSE next[p], ![p] = w]
      /\ writer' = [writer EXCEPT ![p] = NoThread] /\ readers' = readers
      /\ pc' = [pc EXCEPT ![t] = "link_child"] /\ probe' = [probe EXCEPT ![t] = NoNode]
      /\ UNCHANGED <<children, op, cur, new>>
  BY DEF LinkRight, RightLinks
<1>2. /\ pc'[t] = "link_child" /\ probe'[t] = NoNode
      /\ \A s \in Threads : s # t => pc'[s] = pc[s] /\ probe'[s] = probe[s]
  BY <1>a, <1>1
<1>3. /\ Exclusive(t) /\ c \in Nodes /\ c \in Held(t) /\ InTree(c)
      /\ w \in Nodes /\ w \in Held(t) /\ ~InTree(w) /\ k \in Chars /\ w = Child(c, k)
      /\ k \notin children[c]
  BY <1>1, LinkingFacts DEF TreeInv, HeldInTree
<1>4. p \in Nodes /\ p # NoNode /\ p \in Held(t) /\ InTree(p)
  BY <1>1, NodesArePaths DEF TypeInv, TypeOK, Shape, TreeInv, HeldInTree, Held
<1>5. SpineAt(c, p, w)
  BY <1>1 DEF TreeInv, RightSpine, SpineAt
<1>6. /\ c \in Paths /\ p \in Paths /\ w \in Paths /\ Precedes(p, w) /\ p # w /\ p # c
      /\ Precedes(c, p)
  <2>1. c \in Paths /\ p \in Paths /\ w \in Paths
    BY <1>3, <1>4, NodesArePaths
  <2>2. Precedes(p, w) /\ Precedes(c, p)
    BY <1>5, <2>1, PrefixPrecedes DEF SpineAt, IsStrictPrefixOf
  <2> QED BY <2>1, <2>2, PrecedesIrreflexive
<1>b. Greater(t) <=> \E d \in children[c] : d > k
  BY DEF Greater
<1>c. Greater(t) => \E u \in Chars : IsLowerBound(children[c], k, u) /\ next[w] = Child(c, u)
  BY <1>1 DEF TreeInv, NewBeforeSibling
<1>7. ~Linked(w)
  BY <1>1, <1>3, NewNodesDiffer DEF Linked, TreeInv
<1>8. /\ next'[w] = x /\ next'[p] = w /\ x \in Nodes \cup {NoNode}
      /\ \A n \in Nodes : n # p /\ n # w => next'[n] = next[n]
  BY <1>a, <1>1, <1>3, <1>4, <1>6
<1>9. x = IF Greater(t) THEN next[w] ELSE next[p]
  OBVIOUS
<1>10. Release(t, p)
  BY <1>1, <1>3 DEF Release
<1> HIDE DEF w, c, k, p, x
<1>11. LockDiscipline'
  <2>1. /\ Held(t)' = Held(t) \ {p}
        /\ \A s \in Threads : s # t => Held(s)' = Held(s)
    BY <1>1, <1>2, <1>4, <1>6 DEF Held, w, c, p
  <2> QED BY <1>1, <1>4, <1>10, <2>1, ReleaseStep DEF TreeInv
<1>12. ASSUME NEW m \in Nodes, Linked(m), Precedes(p, m), Precedes(m, w)
       PROVE  FALSE
  <2>1. m \in Paths /\ IsPrefixOf(p, m)
    BY <1>5, <1>12, NodesArePaths DEF SpineAt
  <2>2. m # p
    BY <1>6, <1>12, PrecedesIrreflexive
  <2>3. IsStrictPrefixOf(p, m)
    BY <1>6, <2>1, <2>2, PrefixSameLength DEF IsStrictPrefixOf, Paths
  <2> QED BY <1>1, <1>3, <1>4, <1>12, <2>3, LinkedBelow DEF TreeInv
<1>13. /\ x # NoNode => Linked(x) /\ Precedes(w, x)
       /\ \A m \in Nodes : Linked(m) /\ Precedes(w, m) => x # NoNode /\ ~Precedes(m, x)
  <2>1. CASE Greater(t)
    <3>1. PICK u \in Chars : IsLowerBound(children[c], k, u) /\ x = Child(c, u)
      BY <1>9, <1>c, <2>1
    <3> QED BY <1>1, <1>3, <3>1, NextSiblingFollows, NodesArePaths DEF TreeInv
  <2>2. CASE ~Greater(t)
    <3>1. ASSUME x # NoNode PROVE Linked(x) /\ Precedes(w, x)
      <4>1. x \in Nodes /\ Linked(x) /\ Precedes(p, x)
        BY <1>4, <1>8, <1>9, <2>2, <3>1 DEF TreeInv, NextForward
      <4>2. x # w /\ ~Precedes(x, w) /\ x \in Paths
        BY <1>7, <1>12, <4>1, NodesArePaths
      <4> QED BY <1>6, <4>1, <4>2, PrecedesTotal
    <3>2. ASSUME NEW m \in Nodes, Linked(m), Precedes(w, m)
          PROVE  x # NoNode /\ ~Precedes(m, x)
      <4>1. Precedes(p, m)
        BY <1>6, <3>2, NodesArePaths, PrecedesTransitive
      <4>2. Linked(p)
        BY <1>4 DEF Linked
      <4> QED BY <1>4, <1>9, <2>2, <3>2, <4>1, <4>2 DEF TreeInv, ListIsTreeOrder
    <3> QED BY <3>1, <3>2
  <2> QED BY <2>1, <2>2
<1>14. \A m : Linked(m)' <=> Linked(m) \/ m = w
  BY <1>1, <1>2, LinkedGrows DEF w
<1>15. NextForward' /\ ListIsTreeOrder'
  BY <1>3, <1>4, <1>6, <1>7, <1>8, <1>12, <1>13, <1>14, ListInsertion DEF TreeInv, Linked
<1>16. ASSUME NEW s \in Threads, s # t, pc[s] \in Linking PROVE next'[new[s]] = next[new[s]]
  <2>1. new[s] \in Nodes /\ ~InTree(new[s]) /\ new[s] # w
    BY <1>1, <1>16, LinkingFacts, NewNodesDiffer DEF TreeInv, w
  <2> QED BY <1>4, <1>8, <2>1
<1> QED BY <1>1, <1>2, <1>3, <1>11, <1>14, <1>15, <1>16, NewNodeStep DEF c, k, w

\* Adding the edge to the new node preserves the invariant: the node was linked
\* already.
LEMMA TreeLinkChild ==
    ASSUME TypeInv, TreeInv, TypeInv', NEW t \in Threads, LinkChild(t)
    PROVE  TreeInv'
<1> USE DEF Goto, Linking
<1> DEFINE w == new[t]
           c == cur[t]
           k == KChar(t)
<1>a. /\ pc \in [Threads -> PCs] /\ new \in [Threads -> Nodes \cup {NoNode}]
      /\ cur \in [Threads -> Nodes \cup {NoNode}] /\ children \in [Nodes -> SUBSET Chars]
      /\ writer \in [Nodes -> Threads \cup {NoThread}]
  BY DEF TypeInv, TypeOK
<1>1. /\ pc[t] = "link_child" /\ children' = [children EXCEPT ![c] = @ \cup {k}]
      /\ writer' = [writer EXCEPT ![c] = NoThread] /\ readers' = readers
      /\ cur' = [cur EXCEPT ![t] = w] /\ new' = [new EXCEPT ![t] = NoNode]
      /\ pc' = [pc EXCEPT ![t] = "descend"] /\ UNCHANGED <<next, op, probe>>
  BY DEF LinkChild
<1>2. /\ pc'[t] = "descend" /\ cur'[t] = w /\ new'[t] = NoNode
      /\ \A s \in Threads : s # t => pc'[s] = pc[s] /\ cur'[s] = cur[s] /\ new'[s] = new[s]
  BY <1>a, <1>1
<1>3. /\ Exclusive(t) /\ c \in Nodes /\ c \in Held(t) /\ InTree(c)
      /\ w \in Nodes /\ w \in Held(t) /\ ~InTree(w) /\ k \in Chars /\ w = Child(c, k)
      /\ k \notin children[c] /\ probe[t] = NoNode
  BY <1>1, LinkingFacts DEF TreeInv, HeldInTree, TypeInv, Shape
<1>4. /\ children'[c] = children[c] \cup {k}
      /\ \A n \in Nodes : n # c => children'[n] = children[n]
      /\ \A n \in Nodes : children[n] \subseteq children'[n]
  BY <1>a, <1>1, <1>3
<1>5. Release(t, c)
  BY <1>1, <1>3 DEF Release
<1>6. c # w /\ c # NoNode /\ w # NoNode
  BY <1>3, NodesArePaths
<1> HIDE DEF w, c, k
<1>7. LockDiscipline'
  <2>1. /\ Held(t)' = Held(t) \ {c}
        /\ \A s \in Threads : s # t => Held(s)' = Held(s)
    BY <1>1, <1>2, <1>3, <1>6 DEF Held, w, c
  <2> QED BY <1>1, <1>3, <1>5, <2>1, ReleaseStep DEF TreeInv
<1>8. \A n : InTree(n)' <=> InTree(n) \/ n = w
  <2>1. ASSUME NEW n, InTree(n)' PROVE InTree(n) \/ n = w
    <3>1. ASSUME NEW m \in Nodes, NEW d \in children'[m], n = Child(m, d)
          PROVE  InTree(n) \/ n = w
      <4>1. CASE d \in children[m]
        BY <3>1, <4>1 DEF InTree
      <4>2. CASE d \notin children[m]
        BY <1>3, <1>4, <3>1, <4>2
      <4> QED BY <4>1, <4>2
    <3> QED BY <2>1, <3>1 DEF InTree
  <2>2. ASSUME NEW n, InTree(n) PROVE InTree(n)'
    BY <1>4, <2>2 DEF InTree
  <2>3. ASSUME NEW n, n = w PROVE InTree(n)'
    BY <1>3, <1>4, <2>3 DEF InTree
  <2> QED BY <2>1, <2>2, <2>3
<1>9. \A n : Linked(n)' <=> Linked(n)
  <2>1. ASSUME NEW n
        PROVE  (\E s \in Threads : pc[s] = "link_child" /\ new[s] = n)
                 <=> (\E s \in Threads : pc[s] = "link_child" /\ new[s] = n)' \/ n = w
    BY <1>1, <1>2 DEF w
  <2> QED BY <1>8, <2>1 DEF Linked
<1>10. Rooted'
  <2> SUFFICES ASSUME NEW n \in Nodes, InTree(n)', NEW i \in 1..Len(n)
               PROVE  n[i] \in children'[SubSeq(n, 1, i - 1)]
    BY DEF Rooted
  <2>1. n \in Paths /\ Len(n) \in Nat /\ i - 1 \in 0..Len(n) /\ i \in 1..Len(n)
    BY NodesArePaths DEF Paths
  <2>2. SubSeq(n, 1, i - 1) \in Nodes
    BY <2>1, NodesPrefixClosed
  <2>3. CASE InTree(n)
    BY <1>4, <2>2, <2>3 DEF TreeInv, Rooted
  <2>4. CASE n = w
    <3>1. c \in Paths /\ k \in Int /\ Len(c) \in Nat
      BY <1>3, NodesArePaths, CharsAreIntegers DEF Paths
    <3>2. /\ Len(n) = Len(c) + 1 /\ n[Len(c) + 1] = k
          /\ \A j \in 1..Len(c) : n[j] = c[j]
      BY <1>3, <2>4, <3>1, AppendPath DEF Child
    <3> DEFINE q == SubSeq(n, 1, i - 1)
    <3>3. q \in Paths /\ Len(q) = i - 1 /\ \A j \in 1..(i - 1) : q[j] = n[j]
      BY <2>1, SubSeqPath
    <3> HIDE DEF q
    <3>4. i - 1 <= Len(c) /\ IsPrefixOf(q, c)
      BY <2>1, <3>1, <3>2, <3>3 DEF IsPrefixOf
    <3>5. CASE i - 1 = Len(c)
      <4>1. q = c
        BY <3>1, <3>3, <3>4, <3>5, PrefixSameLength
      <4>2. n[i] = k
        BY <2>1, <3>2, <3>5
      <4> QED BY <1>4, <4>1, <4>2 DEF q
    <3>6. CASE i - 1 < Len(c)
      <4>1. c[Len(q) + 1] \in children[q]
        BY <1>3, <3>3, <3>4, <3>6, AboveInTree DEF TreeInv
      <4>2. n[i] = c[i] /\ Len(q) + 1 = i
        BY <2>1, <3>1, <3>2, <3>3, <3>6
      <4> QED BY <1>4, <2>2, <4>1, <4>2 DEF q
    <3> QED BY <2>1, <3>1, <3>4, <3>5, <3>6
  <2> QED BY <1>8, <2>3, <2>4
<1>11. ASSUME NEW s \in Threads, s # t, pc[s] \in Linking
       PROVE  children'[cur[s]] = children[cur[s]]
  <2>1. cur[s] \in Nodes /\ cur[s] \in Held(s)
    BY <1>11, LinkingFacts DEF TreeInv
  <2>2. cur[s] # c
    BY <1>3, <1>11, <2>1, HeldTogether DEF TreeInv
  <2> QED BY <1>4, <2>1, <2>2
<1>12. HeldInTree'
  <2> SUFFICES ASSUME NEW s \in Threads
               PROVE  /\ cur'[s] # NoNode => InTree(cur[s])'
                      /\ probe'[s] # NoNode => InTree(probe[s])'
                      /\ pc'[s] \in Linking => KChar(s)' \notin children'[cur'[s]]
    BY DEF HeldInTree
  <2>1. \A n \in Nodes : (cur'[s] = n => (InTree(n)' <=> InTree(cur[s])'))
    BY DEF InTree
  <2>2. \A n \in Nodes : (probe'[s] = n => (InTree(n)' <=> InTree(probe[s])'))
    BY DEF InTree
  <2>3. probe[s] \in Nodes \cup {NoNode} /\ cur[s] \in Nodes \cup {NoNode}
    BY DEF TypeInv, TypeOK
  <2>4. CASE s = t
    BY <1>1, <1>2, <1>3, <1>8, <2>1, <2>2, <2>4
  <2>5. CASE s # t
    <3>1. cur'[s] = cur[s] /\ probe'[s] = probe[s] /\ pc'[s] = pc[s]
      BY <1>1, <1>2, <2>5
    <3>2. KChar(s)' = KChar(s)
      BY <1>1, <3>1 DEF KChar
    <3>3. pc[s] \in Linking => KChar(s) \notin children[cur[s]]
      BY DEF TreeInv, HeldInTree
    <3> QED BY <1>8, <1>11, <2>1, <2>2, <2>3, <2>5, <3>1, <3>2, <3>3 DEF TreeInv, HeldInTree
  <2> QED BY <2>4, <2>5
<1>13. NextForward'
  <2>1. \A n \in Nodes : next[n] # NoNode => Linked(next[n]) /\ Precedes(n, next[n])
    BY DEF TreeInv, NextForward
  <2>2. \A n \in Nodes : Linked(next[n])' <=> Linked(next[n])
    <3>1. ASSUME NEW n \in Nodes, NEW y, y = next[n] PROVE Linked(next[n])' <=> Linked(y)'
      BY <1>1, <3>1 DEF Linked, InTree
    <3> QED BY <1>9, <3>1
  <2> QED BY <1>1, <2>1, <2>2 DEF NextForward
<1>14. ListIsTreeOrder'
  <2>1. \A n \in Nodes : next'[n] # NoNode => Linked(next[n])' /\ Precedes(n, next'[n])
    BY <1>13 DEF NextForward
  <2>2. \A n \in Nodes : Linked(n) => \A m \in Nodes : Linked(m) /\ Precedes(n, m) =>
           next[n] # NoNode /\ ~Precedes(m, next[n])
    BY DEF TreeInv, ListIsTreeOrder
  <2> QED BY <1>1, <1>9, <2>1, <2>2 DEF ListIsTreeOrder
<1>15. AheadInOrder'
  <2> SUFFICES ASSUME NEW s \in Threads, pc'[s] \in {"ahead", "iter2"}
               PROVE  Precedes(cur'[s], probe'[s])
    BY DEF AheadInOrder
  <2> QED BY <1>1, <1>2 DEF TreeInv, AheadInOrder
<1>16. NewBeforeSibling'
  <2> SUFFICES ASSUME NEW s \in Threads, pc'[s] \in {"link_first", "link_right"}, Greater(s)'
               PROVE  \E u \in Chars : /\ IsLowerBound(children'[cur'[s]], KChar(s)', u)
                                       /\ next'[new'[s]] = Child(cur'[s], u)
    BY DEF NewBeforeSibling
  <2>1. s # t /\ pc[s] \in {"link_first", "link_right"}
    BY <1>2
  <2>2. cur'[s] = cur[s] /\ new'[s] = new[s] /\ children'[cur[s]] = children[cur[s]]
    BY <1>2, <1>11, <2>1
  <2>3. Greater(s) /\ KChar(s)' = KChar(s)
    BY <1>1, <2>2 DEF Greater, KChar
  <2> QED BY <1>1, <2>1, <2>2, <2>3 DEF TreeInv, NewBeforeSibling
<1>17. RightSpine'
  <2> SUFFICES ASSUME NEW s \in Threads, pc'[s] = "link_right"
               PROVE  /\ IsStrictPrefixOf(cur'[s], probe'[s]) /\ Precedes(probe'[s], new'[s])
                      /\ \A m \in Nodes :
                            Linked(m)' /\ Precedes(probe'[s], m) /\ Precedes(m, new'[s]) =>
                               IsPrefixOf(probe'[s], m)
    BY DEF RightSpine
  <2>1. s # t /\ pc[s] = "link_right"
    BY <1>2
  <2> QED BY <1>1, <1>2, <1>9, <2>1 DEF TreeInv, RightSpine
<1>18. NobodyBehind'
  <2> SUFFICES ASSUME NEW r \in Threads, NEW s \in Threads, pc'[r] = "link_right", s # r,
                      pc'[s] \in Linking \cup {"descend"},
                      IsStrictPrefixOf(cur'[r], cur'[s]), IsStrictPrefixOf(cur'[s], probe'[r])
               PROVE  FALSE
    BY DEF NobodyBehind
  <2>1. r # t /\ pc[r] = "link_right" /\ cur'[r] = cur[r] /\ probe'[r] = probe[r]
    BY <1>1, <1>2
  <2>2. CASE s = t
    BY <1>1, <1>2, <1>3, <2>1, <2>2, NotBehindByEdge DEF c
  <2>3. CASE s # t
    BY <1>2, <2>1, <2>3 DEF TreeInv, NobodyBehind
  <2> QED BY <2>2, <2>3
<1> QED BY <1>7, <1>10, <1>12, <1>13, <1>14, <1>15, <1>16, <1>17, <1>18 DEF TreeInv

\* Insertion preserves the invariant.
LEMMA TreeInsertion ==
    ASSUME TypeInv, TreeInv, NEW t \in Threads, Insertion(t)
    PROVE  TreeInv'
<1> USE DEF trie, locks, Goto, Linking
<1>0. TypeInv'
  BY TypeInsertion
<1>1. CASE CreateMiddle(t) \/ CreateLast(t)
  BY <1>0, <1>1, TreeCreateLinkLater
<1>2. CASE CreateFirst(t) \/ CreateOnly(t)
  BY <1>0, <1>2, TreeCreateFirst
<1>3. CASE LinkFirst(t)
  BY <1>0, <1>3, TreeLinkFirst
<1>4. CASE WalkRight(t)
  BY <1>0, <1>4, TreeWalkRight
<1>5. CASE LinkRight(t)
  BY <1>0, <1>5, TreeLinkRight
<1>6. CASE LinkChild(t)
  BY <1>0, <1>6, TreeLinkChild
<1>7. CASE InsertExisting(t)
  BY <1>0, <1>7, StayStep DEF InsertExisting, Arrived, AlreadyThere
<1>8. CASE StoreValue(t)
  BY <1>0, <1>8, StayStep DEF StoreValue, Arrived, AlreadyThere
<1>9. CASE SizeInc(t)
  BY <1>0, <1>9, StayStep DEF SizeInc
<1> QED BY <1>1, <1>2, <1>3, <1>4, <1>5, <1>6, <1>7, <1>8, <1>9 DEF Insertion

-----------------------------------------------------------------------------
(* How the tree grows *)

\* Only the last step of linking a node adds an edge.
LEMMA EdgesChange ==
    ASSUME NEW t \in Threads, Step(t), children' # children
    PROVE  LinkChild(t)
BY DEF trie, Step, Internal, Insertion, Lookup, Erasure, Iteration, UseIterator, DropIterator,
       CreateMiddle, CreateFirst, CreateLast, CreateOnly, Allocate,
       LinkFirst, WalkRight, LinkRight, InsertExisting, StoreValue, SizeInc,
       LockRoot, Descend, LookupAbsent,
       FindAtKey, CountAtKey, BoundAbove, BoundScan, EraseAtKey, SizeDec,
       EraseIteratorDec, ScanStop, ScanNext, ScanEnd, NextStep, NextEnd, NextReturn,
       Increment, NextCall, EraseIterator, EraseValueless, Call, Unlock, UnlockOne

\* Nodes are never taken out of the tree.
LEMMA TreeGrows ==
    ASSUME TypeInv, NEW t \in Threads, Step(t), NEW n, InTree(n)
    PROVE  InTree(n)'
<1>1. CASE LinkChild(t)
  <2>1. \A m \in Nodes : children[m] \subseteq children'[m]
    BY <1>1 DEF LinkChild, TypeInv, TypeOK
  <2> QED BY <2>1 DEF InTree
<1>2. CASE children' = children
  BY <1>2 DEF InTree
<1> QED BY <1>1, <1>2, EdgesChange

\* The node that a step puts in the tree is one that its thread holds.
LEMMA NewIsHeld ==
    ASSUME TypeInv, HeldInTree, NEW t \in Threads, Step(t), NEW n, InTree(n)'
    PROVE  InTree(n) \/ n \in Held(t)
<1>1. CASE LinkChild(t)
  <2>1. /\ cur[t] \in Nodes /\ new[t] \in Held(t) /\ new[t] = Child(cur[t], KChar(t))
        /\ children' = [children EXCEPT ![cur[t]] = @ \cup {KChar(t)}]
    BY <1>1, LinkingFacts DEF LinkChild, Linking
  <2>2. ASSUME NEW m \in Nodes, NEW d \in children'[m], n = Child(m, d)
        PROVE  InTree(n) \/ n = new[t]
    <3>1. d \in children[m] \/ (m = cur[t] /\ d = KChar(t))
      BY <2>1, <2>2 DEF TypeInv, TypeOK
    <3> QED BY <2>1, <2>2, <3>1 DEF InTree
  <2> QED BY <2>1, <2>2 DEF InTree
<1>2. CASE children' = children
  BY <1>2 DEF InTree
<1> QED BY <1>1, <1>2, EdgesChange

-----------------------------------------------------------------------------
(* The invariant *)

\* Initially nothing is locked and only the root is in the tree.
LEMMA TreeInit == Init => TreeInv
<1> SUFFICES ASSUME Init PROVE TreeInv
  OBVIOUS
<1> USE DEF Linking
<1>1. /\ Root \in Nodes /\ Nodes \subseteq Paths
      /\ \A t \in Threads : /\ pc[t] = "idle" /\ Held(t) = {}
                            /\ cur[t] = NoNode /\ new[t] = NoNode /\ probe[t] = NoNode
      /\ \A n \in Nodes : /\ next[n] = NoNode /\ children[n] = {}
                          /\ writer[n] = NoThread /\ readers[n] = {}
  BY NodesArePaths DEF Init, Held
<1>2. LockDiscipline
  BY <1>1, ConstantsAssumption DEF LockDiscipline
<1>3. \A n \in Nodes : (InTree(n) => n = Root) /\ (Linked(n) => n = Root)
  BY <1>1 DEF InTree, Linked
<1>4. Rooted
  BY <1>3 DEF Rooted, Root
<1>5. ListIsTreeOrder
  BY <1>1, <1>3, PrecedesIrreflexive DEF ListIsTreeOrder
<1> QED BY <1>1, <1>2, <1>4, <1>5
        DEF TreeInv, HeldInTree, NextForward, AheadInOrder, NewBeforeSibling,
            RightSpine, NobodyBehind

\* Values, the counter and results do not matter.
LEMMA SameTree ==
    ASSUME TreeInv, UNCHANGED <<children, next, locks, pc, op, cur, new, probe>>
    PROVE  TreeInv'
<1> USE DEF TreeInv, locks, InTree, Linked, KChar, Greater
<1>1. LockDiscipline'
  BY DEF LockDiscipline, Held, Exclusive
<1>2. Rooted' /\ HeldInTree'
  BY DEF Rooted, HeldInTree
<1>3. NextForward' /\ ListIsTreeOrder'
  BY DEF NextForward, ListIsTreeOrder
<1>4. AheadInOrder' /\ NewBeforeSibling'
  BY DEF AheadInOrder, NewBeforeSibling
<1>5. RightSpine' /\ NobodyBehind'
  BY DEF RightSpine, NobodyBehind
<1> QED BY <1>1, <1>2, <1>3, <1>4, <1>5

\* The invariant is inductive, unless a client erases at an iterator without
\* value.
LEMMA TreeStep ==
    ASSUME ~EraseAnyIterator
    PROVE  Inv /\ [Next]_vars => Inv'
<1> SUFFICES ASSUME Inv, [Next]_vars PROVE Inv'
  OBVIOUS
<1>0. TypeInv /\ TreeInv /\ TypeInv'
  BY TypeStep DEF Inv
<1>1. CASE UNCHANGED vars
  BY <1>0, <1>1, SameTree DEF vars, locks, Inv
<1>2. ASSUME NEW t \in Threads, Step(t) PROVE TreeInv'
  BY <1>0, <1>2, TreeLookup, TreeErasure, TreeInsertion, TreeIteration, TreeClient
     DEF Step, Internal
<1> QED BY <1>0, <1>1, <1>2 DEF Next, Inv

\* In every behaviour in which erase(it) is called only at values, a thread
\* holds exactly the locks of the nodes its locals point to: no early return
\* leaks a lock and no pointer is followed without one.
THEOREM LocksMatchLocals ==
    ASSUME ~EraseAnyIterator
    PROVE  Spec => []LockDiscipline
<1>1. Init => Inv
  BY TypeInit, TreeInit DEF Inv
<1>2. Inv => LockDiscipline
  BY DEF Inv, TreeInv
<1> QED BY <1>1, <1>2, TreeStep, PTL DEF Spec

\* In every such behaviour, whatever insertions are under way, the list links
\* the nodes in key order and skips none.
THEOREM ListStaysInOrder ==
    ASSUME ~EraseAnyIterator
    PROVE  Spec => []ListIsTreeOrder
<1>1. Init => Inv
  BY TypeInit, TreeInit DEF Inv
<1>2. Inv => ListIsTreeOrder
  BY DEF Inv, TreeInv
<1> QED BY <1>1, <1>2, TreeStep, PTL DEF Spec
=============================================================================

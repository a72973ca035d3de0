----------------------- MODULE ConcurrentScanProofs -----------------------
(***************************************************************************)
(* Scans of ConcurrentLLTrie beside insertions and erasures, for all       *)
(* threads and keys: cursors move forward, no key that was there all along *)
(* is skipped, and end() is returned only when none is left.               *)
(***************************************************************************)
EXTENDS ConcurrentScan, ConcurrentCallProofs

\* A step of a scan is a step of the trie.
LEMMA ScanIsTrie == [ScanStep]_scanVars => [Next]_vars
BY DEF ScanStep, scanVars

\* Keys owed are in the tree, and on the list.
LEMMA OwedOnList ==
    ASSUME TypeInv, CallInv, OwedAhead, NEW t \in Threads, NEW k \in owed[t]
    PROVE  /\ k \in Keys /\ k \in Nodes /\ k \in Paths
           /\ HasValue(k) /\ InTree(k) /\ Linked(k)
<1>1. k \in Keys /\ HasValue(k)
  BY DEF OwedAhead, Present
<1>2. k \in Nodes /\ k \in Paths
  BY <1>1, KeysAreNodes, NodesArePaths
<1> QED BY <1>1, <1>2 DEF CallInv, ValuesAtKeys, Linked

\* The keys in the range of a bound are not before its key in the tree.
LEMMA RangeIsAhead ==
    ASSUME OneOrder, NEW o \in OpSet, o.name \in BoundOps, NEW k \in RangeOf(o)
    PROVE  /\ ~Precedes(k, o.key) /\ ~KeyLess(k, o.key)
           /\ o.name = "upper_bound" => Precedes(o.key, k)
<1>1. o.name \in Ops /\ o.key \in Nodes /\ k \in Nodes
  BY KeysAreNodes DEF OpSet, RangeOf, BoundOps
<1>2. /\ o.key \in Paths /\ k \in Paths
      /\ KeyLess(k, o.key) <=> Precedes(k, o.key)
      /\ KeyLess(o.key, k) <=> Precedes(o.key, k)
  BY <1>1, OneOrderOfNodes, NodesArePaths
<1> QED BY <1>2, PrecedesAsymmetric DEF RangeOf, BoundOps

\* What is after a node on the list is not skipped by following the list.
LEMMA ListSkipsNothing ==
    ASSUME TypeInv, TreeInv, NEW n \in Nodes, InTree(n), NEW k \in Nodes, Linked(k),
           Precedes(n, k)
    PROVE  next[n] # NoNode /\ ~Precedes(k, next[n])
BY DEF TreeInv, ListIsTreeOrder, Linked

-----------------------------------------------------------------------------
(* Keys owed to a scan are ahead of it *)

\* A scan that goes on is at none of them.
LEMMA OwedAfterCur ==
    ASSUME OneOrder, TypeInv, TreeInv, CallInv, OwedAhead, NEW t \in Threads,
           pc[t] \in Scanning, ~ScanDone(t), NEW k \in owed[t]
    PROVE  Precedes(cur[t], k)
<1>1. /\ cur[t] \in Nodes /\ cur[t] \in Paths /\ op[t] \in OpSet
      /\ k \in Paths /\ HasValue(k)
  BY HoldsCur, OwedOnList DEF Scanning, TreeInv, TypeInv, Shape
<1>2. CASE pc[t] \in {"step", "erase_next"}
  BY <1>2 DEF OwedAhead
<1>3. CASE pc[t] \in {"scan_value", "step_value", "scan_geq"}
  <2>1. ~Precedes(k, cur[t])
    BY <1>3 DEF OwedAhead
  <2>2. k # cur[t]
    <3>1. SUFFICES ASSUME k = cur[t] PROVE FALSE
      OBVIOUS
    <3>2. pc[t] = "scan_geq" /\ KeyLess(k, op[t].key)
      BY <1>1, <1>3, <3>1 DEF ScanDone
    <3>3. op[t].name \in BoundOps /\ k \in RangeOf(op[t])
      BY <3>2 DEF OwedAhead, CallInv, Progress, Undecided
    <3> QED BY <1>1, <3>2, <3>3, RangeIsAhead
  <2> QED BY <1>1, <2>1, <2>2, PrecedesTotal
<1> QED BY <1>2, <1>3 DEF Scanning

\* Nor is next() at one of them while it has not found its key.
LEMMA OwedAfterFront ==
    ASSUME TypeInv, TreeInv, CallInv, OwedAhead, NEW t \in Threads,
           pc[t] = "ahead_first" \/ (pc[t] = "ahead" /\ ~HasValue(probe[t])),
           NEW k \in owed[t]
    PROVE  /\ Front(t) \in Nodes /\ InTree(Front(t)) /\ cur[t] \in Paths
           /\ Precedes(Front(t), k) /\ Precedes(cur[t], k)
<1>1. /\ cur[t] \in Nodes /\ InTree(cur[t]) /\ cur[t] \in Paths /\ k \in Paths /\ HasValue(k)
  BY HoldsCur, OwedOnList DEF TreeInv
<1>2. CASE pc[t] = "ahead_first"
  BY <1>1, <1>2 DEF OwedAhead, Front
<1>3. CASE pc[t] = "ahead"
  <2>1. /\ probe[t] \in Nodes /\ InTree(probe[t]) /\ Precedes(cur[t], probe[t])
        /\ probe[t] \in Paths
    BY <1>3, HoldsTwo, NodesArePaths DEF TreeInv
  <2>2. ~Precedes(k, probe[t]) /\ k # probe[t]
    BY <1>1, <1>3 DEF OwedAhead
  <2>3. Precedes(probe[t], k)
    BY <1>1, <2>1, <2>2, PrecedesTotal
  <2> QED BY <1>1, <1>3, <2>1, <2>3, PrecedesTransitive DEF Front
<1> QED BY <1>2, <1>3

\* A key owed after a step was owed before, unless the step begins the scan.
LEMMA OwedBefore ==
    ASSUME TypeInv, NEW t \in Threads, NEW k,
           owed' = [s \in Threads |-> Owed(s) \cap Present'], k \in owed'[t]
    PROVE  /\ pc'[t] # "idle" /\ k \in Present'
           /\ \/ pc[t] = "idle" /\ k \in RangeOf(op'[t])
              \/ pc[t] # "idle" /\ Reached(t) /\ Precedes(cur'[t], k)
              \/ /\ pc[t] # "idle" /\ ~Reached(t) /\ k \in owed[t]
                 /\ pc'[t] = "iter" => k # cur'[t]
<1>1. k \in Owed(t) /\ k \in Present'
  OBVIOUS
<1> QED BY <1>1 DEF Owed

\* A bound that turns off the way to its key passes no key in its range.
LEMMA OwedBelowBound ==
    ASSUME OneOrder, TypeInv, TreeInv, CallInv, OwedAhead, NEW t \in Threads,
           EdgeMissing(t), op[t].name \in BoundOps,
           NEW u \in Chars, IsLowerBound(children[cur[t]], KChar(t), u), NEW k \in owed[t]
    PROVE  ~Precedes(k, Child(cur[t], u))
<1> DEFINE c == cur[t]
           q == op[t].key
<1>1. /\ c \in Nodes /\ c \in Paths /\ q \in Nodes /\ IsPrefixOf(c, q) /\ Len(c) < Len(q)
      /\ q[Len(c) + 1] < u /\ Child(c, u) \in Nodes
  BY BoundAbovePassesKey
<1>2. /\ q \in Paths /\ k \in Paths /\ k \in Nodes /\ InTree(k) /\ u \in Int
  BY <1>1, OwedOnList, NodesArePaths, CharsAreIntegers
<1>3. ~Precedes(k, q)
  <2>1. k \in RangeOf(op[t]) /\ op[t] \in OpSet
    BY DEF OwedAhead, EdgeMissing, Undecided, TypeInv, Shape
  <2> QED BY <2>1, RangeIsAhead
<1> SUFFICES ASSUME Precedes(k, Child(c, u)) PROVE FALSE
  OBVIOUS
<1>4. Precedes(c, k)
  <2>1. Precedes(c, q)
    BY <1>1, <1>2, PrefixPrecedes
  <2> QED BY <1>1, <1>2, <1>3, <2>1, PrecedesTotal, PrecedesTransitive
<1>5. IsPrefixOf(c, k) /\ Len(c) < Len(k) /\ k[Len(c) + 1] < u
  BY <1>1, <1>2, <1>4, BetweenNodeAndChild DEF Child
<1>6. k[Len(c) + 1] \in children[c] /\ k[Len(c) + 1] \in Int
  <2>1. k[Len(c) + 1] \in children[c]
    BY <1>1, <1>2, <1>5, AboveInTree DEF TreeInv
  <2>2. children[c] \subseteq Chars
    BY <1>1 DEF TypeInv, TypeOK
  <2> QED BY <2>1, <2>2, CharsAreIntegers
<1>7. q[Len(c) + 1] \in Int /\ q[Len(c) + 1] = KChar(t)
  BY NewPathIsNode, CharsAreIntegers DEF EdgeMissing, KChar
<1>8. ~(k[Len(c) + 1] < q[Len(c) + 1])
  BY <1>1, <1>2, <1>3, <1>5, SmallerEdgeFirst
<1> QED BY <1>2, <1>5, <1>6, <1>7, <1>8 DEF IsLowerBound

\* What OwedAhead says of one key.
Ahead(t, k) ==
    /\ pc[t] \in Undecided => k \in RangeOf(op[t])
    /\ pc[t] \in {"scan_geq", "scan_value", "step_value"} => ~Precedes(k, cur[t])
    /\ pc[t] \in {"iter", "step", "ahead_first", "erase_it_dec", "erase_next"} =>
          Precedes(cur[t], k)
    /\ pc[t] \in {"ahead", "iter2"} => ~Precedes(k, probe[t])

\* A lookup that goes on leaves the keys owed ahead.
LEMMA AheadLookup ==
    ASSUME OneOrder, TypeInv, TreeInv, CallInv, OwedAhead, NEW t \in Threads, Lookup(t),
           NEW k \in owed[t], ~Reached(t), pc'[t] # "idle"
    PROVE  Ahead(t, k)'
<1> USE DEF Goto, Undecided, Linking
<1>0. /\ pc \in [Threads -> PCs] /\ op \in [Threads -> OpSet \cup {NoOp}]
      /\ cur \in [Threads -> Nodes \cup {NoNode}]
  BY DEF TypeInv, TypeOK
<1>1. CASE LockRoot(t)
  <2>1. /\ pc[t] = "lock_root" /\ cur'[t] = Root /\ op' = op
        /\ pc'[t] \in {"descend", "scan_value"}
    BY <1>0, <1>1 DEF LockRoot
  <2>2. ~Precedes(k, Root)
    BY OwedOnList DEF Precedes, Root, Paths
  <2> QED BY <2>1, <2>2 DEF Ahead, OwedAhead
<1>2. CASE Descend(t)
  BY <1>0, <1>2 DEF Descend, Ahead, OwedAhead
<1>3. CASE LookupAbsent(t) \/ CountAtKey(t)
  BY <1>0, <1>3 DEF LookupAbsent, CountAtKey, ReturnNoIterator
<1>4. CASE FindAtKey(t)
  <2>1. pc[t] = "descend" /\ pc'[t] = "iter" /\ op[t].name = "find"
    BY <1>0, <1>4 DEF FindAtKey, ReturnNoIterator, Arrived
  <2> QED BY <2>1 DEF Reached, RangeOf
<1>5. CASE BoundAbove(t)
  <2>1. PICK u \in Chars : /\ IsLowerBound(children[cur[t]], KChar(t), u)
                           /\ cur' = [cur EXCEPT ![t] = Child(cur[t], u)]
    BY <1>5 DEF BoundAbove
  <2>2. /\ pc[t] = "descend" /\ pc'[t] = "scan_value" /\ op' = op
        /\ cur'[t] = Child(cur[t], u)
    BY <1>0, <1>5, <2>1 DEF BoundAbove, EdgeMissing
  <2>3. ~Precedes(k, Child(cur[t], u))
    BY <1>5, <2>1, OwedBelowBound DEF BoundAbove
  <2> QED BY <2>2, <2>3 DEF Ahead, OwedAhead
<1>6. CASE BoundScan(t)
  <2>1. /\ pc[t] = "descend" /\ pc'[t] = "scan_geq" /\ op' = op /\ cur' = cur
        /\ op[t].name \in BoundOps
    BY <1>0, <1>6 DEF BoundScan
  <2>2. k \in RangeOf(op[t]) /\ op[t] \in OpSet /\ op[t].key \in Seq(Chars)
        /\ op[t].key \in Nodes /\ op[t].key \in Paths
    BY <2>1, ConstantsAssumption, KeysAreNodes, NodesArePaths
       DEF OwedAhead, TypeInv, Shape, OpSet
  <2>3. cur[t] \in PathsTo(op[t].key)
    BY <2>1 DEF TypeInv, Shape
  <2>4. /\ Len(cur[t]) <= Len(op[t].key)
        /\ \A i \in 1..Len(cur[t]) : cur[t][i] = op[t].key[i]
    BY <2>2, <2>3, PathIsSequence
  <2>5. cur[t] \in Nodes /\ cur[t] \in Paths /\ IsPrefixOf(cur[t], op[t].key)
    BY <2>1, <2>4, HoldsCur DEF IsPrefixOf, TreeInv
  <2>6. cur[t] = op[t].key \/ Precedes(cur[t], op[t].key)
    <3>1. CASE Len(cur[t]) < Len(op[t].key)
      BY <2>2, <2>5, <3>1, PrefixPrecedes
    <3>2. CASE ~(Len(cur[t]) < Len(op[t].key))
      <4>1. Len(cur[t]) >= Len(op[t].key)
        BY <2>2, <2>4, <2>5, <3>2 DEF Paths
      <4> QED BY <2>2, <2>5, <4>1, PrefixSameLength
    <3> QED BY <3>1, <3>2
  <2>7. ~Precedes(k, op[t].key) /\ k \in Paths
    BY <2>1, <2>2, RangeIsAhead, OwedOnList
  <2>8. ~Precedes(k, cur[t])
    BY <2>2, <2>5, <2>6, <2>7, PrecedesTransitive
  <2> QED BY <2>1, <2>2, <2>8 DEF Ahead
<1> QED BY <1>1, <1>2, <1>3, <1>4, <1>5, <1>6 DEF Lookup

\* So does a scan.
LEMMA AheadIteration ==
    ASSUME OneOrder, TypeInv, TreeInv, CallInv, OwedAhead, NEW t \in Threads, Iteration(t),
           NEW k \in owed[t], pc'[t] # "idle", pc'[t] = "iter" => k # cur'[t]
    PROVE  Ahead(t, k)'
<1> USE DEF Goto, Undecided, Linking
<1>0. /\ pc \in [Threads -> PCs] /\ op \in [Threads -> OpSet \cup {NoOp}]
      /\ cur \in [Threads -> Nodes \cup {NoNode}]
      /\ probe \in [Threads -> Nodes \cup {NoNode}]
  BY DEF TypeInv, TypeOK
<1>k. k \in Nodes /\ k \in Paths /\ Linked(k)
  BY OwedOnList
<1>1. CASE ScanStop(t)
  <2>1. /\ op' = op /\ cur' = cur /\ pc'[t] \in {"step", "iter"}
        /\ pc[t] \in {"scan_geq", "scan_value", "step_value"}
        /\ pc'[t] = "step" => /\ pc[t] \in Undecided /\ op[t].name = "upper_bound"
                              /\ cur[t] = op[t].key
    BY <1>0, <1>1 DEF ScanStop, ScanDone
  <2>2. cur[t] \in Paths /\ op[t] \in OpSet
    BY <2>1, HoldsCur DEF TreeInv, TypeInv, Shape
  <2>3. Precedes(cur[t], k)
    <3>1. CASE pc'[t] = "step"
      BY <2>1, <2>2, <3>1, RangeIsAhead DEF OwedAhead, BoundOps
    <3>2. CASE pc'[t] = "iter"
      <4>1. ~Precedes(k, cur[t]) /\ k # cur[t]
        BY <2>1, <3>2 DEF OwedAhead
      <4> QED BY <1>k, <2>2, <4>1, PrecedesTotal
    <3> QED BY <2>1, <3>1, <3>2
  <2> QED BY <2>1, <2>3 DEF Ahead
<1>2. CASE ScanNext(t)
  <2>1. /\ op' = op /\ cur'[t] = next[cur[t]] /\ next[cur[t]] # NoNode /\ pc[t] \in Scanning
        /\ ~ScanDone(t)
        /\ pc'[t] = CASE pc[t] = "step" -> "step_value"
                      [] pc[t] = "erase_next" -> "iter"
                      [] OTHER -> pc[t]
    BY <1>0, <1>2 DEF ScanNext
  <2>2. cur[t] \in Nodes /\ InTree(cur[t])
    BY <2>1, HoldsCur DEF TreeInv, Scanning
  <2>3. Precedes(cur[t], k)
    BY <2>1, OwedAfterCur
  <2>4. ~Precedes(k, cur'[t]) /\ cur'[t] \in Paths
    BY <1>k, <2>1, <2>2, <2>3, ListSkipsNothing, NextFollows
  <2>5. pc'[t] = "iter" => Precedes(cur'[t], k)
    BY <1>k, <2>4, PrecedesTotal
  <2> QED BY <2>1, <2>4, <2>5 DEF Ahead, OwedAhead, Scanning
<1>3. CASE ScanEnd(t)
  BY <1>0, <1>3 DEF ScanEnd, ReturnNoIterator
<1>4. CASE NextStep(t)
  <2>1. /\ pc'[t] = "ahead" /\ probe'[t] = next[Front(t)]
        /\ pc[t] = "ahead_first" \/ (pc[t] = "ahead" /\ ~HasValue(probe[t]))
    BY <1>0, <1>4 DEF NextStep
  <2>2. ~Precedes(k, probe'[t])
    BY <1>k, <2>1, OwedAfterFront, ListSkipsNothing
  <2> QED BY <2>1, <2>2 DEF Ahead
<1>5. CASE NextEnd(t)
  <2>1. /\ pc'[t] = "iter" /\ cur' = cur
        /\ pc[t] = "ahead_first" \/ (pc[t] = "ahead" /\ ~HasValue(probe[t]))
    BY <1>0, <1>5 DEF NextEnd
  <2> QED BY <2>1, OwedAfterFront DEF Ahead
<1>6. CASE NextReturn(t)
  <2>1. pc[t] = "ahead" /\ pc'[t] = "iter2" /\ probe' = probe
    BY <1>0, <1>6 DEF NextReturn
  <2> QED BY <2>1 DEF Ahead, OwedAhead
<1> QED BY <1>1, <1>2, <1>3, <1>4, <1>5, <1>6 DEF Iteration

\* So do insertion and erasure, and the client.
LEMMA AheadOthers ==
    ASSUME TypeInv, TreeInv, CallInv, OwedAhead, NEW t \in Threads,
           Insertion(t) \/ Erasure(t) \/ UseIterator(t) \/ DropIterator(t),
           NEW k \in owed[t], ~Reached(t), pc'[t] # "idle", pc'[t] = "iter" => k # cur'[t]
    PROVE  Ahead(t, k)'
<1> USE DEF Goto, Undecided, Linking
<1>0. /\ pc \in [Threads -> PCs] /\ op \in [Threads -> OpSet \cup {NoOp}]
      /\ cur \in [Threads -> Nodes \cup {NoNode}]
      /\ probe \in [Threads -> Nodes \cup {NoNode}]
  BY DEF TypeInv, TypeOK
<1>1. CASE Insertion(t)
  <2>1. CASE pc'[t] = "iter"
    <3>1. /\ pc[t] \in {"descend", "size_inc"} /\ Inserting(t)
      BY <1>0, <1>1, <2>1
         DEF Insertion, CreateMiddle, CreateFirst, CreateLast, CreateOnly, Allocate,
             LinkFirst, WalkRight, LinkRight, LinkChild, InsertExisting, StoreValue,
             SizeInc, Arrived, AlreadyThere, Inserting, CallInv, Progress
    <3> QED BY <2>1, <3>1 DEF Reached, RangeOf, Inserting
  <2>2. CASE pc'[t] # "iter"
    <3>1. /\ op' = op /\ pc[t] \in Linking \cup {"descend"}
          /\ pc'[t] \in Linking \cup {"descend", "size_inc"}
      BY <1>0, <1>1, <2>2
         DEF Insertion, CreateMiddle, CreateFirst, CreateLast, CreateOnly, Allocate,
             LinkFirst, WalkRight, LinkRight, LinkChild, InsertExisting, StoreValue,
             SizeInc, Arrived, EdgeMissing
    <3> QED BY <3>1 DEF Ahead, OwedAhead
  <2> QED BY <2>1, <2>2
<1>2. CASE Erasure(t)
  <2>1. CASE EraseAtKey(t) \/ SizeDec(t)
    BY <1>0, <2>1 DEF EraseAtKey, SizeDec, ReturnNoIterator, Ahead
  <2>2. CASE EraseIteratorDec(t)
    BY <1>0, <2>2 DEF EraseIteratorDec, Ahead, OwedAhead
  <2> QED BY <1>2, <2>1, <2>2 DEF Erasure
<1>3. CASE Increment(t) \/ NextCall(t) \/ EraseIterator(t)
  BY <1>0, <1>3 DEF Increment, NextCall, EraseIterator, Ahead, OwedAhead
<1>4. CASE EraseValueless(t) \/ Unlock(t)
  BY <1>0, <1>4 DEF EraseValueless, Unlock, ReturnNoIterator
<1>5. CASE UnlockOne(t)
  <2>1. /\ pc[t] = "iter2" /\ pc'[t] = "iter" /\ cur'[t] \in {cur[t], probe[t]}
    BY <1>0, <1>5 DEF UnlockOne
  <2>2. /\ cur[t] \in Paths /\ probe[t] \in Paths /\ Precedes(cur[t], probe[t])
        /\ k \in Paths /\ ~Precedes(k, probe[t])
    BY <2>1, HoldsTwo, NodesArePaths, OwedOnList DEF TreeInv, OwedAhead
  <2>3. k = probe[t] \/ Precedes(probe[t], k)
    BY <2>2, PrecedesTotal
  <2>4. Precedes(cur'[t], k)
    BY <2>1, <2>2, <2>3, PrecedesTransitive
  <2> QED BY <2>1, <2>4 DEF Ahead
<1> QED BY <1>1, <1>2, <1>3, <1>4, <1>5 DEF UseIterator, DropIterator

LEMMA OwedInit == ScanInit => OwedAhead
BY DEF ScanInit, OwedAhead

\* Keys owed stay ahead of the scan they are owed to, whatever all threads do.
LEMMA OwedStep ==
    ASSUME ~EraseAnyIterator, OneOrder
    PROVE  Inv /\ CallInv /\ OwedAhead /\ [ScanStep]_scanVars => OwedAhead'
<1> SUFFICES ASSUME TypeInv, TreeInv, CallInv, OwedAhead, [ScanStep]_scanVars
             PROVE  OwedAhead'
  BY DEF Inv
<1>1. CASE UNCHANGED scanVars
  BY <1>1 DEF scanVars, vars, OwedAhead, Present, HasValue, RangeOf
<1>2. CASE ScanStep
  <2>1. PICK t \in Threads : Step(t)
    BY <1>2 DEF ScanStep, Next
  <2>2. owed' = [s \in Threads |-> Owed(s) \cap Present']
    BY <1>2 DEF ScanStep
  <2>3. ASSUME NEW k \in owed'[t] PROVE Ahead(t, k)'
    <3>1. /\ pc'[t] # "idle" /\ k \in Present'
          /\ \/ pc[t] = "idle" /\ k \in RangeOf(op'[t])
             \/ pc[t] # "idle" /\ Reached(t) /\ Precedes(cur'[t], k)
             \/ /\ pc[t] # "idle" /\ ~Reached(t) /\ k \in owed[t]
                /\ pc'[t] = "iter" => k # cur'[t]
      BY <2>2, <2>3, OwedBefore
    <3>2. CASE pc[t] = "idle"
      <4>1. Call(t)
        BY <2>1, <3>2
           DEF Step, Internal, Insertion, Lookup, Erasure, Iteration, UseIterator,
               DropIterator, CreateMiddle, CreateFirst, CreateLast, CreateOnly, Allocate,
               LinkFirst, WalkRight, LinkRight, LinkChild, InsertExisting, StoreValue,
               SizeInc, LockRoot, Descend, LookupAbsent, FindAtKey, CountAtKey,
               BoundAbove, BoundScan, EraseAtKey, SizeDec, EraseIteratorDec, ScanStop,
               ScanNext, ScanEnd, NextStep, NextEnd, NextReturn, Increment, NextCall,
               EraseIterator, EraseValueless, Unlock, UnlockOne, Arrived, EdgeMissing,
               Scanning
      <4>2. pc'[t] = "lock_root"
        BY <4>1 DEF Call, Goto, TypeInv, TypeOK
      <4> QED BY <3>1, <3>2, <4>2 DEF Ahead
    <3>3. CASE pc[t] # "idle" /\ Reached(t) /\ Precedes(cur'[t], k)
      BY <3>3 DEF Ahead, Reached, Undecided, Linking
    <3>4. CASE /\ pc[t] # "idle" /\ ~Reached(t) /\ k \in owed[t]
               /\ pc'[t] = "iter" => k # cur'[t]
      <4>1. ~Call(t)
        BY <3>4 DEF Call
      <4> QED BY <2>1, <3>1, <3>4, <4>1, AheadLookup, AheadIteration, AheadOthers
              DEF Step, Internal
    <3> QED BY <3>1, <3>2, <3>3, <3>4
  <2>4. ASSUME NEW s \in Threads, s # t, NEW k \in owed'[s] PROVE Ahead(s, k)'
    <3>1. UNCHANGED <<pc[s], op[s], cur[s], probe[s]>>
      BY <2>1, <2>4, OthersStay
    <3>2. k \in owed[s]
      BY <2>2, <2>4, <3>1, OwedBefore DEF Reached
    <3>3. Ahead(s, k)
      BY <3>2 DEF OwedAhead, Ahead
    <3> QED BY <3>1, <3>3 DEF Ahead, RangeOf
  <2>5. ASSUME NEW s \in Threads, NEW k \in owed'[s] PROVE k \in Present' /\ Ahead(s, k)'
    BY <2>2, <2>3, <2>4, <2>5
  <2> QED BY <2>5 DEF OwedAhead, Ahead
<1> QED BY <1>1, <1>2

-----------------------------------------------------------------------------
(* The promises to a scan *)

\* The invariants hold in every behaviour of a trie with scans.
LEMMA ScanInvariants ==
    ASSUME ~EraseAnyIterator, OneOrder
    PROVE  ScanSpec => [](Inv /\ CallInv /\ OwedAhead)
<1>1. ScanInit => Inv /\ CallInv /\ OwedAhead
  BY TypeInit, TreeInit, CallInit, OwedInit DEF Inv, CallInv, ScanInit
<1>2. Inv /\ CallInv /\ OwedAhead /\ [ScanStep]_scanVars => (Inv /\ CallInv /\ OwedAhead)'
  BY ScanIsTrie, TreeStep, CallStep, OwedStep
<1> QED BY <1>1, <1>2, PTL DEF ScanSpec

\* A key that was there when the call was made, and has not been erased since,
\* is neither behind an iterator nor between the two of next(), however many
\* nodes other threads insert on the way.
THEOREM NoKeyIsSkipped ==
    ASSUME ~EraseAnyIterator, OneOrder
    PROVE  ScanSpec => []NothingSkipped
<1>1. Inv /\ CallInv /\ OwedAhead => NothingSkipped
  <2> SUFFICES ASSUME TypeInv, TreeInv, CallInv, OwedAhead, NEW t \in Threads,
                      pc[t] \in {"iter", "iter2"}, NEW k \in owed[t]
               PROVE  ~Precedes(k, cur[t]) /\ (pc[t] = "iter2" => ~Precedes(k, probe[t]))
    BY DEF Inv, NothingSkipped
  <2>1. cur[t] \in Paths /\ k \in Paths
    BY HoldsCur, OwedOnList DEF TreeInv
  <2>2. CASE pc[t] = "iter"
    BY <2>1, <2>2, PrecedesAsymmetric DEF OwedAhead
  <2>3. CASE pc[t] = "iter2"
    <3>1. /\ ~Precedes(k, probe[t]) /\ Precedes(cur[t], probe[t]) /\ probe[t] \in Paths
      BY <2>3, HoldsTwo, NodesArePaths DEF TreeInv, OwedAhead
    <3> QED BY <2>1, <3>1, PrecedesTransitive
  <2> QED BY <2>2, <2>3
<1> QED BY <1>1, ScanInvariants, PTL

\* A scan, a bound or next() returns end() only when no such key is left.
THEOREM EndMeansNoneLeft ==
    ASSUME ~EraseAnyIterator, OneOrder
    PROVE  ScanSpec => EndIsTheEnd
<1> DEFINE Complete == \A t \in Threads : ScanEnd(t) \/ NextEnd(t) => owed[t] = {}
<1>1. Inv /\ CallInv /\ OwedAhead => Complete
  <2> SUFFICES ASSUME TypeInv, TreeInv, CallInv, OwedAhead, NEW t \in Threads,
                      ScanEnd(t) \/ NextEnd(t), NEW k \in owed[t]
               PROVE  FALSE
    BY DEF Inv
  <2>0. k \in Nodes /\ Linked(k)
    BY OwedOnList
  <2>1. CASE ScanEnd(t)
    <3>1. pc[t] \in Scanning /\ ~ScanDone(t) /\ next[cur[t]] = NoNode
      BY <2>1 DEF ScanEnd
    <3>2. cur[t] \in Nodes /\ InTree(cur[t]) /\ Precedes(cur[t], k)
      BY <3>1, HoldsCur, OwedAfterCur DEF TreeInv, Scanning
    <3> QED BY <2>0, <3>1, <3>2, ListSkipsNothing
  <2>2. CASE NextEnd(t)
    <3>1. /\ pc[t] = "ahead_first" \/ (pc[t] = "ahead" /\ ~HasValue(probe[t]))
          /\ next[Front(t)] = NoNode
      BY <2>2 DEF NextEnd
    <3>2. Front(t) \in Nodes /\ InTree(Front(t)) /\ Precedes(Front(t), k)
      BY <3>1, OwedAfterFront
    <3> QED BY <2>0, <3>1, <3>2, ListSkipsNothing
  <2> QED BY <2>1, <2>2
<1> QED BY <1>1, ScanInvariants, PTL DEF EndIsTheEnd

\* The node a thread is at only moves forward in key order, from the root until
\* the call or the iterator ends: insertions behind a scan do not send it back.
THEOREM CursorsMoveForward ==
    ASSUME ~EraseAnyIterator
    PROVE  ScanSpec => CursorMovesForward
<1> DEFINE Forward == \A t \in Threads :
              cur[t] # NoNode /\ cur'[t] \notin {NoNode, cur[t]} => Precedes(cur[t], cur'[t])
<1>1. ScanInit => Inv
  BY TypeInit, TreeInit DEF Inv, ScanInit
<1>2. Inv /\ [ScanStep]_scanVars => Inv'
  BY ScanIsTrie, TreeStep
<1>3. Inv /\ [ScanStep]_scanVars => [Forward]_scanVars
  <2> SUFFICES ASSUME TypeInv, TreeInv, NEW s \in Threads, Step(s), NEW t \in Threads,
                      cur[t] # NoNode, cur'[t] \notin {NoNode, cur[t]}
               PROVE  Precedes(cur[t], cur'[t])
    BY DEF Inv, ScanStep, Next
  <2>1. t = s
    BY OthersStay
  <2>2. /\ cur \in [Threads -> Nodes \cup {NoNode}]
        /\ cur[t] \in Nodes /\ cur[t] \in Paths
    BY HoldsCur DEF TreeInv, TypeInv, TypeOK, Shape
  <2>3. ASSUME NEW c \in Chars, cur'[t] = Child(cur[t], c) PROVE Precedes(cur[t], cur'[t])
    BY <2>2, <2>3, CharsAreIntegers, AppendPath DEF Child
  <2>4. CASE Descend(t)
    <3>1. cur'[t] = Child(cur[t], KChar(t)) /\ KChar(t) \in Chars
      BY <2>2, <2>4, NewPathIsNode DEF Descend
    <3> QED BY <2>3, <3>1
  <2>5. CASE BoundAbove(t)
    BY <2>2, <2>3, <2>5 DEF BoundAbove
  <2>6. CASE LinkChild(t)
    <3>1. cur'[t] = Child(cur[t], KChar(t)) /\ KChar(t) \in Chars
      BY <2>2, <2>6, LinkingFacts DEF LinkChild, Linking, TreeInv
    <3> QED BY <2>3, <3>1
  <2>7. CASE ScanNext(t)
    BY <2>2, <2>7, NextFollows DEF ScanNext
  <2>8. CASE UnlockOne(t)
    BY <2>2, <2>8, HoldsTwo DEF UnlockOne, TreeInv
  <2>9. CASE cur'[t] \in {NoNode, cur[t]} \/ LockRoot(t)
    BY <2>2, <2>9 DEF LockRoot, TypeInv, Shape
  <2> QED BY <2>1, <2>2, <2>4, <2>5, <2>6, <2>7, <2>8, <2>9
          DEF Step, Internal, Insertion, Lookup, Erasure, Iteration, UseIterator,
              DropIterator, CreateMiddle, CreateFirst, CreateLast, CreateOnly, Allocate,
              LinkFirst, WalkRight, LinkRight, InsertExisting, StoreValue, SizeInc,
              LookupAbsent, FindAtKey, CountAtKey, BoundScan, EraseAtKey, SizeDec,
              EraseIteratorDec, ScanStop, ScanEnd, NextStep, NextEnd, NextReturn,
              Increment, NextCall, EraseIterator, EraseValueless, Call, Unlock,
              ReturnNoIterator
<1> QED BY <1>1, <1>2, <1>3, PTL DEF ScanSpec, CursorMovesForward
=============================================================================

--------------------- MODULE ConcurrentAtomicityProofs ---------------------
(***************************************************************************)
(* ConcurrentLLTrie implements AtomicMap, for all threads, keys, values    *)
(* and operations: every step of a thread is a step of the atomic map, or  *)
(* changes nothing a client can see.                                       *)
(***************************************************************************)
EXTENDS ConcurrentAtomicity, ConcurrentCallProofs

\* What a step of thread t is to the client.
Seen(t) ==
    \/ Atomic!Invoke(t) \/ Atomic!Insert(t) \/ Atomic!Erase(t) \/ Atomic!Lookup(t)
    \/ Atomic!First(t) \/ Atomic!EraseAt(t) \/ Atomic!Move(t)
    \/ UNCHANGED <<Stored, Pending, ret, Pinned>>

-----------------------------------------------------------------------------
(* The refinement mapping under a step *)

\* A step changes the view of one thread.
LEMMA OneViewChanges ==
    ASSUME TypeInv, TypeInv', NEW t \in Threads, Step(t)
    PROVE  /\ Pending' = [Pending EXCEPT ![t] = Pending'[t]]
           /\ Pinned' = [Pinned EXCEPT ![t] = Pinned'[t]]
           /\ ret' = [ret EXCEPT ![t] = ret'[t]]
           /\ \A s \in Threads : s # t => /\ Pinned'[s] = Pinned[s]
                                          /\ Pending'[s] = Pending[s]
                                          /\ ret'[s] = ret[s]
<1>1. ASSUME NEW s \in Threads, s # t
      PROVE  Pinned'[s] = Pinned[s] /\ Pending'[s] = Pending[s] /\ ret'[s] = ret[s]
  BY <1>1, OthersStay DEF Pinned, Pending
<1>2. ret = [s \in Threads |-> ret[s]] /\ ret' = [s \in Threads |-> ret'[s]]
  BY DEF TypeInv, TypeOK
<1>3. /\ Pending' = [s \in Threads |-> Pending'[s]] /\ Pending = [s \in Threads |-> Pending[s]]
      /\ Pinned' = [s \in Threads |-> Pinned'[s]] /\ Pinned = [s \in Threads |-> Pinned[s]]
  BY DEF Pinned, Pending
<1> HIDE DEF Pinned, Pending
<1> QED BY <1>1, <1>2, <1>3

\* The view of the thread that takes the step.
LEMMA ViewOf ==
    ASSUME NEW t \in Threads
    PROVE  /\ Pending[t] = IF ret[t] # "none" THEN NoOp ELSE op[t]
           /\ Pinned[t] = IF ret[t] # "none" THEN {cur[t], probe[t]} \ {NoNode} ELSE {}
           /\ Pending'[t] = IF ret'[t] # "none" THEN NoOp ELSE op'[t]
           /\ Pinned'[t] = IF ret'[t] # "none" THEN {cur'[t], probe'[t]} \ {NoNode} ELSE {}
BY DEF Pending, Pinned

\* A step that changes neither values nor the thread's view is invisible.
LEMMA Unseen ==
    ASSUME TypeInv, TypeInv', NEW t \in Threads, Step(t), value' = value,
           Pending'[t] = Pending[t], Pinned'[t] = Pinned[t], ret'[t] = ret[t]
    PROVE  Seen(t)
<1>1. Stored' = Stored
  BY DEF Stored
<1>2. /\ Pending = [s \in Threads |-> Pending[s]] /\ Pinned = [s \in Threads |-> Pinned[s]]
      /\ ret = [s \in Threads |-> ret[s]]
  BY DEF Pending, Pinned, TypeInv, TypeOK
<1>3. Pending' = Pending /\ Pinned' = Pinned /\ ret' = ret
  BY <1>2, OneViewChanges
<1> QED BY <1>1, <1>3 DEF Seen

\* An iterator is moved or dropped.
LEMMA Moved ==
    ASSUME TypeInv, TypeInv', NEW t \in Threads, Step(t), value' = value,
           Pending[t] = NoOp, Pending'[t] = NoOp, Pinned[t] # {},
           \A p \in Pinned'[t] \ Pinned[t] : \A q \in Pinned[t] : Precedes(q, p),
           ret'[t] \in {ret[t], "yes"} \/ (ret'[t] = "end" /\ Pinned'[t] = {})
    PROVE  Seen(t)
<1>1. Stored' = Stored
  BY DEF Stored
<1>2. Pending = [s \in Threads |-> Pending[s]]
  BY DEF Pending
<1>3. Pending' = Pending
  BY <1>2, OneViewChanges
<1>4. Atomic!Move(t)
  BY <1>1, <1>3, OneViewChanges DEF Atomic!Move, Atomic!Precedes, Precedes
<1> QED BY <1>4 DEF Seen

\* A call takes effect in the step that sets its result.
LEMMA TakesEffect ==
    ASSUME TypeInv, TypeInv', NEW t \in Threads, Step(t), ret'[t] # "none"
    PROVE  Atomic!Effect(t, ret'[t], Pinned'[t])
<1>1. Pending'[t] = NoOp
  BY ViewOf
<1> QED BY <1>1, OneViewChanges DEF Atomic!Effect

\* A value is stored or erased at a key that nobody else has pinned.
LEMMA PutsValue ==
    ASSUME TypeInv, LockDiscipline, TypeInv', NEW t \in Threads, Step(t), Exclusive(t),
           NEW k \in Keys, k \in Held(t), NEW v, value' = [value EXCEPT ![k] = v]
    PROVE  Atomic!Put(t, k, v)
<1>1. ASSUME NEW s \in Threads, s # t PROVE k \notin Pinned[s]
  <2>1. k \notin Held(s)
    BY <1>1, HeldTogether, KeysAreNodes
  <2> QED BY <2>1, ViewOf DEF Held
<1>2. Stored' = [Stored EXCEPT ![k] = v]
  BY KeysAreNodes DEF Stored, TypeInv, TypeOK
<1> QED BY <1>1, <1>2 DEF Atomic!Put

\* What a thread's call is before it took effect.
LEMMA PendingCall ==
    ASSUME TypeInv, Progress, NEW t \in Threads, pc[t] \in Undecided
    PROVE  /\ ret[t] = "none" /\ op[t] \in OpSet /\ op[t].key \in Keys
           /\ Pending[t] = op[t] /\ op[t] # NoOp /\ Pinned[t] = {}
           /\ Atomic!Calls(t, {op[t].name})
<1>1. ret[t] = "none" /\ op[t] \in OpSet
  BY DEF Progress, TypeInv, Shape, Undecided, Linking
<1>2. op[t] # NoOp
  BY <1>1, ConstantsAssumption
<1> QED BY <1>1, <1>2, ViewOf DEF Atomic!Calls, OpSet

\* The places of a thread that holds at most the node it is at.
LEMMA PinsCur ==
    ASSUME TypeInv, NEW t \in Threads, pc[t] \notin {"link_right", "ahead", "iter2"},
           ret[t] # "none"
    PROVE  Pinned[t] = IF pc[t] \in {"idle", "lock_root"} THEN {} ELSE {cur[t]}
BY ViewOf DEF TypeInv, Shape

-----------------------------------------------------------------------------
(* Every step of the trie is a step of the map *)

\* Lookups take effect when they arrive, or find no edge to go on by.
LEMMA SeenLookup ==
    ASSUME TypeInv, TreeInv, CallInv, TypeInv', NEW t \in Threads, Step(t), Lookup(t)
    PROVE  Seen(t)
<1> USE DEF Goto, trie
<1>0. /\ pc \in [Threads -> PCs] /\ op \in [Threads -> OpSet \cup {NoOp}]
      /\ ret \in [Threads -> {"none", "yes", "no", "end"}]
  BY DEF TypeInv, TypeOK
<1>1. CASE LockRoot(t) \/ Descend(t) \/ BoundAbove(t) \/ BoundScan(t)
  <2>1. value' = value /\ op' = op /\ ret' = ret
    BY <1>1 DEF LockRoot, Descend, BoundAbove, BoundScan
  <2>2. ret[t] = "none"
    BY <1>1, PendingCall DEF CallInv, LockRoot, Descend, BoundAbove, BoundScan,
                             EdgeMissing, Undecided
  <2> QED BY <2>1, <2>2, ViewOf, Unseen
<1>2. ASSUME pc[t] = "descend"
      PROVE  /\ ret[t] = "none" /\ op[t].key \in Keys /\ probe[t] = NoNode
             /\ Atomic!Calls(t, {op[t].name}) /\ Pending[t] = op[t]
             /\ Stored[op[t].key] = value[op[t].key]
  BY <1>2, PendingCall DEF CallInv, Undecided, Stored, TypeInv, Shape
<1>3. ASSUME value' = value PROVE Stored' = Stored
  BY <1>3 DEF Stored
<1>r. ASSUME NEW r \in {"yes", "no"}, ReturnNoIterator(t, r), UNCHANGED probe, pc[t] = "descend"
      PROVE  ret'[t] = r /\ Pinned'[t] = {}
  <2>1. ret'[t] = r /\ cur'[t] = NoNode /\ probe'[t] = NoNode
    BY <1>0, <1>2, <1>r DEF ReturnNoIterator, TypeInv, TypeOK
  <2> QED BY <2>1, ViewOf
<1>4. CASE LookupAbsent(t)
  <2>1. pc[t] = "descend" /\ EdgeMissing(t) /\ op[t].name \in LookupOps \cup {"erase"}
    BY <1>4 DEF LookupAbsent, EdgeMissing
  <2>2. ~Atomic!Has(op[t].key)
    BY <1>2, <2>1, MissingKey DEF CallInv, Atomic!Has, HasValue
  <2>3. ret'[t] = "no" /\ Pinned'[t] = {} /\ Stored' = Stored
    BY <1>3, <1>4, <1>r, <2>1 DEF LookupAbsent
  <2>4. Atomic!Effect(t, "no", {})
    BY <2>3, TakesEffect
  <2>5. CASE op[t].name = "erase"
    <3>1. Atomic!Erase(t)
      BY <1>2, <2>1, <2>2, <2>3, <2>4, <2>5 DEF Atomic!Erase, Atomic!Calls
    <3> QED BY <3>1 DEF Seen
  <2>6. CASE op[t].name \in LookupOps
    <3>1. Atomic!Lookup(t)
      BY <1>2, <2>1, <2>2, <2>3, <2>4, <2>6 DEF Atomic!Lookup, Atomic!Calls, LookupOps
    <3> QED BY <3>1 DEF Seen
  <2> QED BY <2>1, <2>5, <2>6
<1>5. CASE FindAtKey(t) \/ CountAtKey(t)
  <2>1. pc[t] = "descend" /\ Arrived(t) /\ op[t].name \in LookupOps
    BY <1>5 DEF FindAtKey, CountAtKey, Arrived, LookupOps
  <2>2. /\ cur[t] = op[t].key /\ Stored' = Stored
        /\ Atomic!Has(op[t].key) <=> HasValue(cur[t])
    BY <1>2, <1>3, <1>5, <2>1, ArrivedAtKey
       DEF Atomic!Has, HasValue, FindAtKey, CountAtKey
  <2>3. /\ ret'[t] = IF HasValue(cur[t]) THEN "yes" ELSE "no"
        /\ Pinned'[t] = IF HasValue(cur[t]) /\ op[t].name = "find" THEN {cur[t]} ELSE {}
    <3>1. CASE CountAtKey(t)
      BY <1>r, <2>1, <3>1 DEF CountAtKey
    <3>2. CASE FindAtKey(t) /\ ~HasValue(cur[t])
      BY <1>r, <2>1, <3>2 DEF FindAtKey
    <3>3. CASE FindAtKey(t) /\ HasValue(cur[t])
      <4>1. /\ ret'[t] = "yes" /\ cur'[t] = cur[t] /\ probe'[t] = NoNode
            /\ op[t].name = "find"
        BY <1>0, <1>2, <2>1, <3>3 DEF FindAtKey
      <4>2. cur[t] # NoNode
        BY <2>1 DEF TypeInv, Shape
      <4> QED BY <3>3, <4>1, <4>2, ViewOf
    <3> QED BY <1>5, <3>1, <3>2, <3>3
  <2>4. Atomic!Effect(t, ret'[t], Pinned'[t])
    BY <2>3, TakesEffect
  <2>5. Atomic!Lookup(t)
    BY <1>2, <2>1, <2>2, <2>3, <2>4 DEF Atomic!Lookup, Atomic!Calls, LookupOps
  <2> QED BY <2>5 DEF Seen
<1> QED BY <1>1, <1>4, <1>5 DEF Lookup

\* A call that is over returns what it has decided and drops the place.
LEMMA SeenReturn ==
    ASSUME TypeInv, TypeInv', NEW t \in Threads, Step(t),
           pc[t] \notin {"idle", "lock_root", "link_right", "ahead", "iter2"},
           ret[t] # "none", UNCHANGED <<value, probe>>,
           NEW r \in {ret[t], "end"}, ReturnNoIterator(t, r)
    PROVE  Seen(t)
<1>1. ret'[t] = r /\ cur'[t] = NoNode /\ probe'[t] = NoNode /\ r # "none"
  BY DEF ReturnNoIterator, TypeInv, TypeOK, Shape
<1>2. Pinned[t] # {} /\ Pinned'[t] = {} /\ Pending[t] = NoOp /\ Pending'[t] = NoOp
  BY <1>1, PinsCur, ViewOf
<1> QED BY <1>1, <1>2, Moved

\* Erasure takes effect where the value is taken away.
LEMMA SeenErasure ==
    ASSUME TypeInv, TreeInv, CallInv, TypeInv', NEW t \in Threads, Step(t), Erasure(t)
    PROVE  Seen(t)
<1> USE DEF Goto
<1>0. /\ op \in [Threads -> OpSet \cup {NoOp}] /\ cur \in [Threads -> Nodes \cup {NoNode}]
      /\ ret \in [Threads -> {"none", "yes", "no", "end"}]
  BY DEF TypeInv, TypeOK
<1>1. CASE EraseAtKey(t)
  <2>1. pc[t] = "descend" /\ Arrived(t) /\ op[t].name = "erase"
    BY <1>1 DEF EraseAtKey, Arrived
  <2>2. /\ ret[t] = "none" /\ op[t].key \in Keys /\ probe[t] = NoNode
        /\ Atomic!Calls(t, {"erase"}) /\ Pending[t] = op[t]
    BY <2>1, PendingCall DEF CallInv, Undecided, TypeInv, Shape
  <2>3. /\ cur[t] = op[t].key /\ cur[t] # NoNode
        /\ Atomic!Has(op[t].key) <=> HasValue(cur[t])
    BY <2>1, <2>2, ArrivedAtKey DEF Atomic!Has, HasValue, TypeInv, Shape, Stored
  <2>4. CASE HasValue(cur[t])
    <3>1. /\ ret'[t] = "yes" /\ cur'[t] = cur[t] /\ probe'[t] = probe[t]
          /\ value' = [value EXCEPT ![op[t].key] = NoValue]
      BY <1>0, <1>1, <2>3, <2>4 DEF EraseAtKey
    <3>2. Pinned'[t] = {op[t].key}
      BY <2>2, <2>3, <3>1, ViewOf
    <3>3. Atomic!Effect(t, "yes", {op[t].key})
      BY <3>1, <3>2, TakesEffect
    <3>4. op[t].key \in Held(t) /\ Exclusive(t)
      BY <2>1, <2>3 DEF Held, Exclusive, ExclusiveOps
    <3>5. Atomic!Put(t, op[t].key, NoValue)
      BY <2>2, <3>1, <3>4, PutsValue DEF TreeInv
    <3>6. Atomic!Erase(t)
      BY <2>2, <2>3, <2>4, <3>3, <3>5 DEF Atomic!Erase
    <3> QED BY <3>6 DEF Seen
  <2>5. CASE ~HasValue(cur[t])
    <3>1. ret'[t] = "no" /\ cur'[t] = NoNode /\ probe'[t] = NoNode /\ Stored' = Stored
      BY <1>0, <1>1, <2>2, <2>5 DEF EraseAtKey, ReturnNoIterator, Stored
    <3>2. Pinned'[t] = {}
      BY <3>1, ViewOf
    <3>3. Atomic!Effect(t, "no", {})
      BY <3>1, <3>2, TakesEffect
    <3>4. Atomic!Erase(t)
      BY <2>2, <2>3, <2>5, <3>1, <3>3 DEF Atomic!Erase
    <3> QED BY <3>4 DEF Seen
  <2> QED BY <2>4, <2>5
<1>2. CASE SizeDec(t)
  <2>1. ret[t] # "none" /\ pc[t] = "size_dec"
    BY <1>2 DEF SizeDec, CallInv, Progress, Decided
  <2> QED BY <1>2, <2>1, SeenReturn DEF SizeDec
<1>3. CASE EraseIteratorDec(t)
  BY <1>3, ViewOf, Unseen DEF EraseIteratorDec
<1> QED BY <1>1, <1>2, <1>3 DEF Erasure

\* Insertion takes effect where the value is stored, or found to be there; a
\* node without value on the way to the key is nothing a client sees.
LEMMA SeenInsertion ==
    ASSUME TypeInv, TreeInv, CallInv, TypeInv', NEW t \in Threads, Step(t), Insertion(t)
    PROVE  Seen(t)
<1> USE DEF Goto, trie
<1>0. /\ pc \in [Threads -> PCs] /\ op \in [Threads -> OpSet \cup {NoOp}]
      /\ cur \in [Threads -> Nodes \cup {NoNode}]
      /\ ret \in [Threads -> {"none", "yes", "no", "end"}]
  BY DEF TypeInv, TypeOK
<1>1. CASE ~InsertExisting(t) /\ ~StoreValue(t) /\ ~SizeInc(t)
  <2>1. /\ UNCHANGED <<value, op, ret>> /\ pc[t] \in Linking \cup {"descend"}
    BY <1>1 DEF Insertion, CreateMiddle, CreateFirst, CreateLast, CreateOnly, Allocate,
                LinkFirst, WalkRight, LinkRight, LinkChild, EdgeMissing, Linking
  <2>2. ret[t] = "none"
    BY <2>1, PendingCall DEF CallInv, Undecided
  <2> QED BY <2>1, <2>2, ViewOf, Unseen
<1>2. CASE SizeInc(t)
  BY <1>2, ViewOf, Unseen DEF SizeInc
<1>3. CASE InsertExisting(t) \/ StoreValue(t)
  <2>1. /\ pc[t] = "descend" /\ Arrived(t) /\ op[t].name \in {"insert", "insert_or_assign"}
        /\ UNCHANGED <<cur, probe>>
    BY <1>3 DEF InsertExisting, StoreValue, Arrived, AlreadyThere, Inserting
  <2>2. /\ ret[t] = "none" /\ op[t].key \in Keys /\ probe[t] = NoNode
        /\ Atomic!Calls(t, {"insert", "insert_or_assign"}) /\ Pending[t] = op[t]
    BY <2>1, PendingCall DEF CallInv, Undecided, TypeInv, Shape, Atomic!Calls
  <2>3. /\ cur[t] = op[t].key /\ cur[t] # NoNode
        /\ Atomic!Has(op[t].key) <=> HasValue(cur[t])
    BY <2>1, <2>2, ArrivedAtKey DEF Atomic!Has, HasValue, TypeInv, Shape, Stored
  <2>4. ret'[t] = IF HasValue(cur[t]) THEN "no" ELSE "yes"
    BY <1>0, <1>3 DEF InsertExisting, StoreValue, AlreadyThere
  <2>5. Pinned'[t] = {op[t].key}
    BY <2>1, <2>2, <2>3, <2>4, ViewOf
  <2>6. Atomic!Effect(t, IF Atomic!Has(op[t].key) THEN "no" ELSE "yes", {op[t].key})
    BY <2>3, <2>4, <2>5, TakesEffect
  <2>7. IF Atomic!Has(op[t].key) /\ op[t].name = "insert"
        THEN Stored' = Stored ELSE Atomic!Put(t, op[t].key, op[t].val)
    <3>1. CASE InsertExisting(t)
      BY <2>3, <3>1 DEF InsertExisting, AlreadyThere, Stored
    <3>2. CASE StoreValue(t)
      <4>1. value' = [value EXCEPT ![op[t].key] = op[t].val] /\ ~AlreadyThere(t)
        BY <2>3, <3>2 DEF StoreValue
      <4>2. op[t].key \in Held(t) /\ Exclusive(t)
        BY <2>1, <2>3 DEF Held, Exclusive, ExclusiveOps
      <4>3. Atomic!Put(t, op[t].key, op[t].val)
        BY <2>2, <4>1, <4>2, PutsValue DEF TreeInv
      <4> QED BY <2>3, <4>1, <4>3 DEF AlreadyThere
    <3> QED BY <1>3, <3>1, <3>2
  <2>8. Atomic!Insert(t)
    BY <2>2, <2>6, <2>7 DEF Atomic!Insert
  <2> QED BY <2>8 DEF Seen
<1> QED BY <1>1, <1>2, <1>3

\* A scan stops at a key in the range of its call.
LEMMA StopsInRange ==
    ASSUME OneOrder, TypeInv, TreeInv, CallInv, NEW t \in Threads, ScanStop(t),
           pc'[t] = "iter", ret[t] = "none"
    PROVE  /\ op[t].name \in BoundOps \cup {"begin", "shared_begin"}
           /\ Atomic!InRange(op[t], cur[t])
<1>0. /\ pc[t] \in {"scan_geq", "scan_value", "step_value"}
      /\ pc[t] = "scan_geq" => ~KeyLess(cur[t], op[t].key)
      /\ pc[t] = "scan_geq" /\ op[t].name = "upper_bound" => cur[t] # op[t].key
  BY DEF ScanStop, ScanDone, Goto, TypeInv, TypeOK
<1>1. /\ op[t].name \in BoundOps \cup {"begin", "shared_begin"}
      /\ pc[t] = "step_value" => op[t].name = "upper_bound"
  BY <1>0 DEF CallInv, Progress, BoundOps
<1>2. /\ cur[t] \in Nodes /\ op[t].key \in Nodes /\ op[t].name \in Ops
      /\ cur[t] \in Paths /\ op[t].key \in Paths
  BY <1>0, HoldsCur, KeysAreNodes, NodesArePaths DEF TreeInv, TypeInv, Shape, OpSet
<1>3. CASE op[t].name \in BoundOps
  <2>1. /\ KeyLess(cur[t], op[t].key) <=> Precedes(cur[t], op[t].key)
        /\ KeyLess(op[t].key, cur[t]) <=> Precedes(op[t].key, cur[t])
    BY <1>2, <1>3, OneOrderOfNodes
  <2>2. pc[t] \in {"scan_value", "step_value"} => Precedes(op[t].key, cur[t])
    BY <1>0, <1>3 DEF CallInv, AtBound
  <2>3. /\ ~KeyLess(cur[t], op[t].key)
        /\ op[t].name = "upper_bound" => KeyLess(op[t].key, cur[t])
    BY <1>0, <1>2, <2>1, <2>2, PrecedesAsymmetric, PrecedesTotal
  <2>4. \A p, q : Atomic!KeyLess(p, q) <=> KeyLess(p, q)
    <3>1. \A p, q : Atomic!Precedes(p, q) <=> Precedes(p, q)
      BY Zenon DEF Atomic!Precedes, Precedes
    <3>2. \A p : Atomic!Bytes(p) = Bytes(p)
      BY Zenon DEF Atomic!Bytes, Bytes
    <3> QED BY <3>1, <3>2, Zenon DEF Atomic!KeyLess, KeyLess
  <2> QED BY <1>1, <1>3, <2>3, <2>4 DEF BoundOps, Atomic!InRange
<1>4. CASE op[t].name \notin BoundOps
  BY <1>1, <1>4 DEF BoundOps, Atomic!InRange
<1> QED BY <1>3, <1>4

\* Bounds and begin take effect where the scan stops; later scans move.
LEMMA SeenIteration ==
    ASSUME OneOrder, TypeInv, TreeInv, CallInv, TypeInv',
           NEW t \in Threads, Step(t), Iteration(t)
    PROVE  Seen(t)
<1> USE DEF Goto, trie
<1>0. /\ pc \in [Threads -> PCs] /\ op \in [Threads -> OpSet \cup {NoOp}]
      /\ cur \in [Threads -> Nodes \cup {NoNode}]
      /\ probe \in [Threads -> Nodes \cup {NoNode}]
      /\ ret \in [Threads -> {"none", "yes", "no", "end"}]
  BY DEF TypeInv, TypeOK
<1>a. ASSUME pc[t] \in Scanning
      PROVE  /\ cur[t] \in Nodes /\ cur[t] # NoNode /\ probe[t] = NoNode
             /\ op[t] \in OpSet /\ op[t] # NoOp
  BY <1>a, HoldsOne, NodesArePaths, ConstantsAssumption
     DEF Scanning, Linking, TreeInv, TypeInv, Shape
<1>1. CASE ScanStop(t)
  <2>1. /\ pc[t] \in {"scan_geq", "scan_value", "step_value"} /\ HasValue(cur[t])
        /\ UNCHANGED <<value, op, cur, probe>> /\ pc[t] \in Scanning
    BY <1>1 DEF ScanStop, ScanDone
  <2>2. CASE pc'[t] # "iter"
    <3>1. ret' = ret
      BY <1>0, <1>1, <2>2 DEF ScanStop
    <3>2. Pending'[t] = Pending[t] /\ Pinned'[t] = Pinned[t]
      BY <2>1, <3>1, ViewOf
    <3> QED BY <2>1, <3>1, <3>2, Unseen
  <2>3. ASSUME pc'[t] = "iter" PROVE ret'[t] = "yes"
    BY <1>0, <1>1, <2>3 DEF ScanStop
  <2>4. CASE pc'[t] = "iter" /\ ret[t] # "none"
    <3>1. /\ Pinned[t] = {cur[t]} /\ Pinned'[t] = {cur[t]}
          /\ Pending[t] = NoOp /\ Pending'[t] = NoOp /\ ret'[t] = "yes"
      BY <1>a, <2>1, <2>3, <2>4, ViewOf
    <3> QED BY <2>1, <3>1, Moved
  <2>5. CASE pc'[t] = "iter" /\ ret[t] = "none"
    <3>1. cur[t] \in Keys /\ Atomic!Has(cur[t])
      BY <1>a, <2>1 DEF CallInv, ValuesAtKeys, Atomic!Has, Stored, HasValue
    <3>2. Pinned'[t] = {cur[t]} /\ Pending[t] = op[t] /\ ret'[t] = "yes" /\ Stored' = Stored
      BY <1>a, <2>1, <2>3, <2>5, ViewOf DEF Stored
    <3>3. Atomic!Effect(t, "yes", {cur[t]})
      BY <3>2, TakesEffect
    <3>4. /\ op[t].name \in {"lower_bound", "upper_bound", "begin", "shared_begin"}
          /\ Atomic!InRange(Pending[t], cur[t])
      BY <1>1, <2>5, <3>2, StopsInRange DEF BoundOps
    <3>5. Atomic!First(t)
      BY <1>a, <2>1, <3>1, <3>2, <3>3, <3>4 DEF Atomic!First, Atomic!Calls
    <3> QED BY <3>5 DEF Seen
  <2> QED BY <2>2, <2>4, <2>5
<1>2. CASE ScanNext(t)
  <2>1. /\ UNCHANGED <<value, op, probe, ret>> /\ pc[t] \in Scanning
        /\ next[cur[t]] # NoNode /\ cur'[t] = next[cur[t]]
    BY <1>0, <1>2 DEF ScanNext
  <2>2. CASE ret[t] = "none"
    BY <2>1, <2>2, ViewOf, Unseen
  <2>3. CASE ret[t] # "none"
    <3>1. Precedes(cur[t], cur'[t])
      BY <1>a, <2>1, NextFollows
    <3>2. Pending[t] = NoOp /\ Pending'[t] = NoOp
      BY <2>1, <2>3, ViewOf
    <3>3. Pinned[t] = {cur[t], probe[t]} \ {NoNode}
      BY <2>3, ViewOf
    <3>4. Pinned'[t] = {cur'[t], probe'[t]} \ {NoNode}
      BY <2>1, <2>3, ViewOf
    <3>5. Pinned[t] = {cur[t]} /\ Pinned'[t] \subseteq {cur'[t]}
      BY <1>a, <2>1, <3>3, <3>4
    <3> QED BY <2>1, <3>1, <3>2, <3>5, Moved
  <2> QED BY <2>2, <2>3
<1>3. CASE ScanEnd(t)
  <2>1. /\ UNCHANGED <<value, probe>> /\ pc[t] \in Scanning /\ ReturnNoIterator(t, "end")
    BY <1>3 DEF ScanEnd
  <2>2. CASE ret[t] # "none"
    BY <2>1, <2>2, SeenReturn DEF Scanning
  <2>3. CASE ret[t] = "none"
    <3>1. op[t].name \in {"lower_bound", "upper_bound", "begin", "shared_begin"}
      BY <2>1, <2>3 DEF CallInv, Progress, Decided, Scanning, BoundOps
    <3>2. ret'[t] = "end" /\ cur'[t] = NoNode /\ probe'[t] = NoNode /\ Stored' = Stored
      BY <1>0, <1>a, <2>1 DEF ReturnNoIterator, Stored
    <3>3. Pinned'[t] = {} /\ Pending[t] = op[t]
      BY <2>3, <3>2, ViewOf
    <3>4. Atomic!Effect(t, "end", {})
      BY <3>2, <3>3, TakesEffect
    <3>5. Atomic!First(t)
      BY <1>a, <2>1, <3>1, <3>2, <3>3, <3>4 DEF Atomic!First, Atomic!Calls
    <3> QED BY <3>5 DEF Seen
  <2> QED BY <2>2, <2>3
<1>4. ASSUME pc[t] \in {"ahead_first", "ahead", "iter2"}
      PROVE  /\ Pending[t] = NoOp /\ cur[t] \in Nodes /\ cur[t] # NoNode /\ ret[t] # "none"
             /\ Pinned[t] = {cur[t], probe[t]} \ {NoNode}
             /\ pc[t] = "ahead_first" => probe[t] = NoNode
  BY <1>4, HoldsCur, ViewOf, NodesArePaths
     DEF CallInv, Progress, Decided, TreeInv, TypeInv, Shape
<1>5. CASE NextStep(t)
  <2>1. /\ UNCHANGED <<value, op, cur, ret>> /\ pc[t] \in {"ahead_first", "ahead"}
        /\ next[Front(t)] # NoNode /\ probe'[t] = next[Front(t)]
    BY <1>0, <1>5 DEF NextStep
  <2>2. ASSUME pc[t] = "ahead" PROVE /\ probe[t] \in Nodes /\ Precedes(cur[t], probe[t])
                                     /\ probe[t] \in Paths
    BY <2>2, HoldsTwo, NodesArePaths DEF TreeInv
  <2>3. Front(t) \in Nodes
    BY <1>4, <2>1, <2>2 DEF Front
  <2>4. Precedes(Front(t), probe'[t]) /\ probe'[t] \in Paths
    BY <2>1, <2>3, NextFollows
  <2>5. \A q \in Pinned[t] : Precedes(q, probe'[t])
    <3>1. cur[t] \in Paths
      BY <1>4, <2>1, NodesArePaths
    <3>2. CASE pc[t] = "ahead_first"
      BY <1>4, <2>4, <3>2 DEF Front
    <3>3. CASE pc[t] = "ahead"
      <4>1. Front(t) = probe[t]
        BY <3>3 DEF Front
      <4>2. Precedes(cur[t], probe'[t])
        BY <2>2, <2>4, <3>1, <3>3, <4>1, PrecedesTransitive
      <4> QED BY <1>4, <2>1, <2>4, <4>1, <4>2
    <3> QED BY <2>1, <3>2, <3>3
  <2>6. /\ Pending'[t] = NoOp /\ Pinned'[t] \subseteq {cur[t], probe'[t]}
        /\ cur[t] \in Pinned[t]
    BY <1>4, <2>1, ViewOf
  <2> QED BY <1>4, <2>1, <2>5, <2>6, Moved
<1>6. CASE NextEnd(t) \/ NextReturn(t)
  <2>1. /\ UNCHANGED <<value, op, cur, ret>> /\ pc[t] \in {"ahead_first", "ahead"}
        /\ probe'[t] \in {NoNode, probe[t]}
    BY <1>0, <1>6 DEF NextEnd, NextReturn
  <2>2. Pending'[t] = NoOp /\ Pinned'[t] = {cur[t], probe'[t]} \ {NoNode}
    BY <1>4, <2>1, ViewOf
  <2>3. Pinned'[t] \subseteq Pinned[t] /\ Pinned[t] # {}
    BY <1>4, <2>1, <2>2
  <2> QED BY <1>4, <2>1, <2>2, <2>3, Moved
<1> QED BY <1>1, <1>2, <1>3, <1>5, <1>6 DEF Iteration

\* The client begins a call, or uses or drops its iterators.
LEMMA SeenClient ==
    ASSUME ~EraseAnyIterator, TypeInv, TreeInv, CallInv, TypeInv',
           NEW t \in Threads, Step(t), Call(t) \/ UseIterator(t) \/ DropIterator(t)
    PROVE  Seen(t)
<1> USE DEF Goto, trie
<1>0. /\ pc \in [Threads -> PCs] /\ op \in [Threads -> OpSet \cup {NoOp}]
      /\ cur \in [Threads -> Nodes \cup {NoNode}]
      /\ probe \in [Threads -> Nodes \cup {NoNode}]
      /\ ret \in [Threads -> {"none", "yes", "no", "end"}]
  BY DEF TypeInv, TypeOK
<1>1. CASE Call(t)
  <2>1. PICK o \in OpSet : op' = [op EXCEPT ![t] = o]
    BY <1>1 DEF Call
  <2>2. /\ pc[t] = "idle" /\ op'[t] = o /\ ret' = [ret EXCEPT ![t] = "none"]
        /\ UNCHANGED <<value, cur, probe>> /\ ret'[t] = "none"
    BY <1>0, <1>1, <2>1 DEF Call
  <2>3. op[t] = NoOp /\ cur[t] = NoNode /\ probe[t] = NoNode
    BY <2>2 DEF TypeInv, Shape
  <2>4. Pending[t] = NoOp /\ Pending'[t] = o /\ Pinned[t] = {} /\ Pinned'[t] = {}
    BY <2>2, <2>3, ViewOf
  <2>5. Pending' = [Pending EXCEPT ![t] = o] /\ Pinned' = [Pinned EXCEPT ![t] = {}]
    BY <2>4, OneViewChanges
  <2>6. Pinned' = Pinned
    BY <2>4, <2>5 DEF Pinned
  <2>7. Stored' = Stored
    BY <2>2 DEF Stored
  <2>8. Atomic!Invoke(t)
    BY <2>2, <2>4, <2>5, <2>6, <2>7 DEF Atomic!Invoke, Atomic!Requests, OpSet
  <2> QED BY <2>8 DEF Seen
<1>a. ASSUME pc[t] \in {"iter", "iter2"}
      PROVE  /\ Pending[t] = NoOp /\ cur[t] \in Nodes /\ cur[t] # NoNode /\ ret[t] # "none"
             /\ Pinned[t] = {cur[t], probe[t]} \ {NoNode}
  BY <1>a, HoldsCur, ViewOf, NodesArePaths
     DEF CallInv, Progress, Decided, TreeInv, TypeInv, Shape
<1>2. CASE Increment(t) \/ NextCall(t)
  BY <1>2, ViewOf, Unseen DEF Increment, NextCall
<1>3. CASE EraseIterator(t)
  <2>1. /\ pc[t] = "iter" /\ Exclusive(t) /\ HasValue(cur[t])
        /\ value' = [value EXCEPT ![cur[t]] = NoValue]
        /\ UNCHANGED <<op, cur, probe, ret>>
    BY <1>3 DEF EraseIterator
  <2>2. cur[t] \in Keys /\ cur[t] \in Pinned[t] /\ cur[t] \in Held(t) /\ Atomic!Has(cur[t])
    BY <1>a, <2>1 DEF CallInv, ValuesAtKeys, Atomic!Has, Stored, HasValue, Held
  <2>3. Atomic!Put(t, cur[t], NoValue)
    BY <2>1, <2>2, PutsValue DEF TreeInv
  <2>4. Pending' = Pending /\ Pinned' = Pinned
    BY <2>1 DEF Pending, Pinned
  <2>5. Atomic!EraseAt(t)
    BY <1>a, <2>1, <2>2, <2>3, <2>4 DEF Atomic!EraseAt
  <2> QED BY <2>5 DEF Seen
<1>4. CASE EraseValueless(t)
  BY <1>4 DEF EraseValueless
<1>5. CASE Unlock(t)
  BY <1>5, <1>a, SeenReturn DEF Unlock
<1>6. CASE UnlockOne(t)
  <2>1. /\ UNCHANGED <<value, op, ret>> /\ pc[t] = "iter2"
        /\ cur'[t] \in {cur[t], probe[t]} /\ probe'[t] = NoNode
    BY <1>0, <1>6 DEF UnlockOne
  <2>2. Pending'[t] = NoOp /\ Pinned'[t] \subseteq Pinned[t] /\ Pinned[t] # {}
    BY <1>a, <2>1, ViewOf
  <2> QED BY <1>a, <2>1, <2>2, Moved
<1> QED BY <1>1, <1>2, <1>3, <1>4, <1>5, <1>6 DEF UseIterator, DropIterator

-----------------------------------------------------------------------------
\* In every behaviour in which erase(it) is called only at values, and for keys
\* on which the order of edges and that of std::string agree (any keys, if no
\* bounds are asked for), the trie is an atomic map: insertion, erasure and
\* lookups are linearizable, bounds return present keys in their range, values
\* do not change under an iterator, iterators move forward only.
THEOREM ImplementsMap ==
    ASSUME ~EraseAnyIterator, OneOrder
    PROVE  Spec => ImplementsAtomicMap
<1>1. Init => Inv /\ CallInv
  BY TypeInit, TreeInit, CallInit DEF Inv, CallInv
<1>2. Init => Atomic!Init
  BY KeysAreNodes DEF Init, Atomic!Init, Stored, Pending, Pinned
<1>3. Inv /\ CallInv /\ [Next]_vars => [Atomic!Next]_(Atomic!vars)
  <2> SUFFICES ASSUME TypeInv, TreeInv, CallInv, [Next]_vars
               PROVE  [Atomic!Next]_(Atomic!vars)
    BY DEF Inv
  <2>0. TypeInv'
    BY TypeStep
  <2>1. CASE UNCHANGED vars
    BY <2>1 DEF vars, Atomic!vars, Stored, Pending, Pinned
  <2>2. ASSUME NEW t \in Threads, Step(t) PROVE [Atomic!Next]_(Atomic!vars)
    <3>1. Seen(t)
      BY <2>0, <2>2, SeenLookup, SeenErasure, SeenInsertion, SeenIteration, SeenClient
         DEF Step, Internal
    <3> QED BY <3>1 DEF Seen, Atomic!Next, Atomic!vars
  <2> QED BY <2>1, <2>2 DEF Next
<1> QED BY <1>1, <1>2, <1>3, TreeStep, CallStep, PTL
        DEF Spec, ImplementsAtomicMap, Atomic!Spec
=============================================================================

-------------------------- MODULE ConcurrentLLTrie --------------------------
(***************************************************************************)
(* concurrent_ll_trie::ConcurrentLLTrie: a trie whose nodes carry a        *)
(* std::shared_mutex each and are threaded on a `next` list in key order.  *)
(*                                                                         *)
(* Threads walk the trie hand over hand: lock the next node, then unlock   *)
(* the one behind.  Lookups, bounds and shared iteration take the locks    *)
(* shared; insertion, erasure and `begin` take them exclusively.  A call   *)
(* that returns an iterator leaves the node locked until the client calls  *)
(* unlock() or moves the iterator.                                         *)
(*                                                                         *)
(* One action is the code between two lock acquisitions of one thread:     *)
(* everything it touches is protected by the locks held, and the unlock    *)
(* that follows an acquisition only enables other threads.  The exception  *)
(* is the counter size_, which no lock protects: its load and its store    *)
(* are steps of their own.                                                 *)
(***************************************************************************)
EXTENDS KeyOrder, FiniteSets

CONSTANTS
    Threads,           \* the client's threads
    Chars,             \* characters used in keys
    Keys,              \* keys the client passes
    Values,            \* values the client stores
    Ops,               \* operations the client calls, a subset of AllOps
    SizeModulus,       \* 2^w, w the width of size_t
    EraseAnyIterator,  \* may erase(it) be called on an iterator without value
    NoNode,            \* nullptr
    NoThread,          \* nobody owns the mutex
    NoValue,           \* has_value = false
    NoOp               \* the thread is not in a call

ExclusiveOps == {"insert", "insert_or_assign", "erase", "begin"}
BoundOps     == {"lower_bound", "upper_bound"}
LookupOps    == {"find", "count", "at"}
AllOps       == ExclusiveOps \cup BoundOps \cup LookupOps \cup {"shared_begin"}

Nodes == {Root} \cup UNION {PathsTo(k) : k \in Keys}

OpSet == [name : Ops, key : Keys, val : Values \cup {NoValue}]

ASSUME ConstantsAssumption ==
    /\ Chars \subseteq -128..127
    /\ Keys \subseteq Seq(Chars)
    /\ Ops \subseteq AllOps
    /\ SizeModulus \in Nat \ {0}
    /\ EraseAnyIterator \in BOOLEAN
    /\ NoNode \notin Nodes
    /\ NoThread \notin Threads
    /\ NoValue \notin Values
    /\ NoOp \notin OpSet

VARIABLES
    children,   \* node -> edges to its children (a child of n by c is Append(n, c))
    next,       \* node -> its successor on the list
    value,      \* node -> value, NoValue while has_value is false
    size,       \* size_
    writer,     \* node -> thread holding its mutex exclusively
    readers,    \* node -> threads holding its mutex shared
    pc,         \* thread -> where it is
    op,         \* thread -> the call it is in, or whose iterator it holds
    cur,        \* thread -> local `node`, later the node of the iterator
    new,        \* thread -> local `new_node` while it is not yet a child
    probe,      \* thread -> local `rightmost_node`, or the second iterator of next()
    loaded,     \* thread -> size_ as loaded by ++ or --
    ret         \* thread -> result of its last call

trie  == <<children, next, value, size>>
locks == <<writer, readers>>
vars  == <<children, next, value, size, writer, readers,
           pc, op, cur, new, probe, loaded, ret>>

\* The positions at which a thread walks the list.
Scanning == {"scan_geq", "scan_value", "step", "step_value", "erase_next"}
Linking  == {"link_first", "link_right", "link_child"}
PCs == Scanning \cup Linking \cup
    {"idle", "lock_root", "descend", "size_inc", "size_dec", "iter",
     "erase_it_dec", "ahead_first", "ahead", "iter2"}

-----------------------------------------------------------------------------
(* Locks and locals *)

\* Mutated form of Exclusive: erasure traverses with shared locks.
ExclusiveButErase(t) == op[t].name \in ExclusiveOps \ {"erase"}

\* The mode of the locks of the thread's call.
Exclusive(t) == op[t].name \in ExclusiveOps

HasValue(n) == value[n] # NoValue

\* std::shared_mutex: lock() and lock_shared() return once this holds.
CanLock(t, n) ==
    /\ writer[n] = NoThread
    /\ Exclusive(t) => readers[n] = {}

\* Lock n in the thread's mode, then unlock the nodes in `behind`.
LockAndRelease(t, n, behind) ==
    /\ CanLock(t, n)
    /\ IF Exclusive(t)
       THEN /\ writer' = [m \in Nodes |->
                            IF m \in behind THEN NoThread
                            ELSE IF m = n THEN t ELSE writer[m]]
            /\ UNCHANGED readers
       ELSE /\ readers' = [m \in Nodes |->
                            IF m \in behind THEN readers[m] \ {t}
                            ELSE IF m = n THEN readers[m] \cup {t} ELSE readers[m]]
            /\ UNCHANGED writer

\* Mutated form of Release: the node stays locked.
ReleaseNothing(t, n) == UNCHANGED locks

\* Unlock n in the thread's mode.
Release(t, n) ==
    IF Exclusive(t)
    THEN writer' = [writer EXCEPT ![n] = NoThread] /\ UNCHANGED readers
    ELSE readers' = [readers EXCEPT ![n] = @ \ {t}] /\ UNCHANGED writer

Goto(t, label) == pc' = [pc EXCEPT ![t] = label]

\* The call returns r and no iterator: nothing is locked any more.
ReturnNoIterator(t, r) ==
    /\ Goto(t, "idle")
    /\ op' = [op EXCEPT ![t] = NoOp]
    /\ cur' = [cur EXCEPT ![t] = NoNode]
    /\ ret' = [ret EXCEPT ![t] = r]

\* k_char_idx is the depth of the node reached.
AtKey(t) == Len(cur[t]) >= Len(op[t].key)
KChar(t) == op[t].key[Len(cur[t]) + 1]
Child(n, c) == Append(n, c)

\* The two ends of a descent: the node of the key, or no edge to go on.
Arrived(t) == pc[t] = "descend" /\ AtKey(t)
EdgeMissing(t) ==
    pc[t] = "descend" /\ ~AtKey(t) /\ KChar(t) \notin children[cur[t]]

-----------------------------------------------------------------------------
(* Calls *)

Init ==
    /\ children = [n \in Nodes |-> {}]
    /\ next = [n \in Nodes |-> NoNode]
    /\ value = [n \in Nodes |-> NoValue]
    /\ size = 0
    /\ writer = [n \in Nodes |-> NoThread]
    /\ readers = [n \in Nodes |-> {}]
    /\ pc = [t \in Threads |-> "idle"]
    /\ op = [t \in Threads |-> NoOp]
    /\ cur = [t \in Threads |-> NoNode]
    /\ new = [t \in Threads |-> NoNode]
    /\ probe = [t \in Threads |-> NoNode]
    /\ loaded = [t \in Threads |-> 0]
    /\ ret = [t \in Threads |-> "none"]

\* Only the two inserting operations have a value; begin ignores the key.
Call(t) ==
    /\ pc[t] = "idle"
    /\ \E o \in OpSet :
          /\ o.name \in {"insert", "insert_or_assign"} <=> o.val # NoValue
          /\ op' = [op EXCEPT ![t] = o]
    /\ Goto(t, "lock_root")
    /\ ret' = [ret EXCEPT ![t] = "none"]
    /\ UNCHANGED <<trie, locks, cur, new, probe, loaded>>

LockRoot(t) ==
    /\ pc[t] = "lock_root"
    /\ LockAndRelease(t, Root, {})
    /\ cur' = [cur EXCEPT ![t] = Root]
    /\ Goto(t, IF op[t].name \in {"begin", "shared_begin"} THEN "scan_value"
               ELSE "descend")
    /\ UNCHANGED <<trie, op, new, probe, loaded, ret>>

\* The child for the next character exists: the loop's `continue` branch.
Descend(t) ==
    /\ pc[t] = "descend"
    /\ ~AtKey(t)
    /\ KChar(t) \in children[cur[t]]
    /\ LockAndRelease(t, Child(cur[t], KChar(t)), {cur[t]})
    /\ cur' = [cur EXCEPT ![t] = Child(cur[t], KChar(t))]
    /\ UNCHANGED <<trie, pc, op, new, probe, loaded, ret>>

\* traverse_prefix returns nullptr: the key is not in the trie.
LookupAbsent(t) ==
    /\ EdgeMissing(t)
    /\ op[t].name \in LookupOps \cup {"erase"}
    /\ Release(t, cur[t])
    /\ ReturnNoIterator(t, "no")
    /\ UNCHANGED <<trie, new, probe, loaded>>

FindAtKey(t) ==
    /\ Arrived(t)
    /\ op[t].name = "find"
    /\ IF HasValue(cur[t])
       THEN /\ Goto(t, "iter")
            /\ ret' = [ret EXCEPT ![t] = "yes"]
            /\ UNCHANGED <<locks, op, cur>>
       ELSE /\ Release(t, cur[t])
            /\ ReturnNoIterator(t, "no")
    /\ UNCHANGED <<trie, new, probe, loaded>>

\* count and at: at returns the value or throws, holding nothing either way.
CountAtKey(t) ==
    /\ Arrived(t)
    /\ op[t].name \in {"count", "at"}
    /\ Release(t, cur[t])
    /\ ReturnNoIterator(t, IF HasValue(cur[t]) THEN "yes" ELSE "no")
    /\ UNCHANGED <<trie, new, probe, loaded>>

-----------------------------------------------------------------------------
(* Erasure *)

EraseAtKey(t) ==
    /\ Arrived(t)
    /\ op[t].name = "erase"
    /\ IF HasValue(cur[t])
       THEN /\ value' = [value EXCEPT ![cur[t]] = NoValue]
            /\ loaded' = [loaded EXCEPT ![t] = size]
            /\ Goto(t, "size_dec")
            /\ ret' = [ret EXCEPT ![t] = "yes"]
            /\ UNCHANGED <<locks, op, cur>>
       ELSE /\ Release(t, cur[t])
            /\ ReturnNoIterator(t, "no")
            /\ UNCHANGED <<value, loaded>>
    /\ UNCHANGED <<children, next, size, new, probe>>

\* Mutated form of Decremented: the counter is not unsigned.
DecrementedSigned(n) == n - 1

\* --size_ of a w-bit counter.
Decremented(n) == (n - 1) % SizeModulus

SizeDec(t) ==
    /\ pc[t] = "size_dec"
    /\ size' = Decremented(loaded[t])
    /\ loaded' = [loaded EXCEPT ![t] = 0]
    /\ Release(t, cur[t])
    /\ ReturnNoIterator(t, ret[t])
    /\ UNCHANGED <<children, next, value, new, probe>>

\* erase(it): the node behind the iterator loses its value and the iterator
\* moves to the raw list successor, value or not.
EraseIterator(t) ==
    /\ pc[t] = "iter"
    /\ Exclusive(t)
    /\ HasValue(cur[t])
    /\ value' = [value EXCEPT ![cur[t]] = NoValue]
    /\ loaded' = [loaded EXCEPT ![t] = size]
    /\ Goto(t, "erase_it_dec")
    /\ UNCHANGED <<children, next, size, locks, op, cur, new, probe, ret>>

\* Mutated form of EraseIteratorDec: erase(it) does not count.
EraseIteratorUncounted(t) ==
    /\ pc[t] = "erase_it_dec"
    /\ loaded' = [loaded EXCEPT ![t] = 0]
    /\ Goto(t, "erase_next")
    /\ UNCHANGED <<trie, locks, op, cur, new, probe, ret>>

EraseIteratorDec(t) ==
    /\ pc[t] = "erase_it_dec"
    /\ size' = Decremented(loaded[t])
    /\ loaded' = [loaded EXCEPT ![t] = 0]
    /\ Goto(t, "erase_next")
    /\ UNCHANGED <<children, next, value, locks, op, cur, new, probe, ret>>

\* erase(it) on a node without value returns Iterator{nullptr} and leaves the
\* node locked.  The client goes on with the iterator that is returned.
EraseValueless(t) ==
    /\ pc[t] = "iter"
    /\ Exclusive(t)
    /\ EraseAnyIterator
    /\ ~HasValue(cur[t])
    /\ ReturnNoIterator(t, "end")
    /\ UNCHANGED <<trie, locks, new, probe, loaded>>

-----------------------------------------------------------------------------
(* Insertion: traverse_creating *)

Inserting(t) == op[t].name \in {"insert", "insert_or_assign"}

\* Something is to be created below cur: the new node's path.
NewPath(t) == Child(cur[t], KChar(t))
Greater(t) == \E d \in children[cur[t]] : d > KChar(t)
Smaller(t) == \E d \in children[cur[t]] : d < KChar(t)

\* new_node is created and locked; nobody else knows it yet.
Allocate(t) ==
    /\ EdgeMissing(t)
    /\ Inserting(t)
    /\ new' = [new EXCEPT ![t] = NewPath(t)]
    /\ writer' = [writer EXCEPT ![NewPath(t)] = t]
    /\ UNCHANGED <<children, value, size, readers, op, cur, probe, loaded, ret>>

\* "New node will be in the middle": its successor is the next edge's node.
CreateMiddle(t) ==
    /\ Allocate(t)
    /\ Smaller(t)
    /\ \E u \in Chars :
          /\ IsLowerBound(children[cur[t]], KChar(t), u)
          /\ next' = [next EXCEPT ![NewPath(t)] = Child(cur[t], u)]
    /\ Goto(t, "link_first")

\* "New node will be the first"
CreateFirst(t) ==
    /\ Allocate(t)
    /\ ~Smaller(t)
    /\ \E u \in Chars :
          /\ IsLowerBound(children[cur[t]], KChar(t), u)
          /\ next' = [next EXCEPT ![NewPath(t)] = Child(cur[t], u),
                                  ![cur[t]] = NewPath(t)]
    /\ Goto(t, "link_child")

\* "New node will be the last, after the last child"
CreateLast(t) ==
    /\ Allocate(t)
    /\ Smaller(t)
    /\ ~Greater(t)
    /\ Goto(t, "link_first")
    /\ UNCHANGED next

\* "New node will be the last, and first"
CreateOnly(t) ==
    /\ Allocate(t)
    /\ children[cur[t]] = {}
    /\ next' = [next EXCEPT ![NewPath(t)] = next[cur[t]],
                            ![cur[t]] = NewPath(t)]
    /\ Goto(t, "link_child")

\* Mutated form of LeftSibling: children.begin() instead of --children_it.
LeftmostSibling(t, d) ==
    d \in children[cur[t]] /\ \A e \in children[cur[t]] : d <= e

LeftSibling(t, d) == IsPredecessor(children[cur[t]], KChar(t), d)

\* Lock the sibling to the left, keeping node and new_node locked.
LinkFirst(t) ==
    /\ pc[t] = "link_first"
    /\ \E d \in Chars :
          /\ LeftSibling(t, d)
          /\ LockAndRelease(t, Child(cur[t], d), {})
          /\ probe' = [probe EXCEPT ![t] = Child(cur[t], d)]
    /\ Goto(t, "link_right")
    /\ UNCHANGED <<trie, op, cur, new, loaded, ret>>

\* traverse_rightmost
WalkRight(t) ==
    /\ pc[t] = "link_right"
    /\ \E d \in Chars :
          /\ IsLast(children[probe[t]], d)
          /\ LockAndRelease(t, Child(probe[t], d), {probe[t]})
          /\ probe' = [probe EXCEPT ![t] = Child(probe[t], d)]
    /\ UNCHANGED <<trie, pc, op, cur, new, loaded, ret>>

\* Mutated forms of RightLinks: rightmost_node->next is not moved to the new
\* node; a new node in the middle is linked to its right only; the pointer is
\* overwritten before it is copied.
RightLinksDropTail(t) == [next EXCEPT ![probe[t]] = new[t]]
RightLinksOneSided(t) ==
    IF Greater(t) THEN next
    ELSE [next EXCEPT ![new[t]] = next[probe[t]], ![probe[t]] = new[t]]
RightLinksSwapped(t) ==
    [next EXCEPT ![probe[t]] = new[t], ![new[t]] = IF Greater(t) THEN @ ELSE new[t]]

\* The list with the new node after the rightmost node.
RightLinks(t) ==
    [next EXCEPT ![new[t]] = IF Greater(t) THEN @ ELSE next[probe[t]],
                 ![probe[t]] = new[t]]

\* The rightmost node of the subtree to the left is found: link after it.
LinkRight(t) ==
    /\ pc[t] = "link_right"
    /\ children[probe[t]] = {}
    /\ next' = RightLinks(t)
    /\ writer' = [writer EXCEPT ![probe[t]] = NoThread]
    /\ probe' = [probe EXCEPT ![t] = NoNode]
    /\ Goto(t, "link_child")
    /\ UNCHANGED <<children, value, size, readers, op, cur, new, loaded, ret>>

\* node->children[k_char] = new_node, unlock node, advance to the new node.
LinkChild(t) ==
    /\ pc[t] = "link_child"
    /\ children' = [children EXCEPT ![cur[t]] = @ \cup {KChar(t)}]
    /\ writer' = [writer EXCEPT ![cur[t]] = NoThread]
    /\ cur' = [cur EXCEPT ![t] = new[t]]
    /\ new' = [new EXCEPT ![t] = NoNode]
    /\ Goto(t, "descend")
    /\ UNCHANGED <<next, value, size, readers, op, probe, loaded, ret>>

\* Mutated form of AlreadyThere: insert does not look at has_value.
AlreadyThereUntested(t) == FALSE

AlreadyThere(t) == op[t].name = "insert" /\ HasValue(cur[t])

\* The node of the key has a value already: insert leaves it alone.
InsertExisting(t) ==
    /\ Arrived(t)
    /\ AlreadyThere(t)
    /\ Goto(t, "iter")
    /\ ret' = [ret EXCEPT ![t] = "no"]
    /\ UNCHANGED <<trie, locks, op, cur, new, probe, loaded>>

\* Store the value and load size_ for size_++; insert_or_assign counts the
\* key whether it was there or not.
StoreValue(t) ==
    /\ Arrived(t)
    /\ Inserting(t)
    /\ ~AlreadyThere(t)
    /\ value' = [value EXCEPT ![cur[t]] = op[t].val]
    /\ ret' = [ret EXCEPT ![t] = IF HasValue(cur[t]) THEN "no" ELSE "yes"]
    /\ loaded' = [loaded EXCEPT ![t] = size]
    /\ Goto(t, "size_inc")
    /\ UNCHANGED <<children, next, size, locks, op, cur, new, probe>>

SizeInc(t) ==
    /\ pc[t] = "size_inc"
    /\ size' = (loaded[t] + 1) % SizeModulus
    /\ loaded' = [loaded EXCEPT ![t] = 0]
    /\ Goto(t, "iter")
    /\ UNCHANGED <<children, next, value, locks, op, cur, new, probe, ret>>

-----------------------------------------------------------------------------
(* Bounds and iteration *)

\* lower_bound_node, no edge k_char: the next edge's subtree holds the answer.
BoundAbove(t) ==
    /\ EdgeMissing(t)
    /\ op[t].name \in BoundOps
    /\ \E u \in Chars :
          /\ IsLowerBound(children[cur[t]], KChar(t), u)
          /\ LockAndRelease(t, Child(cur[t], u), {cur[t]})
          /\ cur' = [cur EXCEPT ![t] = Child(cur[t], u)]
    /\ Goto(t, "scan_value")
    /\ UNCHANGED <<trie, op, new, probe, loaded, ret>>

\* lower_bound_node leaves its loop: scan for the first key >= k from here.
BoundScan(t) ==
    /\ pc[t] = "descend"
    /\ op[t].name \in BoundOps
    /\ ~AtKey(t) => \A d \in children[cur[t]] : d < KChar(t)
    /\ Goto(t, "scan_geq")
    /\ UNCHANGED <<trie, locks, op, cur, new, probe, loaded, ret>>

\* Mutated form of ScanDone: any value ends the scan, whatever its key.
ScanDoneAtAnyKey(t) ==
    /\ HasValue(cur[t])
    /\ pc[t] \in {"scan_geq", "scan_value", "step_value"}

\* The scan is over: next_geq_value_node, next_value_node(_shared), or the
\* loop of operator++.
ScanDone(t) ==
    /\ HasValue(cur[t])
    /\ \/ pc[t] = "scan_geq" /\ ~KeyLess(cur[t], op[t].key)
       \/ pc[t] \in {"scan_value", "step_value"}

\* upper_bound steps over the key itself.
ScanStop(t) ==
    /\ pc[t] \in Scanning
    /\ ScanDone(t)
    /\ IF /\ pc[t] \in {"scan_geq", "scan_value"}
          /\ op[t].name = "upper_bound"
          /\ cur[t] = op[t].key
       THEN Goto(t, "step") /\ UNCHANGED ret
       ELSE Goto(t, "iter") /\ ret' = [ret EXCEPT ![t] = "yes"]
    /\ UNCHANGED <<trie, locks, op, cur, new, probe, loaded>>

\* Lock the list successor, unlock the node.
ScanNext(t) ==
    /\ pc[t] \in Scanning
    /\ ~ScanDone(t)
    /\ next[cur[t]] # NoNode
    /\ LockAndRelease(t, next[cur[t]], {cur[t]})
    /\ cur' = [cur EXCEPT ![t] = next[cur[t]]]
    /\ Goto(t, CASE pc[t] = "step" -> "step_value"
                 [] pc[t] = "erase_next" -> "iter"
                 [] OTHER -> pc[t])
    /\ UNCHANGED <<trie, op, new, probe, loaded, ret>>

ScanEnd(t) ==
    /\ pc[t] \in Scanning
    /\ ~ScanDone(t)
    /\ next[cur[t]] = NoNode
    /\ Release(t, cur[t])
    /\ ReturnNoIterator(t, "end")
    /\ UNCHANGED <<trie, new, probe, loaded>>

\* operator++ of either iterator.
Increment(t) ==
    /\ pc[t] = "iter"
    /\ Goto(t, "step")
    /\ UNCHANGED <<trie, locks, op, cur, new, probe, loaded, ret>>

\* unlock() or unlock_shared(): the client drops its iterator.
Unlock(t) ==
    /\ pc[t] = "iter"
    /\ Release(t, cur[t])
    /\ ReturnNoIterator(t, ret[t])
    /\ UNCHANGED <<trie, new, probe, loaded>>

-----------------------------------------------------------------------------
(* SharedIterator::next(): a second iterator, the first stays locked *)

NextCall(t) ==
    /\ pc[t] = "iter"
    /\ ~Exclusive(t)
    /\ Goto(t, "ahead_first")
    /\ UNCHANGED <<trie, locks, op, cur, new, probe, loaded, ret>>

\* The node whose successor next() looks at.
Front(t) == IF pc[t] = "ahead_first" THEN cur[t] ELSE probe[t]

NextStep(t) ==
    /\ \/ pc[t] = "ahead_first"
       \/ pc[t] = "ahead" /\ ~HasValue(probe[t])
    /\ next[Front(t)] # NoNode
    /\ LockAndRelease(t, next[Front(t)], {Front(t)} \ {cur[t]})
    /\ probe' = [probe EXCEPT ![t] = next[Front(t)]]
    /\ Goto(t, "ahead")
    /\ UNCHANGED <<trie, op, cur, new, loaded, ret>>

NextEnd(t) ==
    /\ \/ pc[t] = "ahead_first"
       \/ pc[t] = "ahead" /\ ~HasValue(probe[t])
    /\ next[Front(t)] = NoNode
    /\ IF pc[t] = "ahead" THEN Release(t, probe[t]) ELSE UNCHANGED locks
    /\ probe' = [probe EXCEPT ![t] = NoNode]
    /\ Goto(t, "iter")
    /\ UNCHANGED <<trie, op, cur, new, loaded, ret>>

NextReturn(t) ==
    /\ pc[t] = "ahead"
    /\ HasValue(probe[t])
    /\ Goto(t, "iter2")
    /\ UNCHANGED <<trie, locks, op, cur, new, probe, loaded, ret>>

\* The client holds two iterators and unlocks one of them.
UnlockOne(t) ==
    /\ pc[t] = "iter2"
    /\ \E n \in {cur[t], probe[t]} :
          /\ Release(t, n)
          /\ cur' = [cur EXCEPT ![t] = IF n = cur[t] THEN probe[t] ELSE cur[t]]
    /\ probe' = [probe EXCEPT ![t] = NoNode]
    /\ Goto(t, "iter")
    /\ UNCHANGED <<trie, op, new, loaded, ret>>

-----------------------------------------------------------------------------
(* Specification *)

Insertion(t) ==
    \/ CreateMiddle(t) \/ CreateFirst(t) \/ CreateLast(t) \/ CreateOnly(t)
    \/ LinkFirst(t) \/ WalkRight(t) \/ LinkRight(t) \/ LinkChild(t)
    \/ InsertExisting(t) \/ StoreValue(t) \/ SizeInc(t)

Lookup(t) ==
    \/ LockRoot(t) \/ Descend(t) \/ LookupAbsent(t) \/ FindAtKey(t)
    \/ CountAtKey(t) \/ BoundAbove(t) \/ BoundScan(t)

Erasure(t) ==
    \/ EraseAtKey(t) \/ SizeDec(t) \/ EraseIteratorDec(t)

Iteration(t) ==
    \/ ScanStop(t) \/ ScanNext(t) \/ ScanEnd(t)
    \/ NextStep(t) \/ NextEnd(t) \/ NextReturn(t)

\* A step of the code inside a call.
Internal(t) == Insertion(t) \/ Lookup(t) \/ Erasure(t) \/ Iteration(t)

\* What the client does next with the iterator it holds.
UseIterator(t) ==
    \/ Increment(t) \/ NextCall(t) \/ EraseIterator(t) \/ EraseValueless(t)

DropIterator(t) == Unlock(t) \/ UnlockOne(t)

Step(t) == Call(t) \/ Internal(t) \/ UseIterator(t) \/ DropIterator(t)

Next == \E t \in Threads : Step(t)

Spec == Init /\ [][Next]_vars

-----------------------------------------------------------------------------
(* What the locks are for *)

\* The nodes a thread's locals point to.
Held(t) == {cur[t], new[t], probe[t]} \ {NoNode}

\* The node a thread is about to lock.
Wants(t, n) ==
    \/ pc[t] = "lock_root" /\ n = Root
    \/ /\ pc[t] = "descend" /\ ~AtKey(t)
       /\ \/ KChar(t) \in children[cur[t]] /\ n = Child(cur[t], KChar(t))
          \/ /\ op[t].name \in BoundOps
             /\ KChar(t) \notin children[cur[t]]
             /\ \E u \in Chars : /\ IsLowerBound(children[cur[t]], KChar(t), u)
                                 /\ n = Child(cur[t], u)
    \/ /\ pc[t] = "link_first"
       /\ \E d \in Chars : LeftSibling(t, d) /\ n = Child(cur[t], d)
    \/ /\ pc[t] = "link_right"
       /\ \E d \in Chars : IsLast(children[probe[t]], d) /\ n = Child(probe[t], d)
    \/ pc[t] \in Scanning /\ ~ScanDone(t) /\ n = next[cur[t]]
    \/ pc[t] = "ahead_first" /\ n = next[cur[t]]
    \/ pc[t] = "ahead" /\ ~HasValue(probe[t]) /\ n = next[probe[t]]

\* s holds a lock that t waits for, or s waits to lock exclusively a node with
\* readers: a shared_mutex may let a new reader wait behind such a writer.
BlockedBy(t, s) ==
    \E n \in Nodes :
        /\ Wants(t, n)
        /\ \/ writer[n] = s
           \/ Exclusive(t) /\ s \in readers[n]
           \/ /\ ~Exclusive(t) /\ readers[n] # {}
              /\ Wants(s, n) /\ Exclusive(s)

\* Nodes other threads can reach: children of such nodes, and a node that is
\* on the list already though not yet a child.
InTree(n) == n = Root \/ \E m \in Nodes : \E c \in children[m] : n = Child(m, c)
Linked(n) == InTree(n) \/ \E t \in Threads : pc[t] = "link_child" /\ new[t] = n

Present == {k \in Keys : HasValue(k)}

-----------------------------------------------------------------------------
(* Invariants *)

\* Every variable has its type; in particular size_ stays a w-bit number.
TypeOK ==
    /\ children \in [Nodes -> SUBSET Chars]
    /\ next \in [Nodes -> Nodes \cup {NoNode}]
    /\ value \in [Nodes -> Values \cup {NoValue}]
    /\ size \in 0..(SizeModulus - 1)
    /\ writer \in [Nodes -> Threads \cup {NoThread}]
    /\ readers \in [Nodes -> SUBSET Threads]
    /\ pc \in [Threads -> PCs]
    /\ op \in [Threads -> OpSet \cup {NoOp}]
    /\ cur \in [Threads -> Nodes \cup {NoNode}]
    /\ new \in [Threads -> Nodes \cup {NoNode}]
    /\ probe \in [Threads -> Nodes \cup {NoNode}]
    /\ loaded \in [Threads -> 0..(SizeModulus - 1)]
    /\ ret \in [Threads -> {"none", "yes", "no", "end"}]

\* A thread holds exactly the locks of the nodes its locals point to, in the
\* mode of its call, and a node locked exclusively has no reader: no early
\* return leaks a lock, and no pointer is followed without one.
LockDiscipline ==
    \A t \in Threads, n \in Nodes :
        /\ writer[n] = t <=> n \in Held(t) /\ Exclusive(t)
        /\ t \in readers[n] <=> n \in Held(t) /\ ~Exclusive(t)
        /\ writer[n] # NoThread => readers[n] = {}

\* The list is the tree in key order: the successor of a node is the least
\* linked node after it, whatever insertions are under way.  A node added
\* between siblings must come after the whole subtree to its left.
ListIsTreeOrder ==
    \A n \in Nodes : Linked(n) =>
        /\ next[n] # NoNode => Linked(next[n]) /\ Precedes(n, next[n])
        /\ \A m \in Nodes : Linked(m) /\ Precedes(n, m) =>
              next[n] # NoNode /\ ~Precedes(m, next[n])

\* Locks are requested in key order: a thread waits only for a node after
\* every node it holds, new_node excepted until it is on the list.  Descents,
\* the walk to the rightmost node and list scans all respect one order.
LockOrder ==
    \A t \in Threads, n \in Nodes : Wants(t, n) =>
        \A m \in Held(t) :
            Precedes(m, n) \/ (m = new[t] /\ ~Linked(m))

\* No set of threads waits for each other, and no thread waits for itself.
NoDeadlock ==
    \A S \in SUBSET Threads : S # {} =>
        \E t \in S : \A s \in S : ~BlockedBy(t, s)

\* While a thread holds a node, nobody else changes it.  This is why reading
\* `next` or `children` and waiting for the lock found there is one action.
HeldNodesFrozen ==
    [][\A t \in Threads :
          UNCHANGED <<pc[t], cur[t], new[t], probe[t]>> =>
             \A n \in Held(t) :
                UNCHANGED <<children[n], next[n], value[n]>>]_vars

\* At rest, size() is the number of keys stored.
SizeCounts ==
    (\A t \in Threads : pc[t] = "idle") =>
        size = Cardinality(Present) % SizeModulus

\* A client that goes on with the iterator a call returns, as in
\* it = m.erase(it), until that is end() or it unlocks it, holds no lock then.
IdleHoldsNothing ==
    \A t \in Threads : pc[t] = "idle" =>
        \A n \in Nodes : writer[n] # t /\ t \notin readers[n]

\* The iterator of lower_bound(k), wherever it is moved, is at a key >= k in
\* the order of std::string.
BoundNotBelowKey ==
    \A t \in Threads :
        pc[t] \in {"iter", "iter2"} /\ op[t].name \in BoundOps =>
            ~KeyLess(cur[t], op[t].key)
=============================================================================

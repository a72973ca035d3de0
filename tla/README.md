# tree-radix-tree in TLA+

Specifications, model-checking instances and machine-checked proofs for the
header-only C++ library in `src/include`: ordered maps from strings, built on
tries whose nodes are also threaded on a linked list in key order.

Sections: [inventory](#inventory) · [modules](#modules) ·
[how the concurrent model corresponds to the code](#concurrentlltrie-model-and-code) ·
[clear() beside threads](#concurrentclear-model-and-code) ·
[the sequential trie](#lltrie-model-and-code) ·
[the radix tree](#llradixtree-model-and-code) · [runs](#runs) ·
[fairness](#fairness) · [proofs](#proofs) · [what the code does not
do](#where-code-and-documentation-differ) · [not modelled](#not-modelled) ·
[plan](#plan)

## Inventory

| Component | State | Operations | Interacts with |
|---|---|---|---|
| `concurrent_ll_trie::ConcurrentLLTrie` | nodes (`children`, `next`, `has_value`/`value`, a `std::shared_mutex`), `size_` | `insert`, `insert_or_assign`, `emplace`, `erase(key)`, `erase(it)`, `find`, `count`, `at`, `lower_bound`, `upper_bound`, `begin`, `shared_begin`, `clear` | any number of client threads, through the node locks; iterators keep a lock after the call returns |
| `Iterator`, `SharedIterator` | the node, and the lock held on it | `++`, `next()`, `unlock`, `unlock_shared`, `*` | move over the `next` list hand over hand, beside insertions |
| `ll_trie::LLTrie` and its iterator | nodes without locks, `size_` | the same, sequential | one client |
| `ll_radix_tree::LLRadixTree` and its iterator | nodes with an edge label of several characters, `size_` | the same; insertion splits nodes | one client; `common_prefix_length` |
| `utils.hpp` | none | `common_prefix_length`, `UTILS_LOG` | `LLRadixTree` |
| `display_tree`, `to_string`, `tree_string`, `debug_print_locked_nodes` | none | output | read only |

What is hard about them:

* **Three walks, one set of locks.** Descents lock from parent to child.
  Insertion holds the parent and the new node while it locks its way down the
  rightmost path of the *left* sibling. Scans lock along `next`. They must agree
  on one order, or threads deadlock; and each must find what it read before
  waiting for a lock still true after the lock is granted.
* **The list is maintained without a lock on the list.** A new node between two
  siblings must be linked after the rightmost node of the subtree to its left,
  while other threads insert into that subtree and into the new node's right
  neighbour. It is reachable over `next` before it is a child of its parent.
* **Iterators hold locks between calls**, so a client's later steps take part in
  every locking argument.
* **`size_`** is a plain `size_t` that no lock protects.
* **Erasing keeps nodes.** The nodes of erased keys stay, so "the node exists"
  and "the key is there" differ, and iterators stay valid after an erasure.
* **Splits.** `LLRadixTree` cuts a label in two when a key leaves it half way, and
  moves the key, value and children of the node to a new one, with pointers to the
  old node about: the parent's edge, the list, the client's iterator.
* **`clear()` and the destructor** delete a node's children while they hold its lock
  only; each child locks itself on the way to its end, while iterators may be held
  anywhere in the tree.
* **Two orders**: edges are sorted as signed `char`, keys by `std::string`'s `>=`.

What makes each component correct:

* ConcurrentLLTrie: lock discipline, one lock order, no deadlock, protected reads;
  the list equals the tree in key order; linearizability of point operations;
  scans miss nothing that was there all along; every call returns, and so does
  `clear()`, which never deletes a node in use; the type invariant.
* LLTrie: the list equals the tree in key order whatever the insertion order; the
  answers are those of `std::map`; `size()` counts the keys.
* LLRadixTree: the same contract while labels are split; edges and labels spell the
  keys; a split never moves an iterator forward.

## Modules

| Module | Role |
|---|---|
| `KeyOrder` | keys, node paths, tree order `Precedes`, string order `KeyLess`, the `std::map<char, …>` lookups |
| `ConcurrentLLTrie` | the concurrent trie: one action between two lock acquisitions |
| `ConcurrentInvariant` | the inductive invariants of `ConcurrentLLTrie` |
| `AtomicMap`, `ConcurrentAtomicity` | abstract map with atomic operations and pinning iterators; the trie implements it |
| `ConcurrentScan` | the trie with a history of what each scan still owes its client |
| `ConcurrentClear` | `clear()` and `~Node` of one more thread, beside threads inside the trie |
| `ConcurrentTermination` | the composition of both, with fairness and a bounded client |
| `LLTrie` | the sequential trie, one action per method |
| `LLRadixTree` | the sequential radix tree, one action per method |
| `OrderedMap` | `std::map` with one iterator: the contract of the sequential types |
| `KeyOrderProofs` | lemmas on paths and their order; induction and recursion up to a bound |
| `ConcurrentTreeProofs`, `ConcurrentLockProofs` | type correctness, the inductive invariant, and lock order, deadlock freedom and `clear()` of the concurrent trie |
| `ConcurrentCallProofs` | what a call has found out so far, the bounds, and the counter of a single thread |
| `ConcurrentAtomicityProofs`, `ConcurrentScanProofs` | the concurrent trie implements `AtomicMap`; scans skip nothing |
| `LLTrieProofs` | the invariant of the sequential trie, and that it implements `OrderedMap` |
| `LLRadixTreeProofs` | the same for the radix tree: labels, list, count and contract under `split` |
| `MC…` + `.cfg` | instances for TLC |

`ConcurrentInvariant`, `ConcurrentAtomicity`, `ConcurrentScan` and
`ConcurrentClear` all extend `ConcurrentLLTrie`, `ConcurrentTermination` extends
`ConcurrentClear`, and the concurrent trie, `LLTrie`,
`LLRadixTree`, `AtomicMap` and `OrderedMap` extend `KeyOrder`.

A definition whose comment begins "Mutated form of" is a plausible bug in the
definition after it. It is used by no specification; each property was seen to
fail when the mutated form takes the place of the definition (the list is under
`mutants` in `PROJECT.json`).

## ConcurrentLLTrie: model and code

| Variable | Code |
|---|---|
| `children[n]`, `next[n]` | `Node::children` (the set of edge characters), `Node::next` |
| `value[n]` | `has_value` and `value`; `NoValue` while `has_value` is false |
| `size` | `size_`, a number modulo `SizeModulus` (2^w) |
| `writer[n]`, `readers[n]` | `Node::lock`: who holds it exclusively, and shared |
| `pc[t]`, `op[t]`, `ret[t]` | where thread `t` is, the call with its arguments, the result |
| `cur[t]`, `new[t]`, `probe[t]` | locals `node`, `new_node`, `rightmost_node`; later the node of the iterator, and of the second iterator made by `next()` |
| `loaded[t]` | the value of `size_` between the load and the store of `size_++` |

Decisions:

* A node is **named by its path**, the characters from the root. Nodes are never
  removed or renamed, so a path is an identity. `label` is left out: it is only
  compared on nodes with a value, where it equals the path.
* One action is the code **from one lock acquisition to the next**. All it reads
  and writes is protected by locks the thread holds (checked: `LockDiscipline`,
  `HeldNodesFrozen`), and releasing a lock only enables other threads, so finer
  interleavings add nothing. The exception is `size_`: its load (`StoreValue`,
  `EraseAtKey`, `EraseIterator`) and store (`SizeInc`, `SizeDec`,
  `EraseIteratorDec`) are separate steps.
* Waiting for a lock is a guard (`CanLock`). `BlockedBy`, used for deadlock, is
  stricter than the guard: it counts a reader as blocked when a writer waits for
  the same read-locked node, as `std::shared_mutex` may queue them.
* A **client** thread calls operations with keys from `Keys`, moves, erases at or
  unlocks the iterator it got, and makes no other call while it holds an iterator
  (a second call on the same thread can self-deadlock by design: its iterator
  keeps a lock). `next()` gives it two shared iterators, of which it unlocks one
  before it goes on. It goes on with the iterator that a call returns and keeps no copy of
  the argument, as in `it = m.erase(it)`. `EraseAnyIterator` says whether it may call `erase(it)` at an
  iterator whose node has no value, which only `erase(it)` itself returns.
* `insert` stands for its two overloads and `emplace`.
* `begin` takes its locks exclusively and `shared_begin` shared, on the way of
  `next_value_node` and `next_value_node_shared`.

`Arrived`, `EdgeMissing`, `AlreadyThere`, `LeftSibling`, `RightLinks` and
`Decremented` name the conditions and assignments that several actions, or an action
and its property, share.

Actions: `Call`; the descent `LockRoot`, `Descend`; what the descent ends in
(`LookupAbsent`, `FindAtKey`, `CountAtKey`, `EraseAtKey`, `BoundAbove`,
`BoundScan`, `InsertExisting`, `StoreValue`); the four branches of
`traverse_creating` (`CreateMiddle`, `CreateFirst`, `CreateLast`, `CreateOnly`)
with the walk to the rightmost node (`LinkFirst`, `WalkRight`, `LinkRight`) and
the new edge (`LinkChild`); scans (`ScanStop`, `ScanNext`, `ScanEnd`), which are
the loops of `next_geq_value_node`, `next_value_node(_shared)`, `operator++` and
the last step of `erase(it)`; and the iterators' own operations.

Properties, and what they would catch:

* `LockDiscipline` — a lock leaked on an early return, released twice or in the
  wrong mode, a pointer followed without its lock.
* `LockOrder` — any walk that requests a lock before one it holds, in tree order.
  The new node is exempt until it is on the list, since nobody can want it.
* `NoDeadlock` — a circle of waiting threads, whoever is in it; also a thread that
  waits for itself.
* `HeldNodesFrozen` — an edge, successor or value that changes under its lock
  holder. It also justifies the granularity of the model.
* `ListIsTreeOrder` — a subtree that drops out of the list, a turn back, a link
  after the sibling rather than after its whole subtree.
* `ImplementsAtomicMap` — linearizability; the effect of a call is in the step that
  sets `ret`. A lookup that stops at a missing edge answers "absent" while it holds
  the lock of the last node on the way.
* `NothingSkipped`, `EndIsTheEnd`, `CursorMovesForward` — a scan beside insertions
  that skips, ends early or turns back. `owed` is a history variable.
* `EveryCallReturns` — a walk that never ends, a lock never given back.
* `BoundNotBelowKey` — a bound that stops at a smaller key, or an iterator of one that
  comes back to it, while another thread erases and inserts around it. Characters are
  positive in the run; see **O** under [proofs](#proofs).
* `SizeCounts` — between the calls of one thread, `size()` is the number of keys. It says
  nothing about two threads, for which it fails (`size_lost_update`).
* `Inv` is the inductive invariant, discussed under [proofs](#proofs).

## ConcurrentClear: model and code

`Node::clear()` locks the node, deletes its children one by one and unlocks it; the
destructor of each child calls `clear()` on the child first. The thread that calls
`ConcurrentLLTrie::clear()` is the `Owner`, not a member of `Threads`.

| Variable | Code |
|---|---|
| `stage` | where the Owner is: at `lock.lock()`, in the loop over the children, after `lock.unlock()`, at `size_ = 0` |
| `doomed` | the node whose `clear()` it is in; the path to it is the stack of destructors |
| `edge` | the position of the loop: the edge of the child deleted last |
| `deleted` | the nodes that are freed |
| `owned` | the nodes whose mutex the Owner holds; `writer` is for the threads, and no step of theirs locks such a node (`KeepsOut`) |

Actions: `ClearCall`, `OwnerLocks`, `OwnerDescends` (into the destructor of the next
child), `OwnerUnlocks`, `OwnerFrees` (the child is gone, the loop goes on) and
`ClearReturn`. The Owner keeps the locks of all nodes on its path.

Client protocol: no call begins once `clear()` was called, because the root keeps its
edges to the deleted nodes, and `clear()` is called when no thread waits for the root.
Iterators may still be in use, be moved and be erased at. The
steps of the threads are those of `ConcurrentLLTrie` (`ThreadStep`); `ClearSpec`
composes them with the Owner, and `ConcurrentTermination` adds fairness.

* `ClearStaysBehind` — a node deleted while a thread holds it, waits for it or is
  about to lock it. The threads that are inside only lock nodes further on, so a
  deletion that takes every lock on its way down drives them out in front of it; one
  that does not, frees a node in use.
* `NothingIsLeft` — a node that `clear()` misses since an insertion linked it as a
  child too late, or a count stored after `size_ = 0`.
* `ClearReturns` — an Owner that waits for a thread that waits for the Owner.

## LLTrie: model and code

One action per public method; the walks and `traverse_creating` are functions on
the links (`Reaches`, `Deepest`, `Rightmost`, `WalkTo`, `Attach`, `Created`). The
client keeps one iterator, `it`: it takes the one a call returns, or keeps its own
over an insertion, and may increment it or erase at it after any other calls. `ret` records the call and its answer, so that a step
of `LLTrie` has to be the step of `OrderedMap` with the same call, arguments and
answer. `alive` are the nodes that are not deleted: `clear()` deletes the `Descendants`
of the root, and
`Usable` says that the links lead to none of those. `ClearAnyTrie` is FALSE where
the client calls `clear()` only while the trie has no node but the root.

`OrderedMap` with `Strict = TRUE` is `std::map`. With `Strict = FALSE` it leaves
open what `upper_bound` and `at` answer about a key that is absent, which is where
`LLTrie` departs from `std::map`: `upper_bound` may then skip one key, exactly the first
after its argument, and `at` may return a default value. The exhaustive run uses that contract, so that
the rest of the interface is compared exactly.

## LLRadixTree: model and code

`heap` maps the address of each node to a record of its fields (`next`, `label`,
`key`, `value` with `NoValue` for `has_value = false`, `children` from a character
to an address). Nodes cannot be named by their path as in the tries, since `split`
changes the path of a node and moves its key to another; `Path` derives the path,
and the properties compare it with the keys. An address is the path at which the
node was allocated and a count (`Fresh`), so that allocations in different parts of the
tree give the same state in either order. `Addresses` are those that can come up: an
insertion that allocates gives a node to a key that had none, and allocates at most
once at each path, which bounds the count by the number of keys.

* `Descent` is the loop that `traverse_prefix`, `lower_bound_node` and
  `traverse_creating` share; they differ in what they do where it stops.
* `Split`, `Attach` and `TraverseCreating` return the heap after insertion of a node
  and the node of the key. The two cases of `split` (the key ends inside the label,
  or branches off) and the order of old and new branch are `IF`s there; `Attach` has
  the four cases of the code in two choices, as in `LLTrie`.
* `lower_bound_node` reads the terminator of the key when it ends inside a label;
  `CharAt` is 0 there.

Properties:

* `PathsSpellKeys` — an index off by one in `split`, a label cut wrongly, a node that
  two edges lead to, two nodes for one key, a node that no edge leads to (a leak, and
  a key that is lost).
* `ListIsTreeOrder` — stated as: the list visits every node from the root, each
  after the one before in tree order.
* `ImplementsOrderedMap` — every answer and the key at every returned iterator. The
  contract is taken without `StableIterators`: where `std::map` leaves iterators
  alone, a split of the node an iterator is at moves it to the prefix of its key at
  which the node was cut, which has no value or is the key just inserted. What holds,
  and is checked, is that it never moves forward, so that a client that goes on
  incrementing may meet a key again but misses none.

## Runs

| Run | Instance | Shows |
|---|---|---|
| `core` | 2 threads, all operations, keys `11`, `2`, `3` | `TypeOK`, `LockDiscipline`, `LockOrder`, `NoDeadlock`, `BoundNotBelowKey`, `HeldNodesFrozen` |
| `writers` | 3 threads, `insert` and `erase` | `ListIsTreeOrder`, `NoDeadlock` |
| `atomicity` | 2 threads, 2 values, keys `1`, `12`, `2` | `ImplementsAtomicMap` |
| `size` | 1 thread, keys `11`, `12`, `2`, `3` and the empty key, `erase(it)` anywhere | `SizeCounts` |
| `scan` | 2 threads, `insert`, `erase`, `upper_bound`, keys `11`, `12`, `2`, `3` | `NothingSkipped`, `EndIsTheEnd`, `CursorMovesForward` |
| `termination` | 2 threads, 2 calls or moves each, and the Owner | `ClearStaysBehind`, `NothingIsLeft`, `EveryCallReturns`, `ClearReturns` |
| `trie` | the empty key, `1`, `11`, `12`, `2`, `3`, 2 values, all methods | `TypeOK`, `ListIsTreeOrder`, `SizeCounts`, `ImplementsOrderedMap` |
| `radix` | keys `11`, `121`, `123`, `1231`, `13`, 1 value, all methods | `TypeOK`, `PathsSpellKeys`, `ListIsTreeOrder`, `SizeCounts`, `ImplementsOrderedMap` |
| `size_lost_update` | 2 threads `insert` | violates `SizeCounts` |
| `erase_leak` | 1 thread, `insert` and `erase(it)`, keys `1` and `21` | violates `IdleHoldsNothing` |
| `trie_upper_bound` | `insert`, `upper_bound`, `Strict` | violates `ImplementsOrderedMap` |
| `trie_clear` | `insert`, `clear` on any trie | violates `NothingDangles` |

**Bounds.** The state space of every instance is finite and explored completely,
except that `termination` limits the calls of each thread (`MaxUses`). Two levels
and three edges at the root are the least in which every branch of
`traverse_creating` is taken and a new node in the middle has a subtree with more
than one node to its left; `11` and `12` make that subtree branch, so that its
rightmost node is not its only leaf. Two threads meet in every pair of walks;
`writers` has three, which is the least for a circle that is not a pair and for two
insertions on either side of a third. `SizeModulus = 1` where the
counter does not matter keeps it out of the state, where `TypeOK` can then not see a
wrap-around; `size` uses 8, more than the
number of keys. `size` has `CHECK_DEADLOCK FALSE` because the lock that `erase(it)`
leaks stops the only thread; `termination` has it because the client stops when it
has used up its calls. Threads and values are symmetric where no liveness property
is checked. `radix` cuts labels at every
character, by a prefix (`123` in `1231`) and by branches on both sides (`121` and
`123` at the second character, `11` and `13` at the first, the latter with two
levels of nodes below), and attaches siblings in every order. It stores one value, so
it is left to `trie` to tell `insert` from `insert_or_assign` on a key that is there.
The sequential runs have a `VIEW` without `ret`: no
action reads it, and the contract is compared on every step, also on steps to states
already seen.

## Fairness

`ConcurrentTermination` assumes weak fairness of each thread's steps inside a call
(the operating system schedules every thread, and a mutex that stays free is
acquired) and of dropping an iterator (the protocol of the API: whoever has an
iterator unlocks it), and of the Owner's steps inside `clear()`. The client need not
call anything, `clear()` included. No fairness is assumed among threads competing for a mutex;
`std::shared_mutex` does not promise any, and endless readers may starve a writer.
That is why the client makes a bounded number of calls.

## Proofs

`tlapm` checks every theorem for all values of the constants, from the named
assumption of the module (`ConstantsAssumption`, `TrieAssumption`, `RadixAssumption`:
characters are signed bytes, keys are sequences of them, the markers are not members of the sets
they mark) and what its statement assumes.

| Theorem | Property | Assumes |
|---|---|---|
| `TypeCorrect` | `TypeOK` | – |
| `LocksMatchLocals`, `ListStaysInOrder` | `LockDiscipline`, `ListIsTreeOrder` | E |
| `LocksInOrder`, `HeldNodesDoNotChange` | `LockOrder`, `HeldNodesFrozen` | E |
| `DeadlockFree` | `NoDeadlock` | E, finitely many threads |
| `ClearIsBehind`, `ClearIsComplete` | `ClearStaysBehind`, `NothingIsLeft`, of `ClearSpec` | E |
| `BoundsAreNotBelow` | `BoundNotBelowKey` | E, O |
| `ImplementsMap` | `ImplementsAtomicMap` | E, O |
| `NoKeyIsSkipped`, `EndMeansNoneLeft` | `NothingSkipped`, `EndIsTheEnd` | E, O |
| `CursorsMoveForward` | `CursorMovesForward` | E |
| `SizeIsCount` | `SizeCounts` | one thread, no `insert_or_assign`, finitely many keys |
| `TrieTypeCorrect`, `TrieListInOrder`, `TrieSizeIsCount` | `TypeOK`, `ListIsTreeOrder`, `SizeCounts` of `LLTrie` | C, finitely many keys |
| `TrieIsOrderedMap` | `ImplementsOrderedMap` of `LLTrie` | C, O, finitely many keys, `Strict` only without `at` and `upper_bound` |
| `RadixTypeCorrect`, `RadixPathsSpellKeys`, `RadixListInOrder`, `RadixSizeIsCount` | `TypeOK`, `PathsSpellKeys`, `ListIsTreeOrder`, `SizeCounts` of `LLRadixTree` | C, finitely many keys |
| `RadixIsOrderedMap` | `ImplementsOrderedMap` of `LLRadixTree` | C, O, finitely many keys, `~StableIterators`, `Strict` only without `upper_bound` |

* **E**: `~EraseAnyIterator`, clients call `erase(it)` only at a value. The
  `erase_leak` run shows what happens otherwise: a node stays locked that no iterator
  of the client is at, and nothing that rests on the locks holds any more.
* **O**: `OneOrder`, characters compare like their bytes (for the concurrent trie: or
  no bound is called). ASCII keys satisfy it. With bytes above 127 the order of
  edges, in which lists and scans run, is not the order of `std::string`, with which
  the bounds compare, and the bounds are wrong: the assumption is as weak as the
  code allows.
* **C**: `~ClearAnyTrie`, or `~ClearAnyTree`: `clear()` is called only on a trie without
  nodes; the `trie_clear` run shows why.
* `~StableIterators`: a split moves iterators, as described under
  [the radix tree](#llradixtree-model-and-code). The theorem says how far.
* One thread, and no `insert_or_assign`: `size_lost_update`, and the increment of
  `insert_or_assign` on keys that are there, are the reasons.

* `KeyOrderProofs`: tree order is a strict total order on paths (`PrecedesIrreflexive`,
  `PrecedesTransitive`, `PrecedesAsymmetric`, `PrecedesTotal`); an ancestor precedes
  its descendants (`PrefixPrecedes`); nothing but the subtree of a node and of its
  smaller siblings lies between parent and child (`BetweenNodeAndChild`,
  `SmallerEdgeFirst`); `BeforeChild`, `ChildPrecedesBelow` and their neighbours place
  a path relative to a node's children.
* `ConcurrentTreeProofs!TypeCorrect`: `Spec => []TypeOK`. `TypeOK` alone is not
  inductive: that `Child(cur[t], c)` is a node needs to know that a descending
  thread is on the path of its key, that a new node is the next prefix of the key,
  which locals are set at which place, and that every edge leads to a node.
  `TypeInv == TypeOK /\ Shape /\ EdgesOK` says so. There is one lemma per group of
  actions, with a case for each action.
* `ConcurrentTreeProofs`: with the further assumption `~EraseAnyIterator` (clients
  call `erase(it)` only at a value; the `erase_leak` run shows why it is needed),
  `LocksMatchLocals`: `Spec => []LockDiscipline`, and `ListStaysInOrder`:
  `Spec => []ListIsTreeOrder`.
* `ConcurrentLockProofs`: from the same invariant, `LocksInOrder` (`LockOrder`),
  `HeldNodesDoNotChange` (`HeldNodesFrozen`) and, for finitely many threads,
  `DeadlockFree` (`NoDeadlock`); and `ClearIsBehind` and `ClearIsComplete`.

The inductive invariant is `Inv == TypeInv /\ TreeInv` in `ConcurrentInvariant`.
Locks and list order cannot be separated: a thread that scans or looks ahead takes
its locks in tree order because `next` leads forward, and `next` leads forward
because nobody inserts where it would spoil the order, which the locks ensure. The
conjuncts that are not properties of their own are there for one argument, that
`traverse_rightmost` ends at the node after which the new one belongs:

* When a thread holds a node exclusively, everything linked below it is reached by
  one of its edges (`LinkedBelow`), and so the last edge before the new character
  leads to all there is between the sibling and the new node (`RightSpine`).
* Another thread can link something in that gap only below the node that
  `traverse_rightmost` holds (`SpineGrows`), because no thread that is still
  inserting is on the path already walked (`NobodyBehind`): to get there it would
  have to take a lock that the walk holds (`NotBehindByEdge`).
* The new node's successor is then the next sibling (`NewBeforeSibling`) or what
  followed the rightmost node, and linking keeps the order (`ListInsertion`).

Steps that change neither edges, list pointers nor new nodes go through one lemma
(`QuietStep`), hand-over-hand moves through another (`MoveStep`). Deadlock freedom
takes the thread that waits for the last node in tree order: whoever holds that
node waits for a later one (`WantedIsAhead`), and a reader queued behind a writer
waiting for the same node yields to that writer (`BlockersAreAhead`).

**clear().** `ClearInv` in `ConcurrentClear` divides the nodes at the Owner's place in
its walk: those in front of it (`InFront`), the path to `doomed`, and everything
else, which is deleted (`DeletedBehind`). Every thread holds nodes in front only. What
follows a node in front is in front too (`InFrontGoesOn`), and a step takes a thread to
nodes it held, to the one it waited for, which follows what it holds, or to a node it
creates below (`HeldNext`, `WantedIsAhead`); so no thread leaves that part. The Owner
moves the boundary only past nodes that nobody is at: it locks `doomed` when it is
free, and the smallest child left is before all that is in front (`BelowChildLeft`),
also before a node that is still being linked, since its parent is held and in front.
In the end nothing is in front, so nobody is inside and all but the root is deleted.
`ClearInv` is inductive together with `Inv`, which no step of the Owner touches: its
locks are apart from the threads' (`owned`), and `size_ = 0` is no part of the tree.

**Calls.** `Inv` says what threads hold and how the tree looks, not what a call
already knows. `CallInv` adds that: values are at nodes of keys only, a call is at a
place where its name can be with `ret` set or not yet set (`Progress`), and
the thread of a bound that has left the way to its key is past the key (`AtBound`).
`AtBound` is where both orders of keys meet, hence `OneOrder`. `BoundsAreNotBelow`
follows at once.

**Refinement.** In `ConcurrentAtomicity` the abstract map is `Stored`, the values at
the keys; a call is pending from `Call` until the step that sets `ret`, and an
iterator pins the key that its thread holds. `ImplementsMap` goes through the
actions: a step that sets `ret` or changes a value is the abstract call, with the
answer that the map gives in that state, because the thread holds the node (or the
last node on the way, whose edge is missing) at which the answer is read; every other
step changes nothing that is mapped. Bounds and `begin` take effect where the scan
stops: it is at a present key in the range of the call, which it holds.

**Scans.** `owed` contains the keys that a scan must still return. `OwedAhead` says
that each of them is at or after the node where the thread is, so a scan that moves
along the list by one node, with nothing between, cannot step over one.

**The counter.** With one thread, `CountInv` relates `size_` to the number of
keys in every state: they are equal modulo its width, except between a value's change
and the store of the counter, where `Uncounted` is 1 or -1. Erasing at any iterator
is allowed there: a thread that has leaked a lock still counts.

**LLTrie.** `TrieInv` is inductive: the links are a tree in list order (`LinksOK`),
only nodes of keys have values and are reached, `size_` is their number, the client's
iterator is at a node of the tree. What the walks compute is proved for every
input. `WalkTo` and `Created` are recursive functions; that they exist and what they
return is shown by `Recursion` and `UpTo` of `KeyOrderProofs`, induction on sets of
natural numbers:

* `RightmostIsLast`, `LeftNeighbour` and `RightNeighbour`: `traverse_rightmost` ends
  at the last node below the sibling, so that `traverse_creating` links the new node
  exactly between its two neighbours; `InsertInList`, `AttachKeepsOrder`: and
  the list stays in order; `CreatedLeads`: after any number of new nodes.
* `WalkFinds`: `next_value_node` and `next_geq_value_node` return the first node of
  those they look for, and reach it in no more moves than there are nodes.
* `DeepestIsLast`, `LowerBoundIsFirst`: the two ways in which `lower_bound_node`
  leaves the descent both find the least key that is not less than the argument.
* `FirstIs`, `AfterIsNext`: the contract's `First` is unique where both orders agree,
  and one method after the other is a step of `OrderedMap`.

**LLRadixTree.** A node of this tree has no name that stays: `split` keeps the address
of a node and gives it another path, and moves key, value and children to a new address.
`RadixInv` therefore states everything relative to `Path`, and `RadixTree(heap, P)`, its
main part, is stated for any `P` that gives each node a path, so that the paths after
a step can be written down (`CutPaths`, `With`) and compared. It is inductive, and each
part is needed for another:

* `Tree`: edges and labels spell `P`, no two nodes have the same path, every node but the
  root has a parent. That paths differ makes the tree a function of them: `Path` has one
  solution (`PathIsUnique`), a node has one parent (`OneParent`), and no path that splits
  or extends a label is there already.
* `Listed`: the successor of a node on the list is the next node in tree order.
  `RightmostIsLast` and `PlaceIsRight` show that `split` and `traverse_creating` link a new
  node where it belongs, for which they need the tree.
* `Carries`: a value is at the node whose path is its key. The walks compare keys,
  the invariant paths.
* `AllocatedIn`: the addresses at one path are numbered without gaps, and not above the
  number of keys that have a node. So `Fresh` returns an address that is not in use
  (`FreshIsNew`), which says of the model that addresses never run out, as
  those of `new` do not.

`CommonPrefixLengthIsShared`, `DescentFacts` and `SplitPoint` establish where a descent stops and
why the label is to be cut there; `CutIsSound` and `GraftIsSound` are the two halves of
`split` and the attachment of a leaf, `SplitInserts` and `AttachInserts` their
compositions in the order of the code, which links the list last. `TraverseCreatingInserts`
sums up: what is stored does not change, the key has a node, and every node stays where
it was or at a prefix of its path. The last is what the contract allows
iterators (`StoreInContract`). `LowerBoundStarts` goes through the ways in which
`lower_bound_node` leaves the descent: the walk over the list begins at a node before
which all keys are less than the argument. `WalkFinds` and `WalkIsFirst` do the rest.
`Entries`, the pairs of keys and values in the heap, is what the contract's map is read
from (`ValueIsEntry`); insertions and erasures are updates of it (`Replaced`).

`TrieInv`, `RadixInv` and the conjuncts of the other invariants were run through TLC on the
instances below `Runs` before they were proved.

Only model-checked: that calls and `clear()` return (`EveryCallReturns`,
`ClearReturns`). Liveness and `ENABLED` are out of the prover's reach. Every other
property of the passing runs is a theorem.

## Where code and documentation differ

Each of these is a run that TLC refutes (`findings` in `PROJECT.json`):

* concurrent insertions and erasures lose updates of `size_` (`size_lost_update`);
* the concurrent `erase(it)` returns inner nodes, and leaves the node locked when
  called at one (`erase_leak`): with `1` and `21` stored, `it = m.erase(it)` at `1` makes
  `it` an iterator at the inner node `2`, which never had a value; `it = m.erase(it)` there
  is `end()`, but `2` is still locked. `erase` takes its argument by value, so a copy of
  the iterator, if the client kept one, could unlock `2`; but `end()` is also what
  `erase(it)` returns at the last node, which it does unlock, so the client cannot know
  whether to do so;
* `upper_bound` of the sequential types skips a key when its argument is absent
  (`trie_upper_bound`);
* `clear()` leaves the root's edges to deleted nodes (`trie_clear`); the radix tree
  and the concurrent trie have the same code, and the destructor then deletes these
  nodes again.

Also met while modelling, without a run: the concurrent `insert_or_assign` counts a
key each time it assigns, so the `size` run leaves it out; insertion into
`LLRadixTree` moves iterators (above), and its `upper_bound` and `clear()` are those of
`LLTrie`; `LLTrie::at` does not throw for a key whose
node exists without a value, though the repository's README.md:67 says "throws if missing"
(`Strict = FALSE` leaves the answer of `at` for an absent key open, so no run checks it); `ConcurrentLLTrie::at`
returns a reference to a local; with bytes above 127 the order of edges (signed)
differs from the order of strings (unsigned), so `lower_bound` may return a smaller
string (`BoundNotBelowKey` fails when `Chars` has a negative member; the runs have
none, so they do not meet it);
`LLRadixTree::at` and `to_string` name a member that `Node` does not have.

## Not modelled

* A call on `ConcurrentLLTrie` after, or waiting at the root during, `clear()`: it
  reaches deleted nodes, and what it does then is not determined by the code.
* Exceptions: an allocation that throws leaves locks held (`ConcurrentLLTrie`) or a
  subtree unreachable (`LLRadixTree::split`). No handler exists whose work could be
  checked; the places are listed under `hazards`.
* A thread that calls the concurrent trie while it holds an iterator; see the client
  above.
* The memory model: data races other than on `size_` are excluded by
  `LockDiscipline`; `size_` is modelled as a load and a store, each atomic.
* Output and debugging helpers, tests, benchmarks, build.

## Plan

1. (done) `KeyOrder`, `ConcurrentLLTrie` with its safety, refinement, scan and
   termination runs; `LLTrie` against `OrderedMap`; type correctness proved.
2. (done) `TreeInv` for all constants with `EraseAnyIterator = FALSE`, and
   `LockOrder`, `HeldNodesFrozen` and `NoDeadlock` as consequences.
3. (done) `LLRadixTree`, with `common_prefix_length`, against `OrderedMap`.
4. (done) `clear()` and destruction of the concurrent trie (`ConcurrentClear`).
5. (done) The refinement of `AtomicMap`, the scan properties, the bounds and the counter
   of a single thread as theorems.
6. (done) `LLTrie`: the inductive invariant, and `OrderedMap` refined, as theorems.
7. (done) `ClearStaysBehind` and `NothingIsLeft` from `Inv` and the locks of the Owner.
8. (done) `LLRadixTree`: `RadixInv` under `split`, and `OrderedMap` refined, as theorems.

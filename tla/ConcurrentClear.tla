-------------------------- MODULE ConcurrentClear --------------------------
(***************************************************************************)
(* ConcurrentLLTrie::clear() beside threads that are inside the trie.      *)
(*                                                                         *)
(* Node::clear() locks the node, deletes its children and unlocks it; the  *)
(* destructor of each child calls clear() in turn.  So one thread, the     *)
(* Owner, walks the tree depth first with the locks of all nodes from the  *)
(* root to `doomed`, and deletes each node once its lock is free again.    *)
(* The locks of the Owner, which is not one of Threads, are `owned`.       *)
(*                                                                         *)
(* The client starts no call once it has called clear(), and calls it when *)
(* no thread waits for the lock of the root.  It can only be sure of that  *)
(* when all calls have returned, but iterators may still be in use.        *)
(* A later call follows the edges that the root keeps to deleted nodes.    *)
(***************************************************************************)
EXTENDS ConcurrentLLTrie

VARIABLES
    stage,      \* where the Owner is in Node::clear()
    doomed,     \* the node whose clear() it is in
    edge,       \* the edge of `doomed` whose node was deleted last
    deleted,    \* nodes that are deleted
    owned       \* nodes whose mutex the Owner holds

clearVars  == <<stage, doomed, edge, deleted, owned>>
threadVars == <<pc, op, cur, new, probe, loaded, ret>>

\* Before the first edge; a char is at least -128.
NoEdge == -129

Stages == {"before", "lock", "delete_children", "unlocked", "reset_size", "after"}

ClearInit ==
    /\ Init
    /\ stage = "before"
    /\ doomed = Root
    /\ edge = NoEdge
    /\ deleted = {}
    /\ owned = {}

ClearCall ==
    /\ stage = "before"
    /\ \A t \in Threads : pc[t] # "lock_root"
    /\ stage' = "lock"
    /\ UNCHANGED <<vars, doomed, edge, deleted, owned>>

\* Mutated form of OwnerLocks: Node::clear() takes no lock.
OwnerLocksNothing ==
    /\ stage = "lock"
    /\ stage' = "delete_children"
    /\ UNCHANGED <<vars, doomed, edge, deleted, owned>>

\* lock.lock() at the beginning of Node::clear()
OwnerLocks ==
    /\ stage = "lock"
    /\ writer[doomed] = NoThread /\ readers[doomed] = {}
    /\ owned' = owned \cup {doomed}
    /\ stage' = "delete_children"
    /\ UNCHANGED <<vars, doomed, edge, deleted>>

ChildrenLeft == {c \in children[doomed] : c > edge}

\* The loop goes on to the next child: `delete` calls its destructor.
OwnerDescends ==
    /\ stage = "delete_children"
    /\ \E c \in ChildrenLeft :
          /\ \A d \in ChildrenLeft : c <= d
          /\ doomed' = Child(doomed, c)
    /\ edge' = NoEdge
    /\ stage' = "lock"
    /\ UNCHANGED <<vars, deleted, owned>>

OwnerUnlocks ==
    /\ stage = "delete_children"
    /\ ChildrenLeft = {}
    /\ owned' = owned \ {doomed}
    /\ stage' = IF doomed = Root THEN "reset_size" ELSE "unlocked"
    /\ UNCHANGED <<vars, doomed, edge, deleted>>

\* The destructor is done: the node is freed, its mutex with it.
OwnerFrees ==
    /\ stage = "unlocked"
    /\ deleted' = deleted \cup {doomed}
    /\ doomed' = SubSeq(doomed, 1, Len(doomed) - 1)
    /\ edge' = doomed[Len(doomed)]
    /\ stage' = "delete_children"
    /\ UNCHANGED <<vars, owned>>

\* Mutated form of SizeReset: clear() leaves the counter alone.
SizeKept == size

\* size_ = 0
SizeReset == 0

\* root_.clear() has returned.
ClearReturn ==
    /\ stage = "reset_size"
    /\ size' = SizeReset
    /\ stage' = "after"
    /\ UNCHANGED <<children, next, value, locks, threadVars, doomed, edge, deleted, owned>>

ClearStep ==
    OwnerLocks \/ OwnerDescends \/ OwnerUnlocks \/ OwnerFrees \/ ClearReturn

\* No thread locks what the Owner holds.
KeepsOut == \A n \in owned : writer'[n] = NoThread /\ readers'[n] = {}

\* No call begins once clear() was called.
ClientStep(t) == (stage = "before" /\ Call(t)) \/ UseIterator(t)

ThreadStep(t) ==
    /\ ClientStep(t) \/ Internal(t) \/ DropIterator(t)
    /\ KeepsOut
    /\ UNCHANGED clearVars

ClearNext == (\E t \in Threads : ThreadStep(t)) \/ ClearCall \/ ClearStep

ClearSpec == ClearInit /\ [][ClearNext]_<<vars, clearVars>>

-----------------------------------------------------------------------------
\* clear() stays behind every thread: nobody holds or waits for a node that is
\* deleted, or that the Owner is about to delete, or queues behind the Owner
\* for a lock that is going to be destroyed.  The locks that it takes parent to
\* child, in the order of all the walks, drive the threads out.
ClearStaysBehind ==
    \A t \in Threads, n \in Nodes :
        n \in Held(t) \/ Wants(t, n) =>
            /\ n \notin deleted
            /\ n \notin owned
            /\ ~(stage = "unlocked" /\ n = doomed)
            /\ Wants(t, n) => stage = "before" \/ n # doomed

\* When clear() returns, every node but the root is deleted, size_ is 0 and
\* stays 0 although it is written outside the locks: no call is left that
\* would still store a count.
NothingIsLeft ==
    stage = "after" =>
        /\ \A n \in Nodes : n \in deleted <=> InTree(n) /\ n # Root
        /\ size = 0
        /\ \A t \in Threads : pc[t] = "idle"

-----------------------------------------------------------------------------
(* Why clear() stays behind: the inductive invariant *)

\* The part of the tree that the Owner has not come to: what follows `doomed`
\* in the order of its walk, without the children that are deleted.
InFront(n) ==
    CASE stage = "before" -> TRUE
      [] stage = "lock" -> n = doomed \/ Precedes(doomed, n)
      [] stage = "delete_children" ->
            /\ Precedes(doomed, n)
            /\ IsPrefixOf(doomed, n) => n[Len(doomed) + 1] > edge
      [] stage = "unlocked" -> Precedes(doomed, n) /\ ~IsPrefixOf(doomed, n)
      [] OTHER -> FALSE

\* Everything else in the tree is deleted, except the path to `doomed`.
DeletedBehind ==
    deleted = {n \in Nodes : InTree(n) /\ ~InFront(n) /\ ~IsPrefixOf(n, doomed)}

\* All threads are in front of the Owner and its locks are behind it.
ClearInv ==
    /\ stage \in Stages
    /\ doomed \in Nodes /\ InTree(doomed)
    /\ edge \in Int /\ (stage \in {"before", "lock"} => edge = NoEdge)
    /\ stage \in {"before", "reset_size", "after"} => doomed = Root
    /\ stage = "unlocked" => doomed # Root
    /\ stage # "before" => \A t \in Threads : pc[t] # "lock_root"
    /\ \A t \in Threads : \A n \in Held(t) : InFront(n)
    /\ owned \subseteq Nodes /\ \A n \in owned : ~InFront(n)
    /\ DeletedBehind
    /\ stage = "after" => size = 0
=============================================================================

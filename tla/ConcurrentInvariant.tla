------------------------ MODULE ConcurrentInvariant ------------------------
(***************************************************************************)
(* The inductive invariant of ConcurrentLLTrie: what is true at each point *)
(* of the code, and why the list stays in key order while several threads  *)
(* insert.                                                                 *)
(***************************************************************************)
EXTENDS ConcurrentLLTrie

IsStrictPrefixOf(p, q) == IsPrefixOf(p, q) /\ Len(p) < Len(q)

\* The locals that are set at each place of the code.
Shape ==
    \A t \in Threads :
        /\ pc[t] = "idle" => op[t] = NoOp
        /\ pc[t] # "idle" => op[t] \in OpSet
        /\ cur[t] = NoNode <=> pc[t] \in {"idle", "lock_root"}
        /\ new[t] # NoNode <=> pc[t] \in Linking
        /\ probe[t] # NoNode <=> pc[t] \in {"link_right", "ahead", "iter2"}
        /\ pc[t] \in Linking \cup {"descend"} => cur[t] \in PathsTo(op[t].key)
        /\ pc[t] \in Linking =>
              Inserting(t) /\ ~AtKey(t) /\ new[t] = NewPath(t)

\* Every edge leads to a node.
EdgesOK == \A n \in Nodes : \A c \in children[n] : Child(n, c) \in Nodes

\* A node is found by walking from the root.
Rooted ==
    \A n \in Nodes : InTree(n) =>
        \A i \in 1..Len(n) : n[i] \in children[SubSeq(n, 1, i - 1)]

\* Threads hold nodes of the tree; a new node is not yet one.
HeldInTree ==
    \A t \in Threads :
        /\ cur[t] # NoNode => InTree(cur[t])
        /\ probe[t] # NoNode => InTree(probe[t])
        /\ pc[t] \in Linking => KChar(t) \notin children[cur[t]]

\* `next` leads forward to a linked node, from every node.
NextForward ==
    \A n \in Nodes : next[n] # NoNode => Linked(next[n]) /\ Precedes(n, next[n])

\* The two nodes of a shared iterator and its next() are in order.
AheadInOrder ==
    \A t \in Threads : pc[t] \in {"ahead", "iter2"} => Precedes(cur[t], probe[t])

\* A new node with a sibling to its right points to it.
NewBeforeSibling ==
    \A t \in Threads : pc[t] \in {"link_first", "link_right"} /\ Greater(t) =>
        \E u \in Chars : /\ IsLowerBound(children[cur[t]], KChar(t), u)
                         /\ next[new[t]] = Child(cur[t], u)

\* rightmost_node is below node, before new_node, and whatever is linked between
\* the two is below rightmost_node.
RightSpine ==
    \A t \in Threads : pc[t] = "link_right" =>
        /\ IsStrictPrefixOf(cur[t], probe[t])
        /\ Precedes(probe[t], new[t])
        /\ \A m \in Nodes :
              Linked(m) /\ Precedes(probe[t], m) /\ Precedes(m, new[t]) =>
                 IsPrefixOf(probe[t], m)

\* No other thread inserts on the path that traverse_rightmost has walked.
NobodyBehind ==
    \A t, s \in Threads :
        pc[t] = "link_right" /\ s # t /\ pc[s] \in Linking \cup {"descend"} =>
            ~(IsStrictPrefixOf(cur[t], cur[s]) /\ IsStrictPrefixOf(cur[s], probe[t]))

TypeInv == TypeOK /\ Shape /\ EdgesOK

TreeInv ==
    /\ LockDiscipline /\ Rooted /\ HeldInTree
    /\ NextForward /\ ListIsTreeOrder /\ AheadInOrder
    /\ NewBeforeSibling /\ RightSpine /\ NobodyBehind

\* Inductive as soon as clients erase only at iterators with a value.
Inv == TypeInv /\ TreeInv

-----------------------------------------------------------------------------
(* What a call has done so far, and what an iterator is at *)

\* Values are at keys, and their nodes can be reached.
ValuesAtKeys == \A n \in Nodes : HasValue(n) => n \in Keys /\ InTree(n)

\* The places of the code before a call's result is known, and after.
Undecided == {"lock_root", "descend", "scan_geq", "scan_value"} \cup Linking
Decided   == {"size_inc", "size_dec", "iter", "erase_it_dec", "erase_next",
              "ahead_first", "ahead", "iter2"}

\* upper_bound uses operator++ before its result is known.
Progress ==
    \A t \in Threads :
        /\ pc[t] \in Undecided => ret[t] = "none"
        /\ pc[t] \in Decided => ret[t] # "none"
        /\ pc[t] \in {"step", "step_value"} /\ ret[t] = "none" =>
              op[t].name = "upper_bound"
        /\ pc[t] = "size_inc" => Inserting(t)
        /\ pc[t] = "scan_geq" => op[t].name \in BoundOps
        /\ pc[t] = "scan_value" => op[t].name \in BoundOps \cup {"begin", "shared_begin"}

\* Edges are ordered by the value of a char and keys by their bytes.  Bounds
\* are only defined where the two agree, on ASCII characters for example.
OneOrder ==
    \/ Ops \cap BoundOps = {}
    \/ \A c, d \in Chars : c < d => c % 256 < d % 256

\* The thread of a bound that has left the way to its key is past the key.
AtBound ==
    \A t \in Threads : pc[t] # "idle" /\ op[t].name \in BoundOps =>
        /\ pc[t] \in {"scan_value", "step_value"} => Precedes(op[t].key, cur[t])
        /\ pc[t] \in Decided \cup {"step"} => ~Precedes(cur[t], op[t].key)

\* Inductive under Inv; AtBound needs OneOrder.
CallInv == ValuesAtKeys /\ Progress /\ AtBound

-----------------------------------------------------------------------------
(* The counter *)

\* Keys that were stored or erased and are not counted yet.
Uncounted(t) ==
    CASE pc[t] = "size_inc" -> 1
      [] pc[t] \in {"size_dec", "erase_it_dec"} -> -1
      [] OTHER -> 0

\* Inductive with one thread that calls no insert_or_assign, which counts a key
\* again: size_ lacks only what the thread is about to store in it.
CountInv ==
    \A t \in Threads :
        /\ Uncounted(t) # 0 => loaded[t] = size
        /\ (size + Uncounted(t)) % SizeModulus = Cardinality(Present) % SizeModulus
        /\ pc[t] # "idle" /\ Inserting(t) => op[t].val \in Values
        /\ \A n \in Nodes : HasValue(n) => n \in Keys
=============================================================================

---------------------------- MODULE LLRadixTree ----------------------------
(***************************************************************************)
(* ll_radix_tree::LLRadixTree: the sequential radix tree.  An edge is a    *)
(* character followed by the label of the child it leads to; inserting a   *)
(* key that leaves a label half way splits the child.  Nodes are threaded  *)
(* on a `next` list in key order.  One action per public method; the       *)
(* client keeps one iterator.                                              *)
(*                                                                         *)
(* A split moves the key, the value and the children of a node into a new  *)
(* node, so a node is an address here and its path is derived (Path).  An  *)
(* address is the path at which the node was allocated and the number of   *)
(* earlier allocations there: it does not depend on what happens elsewhere.*)
(***************************************************************************)
EXTENDS KeyOrder, FiniteSets

CONSTANTS
    Chars,          \* characters used in keys
    Keys,           \* keys the client passes
    Values,         \* values the client stores
    Ops,            \* methods the client calls, a subset of AllOps
    ClearAnyTree,   \* may clear() be called on a tree that is not empty
    Strict,             \* the contract to check against
    StableIterators,    \* (see OrderedMap)
    NoNode,         \* nullptr, also the end() iterator
    NoValue,        \* has_value = false; the value is then ValueType()
    NoCall          \* no method has been called yet

AllOps == {"insert", "insert_or_assign", "erase", "erase_iterator", "find",
           "count", "lower_bound", "upper_bound", "begin", "increment", "clear"}

RootNode  == <<Root, 0>>
Prefixes  == {Root} \cup UNION {PathsTo(k) : k \in Keys}
Addresses == Prefixes \X (0..Cardinality(Keys))

ASSUME RadixAssumption ==
    /\ Chars \subseteq -128..127
    /\ Keys \subseteq Seq(Chars)
    /\ Ops \subseteq AllOps
    /\ {ClearAnyTree, Strict, StableIterators} \subseteq BOOLEAN
    /\ NoNode \notin Addresses \cup Prefixes
    /\ NoValue \notin Values

VARIABLES
    heap,       \* the nodes that are not deleted
    size,       \* size_
    it,         \* the client's iterator
    ret         \* the last call and its result

vars == <<heap, size, it, ret>>

\* A node just allocated; children maps the first character of an edge.
Node(label) ==
    [next |-> NoNode, label |-> label, key |-> << >>, value |-> NoValue,
     children |-> << >>]

\* The map f after f[x] = y, whether or not x was in it.
With(f, x, y) == [z \in DOMAIN f \cup {x} |-> IF z = x THEN y ELSE f[z]]

HasValue(n) == heap[n].value # NoValue
Fresh(h, p) == <<p, Cardinality({n \in DOMAIN h : n[1] = p})>>
Edges(h, n) == DOMAIN h[n].children

-----------------------------------------------------------------------------
(* Walks *)

\* common_prefix_length: how many characters label shares with k, from
\* position begin (counted from 0) of k on.
CommonPrefixLength(label, k, begin) ==
    CHOOSE m \in 0..Len(label) :
        /\ begin + m <= Len(k)
        /\ \A i \in 1..m : label[i] = k[begin + i]
        /\ m < Len(label) /\ begin + m < Len(k) => label[m + 1] # k[begin + m + 1]

\* The edge of s.node for the next character of k, and its whole label, match.
Matches(k, s) ==
    /\ s.idx < Len(k)
    /\ k[s.idx + 1] \in Edges(heap, s.node)
    /\ LET label == heap[heap[s.node].children[k[s.idx + 1]]].label
       IN CommonPrefixLength(label, k, s.idx + 1) = Len(label)

\* The loop of all three traversals: the last node on the way to k, and how many
\* characters of k lead there (k_char_idx).
Descent(k) ==
    LET at[i \in 0..Len(k)] ==
            IF i = 0 THEN [node |-> RootNode, idx |-> 0]
            ELSE LET s     == at[i - 1]
                     child == heap[s.node].children[k[s.idx + 1]]
                 IN IF Matches(k, s)
                    THEN [node |-> child, idx |-> s.idx + 1 + Len(heap[child].label)]
                    ELSE s
    IN at[Len(k)]

TraversePrefix(k) == IF Descent(k).idx = Len(k) THEN Descent(k).node ELSE NoNode

\* Follow `next` from n to the first node of stops.
WalkTo(stops, n) ==
    LET at[i \in 0..Cardinality(DOMAIN heap)] ==
            IF i = 0 THEN n
            ELSE LET m == at[i - 1]
                 IN IF m \in stops \cup {NoNode} THEN m ELSE heap[m].next
    IN at[Cardinality(DOMAIN heap)]

WithValue == {n \in DOMAIN heap : HasValue(n)}

\* next_value_node, and the loop of operator++.
NextValueNode(n) == WalkTo(WithValue, n)

\* next_geq_value_node
NextGeqValueNode(n, k) == WalkTo({m \in WithValue : ~KeyLess(heap[m].key, k)}, n)

\* k[i], counted from 0, is NUL at the end of k.
CharAt(k, i) == IF i < Len(k) THEN k[i + 1] ELSE 0

\* Mutated form of LowerBoundInLabel: the characters that differ are not compared.
LowerBoundInLabelUncompared(n, k, idx) == NextValueNode(n)

\* lower_bound_node when k leaves the label of n.
LowerBoundInLabel(n, k, idx) ==
    LET m == CommonPrefixLength(heap[n].label, k, idx + 1)
    IN IF heap[n].label[m + 1] >= CharAt(k, idx + m + 1)
       THEN NextValueNode(n)
       ELSE NextGeqValueNode(n, k)

LowerBoundNode(k) ==
    LET s     == Descent(k)
        edges == IF s.idx = Len(k) THEN {}
                 ELSE {u \in Chars : IsLowerBound(Edges(heap, s.node), k[s.idx + 1], u)}
        edge  == CHOOSE u \in edges : TRUE
        child == heap[s.node].children[edge]
    IN IF edges = {} THEN NextGeqValueNode(s.node, k)
       ELSE IF edge > k[s.idx + 1] THEN NextValueNode(child)
       ELSE LowerBoundInLabel(child, k, s.idx)

\* The nodes that deleting n deletes: n and all that its edges lead to.
Below(n) ==
    LET down[i \in 0..Cardinality(DOMAIN heap)] ==
            IF i = 0 THEN {n}
            ELSE LET S == down[i - 1]
                 IN S \cup UNION {{heap[m].children[c] : c \in Edges(heap, m)} : m \in S}
    IN down[Cardinality(DOMAIN heap)]

-----------------------------------------------------------------------------
(* Insertion of a node: the tree after it, and the node of the key.  The       *)
(* pointers are rewritten in a heap that already holds the new nodes.          *)

\* Mutated form of Rightmost: one level down only.
RightmostOneLevel(h, n) ==
    IF Edges(h, n) = {} THEN n
    ELSE h[n].children[CHOOSE c \in Edges(h, n) : IsLast(Edges(h, n), c)]

\* traverse_rightmost
Rightmost(h, n) ==
    LET down[i \in 0..Cardinality(DOMAIN h)] ==
            IF i = 0 THEN n
            ELSE LET m     == down[i - 1]
                     edges == Edges(h, m)
                 IN IF edges = {} THEN m
                    ELSE h[m].children[CHOOSE c \in edges : IsLast(edges, c)]
    IN down[Cardinality(DOMAIN h)]

\* Put node `new` on the list after node `left`.
LinkAfter(h, left, new) == [h EXCEPT ![new].next = h[left].next, ![left].next = new]

\* Mutated form of OldBranchLabel: the character of the edge stays in the label.
OldBranchLabelWithEdge(label, m) == SubSeq(label, m + 1, Len(label))

OldBranchLabel(label, m) == SubSeq(label, m + 2, Len(label))

\* split: n keeps the m characters of its label that k shares, and its address;
\* the rest of the label, its key, value and children move to a new node.  The
\* key of n then ends here, or a second new node holds what is left of it.
Split(n, k, idx) ==
    LET label   == heap[n].label
        m       == CommonPrefixLength(label, k, idx + 1)
        old     == Fresh(heap, SubSeq(k, 1, idx + 1) \o label)
        oldNode == [heap[n] EXCEPT !.label = OldBranchLabel(label, m)]
        oldEdge == label[m + 1]
        middle  == [Node(SubSeq(label, 1, m)) EXCEPT !.next = old,
                                                     !.children = With(@, oldEdge, old)]
        ended   == With([heap EXCEPT ![n] = middle], old, oldNode)
        new     == Fresh(heap, k)
        newEdge == k[idx + m + 2]
        branched == With([ended EXCEPT ![n].children = With(@, newEdge, new)],
                         new, Node(SubSeq(k, idx + m + 3, Len(k))))
    IN IF idx + m + 1 = Len(k)
       THEN [heap |-> ended, node |-> n]
       ELSE [heap |-> LinkAfter(branched,
                                IF newEdge > oldEdge THEN Rightmost(branched, old) ELSE n,
                                new),
             node |-> new]

\* traverse_creating without an edge for the character: a new last child, child
\* in the middle, first child or only child of p.
Attach(p, k, idx) ==
    LET c      == k[idx + 1]
        edges  == Edges(heap, p)
        new    == Fresh(heap, k)
        left   == IF \A d \in edges : d > c THEN p
                  ELSE Rightmost(heap,
                         heap[p].children[CHOOSE d \in edges : IsPredecessor(edges, c, d)])
        above  == {u \in edges : IsLowerBound(edges, c, u)}
        right  == IF above = {} THEN heap[left].next
                  ELSE heap[p].children[CHOOSE u \in above : TRUE]
        node   == [Node(SubSeq(k, idx + 2, Len(k))) EXCEPT !.next = right]
        linked == [heap EXCEPT ![left].next = new]
    IN [heap |-> With([linked EXCEPT ![p].children = With(@, c, new)], new, node),
        node |-> new]

TraverseCreating(k) ==
    LET s == Descent(k)
    IN IF s.idx = Len(k) THEN [heap |-> heap, node |-> s.node]
       ELSE IF k[s.idx + 1] \in Edges(heap, s.node)
            THEN Split(heap[s.node].children[k[s.idx + 1]], k, s.idx)
            ELSE Attach(s.node, k, s.idx)

-----------------------------------------------------------------------------
(* Methods *)

Init ==
    /\ heap = [n \in {RootNode} |-> Node(<< >>)]
    /\ size = 0
    /\ it = NoNode
    /\ ret = NoCall

\* The method, its key (NoNode if it takes none) and what it returns.
Answer(name, k, r) == name \in Ops /\ ret' = [call |-> name, key |-> k, result |-> r]

\* A method that returns an iterator shows its client the key there.
AnswerIterator(name, k) ==
    Answer(name, k, IF it' = NoNode THEN NoNode ELSE heap'[it'].key)

\* The client takes the iterator that an insertion returns, or keeps its own.
TakesOrKeeps(n) == it' \in {n, it}

\* Mutated form of SizeWith: an assignment counts too.
SizeWithEvery(isNew) == size + 1

\* size_ once a key has its value
SizeWith(isNew) == IF isNew THEN size + 1 ELSE size

\* traverse_creating, then key and value of the node: a value that is there
\* stays unless it is `assigned`.
Store(name, k, v, assigned) ==
    LET made  == TraverseCreating(k)
        isNew == made.heap[made.node].value = NoValue
    IN /\ heap' = IF isNew \/ assigned
                  THEN [made.heap EXCEPT ![made.node].key = k, ![made.node].value = v]
                  ELSE made.heap
       /\ size' = SizeWith(isNew)
       /\ TakesOrKeeps(made.node)
       /\ Answer(name, k, IF isNew THEN "yes" ELSE "no")

\* insert, both overloads, and emplace
Insert(k, v) == Store("insert", k, v, FALSE)

InsertOrAssign(k, v) == Store("insert_or_assign", k, v, TRUE)

\* Mutated form of Found: the node of the key is enough.
FoundNode(k) == TraversePrefix(k)

\* The iterator find returns.
Found(k) ==
    LET n == TraversePrefix(k) IN IF n # NoNode /\ HasValue(n) THEN n ELSE NoNode

Remove(n) ==
    /\ heap' = [heap EXCEPT ![n].value = NoValue, ![n].key = << >>]
    /\ size' = size - 1

Erase(k) ==
    /\ IF Found(k) # NoNode THEN Remove(Found(k)) ELSE UNCHANGED <<heap, size>>
    /\ Answer("erase", k, IF Found(k) # NoNode THEN "yes" ELSE "no")
    /\ UNCHANGED it

\* erase(it) of end(), or of an iterator at a node without a value, does nothing.
EraseIterator ==
    /\ IF it # NoNode /\ HasValue(it)
       THEN Remove(it) /\ it' = NextValueNode(heap[it].next)
       ELSE UNCHANGED <<heap, size>> /\ it' = NoNode
    /\ AnswerIterator("erase_iterator", NoNode)

Find(k) ==
    /\ it' = Found(k)
    /\ UNCHANGED <<heap, size>>
    /\ AnswerIterator("find", k)

Count(k) ==
    /\ Answer("count", k, IF Found(k) # NoNode THEN "yes" ELSE "no")
    /\ UNCHANGED <<heap, size, it>>

LowerBound(k) ==
    /\ it' = LowerBoundNode(k)
    /\ UNCHANGED <<heap, size>>
    /\ AnswerIterator("lower_bound", k)

\* upper_bound increments whatever lower_bound_node found.
UpperBound(k) ==
    /\ it' = IF LowerBoundNode(k) = NoNode THEN NoNode
             ELSE NextValueNode(heap[LowerBoundNode(k)].next)
    /\ UNCHANGED <<heap, size>>
    /\ AnswerIterator("upper_bound", k)

Begin ==
    /\ it' = NextValueNode(RootNode)
    /\ UNCHANGED <<heap, size>>
    /\ AnswerIterator("begin", NoNode)

\* operator++, which leaves end() alone
Increment ==
    /\ it' = IF it = NoNode THEN NoNode ELSE NextValueNode(heap[it].next)
    /\ UNCHANGED <<heap, size>>
    /\ AnswerIterator("increment", NoNode)

\* clear() deletes the nodes below the root; the root keeps its edges, its list
\* successor and its value.  The client drops its iterator.
Clear ==
    /\ ClearAnyTree \/ (Edges(heap, RootNode) = {} /\ ~HasValue(RootNode))
    /\ heap' = [n \in DOMAIN heap \ (Below(RootNode) \ {RootNode}) |-> heap[n]]
    /\ size' = 0
    /\ it' = NoNode
    /\ Answer("clear", NoNode, NoNode)

\* The tree is usable: after clear() the root's edges may lead to deleted nodes.
Usable ==
    \A n \in DOMAIN heap : \A c \in Edges(heap, n) : heap[n].children[c] \in DOMAIN heap

Next ==
    /\ Usable
    /\ \/ \E k \in Keys :
             \/ \E v \in Values : Insert(k, v) \/ InsertOrAssign(k, v)
             \/ Erase(k) \/ Find(k) \/ Count(k) \/ LowerBound(k) \/ UpperBound(k)
       \/ EraseIterator \/ Begin \/ Increment \/ Clear

Spec == Init /\ [][Next]_vars

-----------------------------------------------------------------------------
(* Properties *)

\* What the edges and labels from the root to each node spell.
Path ==
    LET Leads(p, c, n) == heap[p].children[c] = n
        path[n \in DOMAIN heap] ==
            IF n = RootNode THEN Root
            ELSE LET p == CHOOSE p \in DOMAIN heap : \E c \in Edges(heap, p) : Leads(p, c, n)
                     c == CHOOSE c \in Edges(heap, p) : Leads(p, c, n)
                 IN path[p] \o <<c>> \o heap[n].label
    IN path

\* Every variable has its type; size_ stays a count of keys.
TypeOK ==
    /\ RootNode \in DOMAIN heap /\ DOMAIN heap \subseteq Addresses
    /\ \A n \in DOMAIN heap :
          /\ heap[n].next \in DOMAIN heap \cup {NoNode}
          /\ heap[n].value \in Values \cup {NoValue}
          /\ Edges(heap, n) \subseteq Chars
    /\ size \in 0..Cardinality(Keys)
    /\ it \in DOMAIN heap \cup {NoNode}
    /\ ret = NoCall \/ (ret.call \in Ops /\ ret.key \in Keys \cup {NoNode})

\* However often labels were split, edges and labels spell the key stored at
\* their end, no two nodes spell the same, and every node that was allocated is
\* the child of one node below the root: deleting the tree frees each once.
PathsSpellKeys ==
    /\ Below(RootNode) = DOMAIN heap
    /\ \A n \in DOMAIN heap : HasValue(n) => heap[n].key = Path[n]
    /\ Cardinality({Path[n] : n \in DOMAIN heap}) = Cardinality(DOMAIN heap)
    /\ \A p, q \in DOMAIN heap : \A c \in Edges(heap, p), d \in Edges(heap, q) :
          heap[p].children[c] = heap[q].children[d] => p = q /\ c = d

\* The list is the tree in key order: from the root it visits every node, each
\* after the one before, in whatever order keys came and labels were split.
ListIsTreeOrder ==
    /\ {heap[n].next : n \in DOMAIN heap} = (DOMAIN heap \ {RootNode}) \cup {NoNode}
    /\ \A n \in DOMAIN heap :
          heap[n].next # NoNode => Precedes(Path[n], Path[heap[n].next])

\* size() is the number of keys stored.
SizeCounts == size = Cardinality(WithValue)

\* The value stored with key k.
ValueAt(k) ==
    LET at == {n \in DOMAIN heap : heap[n].key = k /\ HasValue(n)}
    IN IF at = {} THEN NoValue ELSE heap[CHOOSE n \in at : TRUE].value

Contract == INSTANCE OrderedMap WITH
    map <- [k \in Keys |-> ValueAt(k)],
    it  <- IF it = NoNode THEN NoNode ELSE Path[it],
    End <- NoNode

\* Every method answers as the ordered map does, on every sequence of calls; an
\* iterator stays where it is or, when its node is split, moves to the prefix of
\* its key at which the node was cut, never forward.
ImplementsOrderedMap == Contract!Spec
=============================================================================

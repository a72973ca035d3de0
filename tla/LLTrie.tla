------------------------------- MODULE LLTrie -------------------------------
(***************************************************************************)
(* ll_trie::LLTrie: the sequential trie.  A node per character, the nodes  *)
(* threaded on a `next` list in key order.  One action per public method;  *)
(* the client keeps the last iterator it was given.                        *)
(*                                                                         *)
(* A node is named by its path.  `label` is left out: it is only compared  *)
(* on nodes with a value, where it is the path.                            *)
(***************************************************************************)
EXTENDS KeyOrder, FiniteSets

CONSTANTS
    Chars,          \* characters used in keys
    Keys,           \* keys the client passes
    Values,         \* values the client stores
    Ops,            \* methods the client calls, a subset of AllOps
    ClearAnyTrie,   \* may clear() be called on a trie that has nodes
    Strict,         \* the contract to check against (see OrderedMap)
    NoNode,         \* nullptr, also the end() iterator
    NoValue,        \* has_value = false; the value is then ValueType()
    NoCall          \* no method has been called yet

AllOps == {"insert", "insert_or_assign", "erase", "erase_iterator", "find",
           "count", "at", "lower_bound", "upper_bound", "begin", "increment",
           "clear"}

Nodes == {Root} \cup UNION {PathsTo(k) : k \in Keys}

ASSUME TrieAssumption ==
    /\ Chars \subseteq -128..127
    /\ Keys \subseteq Seq(Chars)
    /\ Ops \subseteq AllOps
    /\ ClearAnyTrie \in BOOLEAN
    /\ Strict \in BOOLEAN
    /\ NoNode \notin Nodes
    /\ NoValue \notin Values

VARIABLES
    children,   \* node -> edges to its children
    next,       \* node -> its successor on the list
    value,      \* node -> value, NoValue while has_value is false
    size,       \* size_
    alive,      \* nodes that are not deleted (or not created yet)
    it,         \* the client's iterator
    ret         \* the last call and its result

trie == <<children, next, value, size, alive>>
vars == <<children, next, value, size, alive, it, ret>>

HasValue(n) == value[n] # NoValue
Present     == {k \in Keys : HasValue(k)}

-----------------------------------------------------------------------------
(* Walks.  They take the links as arguments: insertion changes them as it   *)
(* goes down.                                                               *)

Parent(n)   == SubSeq(n, 1, Len(n) - 1)
Edge(n)     == n[Len(n)]
Child(n, c) == Append(n, c)

\* The path to n exists in the tree with edges ch.
Reaches(ch, n) == \A i \in 1..Len(n) : n[i] \in ch[SubSeq(n, 1, i - 1)]

\* Mutated form of Rightmost: the walk stops where it begins.
RightmostNoWalk(ch, n) == n

\* traverse_rightmost: follow the last edge down from n.
Rightmost(ch, n) ==
    CHOOSE r \in Nodes :
        /\ IsPrefixOf(n, r)
        /\ ch[r] = {}
        /\ \A i \in (Len(n) + 1)..Len(r) : IsLast(ch[SubSeq(r, 1, i - 1)], r[i])

\* Follow `next` from n to the first node of `stops`.
WalkTo(stops, n) ==
    LET at[i \in 0..Cardinality(Nodes)] ==
            IF i = 0 THEN n
            ELSE LET m == at[i - 1]
                 IN IF m \in stops \cup {NoNode} THEN m ELSE next[m]
    IN at[Cardinality(Nodes)]

WithValue == {n \in Nodes : HasValue(n)}

\* Mutated form of NextValueNode: the list successor, value or not.
NextNode(n) == n

\* next_value_node, and the loop of operator++.
NextValueNode(n) == WalkTo(WithValue, n)

\* next_geq_value_node
NextGeqValueNode(n, k) == WalkTo({m \in WithValue : ~KeyLess(m, k)}, n)

\* The deepest node on the way to k.
Deepest(k) ==
    CHOOSE p \in PathsTo(k) :
        /\ Reaches(children, p)
        /\ \A q \in PathsTo(k) : Reaches(children, q) => Len(q) <= Len(p)

LowerBoundNode(k) ==
    LET p     == Deepest(k)
        above == {u \in children[p] : u > k[Len(p) + 1]}
    IN IF p # k /\ above # {}
       THEN NextValueNode(Child(p, CHOOSE u \in above : \A d \in above : u <= d))
       ELSE NextGeqValueNode(p, k)

\* traverse_creating makes node n: the four cases "middle", "first", "last,
\* after the last child" and "last, and first" differ in the node to the left
\* (the parent, or the rightmost below the sibling) and in whether there is a
\* sibling to the right.
Attach(links, n) ==
    LET p      == Parent(n)
        edges  == links.children[p]
        left   == IF \A d \in edges : d > Edge(n) THEN p
                  ELSE Rightmost(links.children,
                         Child(p, CHOOSE d \in Chars : IsPredecessor(edges, Edge(n), d)))
        middle == {u \in Chars : IsLowerBound(edges, Edge(n), u)}
    IN [children |-> [links.children EXCEPT ![p] = @ \cup {Edge(n)}],
        next |-> [links.next EXCEPT
                    ![n] = IF middle = {} THEN links.next[left]
                           ELSE Child(p, CHOOSE u \in middle : TRUE),
                    ![left] = n]]

\* traverse_creating: the links once the node of k exists.
Created(k) ==
    LET down[i \in 0..Len(k)] ==
            IF i = 0 THEN [children |-> children, next |-> next]
            ELSE LET links == down[i - 1]
                 IN IF k[i] \in links.children[SubSeq(k, 1, i - 1)] THEN links
                    ELSE Attach(links, SubSeq(k, 1, i))
    IN down[Len(k)]

TraverseCreating(k) ==
    /\ children' = Created(k).children
    /\ next' = Created(k).next
    /\ alive' = alive \cup PathsTo(k)

-----------------------------------------------------------------------------
(* Methods *)

Init ==
    /\ children = [n \in Nodes |-> {}]
    /\ next = [n \in Nodes |-> NoNode]
    /\ value = [n \in Nodes |-> NoValue]
    /\ size = 0
    /\ alive = {Root}
    /\ it = NoNode
    /\ ret = NoCall

\* The method, its key (NoNode if it takes none) and what it returns.
Answer(name, k, r) == name \in Ops /\ ret' = [call |-> name, key |-> k, result |-> r]

\* The client takes the iterator that an insertion returns, or keeps its own.
TakesOrKeeps(k) == it' \in {k, it}

\* Mutated form of SizeWith: an assignment counts too.
SizeWithEvery(k) == size + 1

\* size_ once k has a value
SizeWith(k) == IF HasValue(k) THEN size ELSE size + 1

\* traverse_creating, and the value that the node of k has afterwards.
Store(name, k, v) ==
    /\ TraverseCreating(k)
    /\ value' = [value EXCEPT ![k] = v]
    /\ size' = SizeWith(k)
    /\ TakesOrKeeps(k)
    /\ Answer(name, k, IF HasValue(k) THEN "no" ELSE "yes")

\* insert, both overloads, and emplace: a value that is there stays.
Insert(k, v) == Store("insert", k, IF HasValue(k) THEN value[k] ELSE v)

InsertOrAssign(k, v) == Store("insert_or_assign", k, v)

\* Mutated form of Found: the node of the key is enough.
FoundNode(k) == Reaches(children, k)

\* traverse_prefix finds the node of k and it has a value.
Found(k) == Reaches(children, k) /\ HasValue(k)

Remove(n) ==
    /\ value' = [value EXCEPT ![n] = NoValue]
    /\ size' = size - 1
    /\ UNCHANGED <<children, next, alive>>

Erase(k) ==
    /\ IF Found(k) THEN Remove(k) ELSE UNCHANGED trie
    /\ Answer("erase", k, IF Found(k) THEN "yes" ELSE "no")
    /\ UNCHANGED it

\* erase(it) of end(), or of an iterator whose key is gone, does nothing.
EraseIterator ==
    /\ IF it # NoNode /\ HasValue(it)
       THEN Remove(it) /\ it' = NextValueNode(next[it])
       ELSE UNCHANGED trie /\ it' = NoNode
    /\ Answer("erase_iterator", NoNode, it')

Find(k) ==
    /\ it' = IF Found(k) THEN k ELSE NoNode
    /\ Answer("find", k, it')
    /\ UNCHANGED trie

Count(k) ==
    /\ Answer("count", k, IF Found(k) THEN "yes" ELSE "no")
    /\ UNCHANGED <<trie, it>>

\* at returns the value of the node of k if the node exists.
At(k) ==
    /\ Answer("at", k, IF Reaches(children, k) THEN value[k] ELSE "throws")
    /\ UNCHANGED <<trie, it>>

LowerBound(k) ==
    /\ it' = LowerBoundNode(k)
    /\ Answer("lower_bound", k, it')
    /\ UNCHANGED trie

\* upper_bound increments whatever lower_bound_node found.
UpperBound(k) ==
    /\ it' = IF LowerBoundNode(k) = NoNode THEN NoNode
             ELSE NextValueNode(next[LowerBoundNode(k)])
    /\ Answer("upper_bound", k, it')
    /\ UNCHANGED trie

Begin ==
    /\ it' = NextValueNode(Root)
    /\ Answer("begin", NoNode, it')
    /\ UNCHANGED trie

\* operator++, which leaves end() alone
Increment ==
    /\ it' = IF it = NoNode THEN NoNode ELSE NextValueNode(next[it])
    /\ Answer("increment", NoNode, it')
    /\ UNCHANGED trie

\* root_.clear(): deleting a child deletes all nodes below it.
Descendants == {n \in alive \ {Root} : Reaches(children, n)}

\* clear() deletes the nodes below the root; the root keeps its edges, its list
\* successor and its value.  The client drops its iterator.
Clear ==
    /\ ClearAnyTrie \/ (children[Root] = {} /\ ~HasValue(Root))
    /\ alive' = alive \ Descendants
    /\ size' = 0
    /\ it' = NoNode
    /\ Answer("clear", NoNode, NoNode)
    /\ UNCHANGED <<children, next, value>>

\* The trie is usable: after clear() its links may lead to deleted nodes.
Usable == \A n \in alive : \A c \in children[n] : Child(n, c) \in alive

Next ==
    /\ Usable
    /\ \/ \E k \in Keys :
             \/ \E v \in Values : Insert(k, v) \/ InsertOrAssign(k, v)
             \/ Erase(k) \/ Find(k) \/ Count(k) \/ At(k)
             \/ LowerBound(k) \/ UpperBound(k)
       \/ EraseIterator \/ Begin \/ Increment \/ Clear

Spec == Init /\ [][Next]_vars

-----------------------------------------------------------------------------
(* Properties *)

\* Every variable has its type; size_ stays a count of keys.
TypeOK ==
    /\ children \in [Nodes -> SUBSET Chars]
    /\ next \in [Nodes -> Nodes \cup {NoNode}]
    /\ value \in [Nodes -> Values \cup {NoValue}]
    /\ size \in 0..Cardinality(Keys)
    /\ alive \subseteq Nodes
    /\ it \in Nodes \cup {NoNode}
    /\ ret = NoCall \/ (ret.call \in Ops /\ ret.key \in Keys \cup {NoNode})

\* The list is the tree in key order: the successor of a node is the least
\* node after it, in whatever order keys were inserted.
ListIsTreeOrder ==
    \A n \in Nodes : Reaches(children, n) =>
        /\ next[n] # NoNode => Reaches(children, next[n]) /\ Precedes(n, next[n])
        /\ \A m \in Nodes : Reaches(children, m) /\ Precedes(n, m) =>
              next[n] # NoNode /\ ~Precedes(m, next[n])

\* size() is the number of keys stored.
SizeCounts == size = Cardinality(Present)

\* After clear() no edge of the trie leads to a deleted node: the trie is empty
\* and can be used again.
NothingDangles == Usable

Contract == INSTANCE OrderedMap WITH
    map <- [k \in Keys |-> value[k]], End <- NoNode, StableIterators <- TRUE

\* Every method answers as the ordered map does, on every sequence of calls,
\* and an iterator stays at its key whatever is inserted or erased.
ImplementsOrderedMap == Contract!Spec
=============================================================================

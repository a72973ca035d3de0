---------------------------- MODULE LLTrieProofs ----------------------------
(***************************************************************************)
(* LLTrie for every finite set of keys: its list is the tree in key order, *)
(* its size is the number of keys, and it is an ordered map.               *)
(***************************************************************************)
EXTENDS LLTrie, KeyOrderProofs, FiniteSetTheorems

-----------------------------------------------------------------------------
(* Nodes *)

\* Nodes are paths, and so are all their ancestors.
LEMMA NodesArePaths ==
    /\ Root \in Nodes /\ Keys \subseteq Nodes
    /\ Nodes \subseteq Seq(Chars) /\ Nodes \subseteq Paths
    /\ \A k \in Keys : PathsTo(k) \subseteq Nodes
    /\ NoNode \notin Nodes
    /\ Chars \subseteq Int
<1>0. Chars \subseteq Int /\ \A k \in Keys : k \in Seq(Chars)
  BY TrieAssumption
<1>1. \A k \in Keys : PathsTo(k) \subseteq Seq(Chars)
  BY <1>0, PathIsSequence
<1>2. Root \in Seq(Chars)
  BY DEF Root
<1>3. \A s \in Seq(Chars) : s \in Paths
  BY <1>0, SequencesArePaths
<1>4. ASSUME NEW k \in Keys PROVE k \in PathsTo(k)
  <2>1. k \in Seq(Chars) /\ Len(k) \in 0..Len(k) /\ SubSeq(k, 1, Len(k)) = k
    BY <1>0
  <2> QED BY <2>1 DEF PathsTo
<1>5. Root \in Nodes /\ \A k \in Keys : PathsTo(k) \subseteq Nodes
  BY DEF Nodes
<1>6. Keys \subseteq Nodes
  BY <1>4, <1>5
<1>7. Nodes \subseteq Seq(Chars)
  BY <1>1, <1>2 DEF Nodes
<1>8. Nodes \subseteq Paths
  BY <1>3, <1>7
<1>9. NoNode \notin Nodes
  BY TrieAssumption
<1> QED BY <1>0, <1>5, <1>6, <1>7, <1>8, <1>9

\* A prefix of a node is a node.
LEMMA AncestorsAreNodes ==
    ASSUME NEW n \in Nodes, NEW i \in 0..Len(n)
    PROVE  /\ SubSeq(n, 1, i) \in Nodes
           /\ Len(SubSeq(n, 1, i)) = i
           /\ IsPrefixOf(SubSeq(n, 1, i), n)
           /\ SubSeq(n, 1, Len(n)) = n
<1>1. n \in Seq(Chars) /\ Len(n) \in Nat
  BY NodesArePaths
<1>2. /\ SubSeq(n, 1, i) \in Seq(Chars) /\ Len(SubSeq(n, 1, i)) = i
      /\ \A j \in 1..i : SubSeq(n, 1, i)[j] = n[j]
      /\ SubSeq(n, 1, Len(n)) = n
  BY <1>1
<1>3. ASSUME n = Root PROVE SubSeq(n, 1, i) = n
  BY <1>2, <1>3 DEF Root
<1>4. ASSUME NEW k \in Keys, n \in PathsTo(k) PROVE SubSeq(n, 1, i) \in PathsTo(k)
  <2>0. k \in Seq(Chars) /\ Len(k) \in Nat
    BY TrieAssumption
  <2>1. PICK l \in 0..Len(k) : n = SubSeq(k, 1, l)
    BY <1>4 DEF PathsTo
  <2>2. Len(n) = l /\ i \in 0..Len(k) /\ i <= l
    BY <2>0, <2>1
  <2>3. SubSeq(n, 1, i) = SubSeq(k, 1, i)
    BY <2>0, <2>1, <2>2
  <2> QED BY <2>2, <2>3 DEF PathsTo
<1>5. SubSeq(n, 1, i) \in Nodes
  BY <1>2, <1>3, <1>4 DEF Nodes
<1> QED BY <1>1, <1>2, <1>5 DEF IsPrefixOf

\* A prefix is one of the ancestors.
LEMMA PrefixIsAncestor ==
    ASSUME NEW n \in Paths, NEW p \in Paths, IsPrefixOf(p, n)
    PROVE  p = SubSeq(n, 1, Len(p)) /\ Len(p) \in 0..Len(n)
<1> DEFINE q == SubSeq(n, 1, Len(p))
<1>1. Len(p) \in 0..Len(n) /\ Len(p) \in Int
  BY DEF IsPrefixOf, Paths
<1>2. q \in Paths /\ Len(q) = Len(p) /\ \A j \in 1..Len(p) : q[j] = n[j]
  BY <1>1, SubSeqPath
<1> HIDE DEF q
<1>3. IsPrefixOf(p, q) /\ Len(p) >= Len(q)
  BY <1>1, <1>2 DEF IsPrefixOf
<1>4. p = q
  BY <1>2, <1>3, PrefixSameLength
<1> QED BY <1>1, <1>4 DEF q

\* A node is the child of its parent.
LEMMA ChildOfParent ==
    ASSUME NEW n \in Nodes, n # Root
    PROVE  /\ Len(n) > 0
           /\ Parent(n) \in Nodes /\ Edge(n) \in Chars
           /\ Len(Parent(n)) = Len(n) - 1
           /\ n = Child(Parent(n), Edge(n))
<1>1. n \in Seq(Chars)
  BY NodesArePaths
<1>2. Len(n) > 0
  BY <1>1 DEF Root
<1>3. Len(n) - 1 \in 0..Len(n) /\ n[Len(n)] \in Chars
  BY <1>1, <1>2
<1>4. SubSeq(n, 1, Len(n) - 1) \in Nodes /\ Len(SubSeq(n, 1, Len(n) - 1)) = Len(n) - 1
  BY <1>3, AncestorsAreNodes
<1>5. n = Append(SubSeq(n, 1, Len(n) - 1), n[Len(n)])
  BY <1>1, <1>2
<1> QED BY <1>2, <1>3, <1>4, <1>5 DEF Parent, Edge, Child

\* There are finitely many nodes.
LEMMA NodesFinite ==
    ASSUME IsFiniteSet(Keys)
    PROVE  IsFiniteSet(Nodes) /\ Cardinality(Nodes) \in Nat
<1>1. ASSUME NEW k \in Keys PROVE IsFiniteSet(PathsTo(k))
  <2> DEFINE f == [i \in 0..Len(k) |-> SubSeq(k, 1, i)]
  <2>1. f \in Surjection(0..Len(k), PathsTo(k))
    BY DEF Surjection, PathsTo
  <2>2. k \in Seq(Chars)
    BY TrieAssumption
  <2>3. IsFiniteSet(0..Len(k))
    BY <2>2, FS_Interval
  <2> QED BY <2>1, <2>3, FS_Surjection
<1> DEFINE P == {PathsTo(k) : k \in Keys}
           g == [k \in Keys |-> PathsTo(k)]
<1>2. g \in Surjection(Keys, P)
  BY DEF Surjection
<1>3. IsFiniteSet(P) /\ \A T \in P : IsFiniteSet(T)
  BY <1>1, <1>2, FS_Surjection
<1>4. IsFiniteSet(UNION P)
  BY <1>3, FS_UNION
<1>5. IsFiniteSet({Root})
  BY FS_Singleton
<1>6. IsFiniteSet(Nodes)
  BY <1>4, <1>5, FS_Union DEF Nodes
<1> QED BY <1>6, FS_CardinalityType

\* A node is less deep than there are nodes.
LEMMA NodesAreShort ==
    ASSUME IsFiniteSet(Keys), NEW n \in Nodes
    PROVE  Len(n) \in Nat /\ Len(n) < Cardinality(Nodes)
<1> DEFINE f == [i \in 0..Len(n) |-> SubSeq(n, 1, i)]
<1>1. n \in Seq(Chars) /\ Len(n) \in Nat
  BY NodesArePaths
<1>2. f \in [0..Len(n) -> Nodes]
  BY AncestorsAreNodes
<1>3. ASSUME Cardinality(Nodes) < Len(n) + 1 PROVE FALSE
  <2>1. IsFiniteSet(0..Len(n)) /\ Cardinality(0..Len(n)) = Len(n) + 1
    BY <1>1, FS_Interval
  <2>2. \E x, y \in 0..Len(n) : x # y /\ f[x] = f[y]
    <3> HIDE DEF f
    <3> QED BY <1>2, <1>3, <2>1, NodesFinite, FS_PigeonHole
  <2> QED BY <2>2, AncestorsAreNodes
<1> QED BY <1>1, <1>3, NodesFinite

-----------------------------------------------------------------------------
(* Edges *)

\* A set of characters has a least and a greatest element.
LEMMA ExtremeEdges ==
    ASSUME NEW S \in SUBSET Chars, S # {}
    PROVE  /\ \E d \in S : \A e \in S : d <= e
           /\ \E d \in S : \A e \in S : e <= d
<1>0. \A d \in S : d \in Int /\ d + 128 \in Nat /\ 127 - d \in Nat
  BY TrieAssumption
<1>1. \E d \in S : \A e \in S : d <= e
  <2> DEFINE T == {d + 128 : d \in S}
  <2>1. T \in SUBSET Nat /\ T # {}
    BY <1>0
  <2>2. PICK x \in T : \A y \in T : x <= y
    BY <2>1, LeastNatural
  <2>3. PICK d \in S : x = d + 128
    BY <2>2
  <2>4. ASSUME NEW e \in S PROVE d <= e
    <3>1. d + 128 <= e + 128
      BY <2>2, <2>3
    <3> QED BY <1>0, <3>1
  <2> QED BY <2>4
<1>2. \E d \in S : \A e \in S : e <= d
  <2> DEFINE T == {127 - d : d \in S}
  <2>1. T \in SUBSET Nat /\ T # {}
    BY <1>0
  <2>2. PICK x \in T : \A y \in T : x <= y
    BY <2>1, LeastNatural
  <2>3. PICK d \in S : x = 127 - d
    BY <2>2
  <2>4. ASSUME NEW e \in S PROVE e <= d
    <3>1. 127 - d <= 127 - e
      BY <2>2, <2>3
    <3> QED BY <1>0, <3>1
  <2> QED BY <2>4
<1> QED BY <1>1, <1>2

Edges == [Nodes -> SUBSET Chars]

\* Edges start at nodes that the root reaches, and lead to nodes.
EdgesOK(ch) ==
    \A n \in Nodes : \A c \in ch[n] : Child(n, c) \in Nodes /\ Reaches(ch, n)

\* The root is reached; what an edge leads to is reached if its start is.
LEMMA ReachesChild ==
    ASSUME NEW ch \in Edges
    PROVE  /\ Reaches(ch, Root)
           /\ \A n \in Nodes : \A c \in ch[n] : Reaches(ch, n) => Reaches(ch, Child(n, c))
<1>1. Reaches(ch, Root)
  BY DEF Reaches, Root
<1>2. ASSUME NEW n \in Nodes, NEW c \in ch[n], Reaches(ch, n),
             NEW i \in 1..Len(Child(n, c))
      PROVE  Child(n, c)[i] \in ch[SubSeq(Child(n, c), 1, i - 1)]
  <2>1. n \in Seq(Chars) /\ c \in Chars /\ Len(n) \in Nat
    BY NodesArePaths DEF Edges
  <2>2. Len(Child(n, c)) = Len(n) + 1 /\ i - 1 \in 0..Len(n)
    BY <2>1 DEF Child
  <2>3. SubSeq(Child(n, c), 1, i - 1) = SubSeq(n, 1, i - 1)
    BY <2>1, <2>2 DEF Child
  <2>4. CASE i = Len(n) + 1
    <3>1. SubSeq(n, 1, i - 1) = n /\ Child(n, c)[i] = c
      BY <2>1, <2>4 DEF Child
    <3> QED BY <2>3, <3>1
  <2>5. CASE i \in 1..Len(n)
    <3>1. Child(n, c)[i] = n[i]
      BY <2>1, <2>5 DEF Child
    <3> QED BY <1>2, <2>3, <2>5, <3>1 DEF Reaches
  <2> QED BY <2>1, <2>2, <2>4, <2>5
<1> QED BY <1>1, <1>2 DEF Reaches

\* The ancestors of a node that is reached are, and the edges between them are
\* there.
LEMMA ReachesAncestor ==
    ASSUME NEW ch \in Edges, NEW n \in Nodes, Reaches(ch, n),
           NEW p \in Nodes, IsPrefixOf(p, n)
    PROVE  /\ Reaches(ch, p)
           /\ Len(p) < Len(n) => n[Len(p) + 1] \in ch[p]
<1>1. /\ p \in Paths /\ n \in Paths /\ Len(p) \in Nat /\ Len(n) \in Nat
      /\ Len(p) <= Len(n) /\ p = SubSeq(n, 1, Len(p))
      /\ n \in Seq(Chars) /\ p \in Seq(Chars)
      /\ \A i \in 1..Len(p) : p[i] = n[i]
  BY NodesArePaths, PrefixIsAncestor DEF IsPrefixOf
<1>2. ASSUME NEW i \in 1..Len(p) PROVE p[i] \in ch[SubSeq(p, 1, i - 1)]
  <2>1. SubSeq(p, 1, i - 1) = SubSeq(n, 1, i - 1) /\ p[i] = n[i] /\ i \in 1..Len(n)
    BY <1>1
  <2> QED BY <2>1 DEF Reaches
<1>3. ASSUME Len(p) < Len(n) PROVE n[Len(p) + 1] \in ch[p]
  <2>1. Len(p) + 1 \in 1..Len(n) /\ (Len(p) + 1) - 1 = Len(p)
    BY <1>1, <1>3
  <2> QED BY <1>1, <2>1 DEF Reaches
<1> QED BY <1>2, <1>3 DEF Reaches

\* A new edge makes one more node reached.
LEMMA NewEdge ==
    ASSUME NEW ch \in Edges, EdgesOK(ch), NEW p \in Nodes, Reaches(ch, p),
           NEW c \in Chars, c \notin ch[p], Child(p, c) \in Nodes
    PROVE  LET new == [ch EXCEPT ![p] = @ \cup {c}] IN
           /\ new \in Edges /\ EdgesOK(new)
           /\ ~Reaches(ch, Child(p, c)) /\ ch[Child(p, c)] = {}
           /\ \A m \in Nodes : Reaches(new, m) <=> Reaches(ch, m) \/ m = Child(p, c)
<1> DEFINE new == [ch EXCEPT ![p] = @ \cup {c}]
           n == Child(p, c)
<1>0. /\ p \in Paths /\ n \in Paths /\ Len(p) \in Nat /\ c \in Int
      /\ Len(n) = Len(p) + 1 /\ n[Len(p) + 1] = c /\ IsPrefixOf(p, n)
  BY NodesArePaths, AppendPath DEF Child
<1>1. new \in Edges
  BY DEF Edges
<1>2. \A m \in Nodes : ch[m] \subseteq new[m]
  BY DEF Edges
<1>3. ASSUME NEW m \in Nodes, Reaches(ch, m) PROVE Reaches(new, m)
  <2>1. ASSUME NEW i \in 1..Len(m) PROVE m[i] \in new[SubSeq(m, 1, i - 1)]
    <3>1. Len(m) \in Nat
      BY NodesArePaths
    <3>2. SubSeq(m, 1, i - 1) \in Nodes
      BY <3>1, AncestorsAreNodes
    <3> QED BY <1>2, <1>3, <3>2 DEF Reaches
  <2> QED BY <2>1 DEF Reaches
<1>4. ~Reaches(ch, n)
  BY <1>0, ReachesAncestor
<1>5. ch[n] = {}
  BY <1>4 DEF EdgesOK, Edges
<1>6. Reaches(new, n)
  <2>1. c \in new[p]
    BY DEF Edges
  <2> QED BY <1>1, <1>3, <2>1, ReachesChild
<1>7. ASSUME NEW m \in Nodes, Reaches(new, m), ~Reaches(ch, m) PROVE m = n
  <2>0. Len(m) \in Nat /\ m \in Paths /\ m \in Seq(Chars)
    BY NodesArePaths
  <2>1. PICK i \in 1..Len(m) : m[i] \notin ch[SubSeq(m, 1, i - 1)]
    BY <1>7 DEF Reaches
  <2>2. SubSeq(m, 1, i - 1) \in Nodes /\ m[i] \in new[SubSeq(m, 1, i - 1)]
    <3>1. i - 1 \in 0..Len(m)
      BY <2>0
    <3> QED BY <1>7, <3>1, AncestorsAreNodes DEF Reaches
  <2>3. SubSeq(m, 1, i - 1) = p /\ m[i] = c
    BY <2>1, <2>2 DEF Edges
  <2>4. SubSeq(m, 1, i) = n
    <3>1. SubSeq(m, 1, i) = Append(SubSeq(m, 1, i - 1), m[i])
      BY <2>0
    <3> QED BY <2>3, <3>1 DEF Child
  <2>5. CASE i = Len(m)
    BY <2>0, <2>4, <2>5, AncestorsAreNodes
  <2>6. CASE i < Len(m)
    <3>1. i + 1 \in 1..Len(m) /\ (i + 1) - 1 = i
      BY <2>0, <2>6
    <3>2. m[i + 1] \in new[n]
      BY <1>7, <2>4, <3>1 DEF Reaches
    <3>3. n # p
      BY <1>0
    <3> QED BY <1>5, <3>2, <3>3
  <2> QED BY <2>0, <2>5, <2>6
<1>8. EdgesOK(new)
  <2> SUFFICES ASSUME NEW m \in Nodes, NEW d \in new[m]
               PROVE  Child(m, d) \in Nodes /\ Reaches(new, m)
    BY DEF EdgesOK
  <2>1. CASE d \in ch[m]
    BY <1>3, <2>1 DEF EdgesOK
  <2>2. CASE m = p /\ d = c
    BY <1>3, <2>2
  <2> QED BY <2>1, <2>2 DEF Edges
<1> QED BY <1>1, <1>3, <1>4, <1>5, <1>6, <1>7, <1>8

-----------------------------------------------------------------------------
(* The neighbours of a new node *)

\* traverse_rightmost ends at the last of the nodes below n.
LEMMA RightmostIsLast ==
    ASSUME IsFiniteSet(Keys), NEW ch \in Edges, EdgesOK(ch),
           NEW n \in Nodes, Reaches(ch, n)
    PROVE  /\ Rightmost(ch, n) \in Nodes /\ Reaches(ch, Rightmost(ch, n))
           /\ IsPrefixOf(n, Rightmost(ch, n))
           /\ \A m \in Nodes : Reaches(ch, m) /\ IsPrefixOf(n, m) =>
                 m = Rightmost(ch, n) \/ Precedes(m, Rightmost(ch, n))
<1> DEFINE OnSpine(r) ==
              /\ IsPrefixOf(n, r)
              /\ Reaches(ch, r)
              /\ \A i \in (Len(n) + 1)..Len(r) : IsLast(ch[SubSeq(r, 1, i - 1)], r[i])
           IsEnd(r) ==
              /\ IsPrefixOf(n, r)
              /\ ch[r] = {}
              /\ \A i \in (Len(n) + 1)..Len(r) : IsLast(ch[SubSeq(r, 1, i - 1)], r[i])
           N == Cardinality(Nodes)
           left == {N - Len(r) : r \in {q \in Nodes : OnSpine(q)}}
<1>0. /\ N \in Nat /\ Len(n) \in Nat
      /\ \A m \in Nodes : m \in Seq(Chars) /\ Len(m) \in Nat /\ Len(m) < N
  BY NodesFinite, NodesAreShort, NodesArePaths
<1>1. OnSpine(n)
  BY <1>0 DEF IsPrefixOf
<1>2. PICK r \in Nodes : OnSpine(r) /\ \A q \in Nodes : OnSpine(q) => Len(q) <= Len(r)
  <2>1. left \in SUBSET Nat /\ left # {}
    BY <1>0, <1>1
  <2>2. PICK x \in left : \A y \in left : x <= y
    <3> HIDE DEF left
    <3> QED BY <2>1, LeastNatural
  <2>3. PICK r \in Nodes : OnSpine(r) /\ x = N - Len(r)
    BY <2>2
  <2>4. ASSUME NEW q \in Nodes, OnSpine(q) PROVE Len(q) <= Len(r)
    <3>1. x <= N - Len(q)
      BY <2>2, <2>4
    <3> QED BY <1>0, <2>3, <3>1
  <2> QED BY <2>3, <2>4
<1>3. ch[r] = {}
  <2>1. SUFFICES ASSUME ch[r] # {} PROVE FALSE
    OBVIOUS
  <2>2. ch[r] \in SUBSET Chars
    BY DEF Edges
  <2>3. PICK d \in ch[r] : IsLast(ch[r], d)
    BY <2>1, <2>2, ExtremeEdges DEF IsLast
  <2> DEFINE q == Child(r, d)
  <2>4. q \in Nodes /\ Reaches(ch, q)
    BY <2>3, ReachesChild DEF EdgesOK
  <2>5. /\ Len(q) = Len(r) + 1 /\ q[Len(r) + 1] = d
        /\ \A i \in 1..Len(r) : q[i] = r[i]
        /\ \A i \in 1..(Len(r) + 1) : SubSeq(q, 1, i - 1) = SubSeq(r, 1, i - 1)
        /\ SubSeq(r, 1, Len(r)) = r
    BY <1>0, <2>2, <2>3 DEF Child
  <2>6. IsPrefixOf(n, q)
    BY <1>0, <1>2, <2>5 DEF IsPrefixOf
  <2> HIDE DEF q
  <2>7. ASSUME NEW i \in (Len(n) + 1)..Len(q)
        PROVE  IsLast(ch[SubSeq(q, 1, i - 1)], q[i])
    <3>1. CASE i = Len(r) + 1
      <4>1. i - 1 = Len(r) /\ i \in 1..(Len(r) + 1)
        BY <1>0, <3>1
      <4>2. SubSeq(q, 1, i - 1) = r /\ q[i] = d
        BY <2>5, <3>1, <4>1
      <4> QED BY <2>3, <4>2
    <3>2. CASE i \in (Len(n) + 1)..Len(r)
      <4>1. i \in 1..Len(r) /\ i \in 1..(Len(r) + 1)
        BY <1>0, <3>2
      <4>2. SubSeq(q, 1, i - 1) = SubSeq(r, 1, i - 1) /\ q[i] = r[i]
        BY <2>5, <4>1
      <4> QED BY <1>2, <3>2, <4>2
    <3> QED BY <1>0, <2>5, <3>1, <3>2
  <2>8. OnSpine(q)
    BY <2>4, <2>6, <2>7
  <2> QED BY <1>0, <1>2, <2>4, <2>5, <2>8
<1>4. IsEnd(r)
  BY <1>2, <1>3
<1> DEFINE w == Rightmost(ch, n)
<1>5. w \in Nodes /\ IsEnd(w)
  <2>1. w = CHOOSE q \in Nodes : IsEnd(q)
    BY Zenon DEF Rightmost
  <2> HIDE DEF w, IsEnd
  <2> QED BY <1>4, <2>1
<1> HIDE DEF w
<1>6. ASSUME NEW m \in Nodes, Reaches(ch, m), IsPrefixOf(n, m), m # w, ~Precedes(m, w)
      PROVE  FALSE
  <2>0. /\ Precedes(w, m) /\ w \in Seq(Chars) /\ m \in Seq(Chars)
        /\ w \in Paths /\ m \in Paths /\ Len(w) \in Nat /\ Len(m) \in Nat
    BY <1>5, <1>6, NodesArePaths, PrecedesTotal
  <2>1. CASE IsPrefixOf(w, m) /\ Len(w) < Len(m)
    BY <1>5, <1>6, <2>1, ReachesAncestor
  <2>2. ASSUME NEW j \in 1..Len(w), j <= Len(m), w[j] < m[j],
               \A i \in 1..(j - 1) : w[i] = m[i]
        PROVE  FALSE
    <3>0. j \in 1..Len(m) /\ m[j] \in Chars /\ w[j] \in Chars
      BY <2>0, <2>2
    <3>5. m[j] \in Int /\ w[j] \in Int
      BY <3>0, NodesArePaths
    <3>1. j \in (Len(n) + 1)..Len(w)
      <4>1. \A i \in 1..Len(n) : n[i] = w[i] /\ n[i] = m[i]
        BY <1>5, <1>6 DEF IsPrefixOf
      <4>2. j \notin 1..Len(n)
        BY <2>2, <3>5, <4>1
      <4> QED BY <1>0, <2>0, <4>2
    <3>2. SubSeq(w, 1, j - 1) = SubSeq(m, 1, j - 1)
      BY <2>0, <2>2
    <3>3. m[j] \in ch[SubSeq(m, 1, j - 1)]
      BY <1>6, <2>0, <2>2 DEF Reaches
    <3>4. m[j] <= w[j]
      BY <1>5, <3>1, <3>2, <3>3 DEF IsLast
    <3> QED BY <2>2, <3>4, <3>5
  <2> QED BY <2>0, <2>1, <2>2 DEF Precedes, IsPrefixOf
<1>7. Reaches(ch, w)
  <2>1. w \in Seq(Chars) /\ w \in Paths /\ Len(w) \in Nat
    BY <1>5, NodesArePaths
  <2>2. ASSUME NEW i \in 1..Len(w) PROVE w[i] \in ch[SubSeq(w, 1, i - 1)]
    <3>1. CASE i \in (Len(n) + 1)..Len(w)
      BY <1>5, <3>1 DEF IsLast
    <3>2. CASE i \in 1..Len(n)
      <4>1. w[i] = n[i]
        BY <1>0, <1>5, <2>1, <3>2 DEF IsPrefixOf
      <4>2. SubSeq(w, 1, i - 1) = SubSeq(n, 1, i - 1)
        BY <1>0, <1>5, <2>1, <3>2 DEF IsPrefixOf
      <4> QED BY <3>2, <4>1, <4>2 DEF Reaches
    <3> QED BY <1>0, <2>1, <3>1, <3>2
  <2> QED BY <2>2 DEF Reaches
<1> QED BY <1>5, <1>6, <1>7 DEF w

\* The node that Attach links a new node after: its parent, or the last node
\* below the sibling to its left.
LeftOf(ch, n) ==
    IF \A d \in ch[Parent(n)] : d > Edge(n) THEN Parent(n)
    ELSE Rightmost(ch, Child(Parent(n), CHOOSE d \in Chars :
                                           IsPredecessor(ch[Parent(n)], Edge(n), d)))

\* n is not there yet but its parent is.
IsNew(ch, n) ==
    /\ n \in Nodes /\ n # Root
    /\ Reaches(ch, Parent(n))
    /\ Edge(n) \notin ch[Parent(n)]

\* A new node is a child, and comes after its parent.
LEMMA NewIsChild ==
    ASSUME NEW ch \in Edges, NEW n, IsNew(ch, n)
    PROVE  /\ n \in Nodes /\ n \in Paths
           /\ Parent(n) \in Nodes /\ Parent(n) \in Paths /\ Len(Parent(n)) \in Nat
           /\ Edge(n) \in Chars /\ Edge(n) \in Int
           /\ n = Append(Parent(n), Edge(n)) /\ Precedes(Parent(n), n)
           /\ ch[Parent(n)] \in SUBSET Chars /\ Chars \subseteq Int
<1>1. /\ n \in Nodes /\ Parent(n) \in Nodes /\ Edge(n) \in Chars
      /\ n = Append(Parent(n), Edge(n))
  BY ChildOfParent DEF IsNew, Child
<1> DEFINE p == Parent(n)
<1> HIDE DEF p
<1>2. /\ n \in Paths /\ Parent(n) \in Paths /\ Len(Parent(n)) \in Nat
      /\ Edge(n) \in Int /\ Chars \subseteq Int
  <2>1. n \in Paths /\ p \in Paths /\ Chars \subseteq Int
    BY <1>1, NodesArePaths DEF p
  <2>2. Len(p) \in Nat
    BY <2>1 DEF Paths
  <2> QED BY <1>1, <2>1, <2>2 DEF p
<1>3. Precedes(Parent(n), n)
  BY <1>1, <1>2, AppendPath
<1>4. ch[Parent(n)] \in SUBSET Chars
  BY <1>1 DEF Edges
<1> QED BY <1>1, <1>2, <1>3, <1>4

\* A node below the parent of a new one is before it or after it, by its edge.
LEMMA BelowParent ==
    ASSUME NEW ch \in Edges, NEW n, IsNew(ch, n), NEW m \in Nodes, Reaches(ch, m),
           IsPrefixOf(Parent(n), m), Parent(n) # m
    PROVE  /\ Len(Parent(n)) \in Nat /\ Len(Parent(n)) < Len(m)
           /\ m[Len(Parent(n)) + 1] \in ch[Parent(n)]
           /\ m[Len(Parent(n)) + 1] \in Int /\ Edge(n) \in Int
           /\ m[Len(Parent(n)) + 1] < Edge(n) => Precedes(m, n)
           /\ m[Len(Parent(n)) + 1] > Edge(n) => Precedes(n, m)
<1> DEFINE p == Parent(n)
           c == Edge(n)
           e == m[Len(p) + 1]
<1>1. /\ p \in Nodes /\ p \in Paths /\ m \in Paths /\ c \in Int
      /\ Len(p) \in Nat /\ n = Append(p, c)
  BY NewIsChild, NodesArePaths
<1>2. Len(p) < Len(m)
  <2>1. Len(m) \in Nat /\ Len(p) <= Len(m)
    BY NodesArePaths DEF IsPrefixOf
  <2> QED BY <1>1, <2>1, PrefixSameLength
<1>3. e \in ch[p]
  BY <1>1, <1>2, ReachesAncestor
<1>4. e \in Int
  BY <1>1, <1>3, NodesArePaths DEF Edges
<1> HIDE DEF p, c, e
<1>5. (e < c => Precedes(m, n)) /\ (c < e => Precedes(n, m))
  BY <1>1, <1>2, ChildPrecedesBelow DEF e, p
<1> QED BY <1>1, <1>2, <1>3, <1>4, <1>5 DEF p, c, e

\* Attach finds the last node before the new one.
LEMMA LeftNeighbour ==
    ASSUME IsFiniteSet(Keys), NEW ch \in Edges, EdgesOK(ch), NEW n, IsNew(ch, n)
    PROVE  /\ LeftOf(ch, n) \in Nodes /\ Reaches(ch, LeftOf(ch, n))
           /\ Precedes(LeftOf(ch, n), n)
           /\ \A m \in Nodes : Reaches(ch, m) /\ Precedes(m, n) =>
                 m = LeftOf(ch, n) \/ Precedes(m, LeftOf(ch, n))
<1> DEFINE p == Parent(n)
           c == Edge(n)
           left == LeftOf(ch, n)
<1>0. /\ p \in Nodes /\ p \in Paths /\ n \in Paths /\ c \in Int /\ c \in Chars
      /\ Len(p) \in Nat /\ n = Append(p, c) /\ Reaches(ch, p) /\ c \notin ch[p]
      /\ ch[p] \in SUBSET Chars /\ Chars \subseteq Int /\ Precedes(p, n)
  BY NewIsChild DEF IsNew
<1>1. CASE \A d \in ch[p] : d > c
  <2>1. left = p
    BY <1>1 DEF LeftOf
  <2>2. ASSUME NEW m \in Nodes, Reaches(ch, m), Precedes(m, n)
        PROVE  m = p \/ Precedes(m, p)
    <3>1. m \in Paths
      BY NodesArePaths
    <3>2. Precedes(m, p) \/ IsPrefixOf(p, m)
      BY <1>0, <2>2, <3>1, BeforeChild
    <3>3. ASSUME IsPrefixOf(p, m), m # p PROVE FALSE
      <4>1. Precedes(n, m)
        BY <1>1, <2>2, <3>3, BelowParent
      <4> QED BY <1>0, <2>2, <3>1, <4>1, PrecedesAsymmetric
    <3> QED BY <3>2, <3>3
  <2> QED BY <1>0, <2>1, <2>2
<1>2. CASE ~ \A d \in ch[p] : d > c
  <2> DEFINE d == CHOOSE d \in Chars : IsPredecessor(ch[p], c, d)
             s == Child(p, d)
  <2>1. d \in Chars /\ IsPredecessor(ch[p], c, d)
    <3> DEFINE S == {e \in ch[p] : e < c}
    <3>1. S \in SUBSET Chars /\ S # {}
      <4>1. PICK e \in ch[p] : ~(e > c)
        BY <1>2
      <4>2. e \in Int /\ e # c
        BY <1>0, <4>1
      <4>3. e < c
        BY <1>0, <4>1, <4>2
      <4> QED BY <1>0, <4>1, <4>3
    <3>2. PICK x \in S : \A e \in S : e <= x
      <4> HIDE DEF S
      <4> QED BY <3>1, ExtremeEdges
    <3>3. x \in Chars /\ IsPredecessor(ch[p], c, x)
      BY <3>1, <3>2 DEF IsPredecessor
    <3> QED BY <3>3
  <2>2. left = Rightmost(ch, s)
    BY <1>2, Zenon DEF LeftOf
  <2> HIDE DEF d
  <2>3. d \in ch[p] /\ d < c /\ d \in Int /\ \A e \in ch[p] : e < c => e <= d
    BY <1>0, <2>1 DEF IsPredecessor
  <2>4. s \in Nodes /\ Reaches(ch, s) /\ s \in Paths
    BY <1>0, <2>3, ReachesChild, NodesArePaths DEF EdgesOK
  <2>5. /\ left \in Nodes /\ Reaches(ch, left) /\ IsPrefixOf(s, left) /\ left \in Paths
        /\ \A m \in Nodes : Reaches(ch, m) /\ IsPrefixOf(s, m) =>
              m = left \/ Precedes(m, left)
    BY <2>2, <2>4, RightmostIsLast, NodesArePaths
  <2>6. /\ Len(s) = Len(p) + 1 /\ s[Len(p) + 1] = d /\ IsPrefixOf(p, s)
        /\ Precedes(p, s)
    BY <1>0, <2>3, AppendPath DEF Child
  <2> HIDE DEF s, left
  <2>7. /\ IsPrefixOf(p, left) /\ Len(p) < Len(left) /\ left[Len(p) + 1] = d
        /\ Precedes(left, n) /\ Precedes(p, left)
    <3>1. IsPrefixOf(p, left)
      BY <1>0, <2>4, <2>5, <2>6, PrefixTransitive
    <3>2. Len(p) < Len(left) /\ left[Len(p) + 1] = d
      <4>1. Len(left) \in Nat
        BY <2>5, NodesArePaths
      <4> QED BY <1>0, <2>5, <2>6, <4>1 DEF IsPrefixOf
    <3>3. Precedes(left, n)
      BY <1>0, <2>3, <2>5, <3>1, <3>2, ChildPrecedesBelow
    <3>4. Precedes(p, left)
      BY <1>0, <2>5, <3>1, <3>2, PrefixPrecedes
    <3> QED BY <3>1, <3>2, <3>3, <3>4
  <2>8. ASSUME NEW m \in Nodes, Reaches(ch, m), Precedes(m, n)
        PROVE  m = left \/ Precedes(m, left)
    <3>1. m \in Paths
      BY NodesArePaths
    <3>2. CASE Precedes(m, p)
      BY <1>0, <2>5, <2>7, <3>1, <3>2, PrecedesTransitive
    <3>3. CASE m = p
      BY <2>7, <3>3
    <3>4. CASE IsPrefixOf(p, m) /\ m # p
      <4> DEFINE e == m[Len(p) + 1]
      <4>1. /\ Len(p) < Len(m) /\ e \in ch[p] /\ e \in Int
            /\ e > c => Precedes(n, m)
        BY <2>8, <3>4, BelowParent
      <4>2. ~(e > c)
        BY <1>0, <2>8, <3>1, <4>1, PrecedesAsymmetric
      <4>3. e <= d
        BY <1>0, <2>3, <4>1, <4>2
      <4>4. CASE e = d
        <5>1. IsPrefixOf(s, m)
          BY <1>0, <2>3, <3>1, <3>4, <4>1, <4>4, ChildIsPrefix DEF s, Child
        <5> QED BY <2>5, <2>8, <5>1
      <4>5. CASE e < d
        <5>1. m[Len(p) + 1] < left[Len(p) + 1]
          BY <2>7, <4>5
        <5> QED BY <1>0, <2>5, <2>7, <3>1, <3>4, <4>1, <5>1, SmallerEdgeFirst
      <4> QED BY <2>3, <4>1, <4>3, <4>4, <4>5
    <3> QED BY <1>0, <2>8, <3>1, <3>2, <3>3, <3>4, BeforeChild
  <2> QED BY <2>5, <2>7, <2>8 DEF left
<1> QED BY <1>1, <1>2

\* A sibling with the next larger edge is the first node after the new one.
LEMMA RightNeighbour ==
    ASSUME NEW ch \in Edges, EdgesOK(ch), NEW n, IsNew(ch, n),
           NEW u, IsLowerBound(ch[Parent(n)], Edge(n), u)
    PROVE  /\ Child(Parent(n), u) \in Nodes /\ Reaches(ch, Child(Parent(n), u))
           /\ Precedes(n, Child(Parent(n), u))
           /\ \A m \in Nodes : Reaches(ch, m) /\ Precedes(n, m) =>
                 ~Precedes(m, Child(Parent(n), u))
<1> DEFINE p == Parent(n)
           c == Edge(n)
           s == Child(p, u)
<1>0. /\ p \in Nodes /\ p \in Paths /\ n \in Paths /\ c \in Int
      /\ Len(p) \in Nat /\ n = Append(p, c) /\ Reaches(ch, p) /\ c \notin ch[p]
      /\ ch[p] \in SUBSET Chars /\ Chars \subseteq Int /\ Precedes(p, n)
  BY NewIsChild DEF IsNew
<1>1. u \in ch[p] /\ u \in Int /\ c < u /\ \A e \in ch[p] : e >= c => u <= e
  <2>1. u \in ch[p] /\ u >= c /\ \A e \in ch[p] : e >= c => u <= e
    BY DEF IsLowerBound
  <2>2. u \in Int /\ u # c
    BY <1>0, <2>1
  <2> QED BY <1>0, <2>1, <2>2
<1>2. s \in Nodes /\ Reaches(ch, s) /\ s \in Paths
  BY <1>0, <1>1, ReachesChild, NodesArePaths DEF EdgesOK
<1>3. /\ Len(s) = Len(p) + 1 /\ s[Len(p) + 1] = u /\ IsPrefixOf(p, s) /\ s # p
  BY <1>0, <1>1, AppendPath DEF Child
<1>4. Precedes(n, s)
  <2>1. IsPrefixOf(p, s) /\ p # s /\ s[Len(p) + 1] > c
    BY <1>1, <1>3
  <2> QED BY <1>2, <2>1, BelowParent
<1>5. ASSUME NEW m \in Nodes, Reaches(ch, m), Precedes(n, m), Precedes(m, s) PROVE FALSE
  <2>1. m \in Paths /\ Precedes(p, m)
    BY <1>0, <1>5, NodesArePaths, PrecedesTransitive
  <2>2. IsPrefixOf(p, m) /\ Len(p) < Len(m) /\ m[Len(p) + 1] < u
    BY <1>0, <1>1, <1>5, <2>1, BetweenNodeAndChild DEF Child
  <2>3. p # m
    BY <1>0, <2>2
  <2> DEFINE e == m[Len(p) + 1]
  <2>4. e \in ch[p] /\ e \in Int /\ (e < c => Precedes(m, n))
    BY <1>5, <2>2, <2>3, BelowParent
  <2> HIDE DEF e, p, c, s
  <2>5. e < c
    BY <1>0, <1>1, <2>2, <2>4 DEF e
  <2> QED BY <1>0, <1>5, <2>1, <2>4, <2>5, PrecedesAsymmetric
<1> QED BY <1>2, <1>4, <1>5

-----------------------------------------------------------------------------
(* Attach *)

Lists == [Nodes -> Nodes \cup {NoNode}]

\* The list nx is the tree of ch in key order.
ListOK(ch, nx) ==
    \A n \in Nodes : Reaches(ch, n) =>
        /\ nx[n] # NoNode => Reaches(ch, nx[n]) /\ Precedes(n, nx[n])
        /\ \A m \in Nodes : Reaches(ch, m) /\ Precedes(n, m) =>
              nx[n] # NoNode /\ ~Precedes(m, nx[n])

Links == [children : Edges, next : Lists]

LinksOK(links) ==
    /\ links \in Links
    /\ EdgesOK(links.children)
    /\ ListOK(links.children, links.next)

\* Putting a new node after the last node before it, with a successor that is
\* the first node after it, keeps the list in order.
LEMMA InsertInList ==
    ASSUME NEW ch \in Edges, NEW nx \in Lists, ListOK(ch, nx),
           NEW new \in Edges, NEW n \in Nodes, ~Reaches(ch, n),
           \A m \in Nodes : Reaches(new, m) <=> Reaches(ch, m) \/ m = n,
           NEW left \in Nodes, Reaches(ch, left), Precedes(left, n),
           \A m \in Nodes : Reaches(ch, m) /\ Precedes(m, n) =>
              m = left \/ Precedes(m, left),
           NEW right \in Nodes \cup {NoNode},
           right # NoNode => Reaches(ch, right) /\ Precedes(n, right),
           \A m \in Nodes : Reaches(ch, m) /\ Precedes(n, m) =>
              right # NoNode /\ ~Precedes(m, right)
    PROVE  ListOK(new, [nx EXCEPT ![n] = right, ![left] = n])
<1> DEFINE nx2 == [nx EXCEPT ![n] = right, ![left] = n]
<1>0. Nodes \subseteq Paths /\ NoNode \notin Nodes /\ left # n
  BY NodesArePaths
<1>1. /\ nx2[left] = n /\ nx2[n] = right
      /\ \A x \in Nodes : x # n /\ x # left => nx2[x] = nx[x]
      /\ \A x \in Nodes : nx[x] \in Nodes \cup {NoNode}
  BY <1>0 DEF Lists
<1> HIDE DEF nx2
<1> SUFFICES ASSUME NEW x \in Nodes, Reaches(new, x)
             PROVE  /\ nx2[x] # NoNode => Reaches(new, nx2[x]) /\ Precedes(x, nx2[x])
                    /\ \A m \in Nodes : Reaches(new, m) /\ Precedes(x, m) =>
                          nx2[x] # NoNode /\ ~Precedes(m, nx2[x])
  BY DEF ListOK, nx2
<1>2. CASE x = n
  <2>1. ASSUME NEW m \in Nodes, Reaches(new, m), Precedes(n, m) PROVE Reaches(ch, m)
    BY <1>0, <2>1, PrecedesIrreflexive
  <2> QED BY <1>1, <1>2, <2>1
<1>3. CASE x = left
  <2>1. ASSUME NEW m \in Nodes, Reaches(new, m), Precedes(left, m), Precedes(m, n)
        PROVE  FALSE
    <3>1. Reaches(ch, m)
      BY <1>0, <2>1, PrecedesIrreflexive
    <3>2. m = left \/ Precedes(m, left)
      BY <2>1, <3>1
    <3> QED BY <1>0, <2>1, <3>2, PrecedesIrreflexive, PrecedesAsymmetric
  <2> QED BY <1>0, <1>1, <1>3, <2>1
<1>4. CASE x # n /\ x # left
  <2>1. Reaches(ch, x) /\ nx2[x] = nx[x]
    BY <1>1, <1>4
  <2>2. nx[x] # NoNode => nx[x] \in Nodes /\ Reaches(ch, nx[x]) /\ Precedes(x, nx[x])
    BY <1>1, <2>1 DEF ListOK
  <2>3. \A m \in Nodes : Reaches(ch, m) /\ Precedes(x, m) =>
           nx[x] # NoNode /\ ~Precedes(m, nx[x])
    BY <2>1 DEF ListOK
  <2>4. ASSUME Precedes(x, n) PROVE nx[x] # NoNode /\ ~Precedes(n, nx[x])
    <3>1. Precedes(x, left)
      BY <1>4, <2>1, <2>4
    <3>2. nx[x] # NoNode /\ ~Precedes(left, nx[x])
      BY <2>3, <3>1
    <3>3. nx[x] = left \/ Precedes(nx[x], left)
      BY <1>0, <2>2, <3>2, PrecedesTotal
    <3>4. Precedes(nx[x], n)
      BY <1>0, <2>2, <3>2, <3>3, PrecedesTransitive
    <3> QED BY <1>0, <2>2, <3>2, <3>4, PrecedesAsymmetric
  <2> QED BY <2>1, <2>2, <2>3, <2>4
<1> QED BY <1>2, <1>3, <1>4

\* Attach adds the new node to the tree and to the list, and keeps the list in
\* order.
LEMMA AttachKeepsOrder ==
    ASSUME IsFiniteSet(Keys), NEW links, LinksOK(links),
           NEW n, IsNew(links.children, n)
    PROVE  /\ LinksOK(Attach(links, n))
           /\ \A m \in Nodes : Reaches(Attach(links, n).children, m) <=>
                 Reaches(links.children, m) \/ m = n
<1> DEFINE ch == links.children
           nx == links.next
           p == Parent(n)
           c == Edge(n)
           left == LeftOf(ch, n)
           middle == {u \in Chars : IsLowerBound(ch[p], c, u)}
           right == IF middle = {} THEN nx[left] ELSE Child(p, CHOOSE u \in middle : TRUE)
           new == [ch EXCEPT ![p] = @ \cup {c}]
           nx2 == [nx EXCEPT ![n] = right, ![left] = n]
<1>1. ch \in Edges /\ nx \in Lists /\ EdgesOK(ch) /\ ListOK(ch, nx)
  BY DEF LinksOK, Links
<1>2. Attach(links, n) = [children |-> new, next |-> nx2]
  BY Zenon DEF Attach, LeftOf
<1>3. /\ n \in Nodes /\ p \in Nodes /\ c \in Chars /\ n = Child(p, c) /\ c \notin ch[p]
      /\ Reaches(ch, p) /\ n \in Paths /\ c \in Int /\ ch[p] \in SUBSET Chars
      /\ Chars \subseteq Int
  BY <1>1, NewIsChild DEF IsNew, Child
<1> HIDE DEF ch, nx, p, c, left
<1>4. /\ new \in Edges /\ EdgesOK(new) /\ ~Reaches(ch, n)
      /\ \A m \in Nodes : Reaches(new, m) <=> Reaches(ch, m) \/ m = n
  BY <1>1, <1>3, NewEdge
<1>5. /\ left \in Nodes /\ Reaches(ch, left) /\ Precedes(left, n) /\ left \in Paths
      /\ \A m \in Nodes : Reaches(ch, m) /\ Precedes(m, n) => m = left \/ Precedes(m, left)
  BY <1>1, LeftNeighbour, NodesArePaths DEF left, ch
<1>6. /\ right \in Nodes \cup {NoNode}
      /\ right # NoNode => Reaches(ch, right) /\ Precedes(n, right)
      /\ \A m \in Nodes : Reaches(ch, m) /\ Precedes(n, m) =>
            right # NoNode /\ ~Precedes(m, right)
  <2>1. CASE middle = {}
    <3>1. right = nx[left] /\ right \in Nodes \cup {NoNode}
      BY <1>1, <1>5, <2>1 DEF Lists
    <3> HIDE DEF right
    <3>2. ASSUME right # NoNode PROVE Reaches(ch, right) /\ Precedes(n, right)
      <4>1. /\ right \in Nodes /\ right \in Paths
            /\ Reaches(ch, right) /\ Precedes(left, right)
        BY <1>1, <1>5, <3>1, <3>2, NodesArePaths DEF ListOK
      <4>2. ~Precedes(right, n)
        BY <1>5, <4>1, PrecedesIrreflexive, PrecedesAsymmetric
      <4>3. right # n
        BY <1>4, <4>1
      <4> QED BY <1>3, <4>1, <4>2, <4>3, PrecedesTotal
    <3>3. ASSUME NEW m \in Nodes, Reaches(ch, m), Precedes(n, m)
          PROVE  right # NoNode /\ ~Precedes(m, right)
      <4>1. m \in Paths
        BY NodesArePaths
      <4>2. Precedes(left, m)
        BY <1>3, <1>5, <3>3, <4>1, PrecedesTransitive
      <4> QED BY <1>1, <1>5, <3>1, <3>3, <4>2 DEF ListOK
    <3> QED BY <3>1, <3>2, <3>3
  <2>2. CASE middle # {}
    <3> DEFINE u == CHOOSE u \in middle : TRUE
    <3>1. u \in middle /\ right = Child(p, u)
      BY <2>2
    <3> HIDE DEF right, u
    <3>2. IsLowerBound(ch[p], c, u)
      BY <3>1
    <3>3. /\ right \in Nodes /\ Reaches(ch, right) /\ Precedes(n, right)
          /\ \A m \in Nodes : Reaches(ch, m) /\ Precedes(n, m) => ~Precedes(m, right)
      BY <1>1, <3>1, <3>2, RightNeighbour DEF p, c, ch
    <3> QED BY <3>3, NodesArePaths
  <2> QED BY <2>1, <2>2
<1> HIDE DEF right
<1>7. nx2 \in Lists
  BY <1>1, <1>3, <1>5, <1>6 DEF Lists
<1>8. ListOK(new, nx2)
  <2> HIDE DEF new
  <2> QED BY <1>1, <1>3, <1>4, <1>5, <1>6, InsertInList
<1> HIDE DEF new, nx2
<1>9. LinksOK([children |-> new, next |-> nx2])
  BY <1>4, <1>7, <1>8 DEF LinksOK, Links
<1> QED BY <1>2, <1>4, <1>9 DEF ch

-----------------------------------------------------------------------------
(* traverse_creating *)

\* The links with the node of the first i characters of k.
Step(k, links, i) ==
    IF k[i] \in links.children[SubSeq(k, 1, i - 1)] THEN links
    ELSE Attach(links, SubSeq(k, 1, i))

CurrentLinks == [children |-> children, next |-> next]

\* The links are in order, lead to n and to all that they lead to now.
Leads(links, n) ==
    /\ LinksOK(links)
    /\ Reaches(links.children, n)
    /\ \A m \in Nodes : Reaches(children, m) => Reaches(links.children, m)

\* Going down one character keeps the list in order.
LEMMA StepLeads ==
    ASSUME IsFiniteSet(Keys), NEW k \in Keys, NEW i \in 1..Len(k), NEW links,
           Leads(links, SubSeq(k, 1, i - 1))
    PROVE  Leads(Step(k, links, i), SubSeq(k, 1, i))
<1> DEFINE p == SubSeq(k, 1, i - 1)
           n == SubSeq(k, 1, i)
           ch == links.children
<1>1. k \in Seq(Chars) /\ k \in Nodes /\ Len(k) \in Nat /\ Chars \subseteq Int
  BY NodesArePaths
<1>2. p \in Nodes /\ n \in Nodes /\ Len(n) = i /\ Len(p) = i - 1
  BY <1>1, AncestorsAreNodes
<1>3. /\ n = Append(p, k[i]) /\ n[i] = k[i] /\ SubSeq(n, 1, i - 1) = p /\ k[i] \in Chars
      /\ n # Root
  BY <1>1 DEF Root
<1>4. ch \in Edges /\ Reaches(ch, p)
  BY DEF Leads, LinksOK, Links
<1> HIDE DEF p, n, ch
<1>5. CASE k[i] \in ch[p]
  <2>1. Step(k, links, i) = links
    BY <1>5, Zenon DEF Step, p, ch
  <2>2. Reaches(ch, n)
    BY <1>2, <1>3, <1>4, <1>5, ReachesChild DEF Child
  <2> QED BY <2>1, <2>2 DEF Leads, n, ch
<1>6. CASE k[i] \notin ch[p]
  <2>1. Step(k, links, i) = Attach(links, n)
    BY <1>6, Zenon DEF Step, p, ch, n
  <2>2. Parent(n) = p /\ Edge(n) = k[i]
    BY <1>2, <1>3 DEF Parent, Edge
  <2>3. IsNew(ch, n)
    BY <1>2, <1>3, <1>4, <1>6, <2>2 DEF IsNew
  <2>4. /\ LinksOK(Attach(links, n))
        /\ \A m \in Nodes : Reaches(Attach(links, n).children, m) <=> Reaches(ch, m) \/ m = n
    BY <2>3, AttachKeepsOrder DEF ch, Leads
  <2> QED BY <1>2, <2>1, <2>4 DEF Leads, n, ch
<1> QED BY <1>5, <1>6

CreatedUpTo(k) ==
    CHOOSE down : down = [i \in 0..Len(k) |->
        IF i = 0 THEN CurrentLinks ELSE Step(k, down[i - 1], i)]

\* traverse_creating makes the node of its key, loses none, and keeps the list
\* in order.
LEMMA CreatedLeads ==
    ASSUME IsFiniteSet(Keys), LinksOK(CurrentLinks), NEW k \in Keys
    PROVE  Leads(Created(k), k)
<1> DEFINE N == Len(k)
           T == [i \in 0..N |-> {links \in Links : Leads(links, SubSeq(k, 1, i))}]
           G == [i \in 1..N |-> {d \in Links \X Links : d[2] = Step(k, d[1], i)}]
           IsDown(f) == f = [i \in 0..N |->
                               IF i = 0 THEN CurrentLinks ELSE Step(k, f[i - 1], i)]
           down == CreatedUpTo(k)
           S == {i \in 0..N : Leads(down[i], SubSeq(k, 1, i))}
<1>1. N \in Nat /\ k \in Seq(Chars) /\ k \in Nodes
  BY NodesArePaths
<1>2. Leads(CurrentLinks, SubSeq(k, 1, 0))
  <2>1. CurrentLinks.children = children
    BY DEF CurrentLinks
  <2>2. children \in Edges
    BY <2>1 DEF LinksOK, Links
  <2>3. SubSeq(k, 1, 0) = Root
    BY <1>1 DEF Root
  <2> QED BY <2>1, <2>2, <2>3, ReachesChild DEF Leads
<1>3. \E f \in [0..N -> Links] : IsDown(f)
  <2>1. T \in [0..N -> SUBSET Links]
    OBVIOUS
  <2>2. CurrentLinks \in T[0]
    BY <1>1, <1>2 DEF Leads, LinksOK
  <2>3. ASSUME NEW i \in 1..N, NEW x \in T[i - 1]
        PROVE  \E y \in T[i] : <<x, y>> \in G[i]
    <3>1. i - 1 \in 0..N /\ i \in 0..N
      BY <1>1
    <3>2. x \in Links /\ Leads(x, SubSeq(k, 1, i - 1))
      BY <3>1
    <3> DEFINE y == Step(k, x, i)
    <3>3. Leads(y, SubSeq(k, 1, i))
      BY <3>2, StepLeads
    <3> HIDE DEF y
    <3>4. y \in Links /\ y \in T[i]
      BY <3>1, <3>3 DEF Leads, LinksOK
    <3>5. <<x, y>> \in G[i]
      BY <3>2, <3>4 DEF y
    <3> HIDE DEF T, G
    <3> QED BY <3>4, <3>5
  <2>4. PICK f \in [0..N -> Links] :
           f[0] = CurrentLinks /\ \A i \in 1..N : <<f[i - 1], f[i]>> \in G[i]
    <3> HIDE DEF T, G
    <3>1. Continues(N, T, G)
      BY <2>3 DEF Continues
    <3>2. \E f \in [0..N -> Links] : Runs(f, N, CurrentLinks, T, G)
      BY <1>1, <2>1, <2>2, <3>1, Recursion
    <3> QED BY <3>2 DEF Runs
  <2>5. \A i \in 1..N : f[i] = Step(k, f[i - 1], i)
    BY <2>4
  <2>6. IsDown(f)
    <3>1. \A i \in 0..N : i # 0 => i \in 1..N
      OBVIOUS
    <3> QED BY <2>4, <2>5, <3>1
  <2> HIDE DEF IsDown
  <2> QED BY <2>6, Zenon
<1>4. IsDown(down)
  <2>1. down = CHOOSE f : IsDown(f)
    BY Zenon DEF CreatedUpTo
  <2> HIDE DEF IsDown, down
  <2> QED BY <1>3, <2>1, Zenon
<1> HIDE DEF down
<1>5. down[0] = CurrentLinks /\ \A i \in 1..N : down[i] = Step(k, down[i - 1], i)
  <2>1. down = [i \in 0..N |-> IF i = 0 THEN CurrentLinks ELSE Step(k, down[i - 1], i)]
    BY <1>4, Zenon
  <2>2. 0 \in 0..N /\ \A i \in 1..N : i \in 0..N /\ i # 0
    BY <1>1
  <2> QED BY <2>1, <2>2
<1>6. \A i \in 0..N : i \in S
  <2>1. 0 \in S
    BY <1>1, <1>2, <1>5
  <2>2. ASSUME NEW i \in 1..N, i - 1 \in S PROVE i \in S
    <3>1. Leads(Step(k, down[i - 1], i), SubSeq(k, 1, i))
      BY <2>2, StepLeads
    <3>2. i \in 0..N
      BY <1>1
    <3> QED BY <1>5, <3>1, <3>2
  <2> HIDE DEF S
  <2> QED BY <1>1, <2>1, <2>2, UpTo
<1>7. Created(k) = down[N]
  BY Zenon DEF Created, CreatedUpTo, CurrentLinks, Step, down
<1>8. N \in S
  BY <1>1, <1>6
<1>9. SubSeq(k, 1, N) = k
  BY <1>1
<1> QED BY <1>7, <1>8, <1>9

-----------------------------------------------------------------------------
(* Walks along the list *)

Reached == {n \in Nodes : Reaches(children, n)}

\* One move of a walk to a node of `stops`.
Move(stops, m) == IF m \in stops \cup {NoNode} THEN m ELSE next[m]

Walks(stops, n) ==
    CHOOSE at : at = [i \in 0..Cardinality(Nodes) |->
        IF i = 0 THEN n ELSE Move(stops, at[i - 1])]

\* m is n or comes after it.
AtOrAfter(m, n) == m = n \/ Precedes(n, m)

Before(m) == {s \in Nodes : Precedes(s, m)}

\* A walk from n may be at x after i moves: no stop is behind it.
MayBeAt(stops, n, x, i) ==
    /\ x \in Reached \cup {NoNode}
    /\ x # NoNode => n # NoNode /\ AtOrAfter(x, n)
    /\ n # NoNode => \A s \in stops \cap Reached :
                        AtOrAfter(s, n) => x # NoNode /\ AtOrAfter(s, x)
    /\ x \notin stops \cup {NoNode} => Cardinality(Before(x)) >= i

\* Fewer nodes come before m than there are, and more before every later node.
LEMMA FewBefore ==
    ASSUME IsFiniteSet(Keys), NEW m \in Nodes
    PROVE  /\ IsFiniteSet(Before(m)) /\ Cardinality(Before(m)) \in Nat
           /\ Cardinality(Before(m)) < Cardinality(Nodes)
           /\ \A n \in Nodes : Precedes(m, n) => Cardinality(Before(m)) < Cardinality(Before(n))
<1>1. \A n \in Nodes : /\ IsFiniteSet(Before(n)) /\ Cardinality(Before(n)) \in Nat
                       /\ Before(n) \in SUBSET Nodes
  <2>1. \A n \in Nodes : Before(n) \in SUBSET Nodes
    BY DEF Before
  <2>2. \A n \in Nodes : IsFiniteSet(Before(n))
    BY <2>1, NodesFinite, FS_Subset
  <2> QED BY <2>1, <2>2, FS_CardinalityType
<1>2. m \notin Before(m)
  BY NodesArePaths, PrecedesIrreflexive DEF Before
<1>3. Cardinality(Before(m)) < Cardinality(Nodes)
  <2>1. Before(m) # Nodes
    BY <1>2
  <2>2. Cardinality(Before(m)) <= Cardinality(Nodes) /\ Cardinality(Before(m)) # Cardinality(Nodes)
    BY <1>1, <2>1, NodesFinite, FS_Subset
  <2> QED BY <1>1, <2>2, NodesFinite
<1>4. ASSUME NEW n \in Nodes, Precedes(m, n)
      PROVE  Cardinality(Before(m)) < Cardinality(Before(n))
  <2>1. Before(m) \in SUBSET Before(n)
    BY <1>4, NodesArePaths, PrecedesTransitive DEF Before
  <2>2. m \in Before(n)
    BY <1>4 DEF Before
  <2>3. Before(m) # Before(n)
    BY <1>2, <2>2
  <2>4. Cardinality(Before(m)) <= Cardinality(Before(n)) /\ Cardinality(Before(m)) # Cardinality(Before(n))
    BY <1>1, <2>1, <2>3, FS_Subset
  <2> QED BY <1>1, <2>4
<1> QED BY <1>1, <1>3, <1>4

\* A move passes no stop, and gets nearer to the end of the list.
LEMMA MoveKeepsWay ==
    ASSUME IsFiniteSet(Keys), LinksOK(CurrentLinks), NEW stops, NEW n \in Reached \cup {NoNode},
           NEW i \in Nat, NEW x, MayBeAt(stops, n, x, i)
    PROVE  MayBeAt(stops, n, Move(stops, x), i + 1)
<1>1. CASE x \in stops \cup {NoNode}
  <2>1. Move(stops, x) = x
    BY <1>1 DEF Move
  <2> QED BY <1>1, <2>1 DEF MayBeAt
<1>2. CASE x \notin stops \cup {NoNode}
  <2> DEFINE y == next[x]
  <2>0. Move(stops, x) = y
    BY <1>2 DEF Move
  <2>1. /\ x \in Nodes /\ Reaches(children, x) /\ x \in Paths /\ n \in Nodes /\ n \in Paths
        /\ NoNode \notin Nodes /\ n # NoNode /\ x \in Reached
    BY <1>2, NodesArePaths DEF MayBeAt, Reached
  <2>2. /\ y \in Nodes \cup {NoNode}
        /\ y # NoNode => Reaches(children, y) /\ Precedes(x, y)
        /\ \A m \in Nodes : Reaches(children, m) /\ Precedes(x, m) =>
              y # NoNode /\ ~Precedes(m, y)
    BY <2>1 DEF LinksOK, ListOK, CurrentLinks, Links, Lists
  <2> HIDE DEF y
  <2>3. y \in Reached \cup {NoNode}
    BY <2>2 DEF Reached
  <2>4. y # NoNode => AtOrAfter(y, n)
    <3>1. AtOrAfter(x, n)
      BY <1>2 DEF MayBeAt
    <3> QED BY <2>1, <2>2, <3>1, NodesArePaths, PrecedesTransitive DEF AtOrAfter
  <2>5. ASSUME NEW s \in stops \cap Reached, AtOrAfter(s, n)
        PROVE  y # NoNode /\ AtOrAfter(s, y)
    <3>1. AtOrAfter(s, x) /\ s # x
      BY <1>2, <2>1, <2>5 DEF MayBeAt
    <3>2. y # NoNode /\ ~Precedes(s, y) /\ s \in Nodes
      BY <2>2, <3>1 DEF AtOrAfter, Reached
    <3> QED BY <2>2, <3>2, NodesArePaths, PrecedesTotal DEF AtOrAfter
  <2>6. y # NoNode => Cardinality(Before(y)) >= i + 1
    <3>1. Cardinality(Before(x)) >= i
      BY <1>2 DEF MayBeAt
    <3>2. ASSUME y # NoNode
          PROVE  /\ Cardinality(Before(x)) < Cardinality(Before(y))
                 /\ Cardinality(Before(x)) \in Nat /\ Cardinality(Before(y)) \in Nat
      <4>1. y \in Nodes /\ Precedes(x, y)
        BY <2>2, <3>2
      <4> QED BY <2>1, <4>1, FewBefore
    <3> QED BY <3>1, <3>2
  <2> QED BY <2>0, <2>1, <2>3, <2>4, <2>5, <2>6 DEF MayBeAt
<1> QED BY <1>1, <1>2

\* A walk from a node ends at the first stop there or after it, or at the end of
\* the list if there is none.
LEMMA WalkFinds ==
    ASSUME IsFiniteSet(Keys), LinksOK(CurrentLinks), NEW stops, NEW n \in Reached \cup {NoNode}
    PROVE  /\ WalkTo(stops, n) \in (stops \cap Reached) \cup {NoNode}
           /\ WalkTo(stops, n) # NoNode => n # NoNode /\ AtOrAfter(WalkTo(stops, n), n)
           /\ n # NoNode => \A s \in stops \cap Reached : AtOrAfter(s, n) =>
                 WalkTo(stops, n) # NoNode /\ AtOrAfter(s, WalkTo(stops, n))
<1> DEFINE N == Cardinality(Nodes)
           X == Reached \cup {NoNode}
           T == [i \in 0..N |-> {x \in X : MayBeAt(stops, n, x, i)}]
           G == [i \in 1..N |-> {d \in X \X X : d[2] = Move(stops, d[1])}]
           IsWalk(f) == f = [i \in 0..N |-> IF i = 0 THEN n ELSE Move(stops, f[i - 1])]
           at == Walks(stops, n)
           S == {i \in 0..N : MayBeAt(stops, n, at[i], i)}
<1>1. N \in Nat /\ 0 \in 0..N /\ N \in 0..N
  BY NodesFinite
<1>2. MayBeAt(stops, n, n, 0)
  <2>1. n # NoNode => n \in Nodes /\ Cardinality(Before(n)) \in Nat
    BY FewBefore DEF Reached
  <2> QED BY <2>1 DEF MayBeAt, AtOrAfter
<1>3. \A i \in 1..N : \A x : MayBeAt(stops, n, x, i - 1) => MayBeAt(stops, n, Move(stops, x), i)
  <2> SUFFICES ASSUME NEW i \in 1..N, NEW x, MayBeAt(stops, n, x, i - 1)
               PROVE  MayBeAt(stops, n, Move(stops, x), i)
    OBVIOUS
  <2>1. i - 1 \in Nat /\ (i - 1) + 1 = i
    BY <1>1
  <2> QED BY <2>1, MoveKeepsWay
<1>4. \E f \in [0..N -> X] : IsWalk(f)
  <2>1. T \in [0..N -> SUBSET X]
    OBVIOUS
  <2>2. n \in T[0]
    BY <1>1, <1>2
  <2>3. Continues(N, T, G)
    <3> SUFFICES ASSUME NEW i \in 1..N, NEW x \in T[i - 1]
                 PROVE  \E y \in T[i] : <<x, y>> \in G[i]
      BY DEF Continues
    <3>1. i - 1 \in 0..N /\ i \in 0..N
      BY <1>1
    <3>2. x \in X /\ MayBeAt(stops, n, x, i - 1)
      BY <3>1
    <3> DEFINE y == Move(stops, x)
    <3>3. MayBeAt(stops, n, y, i)
      BY <1>3, <3>2
    <3> HIDE DEF y
    <3>4. y \in X /\ y \in T[i]
      BY <3>1, <3>3 DEF MayBeAt
    <3>5. <<x, y>> \in G[i]
      BY <3>2, <3>4 DEF y
    <3> HIDE DEF T, G
    <3> QED BY <3>4, <3>5
  <2>4. PICK f \in [0..N -> X] : Runs(f, N, n, T, G)
    <3> HIDE DEF T, G, X
    <3> QED BY <1>1, <2>1, <2>2, <2>3, Recursion
  <2>5. f[0] = n /\ \A i \in 1..N : f[i] = Move(stops, f[i - 1])
    BY <2>4 DEF Runs
  <2>6. IsWalk(f)
    <3>1. \A i \in 0..N : i # 0 => i \in 1..N
      BY <1>1
    <3> QED BY <2>5, <3>1
  <2> HIDE DEF IsWalk
  <2> QED BY <2>6, Zenon
<1>5. IsWalk(at)
  <2>1. at = CHOOSE f : IsWalk(f)
    BY Zenon DEF Walks
  <2> HIDE DEF IsWalk, at
  <2> QED BY <1>4, <2>1, Zenon
<1> HIDE DEF at
<1>6. at[0] = n /\ \A i \in 1..N : at[i] = Move(stops, at[i - 1])
  <2>1. at = [i \in 0..N |-> IF i = 0 THEN n ELSE Move(stops, at[i - 1])]
    BY <1>5, Zenon
  <2>2. \A i \in 1..N : i \in 0..N /\ i # 0
    BY <1>1
  <2> QED BY <1>1, <2>1, <2>2
<1>7. \A i \in 0..N : i \in S
  <2>1. 0 \in S
    BY <1>1, <1>2, <1>6
  <2>2. ASSUME NEW i \in 1..N, i - 1 \in S PROVE i \in S
    <3>1. MayBeAt(stops, n, Move(stops, at[i - 1]), i)
      BY <1>3, <2>2
    <3>2. i \in 0..N
      BY <1>1
    <3> QED BY <1>6, <3>1, <3>2
  <2> HIDE DEF S
  <2> QED BY <1>1, <2>1, <2>2, UpTo
<1> DEFINE w == at[N]
<1>8. WalkTo(stops, n) = w
  BY Zenon DEF WalkTo, Walks, Move, at
<1>9. MayBeAt(stops, n, w, N)
  BY <1>1, <1>7
<1> HIDE DEF w
<1>10. w \in stops \cup {NoNode}
  <2> SUFFICES ASSUME w \notin stops \cup {NoNode} PROVE FALSE
    OBVIOUS
  <2>1. w \in Nodes /\ Cardinality(Before(w)) >= N
    BY <1>9 DEF MayBeAt, Reached
  <2> HIDE DEF N
  <2>2. Cardinality(Before(w)) \in Nat /\ Cardinality(Before(w)) < N
    BY <2>1, FewBefore DEF N
  <2> QED BY <1>1, <2>1, <2>2
<1> QED BY <1>8, <1>9, <1>10 DEF MayBeAt

-----------------------------------------------------------------------------
(* The way to a key *)

\* The deepest node on the way to k is reached, and unless it is the node of k
\* has no edge further on that way.
LEMMA DeepestIsLast ==
    ASSUME NEW k \in Keys, children \in Edges
    PROVE  /\ Deepest(k) \in Reached /\ IsPrefixOf(Deepest(k), k)
           /\ Reaches(children, k) => Deepest(k) = k
           /\ Deepest(k) # k => /\ Len(Deepest(k)) < Len(k)
                                /\ k[Len(Deepest(k)) + 1] \notin children[Deepest(k)]
                                /\ k[Len(Deepest(k)) + 1] \in Chars
<1> DEFINE IsDeepest(p) ==
              /\ Reaches(children, p)
              /\ \A q \in PathsTo(k) : Reaches(children, q) => Len(q) <= Len(p)
           left == {Len(k) - Len(q) : q \in {r \in PathsTo(k) : Reaches(children, r)}}
           p == Deepest(k)
<1>0. k \in Seq(Chars) /\ k \in Nodes /\ k \in Paths /\ Len(k) \in Nat
  BY NodesArePaths
<1>1. \A q \in PathsTo(k) : /\ q \in Nodes /\ q \in Paths /\ IsPrefixOf(q, k)
                            /\ Len(q) \in Nat /\ Len(q) <= Len(k)
  <2> SUFFICES ASSUME NEW q \in PathsTo(k)
               PROVE  /\ q \in Nodes /\ q \in Paths /\ IsPrefixOf(q, k)
                      /\ Len(q) \in Nat /\ Len(q) <= Len(k)
    OBVIOUS
  <2>1. PICK i \in 0..Len(k) : q = SubSeq(k, 1, i)
    BY DEF PathsTo
  <2>2. q \in Nodes /\ Len(q) = i /\ IsPrefixOf(q, k)
    BY <1>0, <2>1, AncestorsAreNodes
  <2> QED BY <1>0, <2>2, NodesArePaths
<1>2. Root \in PathsTo(k) /\ Reaches(children, Root)
  <2>1. 0 \in 0..Len(k) /\ SubSeq(k, 1, 0) = Root
    BY <1>0 DEF Root
  <2> QED BY <2>1, ReachesChild DEF PathsTo
<1>3. \E q \in PathsTo(k) : IsDeepest(q)
  <2>1. left \in SUBSET Nat /\ left # {}
    BY <1>0, <1>1, <1>2
  <2>2. PICK x \in left : \A y \in left : x <= y
    <3> HIDE DEF left
    <3> QED BY <2>1, LeastNatural
  <2>3. PICK q \in PathsTo(k) : Reaches(children, q) /\ x = Len(k) - Len(q)
    BY <2>2
  <2>4. ASSUME NEW r \in PathsTo(k), Reaches(children, r) PROVE Len(r) <= Len(q)
    <3>1. x <= Len(k) - Len(r)
      BY <2>2, <2>4
    <3> QED BY <1>0, <1>1, <2>3, <3>1
  <2> QED BY <2>3, <2>4
<1>4. p \in PathsTo(k) /\ IsDeepest(p)
  <2>1. p = CHOOSE q \in PathsTo(k) : IsDeepest(q)
    BY Zenon DEF Deepest
  <2> HIDE DEF IsDeepest, p
  <2> QED BY <1>3, <2>1, Zenon
<1> HIDE DEF p
<1>5. ASSUME Reaches(children, k) PROVE p = k
  <2>1. k \in PathsTo(k)
    <3>1. Len(k) \in 0..Len(k) /\ SubSeq(k, 1, Len(k)) = k
      BY <1>0
    <3> QED BY <3>1 DEF PathsTo
  <2>2. Len(p) >= Len(k)
    BY <1>4, <1>5, <2>1
  <2> QED BY <1>0, <1>1, <1>4, <2>2, PrefixSameLength
<1>6. ASSUME p # k
      PROVE  /\ Len(p) < Len(k) /\ k[Len(p) + 1] \notin children[p]
             /\ k[Len(p) + 1] \in Chars
  <2>1. Len(p) < Len(k)
    BY <1>0, <1>1, <1>4, <1>6, PrefixSameLength
  <2> DEFINE q == SubSeq(k, 1, Len(p) + 1)
  <2>2. Len(p) + 1 \in 1..Len(k) /\ Len(p) + 1 \in 0..Len(k)
    BY <1>0, <1>1, <1>4, <2>1
  <2>3. q \in PathsTo(k) /\ Len(q) = Len(p) + 1 /\ k[Len(p) + 1] \in Chars
    BY <1>0, <2>2, AncestorsAreNodes DEF PathsTo
  <2>4. q = Child(p, k[Len(p) + 1])
    <3>1. p = SubSeq(k, 1, Len(p))
      BY <1>0, <1>1, <1>4, PrefixIsAncestor
    <3>2. q = Append(SubSeq(k, 1, Len(p)), k[Len(p) + 1])
      BY <1>0, <1>1, <1>4, <2>2
    <3> QED BY <3>1, <3>2 DEF Child
  <2> HIDE DEF q
  <2>5. ~Reaches(children, q)
    BY <1>1, <1>4, <2>3
  <2>6. k[Len(p) + 1] \notin children[p]
    BY <1>1, <1>4, <2>4, <2>5, ReachesChild
  <2> QED BY <2>1, <2>3, <2>6
<1> QED BY <1>1, <1>4, <1>5, <1>6 DEF p, Reached

-----------------------------------------------------------------------------
(* The inductive invariant *)

\* The list is the tree in key order, only nodes of keys have a value and they
\* are reached, the count is right, and the iterator is at a node of the tree.
TrieInv ==
    /\ LinksOK(CurrentLinks)
    /\ value \in [Nodes -> Values \cup {NoValue}]
    /\ WithValue \subseteq Keys \cap Reached
    /\ size = Cardinality(Present)
    /\ alive \subseteq Nodes
    /\ it \in Reached \cup {NoNode}
    /\ ret = NoCall \/ (ret.call \in Ops /\ ret.key \in Keys \cup {NoNode})

\* Present is the set of nodes with a value; erasing a value takes one out of it
\* and storing a value adds one unless it is there.
LEMMA PresentFinite ==
    ASSUME IsFiniteSet(Keys)
    PROVE  /\ IsFiniteSet(Present)
           /\ Cardinality(Present) \in 0..Cardinality(Keys)
<1>1. Present \in SUBSET Keys
  BY DEF Present
<1>2. IsFiniteSet(Present) /\ Cardinality(Present) <= Cardinality(Keys)
  BY <1>1, FS_Subset
<1> QED BY <1>2, FS_CardinalityType

\* The iterators that the walks return are at nodes with a value, or at the end.
LEMMA WalksReturnNodes ==
    ASSUME IsFiniteSet(Keys), TrieInv
    PROVE  /\ \A n \in Reached \cup {NoNode} : NextValueNode(n) \in Reached \cup {NoNode}
           /\ \A n \in Reached : next[n] \in Reached \cup {NoNode}
           /\ \A k \in Keys : LowerBoundNode(k) \in Reached \cup {NoNode}
           /\ Root \in Reached
<1>0. children \in Edges /\ EdgesOK(children)
  BY DEF TrieInv, LinksOK, Links, CurrentLinks
<1>1. \A stops : \A n \in Reached \cup {NoNode} : WalkTo(stops, n) \in Reached \cup {NoNode}
  BY WalkFinds DEF TrieInv
<1>2. ASSUME NEW n \in Reached PROVE next[n] \in Reached \cup {NoNode}
  BY DEF TrieInv, LinksOK, ListOK, CurrentLinks, Links, Lists, Reached
<1>3. ASSUME NEW k \in Keys PROVE LowerBoundNode(k) \in Reached \cup {NoNode}
  <2> DEFINE p == Deepest(k)
             above == {u \in children[p] : u > k[Len(p) + 1]}
             u == CHOOSE u \in above : \A d \in above : u <= d
  <2>1. p \in Reached
    BY <1>0, DeepestIsLast
  <2>2. ASSUME above # {} PROVE Child(p, u) \in Reached
    <3> HIDE DEF p
    <3>1. above \in SUBSET Chars
      BY <1>0, <2>1 DEF Edges, Reached
    <3>2. \E e \in above : \A d \in above : e <= d
      BY <2>2, <3>1, ExtremeEdges
    <3>3. u \in above
      BY <3>2
    <3> HIDE DEF u
    <3>4. u \in children[p]
      BY <3>3
    <3> QED BY <1>0, <2>1, <3>4, ReachesChild DEF EdgesOK, Reached
  <2>3. CASE p # k /\ above # {}
    <3>1. LowerBoundNode(k) = NextValueNode(Child(p, u))
      BY <2>3, Zenon DEF LowerBoundNode
    <3> QED BY <1>1, <2>2, <2>3, <3>1 DEF NextValueNode
  <2>4. CASE ~(p # k /\ above # {})
    <3>1. LowerBoundNode(k) = NextGeqValueNode(p, k)
      BY <2>4, Zenon DEF LowerBoundNode
    <3> QED BY <1>1, <2>1, <3>1 DEF NextGeqValueNode
  <2> QED BY <2>3, <2>4
<1> QED BY <1>0, <1>1, <1>2, <1>3, NodesArePaths, ReachesChild DEF NextValueNode, Reached

LEMMA TrieInit == ASSUME IsFiniteSet(Keys), Init PROVE TrieInv
<1>1. /\ children \in Edges /\ next \in Lists /\ \A n \in Nodes : children[n] = {} /\ next[n] = NoNode
      /\ Root \in Nodes
  BY NodesArePaths DEF Init, Edges, Lists
<1>2. ASSUME NEW n \in Nodes, Reaches(children, n) PROVE n = Root
  <2>1. ASSUME n # Root PROVE FALSE
    <3>1. Len(n) \in Nat /\ Len(n) > 0 /\ 1 \in 1..Len(n) /\ SubSeq(n, 1, 0) = Root
      BY <2>1, ChildOfParent, NodesArePaths DEF Root
    <3>2. \A i \in 1..Len(n) : n[i] \in children[SubSeq(n, 1, i - 1)]
      BY <1>2 DEF Reaches
    <3>3. n[1] \in children[Root]
      <4>1. SubSeq(n, 1, 1 - 1) = Root
        BY <3>1
      <4> QED BY <3>1, <3>2, <4>1, Zenon
    <3> QED BY <1>1, <3>3
  <2> QED BY <2>1
<1>3. EdgesOK(children) /\ ListOK(children, next)
  <2>1. \A m \in Nodes : Reaches(children, m) => ~Precedes(Root, m)
    BY <1>1, <1>2, NodesArePaths, PrecedesIrreflexive
  <2> QED BY <1>1, <1>2, <2>1 DEF EdgesOK, ListOK
<1>4. LinksOK(CurrentLinks)
  BY <1>1, <1>3 DEF LinksOK, Links, CurrentLinks
<1>5. Present = {} /\ WithValue = {}
  BY NodesArePaths DEF Present, WithValue, HasValue, Init
<1>6. size = Cardinality(Present)
  BY <1>5, FS_EmptySet DEF Init
<1>7. alive \subseteq Nodes
  BY <1>1 DEF Init
<1> QED BY <1>4, <1>5, <1>6, <1>7 DEF TrieInv, Init

\* Insertion keeps the list in order, loses no node and reaches that of its key.
LEMMA TraverseKeeps ==
    ASSUME IsFiniteSet(Keys), LinksOK(CurrentLinks), NEW k \in Keys, TraverseCreating(k)
    PROVE  LinksOK(CurrentLinks)' /\ Reached \subseteq Reached' /\ k \in Reached'
<1>1. Leads(Created(k), k)
  BY CreatedLeads
<1>2. Created(k) \in Links
  BY <1>1 DEF Leads, LinksOK
<1>3. CurrentLinks' = Created(k)
  <2>1. [children |-> Created(k).children, next |-> Created(k).next] = Created(k)
    BY <1>2 DEF Links
  <2> QED BY <2>1, Zenon DEF CurrentLinks, TraverseCreating
<1>4. children' = Created(k).children
  BY DEF TraverseCreating
<1>5. LinksOK(CurrentLinks)'
  <2>1. LinksOK(CurrentLinks)' <=> LinksOK(CurrentLinks')
    BY DEF LinksOK
  <2> QED BY <1>1, <1>3, <2>1 DEF Leads
<1>6. \A m : Reaches(children, m)' <=> Reaches(Created(k).children, m)
  BY <1>4, Zenon DEF Reaches
<1> QED BY <1>1, <1>5, <1>6, NodesArePaths DEF Leads, Reached

\* Storing a value of a key.
LEMMA StoreStep ==
    ASSUME IsFiniteSet(Keys), TrieInv, NEW k \in Keys, NEW v \in Values, NEW name,
           Store(name, k, v)
    PROVE  TrieInv'
<1>1. LinksOK(CurrentLinks)' /\ Reached \subseteq Reached' /\ k \in Reached'
  BY TraverseKeeps DEF TrieInv, Store
<1>2. v # NoValue /\ k \in Nodes
  BY TrieAssumption, NodesArePaths
<1>3. /\ value' = [value EXCEPT ![k] = v] /\ value' \in [Nodes -> Values \cup {NoValue}]
  BY <1>2 DEF TrieInv, Store
<1>4. WithValue' \subseteq Keys \cap Reached'
  BY <1>1, <1>2, <1>3 DEF TrieInv, WithValue, HasValue
<1>5. Present' = Present \cup {k}
  BY <1>2, <1>3, NodesArePaths DEF TrieInv, Present, HasValue
<1>6. size' = Cardinality(Present')
  <2>1. Cardinality(Present \cup {k}) = IF k \in Present THEN Cardinality(Present)
                                          ELSE Cardinality(Present) + 1
    BY PresentFinite, FS_AddElement
  <2>2. k \in Present <=> HasValue(k)
    BY DEF Present
  <2> HIDE DEF HasValue
  <2> QED BY <1>5, <2>1, <2>2 DEF TrieInv, Store, SizeWith
<1>7. alive' \subseteq Nodes
  BY NodesArePaths DEF TrieInv, Store, TraverseCreating
<1>8. it' \in (Reached \cup {NoNode})'
  BY <1>1 DEF TrieInv, Store, TakesOrKeeps
<1>9. (ret = NoCall \/ (ret.call \in Ops /\ ret.key \in Keys \cup {NoNode}))'
  BY DEF Store, Answer
<1> QED BY <1>1, <1>3, <1>4, <1>6, <1>7, <1>8, <1>9 DEF TrieInv

\* Taking the value of a key away.
LEMMA RemoveKeeps ==
    ASSUME IsFiniteSet(Keys), TrieInv, NEW k \in Keys, HasValue(k), Remove(k)
    PROVE  /\ LinksOK(CurrentLinks)' /\ Reached' = Reached
           /\ value' \in [Nodes -> Values \cup {NoValue}]
           /\ WithValue' \subseteq Keys \cap Reached'
           /\ size' = Cardinality(Present')
           /\ alive' \subseteq Nodes
<1>1. k \in Nodes /\ children' = children /\ next' = next /\ alive' = alive
  BY NodesArePaths DEF Remove
<1>2. LinksOK(CurrentLinks)' /\ Reached' = Reached
  <2>1. CurrentLinks' = CurrentLinks
    BY <1>1 DEF CurrentLinks
  <2>2. LinksOK(CurrentLinks)' <=> LinksOK(CurrentLinks')
    BY DEF LinksOK
  <2>3. \A m : Reaches(children, m)' <=> Reaches(children, m)
    BY <1>1, Zenon DEF Reaches
  <2> QED BY <2>1, <2>2, <2>3 DEF TrieInv, Reached
<1>3. value' = [value EXCEPT ![k] = NoValue] /\ value' \in [Nodes -> Values \cup {NoValue}]
  BY DEF TrieInv, Remove
<1>4. WithValue' \subseteq WithValue
  BY <1>1, <1>3 DEF TrieInv, WithValue, HasValue
<1>5. Present' = Present \ {k} /\ k \in Present
  BY <1>1, <1>3, NodesArePaths DEF TrieInv, Present, HasValue
<1>6. size' = Cardinality(Present')
  <2>1. Cardinality(Present \ {k}) = Cardinality(Present) - 1
    BY <1>5, PresentFinite, FS_RemoveElement
  <2> QED BY <1>5, <2>1 DEF TrieInv, Remove
<1> QED BY <1>1, <1>2, <1>3, <1>4, <1>6 DEF TrieInv

\* Calls that change no more than the iterator and the answer.
LEMMA TrieUnchanged ==
    ASSUME TrieInv, UNCHANGED trie, it' \in Reached \cup {NoNode},
           (ret = NoCall \/ (ret.call \in Ops /\ ret.key \in Keys \cup {NoNode}))'
    PROVE  TrieInv'
<1>1. CurrentLinks' = CurrentLinks
  BY DEF CurrentLinks, trie
<1>2. LinksOK(CurrentLinks)' <=> LinksOK(CurrentLinks')
  BY DEF LinksOK
<1>3. \A m : Reaches(children, m)' <=> Reaches(children, m)
  BY Zenon DEF Reaches, trie
<1>4. Reached' = Reached
  BY <1>3 DEF Reached
<1>5. WithValue' = WithValue /\ Present' = Present
  BY DEF WithValue, Present, HasValue, trie
<1> QED BY <1>1, <1>2, <1>4, <1>5 DEF TrieInv, trie

\* An answer to a call of a method.
LEMMA AnswersAreRecords ==
    ASSUME NEW name, NEW k \in Keys \cup {NoNode}, NEW r, Answer(name, k, r)
    PROVE  /\ (ret.call \in Ops /\ ret.key \in Keys \cup {NoNode})'
           /\ ret'.call = name /\ ret'.key = k /\ ret'.result = r
BY DEF Answer

\* clear() of a trie without nodes finds no value in it.
LEMMA ClearFindsNothing ==
    ASSUME ~ClearAnyTrie, TrieInv, Clear
    PROVE  WithValue = {} /\ Present = {}
<1>1. children[Root] = {} /\ ~HasValue(Root)
  BY DEF Clear
<1>2. ASSUME NEW n \in Reached PROVE n = Root
  <2> SUFFICES ASSUME n # Root PROVE FALSE
    OBVIOUS
  <2>1. Len(n) \in Nat /\ Len(n) > 0 /\ 1 \in 1..Len(n) /\ SubSeq(n, 1, 1 - 1) = Root
    BY ChildOfParent, NodesArePaths DEF Root, Reached
  <2>2. \A i \in 1..Len(n) : n[i] \in children[SubSeq(n, 1, i - 1)]
    BY DEF Reached, Reaches
  <2>3. n[1] \in children[Root]
    BY <2>1, <2>2, Zenon
  <2> QED BY <1>1, <2>3
<1>3. WithValue = {}
  BY <1>1, <1>2 DEF TrieInv, WithValue
<1> QED BY <1>3, NodesArePaths DEF WithValue, Present

\* Every call preserves the invariant.
LEMMA TrieStep ==
    ASSUME IsFiniteSet(Keys), ~ClearAnyTrie, TrieInv, [Next]_vars
    PROVE  TrieInv'
<1>0. /\ it \in Reached \cup {NoNode} /\ Keys \subseteq Nodes
      /\ \A k \in Keys : HasValue(k) => k \in Reached /\ value[k] \in Values
      /\ \A k \in Keys : Found(k) => k \in Reached
      /\ ret = NoCall \/ (ret.call \in Ops /\ ret.key \in Keys \cup {NoNode})
  BY NodesArePaths DEF TrieInv, WithValue, HasValue, Reached, Found
<1>1. ASSUME NEW k \in Keys, NEW v \in Values, Insert(k, v) PROVE TrieInv'
  <2>1. (IF HasValue(k) THEN value[k] ELSE v) \in Values
    BY <1>0
  <2> QED BY <1>1, <2>1, StoreStep DEF Insert
<1>2. ASSUME NEW k \in Keys, NEW v \in Values, InsertOrAssign(k, v) PROVE TrieInv'
  BY <1>2, StoreStep DEF InsertOrAssign
<1>3. ASSUME NEW k \in Keys, Erase(k) PROVE TrieInv'
  <2>1. /\ (ret.call \in Ops /\ ret.key \in Keys \cup {NoNode})'
        /\ it' = it
    BY <1>3, AnswersAreRecords DEF Erase
  <2>2. CASE Found(k)
    <3>1. HasValue(k) /\ Remove(k)
      BY <1>3, <2>2 DEF Erase, Found
    <3> QED BY <1>0, <2>1, <3>1, RemoveKeeps DEF TrieInv
  <2>3. CASE ~Found(k)
    BY <1>0, <1>3, <2>1, <2>3, TrieUnchanged DEF Erase
  <2> QED BY <2>2, <2>3
<1>4. ASSUME EraseIterator PROVE TrieInv'
  <2>1. (ret.call \in Ops /\ ret.key \in Keys \cup {NoNode})'
    BY <1>4, AnswersAreRecords DEF EraseIterator
  <2>2. CASE it # NoNode /\ HasValue(it)
    <3>1. /\ it \in Reached /\ it \in Keys /\ Remove(it)
          /\ it' = NextValueNode(next[it])
      BY <1>0, <1>4, <2>2 DEF TrieInv, EraseIterator, WithValue, Reached
    <3>2. it' \in Reached \cup {NoNode}
      BY <3>1, WalksReturnNodes
    <3> QED BY <2>1, <2>2, <3>1, <3>2, RemoveKeeps DEF TrieInv
  <2>3. CASE ~(it # NoNode /\ HasValue(it))
    BY <1>4, <2>1, <2>3, TrieUnchanged DEF EraseIterator
  <2> QED BY <2>2, <2>3
<1>5. ASSUME NEW k \in Keys, Find(k) PROVE TrieInv'
  BY <1>0, <1>5, AnswersAreRecords, TrieUnchanged DEF Find
<1>6. ASSUME NEW k \in Keys, Count(k) \/ At(k) PROVE TrieInv'
  BY <1>0, <1>6, AnswersAreRecords, TrieUnchanged DEF Count, At
<1>7. ASSUME NEW k \in Keys, LowerBound(k) PROVE TrieInv'
  BY <1>7, WalksReturnNodes, AnswersAreRecords, TrieUnchanged DEF LowerBound
<1>8. ASSUME NEW k \in Keys, UpperBound(k) PROVE TrieInv'
  BY <1>8, WalksReturnNodes, AnswersAreRecords, TrieUnchanged DEF UpperBound
<1>9. CASE Begin
  BY <1>9, WalksReturnNodes, AnswersAreRecords, TrieUnchanged DEF Begin
<1>10. CASE Increment
  BY <1>0, <1>10, WalksReturnNodes, AnswersAreRecords, TrieUnchanged DEF Increment
<1>11. CASE Clear
  <2>1. CurrentLinks' = CurrentLinks /\ value' = value
    BY <1>11 DEF Clear, CurrentLinks
  <2>2. LinksOK(CurrentLinks)'
    <3>1. LinksOK(CurrentLinks)' <=> LinksOK(CurrentLinks')
      BY DEF LinksOK
    <3> QED BY <2>1, <3>1 DEF TrieInv
  <2>3. WithValue' = {} /\ Present' = {}
    BY <1>11, <2>1, ClearFindsNothing DEF WithValue, Present, HasValue
  <2>4. size' = Cardinality(Present')
    BY <1>11, <2>3, FS_EmptySet DEF Clear
  <2>5. alive' \subseteq Nodes /\ it' = NoNode
    BY <1>11 DEF Clear, TrieInv
  <2>6. (ret.call \in Ops /\ ret.key \in Keys \cup {NoNode})'
    BY <1>11, AnswersAreRecords DEF Clear
  <2> QED BY <2>1, <2>2, <2>3, <2>4, <2>5, <2>6 DEF TrieInv
<1>12. CASE UNCHANGED vars
  BY <1>0, <1>12, TrieUnchanged DEF vars, trie
<1> QED BY <1>1, <1>2, <1>3, <1>4, <1>5, <1>6, <1>7, <1>8, <1>9, <1>10, <1>11, <1>12 DEF Next

-----------------------------------------------------------------------------
(* Safety *)

\* The invariant holds of every sequence of calls in which clear() is not called
\* on a trie with nodes.
LEMMA TrieAlways ==
    ASSUME IsFiniteSet(Keys), ~ClearAnyTrie
    PROVE  Spec => []TrieInv
BY TrieInit, TrieStep, PTL DEF Spec

\* What TrieInv says in the terms of the properties.
LEMMA InvariantMeans ==
    ASSUME IsFiniteSet(Keys), TrieInv
    PROVE  TypeOK /\ ListIsTreeOrder /\ SizeCounts
<1>1. TypeOK
  <2>1. children \in Edges /\ next \in Lists
    BY DEF TrieInv, LinksOK, Links, CurrentLinks
  <2>2. size \in 0..Cardinality(Keys)
    BY PresentFinite DEF TrieInv
  <2> QED BY <2>1, <2>2 DEF TrieInv, TypeOK, Edges, Lists, Reached
<1>2. ListIsTreeOrder
  BY Zenon DEF TrieInv, LinksOK, ListOK, CurrentLinks, ListIsTreeOrder
<1> QED BY <1>1, <1>2 DEF SizeCounts, TrieInv

\* Every variable has its type, for every finite set of keys.
THEOREM TrieTypeCorrect ==
    ASSUME IsFiniteSet(Keys), ~ClearAnyTrie
    PROVE  Spec => []TypeOK
<1>1. TrieInv => TypeOK
  BY InvariantMeans
<1> QED BY <1>1, TrieAlways, PTL

\* The list that traverse_creating keeps is the tree in key order, in whatever
\* order keys are inserted.
THEOREM TrieListInOrder ==
    ASSUME IsFiniteSet(Keys), ~ClearAnyTrie
    PROVE  Spec => []ListIsTreeOrder
<1>1. TrieInv => ListIsTreeOrder
  BY InvariantMeans
<1> QED BY <1>1, TrieAlways, PTL

\* size() is the number of keys stored, after every sequence of calls.
THEOREM TrieSizeIsCount ==
    ASSUME IsFiniteSet(Keys), ~ClearAnyTrie
    PROVE  Spec => []SizeCounts
<1>1. TrieInv => SizeCounts
  BY InvariantMeans
<1> QED BY <1>1, TrieAlways, PTL

-----------------------------------------------------------------------------
(* The contract *)

\* Characters compare like their bytes, ASCII characters for example.  The list
\* follows the edges, which compare characters as they are; the contract is in
\* the order of std::string.
OneOrder == \A c, d \in Chars : c < d => c % 256 < d % 256

\* The contract's definitions, in the terms of the trie.
LEMMA ContractMeans ==
    /\ \A p, q : Contract!KeyLess(p, q) <=> KeyLess(p, q)
    /\ \A k \in Keys : Contract!Has(k) <=> HasValue(k)
    /\ \A P : Contract!Keyed(P) = Present \cap P
    /\ \A k : Contract!After(k) = {j \in Keys : KeyLess(k, j)}
    /\ \A k : Contract!From(k) = {j \in Keys : ~KeyLess(j, k)}
<1>1. \A p, q : Contract!KeyLess(p, q) <=> KeyLess(p, q)
  <2>1. \A p, q : Contract!Precedes(p, q) <=> Precedes(p, q)
    BY Zenon DEF Contract!Precedes, Precedes
  <2>2. \A p : Contract!Bytes(p) = Bytes(p)
    BY Zenon DEF Contract!Bytes, Bytes
  <2> QED BY <2>1, <2>2, Zenon DEF Contract!KeyLess, KeyLess
<1>2. \A k \in Keys : Contract!Has(k) <=> HasValue(k)
  BY DEF Contract!Has, HasValue
<1>3. \A P : Contract!Keyed(P) = Present \cap P
  BY <1>2 DEF Contract!Keyed, Present
<1>4. \A k : Contract!After(k) = {j \in Keys : KeyLess(k, j)}
  BY <1>1 DEF Contract!After
<1>5. \A k : Contract!From(k) = {j \in Keys : ~KeyLess(j, k)}
  BY <1>1 DEF Contract!From
<1> QED BY <1>1, <1>2, <1>3, <1>4, <1>5

\* On nodes the two orders are one.
LEMMA NodesInOneOrder ==
    ASSUME OneOrder, NEW m \in Nodes, NEW n \in Nodes
    PROVE  KeyLess(m, n) <=> Precedes(m, n)
<1>1. Chars \in SUBSET Int /\ m \in Seq(Chars) /\ n \in Seq(Chars)
  BY NodesArePaths
<1> QED BY <1>1, OrdersCoincide DEF OneOrder

\* The contract's iterator at the first of a set of keys is at the key before
\* all others.
LEMMA FirstIs ==
    ASSUME OneOrder, NEW S \in SUBSET Keys, NEW w \in S \cup {NoNode},
           w = NoNode => S = {},
           \A k \in S : AtOrAfter(k, w)
    PROVE  Contract!First(S) = w
<1>0. S \subseteq Nodes /\ NoNode \notin S
  BY NodesArePaths
<1>1. CASE S = {}
  <2>1. Contract!First(S) = NoNode
    BY <1>1, Zenon DEF Contract!First
  <2> QED BY <1>1, <2>1
<1>2. CASE S # {}
  <2> DEFINE Least(j) == \A k \in S : ~Contract!KeyLess(k, j)
             x == CHOOSE j \in S : Least(j)
  <2>1. Contract!First(S) = x
    BY <1>2, Zenon DEF Contract!First
  <2>2. w \in S
    BY <1>2
  <2>3. \A j, k \in S : Contract!KeyLess(k, j) <=> Precedes(k, j)
    BY <1>0, ContractMeans, NodesInOneOrder
  <2>4. Least(w)
    BY <1>0, <2>2, <2>3, NodesArePaths, PrecedesIrreflexive, PrecedesAsymmetric DEF AtOrAfter
  <2>5. x \in S /\ Least(x)
    <3> HIDE DEF Least
    <3> QED BY <2>2, <2>4, Zenon
  <2> HIDE DEF x
  <2>6. x = w
    BY <2>2, <2>3, <2>5 DEF AtOrAfter
  <2> QED BY <2>1, <2>6
<1> QED BY <1>1, <1>2

\* The values of the trie are those of the keys that are present.
LEMMA ValuesArePresent ==
    ASSUME TrieInv
    PROVE  /\ WithValue = Present /\ Present \subseteq Reached /\ Present \subseteq Keys
           /\ Reached \subseteq Nodes /\ NoNode \notin Nodes
           /\ \A k \in Keys : Found(k) <=> HasValue(k)
BY NodesArePaths DEF TrieInv, WithValue, Present, Found, Reached

\* next_value_node(n) is at the first key at n or after it.
LEMMA NextValueIsFirst ==
    ASSUME IsFiniteSet(Keys), OneOrder, TrieInv, NEW n \in Reached
    PROVE  /\ Contract!First({k \in Present : AtOrAfter(k, n)}) = NextValueNode(n)
           /\ Contract!First({k \in Present : KeyLess(n, k)}) = NextValueNode(next[n])
<1>0. /\ WithValue \cap Reached = Present /\ Present \subseteq Keys
      /\ n \in Nodes /\ n # NoNode /\ LinksOK(CurrentLinks)
      /\ Present \subseteq Nodes /\ Present \subseteq Reached
      /\ NoNode \notin Nodes
  BY ValuesArePresent DEF TrieInv
<1>1. ASSUME NEW m \in Reached PROVE
        Contract!First({k \in Present : AtOrAfter(k, m)}) = NextValueNode(m)
  <2> DEFINE S == {k \in Present : AtOrAfter(k, m)}
             w == NextValueNode(m)
  <2>0. m # NoNode
    BY <1>0 DEF Reached
  <2>1. /\ w \in Present \cup {NoNode}
        /\ w # NoNode => AtOrAfter(w, m)
        /\ \A k \in Present : AtOrAfter(k, m) => w # NoNode /\ AtOrAfter(k, w)
    BY <1>0, <2>0, WalkFinds DEF NextValueNode
  <2> HIDE DEF w
  <2>2. /\ S \in SUBSET Keys /\ w \in S \cup {NoNode} /\ (w = NoNode => S = {})
        /\ \A k \in S : AtOrAfter(k, w)
    BY <1>0, <2>1
  <2> HIDE DEF S
  <2>3. Contract!First(S) = w
    BY <2>2, FirstIs
  <2> QED BY <2>3 DEF S, w
<1>2. Contract!First({k \in Present : KeyLess(n, k)}) = NextValueNode(next[n])
  <2> DEFINE y == next[n]
             S == {k \in Present : KeyLess(n, k)}
  <2>1. /\ y \in Reached \cup {NoNode}
        /\ y # NoNode => y \in Nodes /\ Precedes(n, y)
        /\ \A m \in Reached : Precedes(n, m) => y # NoNode /\ ~Precedes(m, y)
    BY <1>0 DEF LinksOK, ListOK, CurrentLinks, Links, Lists, Reached
  <2>2. \A k \in Present : KeyLess(n, k) <=> Precedes(n, k)
    BY <1>0, NodesInOneOrder
  <2> HIDE DEF y
  <2>3. CASE y = NoNode
    <3>1. S = {}
      BY <1>0, <2>1, <2>2, <2>3
    <3>2. NextValueNode(y) = NoNode
      BY <1>0, <2>1, <2>3, WalkFinds DEF NextValueNode
    <3>3. Contract!First({}) = NoNode
      BY Zenon DEF Contract!First
    <3> QED BY <3>1, <3>2, <3>3 DEF y
  <2>4. CASE y # NoNode
    <3>1. \A k \in Present : Precedes(n, k) <=> AtOrAfter(k, y)
      <4> SUFFICES ASSUME NEW k \in Present PROVE Precedes(n, k) <=> AtOrAfter(k, y)
        OBVIOUS
      <4>1. /\ k \in Nodes /\ k \in Reached /\ k \in Paths /\ y \in Paths /\ n \in Paths
            /\ Precedes(n, y)
        BY <1>0, <2>1, <2>4, NodesArePaths
      <4>2. Precedes(n, k) => AtOrAfter(k, y)
        BY <2>1, <4>1, PrecedesTotal DEF AtOrAfter
      <4>3. AtOrAfter(k, y) => Precedes(n, k)
        BY <4>1, PrecedesTransitive DEF AtOrAfter
      <4> QED BY <4>2, <4>3
    <3>2. S = {k \in Present : AtOrAfter(k, y)}
      BY <2>2, <3>1
    <3>3. Contract!First({k \in Present : AtOrAfter(k, y)}) = NextValueNode(y)
      BY <1>1, <2>1, <2>4
    <3> QED BY <3>2, <3>3 DEF y
  <2> QED BY <2>3, <2>4
<1> QED BY <1>1, <1>2

\* lower_bound is at the first key that is not less than its argument.
LEMMA LowerBoundIsFirst ==
    ASSUME IsFiniteSet(Keys), OneOrder, TrieInv, NEW k \in Keys
    PROVE  Contract!First({j \in Present : ~KeyLess(j, k)}) = LowerBoundNode(k)
<1> DEFINE S == {j \in Present : ~KeyLess(j, k)}
           p == Deepest(k)
           above == {u \in children[p] : u > k[Len(p) + 1]}
           u == CHOOSE u \in above : \A d \in above : u <= d
           c == k[Len(p) + 1]
<1>0. /\ WithValue = Present /\ Present \subseteq Keys /\ Present \subseteq Nodes
      /\ Present \subseteq Reached /\ k \in Nodes /\ k \in Paths /\ NoNode \notin Nodes
      /\ LinksOK(CurrentLinks) /\ children \in Edges /\ EdgesOK(children)
      /\ Reached \subseteq Nodes /\ Nodes \subseteq Paths
      /\ Len(k) \in Nat
  BY ValuesArePresent, NodesArePaths DEF TrieInv, LinksOK, Links, CurrentLinks
<1>1. /\ p \in Reached /\ p \in Nodes /\ p \in Paths /\ IsPrefixOf(p, k) /\ p # NoNode
      /\ Reaches(children, k) => p = k
      /\ p # k => Len(p) < Len(k) /\ c \notin children[p] /\ c \in Chars
      /\ children[p] \in SUBSET Chars /\ Chars \subseteq Int /\ Len(p) \in Nat
  <2>1. /\ p \in Reached /\ IsPrefixOf(p, k) /\ (Reaches(children, k) => p = k)
        /\ p # k => Len(p) < Len(k) /\ c \notin children[p] /\ c \in Chars
    BY <1>0, DeepestIsLast
  <2> HIDE DEF p
  <2>2. children[p] \in SUBSET Chars /\ Chars \subseteq Int /\ Len(p) \in Nat
    BY <1>0, <2>1, NodesArePaths DEF Edges
  <2> QED BY <1>0, <2>1, <2>2
<1>2. \A j \in Present : ~KeyLess(j, k) <=> AtOrAfter(j, k)
  BY <1>0, NodesInOneOrder, PrecedesTotal, PrecedesIrreflexive, PrecedesAsymmetric DEF AtOrAfter
<1>3. CASE p # k /\ above # {}
  <2> DEFINE s == Child(p, u)
  <2>1. LowerBoundNode(k) = NextValueNode(s)
    BY <1>3, Zenon DEF LowerBoundNode
  <2> HIDE DEF p, c
  <2>2. u \in children[p] /\ u > c /\ \A d \in children[p] : d > c => u <= d
    <3>1. above \in SUBSET Chars
      BY <1>1
    <3>2. \E e \in above : \A d \in above : e <= d
      BY <1>3, <3>1, ExtremeEdges
    <3>3. u \in above /\ \A d \in above : u <= d
      BY <3>2
    <3> HIDE DEF u
    <3> QED BY <3>3 DEF c
  <2> HIDE DEF u
  <2>3. u \in Int /\ c \in Int /\ u \in Chars
    BY <1>1, <1>3, <2>2
  <2>4. s \in Reached /\ s \in Nodes /\ s \in Paths
    BY <1>0, <1>1, <2>2, ReachesChild DEF EdgesOK, Reached
  <2>5. /\ Len(s) = Len(p) + 1 /\ s[Len(p) + 1] = u /\ IsPrefixOf(p, s) /\ s = Append(p, u)
    BY <1>1, <2>3, AppendPath DEF Child
  <2> HIDE DEF s
  <2>6. Precedes(k, s)
    <3>1. k[Len(p) + 1] < s[Len(p) + 1] /\ Len(p) < Len(k) /\ Len(p) < Len(s)
      BY <1>1, <1>3, <2>2, <2>3, <2>5 DEF c
    <3> QED BY <1>0, <1>1, <2>4, <2>5, <3>1, SmallerEdgeFirst
  <2>7. ASSUME NEW j \in Present, AtOrAfter(j, k), ~AtOrAfter(j, s) PROVE FALSE
    <3>1. j \in Nodes /\ j \in Reached /\ Reaches(children, j) /\ j \in Paths
      BY <1>0 DEF Reached
    <3>2. Precedes(j, s) /\ Precedes(k, j)
      BY <1>1, <1>3, <2>4, <2>7, <3>1, PrecedesTotal DEF AtOrAfter
    <3>3. Precedes(p, j)
      BY <1>0, <1>1, <1>3, <3>1, <3>2, PrefixPrecedes, PrecedesTransitive
    <3>4. IsPrefixOf(p, j) /\ Len(p) < Len(j) /\ j[Len(p) + 1] < u
      BY <1>1, <2>3, <2>5, <3>1, <3>2, <3>3, BetweenNodeAndChild
    <3> DEFINE e == j[Len(p) + 1]
    <3>5. e \in children[p]
      BY <1>0, <1>1, <3>1, <3>4, ReachesAncestor
    <3>6. e < u
      BY <3>4
    <3>7. e < c
      <4> HIDE DEF e
      <4>1. e \in Int /\ e # c
        BY <1>1, <1>3, <3>5
      <4>2. ~(u <= e)
        BY <2>3, <3>6, <4>1
      <4> QED BY <2>2, <2>3, <3>5, <4>1, <4>2
    <3>8. Precedes(j, k)
      <4>1. j[Len(p) + 1] < k[Len(p) + 1] /\ Len(p) < Len(k)
        BY <1>1, <1>3, <3>7 DEF c
      <4> QED BY <1>0, <1>1, <3>1, <3>4, <4>1, SmallerEdgeFirst
    <3> QED BY <1>0, <3>1, <3>2, <3>8, PrecedesAsymmetric
  <2>8. \A j \in Present : ~KeyLess(j, k) <=> AtOrAfter(j, s)
    <3>1. \A j \in Present : AtOrAfter(j, s) => AtOrAfter(j, k)
      BY <1>0, <2>4, <2>6, PrecedesTransitive DEF AtOrAfter
    <3> QED BY <1>2, <2>7, <3>1
  <2>9. S = {j \in Present : AtOrAfter(j, s)}
    BY <2>8
  <2> QED BY <2>1, <2>4, <2>9, NextValueIsFirst
<1>4. CASE ~(p # k /\ above # {})
  <2> DEFINE stops == {m \in WithValue : ~KeyLess(m, k)}
             w == WalkTo(stops, p)
  <2>1. LowerBoundNode(k) = w
    BY <1>4, Zenon DEF LowerBoundNode, NextGeqValueNode
  <2> HIDE DEF p
  <2>2. stops = S /\ stops \cap Reached = S /\ S \in SUBSET Keys
    BY <1>0
  <2> HIDE DEF stops, S
  <2>3. /\ w \in S \cup {NoNode}
        /\ \A j \in S : AtOrAfter(j, p) => w # NoNode /\ AtOrAfter(j, w)
    BY <1>0, <1>1, <2>2, WalkFinds
  <2> HIDE DEF w
  <2>4. \A j \in S : AtOrAfter(j, p)
    <3> SUFFICES ASSUME NEW j \in S PROVE AtOrAfter(j, p)
      OBVIOUS
    <3>1. AtOrAfter(j, k) /\ j \in Paths
      BY <1>0, <1>2 DEF S
    <3>2. p = k \/ Precedes(p, k)
      BY <1>0, <1>1, PrefixPrecedes
    <3> QED BY <1>0, <1>1, <3>1, <3>2, PrecedesTransitive DEF AtOrAfter
  <2>5. Contract!First(S) = w
    <3>1. w = NoNode => S = {}
      BY <2>3, <2>4
    <3>2. \A j \in S : AtOrAfter(j, w)
      BY <2>3, <2>4
    <3> QED BY <2>2, <2>3, <3>1, <3>2, FirstIs
  <2> QED BY <2>1, <2>5 DEF S
<1> QED BY <1>3, <1>4

\* The first key after n in the contract is where the iterator after n goes.
LEMMA AfterIsNext ==
    ASSUME IsFiniteSet(Keys), OneOrder, TrieInv, NEW n \in Reached
    PROVE  Contract!First(Contract!Keyed(Contract!After(n))) = NextValueNode(next[n])
<1>1. Contract!Keyed(Contract!After(n)) = {k \in Present : KeyLess(n, k)}
  BY ContractMeans, ValuesArePresent
<1> QED BY <1>1, NextValueIsFirst

\* The value of k in the contract's map, and the map once the value of k is v.
LEMMA MapOfValues ==
    ASSUME TrieInv, NEW k \in Keys, NEW v, value' = [value EXCEPT ![k] = v]
    PROVE  [j \in Keys |-> value'[j]] = [[j \in Keys |-> value[j]] EXCEPT ![k] = v]
BY NodesArePaths DEF TrieInv

\* Insertion does what the contract says.
LEMMA InsertionInContract ==
    ASSUME TrieInv, NEW k \in Keys, NEW v \in Values
    PROVE  /\ Insert(k, v) => Contract!Insert(k, v)
           /\ InsertOrAssign(k, v) => Contract!InsertOrAssign(k, v)
<1>0. Contract!Has(k) <=> HasValue(k)
  BY ContractMeans
<1>1. ASSUME Insert(k, v) PROVE Contract!Insert(k, v)
  <2>1. /\ value' = [value EXCEPT ![k] = IF HasValue(k) THEN value[k] ELSE v]
        /\ it' \in {k, it}
        /\ Answer("insert", k, IF HasValue(k) THEN "no" ELSE "yes")
    BY <1>1 DEF Insert, Store, TakesOrKeeps
  <2>2. Contract!Answer("insert", k, IF Contract!Has(k) THEN "no" ELSE "yes")
    BY <1>0, <2>1, AnswersAreRecords DEF Contract!Answer
  <2>3. [j \in Keys |-> value'[j]] =
           IF Contract!Has(k) THEN [j \in Keys |-> value[j]]
           ELSE [[j \in Keys |-> value[j]] EXCEPT ![k] = v]
    <3>1. CASE HasValue(k)
      <4>1. [value EXCEPT ![k] = value[k]] = value
        BY NodesArePaths DEF TrieInv
      <4>2. value' = value
        BY <2>1, <3>1, <4>1
      <4> QED BY <1>0, <3>1, <4>2
    <3>2. CASE ~HasValue(k)
      BY <1>0, <2>1, <3>2, MapOfValues
    <3> QED BY <3>1, <3>2
  <2> QED BY <2>1, <2>2, <2>3 DEF Contract!Insert, Contract!TakesOrKeeps
<1>2. ASSUME InsertOrAssign(k, v) PROVE Contract!InsertOrAssign(k, v)
  <2>1. /\ value' = [value EXCEPT ![k] = v]
        /\ it' \in {k, it}
        /\ Answer("insert_or_assign", k, IF HasValue(k) THEN "no" ELSE "yes")
    BY <1>2 DEF InsertOrAssign, Store, TakesOrKeeps
  <2>2. Contract!Answer("insert_or_assign", k, IF Contract!Has(k) THEN "no" ELSE "yes")
    BY <1>0, <2>1, AnswersAreRecords DEF Contract!Answer
  <2> QED BY <2>1, <2>2, MapOfValues DEF Contract!InsertOrAssign, Contract!TakesOrKeeps
<1> QED BY <1>1, <1>2

\* So does erasure, by key and at an iterator.
LEMMA ErasureInContract ==
    ASSUME IsFiniteSet(Keys), OneOrder, TrieInv
    PROVE  /\ \A k \in Keys : Erase(k) => Contract!Erase(k)
           /\ EraseIterator => Contract!EraseIterator
<1>0. \A k \in Keys : (Contract!Has(k) <=> HasValue(k)) /\ (Found(k) <=> HasValue(k))
  BY ContractMeans, ValuesArePresent
<1>1. ASSUME NEW k \in Keys, Erase(k) PROVE Contract!Erase(k)
  <2>1. Contract!Answer("erase", k, Contract!YesNo(k))
    BY <1>0, <1>1, AnswersAreRecords DEF Erase, Contract!Answer, Contract!YesNo
  <2>2. value' = [value EXCEPT ![k] = NoValue]
    <3>1. CASE HasValue(k)
      BY <1>0, <1>1, <3>1 DEF Erase, Remove
    <3>2. CASE ~HasValue(k)
      <4>1. value' = value
        BY <1>0, <1>1, <3>2 DEF Erase, trie
      <4>2. value[k] = NoValue
        BY <3>2 DEF HasValue
      <4>3. [value EXCEPT ![k] = value[k]] = value
        BY NodesArePaths DEF TrieInv
      <4> QED BY <4>1, <4>2, <4>3
    <3> QED BY <3>1, <3>2
  <2> QED BY <1>1, <2>1, <2>2, MapOfValues DEF Erase, Contract!Erase
<1>2. ASSUME EraseIterator PROVE Contract!EraseIterator
  <2>1. Contract!AnswerIterator("erase_iterator", NoNode)
    BY <1>2, AnswersAreRecords DEF EraseIterator, Contract!AnswerIterator, Contract!Answer
  <2>2. it # NoNode /\ HasValue(it) <=> it \in Keys /\ Contract!Has(it)
    BY <1>0, NodesArePaths DEF TrieInv, WithValue, Reached
  <2>3. CASE it # NoNode /\ HasValue(it)
    <3>1. it \in Keys /\ it \in Reached /\ Remove(it) /\ it' = NextValueNode(next[it])
      BY <1>2, <2>2, <2>3 DEF EraseIterator, TrieInv
    <3>2. it' = Contract!First(Contract!Keyed(Contract!After(it)))
      BY <3>1, AfterIsNext
    <3>3. [j \in Keys |-> value'[j]] = [[j \in Keys |-> value[j]] EXCEPT ![it] = NoValue]
      BY <3>1, MapOfValues DEF Remove
    <3> QED BY <2>1, <2>2, <2>3, <3>2, <3>3 DEF Contract!EraseIterator
  <2>4. CASE ~(it # NoNode /\ HasValue(it))
    <3>1. value' = value /\ it' = NoNode
      BY <1>2, <2>4 DEF EraseIterator, trie
    <3> QED BY <2>1, <2>2, <2>4, <3>1 DEF Contract!EraseIterator
  <2> QED BY <2>3, <2>4
<1> QED BY <1>1, <1>2

\* So do find, count and at.
LEMMA LookupInContract ==
    ASSUME TrieInv, NEW k \in Keys, Strict => Ops \cap {"at", "upper_bound"} = {}
    PROVE  /\ Find(k) => Contract!Find(k)
           /\ Count(k) => Contract!Count(k)
           /\ At(k) => Contract!At(k)
<1>0. (Contract!Has(k) <=> HasValue(k)) /\ (Found(k) <=> HasValue(k))
  BY ContractMeans, ValuesArePresent
<1>1. ASSUME Find(k) PROVE Contract!Find(k)
  BY <1>0, <1>1, AnswersAreRecords
     DEF Find, trie, Contract!Find, Contract!AnswerIterator, Contract!Answer
<1>2. ASSUME Count(k) PROVE Contract!Count(k)
  BY <1>0, <1>2, AnswersAreRecords DEF Count, trie, Contract!Count, Contract!YesNo, Contract!Answer
<1>3. ASSUME At(k) PROVE Contract!At(k)
  <2>1. /\ Answer("at", k, IF Reaches(children, k) THEN value[k] ELSE "throws")
        /\ value' = value /\ it' = it /\ ~Strict
    BY <1>3 DEF At, Answer, trie
  <2>2. CASE HasValue(k)
    <3>1. Answer("at", k, value[k])
      BY <1>0, <2>1, <2>2 DEF Found
    <3>2. Contract!Answer("at", k, IF Contract!Has(k) THEN [j \in Keys |-> value[j]][k] ELSE "throws")
      BY <1>0, <2>2, <3>1, AnswersAreRecords DEF Contract!Answer
    <3> QED BY <2>1, <3>2 DEF Contract!At
  <2>3. CASE ~HasValue(k)
    <3>1. value[k] = NoValue
      BY <2>3 DEF HasValue
    <3>2. Answer("at", k, NoValue) \/ Answer("at", k, "throws")
      BY <2>1, <3>1
    <3>3. \/ Contract!Answer("at", k, NoValue)
          \/ Contract!Answer("at", k, IF Contract!Has(k) THEN [j \in Keys |-> value[j]][k] ELSE "throws")
      BY <1>0, <2>3, <3>2, AnswersAreRecords DEF Contract!Answer
    <3> QED BY <1>0, <2>1, <2>3, <3>3 DEF Contract!At
  <2> QED BY <2>2, <2>3
<1> QED BY <1>1, <1>2, <1>3

\* So do the bounds.
LEMMA BoundsInContract ==
    ASSUME IsFiniteSet(Keys), OneOrder, TrieInv, NEW k \in Keys,
           Strict => Ops \cap {"at", "upper_bound"} = {}
    PROVE  /\ LowerBound(k) => Contract!LowerBound(k)
           /\ UpperBound(k) => Contract!UpperBound(k)
<1> DEFINE S == {j \in Present : ~KeyLess(j, k)}
           L == LowerBoundNode(k)
<1>0. /\ Contract!Has(k) <=> HasValue(k)
      /\ Contract!Keyed(Contract!From(k)) = S
      /\ Contract!First(S) = L
      /\ L \in Reached \cup {NoNode}
      /\ k \in Nodes /\ Present \subseteq Keys /\ Present \subseteq Nodes
  BY ContractMeans, ValuesArePresent, LowerBoundIsFirst, WalksReturnNodes, NodesArePaths
<1> HIDE DEF S, L
<1>1. ASSUME LowerBound(k) PROVE Contract!LowerBound(k)
  BY <1>0, <1>1, AnswersAreRecords
     DEF L, LowerBound, trie, Contract!LowerBound, Contract!AnswerIterator, Contract!Answer
<1>2. ASSUME UpperBound(k) PROVE Contract!UpperBound(k)
  <2>1. /\ Contract!AnswerIterator("upper_bound", k) /\ value' = value /\ ~Strict
        /\ it' = IF L = NoNode THEN NoNode ELSE NextValueNode(next[L])
    BY <1>2, AnswersAreRecords
       DEF L, UpperBound, Answer, trie, Contract!AnswerIterator, Contract!Answer
  <2>2. CASE HasValue(k)
    <3>1. k \in S /\ \A j \in S : AtOrAfter(j, k)
      BY <1>0, <2>2, NodesInOneOrder, NodesArePaths, PrecedesIrreflexive, PrecedesTotal
         DEF S, Present, AtOrAfter
    <3>2. S \in SUBSET Keys
      BY <1>0 DEF S
    <3>3. L = k
      BY <1>0, <3>1, <3>2, FirstIs, NodesArePaths
    <3>4. k \in Reached /\ k # NoNode
      BY <1>0, <3>3, NodesArePaths
    <3>5. it' = Contract!First(Contract!Keyed(Contract!After(k)))
      BY <2>1, <3>3, <3>4, AfterIsNext
    <3> QED BY <2>1, <3>5 DEF Contract!UpperBound
  <2>3. CASE ~HasValue(k)
    <3>1. Contract!Keyed(Contract!After(k)) = S
      <4>1. Contract!Keyed(Contract!After(k)) = {j \in Present : KeyLess(k, j)}
        BY <1>0, ContractMeans
      <4>2. \A j \in Present : KeyLess(k, j) <=> ~KeyLess(j, k)
        <5>1. \A j \in Present : j # k
          BY <2>3 DEF Present
        <5> QED BY <1>0, <5>1, NodesInOneOrder, NodesArePaths, PrecedesTotal, PrecedesAsymmetric
      <4> QED BY <4>1, <4>2 DEF S
    <3>2. CASE L = NoNode
      BY <1>0, <2>1, <3>1, <3>2 DEF Contract!UpperBound
    <3>3. CASE L # NoNode
      <4>1. it' = Contract!First(Contract!Keyed(Contract!After(L)))
        BY <1>0, <2>1, <3>3, AfterIsNext
      <4> QED BY <1>0, <2>1, <2>3, <3>1, <3>3, <4>1 DEF Contract!UpperBound
    <3> QED BY <3>2, <3>3
  <2> QED BY <2>2, <2>3
<1> QED BY <1>1, <1>2

\* So do iteration and clear().
LEMMA IterationInContract ==
    ASSUME IsFiniteSet(Keys), OneOrder, TrieInv
    PROVE  /\ Begin => Contract!Begin
           /\ Increment => Contract!Increment
           /\ ~ClearAnyTrie /\ Clear => Contract!Clear
<1>1. ASSUME Begin PROVE Contract!Begin
  <2>1. \A k \in Present : AtOrAfter(k, Root)
    <3>1. \A k \in Present : k \in Paths /\ (k # Root => Len(k) > 0)
      BY ValuesArePresent, NodesArePaths, ChildOfParent
    <3>2. Root \in Paths /\ Len(Root) = 0 /\ \A k \in Paths : IsPrefixOf(Root, k)
      BY NodesArePaths DEF Root, IsPrefixOf, Paths
    <3> QED BY <3>1, <3>2, PrefixPrecedes DEF AtOrAfter
  <2>2. Contract!Keyed(Keys) = {k \in Present : AtOrAfter(k, Root)}
    BY <2>1, ContractMeans, ValuesArePresent
  <2>3. Contract!First(Contract!Keyed(Keys)) = NextValueNode(Root)
    BY <2>2, NextValueIsFirst, WalksReturnNodes
  <2>4. Contract!AnswerIterator("begin", NoNode) /\ value' = value /\ it' = NextValueNode(Root)
    BY <1>1, AnswersAreRecords DEF Begin, trie, Contract!AnswerIterator, Contract!Answer
  <2> QED BY <2>3, <2>4 DEF Contract!Begin
<1>2. ASSUME Increment PROVE Contract!Increment
  <2>1. /\ Contract!AnswerIterator("increment", NoNode) /\ value' = value
        /\ it' = IF it = NoNode THEN NoNode ELSE NextValueNode(next[it])
    BY <1>2, AnswersAreRecords DEF Increment, trie, Contract!AnswerIterator, Contract!Answer
  <2>2. it # NoNode => it' = Contract!First(Contract!Keyed(Contract!After(it)))
    BY <2>1, AfterIsNext DEF TrieInv
  <2> QED BY <2>1, <2>2 DEF Contract!Increment
<1>3. ASSUME ~ClearAnyTrie, Clear PROVE Contract!Clear
  <2>1. Contract!AnswerIterator("clear", NoNode) /\ it' = NoNode /\ value' = value
    BY <1>3, AnswersAreRecords DEF Clear, Contract!AnswerIterator, Contract!Answer
  <2>2. \A k \in Keys : value[k] = NoValue
    BY <1>3, ClearFindsNothing DEF Present, HasValue
  <2>3. [k \in Keys |-> value'[k]] = [k \in Keys |-> NoValue]
    BY <2>1, <2>2
  <2> QED BY <2>1, <2>3 DEF Contract!Clear
<1> QED BY <1>1, <1>2, <1>3

\* LLTrie answers every call as an ordered map does, and its iterators stay
\* where they are, for every finite set of keys of characters that compare like
\* their bytes.  What a client that calls neither at nor upper_bound sees is
\* std::map, without exception.
THEOREM TrieIsOrderedMap ==
    ASSUME IsFiniteSet(Keys), OneOrder, ~ClearAnyTrie,
           Strict => Ops \cap {"at", "upper_bound"} = {}
    PROVE  Spec => ImplementsOrderedMap
<1>1. Init => Contract!Init
  <2> SUFFICES ASSUME Init PROVE Contract!Init
    OBVIOUS
  <2>1. [k \in Keys |-> value[k]] = [k \in Keys |-> NoValue]
    BY NodesArePaths DEF Init
  <2> QED BY <2>1 DEF Init, Contract!Init
<1>2. TrieInv /\ [Next]_vars => [Contract!Next]_(Contract!vars)
  <2> SUFFICES ASSUME TrieInv, [Next]_vars PROVE [Contract!Next]_(Contract!vars)
    OBVIOUS
  <2>1. CASE UNCHANGED vars
    BY <2>1 DEF vars, Contract!vars
  <2>2. ASSUME NEW k \in Keys, NEW v \in Values, Insert(k, v) \/ InsertOrAssign(k, v)
        PROVE  Contract!Next
    BY <2>2, InsertionInContract DEF Contract!Next
  <2>3. ASSUME NEW k \in Keys, Erase(k) \/ Find(k) \/ Count(k) \/ At(k) PROVE Contract!Next
    BY <2>3, ErasureInContract, LookupInContract DEF Contract!Next
  <2>4. ASSUME NEW k \in Keys, LowerBound(k) \/ UpperBound(k) PROVE Contract!Next
    BY <2>4, BoundsInContract DEF Contract!Next
  <2>5. CASE EraseIterator \/ Begin \/ Increment \/ Clear
    BY <2>5, ErasureInContract, IterationInContract DEF Contract!Next
  <2> QED BY <2>1, <2>2, <2>3, <2>4, <2>5 DEF Next
<1> QED BY <1>1, <1>2, TrieAlways, PTL DEF Spec, ImplementsOrderedMap, Contract!Spec
=============================================================================

------------------------- MODULE LLRadixTreeProofs -------------------------
(***************************************************************************)
(* LLRadixTree for every finite set of keys: however often labels were     *)
(* split, the edges spell the keys, the list is the tree in key order and  *)
(* size_ is the number of keys (RadixInv); and every call answers as an    *)
(* ordered map does.                                                       *)
(***************************************************************************)
EXTENDS LLRadixTree, KeyOrderProofs, FiniteSetTheorems

-----------------------------------------------------------------------------
(* Sequences *)

\* Characters are numbers, so sequences of them are paths.
LEMMA CharsArePaths ==
    /\ Chars \subseteq Int /\ Keys \subseteq Seq(Chars)
    /\ Seq(Chars) \subseteq Paths
    /\ Root \in Seq(Chars) /\ Len(Root) = 0
<1>1. Chars \subseteq Int /\ Keys \subseteq Seq(Chars)
  BY RadixAssumption
<1>2. Seq(Chars) \subseteq Paths
  BY <1>1, SequencesArePaths
<1>3. Root \in Seq(Chars) /\ Len(Root) = 0
  BY DEF Root
<1> QED BY <1>1, <1>2, <1>3

\* An edge and a label continue a path.
LEMMA Spelling ==
    ASSUME NEW p \in Seq(Chars), NEW c \in Chars, NEW l \in Seq(Chars)
    PROVE  /\ p \o <<c>> \o l \in Seq(Chars)
           /\ Len(p \o <<c>> \o l) = Len(p) + 1 + Len(l)
           /\ IsPrefixOf(p, p \o <<c>> \o l)
           /\ (p \o <<c>> \o l)[Len(p) + 1] = c
           /\ \A i \in 1..Len(l) : (p \o <<c>> \o l)[Len(p) + 1 + i] = l[i]
           /\ Len(p) \in Nat /\ Len(l) \in Nat
BY DEF IsPrefixOf

\* They are all there is of a path that begins so.
LEMMA SpelledBy ==
    ASSUME NEW p \in Seq(Chars), NEW c \in Chars, NEW l \in Seq(Chars), NEW q \in Seq(Chars),
           Len(q) = Len(p) + 1 + Len(l), IsPrefixOf(p, q), q[Len(p) + 1] = c,
           \A i \in 1..Len(l) : q[Len(p) + 1 + i] = l[i]
    PROVE  q = p \o <<c>> \o l
<1> DEFINE r == p \o <<c>> \o l
<1>1. /\ r \in Seq(Chars) /\ Len(r) = Len(q) /\ IsPrefixOf(p, r) /\ r[Len(p) + 1] = c
      /\ \A i \in 1..Len(l) : r[Len(p) + 1 + i] = l[i]
      /\ Len(p) \in Nat /\ Len(l) \in Nat
  BY Spelling
<1> HIDE DEF r
<1>2. ASSUME NEW j \in 1..Len(q) PROVE q[j] = r[j]
  <2>1. CASE j \in 1..Len(p)
    BY <1>1, <2>1 DEF IsPrefixOf
  <2>2. CASE j = Len(p) + 1
    BY <1>1, <2>2
  <2>3. CASE j > Len(p) + 1
    <3>1. j - (Len(p) + 1) \in 1..Len(l) /\ j = Len(p) + 1 + (j - (Len(p) + 1))
      BY <1>1, <2>3
    <3> QED BY <1>1, <3>1
  <2>4. j \in Nat /\ j >= 1
    OBVIOUS
  <2> QED BY <1>1, <2>1, <2>2, <2>3, <2>4
<1>3. q = r
  BY <1>1, <1>2
<1> QED BY <1>3 DEF r

\* Of two ways to the same place the shorter is the beginning of the longer.
LEMMA PrefixesNest ==
    ASSUME NEW p \in Paths, NEW q \in Paths, NEW r \in Paths,
           IsPrefixOf(p, r), IsPrefixOf(q, r), Len(p) <= Len(q)
    PROVE  IsPrefixOf(p, q)
<1>1. Len(p) \in Nat /\ Len(q) \in Nat
  BY DEF Paths
<1> QED BY <1>1 DEF IsPrefixOf

\* What comes after p and is not below it comes after everything below p.
LEMMA AsideOfBelow ==
    ASSUME NEW p \in Paths, NEW q \in Paths, NEW r \in Paths,
           Precedes(p, q), ~IsPrefixOf(p, q), IsPrefixOf(p, r)
    PROVE  Precedes(r, q)
<1>1. PICK j \in 1..Len(p) : j <= Len(q) /\ p[j] < q[j] /\ \A i \in 1..(j - 1) : p[i] = q[i]
  BY DEF Precedes, IsPrefixOf, Paths
<1>2. Len(p) \in Nat /\ Len(r) \in Nat /\ Len(p) <= Len(r) /\ \A i \in 1..Len(p) : p[i] = r[i]
  BY DEF Paths, IsPrefixOf
<1>3. j \in 1..Len(r) /\ r[j] < q[j] /\ \A i \in 1..(j - 1) : r[i] = q[i]
  BY <1>1, <1>2
<1> QED BY <1>1, <1>3 DEF Precedes

\* To what is not below it a path compares as everything below it does.
LEMMA StemCompares ==
    ASSUME NEW r \in Paths, NEW b \in Paths, NEW x \in Paths,
           IsPrefixOf(r, b), ~IsPrefixOf(r, x)
    PROVE  /\ Precedes(x, r) <=> Precedes(x, b)
           /\ Precedes(r, x) <=> Precedes(b, x)
<1>1. r = b \/ Precedes(r, b)
  <2>1. Len(r) \in Nat /\ Len(b) \in Nat /\ Len(r) <= Len(b)
    BY DEF IsPrefixOf, Paths
  <2> QED BY <2>1, PrefixPrecedes, PrefixSameLength
<1>2. x # r
  BY DEF IsPrefixOf, Paths
<1>3. Precedes(x, r) => Precedes(x, b)
  BY <1>1, PrecedesTransitive
<1>4. Precedes(b, x) => Precedes(r, x)
  BY <1>1, PrecedesTransitive
<1>5. Precedes(r, x) => Precedes(b, x)
  BY AsideOfBelow
<1>6. Precedes(x, b) => Precedes(x, r)
  BY <1>2, <1>5, PrecedesTotal, PrecedesAsymmetric
<1> QED BY <1>3, <1>4, <1>5, <1>6

\* Addresses lie on the ways to keys, and there are finitely many.
LEMMA AddressFacts ==
    /\ Keys \subseteq Prefixes /\ Root \in Prefixes
    /\ Prefixes \subseteq Seq(Chars) /\ Prefixes \subseteq Paths
    /\ \A k \in Keys : \A i \in 0..Len(k) : SubSeq(k, 1, i) \in Prefixes
    /\ NoNode \notin Addresses /\ NoNode \notin Prefixes
<1>1. \A k \in Keys : PathsTo(k) \subseteq Seq(Chars)
  BY CharsArePaths, PathIsSequence
<1>2. \A k \in Keys : \A i \in 0..Len(k) : SubSeq(k, 1, i) \in PathsTo(k)
  BY DEF PathsTo
<1>3. \A k \in Keys : Len(k) \in 0..Len(k) /\ SubSeq(k, 1, Len(k)) = k
  BY CharsArePaths
<1>4. \A k \in Keys : k \in PathsTo(k)
  BY <1>2, <1>3
<1>5. Prefixes \subseteq Seq(Chars)
  BY <1>1, CharsArePaths DEF Prefixes
<1>6. Prefixes \subseteq Paths
  BY <1>5, CharsArePaths
<1>7. NoNode \notin Addresses /\ NoNode \notin Prefixes
  BY RadixAssumption
<1> QED BY <1>2, <1>4, <1>5, <1>6, <1>7, Zenon DEF Prefixes

\* A finite set of keys has finitely many prefixes, so finitely many addresses.
LEMMA AddressesFinite ==
    ASSUME IsFiniteSet(Keys)
    PROVE  /\ IsFiniteSet(Prefixes) /\ IsFiniteSet(Addresses)
           /\ Cardinality(Keys) \in Nat /\ RootNode \in Addresses
<1>1. ASSUME NEW k \in Keys PROVE IsFiniteSet(PathsTo(k))
  <2> DEFINE f == [i \in 0..Len(k) |-> SubSeq(k, 1, i)]
  <2>1. f \in Surjection(0..Len(k), PathsTo(k))
    BY DEF Surjection, PathsTo
  <2>2. k \in Seq(Chars)
    BY CharsArePaths
  <2>3. IsFiniteSet(0..Len(k))
    BY <2>2, FS_Interval
  <2> QED BY <2>1, <2>3, FS_Surjection
<1> DEFINE Q == {PathsTo(k) : k \in Keys}
           g == [k \in Keys |-> PathsTo(k)]
<1>2. g \in Surjection(Keys, Q)
  BY DEF Surjection
<1>3. IsFiniteSet(Q) /\ \A T \in Q : IsFiniteSet(T)
  BY <1>1, <1>2, FS_Surjection
<1>4. IsFiniteSet(UNION Q)
  BY <1>3, FS_UNION
<1>5. IsFiniteSet({Root})
  BY FS_Singleton
<1>6. IsFiniteSet(Prefixes)
  BY <1>4, <1>5, FS_Union DEF Prefixes
<1>7. Cardinality(Keys) \in Nat
  BY FS_CardinalityType
<1>8. IsFiniteSet(0..Cardinality(Keys))
  BY <1>7, FS_Interval
<1>9. IsFiniteSet(Addresses)
  BY <1>6, <1>8, FS_Product DEF Addresses
<1>10. RootNode \in Addresses
  BY <1>7, AddressFacts DEF RootNode, Addresses
<1> QED BY <1>6, <1>7, <1>9, <1>10

\* A set of characters has a least and a greatest element.
LEMMA ExtremeChars ==
    ASSUME NEW S \in SUBSET Chars, S # {}
    PROVE  /\ \E d \in S : \A e \in S : d <= e
           /\ \E d \in S : \A e \in S : e <= d
<1>0. \A d \in S : d \in Int /\ d + 128 \in Nat /\ 127 - d \in Nat
  BY RadixAssumption
<1>1. \E d \in S : \A e \in S : d <= e
  <2> DEFINE T == {d + 128 : d \in S}
  <2>1. T \in SUBSET Nat /\ T # {}
    BY <1>0
  <2>2. PICK x \in T : \A y \in T : x <= y
    BY <2>1, LeastNatural
  <2>3. PICK d \in S : x = d + 128
    BY <2>2
  <2>4. ASSUME NEW e \in S PROVE d <= e
    <3>1. d + 128 <= e + 128
      BY <2>2, <2>3
    <3> QED BY <1>0, <3>1
  <2> QED BY <2>4
<1>2. \E d \in S : \A e \in S : e <= d
  <2> DEFINE T == {127 - d : d \in S}
  <2>1. T \in SUBSET Nat /\ T # {}
    BY <1>0
  <2>2. PICK x \in T : \A y \in T : x <= y
    BY <2>1, LeastNatural
  <2>3. PICK d \in S : x = 127 - d
    BY <2>2
  <2>4. ASSUME NEW e \in S PROVE e <= d
    <3>1. 127 - d <= 127 - e
      BY <2>2, <2>3
    <3> QED BY <1>0, <3>1
  <2> QED BY <2>4
<1> QED BY <1>1, <1>2

-----------------------------------------------------------------------------
(* The tree.  P gives each node the path it spells. *)

\* Edges of a node: their first characters, to addresses.
Children == UNION {[S -> Addresses] : S \in SUBSET Chars}

\* The nodes.
Records == [next : Addresses \cup {NoNode}, label : Seq(Chars), key : Seq(Chars),
            value : Values \cup {NoValue}, children : Children]

\* A heap of nodes that holds the root.
HeapOK(h) ==
    /\ RootNode \in DOMAIN h /\ DOMAIN h \in SUBSET Addresses
    /\ h \in [DOMAIN h -> Records]

\* The child of n along c lies where the edge and its label lead from n.
Leads(h, P, n, c) ==
    LET m == h[n].children[c]
    IN m \in DOMAIN h /\ P[m] = P[n] \o <<c>> \o h[m].label

\* Some edge leads to n.
IsChild(h, n) == \E p \in DOMAIN h : \E c \in Edges(h, p) : h[p].children[c] = n

\* Edges and labels spell P, no path twice, and lead to every node but the root.
Tree(h, P) ==
    /\ HeapOK(h)
    /\ P \in [DOMAIN h -> Prefixes] /\ P[RootNode] = Root
    /\ \A n \in DOMAIN h : \A c \in Edges(h, n) : Leads(h, P, n, c)
    /\ \A m, n \in DOMAIN h : P[m] = P[n] => m = n
    /\ \A n \in DOMAIN h \ {RootNode} : IsChild(h, n)

\* The fields of a node.
LEMMA NodeFacts ==
    ASSUME NEW h, HeapOK(h), NEW n \in DOMAIN h
    PROVE  /\ h[n] \in Records /\ n \in Addresses /\ n # NoNode
           /\ Edges(h, n) \in SUBSET Chars
           /\ h[n].children \in [Edges(h, n) -> Addresses]
           /\ h[n].next \in Addresses \cup {NoNode}
           /\ h[n].label \in Seq(Chars) /\ Len(h[n].label) \in Nat
           /\ h[n].key \in Seq(Chars)
           /\ h[n].value \in Values \cup {NoValue}
<1>1. h[n] \in Records /\ n \in Addresses /\ n # NoNode
  BY AddressFacts DEF HeapOK
<1>2. h[n].children \in Children
  BY <1>1 DEF Records
<1>3. PICK S \in SUBSET Chars : h[n].children \in [S -> Addresses]
  BY <1>2 DEF Children
<1>4. Edges(h, n) = S
  BY <1>3 DEF Edges
<1> QED BY <1>1, <1>3, <1>4 DEF Records

\* Where the child m of n along c lies.
IsChildAt(h, P, n, c, m) ==
    /\ c \in Chars /\ c \in Int /\ m \in DOMAIN h /\ m # n /\ m # RootNode
    /\ P[m] = P[n] \o <<c>> \o h[m].label
    /\ P[n] \in Seq(Chars) /\ P[m] \in Seq(Chars) /\ P[n] \in Paths /\ P[m] \in Paths
    /\ h[m].label \in Seq(Chars) /\ h[m].label \in Paths
    /\ Len(P[m]) = Len(P[n]) + 1 + Len(h[m].label)
    /\ Len(P[n]) \in Nat /\ Len(P[m]) \in Nat /\ Len(h[m].label) \in Nat
    /\ Len(P[n]) < Len(P[m]) /\ IsPrefixOf(P[n], P[m]) /\ P[m][Len(P[n]) + 1] = c
    /\ \A i \in 1..Len(h[m].label) : P[m][Len(P[n]) + 1 + i] = h[m].label[i]

\* What an edge says of the paths at its two ends.
LEMMA ChildFacts ==
    ASSUME NEW h, NEW P, Tree(h, P), NEW n \in DOMAIN h, NEW c \in Edges(h, n)
    PROVE  IsChildAt(h, P, n, c, h[n].children[c])
<1> DEFINE m == h[n].children[c]
           l == h[m].label
           q == P[n] \o <<c>> \o l
<1>1. c \in Chars /\ c \in Int /\ Leads(h, P, n, c)
  BY NodeFacts, CharsArePaths DEF Tree
<1>2. m \in DOMAIN h /\ P[m] = q
  BY <1>1 DEF Leads
<1>3. P[n] \in Seq(Chars) /\ P[m] \in Seq(Chars) /\ P[n] \in Paths /\ P[m] \in Paths
  BY <1>2, AddressFacts DEF Tree
<1>4. l \in Seq(Chars) /\ l \in Paths
  BY <1>2, NodeFacts, CharsArePaths DEF Tree
<1> HIDE DEF l
<1>5. /\ Len(q) = Len(P[n]) + 1 + Len(l)
      /\ Len(P[n]) \in Nat /\ Len(l) \in Nat
      /\ IsPrefixOf(P[n], q) /\ q[Len(P[n]) + 1] = c
      /\ \A i \in 1..Len(l) : q[Len(P[n]) + 1 + i] = l[i]
  BY <1>1, <1>3, <1>4, Spelling
<1> HIDE DEF q
<1>6. Len(P[m]) \in Nat /\ Len(P[m]) > Len(P[n])
  BY <1>2, <1>5
<1>7. m # n
  BY <1>6, <1>5
<1>8. m # RootNode
  <2>1. P[RootNode] = Root
    BY DEF Tree
  <2> QED BY <1>5, <1>6, <2>1, CharsArePaths
<1> HIDE DEF m
<1>9. /\ P[m] = P[n] \o <<c>> \o l /\ Len(P[n]) < Len(P[m])
      /\ Len(P[m]) = Len(P[n]) + 1 + Len(l)
      /\ IsPrefixOf(P[n], P[m]) /\ P[m][Len(P[n]) + 1] = c
      /\ \A i \in 1..Len(l) : P[m][Len(P[n]) + 1 + i] = l[i]
  BY <1>2, <1>5, <1>6 DEF q
<1>10. IsChildAt(h, P, n, c, m)
  BY <1>1, <1>2, <1>3, <1>4, <1>5, <1>6, <1>7, <1>8, <1>9 DEF IsChildAt, l
<1> QED BY <1>10 DEF m

\* Paths are prefixes of keys.
LEMMA PathFacts ==
    ASSUME NEW h, NEW P, Tree(h, P), NEW n \in DOMAIN h
    PROVE  P[n] \in Seq(Chars) /\ P[n] \in Paths /\ P[n] \in Prefixes /\ Len(P[n]) \in Nat
<1>1. P[n] \in Prefixes
  BY DEF Tree
<1> QED BY <1>1, AddressFacts

\* A node is the child of one node, along one edge.
LEMMA OneParent ==
    ASSUME NEW h, NEW P, Tree(h, P), NEW p \in DOMAIN h, NEW q \in DOMAIN h,
           NEW c \in Edges(h, p), NEW d \in Edges(h, q), h[p].children[c] = h[q].children[d]
    PROVE  p = q /\ c = d
<1> DEFINE m == h[p].children[c]
<1>1. IsChildAt(h, P, p, c, m) /\ IsChildAt(h, P, q, d, m)
  BY ChildFacts
<1> HIDE DEF m
<1>2. /\ IsPrefixOf(P[p], P[m]) /\ IsPrefixOf(P[q], P[m]) /\ h[m].label \in Paths
      /\ Len(P[m]) = Len(P[p]) + 1 + Len(h[m].label) /\ P[p] \in Seq(Chars) /\ P[p] \in Paths
      /\ Len(P[m]) = Len(P[q]) + 1 + Len(h[m].label) /\ P[q] \in Seq(Chars) /\ P[q] \in Paths
      /\ P[m] \in Seq(Chars) /\ P[m] \in Paths
      /\ Len(P[p]) \in Nat /\ Len(P[q]) \in Nat /\ Len(P[m]) \in Nat
      /\ Len(h[m].label) \in Nat
  BY <1>1, Zenon DEF IsChildAt
<1>3. Len(P[p]) = Len(P[q])
  <2> DEFINE a == Len(P[p])  b == Len(P[q])  l == Len(h[m].label)  e == Len(P[m])
  <2>1. a \in Nat /\ b \in Nat /\ l \in Nat /\ e = a + 1 + l /\ e = b + 1 + l
    BY <1>2, Zenon
  <2> HIDE DEF a, b, l, e
  <2>2. a = b
    BY <2>1
  <2> QED BY <2>2 DEF a, b
<1>4. IsPrefixOf(P[p], P[q])
  BY <1>2, <1>3, PrefixesNest
<1>5. P[p] = P[q]
  BY <1>2, <1>3, <1>4, PrefixSameLength
<1> QED BY <1>1, <1>5 DEF Tree, IsChildAt

\* The edge of p towards n is there, and its child is on the way.
GoesTo(h, P, p, n) ==
    LET c == P[n][Len(P[p]) + 1]
    IN c \in Edges(h, p) /\ IsPrefixOf(P[h[p].children[c]], P[n])

\* From a node the edges lead to every node that lies below it.
LEMMA WayDown ==
    ASSUME NEW h, NEW P, Tree(h, P), NEW p \in DOMAIN h, NEW n \in DOMAIN h,
           IsPrefixOf(P[p], P[n]), p # n
    PROVE  GoesTo(h, P, p, n)
<1> DEFINE D == DOMAIN h
           Lost(q, m) == IsPrefixOf(P[q], P[m]) /\ q # m /\ ~GoesTo(h, P, q, m)
           T == {Len(P[m]) : m \in {m \in D : \E q \in D : Lost(q, m)}}
<1>1. \A m \in D : P[m] \in Paths /\ Len(P[m]) \in Nat
  BY PathFacts
<1>2. SUFFICES ASSUME T # {} PROVE FALSE
  OBVIOUS
<1>3. PICK x \in T : \A y \in T : x <= y
  <2>1. T \in SUBSET Nat
    BY <1>1
  <2> HIDE DEF T
  <2> QED BY <1>2, <2>1, LeastNatural
<1>4. PICK m \in D, q \in D : x = Len(P[m]) /\ Lost(q, m)
  BY <1>3
<1>5. \A a, b \in D : Len(P[b]) < Len(P[m]) /\ IsPrefixOf(P[a], P[b]) /\ a # b
         => GoesTo(h, P, a, b)
  <2> SUFFICES ASSUME NEW a \in D, NEW b \in D, Len(P[b]) < Len(P[m]), Lost(a, b)
               PROVE  FALSE
    OBVIOUS
  <2>1. Len(P[b]) \in T
    OBVIOUS
  <2>2. x <= Len(P[b])
    BY <1>3, <2>1
  <2> QED BY <1>1, <1>4, <2>2
<1>6. P[q] # P[m]
  BY <1>4 DEF Tree
<1>7. m # RootNode
  <2>1. P[RootNode] = Root
    BY DEF Tree
  <2> QED BY <1>1, <1>4, <1>6, <2>1, RootIsFirst
<1>8. PICK r \in D : \E e \in Edges(h, r) : h[r].children[e] = m
  BY <1>7 DEF Tree, IsChild
<1>9. PICK e \in Edges(h, r) : h[r].children[e] = m
  BY <1>8
<1>10. IsChildAt(h, P, r, e, m)
  BY <1>9, ChildFacts
<1>11. /\ Len(P[r]) < Len(P[m]) /\ IsPrefixOf(P[r], P[m]) /\ P[m][Len(P[r]) + 1] = e
       /\ r # m
  BY <1>10 DEF IsChildAt
<1>12. CASE Len(P[q]) <= Len(P[r])
  <2>1. IsPrefixOf(P[q], P[r])
    BY <1>1, <1>4, <1>11, <1>12, PrefixesNest
  <2>2. CASE q = r
    <3>1. GoesTo(h, P, q, m)
      <4>1. IsPrefixOf(P[m], P[m])
        BY <1>1 DEF IsPrefixOf
      <4> QED BY <1>9, <1>11, <2>2, <4>1 DEF GoesTo
    <3> QED BY <1>4, <3>1
  <2>3. CASE q # r
    <3> DEFINE c == P[r][Len(P[q]) + 1]
    <3>1. c \in Edges(h, q) /\ IsPrefixOf(P[h[q].children[c]], P[r])
      BY <1>5, <1>11, <2>1, <2>3 DEF GoesTo
    <3>2. P[q] # P[r]
      BY <2>3 DEF Tree
    <3>3. Len(P[q]) < Len(P[r])
      BY <1>1, <1>12, <2>1, <3>2, PrefixSameLength
    <3>4. P[m][Len(P[q]) + 1] = c
      <4>1. Len(P[q]) + 1 \in 1..Len(P[r])
        BY <1>1, <3>3
      <4> QED BY <1>11, <4>1 DEF IsPrefixOf
    <3>5. IsChildAt(h, P, q, c, h[q].children[c])
      BY <3>1, ChildFacts, Zenon
    <3> HIDE DEF c
    <3>6. IsPrefixOf(P[h[q].children[c]], P[m])
      BY <1>1, <1>11, <3>1, <3>5, PrefixTransitive DEF IsChildAt
    <3>7. GoesTo(h, P, q, m)
      BY <3>1, <3>4, <3>6 DEF GoesTo
    <3> QED BY <1>4, <3>7
  <2> QED BY <2>2, <2>3
<1>13. CASE Len(P[q]) > Len(P[r])
  <2>1. IsPrefixOf(P[r], P[q])
    BY <1>1, <1>4, <1>11, <1>13, PrefixesNest
  <2>2. Len(P[q]) < Len(P[m])
    BY <1>1, <1>4, <1>6, PrefixSameLength
  <2>3. r # q
    BY <1>1, <1>13
  <2>4. GoesTo(h, P, r, q)
    BY <1>5, <2>1, <2>2, <2>3
  <2>5. P[q][Len(P[r]) + 1] = e
    BY <1>1, <1>4, <1>11, <1>13 DEF IsPrefixOf
  <2>6. IsPrefixOf(P[m], P[q])
    BY <1>9, <2>4, <2>5 DEF GoesTo
  <2> QED BY <1>1, <2>2, <2>6 DEF IsPrefixOf
<1> QED BY <1>1, <1>12, <1>13

\* Whatever shares more than the path of p with a child of p lies below the child.
LEMMA BelowTheChild ==
    ASSUME NEW h, NEW P, Tree(h, P), NEW p \in DOMAIN h, NEW c \in Edges(h, p),
           NEW n, n = h[p].children[c], NEW r \in Paths, IsPrefixOf(r, P[n]), Len(r) > Len(P[p]),
           NEW x \in DOMAIN h, IsPrefixOf(r, P[x])
    PROVE  IsPrefixOf(P[n], P[x])
<1>1. IsChildAt(h, P, p, c, n)
  BY ChildFacts, Zenon
<1>2. /\ P[p] \in Paths /\ P[n] \in Paths /\ P[x] \in Paths
      /\ Len(P[p]) \in Nat /\ Len(r) \in Nat /\ IsPrefixOf(P[p], P[n])
      /\ P[n][Len(P[p]) + 1] = c
  BY <1>1, PathFacts DEF IsChildAt, Paths
<1>3. IsPrefixOf(P[p], r)
  BY <1>2, PrefixesNest
<1>4. IsPrefixOf(P[p], P[x])
  BY <1>2, <1>3, PrefixTransitive
<1>5. p # x
  BY <1>2 DEF IsPrefixOf, Paths
<1>6. P[x][Len(P[p]) + 1] = c
  <2>1. Len(P[p]) + 1 \in 1..Len(r)
    BY <1>2
  <2> QED BY <1>2, <2>1 DEF IsPrefixOf
<1> QED BY <1>4, <1>5, <1>6, WayDown DEF GoesTo

\* The nodes above m.
Above(h, P, m) == {a \in DOMAIN h : IsPrefixOf(P[a], P[m]) /\ a # m}

\* Fewer nodes lie above m than there are, and more above every child of m.
LEMMA FewAbove ==
    ASSUME IsFiniteSet(Keys), NEW h, NEW P, Tree(h, P), NEW m \in DOMAIN h
    PROVE  /\ IsFiniteSet(DOMAIN h) /\ Cardinality(DOMAIN h) \in Nat
           /\ Cardinality(Above(h, P, m)) \in Nat
           /\ Cardinality(Above(h, P, m)) < Cardinality(DOMAIN h)
           /\ \A c \in Edges(h, m) : Cardinality(Above(h, P, h[m].children[c]))
                                        >= Cardinality(Above(h, P, m)) + 1
<1>1. IsFiniteSet(DOMAIN h)
  BY AddressesFinite, FS_Subset DEF Tree, HeapOK
<1>2. \A n \in DOMAIN h : Above(h, P, n) \in SUBSET (DOMAIN h \ {n})
  BY DEF Above
<1>3. IsFiniteSet(DOMAIN h \ {m}) /\ Cardinality(DOMAIN h \ {m}) = Cardinality(DOMAIN h) - 1
  BY <1>1, FS_RemoveElement
<1>4. \A n \in DOMAIN h : IsFiniteSet(Above(h, P, n)) /\ Cardinality(Above(h, P, n)) \in Nat
  BY <1>1, <1>2, FS_Subset, FS_CardinalityType
<1>5. Cardinality(Above(h, P, m)) <= Cardinality(DOMAIN h \ {m})
  BY <1>2, <1>3, FS_Subset
<1>6. Cardinality(DOMAIN h) \in Nat
  BY <1>1, FS_CardinalityType
<1>7. ASSUME NEW c \in Edges(h, m)
      PROVE  Cardinality(Above(h, P, h[m].children[c])) >= Cardinality(Above(h, P, m)) + 1
  <2> DEFINE n == h[m].children[c]
  <2>1. IsChildAt(h, P, m, c, n)
    BY ChildFacts
  <2> HIDE DEF n
  <2>2. n \in DOMAIN h /\ P[m] \in Paths /\ P[n] \in Paths /\ m # n
    BY <2>1 DEF IsChildAt
  <2>3. Above(h, P, m) \cup {m} \in SUBSET Above(h, P, n)
    <3>1. IsPrefixOf(P[m], P[n])
      BY <2>1 DEF IsChildAt
    <3>2. ASSUME NEW a \in Above(h, P, m) PROVE a \in Above(h, P, n)
      <4>1. a \in DOMAIN h /\ a # m /\ IsPrefixOf(P[a], P[m]) /\ P[a] \in Paths
        BY PathFacts DEF Above
      <4>2. IsPrefixOf(P[a], P[n])
        BY <2>2, <3>1, <4>1, PrefixTransitive
      <4>3. a # n
        <5>1. Len(P[m]) < Len(P[n]) /\ Len(P[m]) \in Nat /\ Len(P[n]) \in Nat
          BY <2>1 DEF IsChildAt
        <5> QED BY <4>1, <5>1 DEF IsPrefixOf
      <4> QED BY <4>1, <4>2, <4>3 DEF Above
    <3> QED BY <2>2, <3>1, <3>2 DEF Above
  <2>4. m \notin Above(h, P, m)
    BY DEF Above
  <2>5. Cardinality(Above(h, P, m) \cup {m}) = Cardinality(Above(h, P, m)) + 1
    BY <1>4, <2>4, FS_AddElement
  <2>6. Cardinality(Above(h, P, m) \cup {m}) <= Cardinality(Above(h, P, n))
    BY <1>4, <2>2, <2>3, FS_Subset
  <2> QED BY <1>4, <2>2, <2>5, <2>6 DEF n
<1> QED BY <1>1, <1>3, <1>4, <1>5, <1>6, <1>7

\* traverse_rightmost: one level down.
LastChild(h, m) ==
    IF Edges(h, m) = {} THEN m
    ELSE h[m].children[CHOOSE c \in Edges(h, m) : IsLast(Edges(h, m), c)]

\* The loop of Rightmost.
Spine(h, n) ==
    CHOOSE down : down = [i \in 0..Cardinality(DOMAIN h) |->
        IF i = 0 THEN n ELSE LastChild(h, down[i - 1])]

\* After i levels from n: what lies below n and not below m comes before m.
OnSpine(h, P, n, m, i) ==
    /\ m \in DOMAIN h /\ IsPrefixOf(P[n], P[m])
    /\ \A x \in DOMAIN h : IsPrefixOf(P[n], P[x]) =>
          IsPrefixOf(P[m], P[x]) \/ Precedes(P[x], P[m])
    /\ Edges(h, m) # {} => Cardinality(Above(h, P, m)) >= i

\* One level further down the last edges.
LEMMA SpineStep ==
    ASSUME IsFiniteSet(Keys), NEW h, NEW P, Tree(h, P), NEW n \in DOMAIN h, NEW m,
           NEW i \in Nat, OnSpine(h, P, n, m, i)
    PROVE  OnSpine(h, P, n, LastChild(h, m), i + 1)
<1>0. m \in DOMAIN h
  BY DEF OnSpine
<1>1. CASE Edges(h, m) = {}
  <2>1. LastChild(h, m) = m
    BY <1>1 DEF LastChild
  <2> QED BY <1>1, <2>1 DEF OnSpine
<1>2. CASE Edges(h, m) # {}
  <2>1. Edges(h, m) \in SUBSET Chars
    BY <1>0, NodeFacts DEF Tree
  <2>2. \E c \in Edges(h, m) : IsLast(Edges(h, m), c)
    BY <1>2, <2>1, ExtremeChars DEF IsLast
  <2> DEFINE d == CHOOSE c \in Edges(h, m) : IsLast(Edges(h, m), c)
             y == h[m].children[d]
  <2>3. d \in Edges(h, m) /\ IsLast(Edges(h, m), d)
    BY <2>2
  <2>4. LastChild(h, m) = y
    BY <1>2 DEF LastChild
  <2> HIDE DEF d
  <2>5. IsChildAt(h, P, m, d, y)
    BY <1>0, <2>3, ChildFacts
  <2>6. Cardinality(Above(h, P, y)) >= i + 1
    <3>1. /\ Cardinality(Above(h, P, m)) \in Nat
          /\ Cardinality(Above(h, P, y)) >= Cardinality(Above(h, P, m)) + 1
      BY <1>0, <2>3, FewAbove, Zenon
    <3>2. Cardinality(Above(h, P, y)) \in Nat
      BY <2>5, FewAbove, Zenon DEF IsChildAt
    <3>3. Cardinality(Above(h, P, m)) >= i
      BY <1>2 DEF OnSpine
    <3> QED BY <3>1, <3>2, <3>3
  <2> HIDE DEF y
  <2>7. /\ y \in DOMAIN h /\ P[m] \in Paths /\ P[y] \in Paths /\ Len(P[m]) < Len(P[y])
        /\ IsPrefixOf(P[m], P[y]) /\ P[y][Len(P[m]) + 1] = d /\ d \in Int
    BY <2>5 DEF IsChildAt
  <2>8. Precedes(P[m], P[y])
    BY <2>7, PrefixPrecedes
  <2>9. IsPrefixOf(P[n], P[y])
    BY <2>7, PathFacts, PrefixTransitive DEF OnSpine
  <2>10. ASSUME NEW x \in DOMAIN h, IsPrefixOf(P[n], P[x])
         PROVE  IsPrefixOf(P[y], P[x]) \/ Precedes(P[x], P[y])
    <3>1. P[x] \in Paths
      BY PathFacts
    <3>2. CASE Precedes(P[x], P[m])
      BY <2>7, <2>8, <3>1, <3>2, PrecedesTransitive
    <3>3. CASE x = m
      BY <2>8, <3>3
    <3>4. CASE IsPrefixOf(P[m], P[x]) /\ x # m
      <4> DEFINE e == P[x][Len(P[m]) + 1]
      <4>1. GoesTo(h, P, m, x)
        BY <1>0, <3>4, WayDown
      <4>2. e \in Edges(h, m) /\ IsPrefixOf(P[h[m].children[e]], P[x])
        BY <4>1, Zenon DEF GoesTo
      <4>3. e <= d /\ e \in Int
        BY <2>1, <2>3, <4>2, CharsArePaths DEF IsLast
      <4>4. P[m] # P[x]
        BY <1>0, <3>4 DEF Tree
      <4>5. Len(P[m]) < Len(P[x])
        BY <1>0, <3>1, <3>4, <4>4, PathFacts, PrefixSameLength
      <4>6. CASE e = d
        BY <4>2, <4>6 DEF y
      <4>7. CASE e < d
        BY <2>7, <3>1, <3>4, <4>5, <4>7, SmallerEdgeFirst
      <4> QED BY <2>7, <4>3, <4>6, <4>7
    <3> QED BY <2>10, <3>2, <3>3, <3>4 DEF OnSpine
  <2> QED BY <2>4, <2>6, <2>7, <2>9, <2>10 DEF OnSpine
<1> QED BY <1>1, <1>2

\* A loop whose steps keep to T runs, and whatever runs so keeps to T.
Loops(N, T, a, g, f) ==
    /\ f[0] = a
    /\ \A i \in 1..N : f[i - 1] \in T[i - 1] => f[i] = g[f[i - 1]]

\* f is the loop from a by g, and keeps to T.
KeepsTo(N, T, a, g, f) ==
    /\ f[0] = a
    /\ \A i \in 1..N : f[i] = g[f[i - 1]]
    /\ \A i \in 0..N : f[i] \in T[i]

\* The loop exists.
LEMMA LoopRuns ==
    ASSUME NEW N \in Nat, NEW X, NEW T \in [0..N -> SUBSET X], NEW a \in T[0],
           NEW g \in [X -> X], \A i \in 1..N : \A x \in T[i - 1] : g[x] \in T[i]
    PROVE  \E f \in [0..N -> X] : KeepsTo(N, T, a, g, f)
<1> DEFINE G == [i \in 1..N |-> {d \in X \X X : d[2] = g[d[1]]}]
<1>1. Continues(N, T, G)
  <2> SUFFICES ASSUME NEW i \in 1..N, NEW x \in T[i - 1]
               PROVE  \E y \in T[i] : <<x, y>> \in G[i]
    BY DEF Continues
  <2>1. i - 1 \in 0..N /\ i \in 0..N
    OBVIOUS
  <2>2. x \in X /\ g[x] \in X /\ g[x] \in T[i]
    BY <2>1
  <2>3. <<x, g[x]>> \in G[i]
    BY <2>2
  <2> HIDE DEF G
  <2> QED BY <2>2, <2>3
<1>2. PICK f \in [0..N -> X] : Runs(f, N, a, T, G)
  <2> HIDE DEF G
  <2> QED BY <1>1, Recursion
<1>3. f[0] = a /\ \A i \in 0..N : f[i] \in T[i]
  BY <1>2 DEF Runs
<1>4. \A i \in 1..N : f[i] = g[f[i - 1]]
  BY <1>2 DEF Runs
<1> QED BY <1>3, <1>4 DEF KeepsTo

\* The loop keeps to T.
LEMMA LoopStays ==
    ASSUME NEW N \in Nat, NEW X, NEW T \in [0..N -> SUBSET X], NEW a \in T[0],
           NEW g \in [X -> X], \A i \in 1..N : \A x \in T[i - 1] : g[x] \in T[i],
           NEW f, Loops(N, T, a, g, f)
    PROVE  \A i \in 0..N : f[i] \in T[i]
<1> DEFINE S == {i \in 0..N : f[i] \in T[i]}
<1>1. 0 \in S
  BY DEF Loops
<1>2. ASSUME NEW i \in 1..N, i - 1 \in S PROVE i \in S
  <2>1. f[i - 1] \in T[i - 1] /\ i \in 0..N
    BY <1>2
  <2>2. f[i] = g[f[i - 1]]
    BY <2>1 DEF Loops
  <2> QED BY <2>1, <2>2
<1>3. \A i \in 0..N : i \in S
  <2> HIDE DEF S
  <2> QED BY <1>1, <1>2, UpTo
<1> QED BY <1>3

\* The rightmost node below n: it lies below n, has no edges, and everything else
\* below n comes before it.
LEMMA RightmostIsLast ==
    ASSUME IsFiniteSet(Keys), NEW h, NEW P, Tree(h, P), NEW n \in DOMAIN h
    PROVE  /\ Rightmost(h, n) \in DOMAIN h
           /\ IsPrefixOf(P[n], P[Rightmost(h, n)])
           /\ \A x \in DOMAIN h : IsPrefixOf(P[n], P[x]) =>
                 x = Rightmost(h, n) \/ Precedes(P[x], P[Rightmost(h, n)])
<1> DEFINE N == Cardinality(DOMAIN h)
           X == DOMAIN h
           T == [i \in 0..N |-> {x \in X : OnSpine(h, P, n, x, i)}]
           g == [x \in X |-> LastChild(h, x)]
           IsSpine(f) == f = [i \in 0..N |-> IF i = 0 THEN n ELSE LastChild(h, f[i - 1])]
           at == Spine(h, n)
<1>1. N \in Nat
  BY FewAbove
<1>2. OnSpine(h, P, n, n, 0)
  <2>1. P[n] \in Paths /\ Cardinality(Above(h, P, n)) \in Nat
    BY PathFacts, FewAbove
  <2>2. IsPrefixOf(P[n], P[n])
    BY <2>1 DEF IsPrefixOf, Paths
  <2> QED BY <2>1, <2>2 DEF OnSpine
<1>3. T \in [0..N -> SUBSET X] /\ n \in T[0]
  BY <1>1, <1>2
<1>4. g \in [X -> X]
  <2> SUFFICES ASSUME NEW x \in X PROVE LastChild(h, x) \in X
    OBVIOUS
  <2>1. Edges(h, x) \in SUBSET Chars
    BY NodeFacts DEF Tree
  <2>2. ASSUME Edges(h, x) # {}
        PROVE  (CHOOSE c \in Edges(h, x) : IsLast(Edges(h, x), c)) \in Edges(h, x)
    <3>1. \E c \in Edges(h, x) : IsLast(Edges(h, x), c)
      BY <2>1, <2>2, ExtremeChars, Zenon DEF IsLast
    <3> QED BY <3>1
  <2>3. \A c \in Edges(h, x) : h[x].children[c] \in X
    BY ChildFacts DEF IsChildAt
  <2> QED BY <2>2, <2>3 DEF LastChild
<1>5. \A i \in 1..N : \A x \in T[i - 1] : g[x] \in T[i]
  <2> SUFFICES ASSUME NEW i \in 1..N, NEW x \in T[i - 1] PROVE g[x] \in T[i]
    OBVIOUS
  <2>1. i - 1 \in Nat /\ (i - 1) + 1 = i /\ i - 1 \in 0..N /\ i \in 0..N
    BY <1>1
  <2>2. x \in X /\ OnSpine(h, P, n, x, i - 1)
    BY <2>1
  <2>3. OnSpine(h, P, n, g[x], i)
    BY <2>1, <2>2, SpineStep
  <2> QED BY <2>1, <2>3 DEF OnSpine
<1>6. \E f : IsSpine(f)
  <2>1. PICK f \in [0..N -> X] : KeepsTo(N, T, n, g, f)
    <3> HIDE DEF T, g, X, N
    <3> QED BY <1>1, <1>3, <1>4, <1>5, LoopRuns
  <2>2. \A i \in 1..N : i - 1 \in 0..N /\ f[i - 1] \in X /\ i # 0 /\ i \in 0..N
    BY <1>1, <2>1
  <2>3. f[0] = n /\ \A i \in 1..N : f[i] = LastChild(h, f[i - 1])
    BY <2>1, <2>2 DEF KeepsTo
  <2>4. \A i \in 0..N : i # 0 => i \in 1..N
    BY <1>1
  <2>5. IsSpine(f)
    BY <2>1, <2>3, <2>4
  <2> QED BY <2>5
<1>7. IsSpine(at)
  <2>1. at = CHOOSE f : IsSpine(f)
    BY Zenon DEF Spine
  <2> HIDE DEF IsSpine, at
  <2> QED BY <1>6, <2>1, Zenon
<1> HIDE DEF at
<1>8. Loops(N, T, n, g, at)
  <2>1. at = [i \in 0..N |-> IF i = 0 THEN n ELSE LastChild(h, at[i - 1])]
    BY <1>7, Zenon
  <2>2. \A i \in 1..N : i \in 0..N /\ i # 0 /\ i - 1 \in 0..N /\ 0 \in 0..N
    BY <1>1
  <2>3. at[0] = n
    BY <1>1, <2>1
  <2>4. \A i \in 1..N : at[i] = LastChild(h, at[i - 1])
    BY <2>1, <2>2
  <2>5. \A i \in 1..N : at[i - 1] \in T[i - 1] => at[i - 1] \in X
    BY <2>2
  <2>6. \A i \in 1..N : at[i - 1] \in T[i - 1] => at[i] = g[at[i - 1]]
    BY <2>4, <2>5
  <2> HIDE DEF T, g
  <2> QED BY <2>3, <2>6 DEF Loops
<1> DEFINE w == at[N]
<1>9. Rightmost(h, n) = w
  BY Zenon DEF Rightmost, Spine, LastChild, at
<1>10. OnSpine(h, P, n, w, N)
  <2>1. \A i \in 0..N : at[i] \in T[i]
    <3> HIDE DEF T, g, X, N
    <3> QED BY <1>1, <1>3, <1>4, <1>5, <1>8, LoopStays
  <2> QED BY <1>1, <2>1
<1> HIDE DEF w
<1>11. w \in DOMAIN h /\ IsPrefixOf(P[n], P[w])
  BY <1>10 DEF OnSpine
<1>12. Edges(h, w) = {}
  <2>1. Cardinality(Above(h, P, w)) < N /\ Cardinality(Above(h, P, w)) \in Nat
    BY <1>11, FewAbove
  <2> HIDE DEF N
  <2>2. ~(Cardinality(Above(h, P, w)) >= N)
    BY <1>1, <2>1
  <2> QED BY <1>10, <2>2 DEF OnSpine
<1>13. ASSUME NEW x \in DOMAIN h, IsPrefixOf(P[n], P[x]), x # w
       PROVE  Precedes(P[x], P[w])
  <2>1. ~IsPrefixOf(P[w], P[x])
    BY <1>11, <1>12, <1>13, WayDown DEF GoesTo
  <2> QED BY <1>10, <1>13, <2>1 DEF OnSpine
<1> QED BY <1>9, <1>11, <1>13

\* The nodes of S and one level more.
NextLevel(h, S) == S \cup UNION {{h[m].children[c] : c \in Edges(h, m)} : m \in S}

\* The loop of Below.
Levels(h, n) ==
    CHOOSE down : down = [i \in 0..Cardinality(DOMAIN h) |->
        IF i = 0 THEN {n} ELSE NextLevel(h, down[i - 1])]

\* i levels below the root are all nodes or more than i.
ManyOf(h, S, i) ==
    /\ S \in SUBSET DOMAIN h /\ RootNode \in S
    /\ S # DOMAIN h => Cardinality(S) >= i + 1

\* Each level adds a node until all are there: a node not reached yet whose path is
\* shortest is the child of one that is.
LEMMA LevelStep ==
    ASSUME IsFiniteSet(Keys), NEW h, NEW P, Tree(h, P), NEW i \in Nat, NEW S, ManyOf(h, S, i)
    PROVE  ManyOf(h, NextLevel(h, S), i + 1)
<1> DEFINE R == NextLevel(h, S)
<1>0. S \in SUBSET DOMAIN h /\ RootNode \in S /\ IsFiniteSet(DOMAIN h)
  BY FewAbove DEF ManyOf, Tree, HeapOK
<1>1. R \in SUBSET DOMAIN h /\ S \subseteq R
  <2>1. \A m \in S : \A c \in Edges(h, m) : h[m].children[c] \in DOMAIN h
    BY <1>0, ChildFacts DEF IsChildAt
  <2> QED BY <1>0, <2>1 DEF NextLevel
<1>2. ASSUME R # DOMAIN h PROVE Cardinality(R) >= i + 1 + 1
  <2> DEFINE L == {Len(P[m]) : m \in DOMAIN h \ S}
  <2>1. S # DOMAIN h
    BY <1>1, <1>2
  <2>2. L \in SUBSET Nat /\ L # {}
    <3>1. \A m \in DOMAIN h : Len(P[m]) \in Nat
      BY PathFacts
    <3>2. \E m \in DOMAIN h : m \notin S
      BY <1>0, <2>1
    <3> QED BY <3>1, <3>2
  <2>3. PICK x \in L : \A y \in L : x <= y
    <3> HIDE DEF L
    <3> QED BY <2>2, LeastNatural
  <2>4. PICK m \in DOMAIN h \ S : x = Len(P[m])
    BY <2>3
  <2>5. PICK p \in DOMAIN h : \E c \in Edges(h, p) : h[p].children[c] = m
    BY <1>0, <2>4 DEF Tree, IsChild
  <2>6. PICK c \in Edges(h, p) : h[p].children[c] = m
    BY <2>5, Zenon
  <2>7. Len(P[p]) < Len(P[m]) /\ Len(P[p]) \in Nat /\ Len(P[m]) \in Nat
    BY <2>6, ChildFacts DEF IsChildAt
  <2>8. p \in S
    <3> SUFFICES ASSUME p \notin S PROVE FALSE
      OBVIOUS
    <3>1. Len(P[p]) \in L
      OBVIOUS
    <3>2. x <= Len(P[p])
      BY <2>3, <3>1
    <3> QED BY <2>4, <2>7, <3>2
  <2>9. m \in R
    BY <2>6, <2>8 DEF NextLevel
  <2> HIDE DEF R
  <2>10. S \cup {m} \in SUBSET R /\ m \notin S
    BY <1>1, <2>4, <2>9
  <2>11. IsFiniteSet(S) /\ IsFiniteSet(R) /\ Cardinality(S) \in Nat /\ Cardinality(R) \in Nat
    BY <1>0, <1>1, FS_Subset, FS_CardinalityType
  <2>12. Cardinality(S \cup {m}) = Cardinality(S) + 1
    BY <2>10, <2>11, FS_AddElement
  <2>13. Cardinality(S \cup {m}) <= Cardinality(R)
    BY <2>10, <2>11, FS_Subset
  <2>14. Cardinality(S) >= i + 1
    BY <2>1 DEF ManyOf
  <2> QED BY <2>11, <2>12, <2>13, <2>14
<1> QED BY <1>0, <1>1, <1>2 DEF ManyOf

\* Every node lies below the root.
LEMMA BelowIsAll ==
    ASSUME IsFiniteSet(Keys), NEW P, Tree(heap, P)
    PROVE  Below(RootNode) = DOMAIN heap
<1> DEFINE N == Cardinality(DOMAIN heap)
           X == SUBSET DOMAIN heap
           T == [i \in 0..N |-> {S \in X : ManyOf(heap, S, i)}]
           g == [S \in X |-> NextLevel(heap, S)]
           AreLevels(f) == f = [i \in 0..N |-> IF i = 0 THEN {RootNode} ELSE NextLevel(heap, f[i - 1])]
           at == Levels(heap, RootNode)
<1>1. N \in Nat /\ RootNode \in DOMAIN heap /\ IsFiniteSet(DOMAIN heap)
  BY FewAbove DEF Tree, HeapOK
<1>2. ManyOf(heap, {RootNode}, 0)
  BY <1>1, FS_Singleton DEF ManyOf
<1>3. T \in [0..N -> SUBSET X] /\ {RootNode} \in T[0]
  BY <1>1, <1>2
<1>4. g \in [X -> X]
  <2>1. \A m \in DOMAIN heap : \A c \in Edges(heap, m) : heap[m].children[c] \in DOMAIN heap
    BY ChildFacts DEF IsChildAt
  <2> QED BY <2>1 DEF NextLevel
<1>5. \A i \in 1..N : \A S \in T[i - 1] : g[S] \in T[i]
  <2> SUFFICES ASSUME NEW i \in 1..N, NEW S \in T[i - 1] PROVE g[S] \in T[i]
    OBVIOUS
  <2>1. i - 1 \in Nat /\ (i - 1) + 1 = i /\ i - 1 \in 0..N /\ i \in 0..N
    BY <1>1
  <2>2. S \in X /\ ManyOf(heap, S, i - 1)
    BY <2>1
  <2>3. ManyOf(heap, g[S], i)
    BY <2>1, <2>2, LevelStep
  <2> QED BY <2>1, <2>3 DEF ManyOf
<1>6. \E f : AreLevels(f)
  <2>1. PICK f \in [0..N -> X] : KeepsTo(N, T, {RootNode}, g, f)
    <3> HIDE DEF T, g, X, N
    <3> QED BY <1>1, <1>3, <1>4, <1>5, LoopRuns
  <2>2. \A i \in 1..N : i - 1 \in 0..N /\ f[i - 1] \in X /\ i # 0 /\ i \in 0..N
    BY <1>1, <2>1
  <2>3. f[0] = {RootNode} /\ \A i \in 1..N : f[i] = NextLevel(heap, f[i - 1])
    BY <2>1, <2>2 DEF KeepsTo
  <2>4. \A i \in 0..N : i # 0 => i \in 1..N
    BY <1>1
  <2>5. AreLevels(f)
    BY <2>1, <2>3, <2>4
  <2> QED BY <2>5
<1>7. AreLevels(at)
  <2>1. at = CHOOSE f : AreLevels(f)
    BY Zenon DEF Levels
  <2> HIDE DEF AreLevels, at
  <2> QED BY <1>6, <2>1, Zenon
<1> HIDE DEF at
<1>8. Loops(N, T, {RootNode}, g, at)
  <2>1. at = [i \in 0..N |-> IF i = 0 THEN {RootNode} ELSE NextLevel(heap, at[i - 1])]
    BY <1>7, Zenon
  <2>2. \A i \in 1..N : i \in 0..N /\ i # 0 /\ i - 1 \in 0..N /\ 0 \in 0..N
    BY <1>1
  <2>3. at[0] = {RootNode}
    BY <1>1, <2>1
  <2>4. \A i \in 1..N : at[i] = NextLevel(heap, at[i - 1])
    BY <2>1, <2>2
  <2>5. \A i \in 1..N : at[i - 1] \in T[i - 1] => at[i - 1] \in X
    BY <2>2
  <2>6. \A i \in 1..N : at[i - 1] \in T[i - 1] => at[i] = g[at[i - 1]]
    BY <2>4, <2>5
  <2> HIDE DEF T, g
  <2> QED BY <2>3, <2>6 DEF Loops
<1>9. Below(RootNode) = at[N]
  BY Zenon DEF Below, Levels, NextLevel, at
<1>10. ManyOf(heap, at[N], N)
  <2>1. \A i \in 0..N : at[i] \in T[i]
    <3> HIDE DEF T, g, X, N
    <3> QED BY <1>1, <1>3, <1>4, <1>5, <1>8, LoopStays
  <2> QED BY <1>1, <2>1
<1> HIDE DEF N
<1>11. at[N] \in SUBSET DOMAIN heap
  BY <1>10 DEF ManyOf
<1>12. Cardinality(at[N]) <= N /\ Cardinality(at[N]) \in Nat
  BY <1>1, <1>11, FS_Subset, FS_CardinalityType DEF N
<1>13. ~(Cardinality(at[N]) >= N + 1)
  BY <1>1, <1>12
<1> QED BY <1>9, <1>10, <1>13 DEF ManyOf

-----------------------------------------------------------------------------
(* Path is the P of Tree *)

\* The node and the edge that lead to n, as Path chooses them.
ParentOf(h, n) == CHOOSE p \in DOMAIN h : \E c \in Edges(h, p) : h[p].children[c] = n

EdgeOf(h, n) == CHOOSE c \in Edges(h, ParentOf(h, n)) : h[ParentOf(h, n)].children[c] = n

\* Path in heap h.
PathIn(h) ==
    CHOOSE path : path = [n \in DOMAIN h |->
        IF n = RootNode THEN Root
        ELSE path[ParentOf(h, n)] \o <<EdgeOf(h, n)>> \o h[n].label]

\* Path is PathIn of the heap that is there.
LEMMA PathIsPathIn == Path = PathIn(heap)
BY Zenon DEF Path, PathIn, ParentOf, EdgeOf

\* The recursion over parents that defines Path has one solution: the paths that
\* the edges spell.
LEMMA PathIsUnique ==
    ASSUME NEW h, NEW P, Tree(h, P)
    PROVE  PathIn(h) = P
<1> DEFINE D == DOMAIN h
           Spells(path) == path = [n \in D |-> IF n = RootNode THEN Root
                                     ELSE path[ParentOf(h, n)] \o <<EdgeOf(h, n)>> \o h[n].label]
<1>1. ASSUME NEW n \in D, n # RootNode
      PROVE  /\ ParentOf(h, n) \in D /\ Len(P[ParentOf(h, n)]) < Len(P[n])
             /\ P[n] = P[ParentOf(h, n)] \o <<EdgeOf(h, n)>> \o h[n].label
  <2> DEFINE p == ParentOf(h, n)  c == EdgeOf(h, n)
  <2>1. \E q \in D : \E d \in Edges(h, q) : h[q].children[d] = n
    BY <1>1 DEF Tree, IsChild
  <2>2. p \in D /\ \E d \in Edges(h, p) : h[p].children[d] = n
    BY <2>1, Zenon DEF ParentOf
  <2>3. c \in Edges(h, p) /\ h[p].children[c] = n
    BY <2>2, Zenon DEF EdgeOf
  <2> HIDE DEF p, c
  <2>4. IsChildAt(h, P, p, c, n)
    BY <2>2, <2>3, ChildFacts
  <2>5. Len(P[p]) < Len(P[n]) /\ P[n] = P[p] \o <<c>> \o h[n].label
    BY <2>4 DEF IsChildAt
  <2> QED BY <2>2, <2>5 DEF p, c
<1>2. Spells(P)
  <2>1. P = [n \in D |-> P[n]] /\ P[RootNode] = Root
    BY DEF Tree
  <2>2. \A n \in D : P[n] = IF n = RootNode THEN Root
                            ELSE P[ParentOf(h, n)] \o <<EdgeOf(h, n)>> \o h[n].label
    BY <1>1, <2>1
  <2> QED BY <2>1, <2>2
<1> DEFINE f == PathIn(h)
<1>3. Spells(f)
  <2>1. f = CHOOSE path : Spells(path)
    BY Zenon DEF PathIn
  <2> HIDE DEF Spells, f
  <2> QED BY <1>2, <2>1, Zenon
<1> HIDE DEF f
<1>4. ASSUME NEW n \in D, f[n] # P[n] PROVE FALSE
  <2> DEFINE T == {Len(P[m]) : m \in {m \in D : f[m] # P[m]}}
  <2>1. T \in SUBSET Nat /\ T # {}
    <3>1. \A m \in D : Len(P[m]) \in Nat
      BY PathFacts
    <3> QED BY <1>4, <3>1
  <2>2. PICK x \in T : \A y \in T : x <= y
    <3> HIDE DEF T
    <3> QED BY <2>1, LeastNatural
  <2>3. PICK m \in D : f[m] # P[m] /\ x = Len(P[m])
    BY <2>2
  <2>4. m # RootNode
    BY <1>3, <2>3 DEF Tree
  <2>5. /\ ParentOf(h, m) \in D /\ Len(P[ParentOf(h, m)]) < Len(P[m])
        /\ P[m] = P[ParentOf(h, m)] \o <<EdgeOf(h, m)>> \o h[m].label
    BY <1>1, <2>4
  <2>6. f[m] = f[ParentOf(h, m)] \o <<EdgeOf(h, m)>> \o h[m].label
    BY <1>3, <2>4, Zenon
  <2>7. f[ParentOf(h, m)] # P[ParentOf(h, m)]
    BY <2>3, <2>5, <2>6
  <2>8. Len(P[ParentOf(h, m)]) \in T
    BY <2>5, <2>7
  <2>9. Len(P[m]) <= Len(P[ParentOf(h, m)])
    BY <2>2, <2>3, <2>8
  <2>10. Len(P[m]) \in Nat /\ Len(P[ParentOf(h, m)]) \in Nat
    BY <2>5, PathFacts
  <2>11. Len(P[ParentOf(h, m)]) < Len(P[m])
    BY <2>5
  <2> DEFINE a == Len(P[m])  b == Len(P[ParentOf(h, m)])
  <2>12. a \in Nat /\ b \in Nat /\ b < a /\ a <= b
    BY <2>9, <2>10, <2>11
  <2> HIDE DEF a, b
  <2> QED BY <2>12
<1>5. DOMAIN f = D
  BY <1>3
<1>6. f = [n \in D |-> f[n]]
  <2>1. \A n \in D : f[n] = P[n]
    BY <1>4
  <2> QED BY <1>3
<1>7. f = P
  <2>1. P = [n \in D |-> P[n]]
    BY DEF Tree
  <2> QED BY <1>4, <1>6, <2>1
<1> QED BY <1>7 DEF f

-----------------------------------------------------------------------------
(* New nodes in the tree *)

\* The tree is a matter of edges and labels.
LEMMA SameTree ==
    ASSUME NEW h, NEW P, Tree(h, P), NEW g, HeapOK(g), DOMAIN g = DOMAIN h,
           \A n \in DOMAIN h : g[n].label = h[n].label /\ g[n].children = h[n].children
    PROVE  Tree(g, P)
<1>1. \A n \in DOMAIN h : Edges(g, n) = Edges(h, n)
  BY Zenon DEF Edges
<1>2. ASSUME NEW n \in DOMAIN g, NEW c \in Edges(g, n) PROVE Leads(g, P, n, c)
  <2>1. c \in Edges(h, n) /\ g[n].children = h[n].children
    BY <1>1
  <2>2. Leads(h, P, n, c)
    BY <2>1 DEF Tree
  <2> QED BY <2>1, <2>2 DEF Leads
<1>3. ASSUME NEW n \in DOMAIN g, n # RootNode PROVE IsChild(g, n)
  <2>1. PICK p \in DOMAIN h : \E c \in Edges(h, p) : h[p].children[c] = n
    BY <1>3 DEF Tree, IsChild
  <2>2. PICK c \in Edges(h, p) : h[p].children[c] = n
    BY <2>1
  <2>3. p \in DOMAIN g /\ c \in Edges(g, p) /\ g[p].children[c] = n
    BY <1>1, <2>2
  <2> QED BY <2>3 DEF IsChild
<1>4. P \in [DOMAIN g -> Prefixes] /\ P[RootNode] = Root
  BY DEF Tree
<1>5. \A m, n \in DOMAIN g : P[m] = P[n] => m = n
  BY DEF Tree
<1> QED BY <1>2, <1>3, <1>4, <1>5 DEF Tree

\* g is h with a leaf `new` with label l along edge c of p.
Grafted(h, g, p, c, new, l) ==
    /\ new \notin DOMAIN h /\ DOMAIN g = DOMAIN h \cup {new}
    /\ g[new].label = l /\ Edges(g, new) = {}
    /\ \A n \in DOMAIN h : g[n].label = h[n].label
    /\ \A n \in DOMAIN h : n # p => g[n].children = h[n].children
    /\ g[p].children = With(h[p].children, c, new)

\* A tree with a leaf along a new edge is a tree, and spells the leaf's path there.
LEMMA GraftKeepsTree ==
    ASSUME NEW h, NEW P, Tree(h, P), NEW p \in DOMAIN h, NEW c \in Chars, c \notin Edges(h, p),
           NEW l \in Seq(Chars), P[p] \o <<c>> \o l \in Prefixes,
           NEW g, HeapOK(g), NEW new, Grafted(h, g, p, c, new, l)
    PROVE  Tree(g, With(P, new, P[p] \o <<c>> \o l))
<1> DEFINE q == P[p] \o <<c>> \o l
           Q == With(P, new, q)
<1>0. /\ new \notin DOMAIN h /\ DOMAIN g = DOMAIN h \cup {new}
      /\ g[new].label = l /\ Edges(g, new) = {} /\ RootNode \in DOMAIN h
      /\ P \in [DOMAIN h -> Prefixes] /\ P[RootNode] = Root /\ p # new
  BY DEF Grafted, Tree, HeapOK
<1>1. /\ DOMAIN Q = DOMAIN g /\ Q[new] = q /\ (\A x \in DOMAIN h : Q[x] = P[x])
      /\ Q = [x \in DOMAIN g |-> Q[x]]
  <2>1. DOMAIN Q = DOMAIN g /\ Q[new] = q /\ (\A x \in DOMAIN h : Q[x] = P[x])
    BY <1>0 DEF With
  <2>2. \E S : Q = [x \in S |-> IF x = new THEN q ELSE P[x]]
    BY DEF With
  <2> HIDE DEF Q
  <2> QED BY <2>1, <2>2
<1>2. /\ q \in Prefixes /\ q \in Paths /\ IsPrefixOf(P[p], q) /\ Len(P[p]) < Len(q)
      /\ q[Len(P[p]) + 1] = c
  <2>1. P[p] \in Seq(Chars)
    BY PathFacts
  <2>2. /\ Len(q) = Len(P[p]) + 1 + Len(l) /\ IsPrefixOf(P[p], q) /\ q[Len(P[p]) + 1] = c
        /\ Len(P[p]) \in Nat /\ Len(l) \in Nat
    BY <2>1, Spelling
  <2> HIDE DEF q
  <2>3. Len(P[p]) < Len(q)
    BY <2>2
  <2> QED BY <2>2, <2>3, AddressFacts DEF q
<1> HIDE DEF Q, q
<1>3. Q \in [DOMAIN g -> Prefixes]
  BY <1>0, <1>1, <1>2
<1>4. /\ Edges(g, p) = Edges(h, p) \cup {c} /\ g[p].children[c] = new
      /\ \A d \in Edges(h, p) : g[p].children[d] = h[p].children[d]
  <2> DEFINE f == h[p].children  k == With(f, c, new)
  <2>1. /\ DOMAIN k = DOMAIN f \cup {c} /\ k[c] = new
        /\ \A z \in DOMAIN f : z # c => k[z] = f[z]
    BY DEF With
  <2>2. g[p].children = k
    BY DEF Grafted
  <2>3. c \notin DOMAIN f
    BY DEF Edges
  <2> HIDE DEF k
  <2> QED BY <2>1, <2>2, <2>3 DEF Edges
<1>5. \A n \in DOMAIN h : n # p => Edges(g, n) = Edges(h, n) /\ g[n].children = h[n].children
  BY Zenon DEF Grafted, Edges
<1>6. ASSUME NEW n \in DOMAIN h, NEW d \in Edges(h, n)
      PROVE  /\ d \in Edges(g, n) /\ g[n].children[d] = h[n].children[d]
             /\ Leads(g, Q, n, d)
  <2>1. d \in Edges(g, n) /\ g[n].children[d] = h[n].children[d]
    BY <1>4, <1>5
  <2> DEFINE m == h[n].children[d]
  <2>2. m \in DOMAIN h /\ P[m] = P[n] \o <<d>> \o h[m].label
    BY DEF Tree, Leads
  <2>3. g[m].label = h[m].label
    BY <2>2 DEF Grafted
  <2> QED BY <1>0, <1>1, <2>1, <2>2, <2>3 DEF Leads
<1>7. Leads(g, Q, p, c)
  BY <1>0, <1>1, <1>4 DEF Leads, q
<1>8. ASSUME NEW n \in DOMAIN g, NEW d \in Edges(g, n) PROVE Leads(g, Q, n, d)
  <2>1. n \in DOMAIN h
    BY <1>0
  <2>2. CASE d \in Edges(h, n)
    BY <1>6, <2>1, <2>2
  <2>3. CASE d \notin Edges(h, n)
    <3>1. n = p /\ d = c
      BY <1>4, <1>5, <2>1, <2>3
    <3> QED BY <1>7, <3>1
  <2> QED BY <2>2, <2>3
<1>9. ASSUME NEW n \in DOMAIN g, n # RootNode PROVE IsChild(g, n)
  <2>1. CASE n = new
    BY <1>0, <1>4, <2>1 DEF IsChild
  <2>2. CASE n # new
    <3>1. PICK x \in DOMAIN h : \E d \in Edges(h, x) : h[x].children[d] = n
      BY <1>0, <1>9, <2>2 DEF Tree, IsChild
    <3>2. PICK d \in Edges(h, x) : h[x].children[d] = n
      BY <3>1
    <3>3. x \in DOMAIN g /\ d \in Edges(g, x) /\ g[x].children[d] = n
      BY <1>0, <1>6, <3>2
    <3> QED BY <3>3 DEF IsChild
  <2> QED BY <2>1, <2>2
<1>10. ASSUME NEW x \in DOMAIN h, P[x] = q PROVE FALSE
  <2>1. p # x
    BY <1>2, <1>10
  <2>2. GoesTo(h, P, p, x)
    BY <1>2, <1>10, <2>1, WayDown
  <2> QED BY <1>2, <1>10, <2>2 DEF GoesTo
<1>11. \A m, n \in DOMAIN g : Q[m] = Q[n] => m = n
  <2> SUFFICES ASSUME NEW m \in DOMAIN g, NEW n \in DOMAIN g, Q[m] = Q[n] PROVE m = n
    OBVIOUS
  <2>1. CASE m \in DOMAIN h /\ n \in DOMAIN h
    BY <1>1, <2>1 DEF Tree
  <2> QED BY <1>0, <1>1, <1>10, <2>1
<1>12. Q[RootNode] = Root
  BY <1>0, <1>1
<1>13. Tree(g, Q)
  BY <1>3, <1>8, <1>9, <1>11, <1>12 DEF Tree
<1> QED BY <1>13 DEF Q, q

\* Where the label l of the path b is cut after m characters, at the path r.
CutAt(p, c, l, m, r, b) ==
    /\ SubSeq(l, 1, m) \in Seq(Chars) /\ SubSeq(l, m + 2, Len(l)) \in Seq(Chars)
    /\ l[m + 1] \in Chars
    /\ r \in Seq(Chars) /\ b \in Seq(Chars) /\ Len(r) = Len(p) + 1 + m
    /\ Len(p) < Len(r) /\ Len(r) < Len(b)
    /\ IsPrefixOf(p, r) /\ IsPrefixOf(r, b) /\ b[Len(r) + 1] = l[m + 1]
    /\ b = r \o <<l[m + 1]>> \o SubSeq(l, m + 2, Len(l))

\* A label cut after m characters spells the same path in two edges.
LEMMA CutSpelling ==
    ASSUME NEW p \in Seq(Chars), NEW c \in Chars, NEW l \in Seq(Chars),
           NEW m \in Nat, m < Len(l)
    PROVE  CutAt(p, c, l, m, p \o <<c>> \o SubSeq(l, 1, m), p \o <<c>> \o l)
<1> DEFINE u == SubSeq(l, 1, m)
           w == SubSeq(l, m + 2, Len(l))
           r == p \o <<c>> \o u
           b == p \o <<c>> \o l
<1>1. /\ u \in Seq(Chars) /\ Len(u) = m /\ \A i \in 1..m : u[i] = l[i]
      /\ w \in Seq(Chars) /\ Len(w) = Len(l) - (m + 1)
      /\ \A i \in 1..Len(w) : w[i] = l[m + 1 + i]
      /\ l[m + 1] \in Chars /\ Len(l) \in Nat /\ Len(p) \in Nat /\ Len(w) \in Nat
  OBVIOUS
<1> HIDE DEF u, w
<1>2. /\ r \in Seq(Chars) /\ Len(r) = Len(p) + 1 + m /\ IsPrefixOf(p, r)
      /\ r[Len(p) + 1] = c /\ \A i \in 1..m : r[Len(p) + 1 + i] = l[i]
  <2>1. /\ r \in Seq(Chars) /\ Len(r) = Len(p) + 1 + Len(u) /\ IsPrefixOf(p, r)
        /\ r[Len(p) + 1] = c /\ \A i \in 1..Len(u) : r[Len(p) + 1 + i] = u[i]
    <3>1. u \in Seq(Chars)
      BY <1>1
    <3> QED BY <3>1, Spelling
  <2> HIDE DEF r
  <2> QED BY <1>1, <2>1
<1>3. /\ b \in Seq(Chars) /\ Len(b) = Len(p) + 1 + Len(l) /\ IsPrefixOf(p, b)
      /\ b[Len(p) + 1] = c /\ \A i \in 1..Len(l) : b[Len(p) + 1 + i] = l[i]
  BY Spelling
<1> HIDE DEF r, b
<1>4. IsPrefixOf(r, b)
  <2>1. Len(r) <= Len(b)
    BY <1>1, <1>2, <1>3
  <2>2. ASSUME NEW i \in 1..Len(r) PROVE r[i] = b[i]
    <3>1. CASE i \in 1..Len(p)
      BY <1>2, <1>3, <3>1 DEF IsPrefixOf
    <3>2. CASE i = Len(p) + 1
      BY <1>2, <1>3, <3>2
    <3>3. CASE i > Len(p) + 1
      <4> DEFINE j == i - (Len(p) + 1)
      <4>1. j \in 1..m /\ j \in 1..Len(l) /\ i = Len(p) + 1 + j
        BY <1>1, <1>2, <3>3
      <4> HIDE DEF j
      <4> QED BY <1>2, <1>3, <4>1
    <3>4. i \in Nat /\ i >= 1
      OBVIOUS
    <3> QED BY <1>1, <3>1, <3>2, <3>3, <3>4
  <2> QED BY <2>1, <2>2 DEF IsPrefixOf
<1>5. b[Len(r) + 1] = l[m + 1]
  <2> DEFINE a == Len(r)  e == Len(p)  f == Len(l)
  <2>0. a = e + 1 + m /\ e \in Nat /\ f \in Nat /\ m < f
    BY <1>1, <1>2
  <2> HIDE DEF a, e, f
  <2>1. m + 1 \in 1..f /\ a + 1 = e + 1 + (m + 1)
    BY <2>0
  <2> USE DEF a, e, f
  <2> QED BY <1>3, <2>1
<1>6. ASSUME NEW i \in 1..Len(w) PROVE b[Len(r) + 1 + i] = w[i]
  <2>1. m + 1 + i \in 1..Len(l) /\ Len(r) + 1 + i = Len(p) + 1 + (m + 1 + i)
    BY <1>1, <1>2
  <2> QED BY <1>1, <1>3, <2>1
<1>7. Len(b) = Len(r) + 1 + Len(w) /\ Len(p) < Len(r) /\ Len(r) < Len(b)
  BY <1>1, <1>2, <1>3
<1>8. b = r \o <<l[m + 1]>> \o w
  <2> DEFINE o == l[m + 1]
  <2>1. o \in Chars /\ w \in Seq(Chars) /\ r \in Seq(Chars) /\ b \in Seq(Chars)
    BY <1>1, <1>2, <1>3
  <2>2. b[Len(r) + 1] = o
    BY <1>5
  <2> HIDE DEF o
  <2>3. b = r \o <<o>> \o w
    BY <1>4, <1>6, <1>7, <2>1, <2>2, SpelledBy
  <2> QED BY <2>3 DEF o
<1>9. CutAt(p, c, l, m, r, b)
  BY <1>1, <1>2, <1>3, <1>4, <1>5, <1>7, <1>8 DEF CutAt, u, w
<1> QED BY <1>9 DEF r, b, u

\* g is h with the label l of n cut after m characters: n keeps what is above, and
\* what is below, with the edges of n, is the node `old`.
Cut(h, g, n, m, old) ==
    LET l == h[n].label
    IN /\ old \notin DOMAIN h /\ DOMAIN g = DOMAIN h \cup {old}
       /\ g[n].label = SubSeq(l, 1, m)
       /\ Edges(g, n) = {l[m + 1]} /\ g[n].children[l[m + 1]] = old
       /\ g[old].label = SubSeq(l, m + 2, Len(l)) /\ g[old].children = h[n].children
       /\ \A x \in DOMAIN h : x # n => g[x].label = h[x].label /\ g[x].children = h[x].children

\* The paths after that: r is the path of n.
CutPaths(P, n, old, r) ==
    [x \in DOMAIN P \cup {old} |-> IF x = old THEN P[n] ELSE IF x = n THEN r ELSE P[x]]

\* r is the path to where the label of n, the child of p along c, is cut after m
\* characters.
IsCutPoint(h, P, p, c, n, m, r) ==
    /\ c \in Edges(h, p) /\ n = h[p].children[c]
    /\ m < Len(h[n].label) /\ r = P[p] \o <<c>> \o SubSeq(h[n].label, 1, m)

\* What is known there.
LEMMA CutPointFacts ==
    ASSUME NEW h, NEW P, Tree(h, P), NEW p \in DOMAIN h, NEW c, NEW n, NEW m \in Nat,
           NEW r \in Prefixes, IsCutPoint(h, P, p, c, n, m, r)
    PROVE  /\ IsChildAt(h, P, p, c, n) /\ CutAt(P[p], c, h[n].label, m, r, P[n])
           /\ n = h[p].children[c] /\ m < Len(h[n].label)
           /\ \A x \in DOMAIN h : IsPrefixOf(r, P[x]) => IsPrefixOf(P[n], P[x])
<1> DEFINE l == h[n].label
           a == P[p]
           s == a \o <<c>> \o SubSeq(l, 1, m)
           b == a \o <<c>> \o l
<1>1. c \in Edges(h, p) /\ n = h[p].children[c] /\ m < Len(l) /\ r = s
  BY Zenon DEF IsCutPoint
<1>2. IsChildAt(h, P, p, c, n)
  BY <1>1, ChildFacts, Zenon
<1>3. a \in Seq(Chars) /\ c \in Chars /\ l \in Seq(Chars) /\ P[n] = b
  BY <1>2, Zenon DEF IsChildAt
<1>4. CutAt(a, c, l, m, s, b)
  <2> HIDE DEF l, a
  <2> QED BY <1>1, <1>3, CutSpelling, Zenon
<1>5. r \in Paths /\ IsPrefixOf(r, P[n]) /\ Len(r) > Len(a)
  <2>1. CutAt(a, c, l, m, r, P[n])
    BY <1>1, <1>3, <1>4, Zenon
  <2> DEFINE u == Len(r)  v == Len(a)
  <2>2. v < u
    BY <2>1, Zenon DEF CutAt
  <2> HIDE DEF u, v
  <2>3. u > v
    BY <2>2
  <2> QED BY <2>1, <2>3, AddressFacts, Zenon DEF CutAt, u, v
<1>6. \A x \in DOMAIN h : IsPrefixOf(r, P[x]) => IsPrefixOf(P[n], P[x])
  <2> HIDE DEF l, s, b
  <2> QED BY <1>1, <1>5, BelowTheChild, Zenon
<1> QED BY <1>1, <1>2, <1>3, <1>4, <1>6, Zenon

\* A tree with a label cut in two is a tree; no path changes but that of the node
\* that keeps its address.
LEMMA CutKeepsTree ==
    ASSUME NEW h, NEW P, Tree(h, P), NEW p \in DOMAIN h, NEW c, NEW n, NEW m \in Nat,
           NEW r \in Prefixes, IsCutPoint(h, P, p, c, n, m, r),
           NEW g, HeapOK(g), NEW old, Cut(h, g, n, m, old)
    PROVE  Tree(g, CutPaths(P, n, old, r))
<1> DEFINE l == h[n].label
           o == l[m + 1]
           Q == CutPaths(P, n, old, r)
<1>0. /\ old \notin DOMAIN h /\ DOMAIN g = DOMAIN h \cup {old}
      /\ g[n].label = SubSeq(l, 1, m)
      /\ Edges(g, n) = {o} /\ g[n].children[o] = old
      /\ g[old].label = SubSeq(l, m + 2, Len(l)) /\ g[old].children = h[n].children
      /\ \A x \in DOMAIN h : x # n => g[x].label = h[x].label /\ g[x].children = h[x].children
  BY Zenon DEF Cut
<1>1. /\ P \in [DOMAIN h -> Prefixes] /\ P[RootNode] = Root /\ RootNode \in DOMAIN h
  BY DEF Tree, HeapOK
<1>2. /\ IsChildAt(h, P, p, c, n) /\ CutAt(P[p], c, l, m, r, P[n])
      /\ n = h[p].children[c]
      /\ \A x \in DOMAIN h : IsPrefixOf(r, P[x]) => IsPrefixOf(P[n], P[x])
  <2>1. IsChildAt(h, P, p, c, n) /\ CutAt(P[p], c, h[n].label, m, r, P[n])
    BY CutPointFacts, Zenon
  <2>2. n = h[p].children[c]
    BY Zenon DEF IsCutPoint
  <2>3. \A x \in DOMAIN h : IsPrefixOf(r, P[x]) => IsPrefixOf(P[n], P[x])
    BY CutPointFacts, Zenon
  <2> QED BY <2>1, <2>2, <2>3, Zenon
<1>3. /\ n \in DOMAIN h /\ n # p /\ n # RootNode /\ n # old /\ c \in Chars /\ p # old
      /\ P[n] = P[p] \o <<c>> \o l /\ P[p] \in Seq(Chars) /\ l \in Seq(Chars)
      /\ P[n] \in Paths /\ r \in Paths
  BY <1>0, <1>2, AddressFacts, Zenon DEF IsChildAt
<1>4. /\ Len(P[p]) < Len(r) /\ Len(r) < Len(P[n]) /\ IsPrefixOf(r, P[n])
      /\ P[n] = r \o <<o>> \o SubSeq(l, m + 2, Len(l))
  BY <1>2, Zenon DEF CutAt
<1>5. /\ DOMAIN Q = DOMAIN g /\ Q[old] = P[n] /\ Q[n] = r
      /\ \A x \in DOMAIN h : x # n => Q[x] = P[x]
      /\ Q \in [DOMAIN g -> Prefixes]
  BY <1>0, <1>1, <1>3, Zenon DEF CutPaths
<1> HIDE DEF Q, l, o
<1>6. \A x \in DOMAIN h : x # n => Edges(g, x) = Edges(h, x)
  BY <1>0, Zenon DEF Edges
<1>7. Edges(g, old) = Edges(h, n)
  BY <1>0, Zenon DEF Edges
<1>8. ASSUME NEW x \in DOMAIN h, x # n, NEW d \in Edges(h, x) PROVE Leads(g, Q, x, d)
  <2> DEFINE y == h[x].children[d]
  <2>0. Leads(h, P, x, d) /\ g[x].children = h[x].children
    BY <1>0, <1>8, Zenon DEF Tree
  <2>1. y \in DOMAIN h /\ P[y] = P[x] \o <<d>> \o h[y].label /\ g[x].children[d] = y
    BY <2>0 DEF Leads
  <2>2. CASE y = n
    <3>1. x = p /\ d = c
      <4>1. c \in Edges(h, p) /\ h[p].children[c] = h[x].children[d]
        BY <1>2, <2>2, Zenon DEF IsCutPoint
      <4> QED BY <1>8, <4>1, OneParent, Zenon
    <3>2. Q[y] = Q[x] \o <<d>> \o g[y].label
      <4>1. r = P[p] \o <<c>> \o SubSeq(l, 1, m)
        BY Zenon DEF IsCutPoint, l
      <4> QED BY <1>0, <1>3, <1>5, <2>2, <3>1, <4>1, Zenon
    <3>3. g[x].children[d] = y /\ y \in DOMAIN g
      BY <1>0, <2>1, Zenon
    <3> HIDE DEF y
    <3> QED BY <3>2, <3>3 DEF Leads
  <2>3. CASE y # n
    <3>1. y \in DOMAIN g /\ Q[y] = P[y] /\ g[y].label = h[y].label /\ Q[x] = P[x]
      BY <1>0, <1>5, <1>8, <2>1, <2>3, Zenon
    <3> QED BY <2>1, <3>1 DEF Leads
  <2> QED BY <2>2, <2>3, Zenon
<1>9. ASSUME NEW d \in Edges(h, n) PROVE Leads(g, Q, old, d)
  <2> DEFINE y == h[n].children[d]
  <2>0. Leads(h, P, n, d) /\ g[old].children = h[n].children /\ IsChildAt(h, P, n, d, y)
    BY <1>0, <1>3, ChildFacts DEF Tree
  <2>1. y \in DOMAIN h /\ P[y] = P[n] \o <<d>> \o h[y].label /\ g[old].children[d] = y
    BY <2>0, Zenon DEF Leads
  <2> HIDE DEF y
  <2>2. y # n
    BY <2>0, Zenon DEF IsChildAt
  <2>3. y \in DOMAIN g /\ Q[y] = P[y] /\ g[y].label = h[y].label /\ Q[old] = P[n]
    BY <1>0, <1>5, <2>1, <2>2, Zenon
  <2> QED BY <2>1, <2>3, Zenon DEF Leads
<1>10. Leads(g, Q, n, o)
  BY <1>0, <1>4, <1>5, Zenon DEF Leads
<1>11. \A x \in DOMAIN g : \A d \in Edges(g, x) : Leads(g, Q, x, d)
  BY <1>0, <1>6, <1>7, <1>8, <1>9, <1>10
<1>12. ASSUME NEW x \in DOMAIN h, P[x] = r PROVE FALSE
  <2>1. IsPrefixOf(r, P[x])
    BY <1>3, <1>12 DEF IsPrefixOf, Paths
  <2>2. IsPrefixOf(P[n], P[x])
    BY <1>2, <2>1, Zenon
  <2>3. Len(P[n]) \in Nat /\ Len(r) \in Nat
    <3>1. Len(P[n]) \in Nat
      BY <1>2 DEF IsChildAt
    <3>2. r \in Seq(Chars)
      BY AddressFacts
    <3>3. \A z \in Seq(Chars) : Len(z) \in Nat
      OBVIOUS
    <3> QED BY <3>1, <3>2, <3>3
  <2>4. Len(P[n]) <= Len(r)
    <3> DEFINE z == P[x]
    <3>1. Len(P[n]) <= Len(z)
      BY <2>2, Zenon DEF IsPrefixOf
    <3>2. z = r
      BY <1>12, Zenon
    <3> HIDE DEF z
    <3> QED BY <3>1, <3>2
  <2> DEFINE a == Len(P[n])  e == Len(r)
  <2>5. a \in Nat /\ e \in Nat /\ a <= e /\ e < a
    BY <1>4, <2>3, <2>4
  <2> HIDE DEF a, e
  <2> QED BY <2>5
<1>13. ASSUME NEW x \in DOMAIN g, NEW y \in DOMAIN g, Q[x] = Q[y] PROVE x = y
  <2>1. CASE x = n \/ y = n
    <3>1. \A z \in DOMAIN g : z # n => Q[z] # r
      BY <1>0, <1>3, <1>5, <1>12, Zenon
    <3> QED BY <1>5, <1>13, <2>1, <3>1
  <2>2. CASE x # n /\ y # n
    <3>1. \A z \in DOMAIN h : z # n => P[z] # P[n]
      BY <1>3 DEF Tree
    <3>2. \A z, v \in DOMAIN h : P[z] = P[v] => z = v
      BY DEF Tree
    <3> QED BY <1>0, <1>5, <1>13, <2>2, <3>1, <3>2
  <2> QED BY <2>1, <2>2
<1>14. ASSUME NEW y \in DOMAIN g, y # RootNode PROVE IsChild(g, y)
  <2>1. CASE y = old
    BY <1>0, <1>3, <2>1, Zenon DEF IsChild
  <2>2. CASE y # old
    <3>1. PICK x \in DOMAIN h : \E d \in Edges(h, x) : h[x].children[d] = y
      BY <1>0, <1>14, <2>2, Zenon DEF Tree, IsChild
    <3>2. PICK d \in Edges(h, x) : h[x].children[d] = y
      BY <3>1, Zenon
    <3>3. CASE x = n
      BY <1>0, <1>7, <3>2, <3>3, Zenon DEF IsChild
    <3>4. CASE x # n
      BY <1>0, <1>6, <3>2, <3>4, Zenon DEF IsChild
    <3> QED BY <3>3, <3>4, Zenon
  <2> QED BY <2>1, <2>2, Zenon
<1>15. Q[RootNode] = Root
  BY <1>1, <1>3, <1>5, Zenon
<1>16. Tree(g, Q)
  BY <1>5, <1>11, <1>13, <1>14, <1>15 DEF Tree
<1> QED BY <1>16 DEF Q

-----------------------------------------------------------------------------
(* The list *)

\* The successor of n on the list is the next node in key order.
IsNext(h, P, n) ==
    LET y == h[n].next
    IN /\ y \in DOMAIN h \cup {NoNode}
       /\ y # NoNode => Precedes(P[n], P[y])
       /\ \A x \in DOMAIN h : Precedes(P[n], P[x]) => y # NoNode /\ ~Precedes(P[x], P[y])

\* The list visits the nodes in key order.
Listed(h, P) == \A n \in DOMAIN h : IsNext(h, P, n)

\* P gives each node of D a path of its own.
Places(D, P) ==
    /\ \A n \in D : P[n] \in Paths
    /\ \A m, n \in D : P[m] = P[n] => m = n

\* g is the list h with `new` after `left`.
Linked(h, g, left, new) ==
    /\ new \notin DOMAIN h /\ new # NoNode /\ DOMAIN g = DOMAIN h \cup {new}
    /\ g[new].next = h[left].next /\ g[left].next = new
    /\ \A x \in DOMAIN h : x # left => g[x].next = h[x].next

\* A node with path q put after `left`, in front of all that come after `left`.
LEMMA InsertKeepsList ==
    ASSUME NEW h, NEW P, Places(DOMAIN h, P), Listed(h, P), NoNode \notin DOMAIN h,
           NEW left \in DOMAIN h, NEW q \in Paths, Precedes(P[left], q),
           \A x \in DOMAIN h : Precedes(P[left], P[x]) => Precedes(q, P[x]),
           NEW new, NEW g, Linked(h, g, left, new),
           NEW Q, Q[new] = q, \A x \in DOMAIN h : Q[x] = P[x]
    PROVE  Listed(g, Q)
<1> DEFINE D == DOMAIN h
<1>0. /\ new \notin D /\ new # NoNode /\ DOMAIN g = D \cup {new}
      /\ g[new].next = h[left].next /\ g[left].next = new
      /\ \A x \in D : x # left => g[x].next = h[x].next
  BY DEF Linked
<1>1. \A x \in D : P[x] \in Paths
  BY DEF Places
<1>2. IsNext(g, Q, new)
  <2> DEFINE y == h[left].next
  <2>1. /\ y \in D \cup {NoNode} /\ (y # NoNode => Precedes(P[left], P[y]))
        /\ \A x \in D : Precedes(P[left], P[x]) => y # NoNode /\ ~Precedes(P[x], P[y])
    BY DEF Listed, IsNext
  <2> HIDE DEF y
  <2>2. y # NoNode => Precedes(q, P[y]) /\ Q[y] = P[y]
    BY <2>1
  <2>3. ASSUME NEW x \in DOMAIN g, Precedes(q, Q[x])
        PROVE  y # NoNode /\ ~Precedes(Q[x], Q[y])
    <3>1. x \in D
      BY <1>0, <2>3, PrecedesIrreflexive
    <3>2. Precedes(P[left], P[x])
      BY <1>1, <2>3, <3>1, PrecedesTransitive
    <3> QED BY <2>1, <2>2, <3>1, <3>2
  <2>4. g[new].next = y
    BY <1>0 DEF y
  <2> QED BY <1>0, <2>1, <2>2, <2>3, <2>4 DEF IsNext
<1>3. IsNext(g, Q, left)
  <2>1. ASSUME NEW x \in DOMAIN g, Precedes(Q[left], Q[x]) PROVE ~Precedes(Q[x], q)
    <3>1. CASE x = new
      BY <3>1, PrecedesIrreflexive
    <3>2. CASE x \in D
      <4>1. Precedes(q, P[x])
        BY <2>1, <3>2
      <4> QED BY <1>1, <3>2, <4>1, PrecedesAsymmetric
    <3> QED BY <1>0, <3>1, <3>2
  <2> QED BY <1>0, <2>1 DEF IsNext
<1>4. ASSUME NEW n \in D, n # left PROVE IsNext(g, Q, n)
  <2> DEFINE y == h[n].next
  <2>1. /\ y \in D \cup {NoNode} /\ (y # NoNode => Precedes(P[n], P[y]))
        /\ \A x \in D : Precedes(P[n], P[x]) => y # NoNode /\ ~Precedes(P[x], P[y])
    BY DEF Listed, IsNext
  <2>2. g[n].next = y
    BY <1>0, <1>4
  <2> HIDE DEF y
  <2>3. y # NoNode => Precedes(P[n], P[y]) /\ Q[y] = P[y]
    BY <2>1
  <2>4. ASSUME Precedes(P[n], q) PROVE y # NoNode /\ ~Precedes(q, P[y])
    <3>1. P[n] # P[left]
      BY <1>4 DEF Places
    <3>2. ~Precedes(P[left], P[n])
      BY <1>1, <2>4, PrecedesAsymmetric
    <3>3. Precedes(P[n], P[left])
      BY <1>1, <3>1, <3>2, PrecedesTotal
    <3>4. y # NoNode /\ ~Precedes(P[left], P[y])
      BY <2>1, <3>3
    <3> QED BY <1>1, <2>1, <3>4, PrecedesTransitive
  <2>5. ASSUME NEW x \in DOMAIN g, Precedes(Q[n], Q[x])
        PROVE  y # NoNode /\ ~Precedes(Q[x], Q[y])
    <3>1. CASE x = new
      BY <2>3, <2>4, <2>5, <3>1
    <3>2. CASE x \in D
      BY <2>1, <2>3, <2>5, <3>2
    <3> QED BY <1>0, <3>1, <3>2
  <2> QED BY <1>0, <2>1, <2>2, <2>3, <2>5 DEF IsNext
<1> QED BY <1>0, <1>2, <1>3, <1>4 DEF Listed

\* A path may change if the order of the nodes does not.
LEMMA SameOrderSameList ==
    ASSUME NEW h, NEW P, Listed(h, P), NEW Q,
           \A x, y \in DOMAIN h : Precedes(Q[x], Q[y]) <=> Precedes(P[x], P[y])
    PROVE  Listed(h, Q)
<1> SUFFICES ASSUME NEW n \in DOMAIN h PROVE IsNext(h, Q, n)
  BY DEF Listed
<1> DEFINE y == h[n].next
<1>1. /\ y \in DOMAIN h \cup {NoNode} /\ (y # NoNode => Precedes(P[n], P[y]))
      /\ \A x \in DOMAIN h : Precedes(P[n], P[x]) => y # NoNode /\ ~Precedes(P[x], P[y])
  BY DEF Listed, IsNext
<1> QED BY <1>1 DEF IsNext

\* The two halves of a node that is cut take its place on the list.
LEMMA CutKeepsList ==
    ASSUME NEW h, NEW P, Tree(h, P), Listed(h, P), NEW p \in DOMAIN h, NEW c, NEW n,
           NEW m \in Nat, NEW r \in Prefixes, IsCutPoint(h, P, p, c, n, m, r),
           NEW g, NEW old, Linked(h, g, n, old)
    PROVE  Listed(g, CutPaths(P, n, old, r))
<1> DEFINE l == h[n].label
           D == DOMAIN h
           Q == CutPaths(P, n, old, r)
           R == [x \in D |-> IF x = n THEN r ELSE P[x]]
<1>1. /\ IsChildAt(h, P, p, c, n) /\ CutAt(P[p], c, l, m, r, P[n])
      /\ \A x \in D : IsPrefixOf(r, P[x]) => IsPrefixOf(P[n], P[x])
  BY CutPointFacts, Zenon
<1>2. /\ n \in D /\ c \in Chars /\ P[p] \in Seq(Chars) /\ l \in Seq(Chars)
      /\ P[n] = P[p] \o <<c>> \o l /\ P[n] \in Paths
  BY <1>1, Zenon DEF IsChildAt
<1>4. IsPrefixOf(r, P[n]) /\ Len(P[p]) < Len(r) /\ Len(r) < Len(P[n])
  BY <1>1, Zenon DEF CutAt
<1>5. r \in Paths /\ (\A x \in D : P[x] \in Paths) /\ NoNode \notin D
  BY AddressFacts, PathFacts, NodeFacts, Zenon DEF Tree
<1>6. Precedes(r, P[n])
  BY <1>2, <1>4, <1>5, PrefixPrecedes
<1>7. ASSUME NEW x \in D, x # n
      PROVE  /\ Precedes(P[x], r) <=> Precedes(P[x], P[n])
             /\ Precedes(r, P[x]) <=> Precedes(P[n], P[x])
             /\ r # P[x]
  <2>1. CASE ~IsPrefixOf(r, P[x])
    <3>1. IsPrefixOf(r, r)
      BY <1>5 DEF IsPrefixOf, Paths
    <3>2. r # P[x]
      BY <2>1, <3>1
    <3> QED BY <1>2, <1>4, <1>5, <2>1, <3>2, StemCompares, Zenon
  <2>2. CASE IsPrefixOf(r, P[x])
    <3>1. IsPrefixOf(P[n], P[x])
      BY <1>1, <2>2, Zenon
    <3>2. P[x] # P[n]
      BY <1>2, <1>7 DEF Tree
    <3>3. Precedes(P[n], P[x])
      <4>1. Len(P[n]) \in Nat /\ Len(P[x]) \in Nat
        BY <1>2, PathFacts
      <4>2. ~(Len(P[n]) >= Len(P[x]))
        BY <1>2, <1>5, <3>1, <3>2, PrefixSameLength, Zenon
      <4>3. Len(P[n]) < Len(P[x])
        <5> DEFINE a == Len(P[n])  b == Len(P[x])
        <5>1. a \in Nat /\ b \in Nat /\ ~(a >= b)
          BY <4>1, <4>2
        <5> HIDE DEF a, b
        <5>2. a < b
          BY <5>1
        <5> QED BY <5>2, Zenon DEF a, b
      <4> QED BY <1>2, <1>5, <3>1, <4>3, PrefixPrecedes
    <3>4. Precedes(r, P[x])
      BY <1>2, <1>5, <1>6, <3>3, PrecedesTransitive, Zenon
    <3> QED BY <1>2, <1>5, <3>3, <3>4, PrecedesAsymmetric, PrecedesIrreflexive
  <2> QED BY <2>1, <2>2
<1>8. R[n] = r /\ \A x \in D : x # n => R[x] = P[x]
  BY <1>2
<1> HIDE DEF R
<1>9. Listed(h, R)
  <2>1. \A x, y \in D : Precedes(R[x], R[y]) <=> Precedes(P[x], P[y])
    <3> SUFFICES ASSUME NEW x \in D, NEW y \in D
                 PROVE  Precedes(R[x], R[y]) <=> Precedes(P[x], P[y])
      BY Zenon
    <3>1. CASE x = n /\ y = n
      BY <1>2, <1>5, <1>8, <3>1, PrecedesIrreflexive
    <3>2. CASE x # n \/ y # n
      BY <1>7, <1>8, <3>2
    <3> QED BY <3>1, <3>2
  <2> QED BY <2>1, SameOrderSameList, Zenon
<1>10. Places(D, R)
  <2>1. \A x \in D : R[x] \in Paths
    BY <1>5, <1>8
  <2>2. \A x, y \in D : R[x] = R[y] => x = y
    <3>1. \A x, y \in D : P[x] = P[y] => x = y
      BY DEF Tree
    <3> QED BY <1>7, <1>8, <3>1
  <2> QED BY <2>1, <2>2, Zenon DEF Places
<1>11. /\ Q[old] = P[n] /\ \A x \in D : Q[x] = R[x]
  <2>1. old \notin D /\ DOMAIN P = D
    BY Zenon DEF Linked, Tree
  <2> QED BY <1>8, <2>1 DEF CutPaths
<1>12. \A x \in D : Precedes(R[n], R[x]) => Precedes(P[n], R[x])
  BY <1>5, <1>7, <1>8, PrecedesIrreflexive, Zenon
<1> HIDE DEF Q
<1>13. Listed(g, Q)
  <2> DEFINE q == P[n]
  <2>1. /\ n \in DOMAIN h /\ q \in Paths /\ Precedes(R[n], q) /\ NoNode \notin DOMAIN h
        /\ Q[old] = q /\ \A x \in DOMAIN h : Q[x] = R[x]
        /\ \A x \in DOMAIN h : Precedes(R[n], R[x]) => Precedes(q, R[x])
    BY <1>2, <1>5, <1>6, <1>8, <1>11, <1>12, Zenon
  <2> HIDE DEF q, D
  <2>2. Places(DOMAIN h, R)
    BY <1>10 DEF D
  <2> QED BY <1>9, <2>1, <2>2, InsertKeepsList
<1> QED BY <1>13 DEF Q

-----------------------------------------------------------------------------
(* The place of a new child *)

\* w is the last of the nodes below n.
IsRightmostOf(D, P, n, w) ==
    /\ w \in D /\ IsPrefixOf(P[n], P[w])
    /\ \A x \in D : IsPrefixOf(P[n], P[x]) => x = w \/ Precedes(P[x], P[w])

\* The node that a new child of p along c comes after: p itself, or the last node
\* below the child along the edge before c.
IsPlaceFor(h, P, p, c, left) ==
    \/ left = p /\ \A d \in Edges(h, p) : d > c
    \/ \E d \in Edges(h, p) : /\ IsPredecessor(Edges(h, p), c, d)
                              /\ IsRightmostOf(DOMAIN h, P, h[p].children[d], left)

\* A path q below p along an edge that p does not have comes right after that
\* node.
LEMMA PlaceIsRight ==
    ASSUME NEW h, NEW P, Tree(h, P), NEW p \in DOMAIN h, NEW c \in Chars, c \notin Edges(h, p),
           NEW q \in Paths, IsPrefixOf(P[p], q), Len(P[p]) < Len(q), q[Len(P[p]) + 1] = c,
           NEW left, IsPlaceFor(h, P, p, c, left)
    PROVE  /\ left \in DOMAIN h /\ Precedes(P[left], q)
           /\ \A x \in DOMAIN h : Precedes(P[left], P[x]) => Precedes(q, P[x])
<1>0. \A x \in DOMAIN h : P[x] \in Paths /\ Len(P[x]) \in Nat
  BY PathFacts
<1>1. c \in Int /\ Edges(h, p) \in SUBSET Chars /\ Chars \subseteq Int
  BY NodeFacts, CharsArePaths DEF Tree
<1>2. ASSUME NEW x \in DOMAIN h, IsPrefixOf(P[p], P[x]), x # p
      PROVE  /\ P[x][Len(P[p]) + 1] \in Edges(h, p) /\ P[x][Len(P[p]) + 1] \in Int
             /\ IsPrefixOf(P[h[p].children[P[x][Len(P[p]) + 1]]], P[x])
             /\ Len(P[p]) < Len(P[x])
  <2>1. GoesTo(h, P, p, x)
    BY <1>2, WayDown
  <2>2. P[p] # P[x]
    BY <1>2 DEF Tree
  <2>3. ~(Len(P[p]) >= Len(P[x]))
    BY <1>0, <1>2, <2>2, PrefixSameLength
  <2>4. Len(P[p]) < Len(P[x])
    <3> DEFINE a == Len(P[p])  b == Len(P[x])
    <3>1. a \in Nat /\ b \in Nat /\ ~(a >= b)
      BY <1>0, <2>3
    <3> HIDE DEF a, b
    <3>2. a < b
      BY <3>1
    <3> QED BY <3>2 DEF a, b
  <2> QED BY <1>1, <2>1, <2>4 DEF GoesTo
<1>3. ASSUME NEW x \in DOMAIN h, ~IsPrefixOf(P[p], P[x]), Precedes(P[p], P[x])
      PROVE  Precedes(q, P[x])
  BY <1>0, <1>3, AsideOfBelow
<1>4. CASE left = p /\ \A d \in Edges(h, p) : d > c
  <2>1. Precedes(P[p], q)
    BY <1>0, PrefixPrecedes
  <2>2. ASSUME NEW x \in DOMAIN h, Precedes(P[p], P[x]) PROVE Precedes(q, P[x])
    <3>1. x # p
      BY <1>0, <2>2, PrecedesIrreflexive
    <3>2. CASE IsPrefixOf(P[p], P[x])
      <4>1. c < P[x][Len(P[p]) + 1] /\ Len(P[p]) < Len(P[x])
        BY <1>1, <1>2, <1>4, <3>1, <3>2
      <4> QED BY <1>0, <3>2, <4>1, SmallerEdgeFirst
    <3> QED BY <1>3, <2>2, <3>2
  <2> QED BY <1>4, <2>1, <2>2
<1>5. ASSUME NEW d \in Edges(h, p), IsPredecessor(Edges(h, p), c, d),
             IsRightmostOf(DOMAIN h, P, h[p].children[d], left)
      PROVE  /\ left \in DOMAIN h /\ Precedes(P[left], q)
             /\ \A x \in DOMAIN h : Precedes(P[left], P[x]) => Precedes(q, P[x])
  <2> DEFINE y == h[p].children[d]
  <2>1. IsChildAt(h, P, p, d, y)
    BY ChildFacts
  <2> HIDE DEF y
  <2>2. /\ left \in DOMAIN h /\ IsPrefixOf(P[y], P[left])
        /\ \A x \in DOMAIN h : IsPrefixOf(P[y], P[x]) => x = left \/ Precedes(P[x], P[left])
    BY <1>5 DEF IsRightmostOf, y
  <2>3. /\ y \in DOMAIN h /\ IsPrefixOf(P[p], P[y]) /\ Len(P[p]) < Len(P[y])
        /\ P[y][Len(P[p]) + 1] = d /\ y # p /\ d \in Int
    BY <2>1 DEF IsChildAt
  <2>4. /\ IsPrefixOf(P[p], P[left]) /\ P[left][Len(P[p]) + 1] = d /\ Len(P[p]) < Len(P[left])
        /\ Precedes(P[p], P[left])
    <3>1. IsPrefixOf(P[p], P[left])
      BY <1>0, <2>2, <2>3, PrefixTransitive
    <3> DEFINE a == Len(P[p])  b == Len(P[y])  e == Len(P[left])
    <3>2. a \in Nat /\ b \in Nat /\ e \in Nat /\ a < b /\ b <= e
      BY <1>0, <2>2, <2>3 DEF IsPrefixOf
    <3> HIDE DEF a, b, e
    <3>3. a + 1 \in 1..b /\ a < e
      BY <3>2
    <3>4. P[left][Len(P[p]) + 1] = d
      <4>1. Len(P[p]) + 1 \in 1..Len(P[y])
        BY <3>3 DEF a, b
      <4> QED BY <2>2, <2>3, <4>1 DEF IsPrefixOf
    <3>5. Len(P[p]) < Len(P[left])
      BY <3>3 DEF a, e
    <3> QED BY <1>0, <2>2, <3>1, <3>4, <3>5, PrefixPrecedes
  <2>5. Precedes(P[left], q)
    <3>1. d < c
      BY <1>5 DEF IsPredecessor
    <3> QED BY <1>0, <2>2, <2>4, <3>1, SmallerEdgeFirst
  <2>6. ASSUME NEW x \in DOMAIN h, Precedes(P[left], P[x]) PROVE Precedes(q, P[x])
    <3>1. CASE ~IsPrefixOf(P[p], P[x])
      <4>1. Precedes(P[p], P[x])
        BY <1>0, <2>2, <2>4, <2>6, PrecedesTransitive
      <4> QED BY <1>3, <3>1, <4>1
    <3>2. CASE IsPrefixOf(P[p], P[x])
      <4> DEFINE e == P[x][Len(P[p]) + 1]
      <4>1. x # p
        BY <1>0, <2>2, <2>4, <2>6, PrecedesAsymmetric
      <4>2. /\ e \in Edges(h, p) /\ e \in Int /\ IsPrefixOf(P[h[p].children[e]], P[x])
            /\ Len(P[p]) < Len(P[x])
        BY <1>2, <3>2, <4>1
      <4>3. e # d
        <5> SUFFICES ASSUME e = d PROVE FALSE
          OBVIOUS
        <5>1. x = left \/ Precedes(P[x], P[left])
          BY <2>2, <4>2 DEF y
        <5> QED BY <1>0, <2>2, <2>6, <5>1, PrecedesAsymmetric, PrecedesIrreflexive
      <4>4. ~(e < d)
        <5> SUFFICES ASSUME e < d PROVE FALSE
          OBVIOUS
        <5>1. Precedes(P[x], P[left])
          BY <1>0, <2>2, <2>4, <3>2, <4>2, SmallerEdgeFirst
        <5> QED BY <1>0, <2>2, <2>6, <5>1, PrecedesAsymmetric
      <4>5. ~(e < c)
        BY <1>5, <2>3, <4>2, <4>3, <4>4 DEF IsPredecessor
      <4>6. c < e
        BY <1>1, <4>2, <4>5
      <4> QED BY <1>0, <3>2, <4>2, <4>6, SmallerEdgeFirst
    <3> QED BY <3>1, <3>2
  <2> QED BY <2>2, <2>5, <2>6
<1> QED BY <1>4, <1>5 DEF IsPlaceFor

\* The path q leaves the tree below node p, by the edge c.
LeavesAt(P, p, c, q) == IsPrefixOf(P[p], q) /\ Len(P[p]) < Len(q) /\ q[Len(P[p]) + 1] = c

\* The path q belongs after node left and before all that is after left.
Follows(h, P, left, q) ==
    /\ left \in DOMAIN h /\ Precedes(P[left], q)
    /\ \A x \in DOMAIN h : Precedes(P[left], P[x]) => Precedes(q, P[x])

\* The child along the edge after c is the first node after q.
LEMMA ChildIsFirst ==
    ASSUME NEW h, NEW P, Tree(h, P), NEW p \in DOMAIN h, NEW c \in Chars, c \notin Edges(h, p),
           NEW q \in Paths, LeavesAt(P, p, c, q), NEW u, IsLowerBound(Edges(h, p), c, u),
           NEW y, y = h[p].children[u]
    PROVE  /\ y \in DOMAIN h /\ Precedes(q, P[y])
           /\ \A z \in DOMAIN h : Precedes(q, P[z]) => z = y \/ Precedes(P[y], P[z])
<1> USE DEF LeavesAt
<1>0. \A x \in DOMAIN h : P[x] \in Paths /\ Len(P[x]) \in Nat
  BY PathFacts
<1>1. u \in Edges(h, p) /\ u >= c /\ \A d \in Edges(h, p) : d >= c => u <= d
  BY DEF IsLowerBound
<1>2. c \in Int /\ u \in Int /\ Edges(h, p) \in SUBSET Int /\ c < u
  <2>1. c \in Int /\ u \in Int /\ Edges(h, p) \in SUBSET Int
    BY <1>1, NodeFacts, CharsArePaths DEF Tree
  <2> QED BY <1>1, <2>1
<1>3. IsChildAt(h, P, p, u, y)
  BY <1>1, ChildFacts
<1>4. /\ y \in DOMAIN h /\ IsPrefixOf(P[p], P[y]) /\ Len(P[p]) < Len(P[y])
      /\ P[y][Len(P[p]) + 1] = u
  BY <1>3 DEF IsChildAt
<1>5. Precedes(q, P[y])
  BY <1>0, <1>2, <1>4, SmallerEdgeFirst
<1>6. ASSUME NEW z \in DOMAIN h, Precedes(q, P[z]), ~Precedes(P[y], P[z]) PROVE z = y
  <2> SUFFICES ASSUME z # y PROVE FALSE
    OBVIOUS
  <2>1. Precedes(P[z], P[y])
    <3>1. P[z] # P[y]
      BY <1>4, <1>6 DEF Tree
    <3> QED BY <1>0, <1>4, <1>6, <3>1, PrecedesTotal
  <2>2. IsPrefixOf(P[p], P[z])
    <3> SUFFICES ASSUME ~IsPrefixOf(P[p], P[z]) PROVE FALSE
      OBVIOUS
    <3>1. Precedes(P[p], P[z])
      BY <1>0, <1>6, StemCompares
    <3>2. Precedes(P[y], P[z])
      BY <1>0, <1>4, <1>6, <3>1, StemCompares
    <3> QED BY <1>6, <3>2
  <2>3. Precedes(P[p], q)
    BY <1>0, PrefixPrecedes
  <2>4. z # p
    BY <1>0, <1>6, <2>3, PrecedesAsymmetric
  <2> DEFINE e == P[z][Len(P[p]) + 1]
  <2>5. GoesTo(h, P, p, z)
    BY <1>6, <2>2, <2>4, WayDown
  <2>6. e \in Edges(h, p) /\ IsPrefixOf(P[h[p].children[e]], P[z]) /\ e \in Int
    BY <1>2, <2>5 DEF GoesTo
  <2>7. Len(P[p]) < Len(P[z])
    <3>1. P[p] # P[z]
      BY <1>6, <2>4 DEF Tree
    <3>2. ~(Len(P[p]) >= Len(P[z]))
      BY <1>0, <1>6, <2>2, <3>1, PrefixSameLength
    <3> DEFINE a == Len(P[p])  b == Len(P[z])
    <3>3. a \in Nat /\ b \in Nat /\ ~(a >= b)
      BY <1>0, <1>6, <3>2
    <3> HIDE DEF a, b
    <3>4. a < b
      BY <3>3
    <3> QED BY <3>4 DEF a, b
  <2>8. ~(e < c)
    <3> SUFFICES ASSUME e < c PROVE FALSE
      OBVIOUS
    <3>1. Precedes(P[z], q)
      BY <1>0, <1>6, <2>2, <2>7, SmallerEdgeFirst
    <3> QED BY <1>0, <1>6, <3>1, PrecedesAsymmetric
  <2>9. u <= e
    BY <1>1, <1>2, <2>6, <2>8
  <2>10. CASE e = u
    <3>1. IsPrefixOf(P[y], P[z])
      BY <2>6, <2>10
    <3>2. P[y] # P[z]
      BY <1>4, <1>6 DEF Tree
    <3>3. ~(Len(P[y]) >= Len(P[z]))
      BY <1>0, <1>4, <1>6, <3>1, <3>2, PrefixSameLength
    <3> DEFINE a == Len(P[y])  b == Len(P[z])
    <3>4. a \in Nat /\ b \in Nat /\ ~(a >= b)
      BY <1>0, <1>4, <1>6, <3>3
    <3> HIDE DEF a, b
    <3>5. a < b
      BY <3>4
    <3>6. Precedes(P[y], P[z])
      BY <1>0, <1>4, <1>6, <3>1, <3>5, PrefixPrecedes DEF a, b
    <3> QED BY <1>6, <3>6
  <2>11. CASE u < e
    <3>1. Precedes(P[y], P[z])
      BY <1>0, <1>4, <1>6, <2>2, <2>7, <2>11, SmallerEdgeFirst
    <3> QED BY <1>6, <3>1
  <2> QED BY <1>2, <2>6, <2>9, <2>10, <2>11
<1> QED BY <1>4, <1>5, <1>6

\* The child along the edge after c is the next node on the list there.
LEMMA ChildIsNext ==
    ASSUME NEW h, NEW P, Tree(h, P), Listed(h, P),
           NEW p \in DOMAIN h, NEW c \in Chars, c \notin Edges(h, p),
           NEW q \in Paths, LeavesAt(P, p, c, q), NEW left, Follows(h, P, left, q),
           NEW u, IsLowerBound(Edges(h, p), c, u)
    PROVE  h[left].next = h[p].children[u]
<1> DEFINE y == h[p].children[u]
           z == h[left].next
<1>0. \A x \in DOMAIN h : P[x] \in Paths
  BY PathFacts
<1>1. /\ y \in DOMAIN h /\ Precedes(q, P[y])
      /\ \A x \in DOMAIN h : Precedes(q, P[x]) => x = y \/ Precedes(P[y], P[x])
  BY ChildIsFirst
<1> HIDE DEF y
<1>2. left \in DOMAIN h /\ Precedes(P[left], P[y])
  BY <1>0, <1>1, PrecedesTransitive DEF Follows
<1>3. z \in DOMAIN h /\ Precedes(P[left], P[z]) /\ ~Precedes(P[y], P[z])
  BY <1>1, <1>2 DEF Listed, IsNext
<1>4. z = y
  BY <1>1, <1>3 DEF Follows
<1> QED BY <1>4 DEF y

\* A node below another lies deeper and comes later.
LEMMA DeeperIsLater ==
    ASSUME NEW h, NEW P, Tree(h, P), NEW p \in DOMAIN h, NEW x \in DOMAIN h,
           IsPrefixOf(P[p], P[x]), x # p
    PROVE  Len(P[p]) < Len(P[x]) /\ Precedes(P[p], P[x])
<1> DEFINE a == Len(P[p])  b == Len(P[x])
<1>1. P[p] \in Paths /\ P[x] \in Paths /\ a \in Nat /\ b \in Nat /\ P[p] # P[x]
  BY PathFacts DEF Tree
<1>2. ~(a >= b)
  BY <1>1, PrefixSameLength
<1>3. a < b
  <2> HIDE DEF a, b
  <2> QED BY <1>1, <1>2
<1> QED BY <1>1, <1>3, PrefixPrecedes

-----------------------------------------------------------------------------
(* The traversal *)

\* m characters of the label are k's from position b on, and the next is not.
SharedLength(label, k, b, m) ==
    /\ m \in 0..Len(label) /\ m \in Nat /\ b + m <= Len(k)
    /\ \A i \in 1..m : label[i] = k[b + i]
    /\ m < Len(label) /\ b + m < Len(k) => label[m + 1] # k[b + m + 1]

\* common_prefix_length finds that m.
LEMMA CommonPrefixLengthIsShared ==
    ASSUME NEW label \in Seq(Chars), NEW k \in Seq(Chars), NEW b \in 0..Len(k)
    PROVE  SharedLength(label, k, b, CommonPrefixLength(label, k, b))
<1> DEFINE l == Len(label)
           n == Len(k)
           Shares(m) == b + m <= n /\ \A i \in 1..m : label[i] = k[b + i]
           T == {j \in 0..l : Shares(l - j)}
           Good(m) == /\ b + m <= n
                      /\ \A i \in 1..m : label[i] = k[b + i]
                      /\ m < l /\ b + m < n => label[m + 1] # k[b + m + 1]
<1>1. l \in Nat /\ n \in Nat /\ b \in Nat /\ b <= n
  OBVIOUS
<1> HIDE DEF l, n
<1>2. l \in T
  <2>1. Shares(0)
    BY <1>1
  <2>2. l - l = 0 /\ l \in 0..l
    BY <1>1
  <2> HIDE DEF Shares
  <2> QED BY <2>1, <2>2
<1>3. PICK j \in T : \A y \in T : j <= y
  <2>1. T \in SUBSET Nat /\ T # {}
    BY <1>2
  <2> HIDE DEF T
  <2> QED BY <2>1, LeastNatural
<1> DEFINE m == l - j
<1>4. m \in 0..l /\ Shares(m) /\ j \in 0..l
  BY <1>1, <1>3
<1>5. ASSUME m < l, b + m < n, label[m + 1] = k[b + m + 1] PROVE FALSE
  <2>1. m + 1 \in 0..l /\ b + (m + 1) <= n /\ b + (m + 1) = b + m + 1 /\ j - 1 \in 0..l
        /\ l - (j - 1) = m + 1
    BY <1>1, <1>4, <1>5
  <2>2. ASSUME NEW i \in 1..(m + 1) PROVE label[i] = k[b + i]
    <3>1. i \in 1..m \/ i = m + 1
      BY <1>4
    <3> QED BY <1>4, <1>5, <2>1, <3>1
  <2>3. Shares(m + 1)
    BY <2>1, <2>2
  <2>4. j - 1 \in T
    <3> HIDE DEF Shares, m
    <3> QED BY <2>1, <2>3
  <2> QED BY <1>3, <1>4, <2>4
<1>6. \E x \in 0..l : Good(x)
  <2>1. Good(m)
    BY <1>4, <1>5
  <2> HIDE DEF Good, m
  <2> QED BY <1>4, <2>1
<1> DEFINE r == CommonPrefixLength(label, k, b)
<1>7. r = CHOOSE x \in 0..l : Good(x)
  BY Zenon DEF CommonPrefixLength, l, n
<1>8. r \in 0..l /\ Good(r)
  <2> HIDE DEF Good, r
  <2> QED BY <1>6, <1>7, Zenon
<1> HIDE DEF r
<1>9. r \in Nat
  BY <1>1, <1>8
<1>10. SharedLength(label, k, b, r)
  BY <1>8, <1>9 DEF SharedLength, l, n
<1> QED BY <1>10 DEF r

\* One round of the loop of the traversals.
Advance(k, s) ==
    LET child == heap[s.node].children[k[s.idx + 1]]
    IN IF Matches(k, s)
       THEN [node |-> child, idx |-> s.idx + 1 + Len(heap[child].label)]
       ELSE s

\* The loop of Descent.
Rounds(k) ==
    CHOOSE at : at = [i \in 0..Len(k) |->
        IF i = 0 THEN [node |-> RootNode, idx |-> 0] ELSE Advance(k, at[i - 1])]

\* s.node lies where the first s.idx characters of k lead.
OnTheWay(P, k, s) ==
    /\ s \in [node : DOMAIN heap, idx : 0..Len(k)]
    /\ P[s.node] = SubSeq(k, 1, s.idx)

\* The beginnings of a key.
LEMMA Beginning ==
    ASSUME NEW k \in Seq(Chars), NEW i \in 0..Len(k)
    PROVE  /\ SubSeq(k, 1, i) \in Seq(Chars) /\ Len(SubSeq(k, 1, i)) = i
           /\ \A j \in 1..i : SubSeq(k, 1, i)[j] = k[j]
           /\ IsPrefixOf(SubSeq(k, 1, i), k)
           /\ i = Len(k) => SubSeq(k, 1, i) = k
<1>1. SubSeq(k, 1, i) \in Seq(Chars) /\ Len(SubSeq(k, 1, i)) = i
      /\ \A j \in 1..i : SubSeq(k, 1, i)[j] = k[j]
  OBVIOUS
<1>2. i = Len(k) => SubSeq(k, 1, i) = k
  OBVIOUS
<1> QED BY <1>1, <1>2 DEF IsPrefixOf

\* An edge and a label that k has there lead on to a longer beginning of k.
LEMMA BeginningGrows ==
    ASSUME NEW k \in Seq(Chars), NEW i \in 0..Len(k), i < Len(k), NEW l \in Seq(Chars),
           i + 1 + Len(l) <= Len(k), \A j \in 1..Len(l) : l[j] = k[i + 1 + j]
    PROVE  SubSeq(k, 1, i) \o <<k[i + 1]>> \o l = SubSeq(k, 1, i + 1 + Len(l))
<1> DEFINE n == i + 1 + Len(l)
           p == SubSeq(k, 1, i)
           q == SubSeq(k, 1, n)
           c == k[i + 1]
<1>1. n \in 0..Len(k) /\ i \in Nat /\ n \in Nat /\ Len(l) \in Nat /\ Len(k) \in Nat /\ i < n
      /\ c \in Chars
  OBVIOUS
<1>2. /\ p \in Seq(Chars) /\ Len(p) = i /\ \A j \in 1..i : p[j] = k[j]
      /\ q \in Seq(Chars) /\ Len(q) = n /\ \A j \in 1..n : q[j] = k[j]
  BY <1>1, Beginning
<1> HIDE DEF p, q
<1> DEFINE e == Len(l)
<1>3. Len(q) = Len(p) + 1 + Len(l) /\ IsPrefixOf(p, q) /\ q[Len(p) + 1] = c
  <2>1. i \in Nat /\ n \in Nat /\ i < n /\ n = i + 1 + e /\ e \in Nat
    BY <1>1
  <2> HIDE DEF n, e
  <2>2. i <= n /\ i + 1 \in 1..n /\ \A j \in 1..i : j \in 1..n
    BY <2>1
  <2>3. IsPrefixOf(p, q) /\ q[Len(p) + 1] = c
    BY <1>2, <2>2 DEF IsPrefixOf
  <2>4. Len(q) = Len(p) + 1 + e
    BY <1>2, <2>1
  <2> QED BY <2>3, <2>4 DEF e
<1>4. \A j \in 1..Len(l) : q[Len(p) + 1 + j] = l[j]
  <2> SUFFICES ASSUME NEW j \in 1..Len(l) PROVE q[Len(p) + 1 + j] = l[j]
    OBVIOUS
  <2>1. e \in Nat /\ n = i + 1 + e /\ i \in Nat /\ j \in 1..e
    BY <1>1
  <2>2. l[j] = k[i + 1 + j]
    OBVIOUS
  <2> HIDE DEF n, e
  <2>3. i + 1 + j \in 1..n
    BY <2>1
  <2> QED BY <1>2, <2>2, <2>3
<1>5. q = p \o <<c>> \o l
  <2>1. c \in Chars /\ p \in Seq(Chars) /\ q \in Seq(Chars) /\ l \in Seq(Chars)
    BY <1>1, <1>2
  <2> HIDE DEF c, n, e
  <2> QED BY <1>3, <1>4, <2>1, SpelledBy
<1> QED BY <1>5 DEF p, q, n, c

\* A round keeps to the way, and gets further along it or is stuck.
LEMMA AdvanceKeepsToTheWay ==
    ASSUME NEW P, Tree(heap, P), NEW k \in Seq(Chars), NEW s, OnTheWay(P, k, s)
    PROVE  /\ OnTheWay(P, k, Advance(k, s))
           /\ Matches(k, s) => Advance(k, s).idx >= s.idx + 1
           /\ ~Matches(k, s) => Advance(k, s) = s
<1>1. CASE ~Matches(k, s)
  <2>1. Advance(k, s) = s
    BY <1>1 DEF Advance
  <2> QED BY <1>1, <2>1
<1>2. CASE Matches(k, s)
  <2> DEFINE n == s.node
             i == s.idx
             c == k[i + 1]
             y == heap[n].children[c]
             l == heap[y].label
             t == [node |-> y, idx |-> i + 1 + Len(l)]
  <2>1. n \in DOMAIN heap /\ i \in 0..Len(k) /\ P[n] = SubSeq(k, 1, i)
    BY DEF OnTheWay
  <2>2. i < Len(k) /\ c \in Edges(heap, n) /\ CommonPrefixLength(l, k, i + 1) = Len(l)
    BY <1>2, Zenon DEF Matches
  <2>3. Advance(k, s) = t
    BY <1>2, Zenon DEF Advance
  <2> HIDE DEF n, i
  <2>4. IsChildAt(heap, P, n, c, y)
    BY <2>1, <2>2, ChildFacts
  <2> HIDE DEF c, y
  <2>5. y \in DOMAIN heap /\ P[y] = P[n] \o <<c>> \o l /\ l \in Seq(Chars) /\ Len(l) \in Nat
    BY <2>4 DEF IsChildAt
  <2> HIDE DEF l
  <2>6. i + 1 \in 0..Len(k)
    BY <2>1, <2>2
  <2>7. SharedLength(l, k, i + 1, Len(l))
    BY <2>2, <2>5, <2>6, CommonPrefixLengthIsShared
  <2>8. i + 1 + Len(l) <= Len(k) /\ \A j \in 1..Len(l) : l[j] = k[i + 1 + j]
    BY <2>7 DEF SharedLength
  <2>9. SubSeq(k, 1, i) \o <<k[i + 1]>> \o l = SubSeq(k, 1, i + 1 + Len(l))
    BY <2>1, <2>2, <2>5, <2>8, BeginningGrows
  <2>10. P[y] = SubSeq(k, 1, i + 1 + Len(l))
    BY <2>1, <2>5, <2>9 DEF c
  <2>11. i + 1 + Len(l) \in 0..Len(k) /\ i + 1 + Len(l) >= i + 1
    BY <2>1, <2>5, <2>8
  <2>12. OnTheWay(P, k, t)
    BY <2>5, <2>10, <2>11 DEF OnTheWay
  <2>13. t.idx >= i + 1
    BY <2>11
  <2> QED BY <1>2, <2>3, <2>12, <2>13 DEF i
<1> QED BY <1>1, <1>2

\* The traversal ends where k leads as far as it can.
LEMMA DescentFacts ==
    ASSUME NEW P, Tree(heap, P), NEW k \in Seq(Chars)
    PROVE  OnTheWay(P, k, Descent(k)) /\ ~Matches(k, Descent(k))
<1> DEFINE N == Len(k)
           X == {s \in [node : DOMAIN heap, idx : 0..N] : OnTheWay(P, k, s)}
           T == [i \in 0..N |-> {s \in X : s.idx >= i \/ ~Matches(k, s)}]
           g == [s \in X |-> Advance(k, s)]
           a == [node |-> RootNode, idx |-> 0]
           AreRounds(f) == f = [i \in 0..N |-> IF i = 0 THEN a ELSE Advance(k, f[i - 1])]
           at == Rounds(k)
<1>1. N \in Nat
  OBVIOUS
<1>2. OnTheWay(P, k, a)
  <2>1. RootNode \in DOMAIN heap /\ P[RootNode] = Root
    BY DEF Tree, HeapOK
  <2>2. SubSeq(k, 1, 0) = Root
    BY DEF Root
  <2>3. a.node = RootNode /\ a.idx = 0 /\ 0 \in 0..N
    BY <1>1
  <2>4. a \in [node : DOMAIN heap, idx : 0..N]
    BY <2>1, <2>3
  <2> HIDE DEF a
  <2> QED BY <2>1, <2>2, <2>3, <2>4 DEF OnTheWay
<1>3. a \in X /\ \A s \in X : OnTheWay(P, k, s) /\ s.idx \in 0..N
  BY <1>2 DEF OnTheWay
<1>4. \A s : OnTheWay(P, k, s) => s \in X
  BY DEF OnTheWay
<1> HIDE DEF X
<1>5. T \in [0..N -> SUBSET X] /\ a \in T[0]
  <2>1. a.idx >= 0 /\ 0 \in 0..N
    BY <1>1
  <2> HIDE DEF a
  <2> QED BY <1>3, <2>1
<1>6. g \in [X -> X]
  <2>1. \A s \in X : Advance(k, s) \in X
    BY <1>3, <1>4, AdvanceKeepsToTheWay
  <2> QED BY <2>1
<1>7. \A i \in 1..N : \A s \in T[i - 1] : g[s] \in T[i]
  <2> SUFFICES ASSUME NEW i \in 1..N, NEW s \in T[i - 1] PROVE g[s] \in T[i]
    OBVIOUS
  <2>1. i - 1 \in 0..N /\ i \in 0..N /\ i \in Int
    BY <1>1
  <2>2. s \in X /\ (s.idx >= i - 1 \/ ~Matches(k, s)) /\ OnTheWay(P, k, s) /\ s.idx \in 0..N
    BY <1>3, <2>1
  <2>3. g[s] = Advance(k, s) /\ g[s] \in X /\ g[s].idx \in 0..N
    BY <1>3, <1>6, <2>2
  <2>4. /\ Matches(k, s) => Advance(k, s).idx >= s.idx + 1
        /\ ~Matches(k, s) => Advance(k, s) = s
    BY <2>2, AdvanceKeepsToTheWay
  <2>5. g[s].idx >= i \/ ~Matches(k, g[s])
    <3> DEFINE u == s.idx  v == g[s].idx
    <3>1. CASE Matches(k, s)
      <4>1. u >= i - 1 /\ v >= u + 1 /\ u \in Nat /\ v \in Nat
        BY <1>1, <2>2, <2>3, <2>4, <3>1
      <4> HIDE DEF u, v, g
      <4>2. v >= i
        BY <2>1, <4>1
      <4> QED BY <4>2 DEF v
    <3>2. CASE ~Matches(k, s)
      <4>1. g[s] = s
        BY <2>3, <2>4, <3>2
      <4> QED BY <3>2, <4>1
    <3> QED BY <3>1, <3>2
  <2> HIDE DEF g
  <2> QED BY <2>1, <2>3, <2>5
<1>8. \E f : AreRounds(f)
  <2>1. PICK f \in [0..N -> X] : KeepsTo(N, T, a, g, f)
    <3> HIDE DEF T, g, X, N, a
    <3> QED BY <1>1, <1>5, <1>6, <1>7, LoopRuns
  <2>2. \A i \in 1..N : i - 1 \in 0..N /\ f[i - 1] \in X /\ i # 0 /\ i \in 0..N
    <3> HIDE DEF T, g, N, a
    <3> QED BY <1>1
  <2> HIDE DEF a
  <2>3. f[0] = a /\ \A i \in 1..N : f[i] = Advance(k, f[i - 1])
    BY <2>1, <2>2 DEF KeepsTo
  <2>4. \A i \in 0..N : i # 0 => i \in 1..N
    BY <1>1
  <2>5. AreRounds(f)
    BY <1>1, <2>1, <2>3, <2>4
  <2> QED BY <2>5
<1>9. AreRounds(at)
  <2>1. at = CHOOSE f : AreRounds(f)
    BY Zenon DEF Rounds
  <2> HIDE DEF AreRounds, at
  <2> QED BY <1>8, <2>1, Zenon
<1> HIDE DEF at, a
<1>10. Loops(N, T, a, g, at)
  <2>1. at = [i \in 0..N |-> IF i = 0 THEN a ELSE Advance(k, at[i - 1])]
    BY <1>9, Zenon
  <2>2. \A i \in 1..N : i \in 0..N /\ i # 0 /\ i - 1 \in 0..N /\ 0 \in 0..N
    BY <1>1
  <2>3. at[0] = a
    BY <1>1, <2>1
  <2>4. \A i \in 1..N : at[i] = Advance(k, at[i - 1])
    BY <2>1, <2>2
  <2>5. \A i \in 1..N : at[i - 1] \in T[i - 1] => at[i - 1] \in X
    BY <2>2
  <2>6. \A i \in 1..N : at[i - 1] \in T[i - 1] => at[i] = g[at[i - 1]]
    BY <2>4, <2>5
  <2> HIDE DEF T, g
  <2> QED BY <2>3, <2>6 DEF Loops
<1> DEFINE w == at[N]
<1>11. Descent(k) = w
  BY Zenon DEF Descent, Rounds, Advance, at
<1>12. w \in X /\ (w.idx >= N \/ ~Matches(k, w))
  <2>1. \A i \in 0..N : at[i] \in T[i]
    <3> HIDE DEF T, g, X, N
    <3> QED BY <1>1, <1>5, <1>6, <1>7, <1>10, LoopStays
  <2> QED BY <1>1, <2>1
<1> HIDE DEF w
<1>13. OnTheWay(P, k, w) /\ w.idx \in 0..N
  BY <1>3, <1>12
<1>14. ~Matches(k, w)
  <2> SUFFICES ASSUME Matches(k, w) PROVE FALSE
    BY Zenon
  <2>1. w.idx < N /\ w.idx >= N
    BY <1>12 DEF Matches
  <2> QED BY <1>1, <1>13, <2>1
<1> QED BY <1>11, <1>13, <1>14

\* A key that the traversal does not use up is the path of no node.
LEMMA NotUsedUp ==
    ASSUME NEW P, Tree(heap, P), NEW k \in Seq(Chars), NEW s, OnTheWay(P, k, s),
           ~Matches(k, s), s.idx # Len(k), NEW x \in DOMAIN heap
    PROVE  P[x] # k
<1> SUFFICES ASSUME P[x] = k PROVE FALSE
  OBVIOUS
<1> DEFINE n == s.node
           i == s.idx
           c == k[i + 1]
           y == heap[n].children[c]
           l == heap[y].label
<1>1. n \in DOMAIN heap /\ i \in 0..Len(k) /\ P[n] = SubSeq(k, 1, i) /\ i < Len(k) /\ i \in Nat
      /\ Len(k) \in Nat
  BY DEF OnTheWay
<1>2. Len(P[n]) = i /\ IsPrefixOf(P[n], P[x])
  BY <1>1, Beginning
<1>3. n # x
  BY <1>1, <1>2
<1>4. GoesTo(heap, P, n, x)
  BY <1>1, <1>2, <1>3, WayDown
<1> HIDE DEF n, i
<1>5. c \in Edges(heap, n) /\ IsPrefixOf(P[y], k)
  BY <1>2, <1>4 DEF GoesTo
<1>6. IsChildAt(heap, P, n, c, y)
  BY <1>1, <1>5, ChildFacts
<1> HIDE DEF c, y
<1>7. /\ Len(P[y]) = Len(P[n]) + 1 + Len(l) /\ l \in Seq(Chars) /\ Len(l) \in Nat
      /\ \A j \in 1..Len(l) : P[y][Len(P[n]) + 1 + j] = l[j]
      /\ Len(P[y]) \in Nat
  BY <1>6 DEF IsChildAt
<1> DEFINE b == i + 1
           m == CommonPrefixLength(l, k, b)
<1>8. b \in 0..Len(k)
  BY <1>1
<1>9. SharedLength(l, k, b, m)
  <2> HIDE DEF l, b
  <2> QED BY <1>7, <1>8, CommonPrefixLengthIsShared
<1> HIDE DEF l, m
<1>10. /\ m \in 0..Len(l) /\ m \in Nat /\ b + m <= Len(k)
       /\ (m < Len(l) /\ b + m < Len(k) => l[m + 1] # k[b + m + 1])
  BY <1>9 DEF SharedLength
<1>11. b + Len(l) <= Len(k)
  <2>1. Len(P[y]) <= Len(k) /\ Len(P[y]) = b + Len(l)
    BY <1>2, <1>5, <1>7 DEF IsPrefixOf
  <2> QED BY <2>1
<1>12. m = Len(l)
  <2> SUFFICES ASSUME m # Len(l) PROVE FALSE
    OBVIOUS
  <2>1. m < Len(l) /\ b + m < Len(k) /\ m + 1 \in 1..Len(l)
    BY <1>1, <1>7, <1>10, <1>11
  <2>2. P[y][b + (m + 1)] = l[m + 1]
    BY <1>2, <1>7, <2>1
  <2>3. b + (m + 1) \in 1..Len(P[y])
    <3> DEFINE e == Len(l)  f == Len(P[y])
    <3>1. f = b + e /\ e \in Nat /\ m + 1 \in 1..e /\ b \in Nat /\ m \in Nat
      BY <1>1, <1>2, <1>7, <1>10, <2>1
    <3> HIDE DEF e, f, b
    <3>2. b + (m + 1) \in 1..f
      BY <3>1
    <3> QED BY <3>2 DEF f
  <2>4. P[y][b + (m + 1)] = k[b + (m + 1)]
    BY <1>5, <2>3 DEF IsPrefixOf
  <2>5. b + (m + 1) = b + m + 1
    BY <1>1, <1>10
  <2> QED BY <1>10, <2>1, <2>2, <2>4, <2>5
<1>13. Matches(k, s)
  BY <1>1, <1>5, <1>12, Zenon DEF Matches, n, i, c, y, l, m, b
<1> QED BY <1>13

-----------------------------------------------------------------------------
(* Allocation *)

\* The addresses allocated at a path so far are those numbered from 0 on, at most R.
AllocatedIn(D, R) ==
    \A p \in Prefixes : \E N \in 0..R : {n \in D : n[1] = p} = {<<p, i>> : i \in 0..(N - 1)}

\* A new node gets an address of its own.
LEMMA FreshIsNew ==
    ASSUME NEW h, NEW R \in Nat, Cardinality(Keys) \in Nat, R <= Cardinality(Keys),
           AllocatedIn(DOMAIN h, R), NEW p \in Prefixes
    PROVE  /\ Fresh(h, p) \in Addresses /\ Fresh(h, p) \notin DOMAIN h /\ Fresh(h, p)[1] = p
           /\ \E N \in 0..R : /\ Fresh(h, p) = <<p, N>>
                              /\ {n \in DOMAIN h : n[1] = p} = {<<p, i>> : i \in 0..(N - 1)}
<1> DEFINE A == {n \in DOMAIN h : n[1] = p}
<1>1. PICK N \in 0..R : A = {<<p, i>> : i \in 0..(N - 1)}
  BY DEF AllocatedIn
<1>2. Cardinality(A) = N
  <2> DEFINE I == 0..(N - 1)
             f == [i \in I |-> <<p, i>>]
  <2>1. f \in Bijection(I, A)
    <3>1. f \in [I -> A] /\ \A i, j \in I : f[i] = f[j] => i = j
      BY <1>1
    <3>2. \A x \in A : \E i \in I : f[i] = x
      BY <1>1
    <3> HIDE DEF f, A, I
    <3> QED BY <3>1, <3>2 DEF Bijection, Injection, Surjection, IsInjective
  <2>2. IsFiniteSet(I) /\ Cardinality(I) = N
    <3>1. 0 \in Int /\ N - 1 \in Int
      OBVIOUS
    <3>2. IsFiniteSet(I) /\ Cardinality(I) = IF 0 > N - 1 THEN 0 ELSE (N - 1) - 0 + 1
      BY <3>1, FS_Interval
    <3> QED BY <3>2
  <2> HIDE DEF f, A, I
  <2> QED BY <2>1, <2>2, FS_Bijection DEF ExistsBijection
<1>3. Fresh(h, p) = <<p, N>>
  BY <1>2 DEF Fresh
<1>4. <<p, N>> \notin DOMAIN h
  <2> SUFFICES ASSUME <<p, N>> \in DOMAIN h PROVE FALSE
    OBVIOUS
  <2>1. <<p, N>> \in A
    OBVIOUS
  <2>2. PICK i \in 0..(N - 1) : <<p, N>> = <<p, i>>
    BY <1>1, <2>1
  <2> QED BY <2>2
<1>5. <<p, N>> \in Addresses
  BY DEF Addresses
<1> QED BY <1>1, <1>3, <1>4, <1>5

\* Allocation keeps to the numbering when it takes one new node for each path of S.
LEMMA FreshKeepsNumbers ==
    ASSUME NEW h, NEW R \in Nat, Cardinality(Keys) \in Nat, R <= Cardinality(Keys),
           AllocatedIn(DOMAIN h, R), NEW S \in SUBSET Prefixes
    PROVE  AllocatedIn(DOMAIN h \cup {Fresh(h, p) : p \in S}, R + 1)
<1> DEFINE E == DOMAIN h \cup {Fresh(h, p) : p \in S}
<1> SUFFICES ASSUME NEW p \in Prefixes
             PROVE  \E N \in 0..(R + 1) : {n \in E : n[1] = p} = {<<p, i>> : i \in 0..(N - 1)}
  BY DEF AllocatedIn
<1>1. PICK N \in 0..R : /\ Fresh(h, p) = <<p, N>>
                        /\ {n \in DOMAIN h : n[1] = p} = {<<p, i>> : i \in 0..(N - 1)}
  BY FreshIsNew
<1>2. \A q \in S : Fresh(h, q)[1] = q
  BY FreshIsNew
<1>3. CASE p \notin S
  <2>1. {n \in E : n[1] = p} = {n \in DOMAIN h : n[1] = p}
    BY <1>2, <1>3
  <2> QED BY <1>1, <2>1
<1>4. CASE p \in S
  <2>1. {n \in E : n[1] = p} = {n \in DOMAIN h : n[1] = p} \cup {<<p, N>>}
    BY <1>1, <1>2, <1>4
  <2>2. {<<p, i>> : i \in 0..(N - 1)} \cup {<<p, N>>} = {<<p, i>> : i \in 0..((N + 1) - 1)}
    OBVIOUS
  <2>3. N + 1 \in 0..(R + 1)
    OBVIOUS
  <2> HIDE DEF E
  <2> QED BY <1>1, <2>1, <2>2, <2>3
<1> QED BY <1>3, <1>4

\* The keys that have a node.
Reached(P) == {k \in Keys : \E n \in DOMAIN P : P[n] = k}

\* How many addresses were allocated at any one path: at most one for each key that
\* has a node, and the root.
Bound(P) == Cardinality(Reached(P)) + 1

\* That bound is a number.
LEMMA BoundFacts ==
    ASSUME IsFiniteSet(Keys), NEW P
    PROVE  /\ Bound(P) \in Nat /\ Bound(P) >= 1 /\ Cardinality(Keys) \in Nat
           /\ IsFiniteSet(Reached(P)) /\ Cardinality(Reached(P)) \in Nat
<1>1. Reached(P) \in SUBSET Keys
  BY DEF Reached
<1>2. IsFiniteSet(Reached(P)) /\ Cardinality(Reached(P)) \in Nat /\ Cardinality(Keys) \in Nat
  BY <1>1, FS_Subset, FS_CardinalityType
<1> QED BY <1>2 DEF Bound

\* An insertion that allocates reaches a key that had no node.
LEMMA BoundGrows ==
    ASSUME IsFiniteSet(Keys), NEW P, NEW Q, NEW k \in Keys, \A n \in DOMAIN P : P[n] # k,
           \A n \in DOMAIN P : \E x \in DOMAIN Q : Q[x] = P[n],
           \E x \in DOMAIN Q : Q[x] = k
    PROVE  Bound(P) <= Cardinality(Keys) /\ Bound(P) + 1 <= Bound(Q)
<1> DEFINE A == Reached(P)  B == Reached(Q)
<1>1. A \cup {k} \in SUBSET B /\ A \cup {k} \in SUBSET Keys /\ k \notin A
  BY DEF Reached
<1>2. /\ IsFiniteSet(A) /\ IsFiniteSet(B) /\ Cardinality(A) \in Nat /\ Cardinality(B) \in Nat
      /\ Cardinality(Keys) \in Nat
  BY BoundFacts
<1> HIDE DEF A, B
<1>3. Cardinality(A \cup {k}) = Cardinality(A) + 1
  BY <1>1, <1>2, FS_AddElement
<1>4. Cardinality(A \cup {k}) <= Cardinality(B)
  BY <1>1, <1>2, FS_Subset
<1>5. Cardinality(A \cup {k}) <= Cardinality(Keys)
  BY <1>1, FS_Subset
<1> QED BY <1>2, <1>3, <1>4, <1>5 DEF Bound, A, B

\* A larger bound allows what a smaller one does.
LEMMA BoundMayGrow ==
    ASSUME NEW D, NEW R \in Nat, NEW T \in Nat, R <= T, AllocatedIn(D, R)
    PROVE  AllocatedIn(D, T)
<1>1. 0..R \subseteq 0..T
  OBVIOUS
<1> QED BY <1>1 DEF AllocatedIn

-----------------------------------------------------------------------------
(* The heap of an insertion *)

\* A node just allocated is a record without edges.
LEMMA NewNode ==
    ASSUME NEW l \in Seq(Chars)
    PROVE  /\ Node(l) \in Records
           /\ Node(l).label = l /\ Node(l).next = NoNode /\ Node(l).value = NoValue
           /\ Node(l).key = << >> /\ Node(l).children = << >>
           /\ DOMAIN Node(l).children = {} /\ << >> \in Children
<1>1. DOMAIN << >> = {} /\ << >> \in [{} -> Addresses]
  OBVIOUS
<1>2. << >> \in Children
  BY <1>1 DEF Children
<1>3. << >> \in Seq(Chars)
  OBVIOUS
<1>4. Node(l) \in Records
  BY <1>2, <1>3 DEF Node, Records
<1> QED BY <1>1, <1>2, <1>4 DEF Node

\* A map of edges with one edge more.
LEMMA OneMoreEdge ==
    ASSUME NEW f \in Children, NEW c \in Chars, NEW y \in Addresses
    PROVE  /\ With(f, c, y) \in Children /\ DOMAIN With(f, c, y) = DOMAIN f \cup {c}
           /\ With(f, c, y)[c] = y
<1>1. PICK S \in SUBSET Chars : f \in [S -> Addresses]
  BY DEF Children
<1>2. /\ DOMAIN With(f, c, y) = S \cup {c} /\ With(f, c, y)[c] = y
      /\ With(f, c, y) \in [S \cup {c} -> Addresses]
  BY <1>1 DEF With
<1>3. S \cup {c} \in SUBSET Chars
  BY <1>1
<1>4. With(f, c, y) \in Children
  BY <1>2, <1>3 DEF Children
<1> QED BY <1>1, <1>2, <1>4

\* The heap with one more node.
LEMMA OneMoreNode ==
    ASSUME NEW h, HeapOK(h), NEW new \in Addresses, new \notin DOMAIN h, NEW r \in Records
    PROVE  /\ HeapOK(With(h, new, r)) /\ DOMAIN With(h, new, r) = DOMAIN h \cup {new}
           /\ With(h, new, r)[new] = r
           /\ \A x \in DOMAIN h : With(h, new, r)[x] = h[x]
<1> DEFINE g == With(h, new, r)
<1>1. /\ DOMAIN g = DOMAIN h \cup {new} /\ g[new] = r /\ (\A x \in DOMAIN h : g[x] = h[x])
      /\ g = [x \in DOMAIN g |-> g[x]]
  BY DEF With
<1>2. RootNode \in DOMAIN h /\ DOMAIN h \in SUBSET Addresses /\ \A x \in DOMAIN h : h[x] \in Records
  BY DEF HeapOK
<1> HIDE DEF g
<1>3. g \in [DOMAIN g -> Records]
  BY <1>1, <1>2
<1>4. HeapOK(g)
  BY <1>1, <1>2, <1>3 DEF HeapOK
<1> QED BY <1>1, <1>4 DEF g

\* The heap after the first half of split: n is cut after m characters.
CutHeap(h, n, m, old) ==
    LET label   == h[n].label
        oldNode == [h[n] EXCEPT !.label = OldBranchLabel(label, m)]
        middle  == [Node(SubSeq(label, 1, m)) EXCEPT !.next = old,
                                                     !.children = With(@, label[m + 1], old)]
    IN With([h EXCEPT ![n] = middle], old, oldNode)

\* What an insertion leaves alone: the keys and values of the nodes of h.
SameValues(h, g) ==
    \A x \in DOMAIN h : x \in DOMAIN g /\ g[x].value = h[x].value /\ g[x].key = h[x].key

\* The first half of split cuts a label in two and links the new node after the old.
LEMMA CutHeapFacts ==
    ASSUME NEW h, HeapOK(h), NEW n \in DOMAIN h, NEW m \in Nat, m < Len(h[n].label),
           NEW old \in Addresses, old \notin DOMAIN h
    PROVE  LET g == CutHeap(h, n, m, old)
           IN /\ HeapOK(g) /\ Cut(h, g, n, m, old) /\ Linked(h, g, n, old)
              /\ g[n].value = NoValue
              /\ g[old].value = h[n].value /\ g[old].key = h[n].key
              /\ \A x \in DOMAIN h : x # n => g[x] = h[x]
<1> DEFINE label   == h[n].label
           oldNode == [h[n] EXCEPT !.label = OldBranchLabel(label, m)]
           c       == label[m + 1]
           f       == With(<< >>, c, old)
           middle  == [Node(SubSeq(label, 1, m)) EXCEPT !.next = old, !.children = With(@, c, old)]
           h1      == [h EXCEPT ![n] = middle]
           g       == With(h1, old, oldNode)
<1>1. /\ h[n] \in Records /\ label \in Seq(Chars) /\ n # old /\ old # NoNode
      /\ n \in Addresses
  BY NodeFacts, AddressFacts
<1>2. /\ SubSeq(label, 1, m) \in Seq(Chars) /\ SubSeq(label, m + 2, Len(label)) \in Seq(Chars)
      /\ c \in Chars
  <2>1. m < Len(label)
    OBVIOUS
  <2> HIDE DEF label
  <2> QED BY <1>1, <2>1
<1>3. /\ oldNode \in Records /\ oldNode.label = SubSeq(label, m + 2, Len(label))
      /\ oldNode.children = h[n].children /\ oldNode.next = h[n].next
      /\ oldNode.value = h[n].value /\ oldNode.key = h[n].key
  BY <1>1, <1>2 DEF OldBranchLabel, Records
<1>4. f \in Children /\ DOMAIN f = {c} /\ f[c] = old
  <2> DEFINE e == << >>
  <2>1. e \in Children /\ DOMAIN e = {} /\ f = With(e, c, old)
    BY <1>2, NewNode
  <2> HIDE DEF c, e, f
  <2>2. /\ With(e, c, old) \in Children /\ DOMAIN With(e, c, old) = DOMAIN e \cup {c}
        /\ With(e, c, old)[c] = old
    BY <1>2, <2>1, OneMoreEdge
  <2> QED BY <2>1, <2>2
<1> HIDE DEF c, f, oldNode
<1>5. /\ middle \in Records /\ middle.label = SubSeq(label, 1, m) /\ middle.next = old
      /\ middle.children = f /\ middle.value = NoValue
  <2> DEFINE l == SubSeq(label, 1, m)
  <2>1. /\ Node(l) \in Records /\ Node(l).label = l /\ Node(l).value = NoValue
        /\ Node(l).children = << >>
    BY <1>2, NewNode
  <2> HIDE DEF l, label
  <2>2. middle = [Node(l) EXCEPT !.next = old, !.children = f]
    BY <2>1 DEF f, l, Records
  <2> HIDE DEF middle
  <2> QED BY <1>4, <2>1, <2>2 DEF Records, l
<1> HIDE DEF middle
<1>6. /\ HeapOK(h1) /\ DOMAIN h1 = DOMAIN h /\ h1[n] = middle
      /\ \A x \in DOMAIN h : x # n => h1[x] = h[x]
  <2>1. /\ DOMAIN h1 = DOMAIN h /\ h1[n] = middle
        /\ \A x \in DOMAIN h : x # n => h1[x] = h[x]
    OBVIOUS
  <2>2. h1 \in [DOMAIN h -> Records]
    BY <1>5 DEF HeapOK
  <2> HIDE DEF h1
  <2> QED BY <2>1, <2>2 DEF HeapOK
<1> HIDE DEF h1
<1>7. /\ HeapOK(g) /\ DOMAIN g = DOMAIN h \cup {old} /\ g[old] = oldNode
      /\ g[n] = middle /\ \A x \in DOMAIN h : x # n => g[x] = h[x]
  <2>1. old \notin DOMAIN h1 /\ oldNode \in Records /\ HeapOK(h1) /\ old \in Addresses
    BY <1>3, <1>6
  <2> HIDE DEF label
  <2>2. /\ HeapOK(g) /\ DOMAIN g = DOMAIN h1 \cup {old} /\ g[old] = oldNode
        /\ \A x \in DOMAIN h1 : g[x] = h1[x]
    <3>1. HeapOK(With(h1, old, oldNode))
      BY <2>1, OneMoreNode
    <3>2. DOMAIN With(h1, old, oldNode) = DOMAIN h1 \cup {old}
      BY <2>1, OneMoreNode
    <3>3. With(h1, old, oldNode)[old] = oldNode
      BY DEF With
    <3>4. \A x \in DOMAIN h1 : With(h1, old, oldNode)[x] = h1[x]
      BY <2>1, OneMoreNode, Zenon
    <3> QED BY <3>1, <3>2, <3>3, <3>4
  <2> HIDE DEF g
  <2> QED BY <1>6, <2>2
<1>8. CutHeap(h, n, m, old) = g
  BY DEF CutHeap, g, h1, middle, oldNode, c
<1> HIDE DEF g
<1>9. Cut(h, g, n, m, old)
  BY <1>3, <1>4, <1>5, <1>7, Zenon DEF Cut, Edges, c
<1>10. Linked(h, g, n, old)
  BY <1>1, <1>3, <1>5, <1>7 DEF Linked
<1> QED BY <1>3, <1>5, <1>7, <1>8, <1>9, <1>10

\* A heap after the second half of split, or after the allocation for a new edge:
\* a leaf `new` with label l along edge c of n.
BranchHeap(h, n, c, new, node) ==
    With([h EXCEPT ![n].children = With(@, c, new)], new, node)

\* Heap g is heap h with leaf `new` along edge c of n.
IsBranched(h, g, n, c, new, node) ==
    /\ HeapOK(g) /\ Grafted(h, g, n, c, new, node.label) /\ SameValues(h, g)
    /\ DOMAIN g = DOMAIN h \cup {new}
    /\ g[new] = node /\ \A x \in DOMAIN h : g[x].next = h[x].next

\* An allocation for a new edge adds a leaf.
LEMMA BranchHeapFacts ==
    ASSUME NEW h, HeapOK(h), NEW n \in DOMAIN h, NEW c \in Chars,
           NEW new \in Addresses, new \notin DOMAIN h,
           NEW node \in Records, DOMAIN node.children = {}
    PROVE  IsBranched(h, BranchHeap(h, n, c, new, node), n, c, new, node)
<1> DEFINE f  == With(h[n].children, c, new)
           r  == [h[n] EXCEPT !.children = f]
           h1 == [h EXCEPT ![n] = r]
           g  == With(h1, new, node)
<1>1. h[n] \in Records /\ h[n].children \in Children
  <2>1. h[n] \in Records
    BY NodeFacts
  <2> QED BY <2>1 DEF Records
<1>2. f \in Children
  BY <1>1, OneMoreEdge
<1> HIDE DEF f
<1>3. /\ r \in Records /\ r.children = f /\ r.label = h[n].label /\ r.next = h[n].next
      /\ r.value = h[n].value /\ r.key = h[n].key
  BY <1>1, <1>2 DEF Records
<1>4. BranchHeap(h, n, c, new, node) = g
  BY <1>1 DEF BranchHeap, f
<1> HIDE DEF r
<1>5. /\ HeapOK(h1) /\ DOMAIN h1 = DOMAIN h /\ h1[n] = r
      /\ \A x \in DOMAIN h : x # n => h1[x] = h[x]
  <2>1. /\ DOMAIN h1 = DOMAIN h /\ h1[n] = r
        /\ \A x \in DOMAIN h : x # n => h1[x] = h[x]
    OBVIOUS
  <2>2. h1 \in [DOMAIN h -> Records]
    BY <1>3 DEF HeapOK
  <2> HIDE DEF h1
  <2> QED BY <2>1, <2>2 DEF HeapOK
<1> HIDE DEF h1
<1>6. /\ HeapOK(g) /\ DOMAIN g = DOMAIN h \cup {new} /\ g[new] = node
      /\ g[n] = r /\ \A x \in DOMAIN h : x # n => g[x] = h[x]
  BY <1>5, OneMoreNode
<1> HIDE DEF g
<1>7. /\ \A x \in DOMAIN h : x \in DOMAIN g /\ g[x].label = h[x].label /\ g[x].next = h[x].next
                             /\ g[x].value = h[x].value /\ g[x].key = h[x].key
      /\ \A x \in DOMAIN h : x # n => g[x].children = h[x].children
      /\ g[n].children = f
  BY <1>3, <1>6
<1>8. Grafted(h, g, n, c, new, node.label)
  BY <1>6, <1>7 DEF Grafted, Edges, f
<1>9. SameValues(h, g)
  BY <1>7 DEF SameValues
<1> QED BY <1>4, <1>6, <1>7, <1>8, <1>9 DEF IsBranched

\* A heap in which the `next` pointer of n is rewritten, and nothing else.
IsRewritten(h, g, n, y) ==
    /\ HeapOK(g) /\ DOMAIN g = DOMAIN h /\ SameValues(h, g)
    /\ g[n].next = y /\ (\A x \in DOMAIN h : x # n => g[x] = h[x])
    /\ \A x \in DOMAIN h : g[x].label = h[x].label /\ g[x].children = h[x].children

\* An assignment to a `next` pointer does that.
LEMMA NextIsRewritten ==
    ASSUME NEW h, HeapOK(h), NEW n \in DOMAIN h, NEW y \in Addresses \cup {NoNode}
    PROVE  IsRewritten(h, [h EXCEPT ![n].next = y], n, y)
<1> DEFINE r == [h[n] EXCEPT !.next = y]
           g == [h EXCEPT ![n] = r]
<1>1. h[n] \in Records
  BY NodeFacts
<1>2. /\ r \in Records /\ r.children = h[n].children /\ r.label = h[n].label /\ r.next = y
      /\ r.value = h[n].value /\ r.key = h[n].key
  BY <1>1 DEF Records
<1>3. [h EXCEPT ![n].next = y] = g
  OBVIOUS
<1> HIDE DEF r
<1>4. /\ DOMAIN g = DOMAIN h /\ g[n] = r /\ \A x \in DOMAIN h : x # n => g[x] = h[x]
  OBVIOUS
<1>5. g \in [DOMAIN h -> Records]
  BY <1>2 DEF HeapOK
<1> HIDE DEF g
<1>6. HeapOK(g)
  BY <1>4, <1>5 DEF HeapOK
<1>7. SameValues(h, g)
  BY <1>2, <1>4 DEF SameValues
<1> QED BY <1>2, <1>3, <1>4, <1>6, <1>7 DEF IsRewritten

-----------------------------------------------------------------------------
(* Insertion *)

\* Values are stored at the nodes of their keys.
Carries(h, P) == \A n \in DOMAIN h : h[n].value # NoValue => h[n].key = P[n] /\ P[n] \in Keys

\* What the methods leave: P spells the paths of h.
RadixTree(h, P) ==
    /\ Tree(h, P) /\ Listed(h, P)
    /\ AllocatedIn(DOMAIN h, Bound(P))
    /\ Carries(h, P)

\* What is stored: keys and their values.
Entries(h) == {<<h[n].key, h[n].value>> : n \in {n \in DOMAIN h : h[n].value # NoValue}}

\* A node without a value adds nothing to what is stored.
LEMMA LeafKeepsEntries ==
    ASSUME NEW h, NEW g, NEW new, new \notin DOMAIN h, DOMAIN g = DOMAIN h \cup {new},
           SameValues(h, g), g[new].value = NoValue
    PROVE  Entries(g) = Entries(h)
<1>1. {n \in DOMAIN g : g[n].value # NoValue} = {n \in DOMAIN h : h[n].value # NoValue}
  BY DEF SameValues
<1>2. \A n \in DOMAIN h : g[n].key = h[n].key /\ g[n].value = h[n].value
  BY DEF SameValues
<1> QED BY <1>1, <1>2 DEF Entries

\* The state after n is cut: all that RadixTree says but the numbers.
IsCut(h, P, g, Q, n, old, r, o) ==
    /\ Tree(g, Q) /\ Listed(g, Q) /\ Carries(g, Q) /\ Entries(g) = Entries(h)
    /\ n \in DOMAIN h /\ old \notin DOMAIN h /\ DOMAIN g = DOMAIN h \cup {old}
    /\ Edges(g, n) = {o} /\ g[n].children[o] = old /\ g[n].value = NoValue
    /\ Q[n] = r /\ Q[old] = P[n] /\ \A x \in DOMAIN h : x # n => Q[x] = P[x]
    /\ IsPrefixOf(r, P[n]) /\ P[n][Len(r) + 1] = o

\* The first half of split keeps tree, list and what is stored.
LEMMA CutIsSound ==
    ASSUME NEW h, NEW P, RadixTree(h, P), NEW p \in DOMAIN h, NEW c, NEW n, NEW m \in Nat,
           NEW r \in Prefixes, IsCutPoint(h, P, p, c, n, m, r),
           NEW old \in Addresses, old \notin DOMAIN h
    PROVE  IsCut(h, P, CutHeap(h, n, m, old), CutPaths(P, n, old, r), n, old, r, h[n].label[m + 1])
<1> DEFINE g == CutHeap(h, n, m, old)
           Q == CutPaths(P, n, old, r)
           l == h[n].label
<1>1. Tree(h, P) /\ Listed(h, P) /\ Carries(h, P) /\ HeapOK(h)
  BY Zenon DEF RadixTree, Tree
<1>2. IsChildAt(h, P, p, c, n) /\ CutAt(P[p], c, l, m, r, P[n]) /\ m < Len(h[n].label)
  BY <1>1, CutPointFacts, Zenon
<1>3. /\ n \in DOMAIN h /\ c \in Chars /\ P[p] \in Seq(Chars) /\ l \in Seq(Chars)
      /\ P[n] = P[p] \o <<c>> \o l /\ n # old /\ DOMAIN P = DOMAIN h
  BY <1>1, <1>2, Zenon DEF IsChildAt, Tree
<1>4. /\ HeapOK(g) /\ Cut(h, g, n, m, old) /\ Linked(h, g, n, old)
      /\ g[n].value = NoValue /\ g[old].value = h[n].value /\ g[old].key = h[n].key
      /\ \A x \in DOMAIN h : x # n => g[x] = h[x]
  BY <1>1, <1>2, <1>3, CutHeapFacts
<1> HIDE DEF g
<1>5. Tree(g, Q)
  BY <1>1, <1>4, CutKeepsTree, Zenon
<1>6. Listed(g, Q)
  BY <1>1, <1>4, CutKeepsList, Zenon
<1>7. Q[n] = r /\ Q[old] = P[n] /\ \A x \in DOMAIN h : x # n => Q[x] = P[x]
  BY <1>3, Zenon DEF CutPaths
<1>8. DOMAIN g = DOMAIN h \cup {old} /\ Edges(g, n) = {l[m + 1]} /\ g[n].children[l[m + 1]] = old
  BY <1>4, Zenon DEF Cut
<1>9. IsPrefixOf(r, P[n]) /\ P[n][Len(r) + 1] = l[m + 1]
  BY <1>2, Zenon DEF CutAt
<1> HIDE DEF Q, l
<1>10. Carries(g, Q)
  <2> SUFFICES ASSUME NEW x \in DOMAIN g, g[x].value # NoValue
               PROVE  g[x].key = Q[x] /\ Q[x] \in Keys
    BY Zenon DEF Carries
  <2>1. x # n
    BY <1>4, Zenon
  <2>2. CASE x = old
    BY <1>1, <1>3, <1>4, <1>7, <2>2 DEF Carries
  <2>3. CASE x # old
    BY <1>1, <1>4, <1>7, <1>8, <2>1, <2>3 DEF Carries
  <2> QED BY <2>2, <2>3, Zenon
<1>11. Entries(g) = Entries(h)
  <2> DEFINE W == {x \in DOMAIN h : h[x].value # NoValue}
             V == {x \in DOMAIN g : g[x].value # NoValue}
             moved(x) == IF x = n THEN old ELSE x
  <2>1. \A x \in W : moved(x) \in V /\ g[moved(x)].key = h[x].key /\ g[moved(x)].value = h[x].value
    BY <1>4, <1>8
  <2>2. \A y \in V : \E x \in W : y = moved(x)
    <3> SUFFICES ASSUME NEW y \in V PROVE \E x \in W : y = moved(x)
      BY Zenon
    <3>1. y # n
      BY <1>4, Zenon
    <3>2. CASE y = old
      BY <1>3, <1>4, <3>2, Zenon
    <3>3. CASE y # old
      BY <1>4, <1>8, <3>1, <3>3
    <3> QED BY <3>2, <3>3
  <2> HIDE DEF moved, W, V
  <2>3. {<<g[y].key, g[y].value>> : y \in V} = {<<h[x].key, h[x].value>> : x \in W}
    BY <2>1, <2>2
  <2> QED BY <2>3, Zenon DEF Entries, W, V
<1>12. IsCut(h, P, g, Q, n, old, r, l[m + 1])
  BY <1>3, <1>4, <1>5, <1>6, <1>7, <1>8, <1>9, <1>10, <1>11 DEF IsCut
<1> QED BY <1>12 DEF g, Q, l

\* An insertion of k: a tree with a node for k in which all that was stored still is.
\* A node may have moved up to where it was cut.
Inserted(h, P, k, g, w) ==
    \E Q : /\ RadixTree(g, Q) /\ w \in DOMAIN g /\ Q[w] = k
           /\ Entries(g) = Entries(h)
           /\ \A x \in DOMAIN h : x \in DOMAIN g /\ IsPrefixOf(Q[x], P[x])

\* Allocation for a key that had no node, one node for each path of S.
LEMMA AllocationGoesOn ==
    ASSUME IsFiniteSet(Keys), NEW h, NEW P, RadixTree(h, P), NEW Q, NEW g, NEW k \in Keys,
           \A n \in DOMAIN h : P[n] # k,
           \A n \in DOMAIN h : \E x \in DOMAIN Q : Q[x] = P[n],
           \E x \in DOMAIN Q : Q[x] = k,
           NEW S \in SUBSET Prefixes, DOMAIN g = DOMAIN h \cup {Fresh(h, q) : q \in S}
    PROVE  AllocatedIn(DOMAIN g, Bound(Q))
<1>1. DOMAIN P = DOMAIN h /\ AllocatedIn(DOMAIN h, Bound(P))
  BY DEF RadixTree, Tree
<1>2. Bound(P) <= Cardinality(Keys) /\ Bound(P) + 1 <= Bound(Q)
  BY <1>1, BoundGrows
<1>3. Bound(P) \in Nat /\ Bound(Q) \in Nat /\ Cardinality(Keys) \in Nat
  BY BoundFacts
<1> DEFINE R == Bound(P)  T == Bound(Q)
<1>4. R \in Nat /\ T \in Nat /\ R + 1 \in Nat /\ R + 1 <= T /\ R <= Cardinality(Keys)
  BY <1>2, <1>3
<1> HIDE DEF R, T
<1>5. AllocatedIn(DOMAIN g, R + 1)
  BY <1>1, <1>3, <1>4, FreshKeepsNumbers DEF R
<1>6. AllocatedIn(DOMAIN g, T)
  BY <1>4, <1>5, BoundMayGrow
<1> QED BY <1>6 DEF T

\* The addresses an insertion allocates.
LEMMA FreshForKey ==
    ASSUME IsFiniteSet(Keys), NEW h, NEW P, RadixTree(h, P), NEW k \in Keys,
           \A n \in DOMAIN h : P[n] # k, NEW q \in Prefixes
    PROVE  /\ Fresh(h, q) \in Addresses /\ Fresh(h, q) \notin DOMAIN h /\ Fresh(h, q)[1] = q
           /\ Fresh(h, q) # NoNode
<1>1. DOMAIN P = DOMAIN h /\ AllocatedIn(DOMAIN h, Bound(P))
  BY DEF RadixTree, Tree
<1>2. Bound(P) <= Cardinality(Keys)
  <2> DEFINE Q == [x \in DOMAIN P \cup {NoNode} |-> IF x \in DOMAIN P THEN P[x] ELSE k]
  <2>1. NoNode \notin DOMAIN P
    BY <1>1, NodeFacts DEF RadixTree, Tree
  <2>2. (\A n \in DOMAIN P : \E x \in DOMAIN Q : Q[x] = P[n]) /\ \E x \in DOMAIN Q : Q[x] = k
    BY <2>1
  <2> HIDE DEF Q
  <2> QED BY <1>1, <2>2, BoundGrows
<1>3. Bound(P) \in Nat /\ Cardinality(Keys) \in Nat
  BY BoundFacts
<1>4. /\ Fresh(h, q) \in Addresses /\ Fresh(h, q) \notin DOMAIN h /\ Fresh(h, q)[1] = q
  BY <1>1, <1>2, <1>3, FreshIsNew
<1> QED BY <1>4, AddressFacts

\* Where the edge for k is there but its label is not all in k.
IsSplitPoint(P, k, p, i, n, m) ==
    LET label == heap[n].label
        c     == k[i + 1]
    IN /\ c \in Edges(heap, p) /\ c \in Chars /\ IsChildAt(heap, P, p, c, n)
       /\ label \in Seq(Chars) /\ m \in Nat /\ m < Len(label) /\ i + m + 1 <= Len(k)
       /\ P[p] \o <<c>> \o SubSeq(label, 1, m) = SubSeq(k, 1, i + m + 1)
       /\ P[n] = SubSeq(k, 1, i + 1) \o label
       /\ i + m + 1 < Len(k) => label[m + 1] # k[i + m + 2]
       /\ i \in Nat /\ i < Len(k) /\ P[p] = SubSeq(k, 1, i)

\* When an edge starts with the next character of k but its label does not match,
\* common_prefix_length is where to split it.
LEMMA SplitPoint ==
    ASSUME NEW P, Tree(heap, P), NEW k \in Seq(Chars), NEW s, OnTheWay(P, k, s),
           ~Matches(k, s), s.idx # Len(k), k[s.idx + 1] \in Edges(heap, s.node),
           NEW n, n = heap[s.node].children[k[s.idx + 1]]
    PROVE  IsSplitPoint(P, k, s.node, s.idx, n, CommonPrefixLength(heap[n].label, k, s.idx + 1))
<1> DEFINE p == s.node
           i == s.idx
           c == k[i + 1]
           l == heap[n].label
           m == CommonPrefixLength(l, k, i + 1)
           N == Len(k)
<1>1. /\ p \in DOMAIN heap /\ i \in 0..N /\ i \in Nat /\ N \in Nat /\ i < N
      /\ P[p] = SubSeq(k, 1, i)
  BY DEF OnTheWay
<1>2. ~(CommonPrefixLength(l, k, i + 1) = Len(l))
  BY <1>1, Zenon DEF Matches
<1> HIDE DEF p, i
<1>3. c \in Edges(heap, p) /\ IsChildAt(heap, P, p, c, n)
  BY <1>1, ChildFacts DEF p, i
<1>4. c \in Chars /\ l \in Seq(Chars) /\ Len(l) \in Nat /\ P[n] = P[p] \o <<c>> \o l
  BY <1>3, Zenon DEF IsChildAt
<1> HIDE DEF c, l
<1>5. SharedLength(l, k, i + 1, m)
  <2>1. i + 1 \in 0..Len(k)
    BY <1>1
  <2> QED BY <1>4, <2>1, CommonPrefixLengthIsShared, Zenon
<1>6. m # Len(l)
  BY <1>2
<1> HIDE DEF m
<1>7. /\ m \in Nat /\ m \in 0..Len(l) /\ i + 1 + m <= Len(k)
      /\ \A j \in 1..m : l[j] = k[i + 1 + j]
      /\ m < Len(l) /\ i + 1 + m < Len(k) => l[m + 1] # k[i + 1 + m + 1]
  BY <1>5 DEF SharedLength
<1>8. m < Len(l) /\ i + m + 1 <= N
  <2> DEFINE e == Len(l)
  <2>1. m \in 0..e /\ m # e /\ e \in Nat /\ m \in Nat /\ i \in Nat /\ N \in Nat /\ i + 1 + m <= N
    BY <1>1, <1>4, <1>6, <1>7, Zenon
  <2> HIDE DEF e, N
  <2>2. m < e /\ i + m + 1 <= N
    BY <2>1
  <2> QED BY <2>2 DEF e
<1> HIDE DEF N
<1>9. i + m + 1 < N => l[m + 1] # k[i + m + 2]
  <2>1. i + 1 + m + 1 = i + m + 2 /\ i + 1 + m = i + m + 1
    BY <1>1, <1>7
  <2> QED BY <1>7, <1>8, <2>1 DEF N
<1>10. P[p] \o <<c>> \o SubSeq(l, 1, m) = SubSeq(k, 1, i + m + 1)
  <2> DEFINE u == SubSeq(l, 1, m)
  <2>1. u \in Seq(Chars) /\ Len(u) = m /\ \A j \in 1..m : u[j] = l[j]
    BY <1>4, <1>7, <1>8, Beginning, Zenon
  <2> HIDE DEF u
  <2>2. i < Len(k) /\ i \in 0..Len(k) /\ i + 1 + Len(u) <= Len(k)
        /\ \A j \in 1..Len(u) : u[j] = k[i + 1 + j]
    BY <1>1, <1>7, <2>1 DEF N
  <2>3. SubSeq(k, 1, i) \o <<k[i + 1]>> \o u = SubSeq(k, 1, i + 1 + Len(u))
    BY <2>1, <2>2, BeginningGrows
  <2>4. i + 1 + Len(u) = i + m + 1
    BY <1>1, <1>7, <2>1
  <2> QED BY <1>1, <2>3, <2>4 DEF u, c
<1>11. P[n] = SubSeq(k, 1, i + 1) \o l
  <2> DEFINE a == SubSeq(k, 1, i)
             b == SubSeq(k, 1, i + 1)
             q == b \o l
  <2>1. /\ a \in Seq(Chars) /\ Len(a) = i /\ b \in Seq(Chars) /\ Len(b) = i + 1
        /\ (\A j \in 1..i : a[j] = k[j]) /\ (\A j \in 1..(i + 1) : b[j] = k[j])
    <3>1. i \in 0..Len(k) /\ i + 1 \in 0..Len(k)
      BY <1>1 DEF N
    <3> QED BY <3>1, Beginning
  <2> HIDE DEF a, b
  <2>2. /\ q \in Seq(Chars) /\ Len(q) = Len(b) + Len(l)
        /\ (\A j \in 1..Len(b) : q[j] = b[j]) /\ \A j \in 1..Len(l) : q[Len(b) + j] = l[j]
    <3>1. b \in Seq(Chars) /\ l \in Seq(Chars)
      BY <1>4, <2>1, Zenon
    <3> QED BY <3>1
  <2> HIDE DEF q
  <2>3. Len(q) = Len(a) + 1 + Len(l) /\ IsPrefixOf(a, q) /\ q[Len(a) + 1] = c
        /\ \A j \in 1..Len(l) : q[Len(a) + 1 + j] = l[j]
    <3>1. Len(q) = Len(a) + 1 + Len(l)
      BY <1>1, <1>4, <2>1, <2>2, Zenon
    <3>2. \A j \in 1..Len(l) : q[Len(a) + 1 + j] = l[j]
      BY <1>1, <2>1, <2>2
    <3>3. q[Len(a) + 1] = c
      BY <1>1, <2>1, <2>2 DEF c
    <3>4. IsPrefixOf(a, q)
      <4>1. Len(a) <= Len(q)
        <5> DEFINE x == Len(a)  y == Len(q)  z == Len(l)
        <5>1. x \in Nat /\ z \in Nat /\ y = x + 1 + z
          BY <1>1, <1>4, <2>1, <3>1, Zenon
        <5> HIDE DEF x, y, z
        <5>2. x <= y
          BY <5>1
        <5> QED BY <5>2 DEF x, y
      <4>2. \A j \in 1..Len(a) : a[j] = q[j]
        BY <1>1, <2>1, <2>2, SMTT(30)
      <4> QED BY <4>1, <4>2 DEF IsPrefixOf
    <3> QED BY <3>1, <3>2, <3>3, <3>4
  <2>4. q = a \o <<c>> \o l
    BY <1>4, <2>1, <2>2, <2>3, SpelledBy, Zenon
  <2> QED BY <1>1, <1>4, <2>4, Zenon DEF q, a, b
<1>12. IsSplitPoint(P, k, p, i, n, m)
  BY <1>1, <1>3, <1>4, <1>7, <1>8, <1>9, <1>10, <1>11, Zenon DEF IsSplitPoint, c, l, N
<1> QED BY <1>12, Zenon DEF p, i, m, l

\* What is left of a key after a beginning of it and one character more.
LEMMA RestOfKey ==
    ASSUME NEW k \in Seq(Chars), NEW i \in Nat, i < Len(k)
    PROVE  /\ k[i + 1] \in Chars /\ SubSeq(k, i + 2, Len(k)) \in Seq(Chars)
           /\ SubSeq(k, 1, i) \o <<k[i + 1]>> \o SubSeq(k, i + 2, Len(k)) = k
<1> DEFINE w == SubSeq(k, i + 2, Len(k))
<1>1. /\ k[i + 1] \in Chars /\ w \in Seq(Chars) /\ Len(w) = Len(k) - (i + 1)
      /\ \A j \in 1..Len(w) : w[j] = k[i + 1 + j]
      /\ i \in 0..Len(k) /\ Len(k) \in Nat
  OBVIOUS
<1> HIDE DEF w
<1>2. i + 1 + Len(w) = Len(k)
  BY <1>1
<1>3. SubSeq(k, 1, i) \o <<k[i + 1]>> \o w = SubSeq(k, 1, Len(k))
  <2>1. i + 1 + Len(w) <= Len(k)
    BY <1>1, <1>2
  <2>2. SubSeq(k, 1, i) \o <<k[i + 1]>> \o w = SubSeq(k, 1, i + 1 + Len(w))
    BY <1>1, <2>1, BeginningGrows
  <2> QED BY <1>2, <2>2
<1>4. SubSeq(k, 1, Len(k)) = k
  BY <1>1, Beginning
<1> QED BY <1>1, <1>3, <1>4, Zenon DEF w

\* A leaf for k along a new edge of p, after the node it belongs after.
IsGrafted(h, P, g, Q, new, k) ==
    /\ Tree(g, Q) /\ Listed(g, Q) /\ Carries(g, Q) /\ Entries(g) = Entries(h)
    /\ new \in DOMAIN g /\ Q[new] = k
    /\ \A x \in DOMAIN h : x \in DOMAIN g /\ Q[x] = P[x]

\* A leaf for k, linked after the node it belongs after, keeps tree, list and what
\* is stored.
LEMMA GraftIsSound ==
    ASSUME NEW h, NEW P, Tree(h, P), Listed(h, P), Carries(h, P),
           NEW p \in DOMAIN h, NEW c \in Chars, c \notin Edges(h, p), NEW l \in Seq(Chars),
           NEW k \in Keys, P[p] \o <<c>> \o l = k,
           NEW new, new # NoNode, NEW g, HeapOK(g), Grafted(h, g, p, c, new, l),
           SameValues(h, g), g[new].value = NoValue,
           NEW left, IsPlaceFor(h, P, p, c, left), Linked(h, g, left, new)
    PROVE  IsGrafted(h, P, g, With(P, new, k), new, k)
<1> DEFINE q == P[p] \o <<c>> \o l
           Q == With(P, new, k)
<1>1. new \notin DOMAIN h /\ DOMAIN g = DOMAIN h \cup {new} /\ DOMAIN P = DOMAIN h
  BY DEF Grafted, Tree
<1>2. Q[new] = k /\ \A x \in DOMAIN h : Q[x] = P[x]
  BY <1>1 DEF With
<1>3. Tree(g, Q)
  <2>1. q \in Prefixes /\ Q = With(P, new, q)
    BY AddressFacts
  <2>2. Tree(g, With(P, new, q))
    BY <2>1, GraftKeepsTree
  <2> QED BY <2>1, <2>2
<1> HIDE DEF Q
<1>4. /\ k \in Paths /\ IsPrefixOf(P[p], k) /\ Len(P[p]) < Len(k) /\ k[Len(P[p]) + 1] = c
  <2>1. P[p] \in Seq(Chars)
    BY PathFacts
  <2>2. /\ Len(q) = Len(P[p]) + 1 + Len(l) /\ IsPrefixOf(P[p], q) /\ q[Len(P[p]) + 1] = c
        /\ Len(P[p]) \in Nat /\ Len(l) \in Nat
    BY <2>1, Spelling
  <2>3. q = k
    OBVIOUS
  <2> HIDE DEF q
  <2>4. Len(P[p]) < Len(q)
    BY <2>2
  <2> QED BY <2>2, <2>3, <2>4, AddressFacts
<1>5. /\ left \in DOMAIN h /\ Precedes(P[left], k)
      /\ \A x \in DOMAIN h : Precedes(P[left], P[x]) => Precedes(k, P[x])
  BY <1>4, PlaceIsRight
<1>6. Listed(g, Q)
  <2>1. Places(DOMAIN h, P)
    BY PathFacts DEF Places, Tree
  <2>2. NoNode \notin DOMAIN h
    BY NodeFacts DEF Tree
  <2>3. k \in Paths
    BY <1>4
  <2> HIDE DEF q
  <2> QED BY <1>2, <1>5, <2>1, <2>2, <2>3, InsertKeepsList
<1>7. Carries(g, Q)
  BY <1>1, <1>2 DEF Carries, SameValues
<1>8. Entries(g) = Entries(h)
  BY <1>1, LeafKeepsEntries
<1> QED BY <1>1, <1>2, <1>3, <1>6, <1>7, <1>8 DEF IsGrafted, Q

\* Where a cut in a key of length n leaves at least one character.
LEMMA CutInKey ==
    ASSUME NEW i \in Nat, NEW m \in Nat, NEW n \in Nat, i + m + 1 <= n
    PROVE  /\ i + m + 1 \in Nat /\ i + m + 1 \in 0..n
           /\ (i + m + 1) + 1 = i + m + 2 /\ (i + m + 1) + 2 = i + m + 3
           /\ i + m + 1 # n => i + m + 1 < n
OBVIOUS

\* split makes a node for k, at the cut or on a branch of its own there.
LEMMA SplitInserts ==
    ASSUME IsFiniteSet(Keys), NEW P, RadixTree(heap, P), NEW k \in Keys,
           \A x \in DOMAIN heap : P[x] # k, NEW p \in DOMAIN heap, NEW i, NEW n,
           n = heap[p].children[k[i + 1]],
           IsSplitPoint(P, k, p, i, n, CommonPrefixLength(heap[n].label, k, i + 1))
    PROVE  LET made == Split(n, k, i) IN Inserted(heap, P, k, made.heap, made.node)
<1> DEFINE l == heap[n].label
           c == k[i + 1]
           m == CommonPrefixLength(l, k, i + 1)
           b == SubSeq(k, 1, i + 1) \o l
           old == Fresh(heap, b)
           o == l[m + 1]
           r == SubSeq(k, 1, i + m + 1)
           g == CutHeap(heap, n, m, old)
           Q == CutPaths(P, n, old, r)
           new == Fresh(heap, k)
           e == k[i + m + 2]
           w == SubSeq(k, i + m + 3, Len(k))
           h == BranchHeap(g, n, e, new, Node(w))
           left == IF e > o THEN Rightmost(h, old) ELSE n
           f == LinkAfter(h, left, new)
<1>1. k \in Seq(Chars) /\ Tree(heap, P) /\ HeapOK(heap) /\ Len(k) \in Nat
  BY CharsArePaths DEF RadixTree, Tree
<1>2. IsSplitPoint(P, k, p, i, n, m)
  OBVIOUS
<1>3. Split(n, k, i) = IF i + m + 1 = Len(k) THEN [heap |-> g, node |-> n]
                       ELSE [heap |-> f, node |-> new]
  BY Zenon DEF Split, CutHeap, BranchHeap
<1> HIDE DEF m
<1>4. /\ c \in Edges(heap, p) /\ c \in Chars /\ IsChildAt(heap, P, p, c, n)
      /\ l \in Seq(Chars) /\ m \in Nat /\ m < Len(l) /\ i + m + 1 <= Len(k)
      /\ P[p] \o <<c>> \o SubSeq(l, 1, m) = r
      /\ P[n] = b /\ (i + m + 1 < Len(k) => o # e)
      /\ i \in Nat /\ i < Len(k) /\ P[p] = SubSeq(k, 1, i)
  BY <1>2, Zenon DEF IsSplitPoint
<1>5. n \in DOMAIN heap /\ b \in Prefixes /\ r \in Prefixes /\ i + m + 1 \in 0..Len(k)
  <2>1. n \in DOMAIN heap /\ i + m + 1 \in 0..Len(k)
    <3> DEFINE N == Len(k)
    <3>1. n \in DOMAIN heap
      BY <1>4, Zenon DEF IsChildAt
    <3>2. i \in Nat /\ m \in Nat /\ N \in Nat /\ i + m + 1 <= N
      BY <1>1, <1>4, Zenon
    <3> HIDE DEF N
    <3>3. i + m + 1 \in 0..N
      BY <3>2
    <3> QED BY <3>1, <3>3 DEF N
  <2> HIDE DEF b, r
  <2>2. b \in Prefixes
    BY <1>1, <1>4, <2>1, PathFacts
  <2> QED BY <2>1, <2>2, AddressFacts DEF r
<1>6. /\ old \in Addresses /\ old \notin DOMAIN heap /\ old[1] = b /\ old # NoNode
      /\ new \in Addresses /\ new \notin DOMAIN heap /\ new[1] = k /\ new # NoNode
      /\ k \in Prefixes
  <2> HIDE DEF b
  <2> QED BY <1>5, FreshForKey, AddressFacts
<1>7. old # new
  BY <1>4, <1>5, <1>6, Zenon
<1>8. IsCut(heap, P, g, Q, n, old, r, o)
  <2>1. IsCutPoint(heap, P, p, c, n, m, r)
    BY <1>4, Zenon DEF IsCutPoint
  <2>2. IsCut(heap, P, CutHeap(heap, n, m, old), CutPaths(P, n, old, r), n, old, r, heap[n].label[m + 1])
    <3> HIDE DEF r, b, old, c, l
    <3> QED BY <1>4, <1>5, <1>6, <2>1, CutIsSound, Zenon
  <2> QED BY <2>2, Zenon
<1> HIDE DEF g, Q, o, r, b, old, new, c
<1>9. /\ Tree(g, Q) /\ Listed(g, Q) /\ Carries(g, Q) /\ Entries(g) = Entries(heap)
      /\ DOMAIN g = DOMAIN heap \cup {old}
      /\ Edges(g, n) = {o} /\ g[n].children[o] = old /\ g[n].value = NoValue
      /\ Q[n] = r /\ Q[old] = P[n] /\ \A x \in DOMAIN heap : x # n => Q[x] = P[x]
      /\ IsPrefixOf(r, P[n]) /\ P[n][Len(r) + 1] = o /\ HeapOK(g)
  BY <1>8, Zenon DEF IsCut, Tree
<1>10. \A x \in DOMAIN heap : IsPrefixOf(Q[x], P[x])
  <2>1. \A x \in DOMAIN heap : P[x] \in Paths
    BY <1>1, PathFacts
  <2>2. \A z \in Paths : IsPrefixOf(z, z)
    BY DEF IsPrefixOf, Paths
  <2> QED BY <1>9, <2>1, <2>2
<1>11. \A x \in DOMAIN heap : \E y \in DOMAIN g : Q[y] = P[x]
  BY <1>5, <1>9, Zenon
<1>12. DOMAIN Q = DOMAIN g
  BY <1>9 DEF Tree
<1>13. CASE i + m + 1 = Len(k)
  <2>1. r = k
    BY <1>1, <1>5, <1>13, Beginning, Zenon DEF r
  <2>2. DOMAIN g = DOMAIN heap \cup {Fresh(heap, q) : q \in {b}}
    BY <1>9 DEF old
  <2>3. AllocatedIn(DOMAIN g, Bound(Q))
    <3>1. (\A x \in DOMAIN heap : \E y \in DOMAIN Q : Q[y] = P[x]) /\ \E y \in DOMAIN Q : Q[y] = k
      BY <1>5, <1>9, <1>11, <1>12, <2>1
    <3>2. {b} \in SUBSET Prefixes
      BY <1>5, Zenon
    <3> QED BY <2>2, <3>1, <3>2, AllocationGoesOn
  <2>4. Inserted(heap, P, k, g, n)
    <3>1. RadixTree(g, Q)
      BY <1>9, <2>3 DEF RadixTree
    <3> QED BY <1>5, <1>9, <1>10, <2>1, <3>1, Zenon DEF Inserted
  <2> QED BY <1>3, <1>13, <2>4
<1>14. CASE i + m + 1 # Len(k)
  <2>0. i \in Nat /\ m \in Nat /\ Len(k) \in Nat /\ i + m + 1 <= Len(k)
    BY <1>1, <1>4, Zenon
  <2>1. i + m + 1 < Len(k) /\ i + m + 1 \in Nat
    BY <1>14, <2>0, CutInKey, Zenon
  <2>2. e \in Chars /\ w \in Seq(Chars) /\ r \o <<e>> \o w = k
    <3> DEFINE j == i + m + 1
    <3>1. /\ k[j + 1] \in Chars /\ SubSeq(k, j + 2, Len(k)) \in Seq(Chars)
          /\ SubSeq(k, 1, j) \o <<k[j + 1]>> \o SubSeq(k, j + 2, Len(k)) = k
      <4> HIDE DEF j
      <4> QED BY <1>1, <2>1, RestOfKey DEF j
    <3>2. j + 1 = i + m + 2 /\ j + 2 = i + m + 3
      BY <2>0, CutInKey, Zenon
    <3>3. r = SubSeq(k, 1, j) /\ e = k[j + 1] /\ w = SubSeq(k, j + 2, Len(k))
      BY <3>2, Zenon DEF r
    <3> HIDE DEF e, w, j
    <3> QED BY <3>1, <3>3, Zenon
  <2>3. e \notin Edges(g, n) /\ o # e
    BY <1>4, <1>9, <2>1, Zenon DEF o
  <2> HIDE DEF e, w
  <2> DEFINE N == Node(w)
             Z == With(Q, new, k)
  <2>4. new \notin DOMAIN g /\ n \in DOMAIN g /\ n # new
    BY <1>5, <1>6, <1>7, <1>9
  <2>5. N \in Records /\ N.label = w /\ N.value = NoValue /\ DOMAIN N.children = {}
    BY <2>2, NewNode, Zenon
  <2> HIDE DEF N
  <2>6. /\ HeapOK(h) /\ Grafted(g, h, n, e, new, N.label) /\ SameValues(g, h)
        /\ DOMAIN h = DOMAIN g \cup {new}
        /\ h[new] = N /\ \A x \in DOMAIN g : h[x].next = g[x].next
    <3>1. h = BranchHeap(g, n, e, new, N)
      BY DEF N
    <3> HIDE DEF h
    <3>2. IsBranched(g, BranchHeap(g, n, e, new, N), n, e, new, N)
      BY <1>6, <1>9, <2>2, <2>4, <2>5, BranchHeapFacts, Zenon
    <3> QED BY <3>1, <3>2 DEF IsBranched
  <2> HIDE DEF h
  <2>7. Grafted(g, h, n, e, new, w)
    BY <2>5, <2>6
  <2>8. Tree(h, Z) /\ Z[new] = k /\ \A x \in DOMAIN g : Z[x] = Q[x]
    <3> DEFINE q == Q[n] \o <<e>> \o w
    <3>1. q \in Prefixes /\ q = k
      BY <1>6, <1>9, <2>2, Zenon
    <3>2. Tree(h, With(Q, new, q))
      BY <1>9, <2>2, <2>3, <2>4, <2>6, <2>7, <3>1, GraftKeepsTree, Zenon
    <3>3. Z[new] = k /\ \A x \in DOMAIN g : Z[x] = Q[x]
      BY <1>12, <2>4 DEF With
    <3> QED BY <3>1, <3>2, <3>3, Zenon
  <2> HIDE DEF Z
  <2>9. /\ r \in Paths /\ k \in Paths /\ Q[old] \in Paths /\ old \in DOMAIN g
        /\ IsPrefixOf(r, k) /\ Len(r) < Len(k) /\ k[Len(r) + 1] = e
        /\ Len(r) \in Nat /\ Len(k) \in Nat
    <3> DEFINE q == r \o <<e>> \o w
    <3>1. r \in Seq(Chars) /\ Q[old] \in Paths /\ old \in DOMAIN g
      BY <1>5, <1>9, AddressFacts, PathFacts
    <3>2. /\ Len(q) = Len(r) + 1 + Len(w) /\ IsPrefixOf(r, q) /\ q[Len(r) + 1] = e
          /\ Len(r) \in Nat /\ Len(w) \in Nat
      BY <2>2, <3>1, Spelling
    <3>3. q = k
      BY <2>2
    <3> HIDE DEF q
    <3>4. Len(r) < Len(q)
      BY <3>2
    <3> QED BY <1>1, <1>5, <3>1, <3>2, <3>3, <3>4, AddressFacts, Zenon
  <2>10. IsPlaceFor(g, Q, n, e, left) /\ left \in DOMAIN g
    <3>1. o \in Int /\ e \in Int
      <4>1. o \in Chars
        BY <1>9, <2>4, NodeFacts
      <4> QED BY <2>2, <4>1, CharsArePaths, Zenon
    <3>2. CASE e > o
      <4> DEFINE v == Rightmost(h, old)
      <4>1. left = v
        BY <3>2
      <4>2. /\ v \in DOMAIN h /\ IsPrefixOf(Z[old], Z[v])
            /\ \A x \in DOMAIN h : IsPrefixOf(Z[old], Z[x]) => x = v \/ Precedes(Z[x], Z[v])
        BY <2>6, <2>8, <2>9, RightmostIsLast
      <4> HIDE DEF v
      <4>3. v # new
        <5> SUFFICES ASSUME v = new PROVE FALSE
          BY Zenon
        <5>1. IsPrefixOf(P[n], k)
          BY <1>9, <2>8, <2>9, <4>2
        <5>2. Len(r) + 1 \in 1..Len(P[n])
          <6>1. IsPrefixOf(r, P[n]) /\ P[n] # r /\ P[n] \in Paths /\ r \in Paths
            <7>1. P[n] # r
              BY <1>9, <2>4, <2>9, <1>5, <1>6 DEF Tree
            <7> QED BY <1>1, <1>5, <1>9, <2>9, <7>1, PathFacts, Zenon
          <6>2. ~(Len(r) >= Len(P[n])) /\ Len(P[n]) \in Nat
            BY <1>1, <1>5, <6>1, PrefixSameLength, PathFacts
          <6> DEFINE x == Len(r)  y == Len(P[n])
          <6>3. x \in Nat /\ y \in Nat /\ ~(x >= y)
            BY <2>9, <6>2
          <6> HIDE DEF x, y
          <6>4. x + 1 \in 1..y
            BY <6>3, SMTT(30)
          <6> QED BY <6>4, Zenon DEF x, y
        <5>3. k[Len(r) + 1] = o
          BY <1>9, <5>1, <5>2 DEF IsPrefixOf
        <5> QED BY <2>3, <2>9, <5>3
      <4>4. v \in DOMAIN g
        BY <2>6, <4>2, <4>3
      <4>5. IsRightmostOf(DOMAIN g, Q, old, v)
        BY <2>6, <2>8, <2>9, <4>2, <4>4, Zenon DEF IsRightmostOf
      <4>6. IsPredecessor(Edges(g, n), e, o)
        BY <1>9, <3>1, <3>2 DEF IsPredecessor
      <4>7. IsPlaceFor(g, Q, n, e, v)
        BY <1>9, <4>5, <4>6, Zenon DEF IsPlaceFor
      <4> QED BY <4>1, <4>4, <4>7
    <3>3. CASE ~(e > o)
      <4>1. left = n
        BY <3>3
      <4>2. o > e
        BY <2>3, <3>1, <3>3
      <4>3. IsPlaceFor(g, Q, n, e, n)
        BY <1>9, <4>2, Zenon DEF IsPlaceFor
      <4> QED BY <2>4, <4>1, <4>3
    <3> QED BY <3>2, <3>3
  <2> HIDE DEF left
  <2>11. /\ HeapOK(f) /\ DOMAIN f = DOMAIN h /\ SameValues(h, f)
         /\ f[new].next = h[left].next /\ f[left].next = new
         /\ \A x \in DOMAIN h : x # left /\ x # new => f[x].next = h[x].next
         /\ \A x \in DOMAIN h : f[x].label = h[x].label /\ f[x].children = h[x].children
    <3> DEFINE y == h[left].next
               h1 == [h EXCEPT ![new].next = y]
               h2 == [h1 EXCEPT ![left].next = new]
    <3>1. left \in DOMAIN h /\ new \in DOMAIN h /\ left # new /\ y \in Addresses \cup {NoNode}
      BY <2>4, <2>6, <2>10, NodeFacts
    <3>2. f = h2
      BY <3>1 DEF LinkAfter
    <3> HIDE DEF y
    <3>3. /\ HeapOK(h1) /\ DOMAIN h1 = DOMAIN h /\ SameValues(h, h1)
          /\ h1[new].next = y /\ (\A x \in DOMAIN h : x # new => h1[x] = h[x])
          /\ \A x \in DOMAIN h : h1[x].label = h[x].label /\ h1[x].children = h[x].children
      <4>1. h1 = [h EXCEPT ![new].next = y]
        OBVIOUS
      <4>2. HeapOK(h)
        BY <2>6
      <4> HIDE DEF h1
      <4>3. IsRewritten(h, [h EXCEPT ![new].next = y], new, y)
        BY <3>1, <4>2, NextIsRewritten
      <4> QED BY <4>1, <4>3 DEF IsRewritten
    <3> HIDE DEF h1
    <3>4. /\ HeapOK(h2) /\ DOMAIN h2 = DOMAIN h1 /\ SameValues(h1, h2)
          /\ h2[left].next = new /\ (\A x \in DOMAIN h1 : x # left => h2[x] = h1[x])
          /\ \A x \in DOMAIN h1 : h2[x].label = h1[x].label /\ h2[x].children = h1[x].children
      <4>1. h2 = [h1 EXCEPT ![left].next = new] /\ new \in Addresses \cup {NoNode}
        BY <1>6
      <4>2. left \in DOMAIN h1 /\ HeapOK(h1)
        BY <3>1, <3>3
      <4> HIDE DEF h2
      <4>3. IsRewritten(h1, [h1 EXCEPT ![left].next = new], left, new)
        BY <4>1, <4>2, NextIsRewritten
      <4> QED BY <4>1, <4>3 DEF IsRewritten
    <3> HIDE DEF h2
    <3>5. SameValues(h, h2)
      BY <3>3, <3>4 DEF SameValues
    <3>6. h2[new].next = y /\ \A x \in DOMAIN h : x # left /\ x # new => h2[x].next = h[x].next
      BY <3>1, <3>3, <3>4
    <3> HIDE DEF f
    <3>7. HeapOK(f) /\ DOMAIN f = DOMAIN h /\ SameValues(h, f)
      BY <3>2, <3>3, <3>4, <3>5
    <3>8. /\ f[new].next = y /\ f[left].next = new
          /\ \A x \in DOMAIN h : x # left /\ x # new => f[x].next = h[x].next
      BY <3>2, <3>4, <3>6
    <3>9. \A x \in DOMAIN h : f[x].label = h[x].label /\ f[x].children = h[x].children
      BY <3>2, <3>3, <3>4
    <3> QED BY <3>7, <3>8, <3>9 DEF y
  <2> HIDE DEF f
  <2>12. /\ Grafted(g, f, n, e, new, w) /\ SameValues(g, f) /\ f[new].value = NoValue
         /\ Linked(g, f, left, new)
    <3>1. Grafted(g, f, n, e, new, w)
      BY <2>4, <2>6, <2>7, <2>11 DEF Grafted, Edges
    <3>2. SameValues(g, f)
      BY <2>6, <2>11 DEF SameValues
    <3>3. f[new].value = NoValue
      BY <2>5, <2>6, <2>11 DEF SameValues
    <3>4. Linked(g, f, left, new)
      BY <1>6, <2>4, <2>6, <2>10, <2>11, Zenon DEF Linked
    <3> QED BY <3>1, <3>2, <3>3, <3>4, Zenon
  <2>13. /\ Tree(f, Z) /\ Listed(f, Z) /\ Carries(f, Z) /\ Entries(f) = Entries(g)
         /\ new \in DOMAIN f /\ Z[new] = k
         /\ \A x \in DOMAIN g : x \in DOMAIN f /\ Z[x] = Q[x]
    <3>1. Q[n] \o <<e>> \o w = k /\ Z = With(Q, new, k)
      BY <1>9, <2>2, Zenon DEF Z
    <3>2. /\ Tree(g, Q) /\ Listed(g, Q) /\ Carries(g, Q)
          /\ n \in DOMAIN g /\ e \in Chars /\ e \notin Edges(g, n) /\ w \in Seq(Chars)
          /\ new # NoNode /\ HeapOK(f) /\ IsPlaceFor(g, Q, n, e, left)
      BY <1>6, <1>9, <2>2, <2>3, <2>4, <2>10, <2>11, Zenon
    <3>3. IsGrafted(g, Q, f, With(Q, new, k), new, k)
      BY <2>12, <3>1, <3>2, GraftIsSound, Zenon
    <3> QED BY <3>1, <3>3 DEF IsGrafted
  <2>14. AllocatedIn(DOMAIN f, Bound(Z))
    <3>1. DOMAIN f = DOMAIN heap \cup {Fresh(heap, q) : q \in {b, k}}
      BY <1>9, <2>6, <2>11 DEF old, new
    <3>2. DOMAIN Z = DOMAIN f
      BY <2>13 DEF Tree
    <3>3. (\A x \in DOMAIN heap : \E y \in DOMAIN Z : Z[y] = P[x]) /\ \E y \in DOMAIN Z : Z[y] = k
      BY <1>11, <2>13, <3>2
    <3>4. {b, k} \in SUBSET Prefixes
      BY <1>5, <1>6, Zenon
    <3> QED BY <3>1, <3>3, <3>4, AllocationGoesOn
  <2>15. Inserted(heap, P, k, f, new)
    <3>1. RadixTree(f, Z)
      BY <2>13, <2>14, Zenon DEF RadixTree
    <3>2. \A x \in DOMAIN heap : x \in DOMAIN f /\ IsPrefixOf(Z[x], P[x])
      BY <1>9, <1>10, <2>13
    <3> QED BY <1>9, <2>13, <3>1, <3>2 DEF Inserted
  <2> QED BY <1>3, <1>14, <2>15
<1> QED BY <1>13, <1>14

\* A new child without a split makes a node for k.
LEMMA AttachInserts ==
    ASSUME IsFiniteSet(Keys), NEW P, RadixTree(heap, P), NEW k \in Keys,
           \A x \in DOMAIN heap : P[x] # k, NEW p \in DOMAIN heap, NEW i \in Nat, i < Len(k),
           P[p] = SubSeq(k, 1, i), k[i + 1] \notin Edges(heap, p)
    PROVE  LET made == Attach(p, k, i) IN Inserted(heap, P, k, made.heap, made.node)
<1> DEFINE c      == k[i + 1]
           edges  == Edges(heap, p)
           new    == Fresh(heap, k)
           pred   == CHOOSE d \in edges : IsPredecessor(edges, c, d)
           left   == IF \A d \in edges : d > c THEN p ELSE Rightmost(heap, heap[p].children[pred])
           above  == {u \in edges : IsLowerBound(edges, c, u)}
           right  == IF above = {} THEN heap[left].next
                     ELSE heap[p].children[CHOOSE u \in above : TRUE]
           w      == SubSeq(k, i + 2, Len(k))
           N      == Node(w)
           node   == [N EXCEPT !.next = right]
           h      == [heap EXCEPT ![left].next = new]
           g      == BranchHeap(h, p, c, new, node)
           Q      == With(P, new, k)
<1>0. Attach(p, k, i) = [heap |-> g, node |-> new]
  BY Zenon DEF Attach, BranchHeap
<1>1. /\ k \in Seq(Chars) /\ Tree(heap, P) /\ HeapOK(heap) /\ Listed(heap, P) /\ Carries(heap, P)
      /\ k \in Prefixes /\ k \in Paths
  BY CharsArePaths, AddressFacts DEF RadixTree, Tree
<1>2. new \in Addresses /\ new \notin DOMAIN heap /\ new # NoNode
  BY <1>1, FreshForKey
<1>3. c \in Chars /\ w \in Seq(Chars) /\ P[p] \o <<c>> \o w = k
  BY <1>1, RestOfKey
<1>4. edges \in SUBSET Chars /\ c \notin edges /\ edges \in SUBSET Int /\ c \in Int
  BY <1>1, <1>3, NodeFacts, CharsArePaths
<1> HIDE DEF c, new, w
<1>5. IsPlaceFor(heap, P, p, c, left) /\ left \in DOMAIN heap
  <2>1. CASE \A d \in edges : d > c
    BY <2>1 DEF IsPlaceFor
  <2>2. CASE ~(\A d \in edges : d > c)
    <3> DEFINE S == {d \in edges : d < c}
    <3>1. S \in SUBSET Chars /\ S # {}
      BY <1>4, <2>2
    <3>2. PICK e \in S : \A d \in S : d <= e
      <4> HIDE DEF S
      <4> QED BY <3>1, ExtremeChars
    <3>3. \E d \in edges : IsPredecessor(edges, c, d)
      BY <3>2 DEF IsPredecessor
    <3>4. pred \in edges /\ IsPredecessor(edges, c, pred)
      BY <3>3, Zenon
    <3> HIDE DEF pred
    <3> DEFINE y == heap[p].children[pred]
    <3>5. y \in DOMAIN heap
      BY <1>1, <3>4, ChildFacts DEF IsChildAt
    <3>6. left = Rightmost(heap, y)
      BY <2>2
    <3> HIDE DEF y, left
    <3>7. IsRightmostOf(DOMAIN heap, P, y, Rightmost(heap, y)) /\ Rightmost(heap, y) \in DOMAIN heap
      BY <1>1, <3>5, RightmostIsLast DEF IsRightmostOf
    <3>8. IsPlaceFor(heap, P, p, c, Rightmost(heap, y))
      BY <3>4, <3>7 DEF IsPlaceFor, y
    <3> QED BY <3>6, <3>7, <3>8
  <2> QED BY <2>1, <2>2
<1> HIDE DEF left, edges
<1>6. /\ IsPrefixOf(P[p], k) /\ Len(P[p]) < Len(k) /\ k[Len(P[p]) + 1] = c
  <2> DEFINE q == P[p] \o <<c>> \o w
  <2>1. P[p] \in Seq(Chars)
    BY <1>1, PathFacts
  <2>2. /\ Len(q) = Len(P[p]) + 1 + Len(w) /\ IsPrefixOf(P[p], q) /\ q[Len(P[p]) + 1] = c
        /\ Len(P[p]) \in Nat /\ Len(w) \in Nat
    BY <1>3, <2>1, Spelling, Zenon
  <2>3. q = k
    BY <1>3
  <2> HIDE DEF q
  <2>4. Len(P[p]) < Len(q)
    BY <2>2
  <2> QED BY <2>2, <2>3, <2>4
<1>7. /\ Precedes(P[left], k)
      /\ \A x \in DOMAIN heap : Precedes(P[left], P[x]) => Precedes(k, P[x])
  BY <1>1, <1>3, <1>4, <1>5, <1>6, PlaceIsRight DEF edges
<1>8. right = heap[left].next
  <2>1. CASE above = {}
    BY <2>1
  <2>2. CASE above # {}
    <3> DEFINE u == CHOOSE u \in above : TRUE
    <3>1. u \in above
      BY <2>2
    <3>2. IsLowerBound(Edges(heap, p), c, u)
      BY <3>1 DEF edges
    <3>3. right = heap[p].children[u]
      BY <2>2
    <3> HIDE DEF u, right
    <3>4. /\ Tree(heap, P) /\ Listed(heap, P) /\ c \in Chars /\ c \notin Edges(heap, p)
          /\ k \in Paths /\ LeavesAt(P, p, c, k) /\ Follows(heap, P, left, k)
          /\ IsLowerBound(Edges(heap, p), c, u)
      BY <1>1, <1>3, <1>4, <1>5, <1>6, <1>7, <3>2 DEF edges, LeavesAt, Follows
    <3> HIDE DEF above
    <3>5. heap[left].next = heap[p].children[u]
      BY <3>4, ChildIsNext
    <3> QED BY <3>3, <3>5
  <2> QED BY <2>1, <2>2
<1> HIDE DEF right
<1>9. right \in Addresses \cup {NoNode}
  BY <1>1, <1>5, <1>8, NodeFacts
<1>10. /\ node \in Records /\ node.label = w /\ node.value = NoValue /\ DOMAIN node.children = {}
       /\ node.next = right
  <2>1. N \in Records /\ N.label = w /\ N.value = NoValue /\ DOMAIN N.children = {}
    BY <1>3, NewNode
  <2> HIDE DEF N
  <2> QED BY <1>9, <2>1 DEF Records
<1> HIDE DEF node
<1>11. IsRewritten(heap, h, left, new)
  BY <1>1, <1>2, <1>5, NextIsRewritten
<1>12. /\ HeapOK(h) /\ DOMAIN h = DOMAIN heap /\ SameValues(heap, h)
       /\ h[left].next = new /\ (\A x \in DOMAIN heap : x # left => h[x] = heap[x])
       /\ \A x \in DOMAIN heap : h[x].label = heap[x].label /\ h[x].children = heap[x].children
  BY <1>11 DEF IsRewritten
<1> HIDE DEF h
<1>13. IsBranched(h, g, p, c, new, node)
  BY <1>2, <1>3, <1>10, <1>12, BranchHeapFacts
<1>14. /\ HeapOK(g) /\ Grafted(h, g, p, c, new, w) /\ SameValues(h, g)
       /\ DOMAIN g = DOMAIN heap \cup {new}
       /\ g[new] = node /\ \A x \in DOMAIN heap : g[x].next = h[x].next
  BY <1>10, <1>12, <1>13 DEF IsBranched
<1> HIDE DEF g
<1>15. Grafted(heap, g, p, c, new, w)
  BY <1>12, <1>14 DEF Grafted, Edges
<1>16. SameValues(heap, g) /\ g[new].value = NoValue
  BY <1>10, <1>12, <1>14 DEF SameValues
<1>17. Linked(heap, g, left, new)
  <2>1. g[new].next = heap[left].next
    BY <1>8, <1>10, <1>14
  <2>2. g[left].next = new /\ \A x \in DOMAIN heap : x # left => g[x].next = heap[x].next
    BY <1>5, <1>12, <1>14
  <2> QED BY <1>2, <1>14, <2>1, <2>2 DEF Linked
<1>18. IsGrafted(heap, P, g, Q, new, k)
  <2>1. c \notin Edges(heap, p)
    BY <1>4 DEF edges
  <2> QED BY <1>1, <1>2, <1>3, <1>5, <1>14, <1>15, <1>16, <1>17, <2>1, GraftIsSound
<1> HIDE DEF Q
<1>19. AllocatedIn(DOMAIN g, Bound(Q))
  <2>1. DOMAIN g = DOMAIN heap \cup {Fresh(heap, q) : q \in {k}}
    BY <1>14 DEF new
  <2>2. DOMAIN Q = DOMAIN g
    BY <1>18 DEF IsGrafted, Tree
  <2>3. (\A x \in DOMAIN heap : \E y \in DOMAIN Q : Q[y] = P[x]) /\ \E y \in DOMAIN Q : Q[y] = k
    BY <1>18, <2>2 DEF IsGrafted
  <2>4. {k} \in SUBSET Prefixes
    BY <1>1
  <2> QED BY <2>1, <2>3, <2>4, AllocationGoesOn
<1>20. Inserted(heap, P, k, g, new)
  <2>1. RadixTree(g, Q)
    BY <1>18, <1>19 DEF RadixTree, IsGrafted
  <2>2. \A x \in DOMAIN heap : x \in DOMAIN g /\ IsPrefixOf(Q[x], P[x])
    <3>1. \A x \in DOMAIN heap : P[x] \in Paths
      BY <1>1, PathFacts
    <3>2. \A z \in Paths : IsPrefixOf(z, z)
      BY DEF IsPrefixOf, Paths
    <3> QED BY <1>18, <3>1, <3>2 DEF IsGrafted
  <2> QED BY <1>18, <2>1, <2>2 DEF Inserted, IsGrafted
<1> QED BY <1>0, <1>20

\* traverse_creating finds or makes the node of a key, and loses nothing.
LEMMA TraverseCreatingInserts ==
    ASSUME IsFiniteSet(Keys), NEW P, RadixTree(heap, P), NEW k \in Keys
    PROVE  LET made == TraverseCreating(k) IN Inserted(heap, P, k, made.heap, made.node)
<1> DEFINE s == Descent(k)
           n == heap[s.node].children[k[s.idx + 1]]
<1>1. k \in Seq(Chars) /\ Tree(heap, P)
  BY CharsArePaths DEF RadixTree
<1>2. TraverseCreating(k) = IF s.idx = Len(k) THEN [heap |-> heap, node |-> s.node]
                            ELSE IF k[s.idx + 1] \in Edges(heap, s.node) THEN Split(n, k, s.idx)
                            ELSE Attach(s.node, k, s.idx)
  BY Zenon DEF TraverseCreating
<1>3. OnTheWay(P, k, s) /\ ~Matches(k, s)
  BY <1>1, DescentFacts
<1> HIDE DEF s
<1>4. s.node \in DOMAIN heap /\ s.idx \in 0..Len(k) /\ P[s.node] = SubSeq(k, 1, s.idx)
  BY <1>3 DEF OnTheWay
<1>5. CASE s.idx = Len(k)
  <2>1. P[s.node] = k
    BY <1>1, <1>4, <1>5, Beginning
  <2>2. \A x \in DOMAIN heap : P[x] \in Paths
    BY <1>1, PathFacts
  <2>3. \A z \in Paths : IsPrefixOf(z, z)
    BY DEF IsPrefixOf, Paths
  <2>4. Inserted(heap, P, k, heap, s.node)
    BY <1>4, <2>1, <2>2, <2>3 DEF Inserted
  <2> QED BY <1>2, <1>5, <2>4
<1>6. CASE s.idx # Len(k)
  <2>1. \A x \in DOMAIN heap : P[x] # k
    BY <1>1, <1>3, <1>6, NotUsedUp
  <2>2. s.idx \in Nat /\ s.idx < Len(k)
    BY <1>1, <1>4, <1>6
  <2>3. CASE k[s.idx + 1] \in Edges(heap, s.node)
    <3>1. IsSplitPoint(P, k, s.node, s.idx, n, CommonPrefixLength(heap[n].label, k, s.idx + 1))
      BY <1>1, <1>3, <1>6, <2>3, SplitPoint
    <3> DEFINE made == Split(n, k, s.idx)
    <3>2. Inserted(heap, P, k, made.heap, made.node)
      BY <1>4, <2>1, <3>1, SplitInserts, Zenon
    <3> QED BY <1>2, <1>6, <2>3, <3>2, Zenon
  <2>4. CASE k[s.idx + 1] \notin Edges(heap, s.node)
    <3> DEFINE made == Attach(s.node, k, s.idx)
    <3>1. Inserted(heap, P, k, made.heap, made.node)
      BY <1>4, <2>1, <2>2, <2>4, AttachInserts
    <3> QED BY <1>2, <1>6, <2>4, <3>1
  <2> QED BY <2>3, <2>4
<1> QED BY <1>5, <1>6

-----------------------------------------------------------------------------
(* Walks along the list *)

\* One move of a walk to a node of `stops`.
Move(stops, m) == IF m \in stops \cup {NoNode} THEN m ELSE heap[m].next

\* The loop of WalkTo.
Walks(stops, n) ==
    CHOOSE at : at = [i \in 0..Cardinality(DOMAIN heap) |->
        IF i = 0 THEN n ELSE Move(stops, at[i - 1])]

\* Node m is n or comes after it.
AtOrAfter(P, m, n) == m = n \/ Precedes(P[n], P[m])

\* The nodes before m.
Before(P, m) == {s \in DOMAIN heap : Precedes(P[s], P[m])}

\* A walk from n may be at x after i moves: no stop is behind it.
MayBeAt(P, stops, n, x, i) ==
    /\ x \in DOMAIN heap \cup {NoNode}
    /\ x # NoNode => n # NoNode /\ AtOrAfter(P, x, n)
    /\ n # NoNode => \A s \in stops \cap DOMAIN heap :
                        AtOrAfter(P, s, n) => x # NoNode /\ AtOrAfter(P, s, x)
    /\ x \notin stops \cup {NoNode} => Cardinality(Before(P, x)) >= i

\* Fewer nodes come before m than there are, and more before every later node.
LEMMA FewBefore ==
    ASSUME IsFiniteSet(Keys), NEW P, Tree(heap, P), NEW m \in DOMAIN heap
    PROVE  /\ IsFiniteSet(DOMAIN heap) /\ Cardinality(DOMAIN heap) \in Nat
           /\ IsFiniteSet(Before(P, m)) /\ Cardinality(Before(P, m)) \in Nat
           /\ Cardinality(Before(P, m)) < Cardinality(DOMAIN heap)
           /\ \A n \in DOMAIN heap : Precedes(P[m], P[n]) =>
                 Cardinality(Before(P, m)) < Cardinality(Before(P, n))
<1>0. /\ IsFiniteSet(DOMAIN heap) /\ Cardinality(DOMAIN heap) \in Nat
      /\ \A x \in DOMAIN heap : P[x] \in Paths
  BY FewAbove, PathFacts
<1>1. \A n \in DOMAIN heap : /\ IsFiniteSet(Before(P, n)) /\ Cardinality(Before(P, n)) \in Nat
                             /\ Before(P, n) \in SUBSET DOMAIN heap
  <2>1. \A n \in DOMAIN heap : Before(P, n) \in SUBSET DOMAIN heap
    BY DEF Before
  <2>2. \A n \in DOMAIN heap : IsFiniteSet(Before(P, n))
    BY <1>0, <2>1, FS_Subset
  <2> QED BY <2>1, <2>2, FS_CardinalityType
<1>2. m \notin Before(P, m)
  BY <1>0, PrecedesIrreflexive DEF Before
<1>3. Cardinality(Before(P, m)) < Cardinality(DOMAIN heap)
  <2>1. Before(P, m) # DOMAIN heap
    BY <1>2
  <2>2. /\ Cardinality(Before(P, m)) <= Cardinality(DOMAIN heap)
        /\ Cardinality(Before(P, m)) # Cardinality(DOMAIN heap)
    BY <1>0, <1>1, <2>1, FS_Subset
  <2> QED BY <1>0, <1>1, <2>2
<1>4. ASSUME NEW n \in DOMAIN heap, Precedes(P[m], P[n])
      PROVE  Cardinality(Before(P, m)) < Cardinality(Before(P, n))
  <2>1. Before(P, m) \in SUBSET Before(P, n)
    BY <1>0, <1>4, PrecedesTransitive DEF Before
  <2>2. m \in Before(P, n)
    BY <1>4 DEF Before
  <2>3. Before(P, m) # Before(P, n)
    BY <1>2, <2>2
  <2>4. /\ Cardinality(Before(P, m)) <= Cardinality(Before(P, n))
        /\ Cardinality(Before(P, m)) # Cardinality(Before(P, n))
    BY <1>1, <2>1, <2>3, FS_Subset
  <2> QED BY <1>1, <2>4
<1> QED BY <1>0, <1>1, <1>3, <1>4

\* A move passes no stop, and gets nearer to the end of the list.
LEMMA MoveKeepsWay ==
    ASSUME IsFiniteSet(Keys), NEW P, Tree(heap, P), Listed(heap, P), NEW stops,
           NEW n \in DOMAIN heap \cup {NoNode}, NEW i \in Nat, NEW x, MayBeAt(P, stops, n, x, i)
    PROVE  MayBeAt(P, stops, n, Move(stops, x), i + 1)
<1>1. CASE x \in stops \cup {NoNode}
  <2>1. Move(stops, x) = x
    BY <1>1 DEF Move
  <2> QED BY <1>1, <2>1 DEF MayBeAt
<1>2. CASE x \notin stops \cup {NoNode}
  <2> DEFINE y == heap[x].next
  <2>0. Move(stops, x) = y
    BY <1>2 DEF Move
  <2>1. /\ x \in DOMAIN heap /\ NoNode \notin DOMAIN heap /\ n # NoNode /\ n \in DOMAIN heap
        /\ \A z \in DOMAIN heap : P[z] \in Paths
    BY <1>2, NodeFacts, PathFacts DEF MayBeAt, Tree
  <2>2. /\ y \in DOMAIN heap \cup {NoNode}
        /\ y # NoNode => Precedes(P[x], P[y])
        /\ \A m \in DOMAIN heap : Precedes(P[x], P[m]) => y # NoNode /\ ~Precedes(P[m], P[y])
    BY <2>1 DEF Listed, IsNext
  <2> HIDE DEF y
  <2>4. y # NoNode => AtOrAfter(P, y, n)
    <3>1. AtOrAfter(P, x, n)
      BY <1>2 DEF MayBeAt
    <3> QED BY <2>1, <2>2, <3>1, PrecedesTransitive DEF AtOrAfter
  <2>5. ASSUME NEW s \in stops \cap DOMAIN heap, AtOrAfter(P, s, n)
        PROVE  y # NoNode /\ AtOrAfter(P, s, y)
    <3>1. AtOrAfter(P, s, x) /\ s # x
      BY <1>2, <2>1, <2>5 DEF MayBeAt
    <3>2. y # NoNode /\ ~Precedes(P[s], P[y]) /\ s \in DOMAIN heap
      BY <2>2, <3>1 DEF AtOrAfter
    <3>3. P[s] = P[y] => s = y
      BY <2>2, <3>2 DEF Tree
    <3> QED BY <2>1, <2>2, <3>2, <3>3, PrecedesTotal DEF AtOrAfter
  <2>6. y # NoNode => Cardinality(Before(P, y)) >= i + 1
    <3>1. Cardinality(Before(P, x)) >= i
      BY <1>2 DEF MayBeAt
    <3>2. ASSUME y # NoNode
          PROVE  /\ Cardinality(Before(P, x)) < Cardinality(Before(P, y))
                 /\ Cardinality(Before(P, x)) \in Nat /\ Cardinality(Before(P, y)) \in Nat
      <4>1. y \in DOMAIN heap /\ Precedes(P[x], P[y])
        BY <2>2, <3>2
      <4> QED BY <2>1, <4>1, FewBefore
    <3> QED BY <3>1, <3>2
  <2> QED BY <2>0, <2>1, <2>2, <2>4, <2>5, <2>6 DEF MayBeAt
<1> QED BY <1>1, <1>2

\* Where a walk from n ends: at the first stop there or after it, or at the end
\* of the list if there is none.
EndsAt(P, stops, n, w) ==
    /\ w \in (stops \cap DOMAIN heap) \cup {NoNode}
    /\ w # NoNode => n # NoNode /\ AtOrAfter(P, w, n)
    /\ n # NoNode => \A s \in stops \cap DOMAIN heap :
                        AtOrAfter(P, s, n) => w # NoNode /\ AtOrAfter(P, s, w)

\* The loops of next_value_node and next_geq_value_node end there.
LEMMA WalkFinds ==
    ASSUME IsFiniteSet(Keys), NEW P, Tree(heap, P), Listed(heap, P), NEW stops,
           NEW n \in DOMAIN heap \cup {NoNode}
    PROVE  EndsAt(P, stops, n, WalkTo(stops, n))
<1> DEFINE N == Cardinality(DOMAIN heap)
           X == DOMAIN heap \cup {NoNode}
           T == [i \in 0..N |-> {x \in X : MayBeAt(P, stops, n, x, i)}]
           g == [x \in X |-> Move(stops, x)]
           IsWalk(f) == f = [i \in 0..N |-> IF i = 0 THEN n ELSE Move(stops, f[i - 1])]
           at == Walks(stops, n)
<1>1. N \in Nat /\ 0 \in 0..N /\ N \in 0..N
  <2>1. RootNode \in DOMAIN heap
    BY DEF Tree, HeapOK
  <2> QED BY <2>1, FewBefore
<1>2. MayBeAt(P, stops, n, n, 0)
  <2>1. n # NoNode => n \in DOMAIN heap /\ Cardinality(Before(P, n)) \in Nat
    BY FewBefore
  <2> QED BY <2>1 DEF MayBeAt, AtOrAfter
<1>3. T \in [0..N -> SUBSET X] /\ n \in T[0]
  BY <1>1, <1>2
<1>4. g \in [X -> X]
  <2> SUFFICES ASSUME NEW x \in X PROVE Move(stops, x) \in X
    OBVIOUS
  <2>1. x \in DOMAIN heap => heap[x].next \in X
    BY DEF Listed, IsNext
  <2> QED BY <2>1 DEF Move
<1>5. \A i \in 1..N : \A x \in T[i - 1] : g[x] \in T[i]
  <2> SUFFICES ASSUME NEW i \in 1..N, NEW x \in T[i - 1] PROVE g[x] \in T[i]
    OBVIOUS
  <2>1. i - 1 \in Nat /\ (i - 1) + 1 = i /\ i - 1 \in 0..N /\ i \in 0..N
    BY <1>1
  <2>2. x \in X /\ MayBeAt(P, stops, n, x, i - 1)
    BY <2>1
  <2>3. MayBeAt(P, stops, n, g[x], i)
    BY <2>1, <2>2, MoveKeepsWay
  <2>4. g[x] \in X
    BY <1>4, <2>2
  <2> HIDE DEF g, X
  <2> QED BY <2>1, <2>3, <2>4
<1>6. \E f : IsWalk(f)
  <2>1. PICK f \in [0..N -> X] : KeepsTo(N, T, n, g, f)
    <3> HIDE DEF T, g, X, N
    <3> QED BY <1>1, <1>3, <1>4, <1>5, LoopRuns
  <2>2. \A i \in 1..N : i - 1 \in 0..N /\ f[i - 1] \in X /\ i # 0 /\ i \in 0..N
    BY <1>1, <2>1
  <2>3. f[0] = n /\ \A i \in 1..N : f[i] = Move(stops, f[i - 1])
    BY <2>1, <2>2 DEF KeepsTo
  <2>4. \A i \in 0..N : i # 0 => i \in 1..N
    BY <1>1
  <2>5. IsWalk(f)
    BY <2>1, <2>3, <2>4
  <2> QED BY <2>5
<1>7. IsWalk(at)
  <2>1. at = CHOOSE f : IsWalk(f)
    BY Zenon DEF Walks
  <2> HIDE DEF IsWalk, at
  <2> QED BY <1>6, <2>1, Zenon
<1> HIDE DEF at
<1>8. Loops(N, T, n, g, at)
  <2>1. at = [i \in 0..N |-> IF i = 0 THEN n ELSE Move(stops, at[i - 1])]
    BY <1>7, Zenon
  <2>2. \A i \in 1..N : i \in 0..N /\ i # 0 /\ i - 1 \in 0..N
    BY <1>1
  <2>3. at[0] = n
    BY <1>1, <2>1
  <2>4. \A i \in 1..N : at[i] = Move(stops, at[i - 1])
    BY <2>1, <2>2
  <2>5. \A i \in 1..N : at[i - 1] \in T[i - 1] => at[i - 1] \in X
    BY <2>2
  <2>6. \A i \in 1..N : at[i - 1] \in T[i - 1] => at[i] = g[at[i - 1]]
    BY <2>4, <2>5
  <2> HIDE DEF T, g
  <2> QED BY <2>3, <2>6 DEF Loops
<1> DEFINE w == at[N]
<1>9. WalkTo(stops, n) = w
  BY Zenon DEF WalkTo, Walks, Move, at
<1>10. MayBeAt(P, stops, n, w, N)
  <2>1. \A i \in 0..N : at[i] \in T[i]
    <3> HIDE DEF T, g, X, N
    <3> QED BY <1>1, <1>3, <1>4, <1>5, <1>8, LoopStays
  <2> QED BY <1>1, <2>1
<1> HIDE DEF w
<1>11. w \in stops \cup {NoNode}
  <2> SUFFICES ASSUME w \notin stops \cup {NoNode} PROVE FALSE
    OBVIOUS
  <2>1. w \in DOMAIN heap /\ Cardinality(Before(P, w)) >= N
    BY <1>10 DEF MayBeAt
  <2>2. Cardinality(Before(P, w)) \in Nat /\ Cardinality(Before(P, w)) < N
    BY <2>1, FewBefore
  <2> HIDE DEF N
  <2> QED BY <1>1, <2>1, <2>2
<1> QED BY <1>9, <1>10, <1>11 DEF MayBeAt, EndsAt

-----------------------------------------------------------------------------
(* What is stored *)

\* The keys stored.
StoredKeys(h) == {e[1] : e \in Entries(h)}

\* The node n of key k holds a value if and only if k is stored, with that value.
HoldsAt(h, n, k) ==
    /\ k \in StoredKeys(h) <=> h[n].value # NoValue
    /\ \A v : <<k, v>> \in Entries(h) <=> v # NoValue /\ h[n].value = v
    /\ h[n].value # NoValue => h[n].key = k

\* What is stored is at the nodes of the keys.
LEMMA EntryFacts ==
    ASSUME NEW h, NEW P, RadixTree(h, P)
    PROVE  /\ \A n \in DOMAIN h : HoldsAt(h, n, P[n])
           /\ \A k \in StoredKeys(h) : k \in Keys /\ \E n \in DOMAIN h : P[n] = k /\ h[n].value # NoValue
<1> DEFINE W == {n \in DOMAIN h : h[n].value # NoValue}
<1>1. /\ \A n \in W : h[n].key = P[n] /\ P[n] \in Keys
      /\ \A m, n \in DOMAIN h : P[m] = P[n] => m = n
  BY DEF RadixTree, Carries, Tree
<1>2. \A k : k \in StoredKeys(h) <=> \E n \in W : k = h[n].key
  <2>1. Entries(h) = {<<h[n].key, h[n].value>> : n \in W}
    BY DEF Entries
  <2>2. \A n \in W : <<h[n].key, h[n].value>>[1] = h[n].key
    OBVIOUS
  <2> HIDE DEF W
  <2> QED BY <2>1, <2>2 DEF StoredKeys
<1>3. \A k, v : <<k, v>> \in Entries(h) <=> \E n \in W : k = h[n].key /\ v = h[n].value
  BY DEF Entries
<1>4. ASSUME NEW n \in DOMAIN h PROVE HoldsAt(h, n, P[n])
  <2>1. P[n] \in StoredKeys(h) <=> h[n].value # NoValue
    BY <1>1, <1>2
  <2>2. \A v : <<P[n], v>> \in Entries(h) <=> v # NoValue /\ h[n].value = v
    BY <1>1, <1>3
  <2> QED BY <1>1, <2>1, <2>2 DEF HoldsAt
<1>5. \A k \in StoredKeys(h) : k \in Keys /\ \E n \in DOMAIN h : P[n] = k /\ h[n].value # NoValue
  BY <1>1, <1>2
<1> QED BY <1>4, <1>5

\* Key and value of node n are written.
IsMarked(h, g, n, a, v) ==
    /\ HeapOK(g) /\ DOMAIN g = DOMAIN h
    /\ g[n].key = a /\ g[n].value = v /\ (\A x \in DOMAIN h : x # n => g[x] = h[x])
    /\ \A x \in DOMAIN h : /\ g[x].next = h[x].next /\ g[x].label = h[x].label
                           /\ g[x].children = h[x].children

\* Assignments to key and value of a node, in either order, do that.
LEMMA MarkFacts ==
    ASSUME NEW h, HeapOK(h), NEW n \in DOMAIN h, NEW a \in Seq(Chars), NEW v \in Values \cup {NoValue}
    PROVE  /\ IsMarked(h, [h EXCEPT ![n].key = a, ![n].value = v], n, a, v)
           /\ IsMarked(h, [h EXCEPT ![n].value = v, ![n].key = a], n, a, v)
<1> DEFINE r == [h[n] EXCEPT !.key = a, !.value = v]
           g == [h EXCEPT ![n] = r]
<1>1. \A x \in DOMAIN h : h[x] \in Records
  BY NodeFacts
<1>2. /\ r \in Records /\ r.key = a /\ r.value = v /\ r.next = h[n].next /\ r.label = h[n].label
      /\ r.children = h[n].children
  BY <1>1 DEF Records
<1>3. r = [h[n] EXCEPT !.value = v, !.key = a]
  BY <1>1 DEF Records
<1>4. /\ [h EXCEPT ![n].key = a, ![n].value = v] = g
      /\ [h EXCEPT ![n].value = v, ![n].key = a] = g
  BY <1>3 DEF HeapOK
<1> HIDE DEF r
<1>5. /\ DOMAIN g = DOMAIN h /\ g[n] = r /\ \A x \in DOMAIN h : x # n => g[x] = h[x]
  BY DEF HeapOK
<1>6. g \in [DOMAIN g -> Records]
  BY <1>1, <1>2 DEF HeapOK
<1> HIDE DEF g
<1>7. HeapOK(g)
  BY <1>5, <1>6 DEF HeapOK
<1>8. \A x \in DOMAIN h : /\ g[x].next = h[x].next /\ g[x].label = h[x].label
                          /\ g[x].children = h[x].children
  BY <1>2, <1>5
<1> QED BY <1>2, <1>4, <1>5, <1>7, <1>8 DEF IsMarked

\* The entries once key k has value v, or none.
Replaced(E, k, v) == {e \in E : e[1] # k} \cup {<<k, u>> : u \in {v} \ {NoValue}}

\* Writing the key and a value at the node of a key, or clearing both, changes
\* what is stored with that key, and nothing else.
LEMMA MarkKeepsTree ==
    ASSUME NEW h, NEW P, RadixTree(h, P), NEW n \in DOMAIN h, NEW g, NEW a, NEW v,
           IsMarked(h, g, n, a, v), v # NoValue => a = P[n] /\ P[n] \in Keys
    PROVE  RadixTree(g, P) /\ Entries(g) = Replaced(Entries(h), P[n], v)
<1>1. Tree(g, P)
  BY SameTree DEF RadixTree, IsMarked
<1>2. Listed(g, P)
  BY DEF RadixTree, IsMarked, Listed, IsNext
<1>3. Carries(g, P)
  BY DEF RadixTree, Carries, IsMarked
<1>4. RadixTree(g, P)
  BY <1>1, <1>2, <1>3 DEF RadixTree, IsMarked
<1>5. ASSUME NEW e \in Entries(g) PROVE e \in Replaced(Entries(h), P[n], v)
  <2>1. PICK x \in DOMAIN g : g[x].value # NoValue /\ e = <<g[x].key, g[x].value>>
    BY <1>5 DEF Entries
  <2>2. CASE x = n
    <3>1. e = <<P[n], v>> /\ v # NoValue
      BY <2>1, <2>2 DEF IsMarked
    <3> QED BY <3>1 DEF Replaced
  <2>3. CASE x # n
    <3>1. x \in DOMAIN h /\ h[x].value # NoValue /\ e = <<h[x].key, h[x].value>>
      BY <2>1, <2>3 DEF IsMarked
    <3>2. h[x].key = P[x] /\ P[x] # P[n]
      BY <2>3, <3>1 DEF RadixTree, Carries, Tree
    <3>3. e[1] # P[n]
      BY <3>1, <3>2
    <3>4. e \in Entries(h)
      BY <3>1 DEF Entries
    <3> QED BY <3>3, <3>4 DEF Replaced
  <2> QED BY <2>2, <2>3
<1>6. ASSUME NEW e \in Replaced(Entries(h), P[n], v) PROVE e \in Entries(g)
  <2>1. CASE e \in Entries(h) /\ e[1] # P[n]
    <3>1. PICK x \in DOMAIN h : h[x].value # NoValue /\ e = <<h[x].key, h[x].value>>
      BY <2>1 DEF Entries
    <3>2. h[x].key = P[x] /\ e[1] = h[x].key
      BY <3>1 DEF RadixTree, Carries
    <3>3. x # n /\ x \in DOMAIN g
      BY <2>1, <3>2 DEF IsMarked
    <3>4. g[x] = h[x]
      BY <3>3 DEF IsMarked
    <3> QED BY <3>1, <3>3, <3>4 DEF Entries
  <2>2. CASE e = <<P[n], v>> /\ v # NoValue
    <3>1. n \in DOMAIN g /\ g[n].value = v /\ g[n].key = P[n]
      BY <2>2 DEF IsMarked
    <3> QED BY <2>2, <3>1 DEF Entries
  <2> QED BY <2>1, <2>2 DEF Replaced
<1> QED BY <1>4, <1>5, <1>6

\* The keys stored after that.
LEMMA ReplacedKeys ==
    ASSUME NEW h, NEW g, NEW k, NEW v, Entries(g) = Replaced(Entries(h), k, v)
    PROVE  /\ v # NoValue => StoredKeys(g) = StoredKeys(h) \cup {k}
           /\ v = NoValue => StoredKeys(g) = StoredKeys(h) \ {k}
<1>1. StoredKeys(g) = {e[1] : e \in Replaced(Entries(h), k, v)}
  BY DEF StoredKeys
<1>2. CASE v # NoValue
  <2>1. Replaced(Entries(h), k, v) = {e \in Entries(h) : e[1] # k} \cup {<<k, v>>}
    BY <1>2 DEF Replaced
  <2>2. <<k, v>>[1] = k
    OBVIOUS
  <2>3. StoredKeys(g) = {e[1] : e \in {e \in Entries(h) : e[1] # k}} \cup {k}
    BY <1>1, <2>1, <2>2
  <2> QED BY <1>2, <2>3 DEF StoredKeys
<1>3. CASE v = NoValue
  <2>1. Replaced(Entries(h), k, v) = {e \in Entries(h) : e[1] # k}
    BY <1>3 DEF Replaced
  <2> QED BY <1>1, <1>3, <2>1 DEF StoredKeys
<1> QED BY <1>2, <1>3

-----------------------------------------------------------------------------
(* The inductive invariant *)

\* The nodes are a tree whose paths the labels spell, the list is that tree in
\* key order, values are at the nodes of their keys, addresses are numbered
\* without gaps, the count is right, and the iterator is at a node.
RadixInv ==
    /\ RadixTree(heap, Path)
    /\ size = Cardinality(StoredKeys(heap))
    /\ it \in DOMAIN heap \cup {NoNode}
    /\ ret = NoCall \/ (ret.call \in Ops /\ ret.key \in Keys \cup {NoNode})

\* Whatever spells the paths is Path.
LEMMA PathSpells ==
    ASSUME NEW P, Tree(heap, P)
    PROVE  Path = P
BY PathIsPathIn, PathIsUnique

\* The same of the heap after a step.
LEMMA NextPathSpells ==
    ASSUME NEW P, Tree(heap', P)
    PROVE  Path' = P
<1>1. (Path = PathIn(heap))'
  BY PathIsPathIn, PTL
<1>2. PathIn(heap)' = PathIn(heap')
  BY Zenon DEF PathIn, ParentOf, EdgeOf, Edges
<1> QED BY <1>1, <1>2, PathIsUnique

\* The invariant after a call, from what holds of the heap it leaves.
LEMMA InvariantAfter ==
    ASSUME NEW P, RadixTree(heap', P), size' = Cardinality(StoredKeys(heap')),
           it' \in DOMAIN heap' \cup {NoNode},
           (ret = NoCall \/ (ret.call \in Ops /\ ret.key \in Keys \cup {NoNode}))'
    PROVE  RadixInv' /\ Path' = P
<1>1. Path' = P
  BY NextPathSpells DEF RadixTree
<1>2. RadixTree(heap, Path)' <=> RadixTree(heap', Path')
  OBVIOUS
<1>3. StoredKeys(heap)' = StoredKeys(heap')
  OBVIOUS
<1> QED BY <1>1, <1>2, <1>3 DEF RadixInv

\* Few keys are stored, and as many as there are nodes with a value.
LEMMA StoredFinite ==
    ASSUME IsFiniteSet(Keys), NEW P, RadixTree(heap, P)
    PROVE  /\ IsFiniteSet(StoredKeys(heap)) /\ StoredKeys(heap) \in SUBSET Keys
           /\ Cardinality(StoredKeys(heap)) \in 0..Cardinality(Keys)
           /\ Cardinality(StoredKeys(heap)) \in Nat
           /\ Cardinality(WithValue) = Cardinality(StoredKeys(heap))
<1> DEFINE S == StoredKeys(heap)
           f == [n \in WithValue |-> P[n]]
<1>1. S \in SUBSET Keys
  BY EntryFacts
<1>2. IsFiniteSet(S) /\ Cardinality(S) <= Cardinality(Keys)
  BY <1>1, FS_Subset
<1>3. Cardinality(S) \in Nat /\ Cardinality(Keys) \in Nat
  BY <1>2, FS_CardinalityType
<1>4. \A n \in WithValue : n \in DOMAIN heap /\ P[n] \in S
  BY EntryFacts DEF HoldsAt, WithValue, HasValue
<1>5. \A k \in S : \E n \in WithValue : P[n] = k
  BY EntryFacts DEF WithValue, HasValue
<1>6. \A m, n \in WithValue : P[m] = P[n] => m = n
  BY <1>4 DEF RadixTree, Tree
<1> HIDE DEF S
<1>7. f \in Bijection(WithValue, S)
  BY <1>4, <1>5, <1>6 DEF Bijection, Injection, Surjection, IsInjective
<1>8. IsFiniteSet(WithValue)
  BY <1>4, FewAbove, FS_Subset DEF RadixTree, WithValue
<1>9. Cardinality(WithValue) = Cardinality(S)
  BY <1>2, <1>7, <1>8, FS_Bijection DEF ExistsBijection
<1> QED BY <1>1, <1>2, <1>3, <1>9 DEF S

\* The tree that a new LLRadixTree is: the root.
LEMMA RadixInit == ASSUME IsFiniteSet(Keys), Init PROVE RadixInv
<1> DEFINE P == [n \in {RootNode} |-> Root]
<1>0. /\ Root \in Prefixes /\ RootNode \in Addresses /\ Root \in Seq(Chars) /\ Root \in Paths
      /\ RootNode = <<Root, 0>>
  BY AddressFacts, AddressesFinite, CharsArePaths DEF RootNode
<1> DEFINE N == Node(<< >>)
<1>1. /\ N \in Records /\ N.next = NoNode /\ N.value = NoValue /\ DOMAIN N.children = {}
  BY <1>0, NewNode DEF Root
<1>2. DOMAIN heap = {RootNode} /\ heap[RootNode] = N /\ heap \in [{RootNode} -> {N}]
  BY DEF Init
<1> HIDE DEF N
<1>3. HeapOK(heap)
  BY <1>0, <1>1, <1>2 DEF HeapOK
<1>4. Tree(heap, P)
  <2>1. P \in [DOMAIN heap -> Prefixes] /\ P[RootNode] = Root
    BY <1>0, <1>2
  <2>2. Edges(heap, RootNode) = {}
    BY <1>1, <1>2 DEF Edges
  <2> QED BY <1>2, <1>3, <2>1, <2>2 DEF Tree
<1>5. Listed(heap, P)
  <2>1. ~Precedes(P[RootNode], P[RootNode])
    BY <1>0, PrecedesIrreflexive
  <2> QED BY <1>1, <1>2, <2>1 DEF Listed, IsNext
<1>6. AllocatedIn(DOMAIN heap, Bound(P))
  <2> SUFFICES ASSUME NEW q \in Prefixes
               PROVE  \E M \in 0..Bound(P) : {n \in DOMAIN heap : n[1] = q} = {<<q, i>> : i \in 0..(M - 1)}
    BY DEF AllocatedIn
  <2>1. Bound(P) \in Nat /\ Bound(P) >= 1
    BY BoundFacts
  <2> HIDE DEF P
  <2>2. 0 \in 0..Bound(P) /\ 1 \in 0..Bound(P)
    BY <2>1
  <2>3. RootNode[1] = Root
    BY <1>0
  <2>4. CASE q = Root
    <3>1. {n \in DOMAIN heap : n[1] = q} = {<<q, 0>>}
      BY <1>0, <1>2, <2>3, <2>4
    <3>2. 0..(1 - 1) = {0}
      OBVIOUS
    <3> QED BY <2>2, <3>1, <3>2
  <2>5. CASE q # Root
    <3>1. {n \in DOMAIN heap : n[1] = q} = {}
      BY <1>2, <2>3, <2>5
    <3>2. 0..(0 - 1) = {}
      OBVIOUS
    <3> QED BY <2>2, <3>1, <3>2
  <2> QED BY <2>4, <2>5
<1>7. Carries(heap, P) /\ Entries(heap) = {}
  BY <1>1, <1>2 DEF Carries, Entries
<1>8. RadixTree(heap, P)
  BY <1>4, <1>5, <1>6, <1>7 DEF RadixTree
<1>9. Path = P
  BY <1>4, PathSpells
<1>10. size = Cardinality(StoredKeys(heap))
  <2>1. StoredKeys(heap) = {}
    BY <1>7 DEF StoredKeys
  <2> QED BY <2>1, FS_EmptySet DEF Init
<1> HIDE DEF P
<1> QED BY <1>8, <1>9, <1>10 DEF RadixInv, Init

-----------------------------------------------------------------------------
(* Insertion and erasure *)

\* An insertion of value v with key k, from paths P to paths Q: w is the node of
\* k, nodes stay or move to a prefix of where they were, and the value is
\* written unless there is one that is to stay.
Stores(P, Q, k, v, assigned, w) ==
    /\ RadixTree(heap', Q) /\ w \in DOMAIN heap' /\ Q[w] = k /\ it' \in {w, it}
    /\ \A x \in DOMAIN heap : x \in DOMAIN heap' /\ IsPrefixOf(Q[x], P[x])
    /\ Entries(heap') = IF k \in StoredKeys(heap) /\ ~assigned THEN Entries(heap)
                        ELSE Replaced(Entries(heap), k, v)
    /\ size' = IF k \in StoredKeys(heap) THEN size ELSE size + 1

\* An insertion stores, and answers whether the key was new.
LEMMA StoreFacts ==
    ASSUME IsFiniteSet(Keys), NEW P, RadixTree(heap, P), NEW k \in Keys, NEW v \in Values,
           NEW name, NEW assigned \in BOOLEAN, Store(name, k, v, assigned)
    PROVE  /\ \E Q, w : Stores(P, Q, k, v, assigned, w)
           /\ Answer(name, k, IF k \in StoredKeys(heap) THEN "no" ELSE "yes")
<1> DEFINE made  == TraverseCreating(k)
           g     == made.heap
           w     == made.node
           isNew == g[w].value = NoValue
           h     == [g EXCEPT ![w].key = k, ![w].value = v]
<1>1. Inserted(heap, P, k, g, w)
  BY TraverseCreatingInserts
<1>2. /\ heap' = IF isNew \/ assigned THEN h ELSE g
      /\ size' = SizeWith(isNew) /\ it' \in {w, it}
      /\ Answer(name, k, IF isNew THEN "yes" ELSE "no")
  BY Zenon DEF Store, TakesOrKeeps
<1> HIDE DEF made
<1>3. PICK Q : /\ RadixTree(g, Q) /\ w \in DOMAIN g /\ Q[w] = k /\ Entries(g) = Entries(heap)
               /\ \A x \in DOMAIN heap : x \in DOMAIN g /\ IsPrefixOf(Q[x], P[x])
  BY <1>1 DEF Inserted
<1> HIDE DEF g, w
<1>4. isNew <=> k \notin StoredKeys(heap)
  <2>1. StoredKeys(g) = StoredKeys(heap)
    BY <1>3 DEF StoredKeys
  <2> QED BY <1>3, <2>1, EntryFacts DEF HoldsAt
<1>5. v # NoValue /\ k \in Seq(Chars) /\ HeapOK(g)
  BY <1>3, RadixAssumption, CharsArePaths DEF RadixTree, Tree
<1>6. IsMarked(g, h, w, k, v)
  BY <1>3, <1>5, MarkFacts, Zenon
<1> HIDE DEF h, isNew
<1>7. RadixTree(h, Q) /\ Entries(h) = Replaced(Entries(heap), k, v) /\ DOMAIN h = DOMAIN g
  <2>1. RadixTree(h, Q) /\ Entries(h) = Replaced(Entries(g), Q[w], v)
    BY <1>3, <1>6, MarkKeepsTree
  <2> QED BY <1>3, <1>6, <2>1 DEF IsMarked
<1>8. RadixTree(heap', Q) /\ DOMAIN heap' = DOMAIN g
  BY <1>2, <1>3, <1>7
<1>9. Entries(heap') = IF k \in StoredKeys(heap) /\ ~assigned THEN Entries(heap)
                       ELSE Replaced(Entries(heap), k, v)
  BY <1>2, <1>3, <1>4, <1>7
<1>10. size' = IF k \in StoredKeys(heap) THEN size ELSE size + 1
  BY <1>2, <1>4 DEF SizeWith
<1>11. Stores(P, Q, k, v, assigned, w)
  BY <1>2, <1>3, <1>8, <1>9, <1>10 DEF Stores
<1> QED BY <1>2, <1>4, <1>11

\* An insertion preserves the invariant.
LEMMA StoreStep ==
    ASSUME IsFiniteSet(Keys), RadixInv, NEW k \in Keys, NEW v \in Values,
           NEW name, NEW assigned \in BOOLEAN, Store(name, k, v, assigned)
    PROVE  RadixInv'
<1>1. /\ RadixTree(heap, Path) /\ size = Cardinality(StoredKeys(heap))
      /\ it \in DOMAIN heap \cup {NoNode} /\ v # NoValue
  BY RadixAssumption DEF RadixInv
<1>2. PICK Q, w : Stores(Path, Q, k, v, assigned, w)
  BY <1>1, StoreFacts
<1>3. Answer(name, k, IF k \in StoredKeys(heap) THEN "no" ELSE "yes")
  BY <1>1, StoreFacts
<1>4. StoredKeys(heap') = StoredKeys(heap) \cup {k}
  <2>1. CASE k \in StoredKeys(heap) /\ ~assigned
    <3>1. Entries(heap') = Entries(heap)
      BY <1>2, <2>1 DEF Stores
    <3>2. StoredKeys(heap') = StoredKeys(heap)
      BY <3>1 DEF StoredKeys
    <3> QED BY <2>1, <3>2
  <2>2. CASE ~(k \in StoredKeys(heap) /\ ~assigned)
    <3>1. Entries(heap') = Replaced(Entries(heap), k, v)
      BY <1>2, <2>2 DEF Stores
    <3> QED BY <1>1, <3>1, ReplacedKeys
  <2> QED BY <2>1, <2>2
<1>5. size' = Cardinality(StoredKeys(heap'))
  <2>1. IsFiniteSet(StoredKeys(heap))
    BY <1>1, StoredFinite
  <2>2. Cardinality(StoredKeys(heap) \cup {k}) =
           IF k \in StoredKeys(heap) THEN Cardinality(StoredKeys(heap))
           ELSE Cardinality(StoredKeys(heap)) + 1
    BY <2>1, FS_AddElement
  <2> QED BY <1>1, <1>2, <1>4, <2>2 DEF Stores
<1>6. it' \in DOMAIN heap' \cup {NoNode}
  BY <1>1, <1>2 DEF Stores
<1>7. (ret = NoCall \/ (ret.call \in Ops /\ ret.key \in Keys \cup {NoNode}))'
  BY <1>3 DEF Answer
<1>8. RadixTree(heap', Q)
  BY <1>2 DEF Stores
<1> QED BY <1>5, <1>6, <1>7, <1>8, InvariantAfter

\* Key and value of a node with a value are cleared.
LEMMA RemoveFacts ==
    ASSUME IsFiniteSet(Keys), NEW P, RadixTree(heap, P), size = Cardinality(StoredKeys(heap)),
           NEW n \in DOMAIN heap, HasValue(n), Remove(n)
    PROVE  /\ RadixTree(heap', P) /\ DOMAIN heap' = DOMAIN heap
           /\ Entries(heap') = Replaced(Entries(heap), P[n], NoValue)
           /\ size' = Cardinality(StoredKeys(heap'))
           /\ \A x \in DOMAIN heap : x # n => heap'[x] = heap[x]
<1>1. << >> \in Seq(Chars) /\ HeapOK(heap)
  BY DEF RadixTree, Tree
<1>2. IsMarked(heap, heap', n, << >>, NoValue)
  BY <1>1, MarkFacts, Zenon DEF Remove
<1>3. RadixTree(heap', P) /\ Entries(heap') = Replaced(Entries(heap), P[n], NoValue)
  BY <1>2, MarkKeepsTree
<1>4. StoredKeys(heap') = StoredKeys(heap) \ {P[n]}
  BY <1>3, ReplacedKeys
<1>5. P[n] \in StoredKeys(heap)
  BY EntryFacts DEF HoldsAt, HasValue
<1>6. Cardinality(StoredKeys(heap) \ {P[n]}) = Cardinality(StoredKeys(heap)) - 1
  BY <1>5, StoredFinite, FS_RemoveElement
<1>7. size' = Cardinality(StoredKeys(heap'))
  BY <1>4, <1>6 DEF Remove
<1> QED BY <1>2, <1>3, <1>7 DEF IsMarked

\* find and traverse_prefix: the node of the key, if the key is stored.
LEMMA FoundFacts ==
    ASSUME NEW P, RadixTree(heap, P), NEW k \in Keys
    PROVE  /\ Found(k) \in DOMAIN heap \cup {NoNode}
           /\ Found(k) # NoNode => P[Found(k)] = k /\ HasValue(Found(k))
           /\ Found(k) # NoNode <=> k \in StoredKeys(heap)
<1> DEFINE s == Descent(k)
           n == TraversePrefix(k)
<1>1. k \in Seq(Chars) /\ Tree(heap, P) /\ NoNode \notin DOMAIN heap
  BY CharsArePaths, NodeFacts DEF RadixTree, Tree
<1>2. OnTheWay(P, k, s) /\ ~Matches(k, s)
  BY <1>1, DescentFacts
<1>3. n = IF s.idx = Len(k) THEN s.node ELSE NoNode
  BY Zenon DEF TraversePrefix
<1>4. Found(k) = IF n # NoNode /\ HasValue(n) THEN n ELSE NoNode
  BY Zenon DEF Found
<1> HIDE DEF s, n
<1>5. CASE s.idx = Len(k)
  <2>1. n \in DOMAIN heap /\ P[n] = k
    BY <1>1, <1>2, <1>3, <1>5, Beginning DEF OnTheWay
  <2>2. k \in StoredKeys(heap) <=> HasValue(n)
    BY <2>1, EntryFacts DEF HoldsAt, HasValue
  <2> HIDE DEF HasValue
  <2> QED BY <1>1, <1>4, <2>1, <2>2
<1>6. CASE s.idx # Len(k)
  <2>1. \A x \in DOMAIN heap : P[x] # k
    BY <1>1, <1>2, <1>6, NotUsedUp
  <2>2. k \notin StoredKeys(heap)
    BY <2>1, EntryFacts
  <2> QED BY <1>3, <1>4, <1>6, <2>2
<1> QED BY <1>5, <1>6

-----------------------------------------------------------------------------
(* The lower bound *)

\* When a key leaves the label of n, all nodes after the key are n or after n;
\* n itself comes after the key if the label goes on with a greater character.
LEMMA LabelIsFirst ==
    ASSUME NEW P, Tree(heap, P), NEW k \in Seq(Chars), NEW p \in DOMAIN heap, NEW i, NEW n,
           n = heap[p].children[k[i + 1]], NEW m, IsSplitPoint(P, k, p, i, n, m)
    PROVE  /\ n \in DOMAIN heap
           /\ \A x \in DOMAIN heap : Precedes(k, P[x]) => AtOrAfter(P, x, n)
           /\ heap[n].label[m + 1] >= CharAt(k, i + m + 1) => Precedes(k, P[n])
<1> DEFINE c == k[i + 1]
           l == heap[n].label
           r == SubSeq(k, 1, i + m + 1)
           b == P[n]
           N == Len(k)
           o == l[m + 1]
<1>1. /\ c \in Edges(heap, p) /\ c \in Chars /\ IsChildAt(heap, P, p, c, n)
      /\ l \in Seq(Chars) /\ m \in Nat /\ m < Len(l) /\ i + m + 1 <= N
      /\ P[p] \o <<c>> \o SubSeq(l, 1, m) = r
      /\ i + m + 1 < N => o # k[i + m + 2]
      /\ i \in Nat /\ i < N
  BY Zenon DEF IsSplitPoint
<1>2. N \in Nat /\ i + m + 1 \in 0..N /\ i + m + 1 \in Nat
  <2>1. N \in Nat
    OBVIOUS
  <2> HIDE DEF N, o, c, l, r
  <2> QED BY <1>1, <2>1
<1>3. r \in Seq(Chars) /\ Len(r) = i + m + 1 /\ IsPrefixOf(r, k) /\ (i + m + 1 = N => r = k)
  BY <1>2, Beginning
<1>4. P[p] \in Seq(Chars) /\ b = P[p] \o <<c>> \o l /\ b \in Seq(Chars) /\ n \in DOMAIN heap
  BY <1>1, Zenon DEF IsChildAt
<1> HIDE DEF c, l, r, b
<1>5. CutAt(P[p], c, l, m, r, b)
  BY <1>1, <1>4, CutSpelling
<1>6. /\ Len(P[p]) < Len(r) /\ Len(r) < Len(b) /\ IsPrefixOf(r, b) /\ b[Len(r) + 1] = o
      /\ o \in Chars
  BY <1>5 DEF CutAt
<1> HIDE DEF o
<1>7. r \in Paths /\ b \in Paths /\ k \in Paths /\ \A x \in DOMAIN heap : P[x] \in Paths
  BY <1>3, <1>4, CharsArePaths, PathFacts
<1>8. ASSUME NEW x \in DOMAIN heap, Precedes(k, P[x]), ~AtOrAfter(P, x, n) PROVE FALSE
  <2>1. Precedes(P[x], b)
    BY <1>4, <1>7, <1>8, PrecedesTotal DEF AtOrAfter, Tree, b
  <2>2. IsPrefixOf(r, P[x])
    <3> SUFFICES ASSUME ~IsPrefixOf(r, P[x]) PROVE FALSE
      OBVIOUS
    <3>1. Precedes(r, P[x])
      BY <1>3, <1>7, <1>8, StemCompares
    <3>2. Precedes(b, P[x])
      BY <1>6, <1>7, <3>1, StemCompares
    <3> QED BY <1>7, <2>1, <3>2, PrecedesAsymmetric
  <2>3. Len(P[p]) \in Nat /\ Len(r) \in Nat
    BY <1>4, <1>3
  <2>4. Len(r) > Len(P[p])
    <3> DEFINE u == Len(r)  v == Len(P[p])
    <3>1. u \in Nat /\ v \in Nat /\ v < u
      BY <1>6, <2>3
    <3> HIDE DEF u, v
    <3>2. u > v
      BY <3>1
    <3> QED BY <3>2 DEF u, v
  <2>5. n = heap[p].children[c]
    BY DEF c
  <2>6. IsPrefixOf(r, P[n])
    BY <1>6 DEF b
  <2>7. IsPrefixOf(P[n], P[x])
    BY <1>1, <1>7, <2>2, <2>4, <2>5, <2>6, BelowTheChild
  <2>8. x = n \/ Precedes(P[n], P[x])
    BY <1>4, <2>7, DeeperIsLater
  <2> QED BY <1>8, <2>8 DEF AtOrAfter
<1>9. ASSUME o >= CharAt(k, i + m + 1) PROVE Precedes(k, b)
  <2>1. CASE i + m + 1 = N
    <3>1. r = k
      BY <1>3, <2>1
    <3> QED BY <1>6, <1>7, <3>1, PrefixPrecedes
  <2>2. CASE i + m + 1 < N
    <3>1. CharAt(k, i + m + 1) = k[i + m + 2]
      <4>1. i + m + 1 + 1 = i + m + 2
        BY <1>1
      <4>2. CharAt(k, i + m + 1) = k[i + m + 1 + 1]
        BY <2>2 DEF CharAt
      <4> QED BY <4>1, <4>2
    <3> DEFINE d == k[i + m + 2]
    <3>2. d \in Chars
      <4>1. i + m + 2 \in 1..N
        BY <1>1, <1>2, <2>2
      <4> QED BY <4>1
    <3>3. o # d /\ o >= d
      BY <1>1, <1>9, <2>2, <3>1
    <3> HIDE DEF d
    <3>4. d < o
      BY <1>6, <3>2, <3>3, CharsArePaths
    <3>5. Len(r) + 1 = i + m + 2
      BY <1>1, <1>3
    <3>6. k[Len(r) + 1] = d
      BY <3>5 DEF d
    <3>7. Len(r) < Len(k)
      <4> HIDE DEF N
      <4>1. Len(r) < N
        BY <1>3, <2>2
      <4> QED BY <4>1 DEF N
    <3>8. k[Len(r) + 1] < b[Len(r) + 1]
      BY <1>6, <3>4, <3>6
    <3> QED BY <1>3, <1>6, <1>7, <3>7, <3>8, SmallerEdgeFirst
  <2> QED BY <1>1, <1>2, <2>1, <2>2
<1> QED BY <1>4, <1>8, <1>9 DEF b, l, o

\* Where lower_bound_node starts to look for the first value from k on: all nodes
\* from k on are there or after it, and either it compares keys or all nodes
\* there and after it are from k on.
StartsAt(P, k, n) ==
    /\ n \in DOMAIN heap
    /\ \A x \in DOMAIN heap : ~Precedes(P[x], k) => AtOrAfter(P, x, n)
    /\ \/ LowerBoundNode(k) = NextGeqValueNode(n, k)
       \/ /\ LowerBoundNode(k) = NextValueNode(n)
          /\ \A x \in DOMAIN heap : AtOrAfter(P, x, n) => ~Precedes(P[x], k)

\* lower_bound_node starts its walk at such a node.
LEMMA LowerBoundStarts ==
    ASSUME NEW P, Tree(heap, P), NEW k \in Keys
    PROVE  \E n : StartsAt(P, k, n)
<1> DEFINE s     == Descent(k)
           edges == IF s.idx = Len(k) THEN {}
                    ELSE {u \in Chars : IsLowerBound(Edges(heap, s.node), k[s.idx + 1], u)}
           edge  == CHOOSE u \in edges : TRUE
           child == heap[s.node].children[edge]
           p     == s.node
           i     == s.idx
           c     == k[i + 1]
<1>1. k \in Seq(Chars) /\ k \in Paths /\ Len(k) \in Nat /\ \A x \in DOMAIN heap : P[x] \in Paths
  BY CharsArePaths, PathFacts
<1>2. OnTheWay(P, k, s) /\ ~Matches(k, s)
  BY <1>1, DescentFacts
<1>3. LowerBoundNode(k) = IF edges = {} THEN NextGeqValueNode(p, k)
                          ELSE IF edge > c THEN NextValueNode(child)
                          ELSE LowerBoundInLabel(child, k, i)
  BY Zenon DEF LowerBoundNode
<1> HIDE DEF s
<1>4. /\ p \in DOMAIN heap /\ i \in 0..Len(k) /\ P[p] = SubSeq(k, 1, i)
      /\ P[p] \in Seq(Chars) /\ Len(P[p]) = i /\ IsPrefixOf(P[p], k) /\ (i = Len(k) => P[p] = k)
  <2>1. p \in DOMAIN heap /\ i \in 0..Len(k) /\ P[p] = SubSeq(k, 1, i)
    BY <1>2 DEF OnTheWay
  <2> HIDE DEF p, i
  <2> QED BY <1>1, <2>1, Beginning
<1>5. CASE edges = {}
  <2>1. LowerBoundNode(k) = NextGeqValueNode(p, k)
    BY <1>3, <1>5
  <2>2. P[p] = k \/ Precedes(P[p], k)
    <3> HIDE DEF p, i
    <3>1. CASE i = Len(k)
      BY <1>4, <3>1
    <3>2. CASE i # Len(k)
      <4>1. i < Len(k)
        BY <1>1, <1>4, <3>2
      <4>2. Len(P[p]) < Len(k)
        BY <1>4, <4>1
      <4> QED BY <1>1, <1>4, <4>2, PrefixPrecedes
    <3> QED BY <3>1, <3>2
  <2> HIDE DEF p
  <2>3. ASSUME NEW x \in DOMAIN heap, ~Precedes(P[x], k) PROVE AtOrAfter(P, x, p)
    <3>1. P[x] = k \/ Precedes(k, P[x])
      BY <1>1, <2>3, PrecedesTotal
    <3>2. P[x] = P[p] \/ Precedes(P[p], P[x])
      BY <1>1, <1>4, <2>2, <3>1, PrecedesTransitive
    <3> QED BY <1>4, <3>2 DEF AtOrAfter, Tree
  <2> QED BY <1>4, <2>1, <2>3 DEF StartsAt
<1>6. CASE edges # {}
  <2>1. i # Len(k) /\ i < Len(k) /\ edge \in edges
    <3>1. i # Len(k) /\ edge \in edges
      BY <1>6
    <3> HIDE DEF i, edge, edges
    <3> QED BY <1>1, <1>4, <3>1
  <2>2. IsLowerBound(Edges(heap, p), c, edge) /\ edge \in Chars
    <3>1. edge \in {u \in Chars : IsLowerBound(Edges(heap, p), c, u)}
      BY <2>1
    <3> HIDE DEF edge, edges, p, c
    <3> QED BY <3>1
  <2>3. c \in Chars /\ c \in Int /\ edge \in Int
    <3> HIDE DEF edge, edges, i
    <3>1. i + 1 \in 1..Len(k)
      BY <1>1, <1>4, <2>1
    <3>2. c \in Chars
      BY <1>1, <3>1
    <3> HIDE DEF c
    <3> QED BY <2>2, <3>2, CharsArePaths
  <2>4. \A x \in DOMAIN heap : P[x] # k
    BY <1>1, <1>2, <2>1, NotUsedUp DEF i
  <2>5. \A x \in DOMAIN heap : ~Precedes(P[x], k) => Precedes(k, P[x])
    BY <1>1, <2>4, PrecedesTotal
  <2> HIDE DEF edge, edges
  <2>6. CASE edge > c
    <3>1. LowerBoundNode(k) = NextValueNode(child)
      BY <1>3, <1>6, <2>6
    <3>2. c \notin Edges(heap, p)
      BY <2>2, <2>3, <2>6 DEF IsLowerBound
    <3>3. LeavesAt(P, p, c, k)
      <4> HIDE DEF i, p
      <4>1. Len(P[p]) < Len(k)
        BY <1>4, <2>1
      <4>2. k[Len(P[p]) + 1] = c
        BY <1>4 DEF c
      <4> QED BY <1>4, <4>1, <4>2 DEF LeavesAt
    <3> DEFINE y == heap[p].children[edge]
    <3>4. child = y
      OBVIOUS
    <3> HIDE DEF p, i, c, child, y
    <3>5. y = heap[p].children[edge]
      BY DEF y
    <3>6. /\ y \in DOMAIN heap /\ Precedes(k, P[y])
          /\ \A z \in DOMAIN heap : Precedes(k, P[z]) => z = y \/ Precedes(P[y], P[z])
      BY <1>1, <1>4, <2>2, <2>3, <3>2, <3>3, <3>5, ChildIsFirst
    <3>7. \A x \in DOMAIN heap : ~Precedes(P[x], k) => AtOrAfter(P, x, y)
      BY <2>5, <3>6 DEF AtOrAfter
    <3>8. \A x \in DOMAIN heap : AtOrAfter(P, x, y) => ~Precedes(P[x], k)
      <4>1. \A x \in DOMAIN heap : AtOrAfter(P, x, y) => Precedes(k, P[x])
        BY <1>1, <3>6, PrecedesTransitive DEF AtOrAfter
      <4> QED BY <1>1, <4>1, PrecedesAsymmetric
    <3>9. StartsAt(P, k, y)
      BY <3>1, <3>4, <3>6, <3>7, <3>8 DEF StartsAt
    <3> QED BY <3>9
  <2>7. CASE ~(edge > c)
    <3>1. edge = c /\ c \in Edges(heap, p)
      BY <2>2, <2>3, <2>7 DEF IsLowerBound
    <3> DEFINE y == heap[p].children[c]
               m == CommonPrefixLength(heap[y].label, k, i + 1)
    <3>2. child = y
      BY <3>1
    <3>3. LowerBoundNode(k) = LowerBoundInLabel(y, k, i)
      BY <1>3, <1>6, <2>7, <3>2
    <3>4. IsSplitPoint(P, k, p, i, y, m)
      BY <1>1, <1>2, <2>1, <3>1, SplitPoint
    <3>5. LowerBoundNode(k) = IF heap[y].label[m + 1] >= CharAt(k, i + m + 1)
                              THEN NextValueNode(y) ELSE NextGeqValueNode(y, k)
      BY <3>3, Zenon DEF LowerBoundInLabel
    <3> HIDE DEF m, p, i, child
    <3>6. /\ y \in DOMAIN heap
          /\ \A x \in DOMAIN heap : Precedes(k, P[x]) => AtOrAfter(P, x, y)
          /\ heap[y].label[m + 1] >= CharAt(k, i + m + 1) => Precedes(k, P[y])
      BY <1>1, <1>4, <3>4, LabelIsFirst DEF c
    <3> HIDE DEF y
    <3>7. \A x \in DOMAIN heap : ~Precedes(P[x], k) => AtOrAfter(P, x, y)
      BY <2>5, <3>6
    <3>8. CASE heap[y].label[m + 1] >= CharAt(k, i + m + 1)
      <4>1. \A x \in DOMAIN heap : AtOrAfter(P, x, y) => Precedes(k, P[x])
        BY <1>1, <3>6, <3>8, PrecedesTransitive DEF AtOrAfter
      <4>2. \A x \in DOMAIN heap : AtOrAfter(P, x, y) => ~Precedes(P[x], k)
        BY <1>1, <4>1, PrecedesAsymmetric
      <4>3. LowerBoundNode(k) = NextValueNode(y)
        BY <3>5, <3>8
      <4>4. StartsAt(P, k, y)
        BY <3>6, <3>7, <4>2, <4>3 DEF StartsAt
      <4> QED BY <4>4
    <3>9. CASE ~(heap[y].label[m + 1] >= CharAt(k, i + m + 1))
      <4>1. StartsAt(P, k, y)
        BY <3>5, <3>6, <3>7, <3>9 DEF StartsAt
      <4> QED BY <4>1
    <3> QED BY <3>8, <3>9
  <2> QED BY <2>6, <2>7
<1> QED BY <1>5, <1>6

-----------------------------------------------------------------------------
(* The step *)

\* The iterators that the walks return are at nodes, or at the end.
LEMMA WalksReturnNodes ==
    ASSUME IsFiniteSet(Keys), NEW P, RadixTree(heap, P)
    PROVE  /\ \A n \in DOMAIN heap \cup {NoNode} :
                 NextValueNode(n) \in DOMAIN heap \cup {NoNode}
           /\ \A n \in DOMAIN heap : heap[n].next \in DOMAIN heap \cup {NoNode}
           /\ \A k \in Keys : LowerBoundNode(k) \in DOMAIN heap \cup {NoNode}
           /\ RootNode \in DOMAIN heap
<1>0. Tree(heap, P) /\ Listed(heap, P) /\ RootNode \in DOMAIN heap
  BY DEF RadixTree, Tree, HeapOK
<1>1. \A stops : \A n \in DOMAIN heap \cup {NoNode} :
         WalkTo(stops, n) \in DOMAIN heap \cup {NoNode}
  BY <1>0, WalkFinds DEF EndsAt
<1>2. \A n \in DOMAIN heap : heap[n].next \in DOMAIN heap \cup {NoNode}
  BY <1>0 DEF Listed, IsNext
<1>3. ASSUME NEW k \in Keys PROVE LowerBoundNode(k) \in DOMAIN heap \cup {NoNode}
  <2>1. PICK n : StartsAt(P, k, n)
    BY <1>0, LowerBoundStarts
  <2> QED BY <1>1, <2>1 DEF StartsAt, NextValueNode, NextGeqValueNode
<1> QED BY <1>0, <1>1, <1>2, <1>3 DEF NextValueNode

\* Calls that change no more than the iterator and the answer.
LEMMA RadixUnchanged ==
    ASSUME RadixInv, UNCHANGED <<heap, size>>, it' \in DOMAIN heap \cup {NoNode},
           (ret = NoCall \/ (ret.call \in Ops /\ ret.key \in Keys \cup {NoNode}))'
    PROVE  RadixInv'
<1>1. heap' = heap /\ size' = size
  OBVIOUS
<1>2. /\ RadixTree(heap', Path) /\ size' = Cardinality(StoredKeys(heap'))
      /\ it' \in DOMAIN heap' \cup {NoNode}
  BY <1>1 DEF RadixInv
<1> QED BY <1>2, InvariantAfter

\* An answer to a call of a method.
LEMMA AnswersAreRecords ==
    ASSUME NEW name, NEW k \in Keys \cup {NoNode}, NEW r, Answer(name, k, r)
    PROVE  /\ (ret = NoCall \/ (ret.call \in Ops /\ ret.key \in Keys \cup {NoNode}))'
           /\ ret'.call = name /\ ret'.key = k /\ ret'.result = r
BY DEF Answer

\* An answer that is an iterator.
LEMMA IteratorAnswers ==
    ASSUME NEW name, NEW k \in Keys \cup {NoNode}, AnswerIterator(name, k)
    PROVE  /\ (ret = NoCall \/ (ret.call \in Ops /\ ret.key \in Keys \cup {NoNode}))'
           /\ ret'.call = name /\ ret'.key = k
           /\ ret'.result = IF it' = NoNode THEN NoNode ELSE heap'[it'].key
BY DEF Answer, AnswerIterator

\* clear() of a tree without nodes below the root and without a value there
\* finds nothing to delete.
LEMMA ClearFindsNothing ==
    ASSUME IsFiniteSet(Keys), ~ClearAnyTree, NEW P, RadixTree(heap, P), Clear
    PROVE  heap' = heap /\ Entries(heap) = {} /\ size' = 0 /\ it' = NoNode
<1>1. Edges(heap, RootNode) = {} /\ ~HasValue(RootNode)
  BY DEF Clear
<1>2. Tree(heap, P) /\ RootNode \in DOMAIN heap /\ P[RootNode] = Root /\ HeapOK(heap)
  BY DEF RadixTree, Tree, HeapOK
<1>3. ASSUME NEW n \in DOMAIN heap PROVE n = RootNode
  <2> SUFFICES ASSUME n # RootNode PROVE FALSE
    OBVIOUS
  <2>1. IsPrefixOf(P[RootNode], P[n])
    BY <1>2, PathFacts, RootIsFirst
  <2>2. GoesTo(heap, P, RootNode, n)
    BY <1>2, <2>1, WayDown
  <2> QED BY <1>1, <2>2 DEF GoesTo
<1>4. Entries(heap) = {}
  BY <1>1, <1>3 DEF Entries, HasValue
<1>5. heap' = heap
  <2>1. Below(RootNode) = {RootNode}
    BY <1>2, <1>3, BelowIsAll
  <2>2. DOMAIN heap \ (Below(RootNode) \ {RootNode}) = DOMAIN heap
    BY <2>1
  <2>3. heap' = [n \in DOMAIN heap |-> heap[n]]
    BY <2>2 DEF Clear
  <2>4. heap = [n \in DOMAIN heap |-> heap[n]]
    BY <1>2 DEF HeapOK
  <2> QED BY <2>3, <2>4
<1> QED BY <1>4, <1>5 DEF Clear

\* Every call preserves the invariant.
LEMMA RadixStep ==
    ASSUME IsFiniteSet(Keys), ~ClearAnyTree, RadixInv, [Next]_vars
    PROVE  RadixInv'
<1>0. /\ RadixTree(heap, Path) /\ size = Cardinality(StoredKeys(heap))
      /\ it \in DOMAIN heap \cup {NoNode}
      /\ ret = NoCall \/ (ret.call \in Ops /\ ret.key \in Keys \cup {NoNode})
      /\ NoNode \in Keys \cup {NoNode} /\ Keys \subseteq Keys \cup {NoNode}
  BY DEF RadixInv
<1>1. ASSUME NEW k \in Keys, NEW v \in Values, Insert(k, v) PROVE RadixInv'
  BY <1>1, StoreStep DEF Insert
<1>2. ASSUME NEW k \in Keys, NEW v \in Values, InsertOrAssign(k, v) PROVE RadixInv'
  BY <1>2, StoreStep DEF InsertOrAssign
<1>3. ASSUME NEW k \in Keys, Erase(k) PROVE RadixInv'
  <2>1. it' = it /\ (ret = NoCall \/ (ret.call \in Ops /\ ret.key \in Keys \cup {NoNode}))'
    BY <1>3, AnswersAreRecords DEF Erase
  <2>2. CASE Found(k) # NoNode
    <3>1. Found(k) \in DOMAIN heap /\ HasValue(Found(k)) /\ Remove(Found(k))
      BY <1>0, <1>3, <2>2, FoundFacts DEF Erase
    <3>2. /\ RadixTree(heap', Path) /\ DOMAIN heap' = DOMAIN heap
          /\ size' = Cardinality(StoredKeys(heap'))
      BY <1>0, <3>1, RemoveFacts
    <3> QED BY <1>0, <2>1, <3>2, InvariantAfter
  <2>3. CASE Found(k) = NoNode
    BY <1>0, <1>3, <2>1, <2>3, RadixUnchanged DEF Erase
  <2> QED BY <2>2, <2>3
<1>4. ASSUME EraseIterator PROVE RadixInv'
  <2>1. (ret = NoCall \/ (ret.call \in Ops /\ ret.key \in Keys \cup {NoNode}))'
    BY <1>0, <1>4, IteratorAnswers DEF EraseIterator
  <2>2. CASE it # NoNode /\ HasValue(it)
    <3>1. it \in DOMAIN heap /\ Remove(it) /\ it' = NextValueNode(heap[it].next)
      BY <1>0, <1>4, <2>2 DEF EraseIterator
    <3>2. /\ RadixTree(heap', Path) /\ DOMAIN heap' = DOMAIN heap
          /\ size' = Cardinality(StoredKeys(heap'))
      BY <1>0, <2>2, <3>1, RemoveFacts
    <3>3. it' \in DOMAIN heap' \cup {NoNode}
      BY <1>0, <3>1, <3>2, WalksReturnNodes
    <3> QED BY <2>1, <3>2, <3>3, InvariantAfter
  <2>3. CASE ~(it # NoNode /\ HasValue(it))
    <3>1. UNCHANGED <<heap, size>> /\ it' \in DOMAIN heap \cup {NoNode}
      BY <1>4, <2>3 DEF EraseIterator
    <3> QED BY <2>1, <3>1, RadixUnchanged
  <2> QED BY <2>2, <2>3
<1>5. ASSUME NEW k \in Keys, Find(k) PROVE RadixInv'
  <2>1. (ret = NoCall \/ (ret.call \in Ops /\ ret.key \in Keys \cup {NoNode}))'
    BY <1>5, IteratorAnswers DEF Find
  <2>2. UNCHANGED <<heap, size>> /\ it' \in DOMAIN heap \cup {NoNode}
    BY <1>0, <1>5, FoundFacts DEF Find
  <2> QED BY <2>1, <2>2, RadixUnchanged
<1>6. ASSUME NEW k \in Keys, Count(k) PROVE RadixInv'
  <2>1. (ret = NoCall \/ (ret.call \in Ops /\ ret.key \in Keys \cup {NoNode}))'
    BY <1>6, AnswersAreRecords DEF Count
  <2> QED BY <1>0, <1>6, <2>1, RadixUnchanged DEF Count
<1>7. ASSUME NEW k \in Keys, LowerBound(k) \/ UpperBound(k) PROVE RadixInv'
  <2>1. (ret = NoCall \/ (ret.call \in Ops /\ ret.key \in Keys \cup {NoNode}))'
    BY <1>7, IteratorAnswers DEF LowerBound, UpperBound
  <2>2. UNCHANGED <<heap, size>>
    BY <1>7 DEF LowerBound, UpperBound
  <2>3. it' \in DOMAIN heap \cup {NoNode}
    BY <1>0, <1>7, WalksReturnNodes DEF LowerBound, UpperBound
  <2> QED BY <2>1, <2>2, <2>3, RadixUnchanged
<1>8. CASE Begin \/ Increment
  <2>1. (ret = NoCall \/ (ret.call \in Ops /\ ret.key \in Keys \cup {NoNode}))'
    BY <1>0, <1>8, IteratorAnswers DEF Begin, Increment
  <2>2. UNCHANGED <<heap, size>>
    BY <1>8 DEF Begin, Increment
  <2>3. it' \in DOMAIN heap \cup {NoNode}
    BY <1>0, <1>8, WalksReturnNodes DEF Begin, Increment
  <2> QED BY <2>1, <2>2, <2>3, RadixUnchanged
<1>9. CASE Clear
  <2>1. heap' = heap /\ Entries(heap) = {} /\ size' = 0 /\ it' = NoNode
    BY <1>0, <1>9, ClearFindsNothing
  <2>2. (ret = NoCall \/ (ret.call \in Ops /\ ret.key \in Keys \cup {NoNode}))'
    BY <1>0, <1>9, AnswersAreRecords DEF Clear
  <2>3. StoredKeys(heap') = {}
    BY <2>1 DEF StoredKeys
  <2>4. RadixTree(heap', Path) /\ size' = Cardinality(StoredKeys(heap'))
    BY <1>0, <2>1, <2>3, FS_EmptySet
  <2> QED BY <2>1, <2>2, <2>4, InvariantAfter
<1>10. CASE UNCHANGED vars
  BY <1>0, <1>10, RadixUnchanged DEF vars
<1> QED BY <1>1, <1>2, <1>3, <1>4, <1>5, <1>6, <1>7, <1>8, <1>9, <1>10 DEF Next

-----------------------------------------------------------------------------
(* Safety *)

\* The invariant holds of every sequence of calls in which clear() is not called
\* on a tree with nodes below the root.
LEMMA RadixAlways ==
    ASSUME IsFiniteSet(Keys), ~ClearAnyTree
    PROVE  Spec => []RadixInv
BY RadixInit, RadixStep, PTL DEF Spec

\* Of the nodes of a set one comes last.
LEMMA LastNode ==
    ASSUME IsFiniteSet(Keys), NEW P, Tree(heap, P), NEW S \in SUBSET DOMAIN heap, S # {}
    PROVE  \E x \in S : \A z \in S : ~Precedes(P[x], P[z])
<1> DEFINE B(x)  == Cardinality(Before(P, x))
           N     == Cardinality(DOMAIN heap)
           after == {N - B(x) : x \in S}
<1>1. \A x \in S : /\ B(x) \in Nat /\ N \in Nat /\ B(x) < N
                   /\ \A z \in S : Precedes(P[x], P[z]) => B(x) < B(z)
  BY FewBefore
<1> HIDE DEF B, N
<1>2. after \in SUBSET Nat /\ after # {}
  BY <1>1
<1>3. PICK a \in after : \A b \in after : a <= b
  <2> HIDE DEF after
  <2> QED BY <1>2, LeastNatural
<1>4. PICK x \in S : a = N - B(x)
  BY <1>3
<1>5. ASSUME NEW z \in S, Precedes(P[x], P[z]) PROVE FALSE
  <2>1. N - B(x) <= N - B(z)
    BY <1>3, <1>4
  <2>2. B(x) < B(z) /\ B(x) \in Nat /\ B(z) \in Nat /\ N \in Nat
    BY <1>1, <1>5
  <2> QED BY <2>1, <2>2
<1> QED BY <1>5

\* Following the list visits every node.
LEMMA ListVisitsAll ==
    ASSUME IsFiniteSet(Keys), NEW P, Tree(heap, P), Listed(heap, P)
    PROVE  {heap[n].next : n \in DOMAIN heap} = (DOMAIN heap \ {RootNode}) \cup {NoNode}
<1>0. /\ RootNode \in DOMAIN heap /\ P[RootNode] = Root /\ NoNode \notin DOMAIN heap
      /\ Root \in Paths /\ \A x \in DOMAIN heap : P[x] \in Paths
      /\ \A x, y \in DOMAIN heap : P[x] = P[y] => x = y
  BY NodeFacts, PathFacts, AddressFacts DEF Tree, HeapOK
<1>1. ASSUME NEW n \in DOMAIN heap PROVE heap[n].next \in (DOMAIN heap \ {RootNode}) \cup {NoNode}
  <2> DEFINE y == heap[n].next
  <2>1. /\ y \in DOMAIN heap \cup {NoNode} /\ (y # NoNode => Precedes(P[n], P[y]))
    BY DEF Listed, IsNext
  <2> HIDE DEF y
  <2>2. ASSUME y = RootNode PROVE FALSE
    <3>1. Precedes(P[n], Root)
      BY <1>0, <2>1, <2>2
    <3>2. P[n] = Root \/ Precedes(Root, P[n])
      BY <1>0, RootIsFirst
    <3> QED BY <1>0, <3>1, <3>2, PrecedesAsymmetric, PrecedesIrreflexive
  <2> QED BY <2>1, <2>2 DEF y
<1>2. ASSUME NEW y \in DOMAIN heap, y # RootNode PROVE \E n \in DOMAIN heap : heap[n].next = y
  <2> DEFINE S == Before(P, y)
  <2>1. RootNode \in S
    BY <1>0, <1>2, RootIsFirst DEF Before
  <2>2. S \in SUBSET DOMAIN heap
    BY DEF Before
  <2>3. PICK x \in S : \A z \in S : ~Precedes(P[x], P[z])
    <3> HIDE DEF S
    <3> QED BY <2>1, <2>2, LastNode
  <2>4. x \in DOMAIN heap /\ Precedes(P[x], P[y])
    BY DEF Before
  <2> DEFINE z == heap[x].next
  <2>5. z \in DOMAIN heap /\ Precedes(P[x], P[z]) /\ ~Precedes(P[y], P[z])
    BY <2>4 DEF Listed, IsNext
  <2> HIDE DEF z
  <2>6. ~Precedes(P[z], P[y])
    BY <2>3, <2>5 DEF Before
  <2>7. z = y
    BY <1>0, <2>5, <2>6, PrecedesTotal
  <2> QED BY <2>4, <2>7 DEF z
<1>3. \E n \in DOMAIN heap : heap[n].next = NoNode
  <2>1. PICK x \in DOMAIN heap : \A z \in DOMAIN heap : ~Precedes(P[x], P[z])
    BY <1>0, LastNode
  <2>2. heap[x].next = NoNode
    BY <2>1 DEF Listed, IsNext
  <2> QED BY <2>2
<1> QED BY <1>1, <1>2, <1>3

\* What RadixInv says in the terms of the properties.
LEMMA InvariantMeans ==
    ASSUME IsFiniteSet(Keys), RadixInv
    PROVE  TypeOK /\ PathsSpellKeys /\ ListIsTreeOrder /\ SizeCounts
<1>0. /\ RadixTree(heap, Path) /\ Tree(heap, Path) /\ Listed(heap, Path) /\ HeapOK(heap)
      /\ size = Cardinality(StoredKeys(heap))
  BY DEF RadixInv, RadixTree, Tree
<1>1. TypeOK
  <2>1. RootNode \in DOMAIN heap /\ DOMAIN heap \subseteq Addresses
    BY <1>0 DEF HeapOK
  <2>2. \A n \in DOMAIN heap : /\ heap[n].next \in DOMAIN heap \cup {NoNode}
                               /\ heap[n].value \in Values \cup {NoValue}
                               /\ Edges(heap, n) \subseteq Chars
    BY <1>0, NodeFacts DEF Listed, IsNext
  <2>3. size \in 0..Cardinality(Keys)
    BY <1>0, StoredFinite
  <2> QED BY <2>1, <2>2, <2>3 DEF TypeOK, RadixInv
<1>2. PathsSpellKeys
  <2>1. Below(RootNode) = DOMAIN heap
    BY <1>0, BelowIsAll
  <2>2. \A n \in DOMAIN heap : HasValue(n) => heap[n].key = Path[n]
    BY <1>0 DEF RadixTree, Carries, HasValue
  <2> DEFINE S == {Path[n] : n \in DOMAIN heap}
             f == [n \in DOMAIN heap |-> Path[n]]
  <2>3. f \in Bijection(DOMAIN heap, S)
    BY <1>0 DEF Bijection, Injection, Surjection, IsInjective, Tree
  <2>4. IsFiniteSet(DOMAIN heap)
    BY <1>0, FewAbove DEF HeapOK
  <2>5. Cardinality(S) = Cardinality(DOMAIN heap)
    <3> HIDE DEF S, f
    <3> QED BY <2>3, <2>4, FS_Bijection, FS_Surjection DEF ExistsBijection, Bijection
  <2>6. \A p, q \in DOMAIN heap : \A c \in Edges(heap, p), d \in Edges(heap, q) :
           heap[p].children[c] = heap[q].children[d] => p = q /\ c = d
    BY <1>0, OneParent
  <2> QED BY <2>1, <2>2, <2>5, <2>6 DEF PathsSpellKeys
<1>3. ListIsTreeOrder
  <2>1. {heap[n].next : n \in DOMAIN heap} = (DOMAIN heap \ {RootNode}) \cup {NoNode}
    BY <1>0, ListVisitsAll
  <2>2. \A n \in DOMAIN heap :
           heap[n].next # NoNode => Precedes(Path[n], Path[heap[n].next])
    BY <1>0 DEF Listed, IsNext
  <2> QED BY <2>1, <2>2 DEF ListIsTreeOrder
<1>4. SizeCounts
  BY <1>0, StoredFinite DEF SizeCounts
<1> QED BY <1>1, <1>2, <1>3, <1>4

\* Every variable has its type, for every finite set of keys: in particular no
\* method leaves an iterator or a list link to a node that is not there.
THEOREM RadixTypeCorrect ==
    ASSUME IsFiniteSet(Keys), ~ClearAnyTree
    PROVE  Spec => []TypeOK
<1>1. RadixInv => TypeOK
  BY InvariantMeans
<1> QED BY <1>1, RadixAlways, PTL

\* However often split cut a label, edges and labels spell the key of every
\* value, no two nodes spell the same, and each is the child of one node.
THEOREM RadixPathsSpellKeys ==
    ASSUME IsFiniteSet(Keys), ~ClearAnyTree
    PROVE  Spec => []PathsSpellKeys
<1>1. RadixInv => PathsSpellKeys
  BY InvariantMeans
<1> QED BY <1>1, RadixAlways, PTL

\* The list that split and traverse_creating keep visits every node, in the
\* order of the tree.
THEOREM RadixListInOrder ==
    ASSUME IsFiniteSet(Keys), ~ClearAnyTree
    PROVE  Spec => []ListIsTreeOrder
<1>1. RadixInv => ListIsTreeOrder
  BY InvariantMeans
<1> QED BY <1>1, RadixAlways, PTL

\* size() is the number of keys stored, after every sequence of calls.
THEOREM RadixSizeIsCount ==
    ASSUME IsFiniteSet(Keys), ~ClearAnyTree
    PROVE  Spec => []SizeCounts
<1>1. RadixInv => SizeCounts
  BY InvariantMeans
<1> QED BY <1>1, RadixAlways, PTL

-----------------------------------------------------------------------------
(* The contract *)

\* Characters compare like their bytes, ASCII characters for example.  The list
\* follows the edges, which compare characters as they are; the contract is in
\* the order of std::string.
OneOrder == \A c, d \in Chars : c < d => c % 256 < d % 256

\* The contract's iterator: the key at node n.
KeyAt(P, n) == IF n = NoNode THEN NoNode ELSE P[n]

\* The value that entries E hold with key k.
ValueIn(E, k) ==
    LET held == {v \in Values : <<k, v>> \in E}
    IN IF held = {} THEN NoValue ELSE CHOOSE v \in held : TRUE

\* ValueAt in heap h.
HeapValue(h, k) ==
    LET at == {n \in DOMAIN h : h[n].key = k /\ h[n].value # NoValue}
    IN IF at = {} THEN NoValue ELSE h[CHOOSE n \in at : TRUE].value

\* The contract's map is what the entries say.
LEMMA ValueIsEntry ==
    ASSUME NEW h, NEW P, RadixTree(h, P), NEW k \in Keys
    PROVE  /\ HeapValue(h, k) = ValueIn(Entries(h), k)
           /\ ValueIn(Entries(h), k) # NoValue <=> k \in StoredKeys(h)
<1> DEFINE at   == {n \in DOMAIN h : h[n].key = k /\ h[n].value # NoValue}
           held == {v \in Values : <<k, v>> \in Entries(h)}
<1>0. /\ \A n \in DOMAIN h : h[n].value \in Values \cup {NoValue} /\ NoValue \notin Values
      /\ \A n \in DOMAIN h : HoldsAt(h, n, P[n])
      /\ k \in StoredKeys(h) => \E n \in DOMAIN h : P[n] = k /\ h[n].value # NoValue
      /\ \A m, n \in DOMAIN h : P[m] = P[n] => m = n
      /\ \A n \in DOMAIN h : h[n].value # NoValue => h[n].key = P[n]
  <2>1. \A n \in DOMAIN h : h[n].value \in Values \cup {NoValue} /\ NoValue \notin Values
    BY NodeFacts, RadixAssumption DEF RadixTree, Tree
  <2> QED BY <2>1, EntryFacts DEF RadixTree, Tree, Carries
<1>1. ValueIn(Entries(h), k) = IF held = {} THEN NoValue ELSE CHOOSE v \in held : TRUE
  BY Zenon DEF ValueIn
<1>2. HeapValue(h, k) = IF at = {} THEN NoValue ELSE h[CHOOSE n \in at : TRUE].value
  BY Zenon DEF HeapValue
<1>3. CASE k \in StoredKeys(h)
  <2>1. PICK n \in DOMAIN h : P[n] = k /\ h[n].value # NoValue
    BY <1>0, <1>3
  <2>2. at = {n}
    BY <1>0, <2>1
  <2>3. held = {h[n].value}
    <3>1. \A v : <<k, v>> \in Entries(h) <=> v # NoValue /\ h[n].value = v
      BY <1>0, <2>1 DEF HoldsAt
    <3> QED BY <1>0, <2>1, <3>1
  <2> HIDE DEF at, held
  <2>4. HeapValue(h, k) = h[n].value /\ ValueIn(Entries(h), k) = h[n].value
    BY <1>1, <1>2, <2>2, <2>3
  <2> QED BY <1>3, <2>1, <2>4
<1>4. CASE k \notin StoredKeys(h)
  <2>1. at = {}
    BY <1>0, <1>4 DEF HoldsAt
  <2>2. held = {}
    <3>1. \A v : <<k, v>> \notin Entries(h)
      <4> SUFFICES ASSUME NEW v, <<k, v>> \in Entries(h) PROVE FALSE
        OBVIOUS
      <4>1. <<k, v>>[1] = k
        OBVIOUS
      <4>2. k \in StoredKeys(h)
        BY <4>1 DEF StoredKeys
      <4> QED BY <1>4, <4>2
    <3> QED BY <3>1
  <2> HIDE DEF at, held
  <2> QED BY <1>1, <1>2, <1>4, <2>1, <2>2
<1> QED BY <1>3, <1>4

\* The map once the value of k is v.
LEMMA ReplacedValues ==
    ASSUME NEW E, NEW k \in Keys, NEW v \in Values \cup {NoValue}
    PROVE  [j \in Keys |-> ValueIn(Replaced(E, k, v), j)]
              = [[j \in Keys |-> ValueIn(E, j)] EXCEPT ![k] = v]
<1> DEFINE R == Replaced(E, k, v)
<1>1. NoValue \notin Values
  BY RadixAssumption
<1>2. ASSUME NEW j \in Keys, j # k PROVE ValueIn(R, j) = ValueIn(E, j)
  <2>1. \A u : <<j, u>> \in R <=> <<j, u>> \in E
    <3>1. \A u : <<j, u>>[1] = j
      OBVIOUS
    <3> QED BY <1>2, <3>1 DEF Replaced
  <2> DEFINE inR == {u \in Values : <<j, u>> \in R}
             inE == {u \in Values : <<j, u>> \in E}
  <2> HIDE DEF R
  <2>2. inR = inE
    BY <2>1
  <2>3. /\ ValueIn(R, j) = IF inR = {} THEN NoValue ELSE CHOOSE u \in inR : TRUE
        /\ ValueIn(E, j) = IF inE = {} THEN NoValue ELSE CHOOSE u \in inE : TRUE
    BY Zenon DEF ValueIn
  <2> HIDE DEF inR, inE
  <2> QED BY <2>2, <2>3
<1>3. ValueIn(R, k) = v
  <2> DEFINE held == {u \in Values : <<k, u>> \in R}
  <2>1. \A u : <<k, u>> \in R <=> u = v /\ v # NoValue
    <3>1. \A u : <<k, u>>[1] = k
      OBVIOUS
    <3> QED BY <3>1 DEF Replaced
  <2>2. CASE v = NoValue
    <3>1. held = {}
      BY <2>1, <2>2
    <3> QED BY <2>2, <3>1 DEF ValueIn
  <2>3. CASE v # NoValue
    <3>1. held = {v}
      BY <2>1, <2>3
    <3>2. ValueIn(R, k) = IF held = {} THEN NoValue ELSE CHOOSE u \in held : TRUE
      BY Zenon DEF ValueIn
    <3> HIDE DEF held, R
    <3> QED BY <3>1, <3>2
  <2> QED BY <2>2, <2>3
<1> HIDE DEF R
<1> QED BY <1>2, <1>3 DEF R

\* The contract's definitions, in the terms of the tree.
LEMMA ContractMeans ==
    ASSUME NEW P, RadixTree(heap, P)
    PROVE  /\ \A p, q : Contract!KeyLess(p, q) <=> KeyLess(p, q)
           /\ \A p, q : Contract!IsPrefixOf(p, q) <=> IsPrefixOf(p, q)
           /\ \A k \in Keys : Contract!Has(k) <=> k \in StoredKeys(heap)
           /\ \A S : Contract!Keyed(S) = StoredKeys(heap) \cap S
           /\ \A k : Contract!After(k) = {j \in Keys : KeyLess(k, j)}
           /\ \A k : Contract!From(k) = {j \in Keys : ~KeyLess(j, k)}
           /\ [k \in Keys |-> ValueAt(k)] = [k \in Keys |-> ValueIn(Entries(heap), k)]
<1>1. \A p, q : Contract!KeyLess(p, q) <=> KeyLess(p, q)
  <2>1. \A p, q : Contract!Precedes(p, q) <=> Precedes(p, q)
    BY Zenon DEF Contract!Precedes, Precedes
  <2>2. \A p : Contract!Bytes(p) = Bytes(p)
    BY Zenon DEF Contract!Bytes, Bytes
  <2> QED BY <2>1, <2>2, Zenon DEF Contract!KeyLess, KeyLess
<1>2. \A p, q : Contract!IsPrefixOf(p, q) <=> IsPrefixOf(p, q)
  BY Zenon DEF Contract!IsPrefixOf, IsPrefixOf
<1>3. \A k \in Keys : ValueAt(k) = ValueIn(Entries(heap), k)
  <2>1. \A k \in Keys : ValueAt(k) = HeapValue(heap, k)
    BY Zenon DEF ValueAt, HeapValue, HasValue
  <2> QED BY <2>1, ValueIsEntry
<1>4. \A k \in Keys : Contract!Has(k) <=> k \in StoredKeys(heap)
  BY <1>3, ValueIsEntry DEF Contract!Has
<1>5. \A S : Contract!Keyed(S) = StoredKeys(heap) \cap S
  BY <1>4, EntryFacts DEF Contract!Keyed
<1>6. \A k : Contract!After(k) = {j \in Keys : KeyLess(k, j)}
  BY <1>1 DEF Contract!After
<1>7. \A k : Contract!From(k) = {j \in Keys : ~KeyLess(j, k)}
  BY <1>1 DEF Contract!From
<1> QED BY <1>1, <1>2, <1>3, <1>4, <1>5, <1>6, <1>7

\* The contract's map after a call.
LEMMA NextMap ==
    ASSUME NEW Q, RadixTree(heap', Q)
    PROVE  /\ [k \in Keys |-> ValueAt(k)]' = [k \in Keys |-> ValueIn(Entries(heap'), k)]
           /\ Path' = Q
<1>1. \A k \in Keys : ValueAt(k)' = HeapValue(heap', k)
  BY Zenon DEF ValueAt, HeapValue, HasValue
<1>2. \A k \in Keys : ValueAt(k)' = ValueIn(Entries(heap'), k)
  BY <1>1, ValueIsEntry
<1>3. Path' = Q
  BY NextPathSpells DEF RadixTree
<1> QED BY <1>2, <1>3

\* On paths of nodes and on keys the two orders are one.
LEMMA PathsInOneOrder ==
    ASSUME OneOrder, NEW p \in Seq(Chars), NEW q \in Seq(Chars)
    PROVE  KeyLess(p, q) <=> Precedes(p, q)
<1>1. Chars \in SUBSET Int
  BY CharsArePaths
<1> QED BY <1>1, OrdersCoincide DEF OneOrder

\* The contract's iterator at the first of a set of keys is at the key before
\* all others.
LEMMA FirstIs ==
    ASSUME OneOrder, NEW P, RadixTree(heap, P), NEW S \in SUBSET Keys, NEW k \in S,
           \A j \in S : j = k \/ Precedes(k, j)
    PROVE  Contract!First(S) = k
<1> DEFINE Least(j) == \A i \in S : ~Contract!KeyLess(i, j)
           x == CHOOSE j \in S : Least(j)
<1>0. \A j \in S : j \in Seq(Chars) /\ j \in Paths
  BY CharsArePaths
<1>1. Contract!First(S) = x
  BY Zenon DEF Contract!First
<1>2. \A i, j \in S : Contract!KeyLess(i, j) <=> Precedes(i, j)
  BY <1>0, ContractMeans, PathsInOneOrder
<1>3. Least(k)
  BY <1>0, <1>2, PrecedesIrreflexive, PrecedesAsymmetric
<1>4. x \in S /\ Least(x)
  <2> HIDE DEF Least
  <2> QED BY <1>3, Zenon
<1> HIDE DEF x
<1>5. x = k
  BY <1>2, <1>4
<1> QED BY <1>1, <1>5

\* A walk over the list ends at the first key among those it stops for.
LEMMA WalkIsFirst ==
    ASSUME IsFiniteSet(Keys), OneOrder, NEW P, RadixTree(heap, P), NEW n \in DOMAIN heap,
           NEW stops \in SUBSET WithValue, NEW S \in SUBSET StoredKeys(heap),
           \A s \in WithValue : s \in stops /\ AtOrAfter(P, s, n) <=> P[s] \in S
    PROVE  Contract!First(S) = KeyAt(P, WalkTo(stops, n))
<1> DEFINE w == WalkTo(stops, n)
<1>0. /\ Tree(heap, P) /\ Listed(heap, P) /\ NoNode \notin DOMAIN heap /\ n # NoNode
      /\ WithValue \subseteq DOMAIN heap /\ S \in SUBSET Keys
      /\ \A k \in S : \E s \in WithValue : P[s] = k
  BY NodeFacts, EntryFacts DEF RadixTree, Tree, WithValue, HasValue
<1>1. EndsAt(P, stops, n, w)
  BY <1>0, WalkFinds
<1> HIDE DEF w
<1>2. CASE w = NoNode
  <2>1. S = {}
    BY <1>0, <1>1, <1>2 DEF EndsAt
  <2>2. Contract!First(S) = NoNode
    BY <2>1, Zenon DEF Contract!First
  <2> QED BY <1>2, <2>2 DEF KeyAt, w
<1>3. CASE w # NoNode
  <2>1. w \in stops /\ w \in WithValue /\ AtOrAfter(P, w, n)
    BY <1>1, <1>3 DEF EndsAt
  <2>2. P[w] \in S
    BY <2>1
  <2>3. ASSUME NEW j \in S PROVE j = P[w] \/ Precedes(P[w], j)
    <3>1. PICK s \in WithValue : P[s] = j
      BY <1>0
    <3>2. s \in stops \cap DOMAIN heap /\ AtOrAfter(P, s, n)
      BY <1>0, <3>1
    <3>3. AtOrAfter(P, s, w)
      BY <1>0, <1>1, <3>2 DEF EndsAt
    <3> QED BY <3>1, <3>3 DEF AtOrAfter
  <2>4. Contract!First(S) = P[w]
    BY <1>0, <2>2, <2>3, FirstIs
  <2> QED BY <1>3, <2>4 DEF KeyAt, w
<1> QED BY <1>2, <1>3

\* Values are at nodes of the tree, whose paths are the keys stored.
LEMMA ValuesAreStored ==
    ASSUME NEW P, RadixTree(heap, P)
    PROVE  /\ \A s \in WithValue : /\ s \in DOMAIN heap /\ P[s] \in StoredKeys(heap)
                                   /\ P[s] \in Keys /\ heap[s].key = P[s]
           /\ \A k \in StoredKeys(heap) : k \in Keys /\ \E s \in WithValue : P[s] = k
           /\ \A x \in DOMAIN heap : P[x] \in Seq(Chars) /\ P[x] \in Paths
           /\ \A x, y \in DOMAIN heap : P[x] = P[y] => x = y
           /\ Keys \subseteq Seq(Chars) /\ Keys \subseteq Paths
<1>1. \A x \in DOMAIN heap : P[x] \in Seq(Chars) /\ P[x] \in Paths
  BY PathFacts DEF RadixTree
<1>2. \A s \in WithValue : s \in DOMAIN heap /\ P[s] \in Keys /\ heap[s].key = P[s]
  BY DEF RadixTree, Carries, WithValue, HasValue
<1>3. \A s \in WithValue : P[s] \in StoredKeys(heap)
  BY EntryFacts DEF HoldsAt, WithValue, HasValue
<1>4. \A k \in StoredKeys(heap) : k \in Keys /\ \E s \in WithValue : P[s] = k
  BY EntryFacts DEF WithValue, HasValue
<1> QED BY <1>1, <1>2, <1>3, <1>4, CharsArePaths DEF RadixTree, Tree

\* next_value_node(n) is at the first key at n or after it, and from the next
\* node on the list at the first key after n.
LEMMA NextValueIsFirst ==
    ASSUME IsFiniteSet(Keys), OneOrder, NEW P, RadixTree(heap, P), NEW n \in DOMAIN heap
    PROVE  /\ Contract!First({k \in StoredKeys(heap) : k = P[n] \/ Precedes(P[n], k)})
                 = KeyAt(P, NextValueNode(n))
           /\ Contract!First({k \in StoredKeys(heap) : KeyLess(P[n], k)})
                 = KeyAt(P, NextValueNode(heap[n].next))
<1>1. ASSUME NEW m \in DOMAIN heap
      PROVE  Contract!First({k \in StoredKeys(heap) : k = P[m] \/ Precedes(P[m], k)})
                = KeyAt(P, NextValueNode(m))
  <2> DEFINE S == {k \in StoredKeys(heap) : k = P[m] \/ Precedes(P[m], k)}
  <2>1. \A s \in WithValue : s \in WithValue /\ AtOrAfter(P, s, m) <=> P[s] \in S
    BY ValuesAreStored DEF AtOrAfter
  <2>2. S \in SUBSET StoredKeys(heap) /\ WithValue \in SUBSET WithValue
    OBVIOUS
  <2> HIDE DEF S
  <2>3. Contract!First(S) = KeyAt(P, WalkTo(WithValue, m))
    BY <2>1, <2>2, WalkIsFirst
  <2> QED BY <2>3 DEF S, NextValueNode
<1> DEFINE y == heap[n].next
           S == {k \in StoredKeys(heap) : KeyLess(P[n], k)}
<1>2. /\ y \in DOMAIN heap \cup {NoNode}
      /\ y # NoNode => Precedes(P[n], P[y])
      /\ \A m \in DOMAIN heap : Precedes(P[n], P[m]) => y # NoNode /\ ~Precedes(P[m], P[y])
  BY DEF RadixTree, Listed, IsNext
<1>3. \A k \in StoredKeys(heap) : KeyLess(P[n], k) <=> Precedes(P[n], k)
  BY ValuesAreStored, PathsInOneOrder
<1> HIDE DEF y
<1>4. CASE y = NoNode
  <2>1. S = {}
    BY <1>2, <1>3, <1>4, ValuesAreStored
  <2>2. EndsAt(P, WithValue, y, NextValueNode(y))
    BY <1>2, WalkFinds DEF NextValueNode, RadixTree
  <2>3. NextValueNode(y) = NoNode
    BY <1>4, <2>2 DEF EndsAt
  <2>4. Contract!First({}) = NoNode
    BY Zenon DEF Contract!First
  <2> QED BY <1>1, <2>1, <2>3, <2>4 DEF y, KeyAt
<1>5. CASE y # NoNode
  <2>0. y \in DOMAIN heap /\ Precedes(P[n], P[y])
    BY <1>2, <1>5
  <2>1. ASSUME NEW k \in StoredKeys(heap)
        PROVE  Precedes(P[n], k) <=> k = P[y] \/ Precedes(P[y], k)
    <3>1. PICK m \in DOMAIN heap : P[m] = k
      BY ValuesAreStored
    <3>2. P[n] \in Paths /\ P[y] \in Paths /\ k \in Paths
      BY <2>0, <3>1, ValuesAreStored
    <3>3. Precedes(P[n], k) => k = P[y] \/ Precedes(P[y], k)
      BY <1>2, <3>1, <3>2, PrecedesTotal
    <3>4. k = P[y] \/ Precedes(P[y], k) => Precedes(P[n], k)
      BY <2>0, <3>2, PrecedesTransitive
    <3> QED BY <3>3, <3>4
  <2>2. S = {k \in StoredKeys(heap) : k = P[y] \/ Precedes(P[y], k)}
    BY <1>3, <2>1
  <2> QED BY <1>1, <2>0, <2>2 DEF y
<1> QED BY <1>1, <1>4, <1>5

\* lower_bound is at the first key that is not less than its argument.
LEMMA LowerBoundIsFirst ==
    ASSUME IsFiniteSet(Keys), OneOrder, NEW P, RadixTree(heap, P), NEW k \in Keys
    PROVE  Contract!First({j \in StoredKeys(heap) : ~KeyLess(j, k)}) = KeyAt(P, LowerBoundNode(k))
<1> DEFINE S == {j \in StoredKeys(heap) : ~KeyLess(j, k)}
<1>1. PICK n : StartsAt(P, k, n)
  BY LowerBoundStarts DEF RadixTree
<1>2. n \in DOMAIN heap /\ \A x \in DOMAIN heap : ~Precedes(P[x], k) => AtOrAfter(P, x, n)
  BY <1>1 DEF StartsAt
<1>3. /\ \A s \in WithValue : P[s] \in S <=> ~Precedes(P[s], k)
      /\ \A s \in WithValue : KeyLess(heap[s].key, k) <=> Precedes(P[s], k)
      /\ \A s \in WithValue : s \in DOMAIN heap
  BY ValuesAreStored, PathsInOneOrder
<1>4. S \in SUBSET StoredKeys(heap)
  OBVIOUS
<1> HIDE DEF S
<1>5. CASE LowerBoundNode(k) = NextGeqValueNode(n, k)
  <2> DEFINE stops == {m \in WithValue : ~KeyLess(heap[m].key, k)}
  <2>1. stops \in SUBSET WithValue
    OBVIOUS
  <2>2. \A s \in WithValue : s \in stops /\ AtOrAfter(P, s, n) <=> P[s] \in S
    BY <1>2, <1>3
  <2>3. NextGeqValueNode(n, k) = WalkTo(stops, n)
    BY DEF NextGeqValueNode
  <2> HIDE DEF stops
  <2>4. Contract!First(S) = KeyAt(P, WalkTo(stops, n))
    BY <1>2, <1>4, <2>1, <2>2, WalkIsFirst
  <2> QED BY <1>5, <2>3, <2>4 DEF S
<1>6. CASE /\ LowerBoundNode(k) = NextValueNode(n)
           /\ \A x \in DOMAIN heap : AtOrAfter(P, x, n) => ~Precedes(P[x], k)
  <2>1. \A s \in WithValue : s \in WithValue /\ AtOrAfter(P, s, n) <=> P[s] \in S
    BY <1>2, <1>3, <1>6
  <2>2. Contract!First(S) = KeyAt(P, WalkTo(WithValue, n))
    BY <1>2, <1>4, <2>1, WalkIsFirst
  <2> QED BY <1>6, <2>2 DEF S, NextValueNode
<1> QED BY <1>1, <1>5, <1>6 DEF StartsAt

\* What the invariant gives the proofs below.
LEMMA InContract ==
    ASSUME RadixInv
    PROVE  /\ RadixTree(heap, Path) /\ it \in DOMAIN heap \cup {NoNode}
           /\ size = Cardinality(StoredKeys(heap))
           /\ NoNode \notin DOMAIN heap /\ NoNode \notin Keys
           /\ \A x \in DOMAIN heap : Path[x] # NoNode
           /\ NoNode \in Keys \cup {NoNode} /\ Keys \subseteq Keys \cup {NoNode}
<1>1. RadixTree(heap, Path) /\ it \in DOMAIN heap \cup {NoNode} /\ size = Cardinality(StoredKeys(heap))
  BY DEF RadixInv
<1>2. NoNode \notin DOMAIN heap /\ \A x \in DOMAIN heap : Path[x] \in Prefixes
  BY <1>1, NodeFacts, PathFacts DEF RadixTree, Tree
<1> QED BY <1>1, <1>2, AddressFacts

\* A heap that stays leaves the contract's map.
LEMMA SameMap ==
    ASSUME NEW P, RadixTree(heap, P), heap' = heap
    PROVE  /\ [k \in Keys |-> ValueAt(k)]' = [k \in Keys |-> ValueAt(k)]
           /\ Path' = Path /\ RadixTree(heap', P)
<1>1. RadixTree(heap', P)
  OBVIOUS
<1>2. Path' = P /\ Path = P
  BY <1>1, NextMap, PathSpells DEF RadixTree
<1>3. /\ [k \in Keys |-> ValueAt(k)]' = [k \in Keys |-> ValueIn(Entries(heap'), k)]
      /\ [k \in Keys |-> ValueAt(k)] = [k \in Keys |-> ValueIn(Entries(heap), k)]
  BY <1>1, NextMap, ContractMeans
<1>4. Entries(heap') = Entries(heap)
  OBVIOUS
<1> HIDE DEF Path, ValueAt
<1> QED BY <1>1, <1>2, <1>3, <1>4

\* Methods return iterators at nodes with a value, or end().
LEMMA WalksReturnValues ==
    ASSUME IsFiniteSet(Keys), NEW P, RadixTree(heap, P)
    PROVE  /\ \A n \in DOMAIN heap : NextValueNode(n) \in WithValue \cup {NoNode}
           /\ \A n \in DOMAIN heap : /\ NextValueNode(heap[n].next) \in WithValue \cup {NoNode}
                                     /\ NextValueNode(heap[n].next) # n
           /\ \A k \in Keys : LowerBoundNode(k) \in WithValue \cup {NoNode}
           /\ \A k \in Keys : Found(k) \in WithValue \cup {NoNode}
           /\ RootNode \in DOMAIN heap
<1>0. Tree(heap, P) /\ Listed(heap, P) /\ RootNode \in DOMAIN heap /\ NoNode \notin DOMAIN heap
  BY NodeFacts DEF RadixTree, Tree, HeapOK
<1>1. \A n \in DOMAIN heap \cup {NoNode} : NextValueNode(n) \in WithValue \cup {NoNode}
  BY <1>0, WalkFinds DEF NextValueNode, EndsAt
<1>2. ASSUME NEW n \in DOMAIN heap
      PROVE  /\ NextValueNode(heap[n].next) \in WithValue \cup {NoNode}
             /\ NextValueNode(heap[n].next) # n
  <2> DEFINE y == heap[n].next
             w == NextValueNode(y)
  <2>1. y \in DOMAIN heap \cup {NoNode} /\ (y # NoNode => Precedes(P[n], P[y]))
    BY <1>0 DEF Listed, IsNext
  <2> HIDE DEF y
  <2>2. EndsAt(P, WithValue, y, w)
    BY <1>0, <2>1, WalkFinds DEF NextValueNode
  <2> HIDE DEF w
  <2>3. w \in WithValue \cup {NoNode} /\ (w # NoNode => y # NoNode /\ AtOrAfter(P, w, y))
    BY <2>2 DEF EndsAt
  <2>4. ASSUME w = n PROVE FALSE
    <3>1. y # NoNode /\ y \in DOMAIN heap /\ (n = y \/ Precedes(P[y], P[n]))
      BY <1>0, <2>1, <2>3, <2>4 DEF AtOrAfter
    <3>2. P[n] \in Paths /\ P[y] \in Paths /\ Precedes(P[n], P[y])
      BY <1>0, <2>1, <3>1, PathFacts
    <3> QED BY <3>1, <3>2, PrecedesIrreflexive, PrecedesAsymmetric
  <2> QED BY <2>3, <2>4 DEF w, y
<1>3. ASSUME NEW k \in Keys PROVE LowerBoundNode(k) \in WithValue \cup {NoNode}
  <2>1. PICK n : StartsAt(P, k, n)
    BY <1>0, LowerBoundStarts
  <2>2. \A stops : WalkTo(stops, n) \in stops \cup {NoNode}
    BY <1>0, <2>1, WalkFinds DEF StartsAt, EndsAt
  <2>3. {m \in WithValue : ~KeyLess(heap[m].key, k)} \subseteq WithValue
    OBVIOUS
  <2> QED BY <2>1, <2>2, <2>3 DEF StartsAt, NextValueNode, NextGeqValueNode
<1>4. ASSUME NEW k \in Keys PROVE Found(k) \in WithValue \cup {NoNode}
  BY FoundFacts DEF WithValue
<1> QED BY <1>0, <1>1, <1>2, <1>3, <1>4

\* The key at the iterator that a method returns is the contract's iterator.
LEMMA IteratorInContract ==
    ASSUME NEW Q, RadixTree(heap', Q), NEW name, NEW k \in Keys \cup {NoNode},
           AnswerIterator(name, k),
           it' # NoNode => it' \in DOMAIN heap' /\ heap'[it'].value # NoValue
    PROVE  Contract!AnswerIterator(name, k)
<1>1. /\ ret'.call = name /\ ret'.key = k
      /\ ret'.result = IF it' = NoNode THEN NoNode ELSE heap'[it'].key
  BY IteratorAnswers
<1>2. it' # NoNode => heap'[it'].key = Path'[it']
  BY NextMap DEF RadixTree, Carries
<1>3. ret'.result = IF it' = NoNode THEN NoNode ELSE Path'[it']
  BY <1>1, <1>2
<1> QED BY <1>1, <1>3 DEF Contract!AnswerIterator, Contract!Answer

\* Insertion leaves the map and the iterator that the contract allows.
LEMMA StoreInContract ==
    ASSUME IsFiniteSet(Keys), ~StableIterators, RadixInv, NEW k \in Keys, NEW v \in Values,
           NEW name, NEW assigned \in BOOLEAN, Store(name, k, v, assigned)
    PROVE  /\ Contract!Answer(name, k, IF Contract!Has(k) THEN "no" ELSE "yes")
           /\ Contract!TakesOrKeeps(k)
           /\ [j \in Keys |-> ValueAt(j)]' =
                 IF Contract!Has(k) /\ ~assigned THEN [j \in Keys |-> ValueAt(j)]
                 ELSE [[j \in Keys |-> ValueAt(j)] EXCEPT ![k] = v]
<1>0. /\ RadixTree(heap, Path) /\ it \in DOMAIN heap \cup {NoNode}
      /\ NoNode \notin DOMAIN heap /\ \A x \in DOMAIN heap : Path[x] # NoNode
      /\ v \in Values \cup {NoValue} /\ k \in Keys \cup {NoNode}
  BY InContract
<1>1. PICK Q, w : Stores(Path, Q, k, v, assigned, w)
  BY <1>0, StoreFacts
<1>2. Answer(name, k, IF k \in StoredKeys(heap) THEN "no" ELSE "yes")
  BY <1>0, StoreFacts
<1>3. Contract!Has(k) <=> k \in StoredKeys(heap)
  BY <1>0, ContractMeans
<1>4. Contract!Answer(name, k, IF Contract!Has(k) THEN "no" ELSE "yes")
  <2>1. Answer(name, k, IF Contract!Has(k) THEN "no" ELSE "yes")
    BY <1>2, <1>3
  <2> QED BY <1>0, <2>1, AnswersAreRecords DEF Contract!Answer
<1>5. /\ [j \in Keys |-> ValueAt(j)] = [j \in Keys |-> ValueIn(Entries(heap), j)]
      /\ [j \in Keys |-> ValueAt(j)]' = [j \in Keys |-> ValueIn(Entries(heap'), j)]
      /\ Path' = Q
  BY <1>0, <1>1, ContractMeans, NextMap DEF Stores
<1>6. [j \in Keys |-> ValueAt(j)]' =
         IF Contract!Has(k) /\ ~assigned THEN [j \in Keys |-> ValueAt(j)]
         ELSE [[j \in Keys |-> ValueAt(j)] EXCEPT ![k] = v]
  <2>1. CASE Contract!Has(k) /\ ~assigned
    <3>1. Entries(heap') = Entries(heap)
      BY <1>1, <1>3, <2>1 DEF Stores
    <3> QED BY <1>5, <2>1, <3>1
  <2>2. CASE ~(Contract!Has(k) /\ ~assigned)
    <3>1. Entries(heap') = Replaced(Entries(heap), k, v)
      BY <1>1, <1>3, <2>2 DEF Stores
    <3>2. [j \in Keys |-> ValueIn(Entries(heap'), j)]
             = [[j \in Keys |-> ValueIn(Entries(heap), j)] EXCEPT ![k] = v]
      BY <1>0, <3>1, ReplacedValues
    <3> QED BY <1>5, <2>2, <3>2
  <2> QED BY <2>1, <2>2
<1>7. /\ RadixTree(heap', Q) /\ w \in DOMAIN heap' /\ Q[w] = k /\ it' \in {w, it}
      /\ \A x \in DOMAIN heap : x \in DOMAIN heap' /\ IsPrefixOf(Q[x], Path[x])
      /\ NoNode \notin DOMAIN heap'
  <2>1. RadixTree(heap', Q)
    BY <1>1 DEF Stores
  <2>2. NoNode \notin DOMAIN heap'
    BY <2>1, NodeFacts DEF RadixTree, Tree
  <2> QED BY <1>1, <2>2 DEF Stores
<1> DEFINE a == IF it = NoNode THEN NoNode ELSE Path[it]
           b == IF it' = NoNode THEN NoNode ELSE Path'[it']
<1>8. b \in {k, a} \/ (a # NoNode /\ IsPrefixOf(b, a))
  <2>1. CASE it' = w
    BY <1>5, <1>7, <2>1
  <2>2. CASE it' = it
    BY <1>0, <1>5, <1>7, <2>2
  <2> QED BY <1>7, <2>1, <2>2
<1>9. Contract!TakesOrKeeps(k)
  <2>1. \A p, q : Contract!IsPrefixOf(p, q) <=> IsPrefixOf(p, q)
    BY <1>0, ContractMeans
  <2> QED BY <1>8, <2>1 DEF Contract!TakesOrKeeps
<1> QED BY <1>4, <1>6, <1>9

\* Insertion does what the contract says.
LEMMA InsertionInContract ==
    ASSUME IsFiniteSet(Keys), ~StableIterators, RadixInv, NEW k \in Keys, NEW v \in Values
    PROVE  /\ Insert(k, v) => Contract!Insert(k, v)
           /\ InsertOrAssign(k, v) => Contract!InsertOrAssign(k, v)
<1>1. ASSUME Insert(k, v) PROVE Contract!Insert(k, v)
  <2>1. Store("insert", k, v, FALSE)
    BY <1>1 DEF Insert
  <2>2. /\ Contract!Answer("insert", k, IF Contract!Has(k) THEN "no" ELSE "yes")
        /\ Contract!TakesOrKeeps(k)
        /\ [j \in Keys |-> ValueAt(j)]' =
              IF Contract!Has(k) THEN [j \in Keys |-> ValueAt(j)]
              ELSE [[j \in Keys |-> ValueAt(j)] EXCEPT ![k] = v]
    BY <2>1, StoreInContract
  <2> QED BY <2>2 DEF Contract!Insert
<1>2. ASSUME InsertOrAssign(k, v) PROVE Contract!InsertOrAssign(k, v)
  <2>1. Store("insert_or_assign", k, v, TRUE)
    BY <1>2 DEF InsertOrAssign
  <2>2. /\ Contract!Answer("insert_or_assign", k, IF Contract!Has(k) THEN "no" ELSE "yes")
        /\ Contract!TakesOrKeeps(k)
        /\ [j \in Keys |-> ValueAt(j)]' = [[j \in Keys |-> ValueAt(j)] EXCEPT ![k] = v]
    BY <2>1, StoreInContract
  <2> QED BY <2>2 DEF Contract!InsertOrAssign
<1> QED BY <1>1, <1>2

\* A call that only moves the iterator, to a node with a value or to end(), shows
\* the client the key there.
LEMMA MoveInContract ==
    ASSUME RadixInv, UNCHANGED <<heap, size>>, NEW name, NEW k \in Keys \cup {NoNode},
           AnswerIterator(name, k), it' \in WithValue \cup {NoNode}
    PROVE  /\ Contract!AnswerIterator(name, k)
           /\ [j \in Keys |-> ValueAt(j)]' = [j \in Keys |-> ValueAt(j)]
           /\ (IF it = NoNode THEN NoNode ELSE Path[it])' = KeyAt(Path, it')
<1>1. RadixTree(heap, Path) /\ heap' = heap
  BY InContract
<1>2. /\ [j \in Keys |-> ValueAt(j)]' = [j \in Keys |-> ValueAt(j)]
      /\ Path' = Path /\ RadixTree(heap', Path)
  BY <1>1, SameMap
<1>3. it' # NoNode => it' \in DOMAIN heap' /\ heap'[it'].value # NoValue
  BY <1>1 DEF WithValue, HasValue
<1>4. Contract!AnswerIterator(name, k)
  BY <1>2, <1>3, IteratorInContract
<1> QED BY <1>2, <1>4 DEF KeyAt

\* Where the iterator goes from n: to the first key after the one that n spells.
LEMMA AfterIsNext ==
    ASSUME IsFiniteSet(Keys), OneOrder, RadixInv, NEW n \in DOMAIN heap
    PROVE  Contract!First(Contract!Keyed(Contract!After(Path[n])))
              = KeyAt(Path, NextValueNode(heap[n].next))
<1>1. RadixTree(heap, Path)
  BY InContract
<1>2. /\ Contract!Keyed(Contract!After(Path[n]))
            = StoredKeys(heap) \cap {j \in Keys : KeyLess(Path[n], j)}
      /\ StoredKeys(heap) \subseteq Keys
  BY <1>1, ContractMeans, ValuesAreStored
<1>3. Contract!Keyed(Contract!After(Path[n])) = {j \in StoredKeys(heap) : KeyLess(Path[n], j)}
  BY <1>2
<1> QED BY <1>1, <1>3, NextValueIsFirst

\* Clearing the value at a node takes its key out of the map.
LEMMA RemoveInContract ==
    ASSUME IsFiniteSet(Keys), RadixInv, NEW n \in DOMAIN heap, HasValue(n), Remove(n)
    PROVE  /\ RadixTree(heap', Path) /\ Path' = Path /\ DOMAIN heap' = DOMAIN heap
           /\ Path[n] \in Keys
           /\ [j \in Keys |-> ValueAt(j)]' = [[j \in Keys |-> ValueAt(j)] EXCEPT ![Path[n]] = NoValue]
           /\ \A x \in DOMAIN heap : x # n => heap'[x] = heap[x]
<1>1. RadixTree(heap, Path) /\ size = Cardinality(StoredKeys(heap))
  BY InContract
<1>2. /\ RadixTree(heap', Path) /\ DOMAIN heap' = DOMAIN heap
      /\ Entries(heap') = Replaced(Entries(heap), Path[n], NoValue)
      /\ \A x \in DOMAIN heap : x # n => heap'[x] = heap[x]
  BY <1>1, RemoveFacts
<1>3. Path[n] \in Keys
  BY <1>1, ValuesAreStored DEF WithValue
<1>4. /\ [j \in Keys |-> ValueAt(j)]' = [j \in Keys |-> ValueIn(Entries(heap'), j)]
      /\ Path' = Path
      /\ [j \in Keys |-> ValueAt(j)] = [j \in Keys |-> ValueIn(Entries(heap), j)]
  BY <1>1, <1>2, NextMap, ContractMeans
<1>5. [j \in Keys |-> ValueIn(Replaced(Entries(heap), Path[n], NoValue), j)]
         = [[j \in Keys |-> ValueIn(Entries(heap), j)] EXCEPT ![Path[n]] = NoValue]
  BY <1>3, ReplacedValues
<1> QED BY <1>2, <1>3, <1>4, <1>5

\* Erasure does what the contract says, by key and at an iterator.
LEMMA ErasureInContract ==
    ASSUME IsFiniteSet(Keys), OneOrder, RadixInv
    PROVE  /\ \A k \in Keys : Erase(k) => Contract!Erase(k)
           /\ EraseIterator => Contract!EraseIterator
<1>0. /\ RadixTree(heap, Path) /\ it \in DOMAIN heap \cup {NoNode} /\ NoNode \notin DOMAIN heap
      /\ NoNode \notin Keys /\ NoNode \in Keys \cup {NoNode} /\ Keys \subseteq Keys \cup {NoNode}
  BY InContract
<1>1. ASSUME NEW k \in Keys, Erase(k) PROVE Contract!Erase(k)
  <2>1. /\ Contract!Has(k) <=> k \in StoredKeys(heap)
        /\ Found(k) # NoNode <=> k \in StoredKeys(heap)
        /\ Found(k) # NoNode => Found(k) \in DOMAIN heap /\ Path[Found(k)] = k /\ HasValue(Found(k))
    BY <1>0, ContractMeans, FoundFacts
  <2>2. it' = it /\ Answer("erase", k, IF Found(k) # NoNode THEN "yes" ELSE "no")
    BY <1>1 DEF Erase
  <2>3. Contract!Answer("erase", k, Contract!YesNo(k))
    BY <1>0, <2>1, <2>2, AnswersAreRecords DEF Contract!Answer, Contract!YesNo
  <2>4. /\ [j \in Keys |-> ValueAt(j)]' = [[j \in Keys |-> ValueAt(j)] EXCEPT ![k] = NoValue]
        /\ Path' = Path
    <3>1. CASE Found(k) # NoNode
      <4>1. Remove(Found(k))
        BY <1>1, <3>1 DEF Erase
      <4> QED BY <2>1, <3>1, <4>1, RemoveInContract
    <3>2. CASE Found(k) = NoNode
      <4>1. heap' = heap
        BY <1>1, <3>2 DEF Erase
      <4>2. [j \in Keys |-> ValueAt(j)]' = [j \in Keys |-> ValueAt(j)] /\ Path' = Path
        BY <1>0, <4>1, SameMap
      <4>3. ValueAt(k) = NoValue
        BY <2>1, <3>2 DEF Contract!Has
      <4>4. [j \in Keys |-> ValueAt(j)] = [[j \in Keys |-> ValueAt(j)] EXCEPT ![k] = NoValue]
        BY <4>3
      <4> QED BY <4>2, <4>4
    <3> QED BY <3>1, <3>2
  <2> QED BY <2>2, <2>3, <2>4 DEF Contract!Erase
<1>2. ASSUME EraseIterator PROVE Contract!EraseIterator
  <2> DEFINE j == IF it = NoNode THEN NoNode ELSE Path[it]
  <2>1. AnswerIterator("erase_iterator", NoNode)
    BY <1>2 DEF EraseIterator
  <2>2. it # NoNode /\ HasValue(it) <=> j \in Keys /\ Contract!Has(j)
    <3>1. it # NoNode => (HasValue(it) <=> Path[it] \in StoredKeys(heap))
      BY <1>0, EntryFacts DEF HoldsAt, HasValue
    <3>2. \A k \in StoredKeys(heap) : k \in Keys
      BY <1>0, ValuesAreStored
    <3>3. \A k \in Keys : Contract!Has(k) <=> k \in StoredKeys(heap)
      BY <1>0, ContractMeans
    <3> QED BY <1>0, <3>1, <3>2, <3>3
  <2>3. CASE it # NoNode /\ HasValue(it)
    <3>1. it \in DOMAIN heap /\ Remove(it) /\ it' = NextValueNode(heap[it].next)
      BY <1>0, <1>2, <2>3 DEF EraseIterator
    <3>2. /\ RadixTree(heap', Path) /\ Path' = Path /\ DOMAIN heap' = DOMAIN heap
          /\ [k \in Keys |-> ValueAt(k)]' = [[k \in Keys |-> ValueAt(k)] EXCEPT ![Path[it]] = NoValue]
          /\ \A x \in DOMAIN heap : x # it => heap'[x] = heap[x]
      BY <2>3, <3>1, RemoveInContract
    <3>3. it' \in WithValue \cup {NoNode} /\ it' # it
      BY <1>0, <3>1, WalksReturnValues
    <3>4. it' # NoNode => it' \in DOMAIN heap' /\ heap'[it'].value # NoValue
      BY <3>2, <3>3 DEF WithValue, HasValue
    <3>5. Contract!AnswerIterator("erase_iterator", NoNode)
      BY <1>0, <2>1, <3>2, <3>4, IteratorInContract
    <3>6. Contract!First(Contract!Keyed(Contract!After(Path[it]))) = KeyAt(Path, it')
      BY <3>1, AfterIsNext
    <3>7. j = Path[it] /\ (IF it = NoNode THEN NoNode ELSE Path[it])' = KeyAt(Path, it')
      BY <2>3, <3>2 DEF KeyAt
    <3> QED BY <2>2, <2>3, <3>2, <3>5, <3>6, <3>7 DEF Contract!EraseIterator
  <2>4. CASE ~(it # NoNode /\ HasValue(it))
    <3>1. UNCHANGED <<heap, size>> /\ it' = NoNode
      BY <1>2, <2>4 DEF EraseIterator
    <3>2. /\ Contract!AnswerIterator("erase_iterator", NoNode)
          /\ [k \in Keys |-> ValueAt(k)]' = [k \in Keys |-> ValueAt(k)]
          /\ (IF it = NoNode THEN NoNode ELSE Path[it])' = KeyAt(Path, it')
      BY <1>0, <2>1, <3>1, MoveInContract
    <3> QED BY <2>2, <2>4, <3>1, <3>2 DEF Contract!EraseIterator, KeyAt
  <2> QED BY <2>3, <2>4
<1> QED BY <1>1, <1>2

\* So do find and count.
LEMMA LookupInContract ==
    ASSUME IsFiniteSet(Keys), RadixInv, NEW k \in Keys
    PROVE  /\ Find(k) => Contract!Find(k)
           /\ Count(k) => Contract!Count(k)
<1>0. /\ RadixTree(heap, Path) /\ k \in Keys \cup {NoNode}
      /\ Contract!Has(k) <=> Found(k) # NoNode
      /\ Found(k) # NoNode => Path[Found(k)] = k
      /\ Found(k) \in WithValue \cup {NoNode}
  BY InContract, ContractMeans, FoundFacts, WalksReturnValues
<1>1. ASSUME Find(k) PROVE Contract!Find(k)
  <2>1. UNCHANGED <<heap, size>> /\ AnswerIterator("find", k) /\ it' = Found(k)
    BY <1>1 DEF Find
  <2>2. /\ Contract!AnswerIterator("find", k)
        /\ [j \in Keys |-> ValueAt(j)]' = [j \in Keys |-> ValueAt(j)]
        /\ (IF it = NoNode THEN NoNode ELSE Path[it])' = KeyAt(Path, it')
    BY <1>0, <2>1, MoveInContract
  <2>3. KeyAt(Path, it') = IF Contract!Has(k) THEN k ELSE NoNode
    BY <1>0, <2>1 DEF KeyAt
  <2> QED BY <2>2, <2>3 DEF Contract!Find
<1>2. ASSUME Count(k) PROVE Contract!Count(k)
  <2>1. heap' = heap /\ it' = it /\ Answer("count", k, IF Found(k) # NoNode THEN "yes" ELSE "no")
    BY <1>2 DEF Count
  <2>2. [j \in Keys |-> ValueAt(j)]' = [j \in Keys |-> ValueAt(j)] /\ Path' = Path
    BY <1>0, <2>1, SameMap
  <2>3. Contract!Answer("count", k, Contract!YesNo(k))
    BY <1>0, <2>1, AnswersAreRecords DEF Contract!Answer, Contract!YesNo
  <2> QED BY <2>1, <2>2, <2>3 DEF Contract!Count
<1> QED BY <1>1, <1>2

\* So do the bounds.
LEMMA BoundsInContract ==
    ASSUME IsFiniteSet(Keys), OneOrder, RadixInv, NEW k \in Keys,
           Strict => "upper_bound" \notin Ops
    PROVE  /\ LowerBound(k) => Contract!LowerBound(k)
           /\ UpperBound(k) => Contract!UpperBound(k)
<1> DEFINE S == {j \in StoredKeys(heap) : ~KeyLess(j, k)}
           n == LowerBoundNode(k)
<1>0. /\ RadixTree(heap, Path) /\ k \in Keys \cup {NoNode}
      /\ Contract!Has(k) <=> k \in StoredKeys(heap)
      /\ Contract!First(S) = KeyAt(Path, n)
      /\ n \in WithValue \cup {NoNode} /\ WithValue \subseteq DOMAIN heap
  BY InContract, ContractMeans, LowerBoundIsFirst, WalksReturnValues DEF WithValue
<1>1. StoredKeys(heap) \subseteq Keys
  BY <1>0, ValuesAreStored
<1>2. Contract!Keyed(Contract!From(k)) = S
  <2>1. Contract!Keyed(Contract!From(k)) = StoredKeys(heap) \cap {j \in Keys : ~KeyLess(j, k)}
    BY <1>0, ContractMeans
  <2> QED BY <1>1, <2>1
<1> HIDE DEF S, n
<1>3. ASSUME LowerBound(k) PROVE Contract!LowerBound(k)
  <2>1. UNCHANGED <<heap, size>> /\ AnswerIterator("lower_bound", k) /\ it' = n
    BY <1>3 DEF LowerBound, n
  <2>2. /\ Contract!AnswerIterator("lower_bound", k)
        /\ [j \in Keys |-> ValueAt(j)]' = [j \in Keys |-> ValueAt(j)]
        /\ (IF it = NoNode THEN NoNode ELSE Path[it])' = KeyAt(Path, it')
    BY <1>0, <2>1, MoveInContract
  <2> QED BY <1>0, <1>2, <2>1, <2>2 DEF Contract!LowerBound
<1>4. ASSUME UpperBound(k) PROVE Contract!UpperBound(k)
  <2>1. /\ UNCHANGED <<heap, size>> /\ AnswerIterator("upper_bound", k) /\ ~Strict
        /\ it' = IF n = NoNode THEN NoNode ELSE NextValueNode(heap[n].next)
    BY <1>4 DEF UpperBound, AnswerIterator, Answer, n
  <2>2. it' \in WithValue \cup {NoNode}
    BY <1>0, <2>1, WalksReturnValues
  <2>3. /\ Contract!AnswerIterator("upper_bound", k)
        /\ [j \in Keys |-> ValueAt(j)]' = [j \in Keys |-> ValueAt(j)]
        /\ (IF it = NoNode THEN NoNode ELSE Path[it])' = KeyAt(Path, it')
    BY <1>0, <2>1, <2>2, MoveInContract
  <2>4. ASSUME n # NoNode
        PROVE  Contract!First(Contract!Keyed(Contract!After(Path[n]))) = KeyAt(Path, it')
    <3>1. n \in DOMAIN heap /\ it' = NextValueNode(heap[n].next)
      BY <1>0, <2>1, <2>4
    <3> QED BY <3>1, AfterIsNext
  <2>5. \A j \in StoredKeys(heap) : /\ KeyLess(j, k) <=> Precedes(j, k)
                                    /\ KeyLess(k, j) <=> Precedes(k, j)
                                    /\ j \in Paths /\ k \in Paths
    BY <1>0, <1>1, ValuesAreStored, PathsInOneOrder
  <2>6. CASE k \in StoredKeys(heap)
    <3>1. k \in S /\ \A j \in S : j = k \/ Precedes(k, j)
      BY <2>5, <2>6, PrecedesIrreflexive, PrecedesTotal DEF S
    <3>2. S \in SUBSET Keys
      BY <1>1 DEF S
    <3>3. KeyAt(Path, n) = k
      BY <1>0, <3>1, <3>2, FirstIs
    <3>4. n # NoNode /\ Path[n] = k
      BY <3>3, InContract DEF KeyAt
    <3> QED BY <2>3, <2>4, <3>4 DEF Contract!UpperBound
  <2>7. CASE k \notin StoredKeys(heap)
    <3>1. Contract!Keyed(Contract!After(k)) = S
      <4>1. Contract!Keyed(Contract!After(k)) = StoredKeys(heap) \cap {j \in Keys : KeyLess(k, j)}
        BY <1>0, ContractMeans
      <4>2. \A j \in StoredKeys(heap) : KeyLess(k, j) <=> ~KeyLess(j, k)
        BY <2>5, <2>7, PrecedesTotal, PrecedesAsymmetric
      <4> QED BY <1>1, <4>1, <4>2 DEF S
    <3>2. CASE n = NoNode
      BY <1>0, <2>1, <2>3, <3>1, <3>2 DEF Contract!UpperBound, KeyAt
    <3>3. CASE n # NoNode
      <4>1. Contract!First(S) = Path[n] /\ Path[n] # NoNode
        BY <1>0, <3>3, InContract DEF KeyAt
      <4> QED BY <1>0, <2>1, <2>3, <2>4, <2>7, <3>1, <3>3, <4>1 DEF Contract!UpperBound
    <3> QED BY <3>2, <3>3
  <2> QED BY <2>6, <2>7
<1> QED BY <1>3, <1>4

\* So do iteration and clear().
LEMMA IterationInContract ==
    ASSUME IsFiniteSet(Keys), OneOrder, RadixInv
    PROVE  /\ Begin => Contract!Begin
           /\ Increment => Contract!Increment
           /\ ~ClearAnyTree /\ Clear => Contract!Clear
<1>0. /\ RadixTree(heap, Path) /\ it \in DOMAIN heap \cup {NoNode} /\ NoNode \in Keys \cup {NoNode}
      /\ RootNode \in DOMAIN heap /\ Path[RootNode] = Root
      /\ StoredKeys(heap) \subseteq Keys /\ \A j \in StoredKeys(heap) : j \in Paths
  BY InContract, ValuesAreStored, WalksReturnValues DEF RadixTree, Tree
<1>1. ASSUME Begin PROVE Contract!Begin
  <2>1. UNCHANGED <<heap, size>> /\ AnswerIterator("begin", NoNode) /\ it' = NextValueNode(RootNode)
    BY <1>1 DEF Begin
  <2>2. it' \in WithValue \cup {NoNode}
    BY <1>0, <2>1, WalksReturnValues
  <2>3. /\ Contract!AnswerIterator("begin", NoNode)
        /\ [j \in Keys |-> ValueAt(j)]' = [j \in Keys |-> ValueAt(j)]
        /\ (IF it = NoNode THEN NoNode ELSE Path[it])' = KeyAt(Path, it')
    BY <1>0, <2>1, <2>2, MoveInContract
  <2>4. \A j \in StoredKeys(heap) : j = Path[RootNode] \/ Precedes(Path[RootNode], j)
    BY <1>0, RootIsFirst
  <2>5. Contract!Keyed(Keys) = StoredKeys(heap) \cap Keys
    BY <1>0, ContractMeans
  <2>6. Contract!Keyed(Keys)
           = {j \in StoredKeys(heap) : j = Path[RootNode] \/ Precedes(Path[RootNode], j)}
    BY <1>0, <2>4, <2>5
  <2>7. Contract!First(Contract!Keyed(Keys)) = KeyAt(Path, it')
    BY <1>0, <2>1, <2>6, NextValueIsFirst
  <2> QED BY <2>3, <2>7 DEF Contract!Begin
<1>2. ASSUME Increment PROVE Contract!Increment
  <2>1. /\ UNCHANGED <<heap, size>> /\ AnswerIterator("increment", NoNode)
        /\ it' = IF it = NoNode THEN NoNode ELSE NextValueNode(heap[it].next)
    BY <1>2 DEF Increment
  <2>2. it' \in WithValue \cup {NoNode}
    BY <1>0, <2>1, WalksReturnValues
  <2>3. /\ Contract!AnswerIterator("increment", NoNode)
        /\ [j \in Keys |-> ValueAt(j)]' = [j \in Keys |-> ValueAt(j)]
        /\ (IF it = NoNode THEN NoNode ELSE Path[it])' = KeyAt(Path, it')
    BY <1>0, <2>1, <2>2, MoveInContract
  <2>4. CASE it = NoNode
    BY <2>1, <2>3, <2>4 DEF Contract!Increment, KeyAt
  <2>5. CASE it # NoNode
    <3>1. it \in DOMAIN heap /\ it' = NextValueNode(heap[it].next)
      BY <1>0, <2>1, <2>5
    <3>2. Contract!First(Contract!Keyed(Contract!After(Path[it]))) = KeyAt(Path, it')
      BY <3>1, AfterIsNext
    <3>3. Path[it] # NoNode
      BY <3>1, InContract
    <3> QED BY <2>3, <2>5, <3>2, <3>3 DEF Contract!Increment
  <2> QED BY <2>4, <2>5
<1>3. ASSUME ~ClearAnyTree, Clear PROVE Contract!Clear
  <2>1. heap' = heap /\ Entries(heap) = {} /\ it' = NoNode
    BY <1>0, <1>3, ClearFindsNothing
  <2>2. [k \in Keys |-> ValueAt(k)]' = [k \in Keys |-> ValueAt(k)]
    BY <1>0, <2>1, SameMap
  <2>3. StoredKeys(heap) = {}
    BY <2>1 DEF StoredKeys
  <2>4. [k \in Keys |-> ValueAt(k)] = [k \in Keys |-> NoValue]
    BY <1>0, <2>3, ContractMeans DEF Contract!Has
  <2>5. Contract!AnswerIterator("clear", NoNode)
    BY <1>0, <1>3, <2>1, AnswersAreRecords DEF Clear, Contract!AnswerIterator, Contract!Answer
  <2> QED BY <2>1, <2>2, <2>4, <2>5 DEF Contract!Clear
<1> QED BY <1>1, <1>2, <1>3

\* LLRadixTree answers every call as an ordered map does, for every finite set of
\* keys of characters that compare like their bytes; an insertion may move an
\* iterator to a prefix of its key, no further.  What a client that does not call
\* upper_bound sees is std::map, but for that.
THEOREM RadixIsOrderedMap ==
    ASSUME IsFiniteSet(Keys), OneOrder, ~ClearAnyTree, ~StableIterators,
           Strict => "upper_bound" \notin Ops
    PROVE  Spec => ImplementsOrderedMap
<1>1. Init => Contract!Init
  <2> SUFFICES ASSUME Init PROVE Contract!Init
    OBVIOUS
  <2>1. RadixTree(heap, Path) /\ Entries(heap) = {}
    <3>1. RadixTree(heap, Path)
      BY RadixInit DEF RadixInv
    <3>2. \A n \in DOMAIN heap : heap[n].value = NoValue
      BY DEF Init, Node
    <3> QED BY <3>1, <3>2 DEF Entries
  <2>2. StoredKeys(heap) = {}
    BY <2>1 DEF StoredKeys
  <2>3. [k \in Keys |-> ValueAt(k)] = [k \in Keys |-> NoValue]
    BY <2>1, <2>2, ContractMeans DEF Contract!Has
  <2> QED BY <2>3 DEF Init, Contract!Init
<1>2. RadixInv /\ [Next]_vars => [Contract!Next]_(Contract!vars)
  <2> SUFFICES ASSUME RadixInv, [Next]_vars PROVE [Contract!Next]_(Contract!vars)
    OBVIOUS
  <2>1. CASE UNCHANGED vars
    <3>1. heap' = heap /\ it' = it /\ ret' = ret
      BY <2>1 DEF vars
    <3>2. [k \in Keys |-> ValueAt(k)]' = [k \in Keys |-> ValueAt(k)] /\ Path' = Path
      BY <3>1, InContract, SameMap
    <3> QED BY <3>1, <3>2 DEF Contract!vars
  <2>2. ASSUME NEW k \in Keys, NEW v \in Values, Insert(k, v) \/ InsertOrAssign(k, v)
        PROVE  Contract!Next
    BY <2>2, InsertionInContract DEF Contract!Next
  <2>3. ASSUME NEW k \in Keys, Erase(k) \/ Find(k) \/ Count(k) PROVE Contract!Next
    BY <2>3, ErasureInContract, LookupInContract DEF Contract!Next
  <2>4. ASSUME NEW k \in Keys, LowerBound(k) \/ UpperBound(k) PROVE Contract!Next
    BY <2>4, BoundsInContract DEF Contract!Next
  <2>5. CASE EraseIterator \/ Begin \/ Increment \/ Clear
    BY <2>5, ErasureInContract, IterationInContract DEF Contract!Next
  <2> QED BY <2>1, <2>2, <2>3, <2>4, <2>5 DEF Next
<1> QED BY <1>1, <1>2, RadixAlways, PTL DEF Spec, ImplementsOrderedMap, Contract!Spec
=============================================================================

--------------------------- MODULE KeyOrderProofs ---------------------------
(* Facts about paths and their order. *)
EXTENDS KeyOrder, WellFoundedInduction, TLAPS

\* The root is on the way to every key.
LEMMA RootIsOnPath ==
    ASSUME NEW S, NEW k \in Seq(S)
    PROVE  Root \in PathsTo(k)
<1>1. SubSeq(k, 1, 0) = << >>
  OBVIOUS
<1>2. 0 \in 0..Len(k)
  OBVIOUS
<1> QED BY <1>1, <1>2 DEF PathsTo, Root

\* A path is a sequence, no longer than the key.
LEMMA PathIsSequence ==
    ASSUME NEW S, NEW k \in Seq(S), NEW p \in PathsTo(k)
    PROVE  /\ p \in Seq(S)
           /\ Len(p) <= Len(k)
           /\ \A i \in 1..Len(p) : p[i] = k[i]
<1>1. PICK i \in 0..Len(k) : p = SubSeq(k, 1, i)
  BY DEF PathsTo
<1>2. Len(p) = i /\ p \in Seq(S)
  BY <1>1
<1>3. \A j \in 1..Len(p) : p[j] = k[j]
  BY <1>1, <1>2
<1> QED BY <1>2, <1>3

\* A path that has not reached the key goes on with the key's next character.
LEMMA PathExtends ==
    ASSUME NEW S, NEW k \in Seq(S), NEW p \in PathsTo(k), Len(p) < Len(k)
    PROVE  Append(p, k[Len(p) + 1]) \in PathsTo(k)
<1>1. PICK i \in 0..Len(k) : p = SubSeq(k, 1, i)
  BY DEF PathsTo
<1>2. Len(p) = i /\ p \in Seq(S)
  BY <1>1
<1> DEFINE q == SubSeq(k, 1, i + 1)
           r == Append(p, k[i + 1])
<1>3. i + 1 \in 0..Len(k) /\ k[i + 1] \in S
  BY <1>2
<1>4. q \in Seq(S) /\ Len(q) = i + 1 /\ \A j \in 1..(i + 1) : q[j] = k[j]
  BY <1>3
<1>5. r \in Seq(S) /\ Len(r) = i + 1 /\ \A j \in 1..(i + 1) : r[j] = k[j]
  BY <1>1, <1>2, <1>3
<1>6. q = r
  BY <1>4, <1>5
<1> QED BY <1>2, <1>3, <1>6 DEF PathsTo

-----------------------------------------------------------------------------
(* Natural numbers: induction and recursion up to a bound, on sets *)

\* Every non-empty set of natural numbers has a least element.
LEMMA LeastNatural ==
    ASSUME NEW T \in SUBSET Nat, T # {}
    PROVE  \E x \in T : \A y \in T : x <= y
<1> DEFINE R == {ss \in Nat \X Nat : ss[1] < ss[2]}
<1>1. R = OpToRel(<, Nat)
  BY Zenon DEF OpToRel
<1>2. IsWellFoundedOn(R, Nat)
  BY <1>1, NatLessThanWellFounded, Zenon
<1>3. \E x \in T : \A y \in T : ~ (<<y, x>> \in R)
  <2> HIDE DEF R
  <2> QED BY <1>2, WFMin
<1>4. PICK x \in T : \A y \in T : ~ (<<y, x>> \in R)
  BY <1>3
<1>5. ASSUME NEW y \in T PROVE x <= y
  <2>1. <<y, x>> \in R <=> y < x
    OBVIOUS
  <2> QED BY <1>4, <2>1
<1> QED BY <1>5

\* What holds of 0 and of a number's successor holds up to N.
LEMMA UpTo ==
    ASSUME NEW N \in Nat, NEW S, 0 \in S, \A i \in 1..N : i - 1 \in S => i \in S
    PROVE  \A i \in 0..N : i \in S
<1> DEFINE T == {i \in 0..N : i \notin S}
<1> SUFFICES ASSUME T # {} PROVE FALSE
  OBVIOUS
<1>1. T \in SUBSET Nat
  OBVIOUS
<1>2. PICK x \in T : \A y \in T : x <= y
  <2> HIDE DEF T
  <2> QED BY <1>1, LeastNatural
<1>3. x \in 1..N
  BY <1>2
<1>4. x - 1 \in S
  <2>1. x - 1 \in 0..N /\ ~(x <= x - 1)
    BY <1>3
  <2> QED BY <1>2, <2>1
<1> QED BY <1>2, <1>3, <1>4

\* From every member of T[i - 1] the steps G[i] lead to one of T[i].
Continues(N, T, G) ==
    \A i \in 1..N : \A x \in T[i - 1] : \E y \in T[i] : <<x, y>> \in G[i]

\* f takes N of these steps, beginning with a.
Runs(f, N, a, T, G) ==
    /\ f[0] = a
    /\ \A i \in 0..N : f[i] \in T[i]
    /\ \A i \in 1..N : <<f[i - 1], f[i]>> \in G[i]

\* Steps that can always be continued make a sequence of N steps.
LEMMA Recursion ==
    ASSUME NEW N \in Nat, NEW X, NEW T \in [0..N -> SUBSET X], NEW a \in T[0],
           NEW G, Continues(N, T, G)
    PROVE  \E f \in [0..N -> X] : Runs(f, N, a, T, G)
<1> DEFINE Good(f, n) == Runs(f, n, a, T, G)
           S == {n \in 0..N : \E f \in [0..n -> X] : Good(f, n)}
<1>1. 0 \in S
  <2> DEFINE f == [i \in 0..0 |-> a]
  <2>1. f \in [0..0 -> X] /\ Good(f, 0)
    BY DEF Runs
  <2>2. \E g \in [0..0 -> X] : Good(g, 0)
    <3> HIDE DEF Good, f
    <3> QED BY <2>1, Zenon
  <2>3. 0 \in 0..N
    OBVIOUS
  <2> HIDE DEF Good
  <2> QED BY <2>2, <2>3, Zenon
<1>2. ASSUME NEW n \in 1..N, n - 1 \in S PROVE n \in S
  <2>1. PICK f \in [0..(n - 1) -> X] : Good(f, n - 1)
    BY <1>2
  <2>2. n - 1 \in 0..(n - 1) /\ n - 1 \in 0..N /\ n \in 0..N
    OBVIOUS
  <2>3. f[n - 1] \in T[n - 1]
    BY <2>1, <2>2 DEF Runs
  <2>4. PICK y \in T[n] : <<f[n - 1], y>> \in G[n]
    BY <2>3 DEF Continues
  <2> DEFINE g == [i \in 0..n |-> IF i = n THEN y ELSE f[i]]
  <2>5. g \in [0..n -> X]
    BY <2>2, <2>4
  <2>6. /\ g[n] = y /\ \A i \in 0..(n - 1) : g[i] = f[i] /\ i # n
    OBVIOUS
  <2> HIDE DEF g
  <2>7. g[0] = a
    BY <2>1, <2>6 DEF Runs
  <2>8. ASSUME NEW i \in 0..n PROVE g[i] \in T[i]
    BY <2>1, <2>4, <2>6 DEF Runs
  <2>9. ASSUME NEW i \in 1..n PROVE <<g[i - 1], g[i]>> \in G[i]
    <3>1. CASE i = n
      BY <2>2, <2>4, <2>6, <3>1
    <3>2. CASE i \in 1..(n - 1)
      BY <2>1, <2>6, <3>2 DEF Runs
    <3> QED BY <3>1, <3>2
  <2> QED BY <2>2, <2>5, <2>7, <2>8, <2>9 DEF Runs
<1>3. N \in S
  <2> HIDE DEF S
  <2> QED BY <1>1, <1>2, UpTo
<1> QED BY <1>3

-----------------------------------------------------------------------------
(* Precedes is a strict total order of the sequences of integers. *)

Paths == Seq(Int)

\* No path precedes itself.
LEMMA PrecedesIrreflexive ==
    ASSUME NEW p \in Paths
    PROVE  ~Precedes(p, p)
BY DEF Precedes, Paths

\* A path that precedes one that precedes a third precedes the third.
LEMMA PrecedesTransitive ==
    ASSUME NEW p \in Paths, NEW q \in Paths, NEW r \in Paths,
           Precedes(p, q), Precedes(q, r)
    PROVE  Precedes(p, r)
<1>0. /\ Len(p) \in Nat /\ Len(q) \in Nat /\ Len(r) \in Nat
      /\ \A i \in 1..Len(p) : p[i] \in Int
      /\ \A i \in 1..Len(q) : q[i] \in Int
      /\ \A i \in 1..Len(r) : r[i] \in Int
  BY DEF Paths
<1>1. CASE Len(p) < Len(q) /\ \A i \in 1..Len(p) : p[i] = q[i]
  <2>1. CASE Len(q) < Len(r) /\ \A i \in 1..Len(q) : q[i] = r[i]
    BY <1>0, <1>1, <2>1 DEF Precedes
  <2>2. ASSUME NEW j \in 1..Len(q), j <= Len(r), q[j] < r[j],
               \A i \in 1..(j - 1) : q[i] = r[i]
        PROVE  Precedes(p, r)
    <3>1. CASE j <= Len(p)
      BY <1>0, <1>1, <2>2, <3>1 DEF Precedes
    <3>2. CASE j > Len(p)
      BY <1>0, <1>1, <2>2, <3>2 DEF Precedes
    <3> QED BY <1>0, <3>1, <3>2
  <2> QED BY <1>0, <2>1, <2>2 DEF Precedes
<1>2. ASSUME NEW j \in 1..Len(p), j <= Len(q), p[j] < q[j],
             \A i \in 1..(j - 1) : p[i] = q[i]
      PROVE  Precedes(p, r)
  <2>1. CASE Len(q) < Len(r) /\ \A i \in 1..Len(q) : q[i] = r[i]
    <3>1. j <= Len(r) /\ p[j] < r[j] /\ \A i \in 1..(j - 1) : p[i] = r[i]
      BY <1>0, <1>2, <2>1
    <3> QED BY <1>0, <3>1 DEF Precedes
  <2>2. ASSUME NEW l \in 1..Len(q), l <= Len(r), q[l] < r[l],
               \A i \in 1..(l - 1) : q[i] = r[i]
        PROVE  Precedes(p, r)
    <3>1. CASE j < l
      <4>1. j <= Len(r) /\ p[j] < r[j] /\ \A i \in 1..(j - 1) : p[i] = r[i]
        BY <1>0, <1>2, <2>2, <3>1
      <4> QED BY <1>0, <4>1 DEF Precedes
    <3>2. CASE j = l
      <4>1. p[j] < r[j]
        BY <1>0, <1>2, <2>2, <3>2
      <4> QED BY <1>0, <1>2, <2>2, <3>2, <4>1 DEF Precedes
    <3>3. CASE j > l
      <4>1. l \in 1..Len(p) /\ p[l] < r[l] /\ \A i \in 1..(l - 1) : p[i] = r[i]
        BY <1>0, <1>2, <2>2, <3>3
      <4> QED BY <1>0, <2>2, <4>1 DEF Precedes
    <3> QED BY <1>0, <3>1, <3>2, <3>3
  <2> QED BY <1>0, <2>1, <2>2 DEF Precedes
<1> QED BY <1>0, <1>1, <1>2 DEF Precedes

\* Two paths do not precede each other.
LEMMA PrecedesAsymmetric ==
    ASSUME NEW p \in Paths, NEW q \in Paths, Precedes(p, q)
    PROVE  ~Precedes(q, p)
BY PrecedesIrreflexive, PrecedesTransitive

\* Of two different paths one precedes the other.
LEMMA PrecedesTotal ==
    ASSUME NEW p \in Paths, NEW q \in Paths, p # q
    PROVE  Precedes(p, q) \/ Precedes(q, p)
<1>0. Len(p) \in Nat /\ Len(q) \in Nat
      /\ (\A i \in 1..Len(p) : p[i] \in Int) /\ (\A i \in 1..Len(q) : q[i] \in Int)
  BY DEF Paths
<1>1. CASE \A i \in 1..Len(p) : i <= Len(q) => p[i] = q[i]
  <2>1. CASE Len(p) = Len(q)
    <3>1. /\ DOMAIN p = 1..Len(p) /\ p = [i \in 1..Len(p) |-> p[i]]
          /\ DOMAIN q = 1..Len(q) /\ q = [i \in 1..Len(q) |-> q[i]]
      BY DEF Paths
    <3>2. \A i \in 1..Len(p) : p[i] = q[i]
      BY <1>0, <1>1, <2>1
    <3> HIDE DEF Precedes
    <3>3. p = q
      BY <2>1, <3>1, <3>2
    <3> QED BY <3>3
  <2>2. CASE Len(p) < Len(q)
    BY <1>0, <1>1, <2>2 DEF Precedes
  <2>3. CASE Len(q) < Len(p)
    BY <1>0, <1>1, <2>3 DEF Precedes
  <2> QED BY <1>0, <2>1, <2>2, <2>3
<1>2. ASSUME NEW d \in 1..Len(p), d <= Len(q), p[d] # q[d]
      PROVE  Precedes(p, q) \/ Precedes(q, p)
  <2> DEFINE D == {i \in 1..Len(p) : i <= Len(q) /\ p[i] # q[i]}
  <2>1. D \in SUBSET Nat /\ D # {}
    BY <1>0, <1>2
  <2>2. PICK j \in D : \A i \in D : j <= i
    <3> HIDE DEF D
    <3> QED BY <2>1, LeastNatural
  <2>3. \A i \in 1..(j - 1) : p[i] = q[i]
    BY <1>0, <2>2
  <2>4. p[j] < q[j] \/ q[j] < p[j]
    BY <1>0, <2>2
  <2> QED BY <1>0, <2>2, <2>3, <2>4 DEF Precedes
<1> QED BY <1>1, <1>2

\* A node precedes its descendants.
LEMMA PrefixPrecedes ==
    ASSUME NEW p \in Paths, NEW q \in Paths, IsPrefixOf(p, q), Len(p) < Len(q)
    PROVE  Precedes(p, q)
BY DEF Precedes, IsPrefixOf

\* An edge extends a path by one character.
LEMMA AppendPath ==
    ASSUME NEW p \in Paths, NEW c \in Int
    PROVE  /\ Append(p, c) \in Paths
           /\ Len(Append(p, c)) = Len(p) + 1
           /\ Append(p, c)[Len(p) + 1] = c
           /\ \A i \in 1..Len(p) : Append(p, c)[i] = p[i]
           /\ IsPrefixOf(p, Append(p, c))
           /\ Precedes(p, Append(p, c))
BY DEF Paths, IsPrefixOf, Precedes

\* A path between a node and its child by c is below the node, by a smaller
\* edge.
LEMMA BetweenNodeAndChild ==
    ASSUME NEW p \in Paths, NEW q \in Paths, NEW c \in Int,
           Precedes(p, q), Precedes(q, Append(p, c))
    PROVE  IsPrefixOf(p, q) /\ Len(p) < Len(q) /\ q[Len(p) + 1] < c
<1> DEFINE r == Append(p, c)
<1>1. r \in Paths /\ Len(r) = Len(p) + 1 /\ r[Len(p) + 1] = c
      /\ \A i \in 1..Len(p) : r[i] = p[i]
  BY AppendPath
<1>2. Precedes(q, r) /\ ~Precedes(r, q)
  BY <1>1, PrecedesAsymmetric
<1> HIDE DEF r
<1>0. Len(p) \in Nat /\ Len(q) \in Nat
      /\ (\A i \in 1..Len(p) : p[i] \in Int) /\ (\A i \in 1..Len(q) : q[i] \in Int)
  BY DEF Paths
<1>3. Len(p) < Len(q) /\ \A i \in 1..Len(p) : p[i] = q[i]
  <2>1. ASSUME NEW j \in 1..Len(p), j <= Len(q), p[j] < q[j],
               \A i \in 1..(j - 1) : p[i] = q[i]
        PROVE  FALSE
    <3>1. j \in 1..Len(r) /\ r[j] < q[j] /\ \A i \in 1..(j - 1) : r[i] = q[i]
      BY <1>0, <1>1, <2>1
    <3> QED BY <1>2, <2>1, <3>1 DEF Precedes
  <2> QED BY <2>1 DEF Precedes
<1>4. q[Len(p) + 1] < c
  <2>1. ~(Len(q) < Len(r))
    BY <1>0, <1>1, <1>3
  <2>2. PICK j \in 1..Len(q) : j <= Len(r) /\ q[j] < r[j]
    BY <1>2, <2>1 DEF Precedes
  <2>3. j <= Len(p) => q[j] = r[j]
    BY <1>0, <1>1, <1>3
  <2>4. q[j] \in Int
    BY <1>0
  <2>5. j = Len(p) + 1
    BY <1>0, <1>1, <2>2, <2>3, <2>4
  <2> QED BY <1>1, <2>2, <2>5
<1> QED BY <1>3, <1>4 DEF IsPrefixOf

\* Below one node, smaller edges come first.
LEMMA SmallerEdgeFirst ==
    ASSUME NEW p \in Paths, NEW q \in Paths, NEW r \in Paths,
           IsPrefixOf(p, q), Len(p) < Len(q),
           IsPrefixOf(p, r), Len(p) < Len(r),
           q[Len(p) + 1] < r[Len(p) + 1]
    PROVE  Precedes(q, r)
<1> DEFINE j == Len(p) + 1
<1>1. j \in 1..Len(q) /\ j <= Len(r) /\ \A i \in 1..(j - 1) : q[i] = r[i]
  BY DEF IsPrefixOf, Paths
<1> QED BY <1>1 DEF Precedes
-----------------------------------------------------------------------------
(* Ancestors and edges *)

\* An edge determines its two ends.
LEMMA AppendInjective ==
    ASSUME NEW p \in Paths, NEW q \in Paths, NEW c \in Int, NEW d \in Int,
           Append(p, c) = Append(q, d)
    PROVE  p = q /\ c = d
<1>1. /\ Len(Append(p, c)) = Len(p) + 1 /\ Append(p, c)[Len(p) + 1] = c
      /\ \A i \in 1..Len(p) : Append(p, c)[i] = p[i]
      /\ Len(Append(q, d)) = Len(q) + 1 /\ Append(q, d)[Len(q) + 1] = d
      /\ \A i \in 1..Len(q) : Append(q, d)[i] = q[i]
  BY AppendPath
<1>2. Len(p) = Len(q) /\ c = d
  BY <1>1 DEF Paths
<1>3. \A i \in 1..Len(p) : p[i] = q[i]
  BY <1>1, <1>2
<1>4. p = q
  BY <1>2, <1>3 DEF Paths
<1> QED BY <1>2, <1>4

\* Ancestors are ordered.
LEMMA PrefixTransitive ==
    ASSUME NEW p \in Paths, NEW q \in Paths, NEW r \in Paths,
           IsPrefixOf(p, q), IsPrefixOf(q, r)
    PROVE  IsPrefixOf(p, r)
BY DEF IsPrefixOf, Paths

\* An ancestor of the same length is the path itself.
LEMMA PrefixSameLength ==
    ASSUME NEW p \in Paths, NEW q \in Paths, IsPrefixOf(p, q), Len(p) >= Len(q)
    PROVE  p = q
<1>1. Len(p) = Len(q) /\ \A i \in 1..Len(p) : p[i] = q[i]
  BY DEF IsPrefixOf, Paths
<1>2. /\ p = [i \in 1..Len(p) |-> p[i]]
      /\ q = [i \in 1..Len(q) |-> q[i]]
  BY DEF Paths
<1> QED BY <1>1, <1>2

\* The ancestors of a child are the child and the ancestors of its parent.
LEMMA PrefixOfChild ==
    ASSUME NEW p \in Paths, NEW q \in Paths, NEW c \in Int,
           IsPrefixOf(p, Append(q, c)), Len(p) <= Len(q)
    PROVE  IsPrefixOf(p, q)
<1>1. Len(Append(q, c)) = Len(q) + 1 /\ \A i \in 1..Len(q) : Append(q, c)[i] = q[i]
  BY AppendPath
<1> QED BY <1>1 DEF IsPrefixOf, Paths

\* The root is above every path, and comes first.
LEMMA RootIsFirst ==
    ASSUME NEW p \in Paths
    PROVE  /\ IsPrefixOf(Root, p)
           /\ p = Root \/ Precedes(Root, p)
           /\ IsPrefixOf(p, Root) => p = Root
<1>1. Root \in Paths /\ Len(Root) = 0 /\ Len(p) \in Nat
  BY DEF Root, Paths
<1>2. IsPrefixOf(Root, p)
  BY <1>1 DEF IsPrefixOf
<1>3. Len(p) = 0 => p = Root
  BY <1>1, <1>2, PrefixSameLength
<1> QED BY <1>1, <1>2, <1>3, PrefixPrecedes DEF IsPrefixOf

\* The child of p by c is an ancestor of the paths below p by the edge c.
LEMMA ChildIsPrefix ==
    ASSUME NEW p \in Paths, NEW q \in Paths, NEW c \in Int,
           IsPrefixOf(p, q), Len(p) < Len(q), q[Len(p) + 1] = c
    PROVE  IsPrefixOf(Append(p, c), q)
<1>1. /\ Len(Append(p, c)) = Len(p) + 1 /\ Append(p, c)[Len(p) + 1] = c
      /\ \A i \in 1..Len(p) : Append(p, c)[i] = p[i]
  BY AppendPath
<1> QED BY <1>1 DEF IsPrefixOf, Paths

\* A path before a child is before the parent, or below it.
LEMMA BeforeChild ==
    ASSUME NEW p \in Paths, NEW q \in Paths, NEW c \in Int,
           Precedes(p, Append(q, c))
    PROVE  Precedes(p, q) \/ IsPrefixOf(q, p)
<1> DEFINE r == Append(q, c)
<1>1. Len(r) = Len(q) + 1 /\ \A i \in 1..Len(q) : r[i] = q[i]
  BY AppendPath
<1> HIDE DEF r
<1>2. CASE Len(p) < Len(r) /\ \A i \in 1..Len(p) : p[i] = r[i]
  <2>1. Len(p) <= Len(q) /\ \A i \in 1..Len(p) : p[i] = q[i]
    BY <1>1, <1>2 DEF Paths
  <2>2. CASE Len(p) < Len(q)
    BY <2>1, <2>2 DEF Precedes
  <2>3. CASE Len(p) = Len(q)
    BY <2>1, <2>3 DEF IsPrefixOf
  <2> QED BY <2>1, <2>2, <2>3 DEF Paths
<1>3. ASSUME NEW j \in 1..Len(p), j <= Len(r), p[j] < r[j],
             \A i \in 1..(j - 1) : p[i] = r[i]
      PROVE  Precedes(p, q) \/ IsPrefixOf(q, p)
  <2>1. CASE j <= Len(q)
    BY <1>1, <1>3, <2>1 DEF Precedes, Paths
  <2>2. CASE j = Len(q) + 1
    BY <1>1, <1>3, <2>2 DEF IsPrefixOf, Paths
  <2> QED BY <1>1, <1>3, <2>1, <2>2 DEF Paths
<1>4. Precedes(p, r)
  BY DEF r
<1> QED BY <1>2, <1>3, <1>4 DEF Precedes

\* A path below one of two siblings comes before the other when its edge does.
LEMMA ChildPrecedesBelow ==
    ASSUME NEW p \in Paths, NEW q \in Paths, NEW c \in Int,
           IsPrefixOf(p, q), Len(p) < Len(q)
    PROVE  /\ q[Len(p) + 1] < c => Precedes(q, Append(p, c))
           /\ c < q[Len(p) + 1] => Precedes(Append(p, c), q)
<1>1. /\ Append(p, c) \in Paths /\ Len(Append(p, c)) = Len(p) + 1
      /\ Append(p, c)[Len(p) + 1] = c /\ IsPrefixOf(p, Append(p, c))
  BY AppendPath
<1>2. Len(p) < Len(p) + 1
  BY DEF Paths
<1> QED BY <1>1, <1>2, SmallerEdgeFirst

\* What follows a path without being below it follows the path's children.
LEMMA ChildPrecedesAside ==
    ASSUME NEW p \in Paths, NEW q \in Paths, NEW c \in Int,
           Precedes(p, q), ~IsPrefixOf(p, q)
    PROVE  Precedes(Append(p, c), q)
<1>1. Append(p, c) \in Paths /\ IsPrefixOf(p, Append(p, c))
  BY AppendPath
<1>2. Append(p, c) # q
  BY <1>1
<1>3. ~Precedes(q, Append(p, c))
  BY BetweenNodeAndChild
<1> QED BY <1>1, <1>2, <1>3, PrecedesTotal

\* What follows such a path is not below p either.
LEMMA AsideStaysAside ==
    ASSUME NEW p \in Paths, NEW q \in Paths, NEW r \in Paths,
           Precedes(p, q), ~IsPrefixOf(p, q), Precedes(q, r)
    PROVE  ~IsPrefixOf(p, r)
<1> SUFFICES ASSUME IsPrefixOf(p, r) PROVE FALSE
  OBVIOUS
<1>1. PICK j \in 1..Len(p) : j <= Len(q) /\ p[j] < q[j] /\ \A i \in 1..(j - 1) : p[i] = q[i]
  BY DEF Precedes, IsPrefixOf, Paths
<1>2. Len(p) \in Nat /\ Len(r) \in Nat /\ Len(p) <= Len(r) /\ \A i \in 1..Len(p) : p[i] = r[i]
  BY DEF IsPrefixOf, Paths
<1>3. j \in 1..Len(r) /\ r[j] < q[j] /\ \A i \in 1..(j - 1) : r[i] = q[i]
  BY <1>1, <1>2
<1>4. Precedes(r, q)
  BY <1>1, <1>3 DEF Precedes
<1> QED BY <1>4, PrecedesAsymmetric

\* The first i characters of a path.
LEMMA SubSeqPath ==
    ASSUME NEW n \in Paths, NEW i \in 0..Len(n)
    PROVE  /\ SubSeq(n, 1, i) \in Paths
           /\ Len(SubSeq(n, 1, i)) = i
           /\ \A j \in 1..i : SubSeq(n, 1, i)[j] = n[j]
<1>1. i <= Len(n) /\ i \in Nat /\ n \in Seq(Int)
  BY DEF Paths
<1>2. SubSeq(n, 1, i) \in Seq(Int) /\ Len(SubSeq(n, 1, i)) = i
  BY <1>1
<1>3. \A j \in 1..i : SubSeq(n, 1, i)[j] = n[j]
  BY <1>1
<1> QED BY <1>2, <1>3 DEF Paths

-----------------------------------------------------------------------------
(* The order of std::string *)

\* A sequence of integers is a path.
LEMMA SequencesArePaths ==
    ASSUME NEW S \in SUBSET Int, NEW p \in Seq(S)
    PROVE  p \in Paths /\ Len(p) \in Nat /\ \A i \in 1..Len(p) : p[i] \in S
<1>1. /\ Len(p) \in Nat /\ p = [i \in 1..Len(p) |-> p[i]]
      /\ \A i \in 1..Len(p) : p[i] \in S
  OBVIOUS
<1>2. p \in [1..Len(p) -> Int]
  BY <1>1
<1> QED BY <1>1, <1>2 DEF Paths

\* The bytes of a path.
LEMMA BytesArePath ==
    ASSUME NEW p \in Paths
    PROVE  /\ Bytes(p) \in Paths
           /\ Len(Bytes(p)) = Len(p)
           /\ \A i \in 1..Len(p) : Bytes(p)[i] = p[i] % 256
<1>1. Len(p) \in Nat /\ \A i \in 1..Len(p) : p[i] % 256 \in Int
  BY DEF Paths
<1> QED BY <1>1 DEF Bytes, Paths

\* A char is known from its byte.
LEMMA CharOfByte == \A c, d \in -128..127 : c % 256 = d % 256 => c = d
BY SMT

\* Different keys have different bytes, so one of them is less.
LEMMA KeyLessTotal ==
    ASSUME NEW p \in Seq(-128..127), NEW q \in Seq(-128..127), p # q
    PROVE  KeyLess(p, q) \/ KeyLess(q, p)
<1>0. -128..127 \in SUBSET Int
  OBVIOUS
<1>1. /\ p \in Paths /\ Len(p) \in Nat /\ \A i \in 1..Len(p) : p[i] \in -128..127
      /\ q \in Paths /\ Len(q) \in Nat /\ \A i \in 1..Len(q) : q[i] \in -128..127
  BY <1>0, SequencesArePaths
<1>2. Bytes(p) # Bytes(q)
  <2>1. SUFFICES ASSUME Bytes(p) = Bytes(q) PROVE p = q
    BY p # q
  <2>2. Len(p) = Len(q) /\ Len(p) \in Nat
    BY <1>1, <2>1, BytesArePath
  <2>3. ASSUME NEW i \in 1..Len(p) PROVE p[i] = q[i]
    <3>1. p[i] \in -128..127 /\ q[i] \in -128..127
      BY <1>1, <2>2
    <3>2. p[i] % 256 = q[i] % 256
      BY <1>1, <2>1, <2>2, BytesArePath
    <3> QED BY <3>1, <3>2, CharOfByte
  <2> QED BY <1>1, <2>2, <2>3
<1> QED BY <1>1, <1>2, BytesArePath, PrecedesTotal DEF KeyLess

\* Where characters compare like their bytes, the order of std::string is the
\* order of the tree.
LEMMA OrdersCoincide ==
    ASSUME NEW S \in SUBSET Int, \A c, d \in S : c < d => c % 256 < d % 256,
           NEW p \in Seq(S), NEW q \in Seq(S)
    PROVE  KeyLess(p, q) <=> Precedes(p, q)
<1>1. p \in Paths /\ q \in Paths
  BY SequencesArePaths
<1>2. Bytes(p) \in Paths /\ Bytes(q) \in Paths
  BY <1>1, BytesArePath
<1>3. ASSUME NEW a \in Seq(S), NEW b \in Seq(S), Precedes(a, b)
      PROVE  KeyLess(a, b)
  <2>0. /\ a \in Paths /\ b \in Paths /\ Len(a) \in Nat /\ Len(b) \in Nat
        /\ (\A i \in 1..Len(a) : a[i] \in S) /\ (\A i \in 1..Len(b) : b[i] \in S)
        /\ Len(Bytes(a)) = Len(a) /\ Len(Bytes(b)) = Len(b)
        /\ \A i \in 1..Len(a) : Bytes(a)[i] = a[i] % 256
        /\ \A i \in 1..Len(b) : Bytes(b)[i] = b[i] % 256
    BY SequencesArePaths, BytesArePath
  <2>1. CASE Len(a) < Len(b) /\ \A i \in 1..Len(a) : a[i] = b[i]
    <3>1. Len(Bytes(a)) < Len(Bytes(b)) /\ \A i \in 1..Len(a) : Bytes(a)[i] = Bytes(b)[i]
      BY <2>0, <2>1
    <3> QED BY <2>0, <3>1 DEF KeyLess, Precedes
  <2>2. ASSUME NEW j \in 1..Len(a), j <= Len(b), a[j] < b[j],
               \A i \in 1..(j - 1) : a[i] = b[i]
        PROVE  KeyLess(a, b)
    <3>0. a[j] \in S /\ b[j] \in S
      BY <2>0, <2>2
    <3>1. a[j] % 256 < b[j] % 256
      BY <2>2, <3>0
    <3>2. /\ j \in 1..Len(Bytes(a)) /\ j <= Len(Bytes(b)) /\ Bytes(a)[j] < Bytes(b)[j]
          /\ \A i \in 1..(j - 1) : Bytes(a)[i] = Bytes(b)[i]
      BY <2>0, <2>2, <3>1
    <3> QED BY <3>2 DEF KeyLess, Precedes
  <2> QED BY <1>3, <2>0, <2>1, <2>2 DEF Precedes
<1>4. ASSUME KeyLess(p, q), ~Precedes(p, q) PROVE FALSE
  <2>1. p = q \/ KeyLess(q, p)
    BY <1>1, <1>3, <1>4, PrecedesTotal
  <2> QED BY <1>2, <1>4, <2>1, PrecedesIrreflexive, PrecedesAsymmetric DEF KeyLess
<1> QED BY <1>3, <1>4
=============================================================================

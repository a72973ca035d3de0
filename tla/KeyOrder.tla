------------------------------ MODULE KeyOrder ------------------------------
(***************************************************************************)
(* Keys, trie paths and their two orders.                                  *)
(*                                                                         *)
(* A character is the value of a C++ `char` (-128..127 where char is       *)
(* signed) and a key is a sequence of characters.  A node of the tries is  *)
(* named by its path: the characters on the edges from the root to it.     *)
(* The path of the root is the empty sequence.                             *)
(*                                                                         *)
(* Two orders meet in the code: the edges of a node are sorted by          *)
(* std::map<char, ...>, i.e. by the signed value of a char, while `label   *)
(* >= k` is std::string's order, which compares bytes as unsigned char.    *)
(***************************************************************************)
EXTENDS Integers, Sequences

Root == << >>

\* p is an ancestor of q in the trie, or q itself.
IsPrefixOf(p, q) ==
    /\ Len(p) <= Len(q)
    /\ \A i \in 1..Len(p) : p[i] = q[i]

\* The order in which a depth-first walk along sorted edges meets the nodes:
\* an ancestor before its descendants, then by the first different edge.
Precedes(p, q) ==
    \/ /\ Len(p) < Len(q)
       /\ \A i \in 1..Len(p) : p[i] = q[i]
    \/ \E j \in 1..Len(p) :
          /\ j <= Len(q)
          /\ p[j] < q[j]
          /\ \A i \in 1..(j - 1) : p[i] = q[i]

\* static_cast<unsigned char> of every character.
Bytes(k) == [i \in 1..Len(k) |-> k[i] % 256]

\* std::string's operator<.
KeyLess(j, k) == Precedes(Bytes(j), Bytes(k))

\* The nodes on the way from the root to key k.
PathsTo(k) == {SubSeq(k, 1, i) : i \in 0..Len(k)}

-----------------------------------------------------------------------------
(***************************************************************************)
(* std::map<char, Node *>: the edges of a node are a set S of characters.  *)
(***************************************************************************)

\* S.lower_bound(c) is the edge u.
IsLowerBound(S, c, u) == u \in S /\ u >= c /\ \A d \in S : d >= c => u <= d

\* The iterator one before S.lower_bound(c) is the edge d.
IsPredecessor(S, c, d) == d \in S /\ d < c /\ \A e \in S : e < c => e <= d

\* std::prev(S.end()) is the edge d.
IsLast(S, d) == d \in S /\ \A e \in S : e <= d
=============================================================================

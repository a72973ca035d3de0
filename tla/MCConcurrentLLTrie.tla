------------------------- MODULE MCConcurrentLLTrie -------------------------
(* Instances of ConcurrentLLTrie for TLC. *)
EXTENDS ConcurrentInvariant, ConcurrentAtomicity, TLC

Symmetry == Permutations(Threads) \cup Permutations(Values)

\* One key two levels deep, and two siblings of its subtree.
SmallChars == {1, 2, 3}
SmallKeys  == {<<1, 1>>, <<2>>, <<3>>}

\* Two leaves with a common parent, and two siblings of the parent.
FourKeys == {<<1, 1>>, <<1, 2>>, <<2>>, <<3>>}

\* The same and the empty key, which is stored at the root.
FiveKeys == FourKeys \cup {Root}

\* One key is a prefix of another.
TwoChars   == {1, 2}
PrefixKeys  == {<<1>>, <<1, 2>>, <<2>>}

\* The node after the first key on the list is an inner node, <<2>>.
InnerKeys == {<<1>>, <<2, 1>>}

Writers    == {"insert", "erase"}
PointOps   == {"insert", "insert_or_assign", "erase", "find", "upper_bound"}
CountedOps == AllOps \ {"insert_or_assign"}
=============================================================================

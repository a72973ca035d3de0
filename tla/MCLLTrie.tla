------------------------------ MODULE MCLLTrie ------------------------------
(* Instances of LLTrie for TLC. *)
EXTENDS LLTrie, TLC

Symmetry == Permutations(Values)

\* No action reads ret; TLC compares the steps to it, not the states.
WithoutAnswer == <<trie, it>>

SmallChars == {1, 2, 3}

\* The empty key, a key, two extensions of it, and two siblings.
SixKeys == {<< >>, <<1>>, <<1, 1>>, <<1, 2>>, <<2>>, <<3>>}

\* A key, an extension of it, and two siblings.
PrefixKeys == {<<1>>, <<1, 2>>, <<2>>, <<3>>}
=============================================================================

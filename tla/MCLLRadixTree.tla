--------------------------- MODULE MCLLRadixTree ---------------------------
(* Instances of LLRadixTree for TLC. *)
EXTENDS LLRadixTree

\* No action reads ret; TLC compares the steps to it, not the states.
WithoutAnswer == <<heap, size, it>>

SmallChars == {1, 2, 3}

\* Labels that are cut at every character, by a prefix or by a branch on either
\* side of the old one, with and without two more levels below; siblings to the
\* left, between and to the right.
SplitKeys == {<<1, 1>>, <<1, 2, 1>>, <<1, 2, 3>>, <<1, 2, 3, 1>>, <<1, 3>>}
=============================================================================

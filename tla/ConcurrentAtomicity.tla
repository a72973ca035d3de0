------------------------ MODULE ConcurrentAtomicity ------------------------
(***************************************************************************)
(* ConcurrentLLTrie implements AtomicMap.                                  *)
(*                                                                         *)
(* A call takes effect in the step that sets `ret`; from then on the nodes *)
(* that the thread's locals point to are the places it has pinned.         *)
(***************************************************************************)
EXTENDS ConcurrentLLTrie

\* The refinement mapping.
Stored  == [k \in Keys |-> value[k]]
Pending == [t \in Threads |-> IF ret[t] = "none" THEN op[t] ELSE NoOp]
Pinned  == [t \in Threads |->
              IF ret[t] = "none" THEN {} ELSE {cur[t], probe[t]} \ {NoNode}]

Atomic == INSTANCE AtomicMap WITH
    map <- Stored, call <- Pending, result <- ret, pinned <- Pinned

\* Every behaviour of the trie is one of the atomic map: insertion, erasure and
\* lookup are linearizable, a lookup that stops at a missing edge included; a
\* bound returns a key in range that is present; an iterator's value cannot
\* change under it, and iterators move forward only.
ImplementsAtomicMap == Atomic!Spec
=============================================================================

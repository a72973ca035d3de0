-------------------------- MODULE MCConcurrentScan --------------------------
(* Instances of ConcurrentScan for TLC. *)
EXTENDS ConcurrentScan, TLC

Symmetry == Permutations(Threads)

\* Two leaves with a common parent, and two siblings of the parent.
FourKeys   == {<<1, 1>>, <<1, 2>>, <<2>>, <<3>>}
SmallChars == {1, 2, 3}

ScanAndWrite == {"insert", "erase", "upper_bound"}
=============================================================================

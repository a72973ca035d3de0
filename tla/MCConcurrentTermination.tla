---------------------- MODULE MCConcurrentTermination ----------------------
(* Instances of ConcurrentTermination for TLC. *)
EXTENDS ConcurrentTermination, TLC

SmallChars == {1, 2, 3}
SmallKeys  == {<<1, 1>>, <<2>>, <<3>>}
=============================================================================

--------------------------- MODULE ConcurrentScan ---------------------------
(***************************************************************************)
(* What a scan of ConcurrentLLTrie sees while other threads insert and     *)
(* erase: every key that was there all along.                              *)
(*                                                                         *)
(* The trie is extended with one history variable.  owed[t] are the keys   *)
(* that thread t's scan still has to meet: for bounds and begin the keys   *)
(* in range when the call is made, for the other operations the keys after *)
(* the one the call returned an iterator to.  A key that is erased on the  *)
(* way is no longer owed, even if it is inserted again.                    *)
(***************************************************************************)
EXTENDS ConcurrentInvariant

VARIABLE owed

scanVars == <<vars, owed>>

ScanInit == Init /\ owed = [t \in Threads |-> {}]

\* The keys that a bound or begin must not miss.
RangeOf(o) ==
    CASE o.name = "lower_bound" -> {k \in Keys : ~KeyLess(k, o.key)}
      [] o.name = "upper_bound" -> {k \in Keys : KeyLess(o.key, k)}
      [] o.name \in {"begin", "shared_begin"} -> Keys
      [] OTHER -> {}

\* A call that looks for one key has just returned an iterator.
Reached(t) == pc[t] # "iter" /\ pc'[t] = "iter" /\ RangeOf(op[t]) = {}
              /\ pc[t] \in {"descend", "size_inc"}

Owed(t) ==
    IF pc'[t] = "idle" THEN {}
    ELSE IF pc[t] = "idle" THEN Present \cap RangeOf(op'[t])
    ELSE IF Reached(t) THEN {k \in Present : Precedes(cur'[t], k)}
    ELSE IF pc'[t] = "iter" THEN owed[t] \ {cur'[t]}
    ELSE owed[t]

ScanStep == Next /\ owed' = [t \in Threads |-> Owed(t) \cap Present']

ScanSpec == ScanInit /\ [][ScanStep]_scanVars

-----------------------------------------------------------------------------
\* Where the keys still owed are: in range until the call has found its place
\* on the list, then not behind the node it looks at, and ahead of the node it
\* has returned.  Inductive under Inv and CallInv.
OwedAhead ==
    \A t \in Threads : \A k \in owed[t] :
        /\ k \in Present
        /\ pc[t] \in Undecided => k \in RangeOf(op[t])
        /\ pc[t] \in {"scan_geq", "scan_value", "step_value"} => ~Precedes(k, cur[t])
        /\ pc[t] \in {"iter", "step", "ahead_first", "erase_it_dec", "erase_next"} =>
              Precedes(cur[t], k)
        /\ pc[t] \in {"ahead", "iter2"} => ~Precedes(k, probe[t])

-----------------------------------------------------------------------------
\* No key that was there all along is behind an iterator, nor between the two
\* iterators of next(): insertions beside the scan hide no part of the list.
NothingSkipped ==
    \A t \in Threads : pc[t] \in {"iter", "iter2"} =>
        \A k \in owed[t] :
            /\ ~Precedes(k, cur[t])
            /\ pc[t] = "iter2" => ~Precedes(k, probe[t])

\* A scan, a bound or next() returns end() only when no such key is left.
EndIsTheEnd ==
    [][\A t \in Threads : ScanEnd(t) \/ NextEnd(t) => owed[t] = {}]_scanVars

\* A scan never turns back: the node a thread is at only moves forward in key
\* order from the root until the call or the iterator ends.
CursorMovesForward ==
    [][\A t \in Threads :
          cur[t] # NoNode /\ cur'[t] \notin {NoNode, cur[t]} =>
             Precedes(cur[t], cur'[t])]_scanVars
=============================================================================

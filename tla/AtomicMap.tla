----------------------------- MODULE AtomicMap -----------------------------
(***************************************************************************)
(* What ConcurrentLLTrie promises its clients: a map whose operations take *)
(* effect in one step between call and return, and iterators that pin the  *)
(* place they are at.                                                      *)
(*                                                                         *)
(* A place is a string, key or not.  While a thread has pinned a key no    *)
(* other thread changes the key's value, so what the iterator refers to    *)
(* stays.  Iterators only move forward in key order.                       *)
(*                                                                         *)
(* Bounds and begin promise a key in range that is present when they       *)
(* return; which of them, and when they may return end(), is the subject   *)
(* of ConcurrentScan.                                                      *)
(***************************************************************************)
EXTENDS KeyOrder

CONSTANTS Threads, Keys, Values, Ops, NoValue, NoOp

VARIABLES
    map,      \* key -> value or NoValue
    call,     \* thread -> the call that has not taken effect yet, or NoOp
    result,   \* thread -> result of its last call, "none" until it took effect
    pinned    \* thread -> the places its iterators are at

vars == <<map, call, result, pinned>>

Requests == [name : Ops, key : Keys, val : Values \cup {NoValue}]

Init ==
    /\ map = [k \in Keys |-> NoValue]
    /\ call = [t \in Threads |-> NoOp]
    /\ result = [t \in Threads |-> "none"]
    /\ pinned = [t \in Threads |-> {}]

Invoke(t) ==
    /\ call[t] = NoOp
    /\ pinned[t] = {}
    /\ call' \in {[call EXCEPT ![t] = r] : r \in Requests}
    /\ result' = [result EXCEPT ![t] = "none"]
    /\ UNCHANGED <<map, pinned>>

Has(k) == map[k] # NoValue

\* Thread t gives k the value v; no other thread may have pinned k.
Put(t, k, v) ==
    /\ \A s \in Threads \ {t} : k \notin pinned[s]
    /\ map' = [map EXCEPT ![k] = v]

Effect(t, r, places) ==
    /\ call' = [call EXCEPT ![t] = NoOp]
    /\ result' = [result EXCEPT ![t] = r]
    /\ pinned' = [pinned EXCEPT ![t] = places]

Calls(t, names) == call[t] # NoOp /\ call[t].name \in names

Insert(t) ==
    /\ Calls(t, {"insert", "insert_or_assign"})
    /\ LET c == call[t] IN
       /\ IF Has(c.key) /\ c.name = "insert"
          THEN UNCHANGED map
          ELSE Put(t, c.key, c.val)
       /\ Effect(t, IF Has(c.key) THEN "no" ELSE "yes", {c.key})

Erase(t) ==
    /\ Calls(t, {"erase"})
    /\ LET k == call[t].key IN
       IF Has(k)
       THEN Put(t, k, NoValue) /\ Effect(t, "yes", {k})
       ELSE UNCHANGED map /\ Effect(t, "no", {})

Lookup(t) ==
    /\ Calls(t, {"find", "count", "at"})
    /\ LET c == call[t] IN
       Effect(t, IF Has(c.key) THEN "yes" ELSE "no",
              IF Has(c.key) /\ c.name = "find" THEN {c.key} ELSE {})
    /\ UNCHANGED map

InRange(c, k) ==
    CASE c.name = "lower_bound" -> ~KeyLess(k, c.key)
      [] c.name = "upper_bound" -> KeyLess(c.key, k)
      [] OTHER -> TRUE

First(t) ==
    /\ Calls(t, {"lower_bound", "upper_bound", "begin", "shared_begin"})
    /\ \/ Effect(t, "end", {})
       \/ \E k \in Keys : Has(k) /\ InRange(call[t], k) /\ Effect(t, "yes", {k})
    /\ UNCHANGED map

\* erase(it)
EraseAt(t) ==
    /\ call[t] = NoOp
    /\ \E k \in pinned[t] \cap Keys : Has(k) /\ Put(t, k, NoValue)
    /\ UNCHANGED <<call, result, pinned>>

\* Iterators are copied forward, moved forward or dropped.
Move(t) ==
    /\ call[t] = NoOp
    /\ pinned[t] # {}
    /\ \A p \in pinned'[t] \ pinned[t] : \A q \in pinned[t] : Precedes(q, p)
    /\ \A s \in Threads \ {t} :
          pinned'[s] = pinned[s] /\ result'[s] = result[s]
    /\ result'[t] \in {result[t], "yes"} \/ (result'[t] = "end" /\ pinned'[t] = {})
    /\ UNCHANGED <<map, call>>

Next ==
    \E t \in Threads :
        \/ Invoke(t) \/ Insert(t) \/ Erase(t) \/ Lookup(t) \/ First(t)
        \/ EraseAt(t) \/ Move(t)

Spec == Init /\ [][Next]_vars
=============================================================================

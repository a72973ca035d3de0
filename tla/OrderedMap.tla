----------------------------- MODULE OrderedMap -----------------------------
(***************************************************************************)
(* std::map<std::string, Value>, which the README names as the pattern the *)
(* trie and radix types follow: the contract of LLTrie and LLRadixTree     *)
(* towards a client that holds one iterator.                               *)
(*                                                                         *)
(* An iterator is the key it is at, End past the last one.  Going beyond   *)
(* std::map, an iterator whose key was erased may still be incremented.    *)
(* After an insertion the client takes the new iterator or keeps its own.  *)
(*                                                                         *)
(* Strict is std::map's contract.  Without it two answers about a key that *)
(* is absent are left open: upper_bound may skip a key, and at may return   *)
(* the value of a default-constructed ValueType.  StableIterators says     *)
(* that insertion leaves iterators where they are; otherwise it may move   *)
(* one to a prefix of its key.                                             *)
(***************************************************************************)
EXTENDS KeyOrder

CONSTANTS Keys, Values, Strict, StableIterators, NoValue, End, NoCall

VARIABLES
    map,    \* key -> value or NoValue
    it,     \* the client's iterator
    ret     \* the last call and its result

vars == <<map, it, ret>>

Has(k) == map[k] # NoValue

\* An iterator at the first key of S.
First(S) == IF S = {} THEN End ELSE CHOOSE j \in S : \A k \in S : ~KeyLess(k, j)

Keyed(P) == {k \in Keys : Has(k)} \cap P
After(k) == {j \in Keys : KeyLess(k, j)}
From(k)  == {j \in Keys : ~KeyLess(j, k)}

Init == map = [k \in Keys |-> NoValue] /\ it = End /\ ret = NoCall

\* The call and what it answers, a record; k is End when the call takes no key.
Answer(name, k, r) == ret'.call = name /\ ret'.key = k /\ ret'.result = r
AnswerIterator(name, k) == Answer(name, k, it')

YesNo(k) == IF Has(k) THEN "yes" ELSE "no"

TakesOrKeeps(k) ==
    \/ it' \in {k, it}
    \/ ~StableIterators /\ it # End /\ IsPrefixOf(it', it)

Insert(k, v) ==
    /\ Answer("insert", k, IF Has(k) THEN "no" ELSE "yes")
    /\ map' = IF Has(k) THEN map ELSE [map EXCEPT ![k] = v]
    /\ TakesOrKeeps(k)

InsertOrAssign(k, v) ==
    /\ Answer("insert_or_assign", k, IF Has(k) THEN "no" ELSE "yes")
    /\ map' = [map EXCEPT ![k] = v]
    /\ TakesOrKeeps(k)

Erase(k) ==
    /\ Answer("erase", k, YesNo(k))
    /\ map' = [map EXCEPT ![k] = NoValue]
    /\ UNCHANGED it

\* Erasing at an iterator without a key does nothing and yields end().
EraseIterator ==
    /\ AnswerIterator("erase_iterator", End)
    /\ IF it \in Keys /\ Has(it)
       THEN /\ map' = [map EXCEPT ![it] = NoValue]
            /\ it' = First(Keyed(After(it)))
       ELSE UNCHANGED map /\ it' = End

Find(k) ==
    /\ AnswerIterator("find", k)
    /\ it' = IF Has(k) THEN k ELSE End
    /\ UNCHANGED map

Count(k) == Answer("count", k, YesNo(k)) /\ UNCHANGED <<map, it>>

At(k) ==
    /\ \/ Answer("at", k, IF Has(k) THEN map[k] ELSE "throws")
       \/ ~Strict /\ ~Has(k) /\ Answer("at", k, NoValue)
    /\ UNCHANGED <<map, it>>

LowerBound(k) ==
    /\ AnswerIterator("lower_bound", k)
    /\ it' = First(Keyed(From(k)))
    /\ UNCHANGED map

UpperBound(k) ==
    /\ AnswerIterator("upper_bound", k)
    /\ \/ it' = First(Keyed(After(k)))
       \/ LET j == First(Keyed(After(k)))
          IN ~Strict /\ ~Has(k) /\ j # End /\ it' = First(Keyed(After(j)))
    /\ UNCHANGED map

Begin ==
    /\ AnswerIterator("begin", End)
    /\ it' = First(Keyed(Keys))
    /\ UNCHANGED map

Increment ==
    /\ AnswerIterator("increment", End)
    /\ IF it = End THEN it' = End ELSE it' = First(Keyed(After(it)))
    /\ UNCHANGED map

Clear ==
    /\ AnswerIterator("clear", End)
    /\ map' = [k \in Keys |-> NoValue]
    /\ it' = End

Next ==
    \/ \E k \in Keys :
          \/ \E v \in Values : Insert(k, v) \/ InsertOrAssign(k, v)
          \/ Erase(k) \/ Find(k) \/ Count(k) \/ At(k)
          \/ LowerBound(k) \/ UpperBound(k)
    \/ EraseIterator \/ Begin \/ Increment \/ Clear

Spec == Init /\ [][Next]_vars
=============================================================================

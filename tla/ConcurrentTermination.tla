----------------------- MODULE ConcurrentTermination -----------------------
(***************************************************************************)
(* Every call of ConcurrentLLTrie returns and every lock is given back,    *)
(* also when one thread calls clear().                                     *)
(*                                                                         *)
(* Fairness: a thread inside a call that can take a step takes it (the     *)
(* operating system schedules every thread, and a mutex that stays free    *)
(* is acquired), and the client unlocks its iterators in the end.  No      *)
(* fairness is assumed among threads that compete for a mutex; instead     *)
(* each thread makes at most MaxUses calls and iterator moves, because     *)
(* std::shared_mutex does not keep endlessly renewed readers from          *)
(* starving a writer.                                                      *)
(***************************************************************************)
EXTENDS ConcurrentClear

CONSTANT MaxUses    \* bound on the client's calls, per thread

ASSUME MaxUsesAssumption == MaxUses \in Nat

VARIABLE uses       \* thread -> calls and moves it may still make

liveVars == <<vars, clearVars, uses>>

LiveInit == ClearInit /\ uses = [t \in Threads |-> MaxUses]

Client(t) ==
    /\ uses[t] > 0
    /\ ClientStep(t) /\ KeepsOut
    /\ uses' = [uses EXCEPT ![t] = @ - 1]
    /\ UNCHANGED clearVars

Run(t) == Internal(t) /\ KeepsOut /\ UNCHANGED <<clearVars, uses>>

Drop(t) == DropIterator(t) /\ KeepsOut /\ UNCHANGED <<clearVars, uses>>

Clearing == ClearStep /\ UNCHANGED uses

LiveNext ==
    \/ \E t \in Threads : Client(t) \/ Run(t) \/ Drop(t)
    \/ ClearCall /\ UNCHANGED uses
    \/ Clearing

Fairness ==
    /\ \A t \in Threads : WF_liveVars(Run(t)) /\ WF_liveVars(Drop(t))
    /\ WF_liveVars(Clearing)

LiveSpec == LiveInit /\ [][LiveNext]_liveVars /\ Fairness

\* Whatever a thread is in the middle of, it comes to an end: a descent, a walk
\* to the rightmost node and a scan terminate although other threads extend
\* the trie in front of them, and nobody waits for a lock for ever.
EveryCallReturns ==
    \A t \in Threads : pc[t] # "idle" ~> pc[t] = "idle"

\* clear() returns, however many threads are inside: those it waits for do not
\* wait for it.
ClearReturns == stage = "lock" ~> stage = "after"
=============================================================================

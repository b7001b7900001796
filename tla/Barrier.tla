------------------------------- MODULE Barrier -------------------------------
(***************************************************************************)
(* What a caller of simple_barrier::barrier() relies on, with nothing of   *)
(* how it is done: a thread leaves its r-th barrier only after every       *)
(* thread of the group has entered its own r-th barrier.                   *)
(***************************************************************************)
EXTENDS Naturals

CONSTANTS Threads,   \* the threads that synchronise
          Rounds     \* bound: how many barriers each thread goes through

VARIABLES entered,   \* entered[t]: barriers thread t has entered
          left       \* left[t]: barriers thread t has left

vars == <<entered, left>>

TypeOK == /\ entered \in [Threads -> 0 .. Rounds]
          /\ left \in [Threads -> 0 .. Rounds]

Init == /\ entered = [t \in Threads |-> 0]
        /\ left = [t \in Threads |-> 0]

Enter(t) == /\ left[t] = entered[t]
            /\ entered[t] < Rounds
            /\ entered' = [entered EXCEPT ![t] = @ + 1]
            /\ UNCHANGED left

Leave(t) == /\ left[t] < entered[t]
            /\ \A u \in Threads : entered[t] <= entered[u]
            /\ left' = [left EXCEPT ![t] = @ + 1]
            /\ UNCHANGED entered

Step(t) == Enter(t) \/ Leave(t)

Next == \E t \in Threads : Step(t)

Spec == Init /\ [][Next]_vars

\* Every thread of the group calls the barrier the same number of times and
\* is scheduled: then every thread also leaves every barrier.
FairSpec == Spec /\ \A t \in Threads : WF_vars(Step(t))

(***************************************************************************)
(* A thread that left r barriers proves that every thread entered r of     *)
(* them: nobody is released early, however often the barrier is reused.    *)
(***************************************************************************)
NobodyEarly == \A t, u \in Threads : left[t] <= entered[u]
==============================================================================

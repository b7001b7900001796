---------------------------- MODULE SimpleBarrier ----------------------------
(***************************************************************************)
(* simple_barrier (cpu/cpu_barrier.hpp, cpu/cpu_barrier.cpp): the sense    *)
(* reversing spin barrier that generate() emits as x86 code and that the   *)
(* reducers, the batch normalizations and the backward-weights             *)
(* convolutions use to synchronise a group of threads.                     *)
(*                                                                         *)
(* One action is one memory access of the emitted code.  Plain stores go   *)
(* through the store buffer of the core that runs the thread (x86-TSO):    *)
(* the thread sees its own buffered stores at once, the others only after  *)
(* the buffer has been drained in order; the locked xadd is executed with  *)
(* an empty buffer.                                                        *)
(***************************************************************************)
EXTENDS Naturals, Sequences, FiniteSets

CONSTANTS Threads,   \* the threads that share the context (nthr of them)
          Rounds     \* bound: barriers each thread goes through

ASSUME ThreadsAssumption == IsFiniteSet(Threads) /\ Threads # {}
ASSUME RoundsAssumption == Rounds \in Nat

VARIABLES ctr,       \* ctx_t::ctr
          sense,     \* ctx_t::sense, 0 or ~0 (written 1 here)
          buf,       \* buf[t]: stores of t not yet visible to the others
          pc,        \* pc[t]: where thread t is in the emitted code
          saved,     \* saved[t]: the sense pushed on t's stack
          entered,   \* history: xadds (barriers entered) of thread t
          left       \* history: barriers left by thread t

vars == <<ctr, sense, buf, pc, saved, entered, left>>

NThr == Cardinality(Threads)

Store(a, v) == [at |-> a, val |-> v]
ResetStore == Store("ctr", 0)
Stores == {ResetStore} \cup { Store("sense", v) : v \in 0 .. 1 }

TypeOK == /\ ctr \in 0 .. NThr
          /\ sense \in 0 .. 1
          /\ buf \in [Threads -> Seq(Stores)]
          /\ pc \in [Threads -> {"out", "read", "xadd", "spin",
                                 "reset", "notify", "exit"}]
          /\ saved \in [Threads -> 0 .. 1]
          /\ entered \in [Threads -> 0 .. Rounds]
          /\ left \in [Threads -> 0 .. Rounds]

\* ctx_init() by one thread, before any of the threads calls barrier().
Init == /\ ctr = 0
        /\ sense = 0
        /\ buf = [t \in Threads |-> <<>>]
        /\ pc = [t \in Threads |-> "out"]
        /\ saved = [t \in Threads |-> 0]
        /\ entered = [t \in Threads |-> 0]
        /\ left = [t \in Threads |-> 0]

Goto(t, l) == pc' = [pc EXCEPT ![t] = l]

\* A load of sense by t: its own youngest buffered store, else the memory.
\* (The sense store is the last of the two stores a thread can buffer.)
SeenSense(t) ==
    IF buf[t] # <<>> /\ buf[t][Len(buf[t])].at = "sense"
    THEN buf[t][Len(buf[t])].val
    ELSE sense

\* A lone thread takes the early exit.
Call(t) ==
    /\ pc[t] = "out"
    /\ entered[t] < Rounds
    /\ IF NThr <= 1
       THEN /\ Goto(t, "exit")
            /\ entered' = [entered EXCEPT ![t] = @ + 1]
       ELSE /\ Goto(t, "read")
            /\ UNCHANGED entered
    /\ UNCHANGED <<ctr, sense, buf, saved, left>>

ReadSense(t) ==
    /\ pc[t] = "read"
    /\ saved' = [saved EXCEPT ![t] = SeenSense(t)]
    /\ Goto(t, "xadd")
    /\ UNCHANGED <<ctr, sense, buf, entered, left>>

\* Mutant: the thread that adds last but one already takes itself for the last.
EarlyXadd(t) ==
    /\ pc[t] = "xadd"
    /\ buf[t] = <<>>
    /\ ctr' = ctr + 1
    /\ entered' = [entered EXCEPT ![t] = @ + 1]
    /\ Goto(t, IF ctr + 2 = NThr THEN "reset" ELSE "spin")
    /\ UNCHANGED <<sense, buf, saved, left>>

Xadd(t) ==
    /\ pc[t] = "xadd"
    /\ buf[t] = <<>>
    /\ ctr' = ctr + 1
    /\ entered' = [entered EXCEPT ![t] = @ + 1]
    /\ Goto(t, IF ctr + 1 = NThr THEN "reset" ELSE "spin")
    /\ UNCHANGED <<sense, buf, saved, left>>

\* Mutant: the last thread does not reset the counter.
NoReset(t) ==
    /\ pc[t] = "reset"
    /\ Goto(t, "notify")
    /\ UNCHANGED <<ctr, sense, buf, saved, entered, left>>

Reset(t) ==
    /\ pc[t] = "reset"
    /\ buf' = [buf EXCEPT ![t] = Append(@, ResetStore)]
    /\ Goto(t, "notify")
    /\ UNCHANGED <<ctr, sense, saved, entered, left>>

\* Mutant: the new sense is stored ahead of the reset of the counter.
NotifyFirst(t) ==
    /\ pc[t] = "notify"
    /\ buf' = [buf EXCEPT ![t] = <<Store("sense", 1 - saved[t])>> \o @]
    /\ Goto(t, "exit")
    /\ UNCHANGED <<ctr, sense, saved, entered, left>>

\* Mutant: the saved sense is stored back without the not_().
NotifyNoFlip(t) ==
    /\ pc[t] = "notify"
    /\ buf' = [buf EXCEPT ![t] = Append(@, Store("sense", saved[t]))]
    /\ Goto(t, "exit")
    /\ UNCHANGED <<ctr, sense, saved, entered, left>>

Notify(t) ==
    /\ pc[t] = "notify"
    /\ buf' = [buf EXCEPT ![t] = Append(@, Store("sense", 1 - saved[t]))]
    /\ Goto(t, "exit")
    /\ UNCHANGED <<ctr, sense, saved, entered, left>>

\* A turn of the spin loop that does not end it.
SpinOn(t) ==
    /\ pc[t] = "spin"
    /\ SeenSense(t) = saved[t]
    /\ UNCHANGED vars

\* The spin loop ends.
Spin(t) ==
    /\ pc[t] = "spin"
    /\ SeenSense(t) # saved[t]
    /\ Goto(t, "exit")
    /\ UNCHANGED <<ctr, sense, buf, saved, entered, left>>

Exit(t) ==
    /\ pc[t] = "exit"
    /\ Goto(t, "out")
    /\ left' = [left EXCEPT ![t] = @ + 1]
    /\ UNCHANGED <<ctr, sense, buf, saved, entered>>

\* The core writes the oldest buffered store of t to memory.
Drain(t) ==
    /\ buf[t] # <<>>
    /\ LET s == Head(buf[t])
       IN  /\ ctr' = IF s.at = "ctr" THEN s.val ELSE ctr
           /\ sense' = IF s.at = "sense" THEN s.val ELSE sense
    /\ buf' = [buf EXCEPT ![t] = Tail(@)]
    /\ UNCHANGED <<pc, saved, entered, left>>

Code(t) == \/ Call(t) \/ ReadSense(t) \/ Xadd(t) \/ Reset(t)
           \/ Notify(t) \/ Spin(t) \/ Exit(t)

\* Every thread has gone through all its barriers.
Done == /\ \A t \in Threads : pc[t] = "out" /\ left[t] = Rounds
        /\ \A t \in Threads : buf[t] = <<>>
        /\ UNCHANGED vars

Next == (\E t \in Threads : Code(t) \/ SpinOn(t) \/ Drain(t)) \/ Done

Spec == Init /\ [][Next]_vars

(***************************************************************************)
(* The operating system runs every thread of the team (the loop spins with *)
(* pause and relies on it), and a store buffer is drained in finite time.  *)
(***************************************************************************)
FairSpec == Spec /\ \A t \in Threads : WF_vars(Code(t)) /\ WF_vars(Drain(t))

------------------------------------------------------------------------------
Abstract == INSTANCE Barrier WITH Threads <- Threads, Rounds <- Rounds,
                                  entered <- entered, left <- left

(***************************************************************************)
(* The emitted code is a barrier: a thread gets past the spin loop of      *)
(* generate() in round r only when all nthr threads did their r-th xadd,   *)
(* although one context serves all rounds and the release is two stores.   *)
(***************************************************************************)
ImplementsBarrier == Abstract!Spec

(***************************************************************************)
(* Under fair scheduling every thread leaves every barrier it entered: the *)
(* reuse of ctr and sense by the next round, started by fast threads while *)
(* slow ones still spin on the old sense, never loses a wakeup.            *)
(***************************************************************************)
EverybodyLeaves == Abstract!FairSpec

\* t may still have to write, or has not yet made visible, ctr or sense.
Releasing(t) == pc[t] \in {"reset", "notify"} \/ buf[t] # <<>>

(***************************************************************************)
(* ctr and sense have a single plain writer at a time: while some thread   *)
(* is releasing (its "last thread" section or its store buffer), no other  *)
(* thread is releasing, and no other thread can be about to xadd the       *)
(* counter that is being reset.                                            *)
(***************************************************************************)
ReleaseIsExclusive ==
    \A t, u \in Threads :
        t # u /\ Releasing(t) => ~Releasing(u) /\ pc[u] = "spin"

------------------------------------------------------------------------------
(***************************************************************************)
(* The inductive invariant.  g counts the released rounds.  A round is     *)
(* either gathering (its ctr threads spin on the sense they all saw, the   *)
(* rest is still on its way from round g) or being released by a last      *)
(* thread r while all others spin.                                         *)
(***************************************************************************)
\* t has not reached the xadd of round g + 1.
Coming(t, g) ==
    /\ entered[t] = g
    /\ buf[t] = <<>>
    /\ \/ pc[t] = "out" /\ left[t] = g
       \/ pc[t] = "read" /\ left[t] = g /\ g < Rounds
       \/ pc[t] = "xadd" /\ left[t] = g /\ g < Rounds /\ saved[t] = sense
       \/ pc[t] = "exit" /\ left[t] + 1 = g
       \/ pc[t] = "spin" /\ left[t] + 1 = g /\ saved[t] # sense

\* t waits for the release of round g + 1.
Waiting(t, g) ==
    /\ entered[t] = g + 1
    /\ left[t] = g
    /\ buf[t] = <<>>
    /\ pc[t] = "spin"
    /\ saved[t] = sense

Gathering(g) ==
    /\ \A t \in Threads : Coming(t, g) \/ Waiting(t, g)
    /\ ctr = Cardinality({t \in Threads : entered[t] = g + 1})
    /\ \E t \in Threads : entered[t] = g

Flip == Store("sense", 1 - sense)

\* r found itself last in round g + 1 and has not left its "last thread" code.
Ending(r, g) ==
    /\ left[r] = g
    /\ saved[r] = sense
    /\ \/ pc[r] = "reset" /\ buf[r] = <<>>
       \/ pc[r] = "notify" /\ buf[r] = <<ResetStore>>
       \/ pc[r] = "notify" /\ buf[r] = <<>> /\ ctr = 0

\* r is past it, and the store that releases the others is still buffered.
Buffered(r, g) ==
    /\ \/ buf[r] = <<ResetStore, Flip>>
       \/ buf[r] = <<Flip>> /\ ctr = 0
    /\ \/ pc[r] = "exit" /\ left[r] = g
       \/ pc[r] = "out" /\ left[r] = g + 1
       \/ pc[r] = "read" /\ left[r] = g + 1 /\ g + 1 < Rounds
       \/ /\ pc[r] = "xadd" /\ left[r] = g + 1 /\ g + 1 < Rounds
          /\ saved[r] = 1 - sense

Releases(r, g) == /\ entered[r] = g + 1
                  /\ Ending(r, g) \/ Buffered(r, g)
                  /\ \A t \in Threads \ {r} : Waiting(t, g)

\* A lone thread never touches the context.
Alone == /\ NThr = 1
         /\ ctr = 0
         /\ \A t \in Threads :
                /\ buf[t] = <<>>
                /\ \/ pc[t] = "out" /\ left[t] = entered[t]
                   \/ pc[t] = "exit" /\ left[t] + 1 = entered[t]

(***************************************************************************)
(* In every state one round is gathering or being released, whatever the   *)
(* positions of the threads in the code of generate().                     *)
(***************************************************************************)
RoundInv ==
    \/ Alone
    \/ /\ NThr > 1
       /\ \/ \E g \in 0 .. Rounds : Gathering(g)
          \/ \E g \in 0 .. Rounds - 1, r \in Threads : Releases(r, g)
==============================================================================

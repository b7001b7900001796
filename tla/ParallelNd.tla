------------------------------ MODULE ParallelNd ------------------------------
(***************************************************************************)
(* A parallel section over a grid of work items: parallel_nd() and for_nd  *)
(* (common/dnnl_thread_parallel_nd.hpp) with the multi-dimensional         *)
(* iterator of common/utils.hpp, stepped one item at a time as for_nd does *)
(* or a strip at a time with nd_iterator_jump as the convolutions do.      *)
(*                                                                         *)
(* The number of threads is what the OpenMP runtime grants, anything up to *)
(* MaxTeam; every primitive of the library runs its loops this way and     *)
(* relies on each item being run exactly once.                             *)
(***************************************************************************)
EXTENDS Balance211, FiniteSets, SequencesExt

CONSTANTS Grids,     \* the grids D0 x D1 x ..., tuples of naturals
          MaxTeam    \* bound: the largest team the runtime grants

ASSUME GridsAssumption == \A G \in Grids : G # <<>> /\ G \in Seq(Nat)
ASSUME MaxTeamAssumption == MaxTeam \in Nat \ {0}

VARIABLES dims,      \* the grid of this section
          strips,    \* whether the loop jumps from strip to strip
          granted,   \* number of threads granted
          stage,     \* stage[t]: "start", "loop" or "done"
          cur,       \* cur[t]: iwork, the linear index of the next item
          last,      \* last[t]: end of t's share
          iter,      \* iter[t]: the iterator, one coordinate per dimension
          runs       \* runs[c]: how often item c has been run

section == <<dims, strips, granted, stage, cur, last, iter, runs>>

Grantable == 0 .. MaxTeam - 1
Granted == 0 .. granted - 1

Product(s) == FoldLeft(LAMBDA a, b : a * b, 1, s)
Work == Product(dims)
Rank == Len(dims)
Items(G) == { c \in [1 .. Len(G) -> 0 .. Product(G)] :
                  \A i \in 1 .. Len(G) : c[i] < G[i] }

\* The position of item c in row-major order.
Linear(c) == FoldLeftDomain(LAMBDA a, i : a * dims[i] + c[i], 0, dims)

TypeOK == /\ dims \in Grids
          /\ strips \in BOOLEAN
          /\ granted \in 1 .. MaxTeam
          /\ stage \in [Grantable -> {"start", "loop", "done"}]
          /\ cur \in [Grantable -> 0 .. Work]
          /\ last \in [Grantable -> 0 .. Work]
          /\ iter \in [Grantable -> Items(dims) \cup {[i \in 1 .. Rank |-> 0]}]
          /\ runs \in [Items(dims) -> 0 .. MaxTeam]

\* do_parallel: a section with at most one item is run by one thread.
Forked == /\ dims \in Grids
          /\ strips \in BOOLEAN
          /\ granted \in IF Product(dims) > 1 THEN 1 .. MaxTeam ELSE {1}
          /\ stage = [t \in Grantable |-> "start"]
          /\ cur = [t \in Grantable |-> 0]
          /\ last = [t \in Grantable |-> 0]
          /\ iter = [t \in Grantable |-> [i \in 1 .. Rank |-> 0]]
          /\ runs = [c \in Items(dims) |-> 0]

\* nd_iterator_init: the innermost coordinate is start % D, the rest goes on
\* with start / D.
NdInit(start) ==
    [i \in 1 .. Rank |->
        (start \div Product(SubSeq(dims, i + 1, Rank))) % dims[i]]

\* nd_iterator_step: a coordinate advances when all inner ones wrap around.
NdStep(c) ==
    [i \in 1 .. Rank |->
        IF \A j \in i + 1 .. Rank : c[j] = dims[j] - 1
        THEN (c[i] + 1) % dims[i] ELSE c[i]]

\* Mutant: the strip that ends with the row does not carry.
NdJumpNoCarry(c, n) ==
    LET x == c[Rank] + n IN [c EXCEPT ![Rank] = IF x = dims[Rank] THEN 0 ELSE x]

\* nd_iterator_jump by n items of a strip: past the end of the row the
\* innermost coordinate restarts at 0 and carries into the others.
NdJump(c, n) ==
    IF c[Rank] + n = dims[Rank]
    THEN NdStep([c EXCEPT ![Rank] = dims[Rank] - 1])
    ELSE [c EXCEPT ![Rank] = @ + n]

\* for_nd up to its loop; with no work it returns before balance211.
Enter(t) ==
    /\ stage[t] = "start"
    /\ IF Work = 0
       THEN /\ stage' = [stage EXCEPT ![t] = "done"]
            /\ UNCHANGED <<cur, last, iter>>
       ELSE /\ stage' = [stage EXCEPT ![t] = "loop"]
            /\ cur' = [cur EXCEPT ![t] = Start(Work, granted, t)]
            /\ last' = [last EXCEPT ![t] = End(Work, granted, t)]
            /\ iter' = [iter EXCEPT ![t] = NdInit(Start(Work, granted, t))]
    /\ UNCHANGED <<dims, strips, granted, runs>>

\* Mutant: the loop runs the item at its end, too.
IterateTooFar(t) ==
    /\ ~strips
    /\ stage[t] = "loop" /\ cur[t] <= last[t]
    /\ runs' = [runs EXCEPT ![iter[t]] = @ + 1]
    /\ iter' = [iter EXCEPT ![t] = NdStep(@)]
    /\ cur' = [cur EXCEPT ![t] = @ + 1]
    /\ UNCHANGED <<dims, strips, granted, stage, last>>

\* One turn of the loop of for_nd: f(d0, ...), nd_iterator_step, ++iwork.
Iterate(t) ==
    /\ ~strips
    /\ stage[t] = "loop" /\ cur[t] < last[t]
    /\ runs' = [runs EXCEPT ![iter[t]] = @ + 1]
    /\ iter' = [iter EXCEPT ![t] = NdStep(@)]
    /\ cur' = [cur EXCEPT ![t] = @ + 1]
    /\ UNCHANGED <<dims, strips, granted, stage, last>>

\* One turn of a loop over strips: the rest of the row or of the share,
\* whichever is shorter, then nd_iterator_jump.
IterateStrip(t) ==
    /\ strips
    /\ stage[t] = "loop" /\ cur[t] < last[t]
    /\ LET room == dims[Rank] - iter[t][Rank]
           n == IF room <= last[t] - cur[t] THEN room ELSE last[t] - cur[t]
           strip == { [iter[t] EXCEPT ![Rank] = @ + j] : j \in 0 .. n - 1 }
       IN  /\ runs' = [c \in Items(dims) |->
                          IF c \in strip THEN runs[c] + 1 ELSE runs[c]]
           /\ iter' = [iter EXCEPT ![t] = NdJump(@, n)]
           /\ cur' = [cur EXCEPT ![t] = @ + n]
    /\ UNCHANGED <<dims, strips, granted, stage, last>>

Leave(t) ==
    /\ stage[t] = "loop" /\ cur[t] = last[t]
    /\ stage' = [stage EXCEPT ![t] = "done"]
    /\ UNCHANGED <<dims, strips, granted, cur, last, iter, runs>>

Proceed(t) == Enter(t) \/ Iterate(t) \/ IterateStrip(t) \/ Leave(t)

\* The implicit barrier at the end of the parallel section has been passed.
AllJoined == \A t \in Granted : stage[t] = "done"

Running == (\E t \in Granted : Proceed(t)) \/ (AllJoined /\ UNCHANGED section)

\* The operating system runs every thread of the team.
ParallelSection == /\ Forked /\ [][Running]_section
                   /\ \A t \in Grantable : WF_section(t \in Granted /\ Proceed(t))

------------------------------------------------------------------------------
(***************************************************************************)
(* The iterator of for_nd is in step with iwork: whatever the share it     *)
(* starts from and however it advances, its coordinates are those of the   *)
(* item number iwork (d is not used any more at the end of the grid).         *)
(***************************************************************************)
IteratorInStep ==
    \A t \in Granted :
        stage[t] = "loop" /\ cur[t] < Work => Linear(iter[t]) = cur[t]

(***************************************************************************)
(* The section ends, and by then every item of the grid has been run       *)
(* exactly once, for every team the runtime may grant: the callers write      *)
(* their outputs without locks and rely on no other thread's doing so.     *)
(***************************************************************************)
AllItemsRun == <>[](AllJoined /\ \A c \in Items(dims) : runs[c] = 1)
==============================================================================

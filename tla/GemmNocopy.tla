------------------------------ MODULE GemmNocopy ------------------------------
(***************************************************************************)
(* jit_avx_gemm_f32() (cpu/gemm/f32/jit_avx_gemm_f32.cpp), which           *)
(* jit_avx512_common_gemm_f32() repeats: C := A*B + C split in blocks of C *)
(* and, when there are not enough of them, along k.                        *)
(* The thread with part 0 of a block computes straight into C, the others  *)
(* into buffers; then each adds all buffers to its own band of columns of  *)
(* the block, spinning on one flag byte per part (ompstatus).  When fewer  *)
(* threads than parts are running, a second parallel section adds the      *)
(* buffers instead.                                                        *)
(*                                                                         *)
(* What a column of C holds is abstracted to how often each part has been  *)
(* added to it; an addition reads the column and writes it back in two     *)
(* steps.  beta*C belongs to part 0.                                       *)
(***************************************************************************)
EXTENDS NocopyPartition, Sequences

CONSTANTS Problems,     \* calls: avx512, M, N, K, and the partition P
          MaxThreads,   \* dnnl_get_max_threads()
          Teams         \* team sizes the OpenMP runtime may grant

ASSUME ProblemAssumption ==
    /\ MaxThreads \in Nat \ {0}
    /\ \A c \in Problems : {c.M, c.N, c.K} \subseteq Nat \ {0}
ASSUME PartitionAssumption ==
    \A c \in Problems : c.P = calc_nthr_nocopy(c.avx512, c.M, c.N, c.K, MaxThreads)
ASSUME TeamsAssumption == Teams \subseteq 1 .. MaxThreads /\ Teams # {}

VARIABLES call,      \* the problem, a member of Problems
          team,      \* threads granted to the current parallel section
          phase,     \* "compute", "sum" (the second section) or "returned"
          pc,        \* pc[p]: where thread p is
          ithr,      \* ithr[p]: the work share p executes
          todo,      \* todo[p]: the parts p has yet to add to its band
          seen,      \* seen[p]: the band as p read it before adding
          flag,      \* flag[<<b, k>>]: ompstatus of part k of block b
          ready,     \* buffers that have been computed
          C          \* C[b][j][k]: times part k is in column j of block b

vars == <<call, team, phase, pc, ithr, todo, seen, flag, ready, C>>

M == call.M
N == call.N
P == call.P

nthr_mn == P.nthr_m * P.nthr_n
nthr_k == P.nthr_k
Shares == nthr_mn * nthr_k

\* "May not happen, but just in case."
nthr == IF MaxThreads < Shares THEN Shares ELSE MaxThreads

Blocks == 0 .. nthr_mn - 1
Parts == 0 .. nthr_k - 1
Threads == 0 .. MaxThreads - 1
Team == 0 .. team - 1

\* Columns of block b: n_from .. n_to - 1 relative to n_from.
Cols(b) == 0 .. Least(P.NB, N - P.NB * (b \div P.nthr_m)) - 1

Block(p) == ithr[p] % nthr_mn

BlockRows(b) == 0 .. Least(P.MB, M - P.MB * (b % P.nthr_m)) - 1

\* ithr_k, with the first and the last part swapped.
Part(p) == LET k == ithr[p] \div nthr_mn IN
           IF k = 0 THEN nthr_k - 1 ELSE IF k = nthr_k - 1 THEN 0 ELSE k

Band(p) == LET u == partition_unit_diff(Part(p), nthr_k,
                                        Cardinality(Cols(Block(p))))
           IN  u.off .. u.off + u.len - 1

\* Mutant: the flags are used whatever the number of running threads.
NeverLater(t) == FALSE

sum_later(t) == t < Shares

TypeOK == /\ call \in Problems
          /\ team \in Teams
          /\ phase \in {"compute", "sum", "returned"}
          /\ pc \in [Threads -> {"fetch", "gemm", "publish", "next",
                                 "adding", "done"}]
          /\ ithr \in [Threads -> 0 .. nthr]
          /\ todo \in [Threads -> Seq(Parts)]
          /\ flag \in [Blocks \X Parts -> 0 .. 1]
          /\ ready \subseteq Blocks \X Parts
          /\ \A b \in Blocks : C[b] \in [Cols(b) -> [Parts -> 0 .. 1]]

\* The shares of p under parallel_nd(nthr, ...): for_nd over the team.
First(p, t) == Start(nthr, t, p)
Last(p, t) == End(nthr, t, p)

Fork(t) == /\ pc' = [p \in Threads |-> IF p < t THEN "fetch" ELSE "done"]
           /\ ithr' = [p \in Threads |-> IF p < t THEN First(p, t) ELSE 0]
           /\ todo' = [p \in Threads |-> <<>>]
           /\ seen' = [p \in Threads |-> <<>>]

Nothing == [k \in Parts |-> 0]

Init == /\ call \in Problems
        /\ team \in Teams
        /\ phase = "compute"
        /\ pc = [p \in Threads |-> IF p < team THEN "fetch" ELSE "done"]
        /\ ithr = [p \in Threads |-> IF p < team THEN First(p, team) ELSE 0]
        /\ todo = [p \in Threads |-> <<>>]
        /\ seen = [p \in Threads |-> <<>>]
        /\ flag = [bk \in Blocks \X Parts |-> 0]
        /\ ready = {}
        /\ C = [b \in Blocks |-> [j \in Cols(b) |-> Nothing]]

Goto(p, l) == pc' = [pc EXCEPT ![p] = l]
Advance(p) == Goto(p, "fetch") /\ ithr' = [ithr EXCEPT ![p] = @ + 1]

\* Mutant: the loop over the parts does not skip the own one.
AddOwnTwice(p) ==
    LET all == [k \in 1 .. nthr_k - 1 |-> k]
    IN  IF Part(p) = 0 THEN all ELSE <<Part(p)>> \o all

\* The parts p adds, in order: its own, still hot in its cache, then the rest.
Additions(p) ==
    [i \in 1 .. nthr_k - 1 |-> IF i = 1 /\ Part(p) # 0 THEN Part(p)
                               ELSE IF i <= Part(p) THEN i - 1 ELSE i]

\* The next share of p, if any; those beyond the partition have no work.
Fetch(p) ==
    /\ pc[p] = "fetch"
    /\ IF ithr[p] >= Least(Last(p, team), Shares)
       THEN Goto(p, "done") /\ UNCHANGED todo
       ELSE IF phase = "compute"
       THEN Goto(p, "gemm") /\ UNCHANGED todo
       ELSE Goto(p, "next") /\ todo' = [todo EXCEPT ![p] = Additions(p)]
    /\ UNCHANGED <<call, team, phase, ithr, seen, flag, ready, C>>

\* sgemm_nocopy_driver ends: part 0 has overwritten the block of C.  It is
\* not called, and the flag not set, for an empty block.
HasWork(p) == BlockRows(Block(p)) # {} /\ Cols(Block(p)) # {}

Gemm(p) ==
    /\ pc[p] = "gemm"
    /\ IF ~HasWork(p) THEN UNCHANGED <<C, ready>>
       ELSE IF Part(p) = 0
       THEN /\ C' = [C EXCEPT ![Block(p)] =
                        [j \in Cols(Block(p)) |-> [Nothing EXCEPT ![0] = 1]]]
            /\ UNCHANGED ready
       ELSE /\ ready' = ready \cup {<<Block(p), Part(p)>>}
            /\ UNCHANGED C
    /\ IF nthr_k = 1 \/ sum_later(team)
       THEN Advance(p) /\ UNCHANGED todo
       ELSE IF HasWork(p)
       THEN Goto(p, "publish") /\ UNCHANGED <<ithr, todo>>
       ELSE /\ Goto(p, "next")
            /\ todo' = [todo EXCEPT ![p] = Additions(p)]
            /\ UNCHANGED ithr
    /\ UNCHANGED <<call, team, phase, seen, flag>>

Publish(p) ==
    /\ pc[p] = "publish"
    /\ flag' = [flag EXCEPT ![<<Block(p), Part(p)>>] = 1]
    /\ Goto(p, "next")
    /\ todo' = [todo EXCEPT ![p] = Additions(p)]
    /\ UNCHANGED <<call, team, phase, ithr, seen, ready, C>>

\* Mutant: the own buffer is added without waiting for part 0.
MayAddOwn(p) ==
    \/ phase = "sum"
    \/ LET k == Head(todo[p]) IN k = Part(p) \/ flag[<<Block(p), k>>] = 1

\* The spin loops: before adding its own buffer a thread waits for part 0 to
\* be in C, before another one for that one.  The second section has none.
MayAdd(p) ==
    \/ phase = "sum"
    \/ LET k == Head(todo[p])
       IN  flag[<<Block(p), IF k = Part(p) THEN 0 ELSE k>>] = 1

Add(p) ==
    /\ pc[p] = "next" /\ todo[p] # <<>>
    /\ MayAdd(p)
    /\ seen' = [seen EXCEPT ![p] = [j \in Band(p) |-> C[Block(p)][j]]]
    /\ Goto(p, "adding")
    /\ UNCHANGED <<call, team, phase, ithr, todo, flag, ready, C>>

\* sum_two_matrices ends; a buffer not computed yet adds garbage.
AddEnd(p) ==
    /\ pc[p] = "adding"
    /\ LET k == Head(todo[p])
           one == IF <<Block(p), k>> \in ready THEN 1 ELSE 0
       IN  C' = [C EXCEPT ![Block(p)] = [j \in DOMAIN @ |->
                    IF j \in Band(p) THEN [seen[p][j] EXCEPT ![k] = @ + one]
                    ELSE @[j]]]
    /\ seen' = [seen EXCEPT ![p] = <<>>]
    /\ todo' = [todo EXCEPT ![p] = Tail(@)]
    /\ Goto(p, "next")
    /\ UNCHANGED <<call, team, phase, ithr, flag, ready>>

AddedAll(p) ==
    /\ pc[p] = "next" /\ todo[p] = <<>>
    /\ Advance(p)
    /\ UNCHANGED <<call, team, phase, todo, seen, flag, ready, C>>

\* A turn of a spin loop that does not end it.
Spin(p) ==
    /\ pc[p] = "next" /\ todo[p] # <<>>
    /\ ~MayAdd(p)
    /\ UNCHANGED vars

Step(p) == \/ Fetch(p) \/ Gemm(p) \/ Publish(p) \/ Add(p) \/ AddEnd(p)
           \/ AddedAll(p) \/ Spin(p)

Joined == \A p \in Team : pc[p] = "done"

\* Mutant: the second section is never entered.
ReturnAtOnce ==
    /\ phase = "compute" /\ Joined
    /\ phase' = "returned"
    /\ UNCHANGED <<call, team, pc, ithr, todo, seen, flag, ready, C>>

\* Behind the first section: ompstatus[0] tells whether the sums were done.
Join ==
    /\ phase = "compute" /\ Joined
    /\ IF nthr_k > 1 /\ flag[<<0, 0>>] = 0
       THEN phase' = "sum" /\ team' \in Teams /\ Fork(team')
       ELSE phase' = "returned" /\ UNCHANGED <<team, pc, ithr, todo, seen>>
    /\ UNCHANGED <<call, flag, ready, C>>

JoinSum ==
    /\ phase = "sum" /\ Joined
    /\ phase' = "returned"
    /\ UNCHANGED <<call, team, pc, ithr, todo, seen, flag, ready, C>>

Next == \/ \E p \in Team : phase # "returned" /\ Step(p)
        \/ Join
        \/ JoinSum
        \/ phase = "returned" /\ UNCHANGED vars

(***************************************************************************)
(* The operating system runs every thread of the team: the spin loops of   *)
(* the code rely on it.                                                    *)
(***************************************************************************)
Spec == /\ Init /\ [][Next]_vars
        /\ \A p \in Threads : WF_vars(p \in Team /\ Step(p))
        /\ WF_vars(Join) /\ WF_vars(JoinSum)

------------------------------------------------------------------------------
(***************************************************************************)
(* When the function returns, each part has been added exactly once to     *)
(* every column of C, in whichever section and order the sums were made.   *)
(***************************************************************************)
SumIsComplete ==
    phase = "returned" =>
        \A b \in Blocks : \A j \in Cols(b) : \A k \in Parts : C[b][j][k] = 1

\* The columns of C that p is writing.
Writing(p) ==
    IF pc[p] = "gemm" /\ Part(p) = 0 THEN {Block(p)} \X Cols(Block(p))
    ELSE IF pc[p] = "adding" THEN {Block(p)} \X Band(p)
    ELSE {}

(***************************************************************************)
(* No column of C is written by two threads at once, nor is a buffer read  *)
(* before it is complete: the flags are the only synchronisation.          *)
(***************************************************************************)
NoRace ==
    \A p, q \in Team :
        /\ p # q => Writing(p) \cap Writing(q) = {}
        /\ pc[p] = "adding" => <<Block(p), Head(todo[p])>> \in ready

(***************************************************************************)
(* The function returns however many threads it is granted: sum_later      *)
(* (with the comment "handle C summation later") exists for the teams in   *)
(* which spinning for another share could never end.                       *)
(***************************************************************************)
Returns == <>(phase = "returned")
==============================================================================

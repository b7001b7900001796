-------------------------------- MODULE Reducer --------------------------------
(***************************************************************************)
(* A backward weights convolution on AVX2: the gradients of the weights    *)
(* and then of the bias are reduced by the same team of threads            *)
(* (execute_backward_weights in cpu/jit_avx2_convolution.cpp, and in       *)
(* cpu/jit_avx2_1x1_convolution.cpp), each with a reducer of its own       *)
(* (cpu/cpu_reducer.hpp, .cpp).  Each thread accumulates its share of the  *)
(* reduction dimension, for all jobs of its group, where get_local_ptr()   *)
(* says; then the threads of the group add these partial results up, each  *)
(* for its own part of the jobs.  In between they pass a simple_barrier,   *)
(* abstracted here to Barrier.  The groups of the two reductions are not   *)
(* the same, and threads go from the first to the second on their own.     *)
(* With a threading runtime that does not allow barriers each step is a    *)
(* parallel section.                                                       *)
(*                                                                         *)
(* A cell of memory holds a bag of contributions <<t, e>>: what thread t   *)
(* accumulated for element e of the result.                                *)
(***************************************************************************)
EXTENDS ReduceBalancer, Sequences, FiniteSetsExt, Bags

CONSTANTS NThr,         \* threads of the sections, the nthr_ of the balancers
          Convolutions  \* each a sequence of reductions: weights, and bias

\* A reduction r is a record:
\*    kind       "1d" for cpu_reducer_t, "2d" for cpu_reducer_2d_t
\*    njobs, job_size, reduction, b    of its reduce_balancer_t
\*    line       elements in a cache line
\*    shape      conf_ of a "2d" one
Reductions == UNION { {c[s] : s \in DOMAIN c} : c \in Convolutions }

ASSUME NThrAssumption == NThr \in Nat \ {0}
ASSUME ConvolutionAssumption ==
    \A c \in Convolutions : c \in Seq(Reductions) /\ c # <<>>
ASSUME ReductionAssumption ==
    \A r \in Reductions :
        /\ r.kind \in {"1d", "2d"}
        /\ {r.njobs, r.job_size, r.reduction, r.line} \subseteq Nat \ {0}
ASSUME BalanceAssumption ==
    \A r \in Reductions :
        r.b = balance([nthr |-> NThr, job_size |-> r.job_size, njobs |-> r.njobs,
                       reduction |-> r.reduction, allow |-> TRUE,
                       max_buffer |-> NThr * r.job_size * 8])

\* The blockings of jit_avx2_1x1_convolution divide what they block (assertions
\* of its init_conf), so that jobs are whole rectangles.
ASSUME ShapeAssumption ==
    \A r \in { x \in Reductions : x.kind = "2d" } :
        LET s == r.shape IN
        /\ {s.dst_x, s.dst_y, s.job_size_x, s.job_size_y, s.x_block} \subseteq Nat \ {0}
        /\ s.dst_x % s.job_size_x = 0 /\ s.dst_y % s.job_size_y = 0
        /\ s.job_size_x % s.x_block = 0
        /\ r.job_size = s.job_size_x * s.job_size_y
        /\ r.njobs = (s.dst_x \div s.job_size_x) * (s.dst_y \div s.job_size_y)

VARIABLES sync,     \* dnnl_thr_syncable()
          conv,     \* the convolution
          pc,       \* pc[t]: the reduction thread t is at, and where in it
          entered,  \* entered[<<s, t>>]: barriers of its group in reduction s
          left,     \*    that thread t has entered, and left
          mem       \* mem[a]: contributions in cell a

vars == <<sync, conv, pc, entered, left, mem>>

Threads == 0 .. NThr - 1
Members(r, g) == { t \in Threads : ~idle(r.b, t) /\ group_id(r.b, t) = g }

\* The barrier of the threads m, in reduction s.
Bar(m) == INSTANCE Barrier WITH Threads <- m, Rounds <- 1

Jobs(r, t) == grp_njobs(r.b, r.njobs, group_id(r.b, t))
Off(r, t) == grp_job_off(r.b, r.njobs, group_id(r.b, t))

\* Elements of the jobs of the group of t, from 0 on.
Elements(r, t) == 0 .. Jobs(r, t) * r.job_size - 1

------------------------------------------------------------------------------
(* Memory: the destinations, and the scratchpads init_scratchpad() books.  *)

space_per_thread(r) == r.b.njobs_per_group_ub * r.job_size

SpaceSize(r) == IF r.b.nthr_per_group = 1 THEN 0
                ELSE r.b.ngroups * space_per_thread(r)
                       * (IF r.kind = "1d" THEN r.b.nthr_per_group - 1
                          ELSE r.b.nthr_per_group)

Cells(r) == ({"dst"} \X (0 .. r.njobs * r.job_size - 1))
               \cup ({"space"} \X (0 .. SpaceSize(r) - 1))

\* Where element e of t's jobs is in the destination.
Dst(r, t, e) ==
    <<"dst",
      IF r.kind = "1d" THEN Off(r, t) * r.job_size + e
      ELSE LET job == Off(r, t) + e \div r.job_size
               y == (job \div JobsX(r.shape)) * r.shape.job_size_y
                        + (e % r.job_size) \div r.shape.job_size_x
               x == (job % JobsX(r.shape)) * r.shape.job_size_x
                        + (e % r.shape.job_size_x)
           IN  y * r.shape.dst_x + x>>

\* Mutant: the master is not left out of the numbering of the buffers.
RowTooFar(r, t) == group_id(r.b, t) * r.b.nthr_per_group + id_in_group(r.b, t) + 1

\* offset_factor
Row(r, t) == IF r.kind = "1d"
             THEN group_id(r.b, t) * (r.b.nthr_per_group - 1)
                      + id_in_group(r.b, t) - 1
             ELSE group_id(r.b, t) * r.b.nthr_per_group + id_in_group(r.b, t)

\* Masters of cpu_reducer_t put their results into the destination, and so
\* does everybody when there is one thread per group.
InDst(r, t) == r.b.nthr_per_group = 1
               \/ (r.kind = "1d" /\ id_in_group(r.b, t) = 0)

get_local_ptr(r, t, e) == IF InDst(r, t) THEN Dst(r, t, e)
                          ELSE <<"space", Row(r, t) * space_per_thread(r) + e>>

------------------------------------------------------------------------------
\* Mutant: an incomplete last cache line is not counted.
WholeLines(r, t) ==
    LET id == id_in_group(r.b, t)
        lines == (Jobs(r, t) * r.job_size) \div r.line
    IN  r.line * Start(lines, r.b.nthr_per_group, id)
            .. r.line * End(lines, r.b.nthr_per_group, id) - 1

\* The elements t adds up: cache lines, or rectangles.
Mine(r, t) ==
    LET id == id_in_group(r.b, t)
        size == Jobs(r, t) * r.job_size
        lines == DivUp(size, r.line)
    IN  IF r.kind = "1d"
        THEN r.line * Start(lines, r.b.nthr_per_group, id)
                .. Lesser(r.line * End(lines, r.b.nthr_per_group, id), size) - 1
        ELSE { p[1] * r.job_size + p[2][1] * r.shape.job_size_x + p[2][2] :
                 p \in Share2d(r.shape, Off(r, t), Jobs(r, t),
                               r.b.nthr_per_group, id) }

\* The n_src sources of the driver for element e, src_ld apart.
Sources(r, t, e) ==
    LET first == Row(r, t - id_in_group(r.b, t) + (IF r.kind = "1d" THEN 1 ELSE 0))
        n_src == IF r.kind = "1d" THEN r.b.nthr_per_group - 1
                 ELSE r.b.nthr_per_group
    IN  { <<"space", (first + k) * space_per_thread(r) + e>> : k \in 0 .. n_src - 1 }

\* What conf_ and the number of a thread fix before it starts.
Plan(r, t) == [local |-> [e \in Elements(r, t) |-> get_local_ptr(r, t, e)],
               dst |-> [e \in Elements(r, t) |-> Dst(r, t, e)],
               sources |-> [e \in Elements(r, t) |-> Sources(r, t, e)],
               mine |-> IF Jobs(r, t) = 0 THEN {} ELSE Mine(r, t)]

plan == [c \in Convolutions |-> [s \in DOMAIN c |->
            [t \in Threads |-> Plan(c[s], t)]]]

Parts == DOMAIN conv

TypeOK == /\ sync \in BOOLEAN
          /\ \A t \in Threads :
                /\ pc[t][1] \in Parts
                /\ pc[t][2] \in {"compute", "first", "enter", "wait", "sum",
                                 "second", "done"}
          /\ entered \in [Parts \X Threads -> 0 .. 1]
          /\ left \in [Parts \X Threads -> 0 .. 1]
          /\ \A s \in Parts : /\ DOMAIN mem[s] = Cells(conv[s])
                              /\ \A t \in Threads :
                                    plan[conv][s][t].mine \subseteq Elements(conv[s], t)

\* What no thread of this execution has contributed.
Garbage == SetToBag({<<NThr, 0>>})

\* The barrier contexts have been reset by init(); scratchpads and destinations
\* hold what earlier executions left there.
Init == /\ sync \in BOOLEAN
        /\ conv \in Convolutions
        /\ pc = [t \in Threads |-> <<1, "compute">>]
        /\ entered = [p \in Parts \X Threads |-> 0]
        /\ left = [p \in Parts \X Threads |-> 0]
        /\ mem = [s \in Parts |-> [a \in Cells(conv[s]) |-> Garbage]]

At(t, place) == pc[t][2] = place

\* The reduction thread t is at, its balance, and its plan for it.
Part(t) == pc[t][1]
Now(t) == conv[Part(t)]
PerGroupOf(t) == Now(t).b.nthr_per_group
Mates(t) == {Part(t)} \X Members(Now(t), group_id(Now(t).b, t))
My(t) == plan[conv][Part(t)][t]

\* Thread t writes the values of some cells.
Write(t, values) ==
    \E new \in {values} :
        mem' = [mem EXCEPT ![Part(t)] =
                   [a \in DOMAIN new \cup DOMAIN @ |->
                       IF a \in DOMAIN new THEN new[a] ELSE @[a]]]

Goto(t, place) == pc' = [pc EXCEPT ![t][2] = place]

\* From ker to ker_bias, or out of the section.
Onward(t) == IF Part(t) < Len(conv) THEN <<Part(t) + 1, "compute">>
             ELSE <<Part(t), "done">>

\* Thread t is through with its part of a section, here in the first or the
\* second section of a reduction.
Ended(t, section) == pc' = [pc EXCEPT ![t] = IF sync THEN Onward(t)
                                             ELSE <<Part(t), section>>]

LocalCells(t) == { My(t).local[e] : e \in DOMAIN My(t).local }
DstCells(t) == { My(t).dst[e] : e \in My(t).mine }

\* A thread without jobs returns at once.
Return(t) ==
    /\ At(t, "compute") /\ Jobs(Now(t), t) = 0
    /\ Ended(t, "first")
    /\ UNCHANGED <<sync, conv, entered, left, mem>>

\* The caller zeroes its cells at the first step of its share of the reduction
\* and accumulates in them from then on; without a share it would do neither.
Compute(t) ==
    /\ At(t, "compute") /\ Jobs(Now(t), t) # 0
    /\ IF Size(Now(t).reduction, PerGroupOf(t), id_in_group(Now(t).b, t)) = 0
       THEN UNCHANGED mem
       ELSE Write(t, [a \in LocalCells(t) |->
                SetToBag({ <<t, e>> : e \in
                    { x \in DOMAIN My(t).local : My(t).local[x] = a } })])
    /\ IF sync /\ PerGroupOf(t) > 1 THEN Goto(t, "enter") ELSE Ended(t, "first")
    /\ UNCHANGED <<sync, conv, entered, left>>

\* Mutant: a thread that has nothing to add up does not wait for the others.
EnterIfNeeded(t) ==
    /\ At(t, "enter")
    /\ IF My(t).mine = {} THEN Ended(t, "second") /\ UNCHANGED <<entered, left>>
       ELSE (\E m \in {Mates(t)} : Bar(m)!Enter(<<Part(t), t>>)) /\ Goto(t, "wait")
    /\ UNCHANGED <<sync, conv, mem>>

Enter(t) ==
    /\ At(t, "enter")
    /\ \E m \in {Mates(t)} : Bar(m)!Enter(<<Part(t), t>>)
    /\ Goto(t, "wait")
    /\ UNCHANGED <<sync, conv, mem>>

\* Mutant: reduce() does not wait.
LeaveAtOnce(t) ==
    /\ At(t, "wait")
    /\ left' = [left EXCEPT ![<<Part(t), t>>] = 1]
    /\ Goto(t, "sum")
    /\ UNCHANGED <<sync, conv, entered, mem>>

Leave(t) ==
    /\ At(t, "wait")
    /\ \E m \in {Mates(t)} : Bar(m)!Leave(<<Part(t), t>>)
    /\ Goto(t, "sum")
    /\ UNCHANGED <<sync, conv, mem>>

\* A turn of the spin loop of the barrier.
Spin(t) ==
    /\ At(t, "wait")
    /\ \E u \in Mates(t) : entered[u] < entered[<<Part(t), t>>]
    /\ UNCHANGED vars

\* cpu_reducer_t adds the sources to the destination, cpu_reducer_2d_t to zero.
Total(t, e) ==
    FoldSet(LAMBDA a, bag : bag (+) mem[Part(t)][a],
            IF Now(t).kind = "1d" THEN mem[Part(t)][My(t).dst[e]] ELSE EmptyBag,
            My(t).sources[e])

\* reduce_nolock()
AddUp(t) ==
    /\ At(t, "sum")
    /\ Write(t, [a \in DstCells(t) |->
                    Total(t, CHOOSE e \in My(t).mine : My(t).dst[e] = a)])
    /\ Ended(t, "second")
    /\ UNCHANGED <<sync, conv, entered, left>>

Step(t) == \/ Return(t) \/ Compute(t)
           \/ Enter(t) \/ Leave(t) \/ Spin(t) \/ AddUp(t)

\* Without barriers: the end of the section that computes starts the one that
\* adds up, in which threads without jobs or without mates return at once, and
\* its end starts the next reduction.
NextSection ==
    /\ pc' = [t \in Threads |->
                 IF At(t, "second") THEN Onward(t)
                 ELSE IF Jobs(Now(t), t) # 0 /\ PerGroupOf(t) > 1
                      THEN <<Part(t), "sum">> ELSE <<Part(t), "second">>]
    /\ \/ \A t \in Threads : At(t, "first")
       \/ \A t \in Threads : At(t, "second")
    /\ UNCHANGED <<sync, conv, entered, left, mem>>

AllDone == \A t \in Threads : At(t, "done")

Next == (\E t \in Threads : Step(t)) \/ NextSection \/ (AllDone /\ UNCHANGED vars)

\* All threads of a section run: the barrier relies on it.
Spec == /\ Init /\ [][Next]_vars
        /\ \A t \in Threads : WF_vars(Step(t))
        /\ WF_vars(NextSection)

------------------------------------------------------------------------------
(***************************************************************************)
(* When the sections have ended, every element of the weights and of the   *)
(* bias is the sum of exactly one contribution of each thread of its group *)
(* for its own element, and nothing of what memory held before.            *)
(***************************************************************************)
ReductionComplete ==
    AllDone =>
        \A s \in Parts : \A t \in Threads : \A e \in DOMAIN plan[conv][s][t].dst :
            mem[s][plan[conv][s][t].dst[e]] =
                SetToBag(Members(conv[s], group_id(conv[s].b, t)) \X {e})

\* Cells thread t is writing, and cells it is reading.
Writes(t) == {Part(t)} \X (CASE At(t, "compute") -> LocalCells(t)
                             [] At(t, "sum") -> DstCells(t)
                             [] OTHER -> {})
Reads(t) == {Part(t)} \X
                (IF At(t, "sum") THEN UNION { My(t).sources[e] : e \in My(t).mine }
                 ELSE {})

(***************************************************************************)
(* No thread writes a cell that another one is reading or writing: the     *)
(* barrier (or the end of a section) and the partitions of the scratchpad  *)
(* and of the jobs are all that keeps them apart.                          *)
(***************************************************************************)
NoRace ==
    \A t, u \in Threads :
        t # u => Writes(t) \cap (Writes(u) \cup Reads(u)) = {}

(***************************************************************************)
(* Every thread leaves the section: all members of a group call its        *)
(* barrier, also those with nothing to add up, and nobody else does; and   *)
(* the groups of the two reductions, which overlap, do not wait for each   *)
(* other in a circle.                                                      *)
(***************************************************************************)
Finishes == <>AllDone
==============================================================================

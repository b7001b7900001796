------------------------------ MODULE MCPartition ------------------------------
(***************************************************************************)
(* The ways in which work is cut up before a section starts, each called   *)
(* once for every input of a grid: calc_nthr_nocopy for gemm without       *)
(* copies, the partitions of the gemm driver, reduce_balancer_t and        *)
(* cpu_reducer_2d_t for reductions, balance() of the backward weights      *)
(* convolution on AVX-512, and the loops of the jit reorder.               *)
(***************************************************************************)
EXTENDS GemmThreading, ReduceBalancer, ConvBalance, UniReorder

CONSTANT Inputs   \* sets of calls

NoShape == [dst_x |-> 0]

\* Sizes are positive; the jobs of a destination of rectangles cover it and are
\* cut at whole blocks of channels.
ASSUME InputAssumption ==
    \A i \in DOMAIN Inputs : \A x \in Inputs[i] :
        /\ x.what = "gemm" =>
               {x.m, x.n, x.k, x.nthrs} \subseteq Nat \ {0} /\ x.avx512 \in BOOLEAN
        /\ x.what = "reduction" =>
               /\ {x.nthr, x.job_size, x.njobs, x.reduction} \subseteq Nat \ {0}
               /\ x.max_buffer \in Nat /\ x.allow \in BOOLEAN
               /\ x.shape # NoShape =>
                     LET s == x.shape IN
                     /\ {s.dst_x, s.dst_y, s.job_size_x, s.job_size_y, s.x_block}
                            \subseteq Nat \ {0}
                     /\ s.dst_x % s.x_block = 0 /\ s.job_size_x % s.x_block = 0
                     /\ x.njobs = JobsX(s) * DivUp(s.dst_y, s.job_size_y)
        /\ x.what = "conv" =>
               LET j == x.jcp IN
               /\ {x.max_threads, j.mb, j.ngroups, j.nb_oc, j.nb_ic, j.oh, j.od}
                      \subseteq Nat \ {0}
               /\ j.harness \in {"mb", "2d", "3d"}

VARIABLES in,     \* the call: who is called (what), and the arguments
          res,    \* what it returns
          blocks, \* blocks[g][id]: what a thread of group g adds up
          called

call == <<in, res, blocks, called>>

------------------------------------------------------------------------------
(* Problems around the block sizes 16, 32, 48, 64, 192 and 384, for team   *)
(* sizes with and without divisors.                                        *)

Gemms == [what : {"gemm"}, avx512 : BOOLEAN, m : {1, 15, 16, 17, 64, 65, 200, 1000},
          n : {1, 2, 3, 47, 48, 49, 400}, k : {1, 4, 385, 770, 1203, 5000},
          nthrs : {1, 2, 3, 5, 7, 8, 12, 28, 56}]

------------------------------------------------------------------------------
(* Problems for the gemm driver around its thresholds, for a section that  *)
(* gets the threads it asks for or fewer.                                  *)

Driven == [what : {"driver"}, type : {"s8", "f32"}, avx512 : {TRUE},
           m : {17, 770, 1538, 3333}, n : {5, 16, 64, 100, 387, 1000, 3100},
           k : {3, 6200}, nthr_max : {3, 8, 28, 64}, less : {0, 1, 5},
           transa : BOOLEAN, transb : BOOLEAN, bad_ld : BOOLEAN, ao : BOOLEAN,
           syncable : BOOLEAN, packing : {FALSE}]

Legal == { d \in Driven : /\ d.less < d.nthr_max
                          /\ d.transa => d.bad_ld
                          /\ (d.type = "f32") => ~d.ao
                          /\ (d.type = "s8") => (~d.bad_ld /\ ~d.transb) }

Older == { [d EXCEPT !.avx512 = FALSE] :
             d \in { e \in Legal : e.type = "f32" /\ ~e.bad_ld } }

Packed == { [d EXCEPT !.packing = TRUE] :
              d \in { e \in Legal : e.type = "s8" /\ ~e.ao /\ e.less = 0 } }

\* Products with few columns in A, for teams with and without divisors.
Thin == [what : {"driver"}, type : {"f32"}, avx512 : {FALSE}, m : {500, 1000, 2000},
         n : {400, 700}, k : 50 .. 60, nthr_max : 25 .. 31, less : {0},
         transa : {FALSE}, transb : {FALSE}, bad_ld : {FALSE}, ao : {FALSE},
         syncable : {TRUE}, packing : {TRUE}]

------------------------------------------------------------------------------
(* Reductions with a limit on buffers of one, two and eight jobs for each  *)
(* thread, or one element less: the limit may have no room for the first   *)
(* job (convolutions pass a constant, and 1, 1, 1, 1, 0 is the trivial     *)
(* balance).  For rectangles, with the shapes of the class                 *)
(* jit_avx2_1x1_convolution_bwd_weights_t: jobs of several blocks of       *)
(* channels, the last ones narrower and lower.                             *)

Sizes == [nthr : {1, 2, 3, 4, 7, 9, 12}, job_size : {1, 3, 8},
          njobs : (1 .. 6) \cup {9, 13}, reduction : {1, 2, 3, 8, 9, 16},
          jobs : {1, 2, 8}, less : {0, 1}, allow : BOOLEAN]

Lines == { [what |-> "reduction", nthr |-> z.nthr, job_size |-> z.job_size,
            njobs |-> z.njobs, reduction |-> z.reduction, allow |-> z.allow,
            max_buffer |-> z.nthr * z.job_size * z.jobs - z.less, shape |-> NoShape] :
              z \in Sizes }

Shapes == { [dst_x |-> 8 * x, dst_y |-> y, job_size_x |-> 8 * bx,
             job_size_y |-> by, x_block |-> 1] :
               x \in 1 .. 3, y \in 1 .. 3, bx \in 1 .. 2, by \in 1 .. 2 }

Rectangles == { [what |-> "reduction", nthr |-> n,
                 job_size |-> s.job_size_x * s.job_size_y,
                 njobs |-> JobsX(s) * DivUp(s.dst_y, s.job_size_y),
                 reduction |-> r, allow |-> TRUE, shape |-> s,
                 max_buffer |-> n * s.job_size_x * s.job_size_y * 8] :
                   s \in Shapes, n \in 2 .. 9, r \in {3, 8, 16} }

\* init_balancers() of jit_avx2_convolution_bwd_weights_t: blocks of 8 x 8
\* channels of cubic kernels, and a limit that is "just a heuristic", without
\* room for a job of 7 x 7 x 7 for each of 96 threads.
CubicKernels == { [what |-> "reduction", nthr |-> n, job_size |-> 8 * 8 * k * k * k,
                   njobs |-> nb, reduction |-> mb * od, allow |-> TRUE,
                   max_buffer |-> 2^21, shape |-> NoShape] :
                     n \in {8, 64, 95, 96, 128}, k \in {1, 3, 5, 7}, nb \in {1, 4, 64},
                     mb \in {1, 32}, od \in {2, 8} }

------------------------------------------------------------------------------
(* Convolutions with small and with large images, of few and of many       *)
(* channels, in each harness and for teams that the groups divide or not.  *)

Conv(mb, g, oc, ic, size, k) ==
    [is_1stconv |-> FALSE, mb |-> mb, ngroups |-> g, nb_oc |-> oc, nb_ic |-> ic,
     ic_block |-> 16, oc_block |-> 16, ih |-> size, iw |-> size, id |-> 1,
     oh |-> size, ow |-> size, od |-> 1, kh |-> k, kw |-> k, kd |-> 1,
     stride_h |-> 1, stride_w |-> 1, stride_d |-> 1]

Layers == { Conv(mb, g, oc, ic, size, 3) :
              mb \in {1, 3, 5}, g \in {1, 2, 5}, oc \in {1, 2, 7}, ic \in {1, 3},
              size \in {4, 20} }

Harnessed(j) ==
    { [j EXCEPT !.ngroups = IF first THEN 1 ELSE @, !.is_1stconv = first]
          @@ [harness |-> "mb", fma4 |-> fma4] : fma4, first \in BOOLEAN }
    \cup (IF j.oh > min_oh_reduce THEN {j @@ [harness |-> "2d", fma4 |-> FALSE]}
          ELSE { [j EXCEPT !.id = 3, !.od = 3] @@ [harness |-> "3d", fma4 |-> FALSE] })

Convs == { [what |-> "conv", jcp |-> j, max_threads |-> n, mic |-> m, sync |-> s] :
             j \in UNION { Harnessed(l) : l \in Layers },
             n \in {1, 3, 4, 7, 13}, m \in BOOLEAN, s \in BOOLEAN }

------------------------------------------------------------------------------
(* Conversions between plain, permuted and blocked layouts of tensors that *)
(* are small, long and thin, prime, large enough to be cut for the cache   *)
(* and the threads, and of many dimensions; with one scale, or with one    *)
(* for each index of one or two dimensions.                                *)

\* The dense layout whose blocks are in the given order, with inner blocks.
Dense(dims, order, inner) ==
    LET Place(d) == CHOOSE i \in DOMAIN order : order[i] = d
        Outer(d) == dims[d] \div Volume(SelectSeq(inner, LAMBDA e : e.d = d))
    IN  [dims |-> dims, blocks |-> inner,
         strides |-> [d \in DOMAIN dims |->
             FoldLeft(LAMBDA x, e : x * Outer(e), Volume(inner), From(order, Place(d) + 1))]]

Along(d, n) == [d |-> d, n |-> n]

Lists == {<<3000>>, <<4099>>}
Planes == {<<4, 2000>>, <<4, 1009>>, <<32, 128>>, <<1, 300>>}
Images == {<<8, 32, 2, 1>>, <<16, 16, 1, 2>>}
Cells == {<<2, 3, 2, 3, 2, 5>>, <<2, 2, 2, 2, 2, 4, 4, 4, 4>>}

InOrder(dims) == [d \in DOMAIN dims |-> d]

Plain(dims) == { Dense(dims, o, <<>>) : o \in {InOrder(dims), Reverse(InOrder(dims))} }

BlockedBy(dims) ==
    { Dense(dims, o, <<>>) : o \in {InOrder(dims), <<1, 3, 4, 2>>} } \cup
    { Dense(dims, <<2, 1, 3, 4>>, b) :
        b \in { <<Along(2, 16)>>, <<Along(1, 8), Along(2, 8)>>,
                <<Along(2, 8), Along(1, 8)>>, <<Along(2, 4), Along(1, 8), Along(2, 4)>> } }

Between(dims, layouts) ==
    [what : {"reorder"}, imd : layouts, omd : layouts,
     mask : CASE Len(dims) = 1 -> {{}, {1}}
              [] Len(dims) = 2 -> {{}, {2}}
              [] OTHER -> {{}, {2}, {1, 2}}]

Reorders == UNION { Between(d, Plain(d)) : d \in Lists \cup Planes \cup Cells }
            \cup UNION { Between(d, BlockedBy(d)) : d \in Images }

All == <<Gemms, Legal, Older, Packed, Lines, Rectangles, CubicKernels, Convs,
         Reorders>>
ThinPacks == <<Thin>>

------------------------------------------------------------------------------
ToCall == (\E i \in DOMAIN Inputs : in \in Inputs[i]) /\ res = <<>> /\ blocks = <<>> /\ called = FALSE

Return(value) == ~called /\ called' = TRUE /\ res' = value /\ UNCHANGED in

Gemm == /\ in.what = "gemm"
        /\ Return(calc_nthr_nocopy(in.avx512, in.m, in.n, in.k, in.nthrs))
        /\ UNCHANGED blocks

\* init(), and the shares of the threads that follow from it.
Reduce ==
    /\ in.what = "reduction"
    /\ Return(balance(in))
    /\ blocks' =
          IF in.shape = NoShape THEN <<>>
          ELSE [g \in 0 .. res'.ngroups - 1 |->
                   [id \in 0 .. res'.nthr_per_group - 1 |->
                       Share2d(in.shape, grp_job_off(res', in.njobs, g),
                               grp_njobs(res', in.njobs, g),
                               res'.nthr_per_group, id)]]

Driver ==
    /\ in.what = "driver"
    /\ Return(gemm_route(in, in.nthr_max, in.nthr_max - in.less))
    /\ UNCHANGED blocks

Convolution ==
    /\ in.what = "conv"
    /\ Return(ConvThreads(in.jcp, in.max_threads, in.mic, in.sync))
    /\ UNCHANGED blocks

Reorder ==
    /\ in.what = "reorder"
    /\ Return(create(in.imd, in.omd, in.mask, 4))
    /\ UNCHANGED blocks

Call == Gemm \/ Driver \/ Reduce \/ Convolution \/ Reorder \/ (called /\ UNCHANGED call)

Calls == ToCall /\ [][Call]_call

Called(what) == called /\ in.what = what

------------------------------------------------------------------------------
(***************************************************************************)
(* The partition of gemm never needs more threads than there are ("May not *)
(* happen, but just in case" in jit_avx_gemm_f32).                         *)
(***************************************************************************)
FitsThreads ==
    Called("gemm") => res.nthr_m * res.nthr_n * res.nthr_k <= in.nthrs

\* nthr blocks of the given size cover 0 .. size - 1 and the last has work.
Tiles(nthr, block, size) == (nthr - 1) * block < size /\ size <= nthr * block

(***************************************************************************)
(* The blocks and the parts of gemm cover the problem and each has work: a *)
(* thread whose block were empty would never set its flag, and those that  *)
(* add up the block would spin on it for ever.                             *)
(***************************************************************************)
EveryShareHasWork ==
    Called("gemm") => /\ Tiles(res.nthr_m, res.MB, in.m)
                      /\ Tiles(res.nthr_n, res.NB, in.n)
                      /\ Tiles(res.nthr_k, res.KB, in.k)

Bands(n) == [t \in 0 .. res.nthr_k - 1 |->
                LET u == partition_unit_diff(t, res.nthr_k, n)
                IN  u.off .. u.off + u.len - 1]

(***************************************************************************)
(* The bands in which the threads of a block add up the parts of gemm are  *)
(* disjoint and cover all its columns, also when there are fewer columns   *)
(* than threads.                                                           *)
(***************************************************************************)
BandsArePartition ==
    Called("gemm") => \A n \in {in.n, Least(res.NB, 9)} :
        /\ UNION { Bands(n)[t] : t \in 0 .. res.nthr_k - 1 } = 0 .. n - 1
        /\ \A t, u \in 0 .. res.nthr_k - 1 :
              t # u => Bands(n)[t] \cap Bands(n)[u] = {}

InSection == Called("driver") /\ res.by = "section"

\* Spans of one dimension that cover it and do not overlap.
Cuts(S, size) ==
    /\ FoldSet(LAMBDA s, sum : s.len + sum, 0, S) = size
    /\ \A s \in S : s.off >= 0 /\ s.off + s.len <= size
    /\ \A s, u \in S : s.off < u.off => s.off + s.len <= u.off

(***************************************************************************)
(* The slices of the gemm driver cut C, and the products that are added    *)
(* up, without rest and overlap, also when rounding leaves threads without *)
(* work or the team is smaller than the driver asked for, and nobody but   *)
(* the team is needed.  Two threads with the same slice would add to C     *)
(* twice; a slice that nobody has stays as it was.                         *)
(***************************************************************************)
SlicesTile ==
    InSection =>
        LET t == res.threading
            slices == [i \in 0 .. TeamSize(t) - 1 |->
                          get_thread_slice(t, i, in.m, in.n, in.k)]
            busy == { i \in DOMAIN slices : slices[i].m.len > 0 /\ slices[i].n.len > 0 }
            ms == { slices[i].m : i \in busy }
            ns == { slices[i].n : i \in busy }
            ks == { slices[i].k : i \in busy }
        IN  /\ TeamSize(t) <= IF in.packing THEN in.nthr_max ELSE in.nthr_max - in.less
            /\ Cuts(ms, in.m) /\ Cuts(ns, in.n) /\ Cuts(ks, in.k)
            /\ Cardinality(busy) = Cardinality(ms) * Cardinality(ns) * Cardinality(ks)
            /\ Cardinality({ slices[i] : i \in busy }) = Cardinality(busy)

(***************************************************************************)
(* get_thread_slice asserts that the sizes per thread are set wherever it  *)
(* cuts in three dimensions.                                               *)
(***************************************************************************)
ThreadSizesSet ==
    (InSection /\ res.threading.partition = "mnk_3d") =>
        res.threading.thread_m > 0 /\ res.threading.thread_n > 0
            /\ res.threading.thread_k > 0

(***************************************************************************)
(* balance() of reduce_balancer_t asserts that the groups fit the team;    *)
(* and a group never has more threads than there is to reduce, or a thread *)
(* would hand in a buffer that nobody has initialised.                     *)
(***************************************************************************)
GroupsFitTeam ==
    Called("reduction") => /\ res.ngroups * res.nthr_per_group <= in.nthr
                           /\ res.nthr_per_group <= in.reduction
                           /\ ~in.allow => res.nthr_per_group = 1

(***************************************************************************)
(* grp_njobs and grp_job_off deal out every job once, at least one and at  *)
(* most njobs_per_group_ub_ (the size of the buffers) to a group.          *)
(***************************************************************************)
JobsArePartition ==
    Called("reduction") =>
        /\ \A g \in 0 .. res.ngroups - 1 :
              /\ grp_njobs(res, in.njobs, g) \in 1 .. res.njobs_per_group_ub
              /\ grp_job_off(res, in.njobs, g + 1) =
                     grp_job_off(res, in.njobs, g) + grp_njobs(res, in.njobs, g)
        /\ grp_job_off(res, in.njobs, 0) = 0

(***************************************************************************)
(* Where balance() keeps its assertion "no reduction buffer overflow", and *)
(* where it does not.  The assertion, the first two alternatives, holds of *)
(* all calls whose limit has room for a job of each thread.  Without that  *)
(* room max_njobs_per_group is still one, and the assertion fails for a    *)
(* group of several threads; the group then has one job and no more, and   *)
(* the scratchpad is booked for that.                                      *)
(***************************************************************************)
BuffersBounded ==
    Called("reduction") =>
        \/ res.njobs_per_group_ub * in.job_size * in.nthr <= in.max_buffer
        \/ res.nthr_per_group = 1
        \/ in.max_buffer < in.nthr * in.job_size /\ res.njobs_per_group_ub = 1

\* The elements of the jobs of group g, its jobs numbered from 0.
Elements(g) ==
    LET off == grp_job_off(res, in.njobs, g)
        Job(j) == (0 .. NY(in.shape, off + j) - 1) \X (0 .. NX(in.shape, off + j) - 1)
    IN  UNION { {j} \X Job(j) : j \in 0 .. grp_njobs(res, in.njobs, g) - 1 }

(***************************************************************************)
(* Every element of every job of a group is added up by exactly one of its *)
(* threads, and nothing outside the jobs is: reduce_nolock writes into a   *)
(* destination whose next element belongs to another job or group.         *)
(***************************************************************************)
BlocksArePartition ==
    \A g \in DOMAIN blocks :
        /\ UNION { blocks[g][id] : id \in DOMAIN blocks[g] } = Elements(g)
        /\ \A id1, id2 \in DOMAIN blocks[g] :
              id1 # id2 => blocks[g][id1] \cap blocks[g][id2] = {}

(***************************************************************************)
(* The grid of a convolution fits the threads (an assertion of balance(),  *)
(* and parallel() is asked for exactly that team), and every thread of it  *)
(* has images and blocks of channels of its own: partial weights of a      *)
(* thread without images would be added up although nobody wrote them.     *)
(***************************************************************************)
GridHasWork ==
    Called("conv") =>
        /\ res.mb * res.g * res.oc * res.ic <= in.max_threads
        /\ res.mb <= in.jcp.mb * in.jcp.od
                        * (IF in.jcp.harness = "2d" THEN in.jcp.oh ELSE 1)
        /\ res.g <= in.jcp.ngroups
        /\ res.oc <= in.jcp.nb_oc
        /\ res.ic <= in.jcp.nb_ic

(***************************************************************************)
(* A reorder moves every value once, from where the one layout has it to   *)
(* where the other wants it and with its own scale, after all merging,     *)
(* folding, moving and splitting of loops; and the searches for a divisor  *)
(* at which a loop can be split end.  Tensors without padding: of padded   *)
(* ones the model leaves out the padding and its effect on the scales.     *)
(***************************************************************************)
EveryValueMoved ==
    Called("reorder") =>
        LET wanted == Wanted(in.imd, in.omd, in.mask)
            done == omp_driver(res, in.mask)
        IN  /\ res.ends
            /\ \/ res.status # "success"
               \/ done.moved = wanted /\ done.moves = Cardinality(wanted)
==============================================================================

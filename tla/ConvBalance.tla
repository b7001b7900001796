------------------------------ MODULE ConvBalance ------------------------------
(***************************************************************************)
(* How jit_avx512_common_convolution_bwd_weights_t deals a convolution to  *)
(* threads: balance() of jit_avx512_common_conv_bwd_weights_kernel_f32     *)
(* (cpu/jit_avx512_common_conv_kernel.cpp), which makes a grid of threads  *)
(* over minibatch, groups, blocks of output and of input channels.         *)
(*                                                                         *)
(* j is a jit_conv_conf_t with the fields balance() reads, of which        *)
(* fma4 stands for ver == ver_4fma; mic is mayiuse(avx512_mic).            *)
(***************************************************************************)
EXTENDS Balance211, SequencesExt

Small(a, b) == IF a <= b THEN a ELSE b
Large(a, b) == IF a <= b THEN b ELSE a

min_oh_reduce == 9

Reduces(j) == j.harness = "2d"

nthr_oh_reduce(j) == Large(1, (IF Reduces(j) THEN j.oh ELSE 1) \div min_oh_reduce)

\* d distributes the threads of one group over mb, oc and ic.  The pairs of
\* blocks of channels that one thread has.
Share(j, d) == DivUp(j.nb_oc, d.oc) * DivUp(j.nb_ic, d.ic)

calc_mem_cost(j, d) ==
    LET Rows(n) == IF Reduces(j) THEN DivUp(j.mb * n, d.mb)
                   ELSE DivUp(j.mb, d.mb) * n
        src == (IF j.fma4 THEN 4 ELSE 1) * Rows(j.ih) * DivUp(j.nb_ic, d.ic)
                   * j.ic_block * j.iw * j.id
        dst == Rows(j.oh) * DivUp(j.nb_oc, d.oc) * j.oc_block * j.ow * j.od
    IN  (((src \div j.stride_d) \div j.stride_h) \div j.stride_w) + dst
            + 8 * Share(j, d) * j.kh * j.kw * j.kd * j.ic_block * j.oc_block

calc_comp_cost(j, d) ==
    DivUp(j.mb * (IF Reduces(j) THEN j.oh ELSE 1), d.mb) * Share(j, d)

One == [mb |-> 1, oc |-> 1, ic |-> 1]

\* The distributions the loops go through, in this order, for nthr threads.
nthr_mb_max(j, nthr) == Small(nthr, j.mb * j.od * nthr_oh_reduce(j))

Candidates(j, nthr) ==
    LET Of(mb) == [oc \in 1 .. Small(nthr \div mb, j.nb_oc) |->
                      [mb |-> mb, oc |-> oc,
                       ic |-> Small((nthr \div mb) \div oc, j.nb_ic)]]
    IN  FlattenSeq([mb \in 1 .. nthr_mb_max(j, nthr) |-> Of(mb)])

\* Step 1: the last of the cheapest in memory, or one thread.
Cheapest(j, cs) ==
    FoldLeft(LAMBDA best, d :
                 IF calc_mem_cost(j, d) <= calc_mem_cost(j, best) THEN d ELSE best,
             One, cs)

\* Step 2: one that computes less, if it takes at most 110 % of that memory, or
\* three quarters of the computation.
Fastest(j, cs) ==
    LET cheap == Cheapest(j, cs) IN
    FoldLeft(LAMBDA best, d :
                 IF \/ /\ calc_comp_cost(j, d) <= calc_comp_cost(j, best)
                       /\ 10 * calc_mem_cost(j, d) < 11 * calc_mem_cost(j, cheap)
                    \/ 4 * calc_comp_cost(j, d) <= 3 * calc_comp_cost(j, best)
                 THEN d ELSE best,
             cheap, cs)

\* Mutant: as many threads as there are, whatever there is to do.
AllForBatch(j, d, max_threads) ==
    IF d.mb > max_threads \div 2 THEN [d EXCEPT !.mb = max_threads] ELSE d

\* More than half of the threads: then all that there is work for.
Widen(j, d, max_threads) ==
    IF d.mb > max_threads \div 2 /\ d.mb < max_threads
    THEN [d EXCEPT !.mb = Small(j.mb * j.od * nthr_oh_reduce(j), max_threads)]
    ELSE d

Grid(mb, g, oc, ic) == [mb |-> mb, g |-> g, oc |-> oc, ic |-> ic]

ConvThreads(j, max_threads, mic, syncable) ==
    IF max_threads < j.ngroups \/ (~syncable /\ j.fma4) THEN Grid(1, 1, 1, 1)
    ELSE IF j.fma4 /\ j.is_1stconv
    THEN LET ic == Small(j.nb_ic, max_threads)
         IN  Grid(Small(max_threads \div ic, j.mb), 1, 1, ic)
    ELSE LET cs == Candidates(j, max_threads \div j.ngroups)
             d == Widen(j, IF mic THEN Cheapest(j, cs) ELSE Fastest(j, cs),
                        max_threads)
         IN  Grid(d.mb, j.ngroups, d.oc, d.ic)
==============================================================================

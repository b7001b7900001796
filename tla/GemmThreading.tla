----------------------------- MODULE GemmThreading -----------------------------
(***************************************************************************)
(* How the gemm driver shares a problem out: set_thread_opts and           *)
(* nocopy_checker of cpu/gemm/gemm_driver.cpp, the partitions of           *)
(* cpu/gemm/gemm_partition.hpp and the slices of gemm_threading_t.         *)
(*                                                                         *)
(* arg stands for gemm_info_t: the type ("s8" or "f32") and the instruction*)
(* set, the sizes, whether a leading dimension is a multiple of 256, A or B*)
(* is transposed, A has an offset, and whether a matrix is being packed.   *)
(***************************************************************************)
EXTENDS NocopyPartition, SequencesExt

Larger(a, b) == IF a <= b THEN b ELSE a

is_int8(arg) == arg.type = "s8"

\* jit_init(): the sizes of kernels and of blocks.
um(arg) == IF arg.avx512 THEN 48 ELSE 24
un(arg) == IF arg.avx512 THEN 8 ELSE 4
bm(arg) == IF arg.avx512 THEN 9984 ELSE 10000
bk(arg) == IF is_int8(arg) THEN 768 ELSE IF arg.avx512 THEN 384 ELSE 192
bn == 384

get_vector_length(arg) == IF arg.avx512 THEN 16 ELSE 8

------------------------------------------------------------------------------
(* When to leave a problem to the kernels that copy nothing.               *)

\* 1/m + 1/n >= FORCE_NOCOPY_THRESH, which is 49/25000 or 19/5000.
Crude(arg) ==
    IF arg.avx512 THEN 25000 * (arg.m + arg.n) >= 49 * arg.m * arg.n
    ELSE 5000 * (arg.m + arg.n) >= 19 * arg.m * arg.n

TooDeep(nthr, arg) ==
    arg.k >= nthr * 378 /\ ((arg.m <= 378 /\ arg.n <= 378) \/ arg.m >= nthr * 378)

nocopy_checker_avx2(nthr, arg) ==
    \/ Crude(arg)
    \/ /\ ~TooDeep(nthr, arg)
       /\ \/ arg.m <= 128 /\ arg.n <= 128
          \/ arg.n <= nthr * (IF arg.transb THEN 1 ELSE 16)
          \/ arg.k <= nthr * (IF arg.transb THEN 1 ELSE 2)
          \/ ~arg.transb /\ arg.m <= 64 /\ arg.n >= nthr * 16

\* "BAD_LD_MULT"
BadLd(arg) ==
    /\ arg.bad_ld /\ arg.m >= 32
    /\ \/ arg.n > 16
       \/ arg.n = 16 /\ (arg.k >= 6400 \/ ~arg.transa \/ arg.m = 4096)

nocopy_checker_avx512(nthr, arg) ==
    \/ Crude(arg)
    \/ /\ ~BadLd(arg)
       /\ ~TooDeep(nthr, arg)
       /\ \/ arg.m <= nthr * 28 /\ (~arg.transb \/ arg.m >= arg.n)
          \/ arg.n <= nthr * 28
          \/ arg.k <= nthr

nocopy_checker(nthr, arg) ==
    /\ arg.type = "f32"
    /\ IF arg.avx512 THEN nocopy_checker_avx512(nthr, arg)
       ELSE nocopy_checker_avx2(nthr, arg)

------------------------------------------------------------------------------
(* gemm_partition.hpp                                                      *)

Span(off, len) == [off |-> off, len |-> len]

partition_1d(ithr, nthrs, n) ==
    LET b == n \div nthrs
        band == IF n - (nthrs - 1) * b > b + 1 THEN b + 1 ELSE b
        block == IF ithr < nthrs - 1 THEN band ELSE n - (nthrs - 1) * band
    IN  IF ithr * band >= n THEN Span(0, 0)
        ELSE Span(ithr * band, Least(block, n - ithr * band))

\* One dimension of partition_2d: used threads, of which the first have bands
\* of "more", the last has what remains.
Bands2d(size, div, isM) ==
    LET rest == size - (div - 1) * (size \div div)
        uneven == rest > (size \div div) + 1
        band == (size \div div) + (IF isM /\ uneven /\ rest > div THEN 1 ELSE 0)
        more == IF uneven THEN band + 1 ELSE band
        used == IF uneven THEN DivUp(size, more) ELSE div
    IN  [used |-> used, first |-> IF uneven THEN used - 1 ELSE div - 1,
         band |-> band, more |-> more]

Band2d(size, b, i) ==
    LET last == b.first * b.more + (b.used - 1 - b.first) * b.band
        s == IF i < b.first THEN Span(i * b.more, b.more)
             ELSE IF i <= b.used - 2
             THEN Span(b.first * b.more + (i - b.first) * b.band, b.band)
             ELSE Span(last, Larger(0, size - last))
    IN  [s EXCEPT !.off = Larger(Least(@, size - 1), 0)]

partition_2d(ithr, i, j, nthrs_m, nthrs_n, m, n) ==
    LET bm2 == Bands2d(m, nthrs_m, TRUE)
        bn2 == Bands2d(n, nthrs_n, FALSE)
    IN  IF ithr < bm2.used * bn2.used
        THEN [m |-> Band2d(m, bm2, i), n |-> Band2d(n, bn2, j)]
        ELSE [m |-> Span(0, 0), n |-> Span(0, 0)]

\* The prime factors the loop tries, for up to 64 threads.
Primes == <<2, 2, 2, 2, 2, 2, 3, 3, 3, 5, 5, 7, 7, 11, 13, 17, 19, 23, 29>>

\* Which dimension to divide by p so that bands stay at least bm by bn: "m", "n"
\* or neither.
try_partition(band_m, band_n, b_m, b_n, pick_small) ==
    IF band_m < b_m /\ band_n < b_n THEN "none"
    ELSE IF band_m < b_m THEN "n"
    ELSE IF band_n < b_n THEN "m"
    ELSE IF (band_m * b_n < band_n * b_m) = pick_small THEN "m" ELSE "n"

\* s counts threads (m, n) and keeps the bands and the divisor that is left.
DivideBy(s, p, to) ==
    LET t == [s EXCEPT !.ite = @ \div p,
                       !.parts = IF @ < s.nthr THEN @ * p ELSE @]
    IN  CASE to = "m" -> [t EXCEPT !.m = @ * p, !.band_m = @ \div p]
          [] to = "n" -> [t EXCEPT !.n = @ * p, !.band_n = @ \div p]
          [] OTHER -> [t EXCEPT !.finished = TRUE]

\* The small blocks are tried first while blocks are fewer than threads.
Dimension(s, min, big) ==
    IF (s.parts < s.nthr /\ min # "none") \/ big = "none" THEN min ELSE big

DivideMore(s, p, block, min_m, min_n) ==
    IF s.finished \/ s.ite % p # 0 THEN s
    ELSE DivideBy(s, p, Dimension(s,
             try_partition(s.band_m \div p, s.band_n \div p, min_m, min_n, TRUE),
             try_partition(s.band_m \div p, s.band_n \div p, block, block, FALSE)))

partition_2d_minblk_with_primes(m, n, block, min_m, min_n, nthr) ==
    IF m < 2 * block /\ Larger(1, n \div block) >= nthr THEN [m |-> 1, n |-> nthr]
    ELSE IF n < 2 * block /\ Larger(1, m \div block) >= nthr
    THEN [m |-> nthr, n |-> 1]
    ELSE FoldLeft(LAMBDA s, p : DivideMore(s, p, block, min_m, min_n),
                  [ite |-> nthr, nthr |-> nthr, m |-> 1, n |-> 1,
                   band_m |-> m, band_n |-> n, finished |-> FALSE,
                   parts |-> Larger(1, m \div block) * Larger(1, n \div block)],
                  Primes)

\* The grid for the most threads that keeps 95 % of them busy or has all the
\* parts there are, else that for the fewest.
FirstGood(grids, nthr, parts) ==
    grids[Max({ t \in DOMAIN grids :
                  \/ t = (nthr \div 2) + 1
                  \/ 100 * grids[t].m * grids[t].n >= 95 * nthr
                  \/ grids[t].m * grids[t].n >= parts })]

partition_2d_minblk(m, n, block, min_m, min_n, nthr) ==
    IF m < 2 * min_m THEN [m |-> 1, n |-> Least(DivUp(n, min_n), nthr)]
    ELSE IF n < 2 * min_n THEN [m |-> Least(DivUp(m, min_m), nthr), n |-> 1]
    ELSE FirstGood([t \in ((nthr \div 2) + 1) .. nthr |->
                       partition_2d_minblk_with_primes(m, n, block, min_m, min_n, t)],
                   nthr, (m \div min_m) * (n \div min_n))

------------------------------------------------------------------------------
(* set_thread_opts                                                         *)

TeamSize(t) == t.nthrs_m * t.nthrs_n * t.nthrs_k

Opts(partition, copy, nthrs_m, nthrs_n) ==
    [partition |-> partition, copy |-> copy, nthrs_m |-> nthrs_m,
     nthrs_n |-> nthrs_n, nthrs_k |-> 1,
     thread_m |-> -1, thread_n |-> -1, thread_k |-> -1]

\* Threads that have nothing left after the rounding are dropped.
FitThreads(size, nthr, thread) ==
    [thread |-> thread,
     nthr |-> IF thread * nthr > size THEN DivUp(size, thread) ELSE nthr]

RoundBlocks(share, num_blk, align) == num_blk * RndUp(DivUp(share, num_blk), align)

choose_blocking(size, nthr, block_init, align) ==
    FitThreads(size, nthr,
               RoundBlocks(DivUp(size, nthr), DivUp(DivUp(size, nthr), block_init),
                           align))

choose_m_blocking(arg, nthr_m) ==
    choose_blocking(arg.m, nthr_m, bm(arg),
                    IF is_int8(arg) THEN 16 ELSE get_vector_length(arg))

choose_n_blocking(arg, nthr_n) == choose_blocking(arg.n, nthr_n, bn, un(arg))

\* Up to four parts of k, each longer than its least length, if rows and columns
\* do not give work to all threads.
choose_k_blocking(nthrs, arg, do_k_blocking) ==
    choose_blocking(arg.k,
        Max({1} \cup { nk \in 2 .. 4 :
                /\ do_k_blocking /\ (arg.m \div 64) + (arg.n \div 64) < nthrs
                /\ nthrs % nk = 0
                /\ arg.k >= (IF is_int8(arg) THEN 3073 ELSE 257) * nk }),
        bk(arg), 4)

\* Threads lost to rounding in one dimension may help in the other.
GrowN(nthrs, arg, k, init, m, n) ==
    IF is_int8(arg) /\ m.nthr # init.m /\ m.nthr * (n.nthr + 1) * k.nthr <= nthrs
    THEN choose_n_blocking(arg, n.nthr + 1) ELSE n

GrowM(nthrs, arg, k, init, m, n) ==
    IF is_int8(arg) /\ n.nthr # init.n /\ (m.nthr + 1) * n.nthr * k.nthr <= nthrs
    THEN choose_m_blocking(arg, m.nthr + 1) ELSE m

Opts3d(k, m, n) ==
    [partition |-> "mnk_3d", copy |-> "nonshared",
     nthrs_m |-> m.nthr, nthrs_n |-> n.nthr, nthrs_k |-> k.nthr,
     thread_m |-> m.thread, thread_n |-> n.thread, thread_k |-> k.thread]

ThenN(nthrs, arg, k, init, m, n) == Opts3d(k, m, GrowN(nthrs, arg, k, init, m, n))

ThenM(nthrs, arg, k, init, m, n) ==
    ThenN(nthrs, arg, k, init, GrowM(nthrs, arg, k, init, m, n), n)

ChooseMN(nthrs, arg, k, init) ==
    ThenM(nthrs, arg, k, init, choose_m_blocking(arg, init.m),
          choose_n_blocking(arg, init.n))

AfterK(nthrs, arg, k) ==
    ChooseMN(nthrs, arg, k,
             partition_2d_minblk(arg.m, arg.n, 64,
                 IF arg.avx512 THEN 32 ELSE um(arg), 32, nthrs \div k.nthr))

set_thread_opts_pack(nthrs, arg, do_k_blocking) ==
    AfterK(nthrs, arg, choose_k_blocking(nthrs, arg, do_k_blocking))

\* The threads for columns are halved while their bands are too narrow, and those
\* for rows doubled.
MoreRows(nthrs, arg, nthrs_m, nthrs_n) ==
    \/ /\ is_int8(arg) /\ nthrs_n > 1
       /\ arg.n \div nthrs_n < un(arg) /\ arg.m \div nthrs_m >= 2 * um(arg)
    \/ /\ nthrs_n % 2 = 0
       /\ arg.n \div nthrs > 384 \/ arg.n \div nthrs_n <= 192
       /\ arg.m \div nthrs_m >= 768 /\ nthrs_m < 4

Grid2d(nthrs, arg) ==
    LET Stops(e) == ~MoreRows(nthrs, arg, 2^e, nthrs \div 2^e)
        e1 == CHOOSE e \in 0 .. 7 : Stops(e) /\ \A d \in 0 .. e - 1 : ~Stops(d)
    IN  Opts("col_major_2d", "nonshared", 2^e1, nthrs \div 2^e1)

\* Mutant: a grid of bands also where there are many threads for few columns.
Wide2d(nthrs, arg) == is_int8(arg) /\ 256 * arg.m > nthrs * arg.n

condition_2D_bsrc(nthrs, arg) ==
    IF is_int8(arg)
    THEN 256 * arg.m > nthrs * arg.n /\ nthrs * arg.m < 256 * arg.n
    ELSE /\ ~(~arg.avx512 /\ arg.n <= 384 /\ arg.m >= nthrs * 384)
         /\ arg.n > nthrs * 384 \/ arg.n <= nthrs * 192
         /\ arg.m >= 768

condition_1D_copya(nthrs, arg) ==
    \/ /\ arg.m >= 1000
       /\ arg.n >= IF arg.avx512 THEN nthrs * (IF is_int8(arg) THEN 68 ELSE 96)
                   ELSE 4000
    \/ is_int8(arg) /\ arg.ao

set_thread_opts_nopack(nthrs, arg) ==
    IF condition_1D_copya(nthrs, arg) /\ arg.syncable
    THEN Opts("col_1d", "shared_a", 1, nthrs)
    ELSE IF condition_2D_bsrc(nthrs, arg) /\ ~condition_1D_copya(nthrs, arg)
    THEN IF is_int8(arg) /\ arg.n \in 65 .. 255
         THEN set_thread_opts_pack(nthrs, arg, FALSE)
         ELSE Grid2d(nthrs, arg)
    ELSE IF arg.m > arg.n
            /\ (arg.m >= nthrs * get_vector_length(arg) \/ arg.n < nthrs)
    THEN Opts("row_1d", "nonshared", nthrs, 1)
    ELSE Opts("col_1d", "nonshared", 1, nthrs)

\* The sizes per thread are those of the copying drivers only.
set_thread_opts(nthrs, arg) ==
    IF nocopy_checker(nthrs, arg)
    THEN LET g == calc_nthr_nocopy(arg.avx512, arg.m, arg.n, arg.k, nthrs)
         IN  [Opts("mnk_3d", "no_copy", g.nthr_m, g.nthr_n)
                  EXCEPT !.nthrs_k = g.nthr_k]
    ELSE IF arg.packing /\ is_int8(arg) THEN set_thread_opts_pack(nthrs, arg, TRUE)
    ELSE set_thread_opts_nopack(nthrs, arg)

get_thread_slice(t, ithr, m, n, k) ==
    LET i == ithr % t.nthrs_m
        j == (ithr \div t.nthrs_m) % t.nthrs_n
        l == (ithr \div t.nthrs_m) \div t.nthrs_n
        Part(thread, x, size) == Span(x * thread, Least(thread, size - x * thread))
    IN  CASE t.partition = "row_1d" ->
                 [m |-> partition_1d(ithr, TeamSize(t), m), n |-> Span(0, n),
                  k |-> Span(0, k)]
          [] t.partition = "col_1d" ->
                 [m |-> Span(0, m), n |-> partition_1d(ithr, TeamSize(t), n),
                  k |-> Span(0, k)]
          [] t.partition = "col_major_2d" ->
                 partition_2d(ithr, i, j, t.nthrs_m, t.nthrs_n, m, n)
                     @@ [k |-> Span(0, k)]
          [] t.partition = "mnk_3d" ->
                 [m |-> Part(t.thread_m, i, m), n |-> Part(t.thread_n, j, n),
                  k |-> Part(t.thread_k, l, k)]

------------------------------------------------------------------------------
(* gemm_threading_driver: for packing, the partition is made first and its *)
(* product is the number of threads asked for; else each thread of the     *)
(* section makes it, for the team that there is.                           *)

Section(arg, nthr_goal, nthr_eff, threading) ==
    IF nocopy_checker(nthr_goal, arg) THEN [by |-> "nocopy"]
    ELSE IF nthr_goal = 1 \/ nthr_eff = 1 THEN [by |-> "one"]
    ELSE [by |-> "section", threading |-> threading]

PackingSection(arg, threading) ==
    Section(arg, TeamSize(threading), TeamSize(threading), threading)

gemm_route(arg, nthr_max, team) ==
    IF arg.packing THEN PackingSection(arg, set_thread_opts(nthr_max, arg))
    ELSE Section(arg, nthr_max, team, set_thread_opts(team, arg))
================================================================================

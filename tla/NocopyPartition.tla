--------------------------- MODULE NocopyPartition ---------------------------
(***************************************************************************)
(* How the no-copy sgemm splits an m x n x k problem among threads:        *)
(* calc_nthr_nocopy_avx(), calc_nthr_nocopy_avx512_common() and            *)
(* partition_unit_diff() (cpu/gemm/f32/gemm_utils_f32.cpp), where threads  *)
(* of a section can wait for each other (OpenMP).                          *)
(***************************************************************************)
EXTENDS Balance211, FiniteSetsExt

BM == 64         \* BM_NOCOPY_AVX
BN == 48         \* BN_NOCOPY_AVX
BK == 384        \* BK_NOCOPY_AVX
BMSmall == 16    \* BM_SMALL_NOCOPY_AVX
BNSmall == 1     \* BN_SMALL_NOCOPY_AVX
BKSmall == 4     \* BK_SMALL_NOCOPY_AVX

Least(a, b) == IF a <= b THEN a ELSE b

\* Threads along k: the last tried count that keeps 90% of the threads busy.
\* Only while m and n do not give work to all threads and parts stay long.
ThreadsK(mn, k, nthrs) ==
    Max({1} \cup { o \in 2 .. nthrs :
                     /\ mn * (o - 1) < nthrs
                     /\ k \div o > BK
                     /\ 10 * ((nthrs \div o) * o) > 9 * nthrs })

\* while (nthr_m * nthr_n > nthr): take one from the larger of the two.
Shrink(m0, n0, nthr) ==
    LET f[p \in (0 .. m0) \X (0 .. n0)] ==
            IF p[1] * p[2] <= nthr THEN p
            ELSE f[IF p[1] > p[2] THEN <<p[1] - 1, p[2]>> ELSE <<p[1], p[2] - 1>>]
    IN  f[<<m0, n0>>]

\* while (nthr_m * nthr_n < nthr): add one to the smaller of the two.
Grow(m0, n0, nthr) ==
    LET f[p \in (m0 .. m0 + nthr) \X (n0 .. n0 + nthr)] ==
            IF p[1] * p[2] >= nthr THEN p
            ELSE f[IF p[1] < p[2] THEN <<p[1] + 1, p[2]>> ELSE <<p[1], p[2] + 1>>]
    IN  f[<<m0, n0>>]

\* The largest count not above the square root that divides nthr and still
\* leaves a small block to each thread.
Divisor(nthr, blocks) ==
    Max({1} \cup { a \in 1 .. blocks : a * a <= nthr /\ nthr % a = 0 })

\* "if nothing works out, then this should work": a factorisation of nthr.
Factors(p, m, n, nthr) ==
    IF p[1] <= p[2]
    THEN LET a == Divisor(nthr, DivUp(m, BMSmall)) IN <<a, nthr \div a>>
    ELSE LET b == Divisor(nthr, DivUp(n, BNSmall)) IN <<nthr \div b, b>>

\* Mutant: the overshoot of the two loops is left as it is.
Overshoot(p, m, n, nthr) == p

\* When the two loops overshoot.
Exact(p, m, n, nthr) ==
    IF p[1] * p[2] > nthr THEN Factors(p, m, n, nthr) ELSE p

ThreadsMN(m, n, nthr) ==
    LET m0 == DivUp(m, BM)
        n0 == DivUp(n, BN)
        n1 == IF m0 = 1 THEN nthr ELSE n0
        m1 == IF n1 = 1 THEN nthr ELSE m0
        p  == Shrink(m1, n1, nthr)
        q  == Grow(p[1], p[2], nthr)
    IN  IF q[1] > 1 /\ q[2] > 1 THEN Exact(q, m, n, nthr) ELSE q

\* Mutant: the thread counts are not adapted to the rounded block sizes.
KeepThreads(nthr, size, block) == nthr

\* Rounding the blocks up can leave threads without work: they are dropped.
DropIdle(nthr, size, block) ==
    IF block * nthr > size THEN DivUp(size, block) ELSE nthr

Blocked(mn, nk, m, n, k) ==
    LET MB == RndUp(DivUp(m, mn[1]), BMSmall)
        NB == RndUp(DivUp(n, mn[2]), BNSmall)
        KB == RndUp(DivUp(k, nk), BKSmall)
    IN  [ nthr_m |-> DropIdle(mn[1], m, MB), MB |-> MB,
          nthr_n |-> DropIdle(mn[2], n, NB), NB |-> NB,
          nthr_k |-> DropIdle(nk, k, KB),    KB |-> KB ]

calc_nthr_nocopy_avx(m, n, k, nthrs) ==
    LET nk == ThreadsK(DivUp(m, BM) * DivUp(n, BN), k, nthrs)
    IN  Blocked(ThreadsMN(m, n, nthrs \div nk), nk, m, n, k)

------------------------------------------------------------------------------
(* AVX-512: blocks of 32 x 64 x 192 (BM, BN, BK_NOCOPY_AVX512_COMMON), and *)
(* the same small blocks.                                                  *)

\* For narrow problems that are deeper than wide: up to a quarter of the
\* threads, dividing their number.
ThreadsK512(m, n, k, nthrs) ==
    IF n <= 128 /\ m <= 64 * nthrs /\ k > m /\ k > n
    THEN Max({1} \cup { a \in 1 .. Least(k \div 192, nthrs \div 4) : nthrs % a = 0 })
    ELSE 1

\* (float)1 / d lies above 1 / d: the next bit of its mantissa of 24 is set.
RoundsUp(d) ==
    LET p == CHOOSE e \in 0 .. 31 : 2^e >= d /\ (e = 0 \/ 2^(e - 1) < d)
        rest[i \in 0 .. 55] == IF i = 0 THEN 1 % d ELSE (2 * rest[i - 1]) % d
    IN  2 * rest[23 + p] > d

\* How often the larger of the two has its turn before the smaller one: their
\* quotient, which is one less where the reciprocal of a float came out low.
Ratio(m, n) ==
    IF m > n THEN m \div n
    ELSE IF n % m = 0 /\ RoundsUp(n \div m) THEN (n \div m) - 1 ELSE n \div m

\* while (nthr_m * nthr_n > 4 * nthr): halve both.
Halve(m, n, nthr) ==
    LET f[p \in (0 .. m) \X (0 .. n)] ==
            IF p[1] * p[2] <= 4 * nthr THEN p ELSE f[<<p[1] \div 2, p[2] \div 2>>]
        h == f[<<m, n>>]
    IN  << Max({1, h[1]}), Max({1, h[2]}) >>

\* Add step to one count, ratio times, then to the other once, until the product
\* is in the set goal; the one is m if m is the larger.  s[3] counts the turns.
Turns(p, ratio, step, goal) ==
    LET f[s \in Nat \X Nat \X Nat] ==
            LET next == IF s[3] < ratio THEN s[3] + 1 ELSE 0
            IN  IF s[1] * s[2] \in goal THEN <<s[1], s[2]>>
                ELSE f[IF (s[1] > s[2]) = (s[3] < ratio) THEN <<s[1] + step, s[2], next>>
                       ELSE <<s[1], s[2] + step, next>>]
    IN  f[<<p[1], p[2], 0>>]

ThreadsMN512(m, n, nthr) ==
    LET m0 == DivUp(m, 32)
        n0 == DivUp(n, 64)
        less == Turns(Halve(m0, n0, nthr), Ratio(m0, n0), -1, 0 .. nthr)
        more == Turns(less, Ratio(m0, n0), 1, {x \in Nat : 100 * x >= 95 * nthr})
    IN  Exact(more, m, n, nthr)

calc_nthr_nocopy_avx512_common(m, n, k, nthrs) ==
    LET nk == ThreadsK512(m, n, k, nthrs)
    IN  Blocked(ThreadsMN512(m, n, nthrs \div nk), nk, m, n, k)

calc_nthr_nocopy(avx512, m, n, k, nthrs) ==
    IF avx512 THEN calc_nthr_nocopy_avx512_common(m, n, k, nthrs)
    ELSE calc_nthr_nocopy_avx(m, n, k, nthrs)

------------------------------------------------------------------------------
\* Mutant: the tail is not handed out.
NoTailUnitDiff(ithr, nthr, n) ==
    LET band == IF n \div nthr = 0 THEN 1 ELSE n \div nthr
        off == band * ithr
    IN  IF off >= n THEN [off |-> 0, len |-> 0]
        ELSE [off |-> off, len |-> Least(band, n - off)]

\* The band of columns that thread ithr of nthr adds up.
partition_unit_diff(ithr, nthr, n) ==
    LET band == IF n \div nthr = 0 THEN 1 ELSE n \div nthr
        tail == IF n - band * nthr < 0 THEN 0 ELSE n - band * nthr
        off == IF ithr < tail THEN (band + 1) * ithr ELSE band * ithr + tail
        len == IF ithr < tail THEN band + 1 ELSE band
    IN  IF off >= n THEN [off |-> 0, len |-> 0]
        ELSE [off |-> off, len |-> Least(len, n - off)]
==============================================================================

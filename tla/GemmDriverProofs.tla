--------------------------- MODULE GemmDriverProofs ---------------------------
(***************************************************************************)
(* Proofs about the gemm driver: how its shares are worked out, for all    *)
(* sizes and numbers of threads; and about its section: the copy of A that *)
(* all threads make and read is complete and stays while it is read, and   *)
(* the parts along k are all added up when the call reports success, for   *)
(* every team, number of blocks and failure.                               *)
(***************************************************************************)
EXTENDS GemmDriver, WorkSharingProofs

------------------------------------------------------------------------------
(* How the shares of the driver are worked out.                            *)

\* What the thresholds read of a gemm_info_t.
Problem(arg) == /\ arg.m \in Nat \ {0} /\ arg.n \in Nat \ {0} /\ arg.k \in Nat
                /\ arg.transb \in BOOLEAN /\ arg.bad_ld \in BOOLEAN
                /\ arg.transa \in BOOLEAN /\ arg.avx512 \in BOOLEAN

\* k that is long for a team is long for a smaller one.
LEMMA TooDeepShrinks ==
    ASSUME NEW arg, Problem(arg), NEW nthr \in Nat, NEW goal \in Nat, nthr <= goal,
           TooDeep(goal, arg)
    PROVE  TooDeep(nthr, arg)
  BY SMT DEF Problem, TooDeep

\* A matrix of at most 64 rows, as the AVX2 checker has it for a disjunct, is
\* crude on AVX2 already.
LEMMA FewRowsAreCrude ==
    ASSUME NEW m \in 1 .. 64, NEW n \in Nat \ {0}
    PROVE  5000 * (m + n) >= 19 * m * n
  <1>1. m * n <= 64 * n
    BY SMT
  <1>2. 19 * m * n = 19 * (m * n)
    BY SMT
  <1> HIDE DEF Problem
  <1>3. ASSUME NEW p \in Nat, p <= 64 * n  PROVE  5000 * (m + n) >= 19 * p
    BY <1>3, SMT
  <1>4. m * n \in Nat
    BY SMT
  <1> QED
    BY <1>1, <1>2, <1>3, <1>4, SMT

LEMMA MonotoneAVX2 ==
    ASSUME NEW arg, Problem(arg), ~arg.avx512,
           NEW nthr \in Nat, NEW goal \in Nat, nthr <= goal,
           nocopy_checker_avx2(nthr, arg)
    PROVE  nocopy_checker_avx2(goal, arg)
  <1>1. CASE Crude(arg)
    BY <1>1 DEF nocopy_checker_avx2
  <1>2. CASE ~Crude(arg)
    <2>1. ~(arg.m <= 64)
      BY <1>2, FewRowsAreCrude, SMT DEF Crude, Problem
    <2>2. ~TooDeep(nthr, arg)
      BY <1>2 DEF nocopy_checker_avx2
    <2>3. ~TooDeep(goal, arg)
      BY <2>2, TooDeepShrinks
    <2>4. \/ arg.m <= 128 /\ arg.n <= 128
          \/ arg.n <= nthr * (IF arg.transb THEN 1 ELSE 16)
          \/ arg.k <= nthr * (IF arg.transb THEN 1 ELSE 2)
      BY <1>2, <2>1 DEF nocopy_checker_avx2
    <2>5. \/ arg.m <= 128 /\ arg.n <= 128
          \/ arg.n <= goal * (IF arg.transb THEN 1 ELSE 16)
          \/ arg.k <= goal * (IF arg.transb THEN 1 ELSE 2)
      BY <2>4, SMT DEF Problem
    <2> QED
      BY <2>3, <2>5 DEF nocopy_checker_avx2
  <1> QED
    BY <1>1, <1>2

LEMMA MonotoneAVX512 ==
    ASSUME NEW arg, Problem(arg), NEW nthr \in Nat, NEW goal \in Nat, nthr <= goal,
           nocopy_checker_avx512(nthr, arg)
    PROVE  nocopy_checker_avx512(goal, arg)
  <1>1. CASE Crude(arg)
    BY <1>1 DEF nocopy_checker_avx512
  <1>2. CASE ~Crude(arg)
    <2>1. /\ ~BadLd(arg)
          /\ ~TooDeep(nthr, arg)
          /\ \/ arg.m <= nthr * 28 /\ (~arg.transb \/ arg.m >= arg.n)
             \/ arg.n <= nthr * 28
             \/ arg.k <= nthr
      BY <1>2 DEF nocopy_checker_avx512
    <2>2. ~TooDeep(goal, arg)
      BY <2>1, TooDeepShrinks
    <2>3. \/ arg.m <= goal * 28 /\ (~arg.transb \/ arg.m >= arg.n)
          \/ arg.n <= goal * 28
          \/ arg.k <= goal
      BY <2>1, SMT DEF Problem
    <2> QED
      BY <2>1, <2>2, <2>3 DEF nocopy_checker_avx512
  <1> QED
    BY <1>1, <1>2

\* nocopy_checker is monotone in the number of threads: a problem that is sent to
\* the kernels that copy nothing with some team is sent there with a larger one.
\* gemm_threading_driver asks before it opens the section with the threads it
\* wants, and gemm_kernel_driver's caller asks again inside with those it got.
THEOREM NocopyMonotone ==
    ASSUME NEW arg, Problem(arg), NEW nthr \in Nat, NEW goal \in Nat, nthr <= goal,
           nocopy_checker(nthr, arg)
    PROVE  nocopy_checker(goal, arg)
  <1>1. CASE arg.avx512
    BY <1>1, MonotoneAVX512 DEF nocopy_checker
  <1>2. CASE ~arg.avx512
    BY <1>2, MonotoneAVX2 DEF nocopy_checker
  <1> QED
    BY <1>1, <1>2

------------------------------------------------------------------------------
(* partition_1d, with the width of a band hidden: nothing but its being a  *)
(* natural number matters to how the bands lie.                            *)

\* The part that thread t has of n when all but the last have bands of one width.
Strip(t, nthrs, band, n) ==
    IF t * band >= n THEN Span(0, 0)
    ELSE Span(t * band, Least(IF t < nthrs - 1 THEN band ELSE n - (nthrs - 1) * band,
                              n - t * band))

LEMMA BandIsNat ==
    ASSUME NEW n \in Nat, NEW nthrs \in Nat \ {0}
    PROVE  \E band \in Nat : \A t \in 0 .. nthrs - 1 :
               partition_1d(t, nthrs, n) = Strip(t, nthrs, band, n)
  <1> DEFINE b == n \div nthrs
             band == IF n - (nthrs - 1) * b > b + 1 THEN b + 1 ELSE b
  <1>1. b \in Nat
    BY SMT
  <1>2. band \in Nat
    BY <1>1
  <1>3. \A t \in 0 .. nthrs - 1 :
            partition_1d(t, nthrs, n) = Strip(t, nthrs, band, n)
    BY DEF partition_1d, Strip
  <1> QED
    BY <1>2, <1>3

\* A strip lies in 0 .. n, and it is empty or ends where the next begins at most.
LEMMA StripEnds ==
    ASSUME NEW n \in Nat, NEW nthrs \in Nat \ {0}, NEW band \in Nat,
           NEW t \in 0 .. nthrs - 1
    PROVE  LET s == Strip(t, nthrs, band, n)
           IN  /\ s.off \in 0 .. n /\ s.len \in 0 .. n /\ s.off + s.len <= n
               /\ s.len > 0 => s.off = t * band
               /\ t < nthrs - 1 => s.len <= band
  <1> DEFINE s == Strip(t, nthrs, band, n)
             p == t * band
             q == (nthrs - 1) * band
  <1>1. p \in Nat /\ q \in Nat
    BY SMT
  <1>2. t = nthrs - 1 => p = q
    BY SMT
  <1>3. s = IF p >= n THEN Span(0, 0)
            ELSE Span(p, Least(IF t < nthrs - 1 THEN band ELSE n - q, n - p))
    BY DEF Strip
  <1> HIDE DEF s, p, q
  <1>4. /\ s.off \in 0 .. n /\ s.len \in 0 .. n /\ s.off + s.len <= n
        /\ s.len > 0 => s.off = p
        /\ t < nthrs - 1 => s.len <= band
    BY <1>1, <1>2, <1>3, SMT DEF Span, Least
  <1> QED
    BY <1>4 DEF s, p

\* Strips of two threads have no row in common.
LEMMA StripsDisjoint ==
    ASSUME NEW n \in Nat, NEW nthrs \in Nat \ {0}, NEW band \in Nat,
           NEW t \in 0 .. nthrs - 1, NEW u \in 0 .. nthrs - 1, t < u,
           Strip(t, nthrs, band, n).len > 0, Strip(u, nthrs, band, n).len > 0
    PROVE  Strip(t, nthrs, band, n).off + Strip(t, nthrs, band, n).len
               <= Strip(u, nthrs, band, n).off
  <1>1. /\ Strip(t, nthrs, band, n).off = t * band
        /\ Strip(t, nthrs, band, n).len <= band
        /\ Strip(t, nthrs, band, n).len \in Nat
    BY StripEnds, SMT
  <1>2. Strip(u, nthrs, band, n).off = u * band
    BY StripEnds
  <1>3. t * band + band <= u * band
    <2>1. PICK d \in Nat : u = t + 1 + d
      <3>1. u - t - 1 \in Nat /\ u = t + 1 + (u - t - 1)
        BY SMT
      <3> QED
        BY <3>1
    <2>2. u * band = t * band + band + d * band
      BY <2>1, SMT
    <2>3. d * band \in Nat /\ t * band \in Nat
      BY SMT
    <2> QED
      BY <2>2, <2>3, SMT
  <1>4. t * band \in Nat /\ u * band \in Nat
    BY SMT
  <1> QED
    BY <1>1, <1>2, <1>3, <1>4, SMT

\* Every row is in the strip of some thread.
LEMMA StripsCover ==
    ASSUME NEW n \in Nat, NEW nthrs \in Nat \ {0}, NEW band \in Nat,
           NEW row \in 0 .. n - 1
    PROVE  \E t \in 0 .. nthrs - 1 :
               LET s == Strip(t, nthrs, band, n)
               IN  s.off <= row /\ row < s.off + s.len
  <1> DEFINE q == (nthrs - 1) * band
  <1>1. q \in Nat
    BY SMT
  <1>2. CASE row >= q
    <2>1. Strip(nthrs - 1, nthrs, band, n) = Span(q, n - q)
      <3>1. ~((nthrs - 1) * band >= n)
        BY <1>1, <1>2, SMT
      <3>2. Strip(nthrs - 1, nthrs, band, n) = Span(q, Least(n - q, n - q))
        BY <3>1 DEF Strip
      <3> QED
        BY <3>2 DEF Least
    <2>2. q <= row /\ row < q + (n - q)
      BY <1>1, <1>2, SMT
    <2> QED
      BY <2>1, <2>2 DEF Span
  <1>3. CASE row < q
    <2>1. band > 0
      <3>1. band = 0 => q = 0
        BY SMT
      <3> QED
        BY <1>3, <3>1, SMT
    <2> DEFINE t == row \div band
               p == t * band
    <2>2. t \in Nat /\ p <= row /\ row < p + band
      BY <2>1, SMT
    <2>3. t < nthrs - 1
      <3>1. SUFFICES ASSUME t >= nthrs - 1  PROVE FALSE
        BY <2>2, SMT
      <3>2. t * band >= (nthrs - 1) * band
        BY <2>1, <2>2, <3>1, SMT
      <3> QED
        BY <1>3, <2>2, <3>2, SMT
    <2>4. Strip(t, nthrs, band, n) = Span(p, Least(band, n - p))
      <3>1. p \in Int /\ ~(p >= n)
        BY <2>2, SMT
      <3> QED
        BY <2>3, <3>1 DEF Strip
    <2>5. p \in Int
      BY <2>2, SMT
    <2> HIDE DEF t, p
    <2>6. p <= row /\ row < p + Least(band, n - p)
      BY <2>2, <2>5, SMT DEF Least
    <2>7. t \in 0 .. nthrs - 1
      BY <2>2, <2>3, SMT
    <2> QED
      BY <2>4, <2>6, <2>7 DEF Span
  <1> QED
    BY <1>1, <1>2, <1>3, SMT

\* partition_1d gives each of n rows (or columns) to exactly one of the threads,
\* however many there are: none is computed twice and none is left out. The last
\* thread takes what remains and threads past the end get nothing.
THEOREM Partition1dTiles ==
    ASSUME NEW n \in Nat, NEW nthrs \in Nat \ {0}, NEW row \in 0 .. n - 1
    PROVE  LET Has(t) == LET s == partition_1d(t, nthrs, n)
                         IN  s.off <= row /\ row < s.off + s.len
           IN  /\ \E t \in 0 .. nthrs - 1 : Has(t)
               /\ \A t, u \in 0 .. nthrs - 1 : Has(t) /\ Has(u) => t = u
  <1>1. PICK band \in Nat : \A t \in 0 .. nthrs - 1 :
            partition_1d(t, nthrs, n) = Strip(t, nthrs, band, n)
    BY BandIsNat
  <1>2. \E t \in 0 .. nthrs - 1 :
            LET s == Strip(t, nthrs, band, n) IN s.off <= row /\ row < s.off + s.len
    BY StripsCover
  <1>3. ASSUME NEW t \in 0 .. nthrs - 1, NEW u \in 0 .. nthrs - 1, t < u,
               Strip(t, nthrs, band, n).off <= row,
               row < Strip(t, nthrs, band, n).off + Strip(t, nthrs, band, n).len,
               Strip(u, nthrs, band, n).off <= row,
               row < Strip(u, nthrs, band, n).off + Strip(u, nthrs, band, n).len
        PROVE  FALSE
    <2> DEFINE s == Strip(t, nthrs, band, n)
               v == Strip(u, nthrs, band, n)
    <2>1. s.off \in Nat /\ s.len \in Nat /\ v.off \in Nat /\ v.len \in Nat
      <3>1. \A w \in 0 .. nthrs - 1 :
               Strip(w, nthrs, band, n).off \in Nat /\ Strip(w, nthrs, band, n).len \in Nat
        BY StripEnds
      <3> QED
        BY <3>1
    <2>2. s.len > 0 /\ v.len > 0
      BY <1>3, <2>1, SMT
    <2>3. s.off + s.len <= v.off
      BY <1>3, <2>2, StripsDisjoint
    <2> QED
      BY <1>3, <2>1, <2>3, SMT
  <1>4. \A t, u \in 0 .. nthrs - 1 : t < u \/ u < t \/ t = u
    BY SMT
  <1> QED
    BY <1>1, <1>2, <1>3, <1>4

------------------------------------------------------------------------------
(* The blocks of a partition in three dimensions.                          *)

LEMMA DivUpCovers ==
    ASSUME NEW a \in Nat, NEW b \in Nat \ {0}
    PROVE  DivUp(a, b) \in Nat /\ a <= b * DivUp(a, b) /\ b * DivUp(a, b) < a + b
  <1>1. (a + b - 1) \in Nat
    BY SMT
  <1> QED
    BY <1>1, SMT DEF DivUp

LEMMA TimesMonotone ==
    ASSUME NEW a \in Nat, NEW x \in Nat, NEW y \in Nat, x <= y
    PROVE  a * x <= a * y
  BY SMT

LEMMA RndUpBounds ==
    ASSUME NEW a \in Nat, NEW b \in Nat \ {0}
    PROVE  RndUp(a, b) \in Nat /\ a <= RndUp(a, b)
  <1>1. DivUp(a, b) \in Nat /\ a <= b * DivUp(a, b)
    BY DivUpCovers
  <1> HIDE DEF DivUp
  <1>2. RndUp(a, b) = b * DivUp(a, b)
    BY <1>1, SMT DEF RndUp
  <1> QED
    BY <1>1, <1>2, SMT

\* Rounding a share to whole blocks, and these to the alignment, never cuts it.
LEMMA RoundedShare ==
    ASSUME NEW share \in Nat, NEW num_blk \in Nat \ {0}, NEW align \in Nat \ {0}
    PROVE  RoundBlocks(share, num_blk, align) \in Nat
           /\ share <= RoundBlocks(share, num_blk, align)
  <1> DEFINE one == DivUp(share, num_blk)
             whole == RndUp(one, align)
  <1>1. one \in Nat /\ share <= num_blk * one
    BY DivUpCovers
  <1>2. whole \in Nat /\ one <= whole
    BY <1>1, RndUpBounds
  <1>3. RoundBlocks(share, num_blk, align) = num_blk * whole
    BY DEF RoundBlocks
  <1> HIDE DEF one, whole
  <1>4. num_blk * one <= num_blk * whole
    BY <1>1, <1>2, TimesMonotone
  <1>5. num_blk * one \in Nat /\ num_blk * whole \in Nat
    BY <1>1, <1>2, SMT
  <1> QED
    BY <1>1, <1>3, <1>4, <1>5, SMT

\* choose_blocking cuts a dimension into blocks of which every thread it keeps has
\* one and no more: the blocks cover the dimension, and the last of them begins
\* before its end, so that no thread of the grid is left without work.
THEOREM BlocksCover ==
    ASSUME NEW size \in Nat \ {0}, NEW nthr \in Nat \ {0},
           NEW block_init \in Nat \ {0}, NEW align \in Nat \ {0}
    PROVE  LET b == choose_blocking(size, nthr, block_init, align)
           IN  /\ b.nthr \in 1 .. nthr /\ b.thread \in Nat \ {0}
               /\ size <= b.thread * b.nthr
               /\ b.thread * (b.nthr - 1) < size
  <1> DEFINE share == DivUp(size, nthr)
             num_blk == DivUp(share, block_init)
             thread == RoundBlocks(share, num_blk, align)
             fewer == DivUp(size, thread)
  <1>1. share \in Nat \ {0} /\ size <= nthr * share
    <2>1. share \in Nat /\ size <= nthr * share
      BY DivUpCovers
    <2>2. share = 0 => nthr * share = 0
      BY SMT
    <2> QED
      BY <2>1, <2>2, SMT
  <1>2. num_blk \in Nat \ {0}
    <2>1. num_blk \in Nat /\ share <= block_init * num_blk
      BY <1>1, DivUpCovers
    <2>2. num_blk = 0 => block_init * num_blk = 0
      BY SMT
    <2> QED
      BY <1>1, <2>1, <2>2, SMT
  <1>3. thread \in Nat \ {0} /\ share <= thread
    <2>1. thread \in Nat /\ share <= thread
      BY <1>1, <1>2, RoundedShare
    <2> HIDE DEF share, num_blk, thread
    <2> QED
      BY <1>1, <2>1, SMT
  <1>4. fewer \in Nat /\ size <= thread * fewer /\ thread * fewer < size + thread
    BY <1>3, DivUpCovers
  <1>5. choose_blocking(size, nthr, block_init, align)
            = [thread |-> thread,
               nthr |-> IF thread * nthr > size THEN fewer ELSE nthr]
    BY DEF choose_blocking, FitThreads
  <1> HIDE DEF share, num_blk, thread, fewer
  <1>6. size <= thread * nthr
    <2>1. nthr * share <= nthr * thread
      BY <1>1, <1>3, TimesMonotone
    <2>2. nthr * share \in Nat /\ nthr * thread \in Nat /\ thread * nthr = nthr * thread
      BY <1>1, <1>3, SMT
    <2> QED
      BY <1>1, <2>1, <2>2, SMT
  <1>7. CASE thread * nthr > size
    <2>1. fewer \in 1 .. nthr
      <3>1. fewer # 0
        <4>1. fewer = 0 => thread * fewer = 0
          BY <1>3, SMT
        <4> QED
          BY <1>4, <4>1, SMT
      <3>2. SUFFICES ASSUME fewer >= nthr + 1  PROVE FALSE
        BY <1>4, <3>1, SMT
      <3>3. thread * (nthr + 1) <= thread * fewer
        BY <1>3, <1>4, <3>2, TimesMonotone
      <3>4. thread * (nthr + 1) = thread * nthr + thread /\ thread * nthr \in Nat
            /\ thread * fewer \in Nat
        BY <1>3, <1>4, SMT
      <3> QED
        BY <1>3, <1>4, <1>7, <3>3, <3>4, SMT
    <2>2. thread * (fewer - 1) = thread * fewer - thread /\ thread * fewer \in Nat
      BY <1>3, <1>4, SMT
    <2>3. thread * (fewer - 1) < size
      BY <1>3, <1>4, <2>2, SMT
    <2> QED
      BY <1>3, <1>4, <1>5, <1>7, <2>1, <2>3
  <1>8. CASE ~(thread * nthr > size)
    <2>1. thread * nthr = size
      BY <1>3, <1>6, <1>8, SMT
    <2>2. thread * (nthr - 1) = thread * nthr - thread
      BY <1>3, SMT
    <2>3. thread * (nthr - 1) < size /\ nthr \in 1 .. nthr
      BY <1>3, <2>1, <2>2, SMT
    <2> QED
      BY <1>3, <1>5, <1>6, <1>8, <2>3
  <1> QED
    BY <1>7, <1>8


------------------------------------------------------------------------------
(* The copy of A.                                                          *)

\* The calls in which threads copy A together.
Together == call.shared /\ ~call.a_packed

Reading == {"copy", "copied", "kernel", "computing"}
Filled == {"copied", "kernel", "computing", "computed", "iterated"}
Inside == Reading \cup Filled
Places == {"start", "compute", "sum", "alloc", "allocated", "next", "end"} \cup Inside

TypeOK ==
    /\ call \in Calls
    /\ team \in 1 .. MaxThreads
    /\ phase \in {"first", "second", "returned"}
    /\ at \in [AllThreads -> Places]
    /\ ithr \in [AllThreads -> Nat]
    /\ it \in [AllThreads -> Nat]
    /\ arrived \in [AllThreads -> Nat]
    /\ bufferA \in [Shares -> Nat]
    /\ mem \in {"none", "null", "live"}

\* All turns are over, or there was no memory for any.
Done(t) == arrived[t] = 2 * call.iters + 1 \/ mem = "null"

\* Each place has its number of barriers; a thread has one share, its own.
PlaceOK(t) ==
    /\ at[t] \in {"start", "alloc", "allocated", "next", "end"} \cup Inside
    /\ at[t] = "start" => \/ ithr[t] = t /\ arrived[t] = 0
                          \/ ithr[t] >= nthr_eff /\ Done(t)
    /\ at[t] = "alloc" => arrived[t] = 0 /\ it[t] = 1
    /\ at[t] = "allocated" => arrived[t] = 1 /\ it[t] = 1
    /\ at[t] = "copy" => arrived[t] = 2 * it[t] - 1
    /\ at[t] \in {"copied", "kernel", "computing"} => arrived[t] = 2 * it[t]
    /\ at[t] \in {"computed", "iterated"} => arrived[t] = 2 * it[t] + 1
    /\ at[t] = "next" => Done(t)
    /\ at[t] = "end" => Done(t) \/ arrived[t] = 0
    /\ at[t] \in {"alloc", "allocated", "next"} \cup Inside =>
           ithr[t] = t /\ t < nthr_eff
    /\ at[t] \in Inside => it[t] \in 1 .. call.iters
    /\ at[t] \in Filled => bufferA[t] = it[t]

\* The barriers that thread t has left.
Passed(t) == IF AtBarrier(t) THEN arrived[t] - 1 ELSE arrived[t]

\* Nobody has left a barrier that another thread has not reached.
Behind == \A t, u \in Team : Passed(t) <= arrived[u]

\* Thread 0 allocates before its first barrier and frees after its last.
MemoryOK ==
    /\ arrived[0] = 0 => mem = "none"
    /\ mem = "none" => arrived[0] = 0 \/ Passed(0) = 2 * call.iters + 1
    /\ at[0] \in {"computed", "iterated"} => mem = "live"
    /\ \A t \in Team : /\ at[t] \in Reading => mem = "live"
                       /\ at[t] \in Inside => mem # "null"

FirstOK == /\ nthr_eff <= team
           /\ \A t \in Team : PlaceOK(t)
           /\ Behind
           /\ MemoryOK

LaterOK == \A t \in Team : at[t] \in {"start", "sum", "next", "end"}

\* The inductive invariant.
CopyInv == /\ TypeOK
           /\ phase = "first" /\ Together => FirstOK
           /\ phase # "first" => LaterOK

------------------------------------------------------------------------------
(* What the constants give, and what a step does not touch.                *)

LEMMA CallFacts ==
    ASSUME TypeOK
    PROVE  /\ call.goal \in 1 .. MaxThreads /\ call.iters \in Nat \ {0}
           /\ nthr_eff \in 1 .. call.goal
           /\ Shares = 0 .. call.goal - 1
           /\ Team \subseteq AllThreads /\ 0 \in Team
           /\ \A t \in Team : t \in Nat
  <1>1. call.goal \in 1 .. MaxThreads /\ call.iters \in Nat \ {0}
    BY CallAssumption DEF TypeOK
  <1>2. team \in 1 .. MaxThreads /\ MaxThreads \in Nat
    BY BoundAssumption DEF TypeOK
  <1>3. nthr_eff \in 1 .. call.goal
    BY <1>1, <1>2 DEF nthr_eff, Least
  <1> QED
    BY <1>1, <1>2, <1>3 DEF Shares, Team, AllThreads

\* The type invariant holds at first, and steps of threads preserve it.
LEMMA TypeInit == Init => TypeOK
  <1> SUFFICES ASSUME Init PROVE TypeOK
    OBVIOUS
  <1>1. team \in 1 .. MaxThreads
    BY CallAssumption, BoundAssumption DEF Init
  <1> QED
    BY <1>1, BoundAssumption DEF Init, TypeOK, Places, AllThreads

LEMMA TypeStep ==
    ASSUME TypeOK, NEW t \in Team, Step(t)
    PROVE  TypeOK' /\ UNCHANGED section
  <1> USE DEF Goto, Arrive, Fail, Places, Inside, Reading, Filled, section, data
  <1>0. t \in AllThreads /\ t \in Nat /\ team \in Nat
    BY CallFacts, BoundAssumption DEF TypeOK
  <1>1. CASE TakeShare(t)
    BY <1>0, <1>1 DEF TypeOK, TakeShare, Shares, AllThreads
  <1>2. CASE NextShare(t)
    BY <1>0, <1>2 DEF TypeOK, NextShare, Shares, AllThreads
  <1>3. CASE Compute(t)
    BY <1>0, <1>3 DEF TypeOK, Compute, Shares, AllThreads
  <1>4. CASE sum_k_blocks(t)
    BY <1>0, <1>4 DEF TypeOK, sum_k_blocks, Shares, AllThreads
  <1>5. CASE Spin(t)
    BY <1>5 DEF TypeOK, Spin, vars, place, Shares, AllThreads
  <1>6. CASE Alloc(t)
    BY <1>0, <1>6 DEF TypeOK, Alloc, Shares, AllThreads
  <1>7. CASE Wait(t)
    BY <1>7 DEF TypeOK, Wait, vars, place, Shares, AllThreads
  <1>8. CASE Allocated(t)
    BY <1>0, <1>8 DEF TypeOK, Allocated, Shares, AllThreads
  <1>9. CASE Copy(t)
    <2>1. it[t] \in Nat /\ arrived[t] + 1 \in Nat
      BY <1>0 DEF TypeOK
    <2>2. bufferA' \in [Shares -> Nat]
      <3>1. bufferA' = [bufferA EXCEPT ![ithr[t]] = it[t]]
        BY <1>9 DEF Copy
      <3> QED
        BY <3>1, <2>1 DEF TypeOK
    <2>3. at' \in [AllThreads -> Places] /\ arrived' \in [AllThreads -> Nat]
      BY <1>0, <1>9, <2>1 DEF TypeOK, Copy
    <2>4. UNCHANGED <<call, team, phase, ithr, it, mem>>
      BY <1>9 DEF Copy
    <2> QED
      BY <2>2, <2>3, <2>4 DEF TypeOK, Shares
  <1>10. CASE Copied(t)
    BY <1>0, <1>10 DEF TypeOK, Copied, Shares, AllThreads
  <1>11. CASE Kernel(t)
    BY <1>0, <1>11 DEF TypeOK, Kernel, AfterKernel, Shares, AllThreads
  <1>12. CASE KernelDone(t)
    BY <1>0, <1>12 DEF TypeOK, KernelDone, AfterKernel, Shares, AllThreads
  <1>13. CASE Computed(t)
    BY <1>0, <1>13 DEF TypeOK, Computed, Shares, AllThreads
  <1>14. CASE Iterated(t)
    BY <1>0, <1>14 DEF TypeOK, Iterated, Shares, AllThreads
  <1> QED
    BY <1>1, <1>2, <1>3, <1>4, <1>5, <1>6, <1>7, <1>8, <1>9, <1>10, <1>11,
       <1>12, <1>13, <1>14 DEF Step

------------------------------------------------------------------------------
(* The other threads.                                                      *)

\* A step of t leaves the place of u as it is.
Apart(u) == /\ at'[u] = at[u] /\ ithr'[u] = ithr[u] /\ it'[u] = it[u]
            /\ arrived'[u] = arrived[u] /\ (u < nthr_eff => bufferA'[u] = bufferA[u])

LEMMA OthersStay ==
    ASSUME TypeOK, NEW u, PlaceOK(u), Apart(u), UNCHANGED section,
           mem = "null" => mem' = "null"
    PROVE  PlaceOK(u)'
  <1>1. nthr_eff' = nthr_eff /\ call' = call
    BY DEF section, nthr_eff
  <1>2. at[u] \in Filled => u < nthr_eff
    BY DEF PlaceOK, Inside
  <1>3. Done(u) => Done(u)'
    BY <1>1 DEF Done, Apart
  <1> QED
    BY <1>1, <1>2, <1>3 DEF PlaceOK, Apart

\* A barrier is left only by those that everyone has reached.
LEMMA BehindStep ==
    ASSUME TypeOK, TypeOK', Behind, UNCHANGED section, NEW t \in Team,
           \A u \in Team : u # t => at'[u] = at[u] /\ arrived'[u] = arrived[u],
           arrived[t] <= arrived'[t],
           \/ Passed(t)' = Passed(t)
           \/ arrived'[t] = arrived[t] /\ Released(t) /\ Passed(t)' = arrived[t]
    PROVE  Behind'
  <1>1. Team' = Team
    BY DEF section, Team
  <1>2. SUFFICES ASSUME NEW u \in Team, NEW v \in Team
                 PROVE  Passed(u)' <= arrived'[v]
    BY <1>1 DEF Behind
  <1>3. /\ arrived[v] \in Nat /\ arrived'[v] \in Nat /\ arrived[v] <= arrived'[v]
        /\ arrived[u] \in Nat /\ arrived'[u] \in Nat
    <2>1. u \in AllThreads /\ v \in AllThreads
      BY CallFacts
    <2>2. /\ arrived[u] \in Nat /\ arrived[v] \in Nat
          /\ arrived'[u] \in Nat /\ arrived'[v] \in Nat
      BY <2>1 DEF TypeOK, AllThreads
    <2> QED
      BY <2>2
  <1>4. Passed(u) <= arrived[v] /\ Passed(u) \in Int
    BY <1>3 DEF Behind, Passed
  <1>5. CASE u # t
    <2>1. Passed(u)' = Passed(u)
      BY <1>5 DEF Passed, AtBarrier
    <2> QED
      BY <2>1, <1>3, <1>4
  <1>6. CASE u = t /\ Passed(t)' = Passed(t)
    BY <1>6, <1>3, <1>4
  <1>7. CASE u = t /\ Passed(t)' = arrived[t] /\ Released(t)
    <2>1. arrived[t] <= arrived[v]
      BY <1>7, <1>3 DEF Released
    <2> QED
      BY <2>1, <1>3, <1>7
  <1> QED
    BY <1>5, <1>6, <1>7

\* What a step of t has to show, when only t moves.
Alone(t) == \A u \in Team \ {t} : Apart(u)

LEMMA FirstFrom ==
    ASSUME TypeOK, TypeOK', FirstOK, UNCHANGED section, NEW t \in Team, Alone(t),
           mem = "null" => mem' = "null",
           PlaceOK(t)', MemoryOK',
           arrived[t] <= arrived'[t],
           \/ Passed(t)' = Passed(t)
           \/ arrived'[t] = arrived[t] /\ Released(t) /\ Passed(t)' = arrived[t]
    PROVE  FirstOK'
  <1>1. Team' = Team /\ nthr_eff' = nthr_eff /\ team' = team
    BY DEF section, Team, nthr_eff
  <1>2. \A u \in Team : PlaceOK(u)'
    BY OthersStay DEF FirstOK, Alone
  <1>3. Behind'
    BY BehindStep DEF FirstOK, Alone, Apart
  <1> QED
    BY <1>1, <1>2, <1>3 DEF FirstOK

\* The copy is there for a thread that is past its first barrier and not past
\* the last.
LEMMA MemoryLive ==
    ASSUME TypeOK, FirstOK, NEW t \in Team, mem # "null",
           1 <= Passed(t), arrived[t] <= 2 * call.iters
    PROVE  mem = "live"
  <1>1. 0 \in Team /\ arrived[0] \in Nat /\ arrived[t] \in Nat /\ call.iters \in Nat
    BY CallFacts DEF TypeOK
  <1>2. Passed(t) <= arrived[0] /\ Passed(0) <= arrived[t]
    BY <1>1 DEF FirstOK, Behind
  <1>3. Passed(t) \in Int /\ Passed(0) \in Int
    BY <1>1 DEF Passed
  <1>4. arrived[0] # 0 /\ Passed(0) # 2 * call.iters + 1
    BY <1>1, <1>2, <1>3
  <1> QED
    BY <1>4 DEF FirstOK, MemoryOK, TypeOK

\* Memory that a step leaves alone stays as good, if thread t may read it after.
LEMMA MemoryKept ==
    ASSUME TypeOK, FirstOK, UNCHANGED section, mem' = mem, NEW t \in Team, Alone(t),
           arrived'[t] = 0 => arrived[t] = 0,
           t = 0 => \/ Passed(0)' = Passed(0) /\ arrived[0] # 0
                    \/ mem = "live"
                    \/ arrived'[0] = 0
                    \/ mem = "null",
           t = 0 /\ at'[0] \in {"computed", "iterated"} => mem = "live",
           at'[t] \in Reading => mem = "live",
           at'[t] \in Inside => mem # "null"
    PROVE  MemoryOK'
  <1>1. Team' = Team /\ call' = call
    BY DEF section, Team
  <1>2. \A u \in Team \ {t} : at'[u] = at[u] /\ arrived'[u] = arrived[u]
                              /\ Passed(u)' = Passed(u)
    BY DEF Alone, Apart, Passed, AtBarrier
  <1>3. 0 \in Team
    BY CallFacts
  <1>4. arrived'[0] = 0 => mem' = "none"
    BY <1>2, <1>3 DEF FirstOK, MemoryOK
  <1>5. mem' = "none" => arrived'[0] = 0 \/ Passed(0)' = 2 * call'.iters + 1
    BY <1>1, <1>2, <1>3 DEF FirstOK, MemoryOK
  <1>6. at'[0] \in {"computed", "iterated"} => mem' = "live"
    BY <1>2, <1>3 DEF FirstOK, MemoryOK
  <1>7. \A u \in Team : /\ at'[u] \in Reading => mem' = "live"
                        /\ at'[u] \in Inside => mem' # "null"
    BY <1>2 DEF FirstOK, MemoryOK
  <1> QED
    BY <1>1, <1>4, <1>5, <1>6, <1>7 DEF MemoryOK

------------------------------------------------------------------------------
(* The steps of a thread in the first section of a call that copies A      *)
(* together.                                                               *)

\* The values a step of t starts from.
LEMMA OwnFacts ==
    ASSUME TypeOK, FirstOK, NEW t \in Team
    PROVE  /\ t \in Nat /\ t \in AllThreads /\ 0 \in Team
           /\ at[t] \in Places /\ ithr[t] \in Nat /\ it[t] \in Nat
           /\ arrived[t] \in Nat /\ arrived[0] \in Nat /\ Passed(t) \in Int
           /\ nthr_eff \in Nat \ {0} /\ nthr_eff <= team /\ team \in Nat
           /\ call.iters \in Nat \ {0} /\ call.goal \in Nat
           /\ PlaceOK(t) /\ MemoryOK
           /\ t < nthr_eff => t \in Shares
  <1>1. t \in AllThreads /\ 0 \in AllThreads /\ t \in Nat
    BY CallFacts
  <1>2. arrived[t] \in Nat /\ arrived[0] \in Nat
    BY <1>1 DEF TypeOK
  <1>3. nthr_eff \in 1 .. call.goal /\ call.goal \in 1 .. MaxThreads /\ MaxThreads \in Nat
    BY CallFacts, BoundAssumption
  <1>4. team \in Nat
    BY BoundAssumption DEF TypeOK
  <1>5. t < nthr_eff => t \in Shares
    BY <1>1, <1>3 DEF Shares
  <1>6. at[t] \in Places /\ ithr[t] \in Nat /\ it[t] \in Nat
    BY <1>1 DEF TypeOK
  <1>7. Passed(t) \in Int
    BY <1>2 DEF Passed
  <1>8. nthr_eff \in Nat \ {0} /\ call.goal \in Nat
    BY <1>3
  <1>9. nthr_eff <= team /\ PlaceOK(t) /\ MemoryOK
    BY DEF FirstOK
  <1>10. 0 \in Team /\ call.iters \in Nat \ {0}
    BY CallFacts
  <1> QED
    BY <1>1, <1>2, <1>4, <1>5, <1>6, <1>7, <1>8, <1>9, <1>10

LEMMA StepTakeShare ==
    ASSUME TypeOK, TypeOK', FirstOK, Together, phase = "first", UNCHANGED section,
           NEW t \in Team, TakeShare(t)
    PROVE  FirstOK'
  <1> USE OwnFacts DEF Goto, data, section
  <1>1. Alone(t) /\ mem' = mem /\ arrived' = arrived /\ ithr' = ithr /\ bufferA' = bufferA
    BY CallFacts DEF TakeShare, Alone, Apart, TypeOK
  <1>2. at[t] = "start" /\ it'[t] = 1
    BY DEF TakeShare, TypeOK
  <1>3. at'[t] = IF ithr[t] >= nthr_eff THEN "end" ELSE "alloc"
    BY DEF TakeShare, Together, TypeOK
  <1>4. nthr_eff' = nthr_eff /\ call' = call
    BY DEF nthr_eff
  <1>5. PlaceOK(t)'
    BY <1>1, <1>2, <1>3, <1>4 DEF PlaceOK, Done, Inside, Reading, Filled
  <1>6. Passed(t)' = Passed(t)
    BY <1>1, <1>2, <1>3 DEF Passed, AtBarrier
  <1>7. MemoryOK'
    <2>1. t = 0 => (Passed(0)' = Passed(0) /\ arrived[0] # 0) \/ arrived'[0] = 0
      BY <1>1, <1>6
    <2> QED
      BY <2>1, <1>1, <1>3, MemoryKept DEF Reading, Inside, Filled
  <1> QED
    BY <1>1, <1>5, <1>6, <1>7, FirstFrom

LEMMA StepNextShare ==
    ASSUME TypeOK, TypeOK', FirstOK, Together, phase = "first", UNCHANGED section,
           NEW t \in Team, NextShare(t)
    PROVE  FirstOK'
  <1> USE OwnFacts DEF Goto, data, section
  <1>1. Alone(t) /\ mem' = mem /\ arrived' = arrived /\ bufferA' = bufferA
    BY CallFacts DEF NextShare, Alone, Apart, TypeOK
  <1>2. at[t] = "next" /\ at'[t] = "start" /\ ithr'[t] = ithr[t] + team
    BY DEF NextShare, TypeOK
  <1>3. nthr_eff' = nthr_eff /\ call' = call
    BY DEF nthr_eff
  <1>4. ithr'[t] >= nthr_eff /\ Done(t)
    <2>1. ithr[t] = t /\ Done(t)
      BY <1>2 DEF PlaceOK
    <2>2. t + team >= nthr_eff
      OBVIOUS
    <2> QED
      BY <1>2, <2>1, <2>2
  <1>5. PlaceOK(t)'
    BY <1>1, <1>2, <1>3, <1>4 DEF PlaceOK, Done, Inside, Reading, Filled
  <1>6. Passed(t)' = Passed(t)
    BY <1>1, <1>2 DEF Passed, AtBarrier
  <1>7. MemoryOK'
    <2>1. t = 0 => (Passed(0)' = Passed(0) /\ arrived[0] # 0) \/ arrived'[0] = 0
      BY <1>1, <1>6
    <2> QED
      BY <2>1, <1>1, <1>2, MemoryKept DEF Reading, Inside, Filled
  <1> QED
    BY <1>1, <1>5, <1>6, <1>7, FirstFrom

LEMMA StepAlloc ==
    ASSUME TypeOK, TypeOK', FirstOK, Together, phase = "first", UNCHANGED section,
           NEW t \in Team, Alloc(t)
    PROVE  FirstOK'
  <1> USE OwnFacts DEF Goto, Arrive, Fail, AfterKernel, data, section
  <1>1. Alone(t) /\ ithr' = ithr /\ it' = it /\ bufferA' = bufferA
    BY CallFacts DEF Alloc, Alone, Apart, TypeOK
  <1>2. /\ at[t] = "alloc" /\ at'[t] = "allocated"
        /\ arrived[t] = 0 /\ arrived'[t] = 1 /\ it[t] = 1
    BY DEF Alloc, TypeOK, PlaceOK
  <1>3. ithr[t] = t /\ t < nthr_eff
    BY <1>2 DEF PlaceOK
  <1>4. nthr_eff' = nthr_eff /\ call' = call /\ Team' = Team
    BY DEF nthr_eff, Team
  <1>5. PlaceOK(t)'
    BY <1>1, <1>2, <1>3, <1>4 DEF PlaceOK, Done, Inside, Reading, Filled
  <1>6. Passed(t) = 0 /\ Passed(t)' = 0
    BY <1>2 DEF Passed, AtBarrier
  <1>7. CASE t # 0
    <2>1. mem' = mem
      BY <1>7, <1>3 DEF Alloc
    <2>2. MemoryOK'
      BY <2>1, <1>1, <1>2, <1>7, MemoryKept DEF Reading, Inside, Filled
    <2> QED
      BY <2>1, <2>2, <1>1, <1>2, <1>5, <1>6, FirstFrom
  <1>8. CASE t = 0
    <2>1. mem = "none" /\ mem' \in {"live", "null"}
      BY <1>8, <1>2, <1>3 DEF Alloc, MemoryOK
    <2>2. ASSUME NEW u \in Team  PROVE at'[u] \notin Inside
      <3>1. CASE u = t
        BY <3>1, <1>2 DEF Inside, Reading, Filled
      <3>2. CASE u # t
        <4>1. Passed(u) <= 0
          BY <1>2 DEF FirstOK, Behind
        <4>2. PlaceOK(u) /\ arrived[u] \in Nat /\ it[u] \in Nat
          BY <2>2, OwnFacts
        <4>3. at[u] \notin Inside
          <5>1. SUFFICES ASSUME at[u] \in Inside PROVE FALSE
            OBVIOUS
          <5>2. it[u] >= 1
            BY <5>1, <4>2 DEF PlaceOK
          <5>3. Passed(u) >= 1
            BY <5>1, <5>2, <4>2 DEF PlaceOK, Passed, AtBarrier, Inside, Reading, Filled
          <5> QED
            BY <5>3, <4>1, <2>2, OwnFacts
        <4> QED
          BY <4>3, <3>2, <1>1 DEF Alone, Apart
      <3> QED
        BY <3>1, <3>2
    <2>3. MemoryOK'
      BY <2>1, <2>2, <1>2, <1>4, <1>8 DEF MemoryOK, Inside
    <2> QED
      BY <2>1, <2>3, <1>1, <1>2, <1>5, <1>6, FirstFrom
  <1> QED
    BY <1>7, <1>8

LEMMA StepAllocated ==
    ASSUME TypeOK, TypeOK', FirstOK, Together, phase = "first", UNCHANGED section,
           NEW t \in Team, Allocated(t)
    PROVE  FirstOK'
  <1> USE OwnFacts DEF Goto, Arrive, Fail, AfterKernel, data, section
  <1>1. /\ Alone(t) /\ mem' = mem /\ arrived' = arrived /\ ithr' = ithr
        /\ it' = it /\ bufferA' = bufferA
    BY CallFacts DEF Allocated, Alone, Apart, TypeOK
  <1>2. /\ at[t] = "allocated" /\ arrived[t] = 1 /\ it[t] = 1 /\ Released(t)
        /\ ithr[t] = t /\ t < nthr_eff
    BY DEF Allocated, PlaceOK
  <1>3. at'[t] = IF mem = "null" THEN "next" ELSE "copy"
    BY DEF Allocated, TypeOK
  <1>4. nthr_eff' = nthr_eff /\ call' = call
    BY DEF nthr_eff
  <1>5. PlaceOK(t)'
    BY <1>1, <1>2, <1>3, <1>4 DEF PlaceOK, Done, Inside, Reading, Filled
  <1>6. Passed(t)' = arrived[t]
    BY <1>1, <1>3 DEF Passed, AtBarrier
  <1>7. arrived[0] >= 1 /\ Passed(0) <= 1
    BY <1>2 DEF Released, FirstOK, Behind
  <1>8. mem \in {"null", "live"}
    <2>1. Passed(0) # 2 * call.iters + 1
      BY <1>7
    <2> QED
      BY <2>1, <1>7 DEF MemoryOK, TypeOK
  <1>9. MemoryOK'
    BY <1>1, <1>3, <1>8, MemoryKept DEF Reading, Inside, Filled
  <1> QED
    BY <1>1, <1>2, <1>5, <1>6, <1>9, FirstFrom

LEMMA StepCopy ==
    ASSUME TypeOK, TypeOK', FirstOK, Together, phase = "first", UNCHANGED section,
           NEW t \in Team, Copy(t)
    PROVE  FirstOK'
  <1> USE OwnFacts DEF Goto, Arrive, Fail, AfterKernel, data, section
  <1>1. /\ at[t] = "copy" /\ arrived[t] = 2 * it[t] - 1
        /\ ithr[t] = t /\ t < nthr_eff /\ mem = "live"
    BY DEF Copy, PlaceOK, MemoryOK, Inside, Reading
  <1>2. /\ mem' = mem /\ ithr' = ithr /\ it' = it
        /\ at'[t] = "copied" /\ arrived'[t] = arrived[t] + 1
    BY DEF Copy, TypeOK
  <1>3. bufferA'[t] = it[t]
    BY <1>1 DEF Copy, TypeOK
  <1>4. Alone(t)
    <2>1. \A u \in Team \ {t} : at'[u] = at[u] /\ arrived'[u] = arrived[u]
      BY CallFacts DEF Copy, TypeOK
    <2>2. \A u \in Team \ {t} : u < nthr_eff => bufferA'[u] = bufferA[u]
      <3>1. bufferA' = [bufferA EXCEPT ![t] = it[t]]
        BY <1>1 DEF Copy
      <3>2. \A u \in Team : u < nthr_eff => u \in Shares
        BY OwnFacts
      <3> QED
        BY <3>1, <3>2 DEF TypeOK
    <2> QED
      BY <2>1, <2>2, <1>2 DEF Alone, Apart
  <1>5. nthr_eff' = nthr_eff /\ call' = call
    BY DEF nthr_eff
  <1>6. PlaceOK(t)'
    BY <1>1, <1>2, <1>3, <1>5 DEF PlaceOK, Done, Inside, Reading, Filled
  <1>7. Passed(t)' = Passed(t)
    BY <1>1, <1>2 DEF Passed, AtBarrier
  <1>8. MemoryOK'
    BY <1>1, <1>2, <1>4, MemoryKept DEF Reading, Inside, Filled
  <1> QED
    BY <1>1, <1>2, <1>4, <1>6, <1>7, <1>8, FirstFrom

LEMMA StepCopied ==
    ASSUME TypeOK, TypeOK', FirstOK, Together, phase = "first", UNCHANGED section,
           NEW t \in Team, Copied(t)
    PROVE  FirstOK'
  <1> USE OwnFacts DEF Goto, Arrive, Fail, AfterKernel, data, section
  <1>1. /\ Alone(t) /\ mem' = mem /\ arrived' = arrived /\ ithr' = ithr
        /\ it' = it /\ bufferA' = bufferA
    BY CallFacts DEF Copied, Alone, Apart, TypeOK
  <1>2. at[t] = "copied" /\ Released(t) /\ mem = "live"
    BY DEF Copied, MemoryOK, Reading
  <1>3. at'[t] = "kernel"
    BY DEF Copied, TypeOK
  <1>4. nthr_eff' = nthr_eff /\ call' = call
    BY DEF nthr_eff
  <1>5. PlaceOK(t)'
    BY <1>1, <1>2, <1>3, <1>4 DEF PlaceOK, Done, Inside, Reading, Filled
  <1>6. Passed(t)' = arrived[t]
    BY <1>1, <1>3 DEF Passed, AtBarrier
  <1>7. MemoryOK'
    BY <1>1, <1>2, <1>3, MemoryKept DEF Reading, Inside, Filled
  <1> QED
    BY <1>1, <1>2, <1>5, <1>6, <1>7, FirstFrom

LEMMA StepKernel ==
    ASSUME TypeOK, TypeOK', FirstOK, Together, phase = "first", UNCHANGED section,
           NEW t \in Team, Kernel(t)
    PROVE  FirstOK'
  <1> USE OwnFacts DEF Goto, Arrive, Fail, AfterKernel, data, section
  <1>1. Alone(t) /\ mem' = mem /\ ithr' = ithr /\ it' = it /\ bufferA' = bufferA
    BY CallFacts DEF Kernel, Alone, Apart, TypeOK
  <1>2. at[t] = "kernel" /\ mem = "live"
    BY DEF Kernel, MemoryOK, Reading
  <1>3. \/ at'[t] = "computing" /\ arrived'[t] = arrived[t]
        \/ at'[t] = "computed" /\ arrived'[t] = arrived[t] + 1
    BY DEF Kernel, Together, TypeOK
  <1>4. nthr_eff' = nthr_eff /\ call' = call
    BY DEF nthr_eff
  <1>5. PlaceOK(t)'
    BY <1>1, <1>2, <1>3, <1>4 DEF PlaceOK, Done, Inside, Reading, Filled
  <1>6. Passed(t)' = Passed(t)
    BY <1>2, <1>3 DEF Passed, AtBarrier
  <1>7. MemoryOK'
    BY <1>1, <1>2, <1>3, MemoryKept DEF Reading, Inside, Filled
  <1> QED
    BY <1>1, <1>3, <1>5, <1>6, <1>7, FirstFrom

LEMMA StepKernelDone ==
    ASSUME TypeOK, TypeOK', FirstOK, Together, phase = "first", UNCHANGED section,
           NEW t \in Team, KernelDone(t)
    PROVE  FirstOK'
  <1> USE OwnFacts DEF Goto, Arrive, Fail, AfterKernel, data, section
  <1>1. Alone(t) /\ mem' = mem /\ ithr' = ithr /\ it' = it /\ bufferA' = bufferA
    BY CallFacts DEF KernelDone, Alone, Apart, TypeOK
  <1>2. at[t] = "computing" /\ mem = "live"
    BY DEF KernelDone, MemoryOK, Reading
  <1>3. at'[t] = "computed" /\ arrived'[t] = arrived[t] + 1
    BY DEF KernelDone, Together, TypeOK
  <1>4. nthr_eff' = nthr_eff /\ call' = call
    BY DEF nthr_eff
  <1>5. PlaceOK(t)'
    BY <1>1, <1>2, <1>3, <1>4 DEF PlaceOK, Done, Inside, Reading, Filled
  <1>6. Passed(t)' = Passed(t)
    BY <1>2, <1>3 DEF Passed, AtBarrier
  <1>7. MemoryOK'
    BY <1>1, <1>2, <1>3, MemoryKept DEF Reading, Inside, Filled
  <1> QED
    BY <1>1, <1>3, <1>5, <1>6, <1>7, FirstFrom

LEMMA StepComputed ==
    ASSUME TypeOK, TypeOK', FirstOK, Together, phase = "first", UNCHANGED section,
           NEW t \in Team, Computed(t)
    PROVE  FirstOK'
  <1> USE OwnFacts DEF Goto, Arrive, Fail, AfterKernel, data, section
  <1>1. /\ Alone(t) /\ mem' = mem /\ arrived' = arrived /\ ithr' = ithr
        /\ it' = it /\ bufferA' = bufferA
    BY CallFacts DEF Computed, Alone, Apart, TypeOK
  <1>2. at[t] = "computed" /\ Released(t) /\ mem # "null"
    BY DEF Computed, MemoryOK, Inside, Filled
  <1>3. at'[t] = "iterated"
    BY DEF Computed, TypeOK
  <1>4. nthr_eff' = nthr_eff /\ call' = call
    BY DEF nthr_eff
  <1>5. PlaceOK(t)'
    BY <1>1, <1>2, <1>3, <1>4 DEF PlaceOK, Done, Inside, Reading, Filled
  <1>6. Passed(t)' = arrived[t]
    BY <1>1, <1>3 DEF Passed, AtBarrier
  <1>7. MemoryOK'
    <2>1. t = 0 => mem = "live"
      BY <1>2 DEF MemoryOK
    <2> QED
      BY <2>1, <1>1, <1>2, <1>3, MemoryKept DEF Reading, Inside, Filled
  <1> QED
    BY <1>1, <1>2, <1>5, <1>6, <1>7, FirstFrom

LEMMA StepIterated ==
    ASSUME TypeOK, TypeOK', FirstOK, Together, phase = "first", UNCHANGED section,
           NEW t \in Team, Iterated(t)
    PROVE  FirstOK'
  <1> USE OwnFacts DEF Goto, Arrive, Fail, AfterKernel, data, section
  <1>1. Alone(t) /\ arrived' = arrived /\ ithr' = ithr /\ bufferA' = bufferA
    BY CallFacts DEF Iterated, Alone, Apart, TypeOK
  <1>2. /\ at[t] = "iterated" /\ mem # "null"
        /\ arrived[t] = 2 * it[t] + 1 /\ it[t] \in 1 .. call.iters
        /\ ithr[t] = t /\ t < nthr_eff
    BY DEF Iterated, MemoryOK, PlaceOK, Inside, Filled
  <1>3. nthr_eff' = nthr_eff /\ call' = call /\ Team' = Team
    BY DEF nthr_eff, Team
  <1>4. Passed(t) = arrived[t]
    BY <1>2 DEF Passed, AtBarrier
  <1>5. CASE it[t] < call.iters
    <2>1. at'[t] = "copy" /\ it'[t] = it[t] + 1 /\ mem' = mem
      BY <1>5 DEF Iterated, Together, TypeOK
    <2>2. mem = "live"
      BY <1>2, <1>4, <1>5, MemoryLive
    <2>3. PlaceOK(t)'
      BY <1>1, <1>2, <1>3, <1>5, <2>1 DEF PlaceOK, Done, Inside, Reading, Filled
    <2>4. Passed(t)' = Passed(t)
      BY <1>1, <1>4, <2>1 DEF Passed, AtBarrier
    <2>5. MemoryOK'
      BY <1>1, <2>1, <2>2, MemoryKept DEF Reading, Inside, Filled
    <2> QED
      BY <1>1, <2>1, <2>3, <2>4, <2>5, FirstFrom
  <1>6. CASE ~(it[t] < call.iters)
    <2>1. at'[t] = "next" /\ it' = it /\ arrived[t] = 2 * call.iters + 1
      BY <1>2, <1>6 DEF Iterated, TypeOK
    <2>2. mem' = IF t = 0 THEN "none" ELSE mem
      BY <1>2, <1>6 DEF Iterated, Together
    <2>3. PlaceOK(t)'
      BY <1>1, <1>2, <1>3, <2>1 DEF PlaceOK, Done, Inside, Reading, Filled
    <2>4. Passed(t)' = Passed(t)
      BY <1>1, <1>4, <2>1 DEF Passed, AtBarrier
    <2>5. CASE t # 0
      <3>1. MemoryOK'
        BY <1>1, <2>1, <2>2, <2>5, MemoryKept DEF Reading, Inside, Filled
      <3> QED
        BY <1>1, <2>2, <2>3, <2>4, <2>5, <3>1, FirstFrom
    <2>6. CASE t = 0
      <3>1. ASSUME NEW u \in Team  PROVE at'[u] \notin Reading
        <4>1. CASE u = t
          BY <4>1, <2>1 DEF Reading
        <4>2. CASE u # t
          <5>1. 2 * call.iters + 1 <= arrived[u]
            BY <1>4, <2>1 DEF FirstOK, Behind
          <5>2. PlaceOK(u) /\ arrived[u] \in Nat /\ it[u] \in Nat
            BY <3>1, OwnFacts
          <5>3. SUFFICES ASSUME at[u] \in Reading PROVE FALSE
            BY <4>2, <1>1 DEF Alone, Apart
          <5>4. it[u] <= call.iters
            BY <5>2, <5>3 DEF PlaceOK, Inside
          <5>5. arrived[u] <= 2 * it[u]
            BY <5>2, <5>3 DEF PlaceOK, Reading
          <5> QED
            BY <5>1, <5>2, <5>4, <5>5
        <4> QED
          BY <4>1, <4>2
      <3>2. MemoryOK'
        BY <1>1, <1>3, <1>4, <2>1, <2>2, <2>4, <2>6, <3>1 DEF MemoryOK
      <3> QED
        BY <1>1, <1>2, <2>3, <2>4, <3>2, FirstFrom
    <2> QED
      BY <2>5, <2>6
  <1> QED
    BY <1>5, <1>6

LEMMA FirstStep ==
    ASSUME TypeOK, TypeOK', FirstOK, Together, phase = "first", UNCHANGED section,
           NEW t \in Team, Step(t)
    PROVE  FirstOK'
  <1>1. CASE UNCHANGED vars
    BY <1>1 DEF FirstOK, PlaceOK, Done, Behind, Passed, AtBarrier, MemoryOK, vars,
                section, place, data, Team, nthr_eff
  <1>2. at[t] \notin {"compute", "sum"}
    BY OwnFacts DEF PlaceOK, Inside, Reading, Filled
  <1>3. ~Compute(t) /\ ~sum_k_blocks(t)
    BY <1>2 DEF Compute, sum_k_blocks
  <1>4. Spin(t) \/ Wait(t) => UNCHANGED vars
    BY DEF Spin, Wait
  <1> QED
    BY <1>1, <1>3, <1>4, StepTakeShare, StepNextShare, StepAlloc, StepAllocated,
       StepCopy, StepCopied, StepKernel, StepKernelDone, StepComputed, StepIterated
    DEF Step

------------------------------------------------------------------------------
(* The invariant.                                                          *)

LEMMA CopyInit == Init => CopyInv
  <1> SUFFICES ASSUME Init PROVE CopyInv
    OBVIOUS
  <1>1. TypeOK
    BY TypeInit
  <1>2. phase = "first"
    BY DEF Init
  <1>3. ASSUME Together  PROVE FirstOK
    <2>1. team \in Nat /\ call.goal \in Nat /\ call.forced \in BOOLEAN
      BY <1>1, CallAssumption, BoundAssumption DEF TypeOK
    <2>2. nthr_eff <= team
      BY <1>3, <2>1 DEF Init, OwnTeam, Together, nthr_eff, Least
    <2>3. \A t \in Team : /\ at[t] = "start" /\ ithr[t] = t
                          /\ arrived[t] = 0 /\ mem = "none"
      BY <1>1, CallFacts DEF Init
    <2>4. \A t \in Team : PlaceOK(t)
      BY <2>3 DEF PlaceOK, Inside, Reading, Filled
    <2>5. Behind
      BY <2>3 DEF Behind, Passed, AtBarrier
    <2>6. MemoryOK
      BY <1>1, <2>3, CallFacts DEF MemoryOK, Inside, Reading, Filled
    <2> QED
      BY <2>2, <2>4, <2>5, <2>6 DEF FirstOK
  <1> QED
    BY <1>1, <1>2, <1>3 DEF CopyInv

\* Steps of the second section do not copy.
LEMMA LaterStep ==
    ASSUME TypeOK, LaterOK, phase = "second", UNCHANGED section, NEW t \in Team, Step(t)
    PROVE  LaterOK'
  <1>1. Team' = Team
    BY DEF section, Team
  <1>2. at[t] \in {"start", "sum", "next", "end"}
    BY DEF LaterOK
  <1>3. TakeShare(t) \/ NextShare(t) \/ sum_k_blocks(t) \/ UNCHANGED vars
    BY <1>2, Zenon DEF Step, Compute, Spin, Alloc, Wait, Allocated, Copy, Copied, Kernel,
                       KernelDone, Computed, Iterated
  <1>4. at' = at \/ \E where \in {"start", "sum", "next", "end"} : Goto(t, where)
    <2>1. CASE TakeShare(t)
      BY <2>1 DEF TakeShare
    <2>2. CASE NextShare(t)
      BY <2>2 DEF NextShare
    <2>3. CASE sum_k_blocks(t)
      BY <2>3 DEF sum_k_blocks
    <2> QED
      BY <1>3, <2>1, <2>2, <2>3 DEF vars, place
  <1> QED
    BY <1>1, <1>4, CallFacts DEF LaterOK, Goto, TypeOK

LEMMA JoinStep ==
    ASSUME CopyInv, Join
    PROVE  CopyInv'
  <1>1. TypeOK /\ call' = call /\ UNCHANGED <<it, arrived, bufferA, mem>>
    BY DEF CopyInv, Join, data
  <1>2. CASE phase' = "second"
    <2>1. /\ team' \in 1 .. call.goal
          /\ at' = [t \in AllThreads |-> "start"] /\ ithr' = [t \in AllThreads |-> t]
      BY <1>2 DEF Join
    <2>2. team' \in 1 .. MaxThreads /\ Team' \subseteq AllThreads
      <3>1. call.goal \in 1 .. MaxThreads
        BY <1>1, CallFacts
      <3>2. team' \in 1 .. MaxThreads
        BY <2>1, <3>1, BoundAssumption
      <3>3. ASSUME NEW n \in 1 .. MaxThreads  PROVE 0 .. n - 1 \subseteq AllThreads
        <4>1. n \in Int /\ n <= MaxThreads /\ MaxThreads \in Int
          BY BoundAssumption
        <4>2. ASSUME NEW i \in 0 .. n - 1  PROVE i \in 0 .. MaxThreads - 1
          BY <4>1
        <4> QED
          BY <4>2 DEF AllThreads
      <3> QED
        BY <3>2, <3>3 DEF Team
    <2>3. TypeOK'
      BY <1>1, <1>2, <2>1, <2>2, BoundAssumption DEF TypeOK, Places, AllThreads, Shares
    <2>4. LaterOK'
      BY <2>1, <2>2 DEF LaterOK
    <2> QED
      BY <1>2, <2>3, <2>4 DEF CopyInv
  <1>3. CASE phase' # "second"
    <2>1. phase' = "returned" /\ UNCHANGED <<team, at, ithr>>
      BY <1>3 DEF Join
    <2>2. TypeOK'
      BY <1>1, <2>1 DEF TypeOK, AllThreads, Shares
    <2>3. LaterOK'
      BY <2>1 DEF Join, LaterOK, Team
    <2> QED
      BY <2>1, <2>2, <2>3 DEF CopyInv
  <1> QED
    BY <1>2, <1>3

LEMMA CopyStep == CopyInv /\ [Next]_vars => CopyInv'
  <1> SUFFICES ASSUME CopyInv, [Next]_vars PROVE CopyInv'
    OBVIOUS
  <1>1. CASE UNCHANGED vars
    BY <1>1 DEF CopyInv, TypeOK, AllThreads, Shares, Together, LaterOK, FirstOK, PlaceOK,
                Done, Behind, Passed, AtBarrier, MemoryOK, vars, section, place, data,
                Team, nthr_eff
  <1>2. ASSUME NEW t \in Team, phase # "returned", Step(t)  PROVE CopyInv'
    <2>1. TypeOK /\ TypeOK' /\ UNCHANGED section
      BY <1>2, TypeStep DEF CopyInv
    <2>2. phase' = phase /\ (Together' <=> Together)
      BY <2>1 DEF section, Together
    <2>3. phase = "first" /\ Together => FirstOK'
      BY <1>2, <2>1, FirstStep DEF CopyInv
    <2>4. phase # "first" => LaterOK'
      BY <1>2, <2>1, LaterStep DEF CopyInv, TypeOK
    <2> QED
      BY <2>1, <2>2, <2>3, <2>4 DEF CopyInv
  <1> QED
    BY <1>1, <1>2, JoinStep DEF Next

(***************************************************************************)
(* The invariant that makes parallel_a_copy correct: nobody has left a     *)
(* barrier that another thread has not reached, and the barriers that a    *)
(* thread has reached tell where it is, what it has copied and whether the *)
(* copy of A is allocated.                                                 *)
(***************************************************************************)
THEOREM CopyHolds == Spec => []CopyInv
  <1> QED
    BY CopyInit, CopyStep, PTL DEF Spec

\* Where the others are while t computes: in the same iteration.
LEMMA SameIteration ==
    ASSUME TypeOK, FirstOK, NEW t \in Team, at[t] = "computing",
           NEW u \in Team, u < nthr_eff
    PROVE  bufferA[u] = it[t]
  <1>1. /\ PlaceOK(t) /\ PlaceOK(u) /\ t \in Nat /\ u \in Nat
        /\ arrived[t] \in Nat /\ arrived[u] \in Nat /\ it[t] \in Nat /\ it[u] \in Nat
        /\ call.iters \in Nat /\ nthr_eff \in Nat /\ ithr[u] \in Nat
    BY OwnFacts
  <1>2. arrived[t] = 2 * it[t] /\ it[t] \in 1 .. call.iters /\ mem = "live"
    BY <1>1 DEF PlaceOK, MemoryOK, FirstOK, Reading, Inside
  <1>3. 2 * it[t] <= arrived[u]
    BY <1>2 DEF FirstOK, Behind, Passed, AtBarrier
  <1>4. Passed(u) <= 2 * it[t]
    BY <1>2 DEF FirstOK, Behind
  <1>5. CASE AtBarrier(u)
    <2>1. at[u] \in {"allocated", "copied", "computed"} /\ arrived[u] - 1 <= 2 * it[t]
      BY <1>4, <1>5 DEF AtBarrier, Passed
    <2>2. at[u] # "allocated"
      BY <1>1, <1>2, <1>3 DEF PlaceOK
    <2>3. it[u] = it[t]
      <3>1. CASE at[u] = "copied"
        <4>1. arrived[u] = 2 * it[u]
          BY <3>1, <1>1 DEF PlaceOK
        <4> QED
          BY <4>1, <2>1, <1>1, <1>3
      <3>2. CASE at[u] = "computed"
        <4>1. arrived[u] = 2 * it[u] + 1
          BY <3>2, <1>1 DEF PlaceOK
        <4> QED
          BY <4>1, <2>1, <1>1, <1>3
      <3> QED
        BY <2>1, <2>2, <3>1, <3>2
    <2> QED
      BY <2>1, <2>2, <2>3, <1>1 DEF PlaceOK, Filled
  <1>6. CASE ~AtBarrier(u)
    <2>1. arrived[u] = 2 * it[t]
      BY <1>1, <1>3, <1>4, <1>6 DEF Passed
    <2>2. ~Done(u)
      BY <2>1, <1>1, <1>2 DEF Done
    <2>3. at[u] \notin {"start", "alloc", "next", "end"}
      BY <2>1, <2>2, <1>1, <1>2 DEF PlaceOK
    <2>4. at[u] \in {"copy", "kernel", "computing", "iterated"}
      BY <2>3, <1>1, <1>6 DEF PlaceOK, Inside, Reading, Filled, AtBarrier
    <2>5. at[u] # "copy"
      <3>1. at[u] = "copy" => arrived[u] = 2 * it[u] - 1
        BY <1>1 DEF PlaceOK
      <3> QED
        BY <3>1, <2>1, <1>1
    <2>6. at[u] # "iterated"
      <3>1. at[u] = "iterated" => arrived[u] = 2 * it[u] + 1
        BY <1>1 DEF PlaceOK
      <3> QED
        BY <3>1, <2>1, <1>1
    <2>7. arrived[u] = 2 * it[u] /\ bufferA[u] = it[u]
      BY <2>4, <2>5, <2>6, <1>1 DEF PlaceOK, Filled
    <2> QED
      BY <2>7, <2>1, <1>1
  <1> QED
    BY <1>5, <1>6

(***************************************************************************)
(* While a thread multiplies from the copy of A that parallel_a_copy makes *)
(* in turn with the others, all of the copy is that of its iteration and   *)
(* none of it has been freed: for every number of threads and of blocks    *)
(* and whatever allocation fails.                                          *)
(***************************************************************************)
THEOREM CopyStays == Spec => []CopyStaysWhileRead
  <1>1. CopyInv => CopyStaysWhileRead
    <2> SUFFICES ASSUME CopyInv, Together, NEW t \in Team, at[t] = "computing",
                        NEW i \in 0 .. nthr_eff - 1
                 PROVE  mem = "live" /\ bufferA[i] = it[t]
      BY CallFacts DEF CopyStaysWhileRead, Together, CopyInv
    <2>1. TypeOK /\ FirstOK
      BY DEF CopyInv, LaterOK
    <2>2. mem = "live"
      BY <2>1 DEF FirstOK, MemoryOK, Reading
    <2>3. i \in Team /\ i < nthr_eff
      BY <2>1, OwnFacts DEF Team
    <2> QED
      BY <2>1, <2>2, <2>3, SameIteration
  <1> QED
    BY <1>1, CopyHolds, PTL

------------------------------------------------------------------------------
(* The sum of all parts.  The threads of a team take the shares of one     *)
(* remainder each, in order; the share of part k of a block adds up the    *)
(* Columns of its number, and nobody else does.                            *)

AllSuccess == \A i \in Shares : result[i] = "success"

AllShares == 0 .. nthr_eff - 1

Mine(t) == { s \in AllShares : s % team = t }

\* The parts that are added, to the one that is computed in place.
Others == 1 .. call.nthr_k - 1

Addition == [for : 0 .. call.nthr_k - 1, add : Others]

\* Orders in which a thread can add parts.
Orders == { l \in Seq(Addition) : \A i, j \in DOMAIN l : i # j => l[i].add # l[j].add }

Adds(l) == { l[i].add : i \in DOMAIN l }

\* The parts are added up in this section.
Summing == phase = "second" \/ (k_summing /\ SumsNow)

\* The share s of thread t has been computed, or given up.
IsComputed(t, s) == \/ phase # "first" \/ s < ithr[t]
                    \/ s = ithr[t] /\ at[t] \in {"sum", "next"}

\* The parts that thread t has not added to the columns of its share s.
Missing(t, s) ==
    IF ~Summing THEN Others
    ELSE IF s < ithr[t] \/ (s = ithr[t] /\ at[t] = "next") THEN {}
    ELSE IF s = ithr[t] /\ at[t] = "sum" THEN Adds(todo[t])
    ELSE Others

\* Where the threads are, and what is where.
Control ==
    /\ call \in Calls /\ team \in 1 .. MaxThreads
    /\ phase \in {"first", "second", "returned"}
    /\ at \in [AllThreads -> Places]
    /\ ithr \in [AllThreads -> Nat]
    /\ it \in [AllThreads -> Nat]
    /\ todo \in [AllThreads -> Orders]
    /\ DOMAIN result = Shares
    /\ compute_done \in [Shares -> BOOLEAN]
    /\ DOMAIN c = Shares
    /\ \A b \in Shares : DOMAIN c[b] = 0 .. call.n - 1
    /\ phase = "second" => k_summing

Stages == Inside \cup {"alloc", "allocated"}

PlacedAt(t) ==
    /\ ithr[t] % team = t
    /\ at[t] \notin {"start", "end"} => ithr[t] \in AllShares
    /\ at[t] = "end" => ithr[t] >= nthr_eff
    /\ at[t] = "compute" => phase = "first" /\ ~call.shared
    /\ at[t] = "sum" => Summing
    /\ at[t] \in Stages => call.shared
    /\ phase = "second" => at[t] \in {"start", "sum", "next", "end"}
    /\ phase = "returned" => at[t] = "end"

\* How many blocks of A thread t has multiplied with the columns of share s.
Passes(t, s) ==
    IF s < ithr[t] THEN call.iters
    ELSE IF s > ithr[t] \/ at[t] \in {"start", "alloc", "allocated"} THEN 0
    ELSE IF at[t] \in {"copy", "copied", "kernel", "computing"} THEN it[t] - 1
    ELSE IF at[t] \in {"computed", "iterated"} THEN it[t]
    ELSE call.iters

\* With a common copy of A each share has columns of its own.
MultipliedBy(t) ==
    /\ at[t] \in Stages => it[t] \in 1 .. call.iters
    /\ at[t] \in {"alloc", "allocated"} => it[t] = 1
    /\ \A s \in Mine(t) : \A j \in 0 .. call.n - 1 : c[s][j] = 1 .. Passes(t, s)

\* A flag is set when, and only when, somebody waits for flags and its share has
\* been computed.
FlagsOf(t) ==
    \A s \in Mine(t) : compute_done[s] <=> (k_summing /\ SumsNow /\ IsComputed(t, s))

\* A column has part 0 if the thread of part 0 has computed it, and the others
\* that the thread of the column has added.
AddedBy(t) ==
    \A s \in Mine(t) :
        /\ ithr_k(s) = 0 => \A j \in 0 .. call.n - 1 :
              0 \in c[Block(s)][j] <=> IsComputed(t, s)
        /\ \A j \in Columns(s) : c[Block(s)][j] \ {0} = Others \ Missing(t, s)

\* Nobody adds to a block before part 0, which overwrites it, has been computed.
WaitsOf(t) ==
    \A s \in Mine(t) :
        /\ Missing(t, s) # Others => compute_done[Block(s)]
        /\ s = ithr[t] /\ at[t] = "sum" /\ todo[t] # <<>> =>
              compute_done[Block(s)] \/ Head(todo[t]).for = 0

Placed == \A t \in Team : PlacedAt(t)
Multiplied == call.shared => \A t \in Team : MultipliedBy(t)
Flags == phase = "first" => \A t \in Team : FlagsOf(t)
Waits == phase = "first" /\ Summing => \A t \in Team : WaitsOf(t)
Added == ~call.shared /\ phase # "returned" => \A t \in Team : AddedBy(t)

SumInv == /\ Control /\ Placed /\ Flags /\ Waits
          /\ AllSuccess => Multiplied /\ Added
          /\ CompleteOnSuccess

------------------------------------------------------------------------------
(* The shares of a call, and who has them.                                 *)

LEMMA SumFacts ==
    ASSUME Control
    PROVE  /\ call.nthr_k \in Nat \ {0} /\ call.iters \in Nat \ {0} /\ call.n \in Nat
           /\ call.goal \in Nat \ {0} /\ team \in Nat \ {0}
           /\ call.forced \in BOOLEAN /\ call.shared \in BOOLEAN
           /\ nthr_eff \in 1 .. call.goal /\ thr_k_stride \in Nat \ {0}
           /\ nthr_eff = call.nthr_k * thr_k_stride
           /\ call.forced => nthr_eff = call.goal
           /\ AllShares \subseteq Shares /\ Team \subseteq AllThreads /\ 0 \in Team
           /\ k_summing <=> call.nthr_k > 1
           /\ k_summing => call.forced /\ ~call.shared
           /\ call.nthr_k = 1 => thr_k_stride = nthr_eff
<1>1. /\ call.nthr_k \in Nat \ {0} /\ call.iters \in Nat \ {0} /\ call.n \in Nat
      /\ call.goal \in 1 .. MaxThreads /\ call.goal % call.nthr_k = 0
      /\ call.nthr_k > 1 => call.forced /\ ~call.shared
      /\ call.forced \in BOOLEAN /\ call.shared \in BOOLEAN
    BY CallAssumption DEF Control
<1>2. team \in 1 .. MaxThreads /\ MaxThreads \in Nat
    BY BoundAssumption DEF Control
<1>3. nthr_eff \in 1 .. call.goal /\ (call.forced => nthr_eff = call.goal)
    BY <1>1, <1>2 DEF nthr_eff, Least
<1>4. PICK K \in Nat \ {0}, e \in Nat \ {0} : K = call.nthr_k /\ e = nthr_eff
    BY <1>1, <1>3
<1>5. e % K = 0
    <2>1. CASE K > 1
        BY <1>1, <1>3, <1>4, <2>1
    <2>2. CASE K = 1
        BY <1>4, <2>2
    <2>. QED BY <1>4, <2>1, <2>2
<1>6. PICK q \in Nat : q = e \div K /\ e = K * q + 0
    <2>1. e \in Nat /\ K \in Nat \ {0}
        BY <1>4
    <2>2. e \div K \in Nat /\ e = K * (e \div K) + (e % K)
        BY <2>1, Quotients
    <2>. QED BY <2>2, <1>5
<1>7. q # 0
    <2>1. q = 0 => K * q = 0
        BY <1>4
    <2>. QED BY <1>4, <1>6, <2>1
<1>8. K * q \in Nat
    BY <1>4, <1>6
<1>9. thr_k_stride = q /\ e = K * q
    BY <1>4, <1>6, <1>8 DEF thr_k_stride
<1>10. K = 1 => q = e
    BY <1>4, <1>9
<1>11. AllShares \subseteq Shares /\ Team \subseteq AllThreads /\ 0 \in Team
    BY <1>1, <1>2, <1>3 DEF AllShares, Shares, Team, AllThreads
<1>12. k_summing <=> call.nthr_k > 1
    BY <1>1 DEF k_summing
<1>. QED BY <1>1, <1>2, <1>3, <1>4, <1>7, <1>9, <1>10, <1>11, <1>12

\* A share is part ithr_k(s) of block Block(s), and part 0 of a block is the
\* share with its number.
LEMMA ShareFacts ==
    ASSUME Control, NEW s \in AllShares
    PROVE  /\ s \in Nat /\ s \in Shares
           /\ ithr_k(s) \in 0 .. call.nthr_k - 1
           /\ Block(s) \in 0 .. thr_k_stride - 1 /\ Block(s) \in AllShares
           /\ get_thread_arg(s, 0) = Block(s)
           /\ ithr_k(Block(s)) = 0 /\ Block(Block(s)) = Block(s)
           /\ ithr_k(s) = 0 => Block(s) = s
           /\ call.nthr_k = 1 => Block(s) = s
<1>1. PICK K \in Nat \ {0}, e \in Nat \ {0}, w \in Nat \ {0} :
         /\ K = call.nthr_k /\ e = nthr_eff /\ w = thr_k_stride /\ e = K * w
    BY SumFacts
<1>2. s \in Nat /\ s < e
    BY <1>1 DEF AllShares
<1>3. PICK q \in Nat, r \in 0 .. w - 1 : q = s \div w /\ r = s % w /\ s = w * q + r
    <2>1. s \div w \in Nat /\ s % w \in 0 .. w - 1 /\ s = w * (s \div w) + (s % w)
        BY <1>1, <1>2, Quotients
    <2>. QED BY <2>1
<1>4. PICK x \in Nat : x = w * q /\ x = q * w
    BY <1>1, <1>3
<1>5. q < K
    <2>1. q < K <=> q * w + r < K * w
        BY <1>1, <1>3, RowOrder
    <2>. QED BY <2>1, <1>1, <1>2, <1>3, <1>4
<1>6. ithr_k(s) = q /\ Block(s) = r
    BY <1>1, <1>3 DEF ithr_k, Block
<1>7. r \div w = 0 /\ r % w = r
    <2>1. r \in Nat /\ r = 0 * w + r /\ 0 \in Nat /\ w \in Nat \ {0}
        BY <1>1, <1>3
    <2>2. r \in 0 .. w - 1
        BY <1>3
    <2>. QED BY <2>1, <2>2, RowMajorIsUnique
<1>8. ithr_k(r) = 0 /\ Block(r) = r
    BY <1>1, <1>7 DEF ithr_k, Block
<1>9. get_thread_arg(s, 0) = r
    <2>1. (0 - q) * w = -x
        BY <1>3, <1>4, <1>1
    <2>2. s + (0 - q) * w = r
        BY <2>1, <1>3, <1>4
    <2>. QED BY <2>2, <1>1, <1>6 DEF get_thread_arg
<1>10. r <= s /\ (q = 0 => s = r)
    <2>1. q = 0 => x = 0
        BY <1>4, <1>1
    <2>. QED BY <2>1, <1>3, <1>4
<1>11. r \in AllShares /\ s \in Shares
    BY <1>1, <1>2, <1>3, <1>10, SumFacts DEF AllShares
<1>12. K = 1 => r = s
    BY <1>3, <1>5, <1>10
<1>. QED BY <1>1, <1>2, <1>3, <1>5, <1>6, <1>8, <1>9, <1>10, <1>11, <1>12

\* Each part of each block is one share.
LEMMA SharesReach ==
    ASSUME Control, NEW b \in 0 .. thr_k_stride - 1, NEW k \in 0 .. call.nthr_k - 1
    PROVE  \E s \in AllShares : Block(s) = b /\ ithr_k(s) = k
<1>1. PICK K \in Nat \ {0}, e \in Nat \ {0}, w \in Nat \ {0} :
         /\ K = call.nthr_k /\ e = nthr_eff /\ w = thr_k_stride /\ e = K * w
    BY SumFacts
<1>2. b \in 0 .. w - 1 /\ k \in 0 .. K - 1 /\ k \in Nat
    BY <1>1
<1>3. k * w \in Nat /\ k * w + b < K * w
    <2>1. k * w \in Nat /\ (k < K <=> k * w + b < K * w)
        BY <1>1, <1>2, RowOrder
    <2>. QED BY <2>1, <1>2
<1>4. PICK s \in Nat : s = k * w + b
    BY <1>2, <1>3
<1>5. s \div w = k /\ s % w = b
    <2>1. b \in 0 .. w - 1 /\ k \in Nat
        BY <1>2
    <2>. QED BY <2>1, <1>4, RowMajorIsUnique
<1>6. s \in AllShares
    BY <1>1, <1>3, <1>4 DEF AllShares
<1>7. Block(s) = b /\ ithr_k(s) = k
    BY <1>1, <1>5 DEF Block, ithr_k
<1>. QED BY <1>6, <1>7

LEMMA SharesDiffer ==
    ASSUME Control, NEW s \in AllShares, NEW u \in AllShares,
           Block(s) = Block(u), ithr_k(s) = ithr_k(u)
    PROVE  s = u
<1>1. PICK w \in Nat \ {0} : w = thr_k_stride
    BY SumFacts
<1>2. s \in Nat /\ u \in Nat
    BY ShareFacts
<1>3. PICK q \in Nat, r \in Nat : q = s \div w /\ r = s % w /\ s = w * q + r
    <2>1. s \div w \in Nat /\ s % w \in 0 .. w - 1 /\ s = w * (s \div w) + (s % w)
        BY <1>1, <1>2, Quotients
    <2>. QED BY <2>1
<1>4. u = w * (u \div w) + (u % w)
    BY <1>1, <1>2, Quotients
<1>5. u \div w = q /\ u % w = r
    BY <1>1, <1>3 DEF Block, ithr_k
<1>6. u = w * q + r
    BY <1>4, <1>5
<1>. QED BY <1>3, <1>6

\* The threads of a block add up every column of it once.
LEMMA ColumnsFacts ==
    ASSUME Control
    PROVE  /\ \A s \in AllShares : Columns(s) \subseteq 0 .. call.n - 1
           /\ \A b \in 0 .. thr_k_stride - 1 : \A j \in 0 .. call.n - 1 :
                 \E s \in AllShares : Block(s) = b /\ j \in Columns(s)
           /\ \A s, u \in AllShares :
                 Block(s) = Block(u) /\ s # u => Columns(s) \cap Columns(u) = {}
<1>1. PICK K \in Nat \ {0}, n \in Nat : K = call.nthr_k /\ n = call.n
    BY SumFacts
<1>. DEFINE p(k) == partition_1d(k, K, n)
<1>2. PICK band \in Nat : \A k \in 0 .. K - 1 : p(k) = Strip(k, K, band, n)
    BY <1>1, BandIsNat
<1>3. ASSUME NEW k \in 0 .. K - 1
      PROVE  p(k).off \in 0 .. n /\ p(k).len \in 0 .. n /\ p(k).off + p(k).len <= n
    <2>1. LET t == Strip(k, K, band, n)
          IN  t.off \in 0 .. n /\ t.len \in 0 .. n /\ t.off + t.len <= n
        BY <1>1, StripEnds, Zenon
    <2>. HIDE DEF p
    <2>. QED BY <1>2, <2>1, Zenon
<1>4. ASSUME NEW j \in 0 .. n - 1
      PROVE  /\ \E k \in 0 .. K - 1 : p(k).off <= j /\ j < p(k).off + p(k).len
             /\ \A k, h \in 0 .. K - 1 :
                   /\ p(k).off <= j /\ j < p(k).off + p(k).len
                   /\ p(h).off <= j /\ j < p(h).off + p(h).len
                   => k = h
    <2>1. LET Has(t) == LET q == partition_1d(t, K, n)
                        IN  q.off <= j /\ j < q.off + q.len
          IN  /\ \E t \in 0 .. K - 1 : Has(t)
              /\ \A t, u \in 0 .. K - 1 : Has(t) /\ Has(u) => t = u
        BY <1>1, Partition1dTiles, Zenon
    <2>. QED BY <2>1, Zenon
<1>. HIDE DEF p
<1>5. \A s : Columns(s) = p(ithr_k(s)).off .. p(ithr_k(s)).off + p(ithr_k(s)).len - 1
    BY <1>1 DEF Columns, p
<1>6. ASSUME NEW s \in AllShares PROVE Columns(s) \subseteq 0 .. n - 1
    <2>1. ithr_k(s) \in 0 .. K - 1
        BY <1>1, ShareFacts
    <2>2. PICK x \in 0 .. n, y \in 0 .. n :
             x = p(ithr_k(s)).off /\ y = p(ithr_k(s)).len /\ x + y <= n
        BY <2>1, <1>3
    <2>3. Columns(s) = x .. x + y - 1
        BY <1>5, <2>2
    <2>. QED BY <2>2, <2>3, <1>1
<1>7. ASSUME NEW b \in 0 .. thr_k_stride - 1, NEW j \in 0 .. n - 1
      PROVE  \E s \in AllShares : Block(s) = b /\ j \in Columns(s)
    <2>1. PICK k \in 0 .. K - 1 : p(k).off <= j /\ j < p(k).off + p(k).len
        BY <1>4
    <2>2. PICK s \in AllShares : Block(s) = b /\ ithr_k(s) = k
        BY <1>1, SharesReach
    <2>3. j \in Columns(s)
        <3>1. PICK x \in 0 .. n, y \in 0 .. n : x = p(k).off /\ y = p(k).len
            BY <1>3
        <3>2. Columns(s) = x .. x + y - 1
            BY <1>5, <2>2, <3>1
        <3>. QED BY <3>1, <3>2, <2>1, <1>1
    <2>. QED BY <2>2, <2>3
<1>8. ASSUME NEW s \in AllShares, NEW u \in AllShares, Block(s) = Block(u), s # u,
             NEW j \in Columns(s), j \in Columns(u)
      PROVE  FALSE
    <2>1. PICK k \in 0 .. K - 1, h \in 0 .. K - 1 : k = ithr_k(s) /\ h = ithr_k(u)
        BY <1>1, ShareFacts
    <2>2. j \in 0 .. n - 1
        BY <1>6, <1>8
    <2>3. /\ p(k).off <= j /\ j < p(k).off + p(k).len
          /\ p(h).off <= j /\ j < p(h).off + p(h).len
        <3>1. PICK x \in 0 .. n, y \in 0 .. n, v \in 0 .. n, w \in 0 .. n :
                 x = p(k).off /\ y = p(k).len /\ v = p(h).off /\ w = p(h).len
            BY <1>3
        <3>2. j \in x .. x + y - 1 /\ j \in v .. v + w - 1
            BY <1>5, <1>8, <2>1, <3>1
        <3>. QED BY <3>1, <3>2, <2>2, <1>1
    <2>4. k = h
        BY <1>4, <2>2, <2>3
    <2>. QED BY <1>8, <2>1, <2>4, SharesDiffer
<1>. QED BY <1>1, <1>6, <1>7, <1>8

------------------------------------------------------------------------------
(* Who has which share, and in which order a thread adds parts.            *)

LEMMA OwnerFacts ==
    ASSUME Control
    PROVE  /\ \A s \in AllShares : s % team \in Team /\ s \in Mine(s % team)
           /\ \A t \in Team : t % team = t /\ \A s \in Mine(t) : t <= s
           /\ 0 \in AllShares /\ 0 \in Mine(0)
<1>1. PICK w \in Nat \ {0} : w = team
    BY SumFacts
<1>2. ASSUME NEW s \in AllShares PROVE s % w \in 0 .. w - 1 /\ s % w <= s
    <2>1. s \in Nat
        BY ShareFacts
    <2>2. s \div w \in Nat /\ s % w \in 0 .. w - 1 /\ s = w * (s \div w) + (s % w)
        BY <1>1, <2>1, Quotients
    <2>3. PICK q \in Nat, r \in 0 .. w - 1 : q = s \div w /\ r = s % w /\ s = w * q + r
        BY <2>2
    <2>4. w * q \in Nat
        BY <1>1
    <2>. QED BY <2>3, <2>4, <1>1
<1>3. ASSUME NEW t \in 0 .. w - 1 PROVE t % w = t
    BY <1>1
<1>4. 0 \in AllShares
    BY SumFacts DEF AllShares
<1>. QED BY <1>1, <1>2, <1>3, <1>4 DEF Team, Mine

LEMMA NextRemainder ==
    ASSUME NEW w \in Nat \ {0}, NEW t \in 0 .. w - 1, NEW q \in Nat, NEW i, i = w * q + t
    PROVE  (i + w) % w = t
<1>1. PICK h \in Nat, x \in Nat : h = q + 1 /\ x = i + w
    <2>1. w * q \in Nat
        OBVIOUS
    <2>2. q + 1 \in Nat /\ i + w \in Nat
        BY <2>1
    <2>. QED BY <2>2
<1>2. x = h * w + t
    <2>1. (q + 1) * w = w * q + w /\ w * q \in Nat
        OBVIOUS
    <2>. QED BY <1>1, <2>1
<1>3. x % w = t
    BY <1>2, RowMajorIsUnique
<1>. QED BY <1>1, <1>3

\* The next share of a thread is its first beyond the one it has.
LEMMA NextFacts ==
    ASSUME Control, NEW t \in Team, NEW i \in Nat, i % team = t
    PROVE  /\ (i + team) % team = t
           /\ \A s \in Mine(t) : s < i + team <=> s <= i
<1>1. PICK w \in Nat \ {0} : w = team
    BY SumFacts
<1>2. t \in 0 .. w - 1 /\ t \in Nat
    BY <1>1 DEF Team
<1>3. PICK q \in Nat : i = w * q + t
    <2>1. i \div w \in Nat /\ i = w * (i \div w) + (i % w)
        BY <1>1, Quotients
    <2>. QED BY <2>1, <1>1
<1>4. w * q \in Nat /\ w * q = q * w /\ (q + 1) * w = w * q + w
    BY <1>1
<1>5. (i + w) % w = t
    BY <1>1, <1>2, <1>3, NextRemainder
<1>6. ASSUME NEW s \in Mine(t) PROVE s < i + w <=> s <= i
    <2>1. s \in Nat /\ s % w = t
        BY <1>1, ShareFacts DEF Mine
    <2>2. PICK x \in Nat : s = w * x + t
        <3>1. s \div w \in Nat /\ s = w * (s \div w) + (s % w)
            BY <1>1, <2>1, Quotients
        <3>. QED BY <3>1, <2>1
    <2>3. CASE x <= q
        <3>1. w * x <= w * q /\ w * x \in Nat
            BY <1>1, <2>3, TimesMonotone
        <3>. QED BY <3>1, <2>2, <1>1, <1>2, <1>3, <1>4
    <2>4. CASE q + 1 <= x
        <3>1. w * (q + 1) <= w * x /\ w * x \in Nat /\ w * (q + 1) = w * q + w
            BY <1>1, <2>4, TimesMonotone
        <3>. QED BY <3>1, <2>2, <1>1, <1>2, <1>3, <1>4
    <2>. QED BY <2>3, <2>4
<1>. QED BY <1>1, <1>5, <1>6

LEMMA OrderFacts ==
    ASSUME NEW l \in Orders, l # <<>>
    PROVE  /\ Head(l).add \in Adds(l) /\ Head(l).add \in Others
           /\ Tail(l) \in Orders /\ Adds(Tail(l)) = Adds(l) \ {Head(l).add}
<1>1. l \in Seq(Addition) /\ \A i, j \in DOMAIN l : i # j => l[i].add # l[j].add
    BY DEF Orders
<1>2. PICK n \in Nat \ {0} : n = Len(l) /\ DOMAIN l = 1 .. n
    BY <1>1
<1>3. Head(l) = l[1] /\ 1 \in DOMAIN l /\ l[1] \in Addition
    BY <1>1, <1>2
<1>4. /\ Tail(l) \in Seq(Addition) /\ DOMAIN Tail(l) = 1 .. n - 1
      /\ \A i \in 1 .. n - 1 : Tail(l)[i] = l[i + 1]
    BY <1>1, <1>2
<1>5. \A i \in 1 .. n - 1 : i + 1 \in DOMAIN l /\ i + 1 # 1
    BY <1>2
<1>6. \A i, j \in 1 .. n - 1 : i # j => i + 1 # j + 1
    OBVIOUS
<1>7. Tail(l) \in Orders
    <2>. SUFFICES ASSUME NEW i \in 1 .. n - 1, NEW j \in 1 .. n - 1, i # j
                  PROVE  Tail(l)[i].add # Tail(l)[j].add
        BY <1>4 DEF Orders
    <2>. QED BY <1>1, <1>4, <1>5, <1>6
<1>8. Adds(Tail(l)) = Adds(l) \ {l[1].add}
    <2>1. ASSUME NEW x \in Adds(Tail(l)) PROVE x \in Adds(l) \ {l[1].add}
        BY <1>1, <1>3, <1>4, <1>5, <2>1 DEF Adds
    <2>2. ASSUME NEW x \in Adds(l) \ {l[1].add} PROVE x \in Adds(Tail(l))
        <3>1. PICK i \in 1 .. n : x = l[i].add /\ i # 1
            BY <1>2, <2>2 DEF Adds
        <3>2. i - 1 \in 1 .. n - 1 /\ (i - 1) + 1 = i
            BY <3>1
        <3>. QED BY <1>4, <3>1, <3>2 DEF Adds
    <2>. QED BY <2>1, <2>2
<1>. QED BY <1>3, <1>7, <1>8 DEF Adds, Addition

LEMMA NothingToAdd ==
    <<>> \in Orders /\ Adds(<<>>) = {}
<1>1. <<>> \in Seq(Addition) /\ DOMAIN <<>> = {}
    OBVIOUS
<1>. QED BY <1>1 DEF Orders, Adds

\* Every thread of a block adds every part but the first, and waits for the first
\* part before it adds its own.
LEMMA SumOrderFacts ==
    ASSUME Control, NEW s \in AllShares
    PROVE  /\ sum_order(s) \in Orders /\ Adds(sum_order(s)) = Others
           /\ ithr_k(s) # 0 /\ sum_order(s) # <<>> => Head(sum_order(s)).for = 0
<1>1. PICK nk \in Nat \ {0}, k \in Nat : nk = call.nthr_k /\ k = ithr_k(s) /\ k <= nk - 1
    BY SumFacts, ShareFacts
<1>. DEFINE a(i) == IF i = 1 /\ k > 0 THEN k ELSE IF i <= k THEN i - 1 ELSE i
            f(i) == IF i = 1 /\ k > 0 THEN 0 ELSE IF i <= k THEN i - 1 ELSE i
            l == [i \in 1 .. nk - 1 |-> [for |-> f(i), add |-> a(i)]]
<1>2. sum_order(s) = l
    <2>1. \A i \in 1 .. nk - 1 :
             (IF i = 1 /\ k > 0 THEN [for |-> 0, add |-> k]
              ELSE [for |-> IF i <= k THEN i - 1 ELSE i,
                    add |-> IF i <= k THEN i - 1 ELSE i])
             = [for |-> f(i), add |-> a(i)]
        OBVIOUS
    <2>. QED BY <1>1, <2>1 DEF sum_order
<1>3. \A i \in 1 .. nk - 1 : a(i) \in 1 .. nk - 1 /\ f(i) \in 0 .. nk - 1
    BY <1>1
<1>4. \A i, j \in 1 .. nk - 1 : i # j => a(i) # a(j)
    BY <1>1
<1>5. \A x \in 1 .. nk - 1 : \E i \in 1 .. nk - 1 : x = a(i)
    <2>. SUFFICES ASSUME NEW x \in 1 .. nk - 1 PROVE \E i \in 1 .. nk - 1 : x = a(i)
        OBVIOUS
    <2>1. CASE k # 0 /\ x = k
        <3>1. 1 \in 1 .. nk - 1 /\ a(1) = x
            BY <1>1, <2>1
        <3>. QED BY <3>1
    <2>2. CASE x < k
        <3>1. x + 1 \in 1 .. nk - 1 /\ a(x + 1) = x
            BY <1>1, <2>2
        <3>. QED BY <3>1
    <2>3. CASE k = 0 \/ x > k
        <3>1. a(x) = x
            BY <1>1, <2>3
        <3>. QED BY <3>1
    <2>. QED BY <2>1, <2>2, <2>3, <1>1
<1>6. k # 0 => f(1) = 0
    BY <1>1
<1>. HIDE DEF a, f
<1>7. l \in [1 .. nk - 1 -> Addition] /\ Others = 1 .. nk - 1
    BY <1>1, <1>3 DEF Addition, Others
<1>8. nk - 1 \in Nat
    BY <1>1
<1>9. l \in Seq(Addition) /\ Len(l) = nk - 1
    BY <1>7, <1>8
<1>10. l \in Orders
    BY <1>4, <1>7, <1>9 DEF Orders
<1>11. Adds(l) = Others
    BY <1>3, <1>5, <1>7 DEF Adds
<1>12. k # 0 /\ l # <<>> => Head(l).for = 0
    <2>. SUFFICES ASSUME k # 0, l # <<>> PROVE Head(l).for = 0
        OBVIOUS
    <2>1. 1 \in 1 .. nk - 1 /\ Head(l) = l[1]
        BY <1>8, <1>9
    <2>. QED BY <2>1, <1>6
<1>. QED BY <1>1, <1>2, <1>10, <1>11, <1>12

------------------------------------------------------------------------------
(* What a step within a section leaves as it is.                           *)

LEMMA SameSection ==
    ASSUME UNCHANGED section
    PROVE  /\ call' = call /\ team' = team /\ phase' = phase
           /\ nthr_eff' = nthr_eff /\ thr_k_stride' = thr_k_stride
           /\ (k_summing' <=> k_summing) /\ (SumsNow' <=> SumsNow)
           /\ (Summing' <=> Summing)
           /\ Team' = Team /\ Shares' = Shares /\ AllShares' = AllShares
           /\ Others' = Others /\ Addition' = Addition /\ Orders' = Orders
           /\ \A t : Mine(t)' = Mine(t)
           /\ \A s : /\ Block(s)' = Block(s) /\ ithr_k(s)' = ithr_k(s)
                     /\ Columns(s)' = Columns(s)
<1>1. call' = call /\ team' = team /\ phase' = phase
    BY DEF section
<1>2. nthr_eff' = nthr_eff
    BY <1>1 DEF nthr_eff
<1>3. thr_k_stride' = thr_k_stride
    BY <1>1, <1>2 DEF thr_k_stride
<1>4. (k_summing' <=> k_summing) /\ (SumsNow' <=> SumsNow)
    BY <1>1, <1>2 DEF k_summing, SumsNow
<1>5. Summing' <=> Summing
    BY <1>1, <1>4 DEF Summing
<1>6. Team' = Team /\ Shares' = Shares /\ AllShares' = AllShares
    BY <1>1, <1>2 DEF Team, Shares, AllShares
<1>7. Others' = Others /\ Addition' = Addition
    BY <1>1 DEF Others, Addition
<1>8. Orders' = Orders
    BY <1>7 DEF Orders
<1>9. \A t : Mine(t)' = Mine(t)
    BY <1>1, <1>6 DEF Mine
<1>10. \A s : Block(s)' = Block(s) /\ ithr_k(s)' = ithr_k(s)
    BY <1>3 DEF Block, ithr_k
<1>11. \A s : Columns(s)' = Columns(s)
    BY <1>1, <1>10 DEF Columns
<1>. QED BY <1>1, <1>2, <1>3, <1>4, <1>5, <1>6, <1>7, <1>8, <1>9, <1>10, <1>11

\* A step that leaves thread u where it is.
Stays(u) == /\ at'[u] = at[u] /\ ithr'[u] = ithr[u]
            /\ it'[u] = it[u] /\ todo'[u] = todo[u]

LEMMA StaysFacts ==
    ASSUME UNCHANGED section, NEW u, Stays(u)
    PROVE  /\ PlacedAt(u)' <=> PlacedAt(u)
           /\ \A s : /\ IsComputed(u, s)' <=> IsComputed(u, s)
                     /\ Missing(u, s)' = Missing(u, s)
                     /\ Passes(u, s)' = Passes(u, s)
<1>1. PlacedAt(u)' <=> PlacedAt(u)
    BY SameSection DEF PlacedAt, Stays
<1>2. \A s : IsComputed(u, s)' <=> IsComputed(u, s)
    BY SameSection DEF IsComputed, Stays
<1>3. \A s : Missing(u, s)' = Missing(u, s)
    BY SameSection DEF Missing, Stays
<1>4. \A s : Passes(u, s)' = Passes(u, s)
    BY SameSection DEF Passes, Stays
<1>. QED BY <1>1, <1>2, <1>3, <1>4

LEMMA AddedStays ==
    ASSUME UNCHANGED section, NEW u, Stays(u), AddedBy(u),
           \A s \in Mine(u) :
              /\ ithr_k(s) = 0 => \A j \in 0 .. call.n - 1 :
                    0 \in c'[Block(s)][j] <=> 0 \in c[Block(s)][j]
              /\ \A j \in Columns(s) : c'[Block(s)][j] \ {0} = c[Block(s)][j] \ {0}
    PROVE  AddedBy(u)'
<1>1. call' = call /\ Others' = Others /\ Mine(u)' = Mine(u)
    BY SameSection
<1>2. \A s : Block(s)' = Block(s) /\ ithr_k(s)' = ithr_k(s) /\ Columns(s)' = Columns(s)
    BY SameSection
<1>3. \A s : (IsComputed(u, s)' <=> IsComputed(u, s)) /\ Missing(u, s)' = Missing(u, s)
    BY StaysFacts
<1>. QED BY <1>1, <1>2, <1>3 DEF AddedBy

\* What a step of t has to show.
LEMMA SumFrom ==
    ASSUME SumInv, Control', UNCHANGED section, phase # "returned",
           NEW t \in Team, \A u \in Team \ {t} : Stays(u),
           PlacedAt(t)',
           phase = "first" => FlagsOf(t)',
           \A s \in AllShares : /\ s # ithr[t] => compute_done'[s] = compute_done[s]
                                /\ compute_done[s] => compute_done'[s],
           phase = "first" /\ Summing => WaitsOf(t)',
           AllSuccess' => AllSuccess,
           AllSuccess' /\ call.shared =>
              MultipliedBy(t)' /\ \A s \in AllShares : s # ithr[t] => c'[s] = c[s],
           AllSuccess' /\ ~call.shared =>
              AddedBy(t)' /\ (c' = c \/ \A u \in Team \ {t} : AddedBy(u)')
    PROVE  SumInv'
<1>1. /\ call' = call /\ phase' = phase /\ Team' = Team /\ (Summing' <=> Summing)
      /\ (k_summing' <=> k_summing) /\ (SumsNow' <=> SumsNow)
      /\ Others' = Others /\ \A u : Mine(u)' = Mine(u)
    BY SameSection
<1>2. \A s : Block(s)' = Block(s)
    BY SameSection
<1>3. Placed'
    BY <1>1, StaysFacts DEF Placed, SumInv
<1>4. ASSUME NEW u \in Team \ {t}, NEW s \in Mine(u)
      PROVE  s \in AllShares /\ Block(s) \in AllShares /\ s # ithr[t]
    <2>1. s \in AllShares /\ s % team = u
        BY DEF Mine
    <2>2. ithr[t] % team = t
        BY DEF SumInv, Placed, PlacedAt
    <2>. QED BY <2>1, <2>2, ShareFacts DEF SumInv
<1>5. Flags'
    <2>. SUFFICES ASSUME phase = "first", NEW u \in Team \ {t} PROVE FlagsOf(u)'
        BY <1>1 DEF Flags
    <2>1. FlagsOf(u)
        BY DEF SumInv, Flags
    <2>2. \A s \in Mine(u) : compute_done'[s] = compute_done[s]
        BY <1>4
    <2>. QED BY <2>1, <2>2, <1>1, StaysFacts DEF FlagsOf
<1>6. Waits'
    <2>. SUFFICES ASSUME phase = "first", Summing, NEW u \in Team \ {t} PROVE WaitsOf(u)'
        BY <1>1 DEF Waits
    <2>1. WaitsOf(u)
        BY DEF SumInv, Waits
    <2>2. \A s \in Mine(u) : compute_done[Block(s)] => compute_done'[Block(s)]
        BY <1>4
    <2>3. at'[u] = at[u] /\ ithr'[u] = ithr[u] /\ todo'[u] = todo[u]
        BY DEF Stays
    <2>4. \A s : Missing(u, s)' = Missing(u, s)
        BY StaysFacts
    <2>. QED BY <2>1, <2>2, <2>3, <2>4, <1>1, <1>2 DEF WaitsOf
<1>7. ASSUME AllSuccess' PROVE Multiplied'
    <2>. SUFFICES ASSUME call.shared, NEW u \in Team \ {t} PROVE MultipliedBy(u)'
        BY <1>1, <1>7 DEF Multiplied
    <2>1. MultipliedBy(u)
        BY <1>7 DEF SumInv, Multiplied
    <2>2. \A s \in Mine(u) : c'[s] = c[s]
        BY <1>4, <1>7
    <2>3. at'[u] = at[u] /\ it'[u] = it[u]
        BY DEF Stays
    <2>4. \A s : Passes(u, s)' = Passes(u, s)
        BY StaysFacts
    <2>. QED BY <2>1, <2>2, <2>3, <2>4, <1>1 DEF MultipliedBy
<1>8. ASSUME AllSuccess' PROVE Added'
    <2>. SUFFICES ASSUME ~call.shared, NEW u \in Team \ {t} PROVE AddedBy(u)'
        BY <1>1, <1>8 DEF Added
    <2>1. AddedBy(u)
        BY <1>8 DEF SumInv, Added
    <2>2. c' = c => AddedBy(u)'
        BY <2>1, AddedStays
    <2>. QED BY <2>2, <1>8
<1>9. CompleteOnSuccess'
    BY <1>1 DEF CompleteOnSuccess
<1>. QED BY <1>3, <1>5, <1>6, <1>7, <1>8, <1>9 DEF SumInv

------------------------------------------------------------------------------
(* The steps of a section.                                                 *)

\* The values a step of t starts from.
LEMMA AtFacts ==
    ASSUME SumInv, NEW t \in Team
    PROVE  /\ t \in AllThreads /\ t \in Nat /\ ithr[t] \in Nat /\ it[t] \in Nat
           /\ todo[t] \in Orders /\ PlacedAt(t) /\ Control
           /\ \A s \in Mine(t) : s \in Nat /\ s \in AllShares /\ s < nthr_eff
           /\ ithr[t] \in AllShares => ithr[t] \in Mine(t) /\ ithr[t] \in Shares
           /\ nthr_eff \in Nat
<1>1. t \in AllThreads /\ t \in Nat
    BY SumFacts DEF SumInv, AllThreads, Team
<1>2. ithr[t] \in Nat /\ it[t] \in Nat /\ todo[t] \in Orders
    BY <1>1 DEF SumInv, Control
<1>3. PlacedAt(t) /\ Control
    BY DEF SumInv, Placed
<1>4. nthr_eff \in Nat
    BY <1>3, SumFacts
<1>5. \A s \in Mine(t) : s \in Nat /\ s \in AllShares /\ s < nthr_eff
    BY <1>4 DEF Mine, AllShares
<1>6. ithr[t] \in AllShares => ithr[t] \in Mine(t) /\ ithr[t] \in Shares
    BY <1>3, SumFacts DEF PlacedAt, Mine
<1>. QED BY <1>1, <1>2, <1>3, <1>4, <1>5, <1>6

LEMMA GotoFacts ==
    ASSUME Control, NEW t \in AllThreads, NEW where, Goto(t, where)
    PROVE  at'[t] = where /\ \A u \in AllThreads : u # t => at'[u] = at[u]
BY DEF Goto, Control

\* A thread that fails leaves its mark.
LEMMA FailFacts ==
    ASSUME Control, UNCHANGED section, NEW t, ithr[t] \in Shares, Fail(t)
    PROVE  ~AllSuccess'
<1>1. result'[ithr[t]] = "out_of_memory"
    BY DEF Fail, Control
<1>2. Shares' = Shares
    BY SameSection
<1>. QED BY <1>1, <1>2 DEF AllSuccess

LEMMA SuccessKept ==
    ASSUME UNCHANGED section, UNCHANGED result
    PROVE  AllSuccess' <=> AllSuccess
<1>1. Shares' = Shares
    BY SameSection
<1>. QED BY <1>1 DEF AllSuccess

\* A step that neither computes nor adds.
LEMMA ProgressKept ==
    ASSUME UNCHANGED section, NEW t, compute_done' = compute_done, c' = c,
           \A s \in Mine(t) : /\ IsComputed(t, s)' <=> IsComputed(t, s)
                              /\ Missing(t, s)' = Missing(t, s)
    PROVE  /\ FlagsOf(t) => FlagsOf(t)'
           /\ WaitsOf(t) /\ at'[t] # "sum" => WaitsOf(t)'
           /\ AddedBy(t) => AddedBy(t)'
<1>1. /\ call' = call /\ (k_summing' <=> k_summing) /\ (SumsNow' <=> SumsNow)
      /\ Others' = Others /\ Mine(t)' = Mine(t)
    BY SameSection
<1>2. \A s : Block(s)' = Block(s) /\ ithr_k(s)' = ithr_k(s) /\ Columns(s)' = Columns(s)
    BY SameSection
<1>3. FlagsOf(t) => FlagsOf(t)'
    BY <1>1 DEF FlagsOf
<1>4. WaitsOf(t) /\ at'[t] # "sum" => WaitsOf(t)'
    BY <1>1, <1>2 DEF WaitsOf
<1>5. AddedBy(t) => AddedBy(t)'
    BY <1>1, <1>2 DEF AddedBy
<1>. QED BY <1>3, <1>4, <1>5

LEMMA MultipliedKept ==
    ASSUME UNCHANGED section, NEW t, MultipliedBy(t), c' = c,
           \A s \in Mine(t) : Passes(t, s)' = Passes(t, s),
           at'[t] \in Stages => it'[t] \in 1 .. call.iters,
           at'[t] \in {"alloc", "allocated"} => it'[t] = 1
    PROVE  MultipliedBy(t)'
<1>1. call' = call /\ Mine(t)' = Mine(t)
    BY SameSection
<1>. QED BY <1>1 DEF MultipliedBy

\* What a step of t has to show in a call that shares the copy of A.
LEMMA SharedFrom ==
    ASSUME SumInv, Control', UNCHANGED section, phase # "returned", call.shared,
           NEW t \in Team, \A u \in Team \ {t} : Stays(u),
           PlacedAt(t)', compute_done' = compute_done,
           AllSuccess' => /\ AllSuccess /\ MultipliedBy(t)'
                          /\ \A s \in AllShares : s # ithr[t] => c'[s] = c[s]
    PROVE  SumInv'
<1>1. Control
    BY DEF SumInv
<1>2. ~k_summing /\ phase = "first" /\ ~Summing
    BY <1>1, SumFacts DEF Control, Summing
<1>3. FlagsOf(t)'
    <2>1. FlagsOf(t)
        BY <1>2 DEF SumInv, Flags
    <2>2. ~k_summing' /\ Mine(t)' = Mine(t)
        BY <1>2, SameSection
    <2>. QED BY <2>1, <2>2, <1>2 DEF FlagsOf
<1>. QED BY <1>2, <1>3, SumFrom

LEMMA SumTakeShare ==
    ASSUME SumInv, Control', UNCHANGED section, phase # "returned",
           NEW t \in Team, TakeShare(t)
    PROVE  SumInv'
<1>. DEFINE x == ithr[t]
<1>0. /\ t \in AllThreads /\ x \in Nat /\ PlacedAt(t) /\ Control /\ nthr_eff \in Nat
      /\ \A s \in Mine(t) : s \in Nat /\ s < nthr_eff
    BY AtFacts
<1>1. /\ at[t] = "start" /\ ithr' = ithr /\ c' = c /\ compute_done' = compute_done
      /\ result' = result
    BY DEF TakeShare, data
<1>2. it'[t] = 1 /\ \A u \in AllThreads : u # t => it'[u] = it[u]
    BY <1>0 DEF TakeShare, Control
<1>3. \A u \in AllThreads : u # t => at'[u] = at[u] /\ todo'[u] = todo[u]
    BY <1>0 DEF TakeShare, Goto, Control
<1>4. \/ x >= nthr_eff /\ at'[t] = "end"
      \/ /\ x < nthr_eff /\ phase = "second" /\ at'[t] = "sum"
         /\ todo'[t] = sum_order(x)
      \/ x < nthr_eff /\ phase = "first" /\ ~call.shared /\ at'[t] = "compute"
      \/ x < nthr_eff /\ phase = "first" /\ call.shared /\ at'[t] \in {"kernel", "alloc"}
    BY <1>0 DEF TakeShare, Goto, Control
<1>5. x < nthr_eff => x \in AllShares
    BY <1>0 DEF AllShares
<1>6. \A u \in Team \ {t} : Stays(u)
    <2>1. Team \subseteq AllThreads
        BY <1>0, SumFacts
    <2>. QED BY <2>1, <1>1, <1>2, <1>3 DEF Stays
<1>7. PlacedAt(t)'
    <2>1. phase = "second" => Summing
        BY DEF Summing
    <2>. QED BY <2>1, <1>0, <1>1, <1>4, <1>5, SameSection
             DEF PlacedAt, Stages, Inside, Reading, Filled
<1>8. ASSUME NEW s \in Mine(t)
      PROVE  /\ IsComputed(t, s)' <=> IsComputed(t, s)
             /\ Missing(t, s)' = Missing(t, s)
             /\ call.shared => Passes(t, s)' = Passes(t, s)
    <2>1. s \in Nat /\ s < nthr_eff
        BY <1>0
    <2>2. s = x => x < nthr_eff
        BY <2>1
    <2>3. x < nthr_eff => Adds(sum_order(x)) = Others
        BY <1>0, <1>5, SumOrderFacts
    <2>4. IsComputed(t, s)' <=> IsComputed(t, s)
        BY <2>2, <1>1, <1>4, SameSection DEF IsComputed
    <2>5. Missing(t, s)' = Missing(t, s)
        BY <2>2, <2>3, <1>1, <1>4, SameSection DEF Missing
    <2>6. ASSUME call.shared PROVE Passes(t, s)' = Passes(t, s)
        <3>1. s < x \/ s > x \/ s = x
            BY <2>1, <1>0
        <3>2. \/ x >= nthr_eff /\ at'[t] = "end"
              \/ x < nthr_eff /\ at'[t] \in {"kernel", "alloc"}
            BY <2>6, <1>0, <1>4, SumFacts DEF Control
        <3>3. ithr'[t] = x /\ it'[t] = 1 /\ at[t] = "start" /\ call' = call
            BY <1>1, <1>2, SameSection
        <3>4. CASE s < x
            BY <3>3, <3>4 DEF Passes
        <3>5. CASE s > x
            BY <3>3, <3>5, <2>1, <1>0 DEF Passes
        <3>6. CASE s = x
            <4>1. at'[t] \in {"kernel", "alloc"}
                BY <3>2, <3>6, <2>1, <1>0
            <4>. QED BY <4>1, <3>3, <3>6, <2>1 DEF Passes
        <3>. QED BY <3>1, <3>4, <3>5, <3>6
    <2>. QED BY <2>4, <2>5, <2>6
<1>9. AllSuccess' => AllSuccess
    BY <1>1, SuccessKept
<1>10. CASE call.shared
    <2>1. phase = "first"
        BY <1>0, <1>10, SumFacts DEF Control
    <2>2. ASSUME AllSuccess' PROVE MultipliedBy(t)'
        <3>1. MultipliedBy(t)
            BY <1>9, <1>10, <2>2 DEF SumInv, Multiplied
        <3>2. 1 \in 1 .. call.iters
            BY <1>0, SumFacts
        <3>. QED BY <3>1, <3>2, <1>1, <1>2, <1>8, <1>10, MultipliedKept
    <2>. QED BY <2>2, <1>1, <1>6, <1>7, <1>9, <1>10, SharedFrom
<1>11. CASE ~call.shared
    <2>1. phase = "first" => FlagsOf(t)'
        BY <1>1, <1>8, ProgressKept DEF SumInv, Flags
    <2>2. phase = "first" /\ Summing => WaitsOf(t)'
        BY <1>1, <1>4, <1>8, ProgressKept DEF SumInv, Waits
    <2>3. AllSuccess' => AddedBy(t)'
        BY <1>1, <1>8, <1>9, <1>11, ProgressKept DEF SumInv, Added
    <2>. QED BY <2>1, <2>2, <2>3, <1>1, <1>6, <1>7, <1>9, <1>11, SumFrom
<1>. QED BY <1>10, <1>11

LEMMA SumNextShare ==
    ASSUME SumInv, Control', UNCHANGED section, phase # "returned",
           NEW t \in Team, NextShare(t)
    PROVE  SumInv'
<1>. DEFINE x == ithr[t]
<1>0. /\ t \in AllThreads /\ x \in Nat /\ PlacedAt(t) /\ Control /\ nthr_eff \in Nat
      /\ team \in Nat \ {0} /\ \A s \in Mine(t) : s \in Nat /\ s < nthr_eff
    BY AtFacts, SumFacts
<1>1. /\ at[t] = "next" /\ it' = it /\ todo' = todo /\ c' = c
      /\ compute_done' = compute_done /\ result' = result
    BY DEF NextShare, data
<1>2. /\ at'[t] = "start" /\ ithr'[t] = x + team
      /\ \A u \in AllThreads : u # t => at'[u] = at[u] /\ ithr'[u] = ithr[u]
    BY <1>0 DEF NextShare, Goto, Control
<1>3. x % team = t /\ (x + team) % team = t /\ \A s \in Mine(t) : s < x + team <=> s <= x
    BY <1>0, NextFacts DEF PlacedAt
<1>4. \A u \in Team \ {t} : Stays(u)
    <2>1. Team \subseteq AllThreads
        BY <1>0, SumFacts
    <2>. QED BY <2>1, <1>1, <1>2 DEF Stays
<1>5. PlacedAt(t)'
    BY <1>0, <1>1, <1>2, <1>3, SameSection DEF PlacedAt, Stages, Inside, Reading, Filled
<1>6. ASSUME NEW s \in Mine(t)
      PROVE  /\ IsComputed(t, s)' <=> IsComputed(t, s)
             /\ Missing(t, s)' = Missing(t, s)
             /\ Passes(t, s)' = Passes(t, s)
    <2>1. s \in Nat /\ (s < x + team <=> s <= x)
        BY <1>0, <1>3
    <2>2. s <= x <=> s < x \/ s = x
        BY <2>1, <1>0
    <2>3. s > x \/ s = x \/ s < x
        BY <2>1, <1>0
    <2>4. ~(s < x /\ s > x) /\ ~(s = x /\ s > x) /\ ~(s = x /\ s < x)
        BY <2>1, <1>0
    <2>5. s > x => s >= x + team
        BY <2>1, <1>0
    <2>6. IsComputed(t, s)' <=> IsComputed(t, s)
        BY <2>1, <2>2, <1>1, <1>2, SameSection DEF IsComputed
    <2>7. Missing(t, s)' = Missing(t, s)
        BY <2>1, <2>2, <1>1, <1>2, SameSection DEF Missing
    <2>8. Passes(t, s)' = Passes(t, s)
        BY <2>1, <2>2, <2>3, <2>4, <2>5, <1>1, <1>2, SameSection DEF Passes
    <2>. QED BY <2>6, <2>7, <2>8
<1>7. AllSuccess' => AllSuccess
    BY <1>1, SuccessKept
<1>8. CASE call.shared
    <2>1. ASSUME AllSuccess' PROVE MultipliedBy(t)'
        <3>1. MultipliedBy(t)
            BY <1>7, <1>8, <2>1 DEF SumInv, Multiplied
        <3>. QED BY <3>1, <1>1, <1>2, <1>6, MultipliedKept
                 DEF Stages, Inside, Reading, Filled
    <2>. QED BY <2>1, <1>1, <1>4, <1>5, <1>7, <1>8, SharedFrom
<1>9. CASE ~call.shared
    <2>1. phase = "first" => FlagsOf(t)'
        BY <1>1, <1>6, ProgressKept DEF SumInv, Flags
    <2>2. phase = "first" /\ Summing => WaitsOf(t)'
        BY <1>1, <1>2, <1>6, ProgressKept DEF SumInv, Waits
    <2>3. AllSuccess' => AddedBy(t)'
        BY <1>1, <1>6, <1>7, <1>9, ProgressKept DEF SumInv, Added
    <2>. QED BY <2>1, <2>2, <2>3, <1>1, <1>4, <1>5, <1>7, <1>9, SumFrom
<1>. QED BY <1>8, <1>9

\* Whoever computes part 0 of a block, nobody has added to the block yet.
LEMMA NotYetAdded ==
    ASSUME SumInv, NEW t \in Team, at[t] = "compute", ithr_k(ithr[t]) = 0,
           NEW u \in Team, NEW s \in Mine(u), Block(s) = ithr[t]
    PROVE  Missing(u, s) = Others
<1>1. SUFFICES ASSUME Missing(u, s) # Others PROVE FALSE
    OBVIOUS
<1>2. PlacedAt(t) /\ ithr[t] \in Nat
    BY AtFacts
<1>3. phase = "first" /\ Summing
    BY <1>1, <1>2 DEF PlacedAt, Missing
<1>4. compute_done[ithr[t]]
    BY <1>1, <1>3 DEF SumInv, Waits, WaitsOf
<1>5. ithr[t] \in Mine(t)
    BY <1>2, AtFacts DEF PlacedAt
<1>6. IsComputed(t, ithr[t])
    BY <1>3, <1>4, <1>5 DEF SumInv, Flags, FlagsOf
<1>. QED BY <1>2, <1>3, <1>6 DEF IsComputed

LEMMA SumCompute ==
    ASSUME SumInv, Control', UNCHANGED section, phase # "returned",
           NEW t \in Team, Compute(t)
    PROVE  SumInv'
<1>. DEFINE x == ithr[t]
<1>0. /\ t \in AllThreads /\ x \in Nat /\ PlacedAt(t) /\ Control /\ at[t] = "compute"
      /\ \A u \in Team : \A s \in Mine(u) : s \in Nat /\ s \in AllShares
    BY AtFacts DEF Compute
<1>1. /\ phase = "first" /\ ~call.shared /\ x \in AllShares /\ x \in Mine(t)
      /\ x \in Shares /\ (Summing <=> k_summing /\ SumsNow)
    BY <1>0, AtFacts DEF PlacedAt, Summing
<1>2. /\ ithr' = ithr /\ it' = it
      /\ at'[t] = IF Summing THEN "sum" ELSE "next"
      /\ Summing => todo'[t] = sum_order(x)
      /\ \A u \in AllThreads : u # t => at'[u] = at[u] /\ todo'[u] = todo[u]
    BY <1>0, <1>1 DEF Compute, Goto, Control
<1>3. compute_done' = IF Summing THEN [compute_done EXCEPT ![x] = TRUE]
                      ELSE compute_done
    BY <1>1 DEF Compute
<1>4. compute_done \in [Shares -> BOOLEAN] /\ AllShares \subseteq Shares
    BY <1>0, SumFacts DEF Control
<1>5. AllSuccess' =>
         AllSuccess /\ c' = IF ithr_k(x) > 0 THEN c
                            ELSE [c EXCEPT ![Block(x)] = [j \in DOMAIN @ |-> {0}]]
    <2>1. Fail(t) => ~AllSuccess'
        BY <1>0, <1>1, FailFacts
    <2>. QED BY <2>1, SuccessKept DEF Compute
<1>6. \A u \in Team \ {t} : Stays(u)
    <2>1. Team \subseteq AllThreads
        BY <1>0, SumFacts
    <2>. QED BY <2>1, <1>2 DEF Stays
<1>7. PlacedAt(t)'
    BY <1>0, <1>1, <1>2, SameSection DEF PlacedAt, Stages, Inside, Reading, Filled
<1>8. Adds(sum_order(x)) = Others
    BY <1>0, <1>1, SumOrderFacts
<1>9. ASSUME NEW s \in Mine(t)
      PROVE  /\ IsComputed(t, s)' <=> IsComputed(t, s) \/ s = x
             /\ Missing(t, s)' = Missing(t, s)
    <2>1. s \in Nat /\ (s = x => ~(s < x))
        BY <1>0
    <2>2. IsComputed(t, s)' <=> IsComputed(t, s) \/ s = x
        BY <2>1, <1>0, <1>1, <1>2, SameSection DEF IsComputed
    <2>3. Missing(t, s)' = Missing(t, s)
        BY <2>1, <1>0, <1>1, <1>2, <1>8, SameSection DEF Missing
    <2>. QED BY <2>2, <2>3
<1>10. \A s \in AllShares : /\ s # x => compute_done'[s] = compute_done[s]
                            /\ compute_done[s] => compute_done'[s]
                            /\ s = x /\ Summing => compute_done'[s]
    BY <1>3, <1>4
<1>11. FlagsOf(t)'
    <2>1. FlagsOf(t)
        BY <1>1 DEF SumInv, Flags
    <2>2. Mine(t)' = Mine(t) /\ (k_summing' <=> k_summing) /\ (SumsNow' <=> SumsNow)
        BY SameSection
    <2>3. ~Summing => compute_done' = compute_done
        BY <1>3
    <2>. QED BY <2>1, <2>2, <2>3, <1>0, <1>1, <1>9, <1>10 DEF FlagsOf
<1>12. Summing => WaitsOf(t)'
    <2>. SUFFICES ASSUME Summing, NEW s \in Mine(t)
                  PROVE  /\ Missing(t, s) # Others => compute_done'[Block(s)]
                         /\ s = x /\ todo'[t] # <<>> =>
                               compute_done'[Block(s)] \/ Head(todo'[t]).for = 0
        BY <1>2, <1>9, SameSection DEF WaitsOf
    <2>1. WaitsOf(t)
        BY <1>1 DEF SumInv, Waits
    <2>2. Block(s) \in AllShares
        BY <1>0, ShareFacts
    <2>3. Missing(t, s) # Others => compute_done'[Block(s)]
        BY <2>1, <2>2, <1>10 DEF WaitsOf
    <2>4. ASSUME s = x, todo'[t] # <<>>
          PROVE  compute_done'[Block(s)] \/ Head(todo'[t]).for = 0
        <3>1. CASE ithr_k(x) # 0
            BY <3>1, <2>4, <1>0, <1>1, <1>2, SumOrderFacts
        <3>2. CASE ithr_k(x) = 0
            <4>1. Block(s) = x
                BY <3>2, <2>4, <1>0, <1>1, ShareFacts
            <4>. QED BY <4>1, <1>1, <1>10
        <3>. QED BY <3>1, <3>2
    <2>. QED BY <2>3, <2>4
<1>13. ASSUME AllSuccess', NEW u \in Team PROVE AddedBy(u)'
    <2>1. AddedBy(u)
        BY <1>1, <1>5, <1>13 DEF SumInv, Added
    <2>2. /\ call' = call /\ Others' = Others /\ Mine(u)' = Mine(u)
          /\ \A s : Block(s)' = Block(s) /\ ithr_k(s)' = ithr_k(s)
                                         /\ Columns(s)' = Columns(s)
        BY SameSection
    <2>3. ASSUME NEW s \in Mine(u)
          PROVE  /\ IsComputed(u, s)' <=> IsComputed(u, s) \/ s = x
                 /\ Missing(u, s)' = Missing(u, s)
        <3>1. CASE u = t
            BY <3>1, <1>9
        <3>2. CASE u # t
            <4>1. s # x
                BY <3>2, <1>1 DEF Mine
            <4>. QED BY <4>1, <3>2, <1>6, StaysFacts
        <3>. QED BY <3>1, <3>2
    <2>4. ASSUME NEW s \in Mine(u), ithr_k(s) = 0, NEW j \in 0 .. call.n - 1
          PROVE  0 \in c'[Block(s)][j] <=> IsComputed(u, s) \/ s = x
        <3>1. Block(s) = s /\ s \in Shares
            BY <2>4, <1>0, <1>4, ShareFacts
        <3>2. CASE s = x
            <4>1. ithr_k(x) = 0 /\ Block(x) = x
                BY <2>4, <3>1, <3>2
            <4>2. c' = [c EXCEPT ![x] = [i \in DOMAIN @ |-> {0}]]
                BY <4>1, <1>5, <1>13
            <4>3. c'[x] = [i \in 0 .. call.n - 1 |-> {0}]
                <5>1. x \in DOMAIN c /\ DOMAIN c[x] = 0 .. call.n - 1
                    BY <1>0, <1>1 DEF Control
                <5>. HIDE DEF x
                <5>. QED BY <4>2, <5>1
            <4>4. c'[x][j] = {0}
                BY <4>3
            <4>. QED BY <4>4, <3>1, <3>2
        <3>3. CASE s # x
            <4>1. c'[s] = c[s]
                <5>1. CASE ithr_k(x) > 0
                    BY <5>1, <1>5, <1>13
                <5>2. CASE ~(ithr_k(x) > 0)
                    <6>1. ithr_k(x) = 0
                        BY <5>2, <1>0, <1>1, ShareFacts, SumFacts
                    <6>2. Block(x) = x
                        BY <6>1, <1>0, <1>1, ShareFacts
                    <6>3. c' = [c EXCEPT ![x] = [i \in DOMAIN @ |-> {0}]]
                        BY <5>2, <6>2, <1>5, <1>13
                    <6>. QED BY <6>3, <3>1, <3>3, <1>0 DEF Control
                <5>. QED BY <5>1, <5>2
            <4>2. 0 \in c[s][j] <=> IsComputed(u, s)
                BY <2>1, <2>4, <3>1 DEF AddedBy
            <4>. QED BY <4>1, <4>2, <3>1, <3>3
        <3>. QED BY <3>2, <3>3
    <2>5. ASSUME NEW s \in Mine(u), NEW j \in Columns(s)
          PROVE  c'[Block(s)][j] \ {0} = Others \ Missing(u, s)
        <3>1. Block(s) \in Shares /\ j \in 0 .. call.n - 1
            BY <1>0, <1>4, ShareFacts, ColumnsFacts
        <3>2. c[Block(s)][j] \ {0} = Others \ Missing(u, s)
            BY <2>1 DEF AddedBy
        <3>3. CASE ithr_k(x) > 0
            BY <3>2, <3>3, <1>5, <1>13
        <3>4. CASE ~(ithr_k(x) > 0)
            <4>1. ithr_k(x) = 0
                BY <3>4, <1>0, <1>1, ShareFacts, SumFacts
            <4>2. Block(x) = x
                BY <4>1, <1>0, <1>1, ShareFacts
            <4>3. c' = [c EXCEPT ![x] = [i \in DOMAIN @ |-> {0}]]
                BY <3>4, <4>2, <1>5, <1>13
            <4>4. CASE Block(s) # x
                BY <3>1, <3>2, <4>3, <4>4, <1>0 DEF Control
            <4>5. CASE Block(s) = x
                <5>1. Missing(u, s) = Others
                    BY <4>1, <4>5, <1>0, NotYetAdded
                <5>2. c'[x] = [i \in 0 .. call.n - 1 |-> {0}]
                    <6>1. x \in DOMAIN c /\ DOMAIN c[x] = 0 .. call.n - 1
                        BY <1>0, <1>1 DEF Control
                    <6>. HIDE DEF x
                    <6>. QED BY <4>3, <6>1
                <5>3. c'[x][j] = {0}
                    BY <5>2, <3>1
                <5>. QED BY <5>1, <5>3, <4>5
            <4>. QED BY <4>4, <4>5
        <3>. QED BY <3>3, <3>4, <1>0, <1>1, ShareFacts
    <2>. QED BY <2>2, <2>3, <2>4, <2>5 DEF AddedBy
<1>. QED BY <1>0, <1>1, <1>5, <1>6, <1>7, <1>10, <1>11, <1>12, <1>13, SumFrom

LEMMA SumAdds ==
    ASSUME SumInv, Control', UNCHANGED section, phase # "returned",
           NEW t \in Team, sum_k_blocks(t), todo[t] # <<>>
    PROVE  SumInv'
<1>. DEFINE x == ithr[t]
            a == Head(todo[t]).add
            b == Block(x)
<1>0. /\ t \in AllThreads /\ x \in Nat /\ PlacedAt(t) /\ Control /\ at[t] = "sum"
      /\ \A u \in Team : \A s \in Mine(u) : s \in Nat /\ s \in AllShares
    BY AtFacts DEF sum_k_blocks
<1>1. x \in AllShares /\ x \in Mine(t) /\ Summing /\ k_summing /\ b \in AllShares
    BY <1>0, AtFacts, ShareFacts DEF PlacedAt, Summing, Control
<1>2. /\ ithr' = ithr /\ it' = it /\ at' = at /\ compute_done' = compute_done
      /\ result' = result /\ todo'[t] = Tail(todo[t]) /\ c' = Plus(b, Columns(x), a)
      /\ \A u \in AllThreads : u # t => todo'[u] = todo[u]
    BY <1>0 DEF sum_k_blocks, Control
<1>3. /\ a \in Others /\ a # 0 /\ a \in Adds(todo[t])
      /\ Adds(Tail(todo[t])) = Adds(todo[t]) \ {a}
    <2>1. a \in Others => a # 0
        BY DEF Others
    <2>. QED BY <2>1, AtFacts, OrderFacts
<1>4. \A u \in Team \ {t} : Stays(u)
    <2>1. Team \subseteq AllThreads
        BY <1>0, SumFacts
    <2>. QED BY <2>1, <1>2 DEF Stays
<1>5. PlacedAt(t)'
    BY <1>0, <1>2, SameSection DEF PlacedAt
<1>6. ~call.shared
    BY <1>0, <1>1, SumFacts
<1>7. ASSUME NEW s \in Mine(t)
      PROVE  /\ IsComputed(t, s)' <=> IsComputed(t, s)
             /\ Missing(t, s)' = IF s = x THEN Missing(t, s) \ {a} ELSE Missing(t, s)
    <2>1. s \in Nat /\ (s = x => ~(s < x))
        BY <1>0
    <2>2. IsComputed(t, s)' <=> IsComputed(t, s)
        BY <1>2, SameSection DEF IsComputed
    <2>3. Missing(t, s)' = IF s = x THEN Missing(t, s) \ {a} ELSE Missing(t, s)
        BY <2>1, <1>0, <1>1, <1>2, <1>3, SameSection DEF Missing
    <2>. QED BY <2>2, <2>3
<1>8. FlagsOf(t) => FlagsOf(t)'
    BY <1>2, <1>7, SameSection DEF FlagsOf
<1>9. phase = "first" => compute_done[b]
    <2>. SUFFICES ASSUME phase = "first" PROVE compute_done[b]
        OBVIOUS
    <2>1. compute_done[b] \/ Head(todo[t]).for = 0
        BY <1>0, <1>1 DEF SumInv, Waits, WaitsOf
    <2>2. compute_done[get_thread_arg(x, Head(todo[t]).for)]
        BY DEF sum_k_blocks, wait_thread
    <2>3. get_thread_arg(x, 0) = b
        BY <1>0, <1>1, ShareFacts
    <2>. QED BY <2>1, <2>2, <2>3
<1>10. phase = "first" => WaitsOf(t)'
    <2>. SUFFICES ASSUME phase = "first", NEW s \in Mine(t)
                  PROVE  s # x /\ Missing(t, s) # Others => compute_done[Block(s)]
        BY <1>2, <1>7, <1>9, SameSection DEF WaitsOf
    <2>. QED BY <1>1 DEF SumInv, Waits, WaitsOf
<1>11. ASSUME AllSuccess, NEW u \in Team PROVE AddedBy(u)'
    <2>1. AddedBy(u) /\ AddedBy(t)
        BY <1>6, <1>11 DEF SumInv, Added
    <2>2. /\ call' = call /\ Others' = Others /\ Mine(u)' = Mine(u)
          /\ \A s : Block(s)' = Block(s) /\ ithr_k(s)' = ithr_k(s)
                                         /\ Columns(s)' = Columns(s)
        BY SameSection
    <2>3. ASSUME NEW s \in Mine(u)
          PROVE  /\ IsComputed(u, s)' <=> IsComputed(u, s)
                 /\ Missing(u, s)' = IF s = x THEN Missing(u, s) \ {a}
                                     ELSE Missing(u, s)
                 /\ s = x => u = t
        <3>1. s = x => u = t
            BY <1>1 DEF Mine
        <3>2. CASE u = t
            BY <3>1, <3>2, <1>7
        <3>3. CASE u # t
            BY <3>1, <3>3, <1>4, StaysFacts
        <3>. QED BY <3>1, <3>2, <3>3
    <2>4. \A j \in Columns(x) : c[b][j] \ {0} = Others \ Adds(todo[t])
        <3>1. Missing(t, x) = Adds(todo[t])
            BY <1>0, <1>1 DEF Missing
        <3>. QED BY <3>1, <2>1, <1>1 DEF AddedBy
    <2>5. ASSUME NEW s \in AllShares, NEW j \in 0 .. call.n - 1
          PROVE  c'[s][j] = IF s = b /\ j \in Columns(x) THEN c[b][j] \cup {a}
                            ELSE c[s][j]
        <3>1. DOMAIN c = Shares /\ s \in Shares /\ b \in Shares
              /\ DOMAIN c[b] = 0 .. call.n - 1
            BY <1>0, <1>1, SumFacts DEF Control
        <3>2. c' = [c EXCEPT ![b] = [i \in DOMAIN @ |->
                       IF i \notin Columns(x) THEN @[i]
                       ELSE @[i] \cup (IF a \in @[i] THEN {Twice} ELSE {a})]]
            BY <1>2 DEF Plus
        <3>3. j \in Columns(x) => a \notin c[b][j]
            BY <2>4, <1>3
        <3>. HIDE DEF a, b, x
        <3>4. CASE s = b
            <4>1. c'[b] = [i \in 0 .. call.n - 1 |->
                       IF i \notin Columns(x) THEN c[b][i]
                       ELSE c[b][i] \cup (IF a \in c[b][i] THEN {Twice} ELSE {a})]
                BY <3>1, <3>2
            <4>. QED BY <4>1, <3>3, <3>4
        <3>5. CASE s # b
            BY <3>1, <3>2, <3>5
        <3>. QED BY <3>4, <3>5
    <2>6. ASSUME NEW s \in Mine(u), ithr_k(s) = 0, NEW j \in 0 .. call.n - 1
          PROVE  0 \in c'[Block(s)][j] <=> IsComputed(u, s)
        <3>1. Block(s) \in AllShares
            BY <1>0, ShareFacts
        <3>2. 0 \in c[Block(s)][j] <=> IsComputed(u, s)
            BY <2>1, <2>6 DEF AddedBy
        <3>. QED BY <3>1, <3>2, <2>5, <1>3
    <2>7. ASSUME NEW s \in Mine(u), NEW j \in Columns(s)
          PROVE  c'[Block(s)][j] \ {0} = Others \ Missing(u, s)'
        <3>1. s \in AllShares /\ Block(s) \in AllShares /\ j \in 0 .. call.n - 1
            BY <1>0, ShareFacts, ColumnsFacts
        <3>2. c[Block(s)][j] \ {0} = Others \ Missing(u, s)
            BY <2>1 DEF AddedBy
        <3>3. CASE s = x
            <4>1. c'[Block(s)][j] = c[Block(s)][j] \cup {a}
                BY <3>1, <3>3, <2>5
            <4>2. Missing(u, s)' = Missing(u, s) \ {a}
                BY <3>3, <2>3
            <4>. QED BY <4>1, <4>2, <3>2, <1>3
        <3>4. CASE s # x
            <4>1. ~(Block(s) = b /\ j \in Columns(x))
                BY <3>1, <3>4, <1>0, <1>1, ColumnsFacts
            <4>2. c'[Block(s)][j] = c[Block(s)][j]
                BY <3>1, <4>1, <2>5
            <4>. QED BY <4>2, <3>2, <3>4, <2>3
        <3>. QED BY <3>3, <3>4
    <2>. QED BY <2>2, <2>3, <2>6, <2>7 DEF AddedBy
<1>12. AllSuccess' <=> AllSuccess
    BY <1>2, SuccessKept
<1>13. phase = "first" => FlagsOf(t)'
    BY <1>8 DEF SumInv, Flags
<1>. QED BY <1>2, <1>4, <1>5, <1>6, <1>10, <1>11, <1>12, <1>13, SumFrom

LEMMA SumAdded ==
    ASSUME SumInv, Control', UNCHANGED section, phase # "returned",
           NEW t \in Team, sum_k_blocks(t), todo[t] = <<>>
    PROVE  SumInv'
<1>. DEFINE x == ithr[t]
<1>0. /\ t \in AllThreads /\ x \in Nat /\ PlacedAt(t) /\ Control /\ at[t] = "sum"
    BY AtFacts DEF sum_k_blocks
<1>1. /\ ithr' = ithr /\ it' = it /\ compute_done' = compute_done /\ c' = c
      /\ result' = result /\ todo' = todo /\ at'[t] = "next"
      /\ \A u \in AllThreads : u # t => at'[u] = at[u]
    BY <1>0 DEF sum_k_blocks, Goto, Control
<1>2. \A u \in Team \ {t} : Stays(u)
    <2>1. Team \subseteq AllThreads
        BY <1>0, SumFacts
    <2>. QED BY <2>1, <1>1 DEF Stays
<1>3. Summing /\ ~call.shared
    BY <1>0, SumFacts DEF PlacedAt, Summing, Control
<1>4. PlacedAt(t)'
    BY <1>0, <1>1, SameSection DEF PlacedAt, Stages, Inside, Reading, Filled
<1>5. \A s \in Mine(t) : /\ IsComputed(t, s)' <=> IsComputed(t, s)
                         /\ Missing(t, s)' = Missing(t, s)
    <2>. SUFFICES ASSUME NEW s \in Mine(t)
                  PROVE  /\ IsComputed(t, s)' <=> IsComputed(t, s)
                         /\ Missing(t, s)' = Missing(t, s)
        OBVIOUS
    <2>1. IsComputed(t, s)' <=> IsComputed(t, s)
        BY <1>0, <1>1, SameSection DEF IsComputed
    <2>2. Missing(t, s)' = Missing(t, s)
        BY <1>0, <1>1, <1>3, SameSection, NothingToAdd DEF Missing
    <2>. QED BY <2>1, <2>2
<1>6. AllSuccess' <=> AllSuccess
    BY <1>1, SuccessKept
<1>7. phase = "first" => FlagsOf(t)'
    BY <1>1, <1>5, ProgressKept DEF SumInv, Flags
<1>8. phase = "first" /\ Summing => WaitsOf(t)'
    BY <1>1, <1>5, ProgressKept DEF SumInv, Waits
<1>9. AllSuccess' => AddedBy(t)'
    BY <1>1, <1>3, <1>5, <1>6, ProgressKept DEF SumInv, Added
<1>. QED BY <1>1, <1>2, <1>3, <1>4, <1>6, <1>7, <1>8, <1>9, SumFrom

------------------------------------------------------------------------------
(* The steps of a call that shares the copy of A.                          *)

\* Such a step moves one thread, and multiplies at most with its own columns.
LEMMA SharedStep ==
    ASSUME SumInv, Control', UNCHANGED section, phase # "returned",
           NEW t \in Team, at[t] \in Stages,
           UNCHANGED <<ithr, todo, compute_done>>,
           \A u \in AllThreads : u # t => at'[u] = at[u] /\ it'[u] = it[u],
           at'[t] \in Stages \cup {"next"},
           AllSuccess' =>
              /\ AllSuccess
              /\ at'[t] \in Stages => it'[t] \in 1 .. call.iters
              /\ at'[t] \in {"alloc", "allocated"} => it'[t] = 1
              /\ \A s \in AllShares : s # ithr[t] => c'[s] = c[s]
              /\ \A j \in 0 .. call.n - 1 :
                    c[ithr[t]][j] = 1 .. Passes(t, ithr[t]) =>
                        c'[ithr[t]][j] = 1 .. Passes(t, ithr[t])'
    PROVE  SumInv'
<1>. DEFINE x == ithr[t]
<1>0. /\ t \in AllThreads /\ x \in Nat /\ PlacedAt(t) /\ Control
      /\ \A s \in Mine(t) : s \in Nat /\ s \in AllShares
    BY AtFacts
<1>1. call.shared /\ x \in AllShares /\ x \in Mine(t) /\ phase = "first"
    <2>1. call.shared /\ x \in AllShares
        BY <1>0 DEF PlacedAt, Stages, Inside, Reading, Filled
    <2>. QED BY <2>1, <1>0, AtFacts, SumFacts DEF Control
<1>2. \A u \in Team \ {t} : Stays(u)
    <2>1. Team \subseteq AllThreads
        BY <1>0, SumFacts
    <2>. QED BY <2>1 DEF Stays
<1>3. PlacedAt(t)'
    BY <1>0, <1>1, SameSection DEF PlacedAt, Stages, Inside, Reading, Filled
<1>4. ASSUME AllSuccess' PROVE MultipliedBy(t)'
    <2>1. MultipliedBy(t)
        BY <1>1, <1>4 DEF SumInv, Multiplied
    <2>2. call' = call /\ Mine(t)' = Mine(t)
        BY SameSection
    <2>3. ASSUME NEW s \in Mine(t), NEW j \in 0 .. call.n - 1
          PROVE  c'[s][j] = 1 .. Passes(t, s)'
        <3>1. c[s][j] = 1 .. Passes(t, s)
            BY <2>1 DEF MultipliedBy
        <3>2. CASE s = x
            BY <3>1, <3>2, <1>4
        <3>3. CASE s # x
            <4>1. s \in Nat /\ s \in AllShares /\ (s < x \/ s > x)
                BY <3>3, <1>0
            <4>2. Passes(t, s)' = Passes(t, s)
                BY <4>1, <2>2, <1>0 DEF Passes
            <4>. QED BY <3>1, <3>3, <4>1, <4>2, <1>4
        <3>. QED BY <3>2, <3>3
    <2>. QED BY <2>2, <2>3, <1>4 DEF MultipliedBy
<1>. QED BY <1>1, <1>2, <1>3, <1>4, SharedFrom

\* A step that multiplies nothing.
LEMMA SharedMove ==
    ASSUME SumInv, Control', UNCHANGED section, phase # "returned",
           NEW t \in Team, at[t] \in Stages,
           UNCHANGED <<ithr, todo, compute_done, c>>,
           \A u \in AllThreads : u # t => at'[u] = at[u] /\ it'[u] = it[u],
           at'[t] \in Stages \cup {"next"},
           Fail(t) \/ UNCHANGED result,
           AllSuccess' /\ (call.shared => MultipliedBy(t)) =>
              /\ at'[t] \in Stages => it'[t] \in 1 .. call.iters
              /\ at'[t] \in {"alloc", "allocated"} => it'[t] = 1
              /\ Passes(t, ithr[t])' = Passes(t, ithr[t])
    PROVE  SumInv'
<1>1. PlacedAt(t) /\ Control
    BY AtFacts
<1>2. ithr[t] \in Shares
    BY <1>1, AtFacts DEF PlacedAt, Stages, Inside, Reading, Filled
<1>3. AllSuccess' => AllSuccess
    BY <1>1, <1>2, FailFacts, SuccessKept
<1>4. AllSuccess => (call.shared => MultipliedBy(t))
    BY DEF SumInv, Multiplied
<1>. QED BY <1>3, <1>4, SharedStep

LEMMA SumAlloc ==
    ASSUME SumInv, Control', UNCHANGED section, phase # "returned",
           NEW t \in Team, Alloc(t) \/ Copy(t) \/ Copied(t) \/ Computed(t)
    PROVE  SumInv'
<1>0. t \in AllThreads /\ Control /\ ithr[t] \in Nat /\ PlacedAt(t)
    BY AtFacts
<1>1. /\ UNCHANGED <<ithr, todo, compute_done, c, it, result>>
      /\ \A u \in AllThreads : u # t => at'[u] = at[u]
      /\ \/ at[t] = "alloc" /\ at'[t] = "allocated"
         \/ at[t] = "copy" /\ at'[t] = "copied"
         \/ at[t] = "copied" /\ at'[t] = "kernel"
         \/ at[t] = "computed" /\ at'[t] = "iterated"
    BY <1>0 DEF Alloc, Copy, Copied, Computed, Arrive, Goto, Control, data
<1>2. at[t] \in Stages /\ at'[t] \in Stages \cup {"next"}
    BY <1>1 DEF Stages, Inside, Reading, Filled
<1>3. Passes(t, ithr[t])' = Passes(t, ithr[t])
    BY <1>0, <1>1, SameSection DEF Passes
<1>4. call.shared
    BY <1>0, <1>2 DEF PlacedAt
<1>5. MultipliedBy(t) => /\ it[t] \in 1 .. call.iters
                         /\ at'[t] \in {"alloc", "allocated"} => it[t] = 1
    BY <1>1, <1>2 DEF MultipliedBy
<1>. QED BY <1>1, <1>2, <1>3, <1>4, <1>5, SharedMove

LEMMA SumAllocated ==
    ASSUME SumInv, Control', UNCHANGED section, phase # "returned",
           NEW t \in Team, Allocated(t)
    PROVE  SumInv'
<1>0. t \in AllThreads /\ Control /\ ithr[t] \in Nat /\ PlacedAt(t)
    BY AtFacts
<1>1. /\ UNCHANGED <<ithr, todo, compute_done, c, it>> /\ at[t] = "allocated"
      /\ \A u \in AllThreads : u # t => at'[u] = at[u]
      /\ \/ at'[t] = "copy" /\ UNCHANGED result
         \/ at'[t] = "next" /\ Fail(t)
    BY <1>0 DEF Allocated, Goto, Control
<1>2. at[t] \in Stages /\ at'[t] \in Stages \cup {"next"}
    BY <1>1 DEF Stages, Inside, Reading, Filled
<1>3. call.shared /\ ithr[t] \in Shares
    BY <1>0, <1>1, <1>2, AtFacts DEF PlacedAt
<1>4. AllSuccess' => at'[t] = "copy"
    BY <1>0, <1>1, <1>3, FailFacts
<1>5. MultipliedBy(t) /\ at'[t] = "copy" =>
          it[t] \in 1 .. call.iters /\ Passes(t, ithr[t])' = Passes(t, ithr[t])
    <2>. SUFFICES ASSUME MultipliedBy(t), at'[t] = "copy"
                  PROVE  it[t] \in 1 .. call.iters
                         /\ Passes(t, ithr[t])' = Passes(t, ithr[t])
        OBVIOUS
    <2>1. it[t] = 1 /\ it[t] \in 1 .. call.iters
        BY <1>1, <1>2 DEF MultipliedBy
    <2>. QED BY <2>1, <1>0, <1>1, SameSection DEF Passes
<1>6. at'[t] \in {"alloc", "allocated"} => ~AllSuccess'
    BY <1>1, <1>4
<1>. QED BY <1>1, <1>2, <1>3, <1>4, <1>5, <1>6, SharedMove

LEMMA SumKernel ==
    ASSUME SumInv, Control', UNCHANGED section, phase # "returned",
           NEW t \in Team, Kernel(t)
    PROVE  SumInv'
<1>0. t \in AllThreads /\ Control /\ ithr[t] \in Nat /\ PlacedAt(t)
    BY AtFacts
<1>1. /\ UNCHANGED <<ithr, todo, compute_done, c, it>> /\ at[t] = "kernel"
      /\ \A u \in AllThreads : u # t => at'[u] = at[u]
      /\ \/ at'[t] = "computing" /\ UNCHANGED result
         \/ at'[t] \in {"iterated", "computed"} /\ Fail(t)
    BY <1>0 DEF Kernel, AfterKernel, Arrive, Goto, Control
<1>2. at[t] \in Stages /\ at'[t] \in Stages \cup {"next"}
    BY <1>1 DEF Stages, Inside, Reading, Filled
<1>3. call.shared /\ ithr[t] \in Shares
    BY <1>0, <1>1, <1>2, AtFacts DEF PlacedAt
<1>4. AllSuccess' => at'[t] = "computing"
    BY <1>0, <1>1, <1>3, FailFacts
<1>5. at'[t] = "computing" => Passes(t, ithr[t])' = Passes(t, ithr[t])
    BY <1>0, <1>1, SameSection DEF Passes
<1>6. MultipliedBy(t) => it[t] \in 1 .. call.iters
    BY <1>2 DEF MultipliedBy
<1>7. ~(at'[t] \in {"alloc", "allocated"})
    BY <1>1
<1>. QED BY <1>1, <1>2, <1>3, <1>4, <1>5, <1>6, <1>7, SharedMove

LEMMA SumIterated ==
    ASSUME SumInv, Control', UNCHANGED section, phase # "returned",
           NEW t \in Team, Iterated(t)
    PROVE  SumInv'
<1>0. t \in AllThreads /\ Control /\ ithr[t] \in Nat /\ it[t] \in Nat /\ PlacedAt(t)
    BY AtFacts
<1>1. /\ UNCHANGED <<ithr, todo, compute_done, c, result>> /\ at[t] = "iterated"
      /\ \A u \in AllThreads : u # t => at'[u] = at[u] /\ it'[u] = it[u]
      /\ \/ at'[t] \in {"kernel", "copy"} /\ it'[t] = it[t] + 1 /\ it[t] < call.iters
         \/ at'[t] = "next" /\ it'[t] = it[t] /\ ~(it[t] < call.iters)
    BY <1>0 DEF Iterated, Goto, Control
<1>2. at[t] \in Stages /\ at'[t] \in Stages \cup {"next"}
    BY <1>1 DEF Stages, Inside, Reading, Filled
<1>3. call.shared /\ call.iters \in Nat
    BY <1>0, <1>2, SumFacts DEF PlacedAt
<1>4. ASSUME MultipliedBy(t)
      PROVE  /\ at'[t] \in Stages => it'[t] \in 1 .. call.iters
             /\ Passes(t, ithr[t])' = Passes(t, ithr[t])
    <2>1. it[t] \in 1 .. call.iters
        BY <1>2, <1>4 DEF MultipliedBy
    <2>2. "next" \notin Stages
        BY DEF Stages, Inside, Reading, Filled
    <2>3. at'[t] \in Stages => it'[t] \in 1 .. call.iters
        BY <2>1, <2>2, <1>1, <1>3
    <2>4. ithr'[t] = ithr[t] /\ call' = call /\ ~(ithr[t] < ithr[t])
          /\ ~(ithr[t] > ithr[t])
        BY <1>0, <1>1, SameSection
    <2>5. Passes(t, ithr[t]) = it[t]
        BY <2>4, <1>1 DEF Passes
    <2>6. CASE at'[t] \in {"kernel", "copy"}
        <3>1. Passes(t, ithr[t])' = it'[t] - 1
            BY <2>4, <2>6 DEF Passes
        <3>. QED BY <3>1, <2>3, <2>5, <2>6, <1>0, <1>1
    <2>7. CASE at'[t] = "next"
        <3>1. Passes(t, ithr[t])' = call.iters /\ it[t] = call.iters
            BY <2>1, <2>4, <2>7, <1>1, <1>3 DEF Passes
        <3>. QED BY <3>1, <2>3, <2>5
    <2>. QED BY <2>3, <2>6, <2>7, <1>1
<1>5. ~(at'[t] \in {"alloc", "allocated"})
    BY <1>1
<1>. QED BY <1>1, <1>2, <1>3, <1>4, <1>5, SharedMove

LEMMA SumKernelDone ==
    ASSUME SumInv, Control', UNCHANGED section, phase # "returned",
           NEW t \in Team, KernelDone(t)
    PROVE  SumInv'
<1>. DEFINE x == ithr[t]
<1>0. t \in AllThreads /\ Control /\ x \in Nat /\ it[t] \in Nat /\ PlacedAt(t)
    BY AtFacts
<1>1. /\ UNCHANGED <<ithr, todo, compute_done, it, result>> /\ at[t] = "computing"
      /\ \A u \in AllThreads : u # t => at'[u] = at[u]
      /\ at'[t] \in {"iterated", "computed"}
      /\ c' = Plus(Block(x), DOMAIN c[Block(x)], it[t])
    BY <1>0 DEF KernelDone, AfterKernel, Arrive, Goto, Control
<1>2. at[t] \in Stages /\ at'[t] \in Stages \cup {"next"}
    BY <1>1 DEF Stages, Inside, Reading, Filled
<1>3. call.shared /\ x \in AllShares /\ x \in Shares /\ call.iters \in Nat
    BY <1>0, <1>1, <1>2, AtFacts, SumFacts DEF PlacedAt
<1>4. Block(x) = x
    <2>1. call.nthr_k = 1
        BY <1>0, <1>3, SumFacts
    <2>. QED BY <2>1, <1>0, <1>3, ShareFacts
<1>5. x \in DOMAIN c /\ AllShares \subseteq DOMAIN c /\ DOMAIN c[x] = 0 .. call.n - 1
    BY <1>0, <1>3, SumFacts DEF Control
<1>. HIDE DEF x
<1>6. c' = [c EXCEPT ![x] = [j \in 0 .. call.n - 1 |->
               c[x][j] \cup (IF it[t] \in c[x][j] THEN {Twice} ELSE {it[t]})]]
    BY <1>1, <1>4, <1>5 DEF Plus
<1>7. \A s \in AllShares : s # x => c'[s] = c[s]
    BY <1>5, <1>6
<1>8. \A j \in 0 .. call.n - 1 :
          c'[x][j] = c[x][j] \cup (IF it[t] \in c[x][j] THEN {Twice} ELSE {it[t]})
    BY <1>5, <1>6
<1>9. ~(x < x) /\ ~(x > x) /\ ithr[t] = x /\ ithr'[t] = x /\ x' = x
    BY <1>0, <1>1 DEF x
<1>10. Passes(t, x) = it[t] - 1 /\ Passes(t, x)' = it[t]
    <2>1. Passes(t, x) = it[t] - 1
        BY <1>1, <1>9 DEF Passes
    <2>2. ~(x < ithr'[t]) /\ ~(x > ithr'[t]) /\ it'[t] = it[t]
        BY <1>1, <1>9
    <2>3. Passes(t, x)' = it[t]
        BY <1>1, <1>9, <2>2 DEF Passes
    <2>. QED BY <2>1, <2>3
<1>11. AllSuccess' <=> AllSuccess
    BY <1>1, SuccessKept
<1>12. AllSuccess => it[t] \in 1 .. call.iters
    BY <1>2, <1>3 DEF SumInv, Multiplied, MultipliedBy
<1>13. ASSUME AllSuccess, NEW j \in 0 .. call.n - 1, c[x][j] = 1 .. Passes(t, x)
       PROVE  c'[x][j] = 1 .. Passes(t, x)'
    <2>1. PICK i \in 1 .. call.iters : i = it[t]
        BY <1>12, <1>13
    <2>2. i \notin 1 .. i - 1 /\ (1 .. i - 1) \cup {i} = 1 .. i
        BY <1>3, <2>1
    <2>. QED BY <2>1, <2>2, <1>8, <1>10, <1>13
<1>14. ~(at'[t] \in {"alloc", "allocated"})
    BY <1>1
<1>. QED BY <1>1, <1>2, <1>3, <1>7, <1>9, <1>11, <1>12, <1>13, <1>14, SharedStep

------------------------------------------------------------------------------
(* The invariant of the sum.                                               *)

LEMMA ControlStep ==
    ASSUME TypeOK', SumInv, UNCHANGED section, NEW t \in Team, Step(t)
    PROVE  Control'
<1>0. /\ t \in AllThreads /\ ithr[t] \in Nat /\ PlacedAt(t) /\ Control
      /\ todo[t] \in Orders /\ nthr_eff \in Nat
    BY AtFacts
<1>1. Shares' = Shares /\ Orders' = Orders /\ call' = call /\ phase' = phase
      /\ (k_summing' <=> k_summing)
    BY SameSection
<1>2. ithr[t] \in AllShares => sum_order(ithr[t]) \in Orders
    BY <1>0, SumOrderFacts
<1>3. todo' \in [AllThreads -> Orders]
    <2>1. todo \in [AllThreads -> Orders]
        BY <1>0 DEF Control
    <2>2. CASE TakeShare(t)
        <3>1. ~(ithr[t] >= nthr_eff) => ithr[t] \in AllShares
            BY <1>0 DEF AllShares
        <3>2. todo' = todo \/ (/\ ithr[t] \in AllShares
                               /\ todo' = [todo EXCEPT ![t] = sum_order(ithr[t])])
            BY <2>2, <3>1 DEF TakeShare
        <3>. QED BY <3>2, <2>1, <1>2
    <2>3. CASE Compute(t)
        <3>1. ithr[t] \in AllShares
            BY <2>3, <1>0 DEF Compute, PlacedAt
        <3>2. todo' = todo \/ todo' = [todo EXCEPT ![t] = sum_order(ithr[t])]
            BY <2>3 DEF Compute
        <3>. QED BY <3>1, <3>2, <2>1, <1>2
    <2>4. CASE sum_k_blocks(t)
        <3>1. todo' = todo \/ (todo[t] # <<>> /\ todo' = [todo EXCEPT ![t] = Tail(@)])
            BY <2>4 DEF sum_k_blocks
        <3>2. todo[t] # <<>> => Tail(todo[t]) \in Orders
            BY <1>0, OrderFacts
        <3>. QED BY <3>1, <3>2, <2>1
    <2>5. CASE todo' = todo
        BY <2>1, <2>5
    <2>6. TakeShare(t) \/ Compute(t) \/ sum_k_blocks(t) \/ todo' = todo
        BY DEF Step, NextShare, Spin, Alloc, Wait, Allocated, Copy, Copied, Kernel,
               KernelDone, Computed, Iterated, vars, place
    <2>. QED BY <2>2, <2>3, <2>4, <2>5, <2>6
<1>4. DOMAIN result' = Shares
    <2>1. result' = result \/ Fail(t)
        BY DEF Step, TakeShare, NextShare, Compute, sum_k_blocks, Spin, Alloc, Wait,
               Allocated, Copy, Copied, Kernel, KernelDone, Computed, Iterated, vars, data
    <2>. QED BY <2>1, <1>0 DEF Fail, Control
<1>5. compute_done' \in [Shares -> BOOLEAN]
    <2>1. \/ compute_done' = compute_done
          \/ compute_done' = [compute_done EXCEPT ![ithr[t]] = TRUE]
        BY DEF Step, TakeShare, NextShare, Compute, sum_k_blocks, Spin, Alloc, Wait,
               Allocated, Copy, Copied, Kernel, KernelDone, Computed, Iterated, vars, data
    <2>. QED BY <2>1, <1>0 DEF Control
<1>6. DOMAIN c' = Shares /\ \A b \in Shares : DOMAIN c'[b] = 0 .. call.n - 1
    <2>1. DOMAIN c = Shares /\ \A b \in Shares : DOMAIN c[b] = 0 .. call.n - 1
        BY <1>0 DEF Control
    <2>2. CASE Compute(t)
        <3>1. c' = c \/ c' = [c EXCEPT ![Block(ithr[t])] = [j \in DOMAIN @ |-> {0}]]
            BY <2>2 DEF Compute
        <3>. QED BY <2>1, <3>1
    <2>3. ASSUME NEW b, NEW J, NEW x, c' = Plus(b, J, x)
          PROVE  DOMAIN c' = Shares /\ \A d \in Shares : DOMAIN c'[d] = 0 .. call.n - 1
        BY <2>1, <2>3 DEF Plus
    <2>4. CASE sum_k_blocks(t)
        BY <2>1, <2>3, <2>4 DEF sum_k_blocks
    <2>5. CASE KernelDone(t)
        BY <2>3, <2>5 DEF KernelDone
    <2>6. CASE c' = c
        BY <2>1, <2>6
    <2>7. Compute(t) \/ sum_k_blocks(t) \/ KernelDone(t) \/ c' = c
        BY DEF Step, TakeShare, NextShare, Spin, Alloc, Wait, Allocated, Copy, Copied,
               Kernel, Computed, Iterated, vars, data
    <2>. QED BY <2>2, <2>4, <2>5, <2>6, <2>7
<1>7. phase' = "second" => k_summing'
    BY <1>0, <1>1 DEF Control
<1>. QED BY <1>1, <1>3, <1>4, <1>5, <1>6, <1>7 DEF Control, TypeOK

LEMMA SumStutters ==
    ASSUME SumInv, UNCHANGED vars
    PROVE  SumInv'
<1>1. UNCHANGED section /\ UNCHANGED <<at, ithr, it, todo, result, compute_done, c>>
    BY DEF vars, place, data
<1>2. Control'
    BY <1>1, SameSection DEF SumInv, Control
<1>3. Team' = Team /\ call' = call /\ phase' = phase /\ (Summing' <=> Summing)
      /\ Shares' = Shares /\ thr_k_stride' = thr_k_stride
    BY <1>1, SameSection
<1>4. \A u : Stays(u)
    BY <1>1 DEF Stays
<1>5. ASSUME NEW u \in Team
      PROVE  /\ PlacedAt(u) => PlacedAt(u)'
             /\ FlagsOf(u) => FlagsOf(u)'
             /\ WaitsOf(u) => WaitsOf(u)'
             /\ MultipliedBy(u) => MultipliedBy(u)'
             /\ AddedBy(u) => AddedBy(u)'
    <2>1. /\ PlacedAt(u)' <=> PlacedAt(u)
          /\ \A s : /\ IsComputed(u, s)' <=> IsComputed(u, s)
                    /\ Missing(u, s)' = Missing(u, s)
                    /\ Passes(u, s)' = Passes(u, s)
        BY <1>1, <1>4, StaysFacts
    <2>2. (FlagsOf(u) => FlagsOf(u)') /\ (AddedBy(u) => AddedBy(u)')
        BY <1>1, <2>1, ProgressKept
    <2>3. Mine(u)' = Mine(u) /\ Others' = Others /\ \A s : Block(s)' = Block(s)
        BY <1>1, SameSection
    <2>4. WaitsOf(u) => WaitsOf(u)'
        BY <1>1, <2>1, <2>3 DEF WaitsOf
    <2>5. MultipliedBy(u) => MultipliedBy(u)'
        BY <1>1, <1>3, <2>1, <2>3 DEF MultipliedBy
    <2>. QED BY <2>1, <2>2, <2>4, <2>5
<1>6. Placed' /\ Flags' /\ Waits'
    BY <1>3, <1>5 DEF SumInv, Placed, Flags, Waits
<1>7. AllSuccess' => Multiplied' /\ Added'
    BY <1>1, <1>3, <1>5, SuccessKept DEF SumInv, Multiplied, Added
<1>8. CompleteOnSuccess'
    BY <1>1, <1>3 DEF SumInv, CompleteOnSuccess, Wanted
<1>. QED BY <1>2, <1>6, <1>7, <1>8 DEF SumInv

LEMMA SumStep ==
    ASSUME TypeOK, TypeOK', SumInv, phase # "returned", NEW t \in Team, Step(t)
    PROVE  SumInv'
<1>1. UNCHANGED section
    BY TypeStep
<1>2. Control'
    BY <1>1, ControlStep
<1>3. CASE sum_k_blocks(t)
    BY <1>1, <1>2, <1>3, SumAdds, SumAdded
<1>4. CASE Spin(t) \/ Wait(t)
    BY <1>4, SumStutters DEF Spin, Wait
<1>. QED BY <1>1, <1>2, <1>3, <1>4, SumTakeShare, SumNextShare, SumCompute, SumAlloc,
            SumAllocated, SumKernel, SumKernelDone, SumIterated DEF Step

\* When the last section is over, every part of every column has been added up.
LEMMA AllAdded ==
    ASSUME SumInv, AllSuccess, \A t \in Team : at[t] = "end", phase # "returned",
           phase = "first" /\ k_summing => compute_done[0],
           NEW b \in 0 .. thr_k_stride - 1, NEW j \in 0 .. call.n - 1
    PROVE  c[b][j] = Wanted
<1>1. Control /\ Placed
    BY DEF SumInv
<1>2. ASSUME NEW t \in Team, NEW s \in Mine(t)
      PROVE  /\ s \in AllShares /\ IsComputed(t, s) /\ s < ithr[t]
             /\ ~call.shared => Missing(t, s) \cap Others = {}
    <2>1. s \in Nat /\ ithr[t] \in Nat /\ s < nthr_eff /\ nthr_eff \in Nat
          /\ s \in AllShares
        BY AtFacts
    <2>2. ithr[t] >= nthr_eff
        BY <1>1 DEF Placed, PlacedAt
    <2>3. s < ithr[t]
        BY <2>1, <2>2
    <2>4. IsComputed(t, s)
        BY <2>3 DEF IsComputed
    <2>5. Summing => Missing(t, s) = {}
        BY <2>3 DEF Missing
    <2>6. ASSUME k_summing PROVE Summing
        <3>1. CASE phase = "first"
            <4>1. compute_done[0] /\ 0 \in Team /\ 0 \in Mine(0)
                BY <2>6, <3>1, <1>1, SumFacts, OwnerFacts
            <4>. QED BY <3>1, <4>1 DEF SumInv, Flags, FlagsOf, Summing
        <3>2. CASE phase = "second"
            BY <3>2 DEF Summing
        <3>. QED BY <3>1, <3>2, <1>1 DEF Control
    <2>7. ~k_summing => Others = {}
        <3>1. ~k_summing => call.nthr_k = 1
            BY <1>1, SumFacts
        <3>. QED BY <3>1 DEF Others
    <2>. QED BY <2>1, <2>3, <2>4, <2>5, <2>6, <2>7
<1>3. CASE call.shared
    <2>1. call.nthr_k = 1 /\ thr_k_stride = nthr_eff
        BY <1>1, <1>3, SumFacts
    <2>2. b \in AllShares
        BY <2>1 DEF AllShares
    <2>3. b % team \in Team /\ b \in Mine(b % team)
        BY <1>1, <2>2, OwnerFacts
    <2>4. c[b][j] = 1 .. Passes(b % team, b)
        BY <1>3, <2>3 DEF SumInv, Multiplied, MultipliedBy
    <2>5. Passes(b % team, b) = call.iters
        BY <1>2, <2>3 DEF Passes
    <2>. QED BY <1>3, <2>4, <2>5 DEF Wanted
<1>4. CASE ~call.shared
    <2>1. \A t \in Team : AddedBy(t)
        BY <1>4 DEF SumInv, Added
    <2>2. 0 \in c[b][j]
        <3>1. PICK s \in AllShares : Block(s) = b /\ ithr_k(s) = 0
            <4>1. 0 \in 0 .. call.nthr_k - 1
                BY <1>1, SumFacts
            <4>. QED BY <1>1, <4>1, SharesReach
        <3>2. s % team \in Team /\ s \in Mine(s % team)
            BY <1>1, OwnerFacts
        <3>. QED BY <2>1, <3>1, <3>2, <1>2 DEF AddedBy
    <2>3. c[b][j] \ {0} = Others
        <3>1. PICK s \in AllShares : Block(s) = b /\ j \in Columns(s)
            BY <1>1, ColumnsFacts
        <3>2. s % team \in Team /\ s \in Mine(s % team)
            BY <1>1, OwnerFacts
        <3>3. c[b][j] \ {0} = Others \ Missing(s % team, s)
            BY <2>1, <3>1, <3>2 DEF AddedBy
        <3>4. Missing(s % team, s) \cap Others = {}
            BY <1>2, <1>4, <3>2
        <3>. QED BY <3>3, <3>4
    <2>4. {0} \cup Others = 0 .. call.nthr_k - 1
        BY <1>1, SumFacts DEF Others
    <2>. QED BY <1>4, <2>2, <2>3, <2>4 DEF Wanted
<1>. QED BY <1>3, <1>4

LEMMA RemainderBound ==
    ASSUME NEW s \in Nat, NEW w \in Nat \ {0}
    PROVE  s % w <= s /\ (s < w => s % w = s)
<1>1. PICK q \in Nat, r \in Nat : r = s % w /\ s = w * q + r
    <2>1. s \div w \in Nat /\ s % w \in 0 .. w - 1 /\ s = w * (s \div w) + (s % w)
        BY Quotients
    <2>2. s % w \in Nat
        BY <2>1
    <2>. QED BY <2>1, <2>2
<1>2. w * q \in Nat
    BY <1>1
<1>3. s < w => s % w = s
    OBVIOUS
<1>. QED BY <1>1, <1>2, <1>3

\* The threads of the second section begin with everything left to add.
LEMMA SumSecond ==
    ASSUME TypeOK', SumInv, Join, phase' = "second"
    PROVE  SumInv'
<1>1. /\ phase = "first" /\ k_summing /\ ~compute_done[0] /\ call' = call
      /\ team' \in 1 .. call.goal
      /\ at' = [t \in AllThreads |-> "start"] /\ ithr' = [t \in AllThreads |-> t]
      /\ UNCHANGED <<it, todo, result, compute_done, c>>
      /\ \A t \in Team : at[t] = "end"
    BY DEF Join, data
<1>2. Control /\ Placed
    BY DEF SumInv
<1>3. call.forced /\ ~call.shared
    BY <1>1, <1>2, SumFacts
<1>4. /\ nthr_eff' = nthr_eff /\ thr_k_stride' = thr_k_stride
      /\ (k_summing' <=> k_summing) /\ Others' = Others /\ Addition' = Addition
      /\ Shares' = Shares /\ AllShares' = AllShares
    BY <1>1, <1>3 DEF nthr_eff, thr_k_stride, k_summing, Others, Addition, Shares, AllShares
<1>5. \A s : Block(s)' = Block(s) /\ ithr_k(s)' = ithr_k(s) /\ Columns(s)' = Columns(s)
    <2>1. \A s : Block(s)' = Block(s) /\ ithr_k(s)' = ithr_k(s)
        BY <1>4 DEF Block, ithr_k
    <2>. QED BY <2>1, <1>1 DEF Columns
<1>6. Control'
    <2>1. Orders' = Orders
        BY <1>4 DEF Orders
    <2>. QED BY <1>1, <1>2, <1>4, <2>1 DEF Control, TypeOK
<1>7. /\ \A t \in Team' : t \in AllThreads /\ t \in Nat /\ t % team' = t
      /\ \A t \in Team' : \A s \in Mine(t)' : s \in AllShares /\ s \in Nat /\ ~(s < t)
    <2>1. PICK w \in Nat \ {0} : w = team'
        BY <1>1, <1>2, SumFacts
    <2>2. Team' = 0 .. w - 1 /\ w <= MaxThreads /\ MaxThreads \in Nat
        BY <2>1, BoundAssumption DEF Team, TypeOK
    <2>3. ASSUME NEW t \in Team' PROVE t \in AllThreads /\ t \in Nat /\ t % team' = t
        <3>1. PICK u \in Nat : u = t /\ u < w /\ u \in 0 .. MaxThreads - 1
            BY <2>2
        <3>2. u % w = u
            BY <2>1, <3>1, RemainderBound
        <3>. QED BY <2>1, <3>1, <3>2 DEF AllThreads
    <2>4. ASSUME NEW t \in Team', NEW s \in Mine(t)'
          PROVE  s \in AllShares /\ s \in Nat /\ ~(s < t)
        <3>1. s \in AllShares /\ s % w = t
            BY <1>4, <2>1, <2>4 DEF Mine
        <3>2. s \in Nat
            BY <1>2, <3>1, ShareFacts
        <3>3. s % w <= s
            BY <2>1, <3>2, RemainderBound
        <3>. QED BY <2>3, <3>1, <3>2, <3>3
    <2>. QED BY <2>3, <2>4
<1>8. Placed'
    <2>. SUFFICES ASSUME NEW t \in Team' PROVE PlacedAt(t)'
        BY DEF Placed
    <2>1. at'[t] = "start" /\ ithr'[t] = t /\ t % team' = t
        BY <1>1, <1>7
    <2>. QED BY <2>1, <1>1 DEF PlacedAt, Stages, Inside, Reading, Filled
<1>9. ~Summing
    <2>1. 0 \in Team /\ 0 \in Mine(0) /\ 0 < nthr_eff /\ nthr_eff \in Nat
        BY <1>2, SumFacts, OwnerFacts DEF AllShares
    <2>2. ithr[0] >= nthr_eff /\ ithr[0] \in Nat
        BY <1>1, <1>2, <2>1, AtFacts DEF Placed, PlacedAt
    <2>3. IsComputed(0, 0)
        BY <2>1, <2>2 DEF IsComputed
    <2>4. ~(k_summing /\ SumsNow)
        BY <1>1, <2>1, <2>3 DEF SumInv, Flags, FlagsOf
    <2>. QED BY <1>1, <2>4 DEF Summing
<1>10. ASSUME AllSuccess', NEW u \in Team' PROVE AddedBy(u)'
    <2>1. AllSuccess /\ phase # "returned"
        BY <1>1, <1>4, <1>10 DEF AllSuccess
    <2>2. ASSUME NEW s \in Mine(u)'
          PROVE  /\ ithr_k(s) = 0 => \A j \in 0 .. call.n - 1 : 0 \in c[Block(s)][j]
                 /\ \A j \in Columns(s) : c[Block(s)][j] \ {0} = {}
        <3>1. s \in AllShares /\ s \in Nat
            BY <1>7
        <3>2. PICK v \in Team : s \in Mine(v)
            BY <1>2, <3>1, OwnerFacts
        <3>3. AddedBy(v)
            BY <1>3, <2>1 DEF SumInv, Added
        <3>4. IsComputed(v, s)
            <4>1. ithr[v] >= nthr_eff
                BY <1>1, <1>2 DEF Placed, PlacedAt
            <4>2. ithr[v] \in Nat /\ nthr_eff \in Nat /\ s < nthr_eff
                BY <3>2, AtFacts
            <4>. QED BY <3>1, <4>1, <4>2 DEF IsComputed
        <3>5. Missing(v, s) = Others
            BY <1>9 DEF Missing
        <3>. QED BY <3>2, <3>3, <3>4, <3>5 DEF AddedBy
    <2>3. ASSUME NEW s \in Mine(u)'
          PROVE  IsComputed(u, s)' /\ Missing(u, s)' = Others
        <3>1. u \in AllThreads /\ ~(s < u) /\ Summing'
            BY <1>1, <1>7 DEF Summing
        <3>2. at'[u] = "start" /\ ithr'[u] = u
            BY <1>1, <3>1
        <3>3. phase' # "first"
            OBVIOUS
        <3>4. Missing(u, s)' = Others
            BY <3>1, <3>2, <1>4 DEF Missing
        <3>. QED BY <3>3, <3>4 DEF IsComputed
    <2>. QED BY <2>2, <2>3, <1>1, <1>4, <1>5 DEF AddedBy
<1>11. Flags' /\ Waits' /\ CompleteOnSuccess'
    BY DEF Flags, Waits, CompleteOnSuccess
<1>12. AllSuccess' => Multiplied' /\ Added'
    BY <1>1, <1>3, <1>10 DEF Multiplied, Added
<1>. QED BY <1>6, <1>8, <1>11, <1>12 DEF SumInv

LEMMA SumReturns ==
    ASSUME TypeOK', SumInv, Join, phase' # "second"
    PROVE  SumInv'
<1>1. /\ phase # "returned" /\ phase' = "returned" /\ call' = call
      /\ UNCHANGED <<team, at, ithr, it, todo, result, compute_done, c>>
      /\ \A t \in Team : at[t] = "end"
      /\ phase = "first" /\ k_summing => compute_done[0]
    BY DEF Join, data
<1>2. Control /\ Placed
    BY DEF SumInv
<1>3. /\ nthr_eff' = nthr_eff /\ thr_k_stride' = thr_k_stride
      /\ Team' = Team /\ Shares' = Shares /\ AllShares' = AllShares /\ Wanted' = Wanted
    BY <1>1 DEF nthr_eff, thr_k_stride, Team, Shares, AllShares, Wanted
<1>4. Control'
    <2>1. Orders' = Orders
        BY <1>1 DEF Orders, Addition, Others
    <2>. QED BY <1>1, <1>2, <1>3, <2>1 DEF Control, TypeOK
<1>5. Placed'
    <2>. SUFFICES ASSUME NEW t \in Team PROVE PlacedAt(t)'
        BY <1>3 DEF Placed
    <2>1. PlacedAt(t) /\ at'[t] = "end" /\ ithr'[t] = ithr[t]
        BY <1>1, <1>2 DEF Placed
    <2>. QED BY <2>1, <1>1, <1>3 DEF PlacedAt, Stages, Inside, Reading, Filled
<1>6. AllSuccess' <=> AllSuccess
    BY <1>1, <1>3 DEF AllSuccess
<1>7. Flags' /\ Waits' /\ Added'
    BY <1>1 DEF Flags, Waits, Added
<1>8. ASSUME AllSuccess PROVE Multiplied'
    <2>. SUFFICES ASSUME call.shared, NEW u \in Team PROVE MultipliedBy(u)'
        BY <1>1, <1>3 DEF Multiplied
    <2>1. MultipliedBy(u)
        BY <1>8 DEF SumInv, Multiplied
    <2>2. Mine(u)' = Mine(u)
        BY <1>1, <1>3 DEF Mine
    <2>3. \A s : Passes(u, s)' = Passes(u, s)
        BY <1>1 DEF Passes
    <2>. QED BY <2>1, <2>2, <2>3, <1>1 DEF MultipliedBy
<1>9. CompleteOnSuccess'
    <2>. SUFFICES ASSUME AllSuccess, NEW b \in 0 .. thr_k_stride - 1, NEW j \in DOMAIN c[b]
                  PROVE  c[b][j] = Wanted
        BY <1>1, <1>3, <1>6 DEF CompleteOnSuccess, AllSuccess
    <2>1. b \in Shares
        <3>1. 0 \in 0 .. call.nthr_k - 1
            BY <1>2, SumFacts
        <3>2. PICK s \in AllShares : Block(s) = b
            BY <1>2, <3>1, SharesReach
        <3>. QED BY <1>2, <3>2, ShareFacts
    <2>2. j \in 0 .. call.n - 1
        BY <1>2, <2>1 DEF Control
    <2>. QED BY <1>1, <2>2, AllAdded
<1>. QED BY <1>4, <1>5, <1>6, <1>7, <1>8, <1>9 DEF SumInv

LEMMA SumInit == Init => SumInv
<1>. SUFFICES ASSUME Init PROVE SumInv
    OBVIOUS
<1>1. TypeOK
    BY TypeInit
<1>2. /\ phase = "first" /\ at = [t \in AllThreads |-> "start"]
      /\ ithr = [t \in AllThreads |-> t] /\ todo = [t \in AllThreads |-> <<>>]
      /\ compute_done = [i \in Shares |-> FALSE]
      /\ c = [b \in Shares |-> [j \in 0 .. call.n - 1 |-> {}]]
      /\ DOMAIN result = Shares
    BY DEF Init
<1>3. Control
    <2>1. todo \in [AllThreads -> Orders]
        BY <1>2, NothingToAdd
    <2>2. DOMAIN c = Shares /\ \A b \in Shares : DOMAIN c[b] = 0 .. call.n - 1
        BY <1>2
    <2>. QED BY <1>1, <1>2, <2>1, <2>2 DEF Control, TypeOK
<1>4. ASSUME NEW t \in Team
      PROVE  /\ at[t] = "start" /\ ithr[t] = t /\ t % team = t
             /\ \A s \in Mine(t) : /\ s \in Nat /\ s \in AllShares /\ s \in Shares
                                   /\ Block(s) \in Shares /\ t <= s /\ t \in Nat
                                   /\ ~(s < t) /\ ~IsComputed(t, s)
                                   /\ Missing(t, s) = Others /\ Passes(t, s) = 0
    <2>1. t \in AllThreads /\ t \in Nat /\ t % team = t
        BY <1>3, SumFacts, OwnerFacts DEF AllThreads
    <2>2. at[t] = "start" /\ ithr[t] = t
        BY <1>2, <2>1
    <2>3. ASSUME NEW s \in Mine(t)
          PROVE  s \in Nat /\ s \in AllShares /\ t <= s /\ s \in Shares /\ Block(s) \in Shares
        BY <1>3, OwnerFacts, ShareFacts, SumFacts DEF Mine
    <2>4. ASSUME NEW s \in Mine(t)
          PROVE  ~(s < t) /\ ~IsComputed(t, s) /\ Missing(t, s) = Others /\ Passes(t, s) = 0
        <3>1. ~(s < t) /\ (s > t \/ s = t)
            BY <2>1, <2>3
        <3>2. ~IsComputed(t, s)
            BY <1>2, <2>2, <3>1 DEF IsComputed
        <3>3. Missing(t, s) = Others
            BY <2>2, <3>1 DEF Missing
        <3>4. Passes(t, s) = 0
            BY <2>2, <3>1 DEF Passes
        <3>. QED BY <3>1, <3>2, <3>3, <3>4
    <2>. QED BY <2>1, <2>2, <2>3, <2>4
<1>5. Placed
    BY <1>2, <1>4 DEF Placed, PlacedAt, Stages, Inside, Reading, Filled
<1>6. Flags
    BY <1>2, <1>4 DEF Flags, FlagsOf
<1>7. Waits
    BY <1>4 DEF Waits, WaitsOf
<1>8. Multiplied
    <2>. SUFFICES ASSUME NEW t \in Team PROVE MultipliedBy(t)
        BY DEF Multiplied
    <2>1. ASSUME NEW s \in Mine(t), NEW j \in 0 .. call.n - 1
          PROVE  c[s][j] = 1 .. Passes(t, s)
        <3>1. c[s][j] = {}
            BY <1>2, <1>4
        <3>2. 1 .. 0 = {}
            OBVIOUS
        <3>. QED BY <1>4, <3>1, <3>2
    <2>. QED BY <1>4, <2>1 DEF MultipliedBy, Stages, Inside, Reading, Filled
<1>9. Added
    <2>. SUFFICES ASSUME NEW t \in Team PROVE AddedBy(t)
        BY DEF Added
    <2>1. ASSUME NEW s \in Mine(t)
          PROVE  /\ \A j \in 0 .. call.n - 1 : c[Block(s)][j] = {}
                 /\ Columns(s) \subseteq 0 .. call.n - 1
        BY <1>2, <1>3, <1>4, ColumnsFacts
    <2>. QED BY <1>4, <2>1 DEF AddedBy
<1>10. CompleteOnSuccess
    BY <1>2 DEF CompleteOnSuccess
<1>. QED BY <1>3, <1>5, <1>6, <1>7, <1>8, <1>9, <1>10 DEF SumInv

LEMMA SumNext == TypeOK /\ TypeOK' /\ SumInv /\ [Next]_vars => SumInv'
<1>. SUFFICES ASSUME TypeOK, TypeOK', SumInv, [Next]_vars PROVE SumInv'
    OBVIOUS
<1>1. CASE UNCHANGED vars
    BY <1>1, SumStutters
<1>2. CASE Join
    BY <1>2, SumSecond, SumReturns
<1>3. ASSUME NEW t \in Team, phase # "returned", Step(t) PROVE SumInv'
    BY <1>3, SumStep
<1>. QED BY <1>1, <1>2, <1>3 DEF Next

(***************************************************************************)
(* The inductive invariant of the sum: what has been added to a column is  *)
(* what the thread of the column no longer lists, and part 0, which goes   *)
(* to C itself, is there before anything is added to its block, be it for  *)
(* the flags that threads wait for or for the section that is over.        *)
(***************************************************************************)
THEOREM SumHolds == Spec => []SumInv
<1>1. Init => CopyInv /\ SumInv
    BY CopyInit, SumInit
<1>2. (CopyInv /\ SumInv) /\ [Next]_vars => (CopyInv /\ SumInv)'
    <2>1. CopyInv => TypeOK
        BY DEF CopyInv
    <2>2. CopyInv' => TypeOK'
        BY DEF CopyInv
    <2>. QED BY <2>1, <2>2, CopyStep, SumNext
<1>. QED BY <1>1, <1>2, PTL DEF Spec

(***************************************************************************)
(* A call of the gemm driver that reports success has added every part of  *)
(* every column of C exactly once: for every problem, team, number of      *)
(* parts and order of steps, in one section or in two, whether threads     *)
(* wait for each other's parts or not, and with a common copy of A or      *)
(* without.                                                                *)
(***************************************************************************)
THEOREM SumComplete == Spec => []CompleteOnSuccess
<1>1. SumInv => CompleteOnSuccess
    BY DEF SumInv
<1>. QED BY <1>1, SumHolds, PTL
==============================================================================

---------------------------- MODULE PartitionProofs ----------------------------
(***************************************************************************)
(* What holds of every call of calc_nthr_nocopy, of reduce_balancer_t and  *)
(* of balance() of the AVX-512 backward weights convolution, for whatever  *)
(* sizes, teams and buffers they are called with; what that balance is     *)
(* for: the races and the sums of the convolution itself; and that a       *)
(* section over a grid of any rank runs every item once.                   *)
(***************************************************************************)
EXTENDS ParallelNd, MCPartition, BwdWeights, WorkSharingProofs,
        FiniteSetTheorems, SequenceTheorems

\* What a call leaves behind.
Outcome ==
    /\ \E i \in DOMAIN Inputs : in \in Inputs[i]
    /\ called \in BOOLEAN
    /\ Called("gemm") => res = calc_nthr_nocopy(in.avx512, in.m, in.n, in.k, in.nthrs)
    /\ Called("reduction") => res = balance(in)
    /\ Called("conv") => res = ConvThreads(in.jcp, in.max_threads, in.mic, in.sync)
    /\ blocks = IF Called("reduction") /\ in.shape # NoShape
                THEN [g \in 0 .. res.ngroups - 1 |->
                         [id \in 0 .. res.nthr_per_group - 1 |->
                             Share2d(in.shape, grp_job_off(res, in.njobs, g),
                                     grp_njobs(res, in.njobs, g),
                                     res.nthr_per_group, id)]]
                ELSE <<>>

\* No call changes its arguments or happens twice, so an outcome stays.
THEOREM OutcomeStays == Calls => []Outcome
<1>1. ToCall => Outcome
    BY DEF ToCall, Outcome, Called
<1>2. Outcome /\ [Call]_call => Outcome'
    <2>. SUFFICES ASSUME Outcome, [Call]_call PROVE Outcome'
        OBVIOUS
    <2>. USE DEF Outcome, Called
    <2>1. CASE Gemm
        BY <2>1 DEF Gemm, Return
    <2>2. CASE Driver
        BY <2>2 DEF Driver, Return
    <2>3. CASE Reduce
        BY <2>3 DEF Reduce, Return
    <2>4. CASE Convolution
        BY <2>4 DEF Convolution, Return
    <2>5. CASE Reorder
        BY <2>5 DEF Reorder, Return
    <2>6. CASE UNCHANGED call
        BY <2>6 DEF call
    <2>. QED BY <2>1, <2>2, <2>3, <2>4, <2>5, <2>6 DEF Call
<1>. QED BY <1>1, <1>2, PTL DEF Calls

------------------------------------------------------------------------------
(* Reductions                                                              *)

LEMMA ReductionInput ==
    ASSUME Outcome, Called("reduction")
    PROVE  BalancerInput(in) /\ res = balance(in)
BY InputAssumption DEF Outcome, Called, BalancerInput

(***************************************************************************)
(* balance() of reduce_balancer_t: the groups fit the team, and no thread  *)
(* of a group has nothing to reduce.                                       *)
(***************************************************************************)
THEOREM GroupsFit == Calls => []GroupsFitTeam
<1>1. Outcome => GroupsFitTeam
    <2>. SUFFICES ASSUME Outcome, Called("reduction") PROVE GroupsFitTeam
        BY DEF GroupsFitTeam
    <2>1. BalancerInput(in) /\ res = balance(in)
        BY ReductionInput
    <2>2. /\ res.ngroups * res.nthr_per_group <= in.nthr
          /\ res.nthr_per_group \in 1 .. in.reduction
          /\ ~in.allow => res.nthr_per_group = 1
        BY <2>1, BalanceFits
    <2>3. in.reduction \in Nat
        BY <2>1 DEF BalancerInput
    <2>. QED BY <2>2, <2>3 DEF GroupsFitTeam
<1>. QED BY <1>1, OutcomeStays, PTL

(***************************************************************************)
(* Every job is dealt once, at least one and at most as many to a group as *)
(* its buffers are booked for.                                             *)
(***************************************************************************)
THEOREM JobsDealtOnce == Calls => []JobsArePartition
<1>1. Outcome => JobsArePartition
    <2>. SUFFICES ASSUME Outcome, Called("reduction") PROVE JobsArePartition
        BY DEF JobsArePartition
    <2>1. BalancerInput(in) /\ res = balance(in)
        BY ReductionInput
    <2>. QED BY <2>1, JobsAreConsecutive DEF JobsArePartition
<1>. QED BY <1>1, OutcomeStays, PTL

(***************************************************************************)
(* The assertion "no reduction buffer overflow" of balance() holds of      *)
(* every call, unless a group of several threads has one job and the limit *)
(* has no room for a job of each thread: for every team, size and limit.   *)
(***************************************************************************)
THEOREM BuffersHoldJobs == Calls => []BuffersBounded
<1>1. Outcome => BuffersBounded
    <2>. SUFFICES ASSUME Outcome, Called("reduction"), res.nthr_per_group # 1
                  PROVE  \/ res.njobs_per_group_ub * in.job_size * in.nthr <= in.max_buffer
                         \/ /\ in.max_buffer < in.nthr * in.job_size
                            /\ res.njobs_per_group_ub = 1
        BY DEF BuffersBounded
    <2>1. BalancerInput(in) /\ res = balance(in)
        BY ReductionInput
    <2>2. res.njobs_per_group_ub <= MaxJobs(in) /\ res.njobs_per_group_ub \in Nat
        <3>1. res.njobs_per_group_ub <= MaxJobs(in)
            BY <2>1, BalanceFits
        <3>2. JobsBound(in, Best(in)) \in Nat
            BY <2>1, BestGuess, GuessFits
        <3>. QED BY <2>1, <3>1, <3>2 DEF balance
    <2>3. PICK n \in Nat \ {0} : n = in.nthr
        BY <2>1 DEF BalancerInput
    <2>4. PICK z \in Nat \ {0} : z = in.job_size
        BY <2>1 DEF BalancerInput
    <2>5. PICK b \in Nat : b = in.max_buffer
        BY <2>1 DEF BalancerInput
    <2>6. PICK u \in Nat : u = res.njobs_per_group_ub
        BY <2>2
    <2>7. PICK w \in Nat \ {0} : w = n * z
        OBVIOUS
    <2>8. PICK q \in Nat : q = b \div w /\ b = w * q + (b % w) /\ b % w \in 0 .. w - 1
        BY Quotients
    <2>9. u <= Greater(1, q)
        BY <2>2, <2>3, <2>4, <2>5, <2>6, <2>7, <2>8 DEF MaxJobs
    <2>10. u * w \in Nat /\ q * w \in Nat
        OBVIOUS
    <2>11. u * w <= b \/ (b < w /\ u = 1)
        <3>1. CASE q = 0
            <4>1. u = 0 \/ u = 1
                BY <2>9, <3>1 DEF Greater
            <4>2. w * q = 0 /\ b < w
                BY <2>8, <3>1
            <4>3. CASE u = 0
                <5>1. u * w = 0
                    BY <4>3
                <5>. QED BY <5>1
            <4>. QED BY <4>1, <4>2, <4>3
        <3>2. CASE q # 0
            <4>1. u <= q /\ (q - u) \in Nat
                BY <2>9, <3>2 DEF Greater
            <4>2. (q - u) * w \in Nat /\ (q - u) * w = q * w - u * w
                BY <4>1
            <4>3. q * w <= b
                BY <2>8, <2>10
            <4>. QED BY <2>10, <4>2, <4>3
        <3>. QED BY <3>1, <3>2
    <2>12. u * z * n = u * w
        BY <2>7
    <2>. QED BY <2>3, <2>4, <2>5, <2>6, <2>7, <2>11, <2>12
<1>. QED BY <1>1, OutcomeStays, PTL

\* A part of a dimension cut in equal parts, the last of which may be smaller.
LEMMA PartsHaveWork ==
    ASSUME NEW size \in Nat \ {0}, NEW part \in Nat \ {0},
           NEW r \in 0 .. DivUp(size, part) - 1
    PROVE  Lesser(size - r * part, part) \in Nat \ {0}
<1>1. PICK q \in Nat : q = DivUp(size, part) /\ q * part <= size + part - 1
    BY DivUpBounds
<1>2. r \in Nat /\ (q - 1 - r) \in Nat /\ r * part \in Nat
    BY <1>1
<1>3. (q - 1 - r) * part \in Nat /\ (q - 1 - r) * part = q * part - part - r * part
    BY <1>2
<1>4. q * part \in Nat
    BY <1>1
<1>5. size - r * part \in Nat \ {0}
    BY <1>1, <1>2, <1>3, <1>4
<1>. QED BY <1>5 DEF Lesser

\* Jobs are cut at whole blocks of columns, and none is empty.
LEMMA JobsAreWholeBlocks ==
    ASSUME NEW s, NEW off \in Nat, NEW njobs \in Nat,
           {s.dst_x, s.dst_y, s.job_size_x, s.job_size_y, s.x_block} \subseteq Nat \ {0},
           s.dst_x % s.x_block = 0, s.job_size_x % s.x_block = 0,
           off + njobs <= JobsX(s) * DivUp(s.dst_y, s.job_size_y)
    PROVE  WholeBlocks(s, off, njobs)
<1>1. PICK dx \in Nat \ {0} : dx = s.dst_x
    OBVIOUS
<1>2. PICK dy \in Nat \ {0} : dy = s.dst_y
    OBVIOUS
<1>3. PICK jx \in Nat \ {0} : jx = s.job_size_x
    OBVIOUS
<1>4. PICK jy \in Nat \ {0} : jy = s.job_size_y
    OBVIOUS
<1>5. PICK xb \in Nat \ {0} : xb = s.x_block
    OBVIOUS
<1>6. PICK X \in Nat : X = DivUp(dx, jx) /\ dx <= X * jx
    BY DivUpBounds
<1>7. PICK Y \in Nat : Y = DivUp(dy, jy)
    BY DivUpBounds
<1>8. JobsX(s) = X /\ off + njobs <= X * Y /\ X # 0
    BY <1>1, <1>2, <1>3, <1>4, <1>6, <1>7 DEF JobsX
<1>9. PICK A \in Nat : dx = xb * A
    <2>1. dx % xb = 0
        BY <1>1, <1>5
    <2>2. dx = xb * (dx \div xb) + (dx % xb) /\ dx \div xb \in Nat
        BY Quotients
    <2>. QED BY <2>1, <2>2
<1>10. PICK B \in Nat : jx = xb * B
    <2>1. jx % xb = 0
        BY <1>3, <1>5
    <2>2. jx = xb * (jx \div xb) + (jx % xb) /\ jx \div xb \in Nat
        BY Quotients
    <2>. QED BY <2>1, <2>2
<1>11. ASSUME NEW j \in 0 .. njobs - 1
       PROVE  /\ NY(s, off + j) \in Nat \ {0}
              /\ \E u \in Nat \ {0} : NX(s, off + j) = u * xb
    <2>1. PICK job \in Nat : job = off + j /\ job < X * Y
        <3>1. X * Y \in Nat
            BY <1>6, <1>7
        <3>. QED BY <1>8, <3>1
    <2>2. PICK r \in 0 .. X - 1 : r = job % X
        BY <1>8, Quotients
    <2>3. PICK q \in Nat : q = job \div X /\ job = X * q + r
        BY <1>8, <2>2, Quotients
    <2>4. q < Y
        <3>1. ASSUME q >= Y PROVE FALSE
            <4>1. (q - Y) \in Nat /\ X * (q - Y) \in Nat /\ X * (q - Y) = X * q - X * Y
                BY <1>7, <3>1
            <4>2. X * q \in Nat /\ X * Y \in Nat
                BY <1>7
            <4>. QED BY <2>1, <2>2, <2>3, <4>1, <4>2
        <3>. QED BY <1>7, <3>1
    <2>5. NX(s, off + j) = Lesser(dx - r * jx, jx) /\ NY(s, off + j) = Lesser(dy - q * jy, jy)
        BY <1>1, <1>2, <1>3, <1>4, <1>8, <2>1, <2>2, <2>3 DEF NX, NY
    <2>6. Lesser(dx - r * jx, jx) \in Nat \ {0}
        BY <1>6, <2>2, PartsHaveWork
    <2>7. Lesser(dy - q * jy, jy) \in Nat \ {0}
        <3>1. q \in 0 .. DivUp(dy, jy) - 1
            BY <1>7, <2>4
        <3>. QED BY <3>1, PartsHaveWork
    <2>8. PICK u \in Int : Lesser(dx - r * jx, jx) = u * xb
        <3>1. PICK a \in Int : a = A - r * B
            <4>1. r \in Int
                BY <1>6
            <4>2. r * B \in Int
                BY <4>1
            <4>. QED BY <4>2
        <3>2. dx - r * jx = a * xb
            <4>1. r * jx = r * (xb * B) /\ r * (xb * B) = (r * B) * xb
                BY <1>10, <2>2
            <4>2. PICK z \in Int : z = r * B
                BY <2>2
            <4>. QED BY <1>9, <3>1, <4>1, <4>2
        <3>3. jx = B * xb /\ B \in Int
            BY <1>10
        <3>4. Lesser(dx - r * jx, jx) \in {dx - r * jx, jx}
            BY DEF Lesser
        <3>. QED BY <3>2, <3>3, <3>4
    <2>9. u \in Nat \ {0}
        <3>1. CASE u <= 0
            <4>1. (0 - u) \in Nat /\ (0 - u) * xb \in Nat /\ (0 - u) * xb = 0 - u * xb
                BY <3>1
            <4>. QED BY <2>6, <2>8, <4>1
        <3>. QED BY <3>1
    <2>. QED BY <2>5, <2>7, <2>8, <2>9
<1>. QED BY <1>5, <1>11 DEF WholeBlocks

(***************************************************************************)
(* The threads of a group add up every element of its jobs once and        *)
(* nothing else: cpu_reducer_2d_t for every shape, team and buffer.        *)
(***************************************************************************)
THEOREM RectanglesDealtOnce == Calls => []BlocksArePartition
<1>1. Outcome => BlocksArePartition
    <2>. SUFFICES ASSUME Outcome, NEW g \in DOMAIN blocks
                  PROVE  /\ UNION { blocks[g][id] : id \in DOMAIN blocks[g] } = Elements(g)
                         /\ \A id1, id2 \in DOMAIN blocks[g] :
                               id1 # id2 => blocks[g][id1] \cap blocks[g][id2] = {}
        BY DEF BlocksArePartition
    <2>1. Called("reduction") /\ in.shape # NoShape
        <3>1. DOMAIN <<>> = {}
            OBVIOUS
        <3>. QED BY <3>1 DEF Outcome
    <2>2. BalancerInput(in) /\ res = balance(in)
        BY <2>1, ReductionInput
    <2>. DEFINE s == in.shape
                off == grp_job_off(res, in.njobs, g)
                n == grp_njobs(res, in.njobs, g)
                T == res.nthr_per_group
                Mine(id) == Share2d(s, off, n, T, id)
    <2>3. g \in 0 .. res.ngroups - 1
        BY <2>1 DEF Outcome
    <2>4. blocks[g] = [id \in 0 .. T - 1 |-> Mine(id)]
        BY <2>1, <2>3 DEF Outcome
    <2>5. off \in Nat /\ n \in Nat \ {0} /\ off + n <= in.njobs /\ T \in Nat \ {0}
        <3>1. in.njobs \in Nat \ {0} /\ in.reduction \in Nat \ {0}
            BY <2>2 DEF BalancerInput
        <3>2. res.ngroups \in 1 .. in.njobs
            <4>1. Groups(in, Best(in)) \in 1 .. in.nthr /\ Groups(in, Best(in)) <= in.njobs
                BY <2>2, BestGuess, GuessFits
            <4>. QED BY <2>2, <3>1, <4>1 DEF balance
        <3>3. off \in Nat /\ off + n <= in.njobs
            BY <2>3, <3>1, <3>2, JobsAreOrdered
        <3>4. n \in 1 .. DivUp(in.njobs, res.ngroups)
            BY <2>3, <3>1, <3>2, JobsDealt
        <3>5. T \in 1 .. in.reduction
            BY <2>2, BalanceFits
        <3>. QED BY <3>1, <3>3, <3>4, <3>5
    <2>6. WholeBlocks(s, off, n)
        <3>1. /\ {s.dst_x, s.dst_y, s.job_size_x, s.job_size_y, s.x_block} \subseteq Nat \ {0}
              /\ s.dst_x % s.x_block = 0 /\ s.job_size_x % s.x_block = 0
              /\ in.njobs = JobsX(s) * DivUp(s.dst_y, s.job_size_y)
            BY <2>1, InputAssumption DEF Outcome, Called
        <3>2. off + n <= JobsX(s) * DivUp(s.dst_y, s.job_size_y) /\ n \in Nat
            BY <2>5, <3>1
        <3>. HIDE DEF s, off, n
        <3>. QED BY <2>5, <3>1, <3>2, JobsAreWholeBlocks
    <2>7. /\ \A id \in 0 .. T - 1 : Mine(id) \subseteq JobElements(s, off, n)
          /\ \A p \in JobElements(s, off, n) : \E id \in 0 .. T - 1 : p \in Mine(id)
          /\ \A id1, id2 \in 0 .. T - 1 : id1 # id2 => Mine(id1) \cap Mine(id2) = {}
        <3>. HIDE DEF s, off, n, T
        <3>. QED BY <2>5, <2>6, RectanglesArePartition
    <2>8. Elements(g) = JobElements(s, off, n)
        BY DEF Elements, JobElements
    <2>. HIDE DEF Mine, T
    <2>. QED BY <2>4, <2>7, <2>8
<1>. QED BY <1>1, OutcomeStays, PTL

------------------------------------------------------------------------------
(* The no-copy gemm                                                        *)

\* The blocks that calc_nthr_nocopy returns for a call.
LEMMA GemmCall ==
    ASSUME Outcome, Called("gemm")
    PROVE  /\ {in.m, in.n, in.k, in.nthrs} \subseteq Nat \ {0}
           /\ CutIn(res.nthr_m, res.MB, in.m) /\ CutIn(res.nthr_n, res.NB, in.n)
           /\ CutIn(res.nthr_k, res.KB, in.k)
           /\ res.nthr_m * res.nthr_n * res.nthr_k <= in.nthrs
<1>1. /\ {in.m, in.n, in.k, in.nthrs} \subseteq Nat \ {0}
      /\ res = calc_nthr_nocopy(in.avx512, in.m, in.n, in.k, in.nthrs)
    BY InputAssumption DEF Outcome, Called
<1>2. PICK m \in Nat \ {0} : m = in.m
    BY <1>1
<1>3. PICK n \in Nat \ {0} : n = in.n
    BY <1>1
<1>4. PICK k \in Nat \ {0} : k = in.k
    BY <1>1
<1>5. PICK t \in Nat \ {0} : t = in.nthrs
    BY <1>1
<1>6. res = calc_nthr_nocopy(in.avx512, m, n, k, t)
    BY <1>1, <1>2, <1>3, <1>4, <1>5
<1>7. /\ CutIn(res.nthr_m, res.MB, m) /\ CutIn(res.nthr_n, res.NB, n)
      /\ CutIn(res.nthr_k, res.KB, k)
      /\ res.nthr_m * res.nthr_n * res.nthr_k <= t
    BY <1>6, BlocksHaveWork
<1>. QED BY <1>1, <1>2, <1>3, <1>4, <1>5, <1>7

(***************************************************************************)
(* calc_nthr_nocopy never needs more threads than there are.               *)
(***************************************************************************)
THEOREM ThreadsFit == Calls => []FitsThreads
<1>1. Outcome => FitsThreads
    BY GemmCall DEF FitsThreads
<1>. QED BY <1>1, OutcomeStays, PTL

(***************************************************************************)
(* Every thread of the no-copy gemm has a block of C and a part of the sum *)
(* that are not empty, and they cover the problem.                         *)
(***************************************************************************)
THEOREM EveryThreadHasWork == Calls => []EveryShareHasWork
<1>1. Outcome => EveryShareHasWork
    BY GemmCall DEF EveryShareHasWork, Tiles, CutIn
<1>. QED BY <1>1, OutcomeStays, PTL

(***************************************************************************)
(* The threads of a block add up every column of it once.                  *)
(***************************************************************************)
THEOREM ColumnsDealtOnce == Calls => []BandsArePartition
<1>1. Outcome => BandsArePartition
    <2>. SUFFICES ASSUME Outcome, Called("gemm"), NEW n \in {in.n, Least(res.NB, 9)}
                  PROVE  /\ UNION { Bands(n)[t] : t \in 0 .. res.nthr_k - 1 } = 0 .. n - 1
                         /\ \A t, u \in 0 .. res.nthr_k - 1 :
                               t # u => Bands(n)[t] \cap Bands(n)[u] = {}
        BY DEF BandsArePartition
    <2>1. n \in Nat
        BY GemmCall DEF CutIn, Least
    <2>2. PICK T \in Nat \ {0} : T = res.nthr_k
        BY GemmCall DEF CutIn
    <2>3. \A t \in 0 .. T - 1 : Bands(n)[t] = BandOf(t, T, n)
        BY <2>2 DEF Bands, BandOf
    <2>4. /\ \A t \in 0 .. T - 1 : BandOf(t, T, n) \subseteq 0 .. n - 1
          /\ \A z \in 0 .. n - 1 : \E t \in 0 .. T - 1 : z \in BandOf(t, T, n)
          /\ \A t, u \in 0 .. T - 1 : t # u => BandOf(t, T, n) \cap BandOf(u, T, n) = {}
        BY <2>1, BandsPartition
    <2>5. UNION { Bands(n)[t] : t \in 0 .. T - 1 } = 0 .. n - 1
        <3>1. UNION { Bands(n)[t] : t \in 0 .. T - 1 }
                 = UNION { BandOf(t, T, n) : t \in 0 .. T - 1 }
            BY <2>3
        <3>2. UNION { BandOf(t, T, n) : t \in 0 .. T - 1 } = 0 .. n - 1
            BY <2>4
        <3>. QED BY <3>1, <3>2
    <2>. QED BY <2>2, <2>3, <2>4, <2>5
<1>. QED BY <1>1, OutcomeStays, PTL

------------------------------------------------------------------------------
(* Folds over a sequence of n elements, op[<<i, x>>] being what element i  *)
(* makes of the result x so far.                                           *)

Folded(f, base, op, s) ==
    IF s = {} THEN base ELSE op[<<Max(s), f[s \ {Max(s)}]>>]

IsFold(f, n, base, op) == f = [s \in SUBSET (1 .. n) |-> Folded(f, base, op, s)]

\* The last element taken away leaves a set with one bound less.
LEMMA WithoutLast ==
    ASSUME NEW k \in Nat, NEW s, s \subseteq 1 .. k, s # {}
    PROVE  Max(s) \in s /\ s \ {Max(s)} \subseteq 1 .. k - 1
<1>1. Max(s) \in s /\ \A y \in s : Max(s) >= y
    <2>1. s \subseteq 0 .. k
        OBVIOUS
    <2>. QED BY <2>1, LargestExists
<1>2. PICK m \in s : m = Max(s)
    BY <1>1
<1>3. \A y \in s : m >= y
    BY <1>1, <1>2
<1>4. ASSUME NEW y \in s, y # m PROVE y \in 1 .. k - 1
    BY <1>3, <1>4
<1>. QED BY <1>2, <1>4

\* A fold over a finite sequence has a value.
LEMMA FoldIsDefined ==
    ASSUME NEW n \in Nat, NEW base, NEW op
    PROVE  \E f : IsFold(f, n, base, op)
<1>. DEFINE Exists(k) == \E f : IsFold(f, k, base, op)
            Bad == { k \in Nat : ~Exists(k) }
<1>1. SUFFICES ASSUME Bad # {} PROVE FALSE
    OBVIOUS
<1>. USE DEF IsFold
<1>2. PICK k \in Bad : \A m \in Bad : k <= m
    BY <1>1, SmallestExists
<1>3. k # 0
    <2>. DEFINE none == [s \in SUBSET (1 .. 0) |-> base]
    <2>1. \A s \in SUBSET (1 .. 0) : s = {}
        OBVIOUS
    <2>2. none = [s \in SUBSET (1 .. 0) |-> Folded(none, base, op, s)]
        BY <2>1 DEF Folded
    <2>. HIDE DEF none
    <2>3. Exists(0)
        BY <2>2
    <2>. QED BY <1>2, <2>3
<1>4. k - 1 \in Nat /\ k - 1 \notin Bad
    <2>1. k \in Nat /\ \A m \in Bad : k <= m
        BY <1>2
    <2>. HIDE DEF Bad
    <2>. QED BY <1>3, <2>1
<1>5. PICK g : g = [s \in SUBSET (1 .. k - 1) |-> Folded(g, base, op, s)]
    BY <1>4
<1>. DEFINE h == [s \in SUBSET (1 .. k) |-> Folded(g, base, op, s)]
<1>6. \A s \in SUBSET (1 .. k - 1) : h[s] = g[s]
    <2>1. \A s \in SUBSET (1 .. k - 1) : s \in SUBSET (1 .. k)
        BY <1>2
    <2>2. \A s \in SUBSET (1 .. k - 1) : g[s] = Folded(g, base, op, s)
        BY <1>5
    <2>. QED BY <2>1, <2>2
<1>7. ASSUME NEW s \in SUBSET (1 .. k)
      PROVE  Folded(g, base, op, s) = Folded(h, base, op, s)
    <2>. HIDE DEF h
    <2>1. CASE s = {}
        BY <2>1 DEF Folded
    <2>2. CASE s # {}
        <3>1. s \ {Max(s)} \in SUBSET (1 .. k - 1)
            BY <1>2, <2>2, WithoutLast
        <3>. QED BY <1>6, <2>2, <3>1 DEF Folded
    <2>. QED BY <2>1, <2>2
<1>8. h = [s \in SUBSET (1 .. k) |-> Folded(h, base, op, s)]
    BY <1>7
<1>. HIDE DEF h
<1>9. Exists(k)
    BY <1>8
<1>. QED BY <1>2, <1>9

\* It is of the type of the first result if no element leaves it.
LEMMA FoldType ==
    ASSUME NEW n \in Nat, NEW X, NEW base \in X, NEW op,
           \A i \in 1 .. n : \A x \in X : op[<<i, x>>] \in X,
           NEW f, IsFold(f, n, base, op)
    PROVE  \A s \in SUBSET (1 .. n) : f[s] \in X
<1>. DEFINE Bad == { k \in 0 .. n : \E s \in SUBSET (1 .. k) : f[s] \notin X }
<1>1. SUFFICES ASSUME Bad # {} PROVE FALSE
    <2>1. n \notin Bad
        BY <1>1
    <2>. QED BY <2>1
<1>2. PICK k \in Bad : \A m \in Bad : k <= m
    <2>1. Bad \subseteq Nat
        OBVIOUS
    <2>. QED BY <1>1, <2>1, SmallestExists
<1>3. k \in 0 .. n /\ k \in Nat
    BY <1>2
<1>4. PICK s \in SUBSET (1 .. k) : f[s] \notin X
    BY <1>2
<1>5. s \in SUBSET (1 .. n) /\ f[s] = Folded(f, base, op, s)
    <2>1. s \in SUBSET (1 .. n)
        BY <1>3
    <2>. QED BY <2>1 DEF IsFold
<1>6. CASE s = {}
    BY <1>4, <1>5, <1>6 DEF Folded
<1>7. CASE s # {}
    <2>1. Max(s) \in s /\ s \ {Max(s)} \in SUBSET (1 .. k - 1)
        BY <1>3, <1>7, WithoutLast
    <2>2. Max(s) \in 1 .. n
        BY <1>5, <2>1
    <2>3. k # 0
        <3>1. PICK y \in s : y \in 1 .. k
            BY <1>7
        <3>. QED BY <1>3, <3>1
    <2>4. k - 1 \in 0 .. n /\ k - 1 \notin Bad
        <3>1. \A m \in Bad : k <= m
            BY <1>2
        <3>. HIDE DEF Bad
        <3>. QED BY <1>3, <2>3, <3>1
    <2>5. f[s \ {Max(s)}] \in X
        BY <2>1, <2>4
    <2>6. f[s] = op[<<Max(s), f[s \ {Max(s)}]>>]
        BY <1>5, <1>7 DEF Folded
    <2>. QED BY <1>4, <2>2, <2>5, <2>6
<1>. QED BY <1>6, <1>7
------------------------------------------------------------------------------
(* The grid of threads of a convolution                                    *)

\* What balance() needs to know of a convolution.
ConvolutionInput(j) ==
    /\ {j.mb, j.ngroups, j.nb_oc, j.nb_ic, j.oh, j.od} \subseteq Nat \ {0}
    /\ j.harness \in {"mb", "2d", "3d"}

Positive == Nat \ {0}

\* The distributions that balance() may choose for the threads of a group.
Distributions(j, threads) ==
    { d \in [mb : Positive, oc : Positive, ic : Positive] :
        /\ d.mb * d.oc * d.ic <= threads
        /\ d.mb <= j.mb * j.od * nthr_oh_reduce(j)
        /\ d.oc <= j.nb_oc /\ d.ic <= j.nb_ic }

LEMMA ReducedRows ==
    ASSUME NEW j, ConvolutionInput(j)
    PROVE  /\ nthr_oh_reduce(j) \in Positive
           /\ nthr_oh_reduce(j) <= IF j.harness = "2d" THEN j.oh ELSE 1
           /\ j.mb * j.od * nthr_oh_reduce(j) \in Positive
<1>1. j.oh \in Positive
    BY DEF ConvolutionInput, Positive
<1>2. /\ nthr_oh_reduce(j) \in Positive
      /\ nthr_oh_reduce(j) <= IF j.harness = "2d" THEN j.oh ELSE 1
    <2>1. PICK h \in Positive : h = j.oh
        BY <1>1
    <2>2. Large(1, h \div 9) \in 1 .. h /\ Large(1, 1 \div 9) = 1
        BY DEF Large, Positive
    <2>. QED BY <2>1, <2>2 DEF nthr_oh_reduce, Reduces, min_oh_reduce, Positive
<1>. HIDE DEF nthr_oh_reduce
<1>3. \A a, b, c \in Positive : a * b * c \in Positive
    BY DEF Positive
<1>. QED BY <1>2, <1>3 DEF ConvolutionInput, Positive

\* A concatenation has its elements from the sequences it joins.
LEMMA FlatType ==
    ASSUME NEW X, NEW ss \in Seq(Seq(X))
    PROVE  FlattenSeq(ss) \in Seq(X)
<1>. DEFINE n == Len(ss)
            Joined(f, i) == IF i = 1 THEN ss[i] ELSE f[i - 1] \o ss[i]
            Joins(f, k) == f = [i \in 1 .. k |-> Joined(f, i)]
<1>1. CASE n = 0
    BY <1>1 DEF FlattenSeq
<1>2. CASE n # 0
    <2>0. n \in Positive /\ \A i \in 1 .. n : ss[i] \in Seq(X)
        BY <1>2 DEF Positive
    <2>. HIDE DEF n
    <2>1. \E f : Joins(f, n)
        <3>. DEFINE Bad == { k \in Nat : ~\E f : Joins(f, k) }
        <3>1. SUFFICES ASSUME Bad # {} PROVE FALSE
            BY <2>0 DEF Positive
        <3>2. PICK k \in Bad : \A m \in Bad : k <= m
            BY <3>1, SmallestExists
        <3>3. k # 0
            <4>. DEFINE none == [i \in 1 .. 0 |-> <<>>]
            <4>1. none = [i \in 1 .. 0 |-> Joined(none, i)]
                OBVIOUS
            <4>. HIDE DEF none, Joined
            <4>2. \E f : Joins(f, 0)
                BY <4>1
            <4>. QED BY <3>2, <4>2
        <3>4. k - 1 \in Nat /\ k - 1 \notin Bad
            <4>1. k \in Nat /\ \A m \in Bad : k <= m
                BY <3>2
            <4>. HIDE DEF Bad
            <4>. QED BY <3>3, <4>1
        <3>5. PICK g : Joins(g, k - 1)
            BY <3>4
        <3>. DEFINE h == [i \in 1 .. k |-> Joined(g, i)]
        <3>6. \A i \in 1 .. k - 1 : h[i] = g[i]
            <4>1. \A i \in 1 .. k - 1 : i \in 1 .. k
                BY <3>2
            <4>2. \A i \in 1 .. k - 1 : g[i] = Joined(g, i)
                <5>. HIDE DEF Joined
                <5>. QED BY <3>5
            <4>. HIDE DEF Joined
            <4>. QED BY <4>1, <4>2
        <3>7. \A i \in 1 .. k : Joined(g, i) = Joined(h, i)
            <4>. HIDE DEF h
            <4>1. \A i \in 1 .. k : i # 1 => i - 1 \in 1 .. k - 1
                BY <3>2
            <4>. QED BY <3>6, <4>1
        <3>8. Joins(h, k)
            <4>. HIDE DEF Joined
            <4>. QED BY <3>7
        <3>. HIDE DEF h, Joins
        <3>. QED BY <3>2, <3>8
    <2>2. PICK f : f = CHOOSE g : Joins(g, n)
        OBVIOUS
    <2>3. Joins(f, n)
        <3>. HIDE DEF Joins
        <3>. QED BY <2>1, <2>2
    <2>4. FlattenSeq(ss) = f[n]
        BY <1>2, <2>2 DEF FlattenSeq, n
    <2>5. \A i \in 1 .. n : f[i] = Joined(f, i)
        <3>. HIDE DEF Joined
        <3>. QED BY <2>3
    <2>6. f[n] \in Seq(X)
        <3>. DEFINE Bad == { i \in 1 .. n : f[i] \notin Seq(X) }
        <3>1. SUFFICES ASSUME Bad # {} PROVE FALSE
            BY <2>0 DEF Positive
        <3>2. PICK i \in Bad : \A m \in Bad : i <= m
            <4>1. Bad \subseteq Nat
                OBVIOUS
            <4>. QED BY <3>1, <4>1, SmallestExists
        <3>3. i \in 1 .. n /\ f[i] \notin Seq(X)
            BY <3>2
        <3>4. i # 1
            BY <2>0, <2>5, <3>3
        <3>5. i - 1 \in 1 .. n /\ i - 1 \notin Bad
            <4>1. \A m \in Bad : i <= m
                BY <3>2
            <4>. HIDE DEF Bad
            <4>. QED BY <2>0, <3>3, <3>4, <4>1 DEF Positive
        <3>6. f[i - 1] \in Seq(X) /\ ss[i] \in Seq(X) /\ f[i] = f[i - 1] \o ss[i]
            BY <2>0, <2>5, <3>3, <3>4, <3>5
        <3>. QED BY <3>3, <3>6
    <2>. QED BY <2>4, <2>6
<1>. QED BY <1>1, <1>2
LEMMA QuotientOfLess ==
    ASSUME NEW a \in Nat, NEW b \in 1 .. a
    PROVE  a \div b \in Positive /\ b * (a \div b) <= a
<1>0. b \in Nat \ {0}
    OBVIOUS
<1>1. a \div b \in Nat /\ a % b \in 0 .. b - 1 /\ a = b * (a \div b) + (a % b)
    BY <1>0, Quotients
<1>. DEFINE q == a \div b
<1>2. PICK r \in 0 .. b - 1 : r = a % b
    BY <1>1
<1>3. q \in Nat /\ a = b * q + r
    BY <1>1, <1>2
<1>. HIDE DEF q
<1>4. b * q \in Nat
    BY <1>3
<1>5. q # 0
    BY <1>3
<1>. QED BY <1>3, <1>4, <1>5 DEF q, Positive

LEMMA CandidatesFit ==
    ASSUME NEW j, ConvolutionInput(j), NEW threads \in Positive
    PROVE  Candidates(j, threads) \in Seq(Distributions(j, threads))
<1>. DEFINE D == Distributions(j, threads)
            Listed(mb) == [oc \in 1 .. Small(threads \div mb, j.nb_oc) |->
                          [mb |-> mb, oc |-> oc,
                           ic |-> Small((threads \div mb) \div oc, j.nb_ic)]]
<1>1. PICK max \in Positive : max = j.mb * j.od * nthr_oh_reduce(j)
    BY ReducedRows
<1>2. nthr_mb_max(j, threads) = Small(threads, max) /\ Small(threads, max) \in Positive
      /\ Small(threads, max) <= threads /\ Small(threads, max) <= max
    BY <1>1 DEF nthr_mb_max, Small, Positive
<1>3. PICK O \in Positive, I \in Positive : O = j.nb_oc /\ I = j.nb_ic
    BY DEF ConvolutionInput, Positive
<1>4. ASSUME NEW mb \in 1 .. nthr_mb_max(j, threads)
      PROVE  Listed(mb) \in Seq(D)
    <2>1. mb \in 1 .. threads /\ mb \in Positive /\ mb <= max
        BY <1>2 DEF Positive
    <2>2. PICK q \in Positive : q = threads \div mb /\ mb * q <= threads
        BY <2>1, QuotientOfLess DEF Positive
    <2>3. Small(q, O) \in Nat /\ Small(q, O) <= q /\ Small(q, O) <= O
        BY DEF Small, Positive
    <2>4. ASSUME NEW oc \in 1 .. Small(q, O)
          PROVE  [mb |-> mb, oc |-> oc, ic |-> Small(q \div oc, I)] \in D
        <3>1. oc \in 1 .. q /\ oc \in Positive /\ oc <= O
            BY <2>3 DEF Positive
        <3>2. PICK p \in Positive : p = q \div oc /\ oc * p <= q
            BY <3>1, QuotientOfLess DEF Positive
        <3>3. PICK i \in Positive : i = Small(p, I) /\ i <= p /\ i <= I
            BY DEF Small, Positive
        <3>4. mb * oc * i <= threads
            <4>1. oc * i \in Nat /\ oc * p \in Nat /\ oc * i <= oc * p
                BY <3>1, <3>3, ProductsGrow DEF Positive
            <4>2. mb * (oc * i) <= mb * q
                BY <2>1, <3>2, <4>1, ProductsGrow DEF Positive
            <4>3. mb * (oc * i) = mb * oc * i
                BY <2>1, <3>1, <3>3 DEF Positive
            <4>4. mb * q \in Nat /\ mb * oc * i \in Nat
                BY <2>1, <3>1, <3>3 DEF Positive
            <4>. QED BY <2>2, <4>2, <4>3, <4>4 DEF Positive
        <3>. QED BY <1>1, <1>3, <2>1, <3>1, <3>2, <3>3, <3>4 DEF Distributions
    <2>5. Listed(mb) = [oc \in 1 .. Small(q, O) |->
                       [mb |-> mb, oc |-> oc, ic |-> Small(q \div oc, I)]]
        BY <1>3, <2>2
    <2>. HIDE DEF Listed, D
    <2>. QED BY <2>3, <2>4, <2>5
<1>5. [mb \in 1 .. nthr_mb_max(j, threads) |-> Listed(mb)] \in Seq(Seq(D))
    <2>. HIDE DEF Listed, D
    <2>. QED BY <1>2, <1>4 DEF Positive
<1>6. FlattenSeq([mb \in 1 .. nthr_mb_max(j, threads) |-> Listed(mb)]) \in Seq(D)
    <2>. HIDE DEF Listed, D
    <2>. QED BY <1>5, FlatType
<1>. QED BY <1>6 DEF Candidates

LEMMA OneFits ==
    ASSUME NEW j, ConvolutionInput(j), NEW threads \in Positive
    PROVE  One \in Distributions(j, threads)
<1>1. PICK max \in Positive : max = j.mb * j.od * nthr_oh_reduce(j)
    BY ReducedRows
<1>. QED BY <1>1 DEF Distributions, One, ConvolutionInput, Positive

LEMMA CheapestFits ==
    ASSUME NEW j, NEW X, NEW cs \in Seq(X), One \in X
    PROVE  Cheapest(j, cs) \in X
<1>. DEFINE n == Len(cs)
            Op(i, best) == IF calc_mem_cost(j, cs[i]) <= calc_mem_cost(j, best)
                           THEN cs[i] ELSE best
            Body(f, s) == IF s = {} THEN One ELSE Op(Max(s), f[s \ {Max(s)}])
            Solves(f) == f = [s \in SUBSET (1 .. n) |-> Body(f, s)]
            Into(f, Y) == \A s \in SUBSET (1 .. n) : f[s] \in Y
            Tabulates(T, Y) == \A i \in 1 .. n : \A x \in Y : T[<<i, x>>] = Op(i, x)
<1>1. n \in Nat /\ DOMAIN cs = 1 .. n /\ \A i \in 1 .. n : cs[i] \in X
    OBVIOUS
<1>. HIDE DEF n
<1>2. ASSUME NEW Y PROVE \E T : Tabulates(T, Y)
    <2>. HIDE DEF Op
    <2>1. Tabulates([p \in (1 .. n) \X Y |-> Op(p[1], p[2])], Y)
        OBVIOUS
    <2>. QED BY <2>1
<1>3. \A i \in 1 .. n : \A x \in X : Op(i, x) \in X
    BY <1>1
<1>. HIDE DEF Op
<1>4. ASSUME NEW Y, X \subseteq Y, NEW T, Tabulates(T, Y),
             NEW f, IsFold(f, n, One, T)
      PROVE  \A s \in SUBSET (1 .. n) : f[s] \in X
    <2>1. \A i \in 1 .. n : \A x \in X : T[<<i, x>>] \in X
        BY <1>2, <1>3, <1>4
    <2>. QED BY <1>1, <1>4, <2>1, FoldType
<1>5. ASSUME NEW Y, NEW T, Tabulates(T, Y), NEW f, Into(f, Y),
             NEW s \in SUBSET (1 .. n)
      PROVE  Folded(f, One, T, s) = Body(f, s)
    <2>1. CASE s = {}
        BY <2>1 DEF Folded
    <2>2. CASE s # {}
        <3>1. Max(s) \in 1 .. n /\ s \ {Max(s)} \in SUBSET (1 .. n)
            BY <1>1, <2>2, WithoutLast
        <3>. QED BY <1>2, <1>5, <2>2, <3>1 DEF Folded
    <2>. QED BY <2>1, <2>2
<1>6. \E f : Solves(f)
    <2>0. PICK T : Tabulates(T, X)
        BY <1>2
    <2>1. PICK f : IsFold(f, n, One, T)
        BY <1>1, FoldIsDefined
    <2>2. Into(f, X)
        <3>. HIDE DEF Tabulates
        <3>. QED BY <1>4, <2>0, <2>1
    <2>3. \A s \in SUBSET (1 .. n) : Folded(f, One, T, s) = Body(f, s)
        <3>. HIDE DEF Tabulates, Into, Body
        <3>1. ASSUME NEW s \in SUBSET (1 .. n)
              PROVE  Folded(f, One, T, s) = Body(f, s)
            BY <1>5, <2>0, <2>2
        <3>. QED BY <3>1, Zenon
    <2>. HIDE DEF Body
    <2>4. Solves(f)
        BY <2>1, <2>3 DEF IsFold
    <2>. QED BY <2>4
<1>7. PICK f : f = CHOOSE g : Solves(g)
    OBVIOUS
<1>8. Solves(f)
    <2>. HIDE DEF Solves
    <2>. QED BY <1>6, <1>7
<1>9. f[1 .. n] \in X
    <2>. DEFINE Y == X \cup { f[s] : s \in SUBSET (1 .. n) }
    <2>1. X \subseteq Y /\ Into(f, Y)
        OBVIOUS
    <2>. HIDE DEF Y
    <2>0. PICK T : Tabulates(T, Y)
        BY <1>2
    <2>2. \A s \in SUBSET (1 .. n) : Folded(f, One, T, s) = Body(f, s)
        <3>. HIDE DEF Tabulates, Into, Body
        <3>1. ASSUME NEW s \in SUBSET (1 .. n)
              PROVE  Folded(f, One, T, s) = Body(f, s)
            BY <1>5, <2>0, <2>1
        <3>. QED BY <3>1, Zenon
    <2>3. IsFold(f, n, One, T)
        <3>. HIDE DEF Body
        <3>. QED BY <1>8, <2>2 DEF IsFold
    <2>4. \A s \in SUBSET (1 .. n) : f[s] \in X
        <3>. HIDE DEF Tabulates
        <3>. QED BY <1>4, <2>0, <2>1, <2>3
    <2>. QED BY <2>4
<1>10. Cheapest(j, cs) = f[1 .. n]
    BY <1>1, <1>7 DEF Cheapest, FoldLeft, MapThenFoldSet, Op
<1>. QED BY <1>9, <1>10

LEMMA FastestFits ==
    ASSUME NEW j, NEW X, NEW cs \in Seq(X), One \in X
    PROVE  Fastest(j, cs) \in X
<1>0. PICK cheap \in X : cheap = Cheapest(j, cs)
    BY CheapestFits
<1>. DEFINE n == Len(cs)
            Op(i, best) == IF \/ /\ calc_comp_cost(j, cs[i]) <= calc_comp_cost(j, best)
                                 /\ 10 * calc_mem_cost(j, cs[i])
                                        < 11 * calc_mem_cost(j, cheap)
                              \/ 4 * calc_comp_cost(j, cs[i])
                                     <= 3 * calc_comp_cost(j, best)
                           THEN cs[i] ELSE best
            Body(f, s) == IF s = {} THEN cheap ELSE Op(Max(s), f[s \ {Max(s)}])
            Solves(f) == f = [s \in SUBSET (1 .. n) |-> Body(f, s)]
            Into(f, Y) == \A s \in SUBSET (1 .. n) : f[s] \in Y
            Tabulates(T, Y) == \A i \in 1 .. n : \A x \in Y : T[<<i, x>>] = Op(i, x)
<1>1. n \in Nat /\ DOMAIN cs = 1 .. n /\ \A i \in 1 .. n : cs[i] \in X
    OBVIOUS
<1>. HIDE DEF n
<1>2. ASSUME NEW Y PROVE \E T : Tabulates(T, Y)
    <2>. HIDE DEF Op
    <2>1. Tabulates([p \in (1 .. n) \X Y |-> Op(p[1], p[2])], Y)
        OBVIOUS
    <2>. QED BY <2>1
<1>3. \A i \in 1 .. n : \A x \in X : Op(i, x) \in X
    BY <1>1
<1>. HIDE DEF Op
<1>4. ASSUME NEW Y, X \subseteq Y, NEW T, Tabulates(T, Y),
             NEW f, IsFold(f, n, cheap, T)
      PROVE  \A s \in SUBSET (1 .. n) : f[s] \in X
    <2>1. \A i \in 1 .. n : \A x \in X : T[<<i, x>>] \in X
        BY <1>2, <1>3, <1>4
    <2>. QED BY <1>1, <1>4, <2>1, FoldType
<1>5. ASSUME NEW Y, NEW T, Tabulates(T, Y), NEW f, Into(f, Y),
             NEW s \in SUBSET (1 .. n)
      PROVE  Folded(f, cheap, T, s) = Body(f, s)
    <2>1. CASE s = {}
        BY <2>1 DEF Folded
    <2>2. CASE s # {}
        <3>1. Max(s) \in 1 .. n /\ s \ {Max(s)} \in SUBSET (1 .. n)
            BY <1>1, <2>2, WithoutLast
        <3>. QED BY <1>2, <1>5, <2>2, <3>1 DEF Folded
    <2>. QED BY <2>1, <2>2
<1>6. \E f : Solves(f)
    <2>0. PICK T : Tabulates(T, X)
        BY <1>2
    <2>1. PICK f : IsFold(f, n, cheap, T)
        BY <1>1, FoldIsDefined
    <2>2. Into(f, X)
        <3>. HIDE DEF Tabulates
        <3>. QED BY <1>4, <2>0, <2>1
    <2>3. \A s \in SUBSET (1 .. n) : Folded(f, cheap, T, s) = Body(f, s)
        <3>. HIDE DEF Tabulates, Into, Body
        <3>1. ASSUME NEW s \in SUBSET (1 .. n)
              PROVE  Folded(f, cheap, T, s) = Body(f, s)
            BY <1>5, <2>0, <2>2
        <3>. QED BY <3>1, Zenon
    <2>. HIDE DEF Body
    <2>4. Solves(f)
        BY <2>1, <2>3 DEF IsFold
    <2>. QED BY <2>4
<1>7. PICK f : f = CHOOSE g : Solves(g)
    OBVIOUS
<1>8. Solves(f)
    <2>. HIDE DEF Solves
    <2>. QED BY <1>6, <1>7
<1>9. f[1 .. n] \in X
    <2>. DEFINE Y == X \cup { f[s] : s \in SUBSET (1 .. n) }
    <2>1. X \subseteq Y /\ Into(f, Y)
        OBVIOUS
    <2>. HIDE DEF Y
    <2>0. PICK T : Tabulates(T, Y)
        BY <1>2
    <2>2. \A s \in SUBSET (1 .. n) : Folded(f, cheap, T, s) = Body(f, s)
        <3>. HIDE DEF Tabulates, Into, Body
        <3>1. ASSUME NEW s \in SUBSET (1 .. n)
              PROVE  Folded(f, cheap, T, s) = Body(f, s)
            BY <1>5, <2>0, <2>1
        <3>. QED BY <3>1, Zenon
    <2>3. IsFold(f, n, cheap, T)
        <3>. HIDE DEF Body
        <3>. QED BY <1>8, <2>2 DEF IsFold
    <2>4. \A s \in SUBSET (1 .. n) : f[s] \in X
        <3>. HIDE DEF Tabulates
        <3>. QED BY <1>4, <2>0, <2>1, <2>3
    <2>. QED BY <2>4
<1>10. Fastest(j, cs) = f[1 .. n]
    BY <1>0, <1>1, <1>7 DEF Fastest, FoldLeft, MapThenFoldSet, Op
<1>. QED BY <1>9, <1>10

\* A grid in which every thread has images and blocks of channels of its own.
GridFor(j, max, made) ==
    /\ {made.mb, made.g, made.oc, made.ic} \subseteq Positive
    /\ made.mb * made.g * made.oc * made.ic <= max
    /\ made.mb <= j.mb * j.od * (IF j.harness = "2d" THEN j.oh ELSE 1)
    /\ made.g \in {1, j.ngroups} /\ made.oc <= j.nb_oc /\ made.ic <= j.nb_ic
    /\ made.g = j.ngroups \/ (made.oc = 1 /\ made.ic = 1 /\ made.mb = 1)
       \/ (made.oc = 1 /\ j.fma4 /\ j.is_1stconv)

LEMMA WidenFits ==
    ASSUME NEW j, ConvolutionInput(j), NEW max \in Positive, NEW g \in 1 .. max,
           NEW d \in Distributions(j, max \div g)
    PROVE  LET w == Widen(j, d, max)
           IN  /\ w.mb \in Positive /\ w.oc = d.oc /\ w.ic = d.ic
               /\ w.mb <= j.mb * j.od * nthr_oh_reduce(j)
               /\ w.mb * g * d.oc * d.ic <= max
<1>1. PICK M \in Positive : M = j.mb * j.od * nthr_oh_reduce(j)
    BY ReducedRows
<1>2. PICK q \in Positive : q = max \div g /\ g * q <= max
    BY QuotientOfLess DEF Positive
<1>3. PICK mb \in Positive, oc \in Positive, ic \in Positive :
         /\ d = [mb |-> mb, oc |-> oc, ic |-> ic]
         /\ mb * oc * ic <= q /\ mb <= M
    BY <1>1, <1>2 DEF Distributions
<1>. DEFINE each == g * oc * ic
<1>4. each \in Positive /\ mb * g * oc * ic = mb * each /\ mb * each <= max
    <2>1. mb * oc * ic \in Nat /\ g * (mb * oc * ic) <= g * q /\ g * q \in Nat
        BY <1>2, <1>3, ProductsGrow DEF Positive
    <2>2. g * (mb * oc * ic) = mb * each /\ each \in Nat /\ mb * each \in Nat
        BY DEF Positive
    <2>3. each # 0
        <3>1. g * oc \in Nat /\ g * oc >= 1 /\ g * oc >= g
            BY DEF Positive
        <3>2. (g * oc) * ic >= g * oc
            BY <3>1 DEF Positive
        <3>. QED BY <3>1, <3>2
    <2>4. mb * g * oc * ic = mb * each
        BY DEF Positive
    <2>. QED BY <1>2, <2>1, <2>2, <2>3, <2>4 DEF Positive
<1>5. CASE mb > max \div 2 /\ mb < max
    <2>1. each = 1
        <3>. HIDE DEF each
        <3>1. max \div 2 \in Nat /\ max <= 2 * (max \div 2) + 1
            BY DEF Positive
        <3>2. CASE each >= 2
            <4>1. mb * 2 <= mb * each
                BY <1>4, <3>2, ProductsGrow DEF Positive
            <4>. QED BY <1>4, <1>5, <3>1, <4>1 DEF Positive
        <3>. QED BY <1>4, <3>2 DEF Positive
    <2>2. PICK w \in Positive : w = Small(M, max) /\ w <= M /\ w <= max
        BY DEF Small, Positive
    <2>3. Widen(j, d, max) = [mb |-> w, oc |-> oc, ic |-> ic]
        BY <1>1, <1>3, <1>5, <2>2 DEF Widen
    <2>4. w * g * oc * ic = w * each
        BY DEF Positive
    <2>. HIDE DEF each
    <2>. QED BY <1>1, <1>3, <2>1, <2>2, <2>3, <2>4 DEF Positive
<1>6. CASE ~(mb > max \div 2 /\ mb < max)
    <2>1. Widen(j, d, max) = d
        BY <1>3, <1>6 DEF Widen
    <2>. HIDE DEF each
    <2>. QED BY <1>1, <1>3, <1>4, <2>1
<1>. QED BY <1>5, <1>6

(***************************************************************************)
(* balance() of the AVX-512 backward weights convolution asks for no more  *)
(* threads than there are, and each of them gets images and blocks of both *)
(* kinds of channels of its own, for every shape, team and instruction set.*)
(***************************************************************************)
THEOREM GridFits ==
    ASSUME NEW j, ConvolutionInput(j), NEW max \in Positive, NEW mic, NEW syncable
    PROVE  GridFor(j, max, ConvThreads(j, max, mic, syncable))
<1>1. PICK B \in Positive, D \in Positive, G \in Positive, O \in Positive, I \in Positive :
         B = j.mb /\ D = j.od /\ G = j.ngroups /\ O = j.nb_oc /\ I = j.nb_ic
    BY DEF ConvolutionInput, Positive
<1>2. PICK R \in Positive : R = IF j.harness = "2d" THEN j.oh ELSE 1
    BY DEF ConvolutionInput, Positive
<1>3. B * D * R \in Positive /\ B <= B * D * R
    <2>1. B * D \in Nat /\ B * D >= B
        BY DEF Positive
    <2>2. (B * D) * R >= B * D /\ (B * D) * R \in Nat
        BY <2>1 DEF Positive
    <2>. QED BY <2>1, <2>2 DEF Positive
<1>4. CASE max < G \/ (~syncable /\ j.fma4)
    <2>1. ConvThreads(j, max, mic, syncable) = [mb |-> 1, g |-> 1, oc |-> 1, ic |-> 1]
        BY <1>1, <1>4 DEF ConvThreads, Grid
    <2>. QED BY <1>1, <1>2, <1>3, <2>1 DEF GridFor, Positive
<1>5. CASE ~(max < G \/ (~syncable /\ j.fma4)) /\ j.fma4 /\ j.is_1stconv
    <2>1. PICK ic \in Positive : ic = Small(I, max) /\ ic <= I /\ ic <= max
        BY DEF Small, Positive
    <2>2. PICK q \in Positive : q = max \div ic /\ ic * q <= max
        BY <2>1, QuotientOfLess DEF Positive
    <2>3. PICK mb \in Positive : mb = Small(q, B) /\ mb <= q /\ mb <= B
        BY DEF Small, Positive
    <2>4. ConvThreads(j, max, mic, syncable) = [mb |-> mb, g |-> 1, oc |-> 1, ic |-> ic]
        BY <1>1, <1>5, <2>1, <2>2, <2>3 DEF ConvThreads, Grid
    <2>5. mb * 1 * 1 * ic <= max
        <3>1. mb * ic <= q * ic
            BY <2>3, ProductsGrow DEF Positive
        <3>2. q * ic = ic * q /\ q * ic \in Nat /\ mb * ic \in Nat /\ mb * 1 * 1 * ic = mb * ic
            BY DEF Positive
        <3>. QED BY <2>2, <3>1, <3>2 DEF Positive
    <2>6. mb <= B * D * R
        BY <1>3, <2>3 DEF Positive
    <2>. QED BY <1>1, <1>2, <1>5, <2>1, <2>4, <2>5, <2>6 DEF GridFor, Positive
<1>6. CASE ~(max < G \/ (~syncable /\ j.fma4)) /\ ~(j.fma4 /\ j.is_1stconv)
    <2>. DEFINE cs == Candidates(j, max \div G)
                X == Distributions(j, max \div G)
    <2>1. G \in 1 .. max /\ max \div G \in Positive
        BY <1>6, QuotientOfLess DEF Positive
    <2>2. cs \in Seq(X) /\ One \in X
        BY <2>1, CandidatesFit, OneFits
    <2>. HIDE DEF cs, X
    <2>3. PICK d \in X : d = IF mic THEN Cheapest(j, cs) ELSE Fastest(j, cs)
        BY <2>2, CheapestFits, FastestFits
    <2>4. PICK w : w = Widen(j, d, max)
        OBVIOUS
    <2>5. /\ w.mb \in Positive /\ w.oc = d.oc /\ w.ic = d.ic
          /\ w.mb <= j.mb * j.od * nthr_oh_reduce(j)
          /\ w.mb * G * d.oc * d.ic <= max
        BY <2>1, <2>3, <2>4, WidenFits DEF X
    <2>6. d.oc \in Positive /\ d.ic \in Positive /\ d.oc <= O /\ d.ic <= I
        BY <1>1, <2>3 DEF X, Distributions
    <2>7. ConvThreads(j, max, mic, syncable) = [mb |-> w.mb, g |-> G, oc |-> w.oc, ic |-> w.ic]
        BY <1>1, <1>6, <2>3, <2>4 DEF ConvThreads, Grid, cs
    <2>8. w.mb <= B * D * R
        <3>1. PICK r \in Positive : r = nthr_oh_reduce(j) /\ r <= R
            BY <1>2, ReducedRows
        <3>2. B * D \in Nat /\ (B * D) * r <= (B * D) * R
            BY <3>1, ProductsGrow DEF Positive
        <3>3. (B * D) * r \in Nat /\ w.mb <= (B * D) * r
            BY <1>1, <2>5, <3>1 DEF Positive
        <3>. QED BY <1>3, <2>5, <3>2, <3>3 DEF Positive
    <2>. QED BY <1>1, <1>2, <2>5, <2>6, <2>7, <2>8 DEF GridFor, Positive
<1>. QED BY <1>4, <1>5, <1>6

(***************************************************************************)
(* So the grid of every convolution that is called has work for all of it. *)
(***************************************************************************)
THEOREM GridsHaveWork == Calls => []GridHasWork
<1>1. Outcome => GridHasWork
    <2>. SUFFICES ASSUME Outcome, Called("conv") PROVE GridHasWork
        BY DEF GridHasWork
    <2>1. /\ in.max_threads \in Positive /\ ConvolutionInput(in.jcp)
          /\ res = ConvThreads(in.jcp, in.max_threads, in.mic, in.sync)
        BY InputAssumption DEF Outcome, Called, Positive, ConvolutionInput
    <2>2. GridFor(in.jcp, in.max_threads, res)
        BY <2>1, GridFits
    <2>3. res.g <= in.jcp.ngroups
        BY <2>1, <2>2 DEF GridFor, ConvolutionInput, Positive
    <2>. QED BY <2>2, <2>3 DEF GridFor, GridHasWork
<1>. QED BY <1>1, OutcomeStays, PTL

------------------------------------------------------------------------------
(* Mixed radix                                                             *)

LEMMA QuotientBelow ==
    ASSUME NEW b \in Nat \ {0}, NEW c \in Nat, NEW a \in 0 .. c * b - 1
    PROVE  a \div b \in 0 .. c - 1
<1>1. b \in Nat \ {0} /\ c * b \in Nat /\ a \in Nat
    OBVIOUS
<1>2. a \div b \in Nat /\ (a \div b) * b <= a
    BY <1>1, Quotients
<1>. DEFINE q == a \div b
<1>3. q \in Nat /\ q * b <= a /\ q * b \in Nat
    BY <1>1, <1>2
<1>. HIDE DEF q
<1>4. CASE c <= q
    <2>1. c * b <= q * b
        BY <1>1, <1>3, <1>4, ProductsGrow
    <2>. QED BY <1>1, <1>3, <2>1
<1>. QED BY <1>3, <1>4 DEF q

LEMMA HighDigit ==
    ASSUME NEW B \in Nat \ {0}, NEW C \in Nat \ {0}, NEW a \in Nat,
           NEW b \in 0 .. B - 1, NEW c \in 0 .. C - 1, NEW w, w = (a * B + b) * C + c
    PROVE  w \div (B * C) = a
<1>1. B * C \in Nat \ {0}
    OBVIOUS
<1>2. a * B \in Nat /\ (a * B + b) * C = (a * B) * C + b * C
         /\ (a * B) * C = a * (B * C) /\ a * (B * C) \in Nat
    OBVIOUS
<1>3. b * C + c \in 0 .. B * C - 1
    <2>1. (b + 1) * C <= B * C
        BY ProductsGrow
    <2>2. (b + 1) * C = b * C + C /\ b * C \in Nat /\ B * C \in Nat
        OBVIOUS
    <2>. QED BY <2>1, <2>2
<1>4. PICK x \in 0 .. B * C - 1 : x = b * C + c
    BY <1>3
<1>5. w = a * (B * C) + x
    BY <1>2, <1>4
<1>. QED BY <1>1, <1>5, RowMajorIsUnique

\* A number below A * B * C and its three digits.
HasDigits(A, B, C, w) ==
    /\ w \div (B * C) \in 0 .. A - 1
    /\ (w \div C) % B \in 0 .. B - 1
    /\ w % C \in 0 .. C - 1
    /\ w = ((w \div (B * C)) * B + ((w \div C) % B)) * C + (w % C)

LEMMA ThreeDigits ==
    ASSUME NEW A \in Nat \ {0}, NEW B \in Nat \ {0}, NEW C \in Nat \ {0},
           NEW w \in 0 .. A * B * C - 1
    PROVE  HasDigits(A, B, C, w)
<1>0. /\ w \in Nat /\ B * C \in Nat \ {0}
      /\ A * B \in Nat /\ A * B * C = (A * B) * C
    OBVIOUS
<1>1. w \div C \in 0 .. A * B - 1
    BY <1>0, QuotientBelow
<1>2. PICK q \in 0 .. A * B - 1, c \in 0 .. C - 1 :
         q = w \div C /\ c = w % C /\ w = q * C + c
    <2>1. w % C \in 0 .. C - 1 /\ w = C * (w \div C) + (w % C)
        BY <1>0, Quotients
    <2>2. PICK q \in 0 .. A * B - 1, c \in 0 .. C - 1 : q = w \div C /\ c = w % C
        BY <1>1, <2>1
    <2>3. C * q = q * C
        BY <1>0
    <2>. QED BY <2>1, <2>2, <2>3
<1>3. PICK a \in 0 .. A - 1, b \in 0 .. B - 1 : a = q \div B /\ b = q % B /\ q = a * B + b
    <2>0. q \in Nat /\ A * B \in Nat
        BY <1>0
    <2>1. q \div B \in 0 .. A - 1 /\ q % B \in 0 .. B - 1 /\ q = B * (q \div B) + (q % B)
        BY <2>0, QuotientBelow, Quotients
    <2>2. PICK a \in 0 .. A - 1, b \in 0 .. B - 1 : a = q \div B /\ b = q % B
        BY <2>1
    <2>3. B * a = a * B
        BY <1>0
    <2>. QED BY <2>1, <2>2, <2>3
<1>4. w = (a * B + b) * C + c
    BY <1>2, <1>3
<1>5. w \div (B * C) = a
    BY <1>4, HighDigit
<1>. QED BY <1>2, <1>3, <1>4, <1>5 DEF HasDigits

\* The digits a, b and c, and what they are of.
AreDigits(A, B, C, w, a, b, c) ==
    /\ w \in 0 .. A * B * C - 1
    /\ w \div (B * C) = a /\ (w \div C) % B = b /\ w % C = c

LEMMA DigitsAreUnique ==
    ASSUME NEW A \in Nat \ {0}, NEW B \in Nat \ {0}, NEW C \in Nat \ {0},
           NEW a \in 0 .. A - 1, NEW b \in 0 .. B - 1, NEW c \in 0 .. C - 1,
           NEW w, w = (a * B + b) * C + c
    PROVE  AreDigits(A, B, C, w, a, b, c)
<1>0. a \in Nat /\ b \in Nat
    OBVIOUS
<1>1. PICK q \in Nat : q = a * B + b
    BY <1>0
<1>2. q \div B = a /\ q % B = b
    BY <1>0, <1>1, RowMajorIsUnique
<1>3. w \in Nat /\ w \div C = q /\ w % C = c
    <2>1. w = q * C + c
        BY <1>1
    <2>. QED BY <2>1, RowMajorIsUnique
<1>4. w <= A * B * C - 1
    <2>1. (a + 1) * B <= A * B /\ (a + 1) * B = a * B + B /\ a * B \in Nat /\ A * B \in Nat
        BY <1>0, ProductsGrow
    <2>2. q + 1 <= A * B
        BY <1>0, <1>1, <2>1
    <2>3. (q + 1) * C <= (A * B) * C /\ (q + 1) * C = q * C + C /\ (A * B) * C \in Nat
             /\ q * C \in Nat
        BY <1>0, <2>1, <2>2, ProductsGrow
    <2>4. A * B * C = (A * B) * C
        OBVIOUS
    <2>. QED BY <1>0, <1>1, <2>3, <2>4
<1>5. w \div (B * C) = a
    BY HighDigit
<1>. QED BY <1>2, <1>3, <1>4, <1>5, <1>0 DEF AreDigits

------------------------------------------------------------------------------
(* The grid of threads                                                     *)

\* What never changes in a run.
Given == /\ jcp \in Convolutions /\ sync \in BOOLEAN
         /\ grid = ConvThreads(jcp, MaxThreads, Mic, sync)

GridOk ==
    /\ {grid.mb, grid.g, grid.oc, grid.ic} \subseteq Nat \ {0}
    /\ {jcp.ngroups, jcp.nb_oc, jcp.nb_ic, jcp.ih, Slices} \subseteq Nat \ {0}
    /\ grid.oc <= jcp.nb_oc /\ grid.ic <= jcp.nb_ic
    /\ grid.g = jcp.ngroups \/ nthr = 1

LEMMA GridIsOk == Given => GridOk
<1>. SUFFICES ASSUME Given PROVE GridOk
    OBVIOUS
<1>1. /\ jcp.harness \in {"mb", "2d", "3d"}
      /\ {jcp.mb, jcp.ngroups, jcp.nb_oc, jcp.nb_ic, jcp.ih, jcp.oh, jcp.od, jcp.kh, jcp.kd}
             \subseteq Nat \ {0}
      /\ jcp.is_1stconv => jcp.ngroups = 1
    BY ConvolutionAssumption DEF Given
<1>2. ConvolutionInput(jcp)
    BY <1>1 DEF ConvolutionInput
<1>3. MaxThreads \in Positive
    BY ThreadsAssumption DEF Positive
<1>4. GridFor(jcp, MaxThreads, grid)
    BY <1>2, <1>3, GridFits DEF Given
<1>5. {grid.mb, grid.g, grid.oc, grid.ic} \subseteq Nat \ {0}
    BY <1>4 DEF GridFor, Positive
<1>6. grid.oc <= jcp.nb_oc /\ grid.ic <= jcp.nb_ic /\ grid.g \in {1, jcp.ngroups}
    BY <1>4 DEF GridFor
<1>7. ASSUME grid.g # jcp.ngroups PROVE nthr = 1
    <2>1. grid.oc = 1 /\ grid.ic = 1 /\ grid.mb = 1
        BY <1>1, <1>4, <1>7 DEF GridFor
    <2>2. grid.g = 1
        BY <1>6, <1>7
    <2>. QED BY <2>1, <2>2 DEF nthr
<1>8. {jcp.ngroups, jcp.nb_oc, jcp.nb_ic, jcp.ih, Slices} \subseteq Nat \ {0}
    BY <1>1 DEF Slices
<1>. QED BY <1>5, <1>6, <1>7, <1>8 DEF GridOk

\* The four numbers of a thread, and the thread from them.
LEMMA ThreadIndex ==
    ASSUME GridOk, NEW t \in Threads
    PROVE  /\ ithr_mb(t) \in 0 .. grid.mb - 1 /\ ithr_g(t) \in 0 .. grid.g - 1
           /\ ithr_oc_b(t) \in 0 .. grid.oc - 1 /\ ithr_ic_b(t) \in 0 .. grid.ic - 1
           /\ t = ((ithr_mb(t) * grid.g + ithr_g(t)) * grid.oc + ithr_oc_b(t)) * grid.ic
                      + ithr_ic_b(t)
<1>1. PICK M \in Nat \ {0}, G \in Nat \ {0}, O \in Nat \ {0}, I \in Nat \ {0} :
         M = grid.mb /\ G = grid.g /\ O = grid.oc /\ I = grid.ic
    BY DEF GridOk
<1>2. t \in 0 .. (M * G) * O * I - 1 /\ M * G \in Nat \ {0}
    BY <1>1 DEF Threads, nthr
<1>3. PICK x \in 0 .. (M * G) * O - 1, i \in 0 .. I - 1 :
         x = t \div I /\ i = t % I /\ t = x * I + i
    <2>1. t \in Nat /\ (M * G) * O \in Nat
        BY <1>2
    <2>2. t \div I \in 0 .. (M * G) * O - 1
        BY <1>2, <2>1, QuotientBelow
    <2>3. t % I \in 0 .. I - 1 /\ t = I * (t \div I) + (t % I)
        BY <2>1, Quotients
    <2>4. PICK x \in 0 .. (M * G) * O - 1, i \in 0 .. I - 1 : x = t \div I /\ i = t % I
        BY <2>2, <2>3
    <2>5. I * x = x * I
        BY <2>1
    <2>. QED BY <2>3, <2>4, <2>5
<1>4. PICK y \in 0 .. M * G - 1, o \in 0 .. O - 1 :
         y = x \div O /\ o = x % O /\ x = y * O + o
    <2>1. x \in Nat /\ M * G \in Nat
        BY <1>2
    <2>2. x \div O \in 0 .. M * G - 1
        BY <1>3, <2>1, QuotientBelow
    <2>3. x % O \in 0 .. O - 1 /\ x = O * (x \div O) + (x % O)
        BY <2>1, Quotients
    <2>4. PICK y \in 0 .. M * G - 1, o \in 0 .. O - 1 : y = x \div O /\ o = x % O
        BY <2>2, <2>3
    <2>5. O * y = y * O
        BY <2>1
    <2>. QED BY <2>3, <2>4, <2>5
<1>5. PICK m \in 0 .. M - 1, g \in 0 .. G - 1 :
         m = y \div G /\ g = y % G /\ y = m * G + g
    <2>1. y \in Nat /\ M * G \in Nat
        BY <1>2
    <2>2. y \div G \in 0 .. M - 1
        BY <1>3, <2>1, QuotientBelow
    <2>3. y % G \in 0 .. G - 1 /\ y = G * (y \div G) + (y % G)
        BY <2>1, Quotients
    <2>4. PICK m \in 0 .. M - 1, g \in 0 .. G - 1 : m = y \div G /\ g = y % G
        BY <2>2, <2>3
    <2>5. G * m = m * G
        BY <2>1
    <2>. QED BY <2>3, <2>4, <2>5
<1>6. t \div I = x /\ x \div O = y
    BY <1>3, <1>4
<1>7. ithr_mb(t) = m /\ ithr_g(t) = g /\ ithr_oc_b(t) = o /\ ithr_ic_b(t) = i
    BY <1>1, <1>3, <1>4, <1>5 DEF ithr_mb, ithr_g, ithr_oc_b, ithr_ic_b
<1>8. t = ((m * G + g) * O + o) * I + i
    BY <1>3, <1>4, <1>5
<1>. QED BY <1>1, <1>7, <1>8

LEMMA SameIndex ==
    ASSUME GridOk, NEW t \in Threads, NEW u \in Threads,
           ithr_mb(t) = ithr_mb(u), ithr_g(t) = ithr_g(u),
           ithr_oc_b(t) = ithr_oc_b(u), ithr_ic_b(t) = ithr_ic_b(u)
    PROVE  t = u
<1>1. t = ((ithr_mb(t) * grid.g + ithr_g(t)) * grid.oc + ithr_oc_b(t)) * grid.ic
              + ithr_ic_b(t)
    BY ThreadIndex
<1>2. u = ((ithr_mb(u) * grid.g + ithr_g(u)) * grid.oc + ithr_oc_b(u)) * grid.ic
              + ithr_ic_b(u)
    BY ThreadIndex
<1>. QED BY <1>1, <1>2

\* The numbers of a thread but that over output channels, from its barrier.
LEMMA ButOc ==
    ASSUME GridOk, NEW t \in Threads
    PROVE  LET b == ithr_but_oc(t) IN
           /\ b \in Contexts /\ b >= 0
           /\ b \div (grid.g * grid.ic) = ithr_mb(t)
           /\ (b \div grid.ic) % grid.g = ithr_g(t)
           /\ b % grid.ic = ithr_ic_b(t)
<1>1. PICK M \in Nat \ {0}, G \in Nat \ {0}, O \in Nat \ {0}, I \in Nat \ {0} :
         M = grid.mb /\ G = grid.g /\ O = grid.oc /\ I = grid.ic
    BY DEF GridOk
<1>2. PICK m \in 0 .. M - 1, g \in 0 .. G - 1, i \in 0 .. I - 1 :
         m = ithr_mb(t) /\ g = ithr_g(t) /\ i = ithr_ic_b(t)
    BY <1>1, ThreadIndex
<1>3. PICK b \in Nat : b = ithr_but_oc(t) /\ b = (m * G + g) * I + i
    BY <1>1, <1>2 DEF ithr_but_oc
<1>4. b \in 0 .. M * G * I - 1 /\ b \div (G * I) = m /\ (b \div I) % G = g /\ b % I = i
    <2>1. AreDigits(M, G, I, b, m, g, i)
        BY <1>3, DigitsAreUnique
    <2>. QED BY <2>1 DEF AreDigits
<1>5. nthr \div grid.oc = M * G * I
    <2>1. PICK z \in Nat : z = M * G * I
        OBVIOUS
    <2>2. nthr = z * O
        <3>1. nthr = M * G * O * I
            BY <1>1 DEF nthr
        <3>2. M * G * O * I = (M * G) * (O * I) /\ (M * G) * (O * I) = (M * G) * (I * O)
                 /\ (M * G) * (I * O) = M * G * I * O
            OBVIOUS
        <3>. QED BY <2>1, <3>1, <3>2
    <2>3. nthr \div O = z
        BY <2>2, Multiple
    <2>. QED BY <1>1, <2>1, <2>3
<1>6. b \in Contexts
    BY <1>4, <1>5 DEF Contexts, Team
<1>. QED BY <1>1, <1>2, <1>3, <1>4, <1>6

\* Threads with a barrier of tr_src_bctx in common differ in ithr_oc_b only.
LEMMA MatesShare ==
    ASSUME GridOk, NEW t \in Threads, NEW u \in Threads
    PROVE  ithr_but_oc(t) = ithr_but_oc(u) <=>
               /\ ithr_mb(t) = ithr_mb(u) /\ ithr_g(t) = ithr_g(u)
               /\ ithr_ic_b(t) = ithr_ic_b(u)
<1>1. ithr_but_oc(t) = ithr_but_oc(u) =>
          /\ ithr_mb(t) = ithr_mb(u) /\ ithr_g(t) = ithr_g(u)
          /\ ithr_ic_b(t) = ithr_ic_b(u)
    BY ButOc
<1>. QED BY <1>1 DEF ithr_but_oc

LEMMA Shares ==
    ASSUME NEW n \in Nat, NEW team \in Nat \ {0}, NEW t \in 0 .. team - 1
    PROVE  /\ Start(n, team, t) \in Nat /\ Size(n, team, t) \in Nat
           /\ Start(n, team, t) + Size(n, team, t) <= n
           /\ Of(n, team, t) = Start(n, team, t) .. Start(n, team, t) + Size(n, team, t) - 1
           /\ Of(n, team, t) \subseteq 0 .. n - 1
           /\ IsFiniteSet(Of(n, team, t)) /\ Cardinality(Of(n, team, t)) = Size(n, team, t)
           /\ team <= n => Size(n, team, t) > 0
<1>1. PICK a \in Nat : a = Start(n, team, t)
    BY SharesAreOrdered
<1>2. PICK s \in Nat : s = Size(n, team, t)
    BY SharesAreBalanced
<1>3. Of(n, team, t) = a .. a + s - 1
    BY <1>1, <1>2 DEF Of, End
<1>4. Of(n, team, t) \subseteq 0 .. n - 1
    BY SharesArePartition DEF Of
<1>5. a + s <= n
    <2>1. CASE s = 0
        <3>1. End(n, team, team - 1) = n
            BY SharesAreConsecutive
        <3>2. t <= team - 1 /\ team - 1 \in 0 .. team - 1
            OBVIOUS
        <3>3. Start(n, team, t) <= Start(n, team, team - 1)
                 /\ Start(n, team, team - 1) <= End(n, team, team - 1)
                 /\ Start(n, team, team - 1) \in Nat
            BY <3>2, SharesAreOrdered
        <3>. QED BY <1>1, <2>1, <3>1, <3>3
    <2>2. CASE s # 0
        <3>1. a + s - 1 \in a .. a + s - 1
            BY <2>2
        <3>2. a + s - 1 \in 0 .. n - 1
            BY <1>3, <1>4, <3>1
        <3>. QED BY <3>2
    <2>. QED BY <2>1, <2>2
<1>6. IsFiniteSet(a .. a + s - 1) /\ Cardinality(a .. a + s - 1) = s
    <2>1. a \in Int /\ a + s - 1 \in Int /\ (a > a + s - 1 => s = 0)
        OBVIOUS
    <2>. QED BY <2>1, FS_Interval
<1>7. s = 0 => n < team
    BY <1>2, SharesAreBalanced
<1>. QED BY <1>1, <1>2, <1>3, <1>4, <1>5, <1>6, <1>7

LEMMA ShareIsRange ==
    ASSUME NEW n \in Nat, NEW team \in Nat \ {0}, NEW t \in 0 .. team - 1
    PROVE  \E a \in Nat : /\ a = Start(n, team, t)
                          /\ Of(n, team, t) = a .. a + Cardinality(Of(n, team, t)) - 1
<1>1. /\ Start(n, team, t) \in Nat
      /\ Of(n, team, t) = Start(n, team, t) .. Start(n, team, t) + Size(n, team, t) - 1
      /\ Cardinality(Of(n, team, t)) = Size(n, team, t)
    BY Shares
<1>. QED BY <1>1

\* Everybody has something if there is enough for all.
LEMMA EnoughForAll ==
    ASSUME NEW n \in Nat \ {0}, NEW team \in Nat \ {0}, NEW t \in 0 .. team - 1, team <= n
    PROVE  /\ Of(n, team, t) \subseteq 0 .. n - 1 /\ IsFiniteSet(Of(n, team, t))
           /\ Cardinality(Of(n, team, t)) \in Nat \ {0}
<1>1. /\ Size(n, team, t) \in Nat /\ Size(n, team, t) > 0
      /\ Cardinality(Of(n, team, t)) = Size(n, team, t)
    BY Shares
<1>2. Of(n, team, t) \subseteq 0 .. n - 1 /\ IsFiniteSet(Of(n, team, t))
    BY Shares
<1>. QED BY <1>1, <1>2

LEMMA SharesDiffer ==
    ASSUME NEW n \in Nat, NEW team \in Nat \ {0}, NEW t \in 0 .. team - 1,
           NEW u \in 0 .. team - 1, t # u
    PROVE  Of(n, team, t) \cap Of(n, team, u) = {}
BY SharesArePartition DEF Of

\* n items for n threads.
LEMMA OneEach ==
    ASSUME NEW n \in Nat \ {0}, NEW t \in 0 .. n - 1
    PROVE  Start(n, n, t) = t /\ Size(n, n, t) = 1 /\ Of(n, n, t) = {t}
<1>1. N1(n, n) = 1
    <2>1. n + n - 1 = 1 * n + (n - 1) /\ n - 1 \in 0 .. n - 1
        OBVIOUS
    <2>2. (n + n - 1) \div n = 1
        BY <2>1, RowMajorIsUnique
    <2>. QED BY <2>2 DEF N1, DivUp
<1>2. T1(n, n) = n
    BY <1>1 DEF T1
<1>3. Start(n, n, t) = t /\ Size(n, n, t) = 1
    BY <1>1, <1>2 DEF Start, Size
<1>. QED BY <1>3 DEF Of, End

------------------------------------------------------------------------------
(* The shares of a thread                                                  *)

\* What thread t has of the groups and blocks.
LEMMA OwnBlocks ==
    ASSUME GridOk, NEW t \in Threads
    PROVE  /\ Gs(t) \subseteq 0 .. jcp.ngroups - 1 /\ IsFiniteSet(Gs(t))
           /\ OcBs(t) \subseteq 0 .. jcp.nb_oc - 1 /\ IsFiniteSet(OcBs(t))
           /\ IcBs(t) \subseteq 0 .. jcp.nb_ic - 1 /\ IsFiniteSet(IcBs(t))
           /\ Cardinality(Gs(t)) \in Nat \ {0}
           /\ Cardinality(OcBs(t)) \in Nat \ {0}
           /\ Cardinality(IcBs(t)) \in Nat \ {0}
           /\ grid.g = jcp.ngroups =>
                 Gs(t) = {ithr_g(t)} /\ Start(jcp.ngroups, grid.g, ithr_g(t)) = ithr_g(t)
<1>1. /\ {grid.g, grid.oc, grid.ic, jcp.ngroups, jcp.nb_oc, jcp.nb_ic} \subseteq Nat \ {0}
      /\ grid.oc <= jcp.nb_oc /\ grid.ic <= jcp.nb_ic
    BY DEF GridOk
<1>2. /\ ithr_g(t) \in 0 .. grid.g - 1 /\ ithr_oc_b(t) \in 0 .. grid.oc - 1
      /\ ithr_ic_b(t) \in 0 .. grid.ic - 1
    BY ThreadIndex
<1>3. OcBs(t) \subseteq 0 .. jcp.nb_oc - 1 /\ IsFiniteSet(OcBs(t)) /\ Cardinality(OcBs(t)) \in Nat \ {0}
    BY <1>1, <1>2, EnoughForAll DEF OcBs
<1>4. IcBs(t) \subseteq 0 .. jcp.nb_ic - 1 /\ IsFiniteSet(IcBs(t)) /\ Cardinality(IcBs(t)) \in Nat \ {0}
    BY <1>1, <1>2, EnoughForAll DEF IcBs
<1>5. grid.g <= jcp.ngroups
    <2>1. CASE grid.g = jcp.ngroups
        BY <1>1, <2>1
    <2>2. CASE grid.g # jcp.ngroups
        <3>1. PICK M \in Nat \ {0}, G \in Nat \ {0}, O \in Nat \ {0}, I \in Nat \ {0} :
                 M = grid.mb /\ G = grid.g /\ O = grid.oc /\ I = grid.ic
            BY DEF GridOk
        <3>2. M * G * O * I = 1
            BY <2>2, <3>1 DEF GridOk, nthr
        <3>3. G <= M * G /\ M * G <= M * G * O /\ M * G * O <= M * G * O * I
            <4>1. 1 * G <= M * G
                BY ProductsGrow
            <4>2. PICK p \in Nat : p = M * G
                OBVIOUS
            <4>3. p * 1 <= p * O
                BY ProductsGrow
            <4>4. PICK q \in Nat : q = p * O
                OBVIOUS
            <4>5. q * 1 <= q * I
                BY ProductsGrow
            <4>. QED BY <4>1, <4>2, <4>3, <4>4, <4>5
        <3>4. M * G \in Nat /\ M * G * O \in Nat
            OBVIOUS
        <3>5. G <= 1
            BY <3>2, <3>3, <3>4
        <3>. QED BY <1>1, <3>1, <3>5
    <2>. QED BY <2>1, <2>2
<1>6. Gs(t) \subseteq 0 .. jcp.ngroups - 1 /\ IsFiniteSet(Gs(t)) /\ Cardinality(Gs(t)) \in Nat \ {0}
    BY <1>1, <1>2, <1>5, EnoughForAll DEF Gs
<1>7. ASSUME grid.g = jcp.ngroups
      PROVE  Gs(t) = {ithr_g(t)} /\ Start(jcp.ngroups, grid.g, ithr_g(t)) = ithr_g(t)
    BY <1>1, <1>2, <1>7, OneEach DEF Gs
<1>. QED BY <1>3, <1>4, <1>6, <1>7

LEMMA BlocksDiffer ==
    ASSUME GridOk, NEW t \in Threads, NEW u \in Threads
    PROVE  /\ ithr_g(t) # ithr_g(u) => Gs(t) \cap Gs(u) = {}
           /\ ithr_oc_b(t) # ithr_oc_b(u) => OcBs(t) \cap OcBs(u) = {}
           /\ ithr_ic_b(t) # ithr_ic_b(u) => IcBs(t) \cap IcBs(u) = {}
<1>1. {grid.g, grid.oc, grid.ic, jcp.ngroups, jcp.nb_oc, jcp.nb_ic} \subseteq Nat \ {0}
    BY DEF GridOk
<1>2. /\ ithr_g(t) \in 0 .. grid.g - 1 /\ ithr_oc_b(t) \in 0 .. grid.oc - 1
      /\ ithr_ic_b(t) \in 0 .. grid.ic - 1
      /\ ithr_g(u) \in 0 .. grid.g - 1 /\ ithr_oc_b(u) \in 0 .. grid.oc - 1
      /\ ithr_ic_b(u) \in 0 .. grid.ic - 1
    BY ThreadIndex
<1>3. ithr_g(t) # ithr_g(u) => Gs(t) \cap Gs(u) = {}
    BY <1>1, <1>2, SharesDiffer DEF Gs
<1>4. ithr_oc_b(t) # ithr_oc_b(u) => OcBs(t) \cap OcBs(u) = {}
    BY <1>1, <1>2, SharesDiffer DEF OcBs
<1>5. ithr_ic_b(t) # ithr_ic_b(u) => IcBs(t) \cap IcBs(u) = {}
    BY <1>1, <1>2, SharesDiffer DEF IcBs
<1>. QED BY <1>3, <1>4, <1>5

------------------------------------------------------------------------------
(* Cells of the weights                                                    *)

\* The block of input channels that a cell belongs to.
LEMMA CellsBlock ==
    ASSUME GridOk, NEW t \in Threads, NEW c \in MyCells(t)
    PROVE  /\ c \in Gs(t) \X OcBs(t) \X (0 .. jcp.nb_ic * Slices - 1)
           /\ c[3] \div Slices \in IcBs(t)
<1>1. PICK S \in Nat \ {0}, N \in Nat \ {0} : S = Slices /\ N = jcp.nb_ic
    BY DEF GridOk
<1>2. PICK b \in IcBs(t), k \in 0 .. S - 1 :
         c[1] \in Gs(t) /\ c[2] \in OcBs(t) /\ c[3] = b * S + k /\ c = <<c[1], c[2], c[3]>>
    BY <1>1 DEF MyCells
<1>3. b \in 0 .. N - 1
    BY <1>1, OwnBlocks
<1>4. c[3] \div S = b /\ c[3] \in Nat
    <2>1. b \in Nat
        BY <1>3
    <2>. QED BY <1>2, <2>1, RowMajorIsUnique
<1>5. c[3] <= N * S - 1
    <2>1. (b + 1) * S <= N * S
        BY <1>3, ProductsGrow
    <2>2. (b + 1) * S = b * S + S /\ b * S \in Nat /\ N * S \in Nat
        BY <1>3
    <2>. QED BY <1>2, <2>1, <2>2
<1>6. N * S \in Nat
    OBVIOUS
<1>. QED BY <1>1, <1>2, <1>4, <1>5, <1>6

LEMMA CellsDiffer ==
    ASSUME GridOk, NEW t \in Threads, NEW u \in Threads,
           ithr_g(t) # ithr_g(u) \/ ithr_oc_b(t) # ithr_oc_b(u) \/ ithr_ic_b(t) # ithr_ic_b(u)
    PROVE  MyCells(t) \cap MyCells(u) = {}
<1>. SUFFICES ASSUME NEW c \in MyCells(t), c \in MyCells(u) PROVE FALSE
    OBVIOUS
<1>1. c[1] \in Gs(t) /\ c[2] \in OcBs(t) /\ c[3] \div Slices \in IcBs(t)
    BY CellsBlock
<1>2. c[1] \in Gs(u) /\ c[2] \in OcBs(u) /\ c[3] \div Slices \in IcBs(u)
    BY CellsBlock
<1>. QED BY <1>1, <1>2, BlocksDiffer

\* The w-th cell of thread t.
ShareCell(t, w) ==
    LET Ow == Cardinality(OcBs(t))
        Iw == Cardinality(IcBs(t)) * Slices
    IN  << Start(jcp.ngroups, grid.g, ithr_g(t)) + w \div (Ow * Iw),
           Start(jcp.nb_oc, grid.oc, ithr_oc_b(t)) + ((w \div Iw) % Ow),
           Start(jcp.nb_ic, grid.ic, ithr_ic_b(t)) * Slices + (w % Iw) >>

CellCount(t) == Cardinality(Gs(t)) * Cardinality(OcBs(t)) * (Cardinality(IcBs(t)) * Slices)

LEMMA ShareIs ==
    ASSUME NEW t \in Threads
    PROVE  MyShare(t) = { ShareCell(t, w) : w \in Of(CellCount(t), grid.mb, ithr_mb(t)) }
BY DEF MyShare, ShareCell, CellCount

\* The first items of the shares of thread t.
LEMMA OwnBounds ==
    ASSUME GridOk, NEW t \in Threads
    PROVE  \E g0, o0, i0 \in Nat, Gw, Ow, Iw \in Nat \ {0} :
               /\ g0 = Start(jcp.ngroups, grid.g, ithr_g(t)) /\ Gw = Cardinality(Gs(t))
               /\ o0 = Start(jcp.nb_oc, grid.oc, ithr_oc_b(t)) /\ Ow = Cardinality(OcBs(t))
               /\ i0 = Start(jcp.nb_ic, grid.ic, ithr_ic_b(t)) /\ Iw = Cardinality(IcBs(t))
               /\ Gs(t) = g0 .. g0 + Gw - 1 /\ OcBs(t) = o0 .. o0 + Ow - 1
               /\ IcBs(t) = i0 .. i0 + Iw - 1
<1>1. {grid.g, grid.oc, grid.ic, jcp.ngroups, jcp.nb_oc, jcp.nb_ic} \subseteq Nat \ {0}
    BY DEF GridOk
<1>2. /\ ithr_g(t) \in 0 .. grid.g - 1 /\ ithr_oc_b(t) \in 0 .. grid.oc - 1
      /\ ithr_ic_b(t) \in 0 .. grid.ic - 1
    BY ThreadIndex
<1>3. PICK g0 \in Nat : g0 = Start(jcp.ngroups, grid.g, ithr_g(t))
                           /\ Gs(t) = g0 .. g0 + Cardinality(Gs(t)) - 1
    BY <1>1, <1>2, ShareIsRange DEF Gs
<1>4. PICK o0 \in Nat : o0 = Start(jcp.nb_oc, grid.oc, ithr_oc_b(t))
                           /\ OcBs(t) = o0 .. o0 + Cardinality(OcBs(t)) - 1
    BY <1>1, <1>2, ShareIsRange DEF OcBs
<1>5. PICK i0 \in Nat : i0 = Start(jcp.nb_ic, grid.ic, ithr_ic_b(t))
                           /\ IcBs(t) = i0 .. i0 + Cardinality(IcBs(t)) - 1
    BY <1>1, <1>2, ShareIsRange DEF IcBs
<1>6. PICK Gw \in Nat \ {0}, Ow \in Nat \ {0}, Iw \in Nat \ {0} :
         Gw = Cardinality(Gs(t)) /\ Ow = Cardinality(OcBs(t)) /\ Iw = Cardinality(IcBs(t))
    BY OwnBlocks
<1>. QED BY <1>3, <1>4, <1>5, <1>6

\* The numbers of a thread's cells and where they are.
CellAt(g0, o0, i0, Ow, Iw, S, w) ==
    << g0 + w \div (Ow * (Iw * S)), o0 + ((w \div (Iw * S)) % Ow), i0 * S + (w % (Iw * S)) >>

\* All cells of a part of the weights are numbered, from 0 to n - 1.
Numbered(g0, o0, i0, Gw, Ow, Iw, S, n) ==
    /\ \A w \in 0 .. n - 1 :
          LET c == CellAt(g0, o0, i0, Ow, Iw, S, w) IN
          /\ c[1] \in g0 .. g0 + Gw - 1 /\ c[2] \in o0 .. o0 + Ow - 1
          /\ \E b \in i0 .. i0 + Iw - 1, k \in 0 .. S - 1 : c[3] = b * S + k
          /\ w = ((c[1] - g0) * Ow + (c[2] - o0)) * (Iw * S) + (c[3] - i0 * S)
    /\ \A g \in g0 .. g0 + Gw - 1, o \in o0 .. o0 + Ow - 1,
          b \in i0 .. i0 + Iw - 1, k \in 0 .. S - 1 :
          \E w \in 0 .. n - 1 : CellAt(g0, o0, i0, Ow, Iw, S, w) = <<g, o, b * S + k>>

LEMMA CellsAreNumbered ==
    ASSUME NEW g0 \in Nat, NEW o0 \in Nat, NEW i0 \in Nat, NEW Gw \in Nat \ {0},
           NEW Ow \in Nat \ {0}, NEW Iw \in Nat \ {0}, NEW S \in Nat \ {0}
    PROVE  /\ Gw * Ow * (Iw * S) \in Nat \ {0}
           /\ Numbered(g0, o0, i0, Gw, Ow, Iw, S, Gw * Ow * (Iw * S))
<1>1. PICK R \in Nat \ {0} : R = Iw * S
    OBVIOUS
<1>2. Gw * Ow * R \in Nat \ {0}
    <2>1. Gw * Ow \in Nat \ {0}
        OBVIOUS
    <2>. QED BY <2>1
<1>3. ASSUME NEW w \in 0 .. Gw * Ow * R - 1
      PROVE  LET c == CellAt(g0, o0, i0, Ow, Iw, S, w) IN
             /\ c[1] \in g0 .. g0 + Gw - 1 /\ c[2] \in o0 .. o0 + Ow - 1
             /\ \E b \in i0 .. i0 + Iw - 1, k \in 0 .. S - 1 : c[3] = b * S + k
             /\ w = ((c[1] - g0) * Ow + (c[2] - o0)) * R + (c[3] - i0 * S)
    <2>1. PICK x \in 0 .. Gw - 1, y \in 0 .. Ow - 1, z \in 0 .. R - 1 :
             x = w \div (Ow * R) /\ y = (w \div R) % Ow /\ z = w % R
                /\ w = (x * Ow + y) * R + z
        <3>1. HasDigits(Gw, Ow, R, w)
            BY ThreeDigits
        <3>. QED BY <3>1 DEF HasDigits
    <2>2. PICK s \in Nat : s = i0 * S
        OBVIOUS
    <2>3. CellAt(g0, o0, i0, Ow, Iw, S, w) = <<g0 + x, o0 + y, s + z>>
        BY <1>1, <2>1, <2>2 DEF CellAt
    <2>4. PICK b \in 0 .. Iw - 1, k \in 0 .. S - 1 : z = b * S + k
        <3>1. z \in 0 .. Iw * S - 1 /\ z \in Nat /\ Iw \in Nat
            BY <1>1
        <3>2. z \div S \in 0 .. Iw - 1
            BY <3>1, QuotientBelow
        <3>3. z % S \in 0 .. S - 1 /\ z = S * (z \div S) + (z % S)
            BY <3>1, Quotients
        <3>4. PICK b \in 0 .. Iw - 1, k \in 0 .. S - 1 : b = z \div S /\ k = z % S
            BY <3>2, <3>3
        <3>5. S * b = b * S
            OBVIOUS
        <3>. QED BY <3>3, <3>4, <3>5
    <2>5. i0 + b \in i0 .. i0 + Iw - 1 /\ s + z = (i0 + b) * S + k
        <3>1. (i0 + b) * S = i0 * S + b * S /\ b * S \in Nat
            OBVIOUS
        <3>. QED BY <2>2, <2>4, <3>1
    <2>6. g0 + x \in g0 .. g0 + Gw - 1 /\ o0 + y \in o0 .. o0 + Ow - 1
            /\ (g0 + x) - g0 = x /\ (o0 + y) - o0 = y /\ (s + z) - s = z
        OBVIOUS
    <2>7. PICK c : c = CellAt(g0, o0, i0, Ow, Iw, S, w) /\ c[1] = g0 + x /\ c[2] = o0 + y
                      /\ c[3] = s + z
        BY <2>3
    <2>8. c[1] \in g0 .. g0 + Gw - 1 /\ c[2] \in o0 .. o0 + Ow - 1
        BY <2>6, <2>7
    <2>9. \E d \in i0 .. i0 + Iw - 1, l \in 0 .. S - 1 : c[3] = d * S + l
        BY <2>5, <2>7
    <2>10. w = ((c[1] - g0) * Ow + (c[2] - o0)) * R + (c[3] - i0 * S)
        <3>1. c[1] - g0 = x /\ c[2] - o0 = y /\ c[3] - i0 * S = z
            BY <2>2, <2>6, <2>7
        <3>. QED BY <2>1, <3>1
    <2>. QED BY <2>7, <2>8, <2>9, <2>10
<1>4. ASSUME NEW g \in g0 .. g0 + Gw - 1, NEW o \in o0 .. o0 + Ow - 1,
             NEW b \in i0 .. i0 + Iw - 1, NEW k \in 0 .. S - 1
      PROVE  \E w \in 0 .. Gw * Ow * R - 1 : CellAt(g0, o0, i0, Ow, Iw, S, w) = <<g, o, b * S + k>>
    <2>1. PICK x \in 0 .. Gw - 1, y \in 0 .. Ow - 1, a \in 0 .. Iw - 1 :
             g = g0 + x /\ o = o0 + y /\ b = i0 + a
        <3>1. g - g0 \in 0 .. Gw - 1 /\ o - o0 \in 0 .. Ow - 1 /\ b - i0 \in 0 .. Iw - 1
                /\ g = g0 + (g - g0) /\ o = o0 + (o - o0) /\ b = i0 + (b - i0)
            OBVIOUS
        <3>. QED BY <3>1
    <2>2. PICK z \in 0 .. R - 1 : z = a * S + k
        <3>1. (a + 1) * S <= Iw * S
            BY ProductsGrow
        <3>2. (a + 1) * S = a * S + S /\ a * S \in Nat
            OBVIOUS
        <3>. QED BY <1>1, <3>1, <3>2
    <2>3. PICK w \in Nat : w = (x * Ow + y) * R + z
        OBVIOUS
    <2>4. /\ w \in 0 .. Gw * Ow * R - 1
          /\ w \div (Ow * R) = x /\ (w \div R) % Ow = y /\ w % R = z
        <3>1. AreDigits(Gw, Ow, R, w, x, y, z)
            BY <2>3, DigitsAreUnique
        <3>. QED BY <3>1 DEF AreDigits
    <2>5. b * S + k = i0 * S + z
        <3>1. (i0 + a) * S = i0 * S + a * S /\ a * S \in Nat /\ i0 * S \in Nat
            OBVIOUS
        <3>. QED BY <2>1, <2>2, <3>1
    <2>6. CellAt(g0, o0, i0, Ow, Iw, S, w) = <<g, o, b * S + k>>
        BY <1>1, <2>1, <2>4, <2>5 DEF CellAt
    <2>. QED BY <2>4, <2>6
<1>. QED BY <1>1, <1>2, <1>3, <1>4 DEF Numbered

CellsOf(gs, os, is, S) == gs \X os \X { b * S + k : b \in is, k \in 0 .. S - 1 }

LEMMA CellsHave ==
    ASSUME NEW gs, NEW os, NEW is, NEW S, NEW c \in CellsOf(gs, os, is, S)
    PROVE  \E g \in gs, o \in os, b \in is, k \in 0 .. S - 1 : c = <<g, o, b * S + k>>
BY DEF CellsOf

LEMMA SharedCells ==
    ASSUME GridOk, NEW t \in Threads
    PROVE  /\ CellCount(t) \in Nat \ {0}
           /\ \A w \in 0 .. CellCount(t) - 1 : ShareCell(t, w) \in MyCells(t)
           /\ \A c \in MyCells(t) : \E w \in 0 .. CellCount(t) - 1 : c = ShareCell(t, w)
           /\ \A w, x \in 0 .. CellCount(t) - 1 : ShareCell(t, w) = ShareCell(t, x) => w = x
<1>1. PICK g0 \in Nat, o0 \in Nat, i0 \in Nat, Gw \in Nat \ {0}, Ow \in Nat \ {0}, Iw \in Nat \ {0} :
         /\ g0 = Start(jcp.ngroups, grid.g, ithr_g(t)) /\ Gw = Cardinality(Gs(t))
         /\ o0 = Start(jcp.nb_oc, grid.oc, ithr_oc_b(t)) /\ Ow = Cardinality(OcBs(t))
         /\ i0 = Start(jcp.nb_ic, grid.ic, ithr_ic_b(t)) /\ Iw = Cardinality(IcBs(t))
         /\ Gs(t) = g0 .. g0 + Gw - 1 /\ OcBs(t) = o0 .. o0 + Ow - 1
         /\ IcBs(t) = i0 .. i0 + Iw - 1
    BY OwnBounds
<1>2. PICK S \in Nat \ {0} : S = Slices
    BY DEF GridOk
<1>3. CellCount(t) = Gw * Ow * (Iw * S)
    BY <1>1, <1>2 DEF CellCount
<1>4. \A w : ShareCell(t, w) = CellAt(g0, o0, i0, Ow, Iw, S, w)
    BY <1>1, <1>2 DEF ShareCell, CellAt
<1>5. MyCells(t) = (g0 .. g0 + Gw - 1) \X (o0 .. o0 + Ow - 1)
                       \X { b * S + k : b \in i0 .. i0 + Iw - 1, k \in 0 .. S - 1 }
    <2>1. MyCells(t) = CellsOf(Gs(t), OcBs(t), IcBs(t), Slices)
        BY DEF MyCells, CellsOf
    <2>2. MyCells(t) = CellsOf(g0 .. g0 + Gw - 1, o0 .. o0 + Ow - 1, i0 .. i0 + Iw - 1, S)
        BY <1>1, <1>2, <2>1
    <2>. QED BY <2>2 DEF CellsOf
<1>6. PICK n \in Nat \ {0} :
         n = Gw * Ow * (Iw * S) /\ Numbered(g0, o0, i0, Gw, Ow, Iw, S, n)
    <2>1. /\ Gw * Ow * (Iw * S) \in Nat \ {0}
          /\ Numbered(g0, o0, i0, Gw, Ow, Iw, S, Gw * Ow * (Iw * S))
        BY CellsAreNumbered
    <2>. QED BY <2>1
<1>. DEFINE At(w) == CellAt(g0, o0, i0, Ow, Iw, S, w)
<1>7. ASSUME NEW w \in 0 .. n - 1
      PROVE  /\ At(w)[1] \in g0 .. g0 + Gw - 1 /\ At(w)[2] \in o0 .. o0 + Ow - 1
             /\ \E b \in i0 .. i0 + Iw - 1, k \in 0 .. S - 1 : At(w)[3] = b * S + k
             /\ w = ((At(w)[1] - g0) * Ow + (At(w)[2] - o0)) * (Iw * S) + (At(w)[3] - i0 * S)
             /\ At(w) = <<At(w)[1], At(w)[2], At(w)[3]>>
    <2>1. At(w) = <<At(w)[1], At(w)[2], At(w)[3]>>
        BY DEF CellAt
    <2>. QED BY <1>6, <2>1 DEF Numbered
<1>70. ASSUME NEW g \in g0 .. g0 + Gw - 1, NEW o \in o0 .. o0 + Ow - 1,
              NEW b \in i0 .. i0 + Iw - 1, NEW k \in 0 .. S - 1
       PROVE  \E w \in 0 .. n - 1 : At(w) = <<g, o, b * S + k>>
    <2>1. \A g2 \in g0 .. g0 + Gw - 1, o2 \in o0 .. o0 + Ow - 1,
             b2 \in i0 .. i0 + Iw - 1, k2 \in 0 .. S - 1 :
             \E w \in 0 .. n - 1 : At(w) = <<g2, o2, b2 * S + k2>>
        BY <1>6, Zenon DEF Numbered
    <2>. HIDE DEF At
    <2>. QED BY <2>1
<1>. HIDE DEF At
<1>8. ASSUME NEW w \in 0 .. n - 1 PROVE At(w) \in MyCells(t)
    BY <1>5, <1>7
<1>9. ASSUME NEW c \in MyCells(t) PROVE \E w \in 0 .. n - 1 : c = At(w)
    <2>1. PICK g \in g0 .. g0 + Gw - 1, o \in o0 .. o0 + Ow - 1,
               b \in i0 .. i0 + Iw - 1, k \in 0 .. S - 1 : c = <<g, o, b * S + k>>
        <3>1. PICK gs, os, is : /\ gs = g0 .. g0 + Gw - 1 /\ os = o0 .. o0 + Ow - 1
                                /\ is = i0 .. i0 + Iw - 1
            OBVIOUS
        <3>2. c \in CellsOf(gs, os, is, S)
            BY <1>5, <3>1 DEF CellsOf
        <3>3. \E g \in gs, o \in os, b \in is, k \in 0 .. S - 1 : c = <<g, o, b * S + k>>
            BY <3>2, CellsHave
        <3>. QED BY <3>1, <3>3
    <2>2. PICK w \in 0 .. n - 1 : At(w) = <<g, o, b * S + k>>
        BY <1>70
    <2>. QED BY <2>1, <2>2
<1>10. ASSUME NEW w \in 0 .. n - 1, NEW x \in 0 .. n - 1, At(w) = At(x)
       PROVE  w = x
    BY <1>7, <1>10
<1>11. CellCount(t) = n /\ \A w : ShareCell(t, w) = At(w)
    BY <1>3, <1>4, <1>6 DEF At
<1>. QED BY <1>8, <1>9, <1>10, <1>11

\* The shares of the cells that the threads of one part of the weights add up.
LEMMA SharesOfCells ==
    ASSUME GridOk, NEW t \in Threads, NEW u \in Threads, t # u
    PROVE  MyShare(t) \subseteq MyCells(t) /\ MyShare(t) \cap MyShare(u) = {}
<1>1. ASSUME NEW s \in Threads
      PROVE  /\ Of(CellCount(s), grid.mb, ithr_mb(s)) \subseteq 0 .. CellCount(s) - 1
             /\ MyShare(s) \subseteq MyCells(s)
    <2>1. CellCount(s) \in Nat \ {0} /\ grid.mb \in Nat \ {0} /\ ithr_mb(s) \in 0 .. grid.mb - 1
        BY SharedCells, ThreadIndex DEF GridOk
    <2>2. Of(CellCount(s), grid.mb, ithr_mb(s)) \subseteq 0 .. CellCount(s) - 1
        BY <2>1, Shares
    <2>. QED BY <2>2, SharedCells, ShareIs
<1>2. SUFFICES ASSUME NEW c \in MyShare(t), c \in MyShare(u) PROVE FALSE
    BY <1>1
<1>3. c \in MyCells(t) /\ c \in MyCells(u)
    BY <1>1, <1>2
<1>4. ithr_g(t) = ithr_g(u) /\ ithr_oc_b(t) = ithr_oc_b(u) /\ ithr_ic_b(t) = ithr_ic_b(u)
    BY <1>3, CellsDiffer
<1>5. ithr_mb(t) # ithr_mb(u)
    BY <1>4, SameIndex
<1>6. CellCount(t) = CellCount(u) /\ \A w : ShareCell(t, w) = ShareCell(u, w)
    BY <1>4 DEF CellCount, ShareCell, Gs, OcBs, IcBs
<1>7. PICK w \in Of(CellCount(t), grid.mb, ithr_mb(t)) : c = ShareCell(t, w)
    BY ShareIs
<1>8. PICK x \in Of(CellCount(u), grid.mb, ithr_mb(u)) : c = ShareCell(u, x)
    BY <1>2, ShareIs
<1>9. w = x
    <2>1. w \in 0 .. CellCount(t) - 1 /\ x \in 0 .. CellCount(t) - 1
        BY <1>1, <1>6
    <2>2. ShareCell(t, w) = ShareCell(t, x)
        BY <1>6, <1>7, <1>8
    <2>. QED BY <2>1, <2>2, SharedCells
<1>10. Of(CellCount(t), grid.mb, ithr_mb(t)) \cap Of(CellCount(t), grid.mb, ithr_mb(u)) = {}
    <2>1. CellCount(t) \in Nat /\ grid.mb \in Nat \ {0} /\ ithr_mb(t) \in 0 .. grid.mb - 1
             /\ ithr_mb(u) \in 0 .. grid.mb - 1
        BY SharedCells, ThreadIndex DEF GridOk
    <2>. QED BY <1>5, <2>1, SharesDiffer
<1>. QED BY <1>6, <1>8, <1>9, <1>10

------------------------------------------------------------------------------
(* Rows of the transposed source                                           *)

RowBase(t) == (ithr_g(t) * jcp.nb_ic + Start(jcp.nb_ic, grid.ic, ithr_ic_b(t))) * jcp.ih

RowCount(t) == Cardinality(IcBs(t)) * jcp.ih

Upwards(b, S) == { b + x : x \in S }

LEMMA UpwardsApart ==
    ASSUME NEW b \in Nat, NEW A, NEW B, A \subseteq Int, B \subseteq Int, A \cap B = {}
    PROVE  Upwards(b, A) \cap Upwards(b, B) = {}
BY DEF Upwards

\* The rows of all blocks of channels of thread t.
OwnRows(t) == UNION { BlockRows(g, ic_b) : g \in Gs(t), ic_b \in IcBs(t) }

\* With a group for each ithr_g the threads of one block of rows deal these out.
LEMMA TrRowsAre ==
    ASSUME GridOk, grid.g = jcp.ngroups, NEW t \in Threads
    PROVE  /\ RowCount(t) \in Nat \ {0} /\ RowBase(t) \in Nat
           /\ MyTrRows(t) = Upwards(RowBase(t), Of(RowCount(t), grid.oc, ithr_oc_b(t)))
<1>1. PICK N \in Nat \ {0}, H \in Nat \ {0}, O \in Nat \ {0}, n \in Nat \ {0}, i0 \in Nat, g0 \in Nat :
         /\ N = jcp.nb_ic /\ H = jcp.ih /\ O = grid.oc /\ n = Cardinality(IcBs(t))
         /\ i0 = Start(jcp.nb_ic, grid.ic, ithr_ic_b(t)) /\ g0 = ithr_g(t)
    <2>1. {jcp.nb_ic, jcp.ih, grid.oc} \subseteq Nat \ {0}
        BY DEF GridOk
    <2>2. ithr_g(t) \in Nat
        BY ThreadIndex
    <2>. QED BY <2>1, <2>2, OwnBounds
<1>2. Cardinality(Gs(t)) = 1 /\ Start(jcp.ngroups, grid.g, ithr_g(t)) = g0
    <2>1. Gs(t) = {ithr_g(t)} /\ Start(jcp.ngroups, grid.g, ithr_g(t)) = ithr_g(t)
        BY OwnBlocks
    <2>. QED BY <1>1, <2>1, FS_Singleton
<1>3. PICK W \in Nat \ {0} : W = n * H
    OBVIOUS
<1>4. 1 * n * H = W
    BY <1>3
<1>5. PICK o \in 0 .. O - 1 : o = ithr_oc_b(t)
    BY <1>1, ThreadIndex
<1>6. PICK s \in Nat, z \in Nat :
         /\ s = Start(W, O, o) /\ z = Size(W, O, o) /\ s + z <= W
         /\ Of(W, O, o) = s .. s + z - 1
    <2>1. /\ Start(W, O, o) \in Nat /\ Size(W, O, o) \in Nat
          /\ Start(W, O, o) + Size(W, O, o) <= W
          /\ Of(W, O, o) = Start(W, O, o) .. Start(W, O, o) + Size(W, O, o) - 1
        BY Shares
    <2>. QED BY <2>1
<1>7. PICK base \in Nat : base = (g0 * N + i0) * H
    OBVIOUS
<1>8. RowCount(t) = W /\ RowBase(t) = base
    BY <1>1, <1>3, <1>7 DEF RowCount, RowBase
<1>9. MyTrRows(t) = LET g == g0 + s \div W
                        ic_b == i0 + ((s \div H) % n)
                        first == (g * N + ic_b) * H + (s % H)
                    IN  first .. first + z - 1
    BY <1>1, <1>2, <1>3, <1>4, <1>5, <1>6 DEF MyTrRows
<1>10. Upwards(base, s .. s + z - 1) = base + s .. (base + s) + z - 1
    <2>1. ASSUME NEW r \in base + s .. (base + s) + z - 1
          PROVE  \E x \in s .. s + z - 1 : r = base + x
        <3>1. r - base \in s .. s + z - 1 /\ r = base + (r - base)
            OBVIOUS
        <3>. QED BY <3>1
    <2>2. ASSUME NEW x \in s .. s + z - 1
          PROVE  base + x \in base + s .. (base + s) + z - 1
        OBVIOUS
    <2>. QED BY <2>1, <2>2 DEF Upwards
<1>100. Upwards(RowBase(t), Of(RowCount(t), grid.oc, ithr_oc_b(t)))
            = Upwards(base, s .. s + z - 1)
    BY <1>1, <1>5, <1>6, <1>8
<1>11. CASE z = 0
    <2>1. PICK first \in Int : MyTrRows(t) = first .. first + z - 1
        <3>1. s \div W \in Nat /\ (s \div H) \in Nat /\ s % H \in Nat
            BY Quotients
        <3>2. (s \div H) % n \in Nat
            BY <3>1, Quotients
        <3>3. PICK a \in Nat, b \in Nat, c \in Nat :
                 a = s \div W /\ b = (s \div H) % n /\ c = s % H
            BY <3>1, <3>2
        <3>4. MyTrRows(t) = ((g0 + a) * N + (i0 + b)) * H + c
                               .. (((g0 + a) * N + (i0 + b)) * H + c) + z - 1
            BY <1>9, <3>3
        <3>5. ((g0 + a) * N + (i0 + b)) * H + c \in Int
            OBVIOUS
        <3>. QED BY <3>4, <3>5
    <2>2. MyTrRows(t) = {} /\ base + s .. (base + s) + z - 1 = {}
        BY <1>11, <2>1
    <2>. QED BY <1>8, <1>10, <1>100, <2>2
<1>12. CASE z # 0
    <2>1. s \in 0 .. W - 1 /\ W = 0 * W + W
        BY <1>6, <1>12
    <2>2. s \div W = 0
        <3>1. s = 0 * W + s
            OBVIOUS
        <3>. QED BY <2>1, <3>1, RowMajorIsUnique
    <2>3. PICK y \in 0 .. n - 1, k \in 0 .. H - 1 : y = s \div H /\ k = s % H /\ s = y * H + k
        <3>1. s \div H \in 0 .. n - 1
            BY <1>3, <2>1, QuotientBelow
        <3>2. s % H \in 0 .. H - 1 /\ s = H * (s \div H) + (s % H)
            BY Quotients
        <3>3. PICK y \in 0 .. n - 1, k \in 0 .. H - 1 : y = s \div H /\ k = s % H
            BY <3>1, <3>2
        <3>4. H * y = y * H
            OBVIOUS
        <3>. QED BY <3>2, <3>3, <3>4
    <2>4. y % n = y
        <3>1. y = 0 * n + y
            OBVIOUS
        <3>. QED BY <3>1, RowMajorIsUnique
    <2>5. MyTrRows(t) = ((g0 + 0) * N + (i0 + y)) * H + k
                           .. (((g0 + 0) * N + (i0 + y)) * H + k) + z - 1
        BY <1>9, <2>2, <2>3, <2>4
    <2>6. ((g0 + 0) * N + (i0 + y)) * H + k = base + s
        <3>1. PICK p \in Nat : p = g0 * N
            OBVIOUS
        <3>2. (p + (i0 + y)) * H = (p + i0) * H + y * H
            OBVIOUS
        <3>. QED BY <1>7, <2>3, <3>1, <3>2
    <2>. QED BY <1>8, <1>10, <1>100, <2>5, <2>6
<1>. QED BY <1>3, <1>7, <1>8, <1>11, <1>12

\* Whose rows these are.
LEMMA BlockOfRow ==
    ASSUME GridOk, NEW g \in 0 .. jcp.ngroups - 1, NEW b \in 0 .. jcp.nb_ic - 1,
           NEW r \in BlockRows(g, b)
    PROVE  /\ r \in TrRows /\ r \div (jcp.nb_ic * jcp.ih) = g
           /\ (r \div jcp.ih) % jcp.nb_ic = b
<1>1. PICK G \in Nat \ {0}, N \in Nat \ {0}, H \in Nat \ {0} :
         G = jcp.ngroups /\ N = jcp.nb_ic /\ H = jcp.ih
    BY DEF GridOk
<1>2. PICK first \in Nat : first = (g * N + b) * H
    BY <1>1
<1>3. r \in first .. first + H - 1
    BY <1>1, <1>2 DEF BlockRows
<1>4. PICK k \in 0 .. H - 1 : r = (g * N + b) * H + k
    <2>1. r - first \in 0 .. H - 1 /\ r = first + (r - first)
        BY <1>3
    <2>. QED BY <1>2, <2>1
<1>5. g \in 0 .. G - 1 /\ b \in 0 .. N - 1
    BY <1>1
<1>6. AreDigits(G, N, H, r, g, b, k)
    BY <1>4, <1>5, DigitsAreUnique
<1>. QED BY <1>1, <1>6 DEF AreDigits, TrRows

LEMMA OwnRowsDiffer ==
    ASSUME GridOk, NEW t \in Threads, NEW u \in Threads,
           ithr_g(t) # ithr_g(u) \/ ithr_ic_b(t) # ithr_ic_b(u)
    PROVE  OwnRows(t) \cap OwnRows(u) = {}
<1>. SUFFICES ASSUME NEW r \in OwnRows(t), r \in OwnRows(u) PROVE FALSE
    OBVIOUS
<1>1. PICK g \in Gs(t), b \in IcBs(t) : r \in BlockRows(g, b)
    BY DEF OwnRows
<1>2. PICK g2 \in Gs(u), b2 \in IcBs(u) : r \in BlockRows(g2, b2)
    BY DEF OwnRows
<1>3. g \in 0 .. jcp.ngroups - 1 /\ b \in 0 .. jcp.nb_ic - 1
         /\ g2 \in 0 .. jcp.ngroups - 1 /\ b2 \in 0 .. jcp.nb_ic - 1
    BY OwnBlocks
<1>4. g = g2 /\ b = b2
    BY <1>1, <1>2, <1>3, BlockOfRow
<1>. QED BY <1>1, <1>2, <1>4, BlocksDiffer

\* The rows of the blocks, counted from the first one on.
LEMMA OwnRowsAre ==
    ASSUME GridOk, grid.g = jcp.ngroups, NEW t \in Threads
    PROVE  OwnRows(t) = Upwards(RowBase(t), 0 .. RowCount(t) - 1)
<1>1. PICK N \in Nat \ {0}, H \in Nat \ {0}, n \in Nat \ {0}, i0 \in Nat, g0 \in Nat :
         /\ N = jcp.nb_ic /\ H = jcp.ih /\ n = Cardinality(IcBs(t)) /\ g0 = ithr_g(t)
         /\ i0 = Start(jcp.nb_ic, grid.ic, ithr_ic_b(t)) /\ IcBs(t) = i0 .. i0 + n - 1
    <2>1. {jcp.nb_ic, jcp.ih, grid.oc} \subseteq Nat \ {0}
        BY DEF GridOk
    <2>2. ithr_g(t) \in Nat
        BY ThreadIndex
    <2>3. \E i0 \in Nat, n \in Nat \ {0} :
             /\ i0 = Start(jcp.nb_ic, grid.ic, ithr_ic_b(t)) /\ n = Cardinality(IcBs(t))
             /\ IcBs(t) = i0 .. i0 + n - 1
        BY OwnBounds
    <2>. QED BY <2>1, <2>2, <2>3
<1>2. Gs(t) = {g0}
    BY <1>1, OwnBlocks
<1>21. IcBs(t) = i0 .. i0 + n - 1
    BY <1>1
<1>22. \A g, b : BlockRows(g, b) = (g * N + b) * H .. ((g * N + b) * H) + H - 1
    BY <1>1 DEF BlockRows
<1>3. PICK base \in Nat : base = RowBase(t) /\ base = (g0 * N + i0) * H
    <2>1. RowBase(t) = (g0 * N + i0) * H
        BY <1>1 DEF RowBase
    <2>2. (g0 * N + i0) * H \in Nat
        OBVIOUS
    <2>. QED BY <2>1, <2>2
<1>4. PICK W \in Nat \ {0} : W = RowCount(t) /\ W = n * H
    BY <1>1 DEF RowCount
<1>5. \A a \in Nat : (g0 * N + (i0 + a)) * H = base + a * H
    <2>1. PICK p \in Nat : p = g0 * N
        OBVIOUS
    <2>2. \A a \in Nat : (p + (i0 + a)) * H = (p + i0) * H + a * H
        OBVIOUS
    <2>. QED BY <1>3, <2>1, <2>2
<1>6. ASSUME NEW r \in OwnRows(t) PROVE \E x \in 0 .. W - 1 : r = base + x
    <2>1. PICK b \in i0 .. i0 + n - 1 : r \in BlockRows(g0, b)
        <3>1. PICK g \in Gs(t), b \in IcBs(t) : r \in BlockRows(g, b)
            BY DEF OwnRows
        <3>. QED BY <1>2, <1>21, <3>1
    <2>2. PICK a \in 0 .. n - 1 : b = i0 + a
        <3>1. b - i0 \in 0 .. n - 1 /\ b = i0 + (b - i0)
            OBVIOUS
        <3>. QED BY <3>1
    <2>3. PICK p \in Nat : p = a * H
        OBVIOUS
    <2>4. r \in base + p .. (base + p) + H - 1
        <3>1. (g0 * N + (i0 + a)) * H = base + p
            BY <1>5, <2>3
        <3>. QED BY <1>22, <2>1, <2>2, <3>1
    <2>5. p + H <= W
        <3>1. (a + 1) * H <= n * H
            BY ProductsGrow
        <3>2. (a + 1) * H = a * H + H
            OBVIOUS
        <3>. QED BY <1>4, <2>3, <3>1, <3>2
    <2>6. r - base \in 0 .. W - 1 /\ r = base + (r - base)
        BY <2>4, <2>5
    <2>. QED BY <2>6
<1>7. ASSUME NEW x \in 0 .. W - 1 PROVE base + x \in OwnRows(t)
    <2>1. PICK a \in 0 .. n - 1, k \in 0 .. H - 1 : x = a * H + k
        <3>1. x \in 0 .. n * H - 1 /\ x \in Nat
            BY <1>4
        <3>2. x \div H \in 0 .. n - 1
            BY <3>1, QuotientBelow
        <3>3. x % H \in 0 .. H - 1 /\ x = H * (x \div H) + (x % H)
            BY <3>1, Quotients
        <3>4. PICK a \in 0 .. n - 1, k \in 0 .. H - 1 : a = x \div H /\ k = x % H
            BY <3>2, <3>3
        <3>5. H * a = a * H
            OBVIOUS
        <3>. QED BY <3>3, <3>4, <3>5
    <2>2. PICK p \in Nat : p = a * H
        OBVIOUS
    <2>3. BlockRows(g0, i0 + a) = base + p .. (base + p) + H - 1
        <3>1. (g0 * N + (i0 + a)) * H = base + p
            BY <1>5, <2>2
        <3>. QED BY <1>22, <3>1
    <2>4. base + x \in BlockRows(g0, i0 + a)
        BY <2>1, <2>2, <2>3
    <2>5. i0 + a \in IcBs(t) /\ g0 \in Gs(t)
        BY <1>2, <1>21
    <2>. QED BY <2>4, <2>5 DEF OwnRows
<1>. QED BY <1>3, <1>4, <1>6, <1>7 DEF Upwards

\* Mates transpose all rows of their blocks, each of them once.
LEMMA MatesTranspose ==
    ASSUME GridOk, grid.g = jcp.ngroups, NEW t \in Threads
    PROVE  /\ MyTrRows(t) \subseteq OwnRows(t)
           /\ \A r \in OwnRows(t) : \E o \in 0 .. grid.oc - 1 :
                 r \in Upwards(RowBase(t), Of(RowCount(t), grid.oc, o))
<1>1. RowCount(t) \in Nat \ {0} /\ RowBase(t) \in Nat
         /\ grid.oc \in Nat \ {0} /\ ithr_oc_b(t) \in 0 .. grid.oc - 1
    BY TrRowsAre, ThreadIndex DEF GridOk
<1>2. PICK W \in Nat \ {0}, base \in Nat, O \in Nat \ {0} :
         W = RowCount(t) /\ base = RowBase(t) /\ O = grid.oc
    BY <1>1
<1>3. \A o \in 0 .. O - 1 : Of(W, O, o) \subseteq 0 .. W - 1
    BY SharesArePartition DEF Of
<1>4. \A x \in 0 .. W - 1 : \E o \in 0 .. O - 1 : x \in Of(W, O, o)
    BY SharesArePartition DEF Of
<1>5. MyTrRows(t) = Upwards(base, Of(W, O, ithr_oc_b(t))) /\ OwnRows(t) = Upwards(base, 0 .. W - 1)
    BY <1>2, TrRowsAre, OwnRowsAre
<1>6. MyTrRows(t) \subseteq OwnRows(t)
    BY <1>1, <1>2, <1>3, <1>5 DEF Upwards
<1>7. ASSUME NEW r \in OwnRows(t)
      PROVE  \E o \in 0 .. O - 1 : r \in Upwards(base, Of(W, O, o))
    <2>1. PICK x \in 0 .. W - 1 : r = base + x
        BY <1>5 DEF Upwards
    <2>. QED BY <1>4, <2>1 DEF Upwards
<1>. QED BY <1>2, <1>6, <1>7

\* Of the threads of one ithr_mb nobody transposes what another one does, and
\* only mates what it reads.
LEMMA TrRowsDiffer ==
    ASSUME GridOk, NEW t \in Threads, NEW u \in Threads, t # u, ithr_mb(t) = ithr_mb(u)
    PROVE  /\ MyTrRows(t) \cap MyTrRows(u) = {}
           /\ ithr_but_oc(t) # ithr_but_oc(u) => MyTrRows(t) \cap OwnRows(u) = {}
<1>1. nthr # 1
    <2>1. CASE nthr = 1
        BY <2>1 DEF Threads
    <2>. QED BY <2>1
<1>2. grid.g = jcp.ngroups
    BY <1>1 DEF GridOk
<1>3. MyTrRows(t) \subseteq OwnRows(t) /\ MyTrRows(u) \subseteq OwnRows(u)
    BY <1>2, MatesTranspose
<1>4. CASE ithr_but_oc(t) # ithr_but_oc(u)
    <2>1. ithr_g(t) # ithr_g(u) \/ ithr_ic_b(t) # ithr_ic_b(u)
        BY <1>4, MatesShare
    <2>2. OwnRows(t) \cap OwnRows(u) = {}
        BY <2>1, OwnRowsDiffer
    <2>. QED BY <1>3, <2>2
<1>5. CASE ithr_but_oc(t) = ithr_but_oc(u)
    <2>1. ithr_g(t) = ithr_g(u) /\ ithr_ic_b(t) = ithr_ic_b(u)
        BY <1>5, MatesShare
    <2>2. ithr_oc_b(t) # ithr_oc_b(u)
        BY <2>1, SameIndex
    <2>3. RowBase(t) = RowBase(u) /\ RowCount(t) = RowCount(u)
        BY <2>1 DEF RowBase, RowCount, IcBs
    <2>4. PICK W \in Nat \ {0}, base \in Nat, O \in Nat \ {0} :
             W = RowCount(t) /\ base = RowBase(t) /\ O = grid.oc
        BY <1>2, TrRowsAre DEF GridOk
    <2>5. ithr_oc_b(t) \in 0 .. O - 1 /\ ithr_oc_b(u) \in 0 .. O - 1
        BY <2>4, ThreadIndex
    <2>6. Of(W, O, ithr_oc_b(t)) \cap Of(W, O, ithr_oc_b(u)) = {}
        BY <2>2, <2>5, SharesDiffer
    <2>7. MyTrRows(t) = Upwards(base, Of(W, O, ithr_oc_b(t)))
             /\ MyTrRows(u) = Upwards(base, Of(W, O, ithr_oc_b(u)))
        BY <1>2, <2>3, <2>4, TrRowsAre
    <2>8. Of(W, O, ithr_oc_b(t)) \subseteq Int /\ Of(W, O, ithr_oc_b(u)) \subseteq Int
        <3>1. \A o : Of(W, O, o) \subseteq Int
            BY DEF Of
        <3>. QED BY <3>1
    <2>9. Upwards(base, Of(W, O, ithr_oc_b(t))) \cap Upwards(base, Of(W, O, ithr_oc_b(u))) = {}
        BY <2>6, <2>8, UpwardsApart
    <2>. QED BY <1>5, <2>7, <2>9
<1>. QED BY <1>4, <1>5

------------------------------------------------------------------------------
(* Where the threads are                                                   *)

Early == {"images", "before", "transpose", "after", "kernel"}
Late == {"add", "bias barrier", "bias", "done"}
Places == Early \cup {"partial", "end of section"} \cup Late
Inside == {"transpose", "after"}

Came(c, t) == entered[<<c, t>>]
Went(c, t) == left[<<c, t>>]

BarriersType == /\ pc \in [Threads -> Places]
                /\ entered \in [Contexts \X Threads -> Nat]
                /\ left \in [Contexts \X Threads -> Nat]

PlaceOk(t) ==
    /\ pc[t] \in {"before", "after"} => grid.oc > 1
    /\ pc[t] \in {"before", "transpose", "after"} => Transposes
    /\ pc[t] \in {"partial", "bias barrier"} => sync /\ grid.mb > 1
    /\ pc[t] = "end of section" => ~sync
    /\ pc[t] = "add" => grid.mb > 1

\* Mates go through their barrier twice for an image.
ImageBarrier(t) ==
    LET c == ithr_but_oc(t) IN
    /\ Came(c, t) = Went(c, t) \/ (Came(c, t) = Went(c, t) + 1 /\ pc[t] \in {"before", "after"})
    /\ Went(c, t) % 2 = IF pc[t] \in Inside /\ grid.oc > 1 THEN 1 ELSE 0

MatesCame(t) == \A u \in TrMates(t) : Went(ithr_but_oc(t), t) <= Came(ithr_but_oc(u), u)

SumBarrier(t) ==
    /\ pc[t] \in Early => Came(WeiReduction, t) = 0
    /\ pc[t] = "partial" => Came(WeiReduction, t) \in {0, 1} /\ Went(WeiReduction, t) = 0
    /\ pc[t] \in Late /\ sync /\ grid.mb > 1 => Went(WeiReduction, t) = 1

AllCame(t) == \A u \in Threads : Went(WeiReduction, t) <= Came(WeiReduction, u)

Sections == ~sync => \/ \A t \in Threads : pc[t] \in Late
                     \/ \A t \in Threads : pc[t] \notin Late

Control == /\ Given /\ BarriersType /\ Sections
           /\ \A t \in Threads : /\ PlaceOk(t) /\ ImageBarrier(t) /\ MatesCame(t)
                                 /\ SumBarrier(t) /\ AllCame(t)

\* What is fixed.
LEMMA StaysGiven ==
    ASSUME UNCHANGED static
    PROVE  /\ Threads' = Threads /\ Contexts' = Contexts /\ Given' = Given
           /\ Transposes' = Transposes /\ sync' = sync /\ grid' = grid /\ jcp' = jcp
           /\ \A t : ithr_but_oc(t)' = ithr_but_oc(t)
           /\ \A t : TrMates(t)' = TrMates(t)
<1>1. grid' = grid /\ jcp' = jcp /\ sync' = sync
    BY DEF static
<1>2. Threads' = Threads /\ Contexts' = Contexts
    BY <1>1 DEF Threads, Contexts, nthr
<1>3. \A t : ithr_but_oc(t)' = ithr_but_oc(t)
    BY <1>1 DEF ithr_but_oc, ithr_mb, ithr_g, ithr_ic_b
<1>4. \A t : TrMates(t)' = TrMates(t)
    BY <1>2, <1>3 DEF TrMates
<1>5. Given' = Given
    BY <1>1 DEF Given
<1>6. Transposes' = Transposes
    BY <1>1 DEF Transposes
<1>. QED BY <1>1, <1>2, <1>3, <1>4, <1>5, <1>6

LEMMA ContextsDiffer ==
    ASSUME GridOk, NEW t \in Threads
    PROVE  /\ WeiReduction \in Contexts /\ ithr_but_oc(t) \in Contexts /\ Team \in Contexts
           /\ ithr_but_oc(t) # WeiReduction /\ ithr_but_oc(t) # Team /\ Team # WeiReduction
<1>1. ithr_but_oc(t) \in Contexts /\ ithr_but_oc(t) >= 0
    BY ButOc
<1>2. Contexts = -2 .. (nthr \div grid.oc) - 1
    BY DEF Contexts, Team
<1>3. PICK n \in Nat : n = (nthr \div grid.oc)
    <2>1. nthr \in Nat /\ grid.oc \in Nat \ {0}
        BY DEF GridOk, nthr
    <2>. QED BY <2>1, Quotients
<1>. QED BY <1>1, <1>2, <1>3 DEF WeiReduction, Team

\* Thread t enters barrier c, and leaves it after threads m have entered it.
Enters(c, t) ==
    /\ Came(c, t) = Went(c, t)
    /\ entered' \in [Contexts \X Threads -> Nat]
    /\ \A d \in Contexts, u \in Threads :
          entered'[<<d, u>>] = IF d = c /\ u = t THEN Came(c, t) + 1 ELSE Came(d, u)
    /\ UNCHANGED <<static, pc, left, unit, memory>>

Leaves(c, t, m, to) ==
    /\ Went(c, t) < Came(c, t)
    /\ \A u \in m : Came(c, t) <= Came(c, u)
    /\ left' \in [Contexts \X Threads -> Nat]
    /\ \A d \in Contexts, u \in Threads :
          left'[<<d, u>>] = IF d = c /\ u = t THEN Went(c, t) + 1 ELSE Went(d, u)
    /\ pc' = [pc EXCEPT ![t] = to]
    /\ UNCHANGED <<static, entered, unit, memory>>

LEMMA Arriving ==
    ASSUME BarriersType, NEW t \in Threads, Arrive(t), Waiting(t).c \in Contexts
    PROVE  Enters(Waiting(t).c, t)
<1>1. PICK m \in {{Waiting(t).c} \X Waiting(t).m} : Bar(m)!Enter(<<Waiting(t).c, t>>)
    BY DEF Arrive
<1>2. PICK c \in Contexts : c = Waiting(t).c
    OBVIOUS
<1>3. /\ left[<<c, t>>] = entered[<<c, t>>]
      /\ entered' = [entered EXCEPT ![<<c, t>>] = @ + 1] /\ UNCHANGED left
    BY <1>1, <1>2 DEF Bar!Enter
<1>4. UNCHANGED <<static, pc, unit, memory>>
    BY DEF Arrive
<1>5. entered' \in [Contexts \X Threads -> Nat]
    BY <1>3 DEF BarriersType
<1>6. ASSUME NEW d \in Contexts, NEW u \in Threads
      PROVE  entered'[<<d, u>>] = IF d = c /\ u = t THEN Came(c, t) + 1 ELSE Came(d, u)
    BY <1>3 DEF BarriersType, Came
<1>. QED BY <1>2, <1>3, <1>4, <1>5, <1>6 DEF Came, Went, Enters

LEMMA Passing ==
    ASSUME BarriersType, NEW t \in Threads, Pass(t), Waiting(t).c \in Contexts
    PROVE  Leaves(Waiting(t).c, t, Waiting(t).m, Waiting(t).to)
<1>1. PICK m \in {{Waiting(t).c} \X Waiting(t).m} : Bar(m)!Leave(<<Waiting(t).c, t>>)
    BY DEF Pass
<1>2. PICK c \in Contexts : c = Waiting(t).c
    OBVIOUS
<1>3. /\ left[<<c, t>>] < entered[<<c, t>>]
      /\ \A x \in {c} \X Waiting(t).m : entered[<<c, t>>] <= entered[x]
      /\ left' = [left EXCEPT ![<<c, t>>] = @ + 1] /\ UNCHANGED entered
    BY <1>1, <1>2 DEF Bar!Leave
<1>4. UNCHANGED <<static, unit, memory>> /\ pc' = [pc EXCEPT ![t] = Waiting(t).to]
    BY DEF Pass, Goto
<1>5. left' \in [Contexts \X Threads -> Nat]
    BY <1>3 DEF BarriersType
<1>6. ASSUME NEW d \in Contexts, NEW u \in Threads
      PROVE  left'[<<d, u>>] = IF d = c /\ u = t THEN Went(c, t) + 1 ELSE Went(d, u)
    BY <1>3 DEF BarriersType, Went
<1>7. \A u \in Waiting(t).m : entered[<<c, t>>] <= entered[<<c, u>>]
    <2>1. \A u \in Waiting(t).m : <<c, u>> \in {c} \X Waiting(t).m
        OBVIOUS
    <2>. QED BY <1>3, <2>1
<1>. QED BY <1>2, <1>3, <1>4, <1>5, <1>6, <1>7 DEF Came, Went, Leaves

LEMMA WaitingIs ==
    ASSUME NEW t \in Threads
    PROVE  /\ pc[t] = "before" =>
                 /\ Waiting(t).c = ithr_but_oc(t) /\ Waiting(t).m = TrMates(t)
                 /\ Waiting(t).to = "transpose"
           /\ pc[t] = "after" =>
                 /\ Waiting(t).c = ithr_but_oc(t) /\ Waiting(t).m = TrMates(t)
                 /\ Waiting(t).to = "kernel"
           /\ pc[t] = "partial" =>
                 /\ Waiting(t).c = WeiReduction /\ Waiting(t).m = Threads
                 /\ Waiting(t).to = "add"
           /\ pc[t] = "bias barrier" =>
                 /\ Waiting(t).c = Team /\ Waiting(t).m = Threads
                 /\ Waiting(t).to = "bias"
<1>1. ASSUME pc[t] = "before"
      PROVE  /\ Waiting(t).c = ithr_but_oc(t) /\ Waiting(t).m = TrMates(t)
             /\ Waiting(t).to = "transpose"
    BY <1>1 DEF Waiting
<1>2. ASSUME pc[t] = "after"
      PROVE  /\ Waiting(t).c = ithr_but_oc(t) /\ Waiting(t).m = TrMates(t)
             /\ Waiting(t).to = "kernel"
    BY <1>2 DEF Waiting
<1>3. ASSUME pc[t] = "partial"
      PROVE  /\ Waiting(t).c = WeiReduction /\ Waiting(t).m = Threads
             /\ Waiting(t).to = "add"
    BY <1>3 DEF Waiting
<1>4. ASSUME pc[t] = "bias barrier"
      PROVE  /\ Waiting(t).c = Team /\ Waiting(t).m = Threads
             /\ Waiting(t).to = "bias"
    BY <1>4 DEF Waiting
<1>. QED BY <1>1, <1>2, <1>3, <1>4

LEMMA ControlInit == Init => Control
<1>. SUFFICES ASSUME Init PROVE Control
    OBVIOUS
<1>1. Given /\ GridOk
    <2>1. Given
        BY DEF Init, Given
    <2>. QED BY <2>1, GridIsOk
<1>2. BarriersType
    BY DEF Init, BarriersType, Places, Early
<1>3. Sections
    BY DEF Init, Sections, Late
<1>4. ASSUME NEW t \in Threads, NEW c \in Contexts
      PROVE  pc[t] = "images" /\ Came(c, t) = 0 /\ Went(c, t) = 0
    BY DEF Init, Came, Went
<1>5. ASSUME NEW t \in Threads
      PROVE  PlaceOk(t) /\ ImageBarrier(t) /\ MatesCame(t) /\ SumBarrier(t) /\ AllCame(t)
    <2>1. WeiReduction \in Contexts /\ \A u \in Threads : ithr_but_oc(u) \in Contexts
        BY <1>1, ContextsDiffer
    <2>2. PlaceOk(t)
        BY <1>4, <2>1 DEF PlaceOk
    <2>3. ImageBarrier(t)
        <3>1. 0 % 2 = 0
            OBVIOUS
        <3>. QED BY <1>4, <2>1, <3>1 DEF ImageBarrier, Inside
    <2>4. MatesCame(t)
        BY <1>4, <2>1 DEF MatesCame, TrMates
    <2>5. SumBarrier(t)
        BY <1>4, <2>1 DEF SumBarrier, Late
    <2>6. AllCame(t)
        BY <1>4, <2>1 DEF AllCame
    <2>. QED BY <2>2, <2>3, <2>4, <2>5, <2>6
<1>. QED BY <1>1, <1>2, <1>3, <1>5 DEF Control

\* A thread that enters its barrier has left it as often.
LEMMA ControlArrive ==
    ASSUME Control, NEW t \in Threads, Arrive(t)
    PROVE  Control'
<1>1. GridOk /\ BarriersType
    BY GridIsOk DEF Control
<1>2. pc[t] \in {"before", "after", "partial", "bias barrier"}
    BY DEF Arrive, InBarrier
<1>3. PICK c \in Contexts :
         /\ c = Waiting(t).c
         /\ pc[t] \in {"before", "after"} => c = ithr_but_oc(t)
         /\ pc[t] = "partial" => c = WeiReduction
         /\ pc[t] = "bias barrier" => c = Team
    BY <1>1, <1>2, WaitingIs, ContextsDiffer
<1>4. /\ Came(c, t) = Went(c, t)
      /\ entered' \in [Contexts \X Threads -> Nat]
      /\ \A d \in Contexts, u \in Threads :
            entered'[<<d, u>>] = IF d = c /\ u = t THEN Came(c, t) + 1 ELSE Came(d, u)
      /\ UNCHANGED <<static, pc, left, unit, memory>>
    <2>1. Enters(c, t)
        BY <1>1, <1>3, Arriving
    <2>. QED BY <2>1 DEF Enters
<1>5. /\ Threads' = Threads /\ Contexts' = Contexts /\ Given' = Given
      /\ Transposes' = Transposes /\ sync' = sync /\ grid' = grid /\ jcp' = jcp
      /\ \A u : ithr_but_oc(u)' = ithr_but_oc(u)
      /\ \A u : TrMates(u)' = TrMates(u)
    BY <1>4, StaysGiven
<1>6. pc' = pc /\ left' = left
    BY <1>4
<1>7. \A u \in Threads : /\ ithr_but_oc(u) \in Contexts /\ WeiReduction \in Contexts
                         /\ ithr_but_oc(u) # WeiReduction /\ ithr_but_oc(u) # Team
                         /\ Team # WeiReduction
    BY <1>1, ContextsDiffer
<1>8. \A d \in Contexts, u \in Threads :
         /\ Came(d, u)' = IF d = c /\ u = t THEN Came(c, t) + 1 ELSE Came(d, u)
         /\ Went(d, u)' = Went(d, u) /\ Went(d, u) \in Nat /\ Came(d, u) \in Nat
    BY <1>1, <1>4, <1>6 DEF Came, Went, BarriersType
<1>9. BarriersType' /\ Given' /\ Sections'
    BY <1>1, <1>4, <1>5, <1>6 DEF Control, BarriersType, Sections
<1>10. ASSUME NEW u \in Threads
       PROVE  PlaceOk(u)' /\ ImageBarrier(u)' /\ MatesCame(u)' /\ SumBarrier(u)' /\ AllCame(u)'
    <2>0. PlaceOk(u) /\ ImageBarrier(u) /\ MatesCame(u) /\ SumBarrier(u) /\ AllCame(u)
        BY DEF Control
    <2>1. PlaceOk(u)'
        BY <2>0, <1>5, <1>6 DEF PlaceOk
    <2>2. ImageBarrier(u)'
        <3>1. CASE u = t /\ c = ithr_but_oc(u)
            <4>1. pc[t] \in {"before", "after"}
                BY <1>2, <1>3, <1>7, <3>1
            <4>. QED BY <2>0, <1>4, <1>5, <1>6, <1>7, <1>8, <3>1, <4>1 DEF ImageBarrier
        <3>2. CASE ~(u = t /\ c = ithr_but_oc(u))
            <4>1. Came(ithr_but_oc(u), u)' = Came(ithr_but_oc(u), u)
                    /\ Went(ithr_but_oc(u), u)' = Went(ithr_but_oc(u), u)
                BY <1>5, <1>7, <1>8, <3>2
            <4>. QED BY <2>0, <1>5, <1>6, <4>1 DEF ImageBarrier
        <3>. QED BY <3>1, <3>2
    <2>3. MatesCame(u)'
        <3>1. \A v \in TrMates(u) : v \in Threads /\ Went(ithr_but_oc(u), u) <= Came(ithr_but_oc(v), v)
            BY <2>0 DEF MatesCame, TrMates
        <3>2. \A v \in TrMates(u) : Went(ithr_but_oc(u), u)' <= Came(ithr_but_oc(v), v)'
            BY <1>5, <1>7, <1>8, <3>1
        <3>. QED BY <1>5, <3>2 DEF MatesCame
    <2>4. SumBarrier(u)'
        <3>1. CASE u = t /\ c = WeiReduction
            <4>1. pc[t] = "partial"
                BY <1>2, <1>3, <1>7, <3>1
            <4>2. Came(WeiReduction, u)' = Went(WeiReduction, u) + 1
                    /\ Went(WeiReduction, u)' = Went(WeiReduction, u)
                BY <1>4, <1>8, <3>1
            <4>. QED BY <2>0, <1>5, <1>6, <3>1, <4>1, <4>2 DEF SumBarrier, Early, Late
        <3>2. CASE ~(u = t /\ c = WeiReduction)
            <4>1. Came(WeiReduction, u)' = Came(WeiReduction, u)
                    /\ Went(WeiReduction, u)' = Went(WeiReduction, u)
                BY <1>7, <1>8, <3>2
            <4>. QED BY <2>0, <1>5, <1>6, <4>1 DEF SumBarrier
        <3>. QED BY <3>1, <3>2
    <2>5. AllCame(u)'
        <3>1. \A v \in Threads : Went(WeiReduction, u)' <= Came(WeiReduction, v)'
            BY <2>0, <1>7, <1>8 DEF AllCame
        <3>. QED BY <1>5, <3>1 DEF AllCame
    <2>. QED BY <2>1, <2>2, <2>3, <2>4, <2>5
<1>. QED BY <1>5, <1>9, <1>10 DEF Control

LEMMA ParityTurns ==
    ASSUME NEW n \in Nat
    PROVE  (n % 2 = 0 => (n + 1) % 2 = 1) /\ (n % 2 = 1 => (n + 1) % 2 = 0)
OBVIOUS

\* A thread that leaves its barrier has been waited for by all who share it.
LEMMA ControlPass ==
    ASSUME Control, NEW t \in Threads, Pass(t)
    PROVE  Control'
<1>1. GridOk /\ BarriersType
    BY GridIsOk DEF Control
<1>2. pc[t] \in {"before", "after", "partial", "bias barrier"}
    BY DEF Pass, InBarrier
<1>3. PICK c \in Contexts, to \in {"transpose", "kernel", "add", "bias"}, m \in SUBSET Threads :
         /\ c = Waiting(t).c /\ to = Waiting(t).to /\ m = Waiting(t).m
         /\ pc[t] = "before" => c = ithr_but_oc(t) /\ m = TrMates(t) /\ to = "transpose"
         /\ pc[t] = "after" => c = ithr_but_oc(t) /\ m = TrMates(t) /\ to = "kernel"
         /\ pc[t] = "partial" => c = WeiReduction /\ m = Threads /\ to = "add"
         /\ pc[t] = "bias barrier" => c = Team /\ m = Threads /\ to = "bias"
    <2>1. /\ ithr_but_oc(t) \in Contexts /\ WeiReduction \in Contexts
          /\ Team \in Contexts /\ TrMates(t) \in SUBSET Threads
        BY <1>1, ContextsDiffer DEF TrMates
    <2>2. /\ Waiting(t).c \in Contexts /\ Waiting(t).m \in SUBSET Threads
          /\ Waiting(t).to \in {"transpose", "kernel", "add", "bias"}
        BY <1>2, <2>1, WaitingIs
    <2>. QED BY <2>2, WaitingIs
<1>4. /\ Went(c, t) < Came(c, t)
      /\ \A u \in m : Came(c, t) <= Came(c, u)
      /\ left' \in [Contexts \X Threads -> Nat]
      /\ \A d \in Contexts, u \in Threads :
            left'[<<d, u>>] = IF d = c /\ u = t THEN Went(c, t) + 1 ELSE Went(d, u)
      /\ pc' = [pc EXCEPT ![t] = to]
      /\ UNCHANGED <<static, entered, unit, memory>>
    <2>1. Leaves(c, t, m, to)
        BY <1>1, <1>3, Passing
    <2>. QED BY <2>1 DEF Leaves
<1>5. /\ Threads' = Threads /\ Contexts' = Contexts /\ Given' = Given
      /\ Transposes' = Transposes /\ sync' = sync /\ grid' = grid /\ jcp' = jcp
      /\ \A u : ithr_but_oc(u)' = ithr_but_oc(u)
      /\ \A u : TrMates(u)' = TrMates(u)
    BY <1>4, StaysGiven
<1>6. entered' = entered /\ pc' \in [Threads -> Places]
      /\ \A u \in Threads : pc'[u] = IF u = t THEN to ELSE pc[u]
    BY <1>1, <1>4 DEF BarriersType, Places, Early, Late
<1>7. \A u \in Threads : /\ ithr_but_oc(u) \in Contexts /\ WeiReduction \in Contexts
                         /\ ithr_but_oc(u) # WeiReduction /\ ithr_but_oc(u) # Team
                         /\ Team # WeiReduction
    BY <1>1, ContextsDiffer
<1>8. \A d \in Contexts, u \in Threads :
         /\ Went(d, u)' = IF d = c /\ u = t THEN Went(c, t) + 1 ELSE Went(d, u)
         /\ Came(d, u)' = Came(d, u) /\ Went(d, u) \in Nat /\ Came(d, u) \in Nat
    BY <1>1, <1>4, <1>6 DEF Came, Went, BarriersType
<1>9. BarriersType' /\ Given'
    BY <1>1, <1>4, <1>5, <1>6 DEF Control, BarriersType
<1>10. /\ PlaceOk(t) /\ ImageBarrier(t) /\ MatesCame(t) /\ SumBarrier(t) /\ AllCame(t)
    BY DEF Control
<1>11. Sections'
    <2>1. pc[t] \in {"partial", "bias barrier"} => sync
        BY <1>10 DEF PlaceOk
    <2>2. CASE sync
        BY <1>5, <2>2 DEF Sections
    <2>3. CASE ~sync
        <3>1. pc[t] \in {"before", "after"} /\ to \in {"transpose", "kernel"}
            BY <1>2, <1>3, <2>1, <2>3
        <3>2. \A u \in Threads : pc[u] \notin Late
            BY <2>3, <3>1 DEF Control, Sections, Late
        <3>3. \A u \in Threads : pc'[u] \notin Late
            BY <1>6, <3>1, <3>2 DEF Late
        <3>. QED BY <1>5, <3>3 DEF Sections
    <2>. QED BY <2>2, <2>3
<1>12. ASSUME NEW u \in Threads
       PROVE  PlaceOk(u)' /\ ImageBarrier(u)' /\ MatesCame(u)' /\ SumBarrier(u)' /\ AllCame(u)'
    <2>0. PlaceOk(u) /\ ImageBarrier(u) /\ MatesCame(u) /\ SumBarrier(u) /\ AllCame(u)
        BY DEF Control
    <2>1. PlaceOk(u)'
        BY <1>2, <1>3, <1>5, <1>6, <1>10, <2>0 DEF PlaceOk
    <2>2. ImageBarrier(u)'
        <3>1. CASE u = t /\ pc[t] = "before"
            <4>1. /\ Went(c, t)' = Went(c, t) + 1 /\ Came(c, t)' = Came(c, t)
                  /\ Came(c, t) = Went(c, t) + 1 /\ Went(c, t) % 2 = 0 /\ Went(c, t) \in Nat
                  /\ c = ithr_but_oc(u)
                BY <1>3, <1>4, <1>8, <1>10, <3>1 DEF ImageBarrier, Inside
            <4>2. Went(c, t)' % 2 = 1
                BY <4>1, ParityTurns
            <4>3. pc'[u] = "transpose" /\ grid.oc > 1
                BY <1>3, <1>6, <1>10, <3>1 DEF PlaceOk
            <4>. QED BY <1>5, <3>1, <4>1, <4>2, <4>3 DEF ImageBarrier, Inside
        <3>2. CASE u = t /\ pc[t] = "after"
            <4>1. /\ Went(c, t)' = Went(c, t) + 1 /\ Came(c, t)' = Came(c, t)
                  /\ Came(c, t) = Went(c, t) + 1 /\ Went(c, t) % 2 = 1 /\ Went(c, t) \in Nat
                  /\ c = ithr_but_oc(u)
                BY <1>3, <1>4, <1>8, <1>10, <3>2 DEF ImageBarrier, Inside, PlaceOk
            <4>2. Went(c, t)' % 2 = 0
                BY <4>1, ParityTurns
            <4>3. pc'[u] = "kernel"
                BY <1>3, <1>6, <3>2
            <4>. QED BY <1>5, <3>2, <4>1, <4>2, <4>3 DEF ImageBarrier, Inside
        <3>3. CASE ~(u = t /\ pc[t] \in {"before", "after"})
            <4>1. Came(ithr_but_oc(u), u)' = Came(ithr_but_oc(u), u)
                    /\ Went(ithr_but_oc(u), u)' = Went(ithr_but_oc(u), u)
                BY <1>2, <1>3, <1>5, <1>7, <1>8, <3>3
            <4>2. pc'[u] = pc[u] \/ ({pc[u], pc'[u]} \cap {"before", "after", "transpose"} = {})
                BY <1>2, <1>3, <1>6, <3>3
            <4>. QED BY <1>5, <2>0, <4>1, <4>2 DEF ImageBarrier, Inside
        <3>. QED BY <1>2, <3>1, <3>2, <3>3
    <2>3. MatesCame(u)'
        <3>1. \A v \in TrMates(u) : /\ v \in Threads /\ ithr_but_oc(v) = ithr_but_oc(u)
                                    /\ Went(ithr_but_oc(u), u) <= Came(ithr_but_oc(v), v)
            BY <2>0 DEF MatesCame, TrMates
        <3>2. ASSUME NEW v \in TrMates(u)
              PROVE  Went(ithr_but_oc(u), u)' <= Came(ithr_but_oc(v), v)'
            <4>1. CASE u = t /\ c = ithr_but_oc(u)
                <5>1. pc[t] \in {"before", "after"}
                    BY <1>2, <1>3, <1>7, <4>1
                <5>2. Came(c, t) <= Came(c, v)
                    BY <1>3, <1>4, <3>2, <4>1, <5>1
                <5>3. /\ Went(c, t) + 1 <= Came(c, t) /\ Came(c, t) \in Nat /\ Went(c, t) \in Nat
                      /\ v \in Threads /\ Came(c, v) \in Nat /\ Went(c, t)' = Went(c, t) + 1
                      /\ Came(c, v)' = Came(c, v)
                    BY <1>4, <1>8, <3>1, <3>2
                <5>. QED BY <1>5, <3>1, <3>2, <4>1, <5>2, <5>3
            <4>2. CASE ~(u = t /\ c = ithr_but_oc(u))
                BY <1>5, <1>7, <1>8, <3>1, <3>2, <4>2
            <4>. QED BY <4>1, <4>2
        <3>. QED BY <1>5, <3>2 DEF MatesCame
    <2>4. SumBarrier(u)'
        <3>1. CASE u = t /\ c = WeiReduction
            <4>1. pc[t] = "partial" /\ pc'[t] = "add"
                BY <1>2, <1>3, <1>6, <1>7, <3>1
            <4>2. Went(WeiReduction, u)' = 0 + 1
                BY <1>7, <1>8, <1>10, <3>1, <4>1 DEF SumBarrier
            <4>. QED BY <1>5, <3>1, <4>1, <4>2 DEF SumBarrier, Early, Late
        <3>2. CASE ~(u = t /\ c = WeiReduction)
            <4>1. Came(WeiReduction, u)' = Came(WeiReduction, u)
                    /\ Went(WeiReduction, u)' = Went(WeiReduction, u)
                BY <1>7, <1>8, <3>2
            <4>2. \/ pc'[u] = pc[u] \/ (pc[u] \in Early /\ pc'[u] \in Early)
                  \/ (pc[u] \in Late /\ pc'[u] \in Late)
                BY <1>2, <1>3, <1>6, <3>2 DEF Early, Late
            <4>3. pc'[u] \in Early => pc'[u] # "partial" /\ pc'[u] \notin Late
                BY DEF Early, Late
            <4>4. pc'[u] \in Late => pc'[u] # "partial"
                BY DEF Late
            <4>. QED BY <1>5, <2>0, <4>1, <4>2, <4>3, <4>4 DEF SumBarrier
        <3>. QED BY <3>1, <3>2
    <2>5. AllCame(u)'
        <3>2. ASSUME NEW v \in Threads
              PROVE  Went(WeiReduction, u)' <= Came(WeiReduction, v)'
            <4>0. Went(WeiReduction, u) <= Came(WeiReduction, v)
                BY <2>0 DEF AllCame
            <4>1. CASE u = t /\ c = WeiReduction
                <5>1. pc[t] = "partial"
                    BY <1>2, <1>3, <1>7, <4>1
                <5>2. Came(c, t) <= Came(c, v)
                    BY <1>3, <1>4, <5>1
                <5>3. /\ Went(c, t) + 1 <= Came(c, t) /\ Came(c, t) \in Nat /\ Went(c, t) \in Nat
                      /\ Came(c, v) \in Nat /\ Went(c, t)' = Went(c, t) + 1
                      /\ Came(c, v)' = Came(c, v)
                    BY <1>4, <1>8
                <5>. QED BY <4>1, <5>2, <5>3
            <4>2. CASE ~(u = t /\ c = WeiReduction)
                BY <1>7, <1>8, <4>0, <4>2
            <4>. QED BY <4>1, <4>2
        <3>. QED BY <1>5, <3>2 DEF AllCame
    <2>. QED BY <2>1, <2>2, <2>3, <2>4, <2>5
<1>. QED BY <1>5, <1>9, <1>11, <1>12 DEF Control

\* The way of a thread without its barriers.
Way(from, to) ==
    \/ from = "images" /\ to = "kernel" /\ ~Transposes
    \/ from = "images" /\ to = "before" /\ Transposes /\ grid.oc > 1
    \/ from = "images" /\ to = "transpose" /\ Transposes /\ ~(grid.oc > 1)
    \/ from = "transpose" /\ to = "after" /\ grid.oc > 1
    \/ from = "transpose" /\ to = "kernel" /\ ~(grid.oc > 1)
    \/ from = "kernel" /\ to = "images"
    \/ from = "images" /\ to = "end of section" /\ ~sync
    \/ from = "images" /\ to = ToReduction /\ sync
    \/ from = "add" /\ to = ToBias
    \/ from = "bias" /\ to = "done"

LEMMA Reductions ==
    ASSUME GridOk, sync \in BOOLEAN
    PROVE  /\ ToBias \in {"done", "bias", "bias barrier"}
           /\ ToBias = "bias barrier" => sync /\ grid.mb > 1
           /\ ToReduction = ToBias \/ (grid.mb > 1 /\ ToReduction = IF sync THEN "partial" ELSE "add")
           /\ sync /\ grid.mb > 1 => ToReduction = "partial"
<1>1. grid.mb \in Nat \ {0}
    BY DEF GridOk
<1>2. ToBias \in {"done", "bias", "bias barrier"} /\ (ToBias = "bias barrier" => sync /\ grid.mb > 1)
    BY DEF ToBias
<1>3. CASE grid.mb = 1
    <2>1. ToReduction = ToBias /\ ~(grid.mb > 1)
        BY <1>3 DEF ToReduction
    <2>. QED BY <1>2, <2>1
<1>4. CASE grid.mb # 1
    <2>1. grid.mb > 1
        BY <1>1, <1>4
    <2>2. ToReduction = IF sync THEN "partial" ELSE "add"
        BY <1>4 DEF ToReduction
    <2>. QED BY <1>2, <2>1, <2>2
<1>. QED BY <1>3, <1>4

LEMMA LocalWay ==
    ASSUME Control, NEW t \in Threads,
           NextImage(t) \/ Transpose(t) \/ Kernel(t) \/ ImagesDone(t) \/ AddUp(t) \/ ReduceBias(t)
    PROVE  /\ UNCHANGED <<static, barriers>>
           /\ \E to \in Places : Way(pc[t], to) /\ pc' = [pc EXCEPT ![t] = to]
<1>0. GridOk /\ sync \in BOOLEAN /\ grid.oc \in Nat
    BY GridIsOk DEF Control, Given, GridOk
<1>1. CASE NextImage(t)
    <2>1. pc[t] = "images" /\ UNCHANGED <<static, barriers>>
        BY <1>1 DEF NextImage
    <2>2. pc' = [pc EXCEPT ![t] = IF ~Transposes THEN "kernel"
                                  ELSE IF grid.oc > 1 THEN "before" ELSE "transpose"]
        BY <1>1 DEF NextImage, Goto
    <2>. QED BY <2>1, <2>2 DEF Way, Places, Early
<1>2. CASE Transpose(t)
    BY <1>2 DEF Transpose, Move, Goto, Way, Places, Early
<1>3. CASE Kernel(t)
    BY <1>3 DEF Kernel, Move, Goto, Way, Places, Early
<1>4. CASE ImagesDone(t)
    <2>1. pc[t] = "images" /\ UNCHANGED <<static, barriers>>
        BY <1>4 DEF ImagesDone
    <2>2. pc' = [pc EXCEPT ![t] = IF sync THEN ToReduction ELSE "end of section"]
        BY <1>4 DEF ImagesDone, Goto
    <2>3. ToReduction \in Places
        BY <1>0, Reductions DEF Places, Late
    <2>. QED BY <1>0, <2>1, <2>2, <2>3 DEF Way, Places
<1>5. CASE AddUp(t)
    <2>1. pc[t] = "add" /\ UNCHANGED <<static, barriers>> /\ pc' = [pc EXCEPT ![t] = ToBias]
        BY <1>5 DEF AddUp, Move, Goto
    <2>2. ToBias \in Places
        BY <1>0, Reductions DEF Places, Late
    <2>. QED BY <2>1, <2>2 DEF Way
<1>6. CASE ReduceBias(t)
    BY <1>6 DEF ReduceBias, Move, Goto, Way, Places, Late
<1>. QED BY <1>1, <1>2, <1>3, <1>4, <1>5, <1>6

LEMMA ControlLocal ==
    ASSUME Control, NEW t \in Threads, NEW to \in Places, Way(pc[t], to),
           UNCHANGED <<static, barriers>>, pc' = [pc EXCEPT ![t] = to]
    PROVE  Control'
<1>1. GridOk /\ BarriersType /\ sync \in BOOLEAN
    BY GridIsOk DEF Control, Given
<1>2. /\ Threads' = Threads /\ Contexts' = Contexts /\ Given' = Given
      /\ Transposes' = Transposes /\ sync' = sync /\ grid' = grid /\ jcp' = jcp
      /\ \A u : ithr_but_oc(u)' = ithr_but_oc(u)
      /\ \A u : TrMates(u)' = TrMates(u)
    BY StaysGiven
<1>3. entered' = entered /\ left' = left
    BY DEF barriers
<1>4. pc' \in [Threads -> Places] /\ \A u \in Threads : pc'[u] = IF u = t THEN to ELSE pc[u]
    BY <1>1 DEF BarriersType
<1>5. \A c, u : /\ Came(ithr_but_oc(u), u)' = Came(ithr_but_oc(u), u)
                /\ Went(ithr_but_oc(u), u)' = Went(ithr_but_oc(u), u)
                /\ Came(WeiReduction, u)' = Came(WeiReduction, u)
                /\ Went(WeiReduction, u)' = Went(WeiReduction, u)
    BY <1>2, <1>3 DEF Came, Went
<1>6. BarriersType' /\ Given'
    BY <1>1, <1>2, <1>3, <1>4 DEF Control, BarriersType
<1>7. /\ ToBias \in {"done", "bias", "bias barrier"}
      /\ ToBias = "bias barrier" => sync /\ grid.mb > 1
      /\ ToReduction = ToBias \/ (grid.mb > 1 /\ ToReduction = IF sync THEN "partial" ELSE "add")
      /\ sync /\ grid.mb > 1 => ToReduction = "partial"
    BY <1>1, Reductions
<1>8. PlaceOk(t) /\ ImageBarrier(t) /\ SumBarrier(t)
    BY DEF Control
<1>9. Sections'
    <2>1. CASE sync
        BY <1>2, <2>1 DEF Sections
    <2>2. CASE ~sync
        <3>1. pc[t] \in Late <=> to \in Late
            BY <1>7, <2>2 DEF Way, Late
        <3>2. \A u \in Threads : pc'[u] \in Late <=> pc[u] \in Late
            BY <1>4, <3>1
        <3>. QED BY <1>2, <2>2, <3>2 DEF Control, Sections
    <2>. QED BY <2>1, <2>2
<1>10. PlaceOk(t)'
    <2>1. pc'[t] = to
        BY <1>4
    <2>2. /\ to \in {"before", "after"} => grid.oc > 1
          /\ to \in {"partial", "bias barrier"} => sync /\ grid.mb > 1
          /\ to = "end of section" => ~sync
          /\ to = "add" => grid.mb > 1
        BY <1>7 DEF Way
    <2>3. to \in {"before", "transpose", "after"} => Transposes
        BY <1>7, <1>8 DEF Way, PlaceOk
    <2>. QED BY <1>2, <2>1, <2>2, <2>3 DEF PlaceOk
<1>11. ImageBarrier(t)'
    <2>1. pc'[t] = to
        BY <1>4
    <2>2. pc[t] \notin {"before", "after"}
        BY DEF Way
    <2>3. (pc[t] \in Inside /\ grid.oc > 1) = (to \in Inside /\ grid.oc > 1)
        BY <1>7 DEF Way, Inside
    <2>. QED BY <1>2, <1>5, <1>8, <2>1, <2>2, <2>3 DEF ImageBarrier
<1>12. SumBarrier(t)'
    <2>1. pc'[t] = to /\ Came(WeiReduction, t) \in Nat /\ Went(WeiReduction, t) \in Nat
        BY <1>1, <1>4, ContextsDiffer DEF BarriersType, Came, Went
    <2>2. CASE to \in Early
        <3>1. pc[t] \in Early
            BY <1>7, <2>2 DEF Way, Early
        <3>2. to # "partial" /\ to \notin Late
            BY <2>2 DEF Early, Late
        <3>. QED BY <1>2, <1>5, <1>8, <2>1, <3>1, <3>2 DEF SumBarrier
    <2>3. CASE to = "partial"
        <3>1. pc[t] \in Early
            BY <1>7, <2>3 DEF Way, Early
        <3>2. Went(WeiReduction, t) <= Came(WeiReduction, t)
            BY DEF Control, AllCame
        <3>3. Came(WeiReduction, t) = 0 /\ Went(WeiReduction, t) = 0
            BY <1>8, <2>1, <3>1, <3>2 DEF SumBarrier
        <3>4. Came(WeiReduction, t)' = 0 /\ Went(WeiReduction, t)' = 0 /\ pc'[t] = "partial"
            BY <1>5, <2>1, <2>3, <3>3
        <3>5. Came(WeiReduction, t)' \in {0, 1} /\ pc'[t] \notin Early /\ pc'[t] \notin Late
            BY <3>4 DEF Early, Late
        <3>. QED BY <3>4, <3>5 DEF SumBarrier
    <2>4. CASE to \in Late /\ sync /\ grid.mb > 1
        <3>1. pc[t] \in Late
            BY <1>7, <2>4 DEF Way, Late
        <3>2. to \notin Early /\ to # "partial"
            BY <2>4 DEF Early, Late
        <3>. QED BY <1>2, <1>5, <1>8, <2>1, <2>4, <3>1, <3>2 DEF SumBarrier
    <2>. QED BY <1>2, <2>1, <2>2, <2>3, <2>4 DEF SumBarrier
<1>13. ASSUME NEW u \in Threads
       PROVE  PlaceOk(u)' /\ ImageBarrier(u)' /\ MatesCame(u)' /\ SumBarrier(u)' /\ AllCame(u)'
    <2>0. PlaceOk(u) /\ ImageBarrier(u) /\ MatesCame(u) /\ SumBarrier(u) /\ AllCame(u)
        BY DEF Control
    <2>1. MatesCame(u)' /\ AllCame(u)'
        BY <1>2, <1>5, <2>0 DEF MatesCame, AllCame
    <2>2. CASE u # t
        <3>1. pc'[u] = pc[u]
            BY <1>4, <2>2
        <3>. QED BY <1>2, <1>5, <2>0, <2>1, <3>1 DEF PlaceOk, ImageBarrier, SumBarrier
    <2>. QED BY <1>10, <1>11, <1>12, <2>1, <2>2
<1>. QED BY <1>2, <1>6, <1>9, <1>13 DEF Control

LEMMA ControlSecond ==
    ASSUME Control, SecondSection
    PROVE  Control'
<1>1. GridOk /\ BarriersType /\ sync \in BOOLEAN
    BY GridIsOk DEF Control, Given
<1>2. /\ Threads' = Threads /\ Contexts' = Contexts /\ Given' = Given
      /\ Transposes' = Transposes /\ sync' = sync /\ grid' = grid /\ jcp' = jcp
      /\ \A u : ithr_but_oc(u)' = ithr_but_oc(u)
      /\ \A u : TrMates(u)' = TrMates(u)
    BY StaysGiven DEF SecondSection
<1>3. entered' = entered /\ left' = left /\ pc' = [t \in Threads |-> ToReduction]
    BY DEF barriers, SecondSection
<1>4. \A c, u : /\ Came(ithr_but_oc(u), u)' = Came(ithr_but_oc(u), u)
                /\ Went(ithr_but_oc(u), u)' = Went(ithr_but_oc(u), u)
                /\ Came(WeiReduction, u)' = Came(WeiReduction, u)
                /\ Went(WeiReduction, u)' = Went(WeiReduction, u)
    BY <1>2, <1>3 DEF Came, Went
<1>5. 0 \in Threads /\ ~sync
    <2>1. nthr \in Nat \ {0}
        BY <1>1 DEF GridOk, nthr
    <2>2. 0 \in Threads
        BY <2>1 DEF Threads
    <2>3. pc[0] = "end of section"
        BY <2>2 DEF SecondSection
    <2>. QED BY <2>2, <2>3 DEF Control, PlaceOk
<1>6. ToReduction \in {"add", "done", "bias"} /\ (ToReduction = "add" => grid.mb > 1)
    BY <1>1, <1>5, Reductions
<1>7. \A u \in Threads : pc'[u] = ToReduction /\ pc[u] = "end of section"
    BY <1>3 DEF SecondSection
<1>8. BarriersType' /\ Given' /\ Sections'
    BY <1>1, <1>2, <1>3, <1>6, <1>7 DEF Control, BarriersType, Sections, Places, Late
<1>9. ASSUME NEW u \in Threads
      PROVE  PlaceOk(u)' /\ ImageBarrier(u)' /\ MatesCame(u)' /\ SumBarrier(u)' /\ AllCame(u)'
    <2>0. PlaceOk(u) /\ ImageBarrier(u) /\ MatesCame(u) /\ SumBarrier(u) /\ AllCame(u)
        BY DEF Control
    <2>1. MatesCame(u)' /\ AllCame(u)'
        BY <1>2, <1>4, <2>0 DEF MatesCame, AllCame
    <2>2. PlaceOk(u)'
        BY <1>2, <1>6, <1>7 DEF PlaceOk
    <2>3. ImageBarrier(u)'
        BY <1>2, <1>4, <1>6, <1>7, <2>0 DEF ImageBarrier, Inside
    <2>4. SumBarrier(u)'
        BY <1>2, <1>5, <1>6, <1>7 DEF SumBarrier, Early
    <2>. QED BY <2>1, <2>2, <2>3, <2>4
<1>. QED BY <1>2, <1>8, <1>9 DEF Control

LEMMA ControlSame ==
    ASSUME Control, UNCHANGED vars
    PROVE  Control'
<1>1. /\ Threads' = Threads /\ Contexts' = Contexts /\ Given' = Given
      /\ Transposes' = Transposes /\ sync' = sync /\ grid' = grid
      /\ \A u : ithr_but_oc(u)' = ithr_but_oc(u)
      /\ \A u : TrMates(u)' = TrMates(u)
    BY StaysGiven DEF static, vars
<1>2. entered' = entered /\ left' = left /\ pc' = pc
    BY DEF vars
<1>. QED BY <1>1, <1>2 DEF Control, BarriersType, Sections, PlaceOk, ImageBarrier, MatesCame,
           SumBarrier, AllCame, Came, Went

LEMMA ControlStep == Control /\ [Next]_vars => Control'
<1>. SUFFICES ASSUME Control, [Next]_vars PROVE Control'
    OBVIOUS
<1>1. CASE UNCHANGED vars
    BY <1>1, ControlSame
<1>2. CASE SecondSection
    BY <1>2, ControlSecond
<1>3. ASSUME NEW t \in Threads, Step(t) PROVE Control'
    <2>1. CASE Arrive(t)
        BY <2>1, ControlArrive
    <2>2. CASE Pass(t)
        BY <2>2, ControlPass
    <2>3. CASE Spin(t)
        BY <2>3, ControlSame DEF Spin
    <2>4. CASE NextImage(t) \/ Transpose(t) \/ Kernel(t) \/ ImagesDone(t) \/ AddUp(t) \/ ReduceBias(t)
        BY <2>4, LocalWay, ControlLocal
    <2>. QED BY <1>3, <2>1, <2>2, <2>3, <2>4 DEF Step
<1>. QED BY <1>1, <1>2, <1>3 DEF Next

------------------------------------------------------------------------------
(* No races                                                                *)

\* What a write or a read may be: of a row, a cell of the weights or the bias.
LEMMA WritesAre ==
    ASSUME NEW t \in Threads, NEW x \in Writes(t)
    PROVE  \/ pc[t] = "transpose" /\ x[1] = "tr" /\ x[2] = ithr_mb(t) /\ x[3] \in MyTrRows(t)
           \/ pc[t] = "kernel" /\ x[1] = "wei" /\ x[2] = ithr_mb(t) /\ x[3] \in MyCells(t)
           \/ pc[t] = "kernel" /\ x[1] = "bia" /\ x[2] = ithr_mb(t) /\ x[3] \in MyBias(t)
           \/ pc[t] = "add" /\ x[1] = "wei" /\ x[2] = 0 /\ x[3] \in MyShare(t)
           \/ pc[t] = "add" /\ x[1] = "bia" /\ x[2] = 0 /\ t = 0
           \/ pc[t] = "bias" /\ x[1] = "bia" /\ x[2] = 0 /\ t = 0 /\ grid.mb > 1
<1>1. CASE pc[t] = "transpose"
    <2>1. Writes(t) = {"tr"} \X {ithr_mb(t)} \X MyTrRows(t)
        BY <1>1 DEF Writes
    <2>. QED BY <1>1, <2>1
<1>2. CASE pc[t] = "kernel"
    <2>1. Writes(t) = ({"wei"} \X {ithr_mb(t)} \X MyCells(t))
                          \cup ({"bia"} \X {ithr_mb(t)} \X MyBias(t))
        BY <1>2 DEF Writes
    <2>. QED BY <1>2, <2>1
<1>3. CASE pc[t] = "add"
    <2>1. Writes(t) = ({"wei"} \X {0} \X MyShare(t))
                          \cup (IF AddsBias(t) THEN {"bia"} \X {0} \X BiaCells ELSE {})
        BY <1>3 DEF Writes
    <2>2. AddsBias(t) => t = 0
        BY DEF AddsBias
    <2>. QED BY <1>3, <2>1, <2>2
<1>4. CASE pc[t] = "bias" /\ t = 0 /\ grid.mb > 1
    <2>1. Writes(t) = {"bia"} \X {0} \X BiaCells
        BY <1>4 DEF Writes
    <2>. QED BY <1>4, <2>1
<1>5. CASE pc[t] \notin {"transpose", "kernel", "add"} /\ ~(pc[t] = "bias" /\ t = 0 /\ grid.mb > 1)
    <2>1. Writes(t) = {}
        BY <1>5 DEF Writes
    <2>. QED BY <2>1
<1>. QED BY <1>1, <1>2, <1>3, <1>4, <1>5

LEMMA ReadsAre ==
    ASSUME GridOk, NEW t \in Threads, NEW x \in Reads(t)
    PROVE  \/ pc[t] = "kernel" /\ Transposes /\ x[1] = "tr" /\ x[2] = ithr_mb(t)
              /\ x[3] \in OwnRows(t)
           \/ pc[t] = "add" /\ x[1] \in {"wei", "bia"} /\ x[2] # 0
           \/ pc[t] = "bias" /\ x[1] = "bia" /\ x[2] # 0 /\ grid.mb > 1
<1>0. grid.mb \in Nat \ {0}
    BY DEF GridOk
<1>1. CASE pc[t] = "kernel" /\ Transposes
    <2>1. Reads(t) = {"tr"} \X {ithr_mb(t)} \X OwnRows(t)
        BY <1>1 DEF Reads, OwnRows
    <2>. QED BY <1>1, <2>1
<1>3. CASE pc[t] = "add"
    <2>1. Reads(t) = ({"wei"} \X (1 .. grid.mb - 1) \X MyShare(t))
                         \cup (IF AddsBias(t)
                               THEN {"bia"} \X (1 .. grid.mb - 1) \X BiaCells ELSE {})
        BY <1>3 DEF Reads
    <2>. QED BY <1>0, <1>3, <2>1
<1>4. CASE pc[t] = "bias" /\ t = 0
    <2>1. Reads(t) = {"bia"} \X (1 .. grid.mb - 1) \X BiaCells
        BY <1>4 DEF Reads
    <2>. QED BY <1>0, <1>4, <2>1
<1>5. CASE ~(pc[t] = "kernel" /\ Transposes) /\ pc[t] # "add" /\ ~(pc[t] = "bias" /\ t = 0)
    <2>1. Reads(t) = {}
        BY <1>5 DEF Reads
    <2>. QED BY <2>1
<1>. QED BY <1>1, <1>3, <1>4, <1>5

\* Nobody adds up while another one has images to do.
LEMMA EarlyBeforeLate ==
    ASSUME Control, NEW t \in Threads, NEW u \in Threads, pc[t] \in Early,
           pc[u] \in Late, grid.mb > 1
    PROVE  FALSE
<1>1. pc[t] \notin Late
    BY DEF Early, Late
<1>2. CASE sync
    <2>1. Came(WeiReduction, t) = 0 /\ Went(WeiReduction, u) = 1
        BY <1>2 DEF Control, SumBarrier
    <2>2. Went(WeiReduction, u) <= Came(WeiReduction, t)
        BY DEF Control, AllCame
    <2>. QED BY <2>1, <2>2
<1>3. CASE ~sync
    BY <1>1, <1>3 DEF Control, Sections
<1>. QED BY <1>2, <1>3

\* Of mates nobody reads the transposed image while another one makes the next.
LEMMA MatesApart ==
    ASSUME Control, NEW t \in Threads, NEW u \in Threads, t # u,
           ithr_but_oc(t) = ithr_but_oc(u), pc[t] = "transpose", pc[u] = "kernel"
    PROVE  FALSE
<1>1. GridOk /\ BarriersType
    BY GridIsOk DEF Control
<1>2. grid.oc > 1
    <2>1. ithr_oc_b(t) # ithr_oc_b(u)
        BY <1>1, MatesShare, SameIndex
    <2>2. ithr_oc_b(t) \in 0 .. grid.oc - 1 /\ ithr_oc_b(u) \in 0 .. grid.oc - 1
             /\ grid.oc \in Nat
        BY <1>1, ThreadIndex DEF GridOk
    <2>. QED BY <2>1, <2>2
<1>3. PICK c \in Contexts : c = ithr_but_oc(t) /\ c = ithr_but_oc(u)
    BY <1>1, ContextsDiffer
<1>4. Came(c, t) = Went(c, t) /\ Went(c, t) % 2 = 1
    BY <1>2, <1>3 DEF Control, ImageBarrier, Inside
<1>5. Came(c, u) = Went(c, u) /\ Went(c, u) % 2 = 0
    BY <1>2, <1>3 DEF Control, ImageBarrier, Inside
<1>6. Went(c, t) <= Came(c, u) /\ Went(c, u) <= Came(c, t)
    BY <1>3 DEF Control, MatesCame, TrMates
<1>7. Went(c, t) \in Nat /\ Went(c, u) \in Nat
    BY <1>1 DEF BarriersType, Went
<1>. QED BY <1>4, <1>5, <1>6, <1>7

LEMMA WritesApart ==
    ASSUME Control, NEW t \in Threads, NEW u \in Threads, t # u,
           NEW x \in Writes(t), x \in Writes(u)
    PROVE  FALSE
<1>1. GridOk
    BY GridIsOk DEF Control
<1>2. \A s \in Threads : pc[s] = "add" => grid.mb > 1
    BY DEF Control, PlaceOk
<1>3. \A s, v \in Threads :
         ~(pc[s] \in {"transpose", "kernel"} /\ (pc[v] = "add" \/ (pc[v] = "bias" /\ grid.mb > 1)))
    BY <1>2, EarlyBeforeLate DEF Early, Late
<1>4. \/ pc[t] = "transpose" /\ x[1] = "tr" /\ x[2] = ithr_mb(t) /\ x[3] \in MyTrRows(t)
      \/ pc[t] = "kernel" /\ x[1] = "wei" /\ x[2] = ithr_mb(t) /\ x[3] \in MyCells(t)
      \/ pc[t] = "kernel" /\ x[1] = "bia" /\ x[2] = ithr_mb(t) /\ x[3] \in MyBias(t)
      \/ pc[t] = "add" /\ x[1] = "wei" /\ x[2] = 0 /\ x[3] \in MyShare(t)
      \/ pc[t] = "add" /\ x[1] = "bia" /\ x[2] = 0 /\ t = 0
      \/ pc[t] = "bias" /\ x[1] = "bia" /\ x[2] = 0 /\ t = 0 /\ grid.mb > 1
    BY WritesAre
<1>5. \/ pc[u] = "transpose" /\ x[1] = "tr" /\ x[2] = ithr_mb(u) /\ x[3] \in MyTrRows(u)
      \/ pc[u] = "kernel" /\ x[1] = "wei" /\ x[2] = ithr_mb(u) /\ x[3] \in MyCells(u)
      \/ pc[u] = "kernel" /\ x[1] = "bia" /\ x[2] = ithr_mb(u) /\ x[3] \in MyBias(u)
      \/ pc[u] = "add" /\ x[1] = "wei" /\ x[2] = 0 /\ x[3] \in MyShare(u)
      \/ pc[u] = "add" /\ x[1] = "bia" /\ x[2] = 0 /\ u = 0
      \/ pc[u] = "bias" /\ x[1] = "bia" /\ x[2] = 0 /\ u = 0 /\ grid.mb > 1
    BY WritesAre
<1>6. CASE x[1] = "tr"
    <2>1. ithr_mb(t) = ithr_mb(u) /\ x[3] \in MyTrRows(t) \cap MyTrRows(u)
        BY <1>4, <1>5, <1>6
    <2>. QED BY <1>1, <2>1, TrRowsDiffer
<1>7. CASE x[1] = "wei"
    <2>1. CASE pc[t] = "kernel" /\ pc[u] = "kernel"
        <3>1. ithr_mb(t) = ithr_mb(u) /\ x[3] \in MyCells(t) \cap MyCells(u)
            BY <1>4, <1>5, <1>7, <2>1
        <3>2. ithr_g(t) # ithr_g(u) \/ ithr_oc_b(t) # ithr_oc_b(u) \/ ithr_ic_b(t) # ithr_ic_b(u)
            BY <1>1, <3>1, SameIndex
        <3>. QED BY <1>1, <3>1, <3>2, CellsDiffer
    <2>2. CASE pc[t] = "add" /\ pc[u] = "add"
        <3>1. x[3] \in MyShare(t) \cap MyShare(u)
            BY <1>4, <1>5, <1>7, <2>2
        <3>. QED BY <1>1, <3>1, SharesOfCells
    <2>. QED BY <1>3, <1>4, <1>5, <1>7, <2>1, <2>2
<1>8. CASE x[1] = "bia"
    <2>1. CASE pc[t] = "kernel" /\ pc[u] = "kernel"
        <3>1. ithr_mb(t) = ithr_mb(u) /\ x[3] \in MyBias(t) \cap MyBias(u)
            BY <1>4, <1>5, <1>8, <2>1
        <3>2. /\ 0 \in IcBs(t) \cap IcBs(u)
              /\ x[3][1] \in Gs(t) \cap Gs(u) /\ x[3][2] \in OcBs(t) \cap OcBs(u)
            BY <3>1 DEF MyBias
        <3>3. ithr_g(t) = ithr_g(u) /\ ithr_oc_b(t) = ithr_oc_b(u) /\ ithr_ic_b(t) = ithr_ic_b(u)
            BY <1>1, <3>2, BlocksDiffer
        <3>. QED BY <1>1, <3>1, <3>3, SameIndex
    <2>. QED BY <1>3, <1>4, <1>5, <1>8, <2>1
<1>. QED BY <1>4, <1>6, <1>7, <1>8

LEMMA ReadsApart ==
    ASSUME Control, NEW t \in Threads, NEW u \in Threads, t # u,
           NEW x \in Writes(t), x \in Reads(u)
    PROVE  FALSE
<1>1. GridOk
    BY GridIsOk DEF Control
<1>2. \A s \in Threads : pc[s] = "add" => grid.mb > 1
    BY DEF Control, PlaceOk
<1>3. \A s, v \in Threads :
         ~(pc[s] \in {"transpose", "kernel"} /\ (pc[v] = "add" \/ (pc[v] = "bias" /\ grid.mb > 1)))
    BY <1>2, EarlyBeforeLate DEF Early, Late
<1>4. \/ pc[t] = "transpose" /\ x[1] = "tr" /\ x[2] = ithr_mb(t) /\ x[3] \in MyTrRows(t)
      \/ pc[t] = "kernel" /\ x[1] \in {"wei", "bia"} /\ x[2] = ithr_mb(t)
      \/ x[1] \in {"wei", "bia"} /\ x[2] = 0
    BY WritesAre
<1>5. \/ pc[u] = "kernel" /\ Transposes /\ x[1] = "tr" /\ x[2] = ithr_mb(u)
         /\ x[3] \in OwnRows(u)
      \/ pc[u] = "add" /\ x[1] \in {"wei", "bia"} /\ x[2] # 0
      \/ pc[u] = "bias" /\ x[1] = "bia" /\ x[2] # 0 /\ grid.mb > 1
    BY <1>1, ReadsAre
<1>6. CASE x[1] = "tr"
    <2>1. /\ pc[t] = "transpose" /\ pc[u] = "kernel" /\ ithr_mb(t) = ithr_mb(u)
          /\ x[3] \in MyTrRows(t) \cap OwnRows(u)
        BY <1>4, <1>5, <1>6
    <2>2. CASE ithr_but_oc(t) = ithr_but_oc(u)
        BY <2>1, <2>2, MatesApart
    <2>3. CASE ithr_but_oc(t) # ithr_but_oc(u)
        BY <1>1, <2>1, <2>3, TrRowsDiffer
    <2>. QED BY <2>2, <2>3
<1>7. CASE x[1] # "tr"
    BY <1>3, <1>4, <1>5, <1>7
<1>. QED BY <1>6, <1>7

(***************************************************************************)
(* No thread writes what another one is reading or writing, for every      *)
(* convolution and number of threads: those that transpose an image are    *)
(* kept from those that read it by the count of their barrier, those that  *)
(* add up from the kernels by the barrier of all or by the end of the      *)
(* section, and within each the shares are disjoint.                       *)
(***************************************************************************)
THEOREM BwdNoRace == Spec => []NoRace
<1>1. Init => Control
    BY ControlInit
<1>2. Control /\ [Next]_vars => Control'
    BY ControlStep
<1>3. Control => NoRace
    BY WritesApart, ReadsApart DEF NoRace
<1>. QED BY <1>1, <1>2, <1>3, PTL DEF Spec

------------------------------------------------------------------------------
(* The sum of all images                                                   *)

\* Bags of different units add up to the bag of all of them.
LEMMA BagsAddUp ==
    ASSUME NEW A, NEW B, A \cap B = {}
    PROVE  SetToBag(A) (+) SetToBag(B) = SetToBag(A \cup B)
<1>1. DOMAIN SetToBag(A) = A /\ DOMAIN SetToBag(B) = B
    BY DEF SetToBag
<1>2. \A e \in A : SetToBag(A)[e] = 1
    BY DEF SetToBag
<1>3. \A e \in B : SetToBag(B)[e] = 1
    BY DEF SetToBag
<1>4. \A e \in A \cup B : (IF e \in A THEN SetToBag(A)[e] ELSE 0)
                              + (IF e \in B THEN SetToBag(B)[e] ELSE 0) = 1
    BY <1>2, <1>3
<1>. QED BY <1>1, <1>4 DEF SetToBag, (+)

\* Consecutive spans of units.
LEMMA SpansAddUp ==
    ASSUME NEW a \in Nat, NEW b \in Nat, NEW c \in Nat, a <= b, b <= c
    PROVE  SetToBag(a .. b - 1) (+) SetToBag(b .. c - 1) = SetToBag(a .. c - 1)
<1>1. (a .. b - 1) \cap (b .. c - 1) = {} /\ (a .. b - 1) \cup (b .. c - 1) = a .. c - 1
    OBVIOUS
<1>. QED BY <1>1, BagsAddUp

\* The sum of the buffers m of f for one cell, of which each has the units of
\* its share.
IsTotal(s, f, c, n) ==
    s = [m \in 0 .. n - 1 |-> IF m = 0 THEN f[0][c] ELSE s[m - 1] (+) f[m][c]]

LEMMA TotalIsSum ==
    ASSUME NEW f, NEW c, NEW s, IsTotal(s, f, c, grid.mb)
    PROVE  \E z : IsTotal(z, f, c, grid.mb) /\ Total(f, c) = z[grid.mb - 1]
<1>1. IsTotal(CHOOSE z : IsTotal(z, f, c, grid.mb), f, c, grid.mb)
    OBVIOUS
<1>2. Total(f, c) = (CHOOSE z : IsTotal(z, f, c, grid.mb))[grid.mb - 1]
    BY DEF Total, IsTotal
<1>. QED BY <1>1, <1>2

LEMMA TotalIsWhole ==
    ASSUME NEW f, NEW c, NEW U \in Nat, grid.mb \in Nat \ {0},
           \A m \in 0 .. grid.mb - 1 : f[m][c] = SetToBag(Of(U, grid.mb, m))
    PROVE  Total(f, c) = SetToBag(0 .. U - 1)
<1>1. PICK n \in Nat \ {0} : n = grid.mb
    OBVIOUS
<1>. DEFINE E(m) == End(U, n, m)
            w == [m \in 0 .. n - 1 |-> SetToBag(0 .. E(m) - 1)]
<1>2. /\ E(n - 1) = U /\ Start(U, n, 0) = 0
      /\ \A m \in 0 .. n - 2 : E(m) = Start(U, n, m + 1)
    BY SharesAreConsecutive
<1>3. \A m \in 0 .. n - 1 : /\ Start(U, n, m) \in Nat /\ E(m) \in Nat
                            /\ Start(U, n, m) <= E(m)
    BY SharesAreOrdered
<1>4. ASSUME NEW m \in 0 .. n - 1 PROVE f[m][c] = SetToBag(Start(U, n, m) .. E(m) - 1)
    BY <1>1 DEF Of
<1>. HIDE DEF E
<1>5. ASSUME NEW m \in 1 .. n - 1 PROVE w[m] = w[m - 1] (+) f[m][c]
    <2>1. m - 1 \in 0 .. n - 2 /\ m \in 0 .. n - 1 /\ m - 1 \in 0 .. n - 1 /\ m - 1 + 1 = m
        OBVIOUS
    <2>2. E(m - 1) = Start(U, n, m)
        BY <1>2, <2>1
    <2>3. w[m - 1] = SetToBag(0 .. E(m - 1) - 1)
        BY <2>1
    <2>4. w[m] = SetToBag(0 .. E(m) - 1)
        BY <2>1
    <2>5. SetToBag(0 .. E(m - 1) - 1) (+) SetToBag(E(m - 1) .. E(m) - 1) = SetToBag(0 .. E(m) - 1)
        BY <1>3, <2>1, <2>2, SpansAddUp
    <2>. QED BY <1>4, <2>1, <2>2, <2>3, <2>4, <2>5
<1>6. w[0] = f[0][c]
    BY <1>2, <1>4
<1>7. IsTotal(w, f, c, grid.mb)
    <2>2. w = [m \in 0 .. n - 1 |-> w[m]]
        OBVIOUS
    <2>. HIDE DEF w
    <2>1. ASSUME NEW m \in 0 .. n - 1
          PROVE  w[m] = IF m = 0 THEN f[0][c] ELSE w[m - 1] (+) f[m][c]
        <3>1. CASE m = 0
            BY <1>6, <3>1
        <3>2. CASE m # 0
            <4>1. m \in 1 .. n - 1
                BY <3>2
            <4>. QED BY <1>5, <3>2, <4>1
        <3>. QED BY <3>1, <3>2
    <2>. QED BY <1>1, <2>1, <2>2 DEF IsTotal
<1>8. PICK z : IsTotal(z, f, c, grid.mb) /\ Total(f, c) = z[grid.mb - 1]
    BY <1>7, TotalIsSum
<1>9. \A m \in 0 .. n - 1 : z[m] = IF m = 0 THEN f[0][c] ELSE z[m - 1] (+) f[m][c]
    BY <1>1, <1>8 DEF IsTotal
<1>. DEFINE Bad == { m \in 0 .. n - 1 : z[m] # w[m] }
<1>10. Bad = {}
    <2>. SUFFICES ASSUME Bad # {} PROVE FALSE
        OBVIOUS
    <2>1. PICK m \in Bad : \A k \in Bad : m <= k
        <3>1. Bad \subseteq Nat
            OBVIOUS
        <3>. HIDE DEF Bad
        <3>. QED BY <3>1, SmallestExists
    <2>2. m \in 0 .. n - 1 /\ z[m] # w[m]
        OBVIOUS
    <2>3. m # 0
        BY <1>6, <1>9, <2>2
    <2>4. m - 1 \in 0 .. n - 1 /\ m \in 1 .. n - 1 /\ ~(m <= m - 1)
        BY <2>2, <2>3
    <2>5. m - 1 \notin Bad
        BY <2>1, <2>4
    <2>6. z[m - 1] = w[m - 1]
        BY <2>4, <2>5
    <2>. HIDE DEF w
    <2>. QED BY <1>5, <1>9, <2>2, <2>3, <2>4, <2>6
<1>11. z[n - 1] = w[n - 1] /\ w[n - 1] = SetToBag(0 .. U - 1)
    <2>1. n - 1 \in 0 .. n - 1
        OBVIOUS
    <2>2. w[n - 1] = SetToBag(0 .. U - 1)
        BY <1>2, <2>1
    <2>3. z[n - 1] = w[n - 1]
        BY <1>10, <2>1
    <2>. QED BY <2>2, <2>3
<1>. QED BY <1>1, <1>8, <1>11

\* A single buffer is its own sum.
LEMMA TotalOfOne ==
    ASSUME NEW f, NEW c, grid.mb = 1
    PROVE  Total(f, c) = f[0][c]
<1>. DEFINE w == [m \in 0 .. 0 |-> f[0][c]]
<1>1. IsTotal(w, f, c, grid.mb)
    <2>1. 0 .. grid.mb - 1 = {0} /\ 0 .. 0 = {0}
        OBVIOUS
    <2>. QED BY <2>1 DEF IsTotal
<1>2. PICK z : IsTotal(z, f, c, grid.mb) /\ Total(f, c) = z[grid.mb - 1]
    BY <1>1, TotalIsSum
<1>3. grid.mb - 1 = 0 /\ 0 \in 0 .. grid.mb - 1
    OBVIOUS
<1>4. z[0] = f[0][c]
    BY <1>2, <1>3 DEF IsTotal
<1>. QED BY <1>2, <1>3, <1>4

------------------------------------------------------------------------------
(* Everything has an owner                                                 *)

\* Every place in the grid is a thread's.
LEMMA ThreadAt ==
    ASSUME GridOk, NEW m \in 0 .. grid.mb - 1, NEW g \in 0 .. grid.g - 1,
           NEW o \in 0 .. grid.oc - 1, NEW i \in 0 .. grid.ic - 1
    PROVE  \E t \in Threads : /\ ithr_mb(t) = m /\ ithr_g(t) = g
                              /\ ithr_oc_b(t) = o /\ ithr_ic_b(t) = i
<1>1. PICK M \in Nat \ {0}, G \in Nat \ {0}, O \in Nat \ {0}, I \in Nat \ {0} :
         M = grid.mb /\ G = grid.g /\ O = grid.oc /\ I = grid.ic
    BY DEF GridOk
<1>2. PICK x \in Nat : x = m * G + g
    BY <1>1
<1>3. PICK y \in Nat : y = x * O + o
    BY <1>1
<1>4. PICK t \in Nat : t = y * I + i
    BY <1>1
<1>5. x \div G = m /\ x % G = g
    <2>1. m \in Nat /\ g \in 0 .. G - 1
        BY <1>1
    <2>. QED BY <1>2, <2>1, RowMajorIsUnique
<1>6. y \div O = x /\ y % O = o
    <2>1. o \in 0 .. O - 1
        BY <1>1
    <2>. QED BY <1>3, <2>1, RowMajorIsUnique
<1>7. t \div I = y /\ t % I = i
    <2>1. i \in 0 .. I - 1
        BY <1>1
    <2>. QED BY <1>4, <2>1, RowMajorIsUnique
<1>8. /\ ithr_mb(t) = m /\ ithr_g(t) = g /\ ithr_oc_b(t) = o /\ ithr_ic_b(t) = i
    BY <1>1, <1>5, <1>6, <1>7 DEF ithr_mb, ithr_g, ithr_oc_b, ithr_ic_b
<1>9. t \in Threads
    <2>1. x \in 0 .. M * G - 1
        <3>1. (m + 1) * G <= M * G
            BY <1>1, ProductsGrow
        <3>2. (m + 1) * G = m * G + G /\ m * G \in Nat /\ M * G \in Nat
            BY <1>1
        <3>. QED BY <1>1, <1>2, <3>1, <3>2
    <2>2. PICK X \in Nat \ {0} : X = M * G
        OBVIOUS
    <2>3. o \in 0 .. O - 1 /\ i \in 0 .. I - 1 /\ x \in 0 .. X - 1
        BY <1>1, <2>1, <2>2
    <2>4. t = (x * O + o) * I + i
        BY <1>3, <1>4
    <2>5. AreDigits(X, O, I, t, x, o, i)
        BY <2>3, <2>4, DigitsAreUnique
    <2>6. t \in 0 .. X * O * I - 1
        BY <2>5 DEF AreDigits
    <2>. QED BY <1>1, <2>2, <2>6 DEF Threads, nthr
<1>. QED BY <1>8, <1>9

\* Someone has the item x of n.
LEMMA ItemOwner ==
    ASSUME NEW n \in Nat, NEW team \in Nat \ {0}, NEW x \in 0 .. n - 1
    PROVE  \E t \in 0 .. team - 1 : x \in Of(n, team, t)
BY SharesArePartition DEF Of

LEMMA BlocksOwner ==
    ASSUME GridOk, NEW m \in 0 .. grid.mb - 1, NEW g \in 0 .. jcp.ngroups - 1,
           NEW o \in 0 .. jcp.nb_oc - 1, NEW b \in 0 .. jcp.nb_ic - 1
    PROVE  \E t \in Threads : /\ ithr_mb(t) = m /\ g \in Gs(t)
                              /\ o \in OcBs(t) /\ b \in IcBs(t)
<1>1. /\ {grid.g, grid.oc, grid.ic} \subseteq Nat \ {0}
      /\ {jcp.ngroups, jcp.nb_oc, jcp.nb_ic} \subseteq Nat
    BY DEF GridOk
<1>2. PICK tg \in 0 .. grid.g - 1 : g \in Of(jcp.ngroups, grid.g, tg)
    BY <1>1, ItemOwner
<1>3. PICK to \in 0 .. grid.oc - 1 : o \in Of(jcp.nb_oc, grid.oc, to)
    BY <1>1, ItemOwner
<1>4. PICK ti \in 0 .. grid.ic - 1 : b \in Of(jcp.nb_ic, grid.ic, ti)
    BY <1>1, ItemOwner
<1>5. PICK t \in Threads : /\ ithr_mb(t) = m /\ ithr_g(t) = tg
                           /\ ithr_oc_b(t) = to /\ ithr_ic_b(t) = ti
    BY ThreadAt
<1>. QED BY <1>2, <1>3, <1>4, <1>5 DEF Gs, OcBs, IcBs

\* Every cell is computed by a thread of each part of the batch.
LEMMA CellOwner ==
    ASSUME GridOk, NEW m \in 0 .. grid.mb - 1, NEW c \in WeiCells
    PROVE  \E t \in Threads : ithr_mb(t) = m /\ c \in MyCells(t)
<1>1. PICK S \in Nat \ {0}, N \in Nat \ {0} : S = Slices /\ N = jcp.nb_ic
    BY DEF GridOk
<1>2. PICK g \in 0 .. jcp.ngroups - 1, o \in 0 .. jcp.nb_oc - 1, s \in 0 .. N * S - 1 :
         c = <<g, o, s>>
    BY <1>1 DEF WeiCells
<1>3. PICK b \in 0 .. N - 1, k \in 0 .. S - 1 : s = b * S + k
    <2>0. s \in Nat
        OBVIOUS
    <2>1. s \in Nat /\ s \div S \in 0 .. N - 1
        BY <2>0, QuotientBelow
    <2>2. s % S \in 0 .. S - 1 /\ s = S * (s \div S) + (s % S)
        BY <2>1, Quotients
    <2>3. PICK b \in 0 .. N - 1, k \in 0 .. S - 1 : b = s \div S /\ k = s % S
        BY <2>1, <2>2
    <2>4. S * b = b * S
        OBVIOUS
    <2>. QED BY <2>2, <2>3, <2>4
<1>4. PICK t \in Threads : ithr_mb(t) = m /\ g \in Gs(t) /\ o \in OcBs(t) /\ b \in IcBs(t)
    BY <1>1, BlocksOwner
<1>5. b * S + k \in { ic_b * S + k2 : ic_b \in IcBs(t), k2 \in 0 .. S - 1 }
    BY <1>4
<1>6. c \in MyCells(t)
    BY <1>1, <1>2, <1>3, <1>4, <1>5 DEF MyCells
<1>. QED BY <1>4, <1>6

LEMMA CellsOfAll ==
    ASSUME GridOk, NEW t \in Threads
    PROVE  MyCells(t) \subseteq WeiCells /\ MyBias(t) \subseteq BiaCells
<1>1. MyCells(t) \subseteq WeiCells
    <2>. SUFFICES ASSUME NEW c \in MyCells(t) PROVE c \in WeiCells
        OBVIOUS
    <2>1. c \in Gs(t) \X OcBs(t) \X (0 .. jcp.nb_ic * Slices - 1)
        BY CellsBlock
    <2>. QED BY <2>1, OwnBlocks DEF WeiCells
<1>2. MyBias(t) \subseteq BiaCells
    BY OwnBlocks DEF MyBias, BiaCells
<1>. QED BY <1>1, <1>2

\* Every cell is added up by someone.
LEMMA ShareOwner ==
    ASSUME GridOk, NEW c \in WeiCells
    PROVE  \E t \in Threads : c \in MyShare(t)
<1>1. grid.mb \in Nat \ {0} /\ 0 \in 0 .. grid.mb - 1
    BY DEF GridOk
<1>2. PICK t \in Threads : c \in MyCells(t)
    BY <1>1, CellOwner
<1>3. PICK n \in Nat \ {0} : n = CellCount(t)
    BY SharedCells
<1>4. PICK w \in 0 .. n - 1 : c = ShareCell(t, w)
    BY <1>2, <1>3, SharedCells
<1>5. PICK m \in 0 .. grid.mb - 1 : w \in Of(n, grid.mb, m)
    BY <1>1, ItemOwner
<1>6. PICK u \in Threads : /\ ithr_mb(u) = m /\ ithr_g(u) = ithr_g(t)
                           /\ ithr_oc_b(u) = ithr_oc_b(t) /\ ithr_ic_b(u) = ithr_ic_b(t)
    BY ThreadAt, ThreadIndex
<1>7. CellCount(u) = n /\ ShareCell(u, w) = ShareCell(t, w)
    BY <1>3, <1>6 DEF CellCount, ShareCell, Gs, OcBs, IcBs
<1>8. c \in MyShare(u)
    BY <1>4, <1>5, <1>6, <1>7, ShareIs
<1>. QED BY <1>8

\* Thread 0 has some of the first buffer to add up.
LEMMA FirstShares ==
    ASSUME GridOk
    PROVE  0 \in Threads /\ ithr_mb(0) = 0 /\ MyShare(0) # {}
<1>1. PICK M \in Nat \ {0}, G \in Nat \ {0}, O \in Nat \ {0}, I \in Nat \ {0} :
         M = grid.mb /\ G = grid.g /\ O = grid.oc /\ I = grid.ic
    BY DEF GridOk
<1>2. 0 \in Threads
    <2>1. M * G \in Nat \ {0}
        OBVIOUS
    <2>2. M * G * O \in Nat \ {0}
        BY <2>1
    <2>3. M * G * O * I \in Nat \ {0}
        BY <2>2
    <2>. QED BY <1>1, <2>3 DEF Threads, nthr
<1>3. \A b \in Nat \ {0} : 0 \div b = 0
    BY RowMajorIsUnique
<1>4. ithr_mb(0) = 0
    BY <1>1, <1>3 DEF ithr_mb
<1>5. PICK n \in Nat \ {0} : n = CellCount(0)
    BY <1>2, SharedCells
<1>6. 0 \in Of(n, M, 0)
    <2>1. Start(n, M, 0) = 0
        BY SharesAreConsecutive
    <2>2. Size(n, M, 0) \in Nat \ {0}
        <3>1. CASE M = 1
            BY <3>1 DEF Size
        <3>2. CASE M # 1
            <4>1. N1(n, M) \in Nat \ {0} /\ T1(n, M) \in 1 .. M
                BY <3>2, LargeShares
            <4>. QED BY <3>2, <4>1 DEF Size
        <3>. QED BY <3>1, <3>2
    <2>. QED BY <2>1, <2>2 DEF Of, End
<1>7. ShareCell(0, 0) \in MyShare(0)
    BY <1>1, <1>2, <1>4, <1>5, <1>6, ShareIs
<1>. QED BY <1>2, <1>4, <1>7

\* So has the bias, of which the threads with the first input channels take care.
LEMMA BiasOwner ==
    ASSUME GridOk, BiasInKernel, NEW m \in 0 .. grid.mb - 1, NEW c \in BiaCells
    PROVE  \E t \in Threads : ithr_mb(t) = m /\ c \in MyBias(t)
<1>1. 0 \in 0 .. jcp.nb_ic - 1
    BY DEF GridOk
<1>2. c[1] \in 0 .. jcp.ngroups - 1 /\ c[2] \in 0 .. jcp.nb_oc - 1 /\ c = <<c[1], c[2]>>
    BY DEF BiaCells
<1>3. PICK t \in Threads : /\ ithr_mb(t) = m /\ c[1] \in Gs(t)
                           /\ c[2] \in OcBs(t) /\ 0 \in IcBs(t)
    BY <1>1, <1>2, BlocksOwner
<1>. QED BY <1>2, <1>3 DEF MyBias

\* Threads of one part of the batch have cells of their own.
LEMMA OwnersDiffer ==
    ASSUME GridOk, NEW t \in Threads, NEW u \in Threads, t # u, ithr_mb(t) = ithr_mb(u)
    PROVE  MyCells(t) \cap MyCells(u) = {} /\ MyBias(t) \cap MyBias(u) = {}
<1>1. ithr_g(t) # ithr_g(u) \/ ithr_oc_b(t) # ithr_oc_b(u) \/ ithr_ic_b(t) # ithr_ic_b(u)
    BY SameIndex
<1>2. MyCells(t) \cap MyCells(u) = {}
    BY <1>1, CellsDiffer
<1>3. MyBias(t) \cap MyBias(u) = {}
    <2>. SUFFICES ASSUME NEW c \in MyBias(t), c \in MyBias(u) PROVE FALSE
        OBVIOUS
    <2>1. c[1] \in Gs(t) /\ c[2] \in OcBs(t) /\ 0 \in IcBs(t)
        BY DEF MyBias
    <2>2. c[1] \in Gs(u) /\ c[2] \in OcBs(u) /\ 0 \in IcBs(u)
        BY DEF MyBias
    <2>. QED BY <1>1, <2>1, <2>2, BlocksDiffer
<1>. QED BY <1>2, <1>3

------------------------------------------------------------------------------
(* Images and rows of the batch                                            *)

\* There are images for all.
UnitsOk == /\ PerImage \in Nat \ {0} /\ Units \in Nat \ {0}
           /\ grid.mb \in Nat \ {0} /\ grid.mb <= Units
           /\ Transposes => PerImage = 1

LEMMA UnitsAreOk == Given => UnitsOk
<1>. SUFFICES ASSUME Given PROVE UnitsOk
    OBVIOUS
<1>1. /\ jcp.harness \in {"mb", "2d", "3d"}
      /\ {jcp.mb, jcp.ngroups, jcp.nb_oc, jcp.nb_ic, jcp.ih, jcp.oh, jcp.od, jcp.kh, jcp.kd}
             \subseteq Nat \ {0}
      /\ jcp.fma4 => jcp.harness = "mb"
      /\ jcp.harness # "3d" => jcp.od = 1
    BY ConvolutionAssumption DEF Given
<1>2. ConvolutionInput(jcp) /\ MaxThreads \in Positive
    BY <1>1, ThreadsAssumption DEF ConvolutionInput, Positive
<1>3. GridFor(jcp, MaxThreads, grid)
    BY <1>2, GridFits DEF Given
<1>4. PICK B \in Nat \ {0}, D \in Nat \ {0}, H \in Nat \ {0}, P \in Nat \ {0} :
         B = jcp.mb /\ D = jcp.od /\ H = jcp.oh /\ P = PerImage
    BY <1>1 DEF PerImage
<1>5. B * P \in Nat \ {0}
    OBVIOUS
<1>6. jcp.mb * jcp.od * (IF jcp.harness = "2d" THEN jcp.oh ELSE 1) = B * P
    <2>1. CASE jcp.harness = "mb"
        BY <1>1, <1>4, <2>1 DEF PerImage
    <2>2. CASE jcp.harness = "2d"
        BY <1>1, <1>4, <2>2 DEF PerImage
    <2>3. CASE jcp.harness = "3d"
        BY <1>1, <1>4, <2>3 DEF PerImage
    <2>. QED BY <1>1, <2>1, <2>2, <2>3
<1>7. grid.mb \in Nat \ {0} /\ grid.mb <= B * P
    BY <1>3, <1>6 DEF GridFor, Positive
<1>8. Transposes => PerImage = 1
    BY <1>1 DEF Transposes, PerImage
<1>. QED BY <1>4, <1>5, <1>7, <1>8 DEF UnitsOk, Units

LEMMA UnitsOf ==
    ASSUME GridOk, UnitsOk, NEW t \in Threads
    PROVE  /\ UnitStart(t) \in Nat /\ UnitEnd(t) \in Nat /\ UnitStart(t) < UnitEnd(t)
           /\ Of(Units, grid.mb, ithr_mb(t)) = UnitStart(t) .. UnitEnd(t) - 1
<1>1. Units \in Nat /\ grid.mb \in Nat \ {0} /\ ithr_mb(t) \in 0 .. grid.mb - 1
    BY ThreadIndex DEF UnitsOk
<1>2. /\ Start(Units, grid.mb, ithr_mb(t)) \in Nat /\ Size(Units, grid.mb, ithr_mb(t)) \in Nat
      /\ Size(Units, grid.mb, ithr_mb(t)) > 0
    BY <1>1, Shares DEF UnitsOk
<1>. QED BY <1>2 DEF UnitStart, UnitEnd, End, Of

\* Where a thread stands in its images: it begins an image at its first row, but
\* for the very first one, and ends early with the last one only.
At(t, n) == /\ n \in UnitStart(t) .. UnitEnd(t)
            /\ \/ n = UnitStart(t) \/ n = UnitEnd(t)
               \/ n \div PerImage > UnitStart(t) \div PerImage

LEMMA QuotientsGrow ==
    ASSUME NEW a \in Nat, NEW c \in Nat, NEW b \in Nat \ {0}, a <= c
    PROVE  a \div b <= c \div b
<1>1. PICK p \in Nat, q \in Nat : p = a \div b /\ q = c \div b
    BY Quotients
<1>2. p * b <= a
    BY <1>1, Quotients
<1>3. c < (q + 1) * b
    <2>1. c % b \in 0 .. b - 1 /\ c = b * q + (c % b)
        BY <1>1, Quotients
    <2>2. (q + 1) * b = b * q + b /\ b * q \in Nat
        OBVIOUS
    <2>. QED BY <2>1, <2>2
<1>4. CASE p >= q + 1
    <2>1. (q + 1) * b <= p * b
        BY <1>4, ProductsGrow
    <2>2. (q + 1) * b \in Nat /\ p * b \in Nat
        OBVIOUS
    <2>. QED BY <1>2, <1>3, <2>1, <2>2
<1>. QED BY <1>1, <1>4

\* The strip at hand, and where the thread stands after it.
LEMMA StripIs ==
    ASSUME GridOk, UnitsOk, NEW t \in Threads, At(t, unit[t]), unit[t] # UnitEnd(t)
    PROVE  \E n \in Nat : /\ unit[t] < n /\ At(t, n) /\ Strip(t) = unit[t] .. n - 1
                          /\ unit[t] + Cardinality(Strip(t)) = n
                          /\ Transposes => n = unit[t] + 1
<1>1. PICK s \in Nat, e \in Nat, P \in Nat \ {0} :
         s = UnitStart(t) /\ e = UnitEnd(t) /\ P = PerImage
    BY UnitsOf DEF UnitsOk
<1>2. PICK u \in Nat : u = unit[t] /\ s <= u /\ u < e
    BY <1>1 DEF At
<1>3. PICK q \in Nat : q = u \div P /\ u < (q + 1) * P
    <2>1. PICK q \in Nat : q = u \div P
        BY Quotients
    <2>2. u % P \in 0 .. P - 1 /\ u = P * q + (u % P)
        BY <2>1, Quotients
    <2>3. (q + 1) * P = P * q + P /\ P * q \in Nat
        OBVIOUS
    <2>. QED BY <2>1, <2>2, <2>3
<1>4. PICK k \in Nat : k = (q + 1) * P
    OBVIOUS
<1>5. k \div P = q + 1
    <2>1. 0 \in 0 .. P - 1 /\ q + 1 \in Nat /\ k = (q + 1) * P + 0
        BY <1>4
    <2>. QED BY <2>1, RowMajorIsUnique
<1>6. PICK n \in Nat : n = Small(e, k) /\ u < n /\ n <= e /\ n <= k /\ (n = e \/ n = k)
    BY <1>2, <1>3, <1>4 DEF Small
<1>7. Strip(t) = u .. n - 1
    BY <1>1, <1>2, <1>3, <1>4, <1>6 DEF Strip
<1>8. Cardinality(u .. n - 1) = n - u
    <2>1. u \in Int /\ n - 1 \in Int /\ ~(u > n - 1)
        BY <1>6
    <2>2. Cardinality(u .. n - 1) = (n - 1) - u + 1
        BY <2>1, FS_Interval
    <2>. QED BY <2>2
<1>9. n = k => n \div P > s \div P
    <2>1. s \div P <= u \div P /\ s \div P \in Nat
        BY <1>2, QuotientsGrow, Quotients
    <2>. QED BY <1>3, <1>5, <2>1
<1>10. At(t, n)
    BY <1>1, <1>2, <1>6, <1>9 DEF At
<1>11. Transposes => n = u + 1
    <2>. SUFFICES ASSUME Transposes PROVE n = u + 1
        OBVIOUS
    <2>1. P = 1
        BY <1>1 DEF UnitsOk
    <2>2. q = u
        BY <1>3, <2>1
    <2>. QED BY <1>2, <1>4, <1>6, <2>1, <2>2
<1>. QED BY <1>2, <1>6, <1>7, <1>8, <1>10, <1>11

\* What the kernel overwrites is the first strip.
LEMMA FirstIs ==
    ASSUME GridOk, UnitsOk, NEW t \in Threads, At(t, unit[t]), unit[t] # UnitEnd(t)
    PROVE  FirstImage(t) <=> unit[t] = UnitStart(t)
<1>1. UnitStart(t) \div PerImage \in Nat
    BY UnitsOf, Quotients DEF UnitsOk
<1>. QED BY <1>1 DEF At, FirstImage

------------------------------------------------------------------------------
(* How far the threads are                                                 *)

Extra(place) == IF place \in Inside THEN 1 ELSE IF place = "kernel" THEN 2 ELSE 0

\* How often a thread has left the barrier of its mates.
Turned(t) == 2 * (unit[t] - UnitStart(t)) + Extra(pc[t])

UnitPlace(t) ==
    /\ At(t, unit[t])
    /\ pc[t] \in Early \ {"images"} => unit[t] # UnitEnd(t)
    /\ pc[t] \notin Early => unit[t] = UnitEnd(t)

TurnsAre(t) == Transposes /\ grid.oc > 1 => Went(ithr_but_oc(t), t) = Turned(t)

BiasPlace(t) == pc[t] \in {"bias barrier", "bias"} => jcp.with_bias /\ jcp.harness # "mb"

Progress == /\ unit \in [Threads -> Nat]
            /\ \A t \in Threads : UnitPlace(t) /\ TurnsAre(t) /\ BiasPlace(t)

\* A step may take thread t to a place, past d barriers of its mates, and on to
\* unit n.
Advance(t, to, d, n) ==
    \/ to = pc[t] /\ d = 0 /\ n = unit[t]
    \/ pc[t] = "before" /\ to = "transpose" /\ d = 1 /\ n = unit[t]
    \/ pc[t] = "after" /\ to = "kernel" /\ d = 1 /\ n = unit[t]
    \/ pc[t] = "partial" /\ to = "add" /\ d = 0 /\ n = unit[t]
    \/ pc[t] = "bias barrier" /\ to = "bias" /\ d = 0 /\ n = unit[t]
    \/ /\ pc[t] = "images" /\ unit[t] # UnitEnd(t) /\ d = 0 /\ n = unit[t]
       /\ \/ to = "kernel" /\ ~Transposes
          \/ to = "before" /\ Transposes
          \/ to = "transpose" /\ ~(grid.oc > 1)
    \/ /\ pc[t] = "transpose" /\ d = 0 /\ n = unit[t]
       /\ to = IF grid.oc > 1 THEN "after" ELSE "kernel"
    \/ /\ pc[t] = "kernel" /\ d = 0 /\ n = unit[t] + Cardinality(Strip(t))
       /\ to = "images"
    \/ /\ pc[t] = "images" /\ unit[t] = UnitEnd(t) /\ d = 0 /\ n = unit[t]
       /\ to \in {"end of section", ToReduction}
    \/ pc[t] = "add" /\ to = ToBias /\ d = 0 /\ n = unit[t]
    \/ pc[t] = "bias" /\ to = "done" /\ d = 0 /\ n = unit[t]

\* Thread t does so, all others stay where they are.
Advances(t, to, d, n) ==
    /\ \A u \in Threads : /\ pc'[u] = IF u = t THEN to ELSE pc[u]
                          /\ unit'[u] = IF u = t THEN n ELSE unit[u]
                          /\ Went(ithr_but_oc(u), u)' = Went(ithr_but_oc(u), u)
                                                            + (IF u = t THEN d ELSE 0)
    /\ unit' = [u \in Threads |-> unit'[u]]
    /\ UNCHANGED static

LEMMA ArriveAdvances ==
    ASSUME Control, unit \in [Threads -> Nat], NEW t \in Threads, Arrive(t)
    PROVE  Advance(t, pc[t], 0, unit[t]) /\ Advances(t, pc[t], 0, unit[t])
<1>1. UNCHANGED <<static, pc, unit>> /\ left' = left
    <2>1. UNCHANGED <<static, pc, unit, memory>>
        BY DEF Arrive
    <2>2. PICK m \in {{Waiting(t).c} \X Waiting(t).m} : Bar(m)!Enter(<<Waiting(t).c, t>>)
        BY DEF Arrive
    <2>3. left' = left
        BY <2>2 DEF Bar!Enter
    <2>. QED BY <2>1, <2>3
<1>2. \A u \in Threads : Went(ithr_but_oc(u), u) \in Nat
    BY GridIsOk, ContextsDiffer DEF Control, BarriersType, Went
<1>3. \A u : Went(ithr_but_oc(u), u)' = Went(ithr_but_oc(u), u)
    BY <1>1, StaysGiven DEF Went
<1>4. Advance(t, pc[t], 0, unit[t])
    BY DEF Advance
<1>. QED BY <1>1, <1>2, <1>3, <1>4 DEF Advances

LEMMA PassAdvances ==
    ASSUME Control, unit \in [Threads -> Nat], NEW t \in Threads, Pass(t)
    PROVE  \E to \in Places, d \in {0, 1} :
               Advance(t, to, d, unit[t]) /\ Advances(t, to, d, unit[t])
<1>1. GridOk /\ BarriersType
    BY GridIsOk DEF Control
<1>2. pc[t] \in {"before", "after", "partial", "bias barrier"}
    BY DEF Pass, InBarrier
<1>3. PICK c \in Contexts, to \in Places, m \in SUBSET Threads :
         /\ c = Waiting(t).c /\ to = Waiting(t).to /\ m = Waiting(t).m
    <2>1. /\ ithr_but_oc(t) \in Contexts /\ WeiReduction \in Contexts
          /\ Team \in Contexts /\ TrMates(t) \in SUBSET Threads
        BY <1>1, ContextsDiffer DEF TrMates
    <2>2. /\ Waiting(t).c \in Contexts /\ Waiting(t).m \in SUBSET Threads
          /\ Waiting(t).to \in Places
        BY <1>2, <2>1, WaitingIs DEF Places, Early, Late
    <2>. QED BY <2>2
<1>4. Leaves(c, t, m, to)
    BY <1>1, <1>3, Passing
<1>5. PICK d \in {0, 1} : d = IF pc[t] \in {"before", "after"} THEN 1 ELSE 0
    OBVIOUS
<1>6. Advance(t, to, d, unit[t])
    BY <1>2, <1>3, <1>5, WaitingIs DEF Advance
<1>7. \A u \in Threads : ithr_but_oc(u)' = ithr_but_oc(u) /\ ithr_but_oc(u) \in Contexts
    BY <1>1, <1>4, StaysGiven, ContextsDiffer DEF Leaves
<1>8. c = ithr_but_oc(t) <=> d = 1
    <2>1. ithr_but_oc(t) # WeiReduction /\ ithr_but_oc(t) # Team
        BY <1>1, ContextsDiffer
    <2>2. CASE pc[t] \in {"before", "after"}
        <3>1. Waiting(t).c = ithr_but_oc(t)
            BY <2>2, WaitingIs
        <3>. QED BY <1>3, <1>5, <2>2, <3>1
    <2>3. CASE pc[t] \in {"partial", "bias barrier"}
        <3>1. Waiting(t).c \in {WeiReduction, Team} /\ d = 0
            BY <1>5, <2>3, WaitingIs
        <3>. QED BY <1>3, <2>1, <3>1
    <2>. QED BY <1>2, <2>2, <2>3
<1>9. ASSUME NEW u \in Threads
      PROVE  Went(ithr_but_oc(u), u)' = Went(ithr_but_oc(u), u) + (IF u = t THEN d ELSE 0)
    <2>1. PICK e \in Contexts : e = ithr_but_oc(u) /\ e = ithr_but_oc(u)'
        BY <1>7
    <2>2. Went(ithr_but_oc(u), u)' = left'[<<e, u>>]
        BY <2>1 DEF Went
    <2>3. left'[<<e, u>>] = IF e = c /\ u = t THEN Went(c, t) + 1 ELSE Went(e, u)
        BY <1>4 DEF Leaves
    <2>4. Went(e, u) \in Nat
        BY <1>1 DEF BarriersType, Went
    <2>5. CASE u = t
        <3>1. e = c <=> d = 1
            BY <1>8, <2>1, <2>5
        <3>2. left'[<<e, u>>] = IF e = c THEN Went(c, u) + 1 ELSE Went(e, u)
            BY <2>3, <2>5
        <3>. QED BY <2>1, <2>2, <2>4, <2>5, <3>1, <3>2
    <2>6. CASE u # t
        BY <2>1, <2>2, <2>3, <2>4, <2>6
    <2>. QED BY <2>5, <2>6
<1>10. UNCHANGED static /\ unit' = unit /\ pc' = [pc EXCEPT ![t] = to]
    BY <1>4 DEF Leaves
<1>11. \A u \in Threads : pc'[u] = IF u = t THEN to ELSE pc[u]
    BY <1>1, <1>10 DEF BarriersType
<1>12. Advances(t, to, d, unit[t])
    BY <1>9, <1>10, <1>11 DEF Advances
<1>. QED BY <1>6, <1>12

\* The steps without a barrier.
LEMMA LocalAdvances ==
    ASSUME Control, unit \in [Threads -> Nat], \A u \in Threads : At(u, unit[u]), NEW t \in Threads,
           NextImage(t) \/ Transpose(t) \/ Kernel(t) \/ ImagesDone(t) \/ AddUp(t) \/ ReduceBias(t)
    PROVE  \E to \in Places : \E n : Advance(t, to, 0, n) /\ Advances(t, to, 0, n)
<1>1. PICK to \in Places : Way(pc[t], to) /\ pc' = [pc EXCEPT ![t] = to]
    BY LocalWay
<1>2. UNCHANGED <<static, barriers>>
    BY LocalWay
<1>3. GridOk /\ BarriersType /\ UnitsOk
    BY GridIsOk, UnitsAreOk DEF Control
<1>4. PICK n : n = IF Kernel(t) THEN unit[t] + Cardinality(Strip(t)) ELSE unit[t]
    OBVIOUS
<1>5. unit' = [unit EXCEPT ![t] = n]
    <2>1. CASE Kernel(t)
        <3>1. unit' = [unit EXCEPT ![t] = @ + Cardinality(Strip(t))]
            BY <2>1 DEF Kernel
        <3>. QED BY <1>4, <2>1, <3>1
    <2>2. CASE ~Kernel(t)
        <3>1. unit' = unit
            BY <2>2 DEF NextImage, Transpose, ImagesDone, AddUp, ReduceBias
        <3>. QED BY <1>4, <2>2, <3>1
    <2>. QED BY <2>1, <2>2
<1>6. Advance(t, to, 0, n)
    <2>0. UnitStart(t) \in Nat /\ UnitEnd(t) \in Nat /\ unit[t] \in Nat /\ unit[t] <= UnitEnd(t)
        BY <1>3, UnitsOf DEF At
    <2>1. CASE NextImage(t)
        <3>1. pc[t] = "images" /\ unit[t] # UnitEnd(t)
            BY <2>0, <2>1 DEF NextImage
        <3>2. to \in {"kernel", "before", "transpose"} /\ ~Kernel(t)
            <4>1. pc'[t] = to
                BY <1>1, <1>3 DEF BarriersType
            <4>2. pc'[t] \in {"kernel", "before", "transpose"}
                BY <1>3, <2>1 DEF NextImage, Goto, BarriersType
            <4>3. ~Kernel(t)
                BY <3>1 DEF Kernel, Move
            <4>. QED BY <4>1, <4>2, <4>3
        <3>3. \/ to = "kernel" /\ ~Transposes
              \/ to = "before" /\ Transposes
              \/ to = "transpose" /\ ~(grid.oc > 1)
            <4>1. ToReduction \notin {"kernel", "before", "transpose"}
                BY <1>3, Reductions DEF Control, Given
            <4>. QED BY <1>1, <3>1, <3>2, <4>1 DEF Way
        <3>. QED BY <1>4, <3>1, <3>2, <3>3 DEF Advance
    <2>2. CASE Transpose(t)
        <3>1. pc[t] = "transpose" /\ ~Kernel(t)
            BY <2>2 DEF Transpose, Kernel, Move
        <3>. QED BY <1>1, <1>4, <3>1 DEF Advance, Way
    <2>3. CASE Kernel(t)
        <3>1. pc[t] = "kernel"
            BY <2>3 DEF Kernel, Move
        <3>. QED BY <1>1, <1>4, <2>3, <3>1 DEF Advance, Way
    <2>4. CASE ImagesDone(t)
        <3>1. pc[t] = "images" /\ unit[t] = UnitEnd(t) /\ ~Kernel(t)
            BY <2>4 DEF ImagesDone, Kernel, Move
        <3>2. pc'[t] = to
            BY <1>1, <1>3 DEF BarriersType
        <3>3. pc'[t] \in {"end of section", ToReduction}
            BY <1>3, <2>4 DEF ImagesDone, Goto, BarriersType
        <3>. QED BY <1>4, <3>1, <3>2, <3>3 DEF Advance
    <2>5. CASE AddUp(t)
        <3>1. pc[t] = "add" /\ ~Kernel(t)
            BY <2>5 DEF AddUp, Kernel, Move
        <3>. QED BY <1>1, <1>4, <3>1 DEF Advance, Way
    <2>6. CASE ReduceBias(t)
        <3>1. pc[t] = "bias" /\ ~Kernel(t)
            BY <2>6 DEF ReduceBias, Kernel, Move
        <3>. QED BY <1>1, <1>4, <3>1 DEF Advance, Way
    <2>. QED BY <2>1, <2>2, <2>3, <2>4, <2>5, <2>6
<1>7. \A u \in Threads : /\ Went(ithr_but_oc(u), u)' = Went(ithr_but_oc(u), u)
                         /\ Went(ithr_but_oc(u), u) \in Nat
    <2>1. \A u \in Threads : Went(ithr_but_oc(u), u) \in Nat
        BY <1>3, ContextsDiffer DEF BarriersType, Went
    <2>2. \A u : Went(ithr_but_oc(u), u)' = Went(ithr_but_oc(u), u)
        BY <1>2, StaysGiven DEF Went, barriers
    <2>. QED BY <2>1, <2>2
<1>8. \A u \in Threads : pc'[u] = IF u = t THEN to ELSE pc[u]
    BY <1>1, <1>3 DEF BarriersType
<1>9. \A u \in Threads : unit'[u] = IF u = t THEN n ELSE unit[u]
    BY <1>5
<1>10. unit' = [u \in Threads |-> unit'[u]]
    BY <1>5
<1>11. Advances(t, to, 0, n)
    BY <1>2, <1>7, <1>8, <1>9, <1>10 DEF Advances
<1>. QED BY <1>6, <1>11

LEMMA ProgressInit == Init => Progress
<1>. SUFFICES ASSUME Init PROVE Progress
    OBVIOUS
<1>1. Given /\ GridOk /\ UnitsOk
    <2>1. Given
        BY DEF Init, Given
    <2>. QED BY <2>1, GridIsOk, UnitsAreOk
<1>2. unit = [t \in Threads |-> UnitStart(t)]
    BY DEF Init
<1>3. ASSUME NEW t \in Threads PROVE UnitStart(t) \in Nat /\ UnitPlace(t) /\ TurnsAre(t) /\ BiasPlace(t)
    <2>1. /\ UnitStart(t) \in Nat /\ UnitEnd(t) \in Nat /\ UnitStart(t) < UnitEnd(t)
          /\ unit[t] = UnitStart(t) /\ pc[t] = "images"
        BY <1>1, <1>2, UnitsOf DEF Init
    <2>2. UnitPlace(t) /\ BiasPlace(t)
        BY <2>1 DEF UnitPlace, BiasPlace, At, Early
    <2>3. TurnsAre(t)
        <3>1. Went(ithr_but_oc(t), t) = 0
            BY <1>1, ContextsDiffer DEF Init, Went
        <3>2. Turned(t) = 0
            BY <2>1 DEF Turned, Extra, Inside
        <3>. QED BY <3>1, <3>2 DEF TurnsAre
    <2>. QED BY <2>1, <2>2, <2>3
<1>4. unit \in [Threads -> Nat]
    BY <1>2, <1>3
<1>. QED BY <1>3, <1>4 DEF Progress

\* What does not change with the steps.
LEMMA StaysShared ==
    ASSUME UNCHANGED static
    PROVE  /\ \A t : UnitStart(t)' = UnitStart(t) /\ UnitEnd(t)' = UnitEnd(t)
           /\ PerImage' = PerImage /\ Units' = Units /\ BiasInKernel' = BiasInKernel
           /\ WeiCells' = WeiCells /\ BiaCells' = BiaCells /\ TrRows' = TrRows
           /\ \A t : ithr_mb(t)' = ithr_mb(t) /\ MyShare(t)' = MyShare(t)
           /\ \A t : MyCells(t)' = MyCells(t) /\ MyBias(t)' = MyBias(t)
           /\ \A t : MyTrRows(t)' = MyTrRows(t)
           /\ Slices' = Slices
<1>1. grid' = grid /\ jcp' = jcp /\ sync' = sync
    BY DEF static
<1>2. /\ \A t : ithr_mb(t)' = ithr_mb(t) /\ ithr_g(t)' = ithr_g(t)
      /\ \A t : ithr_oc_b(t)' = ithr_oc_b(t) /\ ithr_ic_b(t)' = ithr_ic_b(t)
    BY <1>1 DEF ithr_mb, ithr_g, ithr_oc_b, ithr_ic_b
<1>3. PerImage' = PerImage /\ Units' = Units /\ Slices' = Slices /\ BiasInKernel' = BiasInKernel
    BY <1>1 DEF PerImage, Units, Slices, BiasInKernel
<1>4. \A t : UnitStart(t)' = UnitStart(t) /\ UnitEnd(t)' = UnitEnd(t)
    BY <1>1, <1>2, <1>3 DEF UnitStart, UnitEnd
<1>5. \A t : Gs(t)' = Gs(t) /\ OcBs(t)' = OcBs(t) /\ IcBs(t)' = IcBs(t)
    BY <1>1, <1>2 DEF Gs, OcBs, IcBs
<1>6. \A t : MyCells(t)' = MyCells(t) /\ MyBias(t)' = MyBias(t)
    BY <1>3, <1>5 DEF MyCells, MyBias
<1>7. WeiCells' = WeiCells /\ BiaCells' = BiaCells /\ TrRows' = TrRows
    BY <1>1, <1>3 DEF WeiCells, BiaCells, TrRows
<1>8. \A t : MyShare(t)' = MyShare(t)
    BY <1>1, <1>2, <1>3, <1>5 DEF MyShare
<1>9. \A t : MyTrRows(t)' = MyTrRows(t)
    BY <1>1, <1>2, <1>5 DEF MyTrRows
<1>. QED BY <1>2, <1>3, <1>4, <1>6, <1>7, <1>8, <1>9

\* A thread that did not take a step is where it was.
LEMMA ProgressStays ==
    ASSUME Progress, NEW t \in Threads, UNCHANGED static,
           pc'[t] = pc[t], unit'[t] = unit[t],
           Went(ithr_but_oc(t), t)' = Went(ithr_but_oc(t), t)
    PROVE  UnitPlace(t)' /\ TurnsAre(t)' /\ BiasPlace(t)'
<1>1. UnitPlace(t) /\ TurnsAre(t) /\ BiasPlace(t)
    BY DEF Progress
<1>2. /\ UnitStart(t)' = UnitStart(t) /\ UnitEnd(t)' = UnitEnd(t) /\ PerImage' = PerImage
      /\ grid' = grid /\ jcp' = jcp /\ Transposes' = Transposes
    BY StaysShared, StaysGiven
<1>3. UnitPlace(t)'
    BY <1>1, <1>2 DEF UnitPlace, At
<1>4. TurnsAre(t)'
    BY <1>1, <1>2 DEF TurnsAre, Turned
<1>5. BiasPlace(t)'
    BY <1>1, <1>2 DEF BiasPlace
<1>. QED BY <1>3, <1>4, <1>5

\* How the step changes what the barrier of the mates counts.
LEMMA AdvanceCounts ==
    ASSUME Control, Progress, NEW t \in Threads, NEW to \in Places, NEW d \in {0, 1}, NEW n,
           Advance(t, to, d, n)
    PROVE  /\ At(t, n) /\ n \in Nat
           /\ to \in Early \ {"images"} => n # UnitEnd(t)
           /\ to \notin Early => n = UnitEnd(t)
           /\ Transposes /\ grid.oc > 1 =>
                 2 * (n - UnitStart(t)) + Extra(to) = Turned(t) + d
           /\ to \in {"bias barrier", "bias"} => jcp.with_bias /\ jcp.harness # "mb"
<1>1. GridOk /\ UnitsOk /\ sync \in BOOLEAN
    BY GridIsOk, UnitsAreOk DEF Control, Given
<1>2. UnitPlace(t) /\ BiasPlace(t)
    BY DEF Progress
<1>3. PICK s \in Nat, e \in Nat, u \in Nat :
         s = UnitStart(t) /\ e = UnitEnd(t) /\ u = unit[t] /\ s < e
    BY <1>1, UnitsOf DEF Progress
<1>4. /\ ToBias \in {"done", "bias", "bias barrier"}
      /\ ToReduction \in {"done", "bias", "bias barrier", "partial", "add"}
    BY <1>1, Reductions
<1>5. /\ ToBias \in {"bias", "bias barrier"} => jcp.with_bias /\ jcp.harness # "mb"
      /\ ToReduction \in {"bias", "bias barrier"} => jcp.with_bias /\ jcp.harness # "mb"
    <2>1. ToBias \in {"bias", "bias barrier"} => jcp.with_bias /\ jcp.harness # "mb"
        BY DEF ToBias
    <2>2. ToReduction \in {ToBias, "partial", "add"}
        BY DEF ToReduction
    <2>. QED BY <2>1, <2>2
<1>6. CASE pc[t] = "kernel" /\ to = "images"
    <2>1. d = 0 /\ n = unit[t] + Cardinality(Strip(t))
        BY <1>6 DEF Advance
    <2>2. unit[t] # UnitEnd(t) /\ At(t, unit[t])
        BY <1>2, <1>6 DEF UnitPlace, Early
    <2>3. n \in Nat /\ At(t, n) /\ (Transposes => n = unit[t] + 1)
        BY <1>1, <2>1, <2>2, StripIs
    <2>4. Transposes => 2 * (n - UnitStart(t)) + Extra(to) = Turned(t) + d
        BY <1>3, <1>6, <2>1, <2>3 DEF Extra, Turned, Inside
    <2>. QED BY <1>6, <2>3, <2>4 DEF Early
<1>7. CASE ~(pc[t] = "kernel" /\ to = "images")
    <2>1. n = unit[t]
        BY <1>7 DEF Advance
    <2>2. At(t, n) /\ n \in Nat
        BY <1>2, <1>3, <2>1 DEF UnitPlace
    <2>3. to \in Early \ {"images"} => n # UnitEnd(t)
        BY <1>2, <1>4, <1>7, <2>1 DEF UnitPlace, Advance, Early
    <2>4. to \notin Early => n = UnitEnd(t)
        BY <1>2, <1>4, <1>7, <2>1 DEF UnitPlace, Advance, Early
    <2>5. Transposes /\ grid.oc > 1 => Extra(to) = Extra(pc[t]) + d
        <3>. SUFFICES ASSUME Transposes, grid.oc > 1 PROVE Extra(to) = Extra(pc[t]) + d
            OBVIOUS
        <3>1. /\ \A p : p \notin {"transpose", "after", "kernel"} => Extra(p) = 0
              /\ Extra("transpose") = 1 /\ Extra("after") = 1 /\ Extra("kernel") = 2
            BY DEF Extra, Inside
        <3>2. \/ to = pc[t] /\ d = 0
              \/ pc[t] = "before" /\ to = "transpose" /\ d = 1
              \/ pc[t] = "after" /\ to = "kernel" /\ d = 1
              \/ pc[t] = "transpose" /\ to = "after" /\ d = 0
              \/ pc[t] \notin {"transpose", "after", "kernel"} /\ d = 0
                 /\ to \notin {"transpose", "after", "kernel"}
            BY <1>4, <1>7 DEF Advance
        <3>3. Extra(pc[t]) \in Int
            BY DEF Extra
        <3>. QED BY <3>1, <3>2, <3>3
    <2>6. Transposes /\ grid.oc > 1 => 2 * (n - UnitStart(t)) + Extra(to) = Turned(t) + d
        <3>1. Extra(to) \in Int /\ Extra(pc[t]) \in Int
            BY DEF Extra
        <3>. QED BY <1>3, <2>1, <2>5, <3>1 DEF Turned
    <2>7. to \in {"bias barrier", "bias"} => jcp.with_bias /\ jcp.harness # "mb"
        BY <1>2, <1>4, <1>5, <1>7 DEF BiasPlace, Advance
    <2>. QED BY <2>2, <2>3, <2>4, <2>6, <2>7
<1>. QED BY <1>6, <1>7

LEMMA ProgressAdvance ==
    ASSUME Control, Progress, NEW t \in Threads, NEW to \in Places, NEW d \in {0, 1}, NEW n,
           Advance(t, to, d, n), Advances(t, to, d, n)
    PROVE  Progress'
<1>1. /\ At(t, n) /\ n \in Nat
      /\ to \in Early \ {"images"} => n # UnitEnd(t)
      /\ to \notin Early => n = UnitEnd(t)
      /\ Transposes /\ grid.oc > 1 => 2 * (n - UnitStart(t)) + Extra(to) = Turned(t) + d
      /\ to \in {"bias barrier", "bias"} => jcp.with_bias /\ jcp.harness # "mb"
    BY AdvanceCounts
<1>2. UNCHANGED static
    BY DEF Advances
<1>3. /\ Threads' = Threads /\ Transposes' = Transposes /\ grid' = grid /\ jcp' = jcp
      /\ PerImage' = PerImage
      /\ \A u : UnitStart(u)' = UnitStart(u) /\ UnitEnd(u)' = UnitEnd(u)
    BY <1>2, StaysGiven, StaysShared
<1>4. pc'[t] = to /\ unit'[t] = n
      /\ Went(ithr_but_oc(t), t)' = Went(ithr_but_oc(t), t) + d
    BY DEF Advances
<1>5. UnitPlace(t)' /\ BiasPlace(t)'
    BY <1>1, <1>3, <1>4 DEF UnitPlace, BiasPlace, At
<1>6. TurnsAre(t)'
    <2>1. Transposes /\ grid.oc > 1 => Went(ithr_but_oc(t), t) = Turned(t)
        BY DEF Progress, TurnsAre
    <2>2. Turned(t)' = 2 * (n - UnitStart(t)) + Extra(to)
        BY <1>3, <1>4 DEF Turned
    <2>. QED BY <1>1, <1>3, <1>4, <2>1, <2>2 DEF TurnsAre
<1>7. ASSUME NEW u \in Threads, u # t PROVE UnitPlace(u)' /\ TurnsAre(u)' /\ BiasPlace(u)'
    <2>1. pc'[u] = pc[u] /\ unit'[u] = unit[u]
        BY <1>7 DEF Advances
    <2>2. Went(ithr_but_oc(u), u)' = Went(ithr_but_oc(u), u)
        <3>1. Went(ithr_but_oc(u), u)' = Went(ithr_but_oc(u), u) + 0
            BY <1>7 DEF Advances
        <3>2. Went(ithr_but_oc(u), u) \in Nat
            BY GridIsOk, ContextsDiffer DEF Control, BarriersType, Went
        <3>. QED BY <3>1, <3>2
    <2>. QED BY <1>2, <2>1, <2>2, ProgressStays
<1>8. unit' \in [Threads -> Nat]
    <2>1. \A u \in Threads : unit'[u] \in Nat
        BY <1>1 DEF Advances, Progress
    <2>. QED BY <2>1 DEF Advances
<1>. QED BY <1>3, <1>5, <1>6, <1>7, <1>8 DEF Progress

LEMMA ProgressSecond ==
    ASSUME Control, Progress, SecondSection
    PROVE  Progress'
<1>1. GridOk /\ sync \in BOOLEAN
    BY GridIsOk DEF Control, Given
<1>2. UNCHANGED <<static, unit, left>> /\ \A t \in Threads : pc'[t] = ToReduction
    BY DEF SecondSection, barriers
<1>3. /\ Threads' = Threads /\ Transposes' = Transposes /\ grid' = grid /\ jcp' = jcp
      /\ PerImage' = PerImage
      /\ \A u : UnitStart(u)' = UnitStart(u) /\ UnitEnd(u)' = UnitEnd(u)
      /\ \A u : ithr_but_oc(u)' = ithr_but_oc(u)
    BY <1>2, StaysGiven, StaysShared
<1>4. ToReduction \in {"done", "bias", "bias barrier", "partial", "add"}
    BY <1>1, Reductions
<1>5. ToReduction \in {"bias", "bias barrier"} => jcp.with_bias /\ jcp.harness # "mb"
    <2>1. ToBias \in {"bias", "bias barrier"} => jcp.with_bias /\ jcp.harness # "mb"
        BY DEF ToBias
    <2>2. ToReduction \in {ToBias, "partial", "add"}
        BY DEF ToReduction
    <2>. QED BY <2>1, <2>2
<1>6. ASSUME NEW t \in Threads PROVE UnitPlace(t)' /\ TurnsAre(t)' /\ BiasPlace(t)'
    <2>1. pc[t] = "end of section" /\ UnitPlace(t) /\ TurnsAre(t)
        BY DEF SecondSection, Progress
    <2>2. UnitPlace(t)'
        BY <1>2, <1>3, <1>4, <2>1 DEF UnitPlace, At, Early
    <2>3. BiasPlace(t)'
        BY <1>2, <1>3, <1>5 DEF BiasPlace
    <2>4. TurnsAre(t)'
        <3>1. Extra(ToReduction) = Extra("end of section")
            BY <1>4 DEF Extra, Inside
        <3>2. Turned(t)' = Turned(t)
            BY <1>2, <1>3, <2>1, <3>1 DEF Turned
        <3>. QED BY <1>2, <1>3, <2>1, <3>2 DEF TurnsAre, Went
    <2>. QED BY <2>2, <2>3, <2>4
<1>7. unit' \in [Threads -> Nat]
    BY <1>2, <1>3 DEF Progress
<1>. QED BY <1>3, <1>6, <1>7 DEF Progress

LEMMA ProgressSame ==
    ASSUME Progress, UNCHANGED vars
    PROVE  Progress'
<1>1. UNCHANGED <<static, pc, unit, left>>
    BY DEF vars, static
<1>2. Threads' = Threads /\ \A t : ithr_but_oc(t)' = ithr_but_oc(t)
    BY <1>1, StaysGiven
<1>3. \A t \in Threads : UnitPlace(t)' /\ TurnsAre(t)' /\ BiasPlace(t)'
    BY <1>1, <1>2, ProgressStays DEF Went
<1>. QED BY <1>1, <1>2, <1>3 DEF Progress

LEMMA ProgressStep == Control /\ Progress /\ [Next]_vars => Progress'
<1>. SUFFICES ASSUME Control, Progress, [Next]_vars PROVE Progress'
    OBVIOUS
<1>0. unit \in [Threads -> Nat] /\ \A u \in Threads : At(u, unit[u])
    BY DEF Progress, UnitPlace
<1>1. CASE UNCHANGED vars
    BY <1>1, ProgressSame
<1>2. CASE SecondSection
    BY <1>2, ProgressSecond
<1>3. ASSUME NEW t \in Threads, Step(t) PROVE Progress'
    <2>1. CASE Arrive(t)
        <3>1. pc[t] \in Places /\ 0 \in {0, 1}
            BY DEF Control, BarriersType
        <3>. QED BY <1>0, <2>1, <3>1, ArriveAdvances, ProgressAdvance
    <2>2. CASE Pass(t)
        BY <1>0, <2>2, PassAdvances, ProgressAdvance
    <2>3. CASE Spin(t)
        BY <2>3, ProgressSame DEF Spin
    <2>4. CASE NextImage(t) \/ Transpose(t) \/ Kernel(t) \/ ImagesDone(t) \/ AddUp(t) \/ ReduceBias(t)
        <3>1. PICK to \in Places, n \in {unit[t], unit[t] + Cardinality(Strip(t))} :
                 Advance(t, to, 0, n) /\ Advances(t, to, 0, n)
            <4>1. \E to \in Places : \E n : Advance(t, to, 0, n) /\ Advances(t, to, 0, n)
                BY <1>0, <2>4, LocalAdvances
            <4>2. \A to, n : Advance(t, to, 0, n) => n \in {unit[t], unit[t] + Cardinality(Strip(t))}
                BY DEF Advance
            <4>. QED BY <4>1, <4>2
        <3>2. 0 \in {0, 1}
            OBVIOUS
        <3>. QED BY <3>1, <3>2, ProgressAdvance
    <2>. QED BY <1>3, <2>1, <2>2, <2>3, <2>4 DEF Step
<1>. QED BY <1>1, <1>2, <1>3 DEF Next

------------------------------------------------------------------------------
(* What the transposed rows hold                                           *)

\* A single thread transposes everything.
LEMMA LoneRows ==
    ASSUME GridOk, nthr = 1, NEW t \in Threads
    PROVE  MyTrRows(t) = TrRows
<1>1. grid.mb = 1 /\ grid.g = 1 /\ grid.oc = 1 /\ grid.ic = 1
    <2>1. PICK a \in Nat \ {0}, b \in Nat \ {0}, c \in Nat \ {0}, d \in Nat \ {0} :
             a = grid.mb /\ b = grid.g /\ c = grid.oc /\ d = grid.ic
        BY DEF GridOk
    <2>2. a * b * c * d = 1
        BY <2>1 DEF nthr
    <2>3. PICK p \in Nat \ {0}, q \in Nat \ {0} : p = a * b /\ q = p * c
        OBVIOUS
    <2>4. \A x, y \in Nat \ {0} : x * y = 1 => x = 1 /\ y = 1
        <3>. SUFFICES ASSUME NEW x \in Nat \ {0}, NEW y \in Nat \ {0}, x * y = 1
                      PROVE  x = 1 /\ y = 1
            OBVIOUS
        <3>1. x * 1 <= x * y
            BY ProductsGrow
        <3>2. x = 1
            BY <3>1
        <3>. QED BY <3>2
    <2>5. q * d = 1
        BY <2>2, <2>3
    <2>6. q = 1 /\ d = 1
        BY <2>4, <2>5
    <2>7. p = 1 /\ c = 1
        BY <2>3, <2>4, <2>6
    <2>8. a = 1 /\ b = 1
        BY <2>3, <2>4, <2>7
    <2>. QED BY <2>1, <2>6, <2>7, <2>8
<1>2. PICK G \in Nat \ {0}, N \in Nat \ {0}, H \in Nat \ {0} :
         G = jcp.ngroups /\ N = jcp.nb_ic /\ H = jcp.ih
    BY DEF GridOk
<1>3. \A n, x : Start(n, 1, x) = 0 /\ Size(n, 1, x) = n
    BY DEF Start, Size
<1>4. Cardinality(Gs(t)) = G /\ Cardinality(IcBs(t)) = N
    <2>1. \A x : \A n \in Nat \ {0} : Cardinality(Of(n, 1, x)) = n
        <3>. SUFFICES ASSUME NEW x, NEW n \in Nat \ {0} PROVE Cardinality(Of(n, 1, x)) = n
            OBVIOUS
        <3>1. Of(n, 1, x) = 0 .. n - 1
            BY <1>3 DEF Of, End
        <3>2. 0 \in Int /\ n - 1 \in Int /\ ~(0 > n - 1)
            OBVIOUS
        <3>3. Cardinality(0 .. n - 1) = (n - 1) - 0 + 1
            BY <3>2, FS_Interval
        <3>. QED BY <3>1, <3>3
    <2>. QED BY <1>1, <1>2, <2>1 DEF Gs, IcBs
<1>5. PICK W \in Nat \ {0} : W = G * N * H
    <2>1. PICK k \in Nat \ {0} : k = G * N
        OBVIOUS
    <2>2. k * H \in Nat \ {0}
        OBVIOUS
    <2>. QED BY <2>1, <2>2
<1>6. \A b \in Nat \ {0} : 0 \div b = 0 /\ 0 % b = 0
    <2>. SUFFICES ASSUME NEW b \in Nat \ {0} PROVE 0 \div b = 0 /\ 0 % b = 0
        OBVIOUS
    <2>1. 0 = 0 * b + 0 /\ 0 \in 0 .. b - 1
        OBVIOUS
    <2>. QED BY <2>1, RowMajorIsUnique
<1>7. MyTrRows(t) = LET g == 0 + 0 \div (N * H)
                        ic_b == 0 + ((0 \div H) % N)
                        first == (g * N + ic_b) * H + (0 % H)
                    IN  first .. first + W - 1
    BY <1>1, <1>2, <1>3, <1>4, <1>5 DEF MyTrRows
<1>8. N * H \in Nat \ {0}
    OBVIOUS
<1>9. MyTrRows(t) = ((0 + 0) * N + (0 + 0)) * H + 0 .. ((0 + 0) * N + (0 + 0)) * H + 0 + W - 1
    BY <1>6, <1>7, <1>8
<1>10. MyTrRows(t) = 0 .. W - 1
    BY <1>9
<1>. QED BY <1>2, <1>5, <1>10 DEF TrRows

LEMMA RowsOfAll ==
    ASSUME GridOk, NEW t \in Threads
    PROVE  OwnRows(t) \subseteq TrRows /\ MyTrRows(t) \subseteq TrRows
<1>1. OwnRows(t) \subseteq TrRows
    <2>. SUFFICES ASSUME NEW r \in OwnRows(t) PROVE r \in TrRows
        OBVIOUS
    <2>1. PICK g \in Gs(t), b \in IcBs(t) : r \in BlockRows(g, b)
        BY DEF OwnRows
    <2>2. g \in 0 .. jcp.ngroups - 1 /\ b \in 0 .. jcp.nb_ic - 1
        BY OwnBlocks
    <2>. QED BY <2>1, <2>2, BlockOfRow
<1>2. CASE grid.g = jcp.ngroups
    BY <1>1, <1>2, MatesTranspose
<1>3. CASE nthr = 1
    BY <1>1, <1>3, LoneRows
<1>. QED BY <1>1, <1>2, <1>3 DEF GridOk

\* The last image of which thread t has transposed its rows.
LastTr(t) == unit[t] - (IF pc[t] \in {"after", "kernel"} THEN 0 ELSE 1)

RowsHeld(t) ==
    Transposes /\ UnitStart(t) <= LastTr(t) =>
        \A r \in MyTrRows(t) : tr_src[ithr_mb(t)][r] = <<LastTr(t), r>>

RowsKept == /\ DOMAIN tr_src = 0 .. grid.mb - 1
            /\ \A m \in 0 .. grid.mb - 1 : DOMAIN tr_src[m] = TrRows
            /\ \A t \in Threads : RowsHeld(t)

LEMMA RowsInit == Init => RowsKept
<1>. SUFFICES ASSUME Init PROVE RowsKept
    OBVIOUS
<1>1. Given /\ GridOk /\ UnitsOk
    <2>1. Given
        BY DEF Init, Given
    <2>. QED BY <2>1, GridIsOk, UnitsAreOk
<1>2. tr_src = [m \in 0 .. grid.mb - 1 |-> [r \in TrRows |-> <<None, r>>]]
    BY DEF Init
<1>3. \A m \in 0 .. grid.mb - 1 : DOMAIN tr_src[m] = TrRows
    BY <1>2
<1>4. ASSUME NEW t \in Threads PROVE RowsHeld(t)
    <2>1. LastTr(t) = UnitStart(t) - 1 /\ UnitStart(t) \in Nat
        BY <1>1, UnitsOf DEF Init, LastTr
    <2>. QED BY <2>1 DEF RowsHeld
<1>. QED BY <1>2, <1>3, <1>4 DEF RowsKept

\* Only a transposition changes it.
LEMMA LastStays ==
    ASSUME Control, Progress, Transposes, NEW t \in Threads, NEW to, NEW d, NEW n,
           Advance(t, to, d, n), pc[t] # "transpose"
    PROVE  n - (IF to \in {"after", "kernel"} THEN 0 ELSE 1) = LastTr(t)
<1>1. GridOk /\ UnitsOk /\ sync \in BOOLEAN /\ unit[t] \in Nat
    BY GridIsOk, UnitsAreOk DEF Control, Given, Progress
<1>2. /\ ToBias \in {"done", "bias", "bias barrier"}
      /\ ToReduction \in {"done", "bias", "bias barrier", "partial", "add"}
    BY <1>1, Reductions
<1>3. CASE pc[t] = "kernel" /\ to = "images"
    <2>1. n = unit[t] + Cardinality(Strip(t))
        BY <1>3 DEF Advance
    <2>2. unit[t] # UnitEnd(t) /\ At(t, unit[t])
        BY <1>3 DEF Progress, UnitPlace, Early
    <2>3. n = unit[t] + 1
        BY <1>1, <2>1, <2>2, StripIs
    <2>. QED BY <1>1, <1>3, <2>3 DEF LastTr
<1>4. CASE ~(pc[t] = "kernel" /\ to = "images")
    <2>1. n = unit[t]
        BY <1>4 DEF Advance
    <2>2. to \in {"after", "kernel"} <=> pc[t] \in {"after", "kernel"}
        BY <1>2, <1>4 DEF Advance
    <2>. QED BY <2>1, <2>2 DEF LastTr
<1>. QED BY <1>3, <1>4

LEMMA RowsStay ==
    ASSUME RowsKept, UNCHANGED static, tr_src' = tr_src,
           Transposes => \A t \in Threads : LastTr(t)' = LastTr(t)
    PROVE  RowsKept'
<1>1. /\ Threads' = Threads /\ Transposes' = Transposes /\ grid' = grid /\ TrRows' = TrRows
      /\ \A t : UnitStart(t)' = UnitStart(t) /\ ithr_mb(t)' = ithr_mb(t)
      /\ \A t : MyTrRows(t)' = MyTrRows(t)
    BY StaysGiven, StaysShared
<1>2. ASSUME NEW t \in Threads PROVE RowsHeld(t)'
    <2>1. RowsHeld(t)
        BY DEF RowsKept
    <2>. QED BY <1>1, <2>1 DEF RowsHeld
<1>. QED BY <1>1, <1>2 DEF RowsKept

\* A step that is not a transposition.
LEMMA RowsAdvance ==
    ASSUME Control, Progress, RowsKept, NEW t \in Threads, NEW to, NEW d, NEW n,
           Advance(t, to, d, n), Advances(t, to, d, n), pc[t] # "transpose", tr_src' = tr_src
    PROVE  RowsKept'
<1>1. Transposes => n - (IF to \in {"after", "kernel"} THEN 0 ELSE 1) = LastTr(t)
    BY LastStays
<1>2. ASSUME Transposes, NEW u \in Threads PROVE LastTr(u)' = LastTr(u)
    <2>1. CASE u = t
        <3>1. pc'[u] = to /\ unit'[u] = n
            BY <2>1 DEF Advances
        <3>. QED BY <1>1, <1>2, <2>1, <3>1 DEF LastTr
    <2>2. CASE u # t
        <3>1. pc'[u] = pc[u] /\ unit'[u] = unit[u]
            BY <2>2 DEF Advances
        <3>. QED BY <3>1 DEF LastTr
    <2>. QED BY <2>1, <2>2
<1>3. UNCHANGED static
    BY DEF Advances
<1>. QED BY <1>2, <1>3, RowsStay

LEMMA RowsTranspose ==
    ASSUME Control, Progress, RowsKept, NEW t \in Threads, Transpose(t)
    PROVE  RowsKept'
<1>1. GridOk /\ BarriersType
    BY GridIsOk DEF Control
<1>2. pc[t] = "transpose" /\ UNCHANGED static /\ unit' = unit
    BY DEF Transpose, Move
<1>3. /\ Threads' = Threads /\ Transposes' = Transposes /\ grid' = grid /\ TrRows' = TrRows
      /\ \A u : UnitStart(u)' = UnitStart(u) /\ ithr_mb(u)' = ithr_mb(u)
      /\ \A u : MyTrRows(u)' = MyTrRows(u)
    BY <1>2, StaysGiven, StaysShared
<1>4. PICK to \in {"after", "kernel"} : pc' = [pc EXCEPT ![t] = to]
    BY DEF Transpose, Move, Goto
<1>5. pc'[t] = to /\ \A u \in Threads : u # t => pc'[u] = pc[u]
    BY <1>1, <1>4 DEF BarriersType
<1>6. PICK m \in 0 .. grid.mb - 1 : m = ithr_mb(t)
    BY <1>1, ThreadIndex
<1>. DEFINE new == [r \in TrRows |-> IF r \in MyTrRows(t) THEN <<unit[t], r>> ELSE tr_src[m][r]]
<1>7. tr_src' = [tr_src EXCEPT ![m] = new]
    BY <1>6 DEF Transpose, Overwritten, RowsKept
<1>8. tr_src'[m] = new /\ \A k \in 0 .. grid.mb - 1 : k # m => tr_src'[k] = tr_src[k]
    BY <1>7 DEF RowsKept
<1>9. DOMAIN new = TrRows
    OBVIOUS
<1>. HIDE DEF new
<1>10. ASSUME NEW k \in 0 .. grid.mb - 1 PROVE DOMAIN tr_src'[k] = TrRows
    BY <1>8, <1>9 DEF RowsKept
<1>11. RowsHeld(t)'
    <2>1. LastTr(t)' = unit[t]
        <3>1. unit[t] \in Nat
            BY DEF Progress
        <3>. QED BY <1>2, <1>5, <3>1 DEF LastTr
    <2>2. \A r \in MyTrRows(t) : new[r] = <<unit[t], r>>
        BY <1>1, RowsOfAll DEF new
    <2>3. \A r \in MyTrRows(t) : tr_src'[ithr_mb(t)][r] = <<unit[t], r>>
        BY <1>6, <1>8, <2>2
    <2>. QED BY <1>3, <2>1, <2>3 DEF RowsHeld
<1>12. ASSUME NEW u \in Threads, u # t PROVE RowsHeld(u)'
    <2>1. RowsHeld(u) /\ LastTr(u)' = LastTr(u)
        BY <1>2, <1>5, <1>12 DEF RowsKept, LastTr
    <2>2. ASSUME NEW r \in MyTrRows(u) PROVE tr_src'[ithr_mb(u)][r] = tr_src[ithr_mb(u)][r]
        <3>1. CASE ithr_mb(u) = m
            <4>1. r \notin MyTrRows(t) /\ r \in TrRows
                BY <1>1, <1>6, <1>12, <3>1, TrRowsDiffer, RowsOfAll
            <4>2. new[r] = tr_src[m][r]
                BY <4>1 DEF new
            <4>. QED BY <1>8, <3>1, <4>2
        <3>2. CASE ithr_mb(u) # m
            <4>1. ithr_mb(u) \in 0 .. grid.mb - 1
                BY <1>1, ThreadIndex
            <4>. QED BY <1>8, <3>2, <4>1
        <3>. QED BY <3>1, <3>2
    <2>. QED BY <1>3, <2>1, <2>2 DEF RowsHeld
<1>. QED BY <1>3, <1>7, <1>10, <1>11, <1>12 DEF RowsKept

LEMMA RowsStep == Control /\ Progress /\ RowsKept /\ [Next]_vars => RowsKept'
<1>. SUFFICES ASSUME Control, Progress, RowsKept, [Next]_vars PROVE RowsKept'
    OBVIOUS
<1>0. unit \in [Threads -> Nat] /\ \A u \in Threads : At(u, unit[u])
    BY DEF Progress, UnitPlace
<1>1. CASE UNCHANGED vars
    <2>1. UNCHANGED <<static, pc, unit, tr_src>>
        BY <1>1 DEF vars, static
    <2>2. \A t \in Threads : LastTr(t)' = LastTr(t)
        BY <2>1 DEF LastTr
    <2>. QED BY <2>1, <2>2, RowsStay
<1>2. CASE SecondSection
    <2>1. UNCHANGED <<static, unit, tr_src>>
        BY <1>2 DEF SecondSection, memory
    <2>2. ASSUME NEW t \in Threads PROVE LastTr(t)' = LastTr(t)
        <3>1. ToReduction \in {"done", "bias", "bias barrier", "partial", "add"}
            BY GridIsOk, Reductions DEF Control, Given
        <3>2. pc[t] = "end of section" /\ pc'[t] = ToReduction
            BY <1>2 DEF SecondSection
        <3>. QED BY <2>1, <3>1, <3>2 DEF LastTr
    <2>. QED BY <2>1, <2>2, RowsStay
<1>3. ASSUME NEW t \in Threads, Step(t) PROVE RowsKept'
    <2>1. CASE Arrive(t)
        <3>1. tr_src' = tr_src /\ pc[t] # "transpose"
            BY <2>1 DEF Arrive, InBarrier, memory
        <3>. QED BY <1>0, <2>1, <3>1, ArriveAdvances, RowsAdvance
    <2>2. CASE Pass(t)
        <3>1. tr_src' = tr_src /\ pc[t] # "transpose"
            BY <2>2 DEF Pass, InBarrier, memory
        <3>2. PICK to \in Places, d \in {0, 1} :
                 Advance(t, to, d, unit[t]) /\ Advances(t, to, d, unit[t])
            BY <1>0, <2>2, PassAdvances
        <3>. QED BY <3>1, <3>2, RowsAdvance
    <2>3. CASE Spin(t)
        BY <1>1, <2>3 DEF Spin
    <2>4. CASE Transpose(t)
        BY <2>4, RowsTranspose
    <2>5. CASE NextImage(t) \/ Kernel(t) \/ ImagesDone(t) \/ AddUp(t) \/ ReduceBias(t)
        <3>1. tr_src' = tr_src
            BY <2>5 DEF NextImage, Kernel, ImagesDone, AddUp, ReduceBias, memory
        <3>2. pc[t] # "transpose"
            BY <2>5 DEF NextImage, Kernel, ImagesDone, AddUp, ReduceBias, Move
        <3>3. \E to \in Places : \E n : Advance(t, to, 0, n) /\ Advances(t, to, 0, n)
            BY <1>0, <2>5, LocalAdvances
        <3>. QED BY <3>1, <3>2, <3>3, RowsAdvance
    <2>. QED BY <1>3, <2>1, <2>2, <2>3, <2>4, <2>5 DEF Step
<1>4. CASE SecondSection \/ (\E t \in Threads : Step(t)) \/ UNCHANGED vars
    BY <1>1, <1>2, <1>3, <1>4
<1>. QED BY <1>4 DEF Next

\* While a thread is in the kernel, its mates have transposed the image at hand
\* and none has begun with the next one.
LEMMA MatesInStep ==
    ASSUME Control, Progress, Transposes, NEW t \in Threads, NEW u \in Threads,
           pc[t] = "kernel", ithr_but_oc(t) = ithr_but_oc(u)
    PROVE  LastTr(u) = unit[t]
<1>1. GridOk /\ BarriersType /\ UnitsOk
    BY GridIsOk, UnitsAreOk DEF Control
<1>2. CASE u = t
    <2>1. unit[t] \in Nat
        BY DEF Progress
    <2>. QED BY <1>2, <2>1 DEF LastTr
<1>3. CASE u # t
    <2>1. grid.oc > 1
        <3>1. ithr_oc_b(t) # ithr_oc_b(u)
            BY <1>1, <1>3, MatesShare, SameIndex
        <3>2. ithr_oc_b(t) \in 0 .. grid.oc - 1 /\ ithr_oc_b(u) \in 0 .. grid.oc - 1
                 /\ grid.oc \in Nat
            BY <1>1, ThreadIndex DEF GridOk
        <3>. QED BY <3>1, <3>2
    <2>2. PICK c \in Contexts : c = ithr_but_oc(t) /\ c = ithr_but_oc(u)
        BY <1>1, ContextsDiffer
    <2>3. PICK s \in Nat : s = UnitStart(t) /\ s = UnitStart(u)
        <3>1. UnitStart(t) = UnitStart(u)
            BY <1>1, MatesShare DEF UnitStart
        <3>. QED BY <1>1, <3>1, UnitsOf
    <2>4. PICK x \in Nat, y \in Nat : x = unit[t] /\ y = unit[u]
        BY DEF Progress
    <2>5. PICK a \in Nat, b \in Nat, k \in Nat :
             a = Went(c, t) /\ b = Went(c, u) /\ k = Came(c, u)
        BY <1>1 DEF BarriersType, Came, Went
    <2>6. a = 2 * (x - s) + 2
        BY <2>1, <2>2, <2>3, <2>4, <2>5 DEF Progress, TurnsAre, Turned, Extra, Inside
    <2>7. PICK e \in {0, 1, 2} : e = Extra(pc[u]) /\ b = 2 * (y - s) + e
        <3>1. Extra(pc[u]) \in {0, 1, 2}
            BY DEF Extra
        <3>. QED BY <2>1, <2>2, <2>3, <2>4, <2>5, <3>1 DEF Progress, TurnsAre, Turned
    <2>8. a <= k /\ b <= a
        <3>1. Came(c, t) = Went(c, t)
            BY <2>2 DEF Control, ImageBarrier
        <3>2. Went(c, t) <= Came(c, u) /\ Went(c, u) <= Came(c, t)
            BY <2>2 DEF Control, MatesCame, TrMates
        <3>. QED BY <2>5, <3>1, <3>2
    <2>9. k = b \/ (k = b + 1 /\ pc[u] \in {"before", "after"})
        BY <2>2, <2>5 DEF Control, ImageBarrier
    <2>10. CASE pc[u] = "kernel"
        <3>1. LastTr(u) = y /\ e = 2 /\ k = b
            BY <2>4, <2>7, <2>9, <2>10 DEF LastTr, Extra, Inside
        <3>2. b = 2 * (y - s) + 2 /\ k = b
            BY <2>7, <3>1
        <3>3. x = y
            BY <2>6, <2>8, <3>2
        <3>. QED BY <2>4, <3>1, <3>3
    <2>11. CASE pc[u] = "after"
        <3>1. LastTr(u) = y /\ e = 1 /\ k <= b + 1
            BY <2>4, <2>7, <2>9, <2>11 DEF LastTr, Extra, Inside
        <3>2. x = y
            BY <2>6, <2>7, <2>8, <3>1
        <3>. QED BY <2>4, <3>1, <3>2
    <2>12. CASE pc[u] = "transpose"
        <3>1. e = 1 /\ k = b
            BY <2>7, <2>9, <2>12 DEF Extra, Inside
        <3>2. b = 2 * (y - s) + 1 /\ k = b
            BY <2>7, <3>1
        <3>. QED BY <2>6, <2>8, <3>2
    <2>13. CASE pc[u] \notin {"transpose", "after", "kernel"}
        <3>1. LastTr(u) = y - 1 /\ e = 0 /\ k <= b + 1
            BY <2>4, <2>7, <2>9, <2>13 DEF LastTr, Extra, Inside
        <3>2. y = x + 1
            BY <2>6, <2>7, <2>8, <3>1
        <3>. QED BY <2>4, <3>1, <3>2
    <2>. QED BY <2>10, <2>11, <2>12, <2>13
<1>. QED BY <1>2, <1>3

\* So the kernel reads the image it is given.
LEMMA KernelSees ==
    ASSUME Control, Progress, RowsKept, Transposes, NEW t \in Threads, pc[t] = "kernel",
           NEW r \in OwnRows(t)
    PROVE  tr_src[ithr_mb(t)][r] = <<unit[t], r>>
<1>1. GridOk /\ UnitsOk
    BY GridIsOk, UnitsAreOk DEF Control
<1>2. PICK u \in Threads : ithr_but_oc(t) = ithr_but_oc(u) /\ r \in MyTrRows(u)
    <2>1. CASE nthr = 1
        BY <1>1, <2>1, LoneRows, RowsOfAll
    <2>2. CASE grid.g = jcp.ngroups
        <3>1. PICK o \in 0 .. grid.oc - 1 : r \in Upwards(RowBase(t), Of(RowCount(t), grid.oc, o))
            BY <1>1, <2>2, MatesTranspose
        <3>2. PICK u \in Threads : /\ ithr_mb(u) = ithr_mb(t) /\ ithr_g(u) = ithr_g(t)
                                   /\ ithr_oc_b(u) = o /\ ithr_ic_b(u) = ithr_ic_b(t)
            BY <1>1, ThreadAt, ThreadIndex
        <3>3. RowBase(u) = RowBase(t) /\ RowCount(u) = RowCount(t)
            BY <3>2 DEF RowBase, RowCount, IcBs
        <3>4. r \in MyTrRows(u)
            BY <1>1, <2>2, <3>1, <3>2, <3>3, TrRowsAre
        <3>5. ithr_but_oc(t) = ithr_but_oc(u)
            BY <1>1, <3>2, MatesShare
        <3>. QED BY <3>4, <3>5
    <2>. QED BY <1>1, <2>1, <2>2 DEF GridOk
<1>3. LastTr(u) = unit[t]
    BY <1>2, MatesInStep
<1>4. ithr_mb(t) = ithr_mb(u) /\ UnitStart(u) = UnitStart(t)
    BY <1>1, <1>2, MatesShare DEF UnitStart
<1>5. UnitStart(u) <= LastTr(u)
    <2>1. unit[t] \in UnitStart(t) .. UnitEnd(t)
        BY DEF Progress, UnitPlace, At
    <2>2. UnitStart(t) \in Nat /\ UnitEnd(t) \in Nat
        BY <1>1, UnitsOf
    <2>. QED BY <1>3, <1>4, <2>1, <2>2
<1>6. RowsHeld(u)
    BY DEF RowsKept
<1>. QED BY <1>2, <1>3, <1>4, <1>5, <1>6 DEF RowsHeld

------------------------------------------------------------------------------
(* What has been summed up                                                 *)

\* The buffer m of f holds, in the cells of a thread, the units from first up to
\* the next one, but for what has been added up already.
Keeps(f, m, cells, added, first, next) ==
    next # first =>
        \A c \in cells : (m = 0 => c \notin added) => f[m][c] = SetToBag(first .. next - 1)

Whole == SetToBag(0 .. Units - 1)

\* The threads behind the addition.
Summed == {"bias barrier", "bias", "done"}

AddedCells == { c \in WeiCells :
                   \E t \in Threads : grid.mb > 1 /\ pc[t] \in Summed /\ c \in MyShare(t) }

BiasAdded == grid.mb > 1 /\ pc[0] \in (IF jcp.harness = "mb" THEN Summed ELSE {"done"})

AddedBias == IF BiasInKernel /\ BiasAdded THEN BiaCells ELSE {}

Shape(f, cells) == /\ DOMAIN f = 0 .. grid.mb - 1
                   /\ \A m \in 0 .. grid.mb - 1 : DOMAIN f[m] = cells

WeiSums ==
    /\ Shape(wei, WeiCells)
    /\ \A c \in AddedCells : wei[0][c] = Whole
    /\ \A t \in Threads :
          Keeps(wei, ithr_mb(t), MyCells(t), AddedCells, UnitStart(t), unit[t])

BiaSums ==
    /\ Shape(bia, BiaCells)
    /\ \A c \in AddedBias : bia[0][c] = Whole
    /\ \A t \in Threads :
          Keeps(bia, ithr_mb(t), MyBias(t), AddedBias, UnitStart(t), unit[t])

Sums == WeiSums /\ BiaSums

LEMMA SumsInit == Init => Sums
<1>. SUFFICES ASSUME Init PROVE Sums
    OBVIOUS
<1>1. GridOk
    <2>1. Given
        BY DEF Init, Given
    <2>. QED BY <2>1, GridIsOk
<1>2. \A t \in Threads : pc[t] = "images" /\ unit[t] = UnitStart(t)
    BY DEF Init
<1>3. AddedCells = {} /\ AddedBias = {}
    <2>1. 0 \in Threads
        BY <1>1, FirstShares
    <2>. QED BY <1>2, <2>1 DEF AddedCells, AddedBias, BiasAdded, Summed
<1>4. Shape(wei, WeiCells) /\ Shape(bia, BiaCells)
    BY DEF Init, Shape
<1>. QED BY <1>2, <1>3, <1>4 DEF Sums, WeiSums, BiaSums, Keeps

\* Steps that leave both buffers and the threads behind the addition alone.
LEMMA SumsStay ==
    ASSUME Control, Sums, UNCHANGED <<static, unit, wei, bia>>,
           grid.mb > 1 => \A t \in Threads : /\ pc'[t] \in Summed <=> pc[t] \in Summed
                                             /\ pc'[t] = "done" <=> pc[t] = "done"
    PROVE  Sums'
<1>1. GridOk
    BY GridIsOk DEF Control
<1>2. /\ Threads' = Threads /\ grid' = grid /\ jcp' = jcp
      /\ WeiCells' = WeiCells /\ BiaCells' = BiaCells /\ Units' = Units
      /\ BiasInKernel' = BiasInKernel
      /\ \A t : UnitStart(t)' = UnitStart(t) /\ ithr_mb(t)' = ithr_mb(t)
      /\ \A t : MyCells(t)' = MyCells(t) /\ MyBias(t)' = MyBias(t) /\ MyShare(t)' = MyShare(t)
    BY StaysGiven, StaysShared
<1>3. AddedCells' = AddedCells
    <2>1. AddedCells' = { c \in WeiCells :
             \E t \in Threads : grid.mb > 1 /\ pc'[t] \in Summed /\ c \in MyShare(t) }
        BY <1>2 DEF AddedCells, Summed
    <2>2. \A c : (\E t \in Threads : grid.mb > 1 /\ pc'[t] \in Summed /\ c \in MyShare(t))
                <=> (\E t \in Threads : grid.mb > 1 /\ pc[t] \in Summed /\ c \in MyShare(t))
        OBVIOUS
    <2>. QED BY <2>1, <2>2 DEF AddedCells
<1>4. AddedBias' = AddedBias
    <2>1. 0 \in Threads
        BY <1>1, FirstShares
    <2>2. BiasAdded' <=> BiasAdded
        <3>1. BiasAdded' <=> grid.mb > 1 /\ pc'[0] \in (IF jcp.harness = "mb" THEN Summed
                                                      ELSE {"done"})
            BY <1>2 DEF BiasAdded, Summed
        <3>2. grid.mb > 1 => /\ pc'[0] \in Summed <=> pc[0] \in Summed
                             /\ pc'[0] = "done" <=> pc[0] = "done"
            BY <2>1
        <3>. QED BY <3>1, <3>2 DEF BiasAdded
    <2>. QED BY <1>2, <2>2 DEF AddedBias
<1>5. Whole' = Whole
    BY <1>2 DEF Whole
<1>6. WeiSums'
    BY <1>2, <1>3, <1>5 DEF Sums, WeiSums, Shape, Keeps
<1>7. BiaSums'
    BY <1>2, <1>4, <1>5 DEF Sums, BiaSums, Shape, Keeps
<1>. QED BY <1>6, <1>7 DEF Sums

\* A buffer f turned into g by the kernel of a thread.
LEMMA KernelKeeps ==
    ASSUME NEW f, NEW g, NEW m, NEW cells, NEW first \in Nat, NEW now \in Nat, NEW next \in Nat,
           first <= now, now < next, Keeps(f, m, cells, {}, first, now),
           \A c \in cells : g[m][c] = IF now = first THEN SetToBag(now .. next - 1)
                                      ELSE f[m][c] (+) SetToBag(now .. next - 1)
    PROVE  Keeps(g, m, cells, {}, first, next)
<1>. SUFFICES ASSUME NEW c \in cells PROVE g[m][c] = SetToBag(first .. next - 1)
    BY DEF Keeps
<1>1. CASE now = first
    BY <1>1
<1>2. CASE now # first
    <2>1. f[m][c] = SetToBag(first .. now - 1)
        BY <1>2 DEF Keeps
    <2>2. SetToBag(first .. now - 1) (+) SetToBag(now .. next - 1) = SetToBag(first .. next - 1)
        BY SpansAddUp
    <2>. QED BY <1>2, <2>1, <2>2
<1>. QED BY <1>1, <1>2

LEMMA OthersKeep ==
    ASSUME NEW f, NEW g, NEW m, NEW cells, NEW added, NEW more, NEW first, NEW next,
           Keeps(f, m, cells, added, first, next), added \subseteq more,
           \A c \in cells : (m = 0 => c \notin more) => g[m][c] = f[m][c]
    PROVE  Keeps(g, m, cells, more, first, next)
BY DEF Keeps

\* The kernel of thread t.
KernelOf(f, g, t, cells, n) ==
    /\ DOMAIN g = DOMAIN f
    /\ g[ithr_mb(t)] = [x \in DOMAIN f[ithr_mb(t)] |->
                           IF x \in cells
                           THEN IF unit[t] = UnitStart(t) THEN SetToBag(unit[t] .. n - 1)
                                ELSE f[ithr_mb(t)][x] (+) SetToBag(unit[t] .. n - 1)
                           ELSE f[ithr_mb(t)][x]]
    /\ \A m \in DOMAIN f : m # ithr_mb(t) => g[m] = f[m]

LEMMA KernelIs ==
    ASSUME Control, Progress, RowsKept, Sums, NEW t \in Threads, Kernel(t)
    PROVE  \E n \in Nat : /\ unit[t] < n /\ unit' = [unit EXCEPT ![t] = n]
                          /\ KernelOf(wei, wei', t, MyCells(t), n)
                          /\ KernelOf(bia, bia', t, MyBias(t), n)
<1>1. GridOk /\ UnitsOk
    BY GridIsOk, UnitsAreOk DEF Control
<1>2. pc[t] = "kernel" /\ At(t, unit[t]) /\ unit[t] # UnitEnd(t)
    BY DEF Kernel, Move, Progress, UnitPlace, Early
<1>3. PICK n \in Nat : /\ unit[t] < n /\ Strip(t) = unit[t] .. n - 1
                       /\ unit[t] + Cardinality(Strip(t)) = n
    BY <1>1, <1>2, StripIs
<1>4. FirstImage(t) <=> unit[t] = UnitStart(t)
    BY <1>1, <1>2, FirstIs
<1>5. ASSUME NEW c \in MyCells(t) PROVE Contribution(t, c) = SetToBag(Strip(t))
    <2>1. c[1] \in Gs(t) /\ c[3] \div Slices \in IcBs(t)
        BY <1>1, CellsBlock
    <2>2. PICK gr \in Gs(t), b \in IcBs(t) : gr = c[1] /\ b = c[3] \div Slices
        BY <2>1
    <2>3. BlockRows(gr, b) \subseteq OwnRows(t)
        BY DEF OwnRows
    <2>4. Transposes => \A r \in BlockRows(gr, b) : tr_src[ithr_mb(t)][r] = <<unit[t], r>>
        BY <1>2, <2>3, KernelSees
    <2>. QED BY <2>2, <2>4 DEF Contribution
<1>6. PICK m \in 0 .. grid.mb - 1 : m = ithr_mb(t)
    BY <1>1, ThreadIndex
<1>7. m \in DOMAIN wei /\ m \in DOMAIN bia
    BY <1>6 DEF Sums, WeiSums, BiaSums, Shape
<1>8. unit' = [unit EXCEPT ![t] = n]
    <2>1. unit' = [unit EXCEPT ![t] = @ + Cardinality(Strip(t))]
        BY DEF Kernel
    <2>. QED BY <1>3, <2>1
<1>9. KernelOf(wei, wei', t, MyCells(t), n)
    <2>1. wei' = [wei EXCEPT ![m] =
                     [x \in DOMAIN wei[m] |->
                         IF x \in MyCells(t)
                         THEN IF FirstImage(t) THEN Contribution(t, x)
                              ELSE wei[m][x] (+) Contribution(t, x)
                         ELSE wei[m][x]]]
        BY <1>6, <1>7 DEF Kernel, Overwritten
    <2>2. [x \in DOMAIN wei[m] |->
              IF x \in MyCells(t)
              THEN IF FirstImage(t) THEN Contribution(t, x)
                   ELSE wei[m][x] (+) Contribution(t, x)
              ELSE wei[m][x]]
          = [x \in DOMAIN wei[m] |->
                IF x \in MyCells(t)
                THEN IF unit[t] = UnitStart(t) THEN SetToBag(unit[t] .. n - 1)
                     ELSE wei[m][x] (+) SetToBag(unit[t] .. n - 1)
                ELSE wei[m][x]]
        BY <1>3, <1>4, <1>5
    <2>. QED BY <1>6, <1>7, <2>1, <2>2 DEF KernelOf
<1>10. KernelOf(bia, bia', t, MyBias(t), n)
    <2>1. bia' = [bia EXCEPT ![m] =
                     [x \in DOMAIN bia[m] |->
                         IF x \in MyBias(t)
                         THEN IF FirstImage(t) THEN SetToBag(Strip(t))
                              ELSE bia[m][x] (+) SetToBag(Strip(t))
                         ELSE bia[m][x]]]
        BY <1>6, <1>7 DEF Kernel, Overwritten
    <2>2. [x \in DOMAIN bia[m] |->
              IF x \in MyBias(t)
              THEN IF FirstImage(t) THEN SetToBag(Strip(t))
                   ELSE bia[m][x] (+) SetToBag(Strip(t))
              ELSE bia[m][x]]
          = [x \in DOMAIN bia[m] |->
                IF x \in MyBias(t)
                THEN IF unit[t] = UnitStart(t) THEN SetToBag(unit[t] .. n - 1)
                     ELSE bia[m][x] (+) SetToBag(unit[t] .. n - 1)
                ELSE bia[m][x]]
        BY <1>3, <1>4
    <2>. QED BY <1>6, <1>7, <2>1, <2>2 DEF KernelOf
<1>. QED BY <1>3, <1>8, <1>9, <1>10

\* What has been added up after a step.
LEMMA AddedIs ==
    ASSUME UNCHANGED static
    PROVE  /\ AddedCells' = { c \in WeiCells :
                 \E t \in Threads : grid.mb > 1 /\ pc'[t] \in Summed /\ c \in MyShare(t) }
           /\ BiasAdded' <=> /\ grid.mb > 1
                             /\ pc'[0] \in (IF jcp.harness = "mb" THEN Summed ELSE {"done"})
           /\ AddedBias' = IF BiasInKernel /\ BiasAdded' THEN BiaCells ELSE {}
           /\ Whole' = Whole
<1>1. /\ Threads' = Threads /\ grid' = grid /\ jcp' = jcp
      /\ WeiCells' = WeiCells /\ BiaCells' = BiaCells /\ Units' = Units
      /\ BiasInKernel' = BiasInKernel
      /\ \A t : MyShare(t)' = MyShare(t)
    BY StaysGiven, StaysShared
<1>. QED BY <1>1 DEF AddedCells, BiasAdded, AddedBias, Whole, Summed

LEMMA SumsHave ==
    ASSUME UNCHANGED static,
           Shape(wei', WeiCells), \A c \in AddedCells' : wei'[0][c] = Whole,
           \A t \in Threads :
              Keeps(wei', ithr_mb(t), MyCells(t), AddedCells', UnitStart(t), unit'[t]),
           Shape(bia', BiaCells), \A c \in AddedBias' : bia'[0][c] = Whole,
           \A t \in Threads :
              Keeps(bia', ithr_mb(t), MyBias(t), AddedBias', UnitStart(t), unit'[t])
    PROVE  Sums'
<1>1. /\ Threads' = Threads /\ grid' = grid
      /\ WeiCells' = WeiCells /\ BiaCells' = BiaCells /\ Whole' = Whole
      /\ \A t : UnitStart(t)' = UnitStart(t) /\ ithr_mb(t)' = ithr_mb(t)
      /\ \A t : MyCells(t)' = MyCells(t) /\ MyBias(t)' = MyBias(t)
    BY StaysGiven, StaysShared, AddedIs
<1>2. WeiSums'
    BY <1>1 DEF WeiSums, Shape, Keeps
<1>3. BiaSums'
    BY <1>1 DEF BiaSums, Shape, Keeps
<1>. QED BY <1>2, <1>3 DEF Sums

\* Before the addition nothing is added up.
LEMMA NothingAdded ==
    ASSUME Control, NEW t \in Threads, pc[t] \in Early
    PROVE  AddedCells = {} /\ AddedBias = {}
<1>1. ASSUME NEW u \in Threads, grid.mb > 1 PROVE pc[u] \notin Summed
    BY <1>1, EarlyBeforeLate DEF Summed, Late
<1>2. 0 \in Threads
    BY GridIsOk, FirstShares DEF Control
<1>3. ~BiasAdded
    BY <1>1, <1>2 DEF BiasAdded, Summed
<1>. QED BY <1>1, <1>3 DEF AddedCells, AddedBias

LEMMA KernelOwn ==
    ASSUME GridOk, UnitsOk, NEW t \in Threads, At(t, unit[t]), NEW n \in Nat, unit[t] < n,
           NEW f, NEW g, NEW all, NEW cells \in SUBSET all, Shape(f, all),
           KernelOf(f, g, t, cells, n),
           Keeps(f, ithr_mb(t), cells, {}, UnitStart(t), unit[t])
    PROVE  Shape(g, all) /\ Keeps(g, ithr_mb(t), cells, {}, UnitStart(t), n)
<1>1. PICK m \in 0 .. grid.mb - 1 : m = ithr_mb(t)
    BY ThreadIndex
<1>2. PICK first \in Nat, now \in Nat : /\ first = UnitStart(t) /\ now = unit[t]
                                       /\ first <= now /\ now < n
    BY UnitsOf DEF At
<1>3. DOMAIN f[m] = all
    BY <1>1 DEF Shape
<1>4. g[m] = [x \in all |-> IF x \in cells
                            THEN IF now = first THEN SetToBag(now .. n - 1)
                                 ELSE f[m][x] (+) SetToBag(now .. n - 1)
                            ELSE f[m][x]]
    BY <1>1, <1>2, <1>3 DEF KernelOf
<1>5. \A c \in cells : g[m][c] = IF now = first THEN SetToBag(now .. n - 1)
                                 ELSE f[m][c] (+) SetToBag(now .. n - 1)
    BY <1>4
<1>6. Keeps(g, m, cells, {}, first, n)
    <2>1. Keeps(f, m, cells, {}, first, now)
        BY <1>1, <1>2
    <2>. QED BY <1>2, <1>5, <2>1, KernelKeeps
<1>7. Shape(g, all)
    <2>1. ASSUME NEW k \in 0 .. grid.mb - 1 PROVE DOMAIN g[k] = all
        <3>1. CASE k = m
            <4>1. DOMAIN g[m] = all
                BY <1>4
            <4>. QED BY <3>1, <4>1
        <3>2. CASE k # m
            BY <1>1, <3>2 DEF KernelOf, Shape
        <3>. QED BY <3>1, <3>2
    <2>. QED BY <2>1 DEF KernelOf, Shape
<1>. QED BY <1>1, <1>2, <1>6, <1>7

LEMMA KernelOther ==
    ASSUME GridOk, NEW t \in Threads, NEW u \in Threads, NEW n,
           NEW f, NEW g, NEW all, NEW cells, NEW others \in SUBSET all, Shape(f, all),
           KernelOf(f, g, t, cells, n), NEW first, NEW next,
           ithr_mb(t) = ithr_mb(u) => cells \cap others = {},
           Keeps(f, ithr_mb(u), others, {}, first, next)
    PROVE  Keeps(g, ithr_mb(u), others, {}, first, next)
<1>1. PICK m \in 0 .. grid.mb - 1 : m = ithr_mb(u)
    BY ThreadIndex
<1>2. ASSUME NEW c \in others PROVE g[m][c] = f[m][c]
    <2>1. CASE ithr_mb(t) = m
        <3>1. c \notin cells /\ c \in DOMAIN f[m]
            BY <1>1, <2>1 DEF Shape
        <3>. QED BY <2>1, <3>1 DEF KernelOf
    <2>2. CASE ithr_mb(t) # m
        BY <1>1, <2>2 DEF KernelOf, Shape
    <2>. QED BY <2>1, <2>2
<1>. QED BY <1>1, <1>2 DEF Keeps

LEMMA SumsKernel ==
    ASSUME Control, Progress, RowsKept, Sums, NEW t \in Threads, Kernel(t)
    PROVE  Sums'
<1>1. GridOk /\ UnitsOk /\ BarriersType /\ unit \in [Threads -> Nat]
    BY GridIsOk, UnitsAreOk DEF Control, Progress
<1>2. pc[t] = "kernel" /\ UNCHANGED static /\ pc' = [pc EXCEPT ![t] = "images"]
    BY DEF Kernel, Move, Goto
<1>3. At(t, unit[t])
    BY DEF Progress, UnitPlace
<1>4. AddedCells = {} /\ AddedBias = {}
    BY <1>2, NothingAdded DEF Early
<1>5. \A u \in Threads : pc'[u] \in Summed => pc'[u] = pc[u]
    BY <1>1, <1>2 DEF BarriersType, Summed
<1>6. AddedCells' = {}
    <2>1. AddedCells' = { c \in WeiCells :
             \E u \in Threads : grid.mb > 1 /\ pc'[u] \in Summed /\ c \in MyShare(u) }
        BY <1>2, AddedIs
    <2>2. \A c \in AddedCells' : c \in AddedCells
        BY <1>5, <2>1 DEF AddedCells
    <2>. QED BY <1>4, <2>2
<1>7. AddedBias' = {}
    <2>1. 0 \in Threads
        BY <1>1, FirstShares
    <2>2. BiasAdded' => BiasAdded
        <3>1. BiasAdded' <=> /\ grid.mb > 1
                             /\ pc'[0] \in (IF jcp.harness = "mb" THEN Summed ELSE {"done"})
            BY <1>2, AddedIs
        <3>. QED BY <1>5, <2>1, <3>1 DEF BiasAdded, Summed
    <2>3. AddedBias' = IF BiasInKernel /\ BiasAdded' THEN BiaCells ELSE {}
        BY <1>2, AddedIs
    <2>. QED BY <1>4, <2>2, <2>3 DEF AddedBias
<1>8. PICK n \in Nat : /\ unit[t] < n /\ unit' = [unit EXCEPT ![t] = n]
                       /\ KernelOf(wei, wei', t, MyCells(t), n)
                       /\ KernelOf(bia, bia', t, MyBias(t), n)
    BY KernelIs
<1>9. \A u \in Threads : MyCells(u) \in SUBSET WeiCells /\ MyBias(u) \in SUBSET BiaCells
    BY <1>1, CellsOfAll
<1>10. /\ Shape(wei, WeiCells) /\ Shape(bia, BiaCells)
       /\ \A u \in Threads : Keeps(wei, ithr_mb(u), MyCells(u), {}, UnitStart(u), unit[u])
       /\ \A u \in Threads : Keeps(bia, ithr_mb(u), MyBias(u), {}, UnitStart(u), unit[u])
    BY <1>4 DEF Sums, WeiSums, BiaSums
<1>11. Shape(wei', WeiCells) /\ Keeps(wei', ithr_mb(t), MyCells(t), {}, UnitStart(t), n)
    BY <1>1, <1>3, <1>8, <1>9, <1>10, KernelOwn
<1>12. Shape(bia', BiaCells) /\ Keeps(bia', ithr_mb(t), MyBias(t), {}, UnitStart(t), n)
    BY <1>1, <1>3, <1>8, <1>9, <1>10, KernelOwn
<1>13. ASSUME NEW u \in Threads
       PROVE  /\ Keeps(wei', ithr_mb(u), MyCells(u), {}, UnitStart(u), unit'[u])
              /\ Keeps(bia', ithr_mb(u), MyBias(u), {}, UnitStart(u), unit'[u])
    <2>1. CASE u = t
        <3>1. unit'[u] = n
            BY <1>1, <1>8, <2>1
        <3>. QED BY <1>11, <1>12, <2>1, <3>1
    <2>2. CASE u # t
        <3>1. unit'[u] = unit[u]
            BY <1>8, <2>2
        <3>2. ithr_mb(t) = ithr_mb(u) =>
                 MyCells(t) \cap MyCells(u) = {} /\ MyBias(t) \cap MyBias(u) = {}
            BY <1>1, <2>2, OwnersDiffer
        <3>3. Keeps(wei', ithr_mb(u), MyCells(u), {}, UnitStart(u), unit[u])
            BY <1>1, <1>8, <1>9, <1>10, <3>2, KernelOther
        <3>4. Keeps(bia', ithr_mb(u), MyBias(u), {}, UnitStart(u), unit[u])
            BY <1>1, <1>8, <1>9, <1>10, <3>2, KernelOther
        <3>. QED BY <3>1, <3>3, <3>4
    <2>. QED BY <2>1, <2>2
<1>. QED BY <1>2, <1>6, <1>7, <1>11, <1>12, <1>13, SumsHave

\* When one thread adds up, all have done their images.
LEMMA AllEnded ==
    ASSUME Control, Progress, NEW t \in Threads, pc[t] \in Late, grid.mb > 1,
           NEW u \in Threads
    PROVE  unit[u] = UnitEnd(u) /\ unit[u] # UnitStart(u)
<1>1. GridOk /\ UnitsOk
    BY GridIsOk, UnitsAreOk DEF Control
<1>2. pc[u] \notin Early
    BY EarlyBeforeLate
<1>3. unit[u] = UnitEnd(u)
    BY <1>2 DEF Progress, UnitPlace
<1>4. UnitStart(u) \in Nat /\ UnitEnd(u) \in Nat /\ UnitStart(u) < UnitEnd(u)
    BY <1>1, UnitsOf
<1>. QED BY <1>3, <1>4

LEMMA TotalIs ==
    ASSUME GridOk, UnitsOk, NEW f, NEW c,
           \A m \in 0 .. grid.mb - 1 : \E u \in Threads :
              ithr_mb(u) = m /\ f[m][c] = SetToBag(UnitStart(u) .. UnitEnd(u) - 1)
    PROVE  Total(f, c) = Whole
<1>1. grid.mb \in Nat \ {0} /\ Units \in Nat
    BY DEF UnitsOk
<1>2. ASSUME NEW m \in 0 .. grid.mb - 1 PROVE f[m][c] = SetToBag(Of(Units, grid.mb, m))
    <2>1. PICK u \in Threads :
             ithr_mb(u) = m /\ f[m][c] = SetToBag(UnitStart(u) .. UnitEnd(u) - 1)
        OBVIOUS
    <2>2. Of(Units, grid.mb, ithr_mb(u)) = UnitStart(u) .. UnitEnd(u) - 1
        BY UnitsOf
    <2>. QED BY <2>1, <2>2
<1>3. Total(f, c) = SetToBag(0 .. Units - 1)
    BY <1>1, <1>2, TotalIsWhole
<1>. QED BY <1>3 DEF Whole

\* A cell that is not added up yet: each buffer has its part of the units.
LEMMA CellTotal ==
    ASSUME Control, Progress, Sums, NEW t \in Threads, pc[t] \in Late, grid.mb > 1,
           NEW c \in WeiCells, c \notin AddedCells
    PROVE  Total(wei, c) = Whole
<1>1. GridOk /\ UnitsOk
    BY GridIsOk, UnitsAreOk DEF Control
<1>2. ASSUME NEW m \in 0 .. grid.mb - 1
      PROVE  \E u \in Threads : /\ ithr_mb(u) = m
                                /\ wei[m][c] = SetToBag(UnitStart(u) .. UnitEnd(u) - 1)
    <2>1. PICK u \in Threads : ithr_mb(u) = m /\ c \in MyCells(u)
        BY <1>1, CellOwner
    <2>2. unit[u] = UnitEnd(u) /\ unit[u] # UnitStart(u)
        BY AllEnded
    <2>3. Keeps(wei, m, MyCells(u), AddedCells, UnitStart(u), UnitEnd(u))
        BY <2>1, <2>2 DEF Sums, WeiSums
    <2>4. wei[m][c] = SetToBag(UnitStart(u) .. UnitEnd(u) - 1)
        BY <2>1, <2>2, <2>3 DEF Keeps
    <2>. QED BY <2>1, <2>4
<1>. QED BY <1>1, <1>2, TotalIs

LEMMA BiasTotal ==
    ASSUME Control, Progress, Sums, NEW t \in Threads, pc[t] \in Late, grid.mb > 1,
           BiasInKernel, ~BiasAdded, NEW c \in BiaCells
    PROVE  Total(bia, c) = Whole
<1>1. GridOk /\ UnitsOk
    BY GridIsOk, UnitsAreOk DEF Control
<1>2. AddedBias = {}
    BY DEF AddedBias
<1>3. ASSUME NEW m \in 0 .. grid.mb - 1
      PROVE  \E u \in Threads : /\ ithr_mb(u) = m
                                /\ bia[m][c] = SetToBag(UnitStart(u) .. UnitEnd(u) - 1)
    <2>1. PICK u \in Threads : ithr_mb(u) = m /\ c \in MyBias(u)
        BY <1>1, BiasOwner
    <2>2. unit[u] = UnitEnd(u) /\ unit[u] # UnitStart(u)
        BY AllEnded
    <2>3. Keeps(bia, m, MyBias(u), {}, UnitStart(u), UnitEnd(u))
        BY <1>2, <2>1, <2>2 DEF Sums, BiaSums
    <2>4. bia[m][c] = SetToBag(UnitStart(u) .. UnitEnd(u) - 1)
        BY <2>1, <2>2, <2>3 DEF Keeps
    <2>. QED BY <2>1, <2>4
<1>. QED BY <1>1, <1>3, TotalIs

\* The bias after all of it has been added up.
LEMMA AllBiasAdded ==
    ASSUME Control, Progress, Sums, NEW t \in Threads, pc[t] \in Late, grid.mb > 1,
           BiasInKernel, ~BiasAdded, UNCHANGED <<static, unit>>, BiasAdded',
           bia' = [bia EXCEPT ![0] = AllBias]
    PROVE  /\ Shape(bia', BiaCells) /\ \A c \in AddedBias' : bia'[0][c] = Whole
           /\ \A u \in Threads :
                 Keeps(bia', ithr_mb(u), MyBias(u), AddedBias', UnitStart(u), unit'[u])
<1>1. GridOk /\ 0 \in 0 .. grid.mb - 1
    BY GridIsOk DEF Control, GridOk
<1>2. AddedBias = {} /\ AddedBias' = BiaCells
    BY AddedIs DEF AddedBias
<1>3. Shape(bia, BiaCells)
    BY DEF Sums, BiaSums
<1>4. \A c \in BiaCells : Total(bia, c) = Whole
    BY BiasTotal
<1>5. AllBias = [c \in BiaCells |-> Whole]
    BY <1>4 DEF AllBias
<1>6. DOMAIN bia' = 0 .. grid.mb - 1 /\ bia'[0] = [c \in BiaCells |-> Whole]
         /\ \A m \in 0 .. grid.mb - 1 : m # 0 => bia'[m] = bia[m]
    BY <1>1, <1>3, <1>5 DEF Shape
<1>7. Shape(bia', BiaCells)
    <2>1. ASSUME NEW m \in 0 .. grid.mb - 1 PROVE DOMAIN bia'[m] = BiaCells
        <3>1. CASE m = 0
            <4>1. DOMAIN bia'[0] = BiaCells
                BY <1>6
            <4>. QED BY <3>1, <4>1
        <3>2. CASE m # 0
            BY <1>3, <1>6, <3>2 DEF Shape
        <3>. QED BY <3>1, <3>2
    <2>. QED BY <1>6, <2>1 DEF Shape
<1>8. ASSUME NEW u \in Threads
      PROVE  Keeps(bia', ithr_mb(u), MyBias(u), AddedBias', UnitStart(u), unit'[u])
    <2>1. Keeps(bia, ithr_mb(u), MyBias(u), {}, UnitStart(u), unit[u]) /\ unit'[u] = unit[u]
        BY <1>2 DEF Sums, BiaSums
    <2>2. MyBias(u) \subseteq BiaCells /\ ithr_mb(u) \in 0 .. grid.mb - 1
        BY <1>1, CellsOfAll, ThreadIndex
    <2>. QED BY <1>2, <1>6, <2>1, <2>2 DEF Keeps
<1>. QED BY <1>2, <1>6, <1>7, <1>8

\* No thread has changed the bias.
LEMMA BiasStays ==
    ASSUME Sums, UNCHANGED <<static, unit, bia>>, AddedBias' = AddedBias
    PROVE  /\ Shape(bia', BiaCells) /\ \A c \in AddedBias' : bia'[0][c] = Whole
           /\ \A u \in Threads :
                 Keeps(bia', ithr_mb(u), MyBias(u), AddedBias', UnitStart(u), unit'[u])
BY DEF Sums, BiaSums

LEMMA SharesHave ==
    ASSUME GridOk, NEW t \in Threads
    PROVE  MyShare(t) \subseteq WeiCells
<1>. SUFFICES ASSUME NEW c \in MyShare(t) PROVE c \in WeiCells
    OBVIOUS
<1>1. /\ CellCount(t) \in Nat \ {0} /\ grid.mb \in Nat \ {0}
      /\ ithr_mb(t) \in 0 .. grid.mb - 1
    BY SharedCells, ThreadIndex DEF GridOk
<1>2. PICK w \in Of(CellCount(t), grid.mb, ithr_mb(t)) : c = ShareCell(t, w)
    BY ShareIs
<1>3. w \in 0 .. CellCount(t) - 1
    BY <1>1, <1>2, Shares
<1>4. c \in MyCells(t)
    BY <1>2, <1>3, SharedCells
<1>. QED BY <1>4, CellsOfAll

\* The cells thread t has added up.
LEMMA SharesAdded ==
    ASSUME Control, Progress, Sums, NEW t \in Threads, AddUp(t)
    PROVE  /\ Shape(wei', WeiCells) /\ \A c \in AddedCells' : wei'[0][c] = Whole
           /\ \A u \in Threads :
                 Keeps(wei', ithr_mb(u), MyCells(u), AddedCells', UnitStart(u), unit'[u])
<1>1. GridOk /\ BarriersType /\ sync \in BOOLEAN /\ 0 \in 0 .. grid.mb - 1
    BY GridIsOk DEF Control, Given, GridOk
<1>2. /\ pc[t] = "add" /\ UNCHANGED <<static, unit>> /\ pc' = [pc EXCEPT ![t] = ToBias]
    BY DEF AddUp, Move, Goto
<1>3. grid.mb > 1 /\ pc[t] \in Late
    BY <1>2 DEF Control, PlaceOk, Late
<1>4. ToBias \in Summed
    BY <1>1, Reductions DEF Summed
<1>5. MyShare(t) \subseteq WeiCells
    BY <1>1, SharesHave
<1>6. MyShare(t) \cap AddedCells = {}
    <2>. SUFFICES ASSUME NEW c \in MyShare(t), c \in AddedCells PROVE FALSE
        OBVIOUS
    <2>1. PICK u \in Threads : pc[u] \in Summed /\ c \in MyShare(u)
        BY DEF AddedCells
    <2>2. u # t
        BY <1>2, <2>1 DEF Summed
    <2>. QED BY <1>1, <2>1, <2>2, SharesOfCells
<1>7. AddedCells' = AddedCells \cup MyShare(t)
    <2>1. AddedCells' = { c \in WeiCells :
             \E u \in Threads : grid.mb > 1 /\ pc'[u] \in Summed /\ c \in MyShare(u) }
        BY <1>2, AddedIs
    <2>2. \A u \in Threads : pc'[u] \in Summed <=> u = t \/ pc[u] \in Summed
        BY <1>1, <1>2, <1>4 DEF BarriersType
    <2>3. ASSUME NEW c \in WeiCells
          PROVE  (\E u \in Threads : grid.mb > 1 /\ pc'[u] \in Summed /\ c \in MyShare(u))
                    <=> c \in AddedCells \/ c \in MyShare(t)
        BY <1>3, <2>2 DEF AddedCells
    <2>4. AddedCells \subseteq WeiCells
        BY DEF AddedCells
    <2>5. \A c : c \in AddedCells' <=> c \in AddedCells \cup MyShare(t)
        BY <1>5, <2>1, <2>3, <2>4
    <2>. QED BY <2>5
<1>8. Shape(wei, WeiCells)
    BY DEF Sums, WeiSums
<1>9. \A c \in MyShare(t) : Total(wei, c) = Whole
    <2>. SUFFICES ASSUME NEW c \in MyShare(t) PROVE Total(wei, c) = Whole
        OBVIOUS
    <2>1. c \in WeiCells /\ c \notin AddedCells
        BY <1>5, <1>6
    <2>. QED BY <1>3, <2>1, CellTotal
<1>10. wei' = [wei EXCEPT ![0] = [x \in WeiCells |->
                                    IF x \in MyShare(t) THEN Whole ELSE wei[0][x]]]
    <2>1. DOMAIN wei[0] = WeiCells /\ 0 \in DOMAIN wei
        BY <1>1, <1>8 DEF Shape
    <2>2. wei' = [wei EXCEPT ![0] = [x \in WeiCells |->
                                       IF x \in MyShare(t) THEN Total(wei, x) ELSE wei[0][x]]]
        BY <2>1 DEF AddUp, Overwritten
    <2>3. [x \in WeiCells |-> IF x \in MyShare(t) THEN Total(wei, x) ELSE wei[0][x]]
             = [x \in WeiCells |-> IF x \in MyShare(t) THEN Whole ELSE wei[0][x]]
        BY <1>9
    <2>. QED BY <2>2, <2>3
<1>. DEFINE sum == [x \in WeiCells |-> IF x \in MyShare(t) THEN Whole ELSE wei[0][x]]
<1>11. /\ DOMAIN wei' = 0 .. grid.mb - 1 /\ wei'[0] = sum
       /\ \A m \in 0 .. grid.mb - 1 : m # 0 => wei'[m] = wei[m]
    <2>1. wei' = [wei EXCEPT ![0] = sum]
        BY <1>10
    <2>. HIDE DEF sum
    <2>. QED BY <1>1, <1>8, <2>1 DEF Shape
<1>12. DOMAIN sum = WeiCells
    OBVIOUS
<1>13. \A c \in MyShare(t) : sum[c] = Whole
    BY <1>5
<1>14. \A c \in WeiCells : c \notin MyShare(t) => sum[c] = wei[0][c]
    OBVIOUS
<1>. HIDE DEF sum
<1>15. Shape(wei', WeiCells)
    <2>1. ASSUME NEW m \in 0 .. grid.mb - 1 PROVE DOMAIN wei'[m] = WeiCells
        <3>1. CASE m = 0
            BY <1>11, <1>12, <3>1
        <3>2. CASE m # 0
            BY <1>8, <1>11, <3>2 DEF Shape
        <3>. QED BY <3>1, <3>2
    <2>. QED BY <1>11, <2>1 DEF Shape
<1>16. \A c \in AddedCells' : wei'[0][c] = Whole
    <2>1. \A c \in AddedCells : wei[0][c] = Whole /\ c \in WeiCells
        BY DEF Sums, WeiSums, AddedCells
    <2>. QED BY <1>7, <1>11, <1>13, <1>14, <2>1
<1>17. ASSUME NEW u \in Threads
       PROVE  Keeps(wei', ithr_mb(u), MyCells(u), AddedCells', UnitStart(u), unit'[u])
    <2>1. Keeps(wei, ithr_mb(u), MyCells(u), AddedCells, UnitStart(u), unit[u])
             /\ unit'[u] = unit[u]
        BY <1>2 DEF Sums, WeiSums
    <2>2. MyCells(u) \subseteq WeiCells /\ ithr_mb(u) \in 0 .. grid.mb - 1
        BY <1>1, CellsOfAll, ThreadIndex
    <2>3. AddedCells \subseteq AddedCells'
        BY <1>7
    <2>4. ASSUME NEW c \in MyCells(u), ithr_mb(u) = 0 => c \notin AddedCells'
          PROVE  wei'[ithr_mb(u)][c] = wei[ithr_mb(u)][c]
        <3>1. CASE ithr_mb(u) = 0
            <4>1. c \notin MyShare(t) /\ c \in WeiCells
                BY <1>7, <2>2, <2>4, <3>1
            <4>. QED BY <1>11, <1>14, <3>1, <4>1
        <3>2. CASE ithr_mb(u) # 0
            BY <1>11, <2>2, <3>2
        <3>. QED BY <3>1, <3>2
    <2>. QED BY <2>1, <2>3, <2>4, OthersKeep
<1>. QED BY <1>15, <1>16, <1>17

LEMMA SumsAdd ==
    ASSUME Control, Progress, Sums, NEW t \in Threads, AddUp(t)
    PROVE  Sums'
<1>1. GridOk /\ BarriersType /\ sync \in BOOLEAN
    BY GridIsOk DEF Control, Given
<1>2. /\ pc[t] = "add" /\ UNCHANGED <<static, unit>> /\ pc' = [pc EXCEPT ![t] = ToBias]
      /\ bia' = IF AddsBias(t) THEN [bia EXCEPT ![0] = AllBias] ELSE bia
    BY DEF AddUp, Move, Goto
<1>3. grid.mb > 1 /\ pc[t] \in Late
    BY <1>2 DEF Control, PlaceOk, Late
<1>4. pc'[t] = ToBias /\ ToBias \in Summed
    BY <1>1, <1>2, Reductions DEF BarriersType, Summed
<1>5. BiasAdded' <=> /\ grid.mb > 1
                     /\ pc'[0] \in (IF jcp.harness = "mb" THEN Summed ELSE {"done"})
    BY <1>2, AddedIs
<1>6. /\ Shape(bia', BiaCells) /\ \A c \in AddedBias' : bia'[0][c] = Whole
      /\ \A u \in Threads :
            Keeps(bia', ithr_mb(u), MyBias(u), AddedBias', UnitStart(u), unit'[u])
    <2>1. CASE AddsBias(t)
        <3>1. t = 0 /\ jcp.harness = "mb" /\ BiasInKernel
            BY <2>1 DEF AddsBias
        <3>2. BiasAdded' /\ ~BiasAdded
            BY <1>2, <1>3, <1>4, <1>5, <3>1 DEF BiasAdded, Summed
        <3>. QED BY <1>2, <1>3, <2>1, <3>1, <3>2, AllBiasAdded
    <2>2. CASE ~AddsBias(t)
        <3>1. AddedBias' = AddedBias
            <4>1. AddedBias' = IF BiasInKernel /\ BiasAdded' THEN BiaCells ELSE {}
                BY <1>2, AddedIs
            <4>2. BiasInKernel => (BiasAdded' <=> BiasAdded)
                <5>. SUFFICES ASSUME BiasInKernel PROVE BiasAdded' <=> BiasAdded
                    OBVIOUS
                <5>1. CASE t = 0
                    <6>1. jcp.harness # "mb" /\ jcp.with_bias
                        BY <1>1, <2>2, <5>1, FirstShares DEF AddsBias, BiasInKernel
                    <6>2. ToBias \in {"bias barrier", "bias"}
                        BY <6>1 DEF ToBias
                    <6>3. pc[0] # "done" /\ pc'[0] # "done"
                        BY <1>2, <1>4, <5>1, <6>2
                    <6>. QED BY <1>5, <6>1, <6>3 DEF BiasAdded
                <5>2. CASE t # 0
                    <6>1. pc'[0] = pc[0]
                        BY <1>1, <1>2, <5>2, FirstShares DEF BarriersType
                    <6>. QED BY <1>5, <6>1 DEF BiasAdded
                <5>. QED BY <5>1, <5>2
            <4>. QED BY <4>1, <4>2 DEF AddedBias
        <3>. QED BY <1>2, <2>2, <3>1, BiasStays
    <2>. QED BY <2>1, <2>2
<1>. QED BY <1>2, <1>6, SharesAdded, SumsHave

LEMMA SumsReduceBias ==
    ASSUME Control, Progress, Sums, NEW t \in Threads, ReduceBias(t)
    PROVE  Sums'
<1>1. GridOk /\ BarriersType
    BY GridIsOk DEF Control
<1>2. /\ pc[t] = "bias" /\ UNCHANGED <<static, unit, wei>> /\ pc' = [pc EXCEPT ![t] = "done"]
      /\ bia' = IF t = 0 THEN [bia EXCEPT ![0] = AllBias] ELSE bia
    BY DEF ReduceBias, Move, Goto
<1>3. jcp.harness # "mb" /\ BiasInKernel
    BY <1>2 DEF Progress, BiasPlace, BiasInKernel
<1>4. pc'[t] = "done" /\ \A u \in Threads : u # t => pc'[u] = pc[u]
    BY <1>1, <1>2 DEF BarriersType
<1>5. AddedCells' = AddedCells
    <2>1. AddedCells' = { c \in WeiCells :
             \E u \in Threads : grid.mb > 1 /\ pc'[u] \in Summed /\ c \in MyShare(u) }
        BY <1>2, AddedIs
    <2>2. \A u \in Threads : pc'[u] \in Summed <=> pc[u] \in Summed
        BY <1>2, <1>4 DEF Summed
    <2>3. \A c : (\E u \in Threads : grid.mb > 1 /\ pc'[u] \in Summed /\ c \in MyShare(u))
                <=> (\E u \in Threads : grid.mb > 1 /\ pc[u] \in Summed /\ c \in MyShare(u))
        BY <2>2
    <2>. QED BY <2>1, <2>3 DEF AddedCells
<1>6. /\ Shape(wei', WeiCells) /\ \A c \in AddedCells' : wei'[0][c] = Whole
      /\ \A u \in Threads :
            Keeps(wei', ithr_mb(u), MyCells(u), AddedCells', UnitStart(u), unit'[u])
    BY <1>2, <1>5 DEF Sums, WeiSums
<1>7. /\ BiasAdded' <=> grid.mb > 1 /\ pc'[0] = "done"
      /\ BiasAdded <=> grid.mb > 1 /\ pc[0] = "done"
      /\ AddedBias' = IF BiasAdded' THEN BiaCells ELSE {}
      /\ AddedBias = IF BiasAdded THEN BiaCells ELSE {}
    BY <1>2, <1>3, AddedIs DEF BiasAdded, AddedBias
<1>8. /\ Shape(bia', BiaCells) /\ \A c \in AddedBias' : bia'[0][c] = Whole
      /\ \A u \in Threads :
            Keeps(bia', ithr_mb(u), MyBias(u), AddedBias', UnitStart(u), unit'[u])
    <2>1. CASE t # 0
        <3>1. pc'[0] = pc[0]
            BY <1>1, <1>4, <2>1, FirstShares
        <3>2. AddedBias' = AddedBias
            BY <1>7, <3>1
        <3>. QED BY <1>2, <2>1, <3>2, BiasStays
    <2>2. CASE t = 0 /\ grid.mb > 1
        <3>1. BiasAdded' /\ ~BiasAdded /\ pc[t] \in Late
            BY <1>2, <1>4, <1>7, <2>2 DEF Late
        <3>. QED BY <1>2, <1>3, <2>2, <3>1, AllBiasAdded
    <2>3. CASE t = 0 /\ ~(grid.mb > 1)
        <3>1. grid.mb = 1 /\ 0 .. grid.mb - 1 = {0}
            BY <1>1, <2>3 DEF GridOk
        <3>2. AddedBias = {} /\ AddedBias' = {}
            BY <1>7, <2>3
        <3>3. AllBias = [c \in BiaCells |-> bia[0][c]]
            <4>1. \A c : Total(bia, c) = bia[0][c]
                BY <3>1, TotalOfOne
            <4>. QED BY <4>1 DEF AllBias
        <3>4. DOMAIN bia' = {0} /\ bia'[0] = [c \in BiaCells |-> bia[0][c]]
            BY <1>2, <2>3, <3>1, <3>3 DEF Sums, BiaSums, Shape
        <3>5. Shape(bia', BiaCells)
            BY <3>1, <3>4 DEF Shape
        <3>6. ASSUME NEW u \in Threads
              PROVE  Keeps(bia', ithr_mb(u), MyBias(u), AddedBias', UnitStart(u), unit'[u])
            <4>1. Keeps(bia, ithr_mb(u), MyBias(u), {}, UnitStart(u), unit[u])
                     /\ unit'[u] = unit[u]
                BY <1>2, <3>2 DEF Sums, BiaSums
            <4>2. MyBias(u) \subseteq BiaCells /\ ithr_mb(u) = 0
                BY <1>1, <3>1, CellsOfAll, ThreadIndex
            <4>. QED BY <3>2, <3>4, <4>1, <4>2 DEF Keeps
        <3>. QED BY <3>2, <3>5, <3>6
    <2>. QED BY <2>1, <2>2, <2>3
<1>. QED BY <1>2, <1>6, <1>8, SumsHave

\* The other steps.
LEMMA SumsAdvance ==
    ASSUME Control, Progress, Sums, NEW t \in Threads, NEW to, NEW d, NEW n,
           Advance(t, to, d, n), Advances(t, to, d, n), pc[t] \notin {"kernel", "add", "bias"},
           UNCHANGED <<wei, bia>>
    PROVE  Sums'
<1>1. UNCHANGED static /\ n = unit[t] /\ unit' = unit
    <2>1. UNCHANGED static /\ n = unit[t]
        BY DEF Advances, Advance
    <2>2. unit \in [Threads -> Nat]
        BY DEF Progress
    <2>3. unit' = [u \in Threads |-> unit'[u]] /\ \A u \in Threads : unit'[u] = unit[u]
        BY <2>1 DEF Advances
    <2>. QED BY <2>1, <2>2, <2>3
<1>2. grid.mb > 1 => /\ to \in Summed <=> pc[t] \in Summed
                     /\ to = "done" <=> pc[t] = "done"
    <2>. SUFFICES ASSUME grid.mb > 1
                  PROVE  /\ to \in Summed <=> pc[t] \in Summed
                         /\ to = "done" <=> pc[t] = "done"
        OBVIOUS
    <2>1. ToReduction \in {"partial", "add"}
        <3>1. grid.mb # 1
            BY GridIsOk DEF Control, GridOk
        <3>. QED BY <3>1 DEF ToReduction
    <2>. QED BY <2>1 DEF Advance, Summed
<1>3. grid.mb > 1 => \A u \in Threads : /\ pc'[u] \in Summed <=> pc[u] \in Summed
                                        /\ pc'[u] = "done" <=> pc[u] = "done"
    BY <1>2 DEF Advances
<1>. QED BY <1>1, <1>3, SumsStay

LEMMA SumsStep == Control /\ Progress /\ RowsKept /\ Sums /\ [Next]_vars => Sums'
<1>. SUFFICES ASSUME Control, Progress, RowsKept, Sums, [Next]_vars PROVE Sums'
    OBVIOUS
<1>0. unit \in [Threads -> Nat] /\ \A u \in Threads : At(u, unit[u])
    BY DEF Progress, UnitPlace
<1>1. CASE UNCHANGED vars
    <2>1. UNCHANGED <<static, pc, unit, wei, bia>>
        BY <1>1 DEF vars, static
    <2>. QED BY <2>1, SumsStay
<1>2. CASE SecondSection
    <2>1. UNCHANGED <<static, unit, wei, bia>>
        BY <1>2 DEF SecondSection, memory
    <2>2. grid.mb > 1 => ToReduction \in {"partial", "add"}
        <3>1. grid.mb > 1 => grid.mb # 1
            BY GridIsOk DEF Control, GridOk
        <3>. QED BY <3>1 DEF ToReduction
    <2>3. \A t \in Threads : pc[t] = "end of section" /\ pc'[t] = ToReduction
        BY <1>2 DEF SecondSection
    <2>4. grid.mb > 1 => \A t \in Threads : /\ pc'[t] \in Summed <=> pc[t] \in Summed
                                            /\ pc'[t] = "done" <=> pc[t] = "done"
        BY <2>2, <2>3 DEF Summed
    <2>. QED BY <2>1, <2>4, SumsStay
<1>3. ASSUME NEW t \in Threads, Step(t) PROVE Sums'
    <2>1. CASE Arrive(t)
        <3>1. UNCHANGED <<wei, bia>> /\ pc[t] \notin {"kernel", "add", "bias"}
            BY <2>1 DEF Arrive, InBarrier, memory
        <3>. QED BY <1>0, <2>1, <3>1, ArriveAdvances, SumsAdvance
    <2>2. CASE Pass(t)
        <3>1. UNCHANGED <<wei, bia>> /\ pc[t] \notin {"kernel", "add", "bias"}
            BY <2>2 DEF Pass, InBarrier, memory
        <3>2. PICK to \in Places, d \in {0, 1} :
                 Advance(t, to, d, unit[t]) /\ Advances(t, to, d, unit[t])
            BY <1>0, <2>2, PassAdvances
        <3>. QED BY <3>1, <3>2, SumsAdvance
    <2>3. CASE Spin(t)
        BY <1>1, <2>3 DEF Spin
    <2>4. CASE Kernel(t)
        BY <2>4, SumsKernel
    <2>5. CASE AddUp(t)
        BY <2>5, SumsAdd
    <2>6. CASE ReduceBias(t)
        BY <2>6, SumsReduceBias
    <2>7. CASE NextImage(t) \/ Transpose(t) \/ ImagesDone(t)
        <3>1. UNCHANGED <<wei, bia>>
            BY <2>7 DEF NextImage, Transpose, ImagesDone, memory
        <3>2. pc[t] \notin {"kernel", "add", "bias"}
            BY <2>7 DEF NextImage, Transpose, ImagesDone, Move
        <3>3. \E to \in Places : \E n : Advance(t, to, 0, n) /\ Advances(t, to, 0, n)
            BY <1>0, <2>7, LocalAdvances
        <3>. QED BY <3>1, <3>2, <3>3, SumsAdvance
    <2>. QED BY <1>3, <2>1, <2>2, <2>3, <2>4, <2>5, <2>6, <2>7 DEF Step
<1>4. CASE SecondSection \/ (\E t \in Threads : Step(t)) \/ UNCHANGED vars
    BY <1>1, <1>2, <1>3, <1>4
<1>. QED BY <1>4 DEF Next

LEMMA SumsInTheEnd == Control /\ Progress /\ Sums => SumIsComplete
<1>. SUFFICES ASSUME Control, Progress, Sums, AllDone
              PROVE  /\ \A c \in WeiCells : wei[0][c] = SetToBag(0 .. Units - 1)
                     /\ BiasInKernel =>
                           \A c \in BiaCells : bia[0][c] = SetToBag(0 .. Units - 1)
    BY DEF SumIsComplete
<1>1. GridOk /\ UnitsOk /\ 0 \in 0 .. grid.mb - 1
    BY GridIsOk, UnitsAreOk DEF Control, GridOk
<1>2. \A t \in Threads : pc[t] = "done"
    BY DEF AllDone
<1>3. ASSUME NEW t \in Threads PROVE unit[t] = UnitEnd(t) /\ unit[t] # UnitStart(t)
    <2>1. unit[t] = UnitEnd(t)
        BY <1>2 DEF Progress, UnitPlace, Early
    <2>2. UnitStart(t) \in Nat /\ UnitEnd(t) \in Nat /\ UnitStart(t) < UnitEnd(t)
        BY <1>1, UnitsOf
    <2>. QED BY <2>1, <2>2
<1>4. CASE grid.mb > 1
    <2>1. AddedCells = WeiCells
        <3>1. \A c \in WeiCells : c \in AddedCells
            BY <1>1, <1>2, <1>4, ShareOwner DEF AddedCells, Summed
        <3>. QED BY <3>1 DEF AddedCells
    <2>2. BiasInKernel => AddedBias = BiaCells
        <3>1. pc[0] = "done"
            BY <1>1, <1>2, FirstShares
        <3>. QED BY <1>4, <3>1 DEF AddedBias, BiasAdded, Summed
    <2>. QED BY <2>1, <2>2 DEF Sums, WeiSums, BiaSums, Whole
<1>5. CASE ~(grid.mb > 1)
    <2>1. grid.mb = 1
        BY <1>1, <1>5 DEF GridOk
    <2>2. AddedCells = {} /\ AddedBias = {}
        BY <1>5 DEF AddedCells, AddedBias, BiasAdded
    <2>3. ASSUME NEW t \in Threads, ithr_mb(t) = 0
          PROVE  UnitStart(t) = 0 /\ UnitEnd(t) = Units
        <3>1. \A n, x : Start(n, 1, x) = 0 /\ Size(n, 1, x) = n
            BY DEF Start, Size
        <3>2. Units \in Nat
            BY <1>1 DEF UnitsOk
        <3>. QED BY <2>1, <3>1, <3>2 DEF UnitStart, UnitEnd, End
    <2>4. ASSUME NEW c \in WeiCells PROVE wei[0][c] = SetToBag(0 .. Units - 1)
        <3>1. PICK t \in Threads : ithr_mb(t) = 0 /\ c \in MyCells(t)
            BY <1>1, CellOwner
        <3>2. Keeps(wei, 0, MyCells(t), {}, 0, Units) /\ Units # 0
            BY <1>3, <2>2, <2>3, <3>1 DEF Sums, WeiSums
        <3>. QED BY <3>1, <3>2 DEF Keeps
    <2>5. ASSUME BiasInKernel, NEW c \in BiaCells PROVE bia[0][c] = SetToBag(0 .. Units - 1)
        <3>1. PICK t \in Threads : ithr_mb(t) = 0 /\ c \in MyBias(t)
            BY <1>1, <2>5, BiasOwner
        <3>2. Keeps(bia, 0, MyBias(t), {}, 0, Units) /\ Units # 0
            BY <1>3, <2>2, <2>3, <3>1 DEF Sums, BiaSums
        <3>. QED BY <3>1, <3>2 DEF Keeps
    <2>. QED BY <2>4, <2>5
<1>. QED BY <1>4, <1>5

(***************************************************************************)
(* The gradient of the weights is complete when all threads are done, for  *)
(* every convolution and number of threads: it has every image or row of   *)
(* the batch exactly once in each cell.  Until then the buffer of each     *)
(* ithr_mb holds, in the cells of a thread, just the images that thread    *)
(* has done; the barriers of the mates keep the transposed rows at the     *)
(* image of the kernel that reads them, and no cell is added up twice or   *)
(* before all have done their images.                                      *)
(***************************************************************************)
THEOREM BwdSumComplete == Spec => []SumIsComplete
<1>1. Init => Control /\ Progress /\ RowsKept /\ Sums
    BY ControlInit, ProgressInit, RowsInit, SumsInit
<1>2. Control /\ Progress /\ RowsKept /\ Sums /\ [Next]_vars
          => Control' /\ Progress' /\ RowsKept' /\ Sums'
    BY ControlStep, ProgressStep, RowsStep, SumsStep
<1>3. Control /\ Progress /\ Sums => SumIsComplete
    BY SumsInTheEnd
<1>. QED BY <1>1, <1>2, <1>3, PTL DEF Spec

------------------------------------------------------------------------------
(* parallel_nd() and for_nd()                                              *)

\* What holds for 0 and for the next number of each holds up to any bound.
LEMMA UpTo ==
    ASSUME NEW n \in Nat, NEW S, 0 \in S, \A k \in 0 .. n - 1 : k \in S => k + 1 \in S
    PROVE  \A k \in 0 .. n : k \in S
<1>. DEFINE Bad == { k \in 0 .. n : k \notin S }
<1>1. SUFFICES ASSUME Bad # {} PROVE FALSE
    OBVIOUS
<1>2. PICK k \in Bad : \A m \in Bad : k <= m
    <2>1. Bad \subseteq Nat
        OBVIOUS
    <2>. QED BY <1>1, <2>1, SmallestExists
<1>3. k \in 0 .. n /\ k \notin S /\ k # 0
    BY <1>2
<1>4. k - 1 \in 0 .. n - 1 /\ k - 1 \notin Bad
    <2>1. \A m \in Bad : k <= m
        BY <1>2
    <2>. HIDE DEF Bad
    <2>. QED BY <1>3, <2>1
<1>5. k - 1 \in S
    BY <1>3, <1>4
<1>. QED BY <1>3, <1>4, <1>5

\* The same from the bound downwards.
LEMMA DownFrom ==
    ASSUME NEW n \in Nat, NEW S, n \in S, \A k \in 0 .. n - 1 : k + 1 \in S => k \in S
    PROVE  \A k \in 0 .. n : k \in S
<1>. DEFINE R == { k \in 0 .. n : n - k \in S }
<1>1. 0 \in R
    OBVIOUS
<1>2. ASSUME NEW k \in 0 .. n - 1, k \in R PROVE k + 1 \in R
    <2>1. n - (k + 1) \in 0 .. n - 1 /\ (n - (k + 1)) + 1 = n - k
        OBVIOUS
    <2>2. n - (k + 1) \in S
        BY <1>2, <2>1
    <2>. QED BY <2>2
<1>3. \A k \in 0 .. n : k \in R
    <2>. HIDE DEF R
    <2>. QED BY <1>1, <1>2, UpTo
<1>4. ASSUME NEW k \in 0 .. n PROVE k \in S
    <2>1. n - k \in R /\ n - (n - k) = k
        BY <1>3
    <2>. QED BY <2>1
<1>. QED BY <1>4

\* The first numbers, and the last of them.
LEMMA LastOfFirst ==
    ASSUME NEW i \in Nat \ {0}
    PROVE  1 .. i # {} /\ Max(1 .. i) = i /\ (1 .. i) \ {i} = 1 .. i - 1
<1>1. i \in 1 .. i /\ \A y \in 1 .. i : i >= y
    OBVIOUS
<1>2. Max(1 .. i) \in 1 .. i /\ \A y \in 1 .. i : Max(1 .. i) >= y
    <2>1. 1 .. i \subseteq 0 .. i /\ 1 .. i # {}
        BY <1>1
    <2>. QED BY <2>1, LargestExists
<1>3. PICK m \in 1 .. i : m = Max(1 .. i)
    BY <1>2
<1>4. m >= i
    BY <1>1, <1>2, <1>3
<1>. QED BY <1>1, <1>3, <1>4

\* The product of a sequence, factor by factor.
IsProduct(p, s) ==
    /\ p \in [0 .. Len(s) -> Nat] /\ p[0] = 1
    /\ \A i \in 1 .. Len(s) : p[i] = p[i - 1] * s[i]

LEMMA ProductRuns ==
    ASSUME NEW s \in Seq(Nat)
    PROVE  \E p : IsProduct(p, s) /\ Product(s) = p[Len(s)]
<1>. DEFINE n == Len(s)
            T == [q \in (1 .. n) \X Nat |-> q[2] * s[q[1]]]
            Body(f, S) == IF S = {} THEN 1 ELSE f[S \ {Max(S)}] * s[Max(S)]
            Solves(f) == f = [S \in SUBSET (1 .. n) |-> Body(f, S)]
<1>1. n \in Nat /\ DOMAIN s = 1 .. n /\ \A i \in 1 .. n : s[i] \in Nat
    OBVIOUS
<1>. HIDE DEF n
<1>2. \A i \in 1 .. n : \A x \in Nat : T[<<i, x>>] = x * s[i] /\ T[<<i, x>>] \in Nat
    BY <1>1
<1>. HIDE DEF T
<1>3. \E f : Solves(f)
    <2>1. PICK f : IsFold(f, n, 1, T)
        BY <1>1, FoldIsDefined
    <2>2. \A S \in SUBSET (1 .. n) : f[S] \in Nat
        BY <1>1, <1>2, <2>1, FoldType
    <2>3. ASSUME NEW S \in SUBSET (1 .. n)
          PROVE  Folded(f, 1, T, S) = Body(f, S)
        <3>1. CASE S = {}
            BY <3>1 DEF Folded
        <3>2. CASE S # {}
            <4>1. Max(S) \in 1 .. n /\ S \ {Max(S)} \in SUBSET (1 .. n)
                BY <1>1, <3>2, WithoutLast
            <4>. QED BY <1>2, <2>2, <3>2, <4>1 DEF Folded
        <3>. QED BY <3>1, <3>2
    <2>. HIDE DEF Body
    <2>4. Solves(f)
        BY <2>1, <2>3 DEF IsFold
    <2>. QED BY <2>4
<1>4. PICK f : f = CHOOSE g : Solves(g)
    OBVIOUS
<1>5. Solves(f)
    <2>. HIDE DEF Solves
    <2>. QED BY <1>3, <1>4
<1>6. Product(s) = f[1 .. n]
    BY <1>1, <1>4 DEF Product, FoldLeft, MapThenFoldSet
<1>. DEFINE p == [i \in 0 .. n |-> f[1 .. i]]
<1>7. p[0] = 1
    <2>1. 1 .. 0 = {} /\ {} \in SUBSET (1 .. n) /\ 0 \in 0 .. n
        BY <1>1
    <2>. QED BY <1>5, <2>1
<1>8. ASSUME NEW i \in 1 .. n PROVE p[i] = p[i - 1] * s[i]
    <2>1. i \in 0 .. n /\ i - 1 \in 0 .. n /\ i \in Nat \ {0} /\ 1 .. i \in SUBSET (1 .. n)
        BY <1>1
    <2>2. f[1 .. i] = Body(f, 1 .. i)
        <3>. HIDE DEF Body
        <3>. QED BY <1>5, <2>1
    <2>3. f[1 .. i] = f[1 .. i - 1] * s[i]
        BY <2>1, <2>2, LastOfFirst
    <2>. QED BY <2>1, <2>3
<1>9. p[n] = Product(s) /\ DOMAIN p = 0 .. n
    BY <1>1, <1>6
<1>. HIDE DEF p
<1>10. \A i \in 0 .. n : i \in { j \in 0 .. n : p[j] \in Nat }
    <2>. DEFINE S == { j \in 0 .. n : p[j] \in Nat }
    <2>1. 0 \in S
        BY <1>1, <1>7
    <2>2. ASSUME NEW k \in 0 .. n - 1, k \in S PROVE k + 1 \in S
        <3>1. k + 1 \in 1 .. n /\ (k + 1) - 1 = k /\ p[k] \in Nat
            BY <1>1, <2>2
        <3>2. p[k + 1] = p[k] * s[k + 1]
            BY <1>8, <3>1
        <3>. QED BY <1>1, <3>1, <3>2
    <2>. HIDE DEF S
    <2>3. \A k \in 0 .. n : k \in S
        BY <1>1, <2>1, <2>2, UpTo
    <2>. QED BY <2>3 DEF S
<1>11. p \in [0 .. n -> Nat]
    <2>1. p = [i \in 0 .. n |-> p[i]]
        BY DEF p
    <2>. QED BY <1>10, <2>1
<1>. QED BY <1>7, <1>8, <1>9, <1>11 DEF IsProduct, n

\* The position of item c in the grid G in row-major order: Linear of G = dims.
Position(G, c) == FoldLeftDomain(LAMBDA a, i : a * G[i] + c[i], 0, G)

\* Its position among the items of the first dimensions, one dimension after
\* the other.
IsPosition(p, G, c) ==
    /\ p \in [0 .. Len(G) -> Nat] /\ p[0] = 0
    /\ \A i \in 1 .. Len(G) : p[i] = p[i - 1] * G[i] + c[i]

LEMMA PositionRuns ==
    ASSUME NEW G \in Seq(Nat), NEW c, \A i \in 1 .. Len(G) : c[i] \in Nat
    PROVE  \E p : IsPosition(p, G, c) /\ Position(G, c) = p[Len(G)]
<1>. DEFINE n == Len(G)
            dom == [i \in DOMAIN G |-> i]
            T == [q \in (1 .. n) \X Nat |-> q[2] * G[q[1]] + c[q[1]]]
            Body(f, S) == IF S = {} THEN 0
                          ELSE f[S \ {Max(S)}] * G[dom[Max(S)]] + c[dom[Max(S)]]
            Solves(f) == f = [S \in SUBSET (1 .. n) |-> Body(f, S)]
<1>1. /\ n \in Nat /\ DOMAIN G = 1 .. n /\ \A i \in 1 .. n : G[i] \in Nat
      /\ \A i \in 1 .. n : c[i] \in Nat
      /\ DOMAIN dom = 1 .. n /\ \A i \in 1 .. n : dom[i] = i
    OBVIOUS
<1>. HIDE DEF n, dom
<1>2. \A i \in 1 .. n : \A x \in Nat :
        T[<<i, x>>] = x * G[i] + c[i] /\ T[<<i, x>>] \in Nat
    BY <1>1
<1>. HIDE DEF T
<1>3. \E f : Solves(f)
    <2>1. PICK f : IsFold(f, n, 0, T)
        BY <1>1, FoldIsDefined
    <2>2. \A S \in SUBSET (1 .. n) : f[S] \in Nat
        BY <1>1, <1>2, <2>1, FoldType
    <2>3. ASSUME NEW S \in SUBSET (1 .. n)
          PROVE  Folded(f, 0, T, S) = Body(f, S)
        <3>1. CASE S = {}
            BY <3>1 DEF Folded
        <3>2. CASE S # {}
            <4>1. Max(S) \in 1 .. n /\ S \ {Max(S)} \in SUBSET (1 .. n)
                BY <1>1, <3>2, WithoutLast
            <4>. QED BY <1>1, <1>2, <2>2, <3>2, <4>1 DEF Folded
        <3>. QED BY <3>1, <3>2
    <2>. HIDE DEF Body
    <2>4. Solves(f)
        BY <2>1, <2>3 DEF IsFold
    <2>. QED BY <2>4
<1>4. PICK f : f = CHOOSE g : Solves(g)
    OBVIOUS
<1>5. Solves(f)
    <2>. HIDE DEF Solves
    <2>. QED BY <1>3, <1>4
<1>6. Position(G, c) = f[1 .. n]
    BY <1>1, <1>4 DEF Position, FoldLeftDomain, FoldLeft, MapThenFoldSet, dom
<1>. DEFINE p == [i \in 0 .. n |-> f[1 .. i]]
<1>7. p[0] = 0
    <2>1. 1 .. 0 = {} /\ {} \in SUBSET (1 .. n) /\ 0 \in 0 .. n
        BY <1>1
    <2>. QED BY <1>5, <2>1
<1>8. ASSUME NEW i \in 1 .. n PROVE p[i] = p[i - 1] * G[i] + c[i]
    <2>1. i \in 0 .. n /\ i - 1 \in 0 .. n /\ i \in Nat \ {0} /\ 1 .. i \in SUBSET (1 .. n)
        BY <1>1
    <2>2. f[1 .. i] = Body(f, 1 .. i)
        <3>. HIDE DEF Body
        <3>. QED BY <1>5, <2>1
    <2>3. f[1 .. i] = f[1 .. i - 1] * G[i] + c[i]
        BY <1>1, <2>1, <2>2, LastOfFirst
    <2>. QED BY <2>1, <2>3
<1>9. p[n] = Position(G, c)
    BY <1>1, <1>6
<1>10. p = [i \in 0 .. n |-> p[i]]
    OBVIOUS
<1>. HIDE DEF p
<1>11. \A i \in 0 .. n : p[i] \in Nat
    <2>. DEFINE S == { j \in 0 .. n : p[j] \in Nat }
    <2>1. 0 \in S
        BY <1>1, <1>7
    <2>2. ASSUME NEW k \in 0 .. n - 1, k \in S PROVE k + 1 \in S
        <3>1. k + 1 \in 1 .. n /\ (k + 1) - 1 = k /\ p[k] \in Nat
            BY <1>1, <2>2
        <3>2. p[k + 1] = p[k] * G[k + 1] + c[k + 1]
            BY <1>8, <3>1
        <3>3. p[k] * G[k + 1] \in Nat
            BY <1>1, <3>1
        <3>. QED BY <1>1, <3>1, <3>2, <3>3
    <2>. HIDE DEF S
    <2>3. \A k \in 0 .. n : k \in S
        BY <1>1, <2>1, <2>2, UpTo
    <2>. QED BY <2>3 DEF S
<1>. QED BY <1>7, <1>8, <1>9, <1>10, <1>11 DEF IsPosition, n

\* The number of items that share their first coordinates, i of them.
Inner(G, i) == Product(SubSeq(G, i + 1, Len(G)))

LEMMA InnerProducts ==
    ASSUME NEW G \in Seq(Nat)
    PROVE  /\ \A i \in 0 .. Len(G) : Inner(G, i) \in Nat
           /\ Inner(G, 0) = Product(G) /\ Inner(G, Len(G)) = 1
           /\ \A i \in 1 .. Len(G) : Inner(G, i - 1) = Inner(G, i) * G[i]
<1>. DEFINE n == Len(G)
            s(i) == SubSeq(G, i + 1, n)
<1>1. n \in Nat /\ \A i \in 1 .. n : G[i] \in Nat
    OBVIOUS
<1>2. \A i \in 0 .. n : /\ s(i) \in Seq(Nat) /\ Len(s(i)) = n - i
                        /\ \A j \in 1 .. n - i : s(i)[j] = G[i + j]
    <2>1. ASSUME NEW i \in 0 .. n
          PROVE  /\ s(i) \in Seq(Nat) /\ Len(s(i)) = n - i
                 /\ \A j \in 1 .. n - i : s(i)[j] = G[i + j]
        <3>1. i + 1 \in Int /\ n \in Int /\ \A j \in i + 1 .. n : G[j] \in Nat
            BY <1>1
        <3>. HIDE DEF n
        <3>2. /\ s(i) \in Seq(Nat)
              /\ Len(s(i)) = IF i + 1 <= n THEN n - (i + 1) + 1 ELSE 0
              /\ \A j \in 1 .. n - (i + 1) + 1 : s(i)[j] = G[(i + 1) + j - 1]
            BY <3>1, SubSeqProperties
        <3>3. i <= n /\ i \in Nat /\ n \in Nat
            BY <1>1
        <3>. HIDE DEF s
        <3>4. Len(s(i)) = n - i
            BY <3>2, <3>3
        <3>5. ASSUME NEW j \in 1 .. n - i PROVE s(i)[j] = G[i + j]
            <4>1. j \in 1 .. n - (i + 1) + 1 /\ (i + 1) + j - 1 = i + j
                BY <3>3
            <4>. QED BY <3>2, <4>1
        <3>. QED BY <3>2, <3>4, <3>5
    <2>. QED BY <2>1
<1>3. s(0) = G
    <2>1. \A j \in 1 .. n : s(0)[j] = G[j]
        BY <1>1, <1>2
    <2>. QED BY <1>1, <1>2, <2>1, SeqEqual
<1>4. \A i \in 0 .. n : Inner(G, i) = Product(s(i))
    BY DEF Inner
<1>. HIDE DEF n, s
<1>5. ASSUME NEW i \in 0 .. n
      PROVE  \E p : IsProduct(p, s(i)) /\ Product(s(i)) = p[n - i]
    BY <1>2, ProductRuns
<1>6. ASSUME NEW i \in 0 .. n PROVE Inner(G, i) \in Nat
    <2>1. PICK p : IsProduct(p, s(i)) /\ Product(s(i)) = p[n - i]
        BY <1>5
    <2>2. p \in [0 .. Len(s(i)) -> Nat]
        BY <2>1 DEF IsProduct
    <2>3. Len(s(i)) = n - i
        BY <1>2
    <2>4. n - i \in 0 .. n - i
        BY <1>1
    <2>. QED BY <1>4, <2>1, <2>2, <2>3, <2>4
<1>7. Inner(G, n) = 1
    <2>1. PICK p : IsProduct(p, s(n)) /\ Product(s(n)) = p[n - n]
        BY <1>1, <1>5
    <2>. QED BY <1>1, <1>4, <2>1 DEF IsProduct
<1>8. ASSUME NEW i \in 1 .. n PROVE Inner(G, i - 1) = Inner(G, i) * G[i]
    <2>0. i - 1 \in 0 .. n /\ i \in 0 .. n /\ n - (i - 1) = n - i + 1 /\ n - i \in Nat
        BY <1>1
    <2>1. PICK p : IsProduct(p, s(i - 1)) /\ Product(s(i - 1)) = p[n - i + 1]
        BY <1>5, <2>0
    <2>2. PICK q : IsProduct(q, s(i)) /\ Product(s(i)) = q[n - i]
        BY <1>5, <2>0
    <2>3. /\ Len(s(i - 1)) = n - i + 1 /\ Len(s(i)) = n - i
          /\ \A j \in 1 .. n - i + 1 : s(i - 1)[j] = G[(i - 1) + j]
          /\ \A j \in 1 .. n - i : s(i)[j] = G[i + j]
        BY <1>2, <2>0
    <2>4. /\ p[0] = 1 /\ q[0] = 1 /\ q \in [0 .. n - i -> Nat]
          /\ \A j \in 1 .. n - i + 1 : p[j] = p[j - 1] * G[(i - 1) + j]
          /\ \A j \in 1 .. n - i : q[j] = q[j - 1] * G[i + j]
        BY <2>1, <2>2, <2>3 DEF IsProduct
    <2>. DEFINE S == { j \in 0 .. n - i : p[j + 1] = q[j] * G[i] }
    <2>5. 0 \in S
        <3>1. 1 \in 1 .. n - i + 1 /\ 1 - 1 = 0 /\ (i - 1) + 1 = i /\ 0 + 1 = 1
            BY <2>0
        <3>2. p[1] = p[0] * G[i]
            BY <2>4, <3>1
        <3>. QED BY <1>1, <2>0, <2>4, <3>1, <3>2
    <2>6. ASSUME NEW k \in 0 .. n - i - 1, k \in S PROVE k + 1 \in S
        <3>1. /\ (k + 1) + 1 \in 1 .. n - i + 1 /\ k + 1 \in 1 .. n - i
              /\ ((k + 1) + 1) - 1 = k + 1 /\ (k + 1) - 1 = k
              /\ (i - 1) + ((k + 1) + 1) = i + (k + 1) /\ i + (k + 1) \in 1 .. n
            BY <1>1, <2>0
        <3>2. p[(k + 1) + 1] = p[k + 1] * G[i + (k + 1)]
            BY <2>4, <3>1
        <3>3. q[k + 1] = q[k] * G[i + (k + 1)]
            BY <2>4, <3>1
        <3>4. p[k + 1] = q[k] * G[i]
            BY <2>6
        <3>5. q[k] \in Nat /\ G[i] \in Nat /\ G[i + (k + 1)] \in Nat
            BY <1>1, <2>4, <3>1
        <3>6. \A x, y, z \in Nat : (x * y) * z = (x * z) * y
            OBVIOUS
        <3>7. p[(k + 1) + 1] = q[k + 1] * G[i]
            BY <3>2, <3>3, <3>4, <3>5, <3>6
        <3>. QED BY <3>1, <3>7
    <2>. HIDE DEF S
    <2>7. n - i \in S
        <3>1. \A k \in 0 .. n - i : k \in S
            BY <2>0, <2>5, <2>6, UpTo
        <3>. QED BY <2>0, <3>1
    <2>8. p[n - i + 1] = q[n - i] * G[i]
        BY <2>7 DEF S
    <2>. QED BY <1>4, <2>0, <2>1, <2>2, <2>8
<1>. QED BY <1>1, <1>3, <1>4, <1>6, <1>7, <1>8 DEF n

\* No dimension of a grid with items is empty, or longer than the grid.
LEMMA GridSizes ==
    ASSUME NEW G \in Seq(Nat)
    PROVE  /\ Product(G) \in Nat
           /\ Product(G) > 0 =>
                 /\ \A i \in 1 .. Len(G) : G[i] \in 1 .. Product(G)
                 /\ \A i \in 0 .. Len(G) : Inner(G, i) \in Nat \ {0}
<1>. DEFINE n == Len(G)
            P == Product(G)
            T(i) == Inner(G, i)
<1>1. n \in Nat /\ \A i \in 1 .. n : G[i] \in Nat
    OBVIOUS
<1>2. /\ \A i \in 0 .. n : T(i) \in Nat
      /\ T(0) = P
      /\ \A i \in 1 .. n : T(i - 1) = T(i) * G[i]
    BY InnerProducts
<1>. HIDE DEF n, P, T
<1>3. P \in Nat
    BY <1>1, <1>2
<1>4. \A x, y \in Nat : x * y \in Nat /\ (x * y > 0 => x > 0 /\ y > 0 /\ x <= x * y /\ y <= x * y)
    <2>1. ASSUME NEW x \in Nat, NEW y \in Nat
          PROVE  x * y \in Nat /\ (x * y > 0 => x > 0 /\ y > 0 /\ x <= x * y /\ y <= x * y)
        <3>1. x = 0 \/ y = 0 => x * y = 0
            OBVIOUS
        <3>2. x > 0 /\ y > 0 => x * (y - 1) \in Nat /\ (x - 1) * y \in Nat
            OBVIOUS
        <3>3. x * (y - 1) = x * y - x /\ (x - 1) * y = x * y - y
            OBVIOUS
        <3>4. x * y \in Nat
            OBVIOUS
        <3>. QED BY <3>1, <3>2, <3>3, <3>4
    <2>. QED BY <2>1
<1>5. ASSUME P > 0 PROVE \A i \in 0 .. n : T(i) > 0 /\ T(i) <= P
    <2>. DEFINE S == { i \in 0 .. n : T(i) > 0 /\ T(i) <= P }
    <2>1. 0 \in S
        BY <1>1, <1>2, <1>3, <1>5
    <2>2. ASSUME NEW k \in 0 .. n - 1, k \in S PROVE k + 1 \in S
        <3>1. k + 1 \in 1 .. n /\ k + 1 \in 0 .. n /\ (k + 1) - 1 = k /\ k \in 0 .. n
            BY <1>1
        <3>2. T(k) = T(k + 1) * G[k + 1] /\ T(k) \in Nat /\ T(k + 1) \in Nat /\ G[k + 1] \in Nat
            BY <1>1, <1>2, <3>1
        <3>3. T(k) > 0 /\ T(k) <= P
            BY <2>2
        <3>4. T(k + 1) > 0 /\ T(k + 1) <= T(k)
            BY <1>4, <3>2, <3>3
        <3>. QED BY <1>3, <3>1, <3>2, <3>3, <3>4
    <2>. HIDE DEF S
    <2>3. \A k \in 0 .. n : k \in S
        BY <1>1, <2>1, <2>2, UpTo
    <2>. QED BY <2>3 DEF S
<1>6. ASSUME P > 0, NEW i \in 1 .. n PROVE G[i] \in 1 .. P
    <2>1. i \in 0 .. n /\ i - 1 \in 0 .. n
        BY <1>1
    <2>2. T(i - 1) > 0 /\ T(i - 1) <= P /\ T(i - 1) \in Nat /\ T(i) \in Nat
        BY <1>2, <1>5, <1>6, <2>1
    <2>3. T(i - 1) = T(i) * G[i] /\ G[i] \in Nat
        BY <1>1, <1>2
    <2>4. G[i] > 0 /\ G[i] <= T(i - 1)
        BY <1>4, <2>2, <2>3
    <2>. QED BY <1>3, <2>2, <2>3, <2>4
<1>7. P > 0 => \A i \in 0 .. n : T(i) \in Nat \ {0}
    BY <1>2, <1>5
<1>. QED BY <1>3, <1>6, <1>7 DEF n, P, T

\* The position is what any such succession of positions ends with.
LEMMA PositionIsUnique ==
    ASSUME NEW G \in Seq(Nat), NEW c, \A i \in 1 .. Len(G) : c[i] \in Nat,
           NEW p, IsPosition(p, G, c)
    PROVE  Position(G, c) = p[Len(G)]
<1>. DEFINE n == Len(G)
<1>1. n \in Nat
    OBVIOUS
<1>2. PICK q : IsPosition(q, G, c) /\ Position(G, c) = q[n]
    BY PositionRuns
<1>. DEFINE S == { i \in 0 .. n : q[i] = p[i] }
<1>3. /\ q[0] = p[0]
      /\ \A i \in 1 .. n : q[i] = q[i - 1] * G[i] + c[i] /\ p[i] = p[i - 1] * G[i] + c[i]
    BY <1>2 DEF IsPosition
<1>. HIDE DEF n
<1>4. 0 \in S
    BY <1>1, <1>3
<1>5. ASSUME NEW k \in 0 .. n - 1, k \in S PROVE k + 1 \in S
    <2>1. k + 1 \in 1 .. n /\ k + 1 \in 0 .. n /\ (k + 1) - 1 = k
        BY <1>1
    <2>2. q[k] = p[k]
        BY <1>5
    <2>3. q[k + 1] = p[k + 1]
        BY <1>3, <2>1, <2>2
    <2>. QED BY <2>1, <2>3
<1>. HIDE DEF S
<1>6. \A k \in 0 .. n : k \in S
    BY <1>1, <1>4, <1>5, UpTo
<1>7. n \in S
    BY <1>1, <1>6
<1>8. q[n] = p[n]
    BY <1>7 DEF S
<1>. QED BY <1>2, <1>8 DEF n

\* An item has the position of one item of the grid; the one whose coordinates
\* are the largest is the last.
LEMMA ItemPosition ==
    ASSUME NEW G \in Seq(Nat), NEW c \in Items(G)
    PROVE  /\ Position(G, c) \in 0 .. Product(G) - 1
           /\ (\A i \in 1 .. Len(G) : c[i] = G[i] - 1) => Position(G, c) = Product(G) - 1
<1>. DEFINE n == Len(G)
            P == Product(G)
            T(i) == Inner(G, i)
<1>1. /\ n \in Nat /\ \A i \in 1 .. n : G[i] \in Nat
      /\ \A i \in 1 .. n : c[i] \in Nat /\ c[i] < G[i]
    BY GridSizes DEF Items
<1>2. PICK p : IsPosition(p, G, c) /\ Position(G, c) = p[n]
    BY <1>1, PositionRuns
<1>3. /\ p[0] = 0 /\ \A i \in 0 .. n : p[i] \in Nat
      /\ \A i \in 1 .. n : p[i] = p[i - 1] * G[i] + c[i]
    BY <1>2 DEF IsPosition
<1>4. /\ \A i \in 0 .. n : T(i) \in Nat
      /\ T(0) = P /\ T(n) = 1
      /\ \A i \in 1 .. n : T(i - 1) = T(i) * G[i]
    BY InnerProducts
<1>. HIDE DEF n, P, T
<1>. DEFINE Largest == \A i \in 1 .. n : c[i] = G[i] - 1
            E(i) == (p[i] + 1) * T(i)
            S == { i \in 0 .. n : E(i) <= P /\ (Largest => E(i) = P) }
<1>5. 0 \in S
    BY <1>1, <1>3, <1>4
<1>6. ASSUME NEW k \in 0 .. n - 1, k \in S PROVE k + 1 \in S
    <2>1. k + 1 \in 1 .. n /\ k + 1 \in 0 .. n /\ (k + 1) - 1 = k /\ k \in 0 .. n
        BY <1>1
    <2>2. PICK a, b, t, g, x \in Nat :
              a = p[k] /\ b = p[k + 1] /\ t = T(k + 1) /\ g = G[k + 1] /\ x = c[k + 1]
        BY <1>1, <1>3, <1>4, <2>1
    <2>3. b = a * g + x /\ T(k) = t * g /\ x < g /\ (Largest => x = g - 1)
        BY <1>1, <1>3, <1>4, <2>1, <2>2
    <2>. HIDE DEF Largest
    <2>4. (a + 1) * (t * g) <= P /\ (Largest => (a + 1) * (t * g) = P)
        BY <1>6, <2>2, <2>3
    <2>5. (a + 1) * (t * g) = ((a + 1) * g) * t
        OBVIOUS
    <2>6. (a + 1) * g = a * g + g /\ a * g \in Nat
        OBVIOUS
    <2>7. PICK y \in Nat : y = (a + 1) * g - (b + 1) /\ (Largest => y = 0)
        BY <2>3, <2>6
    <2>8. (a + 1) * g = (b + 1) + y
        BY <2>7
    <2>9. ((a + 1) * g) * t = (b + 1) * t + y * t
        BY <2>8
    <2>10. y * t \in Nat /\ (b + 1) * t \in Nat /\ (y = 0 => y * t = 0)
        OBVIOUS
    <2>11. (b + 1) * t <= P /\ (Largest => (b + 1) * t = P)
        <3>1. P \in Nat
            BY <1>1, <1>4
        <3>2. (a + 1) * (t * g) = (b + 1) * t + y * t
            BY <2>5, <2>9
        <3>. QED BY <2>4, <2>7, <2>10, <3>1, <3>2
    <2>. QED BY <2>1, <2>2, <2>11
<1>. HIDE DEF S
<1>7. \A k \in 0 .. n : k \in S
    BY <1>1, <1>5, <1>6, UpTo
<1>8. E(n) <= P /\ (Largest => E(n) = P)
    BY <1>1, <1>7 DEF S
<1>9. E(n) = p[n] + 1 /\ p[n] \in Nat /\ P \in Nat
    BY <1>1, <1>3, <1>4
<1>. HIDE DEF Largest, E
<1>10. p[n] \in 0 .. P - 1 /\ (Largest => p[n] = P - 1)
    BY <1>8, <1>9
<1>. QED BY <1>2, <1>10 DEF Largest, n, P

\* The coordinates of an item.
LEMMA ItemFacts ==
    ASSUME NEW G \in Seq(Nat), NEW c \in Items(G)
    PROVE  /\ Len(G) \in Nat /\ Product(G) \in Nat
           /\ \A i \in 1 .. Len(G) :
                 c[i] \in Nat /\ c[i] < G[i] /\ G[i] \in Nat \ {0} /\ c[i] \in 0 .. G[i] - 1
           /\ c = [i \in 1 .. Len(G) |-> c[i]]
<1>1. Product(G) \in Nat /\ Len(G) \in Nat /\ \A i \in 1 .. Len(G) : G[i] \in Nat
    BY GridSizes
<1>2. c \in [1 .. Len(G) -> 0 .. Product(G)] /\ \A i \in 1 .. Len(G) : c[i] < G[i]
    BY DEF Items
<1>3. ASSUME NEW i \in 1 .. Len(G)
      PROVE  c[i] \in Nat /\ c[i] < G[i] /\ G[i] \in Nat \ {0} /\ c[i] \in 0 .. G[i] - 1
    <2>1. c[i] \in 0 .. Product(G) /\ c[i] < G[i] /\ G[i] \in Nat
        BY <1>1, <1>2
    <2>. QED BY <1>1, <2>1
<1>. QED BY <1>1, <1>2, <1>3

\* A number is of one row and one column only.
LEMMA SameCell ==
    ASSUME NEW g \in Nat \ {0}, NEW y \in Nat, NEW z \in Nat,
           NEW x \in 0 .. g - 1, NEW w \in 0 .. g - 1, y * g + x = z * g + w
    PROVE  y = z /\ x = w
<1>1. y < z <=> y * g + x < z * g
    BY RowOrder
<1>2. z < y <=> z * g + w < y * g
    BY RowOrder
<1>3. y * g \in Nat /\ z * g \in Nat
    OBVIOUS
<1>4. y = z
    BY <1>1, <1>2, <1>3
<1>. QED BY <1>3, <1>4

\* No two items are in the same position.
LEMMA ItemsDiffer ==
    ASSUME NEW G \in Seq(Nat), NEW c \in Items(G), NEW e \in Items(G),
           Position(G, c) = Position(G, e)
    PROVE  c = e
<1>. DEFINE n == Len(G)
<1>1. n \in Nat
    OBVIOUS
<1>1a. /\ \A i \in 1 .. n : c[i] \in Nat /\ e[i] \in Nat
       /\ c = [i \in 1 .. n |-> c[i]] /\ e = [i \in 1 .. n |-> e[i]]
    BY ItemFacts
<1>2. PICK p : IsPosition(p, G, c) /\ Position(G, c) = p[n]
    BY <1>1a, PositionRuns
<1>3. PICK q : IsPosition(q, G, e) /\ Position(G, e) = q[n]
    BY <1>1a, PositionRuns
<1>4. /\ \A i \in 0 .. n : p[i] \in Nat /\ q[i] \in Nat
      /\ \A i \in 1 .. n : p[i] = p[i - 1] * G[i] + c[i]
      /\ \A i \in 1 .. n : q[i] = q[i - 1] * G[i] + e[i]
    BY <1>2, <1>3 DEF IsPosition
<1>. HIDE DEF n
<1>5. ASSUME NEW i \in 1 .. n, p[i] = q[i]
      PROVE  p[i - 1] = q[i - 1] /\ c[i] = e[i]
    <2>1. i - 1 \in 0 .. n /\ i \in 0 .. n
        BY <1>1
    <2>2. G[i] \in Nat \ {0} /\ c[i] \in 0 .. G[i] - 1 /\ e[i] \in 0 .. G[i] - 1
        BY ItemFacts DEF n
    <2>3. p[i - 1] \in Nat /\ q[i - 1] \in Nat
        BY <1>4, <2>1
    <2>4. p[i] = p[i - 1] * G[i] + c[i] /\ q[i] = q[i - 1] * G[i] + e[i]
        BY <1>4
    <2>5. p[i - 1] * G[i] + c[i] = q[i - 1] * G[i] + e[i]
        BY <1>5, <2>4
    <2>6. PICK g \in Nat \ {0}, y \in Nat, z \in Nat :
              g = G[i] /\ y = p[i - 1] /\ z = q[i - 1]
        BY <2>2, <2>3
    <2>7. PICK x \in 0 .. g - 1, w \in 0 .. g - 1 : x = c[i] /\ w = e[i]
        BY <2>2, <2>6
    <2>8. y * g + x = z * g + w
        BY <2>5, <2>6, <2>7
    <2>9. y = z /\ x = w
        BY <2>8, SameCell
    <2>. QED BY <2>6, <2>7, <2>9
<1>. DEFINE S == { i \in 0 .. n : p[i] = q[i] }
<1>6. n \in S
    <2>1. p[n] = q[n]
        BY <1>2, <1>3
    <2>2. n \in 0 .. n
        BY <1>1
    <2>. QED BY <2>1, <2>2
<1>7. ASSUME NEW k \in 0 .. n - 1, k + 1 \in S PROVE k \in S
    <2>1. k + 1 \in 1 .. n /\ (k + 1) - 1 = k /\ k \in 0 .. n
        BY <1>1
    <2>2. p[k + 1] = q[k + 1]
        BY <1>7
    <2>3. p[k] = q[k]
        BY <1>5, <2>1, <2>2
    <2>. QED BY <2>1, <2>3
<1>. HIDE DEF S
<1>8. \A k \in 0 .. n : k \in S
    BY <1>1, <1>6, <1>7, DownFrom
<1>9. ASSUME NEW i \in 1 .. n PROVE c[i] = e[i]
    <2>1. i \in S
        BY <1>1, <1>8
    <2>2. p[i] = q[i]
        BY <2>1 DEF S
    <2>. QED BY <1>5, <2>2
<1>. QED BY <1>1a, <1>9

LEMMA MakeItem ==
    ASSUME NEW G \in Seq(Nat), Product(G) > 0, NEW c,
           c = [i \in 1 .. Len(G) |-> c[i]],
           \A i \in 1 .. Len(G) : c[i] \in 0 .. G[i] - 1
    PROVE  c \in Items(G)
<1>1. /\ Product(G) \in Nat /\ Len(G) \in Nat
      /\ \A i \in 1 .. Len(G) : G[i] \in 1 .. Product(G)
    BY GridSizes
<1>2. ASSUME NEW i \in 1 .. Len(G) PROVE c[i] \in 0 .. Product(G) /\ c[i] < G[i]
    <2>1. c[i] \in 0 .. G[i] - 1 /\ G[i] \in 1 .. Product(G)
        BY <1>1
    <2>. QED BY <1>1, <2>1
<1>3. c \in [1 .. Len(G) -> 0 .. Product(G)]
    BY <1>2
<1>. QED BY <1>2, <1>3 DEF Items

\* A coordinate after the one given, around a dimension of g.
LEMMA NextCoordinate ==
    ASSUME NEW g \in Nat \ {0}, NEW x \in 0 .. g - 1
    PROVE  (x + 1) % g = IF x = g - 1 THEN 0 ELSE x + 1
<1>1. CASE x = g - 1
    <2>1. x + 1 = 1 * g /\ 1 \in Nat
        BY <1>1
    <2>2. (x + 1) % g = 0
        BY <2>1, Multiple
    <2>. QED BY <1>1, <2>2
<1>2. CASE x # g - 1
    <2>1. PICK y \in Nat, z \in 0 .. g - 1 : y = 0 /\ z = x + 1
        BY <1>2
    <2>2. z = y * g + z
        BY <2>1
    <2>3. z % g = z
        BY <2>2, RowMajorIsUnique
    <2>. QED BY <1>2, <2>1, <2>3
<1>. QED BY <1>1, <1>2

\* Dividing twice.
LEMMA DivideTwice ==
    ASSUME NEW x \in Nat, NEW a \in Nat \ {0}, NEW b \in Nat \ {0}
    PROVE  x \div (a * b) = (x \div a) \div b
<1>1. PICK q \in Nat, r \in 0 .. a - 1 : q = x \div a /\ x = a * q + r
    BY Quotients
<1>2. PICK z \in Nat, w \in 0 .. b - 1 : z = q \div b /\ q = b * z + w
    BY Quotients
<1>3. a * b \in Nat \ {0}
    OBVIOUS
<1>4. a * w + r \in 0 .. a * b - 1
    <2>1. a * w \in Nat
        OBVIOUS
    <2>2. (b - 1 - w) \in Nat /\ a * (b - 1 - w) \in Nat
        OBVIOUS
    <2>3. a * (b - 1 - w) = a * b - a - a * w
        OBVIOUS
    <2>. QED BY <1>3, <2>1, <2>2, <2>3
<1>5. x = z * (a * b) + (a * w + r)
    <2>1. a * q = a * (b * z) + a * w
        BY <1>2
    <2>2. a * (b * z) = z * (a * b)
        OBVIOUS
    <2>. QED BY <1>1, <2>1, <2>2
<1>6. x \div (a * b) = z
    BY <1>3, <1>4, <1>5, RowMajorIsUnique
<1>. QED BY <1>1, <1>2, <1>6

\* nd_iterator_init puts the iterator on the item it is given the number of.
LEMMA InitPosition ==
    ASSUME dims \in Seq(Nat), Work > 0, NEW x \in 0 .. Work
    PROVE  /\ NdInit(x) \in Items(dims)
           /\ x < Work => Position(dims, NdInit(x)) = x
<1>. DEFINE n == Len(dims)
            c == NdInit(x)
            T(i) == Inner(dims, i)
            p == [i \in 0 .. n |-> x \div T(i)]
<1>1. /\ n \in Nat /\ Work \in Nat
      /\ \A i \in 1 .. n : dims[i] \in 1 .. Work
      /\ \A i \in 0 .. n : T(i) \in Nat \ {0}
    BY GridSizes DEF Work
<1>1a. x \in Nat
    BY <1>1
<1>2. /\ T(0) = Work /\ T(n) = 1
      /\ \A i \in 1 .. n : T(i - 1) = T(i) * dims[i]
    BY InnerProducts DEF Work
<1>3. c = [i \in 1 .. n |-> (x \div T(i)) % dims[i]]
    BY DEF NdInit, Inner, Rank
<1>. HIDE DEF n, c, T
<1>4. ASSUME NEW i \in 1 .. n
      PROVE  c[i] \in 0 .. dims[i] - 1 /\ p[i] = p[i - 1] * dims[i] + c[i]
    <2>1. i \in 0 .. n /\ i - 1 \in 0 .. n
        BY <1>1
    <2>2. PICK a \in Nat \ {0}, b \in Nat \ {0} : a = T(i) /\ b = dims[i]
        BY <1>1, <2>1
    <2>3. T(i - 1) = a * b
        BY <1>2, <2>2
    <2>4. p[i] = x \div a /\ p[i - 1] = x \div (a * b)
        BY <2>1, <2>2, <2>3
    <2>5. c[i] = (x \div a) % b
        BY <1>3, <2>2
    <2>6. x \in Nat /\ x \div a \in Nat
        BY <1>1a, Quotients
    <2>7. PICK q \in Nat : q = x \div a
        BY <2>6
    <2>8. q \div b \in Nat /\ q % b \in 0 .. b - 1 /\ q = b * (q \div b) + (q % b)
        BY <2>7, Quotients
    <2>9. x \div (a * b) = q \div b
        BY <2>6, <2>7, DivideTwice
    <2>10. b * (q \div b) = (q \div b) * b
        BY <2>8
    <2>. QED BY <2>2, <2>4, <2>5, <2>7, <2>8, <2>9, <2>10
<1>5. c \in Items(dims)
    <2>1. c = [i \in 1 .. n |-> c[i]]
        BY <1>3
    <2>. QED BY <1>4, <2>1, MakeItem DEF n, Work
<1>6. ASSUME x < Work PROVE Position(dims, c) = x
    <2>1. p[0] = 0
        <3>1. x = 0 * Work + x /\ 0 \in Nat /\ x \in 0 .. Work - 1 /\ Work \in Nat \ {0}
            BY <1>1, <1>6
        <3>2. x \div Work = 0
            BY <3>1, RowMajorIsUnique
        <3>. QED BY <1>1, <1>2, <3>2
    <2>2. p[n] = x
        <3>1. x \div 1 = x
            BY <1>1
        <3>. QED BY <1>1, <1>2, <3>1
    <2>3. ASSUME NEW i \in 0 .. n PROVE p[i] \in Nat
        <3>1. T(i) \in Nat \ {0}
            BY <1>1
        <3>2. x \div T(i) \in Nat
            BY <1>1a, <3>1, Quotients
        <3>. QED BY <3>2
    <2>4. p \in [0 .. n -> Nat]
        BY <2>3
    <2>. HIDE DEF p
    <2>5. IsPosition(p, dims, c)
        BY <1>4, <2>1, <2>4 DEF IsPosition, n
    <2>6. \A i \in 1 .. n : c[i] \in Nat
        BY <1>5, ItemFacts DEF n
    <2>7. Position(dims, c) = p[n]
        BY <2>5, <2>6, PositionIsUnique DEF n
    <2>. QED BY <2>2, <2>7
<1>. QED BY <1>5, <1>6 DEF c

\* nd_iterator_step moves the iterator on to the next item.
LEMMA StepPosition ==
    ASSUME dims \in Seq(Nat), NEW c \in Items(dims)
    PROVE  /\ NdStep(c) \in Items(dims)
           /\ Position(dims, c) + 1 < Work => Position(dims, NdStep(c)) = Position(dims, c) + 1
<1>. DEFINE n == Len(dims)
            e == NdStep(c)
            M(i) == \A j \in i + 1 .. n : c[j] = dims[j] - 1
<1>1. /\ n \in Nat /\ Work \in Nat
      /\ \A i \in 1 .. n : c[i] \in Nat /\ dims[i] \in Nat \ {0} /\ c[i] \in 0 .. dims[i] - 1
    BY ItemFacts DEF Work
<1>2. /\ Position(dims, c) \in 0 .. Work - 1
      /\ (\A i \in 1 .. n : c[i] = dims[i] - 1) => Position(dims, c) = Work - 1
    BY ItemPosition DEF Work
<1>3. e = [i \in 1 .. n |-> IF M(i) THEN (c[i] + 1) % dims[i] ELSE c[i]]
    BY DEF NdStep, Rank
<1>. HIDE DEF n, e
<1>4. ASSUME NEW i \in 1 .. n
      PROVE  /\ M(i - 1) <=> M(i) /\ c[i] = dims[i] - 1
             /\ ~M(i) => e[i] = c[i]
             /\ M(i) /\ ~M(i - 1) => e[i] = c[i] + 1
             /\ M(i - 1) => e[i] = 0
             /\ e[i] \in 0 .. dims[i] - 1
    <2>1. M(i - 1) <=> M(i) /\ c[i] = dims[i] - 1
        <3>1. (i - 1) + 1 .. n = {i} \cup (i + 1 .. n)
            BY <1>1
        <3>. QED BY <3>1
    <2>2. dims[i] \in Nat \ {0} /\ c[i] \in 0 .. dims[i] - 1
        BY <1>1
    <2>3. (c[i] + 1) % dims[i] = IF c[i] = dims[i] - 1 THEN 0 ELSE c[i] + 1
        BY <2>2, NextCoordinate
    <2>4. e[i] = IF M(i) THEN (c[i] + 1) % dims[i] ELSE c[i]
        BY <1>3
    <2>. HIDE DEF M
    <2>. QED BY <2>1, <2>2, <2>3, <2>4
<1>5. e \in Items(dims)
    <2>1. e = [i \in 1 .. n |-> e[i]]
        BY <1>3
    <2>2. Product(dims) > 0
        BY <1>1, <1>2 DEF Work
    <2>. QED BY <1>4, <2>1, <2>2, MakeItem DEF n
<1>6. ASSUME Position(dims, c) + 1 < Work
      PROVE  Position(dims, e) = Position(dims, c) + 1
    <2>1. ~M(0)
        <3>1. 0 + 1 = 1
            OBVIOUS
        <3>. QED BY <1>1, <1>2, <1>6, <3>1
    <2>2. M(n)
        BY <1>1
    <2>3. PICK p : IsPosition(p, dims, c) /\ Position(dims, c) = p[n]
        BY <1>1, PositionRuns DEF n
    <2>4. /\ p[0] = 0 /\ \A i \in 0 .. n : p[i] \in Nat
          /\ \A i \in 1 .. n : p[i] = p[i - 1] * dims[i] + c[i]
        BY <2>3 DEF IsPosition, n
    <2>. HIDE DEF M
    <2>. DEFINE q == [i \in 0 .. n |-> IF M(i) THEN p[i] + 1 ELSE p[i]]
    <2>5. \A i \in 0 .. n : q[i] = IF M(i) THEN p[i] + 1 ELSE p[i]
        OBVIOUS
    <2>6. q \in [0 .. n -> Nat]
        BY <2>4
    <2>7. q[0] = 0
        BY <1>1, <2>1, <2>4, <2>5
    <2>. HIDE DEF q
    <2>8. ASSUME NEW i \in 1 .. n PROVE q[i] = q[i - 1] * dims[i] + e[i]
        <3>1. i \in 0 .. n /\ i - 1 \in 0 .. n
            BY <1>1
        <3>2. PICK a, b \in Nat, g \in Nat \ {0}, x \in Nat :
                  a = p[i - 1] /\ b = p[i] /\ g = dims[i] /\ x = c[i]
            BY <1>1, <2>4, <3>1
        <3>3. b = a * g + x
            BY <2>4, <3>2
        <3>4. CASE ~M(i)
            <4>1. ~M(i - 1) /\ e[i] = x
                BY <1>4, <3>2, <3>4
            <4>. QED BY <2>5, <3>1, <3>2, <3>3, <3>4, <4>1
        <3>5. CASE M(i) /\ ~M(i - 1)
            <4>1. e[i] = x + 1
                BY <1>4, <3>2, <3>5
            <4>2. b + 1 = a * g + (x + 1)
                BY <3>3
            <4>. QED BY <2>5, <3>1, <3>2, <3>5, <4>1, <4>2
        <3>6. CASE M(i - 1)
            <4>1. e[i] = 0 /\ M(i) /\ x = g - 1
                BY <1>4, <3>2, <3>6
            <4>2. b + 1 = (a + 1) * g + 0
                BY <3>3, <4>1
            <4>. QED BY <2>5, <3>1, <3>2, <3>6, <4>1, <4>2
        <3>. QED BY <3>4, <3>5, <3>6
    <2>9. IsPosition(q, dims, e)
        BY <2>6, <2>7, <2>8 DEF IsPosition, n
    <2>10. \A i \in 1 .. n : e[i] \in Nat
        BY <1>5, ItemFacts DEF n
    <2>11. Position(dims, e) = q[n]
        BY <2>9, <2>10, PositionIsUnique DEF n
    <2>12. q[n] = p[n] + 1
        BY <1>1, <2>2, <2>5
    <2>. QED BY <2>3, <2>11, <2>12
<1>. QED BY <1>5, <1>6 DEF e

\* The innermost coordinate moves the position by as much.
LEMMA InnermostPosition ==
    ASSUME dims \in Seq(Nat), dims # <<>>, NEW c \in Items(dims),
           NEW v \in 0 .. dims[Rank] - 1
    PROVE  /\ [c EXCEPT ![Rank] = v] \in Items(dims)
           /\ Position(dims, [c EXCEPT ![Rank] = v]) = Position(dims, c) - c[Rank] + v
<1>. DEFINE n == Len(dims)
            e == [c EXCEPT ![n] = v]
<1>1. /\ n \in Nat /\ n # 0 /\ Work \in Nat
      /\ \A i \in 1 .. n : c[i] \in Nat /\ dims[i] \in Nat \ {0} /\ c[i] \in 0 .. dims[i] - 1
      /\ c = [i \in 1 .. n |-> c[i]]
    BY ItemFacts DEF Work
<1>2. Position(dims, c) \in 0 .. Work - 1
    BY ItemPosition DEF Work
<1>3. n \in 1 .. n /\ n = Rank
    BY <1>1 DEF Rank
<1>4. /\ e = [i \in 1 .. n |-> e[i]]
      /\ \A i \in 1 .. n : e[i] = IF i = n THEN v ELSE c[i]
    BY <1>1, <1>3
<1>. HIDE DEF n, e
<1>5. v \in 0 .. dims[n] - 1
    BY <1>3
<1>6. \A i \in 1 .. n : e[i] \in 0 .. dims[i] - 1
    BY <1>1, <1>4, <1>5
<1>7. e \in Items(dims)
    <2>1. Product(dims) > 0
        BY <1>1, <1>2 DEF Work
    <2>. QED BY <1>4, <1>6, <2>1, MakeItem DEF n
<1>8. PICK p : IsPosition(p, dims, c) /\ Position(dims, c) = p[n]
    BY <1>1, PositionRuns DEF n
<1>9. /\ p[0] = 0 /\ \A i \in 0 .. n : p[i] \in Nat
      /\ \A i \in 1 .. n : p[i] = p[i - 1] * dims[i] + c[i]
    BY <1>8 DEF IsPosition, n
<1>. DEFINE q == [i \in 0 .. n |-> IF i = n THEN p[n - 1] * dims[n] + v ELSE p[i]]
<1>10. n - 1 \in 0 .. n - 1 /\ n - 1 \in 0 .. n /\ p[n - 1] * dims[n] + v \in Nat
    <2>1. n - 1 \in 0 .. n - 1 /\ n - 1 \in 0 .. n
        BY <1>1
    <2>2. p[n - 1] \in Nat /\ dims[n] \in Nat /\ v \in Nat
        BY <1>1, <1>3, <1>5, <1>9, <2>1
    <2>3. p[n - 1] * dims[n] \in Nat
        BY <2>2
    <2>. QED BY <2>1, <2>2, <2>3
<1>11. /\ q \in [0 .. n -> Nat] /\ q[0] = 0
       /\ q[n] = p[n - 1] * dims[n] + v
       /\ \A i \in 0 .. n - 1 : q[i] = p[i]
    <2>1. \A i \in 0 .. n : q[i] = IF i = n THEN p[n - 1] * dims[n] + v ELSE p[i]
        OBVIOUS
    <2>2. q \in [0 .. n -> Nat]
        BY <1>9, <1>10
    <2>. HIDE DEF q
    <2>. QED BY <1>1, <1>9, <2>1, <2>2
<1>. HIDE DEF q
<1>12. ASSUME NEW i \in 1 .. n PROVE q[i] = q[i - 1] * dims[i] + e[i]
    <2>1. i - 1 \in 0 .. n - 1 /\ q[i - 1] = p[i - 1]
        BY <1>1, <1>11
    <2>2. CASE i = n
        BY <1>4, <1>11, <2>1, <2>2
    <2>3. CASE i # n
        <3>1. i \in 0 .. n - 1 /\ q[i] = p[i] /\ e[i] = c[i]
            BY <1>1, <1>4, <1>11, <2>3
        <3>. QED BY <1>9, <2>1, <3>1
    <2>. QED BY <2>2, <2>3
<1>13. IsPosition(q, dims, e)
    BY <1>11, <1>12 DEF IsPosition, n
<1>14. \A i \in 1 .. n : e[i] \in Nat
    BY <1>7, ItemFacts DEF n
<1>15. Position(dims, e) = q[n]
    BY <1>13, <1>14, PositionIsUnique DEF n
<1>16. q[n] = p[n] - c[n] + v
    <2>1. PICK a \in Nat : a = p[n - 1] * dims[n]
        <3>1. p[n - 1] \in Nat /\ dims[n] \in Nat
            BY <1>1, <1>3, <1>9, <1>10
        <3>. QED BY <3>1
    <2>2. p[n] = a + c[n] /\ q[n] = a + v
        BY <1>3, <1>9, <1>11, <2>1
    <2>3. c[n] \in Nat /\ v \in Nat
        BY <1>1, <1>3, <1>5
    <2>. QED BY <2>2, <2>3
<1>. QED BY <1>3, <1>7, <1>8, <1>15, <1>16 DEF e

\* nd_iterator_jump moves the iterator on by the items of a strip.
LEMMA JumpPosition ==
    ASSUME dims \in Seq(Nat), dims # <<>>, NEW c \in Items(dims), NEW k \in Nat \ {0},
           c[Rank] + k <= dims[Rank]
    PROVE  /\ NdJump(c, k) \in Items(dims)
           /\ Position(dims, c) + k < Work => Position(dims, NdJump(c, k)) = Position(dims, c) + k
<1>1. /\ Rank \in 1 .. Rank /\ dims[Rank] \in Nat \ {0} /\ c[Rank] \in 0 .. dims[Rank] - 1
      /\ Work \in Nat /\ Position(dims, c) \in 0 .. Work - 1
    <2>1. Rank \in 1 .. Len(dims)
        BY DEF Rank
    <2>2. Position(dims, c) \in 0 .. Product(dims) - 1
        BY ItemPosition
    <2>. QED BY <2>1, <2>2, ItemFacts DEF Rank, Work
<1>2. CASE c[Rank] + k = dims[Rank]
    <2>. DEFINE v == dims[Rank] - 1
                e == [c EXCEPT ![Rank] = v]
    <2>1. NdJump(c, k) = NdStep(e)
        BY <1>2 DEF NdJump
    <2>2. v \in 0 .. dims[Rank] - 1
        BY <1>1
    <2>3. e \in Items(dims) /\ Position(dims, e) = Position(dims, c) - c[Rank] + v
        <3>. HIDE DEF v
        <3>. QED BY <2>2, InnermostPosition
    <2>4. Position(dims, e) = Position(dims, c) + k - 1
        BY <1>1, <1>2, <2>3
    <2>. HIDE DEF e
    <2>5. /\ NdStep(e) \in Items(dims)
          /\ Position(dims, e) + 1 < Work => Position(dims, NdStep(e)) = Position(dims, e) + 1
        BY <2>3, StepPosition
    <2>6. Position(dims, e) + 1 = Position(dims, c) + k
        BY <1>1, <2>4
    <2>. QED BY <2>1, <2>5, <2>6
<1>3. CASE c[Rank] + k # dims[Rank]
    <2>. DEFINE v == c[Rank] + k
                e == [c EXCEPT ![Rank] = v]
    <2>1. NdJump(c, k) = e
        BY <1>3 DEF NdJump
    <2>2. v \in 0 .. dims[Rank] - 1
        <3>1. PICK a, b \in Nat : a = c[Rank] /\ b = dims[Rank]
            BY <1>1
        <3>2. a + k <= b /\ a + k # b
            BY <1>3, <3>1
        <3>3. a + k \in 0 .. b - 1
            BY <3>2
        <3>4. v = a + k
            BY <3>1
        <3>. QED BY <3>1, <3>3, <3>4
    <2>3. e \in Items(dims) /\ Position(dims, e) = Position(dims, c) - c[Rank] + v
        <3>. HIDE DEF v
        <3>. QED BY <2>2, InnermostPosition
    <2>4. Position(dims, e) = Position(dims, c) + k
        BY <1>1, <2>3
    <2>. QED BY <2>1, <2>3, <2>4
<1>. QED BY <1>2, <1>3

\* The items of a strip are those at the positions it spans.
LEMMA StripPositions ==
    ASSUME dims \in Seq(Nat), dims # <<>>, NEW c \in Items(dims), NEW k \in Nat \ {0},
           c[Rank] + k <= dims[Rank], NEW e \in Items(dims)
    PROVE  e \in { [c EXCEPT ![Rank] = @ + j] : j \in 0 .. k - 1 }
             <=> Position(dims, e) \in Position(dims, c) .. Position(dims, c) + k - 1
<1>1. /\ dims[Rank] \in Nat \ {0} /\ c[Rank] \in 0 .. dims[Rank] - 1
      /\ Work \in Nat /\ Position(dims, c) \in 0 .. Work - 1 /\ Position(dims, e) \in 0 .. Work - 1
    <2>1. Rank \in 1 .. Len(dims)
        BY DEF Rank
    <2>2. Position(dims, c) \in 0 .. Product(dims) - 1 /\ Position(dims, e) \in 0 .. Product(dims) - 1
        BY ItemPosition
    <2>. QED BY <2>1, <2>2, ItemFacts DEF Rank, Work
<1>2. ASSUME NEW j \in 0 .. k - 1
      PROVE  /\ [c EXCEPT ![Rank] = @ + j] \in Items(dims)
             /\ Position(dims, [c EXCEPT ![Rank] = @ + j]) = Position(dims, c) + j
    <2>. DEFINE v == c[Rank] + j
                s == [c EXCEPT ![Rank] = v]
    <2>1. v \in 0 .. dims[Rank] - 1
        <3>1. PICK a, b \in Nat : a = c[Rank] /\ b = dims[Rank]
            BY <1>1
        <3>2. a + k <= b
            BY <3>1
        <3>3. a + j \in 0 .. b - 1
            BY <3>2
        <3>4. v = a + j
            BY <3>1
        <3>. QED BY <3>1, <3>3, <3>4
    <2>2. s \in Items(dims) /\ Position(dims, s) = Position(dims, c) - c[Rank] + v
        <3>. HIDE DEF v
        <3>. QED BY <2>1, InnermostPosition
    <2>3. Position(dims, s) = Position(dims, c) + j
        BY <1>1, <2>2
    <2>4. s = [c EXCEPT ![Rank] = @ + j]
        OBVIOUS
    <2>. QED BY <2>2, <2>3, <2>4
<1>3. ASSUME NEW j \in 0 .. k - 1, e = [c EXCEPT ![Rank] = @ + j]
      PROVE  Position(dims, e) \in Position(dims, c) .. Position(dims, c) + k - 1
    <2>1. Position(dims, e) = Position(dims, c) + j
        BY <1>2, <1>3
    <2>. QED BY <1>1, <2>1
<1>4. ASSUME Position(dims, e) \in Position(dims, c) .. Position(dims, c) + k - 1
      PROVE  e \in { [c EXCEPT ![Rank] = @ + j] : j \in 0 .. k - 1 }
    <2>1. PICK j \in 0 .. k - 1 : Position(dims, e) = Position(dims, c) + j
        <3>1. Position(dims, e) - Position(dims, c) \in 0 .. k - 1
            BY <1>1, <1>4
        <3>2. Position(dims, e) = Position(dims, c) + (Position(dims, e) - Position(dims, c))
            BY <1>1
        <3>. QED BY <3>1, <3>2
    <2>. DEFINE s == [c EXCEPT ![Rank] = @ + j]
    <2>2. s \in Items(dims) /\ Position(dims, s) = Position(dims, e)
        BY <1>2, <2>1
    <2>. HIDE DEF s
    <2>3. e = s
        BY <2>2, ItemsDiffer
    <2>. QED BY <2>3 DEF s
<1>. QED BY <1>3, <1>4

\* Where thread t is in its share, and its iterator with it.
InShare(t) ==
    /\ stage[t] = "start" => cur[t] = 0
    /\ stage[t] = "loop" =>
          /\ Work > 0 /\ last[t] = End(Work, granted, t)
          /\ cur[t] \in Start(Work, granted, t) .. last[t]
          /\ iter[t] \in Items(dims)
          /\ cur[t] < Work => Position(dims, iter[t]) = cur[t]
    /\ stage[t] = "done" => Work = 0 \/ cur[t] = End(Work, granted, t)

\* Somebody has passed the item at position x.
Passed(x) == \E t \in Granted : Start(Work, granted, t) <= x /\ x < cur[t]

\* An item has been run once if a thread has passed it, and else not at all.
RunOnce == \A c \in Items(dims) : runs[c] = IF Passed(Position(dims, c)) THEN 1 ELSE 0

SectionInv == TypeOK /\ (\A t \in Granted : InShare(t)) /\ RunOnce

LEMMA GridIsSequence ==
    ASSUME dims \in Grids
    PROVE  dims \in Seq(Nat) /\ dims # <<>> /\ Work \in Nat
BY GridsAssumption, GridSizes DEF Work

\* Before the loops, nobody has passed an item.
LEMMA SectionInvInit == Forked => SectionInv
<1>. SUFFICES ASSUME Forked PROVE SectionInv
    OBVIOUS
<1>1. dims \in Seq(Nat) /\ dims # <<>> /\ Work \in Nat
    BY GridIsSequence DEF Forked
<1>2. granted \in 1 .. MaxTeam
    BY MaxTeamAssumption DEF Forked
<1>3. TypeOK
    BY <1>1, <1>2, MaxTeamAssumption DEF Forked, TypeOK
<1>4. ASSUME NEW t \in Granted PROVE stage[t] = "start" /\ cur[t] = 0
    <2>1. t \in Grantable
        BY <1>2, MaxTeamAssumption DEF Granted, Grantable
    <2>. QED BY <2>1 DEF Forked
<1>5. \A t \in Granted : InShare(t)
    BY <1>4 DEF InShare
<1>6. ASSUME NEW c \in Items(dims) PROVE runs[c] = 0 /\ ~Passed(Position(dims, c))
    <2>1. Position(dims, c) \in 0 .. Product(dims) - 1
        BY <1>1, ItemPosition
    <2>2. Position(dims, c) \in Nat
        BY <1>1, <2>1 DEF Work
    <2>3. ~Passed(Position(dims, c))
        BY <1>4, <2>2 DEF Passed
    <2>. QED BY <2>3 DEF Forked
<1>7. RunOnce
    BY <1>6 DEF RunOnce
<1>. QED BY <1>3, <1>5, <1>7 DEF SectionInv

\* A thread runs the next k items of its share.
LEMMA SectionAdvances ==
    ASSUME SectionInv, NEW t \in Granted, stage[t] = "loop",
           NEW k \in Nat \ {0}, cur[t] + k <= last[t],
           NEW e \in Items(dims), cur[t] + k < Work => Position(dims, e) = cur[t] + k,
           cur' = [cur EXCEPT ![t] = @ + k],
           iter' = [iter EXCEPT ![t] = e],
           runs' = [c \in Items(dims) |->
                       IF Position(dims, c) \in cur[t] .. cur[t] + k - 1
                       THEN runs[c] + 1 ELSE runs[c]],
           UNCHANGED <<dims, strips, granted, stage, last>>
    PROVE  SectionInv'
<1>. DEFINE S(u) == Start(Work, granted, u)
            E(u) == End(Work, granted, u)
            x == cur[t]
<1>1. /\ dims \in Seq(Nat) /\ dims # <<>> /\ Work \in Nat
      /\ granted \in 1 .. MaxTeam /\ granted \in Nat \ {0}
      /\ t \in Grantable /\ Granted \subseteq Grantable
    BY MaxTeamAssumption, GridIsSequence DEF SectionInv, TypeOK, Granted, Grantable
<1>2. /\ Work' = Work /\ Granted' = Granted /\ dims' = dims /\ granted' = granted
      /\ \A u \in Granted : stage'[u] = stage[u] /\ last'[u] = last[u]
    BY DEF Work, Granted
<1>3. /\ \A u \in Granted : cur[u] \in Nat
      /\ \A u \in Granted : cur'[u] = IF u = t THEN x + k ELSE cur[u]
      /\ \A u \in Granted : iter'[u] = IF u = t THEN e ELSE iter[u]
    BY <1>1 DEF SectionInv, TypeOK
<1>4. /\ Work > 0 /\ last[t] = E(t) /\ x \in S(t) .. E(t)
      /\ \A u \in Granted : InShare(u)
    BY DEF SectionInv, InShare
<1>5. /\ \A u \in Granted : S(u) \in Nat /\ E(u) \in Nat /\ S(u) <= E(u) /\ E(u) <= Work
      /\ \A u \in Granted : u # t => E(u) <= S(t) \/ E(t) <= S(u)
    <2>1. \A u, v \in 0 .. granted - 1 :
              u <= v => S(u) \in Nat /\ E(u) \in Nat /\ S(u) <= E(u) /\ S(u) <= S(v)
        BY <1>1, SharesAreOrdered
    <2>2. /\ \A u \in 0 .. granted - 2 : E(u) = S(u + 1)
          /\ E(granted - 1) = Work
        BY <1>1, SharesAreConsecutive
    <2>. HIDE DEF S, E
    <2>3. ASSUME NEW u \in 0 .. granted - 1, NEW v \in 0 .. granted - 1, u < v
          PROVE  E(u) <= S(v)
        <3>1. u \in 0 .. granted - 2 /\ u + 1 \in 0 .. granted - 1 /\ u + 1 <= v
            BY <1>1, <2>3
        <3>. QED BY <2>1, <2>2, <3>1
    <2>4. ASSUME NEW u \in 0 .. granted - 1
          PROVE  S(u) \in Nat /\ E(u) \in Nat /\ S(u) <= E(u) /\ E(u) <= Work
        <3>1. granted - 1 \in 0 .. granted - 1 /\ u <= granted - 1 /\ u <= u
            BY <1>1
        <3>2. /\ S(u) \in Nat /\ E(u) \in Nat /\ S(u) <= E(u)
              /\ S(granted - 1) <= E(granted - 1) /\ S(granted - 1) \in Nat
            BY <2>1, <3>1
        <3>3. CASE u = granted - 1
            BY <1>1, <2>2, <3>2, <3>3
        <3>4. CASE u # granted - 1
            <4>1. E(u) <= S(granted - 1)
                BY <2>3, <3>1, <3>4
            <4>. QED BY <1>1, <2>2, <3>2, <4>1
        <3>. QED BY <3>3, <3>4
    <2>. QED BY <1>1, <2>3, <2>4 DEF Granted
<1>6. \A u \in Granted : cur[u] \in Nat /\ (cur[u] = 0 \/ cur[u] <= E(u))
    <2>1. ASSUME NEW u \in Granted PROVE cur[u] = 0 \/ cur[u] <= E(u)
        <3>1. InShare(u) /\ stage[u] \in {"start", "loop", "done"}
            BY <1>1, <1>4 DEF SectionInv, TypeOK
        <3>2. cur[u] \in Nat /\ S(u) \in Nat /\ E(u) \in Nat
            BY <1>3, <1>5
        <3>. HIDE DEF S
        <3>. QED BY <1>4, <3>1, <3>2 DEF InShare, S
    <2>. QED BY <1>3, <2>1
<1>. HIDE DEF S, E
\* Nobody has passed the items that are run now; afterwards t has.
<1>7. ASSUME NEW y \in Nat
      PROVE  /\ y \in x .. x + k - 1 => ~Passed(y)
             /\ Passed(y)' <=> Passed(y) \/ y \in x .. x + k - 1
    <2>1. \A u \in Granted : Start(Work, granted, u) = S(u)
        BY DEF S
    <2>2. Passed(y) <=> \E u \in Granted : S(u) <= y /\ y < cur[u]
        BY <2>1 DEF Passed
    <2>3. Passed(y)' <=> \E u \in Granted : S(u) <= y /\ y < cur'[u]
        BY <1>2, <2>1 DEF Passed
    <2>4. x \in Nat /\ S(t) \in Nat /\ S(t) <= x /\ x + k <= E(t) /\ E(t) \in Nat
        BY <1>3, <1>4, <1>5
    <2>5. ASSUME y \in x .. x + k - 1, NEW u \in Granted, S(u) <= y, y < cur[u]
          PROVE  FALSE
        <3>1. u # t
            BY <2>4, <2>5
        <3>2. E(u) <= S(t) \/ E(t) <= S(u)
            BY <1>5, <3>1
        <3>3. cur[u] \in Nat /\ cur[u] <= E(u) /\ E(u) \in Nat /\ S(u) \in Nat
            BY <1>5, <1>6, <2>5
        <3>. QED BY <2>4, <2>5, <3>2, <3>3
    <2>6. \A u \in Granted : u # t => cur'[u] = cur[u]
        BY <1>3
    <2>7. cur'[t] = x + k
        BY <1>3
    <2>8. ASSUME Passed(y) PROVE Passed(y)'
        <3>1. PICK u \in Granted : S(u) <= y /\ y < cur[u]
            BY <2>2, <2>8
        <3>2. y < cur'[u]
            BY <2>4, <2>6, <2>7, <3>1
        <3>. QED BY <2>3, <3>1, <3>2
    <2>9. ASSUME y \in x .. x + k - 1 PROVE Passed(y)'
        <3>1. S(t) <= y /\ y < cur'[t]
            BY <2>4, <2>7, <2>9
        <3>. QED BY <2>3, <3>1
    <2>10. ASSUME Passed(y)' PROVE Passed(y) \/ y \in x .. x + k - 1
        <3>1. PICK u \in Granted : S(u) <= y /\ y < cur'[u]
            BY <2>3, <2>10
        <3>2. CASE u = t
            <4>1. y < x \/ y \in x .. x + k - 1
                BY <2>4, <2>7, <3>1, <3>2
            <4>. QED BY <2>2, <3>1, <3>2, <4>1
        <3>3. CASE u # t
            BY <2>2, <2>6, <3>1, <3>3
        <3>. QED BY <3>2, <3>3
    <2>. QED BY <2>2, <2>5, <2>8, <2>9, <2>10
<1>8. ASSUME NEW c \in Items(dims)
      PROVE  runs'[c] = IF Passed(Position(dims, c))' THEN 1 ELSE 0
    <2>1. Position(dims, c) \in 0 .. Product(dims) - 1
        BY <1>1, ItemPosition
    <2>2. PICK y \in Nat : y = Position(dims, c)
        BY <1>1, <2>1 DEF Work
    <2>3. y' = y
        OBVIOUS
    <2>4. Position(dims, c)' = y
        BY <1>2, <2>2
    <2>5. Passed(Position(dims, c))' <=> Passed(y)'
        BY <2>4 DEF Passed
    <2>6. runs[c] = IF Passed(y) THEN 1 ELSE 0
        BY <2>2 DEF SectionInv, RunOnce
    <2>7. runs'[c] = IF y \in x .. x + k - 1 THEN runs[c] + 1 ELSE runs[c]
        BY <2>2
    <2>. QED BY <1>7, <2>5, <2>6, <2>7
<1>9. RunOnce'
    BY <1>2, <1>8 DEF RunOnce
<1>10. ASSUME NEW u \in Granted PROVE InShare(u)'
    <2>1. InShare(u)
        BY <1>4
    <2>2. CASE u = t
        <3>1. /\ stage'[t] = "loop" /\ last'[t] = last[t] /\ cur'[t] = x + k /\ iter'[t] = e
              /\ Work' = Work /\ dims' = dims /\ granted' = granted
            BY <1>2, <1>3
        <3>2. x + k \in S(t) .. E(t) /\ Work > 0 /\ last[t] = E(t)
            BY <1>3, <1>4, <1>5
        <3>3. Start(Work, granted, t) = S(t) /\ End(Work, granted, t) = E(t)
            BY DEF S, E
        <3>4. (Position(dims, iter[t]))' = Position(dims, e) /\ Items(dims)' = Items(dims)
            BY <3>1
        <3>5. InShare(t)'
            BY <3>1, <3>2, <3>3, <3>4 DEF InShare
        <3>. QED BY <2>2, <3>5
    <2>3. CASE u # t
        <3>1. /\ stage'[u] = stage[u] /\ last'[u] = last[u] /\ cur'[u] = cur[u]
              /\ iter'[u] = iter[u]
              /\ Work' = Work /\ dims' = dims /\ granted' = granted
            BY <1>2, <1>3, <2>3
        <3>2. (Position(dims, iter[u]))' = Position(dims, iter[u])
            BY <3>1
        <3>. QED BY <2>1, <3>1, <3>2 DEF InShare
    <2>. QED BY <2>2, <2>3
<1>11. TypeOK'
    <2>1. x + k \in 0 .. Work
        BY <1>1, <1>3, <1>4, <1>5
    <2>2. cur' \in [Grantable -> 0 .. Work]
        BY <1>1, <2>1 DEF SectionInv, TypeOK
    <2>3. iter' \in [Grantable -> Items(dims) \cup {[i \in 1 .. Rank |-> 0]}]
        BY <1>1 DEF SectionInv, TypeOK
    <2>4. runs' \in [Items(dims) -> 0 .. MaxTeam]
        <3>1. \A c \in Items(dims) : runs'[c] \in 0 .. MaxTeam
            BY <1>8, MaxTeamAssumption
        <3>2. runs' = [c \in Items(dims) |-> runs'[c]]
            OBVIOUS
        <3>. QED BY <3>1, <3>2
    <2>5. Rank' = Rank /\ Items(dims)' = Items(dims)
        BY <1>2 DEF Rank
    <2>. QED BY <1>2, <2>2, <2>3, <2>4, <2>5 DEF SectionInv, TypeOK
<1>. QED BY <1>2, <1>9, <1>10, <1>11 DEF SectionInv

\* What the steps that run no item leave of the count of runs.
LEMMA CountStays ==
    ASSUME SectionInv, UNCHANGED <<dims, granted, runs>>,
           \A u \in Granted : \/ cur'[u] = cur[u]
                              \/ (cur[u] = 0 /\ cur'[u] = Start(Work, granted, u))
    PROVE  RunOnce'
<1>1. /\ dims \in Seq(Nat) /\ dims # <<>> /\ Work \in Nat
      /\ granted \in 1 .. MaxTeam /\ granted \in Nat \ {0}
    BY MaxTeamAssumption, GridIsSequence DEF SectionInv, TypeOK
<1>2. Work' = Work /\ Granted' = Granted
    BY DEF Work, Granted
<1>3. ASSUME NEW u \in Granted PROVE Start(Work, granted, u) \in Nat
    <2>1. u \in 0 .. granted - 1 /\ u <= u
        BY <1>1, <1>3 DEF Granted
    <2>. QED BY <1>1, <2>1, SharesAreOrdered
<1>4. ASSUME NEW y \in Nat PROVE Passed(y)' <=> Passed(y)
    <2>1. Passed(y)' <=> \E u \in Granted : Start(Work, granted, u) <= y /\ y < cur'[u]
        BY <1>2 DEF Passed
    <2>2. ASSUME NEW u \in Granted
          PROVE  Start(Work, granted, u) <= y /\ y < cur'[u]
                     <=> Start(Work, granted, u) <= y /\ y < cur[u]
        <3>1. PICK s \in Nat : s = Start(Work, granted, u)
            BY <1>3
        <3>2. cur'[u] = cur[u] \/ (cur[u] = 0 /\ cur'[u] = s)
            BY <3>1
        <3>. QED BY <3>1, <3>2
    <2>. QED BY <2>1, <2>2 DEF Passed
<1>5. ASSUME NEW c \in Items(dims)
      PROVE  runs'[c] = IF Passed(Position(dims, c))' THEN 1 ELSE 0
    <2>1. Position(dims, c) \in 0 .. Product(dims) - 1
        BY <1>1, ItemPosition
    <2>2. PICK y \in Nat : y = Position(dims, c)
        BY <1>1, <2>1 DEF Work
    <2>3. Position(dims, c)' = y
        BY <2>2
    <2>4. Passed(Position(dims, c))' <=> Passed(y)'
        BY <2>3 DEF Passed
    <2>5. runs[c] = IF Passed(y) THEN 1 ELSE 0
        BY <2>2 DEF SectionInv, RunOnce
    <2>. QED BY <1>4, <2>4, <2>5
<1>. QED BY <1>5 DEF RunOnce

\* A thread takes up its share, or finds that there is no work at all.
LEMMA SectionEnter ==
    ASSUME SectionInv, NEW t \in Granted, Enter(t)
    PROVE  SectionInv'
<1>. DEFINE S == Start(Work, granted, t)
            E == End(Work, granted, t)
<1>1. /\ dims \in Seq(Nat) /\ dims # <<>> /\ Work \in Nat
      /\ granted \in 1 .. MaxTeam /\ granted \in Nat \ {0}
      /\ t \in Grantable /\ Granted \subseteq Grantable
    BY MaxTeamAssumption, GridIsSequence DEF SectionInv, TypeOK, Granted, Grantable
<1>2. /\ stage[t] = "start" /\ UNCHANGED <<dims, strips, granted, runs>>
      /\ Work' = Work /\ Granted' = Granted /\ Rank' = Rank
    BY DEF Enter, Work, Granted, Rank
<1>3. cur[t] = 0 /\ \A u \in Granted : InShare(u)
    BY <1>2 DEF SectionInv, InShare
<1>4. CASE Work = 0
    <2>1. stage' = [stage EXCEPT ![t] = "done"] /\ UNCHANGED <<cur, last, iter>>
        BY <1>4 DEF Enter
    <2>2. TypeOK'
        BY <1>1, <1>2, <2>1 DEF SectionInv, TypeOK
    <2>3. RunOnce'
        <3>1. UNCHANGED <<dims, granted, runs>>
            BY <1>2, <2>1
        <3>2. \A u \in Granted : \/ cur'[u] = cur[u]
                                    \/ (cur[u] = 0 /\ cur'[u] = Start(Work, granted, u))
            BY <1>2, <2>1
        <3>. QED BY <3>1, <3>2, CountStays
    <2>4. ASSUME NEW u \in Granted PROVE InShare(u)'
        <3>1. stage'[u] = IF u = t THEN "done" ELSE stage[u]
            BY <1>1, <2>1 DEF SectionInv, TypeOK
        <3>2. CASE u = t
            BY <1>2, <1>4, <3>1, <3>2 DEF InShare
        <3>3. CASE u # t
            <4>1. /\ InShare(u) /\ stage'[u] = stage[u]
                  /\ (Position(dims, iter[u]))' = Position(dims, iter[u])
                BY <1>2, <1>3, <2>1, <3>1, <3>3
            <4>. QED BY <1>2, <2>1, <4>1 DEF InShare
        <3>. QED BY <3>2, <3>3
    <2>. QED BY <1>2, <2>2, <2>3, <2>4 DEF SectionInv
<1>5. CASE Work # 0
    <2>1. /\ stage' = [stage EXCEPT ![t] = "loop"]
          /\ cur' = [cur EXCEPT ![t] = S] /\ last' = [last EXCEPT ![t] = E]
          /\ iter' = [iter EXCEPT ![t] = NdInit(S)]
        BY <1>5 DEF Enter
    <2>2. S \in Nat /\ E \in Nat /\ S <= E /\ E <= Work
        <3>1. t \in 0 .. granted - 1 /\ granted - 1 \in 0 .. granted - 1 /\ t <= t
              /\ granted - 1 <= granted - 1
            BY <1>1 DEF Granted
        <3>2. S \in Nat /\ E \in Nat /\ S <= E
            BY <1>1, <3>1, SharesAreOrdered
        <3>3. E <= Work
            <4>1. \A x \in Start(Work, granted, t) .. End(Work, granted, t) - 1 :
                      x \in 0 .. Work - 1
                BY <1>1, <3>1, SharesArePartition
            <4>. HIDE DEF S, E
            <4>2. E = S \/ E - 1 \in S .. E - 1
                BY <3>2
            <4>3. CASE E = S
                <5>1. /\ End(Work, granted, granted - 1) = Work
                      /\ Start(Work, granted, t) <= Start(Work, granted, granted - 1)
                      /\ Start(Work, granted, granted - 1) \in Nat
                      /\ Start(Work, granted, granted - 1) <= End(Work, granted, granted - 1)
                    <6>1. t <= granted - 1
                        BY <1>1, <3>1
                    <6>. QED BY <1>1, <3>1, <6>1, SharesAreOrdered, SharesAreConsecutive
                <5>. QED BY <1>1, <3>2, <4>3, <5>1 DEF S, E
            <4>4. CASE E - 1 \in S .. E - 1
                <5>1. E - 1 \in 0 .. Work - 1
                    BY <4>1, <4>4 DEF S, E
                <5>. QED BY <1>1, <3>2, <5>1
            <4>. QED BY <4>2, <4>3, <4>4
        <3>. QED BY <3>2, <3>3
    <2>3. S \in 0 .. Work /\ E \in 0 .. Work /\ Work > 0
        BY <1>1, <1>5, <2>2
    <2>4. /\ NdInit(S) \in Items(dims)
          /\ S < Work => Position(dims, NdInit(S)) = S
        <3>. HIDE DEF S
        <3>. QED BY <1>1, <2>3, InitPosition
    <2>5. /\ \A u \in Granted : stage'[u] = IF u = t THEN "loop" ELSE stage[u]
          /\ \A u \in Granted : cur'[u] = IF u = t THEN S ELSE cur[u]
          /\ \A u \in Granted : last'[u] = IF u = t THEN E ELSE last[u]
          /\ \A u \in Granted : iter'[u] = IF u = t THEN NdInit(S) ELSE iter[u]
        <3>. HIDE DEF S, E
        <3>. QED BY <1>1, <2>1 DEF SectionInv, TypeOK
    <2>6. RunOnce'
        <3>1. UNCHANGED <<dims, granted, runs>>
            BY <1>2, <1>3, <2>5
        <3>2. \A u \in Granted : \/ cur'[u] = cur[u]
                                    \/ (cur[u] = 0 /\ cur'[u] = Start(Work, granted, u))
            BY <1>2, <1>3, <2>5
        <3>. QED BY <3>1, <3>2, CountStays
    <2>7. TypeOK'
        <3>. HIDE DEF S, E
        <3>1. cur' \in [Grantable -> 0 .. Work] /\ last' \in [Grantable -> 0 .. Work]
            BY <2>1, <2>3 DEF SectionInv, TypeOK
        <3>2. iter' \in [Grantable -> Items(dims) \cup {[i \in 1 .. Rank |-> 0]}]
            BY <2>1, <2>4 DEF SectionInv, TypeOK
        <3>3. stage' \in [Grantable -> {"start", "loop", "done"}]
            BY <2>1 DEF SectionInv, TypeOK
        <3>4. Items(dims)' = Items(dims)
            BY <1>2
        <3>. QED BY <1>2, <3>1, <3>2, <3>3, <3>4 DEF SectionInv, TypeOK
    <2>8. ASSUME NEW u \in Granted PROVE InShare(u)'
        <3>1. CASE u = t
            <4>. HIDE DEF S, E
            <4>1. /\ stage'[t] = "loop" /\ cur'[t] = S /\ last'[t] = E /\ iter'[t] = NdInit(S)
                  /\ dims' = dims /\ granted' = granted
                BY <1>2, <2>5
            <4>2. Items(dims)' = Items(dims) /\ (Position(dims, iter[t]))' = Position(dims, NdInit(S))
                BY <4>1
            <4>3. Start(Work, granted, t)' = S /\ End(Work, granted, t)' = E
                BY <1>2, <4>1 DEF S, E
            <4>4. S \in S .. E
                BY <2>2
            <4>5. InShare(t)'
                BY <1>2, <2>3, <2>4, <4>1, <4>2, <4>3, <4>4 DEF InShare
            <4>. QED BY <3>1, <4>5
        <3>2. CASE u # t
            <4>. HIDE DEF S, E
            <4>1. /\ stage'[u] = stage[u] /\ cur'[u] = cur[u] /\ last'[u] = last[u]
                  /\ iter'[u] = iter[u] /\ dims' = dims /\ granted' = granted
                BY <1>2, <2>5, <3>2
            <4>2. InShare(u) /\ (Position(dims, iter[u]))' = Position(dims, iter[u])
                BY <1>3, <4>1
            <4>. QED BY <1>2, <4>1, <4>2 DEF InShare
        <3>. QED BY <3>1, <3>2
    <2>. QED BY <1>2, <2>6, <2>7, <2>8 DEF SectionInv
<1>. QED BY <1>4, <1>5

\* A thread is through its share.
LEMMA SectionLeave ==
    ASSUME SectionInv, NEW t \in Granted, Leave(t)
    PROVE  SectionInv'
<1>1. /\ granted \in 1 .. MaxTeam /\ t \in Grantable /\ Granted \subseteq Grantable
    BY MaxTeamAssumption DEF SectionInv, TypeOK, Granted, Grantable
<1>2. /\ stage[t] = "loop" /\ cur[t] = last[t] /\ stage' = [stage EXCEPT ![t] = "done"]
      /\ UNCHANGED <<dims, strips, granted, cur, last, iter, runs>>
      /\ Work' = Work /\ Granted' = Granted /\ Rank' = Rank
    BY DEF Leave, Work, Granted, Rank
<1>3. \A u \in Granted : InShare(u)
    BY DEF SectionInv
<1>4. TypeOK'
    BY <1>2 DEF SectionInv, TypeOK
<1>5. RunOnce'
    <2>1. UNCHANGED <<dims, granted, runs>>
        BY <1>2
    <2>2. \A u \in Granted : \/ cur'[u] = cur[u]
                                \/ (cur[u] = 0 /\ cur'[u] = Start(Work, granted, u))
        BY <1>2
    <2>. QED BY <2>1, <2>2, CountStays
<1>6. ASSUME NEW u \in Granted PROVE InShare(u)'
    <2>1. stage'[u] = IF u = t THEN "done" ELSE stage[u]
        BY <1>1, <1>2 DEF SectionInv, TypeOK
    <2>2. CASE u = t
        <3>1. cur[t] = End(Work, granted, t)
            BY <1>2, <1>3 DEF InShare
        <3>2. cur'[t] = End(Work, granted, t)'
            BY <1>2, <3>1
        <3>. QED BY <2>1, <2>2, <3>2 DEF InShare
    <2>3. CASE u # t
        <3>1. InShare(u) /\ stage'[u] = stage[u] /\ (Position(dims, iter[u]))' = Position(dims, iter[u])
            BY <1>2, <1>3, <2>1, <2>3
        <3>. QED BY <1>2, <3>1 DEF InShare
    <2>. QED BY <2>2, <2>3
<1>. QED BY <1>2, <1>4, <1>5, <1>6 DEF SectionInv

\* A thread that has work left is on an item.
LEMMA OnItem ==
    ASSUME SectionInv, NEW t \in Granted, stage[t] = "loop", cur[t] < last[t]
    PROVE  /\ dims \in Seq(Nat) /\ dims # <<>> /\ Work \in Nat
           /\ cur[t] \in Nat /\ last[t] \in Nat /\ last[t] <= Work
           /\ iter[t] \in Items(dims) /\ Position(dims, iter[t]) = cur[t]
<1>1. dims \in Seq(Nat) /\ dims # <<>> /\ Work \in Nat
    BY GridIsSequence DEF SectionInv, TypeOK
<1>2. cur[t] \in 0 .. Work /\ last[t] \in 0 .. Work
    <2>1. t \in Grantable
        BY MaxTeamAssumption DEF SectionInv, TypeOK, Granted, Grantable
    <2>. QED BY <2>1 DEF SectionInv, TypeOK
<1>3. InShare(t) /\ cur[t] < Work
    BY <1>1, <1>2 DEF SectionInv
<1>. QED BY <1>1, <1>2, <1>3 DEF InShare

LEMMA SectionIterate ==
    ASSUME SectionInv, NEW t \in Granted, Iterate(t)
    PROVE  SectionInv'
<1>. DEFINE c == iter[t]
<1>1. /\ stage[t] = "loop" /\ cur[t] < last[t]
      /\ runs' = [runs EXCEPT ![c] = @ + 1]
      /\ iter' = [iter EXCEPT ![t] = NdStep(c)]
      /\ cur' = [cur EXCEPT ![t] = @ + 1]
      /\ UNCHANGED <<dims, strips, granted, stage, last>>
    BY DEF Iterate
<1>2. /\ dims \in Seq(Nat) /\ dims # <<>> /\ Work \in Nat
      /\ cur[t] \in Nat /\ last[t] \in Nat /\ last[t] <= Work
      /\ c \in Items(dims) /\ Position(dims, c) = cur[t]
    BY <1>1, OnItem
<1>. HIDE DEF c
<1>3. NdStep(c) \in Items(dims) /\ (cur[t] + 1 < Work => Position(dims, NdStep(c)) = cur[t] + 1)
    BY <1>2, StepPosition
<1>4. runs' = [e \in Items(dims) |->
                  IF Position(dims, e) \in cur[t] .. cur[t] + 1 - 1 THEN runs[e] + 1 ELSE runs[e]]
    <2>1. runs = [e \in Items(dims) |-> runs[e]]
        BY DEF SectionInv, TypeOK
    <2>2. ASSUME NEW e \in Items(dims)
          PROVE  Position(dims, e) \in cur[t] .. cur[t] + 1 - 1 <=> e = c
        <3>1. Position(dims, e) \in 0 .. Product(dims) - 1
            BY <1>2, ItemPosition
        <3>2. Position(dims, e) \in cur[t] .. cur[t] + 1 - 1 <=> Position(dims, e) = cur[t]
            BY <1>2, <3>1 DEF Work
        <3>3. Position(dims, e) = Position(dims, c) => e = c
            BY <1>2, ItemsDiffer
        <3>. QED BY <1>2, <3>2, <3>3
    <2>3. runs' = [e \in Items(dims) |-> IF e = c THEN runs[e] + 1 ELSE runs[e]]
        BY <1>1, <1>2, <2>1
    <2>. QED BY <2>2, <2>3
<1>5. cur[t] + 1 <= last[t] /\ 1 \in Nat \ {0}
    BY <1>1, <1>2
<1>. QED BY <1>1, <1>3, <1>4, <1>5, SectionAdvances

LEMMA SectionIterateStrip ==
    ASSUME SectionInv, NEW t \in Granted, IterateStrip(t)
    PROVE  SectionInv'
<1>. DEFINE c == iter[t]
            room == dims[Rank] - c[Rank]
            n == IF room <= last[t] - cur[t] THEN room ELSE last[t] - cur[t]
            strip == { [c EXCEPT ![Rank] = @ + j] : j \in 0 .. n - 1 }
<1>1. /\ stage[t] = "loop" /\ cur[t] < last[t]
      /\ runs' = [e \in Items(dims) |-> IF e \in strip THEN runs[e] + 1 ELSE runs[e]]
      /\ iter' = [iter EXCEPT ![t] = NdJump(c, n)]
      /\ cur' = [cur EXCEPT ![t] = @ + n]
      /\ UNCHANGED <<dims, strips, granted, stage, last>>
    BY DEF IterateStrip
<1>2. /\ dims \in Seq(Nat) /\ dims # <<>> /\ Work \in Nat
      /\ cur[t] \in Nat /\ last[t] \in Nat /\ last[t] <= Work
      /\ c \in Items(dims) /\ Position(dims, c) = cur[t]
    BY <1>1, OnItem
<1>. HIDE DEF c
<1>3. dims[Rank] \in Nat /\ c[Rank] \in Nat /\ c[Rank] < dims[Rank]
    <2>1. Rank \in 1 .. Len(dims)
        BY <1>2 DEF Rank
    <2>. QED BY <1>2, <2>1, ItemFacts
<1>4. n \in Nat \ {0} /\ c[Rank] + n <= dims[Rank] /\ cur[t] + n <= last[t]
    <2>1. room \in Nat /\ room > 0 /\ c[Rank] + room = dims[Rank]
        BY <1>3
    <2>2. PICK b \in Nat : b = last[t] - cur[t] /\ b > 0 /\ cur[t] + b = last[t]
        <3>1. PICK x, y \in Nat : x = last[t] /\ y = cur[t] /\ y < x
            BY <1>1, <1>2
        <3>2. x - y \in Nat /\ x - y > 0 /\ y + (x - y) = x
            BY <3>1
        <3>. QED BY <3>1, <3>2
    <2>. HIDE DEF room
    <2>3. n = IF room <= b THEN room ELSE b
        BY <2>2
    <2>. HIDE DEF n
    <2>4. n \in Nat /\ n > 0 /\ n <= room /\ n <= b
        BY <2>1, <2>2, <2>3
    <2>. QED BY <1>2, <1>3, <2>1, <2>2, <2>4
<1>. HIDE DEF n
<1>5. NdJump(c, n) \in Items(dims) /\ (cur[t] + n < Work => Position(dims, NdJump(c, n)) = cur[t] + n)
    BY <1>2, <1>4, JumpPosition
<1>6. \A e \in Items(dims) : e \in strip <=> Position(dims, e) \in cur[t] .. cur[t] + n - 1
    BY <1>2, <1>4, StripPositions
<1>. HIDE DEF strip
<1>7. runs' = [e \in Items(dims) |->
                  IF Position(dims, e) \in cur[t] .. cur[t] + n - 1 THEN runs[e] + 1 ELSE runs[e]]
    BY <1>1, <1>6
<1>. QED BY <1>1, <1>4, <1>5, <1>7, SectionAdvances

LEMMA SectionStays == SectionInv /\ [Running]_section => SectionInv'
<1>. SUFFICES ASSUME SectionInv, [Running]_section PROVE SectionInv'
    OBVIOUS
<1>1. ASSUME NEW t \in Granted, Proceed(t) PROVE SectionInv'
    BY <1>1, SectionEnter, SectionIterate, SectionIterateStrip, SectionLeave DEF Proceed
<1>2. CASE UNCHANGED section
    <2>1. /\ UNCHANGED <<dims, strips, granted, stage, cur, last, iter, runs>>
          /\ Work' = Work /\ Granted' = Granted /\ Rank' = Rank
        BY <1>2 DEF section, Work, Granted, Rank
    <2>2. TypeOK'
        BY <2>1 DEF SectionInv, TypeOK
    <2>3. RunOnce'
        <3>1. UNCHANGED <<dims, granted, runs>>
            BY <2>1
        <3>2. \A u \in Granted : \/ cur'[u] = cur[u]
                                    \/ (cur[u] = 0 /\ cur'[u] = Start(Work, granted, u))
            BY <2>1
        <3>. QED BY <3>1, <3>2, CountStays
    <2>4. ASSUME NEW u \in Granted PROVE InShare(u)'
        <3>1. InShare(u) /\ (Position(dims, iter[u]))' = Position(dims, iter[u])
            BY <2>1 DEF SectionInv
        <3>. QED BY <2>1, <3>1 DEF InShare
    <2>. QED BY <2>1, <2>2, <2>3, <2>4 DEF SectionInv
<1>. QED BY <1>1, <1>2 DEF Running

LEMMA SectionKeepsInv == ParallelSection => []SectionInv
BY SectionInvInit, SectionStays, PTL DEF ParallelSection

(***************************************************************************)
(* The values of a section over any grid, of any rank, for any team, are   *)
(* of their types; in particular the iterator never leaves the grid.       *)
(***************************************************************************)
THEOREM SectionTyped == ParallelSection => []TypeOK
<1>1. SectionInv => TypeOK
    BY DEF SectionInv
<1>. QED BY <1>1, SectionKeepsInv, PTL

(***************************************************************************)
(* The iterator of for_nd is in step with iwork for every grid, of any     *)
(* rank, every team and every share, stepped by items as well as by strips *)
(* that end at the end of a row or inside it.                              *)
(***************************************************************************)
THEOREM IteratorsInStep == ParallelSection => []IteratorInStep
<1>1. SectionInv => IteratorInStep
    <2>. SUFFICES ASSUME SectionInv, NEW t \in Granted, stage[t] = "loop", cur[t] < Work
                  PROVE  Linear(iter[t]) = cur[t]
        BY DEF IteratorInStep
    <2>1. Position(dims, iter[t]) = cur[t]
        BY DEF SectionInv, InShare
    <2>. QED BY <2>1 DEF Linear, Position
<1>. QED BY <1>1, SectionKeepsInv, PTL

(***************************************************************************)
(* No item of a grid is ever run twice, and when all threads have left the *)
(* section each has been run: the safety half of AllItemsRun, for every    *)
(* grid, team and way to step.                                             *)
(***************************************************************************)
ItemsRunOnce ==
    /\ \A c \in Items(dims) : runs[c] <= 1
    /\ AllJoined => \A c \in Items(dims) : runs[c] = 1

THEOREM EveryItemRunOnce == ParallelSection => []ItemsRunOnce
<1>1. SectionInv => ItemsRunOnce
    <2>. SUFFICES ASSUME SectionInv, NEW c \in Items(dims)
                  PROVE  runs[c] <= 1 /\ (AllJoined => runs[c] = 1)
        BY DEF ItemsRunOnce
    <2>1. runs[c] = IF Passed(Position(dims, c)) THEN 1 ELSE 0
        BY DEF SectionInv, RunOnce
    <2>2. ASSUME AllJoined PROVE Passed(Position(dims, c))
        <3>1. dims \in Seq(Nat) /\ Work \in Nat /\ granted \in Nat \ {0}
            BY MaxTeamAssumption, GridIsSequence DEF SectionInv, TypeOK
        <3>2. Position(dims, c) \in 0 .. Work - 1
            BY <3>1, ItemPosition DEF Work
        <3>3. PICK t \in 0 .. granted - 1 :
                  Position(dims, c) \in Start(Work, granted, t) .. End(Work, granted, t) - 1
            BY <3>1, <3>2, SharesArePartition
        <3>4. t \in Granted /\ stage[t] = "done" /\ InShare(t)
            BY <2>2 DEF AllJoined, Granted, SectionInv
        <3>5. cur[t] = End(Work, granted, t)
            BY <3>1, <3>2, <3>4 DEF InShare
        <3>6. Start(Work, granted, t) \in Nat /\ End(Work, granted, t) \in Nat
            <4>1. t <= t
                OBVIOUS
            <4>. QED BY <3>1, <4>1, SharesAreOrdered
        <3>. QED BY <3>2, <3>3, <3>4, <3>5, <3>6 DEF Passed
    <2>. QED BY <2>1, <2>2
<1>. QED BY <1>1, SectionKeepsInv, PTL
==============================================================================

----------------------------- MODULE ReducerProofs -----------------------------
(***************************************************************************)
(* The reducers of the AVX2 backward weights convolutions, for any number  *)
(* of threads, any convolution and any balance of its reductions: no       *)
(* thread leaves its scratchpad or its destination, no two threads meet in *)
(* a cell, and in the end every element is the sum of one contribution of  *)
(* each thread of its group.  Where the cells of two threads lie follows   *)
(* from the partitions of the jobs, of the buffers and of the elements;    *)
(* when they are used, from the barriers or from the ends of the sections. *)
(***************************************************************************)
EXTENDS Reducer, WorkSharingProofs, FiniteSetTheorems

Places == {"compute", "first", "enter", "wait", "sum", "second", "done"}

\* Values of the control state.
Control ==
    /\ sync \in BOOLEAN /\ conv \in Convolutions
    /\ pc \in [Threads -> Parts \X Places]
    /\ entered \in [Parts \X Threads -> 0 .. 1]
    /\ left \in [Parts \X Threads -> 0 .. 1]

\* Only members of a group that has something to add up get to reduce().
HasMates ==
    \A t \in Threads :
        pc[t][2] \in {"enter", "wait", "sum"} =>
            Jobs(Now(t), t) # 0 /\ PerGroupOf(t) > 1

\* With barriers: who has entered the barrier of a reduction has accumulated
\* its part, and who adds up found that all mates had entered.
Synchronised ==
    sync => \A t \in Threads :
        /\ pc[t][2] \notin {"first", "second"}
        /\ \A s \in Parts : entered[<<s, t>>] = 1 =>
              \/ s < Part(t)
              \/ s = Part(t) /\ pc[t][2] \in {"wait", "sum", "done"}
        /\ At(t, "wait") => entered[<<Part(t), t>>] = 1
        /\ At(t, "sum") => \A u \in Mates(t) : entered[u] = 1

\* With sections: all threads are at the same reduction and in the same half.
Sectioned ==
    ~sync =>
        /\ \A t, u \in Threads : Part(t) = Part(u)
        /\ \/ \A t \in Threads : pc[t][2] \in {"compute", "first"}
           \/ \A t \in Threads : pc[t][2] \in {"sum", "second"}
           \/ \A t \in Threads : pc[t][2] = "done"

IInv == Control /\ HasMates /\ Synchronised /\ Sectioned

------------------------------------------------------------------------------
(* A reduction, its balance and its threads.                               *)

LEMMA ReductionFacts ==
    ASSUME NEW r \in Reductions
    PROVE  /\ r.kind \in {"1d", "2d"} /\ NThr \in Nat \ {0}
           /\ r.njobs \in Nat \ {0} /\ r.job_size \in Nat \ {0}
           /\ r.reduction \in Nat \ {0} /\ r.line \in Nat \ {0}
           /\ r.b.nthr_per_group \in Nat \ {0}
           /\ r.b.njobs_per_group_ub \in Nat \ {0}
           /\ r.b.ngroups \in 1 .. r.njobs
           /\ r.b.ngroups * r.b.nthr_per_group <= NThr
           /\ \A g \in 0 .. r.b.ngroups - 1 :
                 grp_njobs(r.b, r.njobs, g) \in 1 .. r.b.njobs_per_group_ub
<1>1. /\ r.kind \in {"1d", "2d"} /\ NThr \in Nat \ {0}
      /\ r.njobs \in Nat \ {0} /\ r.job_size \in Nat \ {0}
      /\ r.reduction \in Nat \ {0} /\ r.line \in Nat \ {0}
    BY NThrAssumption, ReductionAssumption
<1>. DEFINE i == [nthr |-> NThr, job_size |-> r.job_size, njobs |-> r.njobs,
                  reduction |-> r.reduction, allow |-> TRUE,
                  max_buffer |-> NThr * r.job_size * 8]
<1>2. BalancerInput(i) /\ i.njobs = r.njobs /\ i.nthr = NThr /\ i.reduction = r.reduction
    <2>1. NThr * r.job_size * 8 \in Nat
        <3>. DEFINE js == r.job_size
        <3>1. js \in Nat /\ NThr \in Nat
            BY <1>1
        <3>. HIDE DEF js
        <3>2. NThr * js \in Nat
            BY <3>1
        <3>. QED BY <3>2 DEF js
    <2>. QED BY <1>1, <2>1 DEF BalancerInput
<1>3. r.b = balance(i)
    BY BalanceAssumption
<1>. HIDE DEF i
<1>4. /\ r.b.ngroups * r.b.nthr_per_group <= NThr
      /\ r.b.nthr_per_group \in 1 .. r.reduction
    BY <1>2, <1>3, BalanceFits
<1>5. /\ r.b.ngroups = Groups(i, Best(i)) /\ r.b.njobs_per_group_ub = JobsBound(i, Best(i))
      /\ Best(i) \in 1 .. r.njobs
    BY <1>2, <1>3, BestGuess DEF balance
<1>6. r.b.ngroups \in 1 .. r.njobs /\ r.b.njobs_per_group_ub \in Nat \ {0}
    BY <1>1, <1>2, <1>5, GuessFits
<1>7. \A g \in 0 .. r.b.ngroups - 1 :
         grp_njobs(r.b, r.njobs, g) \in 1 .. r.b.njobs_per_group_ub
    BY <1>2, <1>3, JobsAreConsecutive
<1>. QED BY <1>1, <1>4, <1>6, <1>7

\* Threads are numbered group by group.
LEMMA Numbering ==
    ASSUME NEW r \in Reductions, NEW t \in Threads
    PROVE  /\ group_id(r.b, t) \in Nat
           /\ id_in_group(r.b, t) \in 0 .. r.b.nthr_per_group - 1
           /\ t = group_id(r.b, t) * r.b.nthr_per_group + id_in_group(r.b, t)
           /\ idle(r.b, t) <=> group_id(r.b, t) >= r.b.ngroups
<1>. DEFINE p == r.b.nthr_per_group
            G == r.b.ngroups
<1>1. p \in Nat \ {0} /\ G \in Nat /\ t \in Nat
    BY ReductionFacts DEF Threads
<1>. HIDE DEF p, G
<1>. DEFINE g == t \div p
            i == t % p
<1>2. g \in Nat /\ i \in 0 .. p - 1 /\ t = p * g + i
    BY <1>1, Quotients
<1>. HIDE DEF g, i
<1>3. t = g * p + i
    BY <1>1, <1>2
<1>4. g < G <=> g * p + i < G * p
    BY <1>1, <1>2, RowOrder
<1>5. G * p = p * G /\ G * p \in Nat
    BY <1>1
<1>6. t >= p * G <=> g >= G
    BY <1>1, <1>2, <1>3, <1>4, <1>5
<1>7. group_id(r.b, t) = g /\ id_in_group(r.b, t) = i /\ (idle(r.b, t) <=> t >= p * G)
    BY DEF group_id, id_in_group, idle, g, i, p, G
<1>. QED BY <1>2, <1>3, <1>6, <1>7 DEF p, G

\* Two threads with the same group and the same place in it are one.
LEMMA OnePerPlace ==
    ASSUME NEW r \in Reductions, NEW t \in Threads, NEW u \in Threads,
           group_id(r.b, t) = group_id(r.b, u), id_in_group(r.b, t) = id_in_group(r.b, u)
    PROVE  t = u
BY Numbering, Zenon

\* Threads with jobs are those of the groups, and the jobs of the groups are
\* one after another.
LEMMA Working ==
    ASSUME NEW r \in Reductions, NEW t \in Threads, Jobs(r, t) # 0
    PROVE  /\ group_id(r.b, t) \in 0 .. r.b.ngroups - 1
           /\ ~idle(r.b, t)
           /\ Jobs(r, t) \in 1 .. r.b.njobs_per_group_ub
           /\ Off(r, t) \in Nat /\ Off(r, t) + Jobs(r, t) <= r.njobs
           /\ \A u \in Threads :
                 Jobs(r, u) # 0 /\ group_id(r.b, t) < group_id(r.b, u) =>
                     Off(r, t) + Jobs(r, t) <= Off(r, u)
<1>. DEFINE g == group_id(r.b, t)
<1>1. ASSUME NEW u \in Threads, Jobs(r, u) # 0
      PROVE  group_id(r.b, u) \in 0 .. r.b.ngroups - 1
    <2>1. ~(group_id(r.b, u) >= r.b.ngroups)
        BY <1>1 DEF Jobs, grp_njobs
    <2>. QED BY <2>1, Numbering, ReductionFacts
<1>2. g \in 0 .. r.b.ngroups - 1
    BY <1>1
<1>3. ~idle(r.b, t)
    BY <1>2, Numbering, ReductionFacts
<1>4. r.njobs \in Nat \ {0} /\ r.b.ngroups \in 1 .. r.njobs
    BY ReductionFacts
<1>5. /\ Off(r, t) \in Nat /\ Off(r, t) + Jobs(r, t) <= r.njobs
      /\ \A h \in g + 1 .. r.b.ngroups - 1 :
            Off(r, t) + Jobs(r, t) <= grp_job_off(r.b, r.njobs, h)
    BY <1>2, <1>4, JobsAreOrdered DEF Off, Jobs
<1>6. Jobs(r, t) \in 1 .. r.b.njobs_per_group_ub
    BY <1>2, ReductionFacts DEF Jobs
<1>7. ASSUME NEW u \in Threads, Jobs(r, u) # 0, g < group_id(r.b, u)
      PROVE  Off(r, t) + Jobs(r, t) <= Off(r, u)
    <2>1. group_id(r.b, u) \in g + 1 .. r.b.ngroups - 1
        BY <1>1, <1>2, <1>4, <1>7
    <2>. QED BY <1>5, <2>1 DEF Off
<1>. QED BY <1>2, <1>3, <1>5, <1>6, <1>7

------------------------------------------------------------------------------
(* Elements, numbered over the jobs of all groups, and the destination.    *)

Number(r, t, e) == Off(r, t) * r.job_size + e

\* A thread without jobs has no elements.
LEMMA Workers ==
    ASSUME NEW r \in Reductions, NEW t \in Threads, NEW e \in Elements(r, t)
    PROVE  Jobs(r, t) # 0
<1>1. SUFFICES ASSUME Jobs(r, t) = 0 PROVE FALSE
    OBVIOUS
<1>2. r.job_size \in Nat
    BY ReductionFacts
<1>3. Jobs(r, t) * r.job_size - 1 = -1
    <2>. DEFINE js == r.job_size
    <2>1. js \in Nat
        BY <1>2
    <2>. HIDE DEF js
    <2>2. 0 * js - 1 = -1
        BY <2>1
    <2>. QED BY <1>1, <2>2 DEF js
<1>. QED BY <1>3 DEF Elements

\* Elements stay in the buffer of a thread, their numbers in the destination.
LEMMA ElementBounds ==
    ASSUME NEW r \in Reductions, NEW t \in Threads, NEW e \in Elements(r, t)
    PROVE  /\ e \in 0 .. space_per_thread(r) - 1
           /\ Number(r, t, e) \in 0 .. r.njobs * r.job_size - 1
           /\ e < Jobs(r, t) * r.job_size
<1>. DEFINE js == r.job_size
            n == r.njobs
            k == Jobs(r, t)
            o == Off(r, t)
            ub == r.b.njobs_per_group_ub
<1>1. /\ js \in Nat \ {0} /\ n \in Nat \ {0} /\ ub \in Nat
      /\ k \in 1 .. ub /\ o \in Nat /\ o + k <= n
    BY ReductionFacts, Working, Workers
<1>2. e \in 0 .. k * js - 1
    BY DEF Elements
<1>3. space_per_thread(r) = ub * js /\ Number(r, t, e) = o * js + e
    BY DEF space_per_thread, Number
<1>. HIDE DEF js, n, k, o, ub
<1>4. k * js <= ub * js /\ (o + k) * js <= n * js /\ (o + k) * js = o * js + k * js
    <2>1. (ub - k) \in Nat /\ (n - (o + k)) \in Nat
        BY <1>1
    <2>2. (ub - k) * js \in Nat /\ (n - (o + k)) * js \in Nat
        BY <1>1, <2>1
    <2>3. /\ (ub - k) * js = ub * js - k * js
          /\ (n - (o + k)) * js = n * js - (o + k) * js
          /\ (o + k) * js = o * js + k * js
        BY <1>1
    <2>. QED BY <1>1, <2>2, <2>3
<1>5. o * js \in Nat /\ k * js \in Nat /\ ub * js \in Nat /\ n * js \in Nat
    BY <1>1
<1>. QED BY <1>2, <1>3, <1>4, <1>5 DEF js, n, k

\* A number belongs to one group, and to one of its elements.
LEMMA NumbersAreUnique ==
    ASSUME NEW r \in Reductions, NEW t \in Threads, NEW u \in Threads,
           NEW e \in Elements(r, t), NEW d \in Elements(r, u),
           Number(r, t, e) = Number(r, u, d)
    PROVE  group_id(r.b, t) = group_id(r.b, u) /\ e = d
<1>1. ASSUME NEW v \in Threads, NEW w \in Threads,
             NEW x \in Elements(r, v), NEW y \in Elements(r, w),
             group_id(r.b, v) < group_id(r.b, w)
      PROVE  Number(r, v, x) < Number(r, w, y)
    <2>. DEFINE js == r.job_size
                k == Jobs(r, v)
                o == Off(r, v)
                p == Off(r, w)
    <2>1. /\ js \in Nat \ {0} /\ k \in Nat /\ o \in Nat /\ p \in Nat /\ o + k <= p
          /\ x \in Nat /\ x < k * js /\ y \in Nat
        <3>1. Jobs(r, v) # 0 /\ Jobs(r, w) # 0
            BY Workers
        <3>2. k \in 1 .. r.b.njobs_per_group_ub /\ o \in Nat /\ p \in Nat /\ o + k <= p
            BY <1>1, <3>1, Working
        <3>3. x \in Nat /\ x < k * js /\ y \in Nat
            BY ElementBounds
        <3>. QED BY <3>2, <3>3, ReductionFacts
    <2>2. Number(r, v, x) = o * js + x /\ Number(r, w, y) = p * js + y
        BY DEF Number
    <2>. HIDE DEF js, k, o, p
    <2>3. (p - (o + k)) * js \in Nat
        <3>1. (p - (o + k)) \in Nat
            BY <2>1
        <3>. QED BY <2>1, <3>1
    <2>4. (p - (o + k)) * js = p * js - o * js - k * js
        BY <2>1
    <2>5. o * js \in Nat /\ k * js \in Nat /\ p * js \in Nat
        BY <2>1
    <2>. QED BY <2>1, <2>2, <2>3, <2>4, <2>5
<1>2. Number(r, t, e) \in Int /\ Number(r, u, d) \in Int
    BY ElementBounds
<1>3. ~(group_id(r.b, t) < group_id(r.b, u)) /\ ~(group_id(r.b, u) < group_id(r.b, t))
    BY <1>1, <1>2
<1>4. group_id(r.b, t) \in Nat /\ group_id(r.b, u) \in Nat
    BY Numbering
<1>5. group_id(r.b, t) = group_id(r.b, u)
    BY <1>3, <1>4
<1>6. Off(r, t) = Off(r, u)
    BY <1>5 DEF Off
<1>7. e = d
    <2>. DEFINE a == Off(r, t) * r.job_size
    <2>1. a \in Nat
        <3>1. Off(r, t) \in Nat /\ r.job_size \in Nat
            BY Workers, Working, ReductionFacts
        <3>. QED BY <3>1
    <2>2. Number(r, t, e) = a + e /\ Number(r, u, d) = a + d
        BY <1>6 DEF Number
    <2>. HIDE DEF a
    <2>3. e \in Int /\ d \in Int
        BY DEF Elements
    <2>4. a + e = a + d
        BY <2>2, Zenon
    <2>5. \A x, y \in Int : a + x = a + y => x = y
        BY <2>1
    <2>. QED BY <2>3, <2>4, <2>5, Zenon
<1>. QED BY <1>5, <1>7

\* What divides without rest.
LEMMA ExactDivision ==
    ASSUME NEW a \in Nat \ {0}, NEW b \in Nat \ {0}, a % b = 0
    PROVE  a \div b \in Nat \ {0} /\ a = (a \div b) * b /\ DivUp(a, b) = a \div b
<1>. DEFINE m == a \div b
            q == DivUp(a, b)
<1>1. m \in Nat /\ a = b * m
    BY Quotients
<1>2. q \in Nat /\ a <= q * b /\ q * b <= a + b - 1
    BY DivUpBounds
<1>. HIDE DEF m, q
<1>3. a = m * b /\ m # 0
    BY <1>1
<1>4. /\ q < m <=> q * b + 0 < m * b
      /\ m < q <=> m * b + (b - 1) < q * b
    BY <1>1, <1>2, RowOrder
<1>5. q = m
    BY <1>1, <1>2, <1>3, <1>4
<1>. QED BY <1>1, <1>3, <1>5 DEF m, q

\* A destination of rectangles consists of JobsX times JobsY jobs.
JobsY(s) == s.dst_y \div s.job_size_y

LEMMA ShapeFacts ==
    ASSUME NEW r \in Reductions, r.kind = "2d"
    PROVE  LET s == r.shape
           IN  /\ s.job_size_x \in Nat \ {0} /\ s.job_size_y \in Nat \ {0}
               /\ s.dst_x \in Nat \ {0} /\ s.dst_y \in Nat \ {0} /\ s.x_block \in Nat \ {0}
               /\ JobsX(s) \in Nat \ {0} /\ s.dst_x = JobsX(s) * s.job_size_x
               /\ JobsY(s) \in Nat \ {0} /\ s.dst_y = JobsY(s) * s.job_size_y
               /\ r.job_size = s.job_size_y * s.job_size_x
               /\ r.njobs = JobsY(s) * JobsX(s)
               /\ \E u \in Nat \ {0} : s.job_size_x = u * s.x_block
<1>. DEFINE s == r.shape
<1>1. /\ s.job_size_x \in Nat \ {0} /\ s.job_size_y \in Nat \ {0}
      /\ s.dst_x \in Nat \ {0} /\ s.dst_y \in Nat \ {0} /\ s.x_block \in Nat \ {0}
      /\ s.dst_x % s.job_size_x = 0 /\ s.dst_y % s.job_size_y = 0
      /\ s.job_size_x % s.x_block = 0
      /\ r.job_size = s.job_size_x * s.job_size_y
      /\ r.njobs = (s.dst_x \div s.job_size_x) * (s.dst_y \div s.job_size_y)
    BY ShapeAssumption
<1>. HIDE DEF s
<1>2. /\ JobsX(s) \in Nat \ {0} /\ s.dst_x = JobsX(s) * s.job_size_x
      /\ JobsX(s) = s.dst_x \div s.job_size_x
    <2>1. JobsX(s) = DivUp(s.dst_x, s.job_size_x)
        BY DEF JobsX
    <2>2. /\ s.dst_x \div s.job_size_x \in Nat \ {0}
          /\ s.dst_x = (s.dst_x \div s.job_size_x) * s.job_size_x
          /\ DivUp(s.dst_x, s.job_size_x) = s.dst_x \div s.job_size_x
        BY <1>1, ExactDivision
    <2>. QED BY <2>1, <2>2, Zenon
<1>3. JobsY(s) \in Nat \ {0} /\ s.dst_y = JobsY(s) * s.job_size_y
    BY <1>1, ExactDivision DEF JobsY
<1>4. /\ s.job_size_x \div s.x_block \in Nat \ {0}
      /\ s.job_size_x = (s.job_size_x \div s.x_block) * s.x_block
    BY <1>1, ExactDivision
<1>5. \A a, b \in Nat : a * b = b * a
    OBVIOUS
<1>6. r.job_size = s.job_size_y * s.job_size_x
    BY <1>1, <1>5
<1>7. r.njobs = JobsY(s) * JobsX(s)
    BY <1>1, <1>2, <1>3, <1>5 DEF JobsY
<1>. QED BY <1>1, <1>2, <1>3, <1>4, <1>6, <1>7 DEF s

\* Where a number is in a destination of rectangles: its row and its column.
RowOf(r, k) == ((k \div r.job_size) \div JobsX(r.shape)) * r.shape.job_size_y
                  + (k % r.job_size) \div r.shape.job_size_x
ColumnOf(r, k) == ((k \div r.job_size) % JobsX(r.shape)) * r.shape.job_size_x
                     + ((k % r.job_size) % r.shape.job_size_x)

\* What of a number can be read off its row and column.
LEMMA RowAndColumn ==
    ASSUME NEW r \in Reductions, r.kind = "2d", NEW k \in 0 .. r.njobs * r.job_size - 1
    PROVE  LET s == r.shape
           IN  /\ RowOf(r, k) \in 0 .. s.dst_y - 1 /\ ColumnOf(r, k) \in 0 .. s.dst_x - 1
               /\ k = ((RowOf(r, k) \div s.job_size_y) * JobsX(s)
                         + ColumnOf(r, k) \div s.job_size_x) * r.job_size
                      + (RowOf(r, k) % s.job_size_y) * s.job_size_x
                      + (ColumnOf(r, k) % s.job_size_x)
<1>. DEFINE s == r.shape
<1>1. PICK jx \in Nat \ {0}, jy \in Nat \ {0}, nx \in Nat \ {0}, ny \in Nat \ {0} :
        /\ jx = s.job_size_x /\ jy = s.job_size_y /\ nx = JobsX(s) /\ ny = JobsY(s)
        /\ s.dst_x = nx * jx /\ s.dst_y = ny * jy
        /\ r.job_size = jy * jx /\ r.njobs = ny * nx
    BY ShapeFacts
<1>. DEFINE js == jy * jx
<1>2. js \in Nat \ {0} /\ k \in Nat
    <2>1. jy * jx \in Nat \ {0}
        OBVIOUS
    <2>2. k \in Nat
        OBVIOUS
    <2>. QED BY <2>1, <2>2
<1>. DEFINE job == k \div js
            q == k % js
            y == job \div nx
            x == job % nx
            b == q \div jx
            a == q % jx
<1>. HIDE DEF js
<1>3. job \in Nat /\ q \in 0 .. js - 1 /\ k = js * job + q
    BY <1>2, Quotients
<1>4. y \in Nat /\ x \in 0 .. nx - 1 /\ job = nx * y + x
    <2>. HIDE DEF job
    <2>. QED BY <1>3, Quotients
<1>5. b \in Nat /\ a \in 0 .. jx - 1 /\ q = jx * b + a
    <2>1. q \in Nat
        BY <1>2, <1>3
    <2>. HIDE DEF q
    <2>. QED BY <2>1, Quotients
<1>6. RowOf(r, k) = y * jy + b /\ ColumnOf(r, k) = x * jx + a
    BY <1>1 DEF RowOf, ColumnOf, js
<1>. HIDE DEF job, q, y, x, b, a
<1>7. b \in 0 .. jy - 1
    <2>1. b < jy <=> b * jx + a < jy * jx
        BY <1>5, RowOrder
    <2>. QED BY <1>3, <1>5, <2>1 DEF js
<1>8. y \in 0 .. ny - 1
    <2>1. k < (ny * nx) * js
        <3>1. k < r.njobs * r.job_size /\ r.njobs * r.job_size = (ny * nx) * js
            <4>1. r.njobs * r.job_size = (ny * nx) * js
                BY <1>1 DEF js
            <4>2. (ny * nx) * js \in Int
                BY <1>2
            <4>. QED BY <4>1, <4>2
        <3>. QED BY <3>1
    <2>2. job < ny * nx <=> job * js + q < (ny * nx) * js
        <3>1. ny * nx \in Nat
            OBVIOUS
        <3>. QED BY <1>2, <1>3, <3>1, RowOrder
    <2>3. job < ny * nx
        BY <1>2, <1>3, <2>1, <2>2
    <2>4. y < ny <=> y * nx + x < ny * nx
        BY <1>4, RowOrder
    <2>. QED BY <1>4, <2>3, <2>4
<1>9. /\ (y * jy + b) \in Nat /\ (y * jy + b) \div jy = y /\ (y * jy + b) % jy = b
      /\ (x * jx + a) \in Nat /\ (x * jx + a) \div jx = x /\ (x * jx + a) % jx = a
    BY <1>4, <1>5, <1>7, <1>8, RowMajorIsUnique
<1>10. /\ y < ny <=> y * jy + b < ny * jy
       /\ x < nx <=> x * jx + a < nx * jx
    BY <1>4, <1>5, <1>7, <1>8, RowOrder
<1>11. RowOf(r, k) \in 0 .. s.dst_y - 1 /\ ColumnOf(r, k) \in 0 .. s.dst_x - 1
    BY <1>1, <1>4, <1>6, <1>8, <1>9, <1>10
<1>12. k = (y * nx + x) * js + b * jx + a
    BY <1>2, <1>3, <1>4, <1>5, <1>8
<1>. QED BY <1>1, <1>6, <1>9, <1>11, <1>12 DEF js

\* Where an element lands depends on its number only.
Place(r, k) == IF r.kind = "1d" THEN k
               ELSE RowOf(r, k) * r.shape.dst_x + ColumnOf(r, k)

LEMMA DstIsPlace ==
    ASSUME NEW r \in Reductions, NEW t \in Threads, NEW e \in Elements(r, t)
    PROVE  Dst(r, t, e) = <<"dst", Place(r, Number(r, t, e))>>
<1>1. CASE r.kind = "1d"
    BY <1>1 DEF Dst, Place, Number
<1>2. CASE r.kind # "1d"
    <2>1. r.kind = "2d"
        BY <1>2, ReductionFacts
    <2>2. PICK jx \in Nat \ {0}, jy \in Nat \ {0}, js \in Nat \ {0}, o \in Nat :
            /\ jx = r.shape.job_size_x /\ jy = r.shape.job_size_y
            /\ js = r.job_size /\ js = jy * jx /\ o = Off(r, t)
        <3>1. Off(r, t) \in Nat
            BY Workers, Working
        <3>2. r.job_size \in Nat \ {0}
            BY ReductionFacts
        <3>. QED BY <2>1, <3>1, <3>2, ShapeFacts
    <2>3. e \in Nat
        BY ElementBounds
    <2>. DEFINE w == e \div js
                q == e % js
                b == q \div jx
                a == q % jx
    <2>4. w \in Nat /\ q \in 0 .. js - 1 /\ e = js * w + q
        BY <2>3, Quotients
    <2>. HIDE DEF w, q
    <2>5. b \in Nat /\ a \in 0 .. jx - 1 /\ q = jx * b + a
        <3>1. q \in Nat
            BY <2>4
        <3>. QED BY <3>1, Quotients
    <2>. HIDE DEF b, a
    <2>6. e = (w * jy + b) * jx + a
        BY <2>2, <2>3, <2>4, <2>5
    <2>7. w * jy + b \in Nat
        BY <2>4, <2>5
    <2>8. e % jx = a
        BY <2>5, <2>6, <2>7, RowMajorIsUnique
    <2>9. o * js + e = (o + w) * js + q /\ o + w \in Nat
        BY <2>3, <2>4
    <2>10. (o * js + e) \div js = o + w /\ (o * js + e) % js = q
        <3>1. \A v \in Nat : (v * js + q) \div js = v /\ (v * js + q) % js = q
            BY <2>4, RowMajorIsUnique
        <3>. QED BY <2>9, <3>1
    <2>11. Number(r, t, e) = o * js + e
        BY <2>2 DEF Number
    <2>12. e \div js = w /\ e % js = q /\ q % jx = a
        BY DEF w, q, a
    <2>. QED
        BY <1>2, <2>2, <2>8, <2>10, <2>11, <2>12 DEF Dst, Place, RowOf, ColumnOf
<1>. QED BY <1>1, <1>2

\* Two numbers never land in the same place, and none outside the destination.
LEMMA PlacesAreUnique ==
    ASSUME NEW r \in Reductions, NEW k \in 0 .. r.njobs * r.job_size - 1
    PROVE  /\ Place(r, k) \in 0 .. r.njobs * r.job_size - 1
           /\ \A l \in 0 .. r.njobs * r.job_size - 1 : Place(r, k) = Place(r, l) => k = l
<1>1. CASE r.kind = "1d"
    BY <1>1 DEF Place
<1>2. CASE r.kind # "1d"
    <2>1. r.kind = "2d"
        BY <1>2, ReductionFacts
    <2>. DEFINE s == r.shape
    <2>2. PICK dx \in Nat \ {0}, dy \in Nat \ {0} : dx = s.dst_x /\ dy = s.dst_y
        BY <2>1, ShapeFacts
    <2>3. \A l \in 0 .. r.njobs * r.job_size - 1 :
             /\ RowOf(r, l) \in 0 .. dy - 1 /\ ColumnOf(r, l) \in 0 .. dx - 1
             /\ l = ((RowOf(r, l) \div s.job_size_y) * JobsX(s)
                       + ColumnOf(r, l) \div s.job_size_x) * r.job_size
                    + (RowOf(r, l) % s.job_size_y) * s.job_size_x
                    + (ColumnOf(r, l) % s.job_size_x)
        BY <2>1, <2>2, RowAndColumn
    <2>4. \A l : Place(r, l) = RowOf(r, l) * dx + ColumnOf(r, l)
        BY <1>2, <2>2 DEF Place
    <2>. HIDE DEF s
    <2>5. \A l \in 0 .. r.njobs * r.job_size - 1 :
             /\ Place(r, l) \in Nat
             /\ Place(r, l) \div dx = RowOf(r, l) /\ Place(r, l) % dx = ColumnOf(r, l)
             /\ Place(r, l) < dy * dx
        <3>1. SUFFICES ASSUME NEW l \in 0 .. r.njobs * r.job_size - 1
                       PROVE  /\ Place(r, l) \in Nat
                              /\ Place(r, l) \div dx = RowOf(r, l)
                              /\ Place(r, l) % dx = ColumnOf(r, l)
                              /\ Place(r, l) < dy * dx
            OBVIOUS
        <3>2. PICK y \in 0 .. dy - 1, x \in 0 .. dx - 1, a \in Int :
                 y = RowOf(r, l) /\ x = ColumnOf(r, l) /\ a = Place(r, l) /\ a = y * dx + x
            <4>1. RowOf(r, l) * dx + ColumnOf(r, l) \in Int
                BY <2>3
            <4>. QED BY <2>3, <2>4, <4>1
        <3>3. y \in Nat /\ (y < dy <=> y * dx + x < dy * dx)
            BY <3>2, RowOrder
        <3>4. a \in Nat /\ a \div dx = y /\ a % dx = x
            BY <3>2, <3>3, RowMajorIsUnique
        <3>. QED BY <3>2, <3>3, <3>4
    <2>6. dy * dx = r.njobs * r.job_size
        <3>1. PICK nx \in Nat, ny \in Nat, jx \in Nat, jy \in Nat :
                 /\ dx = nx * jx /\ dy = ny * jy
                 /\ r.job_size = jy * jx /\ r.njobs = ny * nx
            BY <2>1, <2>2, ShapeFacts DEF s
        <3>2. (ny * jy) * (nx * jx) = (ny * nx) * (jy * jx)
            OBVIOUS
        <3>. QED BY <3>1, <3>2
    <2>7. Place(r, k) \in 0 .. r.njobs * r.job_size - 1
        BY <2>5, <2>6
    <2>8. ASSUME NEW l \in 0 .. r.njobs * r.job_size - 1, Place(r, k) = Place(r, l)
          PROVE  k = l
        <3>1. RowOf(r, k) = RowOf(r, l) /\ ColumnOf(r, k) = ColumnOf(r, l)
            BY <2>5, <2>8
        <3>. QED BY <2>3, <3>1, Zenon
    <2>. QED BY <2>7, <2>8
<1>. QED BY <1>1, <1>2

\* A cell of the destination takes one element of one group.
LEMMA DstApart ==
    ASSUME NEW r \in Reductions, NEW t \in Threads, NEW u \in Threads,
           NEW e \in Elements(r, t), NEW d \in Elements(r, u)
    PROVE  /\ Dst(r, t, e) \in {"dst"} \X (0 .. r.njobs * r.job_size - 1)
           /\ Dst(r, t, e) = Dst(r, u, d) => group_id(r.b, t) = group_id(r.b, u) /\ e = d
<1>. DEFINE k == Number(r, t, e)
            l == Number(r, u, d)
<1>1. /\ k \in 0 .. r.njobs * r.job_size - 1
      /\ l \in 0 .. r.njobs * r.job_size - 1
    BY ElementBounds
<1>2. Dst(r, t, e) = <<"dst", Place(r, k)>> /\ Dst(r, u, d) = <<"dst", Place(r, l)>>
    BY DstIsPlace
<1>3. Place(r, k) \in 0 .. r.njobs * r.job_size - 1 /\ (Place(r, k) = Place(r, l) => k = l)
    BY <1>1, PlacesAreUnique
<1>4. k = l => group_id(r.b, t) = group_id(r.b, u) /\ e = d
    BY NumbersAreUnique
<1>. HIDE DEF k, l
<1>. QED BY <1>2, <1>3, <1>4

------------------------------------------------------------------------------
(* The buffers: one row for each thread of a group that needs one.         *)

Width(r) == IF r.kind = "1d" THEN r.b.nthr_per_group - 1 ELSE r.b.nthr_per_group
InRow(r, t) == IF r.kind = "1d" THEN id_in_group(r.b, t) - 1 ELSE id_in_group(r.b, t)

LEMMA SpaceFacts ==
    ASSUME NEW r \in Reductions, r.b.nthr_per_group # 1
    PROVE  /\ Width(r) \in Nat \ {0} /\ space_per_thread(r) \in Nat \ {0}
           /\ r.b.ngroups \in Nat
           /\ SpaceSize(r) = (r.b.ngroups * Width(r)) * space_per_thread(r)
<1>1. PICK p \in Nat \ {0}, G \in Nat, ub \in Nat \ {0}, js \in Nat \ {0} :
         /\ p = r.b.nthr_per_group /\ G = r.b.ngroups
         /\ ub = r.b.njobs_per_group_ub /\ js = r.job_size
    BY ReductionFacts
<1>2. Width(r) \in Nat \ {0}
    BY <1>1 DEF Width
<1>3. space_per_thread(r) \in Nat \ {0}
    <2>1. ub * js \in Nat \ {0}
        OBVIOUS
    <2>. QED BY <1>1, <2>1 DEF space_per_thread
<1>4. SpaceSize(r) = G * space_per_thread(r) * Width(r)
    BY <1>1 DEF SpaceSize, Width
<1>5. \A a, b, c \in Nat : a * b * c = (a * c) * b
    OBVIOUS
<1>. QED BY <1>1, <1>2, <1>3, <1>4, <1>5

\* The row of a thread with a buffer of its own is one of those of its group.
LEMMA RowOfThread ==
    ASSUME NEW r \in Reductions, NEW t \in Threads, ~InDst(r, t)
    PROVE  /\ InRow(r, t) \in 0 .. Width(r) - 1
           /\ Row(r, t) = group_id(r.b, t) * Width(r) + InRow(r, t)
           /\ Row(r, t) \in Nat
<1>1. /\ group_id(r.b, t) \in Nat /\ r.b.nthr_per_group \in Nat \ {0}
      /\ id_in_group(r.b, t) \in 0 .. r.b.nthr_per_group - 1
      /\ r.kind \in {"1d", "2d"} /\ r.b.nthr_per_group # 1
    BY Numbering, ReductionFacts DEF InDst
<1>2. InRow(r, t) \in 0 .. Width(r) - 1
    BY <1>1 DEF InDst, InRow, Width
<1>3. PICK g \in Nat, p \in Nat \ {0}, i \in Nat :
         g = group_id(r.b, t) /\ p = r.b.nthr_per_group /\ i = id_in_group(r.b, t)
    BY <1>1
<1>4. Row(r, t) = IF r.kind = "1d" THEN g * (p - 1) + i - 1 ELSE g * p + i
    BY <1>3 DEF Row
<1>5. g * (p - 1) \in Int /\ g * p \in Int
    OBVIOUS
<1>6. Row(r, t) = group_id(r.b, t) * Width(r) + InRow(r, t)
    BY <1>3, <1>4, <1>5 DEF Width, InRow
<1>7. Width(r) \in Nat \ {0}
    BY <1>1, SpaceFacts
<1>8. group_id(r.b, t) * Width(r) \in Nat
    BY <1>1, <1>7
<1>. QED BY <1>2, <1>6, <1>7, <1>8

\* A cell of the scratchpad is in one row, and a row in one group.
LEMMA SpaceCells ==
    ASSUME NEW r \in Reductions, r.b.nthr_per_group # 1,
           NEW g \in Nat, NEW h \in Nat, NEW i \in 0 .. Width(r) - 1,
           NEW j \in 0 .. Width(r) - 1,
           NEW e \in 0 .. space_per_thread(r) - 1, NEW d \in 0 .. space_per_thread(r) - 1
    PROVE  LET cell(x, y, z) == (x * Width(r) + y) * space_per_thread(r) + z
           IN  /\ cell(g, i, e) = cell(h, j, d) => g = h /\ i = j /\ e = d
               /\ g < r.b.ngroups => cell(g, i, e) \in 0 .. SpaceSize(r) - 1
<1>. DEFINE cell(x, y, z) == (x * Width(r) + y) * space_per_thread(r) + z
<1>1. PICK w \in Nat \ {0}, sp \in Nat \ {0}, G \in Nat :
         /\ w = Width(r) /\ sp = space_per_thread(r) /\ G = r.b.ngroups
         /\ SpaceSize(r) = (G * w) * sp
    BY SpaceFacts
<1>2. /\ g * w + i \in Nat /\ (g * w + i) \div w = g /\ (g * w + i) % w = i
      /\ h * w + j \in Nat /\ (h * w + j) \div w = h /\ (h * w + j) % w = j
    BY <1>1, RowMajorIsUnique
<1>3. PICK a \in Nat, b \in Nat : a = g * w + i /\ b = h * w + j
    BY <1>2
<1>4. /\ a * sp + e \in Nat /\ (a * sp + e) \div sp = a /\ (a * sp + e) % sp = e
      /\ b * sp + d \in Nat /\ (b * sp + d) \div sp = b /\ (b * sp + d) % sp = d
    BY <1>1, RowMajorIsUnique
<1>5. cell(g, i, e) = a * sp + e /\ cell(h, j, d) = b * sp + d
    BY <1>1, <1>3
<1>6. g < G <=> a < G * w
    BY <1>1, <1>3, RowOrder
<1>7. a < G * w <=> a * sp + e < (G * w) * sp
    <2>1. G * w \in Nat
        OBVIOUS
    <2>. QED BY <1>1, <2>1, RowOrder
<1>8. cell(g, i, e) = cell(h, j, d) => g = h /\ i = j /\ e = d
    <2>1. SUFFICES ASSUME cell(g, i, e) = cell(h, j, d) PROVE g = h /\ i = j /\ e = d
        OBVIOUS
    <2>2. a * sp + e = b * sp + d
        BY <1>5, <2>1
    <2>3. a = b /\ e = d
        BY <1>4, <2>2
    <2>. QED BY <1>2, <1>3, <2>3
<1>9. ASSUME g < r.b.ngroups PROVE cell(g, i, e) \in 0 .. SpaceSize(r) - 1
    <2>1. (G * w) * sp \in Int
        OBVIOUS
    <2>2. PICK v \in Nat, z \in Int : v = a * sp + e /\ z = (G * w) * sp
        BY <1>4, <2>1
    <2>3. v < z
        BY <1>1, <1>6, <1>7, <1>9, <2>2
    <2>4. v \in 0 .. z - 1
        BY <2>3
    <2>5. cell(g, i, e) = v /\ SpaceSize(r) = z
        BY <1>1, <1>5, <2>2
    <2>. HIDE DEF cell
    <2>. QED BY <2>4, <2>5
<1>. QED BY <1>8, <1>9

\* Where a thread accumulates, if not in the destination.
LEMMA LocalInSpace ==
    ASSUME NEW r \in Reductions, NEW t \in Threads, NEW e \in Elements(r, t), ~InDst(r, t)
    PROVE  /\ get_local_ptr(r, t, e) =
                 <<"space", (group_id(r.b, t) * Width(r) + InRow(r, t))
                               * space_per_thread(r) + e>>
           /\ r.b.nthr_per_group # 1 /\ group_id(r.b, t) \in Nat
           /\ InRow(r, t) \in 0 .. Width(r) - 1
           /\ e \in 0 .. space_per_thread(r) - 1
<1>1. Row(r, t) = group_id(r.b, t) * Width(r) + InRow(r, t)
    BY RowOfThread
<1>2. get_local_ptr(r, t, e) = <<"space", Row(r, t) * space_per_thread(r) + e>>
    BY DEF get_local_ptr
<1>. QED BY <1>1, <1>2, RowOfThread, ElementBounds, Numbering DEF InDst

(***************************************************************************)
(* No thread accumulates outside the destination and the scratchpad, and   *)
(* no two threads in the same cell.                                        *)
(***************************************************************************)
THEOREM LocalsApart ==
    ASSUME NEW r \in Reductions, NEW t \in Threads, NEW e \in Elements(r, t)
    PROVE  /\ get_local_ptr(r, t, e) \in Cells(r)
           /\ \A u \in Threads : \A d \in Elements(r, u) :
                 t # u => get_local_ptr(r, t, e) # get_local_ptr(r, u, d)
<1>1. get_local_ptr(r, t, e) \in Cells(r)
    <2>1. CASE InDst(r, t)
        BY <2>1, DstApart DEF get_local_ptr, Cells
    <2>2. CASE ~InDst(r, t)
        <3>1. group_id(r.b, t) < r.b.ngroups
            BY Workers, Working, ReductionFacts
        <3>2. (group_id(r.b, t) * Width(r) + InRow(r, t)) * space_per_thread(r) + e
                 \in 0 .. SpaceSize(r) - 1
            BY <2>2, <3>1, LocalInSpace, SpaceCells
        <3>. QED BY <2>2, <3>2, LocalInSpace DEF Cells
    <2>. QED BY <2>1, <2>2
<1>2. ASSUME NEW u \in Threads, NEW d \in Elements(r, u), t # u
      PROVE  get_local_ptr(r, t, e) # get_local_ptr(r, u, d)
    <2>1. CASE InDst(r, t) /\ InDst(r, u)
        <3>1. group_id(r.b, t) # group_id(r.b, u)
            <4>1. SUFFICES ASSUME group_id(r.b, t) = group_id(r.b, u) PROVE FALSE
                OBVIOUS
            <4>2. id_in_group(r.b, t) = id_in_group(r.b, u)
                BY <2>1, Numbering DEF InDst
            <4>. QED BY <1>2, <4>1, <4>2, OnePerPlace
        <3>2. Dst(r, t, e) # Dst(r, u, d)
            BY <3>1, DstApart
        <3>. QED BY <2>1, <3>2 DEF get_local_ptr
    <2>2. CASE InDst(r, t) /\ ~InDst(r, u)
        BY <2>2 DEF get_local_ptr, Dst
    <2>3. CASE ~InDst(r, t) /\ InDst(r, u)
        BY <2>3 DEF get_local_ptr, Dst
    <2>4. CASE ~InDst(r, t) /\ ~InDst(r, u)
        <3>1. SUFFICES ASSUME get_local_ptr(r, t, e) = get_local_ptr(r, u, d) PROVE FALSE
            OBVIOUS
        <3>2. (group_id(r.b, t) * Width(r) + InRow(r, t)) * space_per_thread(r) + e
                 = (group_id(r.b, u) * Width(r) + InRow(r, u)) * space_per_thread(r) + d
            BY <2>4, <3>1, LocalInSpace
        <3>3. group_id(r.b, t) = group_id(r.b, u) /\ InRow(r, t) = InRow(r, u)
            BY <2>4, <3>2, LocalInSpace, SpaceCells
        <3>4. id_in_group(r.b, t) = id_in_group(r.b, u)
            <4>1. id_in_group(r.b, t) \in Int /\ id_in_group(r.b, u) \in Int
                BY Numbering, ReductionFacts
            <4>. QED BY <3>3, <4>1 DEF InRow
        <3>. QED BY <1>2, <3>3, <3>4, OnePerPlace
    <2>. QED BY <2>1, <2>2, <2>3, <2>4
<1>. QED BY <1>1, <1>2

\* What a thread adds up for an element: a cell of each buffer of its group.
LEMMA SourceRows ==
    ASSUME NEW r \in Reductions, NEW t \in Threads, NEW e, r.b.nthr_per_group # 1
    PROVE  Sources(r, t, e) =
             { <<"space", (group_id(r.b, t) * Width(r) + k) * space_per_thread(r) + e>> :
                 k \in 0 .. Width(r) - 1 }
<1>. DEFINE one == IF r.kind = "1d" THEN 1 ELSE 0
            v == t - id_in_group(r.b, t) + one
<1>1. PICK p \in Nat \ {0}, g \in Nat, i \in Nat :
         /\ p = r.b.nthr_per_group /\ g = group_id(r.b, t) /\ i = id_in_group(r.b, t)
         /\ t = g * p + i /\ i \in 0 .. p - 1
    BY Numbering, ReductionFacts
<1>2. v = g * p + one /\ one \in 0 .. p - 1
    BY <1>1
<1>. HIDE DEF one, v
<1>3. v \div p = g /\ v % p = one
    BY <1>2, RowMajorIsUnique
<1>4. group_id(r.b, v) = g /\ id_in_group(r.b, v) = one
    BY <1>1, <1>3 DEF group_id, id_in_group
<1>5. Row(r, v) = g * Width(r)
    <2>1. g * (p - 1) + 1 - 1 = g * (p - 1) /\ g * p + 0 = g * p
        OBVIOUS
    <2>. QED BY <1>1, <1>4, <2>1 DEF Row, Width, one
<1>6. Row(r, t - id_in_group(r.b, t) + (IF r.kind = "1d" THEN 1 ELSE 0)) = g * Width(r)
    BY <1>5 DEF v, one
<1>7. (IF r.kind = "1d" THEN r.b.nthr_per_group - 1 ELSE r.b.nthr_per_group) = Width(r)
    BY DEF Width
<1>. QED BY <1>1, <1>6, <1>7, Zenon DEF Sources

\* What a thread adds up no thread of another group accumulates in.
LEMMA SourcesApart ==
    ASSUME NEW r \in Reductions, NEW t \in Threads, NEW u \in Threads,
           NEW e \in Elements(r, t), NEW d \in Elements(r, u),
           r.b.nthr_per_group # 1,
           group_id(r.b, t) # group_id(r.b, u)
    PROVE  get_local_ptr(r, u, d) \notin Sources(r, t, e)
<1>1. SUFFICES ASSUME get_local_ptr(r, u, d) \in Sources(r, t, e) PROVE FALSE
    OBVIOUS
<1>2. PICK k \in 0 .. Width(r) - 1 :
         get_local_ptr(r, u, d)
            = <<"space", (group_id(r.b, t) * Width(r) + k) * space_per_thread(r) + e>>
    BY <1>1, SourceRows
<1>3. ~InDst(r, u)
    BY <1>2 DEF get_local_ptr, Dst
<1>4. /\ get_local_ptr(r, u, d) =
            <<"space", (group_id(r.b, u) * Width(r) + InRow(r, u)) * space_per_thread(r) + d>>
      /\ group_id(r.b, u) \in Nat /\ InRow(r, u) \in 0 .. Width(r) - 1
      /\ d \in 0 .. space_per_thread(r) - 1
    BY <1>3, LocalInSpace
<1>5. (group_id(r.b, t) * Width(r) + k) * space_per_thread(r) + e
         = (group_id(r.b, u) * Width(r) + InRow(r, u)) * space_per_thread(r) + d
    BY <1>2, <1>4
<1>6. group_id(r.b, t) \in Nat /\ e \in 0 .. space_per_thread(r) - 1
    BY Numbering, ElementBounds
<1>. QED BY <1>4, <1>5, <1>6, SpaceCells

------------------------------------------------------------------------------
(* What each thread of a group adds up.                                    *)

\* The shares of two threads come one after the other.
LEMMA SharesApart ==
    ASSUME NEW n \in Nat, NEW team \in Nat \ {0},
           NEW i \in 0 .. team - 1, NEW j \in 0 .. team - 1, i < j
    PROVE  End(n, team, i) <= Start(n, team, j)
<1>1. i \in 0 .. team - 2 /\ i + 1 \in 0 .. team - 1 /\ i + 1 <= j
    OBVIOUS
<1>2. End(n, team, i) = Start(n, team, i + 1)
    BY <1>1, SharesAreConsecutive
<1>3. Start(n, team, i + 1) <= Start(n, team, j)
    BY <1>1, SharesAreOrdered
<1>. QED BY <1>2, <1>3

\* The sum over cache lines.
LEMMA LinesApart ==
    ASSUME NEW r \in Reductions, r.kind = "1d",
           NEW t \in Threads, NEW u \in Threads, Jobs(r, t) # 0, Jobs(r, u) # 0
    PROVE  /\ Mine(r, t) \subseteq Elements(r, t)
           /\ group_id(r.b, t) = group_id(r.b, u) /\ t # u =>
                 Mine(r, t) \cap Mine(r, u) = {}
<1>1. PICK p \in Nat \ {0}, l \in Nat \ {0}, size \in Nat :
         /\ p = r.b.nthr_per_group /\ l = r.line /\ size = Jobs(r, t) * r.job_size
    BY Working, ReductionFacts
<1>2. PICK n \in Nat : n = DivUp(size, l)
    BY DivUpBounds
<1>3. ASSUME NEW v \in Threads, group_id(r.b, v) = group_id(r.b, t)
      PROVE  Mine(r, v) = l * Start(n, p, id_in_group(r.b, v))
                           .. Lesser(l * End(n, p, id_in_group(r.b, v)), size) - 1
    <2>1. Jobs(r, v) = Jobs(r, t)
        BY <1>3 DEF Jobs
    <2>. QED BY <1>1, <1>2, <2>1 DEF Mine
<1>4. ASSUME NEW v \in Threads
      PROVE  /\ id_in_group(r.b, v) \in 0 .. p - 1
             /\ l * Start(n, p, id_in_group(r.b, v)) \in Nat
             /\ l * End(n, p, id_in_group(r.b, v)) \in Nat
    <2>1. id_in_group(r.b, v) \in 0 .. p - 1
        BY <1>1, Numbering
    <2>2. PICK a \in Nat, b \in Nat : a = Start(n, p, id_in_group(r.b, v))
                                      /\ b = End(n, p, id_in_group(r.b, v))
        BY <2>1, SharesAreOrdered
    <2>3. l * a \in Nat /\ l * b \in Nat
        OBVIOUS
    <2>. QED BY <2>1, <2>2, <2>3
<1>5. ASSUME NEW v \in Threads, NEW w \in Threads,
             id_in_group(r.b, v) < id_in_group(r.b, w)
      PROVE  l * End(n, p, id_in_group(r.b, v)) <= l * Start(n, p, id_in_group(r.b, w))
    <2>1. PICK i \in 0 .. p - 1, j \in 0 .. p - 1 :
             i = id_in_group(r.b, v) /\ j = id_in_group(r.b, w)
        BY <1>4
    <2>2. i < j
        BY <1>5, <2>1
    <2>3. End(n, p, i) <= Start(n, p, j) /\ End(n, p, i) \in Nat /\ Start(n, p, j) \in Nat
        BY <2>2, SharesApart, SharesAreOrdered
    <2>4. \A a, b \in Nat : a <= b => l * a <= l * b
        <3>1. SUFFICES ASSUME NEW a \in Nat, NEW b \in Nat, a <= b PROVE l * a <= l * b
            OBVIOUS
        <3>2. l * (b - a) \in Nat /\ l * (b - a) = l * b - l * a
            BY <3>1
        <3>. QED BY <3>2
    <2>. QED BY <2>1, <2>3, <2>4
<1>6. Elements(r, t) = 0 .. size - 1
    BY <1>1 DEF Elements
<1>7. Mine(r, t) \subseteq Elements(r, t)
    BY <1>3, <1>4, <1>6 DEF Lesser
<1>8. ASSUME group_id(r.b, t) = group_id(r.b, u), t # u
      PROVE  Mine(r, t) \cap Mine(r, u) = {}
    <2>1. id_in_group(r.b, t) # id_in_group(r.b, u)
        BY <1>8, OnePerPlace
    <2>2. PICK st \in Nat, et \in Nat, su \in Nat, eu \in Nat :
             /\ Mine(r, t) = st .. Lesser(et, size) - 1
             /\ Mine(r, u) = su .. Lesser(eu, size) - 1
             /\ et <= su \/ eu <= st
        <3>1. id_in_group(r.b, t) < id_in_group(r.b, u) \/ id_in_group(r.b, u) < id_in_group(r.b, t)
            BY <1>4, <2>1
        <3>2. /\ Mine(r, t) = l * Start(n, p, id_in_group(r.b, t))
                               .. Lesser(l * End(n, p, id_in_group(r.b, t)), size) - 1
              /\ Mine(r, u) = l * Start(n, p, id_in_group(r.b, u))
                               .. Lesser(l * End(n, p, id_in_group(r.b, u)), size) - 1
            BY <1>3, <1>8
        <3>. QED BY <1>4, <1>5, <3>1, <3>2
    <2>. QED BY <2>2 DEF Lesser
<1>. QED BY <1>7, <1>8

\* All jobs are whole rectangles.
LEMMA WholeJobs ==
    ASSUME NEW r \in Reductions, r.kind = "2d", NEW job \in 0 .. r.njobs - 1
    PROVE  NX(r.shape, job) = r.shape.job_size_x /\ NY(r.shape, job) = r.shape.job_size_y
<1>1. PICK dx \in Nat, dy \in Nat, jx \in Nat \ {0}, jy \in Nat \ {0},
           nx \in Nat \ {0}, ny \in Nat \ {0} :
         /\ dx = r.shape.dst_x /\ dy = r.shape.dst_y
         /\ jx = r.shape.job_size_x /\ jy = r.shape.job_size_y
         /\ nx = JobsX(r.shape) /\ ny = JobsY(r.shape)
         /\ dx = nx * jx /\ dy = ny * jy /\ r.njobs = ny * nx
    BY ShapeFacts
<1>. DEFINE y == job \div nx
            x == job % nx
<1>2. y \in Nat /\ x \in 0 .. nx - 1 /\ job = nx * y + x
    <2>1. job \in Nat
        BY ReductionFacts
    <2>. QED BY <2>1, Quotients
<1>3. NX(r.shape, job) = Lesser(dx - x * jx, jx) /\ NY(r.shape, job) = Lesser(dy - y * jy, jy)
    BY <1>1 DEF NX, NY
<1>. HIDE DEF y, x
<1>4. y < ny
    <2>1. y < ny <=> y * nx + x < ny * nx
        BY <1>2, RowOrder
    <2>2. y * nx \in Nat /\ nx * y = y * nx /\ ny * nx \in Nat
        BY <1>2
    <2>. QED BY <1>1, <1>2, <2>1, <2>2
<1>5. \A a, b, c \in Nat : a < b => b * c - a * c \in Nat /\ b * c - a * c >= c
    <2>1. SUFFICES ASSUME NEW a \in Nat, NEW b \in Nat, NEW c \in Nat, a < b
                   PROVE  b * c - a * c \in Nat /\ b * c - a * c >= c
        OBVIOUS
    <2>2. (b - a - 1) * c \in Nat
        <3>1. b - a - 1 \in Nat
            BY <2>1
        <3>. QED BY <3>1
    <2>3. (b - a - 1) * c = b * c - a * c - c
        BY <2>1
    <2>4. a * c \in Nat /\ b * c \in Nat
        BY <2>1
    <2>. QED BY <2>2, <2>3, <2>4
<1>6. dx - x * jx \in Nat /\ dx - x * jx >= jx
    <2>1. x \in Nat /\ x < nx
        BY <1>2
    <2>. QED BY <1>1, <1>5, <2>1
<1>7. dy - y * jy \in Nat /\ dy - y * jy >= jy
    BY <1>1, <1>2, <1>4, <1>5
<1>8. \A a \in Nat, b \in Nat : a >= b => Lesser(a, b) = b
    BY DEF Lesser
<1>. QED BY <1>1, <1>3, <1>6, <1>7, <1>8

\* The sum over rectangles.
LEMMA RectanglesApart ==
    ASSUME NEW r \in Reductions, r.kind = "2d",
           NEW t \in Threads, NEW u \in Threads, Jobs(r, t) # 0, Jobs(r, u) # 0
    PROVE  /\ Mine(r, t) \subseteq Elements(r, t)
           /\ group_id(r.b, t) = group_id(r.b, u) /\ t # u =>
                 Mine(r, t) \cap Mine(r, u) = {}
<1>0. PICK s : s = r.shape
    OBVIOUS
<1>1. PICK p \in Nat \ {0}, k \in Nat \ {0}, o \in Nat :
         /\ p = r.b.nthr_per_group /\ k = Jobs(r, t) /\ o = Off(r, t) /\ s = r.shape
         /\ o + k <= r.njobs
    BY <1>0, Working, ReductionFacts
<1>2. PICK jx \in Nat \ {0}, jy \in Nat \ {0}, js \in Nat \ {0} :
         /\ jx = s.job_size_x /\ jy = s.job_size_y /\ js = r.job_size /\ js = jy * jx
    BY <1>1, ShapeFacts, ReductionFacts
<1>3. \A j \in 0 .. k - 1 : NX(s, o + j) = jx /\ NY(s, o + j) = jy
    <2>1. \A j \in 0 .. k - 1 : o + j \in 0 .. r.njobs - 1
        BY <1>1, ReductionFacts
    <2>. QED BY <1>1, <1>2, <2>1, WholeJobs
<1>4. WholeBlocks(s, o, k)
    <2>1. s.x_block \in Nat \ {0} /\ \E v \in Nat \ {0} : jx = v * s.x_block
        BY <1>1, <1>2, ShapeFacts
    <2>. QED BY <1>3, <2>1 DEF WholeBlocks
<1>. DEFINE Share(id) == Share2d(s, o, k, p, id)
            at(q) == q[1] * js + q[2][1] * jx + q[2][2]
<1>5. ASSUME NEW v \in Threads, group_id(r.b, v) = group_id(r.b, t)
      PROVE  Mine(r, v) = { at(q) : q \in Share(id_in_group(r.b, v)) }
    <2>1. Jobs(r, v) = Jobs(r, t) /\ Off(r, v) = Off(r, t)
        BY <1>5 DEF Jobs, Off
    <2>. QED BY <1>1, <1>2, <2>1 DEF Mine
<1>6. \A v \in Threads : id_in_group(r.b, v) \in 0 .. p - 1
    BY <1>1, Numbering
<1>7. /\ \A id \in 0 .. p - 1 : Share(id) \subseteq JobElements(s, o, k)
      /\ \A id1, id2 \in 0 .. p - 1 : id1 # id2 => Share(id1) \cap Share(id2) = {}
    BY <1>4, RectanglesArePartition
<1>8. ASSUME NEW q \in JobElements(s, o, k)
      PROVE  /\ q = <<q[1], <<q[2][1], q[2][2]>> >>
             /\ q[1] \in 0 .. k - 1 /\ q[2][1] \in 0 .. jy - 1 /\ q[2][2] \in 0 .. jx - 1
    <2>1. PICK j \in 0 .. k - 1 :
             q \in {j} \X ((0 .. NY(s, o + j) - 1) \X (0 .. NX(s, o + j) - 1))
        BY <1>8 DEF JobElements
    <2>2. q \in {j} \X ((0 .. jy - 1) \X (0 .. jx - 1))
        BY <1>3, <2>1
    <2>. QED BY <2>2
<1>9. ASSUME NEW y \in Nat, NEW b \in 0 .. jy - 1, NEW a \in 0 .. jx - 1
      PROVE  /\ y * js + b * jx + a \in Nat
             /\ y * js + b * jx + a < k * js <=> y < k
             /\ (y * js + b * jx + a) \div js = y
             /\ (y * js + b * jx + a) % js = b * jx + a
             /\ (b * jx + a) \div jx = b /\ (b * jx + a) % jx = a
    <2>1. /\ b \in Nat /\ b * jx \in Nat /\ b * jx + a \in Nat
          /\ (b * jx + a) \div jx = b /\ (b * jx + a) % jx = a
        BY RowMajorIsUnique
    <2>2. b < jy <=> b * jx + a < jy * jx
        BY RowOrder
    <2>3. PICK c \in Nat : c = b * jx + a
        BY <2>1
    <2>4. c \in 0 .. js - 1
        BY <1>2, <2>2, <2>3
    <2>5. y * js + c \in Nat /\ (y * js + c) \div js = y /\ (y * js + c) % js = c
        BY <2>4, RowMajorIsUnique
    <2>6. y < k <=> y * js + c < k * js
        BY <2>4, RowOrder
    <2>7. y * js + b * jx + a = y * js + c
        <3>1. y * js \in Nat
            OBVIOUS
        <3>. QED BY <2>1, <2>3, <3>1
    <2>. QED BY <2>1, <2>3, <2>5, <2>6, <2>7
<1>10. ASSUME NEW q \in JobElements(s, o, k)
       PROVE  /\ at(q) \in 0 .. k * js - 1
              /\ at(q) \div js = q[1]
              /\ (at(q) % js) \div jx = q[2][1] /\ (at(q) % js) % jx = q[2][2]
    <2>1. PICK y \in Nat, b \in 0 .. jy - 1, a \in 0 .. jx - 1, v \in Int :
             y = q[1] /\ b = q[2][1] /\ a = q[2][2] /\ y < k /\ v = y * js + b * jx + a
        <3>1. q[1] \in Nat /\ q[1] < k /\ q[2][1] \in 0 .. jy - 1 /\ q[2][2] \in 0 .. jx - 1
            BY <1>8
        <3>2. q[1] * js + q[2][1] * jx + q[2][2] \in Int
            BY <3>1
        <3>. QED BY <3>1, <3>2
    <2>2. at(q) = v
        BY <2>1
    <2>3. /\ v \in Nat /\ v < k * js
          /\ v \div js = y /\ v % js = b * jx + a
          /\ (b * jx + a) \div jx = b /\ (b * jx + a) % jx = a
        <3>1. v = y * js + b * jx + a /\ y < k
            BY <2>1
        <3>2. /\ y * js + b * jx + a \in Nat
              /\ y * js + b * jx + a < k * js <=> y < k
              /\ (y * js + b * jx + a) \div js = y
              /\ (y * js + b * jx + a) % js = b * jx + a
              /\ (b * jx + a) \div jx = b /\ (b * jx + a) % jx = a
            BY <1>9
        <3>. QED BY <3>1, <3>2, Zenon
    <2>4. k * js \in Nat
        OBVIOUS
    <2>5. v \in 0 .. k * js - 1 /\ v \div js = y /\ (v % js) \div jx = b /\ (v % js) % jx = a
        BY <2>3, <2>4
    <2>. HIDE DEF at
    <2>. QED BY <2>1, <2>2, <2>5
<1>11. ASSUME NEW q \in JobElements(s, o, k), NEW w \in JobElements(s, o, k), at(q) = at(w)
       PROVE  q = w
    <2>. HIDE DEF at
    <2>1. q[1] = w[1] /\ q[2][1] = w[2][1] /\ q[2][2] = w[2][2]
        BY <1>10, <1>11
    <2>2. q = <<q[1], <<q[2][1], q[2][2]>> >> /\ w = <<w[1], <<w[2][1], w[2][2]>> >>
        BY <1>8
    <2>. QED BY <2>1, <2>2, Zenon
<1>. HIDE DEF at, Share
<1>12. Mine(r, t) \subseteq Elements(r, t)
    <2>1. Elements(r, t) = 0 .. k * js - 1
        BY <1>1, <1>2 DEF Elements
    <2>2. Share(id_in_group(r.b, t)) \subseteq JobElements(s, o, k)
        BY <1>6, <1>7
    <2>. QED BY <1>5, <1>10, <2>1, <2>2
<1>13. ASSUME group_id(r.b, t) = group_id(r.b, u), t # u
       PROVE  Mine(r, t) \cap Mine(r, u) = {}
    <2>1. id_in_group(r.b, t) # id_in_group(r.b, u)
        BY <1>13, OnePerPlace
    <2>2. PICK A, B : /\ A = Share(id_in_group(r.b, t)) /\ B = Share(id_in_group(r.b, u))
                      /\ A \subseteq JobElements(s, o, k) /\ B \subseteq JobElements(s, o, k)
                      /\ A \cap B = {}
        BY <1>6, <1>7, <2>1
    <2>3. Mine(r, t) = { at(q) : q \in A } /\ Mine(r, u) = { at(q) : q \in B }
        BY <1>5, <1>13, <2>2
    <2>. QED BY <1>11, <2>2, <2>3
<1>. QED BY <1>12, <1>13

\* No thread adds up elements its group does not have, and no two threads of a
\* group the same ones.
LEMMA MinesApart ==
    ASSUME NEW r \in Reductions, NEW t \in Threads, NEW u \in Threads
    PROVE  /\ Plan(r, t).mine \subseteq Elements(r, t)
           /\ group_id(r.b, t) = group_id(r.b, u) /\ t # u =>
                 Plan(r, t).mine \cap Plan(r, u).mine = {}
<1>1. \A v \in Threads : Plan(r, v).mine = IF Jobs(r, v) = 0 THEN {} ELSE Mine(r, v)
    BY DEF Plan
<1>2. ASSUME Jobs(r, t) # 0, Jobs(r, u) # 0
      PROVE  /\ Mine(r, t) \subseteq Elements(r, t)
             /\ group_id(r.b, t) = group_id(r.b, u) /\ t # u =>
                   Mine(r, t) \cap Mine(r, u) = {}
    <2>1. r.kind = "1d" \/ r.kind = "2d"
        BY ReductionFacts
    <2>. QED BY <1>2, <2>1, LinesApart, RectanglesApart
<1>3. ASSUME Jobs(r, t) # 0 PROVE Mine(r, t) \subseteq Elements(r, t)
    <2>1. r.kind = "1d" \/ r.kind = "2d"
        BY ReductionFacts
    <2>. QED BY <1>3, <2>1, LinesApart, RectanglesApart
<1>. QED BY <1>1, <1>2, <1>3

------------------------------------------------------------------------------
(* The plan of a thread, and the cells it names.                           *)

LEMMA PartFacts ==
    ASSUME conv \in Convolutions
    PROVE  /\ Len(conv) \in Nat /\ Len(conv) > 0 /\ Parts = 1 .. Len(conv)
           /\ \A s \in Parts : conv[s] \in Reductions
           /\ \A s \in Parts, t \in Threads : plan[conv][s][t] = Plan(conv[s], t)
<1>1. conv \in Seq(Reductions) /\ conv # <<>>
    BY ConvolutionAssumption
<1>2. Len(conv) \in Nat /\ DOMAIN conv = 1 .. Len(conv) /\ Len(conv) # 0
    BY <1>1
<1>3. \A s \in Parts : conv[s] \in Reductions
    BY <1>1, <1>2 DEF Parts
<1>4. \A s \in Parts, t \in Threads : plan[conv][s][t] = Plan(conv[s], t)
    BY DEF plan, Parts
<1>. QED BY <1>2, <1>3, <1>4 DEF Parts

\* Scratchpad and destination of each reduction, and nothing else.
Stored == /\ DOMAIN mem = Parts
          /\ \A s \in Parts : DOMAIN mem[s] = Cells(conv[s])

LEMMA MyCells ==
    ASSUME Control, NEW t \in Threads
    PROVE  /\ Part(t) \in Parts /\ Now(t) \in Reductions
           /\ LocalCells(t) = { get_local_ptr(Now(t), t, e) : e \in Elements(Now(t), t) }
           /\ DstCells(t) = { Dst(Now(t), t, e) : e \in Plan(Now(t), t).mine }
           /\ LocalCells(t) \subseteq Cells(Now(t))
           /\ DstCells(t) \subseteq Cells(Now(t))
           /\ \A e \in My(t).mine : My(t).sources[e] = Sources(Now(t), t, e)
           /\ My(t).mine = Plan(Now(t), t).mine
<1>1. conv \in Convolutions /\ Part(t) \in Parts
    BY DEF Control, Part
<1>2. Now(t) \in Reductions /\ My(t) = Plan(Now(t), t)
    BY <1>1, PartFacts DEF Now, My
<1>3. Plan(Now(t), t).mine \subseteq Elements(Now(t), t)
    BY <1>2, MinesApart
<1>4. LocalCells(t) = { get_local_ptr(Now(t), t, e) : e \in Elements(Now(t), t) }
    BY <1>2 DEF LocalCells, Plan
<1>5. DstCells(t) = { Dst(Now(t), t, e) : e \in Plan(Now(t), t).mine }
    <2>1. \A e \in Elements(Now(t), t) : My(t).dst[e] = Dst(Now(t), t, e)
        BY <1>2 DEF Plan
    <2>. QED BY <1>2, <1>3, <2>1 DEF DstCells
<1>6. LocalCells(t) \subseteq Cells(Now(t))
    BY <1>2, <1>4, LocalsApart
<1>7. DstCells(t) \subseteq Cells(Now(t))
    BY <1>2, <1>3, <1>5, DstApart DEF Cells
<1>8. \A e \in My(t).mine : My(t).sources[e] = Sources(Now(t), t, e)
    <2>1. \A e \in Elements(Now(t), t) : My(t).sources[e] = Sources(Now(t), t, e)
        BY <1>2 DEF Plan
    <2>. QED BY <1>2, <1>3, <2>1
<1>. QED BY <1>1, <1>2, <1>4, <1>5, <1>6, <1>7, <1>8

------------------------------------------------------------------------------
(* The inductive invariant.                                                *)

LEMMA Started ==
    ASSUME Init
    PROVE  IInv /\ Stored
<1>1. sync \in BOOLEAN /\ conv \in Convolutions /\ 1 \in Parts
    BY PartFacts DEF Init
<1>2. pc = [t \in Threads |-> <<1, "compute">>]
    BY DEF Init
<1>3. Control
    BY <1>1, <1>2 DEF Init, Control, Places
<1>4. HasMates /\ Synchronised /\ Sectioned
    BY <1>2 DEF Init, HasMates, Synchronised, Sectioned, At, Part
<1>5. Stored
    BY DEF Init, Stored
<1>. QED BY <1>3, <1>4, <1>5 DEF IInv

\* Thread t goes on to a place in a part, the others stay where they are.
Moved(t, s, place) ==
    /\ UNCHANGED conv
    /\ pc'[t] = <<s, place>>
    /\ \A u \in Threads \ {t} : pc'[u] = pc[u]

LEMMA Moves ==
    ASSUME Control, NEW t \in Threads, UNCHANGED <<sync, conv>>
    PROVE  /\ \A s \in Parts, place \in Places :
                 pc' = [pc EXCEPT ![t] = <<s, place>>] =>
                     Moved(t, s, place) /\ pc' \in [Threads -> Parts \X Places]
           /\ \A place \in Places : Goto(t, place) =>
                 Moved(t, Part(t), place) /\ pc' \in [Threads -> Parts \X Places]
           /\ \A section \in {"first", "second"} : Ended(t, section) =>
                 /\ pc' \in [Threads -> Parts \X Places]
                 /\ ~sync => Moved(t, Part(t), section)
                 /\ sync => \/ Moved(t, Part(t) + 1, "compute")
                            \/ Moved(t, Part(t), "done")
<1>1. /\ pc \in [Threads -> Parts \X Places] /\ conv \in Convolutions
      /\ Part(t) \in Parts /\ sync \in BOOLEAN
    BY DEF Control, Part
<1>2. ASSUME NEW s \in Parts, NEW place \in Places, pc' = [pc EXCEPT ![t] = <<s, place>>]
      PROVE  Moved(t, s, place) /\ pc' \in [Threads -> Parts \X Places]
    BY <1>1, <1>2 DEF Moved
<1>3. ASSUME NEW place \in Places, Goto(t, place)
      PROVE  Moved(t, Part(t), place) /\ pc' \in [Threads -> Parts \X Places]
    <2>1. pc' = [pc EXCEPT ![t] = [pc[t] EXCEPT ![2] = place]]
        BY <1>3 DEF Goto
    <2>2. pc[t] \in Parts \X Places
        BY <1>1
    <2>3. [pc[t] EXCEPT ![2] = place] = <<Part(t), place>>
        <3>1. PICK s \in Parts, p \in Places : pc[t] = <<s, p>>
            BY <2>2
        <3>2. [<<s, p>> EXCEPT ![2] = place] = <<s, place>>
            OBVIOUS
        <3>. QED BY <3>1, <3>2 DEF Part
    <2>. QED BY <1>1, <1>2, <2>1, <2>3
<1>4. ASSUME NEW section \in {"first", "second"}, Ended(t, section)
      PROVE  /\ pc' \in [Threads -> Parts \X Places]
             /\ ~sync => Moved(t, Part(t), section)
             /\ sync => \/ Moved(t, Part(t) + 1, "compute")
                        \/ Moved(t, Part(t), "done")
    <2>1. section \in Places /\ "compute" \in Places /\ "done" \in Places
        BY DEF Places
    <2>2. CASE ~sync
        BY <1>1, <1>2, <1>4, <2>1, <2>2 DEF Ended
    <2>3. CASE sync /\ Part(t) < Len(conv)
        <3>1. Part(t) + 1 \in Parts
            BY <1>1, <2>3, PartFacts
        <3>2. pc' = [pc EXCEPT ![t] = <<Part(t) + 1, "compute">>]
            BY <1>4, <2>3 DEF Ended, Onward
        <3>. QED BY <1>2, <2>1, <2>3, <3>1, <3>2
    <2>4. CASE sync /\ ~(Part(t) < Len(conv))
        <3>1. pc' = [pc EXCEPT ![t] = <<Part(t), "done">>]
            BY <1>4, <2>4 DEF Ended, Onward
        <3>. QED BY <1>1, <1>2, <2>1, <2>4, <3>1
    <2>. QED BY <1>1, <2>2, <2>3, <2>4
<1>. QED BY <1>2, <1>3, <1>4

LEMMA KeepsMates ==
    ASSUME Control, HasMates, NEW t \in Threads, NEW s \in Parts, NEW place,
           Moved(t, s, place),
           place \in {"enter", "wait", "sum"} =>
               Jobs(conv[s], t) # 0 /\ conv[s].b.nthr_per_group > 1
    PROVE  HasMates'
<1>1. SUFFICES ASSUME NEW u \in Threads, (pc[u][2])' \in {"enter", "wait", "sum"}
               PROVE  Jobs(Now(u)', u) # 0 /\ Now(u)'.b.nthr_per_group > 1
    BY DEF HasMates, PerGroupOf
<1>2. CASE u = t
    <2>1. pc'[t] = <<s, place>> /\ conv' = conv
        BY DEF Moved
    <2>. QED BY <1>1, <1>2, <2>1 DEF Now, Part
<1>3. CASE u # t
    <2>1. pc'[u] = pc[u] /\ conv' = conv
        BY <1>3 DEF Moved
    <2>. QED BY <1>1, <2>1 DEF HasMates, Now, Part, PerGroupOf
<1>. QED BY <1>2, <1>3

LEMMA KeepsSections ==
    ASSUME Control, Sectioned, ~sync, UNCHANGED sync, NEW t \in Threads, NEW place,
           Moved(t, Part(t), place),
           \/ At(t, "compute") /\ place = "first"
           \/ At(t, "sum") /\ place = "second"
    PROVE  Sectioned'
<1>1. /\ pc'[t] = <<Part(t), place>> /\ \A u \in Threads \ {t} : pc'[u] = pc[u]
    BY DEF Moved
<1>2. \A u \in Threads : pc'[u][1] = pc[u][1]
    BY <1>1 DEF Part
<1>3. CASE At(t, "compute") /\ place = "first"
    <2>1. \A u \in Threads : pc[u][2] \in {"compute", "first"}
        BY <1>3 DEF Sectioned, At
    <2>2. \A u \in Threads : pc'[u][2] \in {"compute", "first"}
        BY <1>1, <1>3, <2>1
    <2>. QED BY <1>2, <2>2 DEF Sectioned, Part
<1>4. CASE At(t, "sum") /\ place = "second"
    <2>1. \A u \in Threads : pc[u][2] \in {"sum", "second"}
        BY <1>4 DEF Sectioned, At
    <2>2. \A u \in Threads : pc'[u][2] \in {"sum", "second"}
        BY <1>1, <1>4, <2>1
    <2>. QED BY <1>2, <2>2 DEF Sectioned, Part
<1>. QED BY <1>3, <1>4

\* What a step of thread t may do to the barriers.
Noted(t, s, place) ==
    /\ \A q \in Parts, u \in Threads :
          /\ entered[<<q, u>>] = 1 => entered'[<<q, u>>] = 1
          /\ entered'[<<q, u>>] = 1 =>
                \/ entered[<<q, u>>] = 1
                \/ q = s /\ u = t /\ place = "wait"
    /\ place = "wait" => entered'[<<s, t>>] = 1

LEMMA KeepsOrder ==
    ASSUME Control, Synchronised, sync, UNCHANGED sync,
           NEW t \in Threads, NEW s \in Parts, NEW place, Moved(t, s, place),
           place \notin {"first", "second"},
           \/ /\ s = Part(t)
              /\ \/ place = "enter" /\ At(t, "compute")
                 \/ place \in {"wait", "sum", "done"}
           \/ s = Part(t) + 1 /\ place = "compute",
           Noted(t, s, place),
           place = "sum" =>
               \A u \in {s} \X Members(conv[s], group_id(conv[s].b, t)) : entered'[u] = 1
    PROVE  Synchronised'
<1>1. /\ pc'[t] = <<s, place>> /\ conv' = conv
      /\ \A u \in Threads \ {t} : pc'[u] = pc[u]
    BY DEF Moved
<1>2. Parts \subseteq Nat /\ Part(t) \in Parts
    BY PartFacts DEF Control, Part
<1>3. SUFFICES ASSUME NEW u \in Threads
               PROVE  /\ pc'[u][2] \notin {"first", "second"}
                      /\ \A q \in Parts : entered'[<<q, u>>] = 1 =>
                            \/ q < pc'[u][1]
                            \/ q = pc'[u][1] /\ pc'[u][2] \in {"wait", "sum", "done"}
                      /\ pc'[u][2] = "wait" => entered'[<<pc'[u][1], u>>] = 1
                      /\ pc'[u][2] = "sum" =>
                            \A v \in {pc'[u][1]} \X Members(conv[pc'[u][1]],
                                            group_id(conv[pc'[u][1]].b, u)) : entered'[v] = 1
    BY <1>1 DEF Synchronised, At, Mates, Now, Part, Parts
<1>4. CASE u = t
    <2>1. \A q \in Parts : entered[<<q, t>>] = 1 =>
             \/ q < Part(t)
             \/ q = Part(t) /\ pc[t][2] \in {"wait", "sum", "done"}
        BY DEF Synchronised
    <2>2. ASSUME NEW q \in Parts, entered'[<<q, t>>] = 1
          PROVE  q < s \/ (q = s /\ place \in {"wait", "sum", "done"})
        <3>1. entered[<<q, t>>] = 1 \/ (q = s /\ place = "wait")
            BY <2>2 DEF Noted
        <3>. QED BY <1>2, <2>1, <3>1 DEF At
    <2>. QED BY <1>1, <1>4, <2>2 DEF Noted
<1>5. CASE u # t
    <2>1. pc'[u] = pc[u]
        BY <1>1, <1>5
    <2>2. \A q \in Parts : entered'[<<q, u>>] = 1 => entered[<<q, u>>] = 1
        BY <1>5 DEF Noted
    <2>3. ASSUME pc[u][2] = "sum",
                 NEW v \in {Part(u)} \X Members(conv[Part(u)], group_id(conv[Part(u)].b, u))
          PROVE  entered'[v] = 1
        <3>1. entered[v] = 1
            BY <2>3 DEF Synchronised, At, Mates, Now
        <3>2. PICK w \in Threads : v = <<Part(u), w>>
            BY DEF Members
        <3>3. Part(u) \in Parts
            BY DEF Control, Part
        <3>. QED BY <3>1, <3>2, <3>3 DEF Noted
    <2>4. pc[u][2] = "wait" => entered'[<<pc[u][1], u>>] = 1
        <3>1. pc[u][2] = "wait" => entered[<<pc[u][1], u>>] = 1
            BY DEF Synchronised, At, Part
        <3>2. pc[u][1] \in Parts
            BY DEF Control
        <3>. QED BY <3>1, <3>2 DEF Noted
    <2>5. /\ pc[u][2] \notin {"first", "second"}
          /\ \A q \in Parts : entered'[<<q, u>>] = 1 =>
                \/ q < pc[u][1]
                \/ q = pc[u][1] /\ pc[u][2] \in {"wait", "sum", "done"}
        BY <2>2 DEF Synchronised, Part
    <2>. QED BY <2>1, <2>3, <2>4, <2>5 DEF Part
<1>. QED BY <1>4, <1>5

\* Threads write where there are cells.
LEMMA WritesInside ==
    ASSUME Control, Stored, NEW t \in Threads, UNCHANGED conv,
           NEW values, DOMAIN values \subseteq Cells(Now(t)), Write(t, values)
    PROVE  Stored'
<1>1. /\ mem' = [mem EXCEPT ![Part(t)] =
                    [a \in DOMAIN values \cup DOMAIN mem[Part(t)] |->
                        IF a \in DOMAIN values THEN values[a] ELSE mem[Part(t)][a]]]
    BY DEF Write
<1>2. Part(t) \in Parts
    BY DEF Control, Part
<1>3. DOMAIN mem' = Parts /\ \A s \in Parts : DOMAIN mem'[s] = Cells(conv[s])
    BY <1>1, <1>2 DEF Stored, Now
<1>. QED BY <1>3 DEF Stored, Parts

\* The steps that end a thread's part of a section.
LEMMA EndedKeeps ==
    ASSUME IInv, NEW t \in Threads, UNCHANGED <<sync, conv, entered, left>>,
           NEW section \in {"first", "second"}, Ended(t, section),
           \/ At(t, "compute") /\ section = "first"
           \/ At(t, "sum") /\ section = "second"
    PROVE  IInv'
<1>1. Control /\ HasMates /\ Synchronised /\ Sectioned
    BY DEF IInv
<1>2. conv \in Convolutions /\ Part(t) \in Parts /\ sync \in BOOLEAN
    BY <1>1 DEF Control, Part
<1>3. /\ pc' \in [Threads -> Parts \X Places]
      /\ ~sync => Moved(t, Part(t), section)
      /\ sync => Moved(t, Part(t) + 1, "compute") \/ Moved(t, Part(t), "done")
    BY <1>1, Moves
<1>4. Control'
    BY <1>1, <1>3 DEF Control, Parts
<1>5. CASE ~sync
    <2>1. HasMates'
        BY <1>1, <1>2, <1>3, <1>5, KeepsMates
    <2>2. Sectioned'
        BY <1>1, <1>3, <1>5, KeepsSections
    <2>3. Synchronised'
        BY <1>5 DEF Synchronised
    <2>. QED BY <1>4, <2>1, <2>2, <2>3 DEF IInv
<1>6. CASE sync
    <2>1. PICK s, place : /\ Moved(t, s, place)
                          /\ \/ s = Part(t) + 1 /\ place = "compute"
                             \/ s = Part(t) /\ place = "done"
        BY <1>3, <1>6
    <2>2. s \in Parts
        <3>1. pc'[t] = <<s, place>>
            BY <2>1 DEF Moved
        <3>. QED BY <1>3, <3>1
    <2>3. HasMates'
        BY <1>1, <2>1, <2>2, KeepsMates
    <2>4. Noted(t, s, place)
        BY <2>1 DEF Noted
    <2>5. Synchronised'
        BY <1>1, <1>6, <2>1, <2>2, <2>4, KeepsOrder
    <2>6. Sectioned'
        BY <1>6 DEF Sectioned
    <2>. QED BY <1>4, <2>3, <2>5, <2>6 DEF IInv
<1>. QED BY <1>2, <1>5, <1>6

LEMMA ReturnKeeps ==
    ASSUME IInv, Stored, NEW t \in Threads, Return(t)
    PROVE  IInv' /\ Stored'
<1>1. IInv'
    BY EndedKeeps DEF Return
<1>2. Stored'
    BY DEF Return, Stored, Parts
<1>. QED BY <1>1, <1>2

LEMMA ComputeKeeps ==
    ASSUME IInv, Stored, NEW t \in Threads, Compute(t)
    PROVE  IInv' /\ Stored'
<1>1. Control /\ HasMates /\ Synchronised /\ Sectioned
    BY DEF IInv
<1>2. /\ UNCHANGED <<sync, conv, entered, left>> /\ At(t, "compute")
      /\ Jobs(Now(t), t) # 0
    BY DEF Compute
<1>3. Stored'
    <2>1. CASE UNCHANGED mem
        BY <1>2, <2>1 DEF Stored, Parts
    <2>2. CASE ~UNCHANGED mem
        <3>1. PICK values : DOMAIN values = LocalCells(t) /\ Write(t, values)
            BY <2>2 DEF Compute
        <3>. QED BY <1>1, <1>2, <3>1, MyCells, WritesInside
    <2>. QED BY <2>1, <2>2
<1>4. CASE Ended(t, "first")
    BY <1>2, <1>3, <1>4, EndedKeeps
<1>5. CASE sync /\ PerGroupOf(t) > 1 /\ Goto(t, "enter")
    <2>1. Moved(t, Part(t), "enter") /\ pc' \in [Threads -> Parts \X Places]
        BY <1>1, <1>2, <1>5, Moves DEF Places
    <2>2. Part(t) \in Parts
        BY <1>1 DEF Control, Part
    <2>3. Control'
        BY <1>1, <1>2, <2>1 DEF Control, Parts
    <2>4. HasMates'
        BY <1>1, <1>2, <1>5, <2>1, <2>2, KeepsMates DEF Now, PerGroupOf
    <2>5. Noted(t, Part(t), "enter")
        BY <1>2 DEF Noted
    <2>6. Synchronised'
        BY <1>1, <1>2, <1>5, <2>1, <2>2, <2>5, KeepsOrder
    <2>7. Sectioned'
        BY <1>2, <1>5 DEF Sectioned
    <2>. QED BY <1>3, <2>3, <2>4, <2>6, <2>7 DEF IInv
<1>. QED BY <1>4, <1>5 DEF Compute

\* Threads that wait for mates have a barrier.
LEMMA BarriersInSync ==
    ASSUME IInv, NEW t \in Threads, At(t, "enter") \/ At(t, "wait")
    PROVE  sync
BY DEF IInv, Sectioned, At

LEMMA EnterKeeps ==
    ASSUME IInv, Stored, NEW t \in Threads, Enter(t)
    PROVE  IInv' /\ Stored'
<1>1. Control /\ HasMates /\ Synchronised /\ Sectioned
    BY DEF IInv
<1>2. UNCHANGED <<sync, conv, mem>> /\ At(t, "enter") /\ Goto(t, "wait")
    BY DEF Enter
<1>3. sync
    BY <1>2, BarriersInSync
<1>4. Part(t) \in Parts
    BY <1>1 DEF Control, Part
<1>5. /\ entered[<<Part(t), t>>] < 1 /\ left' = left
      /\ entered' = [entered EXCEPT ![<<Part(t), t>>] = @ + 1]
    BY DEF Enter, Bar!Enter
<1>6. Moved(t, Part(t), "wait") /\ pc' \in [Threads -> Parts \X Places]
    BY <1>1, <1>2, Moves DEF Places
<1>7. entered \in [Parts \X Threads -> 0 .. 1]
    BY <1>1 DEF Control
<1>8. /\ entered'[<<Part(t), t>>] = 1 /\ entered' \in [Parts \X Threads -> 0 .. 1]
      /\ \A q \in Parts, u \in Threads :
            q # Part(t) \/ u # t => entered'[<<q, u>>] = entered[<<q, u>>]
    BY <1>4, <1>5, <1>7
<1>9. Control'
    BY <1>1, <1>2, <1>5, <1>6, <1>8 DEF Control, Parts
<1>10. HasMates'
    BY <1>1, <1>2, <1>4, <1>6, KeepsMates DEF HasMates, At, Now, PerGroupOf
<1>11. Noted(t, Part(t), "wait")
    BY <1>8 DEF Noted
<1>12. Synchronised'
    BY <1>1, <1>2, <1>3, <1>4, <1>6, <1>11, KeepsOrder
<1>13. Sectioned'
    BY <1>2, <1>3 DEF Sectioned
<1>14. Stored'
    BY <1>2 DEF Stored, Parts
<1>. QED BY <1>9, <1>10, <1>12, <1>13, <1>14 DEF IInv

LEMMA LeaveKeeps ==
    ASSUME IInv, Stored, NEW t \in Threads, Leave(t)
    PROVE  IInv' /\ Stored'
<1>1. Control /\ HasMates /\ Synchronised /\ Sectioned
    BY DEF IInv
<1>2. UNCHANGED <<sync, conv, mem>> /\ At(t, "wait") /\ Goto(t, "sum")
    BY DEF Leave
<1>3. sync
    BY <1>2, BarriersInSync
<1>4. Part(t) \in Parts
    BY <1>1 DEF Control, Part
<1>5. /\ left[<<Part(t), t>>] < entered[<<Part(t), t>>] /\ entered' = entered
      /\ \A u \in Mates(t) : entered[<<Part(t), t>>] <= entered[u]
      /\ left' = [left EXCEPT ![<<Part(t), t>>] = @ + 1]
    BY DEF Leave, Bar!Leave
<1>6. Moved(t, Part(t), "sum") /\ pc' \in [Threads -> Parts \X Places]
    BY <1>1, <1>2, Moves DEF Places
<1>7. left \in [Parts \X Threads -> 0 .. 1] /\ entered \in [Parts \X Threads -> 0 .. 1]
    BY <1>1 DEF Control
<1>8. left' \in [Parts \X Threads -> 0 .. 1]
    BY <1>4, <1>5, <1>7
<1>9. Control'
    BY <1>1, <1>2, <1>5, <1>6, <1>8 DEF Control, Parts
<1>10. HasMates'
    BY <1>1, <1>2, <1>4, <1>6, KeepsMates DEF HasMates, At, Now, PerGroupOf
<1>11. Noted(t, Part(t), "sum")
    BY <1>5 DEF Noted
<1>12. \A u \in Mates(t) : entered'[u] = 1
    <2>1. SUFFICES ASSUME NEW u \in Mates(t) PROVE entered[u] = 1
        BY <1>5
    <2>2. u \in Parts \X Threads
        BY <1>4 DEF Mates, Members
    <2>3. entered[<<Part(t), t>>] = 1
        BY <1>1, <1>2, <1>3 DEF Synchronised
    <2>. QED BY <1>5, <1>7, <2>2, <2>3
<1>13. Synchronised'
    BY <1>1, <1>2, <1>3, <1>4, <1>6, <1>11, <1>12, KeepsOrder DEF Mates, Now
<1>14. Sectioned'
    BY <1>2, <1>3 DEF Sectioned
<1>15. Stored'
    BY <1>2 DEF Stored, Parts
<1>. QED BY <1>9, <1>10, <1>13, <1>14, <1>15 DEF IInv

LEMMA AddUpKeeps ==
    ASSUME IInv, Stored, NEW t \in Threads, AddUp(t)
    PROVE  IInv' /\ Stored'
<1>1. UNCHANGED <<sync, conv, entered, left>> /\ At(t, "sum") /\ Ended(t, "second")
    BY DEF AddUp
<1>2. IInv'
    BY <1>1, EndedKeeps
<1>3. PICK values : DOMAIN values = DstCells(t) /\ Write(t, values)
    BY DEF AddUp
<1>4. Stored'
    BY <1>1, <1>3, MyCells, WritesInside DEF IInv
<1>. QED BY <1>2, <1>4

LEMMA NextSectionKeeps ==
    ASSUME IInv, Stored, NextSection
    PROVE  IInv' /\ Stored'
<1>1. Control /\ HasMates /\ Synchronised /\ Sectioned
    BY DEF IInv
<1>2. /\ UNCHANGED <<sync, conv, entered, left, mem>> /\ 0 \in Threads
      /\ \/ \A t \in Threads : At(t, "first")
         \/ \A t \in Threads : At(t, "second")
    BY NThrAssumption DEF NextSection, Threads
<1>3. ~sync
    <2>1. SUFFICES ASSUME sync PROVE FALSE
        OBVIOUS
    <2>2. pc[0][2] \notin {"first", "second"}
        BY <1>1, <1>2, <2>1 DEF Synchronised
    <2>. QED BY <1>2, <2>2 DEF At
<1>4. PICK s \in Parts : \A t \in Threads : Part(t) = s
    <2>1. \A t \in Threads : Part(t) = Part(0)
        BY <1>1, <1>2, <1>3 DEF Sectioned
    <2>2. Part(0) \in Parts
        BY <1>1, <1>2 DEF Control, Part
    <2>. QED BY <2>1, <2>2
<1>5. conv \in Convolutions /\ pc \in [Threads -> Parts \X Places]
    BY <1>1 DEF Control
<1>6. CASE \A t \in Threads : At(t, "first")
    <2>1. pc' = [t \in Threads |-> IF Jobs(Now(t), t) # 0 /\ PerGroupOf(t) > 1
                                   THEN <<s, "sum">> ELSE <<s, "second">>]
        BY <1>4, <1>6 DEF NextSection, At
    <2>2. pc' \in [Threads -> Parts \X Places]
        BY <2>1 DEF Places
    <2>3. \A t \in Threads : /\ pc'[t][1] = s /\ pc'[t][2] \in {"sum", "second"}
                             /\ pc'[t][2] = "sum" => Jobs(Now(t), t) # 0 /\ PerGroupOf(t) > 1
        BY <2>1
    <2>4. \A t \in Threads : Now(t)' = Now(t)
        BY <1>2, <1>4, <2>3 DEF Now, Part
    <2>5. Control'
        BY <1>1, <1>2, <2>2 DEF Control, Parts
    <2>6. HasMates'
        BY <2>3, <2>4 DEF HasMates, PerGroupOf
    <2>7. Sectioned'
        BY <2>3 DEF Sectioned, Part
    <2>. QED BY <1>2, <1>3, <2>5, <2>6, <2>7 DEF IInv, Synchronised, Stored, Parts
<1>7. CASE \A t \in Threads : At(t, "second")
    <2>1. pc' = [t \in Threads |-> IF s < Len(conv) THEN <<s + 1, "compute">>
                                   ELSE <<s, "done">>]
        BY <1>4, <1>7 DEF NextSection, Onward
    <2>2. Len(conv) \in Nat /\ Parts = 1 .. Len(conv)
        BY <1>5, PartFacts
    <2>3. pc' \in [Threads -> Parts \X Places]
        BY <2>1, <2>2 DEF Places
    <2>4. \/ \A t \in Threads : pc'[t] = <<s + 1, "compute">>
          \/ \A t \in Threads : pc'[t] = <<s, "done">>
        BY <2>1
    <2>5. Control'
        BY <1>1, <1>2, <2>3 DEF Control, Parts
    <2>6. HasMates'
        BY <2>4 DEF HasMates
    <2>7. Sectioned'
        BY <2>4 DEF Sectioned, Part
    <2>. QED BY <1>2, <1>3, <2>5, <2>6, <2>7 DEF IInv, Synchronised, Stored, Parts
<1>. QED BY <1>2, <1>6, <1>7

LEMMA StutterKeeps ==
    ASSUME IInv, Stored, UNCHANGED vars
    PROVE  IInv' /\ Stored'
BY DEF vars, IInv, Stored, Control, HasMates, Synchronised, Sectioned, Parts, At, Part,
       Now, PerGroupOf, Mates

LEMMA StepKeeps ==
    ASSUME IInv, Stored, [Next]_vars
    PROVE  IInv' /\ Stored'
<1>1. ASSUME NEW t \in Threads, Step(t) PROVE IInv' /\ Stored'
    <2>1. CASE Return(t)
        BY <2>1, ReturnKeeps
    <2>2. CASE Compute(t)
        BY <2>2, ComputeKeeps
    <2>3. CASE Enter(t)
        BY <2>3, EnterKeeps
    <2>4. CASE Leave(t)
        BY <2>4, LeaveKeeps
    <2>5. CASE Spin(t)
        BY <2>5, StutterKeeps DEF Spin
    <2>6. CASE AddUp(t)
        BY <2>6, AddUpKeeps
    <2>. QED BY <1>1, <2>1, <2>2, <2>3, <2>4, <2>5, <2>6 DEF Step
<1>2. CASE NextSection
    BY <1>2, NextSectionKeeps
<1>3. CASE UNCHANGED vars
    BY <1>3, StutterKeeps
<1>. QED BY <1>1, <1>2, <1>3 DEF Next

THEOREM Invariance == Spec => [](IInv /\ Stored)
<1>1. Init => IInv /\ Stored
    BY Started
<1>2. (IInv /\ Stored) /\ [Next]_vars => (IInv /\ Stored)'
    BY StepKeeps
<1>. QED BY <1>1, <1>2, PTL DEF Spec

(***************************************************************************)
(* Threads stay where their conf_ and the barriers can lead them, nothing  *)
(* but the scratchpads and the destinations is written, and no thread adds *)
(* up an element that its group does not have.                             *)
(***************************************************************************)
THEOREM TypeCorrect == Spec => []TypeOK
<1>1. IInv /\ Stored => TypeOK
    <2>1. SUFFICES ASSUME IInv, Stored PROVE TypeOK
        OBVIOUS
    <2>2. Control
        BY <2>1 DEF IInv
    <2>3. ASSUME NEW t \in Threads
          PROVE  /\ pc[t][1] \in Parts
                 /\ pc[t][2] \in {"compute", "first", "enter", "wait", "sum", "second", "done"}
        BY <2>2 DEF Control, Places
    <2>4. ASSUME NEW s \in Parts, NEW t \in Threads
          PROVE  plan[conv][s][t].mine \subseteq Elements(conv[s], t)
        <3>1. conv[s] \in Reductions /\ plan[conv][s][t] = Plan(conv[s], t)
            BY <2>2, PartFacts DEF Control
        <3>. QED BY <3>1, MinesApart
    <2>. QED BY <2>1, <2>2, <2>3, <2>4 DEF TypeOK, Control, Stored
<1>. QED BY <1>1, Invariance, PTL

(***************************************************************************)
(* Two threads that add up are never in the same cell, whatever their      *)
(* groups: one adds up in the destination what is in the scratchpad.       *)
(***************************************************************************)
LEMMA SumsApart ==
    ASSUME Control, HasMates, NEW t \in Threads, NEW u \in Threads, t # u,
           Part(t) = Part(u), At(t, "sum"), At(u, "sum")
    PROVE  Writes(t) \cap (Writes(u) \cup Reads(u)) = {}
<1>1. Now(t) = Now(u) /\ Now(t) \in Reductions
    BY MyCells DEF Now
<1>2. PICK r \in Reductions : r = Now(t) /\ r = Now(u)
    BY <1>1
<1>3. /\ DstCells(t) = { Dst(r, t, e) : e \in Plan(r, t).mine }
      /\ DstCells(u) = { Dst(r, u, e) : e \in Plan(r, u).mine }
      /\ \A e \in My(u).mine : My(u).sources[e] = Sources(r, u, e)
    BY <1>2, MyCells
<1>4. /\ Plan(r, t).mine \subseteq Elements(r, t) /\ Plan(r, u).mine \subseteq Elements(r, u)
      /\ group_id(r.b, t) = group_id(r.b, u) => Plan(r, t).mine \cap Plan(r, u).mine = {}
    BY MinesApart
<1>5. ASSUME NEW a \in DstCells(t) PROVE a \notin DstCells(u)
    <2>1. SUFFICES ASSUME a \in DstCells(u) PROVE FALSE
        OBVIOUS
    <2>2. PICK e \in Plan(r, t).mine, d \in Plan(r, u).mine : Dst(r, t, e) = Dst(r, u, d)
        BY <1>3, <2>1
    <2>3. group_id(r.b, t) = group_id(r.b, u) /\ e = d
        BY <1>4, <2>2, DstApart
    <2>. QED BY <1>4, <2>3
<1>6. ASSUME NEW a \in DstCells(t), NEW e \in My(u).mine PROVE a \notin My(u).sources[e]
    <2>1. a[1] = "dst"
        BY <1>3, <1>4, DstApart
    <2>2. \A c \in Sources(r, u, e) : c[1] = "space"
        BY DEF Sources
    <2>. QED BY <1>3, <2>1, <2>2
<1>7. Writes(t) = {Part(t)} \X DstCells(t) /\ Writes(u) = {Part(u)} \X DstCells(u)
    BY DEF Writes, At
<1>8. Reads(u) = {Part(u)} \X UNION { My(u).sources[e] : e \in My(u).mine }
    BY DEF Reads
<1>. QED BY <1>5, <1>6, <1>7, <1>8

\* Where a thread still accumulates nobody adds up: its mates wait for it, and
\* the cells of other groups are elsewhere.
LEMMA SumAwaitsMates ==
    ASSUME IInv, NEW t \in Threads, NEW u \in Threads, Part(t) = Part(u),
           At(t, "compute"), At(u, "sum"), Jobs(Now(t), t) # 0
    PROVE  group_id(Now(t).b, t) # group_id(Now(t).b, u)
<1>1. Control /\ HasMates /\ Synchronised /\ Sectioned
    BY DEF IInv
<1>2. SUFFICES ASSUME group_id(Now(t).b, t) = group_id(Now(t).b, u) PROVE FALSE
    OBVIOUS
<1>3. Now(t) = Now(u) /\ Now(t) \in Reductions /\ Part(t) \in Parts /\ Parts \subseteq Nat
    BY <1>1, MyCells, PartFacts DEF Now, Control
<1>4. sync
    BY <1>1 DEF Sectioned, At
<1>5. ~idle(Now(t).b, t)
    BY <1>3, Working
<1>6. <<Part(t), t>> \in Mates(u)
    BY <1>2, <1>3, <1>5 DEF Mates, Members
<1>7. entered[<<Part(t), t>>] = 1
    BY <1>1, <1>4, <1>6 DEF Synchronised
<1>8. Part(t) < Part(t) \/ pc[t][2] \in {"wait", "sum", "done"}
    BY <1>1, <1>3, <1>4, <1>7 DEF Synchronised
<1>9. ~(Part(t) < Part(t))
    <2>1. \A n \in Nat : ~(n < n)
        OBVIOUS
    <2>. QED BY <1>3, <2>1
<1>10. pc[t][2] = "compute"
    BY DEF At
<1>. QED BY <1>8, <1>9, <1>10

LEMMA ComputeApart ==
    ASSUME IInv, NEW t \in Threads, NEW u \in Threads, Part(t) = Part(u),
           At(t, "compute"), At(u, "sum")
    PROVE  /\ LocalCells(t) \cap DstCells(u) = {}
           /\ \A e \in My(u).mine : LocalCells(t) \cap My(u).sources[e] = {}
<1>1. Control /\ HasMates
    BY DEF IInv
<1>2. Now(t) = Now(u) /\ Now(t) \in Reductions
    BY <1>1, MyCells DEF Now
<1>3. PICK r \in Reductions : r = Now(t) /\ r = Now(u)
    BY <1>2
<1>4. /\ LocalCells(t) = { get_local_ptr(r, t, d) : d \in Elements(r, t) }
      /\ DstCells(u) = { Dst(r, u, e) : e \in Plan(r, u).mine }
      /\ \A e \in My(u).mine : My(u).sources[e] = Sources(r, u, e)
      /\ My(u).mine = Plan(r, u).mine
    BY <1>1, <1>3, MyCells
<1>5. Plan(r, u).mine \subseteq Elements(r, u) /\ r.b.nthr_per_group # 1
    <2>1. PerGroupOf(u) > 1
        BY <1>1 DEF HasMates, At
    <2>. QED BY <1>3, <2>1, MinesApart DEF PerGroupOf
<1>6. ASSUME NEW d \in Elements(r, t), NEW e \in Plan(r, u).mine
      PROVE  /\ get_local_ptr(r, t, d) # Dst(r, u, e)
             /\ get_local_ptr(r, t, d) \notin Sources(r, u, e)
    <2>1. group_id(r.b, t) # group_id(r.b, u)
        BY <1>3, Workers, SumAwaitsMates
    <2>2. get_local_ptr(r, t, d) \notin Sources(r, u, e)
        BY <1>5, <2>1, SourcesApart
    <2>3. get_local_ptr(r, t, d) # Dst(r, u, e)
        <3>1. CASE InDst(r, t)
            BY <1>5, <2>1, <3>1, DstApart DEF get_local_ptr
        <3>2. CASE ~InDst(r, t)
            BY <3>2 DEF get_local_ptr, Dst
        <3>. QED BY <3>1, <3>2
    <2>. QED BY <2>2, <2>3
<1>. QED BY <1>4, <1>6

(***************************************************************************)
(* NoRace holds for any number of threads, any sequence of reductions and  *)
(* both ways to synchronise.                                               *)
(***************************************************************************)
THEOREM RaceFree == Spec => []NoRace
<1>1. ASSUME IInv PROVE NoRace
    <2>1. SUFFICES ASSUME NEW t \in Threads, NEW u \in Threads, t # u
                   PROVE  Writes(t) \cap (Writes(u) \cup Reads(u)) = {}
        BY DEF NoRace
    <2>2. Control /\ HasMates
        BY <1>1 DEF IInv
    <2>3. \A v \in Threads :
             /\ At(v, "compute") => Writes(v) = {Part(v)} \X LocalCells(v) /\ Reads(v) = {}
             /\ At(v, "sum") => /\ Writes(v) = {Part(v)} \X DstCells(v)
                                /\ Reads(v) = {Part(v)} \X
                                      UNION { My(v).sources[e] : e \in My(v).mine }
             /\ ~At(v, "compute") /\ ~At(v, "sum") => Writes(v) = {} /\ Reads(v) = {}
        BY DEF Writes, Reads, At
    <2>4. CASE Part(t) # Part(u)
        BY <2>4 DEF Writes, Reads
    <2>5. CASE Part(t) = Part(u) /\ At(t, "compute") /\ At(u, "compute")
        <3>1. Now(t) = Now(u) /\ Now(t) \in Reductions
            BY <2>2, <2>5, MyCells DEF Now
        <3>2. /\ LocalCells(t) = { get_local_ptr(Now(t), t, e) : e \in Elements(Now(t), t) }
              /\ LocalCells(u) = { get_local_ptr(Now(t), u, e) : e \in Elements(Now(t), u) }
            BY <2>2, <3>1, MyCells
        <3>3. LocalCells(t) \cap LocalCells(u) = {}
            BY <2>1, <3>1, <3>2, LocalsApart
        <3>. QED BY <2>3, <2>5, <3>3
    <2>6. CASE Part(t) = Part(u) /\ At(t, "compute") /\ At(u, "sum")
        <3>1. /\ LocalCells(t) \cap DstCells(u) = {}
              /\ \A e \in My(u).mine : LocalCells(t) \cap My(u).sources[e] = {}
            BY <1>1, <2>6, ComputeApart
        <3>. QED BY <2>3, <2>6, <3>1
    <2>7. CASE Part(t) = Part(u) /\ At(t, "sum") /\ At(u, "compute")
        <3>1. LocalCells(u) \cap DstCells(t) = {}
            BY <1>1, <2>7, ComputeApart
        <3>. QED BY <2>3, <2>7, <3>1
    <2>8. CASE Part(t) = Part(u) /\ At(t, "sum") /\ At(u, "sum")
        BY <2>1, <2>2, <2>8, SumsApart
    <2>9. CASE \/ ~At(t, "compute") /\ ~At(t, "sum")
               \/ ~At(u, "compute") /\ ~At(u, "sum")
        BY <2>3, <2>9
    <2>. QED BY <2>4, <2>5, <2>6, <2>7, <2>8, <2>9
<1>. QED BY <1>1, Invariance, PTL

------------------------------------------------------------------------------
(* Sums of cells, each with a contribution of its own.                     *)

\* The union of two bags of different things is their bag.
LEMMA BagsAddUp ==
    ASSUME NEW A, NEW B, A \cap B = {}
    PROVE  SetToBag(A) (+) SetToBag(B) = SetToBag(A \cup B)
<1>1. DOMAIN SetToBag(A) = A /\ DOMAIN SetToBag(B) = B
    BY DEF SetToBag
<1>2. \A e \in A : SetToBag(A)[e] = 1
    BY DEF SetToBag
<1>3. \A e \in B : SetToBag(B)[e] = 1
    BY DEF SetToBag
<1>4. \A e \in A \cup B : (IF e \in A THEN SetToBag(A)[e] ELSE 0)
                              + (IF e \in B THEN SetToBag(B)[e] ELSE 0) = 1
    BY <1>2, <1>3
<1>. QED BY <1>1, <1>4 DEF SetToBag, (+)

\* The sum of the cells of m in a set, taken out one by one and added to base.
SomeOf(s) == CHOOSE x \in s : TRUE
IsSum(z, m, base, S) ==
    z = [s \in SUBSET S |-> IF s = {} THEN base ELSE z[s \ {SomeOf(s)}] (+) m[SomeOf(s)]]

SumOver(m, base, S) == FoldSet(LAMBDA a, bag : bag (+) m[a], base, S)

\* A fold of cells is such a sum, if there is one at all.
LEMMA FoldIsSum ==
    ASSUME NEW m, NEW base, NEW S, NEW z, IsSum(z, m, base, S)
    PROVE  \E y : /\ IsSum(y, m, base, S)
                  /\ SumOver(m, base, S) = y[S]
<1>1. IsSum(CHOOSE y : IsSum(y, m, base, S), m, base, S)
    OBVIOUS
<1>2. SumOver(m, base, S)
         = (CHOOSE y : IsSum(y, m, base, S))[S]
    BY DEF SumOver, FoldSet, MapThenFoldSet, IsSum, SomeOf
<1>. QED BY <1>1, <1>2

\* Each cell of S holds a contribution of its own, which is not in B, and W
\* consists of these and of B.
Collected(m, B, S, owner, W) ==
    /\ \A a \in S : m[a] = SetToBag({owner[a]}) /\ owner[a] \notin B
    /\ \A a, b \in S : owner[a] = owner[b] => a = b
    /\ W = B \cup { owner[a] : a \in S }

\* The sum of such cells, with what is in B, is W: otherwise take the
\* smallest set of cells for which it is not.
LEMMA FoldCollects ==
    ASSUME NEW m, NEW B, NEW S, IsFiniteSet(S), NEW owner, NEW W,
           Collected(m, B, S, owner, W)
    PROVE  SumOver(m, SetToBag(B), S) = SetToBag(W)
<1>0. /\ \A a \in S : m[a] = SetToBag({owner[a]}) /\ owner[a] \notin B
      /\ \A a, b \in S : owner[a] = owner[b] => a = b
      /\ W = B \cup { owner[a] : a \in S }
    BY DEF Collected
<1>. DEFINE w == [s \in SUBSET S |-> SetToBag(B \cup { owner[a] : a \in s })]
<1>1. \A s \in SUBSET S : s # {} => SomeOf(s) \in s /\ s \ {SomeOf(s)} \in SUBSET S
    BY DEF SomeOf
<1>2. ASSUME NEW s \in SUBSET S, s # {}
      PROVE  w[s] = w[s \ {SomeOf(s)}] (+) m[SomeOf(s)]
    <2>1. PICK x \in s : x = SomeOf(s)
        BY <1>1, <1>2
    <2>2. PICK C : C = B \cup { owner[a] : a \in s \ {x} }
        OBVIOUS
    <2>3. C \cap {owner[x]} = {} /\ C \cup {owner[x]} = B \cup { owner[a] : a \in s }
        BY <1>0, <2>1, <2>2
    <2>4. w[s \ {x}] = SetToBag(C) /\ w[s] = SetToBag(C \cup {owner[x]})
        BY <2>2, <2>3
    <2>5. m[x] = SetToBag({owner[x]})
        BY <1>0
    <2>. HIDE DEF w
    <2>. QED BY <2>1, <2>3, <2>4, <2>5, BagsAddUp
<1>3. w[{}] = SetToBag(B)
    <2>1. B \cup { owner[a] : a \in {} } = B
        OBVIOUS
    <2>. QED BY <2>1
<1>4. IsSum(w, m, SetToBag(B), S)
    <2>1. w = [s \in SUBSET S |-> w[s]]
        OBVIOUS
    <2>. HIDE DEF w
    <2>2. ASSUME NEW s \in SUBSET S
          PROVE  w[s] = IF s = {} THEN SetToBag(B) ELSE w[s \ {SomeOf(s)}] (+) m[SomeOf(s)]
        BY <1>2, <1>3
    <2>. QED BY <2>1, <2>2 DEF IsSum
<1>. HIDE DEF w
<1>5. PICK z : /\ IsSum(z, m, SetToBag(B), S)
               /\ SumOver(m, SetToBag(B), S) = z[S]
    BY <1>4, FoldIsSum
<1>6. \A s \in SUBSET S :
         z[s] = IF s = {} THEN SetToBag(B) ELSE z[s \ {SomeOf(s)}] (+) m[SomeOf(s)]
    BY <1>5 DEF IsSum
<1>. DEFINE Bad == { s \in SUBSET S : z[s] # w[s] }
            Sizes == { Cardinality(s) : s \in Bad }
<1>7. \A s \in SUBSET S : IsFiniteSet(s) /\ Cardinality(s) \in Nat
    BY FS_Subset, FS_CardinalityType
<1>8. Bad = {}
    <2>. SUFFICES ASSUME Bad # {} PROVE FALSE
        OBVIOUS
    <2>1. PICK n \in Sizes : \A k \in Sizes : n <= k
        <3>1. Sizes \subseteq Nat /\ Sizes # {}
            BY <1>7
        <3>. HIDE DEF Sizes
        <3>. QED BY <3>1, SmallestExists
    <2>2. PICK s \in SUBSET S : Cardinality(s) = n /\ z[s] # w[s]
        OBVIOUS
    <2>3. s # {}
        BY <1>3, <1>6, <2>2
    <2>4. SomeOf(s) \in s /\ s \ {SomeOf(s)} \in SUBSET S
        BY <1>1, <2>3
    <2>5. Cardinality(s \ {SomeOf(s)}) = n - 1 /\ n \in Nat
        BY <1>7, <2>2, <2>4, FS_RemoveElement
    <2>6. s \ {SomeOf(s)} \notin Bad
        BY <2>1, <2>5
    <2>7. z[s \ {SomeOf(s)}] = w[s \ {SomeOf(s)}]
        BY <2>4, <2>6
    <2>. QED BY <1>2, <1>6, <2>2, <2>3, <2>7
<1>9. z[S] = w[S]
    BY <1>8
<1>. QED BY <1>0, <1>5, <1>9 DEF w

\* What reduce_nolock() computes for an element.
LEMMA TotalIsSumOver ==
    ASSUME NEW t, NEW e
    PROVE  Total(t, e) = SumOver(mem[Part(t)],
                             IF Now(t).kind = "1d" THEN mem[Part(t)][My(t).dst[e]] ELSE EmptyBag,
                             My(t).sources[e])
BY DEF Total, SumOver

------------------------------------------------------------------------------
(* A group, and the cells it accumulates an element in.                    *)

\* Every thread of a group has something to reduce.
LEMMA SharesOfAll ==
    ASSUME NEW r \in Reductions, NEW t \in Threads
    PROVE  Size(r.reduction, r.b.nthr_per_group, id_in_group(r.b, t)) # 0
<1>. DEFINE i == [nthr |-> NThr, job_size |-> r.job_size, njobs |-> r.njobs,
                  reduction |-> r.reduction, allow |-> TRUE,
                  max_buffer |-> NThr * r.job_size * 8]
<1>1. r.b = balance(i) /\ BalancerInput(i)
    BY ReductionFacts, BalanceAssumption DEF BalancerInput
<1>2. balance(i).nthr_per_group \in 1 .. i.reduction
    BY <1>1, BalanceFits
<1>3. r.b.nthr_per_group \in 1 .. r.reduction
    BY <1>1, <1>2
<1>. HIDE DEF i
<1>4. PICK p \in Nat \ {0}, n \in Nat \ {0} : p = r.b.nthr_per_group /\ n = r.reduction /\ p <= n
    BY <1>3, ReductionFacts
<1>5. id_in_group(r.b, t) \in 0 .. p - 1
    BY <1>4, Numbering
<1>6. Size(n, p, id_in_group(r.b, t)) = 0 => n < p
    BY <1>5, SharesAreBalanced
<1>. QED BY <1>4, <1>6

\* The places of a group all have a thread.
LEMMA ThreadAt ==
    ASSUME NEW r \in Reductions, NEW t \in Threads, Jobs(r, t) # 0,
           NEW i \in 0 .. r.b.nthr_per_group - 1
    PROVE  \E u \in Threads : group_id(r.b, u) = group_id(r.b, t) /\ id_in_group(r.b, u) = i
<1>1. PICK p \in Nat \ {0}, n \in Nat, g \in Nat :
         /\ p = r.b.nthr_per_group /\ n = r.b.ngroups /\ g = group_id(r.b, t)
         /\ n * p <= NThr /\ g < n /\ i \in 0 .. p - 1
    BY Working, ReductionFacts
<1>2. (g * p + i) \div p = g /\ (g * p + i) % p = i /\ g * p + i \in Nat
    <2>1. PICK k \in 0 .. p - 1 : k = i
        BY <1>1
    <2>2. PICK v : v = g * p + k
        OBVIOUS
    <2>3. v \in Nat /\ v \div p = g /\ v % p = k
        BY <2>2, RowMajorIsUnique
    <2>. QED BY <2>1, <2>2, <2>3
<1>3. g * p + i < n * p
    BY <1>1, RowOrder
<1>4. g * p + i \in Threads
    <2>1. n * p \in Nat /\ NThr \in Nat
        BY ReductionFacts
    <2>. QED BY <1>1, <1>2, <1>3, <2>1 DEF Threads
<1>. QED BY <1>1, <1>2, <1>4 DEF group_id, id_in_group

\* What the threads of a group have in common.
LEMMA Group ==
    ASSUME NEW r \in Reductions, NEW t \in Threads, NEW u \in Threads,
           group_id(r.b, t) = group_id(r.b, u)
    PROVE  /\ Jobs(r, t) = Jobs(r, u) /\ Off(r, t) = Off(r, u)
           /\ Elements(r, t) = Elements(r, u)
           /\ \A e : Dst(r, t, e) = Dst(r, u, e)
BY DEF Jobs, Off, Elements, Dst

\* No two elements of a thread share a cell.
LEMMA LocalsDiffer ==
    ASSUME NEW r \in Reductions, NEW t \in Threads, NEW e \in Elements(r, t),
           NEW d \in Elements(r, t), get_local_ptr(r, t, e) = get_local_ptr(r, t, d)
    PROVE  e = d
<1>1. CASE InDst(r, t)
    BY <1>1, DstApart DEF get_local_ptr
<1>2. CASE ~InDst(r, t)
    BY <1>2, LocalInSpace, SpaceCells
<1>. QED BY <1>1, <1>2

\* The cells that are added up for an element: those where the group has
\* accumulated it, the destination apart.
LEMMA SourcesAre ==
    ASSUME NEW r \in Reductions, NEW t \in Threads, NEW e \in Elements(r, t),
           r.b.nthr_per_group # 1
    PROVE  Sources(r, t, e) =
             { get_local_ptr(r, u, e) :
                 u \in { v \in Members(r, group_id(r.b, t)) : ~InDst(r, v) } }
<1>1. PICK p \in Nat \ {0}, g \in Nat : p = r.b.nthr_per_group /\ g = group_id(r.b, t) /\ p > 1
    BY Numbering, ReductionFacts
<1>2. Jobs(r, t) # 0
    BY Workers
<1>. DEFINE cell(k) == <<"space", (g * Width(r) + k) * space_per_thread(r) + e>>
            M == { v \in Members(r, g) : ~InDst(r, v) }
<1>3. Sources(r, t, e) = { cell(k) : k \in 0 .. Width(r) - 1 }
    BY <1>1, SourceRows
<1>4. ASSUME NEW v \in M
      PROVE  get_local_ptr(r, v, e) = cell(InRow(r, v)) /\ InRow(r, v) \in 0 .. Width(r) - 1
    <2>1. v \in Threads /\ group_id(r.b, v) = g /\ ~InDst(r, v)
        BY DEF Members
    <2>2. e \in Elements(r, v)
        BY <1>1, <2>1, Group
    <2>. QED BY <2>1, <2>2, LocalInSpace
<1>5. ASSUME NEW k \in 0 .. Width(r) - 1
      PROVE  \E v \in M : InRow(r, v) = k
    <2>. DEFINE i == IF r.kind = "1d" THEN k + 1 ELSE k
    <2>1. i \in 0 .. p - 1 /\ (r.kind = "1d" => i # 0)
        BY <1>1 DEF Width
    <2>. HIDE DEF i
    <2>2. PICK v \in Threads : group_id(r.b, v) = g /\ id_in_group(r.b, v) = i
        BY <1>1, <1>2, <2>1, ThreadAt
    <2>3. Jobs(r, v) # 0
        BY <1>1, <1>2, <2>2, Group
    <2>4. v \in Members(r, g)
        BY <2>2, <2>3, Working DEF Members
    <2>5. ~InDst(r, v)
        BY <2>1, <2>2 DEF InDst
    <2>6. InRow(r, v) = k
        BY <1>1, <2>2 DEF InRow, Width, i
    <2>. QED BY <2>4, <2>5, <2>6
<1>. HIDE DEF cell, M
<1>6. Sources(r, t, e) = { get_local_ptr(r, u, e) : u \in M }
    BY <1>3, <1>4, <1>5
<1>. QED BY <1>1, <1>6 DEF M

\* Every cache line of a group is one of those that a thread of it adds up.
LEMMA LinesCover ==
    ASSUME NEW r \in Reductions, r.kind = "1d", NEW t \in Threads,
           NEW e \in Elements(r, t)
    PROVE  \E u \in Threads : group_id(r.b, u) = group_id(r.b, t) /\ e \in Mine(r, u)
<1>1. Jobs(r, t) # 0
    BY Workers
<1>2. PICK p \in Nat \ {0}, l \in Nat \ {0}, size \in Nat :
         /\ p = r.b.nthr_per_group /\ l = r.line /\ size = Jobs(r, t) * r.job_size
    BY <1>1, Working, ReductionFacts
<1>3. PICK n \in Nat : n = DivUp(size, l) /\ size <= n * l
    BY DivUpBounds
<1>4. e \in Nat /\ e < size
    BY <1>2 DEF Elements
<1>5. PICK q \in Nat, x \in 0 .. l - 1 : q = e \div l /\ x = e % l /\ e = l * q + x
    <2>1. e \div l \in Nat /\ e % l \in 0 .. l - 1 /\ e = l * (e \div l) + (e % l)
        BY <1>4, Quotients
    <2>. QED BY <2>1
<1>6. q < n
    <2>1. q < n <=> q * l + x < n * l
        BY <1>5, RowOrder
    <2>2. l * q = q * l /\ q * l \in Nat /\ n * l \in Nat
        OBVIOUS
    <2>. QED BY <1>3, <1>4, <1>5, <2>1, <2>2
<1>7. PICK i \in 0 .. p - 1 : q \in Start(n, p, i) .. End(n, p, i) - 1
    BY <1>6, SharesArePartition
<1>8. PICK a \in Nat, b \in Nat : a = Start(n, p, i) /\ b = End(n, p, i) /\ a <= q /\ q < b
    BY <1>7, SharesAreOrdered
<1>9. l * a <= e /\ e < l * b
    <2>1. ~(q < a) /\ (q < a <=> q * l + x < a * l)
        BY <1>5, <1>8, RowOrder
    <2>2. q < b <=> q * l + x < b * l
        BY <1>5, RowOrder
    <2>3. l * q = q * l /\ q * l \in Nat /\ a * l = l * a /\ b * l = l * b
             /\ l * a \in Nat /\ l * b \in Nat
        OBVIOUS
    <2>. QED BY <1>5, <1>8, <2>1, <2>2, <2>3
<1>10. PICK u \in Threads : group_id(r.b, u) = group_id(r.b, t) /\ id_in_group(r.b, u) = i
    BY <1>1, <1>2, <1>7, ThreadAt
<1>11. Mine(r, u) = l * a .. Lesser(l * b, size) - 1
    <2>1. Jobs(r, u) = Jobs(r, t)
        BY <1>10, Group
    <2>. QED BY <1>2, <1>3, <1>8, <1>10, <2>1 DEF Mine
<1>12. e \in Mine(r, u)
    <2>1. l * a \in Nat /\ l * b \in Nat
        OBVIOUS
    <2>. QED BY <1>4, <1>9, <1>11, <2>1 DEF Lesser
<1>. QED BY <1>10, <1>12

\* So is every element of its rectangles.
LEMMA RectanglesCover ==
    ASSUME NEW r \in Reductions, r.kind = "2d", NEW t \in Threads,
           NEW e \in Elements(r, t)
    PROVE  \E u \in Threads : group_id(r.b, u) = group_id(r.b, t) /\ e \in Mine(r, u)
<1>0. Jobs(r, t) # 0
    BY Workers
<1>1. PICK s : s = r.shape
    OBVIOUS
<1>2. PICK p \in Nat \ {0}, k \in Nat \ {0}, o \in Nat :
         /\ p = r.b.nthr_per_group /\ k = Jobs(r, t) /\ o = Off(r, t) /\ s = r.shape
         /\ o + k <= r.njobs
    BY <1>0, <1>1, Working, ReductionFacts
<1>3. PICK jx \in Nat \ {0}, jy \in Nat \ {0}, js \in Nat \ {0} :
         /\ jx = s.job_size_x /\ jy = s.job_size_y /\ js = r.job_size /\ js = jy * jx
    BY <1>2, ShapeFacts, ReductionFacts
<1>4. \A j \in 0 .. k - 1 : NX(s, o + j) = jx /\ NY(s, o + j) = jy
    <2>1. \A j \in 0 .. k - 1 : o + j \in 0 .. r.njobs - 1
        BY <1>2, ReductionFacts
    <2>. QED BY <1>2, <1>3, <2>1, WholeJobs
<1>5. WholeBlocks(s, o, k)
    <2>1. s.x_block \in Nat \ {0} /\ \E v \in Nat \ {0} : jx = v * s.x_block
        BY <1>2, <1>3, ShapeFacts
    <2>. QED BY <1>4, <2>1 DEF WholeBlocks
<1>6. e \in Nat /\ e < k * js
    BY <1>2, <1>3 DEF Elements
<1>7. PICK j \in Nat, x \in 0 .. js - 1 : e = js * j + x
    <2>1. e \div js \in Nat /\ e % js \in 0 .. js - 1 /\ e = js * (e \div js) + (e % js)
        BY <1>6, Quotients
    <2>. QED BY <2>1
<1>8. PICK b \in Nat, a \in 0 .. jx - 1 : x = jx * b + a
    <2>0. x \in Nat
        OBVIOUS
    <2>1. x \div jx \in Nat /\ x % jx \in 0 .. jx - 1 /\ x = jx * (x \div jx) + (x % jx)
        BY <2>0, Quotients
    <2>. QED BY <2>1
<1>9. j < k
    <2>1. j < k <=> j * js + x < k * js
        BY RowOrder
    <2>2. js * j = j * js /\ j * js \in Nat /\ k * js \in Nat
        OBVIOUS
    <2>. QED BY <1>6, <1>7, <2>1, <2>2
<1>10. b < jy
    <2>1. b < jy <=> b * jx + a < jy * jx
        BY RowOrder
    <2>2. jx * b = b * jx /\ b * jx \in Nat /\ jy * jx \in Nat
        OBVIOUS
    <2>. QED BY <1>3, <1>8, <2>1, <2>2
<1>11. PICK w : w = <<j, <<b, a>> >>
    OBVIOUS
<1>12. w \in JobElements(s, o, k)
    <2>1. w \in {j} \X ((0 .. NY(s, o + j) - 1) \X (0 .. NX(s, o + j) - 1))
        BY <1>4, <1>9, <1>10, <1>11
    <2>. QED BY <1>9, <2>1 DEF JobElements
<1>13. PICK i \in 0 .. p - 1 : w \in Share2d(s, o, k, p, i)
    BY <1>5, <1>12, RectanglesArePartition
<1>14. PICK u \in Threads : group_id(r.b, u) = group_id(r.b, t) /\ id_in_group(r.b, u) = i
    BY <1>0, <1>2, <1>13, ThreadAt
<1>15. Mine(r, u) = { q[1] * js + q[2][1] * jx + q[2][2] : q \in Share2d(s, o, k, p, i) }
    <2>1. Jobs(r, u) = Jobs(r, t) /\ Off(r, u) = Off(r, t)
        BY <1>14, Group
    <2>. QED BY <1>2, <1>3, <1>14, <2>1 DEF Mine
<1>16. w[1] * js + w[2][1] * jx + w[2][2] = e
    <2>1. w[1] = j /\ w[2][1] = b /\ w[2][2] = a
        BY <1>11
    <2>2. js * j = j * js /\ jx * b = b * jx /\ j * js \in Nat /\ b * jx \in Nat
        OBVIOUS
    <2>3. j * js + b * jx + a = e
        BY <1>7, <1>8, <2>2
    <2>. QED BY <2>1, <2>3
<1>. QED BY <1>13, <1>14, <1>15, <1>16

\* Each element of a group is one of those that a thread of it adds up.
LEMMA MinesCover ==
    ASSUME NEW r \in Reductions, NEW t \in Threads, NEW e \in Elements(r, t)
    PROVE  \E u \in Threads : group_id(r.b, u) = group_id(r.b, t) /\ e \in Plan(r, u).mine
<1>1. PICK u \in Threads : group_id(r.b, u) = group_id(r.b, t) /\ e \in Mine(r, u)
    BY ReductionFacts, LinesCover, RectanglesCover
<1>2. Jobs(r, u) # 0
    BY <1>1, Group, Workers
<1>. QED BY <1>1, <1>2 DEF Plan

------------------------------------------------------------------------------
(* How far the threads are: what a step changes of it.                     *)

\* Thread t is past its own part of reduction s, and past the sum of it.
Accumulated(s, t) == s < Part(t) \/ (s = Part(t) /\ ~At(t, "compute"))
Added(s, t) == s < Part(t) \/ (s = Part(t) /\ pc[t][2] \in {"second", "done"})

Alone(s) == conv[s].b.nthr_per_group = 1

\* A thread of several is past a sum only when all of its group are past what
\* it adds up.
Awaited ==
    \A s \in Parts, t \in Threads : Added(s, t) /\ ~Alone(s) =>
        \A u \in Members(conv[s], group_id(conv[s].b, t)) : Accumulated(s, u)

LastDone == \A t \in Threads : At(t, "done") => Part(t) = Len(conv)

Course == Awaited /\ LastDone

\* A step takes the threads in C past their own part of a reduction, and those
\* in A past a sum.
Goes(C, A) ==
    /\ UNCHANGED conv
    /\ \A s \in Parts, u \in Threads :
          /\ Accumulated(s, u)' <=> Accumulated(s, u) \/ <<s, u>> \in C
          /\ Added(s, u)' <=> Added(s, u) \/ <<s, u>> \in A

\* Threads that need not add up.
Spared(A) == \A s \in Parts, u \in Threads :
                <<s, u>> \in A => Alone(s) \/ Jobs(conv[s], u) = 0

\* How far the threads are when one of them has gone on.
LEMMA MovedGoes ==
    ASSUME Control, NEW t \in Threads, NEW q \in Parts, NEW place, Moved(t, q, place)
    PROVE  /\ \A s \in Parts, u \in Threads : u # t =>
                 (Accumulated(s, u)' <=> Accumulated(s, u)) /\ (Added(s, u)' <=> Added(s, u))
           /\ \A s \in Parts :
                 /\ Accumulated(s, t)' <=> s < q \/ (s = q /\ place # "compute")
                 /\ Added(s, t)' <=> s < q \/ (s = q /\ place \in {"second", "done"})
<1>1. pc'[t] = <<q, place>> /\ \A u \in Threads \ {t} : pc'[u] = pc[u]
    BY DEF Moved
<1>. QED BY <1>1 DEF Accumulated, Added, Part, At

\* The reduction a thread is at is one of the convolution.
LEMMA PartsAre ==
    ASSUME Control, NEW t \in Threads
    PROVE  /\ Part(t) \in Parts /\ Parts = 1 .. Len(conv) /\ Len(conv) \in Nat
           /\ Now(t) = conv[Part(t)] /\ Now(t) \in Reductions
BY PartFacts DEF Control, Part, Now

\* The end of a thread's part of a section takes it past its own part of the
\* reduction, and past the sum unless a second section follows.
LEMMA EndedGoes ==
    ASSUME Control, LastDone, NEW t \in Threads, UNCHANGED <<sync, conv>>,
           NEW section \in {"first", "second"}, Ended(t, section),
           At(t, "compute") \/ At(t, "sum")
    PROVE  /\ Goes({<<Part(t), t>>}, IF sync \/ section = "second" THEN {<<Part(t), t>>} ELSE {})
           /\ LastDone'
<1>1. /\ Part(t) \in Parts /\ Parts = 1 .. Len(conv) /\ Len(conv) \in Nat /\ sync \in BOOLEAN
      /\ pc \in [Threads -> Parts \X Places]
    BY PartsAre DEF Control
<1>2. PICK q \in Parts, place \in Places :
         /\ pc' = [pc EXCEPT ![t] = <<q, place>>]
         /\ ~sync => q = Part(t) /\ place = section
         /\ sync => \/ q = Part(t) + 1 /\ place = "compute"
                    \/ q = Part(t) /\ place = "done" /\ Part(t) = Len(conv)
    <2>1. CASE ~sync
        <3>1. pc' = [pc EXCEPT ![t] = <<Part(t), section>>] /\ section \in Places
            BY <2>1 DEF Ended, Places
        <3>. QED BY <1>1, <2>1, <3>1
    <2>2. CASE sync /\ Part(t) < Len(conv)
        <3>1. pc' = [pc EXCEPT ![t] = <<Part(t) + 1, "compute">>] /\ "compute" \in Places
            BY <2>2 DEF Ended, Onward, Places
        <3>2. Part(t) + 1 \in Parts
            BY <1>1, <2>2
        <3>. QED BY <1>1, <2>2, <3>1, <3>2
    <2>3. CASE sync /\ ~(Part(t) < Len(conv))
        <3>1. pc' = [pc EXCEPT ![t] = <<Part(t), "done">>] /\ "done" \in Places
            BY <2>3 DEF Ended, Onward, Places
        <3>2. Part(t) = Len(conv)
            BY <1>1, <2>3
        <3>. QED BY <1>1, <2>3, <3>1, <3>2
    <2>. QED BY <1>1, <2>1, <2>2, <2>3
<1>3. Moved(t, q, place)
    BY <1>1, <1>2, Moves
<1>4. q = Part(t) \/ q = Part(t) + 1
    BY <1>1, <1>2
<1>5. ASSUME NEW s \in Parts
      PROVE  /\ Accumulated(s, t)' <=> Accumulated(s, t) \/ s = Part(t)
             /\ Added(s, t)' <=> Added(s, t) \/ (s = Part(t) /\ (sync \/ section = "second"))
    <2>1. /\ Accumulated(s, t)' <=> s < q \/ (s = q /\ place # "compute")
          /\ Added(s, t)' <=> s < q \/ (s = q /\ place \in {"second", "done"})
        BY <1>3, MovedGoes
    <2>2. s \in Nat /\ Part(t) \in Nat
        BY <1>1
    <2>3. CASE q = Part(t)
        BY <1>2, <2>1, <2>2, <2>3 DEF Accumulated, Added, At
    <2>4. CASE q = Part(t) + 1
        BY <1>2, <2>1, <2>2, <2>4 DEF Accumulated, Added, At
    <2>. QED BY <1>4, <2>3, <2>4
<1>6. Goes({<<Part(t), t>>}, IF sync \/ section = "second" THEN {<<Part(t), t>>} ELSE {})
    <2>1. \A s \in Parts, u \in Threads : <<s, u>> = <<Part(t), t>> <=> s = Part(t) /\ u = t
        OBVIOUS
    <2>. QED BY <1>3, <1>5, <2>1, MovedGoes DEF Goes
<1>7. LastDone'
    <2>1. SUFFICES ASSUME NEW u \in Threads, pc'[u][2] = "done" PROVE pc'[u][1] = Len(conv)
        BY DEF LastDone, At, Part
    <2>2. CASE u = t
        <3>1. pc'[t] = <<q, place>>
            BY <1>3 DEF Moved
        <3>. QED BY <1>2, <2>1, <2>2, <3>1
    <2>3. CASE u # t
        BY <1>3, <2>1, <2>3 DEF Moved, LastDone, At, Part
    <2>. QED BY <2>2, <2>3
<1>. QED BY <1>6, <1>7

\* Within reduce(), a thread gets past its own part only.
LEMMA GotoGoes ==
    ASSUME Control, LastDone, NEW t \in Threads, UNCHANGED <<sync, conv>>,
           NEW place \in {"enter", "wait", "sum"}, Goto(t, place),
           pc[t][2] \in {"compute", "enter", "wait"}
    PROVE  /\ Goes({<<Part(t), t>>}, {})
           /\ LastDone'
<1>1. Part(t) \in Parts /\ Parts = 1 .. Len(conv) /\ Len(conv) \in Nat
    BY PartsAre
<1>2. Moved(t, Part(t), place)
    BY Moves DEF Places
<1>3. ASSUME NEW s \in Parts
      PROVE  /\ Accumulated(s, t)' <=> Accumulated(s, t) \/ s = Part(t)
             /\ Added(s, t)' <=> Added(s, t)
    BY <1>1, <1>2, MovedGoes DEF Accumulated, Added
<1>4. Goes({<<Part(t), t>>}, {})
    <2>1. \A s \in Parts, u \in Threads : <<s, u>> = <<Part(t), t>> <=> s = Part(t) /\ u = t
        OBVIOUS
    <2>. QED BY <1>1, <1>2, <1>3, <2>1, MovedGoes DEF Goes
<1>5. LastDone'
    <2>1. SUFFICES ASSUME NEW u \in Threads, pc'[u][2] = "done" PROVE pc'[u][1] = Len(conv)
        BY DEF LastDone, At, Part
    <2>. QED BY <1>2, <2>1 DEF Moved, LastDone, At, Part
<1>. QED BY <1>4, <1>5

\* A group without jobs has no members.
LEMMA NoMates ==
    ASSUME NEW r \in Reductions, NEW t \in Threads, Jobs(r, t) = 0
    PROVE  Members(r, group_id(r.b, t)) = {}
<1>1. SUFFICES ASSUME NEW u \in Members(r, group_id(r.b, t)) PROVE FALSE
    OBVIOUS
<1>2. u \in Threads /\ ~idle(r.b, u) /\ group_id(r.b, u) = group_id(r.b, t)
    BY DEF Members
<1>3. group_id(r.b, t) \in 0 .. r.b.ngroups - 1
    BY <1>2, Numbering, ReductionFacts
<1>4. grp_njobs(r.b, r.njobs, group_id(r.b, t)) \in 1 .. r.b.njobs_per_group_ub
    BY <1>3, ReductionFacts
<1>. QED BY <1>4, ReductionFacts DEF Jobs

\* The mates of a thread that adds up have accumulated.
LEMMA MatesAccumulated ==
    ASSUME IInv, NEW t \in Threads, At(t, "sum"),
           NEW u \in Members(Now(t), group_id(Now(t).b, t))
    PROVE  Accumulated(Part(t), u)
<1>1. Control /\ Synchronised /\ Sectioned /\ u \in Threads
    BY DEF IInv, Members
<1>2. Part(t) \in Parts /\ Part(u) \in Parts /\ Parts \subseteq Nat /\ sync \in BOOLEAN
    BY <1>1, PartsAre DEF Control
<1>3. CASE sync
    <2>1. entered[<<Part(t), u>>] = 1
        BY <1>1, <1>3 DEF Synchronised, Mates
    <2>2. Part(t) < Part(u) \/ (Part(t) = Part(u) /\ pc[u][2] \in {"wait", "sum", "done"})
        BY <1>1, <1>2, <1>3, <2>1 DEF Synchronised
    <2>. QED BY <2>2 DEF Accumulated, At
<1>4. CASE ~sync
    <2>1. Part(t) = Part(u) /\ pc[u][2] # "compute"
        BY <1>1, <1>4 DEF Sectioned, At
    <2>. QED BY <2>1 DEF Accumulated, At
<1>. QED BY <1>2, <1>3, <1>4

\* Awaited is kept if whoever gets past a sum need not wait, or has waited.
LEMMA AwaitedGoes ==
    ASSUME Control, Awaited, NEW C, NEW A, Goes(C, A),
           \A s \in Parts, t \in Threads :
               <<s, t>> \in A => \/ Alone(s) \/ Jobs(conv[s], t) = 0
                                 \/ \A u \in Members(conv[s], group_id(conv[s].b, t)) :
                                       Accumulated(s, u)
    PROVE  Awaited'
<1>1. conv' = conv /\ Parts' = Parts
    BY DEF Goes, Parts
<1>2. SUFFICES ASSUME NEW s \in Parts, NEW t \in Threads, Added(s, t)', ~Alone(s),
                      NEW u \in Members(conv[s], group_id(conv[s].b, t))
               PROVE  Accumulated(s, u)'
    BY <1>1 DEF Awaited, Alone
<1>3. u \in Threads
    BY DEF Members
<1>4. conv[s] \in Reductions
    BY PartFacts DEF Control
<1>5. Accumulated(s, u)
    <2>1. CASE Added(s, t)
        BY <1>2, <2>1 DEF Awaited
    <2>2. CASE <<s, t>> \in A
        BY <1>2, <1>4, <2>2, NoMates
    <2>. QED BY <1>2, <2>1, <2>2 DEF Goes
<1>. QED BY <1>3, <1>5 DEF Goes

\* The end of a section takes those past the sum that need not add up.
LEMMA SectionGoes ==
    ASSUME IInv, LastDone, NextSection
    PROVE  /\ \E A : Goes({}, A) /\ Spared(A)
           /\ LastDone'
<1>1. Control /\ Synchronised /\ Sectioned
    BY DEF IInv
<1>2. /\ UNCHANGED <<sync, conv>> /\ 0 \in Threads
      /\ \/ \A t \in Threads : At(t, "first")
         \/ \A t \in Threads : At(t, "second")
    BY NThrAssumption DEF NextSection, Threads
<1>3. ~sync
    <2>1. SUFFICES ASSUME sync PROVE FALSE
        OBVIOUS
    <2>2. pc[0][2] \notin {"first", "second"}
        BY <1>1, <1>2, <2>1 DEF Synchronised
    <2>. QED BY <1>2, <2>2 DEF At
<1>4. PICK q \in Parts : \A t \in Threads : Part(t) = q
    <2>1. \A t \in Threads : Part(t) = Part(0)
        BY <1>1, <1>2, <1>3 DEF Sectioned
    <2>2. Part(0) \in Parts
        BY <1>1, <1>2 DEF Control, Part
    <2>. QED BY <2>1, <2>2
<1>5. Parts = 1 .. Len(conv) /\ Len(conv) \in Nat
    BY <1>1, <1>2, PartsAre
<1>6. CASE \A t \in Threads : At(t, "first")
    <2>. DEFINE works(t) == Jobs(Now(t), t) # 0 /\ PerGroupOf(t) > 1
                A == { x \in Parts \X Threads : x[1] = q /\ ~works(x[2]) }
    <2>1. \A t \in Threads : pc'[t] = IF works(t) THEN <<q, "sum">> ELSE <<q, "second">>
        BY <1>4, <1>6 DEF NextSection, At
    <2>2. \A t \in Threads : Now(t) = conv[q] /\ Now(t) \in Reductions
        BY <1>1, <1>4, PartsAre
    <2>3. \A t \in Threads : ~works(t) => Alone(q) \/ Jobs(conv[q], t) = 0
        BY <2>2, ReductionFacts DEF Alone, PerGroupOf
    <2>4. \A s \in Parts, t \in Threads : <<s, t>> \in A <=> s = q /\ ~works(t)
        OBVIOUS
    <2>. HIDE DEF works, A
    <2>5. ASSUME NEW s \in Parts, NEW t \in Threads
          PROVE  /\ Accumulated(s, t)' <=> Accumulated(s, t)
                 /\ Added(s, t)' <=> Added(s, t) \/ (s = q /\ ~works(t))
        <3>1. Part(t) = q /\ At(t, "first")
            BY <1>4, <1>6
        <3>2. Part(t)' = q /\ pc'[t][2] = (IF works(t) THEN "sum" ELSE "second")
            BY <2>1 DEF Part
        <3>. QED BY <3>1, <3>2 DEF Accumulated, Added, At
    <2>6. Goes({}, A)
        BY <1>2, <2>4, <2>5 DEF Goes
    <2>7. Spared(A)
        BY <2>3, <2>4 DEF Spared
    <2>8. LastDone'
        <3>1. \A t \in Threads : pc'[t][2] # "done"
            BY <2>1
        <3>. QED BY <3>1 DEF LastDone, At
    <2>. QED BY <2>6, <2>7, <2>8
<1>7. CASE \A t \in Threads : At(t, "second")
    <2>1. \A t \in Threads : pc'[t] = IF q < Len(conv) THEN <<q + 1, "compute">>
                                      ELSE <<q, "done">>
        BY <1>4, <1>7 DEF NextSection, Onward
    <2>2. ASSUME NEW s \in Parts, NEW t \in Threads
          PROVE  /\ Accumulated(s, t)' <=> Accumulated(s, t)
                 /\ Added(s, t)' <=> Added(s, t)
        <3>1. Part(t) = q /\ At(t, "second") /\ s \in Nat /\ q \in Nat
            BY <1>4, <1>5, <1>7
        <3>2. CASE q < Len(conv)
            <4>1. Part(t)' = q + 1 /\ pc'[t][2] = "compute"
                BY <2>1, <3>2 DEF Part
            <4>. QED BY <3>1, <4>1 DEF Accumulated, Added, At
        <3>3. CASE ~(q < Len(conv))
            <4>1. Part(t)' = q /\ pc'[t][2] = "done"
                BY <2>1, <3>3 DEF Part
            <4>. QED BY <3>1, <4>1 DEF Accumulated, Added, At
        <3>. QED BY <3>2, <3>3
    <2>3. Goes({}, {})
        BY <1>2, <2>2 DEF Goes
    <2>4. LastDone'
        <3>1. q = Len(conv) \/ q < Len(conv)
            BY <1>5
        <3>. QED BY <1>2, <2>1, <3>1 DEF LastDone, At, Part
    <2>. QED BY <2>3, <2>4 DEF Spared
<1>. QED BY <1>2, <1>6, <1>7

------------------------------------------------------------------------------
(* What cells hold, beyond the control state.                              *)

\* Some thread of the group of t is past the sum of element e.
Taken(s, t, e) ==
    /\ ~Alone(s)
    /\ \E u \in Threads : /\ group_id(conv[s].b, u) = group_id(conv[s].b, t)
                          /\ Added(s, u) /\ e \in Plan(conv[s], u).mine

HasOwn(s, t, e) == mem[s][get_local_ptr(conv[s], t, e)] = SetToBag({<<t, e>>})

\* What a thread has accumulated stays until the master's is added up.
Kept == \A s \in Parts, t \in Threads : Accumulated(s, t) =>
            \A e \in Elements(conv[s], t) :
                HasOwn(s, t, e) \/ (InDst(conv[s], t) /\ Taken(s, t, e))

Whole(s, t, e) == SetToBag(Members(conv[s], group_id(conv[s].b, t)) \X {e})

\* What has been added up is complete, and stays.
Results == \A s \in Parts, t \in Threads : Added(s, t) /\ ~Alone(s) =>
               \A e \in Plan(conv[s], t).mine :
                   mem[s][Dst(conv[s], t, e)] = Whole(s, t, e)

\* Nobody has accumulated anything at first.
LEMMA ValuesInit ==
    ASSUME Init
    PROVE  Course /\ Kept /\ Results
<1>1. Control /\ pc = [t \in Threads |-> <<1, "compute">>]
    BY Started DEF Init, IInv
<1>2. \A s \in Parts, t \in Threads : ~Accumulated(s, t) /\ ~Added(s, t)
    <2>1. \A s \in Parts : s \in Nat /\ ~(s < 1)
        BY <1>1, PartFacts DEF Control
    <2>. QED BY <1>1, <2>1 DEF Accumulated, Added, At, Part
<1>3. LastDone
    BY <1>1 DEF LastDone, At
<1>. QED BY <1>2, <1>3 DEF Course, Awaited, Kept, Results

\* The sum of an element that nobody has added up yet.
LEMMA TotalIsWhole ==
    ASSUME IInv, Course, Kept, NEW t \in Threads, At(t, "sum"), NEW e \in My(t).mine
    PROVE  Total(t, e) = Whole(Part(t), t, e)
<1>1. Control /\ HasMates
    BY DEF IInv
<1>2. PICK r \in Reductions, s \in Parts : r = Now(t) /\ s = Part(t) /\ r = conv[s]
    BY <1>1, PartsAre
<1>3. /\ My(t).mine = Plan(r, t).mine /\ My(t).sources[e] = Sources(r, t, e)
      /\ Plan(r, t).mine \subseteq Elements(r, t) /\ e \in Elements(r, t)
    BY <1>1, <1>2, MyCells, MinesApart
<1>4. My(t).dst[e] = Dst(r, t, e)
    <2>1. My(t) = Plan(r, t)
        BY <1>1, <1>2, PartFacts DEF My, Control
    <2>. QED BY <1>3, <2>1 DEF Plan
<1>5. Jobs(r, t) # 0 /\ r.b.nthr_per_group # 1
    <2>1. pc[t][2] = "sum"
        BY DEF At
    <2>2. Jobs(r, t) # 0 /\ r.b.nthr_per_group > 1
        BY <1>1, <1>2, <2>1 DEF HasMates, PerGroupOf
    <2>3. \A n \in Nat : n > 1 => n # 1
        OBVIOUS
    <2>4. r.b.nthr_per_group \in Nat
        BY ReductionFacts
    <2>. QED BY <2>2, <2>3, <2>4
<1>. DEFINE g == group_id(r.b, t)
            M == { v \in Members(r, g) : ~InDst(r, v) }
            B == { <<v, e>> : v \in { w \in Members(r, g) : InDst(r, w) } }
            S == Sources(r, t, e)
            cell(v) == get_local_ptr(r, v, e)
            owner == [a \in S |-> <<CHOOSE v \in M : cell(v) = a, e>>]
<1>6. \A v \in Members(r, g) : v \in Threads /\ group_id(r.b, v) = g /\ e \in Elements(r, v)
    BY <1>3, Group DEF Members
<1>7. ASSUME NEW v \in Members(r, g) PROVE mem[s][cell(v)] = SetToBag({<<v, e>>})
    <2>1. Accumulated(s, v)
        BY <1>2, <1>7, MatesAccumulated
    <2>2. ~Taken(s, v, e)
        <3>1. SUFFICES ASSUME NEW u \in Threads, group_id(r.b, u) = g, Added(s, u),
                              e \in Plan(r, u).mine
                       PROVE  FALSE
            BY <1>2, <1>6 DEF Taken
        <3>2. u = t
            BY <1>3, <3>1, MinesApart
        <3>3. ~Added(s, t)
            <4>1. \A n \in Nat : ~(n < n)
                OBVIOUS
            <4>2. s \in Nat
                BY <1>1, PartFacts DEF Control
            <4>. QED BY <1>2, <4>1, <4>2 DEF Added, At
        <3>. QED BY <3>1, <3>2, <3>3
    <2>. QED BY <1>2, <1>6, <2>1, <2>2 DEF Kept, HasOwn
<1>8. S = { cell(v) : v \in M }
    BY <1>3, <1>5, SourcesAre
<1>9. \A v, w \in M : cell(v) = cell(w) => v = w
    BY <1>6, LocalsApart
<1>. HIDE DEF g, S, cell, owner
<1>10. ASSUME NEW a \in S
       PROVE  \E v \in M : a = cell(v) /\ owner[a] = <<v, e>>
    <2>1. PICK v \in M : a = cell(v)
        BY <1>8
    <2>2. (CHOOSE w \in M : cell(w) = a) = v
        BY <1>9, <2>1
    <2>3. owner[a] = <<v, e>>
        BY <2>2 DEF owner
    <2>. QED BY <2>1, <2>3
<1>11. IsFiniteSet(S)
    <2>1. IsFiniteSet(Threads)
        <3>1. 0 \in Int /\ NThr - 1 \in Int
            BY NThrAssumption
        <3>. QED BY <3>1, FS_Interval DEF Threads
    <2>2. M \subseteq Threads
        BY DEF Members
    <2>3. IsFiniteSet(M)
        BY <2>1, <2>2, FS_Subset
    <2>. DEFINE f == [v \in M |-> cell(v)]
    <2>. HIDE DEF M
    <2>4. f \in Surjection(M, S)
        <3>1. \A v \in M : f[v] = cell(v) /\ cell(v) \in S
            BY <1>8
        <3>2. \A a \in S : \E v \in M : f[v] = a
            BY <1>8, <3>1
        <3>3. f \in [M -> S]
            BY <3>1
        <3>. QED BY <3>2, <3>3 DEF Surjection
    <2>. HIDE DEF f
    <2>. QED BY <2>3, <2>4, FS_Surjection
<1>12. ASSUME NEW a \in S
       PROVE  mem[s][a] = SetToBag({owner[a]}) /\ owner[a] \notin B
    <2>1. PICK v \in M : a = cell(v) /\ owner[a] = <<v, e>>
        BY <1>10
    <2>2. v \in Members(r, g) /\ ~InDst(r, v)
        OBVIOUS
    <2>3. mem[s][cell(v)] = SetToBag({<<v, e>>})
        BY <1>7, <2>2
    <2>4. <<v, e>> \notin B
        BY <2>2
    <2>. QED BY <2>1, <2>3, <2>4
<1>13. \A a, b \in S : owner[a] = owner[b] => a = b
    BY <1>10
<1>14. B \cup { owner[a] : a \in S } = Members(r, g) \X {e}
    <2>1. \A v \in M : cell(v) \in S /\ owner[cell(v)] = <<v, e>>
        BY <1>8, <1>9, <1>10
    <2>2. { owner[a] : a \in S } = { <<v, e>> : v \in M }
        BY <1>10, <2>1
    <2>. QED BY <2>2
<1>15. SumOver(mem[s], SetToBag(B), S) = SetToBag(Members(r, g) \X {e})
    <2>1. PICK m, own : m = mem[s] /\ own = owner
        OBVIOUS
    <2>2. /\ \A a \in S : m[a] = SetToBag({own[a]}) /\ own[a] \notin B
          /\ \A a, b \in S : own[a] = own[b] => a = b
          /\ B \cup { own[a] : a \in S } = Members(r, g) \X {e}
        BY <1>12, <1>13, <1>14, <2>1
    <2>. HIDE DEF B, M
    <2>3. PICK W : W = Members(r, g) \X {e}
        OBVIOUS
    <2>4. Collected(m, B, S, own, W)
        BY <2>2, <2>3 DEF Collected
    <2>5. SumOver(m, SetToBag(B), S) = SetToBag(W)
        BY <1>11, <2>4, FoldCollects
    <2>. QED BY <2>1, <2>3, <2>5
<1>16. (IF r.kind = "1d" THEN mem[s][Dst(r, t, e)] ELSE EmptyBag) = SetToBag(B)
    <2>1. CASE r.kind = "1d"
        <3>1. PICK v \in Threads : group_id(r.b, v) = g /\ id_in_group(r.b, v) = 0
            <4>1. 0 \in 0 .. r.b.nthr_per_group - 1
                BY ReductionFacts
            <4>. QED BY <1>5, <4>1, ThreadAt DEF g
        <3>2. v \in Members(r, g) /\ InDst(r, v)
            <4>1. Jobs(r, v) # 0
                BY <1>5, <3>1, Group DEF g
            <4>. QED BY <2>1, <3>1, <4>1, Working DEF Members, InDst
        <3>3. \A w \in Members(r, g) : InDst(r, w) => w = v
            BY <1>5, <1>6, <3>1, OnePerPlace DEF InDst
        <3>4. B = {<<v, e>>}
            BY <3>2, <3>3
        <3>5. cell(v) = Dst(r, t, e)
            BY <3>1, <3>2, Group DEF cell, get_local_ptr, g
        <3>. QED BY <1>7, <2>1, <3>2, <3>4, <3>5
    <2>2. CASE r.kind # "1d"
        <3>1. B = {}
            BY <1>5, <2>2 DEF InDst
        <3>. QED BY <2>2, <3>1 DEF EmptyBag, SetToBag
    <2>. QED BY <2>1, <2>2
<1>. HIDE DEF B
<1>. QED BY <1>2, <1>3, <1>4, <1>15, <1>16, TotalIsSumOver DEF Whole, g, S

Values == Kept /\ Results

\* A step that writes nothing.
LEMMA NothingWritten ==
    ASSUME Control, Values, UNCHANGED mem, NEW C, NEW A, Goes(C, A), Spared(A),
           \A s \in Parts, t \in Threads :
               <<s, t>> \in C => Accumulated(s, t) \/ Jobs(conv[s], t) = 0
    PROVE  Values'
<1>1. conv' = conv /\ Parts' = Parts /\ mem' = mem
    BY DEF Goes, Parts
<1>2. \A s \in Parts : conv[s] \in Reductions
    BY PartFacts DEF Control
<1>3. ASSUME NEW s \in Parts, NEW t \in Threads, Accumulated(s, t)',
             NEW e \in Elements(conv[s], t)
      PROVE  HasOwn(s, t, e) \/ (InDst(conv[s], t) /\ Taken(s, t, e)')
    <2>1. Accumulated(s, t)
        BY <1>2, <1>3, Workers DEF Goes
    <2>2. Taken(s, t, e) => Taken(s, t, e)'
        BY <1>1 DEF Taken, Goes, Alone
    <2>. QED BY <2>1, <2>2 DEF Values, Kept
<1>4. ASSUME NEW s \in Parts, NEW t \in Threads, Added(s, t)', ~Alone(s),
             NEW e \in Plan(conv[s], t).mine
      PROVE  mem[s][Dst(conv[s], t, e)] = Whole(s, t, e)
    <2>1. Jobs(conv[s], t) # 0
        BY DEF Plan
    <2>2. Added(s, t)
        BY <1>4, <2>1 DEF Goes, Spared
    <2>. QED BY <1>4, <2>2 DEF Values, Results
<1>5. Kept'
    BY <1>1, <1>3 DEF Kept, HasOwn
<1>6. Results'
    BY <1>1, <1>4 DEF Results, Whole, Alone
<1>. QED BY <1>5, <1>6 DEF Values

\* What Write() leaves in a cell.
LEMMA Written ==
    ASSUME Control, Stored, NEW t \in Threads, NEW values, Write(t, values)
    PROVE  /\ \A s \in Parts : s # Part(t) => mem'[s] = mem[s]
           /\ \A a \in Cells(Now(t)) :
                 mem'[Part(t)][a] = IF a \in DOMAIN values THEN values[a]
                                    ELSE mem[Part(t)][a]
<1>1. Part(t) \in Parts /\ Parts = DOMAIN mem /\ DOMAIN mem[Part(t)] = Cells(Now(t))
    BY PartsAre DEF Stored, Now
<1>2. mem' = [mem EXCEPT ![Part(t)] =
                   [a \in DOMAIN values \cup DOMAIN @ |->
                       IF a \in DOMAIN values THEN values[a] ELSE @[a]]]
    BY DEF Write
<1>. QED BY <1>1, <1>2

\* The steps. A thread without jobs has nothing to keep.
LEMMA ReturnValues ==
    ASSUME IInv, Course, Values, NEW t \in Threads, Return(t)
    PROVE  Course' /\ Values'
<1>1. Control /\ LastDone /\ Awaited
    BY DEF IInv, Course
<1>2. /\ At(t, "compute") /\ Jobs(Now(t), t) = 0 /\ Ended(t, "first")
      /\ UNCHANGED <<sync, conv>> /\ UNCHANGED mem
    BY DEF Return
<1>3. PICK A : /\ A \in {{}, {<<Part(t), t>>}}
               /\ Goes({<<Part(t), t>>}, A) /\ LastDone'
    BY <1>1, <1>2, EndedGoes
<1>4. Now(t) = conv[Part(t)]
    BY DEF Now
<1>5. \A s \in Parts, u \in Threads : <<s, u>> \in {<<Part(t), t>>} => Jobs(conv[s], u) = 0
    BY <1>2, <1>4
<1>6. \A s \in Parts, u \in Threads : <<s, u>> \in A => Jobs(conv[s], u) = 0
    BY <1>3, <1>5
<1>7. Awaited'
    BY <1>1, <1>3, <1>6, AwaitedGoes
<1>8. Values'
    BY <1>1, <1>2, <1>3, <1>5, <1>6, NothingWritten DEF Spared
<1>. QED BY <1>3, <1>7, <1>8 DEF Course

\* Neither has one that passes the barrier.
LEMMA BarrierValues ==
    ASSUME IInv, Course, Values, NEW t \in Threads, Enter(t) \/ Leave(t)
    PROVE  Course' /\ Values'
<1>1. Control /\ LastDone /\ Awaited
    BY DEF IInv, Course
<1>2. /\ UNCHANGED <<sync, conv>> /\ UNCHANGED mem
      /\ pc[t][2] \in {"enter", "wait"}
    BY DEF Enter, Leave, At
<1>3. PICK place \in {"enter", "wait", "sum"} : Goto(t, place)
    BY DEF Enter, Leave
<1>4. Goes({<<Part(t), t>>}, {}) /\ LastDone'
    BY <1>1, <1>2, <1>3, GotoGoes
<1>5. \A s \in Parts, u \in Threads : <<s, u>> \in {<<Part(t), t>>} => Accumulated(s, u)
    BY <1>2 DEF Accumulated, At
<1>6. Awaited'
    BY <1>1, <1>4, AwaitedGoes
<1>7. Values'
    BY <1>1, <1>2, <1>4, <1>5, NothingWritten DEF Spared
<1>. QED BY <1>4, <1>6, <1>7 DEF Course

\* Nor the end of a section.
LEMMA SectionValues ==
    ASSUME IInv, Course, Values, NextSection
    PROVE  Course' /\ Values'
<1>1. Control /\ LastDone /\ Awaited
    BY DEF IInv, Course
<1>2. UNCHANGED mem
    BY DEF NextSection
<1>3. PICK A : Goes({}, A) /\ Spared(A)
    BY <1>1, SectionGoes
<1>4. LastDone'
    BY <1>1, SectionGoes
<1>5. Awaited'
    BY <1>1, <1>3, AwaitedGoes DEF Spared
<1>6. Values'
    BY <1>1, <1>2, <1>3, NothingWritten
<1>. QED BY <1>4, <1>5, <1>6 DEF Course

\* Nor a turn of the spin loop.
LEMMA StutterValues ==
    ASSUME Course, Values, UNCHANGED vars
    PROVE  Course' /\ Values'
BY DEF vars, Course, Awaited, LastDone, Values, Kept, Results, HasOwn, Taken, Whole,
       Accumulated, Added, Alone, At, Part, Parts

\* A thread without mates is past the sum when it has accumulated.
LEMMA ComputeGoes ==
    ASSUME Control, LastDone, NEW t \in Threads, Compute(t)
    PROVE  /\ \E A \in {{}, {<<Part(t), t>>}} :
                 /\ Goes({<<Part(t), t>>}, A)
                 /\ A # {} => Alone(Part(t))
           /\ LastDone'
<1>1. At(t, "compute") /\ UNCHANGED <<sync, conv>>
    BY DEF Compute
<1>2. CASE sync /\ PerGroupOf(t) > 1
    <2>1. Goto(t, "enter")
        BY <1>2 DEF Compute
    <2>2. pc[t][2] \in {"compute", "enter", "wait"}
        BY <1>1 DEF At
    <2>3. Goes({<<Part(t), t>>}, {}) /\ LastDone'
        BY <1>1, <2>1, <2>2, GotoGoes
    <2>. QED BY <2>3
<1>3. CASE ~(sync /\ PerGroupOf(t) > 1)
    <2>1. Ended(t, "first")
        BY <1>3 DEF Compute
    <2>2. /\ Goes({<<Part(t), t>>}, IF sync THEN {<<Part(t), t>>} ELSE {})
          /\ LastDone'
        BY <1>1, <2>1, EndedGoes
    <2>3. sync => Alone(Part(t))
        <3>1. PerGroupOf(t) = conv[Part(t)].b.nthr_per_group /\ conv[Part(t)] \in Reductions
            BY PartsAre DEF PerGroupOf
        <3>2. PerGroupOf(t) \in Nat \ {0}
            BY <3>1, ReductionFacts
        <3>. QED BY <1>3, <3>1, <3>2 DEF Alone
    <2>. QED BY <2>2, <2>3
<1>. QED BY <1>2, <1>3

\* A thread that accumulates leaves its own contribution in each of its cells.
LEMMA ComputeWrites ==
    ASSUME Control, Stored, NEW t \in Threads, Compute(t)
    PROVE  /\ \A s \in Parts : s # Part(t) => mem'[s] = mem[s]
           /\ \A e \in Elements(Now(t), t) :
                 mem'[Part(t)][get_local_ptr(Now(t), t, e)] = SetToBag({<<t, e>>})
           /\ \A a \in Cells(Now(t)) :
                 (\A e \in Elements(Now(t), t) : a # get_local_ptr(Now(t), t, e)) =>
                     mem'[Part(t)][a] = mem[Part(t)][a]
<1>1. PICK r \in Reductions : r = Now(t)
    BY PartsAre
<1>2. My(t) = Plan(r, t)
    BY <1>1, PartFacts, PartsAre DEF My, Control
<1>3. /\ DOMAIN My(t).local = Elements(r, t)
      /\ \A e \in Elements(r, t) : My(t).local[e] = get_local_ptr(r, t, e)
    BY <1>2 DEF Plan
<1>. DEFINE values == [a \in LocalCells(t) |->
                SetToBag({ <<t, e>> : e \in
                    { x \in DOMAIN My(t).local : My(t).local[x] = a } })]
<1>4. Size(r.reduction, r.b.nthr_per_group, id_in_group(r.b, t)) # 0
    BY SharesOfAll
<1>5. Write(t, values)
    BY <1>1, <1>4 DEF Compute, PerGroupOf
<1>6. DOMAIN values = { get_local_ptr(r, t, e) : e \in Elements(r, t) }
    BY <1>1, MyCells
<1>7. ASSUME NEW e \in Elements(r, t)
      PROVE  values[get_local_ptr(r, t, e)] = SetToBag({<<t, e>>})
    <2>1. PICK a : a = get_local_ptr(r, t, e)
        OBVIOUS
    <2>2. { x \in DOMAIN My(t).local : My(t).local[x] = a } = {e}
        BY <1>3, <2>1, LocalsDiffer
    <2>3. { <<t, x>> : x \in {e} } = {<<t, e>>}
        OBVIOUS
    <2>4. a \in LocalCells(t)
        BY <1>6, <2>1
    <2>. QED BY <2>1, <2>2, <2>3, <2>4
<1>. HIDE DEF values
<1>8. /\ \A s \in Parts : s # Part(t) => mem'[s] = mem[s]
      /\ \A a \in Cells(r) : mem'[Part(t)][a] = IF a \in DOMAIN values THEN values[a]
                                               ELSE mem[Part(t)][a]
    BY <1>1, <1>5, Written
<1>9. \A e \in Elements(r, t) : get_local_ptr(r, t, e) \in Cells(r)
    BY LocalsApart
<1>. QED BY <1>1, <1>6, <1>7, <1>8, <1>9

\* A thread accumulates where no other keeps anything: a destination that was
\* summed up already would have awaited it.
LEMMA ComputeValues ==
    ASSUME IInv, Stored, Course, Values, NEW t \in Threads, Compute(t)
    PROVE  Course' /\ Values'
<1>1. Control /\ LastDone /\ Awaited
    BY DEF IInv, Course
<1>2. PICK s \in Parts, r \in Reductions : s = Part(t) /\ r = Now(t) /\ r = conv[s]
    BY <1>1, PartsAre
<1>3. PICK A \in {{}, {<<s, t>>}} : Goes({<<s, t>>}, A) /\ (A # {} => Alone(s))
    BY <1>1, <1>2, ComputeGoes
<1>4. LastDone'
    BY <1>1, ComputeGoes
<1>5. \A q \in Parts, u \in Threads : <<q, u>> \in A => Alone(q)
    BY <1>3
<1>6. Awaited'
    BY <1>1, <1>3, <1>5, AwaitedGoes
<1>7. /\ \A q \in Parts : q # s => mem'[q] = mem[q]
      /\ \A e \in Elements(r, t) :
            mem'[s][get_local_ptr(r, t, e)] = SetToBag({<<t, e>>})
      /\ \A a \in Cells(r) :
            (\A e \in Elements(r, t) : a # get_local_ptr(r, t, e)) => mem'[s][a] = mem[s][a]
    BY <1>1, <1>2, ComputeWrites
<1>8. conv' = conv /\ Parts' = Parts
    BY <1>3 DEF Goes, Parts
<1>9. ASSUME NEW q \in Parts, NEW u \in Threads, Accumulated(q, u)',
             NEW e \in Elements(conv[q], u)
      PROVE  HasOwn(q, u, e)' \/ (InDst(conv[q], u) /\ Taken(q, u, e)')
    <2>1. CASE q = s /\ u = t
        BY <1>2, <1>7, <1>8, <2>1 DEF HasOwn
    <2>2. CASE ~(q = s /\ u = t)
        <3>1. Accumulated(q, u)
            BY <1>3, <1>9, <2>2 DEF Goes
        <3>2. Taken(q, u, e) => Taken(q, u, e)'
            BY <1>3, <1>8 DEF Taken, Goes, Alone
        <3>3. HasOwn(q, u, e) => HasOwn(q, u, e)'
            <4>1. CASE q # s
                BY <1>7, <1>8, <4>1 DEF HasOwn
            <4>2. CASE q = s
                <5>1. get_local_ptr(r, u, e) \in Cells(r)
                    BY <1>2, <4>2, LocalsApart
                <5>2. \A d \in Elements(r, t) : get_local_ptr(r, u, e) # get_local_ptr(r, t, d)
                    BY <1>2, <2>2, <4>2, LocalsApart
                <5>. QED BY <1>2, <1>7, <1>8, <4>2, <5>1, <5>2 DEF HasOwn
            <4>. QED BY <4>1, <4>2
        <3>. QED BY <3>1, <3>2, <3>3 DEF Values, Kept
    <2>. QED BY <2>1, <2>2
<1>10. ASSUME NEW q \in Parts, NEW u \in Threads, Added(q, u)', ~Alone(q),
              NEW e \in Plan(conv[q], u).mine
       PROVE  mem'[q][Dst(conv[q], u, e)] = Whole(q, u, e)
    <2>1. Added(q, u)
        BY <1>3, <1>5, <1>10 DEF Goes
    <2>2. mem[q][Dst(conv[q], u, e)] = Whole(q, u, e)
        BY <1>10, <2>1 DEF Values, Results
    <2>3. CASE q # s
        BY <1>7, <2>2, <2>3
    <2>4. CASE q = s
        <3>1. e \in Elements(r, u)
            BY <1>2, <2>4, MinesApart
        <3>2. Dst(r, u, e) \in Cells(r)
            BY <3>1, DstApart DEF Cells
        <3>3. ASSUME NEW d \in Elements(r, t), Dst(r, u, e) = get_local_ptr(r, t, d)
              PROVE  FALSE
            <4>1. get_local_ptr(r, t, d) = Dst(r, t, d)
                <5>1. Dst(r, u, e)[1] = "dst"
                    BY DEF Dst
                <5>. QED BY <3>3, <5>1 DEF get_local_ptr
            <4>2. group_id(r.b, u) = group_id(r.b, t)
                BY <3>1, <3>3, <4>1, DstApart
            <4>3. t \in Members(r, group_id(r.b, u))
                BY <4>2, Workers, Working DEF Members
            <4>4. Accumulated(s, t)
                BY <1>1, <1>2, <1>10, <2>1, <2>4, <4>3 DEF Awaited
            <4>5. s \in Nat /\ \A n \in Nat : ~(n < n)
                BY <1>1, PartFacts DEF Control
            <4>. QED BY <1>2, <4>4, <4>5 DEF Accumulated, Compute
        <3>. QED BY <1>2, <1>7, <2>2, <2>4, <3>2, <3>3
    <2>. QED BY <2>3, <2>4
<1>11. Kept'
    BY <1>8, <1>9 DEF Kept
<1>12. Results'
    BY <1>8, <1>10 DEF Results, Whole, Alone
<1>. QED BY <1>4, <1>6, <1>11, <1>12 DEF Course, Values

\* A thread that adds up leaves whole sums in the destinations of its elements.
LEMMA AddUpWrites ==
    ASSUME IInv, Stored, Course, Values, NEW t \in Threads, AddUp(t)
    PROVE  /\ \A s \in Parts : s # Part(t) => mem'[s] = mem[s]
           /\ \A e \in Plan(Now(t), t).mine :
                 mem'[Part(t)][Dst(Now(t), t, e)] = Whole(Part(t), t, e)
           /\ \A a \in Cells(Now(t)) :
                 (\A e \in Plan(Now(t), t).mine : a # Dst(Now(t), t, e)) =>
                     mem'[Part(t)][a] = mem[Part(t)][a]
<1>1. Control
    BY DEF IInv
<1>2. PICK r \in Reductions : r = Now(t)
    BY <1>1, PartsAre
<1>3. My(t) = Plan(r, t) /\ Plan(r, t).mine \subseteq Elements(r, t)
    BY <1>1, <1>2, PartFacts, PartsAre, MinesApart DEF My, Control
<1>4. \A e \in My(t).mine : My(t).dst[e] = Dst(r, t, e)
    BY <1>3 DEF Plan
<1>. DEFINE values == [a \in DstCells(t) |->
                    Total(t, CHOOSE e \in My(t).mine : My(t).dst[e] = a)]
<1>5. Write(t, values)
    BY DEF AddUp
<1>6. DOMAIN values = { Dst(r, t, e) : e \in Plan(r, t).mine }
    BY <1>1, <1>2, MyCells
<1>7. ASSUME NEW e \in Plan(r, t).mine
      PROVE  values[Dst(r, t, e)] = Whole(Part(t), t, e)
    <2>1. PICK a : a = Dst(r, t, e)
        OBVIOUS
    <2>2. \A d \in My(t).mine : My(t).dst[d] = a => d = e
        BY <1>3, <1>4, <2>1, DstApart
    <2>3. e \in My(t).mine /\ My(t).dst[e] = a
        BY <1>3, <1>4, <2>1
    <2>4. (CHOOSE d \in My(t).mine : My(t).dst[d] = a) = e
        BY <2>2, <2>3
    <2>5. a \in DstCells(t)
        BY <1>6, <2>1
    <2>6. values[a] = Total(t, e)
        BY <2>4, <2>5
    <2>. HIDE DEF values
    <2>7. Total(t, e) = Whole(Part(t), t, e)
        BY <2>3, TotalIsWhole DEF AddUp, Values
    <2>. QED BY <2>1, <2>6, <2>7
<1>. HIDE DEF values
<1>8. /\ \A s \in Parts : s # Part(t) => mem'[s] = mem[s]
      /\ \A a \in Cells(r) : mem'[Part(t)][a] = IF a \in DOMAIN values THEN values[a]
                                               ELSE mem[Part(t)][a]
    BY <1>1, <1>2, <1>5, Written
<1>9. \A e \in Plan(r, t).mine : Dst(r, t, e) \in Cells(r)
    BY <1>3, DstApart DEF Cells
<1>. QED BY <1>2, <1>6, <1>7, <1>8, <1>9

\* A thread adds up where no other has a sum; what a master keeps there is
\* taken.
LEMMA AddUpValues ==
    ASSUME IInv, Stored, Course, Values, NEW t \in Threads, AddUp(t)
    PROVE  Course' /\ Values'
<1>1. Control /\ HasMates /\ LastDone /\ Awaited /\ At(t, "sum") /\ Ended(t, "second")
      /\ UNCHANGED <<sync, conv>>
    BY DEF IInv, Course, AddUp
<1>2. PICK s \in Parts, r \in Reductions : s = Part(t) /\ r = Now(t) /\ r = conv[s]
    BY <1>1, PartsAre
<1>3. Goes({<<s, t>>}, {<<s, t>>}) /\ LastDone'
    BY <1>1, <1>2, EndedGoes
<1>4. Awaited'
    <2>1. \A u \in Members(r, group_id(r.b, t)) : Accumulated(s, u)
        BY <1>1, <1>2, MatesAccumulated
    <2>. QED BY <1>1, <1>2, <1>3, <2>1, AwaitedGoes
<1>5. /\ \A q \in Parts : q # s => mem'[q] = mem[q]
      /\ \A e \in Plan(r, t).mine : mem'[s][Dst(r, t, e)] = Whole(s, t, e)
      /\ \A a \in Cells(r) :
            (\A e \in Plan(r, t).mine : a # Dst(r, t, e)) => mem'[s][a] = mem[s][a]
    BY <1>2, AddUpWrites
<1>6. conv' = conv /\ Parts' = Parts
    BY <1>3 DEF Goes, Parts
<1>7. Accumulated(s, t) /\ Added(s, t)' /\ ~Alone(s)
    <2>1. Accumulated(s, t)
        BY <1>1, <1>2 DEF Accumulated, At
    <2>2. Added(s, t)'
        BY <1>3 DEF Goes
    <2>3. PerGroupOf(t) > 1
        BY <1>1 DEF HasMates, At
    <2>. QED BY <1>2, <2>1, <2>2, <2>3 DEF Alone, PerGroupOf
<1>8. ASSUME NEW q \in Parts, NEW u \in Threads, Accumulated(q, u)',
             NEW e \in Elements(conv[q], u)
      PROVE  HasOwn(q, u, e)' \/ (InDst(conv[q], u) /\ Taken(q, u, e)')
    <2>1. Accumulated(q, u)
        BY <1>3, <1>7, <1>8 DEF Goes
    <2>2. Taken(q, u, e) => Taken(q, u, e)'
        BY <1>3, <1>6 DEF Taken, Goes, Alone
    <2>3. HasOwn(q, u, e) => HasOwn(q, u, e)' \/ (InDst(conv[q], u) /\ Taken(q, u, e)')
        <3>1. CASE q # s
            BY <1>5, <1>6, <3>1 DEF HasOwn
        <3>2. CASE q = s
            <4>1. get_local_ptr(r, u, e) \in Cells(r)
                BY <1>2, <3>2, LocalsApart
            <4>2. CASE \A d \in Plan(r, t).mine : get_local_ptr(r, u, e) # Dst(r, t, d)
                BY <1>2, <1>5, <1>6, <3>2, <4>1, <4>2 DEF HasOwn
            <4>3. ASSUME NEW d \in Plan(r, t).mine, get_local_ptr(r, u, e) = Dst(r, t, d)
                  PROVE  InDst(r, u) /\ Taken(s, u, e)'
                <5>1. InDst(r, u)
                    BY <4>3 DEF get_local_ptr, Dst
                <5>2. Dst(r, u, e) = Dst(r, t, d)
                    BY <4>3, <5>1 DEF get_local_ptr
                <5>3. d \in Elements(r, t) /\ e \in Elements(r, u)
                    BY <1>2, <3>2, MinesApart
                <5>4. group_id(r.b, u) = group_id(r.b, t) /\ e = d
                    BY <5>2, <5>3, DstApart
                <5>. QED BY <1>2, <1>6, <1>7, <5>1, <5>4 DEF Taken, Alone
            <4>. QED BY <1>2, <3>2, <4>2, <4>3
        <3>. QED BY <3>1, <3>2
    <2>. QED BY <2>1, <2>2, <2>3 DEF Values, Kept
<1>9. ASSUME NEW q \in Parts, NEW u \in Threads, Added(q, u)', ~Alone(q),
             NEW e \in Plan(conv[q], u).mine
      PROVE  mem'[q][Dst(conv[q], u, e)] = Whole(q, u, e)
    <2>1. CASE q = s /\ u = t
        BY <1>2, <1>5, <2>1
    <2>2. CASE ~(q = s /\ u = t)
        <3>1. Added(q, u)
            BY <1>3, <1>9, <2>2 DEF Goes
        <3>2. mem[q][Dst(conv[q], u, e)] = Whole(q, u, e)
            BY <1>9, <3>1 DEF Values, Results
        <3>3. CASE q # s
            BY <1>5, <3>2, <3>3
        <3>4. CASE q = s
            <4>1. e \in Elements(r, u) /\ Plan(r, t).mine \subseteq Elements(r, t)
                BY <1>2, <3>4, MinesApart
            <4>2. Dst(r, u, e) \in Cells(r)
                BY <4>1, DstApart DEF Cells
            <4>3. \A d \in Plan(r, t).mine : Dst(r, u, e) # Dst(r, t, d)
                BY <1>2, <2>2, <3>4, <4>1, DstApart, MinesApart
            <4>. QED BY <1>2, <1>5, <3>2, <3>4, <4>2, <4>3
        <3>. QED BY <3>3, <3>4
    <2>. QED BY <2>1, <2>2
<1>10. Kept'
    BY <1>6, <1>8 DEF Kept
<1>11. Results'
    BY <1>6, <1>9 DEF Results, Whole, Alone
<1>. QED BY <1>3, <1>4, <1>10, <1>11 DEF Course, Values

\* Every step keeps Course and Values.
LEMMA StepValues ==
    ASSUME IInv, Stored, Course, Values, [Next]_vars
    PROVE  Course' /\ Values'
<1>1. ASSUME NEW t \in Threads, Step(t) PROVE Course' /\ Values'
    <2>1. CASE Return(t)
        BY <2>1, ReturnValues
    <2>2. CASE Compute(t)
        BY <2>2, ComputeValues
    <2>3. CASE Enter(t) \/ Leave(t)
        BY <2>3, BarrierValues
    <2>4. CASE Spin(t)
        BY <2>4, StutterValues DEF Spin
    <2>5. CASE AddUp(t)
        BY <2>5, AddUpValues
    <2>. QED BY <1>1, <2>1, <2>2, <2>3, <2>4, <2>5 DEF Step
<1>2. CASE NextSection
    BY <1>2, SectionValues
<1>3. CASE UNCHANGED vars
    BY <1>3, StutterValues
<1>. QED BY <1>1, <1>2, <1>3 DEF Next

\* When all threads are through, so are all sums.
LEMMA SumsEnd ==
    ASSUME IInv, Course, Values
    PROVE  ReductionComplete
<1>1. Control /\ LastDone
    BY DEF IInv, Course
<1>2. SUFFICES ASSUME AllDone, NEW s \in Parts, NEW t \in Threads,
                      NEW e \in DOMAIN plan[conv][s][t].dst
               PROVE  mem[s][plan[conv][s][t].dst[e]] =
                          SetToBag(Members(conv[s], group_id(conv[s].b, t)) \X {e})
    BY DEF ReductionComplete
<1>3. PICK r \in Reductions : r = conv[s]
    BY <1>1, PartFacts DEF Control
<1>4. plan[conv][s][t] = Plan(r, t)
    BY <1>1, <1>3, PartFacts DEF Control
<1>5. e \in Elements(r, t) /\ plan[conv][s][t].dst[e] = Dst(r, t, e)
    BY <1>2, <1>4 DEF Plan
<1>6. \A u \in Threads : Accumulated(s, u) /\ Added(s, u)
    <2>1. ASSUME NEW u \in Threads PROVE At(u, "done") /\ (s < Part(u) \/ s = Part(u))
        BY <1>1, <1>2, PartsAre DEF AllDone, LastDone
    <2>. QED BY <2>1 DEF Accumulated, Added, At
<1>7. CASE Alone(s)
    <2>1. r.b.nthr_per_group = 1 /\ InDst(r, t) /\ ~Taken(s, t, e)
        BY <1>3, <1>7 DEF Alone, InDst, Taken
    <2>2. mem[s][Dst(r, t, e)] = SetToBag({<<t, e>>})
        BY <1>3, <1>5, <1>6, <2>1 DEF Values, Kept, HasOwn, get_local_ptr
    <2>3. \A u \in Threads : id_in_group(r.b, u) \in 0 .. 0
        BY <2>1, Numbering
    <2>4. Members(r, group_id(r.b, t)) = {t}
        <3>1. t \in Members(r, group_id(r.b, t))
            BY <1>5, Workers, Working DEF Members
        <3>2. \A u \in Members(r, group_id(r.b, t)) : u = t
            <4>1. \A u \in Threads : id_in_group(r.b, u) = 0
                BY <2>3
            <4>. QED BY <4>1, OnePerPlace DEF Members
        <3>. QED BY <3>1, <3>2
    <2>5. {t} \X {e} = {<<t, e>>}
        OBVIOUS
    <2>. QED BY <1>3, <1>5, <2>2, <2>4, <2>5
<1>8. CASE ~Alone(s)
    <2>1. PICK u \in Threads : group_id(r.b, u) = group_id(r.b, t) /\ e \in Plan(r, u).mine
        BY <1>5, MinesCover
    <2>2. mem[s][Dst(r, u, e)] = Whole(s, u, e)
        BY <1>3, <1>6, <1>8, <2>1 DEF Values, Results
    <2>3. Dst(r, u, e) = Dst(r, t, e)
        BY <2>1, Group
    <2>. QED BY <1>3, <1>5, <2>1, <2>2, <2>3 DEF Whole
<1>. QED BY <1>7, <1>8

(***************************************************************************)
(* ReductionComplete holds for any number of threads, any sequence of      *)
(* reductions and both ways to synchronise: when all threads are through,  *)
(* each element of the weights and of the bias is the sum of exactly one   *)
(* contribution of each thread of its group.                               *)
(***************************************************************************)
THEOREM SumsComplete == Spec => []ReductionComplete
<1>1. Init => Course /\ Values
    BY ValuesInit DEF Values
<1>2. (IInv /\ Stored) /\ (Course /\ Values) /\ [Next]_vars => (Course /\ Values)'
    BY StepValues
<1>3. (IInv /\ Stored) /\ (Course /\ Values) => ReductionComplete
    BY SumsEnd
<1>. QED BY <1>1, <1>2, <1>3, Invariance, PTL DEF Spec
==============================================================================
